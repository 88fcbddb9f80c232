# Verification of gog-marketing

TLA+ modules, TLC configurations and TLAPS proofs for the parts of this repository in
which several actors change shared state: the hosted Worker's Google connections, the
authority of its tool calls, the chat's write approvals and budgets, the self-hosted
control plane, and, on the command line, the Gmail watch consumer and the batches of
Docs requests.

## 1. The system

gog-marketing is a Go command line for Google services (`gog`), a hosted Cloudflare Worker
that offers the same tools over MCP and in a chat (`internal/hosted/app`, TypeScript, tables
in D1, conversations in Durable Objects), a Go runner that executes single tools for the
Worker (`internal/hosted/runner`), and an older self-contained control plane in Go
(`internal/controlplane`, PostgreSQL).

| Component | State it keeps | Operations | What makes it correct | Modelled |
|---|---|---|---|---|
| Connection lifecycle: `connect.ts`, `repository.ts` | connections, encrypted credentials, OAuth states, audit rows in D1 | start connect or reconnect, OAuth callback, refresh, disconnect | credentials and identity of a connection belong to the account that consented; identities are unique; states are used once; disconnection is final | `HostedConnections`, `CredentialVault` |
| Tool calls and grants: `mcp.ts`, `tool-permissions.ts`, `repository.ts` | tool grants, resource grants, inventory | authorise and execute a call, save grants, discover resources | a call uses only authority that was in force while it ran; an ambiguous choice is never made; discovery enables nothing | `HostedToolCalls` |
| Gmail watch: `internal/gmailwatch`, `cmd/gmail_watch_*.go` | state file, cached state, history cursor | push or pull a notification, list, fetch, hook, record, restore; start, renew, stop | no message is forgotten, the cursor skips nothing, every message is handled in the end | `GmailWatch` |
| Chat approvals: `chat/tools.ts`, `agent.ts`, `routes.ts` | approvals in a Durable Object, tombstones in D1 | request, respond, consume, expire, dispatch; delete and purge a conversation | a write runs once and exactly as approved; what is settled stays settled; nothing happens in a purged conversation any more | `ChatApprovals`, `ApprovedOnce` |
| Chat budgets: `threads.ts`, `model-budgets.ts`, `model-fetch.ts` | counters in D1, an older version's counts in a Durable Object | carry over, reserve a start, reserve a request's meters, authorise twice, send | no more starts and nothing more is sent than the limits allow; nothing is sent on an old authorisation | `ChatBudgets` |
| Control plane: `internal/controlplane/service.go`, `postgres.go`, `secrets.go` | connection rows, OAuth states, secrets, token locks | create, rename, grant, consent, refresh, disconnect, reap | identity and credential of a row belong together; an account is connected once | `ControlPlane` |
| Docs batches: `docsbatch`, `filelock`, `cmd/batch.go` | one file per batch, the document | begin, queue, end in four ways, abort, prune, under a file lock | a request is applied once, in order, to the document it was computed for, and none gets lost | `DocsBatch`, `DocumentQueue` |
| Google transport: `googleapi` | retries, circuit breaker | round trip | a repeated write is not applied twice where it matters | its outcomes in `DocsBatch` |
| Quotas, picker, sessions, runner, UI, discovery and pages of the control plane, backup, secrets, local accounts, tracking, commands, formatting | see `PROJECT.json` | | | no, reasons there |

How the modelled parts interact. A browser's OAuth callback, an MCP call and a settings
page are separate Worker requests. They share only the D1 tables, and every `await` of a
statement or of Google lets any other request run. The tables are linked by foreign keys:
deleting a connection deletes its credential, grants and inventory. A tool call reads all
of these tables one statement at a time and may refresh the credential on its way. The
chat executes tools through the same tables once `consume` has let a write through; a turn
passes its budgets first. Its approvals live in the conversation's own Durable Object, which
handles one event at a time but starts the next at every `await`; whether the conversation
still exists is a row in D1. The control plane shares nothing with the Worker: its handlers are
goroutines of one process over PostgreSQL, a secret store and one mutex per connection. The Gmail
watch and the batches belong to the command line: Pub/Sub calls a handler, the handler calls Gmail
and a user's hook, and a state file behind a file lock is shared with `watch start`, `renew` and
`stop` of other processes; batch files are shared the same way by every command with `--batch`.

What is hard here: requests that go on with what they read before an await (a disconnect, a
second callback or a saved choice came in between), two statements that belong together, a
Worker killed between them, rows rewritten whole from an old copy, limits tested on a listing,
answers of Google that never arrive, notifications that Pub/Sub duplicates, delays or reorders,
hooks that fail after the cursor has moved, and files that several processes write. The
`hazards` of `PROJECT.json` list each of these at its line, with the properties that watch it.

## 2. Modules

### HostedConnections

One module for all requests on connections: each of `Requests` is an invocation of the
Worker with a program counter `pc` and the locals it carries over its awaits (`target`,
`ticket`, `identity`, `token`, `seen`, ...). One D1 statement is one atomic step, as is one
answer of Google.

| State | Code |
|---|---|
| `rows`, `subject`, `status` | `hosted_google_connections`; a placeholder row has subject `Pending` |
| `credential` | `hosted_connection_credentials`; the ciphertext is a token of `Tokens` |
| `oauthState`, `binding` | `hosted_oauth_states`: free, issued, consumed or deleted, and what a state was issued for |
| `minted`, `dead` | Google: whose grant a token is, and which grants no longer work |
| `auditLog` | `hosted_audit_events`, for the events in `TrackedEvents` only |
| `created`, `consented`, `uses` | history: connections ever created, the account the first consent named, exchanges per state |

The callback is the sequence `PresentState`, `ConsumeState`, `LoadConnection`,
`ExchangeCode` (or `ExchangeFails`, then `MarkConnectionFailed`), `FindIdentityConflict`,
`StoreCredential`, `RecordIdentity` (or `IdentityThrows`), `Activate`; refresh and
disconnect are sequences of the same kind. `Crash` ends an invocation between any two steps
when `MayCrash`. Data that no property tells apart (scopes, key versions, return paths) is left
out. `findIdentityConflict` compares the subject and the e-mail address (`repository.ts:162`); of
addresses the model only knows that any row with an identity may have the same (`MayShareAddress`).

`CredentialVault` is what that store promises, without requests or Google: a vault per
connection is opened once, belongs to one owner for good, holds only the owner's
credential, and stays empty once closed. `HostedConnections` implements it under the
mapping `opened <- created, open <- rows, owner <- consented, held <- HeldSubject`.

### HostedToolCalls

Tool calls, settings pages and discovery on top of `CredentialVault`: whatever the requests
of `HostedConnections` do to a connection is a `VaultNext` step here, so the two modules
compose by refinement instead of by a product of their state spaces. A call collects the
connections, tool grants, resource grants, policy rows and credential it needs in separate
reads; `Execute` is the call of the runner. `during` is history: what has been true of each
candidate connection since the call arrived. A page saves its grants in one batch
(`SaveToolGrants`, `SaveResourceGrants`). A discovery asks Google first (`Discover`), then reads
which of the listed resources are enabled (`ListKnown`), and writes them in batches of `ChunkSize`
rows (`InsertChunk`).

### GmailWatch

Gmail is a history of records (record i adds message i), Pub/Sub a set of published and
acknowledged notifications, the consumer a set of handlers. `Process`, `Handle`, `resync`
and the delivery are one action per repository operation or outside call; `file`, `exists`
and `mem` are the state file, its existence and `Repository.state`. `Receive` may hand over
any published notification at any time, also one that was acknowledged before (a lost
acknowledgement). One handler is `watch pull`, which asks for one outstanding message;
two or more are `watch serve`. The clock is left out: a rate limit may be found expired at
any later check.

### ChatApprovals and ApprovedOnce

`op` is one pass of a turn or of a browser frame through `GoogleApprovals`: the registry read
(`Authorize`), Clerk's answer (`Verify`), for `request` the listing (`List`) and the expiry of old
entries (`ExpireEntry`), then the transaction of `request`, `respond` or `consume`, and `Dispatch`;
other operations come between any two. `store` holds the entries `google-approval:*`. Call ids and
histories come from outside, so any operation may ask for any id with any arguments. `Start` records
whether the operation was entitled to act when it began. The deletion is `Tombstone` in D1, `Wipe`
(the turns are cancelled and the storage deleted), `Teardown` (the object is aborted, in a later
step: operations under way go on in between, but none that the cancellation reached) and
`MarkPurged`; two requests to delete may overlap, fail on the way and be repeated. `ApprovedOnce` is
the promise without clock, storage or requests: a call is asked about, answered once, released if
approved, carried out once with what was asked about. `ChatApprovals` implements it with `verdict <-
Verdict`, `asked <- Asked`.

### ChatBudgets

A turn reads the older version's counts (`ReadLegacy`), seeds minute and day, reads the clock,
carries the day into the month, and increments minute, day, month, one statement each; then any
number of model requests follow: `CallModel` asks for the session and `Compare` reads the selected
model, then `Reserve` (one batch, each upsert for itself), `Recheck` and `Compare` once more, and
`Dispatch`. The selection is compared each time, so a turn whose model is switched away and back goes
on, as in the code. The clock (`Tick`), sign-out, a switch of the model and the deletion of the
original conversation come between any two steps. `starts` and `usage` are the counters by scope,
meter and period.

### ControlPlane

`row`, `oauth`, `secret`, `lock` are the tables, the secret store and `tokenLocks`; `forgotten` are
secrets that `FileSecretStore.Delete` took out of its map without being able to write the file: the
next write drops them, a restart (`Restart`) brings them back. `op` is a handler with its copy of
the row. Every statement, call to Google or to the secret store is a step that may also fail, a row
is written whole (`Update`), and `Conflicts` is the unique index. `saveToken` is `PutSecret`,
`SaveRef` or `SaveFails`, `DropOld`, with the reaper (`doomed`, `Reap`) it may leave behind. A
consent for an account that is connected elsewhere marks its row and then, in a second statement,
discards it if it was a stub (`CheckIdentity`, `DiscardStub`). Operations that change only columns
nobody compares are `Touch`.

### DocsBatch and DocumentQueue

`file` is the batch file, `lock` the flock, `cmd` a process, `log` the document as the list of
updates applied to it, so that its length is its revision. `Capture` is a command that computes
requests against the revision it read; `ReadForAppend` and `WriteAppend` queue them; `StartEnd`,
`ReadForEnd`, then `Applied` or `NotApplied` (the update with its retries, up to Google's answer)
and a `Settle` step per update submit the batch. Revision ids of the document are numbers, requests
are numbered as they are made. `queue`, `dropped`, `rejected` and `made` are history.

`DocumentQueue` is what a batch promises, without files, locks, processes and revisions: opened
once, it takes new requests at its end while it is open; they go to the document from the front,
once, past those the user was told have failed; it closes when none of its requests waits, or is
given up with all that wait. `DocsBatch` implements it under `line <- queue, open <- OpenBatches`
(a file exists), `used <- begun, applied <- InDocument, refused <- rejected, discarded <- GivenUp`: a
request whose update was applied without an answer is still in its file, but no longer waits.

### Configurations and proofs

Each `MC` module adds only values and symmetry sets; the theorems of a module are in the module
with `Proofs` added to its name. Definitions introduced as a *fault* (`AnyStateRow`, `AnyRow`,
`AdvancedPast`, `StillApproved`, ...) are plausible bugs: put in place of the definition they
follow, each makes the property listed with it in `PROJECT.json` fail.

## 3. What the runs check

| Run | Instance | Shows |
|---|---|---|
| `hosted_connections` | 2 connections, 2 states, 2 tokens, 2 accounts, 2 invocations, kills | types and the invariant behind the proofs; credentials and identities belong to the consenting account; identities are unique; states are used once; disconnection is final; the store implements the vaults |
| `tool_choice` | 2 connections, an account-level tool, 1 call, 1 page | a call that names no connection is executed only when no other connection could have served it all along |
| `tool_grants` | 1 connection, a tool on 2 resources, 1 call, 2 pages, batches of 1 | a call uses only authority in force since it arrived; grants never outlive their connection; discovery enables nothing |
| `watch_pull` | 1 handler, history up to 4, message 3 excluded, hook and Gmail fail | no message is forgotten; every message is handled in the end or the user has to authorise again |
| `watch_serve` | 2 handlers, history up to 3, state writes fail, the hook accepts | the cursor skips nothing however the handlers overlap |
| `watch_faults` | 1 handler, history up to 2, kills, failing writes, `start`, `renew`, `stop` | the cursor moves back only for a registration, a stop, or a handler that takes back its own advance |
| `chat_approvals` | 1 call id, 2 arguments, 2 operations, 2 requests to delete, an approval lives 2 ticks of 2 | a write runs once and exactly as approved, by somebody entitled when the operation began; what is settled stays settled; once a conversation is purged nothing is asked, answered, released or dispatched in it; the promise is implemented |
| `chat_limit` | 3 call ids, 2 operations, limit 1 | the cap of pending approvals may be passed, by fewer than the operations under way |
| `chat_budgets` | 1 tenant, 2 turns, 2 days of one minute in one month, limits 1 (2 starts a minute), up to 2 starts of the older version per period, which is above the day's limit; the model switched there and back | neither starts nor requests above the limits, whatever overlaps; no dispatch on an old authorisation |
| `control_plane` | 2 connections, 2 accounts, 2 secrets, 2 OAuth states, 2 handlers, failed deletions, restarts | a row never pairs an account with another's credential; no account or credential is used by two live connections |
| `docs_batch` | 1 batch, 2 processes, 3 requests, 2 changes of the document, updates of at most 2 requests, kills | every request once, in order, on its own document, none lost; the batches are queues; every command whose own calls to Google are answered ends |
| `failed_consent` | as `hosted_connections` | refuted, see section 5 |

Why these bounds. Every safety property of connections relates at most two connections or two
invocations; two tokens let a refresh and a reconnect each hold one. An ambiguous choice needs two
connections, and no resource; stale authority needs one connection with both kinds of grant. The
chunks of a discovery need two resources with batches of one; its race with a saved choice needs two
pages. (Two connections with resource-level tools are the theorems' part: 1.5 million states of that
instance were explored without an error, in more than three minutes.) History up to 3 gives two
handlers one message each; up to 4 with an excluded message gives a mixed batch and a wholly
excluded one. The properties marked *proved* below hold for every value of these constants. What
larger instances could still show concerns what section 4 lists as only model-checked. `chat_limit`
has one moment of time; what listings lose as the clock moves is the theorem's part. One call id
suffices for approvals, as entries do not look at each other except to be counted, which is what
`chat_limit` is for. Budgets need two turns for a race on each counter, one of which is last in its
day; tenants meet only in the global meters, which are the same upsert with another key, and that
what two of them send adds up under a global meter is the theorem's part. Two handlers and two
secrets are what it takes for a row to be written back after its credential was replaced; the races
of three are the theorem's part. A batch needs three requests for an update of two with a rest, and
two changes of the document for one between two updates. Symmetry is used, in runs without liveness,
over everything the specification only compares: invocations, handlers, connections, states, tokens,
accounts, pages and resources. `CHECK_DEADLOCK FALSE`: when the tokens, states and history of an
instance are used up and no request is under way, the system really has nothing to do.

### Fairness

`watch_pull` and `docs_batch` use it (`FairSpec`). A running process keeps running its handlers: weak
fairness of each handler's steps. Any single attempt at Gmail, the hook or the rate limit may
fail, but not for ever: strong fairness of the successful outcomes (`RateLimitIsClosed`,
`ListHistory`, `Resync`, `FetchMessages`, `HookAccepts`). Pub/Sub redelivers what was nacked
or never acknowledged: strong fairness of `Redeliver` for each unacknowledged mail
notification, the retention period being left out. Nothing is assumed of acknowledged
notifications, of new mail, or of users. A failed authorisation ends the obligation, because
the code acknowledges the push and waits for the user (`http.go:152`).

The steps of a handler include its calls to Gmail and to the hook: weak fairness of them assumes that
each call returns, with whatever outcome, which the code enforces for the hook but not for the body
of an answer of Google (`googleapi/client.go:20-26`, `256`).

A batch command that was started makes the steps it makes by itself: weak fairness of `Proceeds`,
which includes the deadline of the lock's poll (`GiveUp`). Nothing is assumed of Google's answers
(`Answered`): the HTTP client waits for headers with a timeout and for the body without one. So
`CommandsEnd` speaks of a command whose own calls are answered; another may hold the lock over a
call that never is, and those that wait for it end all the same. No outcome is preferred: a command
that ends is one that gave up, failed or succeeded.

## 4. What is proved

For every value of the constants, from the named assumptions in the modules (None and its like are
not among the values they stand beside; bounds are naturals, and those the code sets to a positive
number positive, such as the cap of approvals, 100, or of an update, 500; a day's limit of starts is
at most a month's, 100 and 1000, while the older version's counts are related to no limit; flags are
Booleans; the ids, operations and turns that are counted are finitely many). Each theorem follows
the same course: the type invariant is inductive by itself, a strengthening is inductive relative to
it, one step per action, and the property follows from the two.

- **Connections.** `TypeCorrect`; `ConsentIsInvariant`, whose invariant `ConsentInv` says
  that a connection has one connect state, that only the holder of that state can be about to
  learn the connection's account, and that every credential, identity and local in flight goes
  back to it. `CredentialIdentity` alone is not inductive: a reconnect compares Google's answer
  with a snapshot, so the snapshot must be tied to the consent, and the consent to a single
  state. `CredentialsAreTheOwners`, `DisconnectionIsFinal` and `ConnectionsImplementVaults`
  follow; `IdentitiesAreUnique` rests on the unique index, `StatesAreOneUse` on the
  conditional update of the state.
- **Tool calls.** `TypeCorrect`; `AuthorityIsCollected` (`Inv`): candidates a call still
  considers were active, and carry the grants read so far, at some time since it arrived
  (`Collected`), and a connection that could have served it all along is still considered
  (`Complete`). `RevocationIsHonoured` and `ChoicesAreUnambiguous` read off its last step.
  `GrantsBelongToConnections` comes from the foreign keys, and needs no more than them;
  `OnlyUsersEnable` from the conflict clause of the upsert, which keeps the stored choice.
  Together with `ConnectionsImplementVaults` these hold over the detailed store.
- **Watch.** `TypeCorrect`; `ServeSkipsNothing` under `ReliableHook` (any number of handlers,
  failing writes; `ServeInv` says every cursor a handler has read or will write is covered by
  what was delivered or fetched); `PullForgetsNothing` under `ReliablePull` (one handler,
  failing hook, source and credentials; `PullInv` says that what the current listing did not
  bring has a notification of its own outstanding, and that a handler that has moved the
  cursor can take back exactly its own advance). Both conditions are needed: section 5 lists
  what happens without them. `RewindsAreOwn` needs neither, and holds with kills and commands.
- **Chat approvals.** All properties. The invariant is a conjunction of named parts: once the
  storage was deleted nothing is taken for execution any more, and once the object was aborted no
  operation is under way and none gets past `Authorize` (`Gone`); until the storage is deleted, an
  id is only ever asked about with one set of arguments, since its entry stays, and what is approved
  or consumed was approved by the user (`Entered`); an entry that was released is spent for good,
  whatever stale listing an operation still carries (`Freed`), and one operation at most is about to
  dispatch it (`Once`). `SettledStays` and the refinement `ImplementsPromise` are proved step by
  step from it: every action is one `ApprovedOnce` step or, as the verdicts show, none. The cap,
  `ActiveStaysBounded`, needs an invariant of its own, `BoundInv`: unexpired entries, together with
  the operations whose listing lets them add one, stay below the cap and the number of operations.
  An operation that lists below the cap is the most that can join; one that adds an entry leaves. As
  a listing loses entries while the clock moves, an operation refused now could be let through by
  the same listing later, so the invariant is said of every time from now on; and once the storage
  was deleted it counts all operations under way, since the listings they carry no longer bound what
  they add.
- **Chat budgets.** `TypeCorrect` includes that no counter passes its limit by an increment, a seed
  or the carried day, unless the older version's own count, which is taken over as it is, had;
  `DispatchedFresh` that the second authorisation really is later than the reservation. Neither says
  what was let through. `StartsStayWithin` takes two invariants. `SeedInv`: a turn past a seed has
  the older version's count in the counter it will increment, also if it read that count before the
  original conversation was deleted, and a deletion only comes after both seeds. `CountInv`: a
  counter that any turn has passed holds the older version's starts, those admitted since, and one
  for each turn between its increment and admission; a refused turn leaves it higher, never lower.
  `SentStaysWithin` rests on `HeldInv`: a meter was charged all that was sent, and in full what each
  turn between its reservation and the provider holds of it. The sum over those turns is stated as
  the number of pairs of a turn and a unit of its weight, so that facts about finite sets suffice.
- **Control plane.** `CredentialsMatch` and `IdentitiesAreUnique` by `IInv`: rows *and* the copies
  in flight pair a reference with the account of its secret (`Matching`), a reference belongs to
  one connection and its operations (`Owned`), and was issued (`Issued`). Every action but
  `PutSecret` is *tame*: it takes a copy, keeps it, names the consent's account while there
  is no new credential yet, or writes a copy past the index; one lemma covers them all. `PutSecret`
  is the only step that pairs, and its reference is new.
- **Docs batches.** `RequestsAppliedOnce`, `RequestsMeetTheirDocument`, `RequestsAreKept`,
  `RequestsKeepTheirOrder`. First, each action is put into one of a few shapes (a command takes the
  file, an update is accepted, an answer is settled, ...). The invariant then says: whoever is past
  the lock carries its file as it is (`Copied`, `Submitted`), and the revision of a file, or of a
  command's copy, is old as soon as one of its requests was applied, so that Google refuses them;
  requests of two batches, and of a file and an append under way, are distinct (`Apart`, `Fresh`).
  The order needs `OrderInv` on top: a file lists its requests in the order of their queue, which
  names each once (`Lined`), and what a command has set aside before the part it is about to send
  was rejected (`SetAside`); so whatever was queued before a request of that part is in it, in the
  document or rejected. The refinement `BatchesAreQueues` adds that a discarded request was queued
  and is in no file any more (`Thrown`): appending is `Enqueue`, an accepted update `Apply`, a taken
  answer that empties the file `Close`, a failure alone `Refuse`, abort and prune `Abandon`, and all
  else no step of a queue.

Only model-checked: `MailIsHandled` and `CommandsEnd` (liveness under fairness is out of the
prover's reach) and the refuted statement. Every invariant and action property of the passing runs,
and the three refinements, are theorems.

## 5. Where the code and its own words differ

One statement is refuted by a run; its definition quotes the sentence it states.

- `failed_consent`: a failing reconnect callback that overlaps the first connect decides from
  its old snapshot that the row is a placeholder and deletes the verified connection
  (`connect.ts:625`, against the comment at 628).

Seen while modelling, without a run of their own. Paths are below `src/internal` or `src`:

*Hosted connections and calls.*

- Two callbacks with the same account both pass the conflict check; the second is stopped by the
  unique index after it stored its credential, and nobody cleans up (`connect.ts:767`).
- A refused refresh deletes whatever credential the connection has by then, also one a reconnect
  just stored (`connect.ts:1164`).
- The disconnect event is appended after its connection is gone, and refused (`connect.ts:1112`,
  against `README.md:49`); so is the row of a call that ran meanwhile (`mcp.ts:1142`).
- A refresh that began between the two writes of a callback writes the placeholder identity
  back over the verified one (`connect.ts:1201` through `repository.ts:171-174`).

*Watch.*

- With two pushes at once a failed hook's rewind is suppressed by the other advance, and its
  messages are lost (`state.go:113`, against `docs/watch.md:241`).
- The cursor and the duplicate marker are written before the hook is called; a crash in between
  loses the messages (`processor.go:213`, against `docs/watch.md:248`).
- `ListHistory` reads one page of `HistoryMax` records but the cursor advances to the mailbox's
  current id, so a backlog larger than a page is passed over (`processor.go:194-198`, against
  `docs/watch.md:236-237`). The runs and theorems about mail assume `NoBacklog`.
- Any handler's success clears the recovery marker that another handler's failure has set
  (`state.go:92`, against `docs/watch.md:238`).
- `Update` recreates a state file that `watch stop` has just removed (`repository.go:133`,
  against `docs/watch.md:101`).
- A renewal outside recovery takes the cursor of the new registration and jumps over mail that was
  not delivered yet (`state.go:109`); `EveryMessageIsOwed` excuses it.

*Chat.*

- A turn refused by its day or month has been counted in the minute, or minute and day
  (`threads.ts:193`): the counters over-count refusals, never under-count starts.
- The month is raised to the day's count (`threads.ts:178-191`) before the turn's own increments.
  When two turns overlap, a start that the first has counted in the day only is carried into the
  month by the second and then added by the first. When the day changes between the seed and the
  clock, or another day of the month has counted more, the older version's starts are missing from
  the month, which the comment at 179 calls conservative. `StartsWithinLimits` promises the older
  version's starts for minutes and days only.
- A request under way when the conversation is deleted can write its entry after the storage was
  deleted and before the object is aborted (`tools.ts:147-172`, `agent.ts:550-565`). The entry stays
  in the storage of an object that nothing reads any more, against "completed native teardown"
  (`routes.ts:154-156`) and "removes transcript/approval storage" (`docs/hosted/chat.md:181`).
- The cap of pending approvals is tested on a listing (`tools.ts:153`); `chat_limit` shows by how
  much it can be passed.

*Control plane.*

- `Disconnect` does not take `tokenLocks`: a refresh under way stores a new credential and writes
  its row back after the disconnect (`service.go:753`, against `docs/control-plane.md:145`).
- Rows are written whole, so a rename or a tool grant that overlaps another request restores what
  that one changed, a deleted reference or a revoked grant included (`service.go:129`, `177`, `632`).
- The reaper of a secret whose row could not be written deletes it after a day without looking
  whether the write happened after all, and does not survive a restart (`service.go:846-853`).
- Of two overlapping consents for one account, the one that passed the check and is stopped by the
  unique index keeps its row: its copy has an identity by then, so `discardOAuthStub` does nothing
  (`service.go:252`, `276`).
- `TakeOAuthState` selects without `FOR UPDATE` and ignores how many rows it deleted, so two
  callbacks may both take one state (`postgres.go:413-445`, against `docs/control-plane.md:141`);
  Google refuses the second exchange.
- `FileSecretStore.Delete` forgets the secret in memory before it writes the file, and keeps it
  forgotten when that fails (`secrets.go:168-170`): a later deletion finds nothing, and the
  credential of a connection that was disconnected is back after a restart, with nobody to delete it.

*Docs batches.*

- An update that was applied without its answer arriving, or whose repetition met 400, leaves the
  batch on a revision the document no longer has: nothing is applied twice, and nothing can be
  submitted until the batch is aborted (`batch.go:261-273`, `transport.go:185`).
- A response whose body stalls keeps a command, and with it the file lock, for as long as it lasts:
  no timeout is set beyond the headers (`client.go:20-26`, `docs_batch_store.go:96-99`), and others
  time out on the lock.

## 6. Not modelled

Of the modelled parts: scopes, e-mail addresses (but for the conflict check, which may find any two
the same) and display data; discovery
status columns; several tenants (every statement is keyed by tenant, so tenants share nothing but
the code and the chat's global meters); the daily quota, argument checks, destructive and billable
switches, audit rows and picker imports of tool calls (an import is an upsert that enables nothing,
like discovery's); the watch's renewal schedule, message formats and delivery notes; of the chat,
messages and the agents SDK, whose scheduling is taken to be as permissive as an arbitrary overlap
of turns; of the control plane, resource grants, sessions and connections that are not
product-managed; of the batches, the in-process mutex of the lock, which commands, each its own
process, do not contend, and checks of account and document that a command has passed before it
begins. Cryptography, JWTs, git, keyrings and Google's own behaviour are values and outcomes. The
components without a module, and why, are in `PROJECT.json`: most of the repository is the commands'
own code, which parses arguments, calls Google once and formats the answer, and has no state to
check.

## 7. What is left

1. Discovery status and the picker on top of `HostedToolCalls`; a second process with its own
   cache for the watch.
2. The circuit breaker and the backup's push queue, each a small module if it ever carries more than
   one request or one caller at a time.
