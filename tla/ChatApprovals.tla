---------------------------- MODULE ChatApprovals ----------------------------
(***************************************************************************)
(* Write approvals of the hosted chat (internal/hosted/app/src/chat):      *)
(* GoogleApprovals in the Durable Object of one conversation, the guards   *)
(* of agent.ts around it, and the deletion of the conversation             *)
(* (routes.ts, threads.ts), which wipes the object.                        *)
(*                                                                         *)
(* An operation is one pass of a turn or of a browser frame through these  *)
(* functions; turns of several tabs and the parallel tool calls of one     *)
(* step overlap at every await.  A transaction and a single put are        *)
(* atomic.  Call ids come from the model provider, and a history may be    *)
(* forged: any operation may request, or try to execute, any id with any   *)
(* arguments.  Arguments stands for the tool name, the canonical input,    *)
(* the user and the tenant, which are only compared.                       *)
(***************************************************************************)
EXTENDS Integers, FiniteSets

CONSTANTS
  Ids,         \* tool call ids
  Arguments,   \* what a call may ask for
  Ops,         \* operations that run at the same time
  Deletes,     \* requests to delete the conversation
  MaxActive,   \* unexpired entries above which new ones are refused (100)
  TTL,         \* ticks an approval lives (10 minutes)
  MaxTime,     \* bound of the clock
  None

ASSUME BoundAssumption ==
  /\ MaxActive \in Nat \ {0} /\ TTL \in Nat \ {0} /\ MaxTime \in Nat
  /\ IsFiniteSet(Ids) /\ IsFiniteSet(Ops)
ASSUME NoneAssumption == None \notin Ids \cup Arguments

VARIABLES
  now,        \* the clock
  store,      \* the object's google-approval entries; None where there is none
  session,    \* the user's Clerk session and tenant are active
  deleted,    \* hosted_chat_threads.deleted_at is set
  purged,     \* hosted_chat_threads.purged
  op,         \* per operation: where it waits and what it carries
  delete,     \* per deletion request: where it waits
  wiped,      \* history: the object's storage has been deleted
  cards,      \* history: <<id, arguments>> the user was shown for approval
  approved,   \* history: those the user approved
  released,   \* history: those taken for execution
  effects     \* history: how often a call was dispatched with these arguments

registry == <<session, deleted, purged>>
history == <<cards, approved, released, effects>>
vars == <<now, store, registry, op, delete, wiped, history>>

EntryStates == {"pending", "approved", "denied", "consumed", "expired"}
Entries == [args: Arguments \cup {None}, expires: Nat, state: EntryStates]
Stored == Entries \cup {None}
ASSUME EntryAssumption == None \notin Entries

Authorizing == {"authorize", "verify"}
Running == {"list", "expire", "consume", "dispatch", "respond"}
Beginnings == {"list", "consume", "respond"}
OpStates == [step: {"idle"} \cup Authorizing \cup Running, then: Beginnings \cup {None},
             id: Ids \cup {None}, args: Arguments \cup {None}, yes: BOOLEAN,
             seen: [Ids -> Stored], left: SUBSET Ids, entitled: BOOLEAN]
NothingStored == [i \in Ids |-> None]
NoOp == [step |-> "idle", then |-> None, id |-> None, args |-> None, yes |-> FALSE,
         seen |-> NothingStored, left |-> {}, entitled |-> FALSE]

Init ==
  /\ now = 0
  /\ store = NothingStored
  /\ session = TRUE /\ deleted = FALSE /\ purged = FALSE
  /\ op = [o \in Ops |-> NoOp]
  /\ delete = [d \in Deletes |-> "idle"]
  /\ wiped = FALSE
  /\ cards = {} /\ approved = {} /\ released = {}
  /\ effects = [x \in Ids \X Arguments |-> 0]

-----------------------------------------------------------------------------
(* Operations                                                              *)

(* Fault: the registry is read with includeDeleted, the session not asked. *)
Unchecked == TRUE

(* connectionAuthorization: the thread is not deleted; tenant and session  *)
(* are active.                                                             *)
Found == ~deleted
Active == session

(* What an operation must have had once it began, whoever checks it.       *)
Entitled == session /\ ~deleted

Expired(entry) == entry.expires <= now
Live(s) == {i \in Ids : s[i] # None /\ ~Expired(s[i])}

Goto(o, step) == op' = [op EXCEPT ![o].step = step]
Finish(o) == op' = [op EXCEPT ![o] = NoOp]

(* A tool call of a turn, its execution, or a tool-approval frame arrives; *)
(* each first authorises.  A user answers only a card that was shown.      *)
Start(o, then, i, a, yes) ==
  /\ op[o].step = "idle"
  /\ then = "respond" => <<i, a>> \in cards
  /\ op' = [op EXCEPT ![o] =
       [NoOp EXCEPT !.step = "authorize", !.then = then, !.id = i, !.args = a, !.yes = yes,
                    !.entitled = Entitled]]
  /\ approved' = IF then = "respond" /\ yes THEN approved \cup {<<i, a>>} ELSE approved
  /\ UNCHANGED <<now, store, registry, delete, wiped, cards, released, effects>>

(* The registry is read, then Clerk asked.                                 *)
Authorize(o) ==
  /\ op[o].step = "authorize"
  /\ IF Found THEN Goto(o, "verify") ELSE Finish(o)
  /\ UNCHANGED <<now, store, registry, delete, wiped, history>>

Verify(o) ==
  /\ op[o].step = "verify"
  /\ IF Active THEN Goto(o, op[o].then) ELSE Finish(o)
  /\ UNCHANGED <<now, store, registry, delete, wiped, history>>

(* request begins with a listing of all entries.                           *)
List(o) ==
  /\ op[o].step = "list"
  /\ op' = [op EXCEPT ![o].step = "expire", ![o].seen = store,
                      ![o].left = {i \in Ids : store[i] # None /\ store[i].state # "expired"}]
  /\ UNCHANGED <<now, store, registry, delete, wiped, history>>

(* Fault: a tombstone that keeps its arguments.                            *)
StillReadable(entry) == [entry EXCEPT !.state = "expired"]

Compact(entry) == [entry EXCEPT !.args = None, !.state = "expired"]

(* The loop over the listing, outside any transaction.                     *)
ExpireEntry(o) ==
  /\ op[o].step = "expire"
  /\ \E i \in op[o].left :
       /\ op' = [op EXCEPT ![o].left = @ \ {i}]
       /\ store' = IF Expired(op[o].seen[i])
                   THEN [store EXCEPT ![i] = Compact(op[o].seen[i])]
                   ELSE store
  /\ UNCHANGED <<now, registry, delete, wiped, history>>

(* Fault: the limit off by one.                                            *)
OverLimit(o) == Cardinality(Live(op[o].seen)) > MaxActive /\ op[o].seen[op[o].id] = None

(* The limit is tested on the listing.                                     *)
TooMany(o) == Cardinality(Live(op[o].seen)) >= MaxActive /\ op[o].seen[op[o].id] = None

Refuse(o) ==
  /\ op[o].step = "expire" /\ op[o].left = {} /\ TooMany(o)
  /\ Finish(o)
  /\ UNCHANGED <<now, store, registry, delete, wiped, history>>

NewEntry(a) == [args |-> a, expires |-> now + TTL, state |-> "pending"]

(* The transaction of request: a new entry and its card, or, for an entry  *)
(* with these very arguments, the card again or the execution.             *)
Request(o) ==
  LET i == op[o].id
      entry == store[i]
      same == ~Expired(entry) /\ entry.state # "expired" /\ entry.args = op[o].args
      card == entry = None \/ (same /\ entry.state = "pending")
  IN /\ op[o].step = "expire" /\ op[o].left = {} /\ ~TooMany(o)
     /\ store' = IF entry = None THEN [store EXCEPT ![i] = NewEntry(op[o].args)] ELSE store
     /\ cards' = IF card THEN cards \cup {<<i, op[o].args>>} ELSE cards
     /\ IF ~card /\ same /\ entry.state = "approved"
        THEN op' = [op EXCEPT ![o] = [NoOp EXCEPT !.step = "authorize", !.then = "consume",
                                        !.id = i, !.args = op[o].args,
                                        !.entitled = Entitled]]
        ELSE Finish(o)
     /\ UNCHANGED <<now, registry, delete, wiped, approved, released, effects>>

(* Fault: a decision can be taken back.                                    *)
Reversible(entry) == entry # None /\ ~Expired(entry)

(* respond: the decision is kept once; its repetition changes nothing.     *)
Undecided(entry) == entry # None /\ ~Expired(entry) /\ entry.state = "pending"

Respond(o) ==
  LET i == op[o].id
      state == IF op[o].yes THEN "approved" ELSE "denied"
  IN /\ op[o].step = "respond"
     /\ store' = IF Undecided(store[i]) THEN [store EXCEPT ![i].state = state] ELSE store
     /\ Finish(o)
     /\ UNCHANGED <<now, registry, delete, wiped, history>>

(* Faults: the arguments are not compared; the entry is spent after the    *)
(* dispatch.                                                               *)
AnyArguments(entry, a) == entry # None /\ entry.state = "approved" /\ ~Expired(entry)
StillApproved(entry) == entry

(* consume: the entry is spent before the write is dispatched.             *)
Usable(entry, a) ==
  entry # None /\ entry.state = "approved" /\ ~Expired(entry) /\ entry.args = a

Spent(entry) == [entry EXCEPT !.state = "consumed"]

Consume(o) ==
  LET i == op[o].id
  IN /\ op[o].step = "consume"
     /\ IF Usable(store[i], op[o].args)
        THEN /\ store' = [store EXCEPT ![i] = Spent(@)]
             /\ released' = released \cup {<<i, op[o].args>>}
             /\ Goto(o, "dispatch")
        ELSE /\ Finish(o)
             /\ UNCHANGED <<store, released>>
     /\ UNCHANGED <<now, registry, delete, wiped, cards, approved, effects>>

(* handleToolCall, up to the runner.                                       *)
Dispatch(o) ==
  /\ op[o].step = "dispatch"
  /\ effects' = [effects EXCEPT ![<<op[o].id, op[o].args>>] = @ + 1]
  /\ Finish(o)
  /\ UNCHANGED <<now, store, registry, delete, wiped, cards, approved, released>>

(* A turn is stopped, the object evicted, or the call refused.             *)
Abort(o) ==
  /\ op[o].step # "idle"
  /\ Finish(o)
  /\ UNCHANGED <<now, store, registry, delete, wiped, history>>

-----------------------------------------------------------------------------
(* Deletion of the conversation, the session and the clock                 *)

Advance(d, step) == delete' = [delete EXCEPT ![d] = step]

(* DELETE /api/chat/threads/:id; a retry of a purged one has nothing to do.*)
Tombstone(d) ==
  /\ delete[d] = "idle" /\ session
  /\ deleted' = TRUE
  /\ IF purged THEN UNCHANGED delete ELSE Advance(d, "route")
  /\ UNCHANGED <<now, store, session, purged, op, wiped, history>>

(* __thread-delete: resetTurnState cancels the turns, then destroy()       *)
(* deletes the storage.  A cancelled call is not executed any more; what   *)
(* has been authorised to ask, answer or dispatch goes on.                 *)
MayDestroy == deleted
Cancelled(r) == r.step = "consume" \/ (r.step \in Authorizing /\ r.then = "consume")

Wipe(d) ==
  /\ delete[d] = "route" /\ MayDestroy
  /\ store' = NothingStored
  /\ op' = [o \in Ops |-> IF Cancelled(op[o]) THEN NoOp ELSE op[o]]
  /\ wiped' = TRUE
  /\ Advance(d, "abort")
  /\ UNCHANGED <<now, registry, history>>

(* The object is aborted only after deleteAll.                             *)
Teardown(d) ==
  /\ delete[d] = "abort"
  /\ op' = [o \in Ops |-> NoOp]
  /\ Advance(d, "mark")
  /\ UNCHANGED <<now, store, registry, wiped, history>>

MarkPurged(d) ==
  /\ delete[d] = "mark"
  /\ purged' = deleted
  /\ Advance(d, "idle")
  /\ UNCHANGED <<now, store, session, deleted, op, wiped, history>>

(* The object cannot be reached, or the Worker ends: pending, to retry.    *)
(* The abort is the object's own.                                          *)
Interrupted(d) ==
  /\ delete[d] \in {"route", "mark"}
  /\ Advance(d, "idle")
  /\ UNCHANGED <<now, store, registry, op, wiped, history>>

Revoke ==
  /\ session
  /\ session' = FALSE
  /\ UNCHANGED <<now, store, deleted, purged, op, delete, wiped, history>>

Tick ==
  /\ now < MaxTime
  /\ now' = now + 1
  /\ UNCHANGED <<store, registry, op, delete, wiped, history>>

OpStep(o) ==
  \/ \E i \in Ids, a \in Arguments :
       \/ \E then \in {"list", "consume"} : Start(o, then, i, a, FALSE)
       \/ \E yes \in BOOLEAN : Start(o, "respond", i, a, yes)
  \/ Authorize(o) \/ Verify(o) \/ List(o) \/ ExpireEntry(o) \/ Refuse(o) \/ Request(o)
  \/ Respond(o) \/ Consume(o) \/ Dispatch(o) \/ Abort(o)

DeleteStep(d) == Tombstone(d) \/ Wipe(d) \/ Teardown(d) \/ MarkPurged(d) \/ Interrupted(d)

Next ==
  \/ \E o \in Ops : OpStep(o)
  \/ \E d \in Deletes : DeleteStep(d)
  \/ Revoke \/ Tick

Spec == Init /\ [][Next]_vars

-----------------------------------------------------------------------------
(* Properties                                                              *)

(* Entries, operations and history have their types; exactly the expired   *)
(* entries are compact tombstones.                                         *)
TypeOK ==
  /\ now \in Nat
  /\ store \in [Ids -> Stored]
  /\ session \in BOOLEAN /\ deleted \in BOOLEAN /\ purged \in BOOLEAN /\ wiped \in BOOLEAN
  /\ op \in [Ops -> OpStates]
  /\ delete \in [Deletes -> {"idle", "route", "abort", "mark"}]
  /\ cards \subseteq Ids \X Arguments /\ approved \subseteq cards
  /\ released \subseteq Ids \X Arguments
  /\ effects \in [Ids \X Arguments -> Nat]
  /\ \A i \in Ids : store[i] # None => (store[i].args = None <=> store[i].state = "expired")

(* A write is taken for execution only with arguments the user approved on *)
(* a card that showed exactly these, whatever a turn or a forged history   *)
(* passes in (tools.ts: consume).                                          *)
OnlyAsApproved == released \subseteq approved

(* No call is dispatched twice, neither by a retry, nor by a second turn,  *)
(* nor after the object was evicted between consume and dispatch, and none *)
(* with other arguments than it was released with.                         *)
RunsOnce ==
  \A i \in Ids, a \in Arguments : effects[<<i, a>>] > 0 =>
    /\ effects[<<i, a>>] = 1 /\ <<i, a>> \in released
    /\ \A b \in Arguments : effects[<<i, b>>] > 0 => b = a

(* A turn that begins after the user signed out, or after the conversation *)
(* was deleted, dispatches nothing.                                        *)
NoWriteUnentitled == \A o \in Ops : op[o].step = "dispatch" => op[o].entitled

(* A conversation is marked purged only after its object's storage was     *)
(* deleted and the object aborted: from then on nothing that was on its    *)
(* way, or comes late, asks, answers, releases or dispatches a call, or    *)
(* leaves an entry.  What was written between the deletion of the storage  *)
(* and the abort may stay.                                                 *)
PurgedIsFinal ==
  [][(purged' => wiped')
     /\ (purged => store' \in {store, NothingStored}
                   /\ UNCHANGED <<cards, released, effects>>)]_vars

(* The limit on unexpired entries is tested on a listing, so operations    *)
(* under way may pass it, but by no more than their number.                *)
ActiveIsBounded == Cardinality(Live(store)) < MaxActive + Cardinality(Ops)

(* An entry that was denied, consumed or has expired never becomes an      *)
(* approval again: "an old call ID must never acquire a fresh approval".   *)
Settled(entry) == entry.state \in {"denied", "consumed", "expired"} \/ Expired(entry)

SettledIsFinal ==
  [][\A i \in Ids : store[i] # None /\ Settled(store[i]) =>
       store'[i] \in {store[i], None} \/ store'[i].state = "expired"]_vars

(* The approvals implement their promise.                                  *)
Verdict == [i \in Ids |->
  IF wiped THEN "void"
  ELSE IF store[i] = None THEN "new"
  ELSE CASE store[i].state = "pending"  -> "asked"
         [] store[i].state = "consumed" -> "spent"
         [] store[i].state = "expired"  -> "void"
         [] OTHER -> store[i].state]
Asked == [i \in Ids |-> IF wiped \/ store[i] = None THEN None ELSE store[i].args]

Approvals == INSTANCE ApprovedOnce WITH verdict <- Verdict, asked <- Asked
Implements == Approvals!ApprovedSpec

=============================================================================
