------------------------------ MODULE DocsBatch ------------------------------
(***************************************************************************)
(* Persisted Docs request batches: internal/docsbatch (the repository of   *)
(* batch files), internal/filelock (the lock around it) and the commands   *)
(* of internal/cmd/batch.go that queue, submit and discard requests.       *)
(*                                                                         *)
(* Every command is a process of its own, so the in-process mutex of the   *)
(* lock is uncontended and flock decides.  A process may be killed at any  *)
(* step; a file is replaced atomically (config.WriteFileAtomic), so a      *)
(* failed write is a kill before it.  All batches here target one document *)
(* with one account and client: a command checks them before it begins     *)
(* (validateDocsBatchTarget) and Append checks them again.                 *)
(*                                                                         *)
(* Google and the users of the document are external: an update that names *)
(* a revision is refused unless the document still has it, an update may   *)
(* be refused or fail for reasons of its own, and the answer to one that   *)
(* was applied may be lost.  RetryTransport repeats an update answered     *)
(* with a 5xx: if the first one was applied, the repetition is refused     *)
(* with 400, as its revision is old.                                       *)
(***************************************************************************)
EXTENDS Integers, Sequences

CONSTANTS
  Batches,      \* batch ids
  Commands,     \* processes that run at the same time
  Cap,          \* requests of one update (docsBatchUpdateRequestCap, 500)
  MaxRequests,  \* bound: requests ever made
  MaxRevision,  \* bound: changes of the document
  Foreign,      \* somebody else's change of the document
  None

ASSUME CapAssumption == Cap \in Nat \ {0}
ASSUME BoundAssumption == MaxRequests \in Nat /\ MaxRevision \in Nat
ASSUME NoneAssumption ==
  /\ None \notin Commands /\ None \notin Nat
  /\ Foreign \notin Batches

VARIABLES
  file,      \* per batch: its file, None where there is none
  lock,      \* the command that holds the flock, None when it is free
  cmd,       \* per command: where it waits and what it carries
  log,       \* the document: the updates applied to it, revision k is after k
  begun,     \* batch ids in use or used up (UUIDs are never reused)
  made,      \* history: per request, its batch and the revision it was made for
  queue,     \* history: per batch, the requests it acknowledged, in order
  dropped,   \* history: requests discarded by abort or prune
  rejected   \* history: requests that failed when submitted alone

history == <<made, queue, dropped, rejected>>
vars == <<file, lock, cmd, log, begun, history>>

Revision == Len(log)
Revisions == Nat \cup {None}
Requests == DOMAIN made
Members(s) == {s[i] : i \in DOMAIN s}

Empty == [revision |-> None, requests |-> <<>>]
States == [revision: Revisions, requests: Seq(Nat)]
ASSUME StateAssumption == None \notin States
Modes == {"atomic", "continue", "split", "single"}
NoCommand == [step |-> "idle", batch |-> None, mode |-> "atomic", revision |-> None,
              adding |-> <<>>, first |-> FALSE, pending |-> <<>>, failed |-> <<>>,
              answer |-> "none", given |-> None]

Init ==
  /\ file = [b \in Batches |-> None]
  /\ lock = None
  /\ cmd = [c \in Commands |-> NoCommand]
  /\ log = <<>>
  /\ begun = {}
  /\ made = <<>> /\ queue = [b \in Batches |-> <<>>]
  /\ dropped = {} /\ rejected = {}

-----------------------------------------------------------------------------
(* The lock                                                                *)

(* Fault: the commands do not exclude each other.                          *)
Open == TRUE

LockFree == lock = None

Begins(c, r) == cmd[c].step = "idle" /\ cmd' = [cmd EXCEPT ![c] = r]

(* The process ends, and with it its hold of the lock.                     *)
Ends(c) ==
  /\ cmd' = [cmd EXCEPT ![c] = NoCommand]
  /\ lock' = IF lock = c THEN None ELSE lock

(* Fault: the poll has no deadline.                                        *)
Patient(c) == FALSE /\ UNCHANGED vars

(* acquire: ErrTimeout after polling a lock that others hold.              *)
GiveUp(c) ==
  /\ cmd[c].step \in {"append", "end"}
  /\ ~LockFree
  /\ Ends(c)
  /\ UNCHANGED <<file, log, begun, history>>

Kill(c) ==
  /\ cmd[c].step # "idle"
  /\ Ends(c)
  /\ UNCHANGED <<file, log, begun, history>>

-----------------------------------------------------------------------------
(* Begin, abort, prune: one file operation under the lock                  *)

Create(b) ==
  /\ LockFree
  /\ b \notin begun
  /\ begun' = begun \cup {b}
  /\ file' = [file EXCEPT ![b] = Empty]
  /\ UNCHANGED <<lock, cmd, log, history>>

(* Abort discards one batch; prune those last updated before its cutoff,   *)
(* which the user chooses, or part of them if it fails on the way.         *)
Discard(S) ==
  /\ LockFree
  /\ S # {} /\ \A b \in S : file[b] # None
  /\ file' = [b \in Batches |-> IF b \in S THEN None ELSE file[b]]
  /\ dropped' = dropped \cup UNION {Members(file[b].requests) : b \in S}
  /\ UNCHANGED <<lock, cmd, log, begun, made, queue, rejected>>

-----------------------------------------------------------------------------
(* Append                                                                  *)

(* A document command with --batch computes its requests against the       *)
(* revision it reads first; `first' where it insists on an empty batch.    *)
Capture(c, b, n, first) ==
  /\ file[b] # None
  /\ Len(made) + n <= MaxRequests
  /\ Begins(c, [NoCommand EXCEPT !.step = "append", !.batch = b, !.revision = Revision,
                  !.adding = [i \in 1..n |-> Len(made) + i], !.first = first])
  /\ made' = made \o [i \in 1..n |-> [batch |-> b, revision |-> Revision]]
  /\ UNCHANGED <<file, lock, log, begun, queue, dropped, rejected>>

(* Fault: a newer revision replaces the one the earlier requests need.     *)
AnyRevision(f, r) == ~r.first \/ f.requests = <<>>

Appendable(f, r) ==
  /\ f.revision \in {None, r.revision}
  /\ r.first => f.requests = <<>>

ReadForAppend(c) ==
  LET r == cmd[c] IN
  /\ r.step = "append"
  /\ LockFree
  /\ IF file[r.batch] # None /\ Appendable(file[r.batch], r)
     THEN /\ lock' = c
          /\ cmd' = [cmd EXCEPT ![c].step = "write", ![c].pending = file[r.batch].requests]
     ELSE Ends(c)
  /\ UNCHANGED <<file, log, begun, history>>

WriteAppend(c) ==
  LET r == cmd[c] IN
  /\ r.step = "write"
  /\ file' = [file EXCEPT ![r.batch] =
       [revision |-> r.revision, requests |-> r.pending \o r.adding]]
  /\ queue' = [queue EXCEPT ![r.batch] = @ \o r.adding]
  /\ Ends(c)
  /\ UNCHANGED <<log, begun, made, dropped, rejected>>

-----------------------------------------------------------------------------
(* End                                                                     *)

StartEnd(c, b, mode) ==
  /\ file[b] # None
  /\ Begins(c, [NoCommand EXCEPT !.step = "end", !.batch = b, !.mode = mode])
  /\ UNCHANGED <<file, lock, log, begun, history>>

(* WithState; the lock is kept until the command ends.                     *)
ReadForEnd(c) ==
  LET r == cmd[c]
      f == file[r.batch] IN
  /\ r.step = "end"
  /\ LockFree
  /\ IF f # None /\ f.requests # <<>> /\ (r.mode = "split" \/ Len(f.requests) <= Cap)
     THEN /\ lock' = c
          /\ cmd' = [cmd EXCEPT ![c].step = "send", ![c].revision = f.revision,
                                ![c].pending = f.requests]
     ELSE Ends(c)
  /\ UNCHANGED <<file, log, begun, history>>

ChunkSize(r) ==
  LET n == Len(r.pending) IN
  IF r.mode = "single" THEN 1 ELSE IF n < Cap THEN n ELSE Cap
Chunk(r) == SubSeq(r.pending, 1, ChunkSize(r))
Rest(r) == SubSeq(r.pending, ChunkSize(r) + 1, Len(r.pending))

(* Fault: the update is sent without writeControl.                         *)
Uncontrolled(r) == TRUE

(* What Google makes of writeControl.requiredRevisionId.                   *)
Current(r) == r.revision \in {None, Revision}

(* submitDocsBatch, retries of the transport included.                     *)
Applied(c, answer, given) ==
  LET r == cmd[c] IN
  /\ r.step = "send"
  /\ Current(r)
  /\ Revision < MaxRevision
  /\ log' = Append(log, [by |-> r.batch, requests |-> Chunk(r)])
  /\ cmd' = [cmd EXCEPT ![c].step = "settle", ![c].answer = answer,
                        ![c].given = IF given THEN Revision + 1 ELSE None]
  /\ UNCHANGED <<file, lock, begun, history>>

NotApplied(c, answer) ==
  /\ cmd[c].step = "send"
  /\ answer # "ok"
  /\ cmd' = [cmd EXCEPT ![c].step = "settle", ![c].answer = answer]
  /\ UNCHANGED <<file, lock, log, begun, history>>

(* Fault: the batch is gone once an update of it was applied.              *)
Removes(b, revision, requests) == file' = [file EXCEPT ![b] = None]

(* PersistOrDelete.                                                        *)
Persist(b, revision, requests) ==
  file' = [file EXCEPT ![b] = IF requests = <<>> THEN None
                              ELSE [revision |-> revision, requests |-> requests]]

Proceed(c, r) ==
  IF r.pending = <<>> THEN Ends(c)
  ELSE cmd' = [cmd EXCEPT ![c] = [r EXCEPT !.step = "send", !.answer = "none", !.given = None]]
       /\ UNCHANGED lock

(* The answer was taken: drop what was applied; without a revision to go   *)
(* on with, stop.                                                          *)
SettleApplied(c) ==
  LET r == cmd[c]
      revision == IF r.given = None THEN r.revision ELSE r.given IN
  /\ r.step = "settle" /\ r.answer = "ok"
  /\ Persist(r.batch, revision, r.failed \o Rest(r))
  /\ IF r.given = None THEN Ends(c)
     ELSE Proceed(c, [r EXCEPT !.pending = Rest(r), !.revision = revision])
  /\ UNCHANGED <<log, begun, history>>

(* A request submitted alone failed: it is kept, before the pending ones.  *)
SettleRejected(c) ==
  LET r == cmd[c] IN
  /\ r.step = "settle" /\ r.answer # "ok" /\ r.mode = "single"
  /\ Persist(r.batch, r.revision, r.failed \o r.pending)
  /\ Proceed(c, [r EXCEPT !.pending = Rest(r), !.failed = @ \o Chunk(r)])
  /\ rejected' = rejected \cup Members(Chunk(r))
  /\ UNCHANGED <<log, begun, made, queue, dropped>>

(* Fault: split submission goes on with the next chunk.                    *)
SkipsFailed(r) == r.mode = "split" \/ (r.mode = "continue" /\ r.answer = "bad")

GoesOn(r) == r.mode = "continue" /\ r.answer = "bad"

(* An update failed: the batch stays as it is, and is tried request by     *)
(* request if the user asked for it and Google answered 400.               *)
SettleFailed(c) ==
  LET r == cmd[c] IN
  /\ r.step = "settle" /\ r.answer # "ok" /\ r.mode # "single"
  /\ IF GoesOn(r)
     THEN Proceed(c, IF r.mode = "continue" THEN [r EXCEPT !.mode = "single"]
                     ELSE [r EXCEPT !.pending = Rest(r)])
     ELSE Ends(c)
  /\ UNCHANGED <<file, log, begun, history>>

-----------------------------------------------------------------------------
(* Somebody else edits the document.                                       *)
Edit ==
  /\ Revision < MaxRevision
  /\ log' = Append(log, [by |-> Foreign, requests |-> <<>>])
  /\ UNCHANGED <<file, lock, cmd, begun, history>>

Answers == {"ok", "bad", "error"}

(* What a process does by itself, and what it waits for from Google.       *)
Proceeds(c) ==
  \/ GiveUp(c)
  \/ ReadForAppend(c) \/ WriteAppend(c)
  \/ ReadForEnd(c)
  \/ SettleApplied(c) \/ SettleRejected(c) \/ SettleFailed(c)

Answered(c) ==
  \/ \E answer \in Answers, given \in BOOLEAN :
       (given => answer = "ok") /\ Applied(c, answer, given)
  \/ \E answer \in Answers : NotApplied(c, answer)

Works(c) == Proceeds(c) \/ Answered(c)

Next ==
  \/ \E b \in Batches : Create(b)
  \/ \E S \in SUBSET Batches : Discard(S)
  \/ \E c \in Commands :
       \/ \E b \in Batches, n \in 1..MaxRequests, first \in BOOLEAN : Capture(c, b, n, first)
       \/ \E b \in Batches, mode \in {"atomic", "continue", "split"} : StartEnd(c, b, mode)
       \/ Works(c)
       \/ Kill(c)
  \/ Edit

Spec == Init /\ [][Next]_vars

(* A running process makes its next step by itself; the flock poll has a   *)
(* deadline.  Nothing is assumed of Google: once the headers of an answer  *)
(* have arrived, the HTTP client waits for its body without a timeout.     *)
FairSpec == Spec /\ \A c \in Commands : WF_vars(Proceeds(c))

-----------------------------------------------------------------------------
(* Properties                                                              *)

CommandStates ==
  [step: {"idle", "append", "write", "end", "send", "settle"}, batch: Batches \cup {None},
   mode: Modes, revision: Revisions, adding: Seq(Nat), first: BOOLEAN, pending: Seq(Nat),
   failed: Seq(Nat), answer: Answers \cup {"none"}, given: Revisions]

(* Shapes of the state; and a command that is past the lock holds it.      *)
TypeOK ==
  /\ file \in [Batches -> States \cup {None}]
  /\ lock \in Commands \cup {None}
  /\ cmd \in [Commands -> CommandStates]
  /\ log \in Seq([by: Batches \cup {Foreign}, requests: Seq(Nat)])
  /\ begun \subseteq Batches
  /\ made \in Seq([batch: Batches, revision: Nat])
  /\ queue \in [Batches -> Seq(Nat)]
  /\ dropped \subseteq Nat /\ rejected \subseteq Nat
  /\ \A c \in Commands : cmd[c].step \in {"write", "send", "settle"} => lock = c

AppliedAt(q) == {k \in DOMAIN log : q \in Members(log[k].requests)}

(* No request reaches the document twice, whatever answers were lost,      *)
(* updates repeated by the transport, and processes killed between         *)
(* Google's answer and the rewrite of the batch file.                      *)
AppliedOnce == \A q \in Requests : \A j, k \in AppliedAt(q) : j = k

(* Every request is applied to the very document it was computed for:      *)
(* since then only its own batch changed it (docs/docs-batch.md:8).        *)
OnlyOwnEdits == \A k \in DOMAIN log : \A q \in Members(log[k].requests) :
  \A j \in (made[q].revision + 1)..k : log[j].by = made[q].batch

(* A request the user was told is queued is in the file of its batch, in   *)
(* the document, or in a batch that was discarded.                         *)
NoRequestLost == \A b \in Batches : \A q \in Members(queue[b]) :
  \/ file[b] # None /\ q \in Members(file[b].requests)
  \/ AppliedAt(q) # {}
  \/ q \in dropped

(* The requests of a batch reach the document in the order they were       *)
(* queued, but for those that failed when submitted alone.                 *)
AppliedInOrder == \A b \in Batches : \A i, j \in DOMAIN queue[b] :
  i < j /\ queue[b][i] \notin rejected =>
    \A k \in AppliedAt(queue[b][j]) : \E h \in AppliedAt(queue[b][i]) : h <= k

(* The batches implement the queues they promise to be.                    *)
InDocument == UNION {Members(log[k].requests) : k \in DOMAIN log}
Additions == {[i \in 1..n |-> m + i] : m, n \in 0..MaxRequests}
OpenBatches == {b \in Batches : file[b] # None}
GivenUp == dropped \ InDocument

Queues == INSTANCE DocumentQueue WITH
  Lists <- Additions,
  line <- queue,
  open <- OpenBatches,
  used <- begun,
  applied <- InDocument,
  refused <- rejected,
  discarded <- GivenUp
ImplementsQueues == Queues!QueueSpec

(* A command whose own calls to Google are answered comes to an end: not   *)
(* only the loops that submit a batch in parts, but also who waits for a   *)
(* process that holds the lock over a call that is never answered.         *)
CommandsEnd ==
  \A c \in Commands :
    []<>(cmd[c].step # "send") => (cmd[c].step # "idle" ~> cmd[c].step = "idle")

=============================================================================
