---------------------------- MODULE DocumentQueue ----------------------------
(***************************************************************************)
(* What batches of Docs requests promise, without files, locks, processes  *)
(* and revisions: a batch is a queue, opened once; requests leave it from  *)
(* the front and reach the document once, but for those the user was told  *)
(* have failed, which may stay behind; a batch closes when nothing of it   *)
(* waits any more, or is discarded with all that waits, for good.          *)
(***************************************************************************)
EXTENDS Naturals, Sequences

CONSTANTS Batches, Lists  \* what may be added at once

VARIABLES
  line,       \* per batch: the requests it acknowledged, in order
  open,       \* batches that take requests and submit them
  used,       \* batches ever opened
  applied,    \* requests in the document
  refused,    \* requests the user was told have failed
  discarded   \* requests given up with their batch

queueVars == <<line, open, used, applied, refused, discarded>>

QueueInit ==
  /\ line = [b \in Batches |-> <<>>]
  /\ open = {} /\ used = {}
  /\ applied = {} /\ refused = {} /\ discarded = {}

Listed(b) == {line[b][i] : i \in DOMAIN line[b]}
Waiting(b) == Listed(b) \ (applied \cup discarded)

Precedes(b, p, q) == \E i, j \in DOMAIN line[b] : i < j /\ line[b][i] = p /\ line[b][j] = q

Open(b) ==
  /\ b \notin used
  /\ open' = open \cup {b} /\ used' = used \cup {b}
  /\ UNCHANGED <<line, applied, refused, discarded>>

Enqueue(b, s) ==
  /\ b \in open
  /\ \A i, j \in DOMAIN s : s[i] = s[j] => i = j
  /\ \A i \in DOMAIN s : \A a \in Batches : s[i] \notin Listed(a)
  /\ line' = [line EXCEPT ![b] = @ \o s]
  /\ UNCHANGED <<open, used, applied, refused, discarded>>

(* Requests go to the document from the front: whatever was queued before *)
(* them goes with them, is there, or was refused.                         *)
Apply(b, S) ==
  /\ b \in open
  /\ S \subseteq Waiting(b)
  /\ \A q \in S, p \in Listed(b) : Precedes(b, p, q) => p \in S \cup applied \cup refused
  /\ applied' = applied \cup S
  /\ UNCHANGED <<line, open, used, refused, discarded>>

Refuse(b, S) ==
  /\ b \in open
  /\ S \subseteq Listed(b)
  /\ refused' = refused \cup S
  /\ UNCHANGED <<line, open, used, applied, discarded>>

Close(b) ==
  /\ b \in open
  /\ Waiting(b) = {}
  /\ open' = open \ {b}
  /\ UNCHANGED <<line, used, applied, refused, discarded>>

Abandon(B) ==
  /\ B \subseteq open
  /\ open' = open \ B
  /\ discarded' = discarded \cup UNION {Waiting(b) : b \in B}
  /\ UNCHANGED <<line, used, applied, refused>>

QueueNext ==
  \/ \E b \in Batches :
       \/ Open(b) \/ Close(b)
       \/ \E s \in Lists : Enqueue(b, s)
       \/ \E S \in SUBSET Listed(b) : Apply(b, S) \/ Refuse(b, S)
  \/ \E B \in SUBSET Batches : Abandon(B)

QueueSpec == QueueInit /\ [][QueueNext]_queueVars

=============================================================================
