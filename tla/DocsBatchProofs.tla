--------------------------- MODULE DocsBatchProofs ---------------------------
(***************************************************************************)
(* What DocsBatch guarantees for every number of batches and commands,     *)
(* every cap, and every length of the document's history.                  *)
(***************************************************************************)
EXTENDS DocsBatch, SequenceTheorems, TLAPS

-----------------------------------------------------------------------------
(* Sequences without repetition                                            *)

Distinct(s) == \A i, j \in DOMAIN s : s[i] = s[j] => i = j

LEMMA MembersConcat ==
  ASSUME NEW s \in Seq(Nat), NEW t \in Seq(Nat)
  PROVE  Members(s \o t) = Members(s) \cup Members(t)
  <1>1. Members(s) = Range(s) /\ Members(t) = Range(t) /\ Members(s \o t) = Range(s \o t)
    BY DEF Members, Range
  <1> QED
    BY <1>1, RangeConcatenation

LEMMA DistinctConcat ==
  ASSUME NEW s \in Seq(Nat), NEW t \in Seq(Nat)
  PROVE  Distinct(s \o t) <=>
           Distinct(s) /\ Distinct(t) /\ Members(s) \cap Members(t) = {}
  <1> DEFINE u == s \o t
             m == Len(s)
             n == Len(t)
  <1>1. /\ DOMAIN u = 1..(m + n) /\ DOMAIN s = 1..m /\ DOMAIN t = 1..n /\ m \in Nat /\ n \in Nat
        /\ \A i \in 1..m : u[i] = s[i]
        /\ \A i \in 1..n : u[m + i] = t[i]
    <2>1. /\ u \in Seq(Nat) /\ Len(u) = m + n
          /\ \A i \in 1..(m + n) : u[i] = IF i <= m THEN s[i] ELSE t[i - m]
      BY ConcatProperties
    <2> HIDE DEF u
    <2>2. DOMAIN u = 1..(m + n) /\ m \in Nat /\ n \in Nat /\ DOMAIN s = 1..m /\ DOMAIN t = 1..n
      BY <2>1
    <2> HIDE DEF m, n
    <2>3. ASSUME NEW i \in 1..n
          PROVE  u[m + i] = t[i]
      <3>1. m + i \in 1..(m + n) /\ ~ (m + i <= m) /\ (m + i) - m = i
        BY <2>2
      <3> QED
        BY <2>1, <3>1
    <2>4. ASSUME NEW i \in 1..m
          PROVE  u[i] = s[i]
      BY <2>1, <2>2
    <2> QED
      BY <2>2, <2>3, <2>4
  <1> HIDE DEF u, m, n
  <1>2. ASSUME Distinct(u)
        PROVE  Distinct(s) /\ Distinct(t) /\ Members(s) \cap Members(t) = {}
    <2>0. \A i, j \in 1..(m + n) : u[i] = u[j] => i = j
      BY <1>1, <1>2 DEF Distinct
    <2>1. \A i, j \in 1..m : s[i] = s[j] => i = j
      BY <1>1, <2>0
    <2>2. \A i, j \in 1..n : t[i] = t[j] => i = j
      BY <1>1, <2>0
    <2>3. \A i \in 1..m, j \in 1..n : s[i] # t[j]
      BY <1>1, <2>0
    <2> QED
      BY <1>1, <2>1, <2>2, <2>3 DEF Distinct, Members
  <1>3. ASSUME Distinct(s), Distinct(t), Members(s) \cap Members(t) = {}
        PROVE  Distinct(u)
    <2>0. \A i \in 1..m, j \in 1..n : s[i] \in Members(s) /\ t[j] \in Members(t)
      BY <1>1 DEF Members
    <2>1. /\ \A i, j \in 1..m : s[i] = s[j] => i = j
          /\ \A i, j \in 1..n : t[i] = t[j] => i = j
          /\ \A i \in 1..m, j \in 1..n : s[i] # t[j]
      BY <1>1, <1>3, <2>0 DEF Distinct
    <2>2. ASSUME NEW i \in 1..(m + n)
          PROVE  \/ i \in 1..m /\ u[i] = s[i]
                 \/ i - m \in 1..n /\ u[i] = t[i - m]
      <3>1. i = m + (i - m)
        BY <1>1
      <3> QED
        BY <1>1, <3>1
    <2>3. ASSUME NEW i \in 1..(m + n), NEW j \in 1..(m + n), u[i] = u[j]
          PROVE  i = j
      <3>1. i - m = j - m => i = j
        BY <1>1
      <3> QED
        BY <2>1, <2>2, <2>3, <3>1
    <2> QED
      BY <1>1, <2>3 DEF Distinct
  <1> QED
    BY <1>2, <1>3 DEF u

(* A record that has something to send splits it in a chunk and the rest.  *)
LEMMA ChunkAndRest ==
  ASSUME NEW r \in CommandStates, r.pending # <<>>
  PROVE  /\ Chunk(r) \in Seq(Nat) /\ Rest(r) \in Seq(Nat)
         /\ r.pending = Chunk(r) \o Rest(r)
         /\ Len(Chunk(r)) = ChunkSize(r) /\ ChunkSize(r) \in 1..Len(r.pending)
         /\ Len(Rest(r)) = Len(r.pending) - ChunkSize(r)
         /\ r.pending \in Seq(Nat) /\ r.failed \in Seq(Nat)
  <1>1. r.pending \in Seq(Nat) /\ r.failed \in Seq(Nat)
    BY DEF CommandStates
  <1>2. Len(r.pending) \in Nat \ {0}
    BY <1>1
  <1>3. ChunkSize(r) \in 1..Len(r.pending)
    BY <1>2, CapAssumption DEF ChunkSize
  <1> DEFINE p == r.pending
             n == ChunkSize(r)
  <1>4. n \in 1..Len(p) /\ p \in Seq(Nat) /\ Len(p) \in Nat
    BY <1>1, <1>3
  <1> HIDE DEF p, n
  <1>5. SubSeq(p, 1, n) \in Seq(Nat) /\ Len(SubSeq(p, 1, n)) = n
    BY <1>4, SubSeqProperties
  <1>6. SubSeq(p, n + 1, Len(p)) \in Seq(Nat) /\ Len(SubSeq(p, n + 1, Len(p))) = Len(p) - n
    BY <1>4, SubSeqProperties
  <1>7. p = SubSeq(p, 1, n) \o SubSeq(p, n + 1, Len(p))
    BY <1>4, ConcatAdjacentSubSeq, SubSeqFull
  <1> QED
    BY <1>1, <1>3, <1>5, <1>6, <1>7 DEF p, n, Chunk, Rest

-----------------------------------------------------------------------------
(* Steps of one command                                                    *)

Busy == {"write", "send", "settle"}

(* A command that has begun names its batch; one that submits has          *)
(* something to send.                                                      *)
Poised(r) ==
  /\ r.step # "idle" => r.batch \in Batches
  /\ r.step = "end" => r.failed = <<>>
  /\ r.step \in {"send", "settle"} => r.pending # <<>>

Records == {r \in CommandStates : Poised(r)}
Assigned == \A c \in Commands : cmd[c] \in Records

Sets(c, r) == r \in Records /\ cmd' = [cmd EXCEPT ![c] = r]
Frees(c) == lock' = IF lock = c THEN None ELSE lock
Quiet == UNCHANGED <<file, log, begun, history>>

(* The command ends, or begins to wait for the lock of an end.             *)
Parks(c) == \E r \in Records :
  /\ Sets(c, r) /\ r.step \in {"idle", "end"}
  /\ lock' = lock \/ Frees(c)
  /\ Quiet

Captures(c) == \E r \in Records, n \in Nat :
  /\ Sets(c, r) /\ r.step = "append" /\ r.revision = Revision
  /\ r.adding = [i \in 1..n |-> Len(made) + i] /\ Len(made) + n <= MaxRequests
  /\ made' = made \o [i \in 1..n |-> [batch |-> r.batch, revision |-> Revision]]
  /\ UNCHANGED <<file, lock, log, begun, queue, dropped, rejected>>

Opens(c) == \E r \in Records :
  /\ Sets(c, r) /\ cmd[c].step = "append" /\ r.step = "write"
  /\ r.batch = cmd[c].batch /\ r.adding = cmd[c].adding /\ r.revision = cmd[c].revision
  /\ file[r.batch] # None /\ r.pending = file[r.batch].requests
  /\ file[r.batch].revision \in {None, r.revision}
  /\ lock = None /\ lock' = c
  /\ Quiet

Appends(c) ==
  /\ cmd[c].step = "write" /\ Sets(c, NoCommand) /\ Frees(c)
  /\ file' = [file EXCEPT ![cmd[c].batch] =
                [revision |-> cmd[c].revision, requests |-> cmd[c].pending \o cmd[c].adding]]
  /\ queue' = [queue EXCEPT ![cmd[c].batch] = @ \o cmd[c].adding]
  /\ UNCHANGED <<log, begun, made, dropped, rejected>>

Loads(c) == \E r \in Records :
  /\ Sets(c, r) /\ cmd[c].step = "end" /\ r.step = "send" /\ r.batch = cmd[c].batch
  /\ file[r.batch] # None /\ r.failed = <<>>
  /\ r.pending = file[r.batch].requests /\ r.revision = file[r.batch].revision
  /\ lock = None /\ lock' = c
  /\ Quiet

(* What a command carries while it waits for Google's answer.              *)
Keeps(r, s) ==
  r.batch = s.batch /\ r.pending = s.pending /\ r.failed = s.failed /\ r.revision = s.revision

Applies(c) == \E r \in Records :
  /\ Sets(c, r) /\ cmd[c].step = "send" /\ r.step = "settle"
  /\ Keeps(r, cmd[c]) /\ r.mode = cmd[c].mode /\ Current(cmd[c])
  /\ r.given \in {None, Revision + 1}
  /\ log' = Append(log, [by |-> r.batch, requests |-> Chunk(r)])
  /\ UNCHANGED <<file, lock, begun, history>>

Misses(c) == \E r \in Records :
  /\ Sets(c, r) /\ cmd[c].step = "send" /\ r.step = "settle"
  /\ Keeps(r, cmd[c]) /\ r.answer # "ok"
  /\ Quiet /\ UNCHANGED lock

(* The batch file is rewritten, and the command goes on or ends.           *)
Stores(c, revision, requests) ==
  file' = [file EXCEPT ![cmd[c].batch] =
             IF requests = <<>> THEN None ELSE [revision |-> revision, requests |-> requests]]

Takes(c) == \E r \in Records :
  LET s == cmd[c]
      revision == IF s.given = None THEN s.revision ELSE s.given IN
  /\ Sets(c, r) /\ s.step = "settle" /\ s.answer = "ok"
  /\ Stores(c, revision, s.failed \o Rest(s))
  /\ \/ r.step = "idle" /\ Frees(c)
     \/ /\ r.step = "send" /\ UNCHANGED lock
        /\ r.batch = s.batch /\ r.pending = Rest(s) /\ r.failed = s.failed /\ r.revision = revision
  /\ UNCHANGED <<log, begun, history>>

Rejects(c) == \E r \in Records :
  LET s == cmd[c] IN
  /\ Sets(c, r) /\ s.step = "settle" /\ s.answer # "ok"
  /\ Stores(c, s.revision, s.failed \o s.pending)
  /\ \/ r.step = "idle" /\ Frees(c)
     \/ /\ r.step = "send" /\ UNCHANGED lock
        /\ r.batch = s.batch /\ r.pending = Rest(s) /\ r.failed = s.failed \o Chunk(s)
        /\ r.revision = s.revision
  /\ rejected' = rejected \cup Members(Chunk(s))
  /\ UNCHANGED <<log, begun, made, queue, dropped>>

Retries(c) == \E r \in Records :
  /\ Sets(c, r) /\ cmd[c].step = "settle" /\ r.step = "send"
  /\ Keeps(r, cmd[c])
  /\ Quiet /\ UNCHANGED lock

CommandMoves(c) ==
  \/ Parks(c) \/ Captures(c) \/ Opens(c) \/ Appends(c) \/ Loads(c) \/ Applies(c)
  \/ Misses(c) \/ Takes(c) \/ Rejects(c) \/ Retries(c)

LEMMA NoCommandFits == NoCommand \in Records /\ NoCommand.step = "idle"
  BY DEF NoCommand, Records, CommandStates, Poised, Modes, Revisions

LEMMA EndsParks ==
  ASSUME NEW c \in Commands, Ends(c), Quiet
  PROVE  Parks(c)
  BY NoCommandFits DEF Ends, Parks, Sets, Frees

LEMMA Numbered ==
  ASSUME NEW n \in Nat, NEW m \in Nat
  PROVE  /\ [i \in 1..n |-> m + i] \in Seq(Nat)
         /\ Len([i \in 1..n |-> m + i]) = n
         /\ Distinct([i \in 1..n |-> m + i])
         /\ Members([i \in 1..n |-> m + i]) = (m + 1)..(m + n)
  <1> DEFINE s == [i \in 1..n |-> m + i]
  <1>1. s \in Seq(Nat) /\ Len(s) = n /\ DOMAIN s = 1..n /\ \A i \in 1..n : s[i] = m + i
    OBVIOUS
  <1> HIDE DEF s
  <1>2. Distinct(s)
    BY <1>1 DEF Distinct
  <1>3. ASSUME NEW q \in (m + 1)..(m + n)
        PROVE  q \in Members(s)
    <2>1. q - m \in 1..n /\ s[q - m] = q
      BY <1>1
    <2> QED
      BY <1>1, <2>1 DEF Members
  <1>4. Members(s) \subseteq (m + 1)..(m + n)
    BY <1>1 DEF Members
  <1>5. Members(s) = (m + 1)..(m + n)
    BY <1>3, <1>4
  <1> QED
    BY <1>1, <1>2, <1>5 DEF s

LEMMA StartShapes ==
  ASSUME TypeOK, NEW c \in Commands, NEW b \in Batches
  PROVE  /\ \A mode \in {"atomic", "continue", "split"} : StartEnd(c, b, mode) => Parks(c)
         /\ \A n \in 1..MaxRequests, first \in BOOLEAN : Capture(c, b, n, first) => Captures(c)
  <1>1. ASSUME NEW mode \in {"atomic", "continue", "split"}, StartEnd(c, b, mode)
        PROVE  Parks(c)
    <2> DEFINE r == [NoCommand EXCEPT !.step = "end", !.batch = b, !.mode = mode]
    <2>1. NoCommand \in CommandStates /\ NoCommand.failed = <<>>
      BY NoCommandFits DEF Records, NoCommand
    <2>2. r \in CommandStates /\ r.step = "end" /\ r.batch = b /\ r.failed = <<>>
      BY <2>1 DEF CommandStates, Modes
    <2>3. r \in Records
      BY <2>2 DEF Records, Poised
    <2>4. cmd' = [cmd EXCEPT ![c] = r] /\ lock' = lock /\ Quiet
      BY <1>1 DEF StartEnd, Begins, Quiet
    <2> HIDE DEF r
    <2> QED
      BY <2>2, <2>3, <2>4 DEF Parks, Sets
  <1>2. ASSUME NEW n \in 1..MaxRequests, NEW first \in BOOLEAN, Capture(c, b, n, first)
        PROVE  Captures(c)
    <2> DEFINE adding == [i \in 1..n |-> Len(made) + i]
               r == [NoCommand EXCEPT !.step = "append", !.batch = b, !.revision = Revision,
                                      !.adding = adding, !.first = first]
    <2>1. Len(made) \in Nat /\ Revision \in Nat /\ n \in Nat
      BY BoundAssumption DEF TypeOK, Revision
    <2>2. adding \in Seq(Nat)
      BY <2>1, Numbered
    <2> HIDE DEF adding
    <2>3. /\ r \in Records /\ r.step = "append" /\ r.batch = b
          /\ r.revision = Revision /\ r.adding = adding
      <3>1. NoCommand \in CommandStates
        BY NoCommandFits DEF Records
      <3>2. [NoCommand EXCEPT !.first = first] \in CommandStates
        BY <3>1 DEF CommandStates
      <3>3. PICK k \in CommandStates : k = [NoCommand EXCEPT !.first = first]
        BY <3>2
      <3>4. r = [k EXCEPT !.step = "append", !.batch = b, !.revision = Revision, !.adding = adding]
        BY <3>3 DEF NoCommand
      <3>5. /\ r \in CommandStates /\ r.step = "append" /\ r.batch = b
            /\ r.revision = Revision /\ r.adding = adding
        BY <2>1, <2>2, <3>4 DEF CommandStates, Revisions
      <3> QED
        BY <3>5 DEF Records, Poised
    <2>4. /\ cmd' = [cmd EXCEPT ![c] = r]
          /\ made' = made \o [i \in 1..n |-> [batch |-> b, revision |-> Revision]]
          /\ Len(made) + n <= MaxRequests
          /\ UNCHANGED <<file, lock, log, begun, queue, dropped, rejected>>
      BY <1>2 DEF Capture, Begins, adding
    <2> HIDE DEF r
    <2> QED
      BY <2>1, <2>3, <2>4 DEF Captures, Sets, adding
  <1> QED
    BY <1>1, <1>2

LEMMA ReadShapes ==
  ASSUME TypeOK, Assigned, NEW c \in Commands
  PROVE  /\ ReadForAppend(c) => Parks(c) \/ Opens(c)
         /\ ReadForEnd(c) => Parks(c) \/ Loads(c)
  <1> DEFINE s == cmd[c]
  <1>1. s \in CommandStates /\ Poised(s)
    BY DEF Assigned, Records
  <1>2. ASSUME ReadForAppend(c), ~Parks(c)
        PROVE  Opens(c)
    <2>1. /\ s.step = "append" /\ lock = None /\ lock' = c /\ Quiet
          /\ file[s.batch] # None /\ Appendable(file[s.batch], s)
          /\ cmd' = [cmd EXCEPT ![c].step = "write", ![c].pending = file[s.batch].requests]
      BY <1>2, EndsParks DEF ReadForAppend, Quiet, LockFree
    <2>2. s.batch \in Batches /\ file[s.batch] \in States
      BY <1>1, <2>1 DEF Poised, TypeOK
    <2> DEFINE r == [s EXCEPT !.step = "write", !.pending = file[s.batch].requests]
    <2>3. /\ r \in Records /\ r.step = "write" /\ r.batch = s.batch /\ r.adding = s.adding
          /\ r.revision = s.revision /\ r.pending = file[s.batch].requests
      BY <1>1, <2>2 DEF Records, CommandStates, Poised, States
    <2>4. cmd' = [cmd EXCEPT ![c] = r]
      BY <2>1 DEF TypeOK
    <2>5. file[s.batch].revision \in {None, s.revision}
      BY <2>1 DEF Appendable
    <2> HIDE DEF r
    <2> QED
      BY <2>1, <2>3, <2>4, <2>5 DEF Opens, Sets
  <1>3. ASSUME ReadForEnd(c), ~Parks(c)
        PROVE  Loads(c)
    <2>1. /\ s.step = "end" /\ lock = None /\ lock' = c /\ Quiet
          /\ file[s.batch] # None /\ file[s.batch].requests # <<>>
          /\ cmd' = [cmd EXCEPT ![c].step = "send", ![c].revision = file[s.batch].revision,
                                ![c].pending = file[s.batch].requests]
      BY <1>3, EndsParks DEF ReadForEnd, Quiet, LockFree
    <2>2. s.batch \in Batches /\ file[s.batch] \in States
      BY <1>1, <2>1 DEF Poised, TypeOK
    <2> DEFINE r == [s EXCEPT !.step = "send", !.revision = file[s.batch].revision,
                              !.pending = file[s.batch].requests]
    <2>3. /\ r \in Records /\ r.step = "send" /\ r.batch = s.batch /\ r.failed = <<>>
          /\ r.revision = file[s.batch].revision /\ r.pending = file[s.batch].requests
      BY <1>1, <2>1, <2>2 DEF Records, CommandStates, Poised, States
    <2>4. cmd' = [cmd EXCEPT ![c] = r]
      BY <2>1 DEF TypeOK
    <2> HIDE DEF r
    <2> QED
      BY <2>1, <2>3, <2>4 DEF Loads, Sets
  <1> QED
    BY <1>2, <1>3

LEMMA SendShapes ==
  ASSUME TypeOK, Assigned, NEW c \in Commands, NEW answer \in Answers
  PROVE  /\ \A given \in BOOLEAN : Applied(c, answer, given) => Applies(c)
         /\ NotApplied(c, answer) => Misses(c)
  <1> DEFINE s == cmd[c]
  <1>1. s \in CommandStates /\ Poised(s) /\ Revision \in Nat
    BY DEF Assigned, Records, TypeOK, Revision
  <1>2. ASSUME NEW given \in BOOLEAN, Applied(c, answer, given)
        PROVE  Applies(c)
    <2>1. PICK g \in {None, Revision + 1} : g = IF given THEN Revision + 1 ELSE None
      OBVIOUS
    <2>2. /\ s.step = "send" /\ Current(s)
          /\ log' = Append(log, [by |-> s.batch, requests |-> Chunk(s)])
          /\ cmd' = [cmd EXCEPT ![c].step = "settle", ![c].answer = answer, ![c].given = g]
          /\ UNCHANGED <<file, lock, begun, history>>
      BY <1>2, <2>1 DEF Applied
    <2> DEFINE r == [s EXCEPT !.step = "settle", !.answer = answer, !.given = g]
    <2>3. /\ r \in Records /\ r.step = "settle" /\ Keeps(r, s) /\ r.mode = s.mode /\ r.given = g
      <3>1. g \in Revisions
        BY <1>1 DEF Revisions
      <3>2. r \in CommandStates
        BY <1>1, <3>1 DEF CommandStates, Answers
      <3>3. r.step = "settle" /\ Keeps(r, s) /\ r.mode = s.mode /\ r.given = g
        BY <1>1 DEF CommandStates, Keeps
      <3> QED
        BY <1>1, <2>2, <3>2, <3>3 DEF Records, Poised, Keeps
    <2>4. cmd' = [cmd EXCEPT ![c] = r]
      BY <2>2 DEF TypeOK
    <2> HIDE DEF r
    <2>5. r.batch = s.batch /\ Chunk(r) = Chunk(s)
      BY <2>3 DEF Keeps, Chunk, ChunkSize
    <2> QED
      BY <2>2, <2>3, <2>4, <2>5 DEF Applies, Sets
  <1>3. ASSUME NotApplied(c, answer)
        PROVE  Misses(c)
    <2>1. /\ s.step = "send" /\ answer # "ok" /\ Quiet /\ UNCHANGED lock
          /\ cmd' = [cmd EXCEPT ![c].step = "settle", ![c].answer = answer]
      BY <1>3 DEF NotApplied, Quiet
    <2> DEFINE r == [s EXCEPT !.step = "settle", !.answer = answer]
    <2>2. r \in Records /\ r.step = "settle" /\ Keeps(r, s) /\ r.answer # "ok"
      BY <1>1, <2>1 DEF Records, CommandStates, Poised, Keeps, Answers
    <2>3. cmd' = [cmd EXCEPT ![c] = r]
      BY <2>1 DEF TypeOK
    <2> HIDE DEF r
    <2> QED
      BY <2>1, <2>2, <2>3 DEF Misses, Sets
  <1> QED
    BY <1>2, <1>3

(* Going on with a record that may have nothing left to send.              *)
LEMMA ProceedShape ==
  ASSUME TypeOK, NEW c \in Commands, NEW k \in CommandStates, k.batch \in Batches, Proceed(c, k)
  PROVE  \E r \in Records :
           /\ Sets(c, r)
           /\ \/ r.step = "idle" /\ Frees(c)
              \/ r.step = "send" /\ UNCHANGED lock /\ Keeps(r, k)
  <1>1. CASE k.pending = <<>>
    <2>1. Sets(c, NoCommand) /\ Frees(c)
      BY <1>1, NoCommandFits DEF Proceed, Ends, Sets, Frees
    <2> QED
      BY <2>1, NoCommandFits
  <1>2. CASE k.pending # <<>>
    <2> DEFINE r == [k EXCEPT !.step = "send", !.answer = "none", !.given = None]
    <2>1. r \in CommandStates /\ r.step = "send" /\ Keeps(r, k)
      BY DEF CommandStates, Keeps, Revisions
    <2>2. cmd' = [cmd EXCEPT ![c] = r] /\ UNCHANGED lock
      BY <1>2 DEF Proceed
    <2> HIDE DEF r
    <2>3. r \in Records
      BY <1>2, <2>1 DEF Records, Poised, Keeps
    <2> QED
      BY <2>1, <2>2, <2>3 DEF Sets
  <1> QED
    BY <1>1, <1>2

LEMMA SettleShapes ==
  ASSUME TypeOK, Assigned, NEW c \in Commands
  PROVE  /\ SettleApplied(c) => Takes(c)
         /\ SettleRejected(c) => Rejects(c)
         /\ SettleFailed(c) => Parks(c) \/ Retries(c)
  <1> DEFINE s == cmd[c]
  <1>1. s \in CommandStates /\ Poised(s) /\ s \in Records
    BY DEF Assigned, Records
  <1>2. ASSUME s.step = "settle"
        PROVE  /\ s.batch \in Batches /\ s.pending # <<>> /\ Rest(s) \in Seq(Nat)
               /\ s.failed \in Seq(Nat) /\ s.failed \o Chunk(s) \in Seq(Nat)
    <2>1. s.batch \in Batches /\ s.pending # <<>>
      BY <1>1, <1>2 DEF Poised
    <2> HIDE DEF s
    <2>2. Rest(s) \in Seq(Nat) /\ Chunk(s) \in Seq(Nat) /\ s.failed \in Seq(Nat)
      BY <1>1, <2>1, ChunkAndRest
    <2> QED
      BY <2>1, <2>2, ConcatProperties
  <1>3. ASSUME SettleApplied(c)
        PROVE  Takes(c)
    <2> DEFINE revision == IF s.given = None THEN s.revision ELSE s.given
               k == [s EXCEPT !.pending = Rest(s), !.revision = revision]
    <2>0. s.step = "settle" /\ s.answer = "ok" /\ revision \in Revisions
      BY <1>1, <1>3 DEF SettleApplied, CommandStates
    <2>1. /\ k \in CommandStates /\ k.batch \in Batches
          /\ k.batch = s.batch /\ k.pending = Rest(s) /\ k.failed = s.failed /\ k.revision = revision
      BY <1>1, <1>2, <2>0 DEF CommandStates
    <2>2. /\ Persist(s.batch, revision, s.failed \o Rest(s)) /\ UNCHANGED <<log, begun, history>>
          /\ Ends(c) \/ Proceed(c, k)
      BY <1>3 DEF SettleApplied
    <2>3. Stores(c, revision, s.failed \o Rest(s))
      BY <2>2 DEF Persist, Stores
    <2> HIDE DEF k
    <2>4. PICK r \in Records :
            /\ Sets(c, r)
            /\ \/ r.step = "idle" /\ Frees(c)
               \/ r.step = "send" /\ UNCHANGED lock /\ Keeps(r, k)
      <3>1. CASE Ends(c)
        BY <3>1, NoCommandFits DEF Ends, Sets, Frees
      <3>2. CASE Proceed(c, k)
        BY <2>1, <3>2, ProceedShape
      <3> QED
        BY <2>2, <3>1, <3>2
    <2> QED
      BY <2>0, <2>1, <2>2, <2>3, <2>4 DEF Takes, Keeps
  <1>4. ASSUME SettleRejected(c)
        PROVE  Rejects(c)
    <2> DEFINE k == [s EXCEPT !.pending = Rest(s), !.failed = s.failed \o Chunk(s)]
    <2>0. s.step = "settle" /\ s.answer # "ok"
      BY <1>4 DEF SettleRejected
    <2>1. /\ k \in CommandStates /\ k.batch \in Batches
          /\ k.batch = s.batch /\ k.pending = Rest(s) /\ k.failed = s.failed \o Chunk(s)
          /\ k.revision = s.revision
      BY <1>1, <1>2, <2>0 DEF CommandStates
    <2>2. /\ Persist(s.batch, s.revision, s.failed \o s.pending)
          /\ UNCHANGED <<log, begun, made, queue, dropped>>
          /\ rejected' = rejected \cup Members(Chunk(s))
          /\ Proceed(c, k)
      BY <1>4 DEF SettleRejected
    <2>3. Stores(c, s.revision, s.failed \o s.pending)
      BY <2>2 DEF Persist, Stores
    <2> HIDE DEF k
    <2>4. PICK r \in Records :
            /\ Sets(c, r)
            /\ \/ r.step = "idle" /\ Frees(c)
               \/ r.step = "send" /\ UNCHANGED lock /\ Keeps(r, k)
      BY <2>1, <2>2, ProceedShape
    <2> QED
      BY <2>0, <2>1, <2>2, <2>3, <2>4 DEF Rejects, Keeps
  <1>5. ASSUME SettleFailed(c), ~Parks(c)
        PROVE  Retries(c)
    <2> DEFINE k == [s EXCEPT !.mode = "single"]
    <2>0. s.step = "settle" /\ Proceed(c, k) /\ Quiet
      BY <1>5, EndsParks DEF SettleFailed, GoesOn, Quiet
    <2>1. k \in CommandStates /\ k.batch \in Batches /\ Keeps(k, s) /\ k.pending # <<>>
      BY <1>1, <1>2, <2>0 DEF CommandStates, Keeps, Modes
    <2> HIDE DEF k
    <2>2. PICK r \in Records :
            /\ Sets(c, r)
            /\ \/ r.step = "idle" /\ Frees(c)
               \/ r.step = "send" /\ UNCHANGED lock /\ Keeps(r, k)
      BY <2>0, <2>1, ProceedShape
    <2>3. CASE r.step = "idle"
      BY <1>5, <2>0, <2>2, <2>3 DEF Parks
    <2>4. CASE r.step = "send" /\ UNCHANGED lock /\ Keeps(r, k)
      BY <2>0, <2>1, <2>2, <2>4 DEF Retries, Keeps
    <2> QED
      BY <2>2, <2>3, <2>4
  <1> QED
    BY <1>3, <1>4, <1>5

(* Whatever a command does is one of the steps above.                      *)
LEMMA Moves ==
  ASSUME TypeOK, Assigned, NEW c \in Commands,
         \/ \E b \in Batches, n \in 1..MaxRequests, first \in BOOLEAN : Capture(c, b, n, first)
         \/ \E b \in Batches, mode \in {"atomic", "continue", "split"} : StartEnd(c, b, mode)
         \/ Works(c) \/ Kill(c)
  PROVE  CommandMoves(c)
  <1>1. CASE GiveUp(c) \/ Kill(c)
    BY <1>1, EndsParks DEF GiveUp, Kill, Quiet, CommandMoves
  <1>2. CASE WriteAppend(c)
    BY <1>2, NoCommandFits DEF WriteAppend, Ends, Appends, Sets, Frees, CommandMoves
  <1>3. CASE ReadForAppend(c) \/ ReadForEnd(c)
    BY <1>3, ReadShapes DEF CommandMoves
  <1>4. CASE SettleApplied(c) \/ SettleRejected(c) \/ SettleFailed(c)
    BY <1>4, SettleShapes DEF CommandMoves
  <1>5. ASSUME NEW answer \in Answers, \/ \E given \in BOOLEAN : Applied(c, answer, given)
                                       \/ NotApplied(c, answer)
        PROVE  CommandMoves(c)
    BY <1>5, SendShapes DEF CommandMoves
  <1>6. ASSUME NEW b \in Batches,
               \/ \E n \in 1..MaxRequests, first \in BOOLEAN : Capture(c, b, n, first)
               \/ \E mode \in {"atomic", "continue", "split"} : StartEnd(c, b, mode)
        PROVE  CommandMoves(c)
    BY <1>6, StartShapes DEF CommandMoves
  <1> QED
    BY <1>1, <1>2, <1>3, <1>4, <1>5, <1>6 DEF Works, Proceeds, Answered

-----------------------------------------------------------------------------
(* Types                                                                   *)

Updates == [by: Batches \cup {Foreign}, requests: Seq(Nat)]
Origins == [batch: Batches, revision: Nat]

DataTypes ==
  /\ file \in [Batches -> States \cup {None}]
  /\ log \in Seq(Updates) /\ made \in Seq(Origins)
  /\ begun \subseteq Batches /\ queue \in [Batches -> Seq(Nat)]
  /\ dropped \subseteq Nat /\ rejected \subseteq Nat

HolderTypes ==
  /\ lock \in Commands \cup {None}
  /\ \A c \in Commands : cmd[c].step \in Busy => lock = c

LEMMA TypesSplit ==
  TypeOK <=> DataTypes /\ HolderTypes /\ cmd \in [Commands -> CommandStates]
  BY DEF TypeOK, DataTypes, HolderTypes, Updates, Origins, Busy

(* The other commands are not past the lock.                               *)
LEMMA OthersWait ==
  ASSUME HolderTypes, NEW c \in Commands, lock \in {None, c},
         NEW d \in Commands, d # c
  PROVE  cmd[d].step \notin Busy
  BY NoneAssumption DEF HolderTypes

LEMMA LockStep ==
  ASSUME TypeOK, Assigned, NEW c \in Commands, NEW r \in Records, Sets(c, r),
         \/ lock' = lock /\ (r.step \in Busy => lock = c)
         \/ Frees(c) /\ r.step \notin Busy
         \/ lock = None /\ lock' = c
  PROVE  HolderTypes' /\ Assigned' /\ cmd' \in [Commands -> CommandStates]
  <1>1. cmd \in [Commands -> Records] /\ cmd' \in [Commands -> Records] /\ cmd'[c] = r
        /\ \A d \in Commands \ {c} : cmd'[d] = cmd[d]
    BY DEF Sets, Assigned, TypeOK
  <1>2. Assigned' /\ cmd' \in [Commands -> CommandStates]
    BY <1>1 DEF Assigned, Records
  <1>3. lock' \in Commands \cup {None}
    BY DEF Frees, TypeOK
  <1>4. HolderTypes
    BY TypesSplit
  <1>5. ASSUME NEW d \in Commands, cmd'[d].step \in Busy
        PROVE  lock' = d
    <2>1. CASE d = c
      BY <1>1, <1>5, <2>1
    <2>2. CASE d # c
      <3>1. cmd[d].step \in Busy /\ lock = d
        BY <1>1, <1>4, <1>5, <2>2 DEF HolderTypes
      <3> QED
        BY <2>2, <3>1, NoneAssumption DEF Frees
    <2> QED
      BY <2>1, <2>2
  <1> QED
    BY <1>2, <1>3, <1>5 DEF HolderTypes

LEMMA StoreTypes ==
  ASSUME DataTypes, NEW c \in Commands, NEW revision \in Revisions, NEW requests \in Seq(Nat),
         Stores(c, revision, requests)
  PROVE  file' \in [Batches -> States \cup {None}]
  <1>1. [revision |-> revision, requests |-> requests] \in States
    BY DEF States
  <1> QED
    BY <1>1 DEF DataTypes, Stores

LEMMA MovesKeepTypes ==
  ASSUME TypeOK, Assigned, NEW c \in Commands, CommandMoves(c)
  PROVE  TypeOK' /\ Assigned'
  <1> DEFINE s == cmd[c]
  <1>0. DataTypes /\ HolderTypes /\ s \in Records /\ s \in CommandStates /\ Poised(s)
    BY TypesSplit DEF Assigned, Records
  <1>1. s.step \in Busy => lock = c
    BY <1>0 DEF HolderTypes
  <1>2. /\ s.revision \in Revisions /\ s.given \in Revisions
        /\ s.pending \in Seq(Nat) /\ s.adding \in Seq(Nat) /\ s.failed \in Seq(Nat)
    BY <1>0 DEF CommandStates
  <1>3. s.step = "settle" =>
          /\ Chunk(s) \in Seq(Nat) /\ Members(Chunk(s)) \subseteq Nat
          /\ s.failed \o Rest(s) \in Seq(Nat) /\ s.failed \o s.pending \in Seq(Nat)
    <2>1. SUFFICES ASSUME s.step = "settle"
                   PROVE  /\ Chunk(s) \in Seq(Nat) /\ Members(Chunk(s)) \subseteq Nat
                          /\ s.failed \o Rest(s) \in Seq(Nat) /\ s.failed \o s.pending \in Seq(Nat)
      OBVIOUS
    <2>2. s.pending # <<>>
      BY <1>0, <2>1 DEF Poised
    <2> HIDE DEF s
    <2>3. Chunk(s) \in Seq(Nat) /\ Rest(s) \in Seq(Nat)
      BY <1>0, <2>2, ChunkAndRest
    <2>4. Members(Chunk(s)) \subseteq Nat
      BY <2>3 DEF Members
    <2> QED
      BY <1>2, <2>3, <2>4, ConcatProperties
  <1> HIDE DEF s
  <1>4. ASSUME DataTypes', HolderTypes' /\ Assigned' /\ cmd' \in [Commands -> CommandStates]
        PROVE  TypeOK' /\ Assigned'
    BY <1>4, TypesSplit DEF TypeOK, DataTypes, HolderTypes, Updates, Origins, Busy
  <1>5. Quiet => DataTypes'
    BY <1>0 DEF Quiet, history, DataTypes
  <1>6. CASE Parks(c) \/ Loads(c) \/ Opens(c) \/ Misses(c) \/ Retries(c)
    <2>1. HolderTypes' /\ Assigned' /\ cmd' \in [Commands -> CommandStates]
      BY <1>1, <1>6, LockStep DEF Parks, Loads, Opens, Misses, Retries, s, Busy
    <2>2. Quiet
      BY <1>6 DEF Parks, Loads, Opens, Misses, Retries
    <2> QED
      BY <1>4, <1>5, <2>1, <2>2
  <1>7. CASE Captures(c)
    <2>1. PICK r \in Records, n \in Nat :
            /\ Sets(c, r) /\ r.step = "append" /\ UNCHANGED lock
            /\ made' = made \o [i \in 1..n |-> [batch |-> r.batch, revision |-> Revision]]
            /\ UNCHANGED <<file, log, begun, queue, dropped, rejected>>
      BY <1>7 DEF Captures
    <2>2. r.batch \in Batches /\ Revision \in Nat
      BY <1>0, <2>1 DEF Records, Poised, DataTypes, Revision
    <2>3. [i \in 1..n |-> [batch |-> r.batch, revision |-> Revision]] \in Seq(Origins)
      BY <2>2 DEF Origins
    <2>4. DataTypes'
      BY <1>0, <2>1, <2>3, ConcatProperties DEF DataTypes
    <2>5. HolderTypes' /\ Assigned' /\ cmd' \in [Commands -> CommandStates]
      BY <2>1, LockStep DEF Busy
    <2> QED
      BY <1>4, <2>4, <2>5
  <1>8. CASE Appends(c)
    <2>1. HolderTypes' /\ Assigned' /\ cmd' \in [Commands -> CommandStates]
      BY <1>8, NoCommandFits, LockStep DEF Appends, Busy
    <2>2. s.pending \o s.adding \in Seq(Nat)
      BY <1>2, ConcatProperties
    <2>3. [revision |-> s.revision, requests |-> s.pending \o s.adding] \in States
      BY <1>2, <2>2 DEF States
    <2>4. \A b \in Batches : queue[b] \o s.adding \in Seq(Nat)
      BY <1>0, <1>2, ConcatProperties DEF DataTypes
    <2>5. DataTypes'
      BY <1>0, <1>8, <2>3, <2>4 DEF Appends, DataTypes, s
    <2> QED
      BY <1>4, <2>1, <2>5
  <1>9. CASE Applies(c)
    <2>1. PICK r \in Records :
            /\ Sets(c, r) /\ r.step = "settle" /\ s.step = "send" /\ UNCHANGED lock
            /\ log' = Append(log, [by |-> r.batch, requests |-> Chunk(r)])
            /\ UNCHANGED <<file, begun, history>>
      BY <1>9 DEF Applies, s
    <2>2. HolderTypes' /\ Assigned' /\ cmd' \in [Commands -> CommandStates]
      BY <1>1, <2>1, LockStep DEF Busy
    <2>3. r \in CommandStates /\ r.pending # <<>> /\ r.batch \in Batches
      BY <2>1 DEF Records, Poised
    <2>4. [by |-> r.batch, requests |-> Chunk(r)] \in Updates
      BY <2>3, ChunkAndRest DEF Updates
    <2>5. DataTypes'
      BY <1>0, <2>1, <2>4, AppendProperties DEF DataTypes, history
    <2> QED
      BY <1>4, <2>2, <2>5
  <1>10. CASE Takes(c)
    <2>1. s.step = "settle" /\ UNCHANGED <<log, begun, history>>
      BY <1>10 DEF Takes, s
    <2>2. HolderTypes' /\ Assigned' /\ cmd' \in [Commands -> CommandStates]
      BY <1>1, <1>10, LockStep DEF Takes, Busy, s
    <2>3. PICK revision \in Revisions : Stores(c, revision, s.failed \o Rest(s))
      BY <1>2, <1>10 DEF Takes, s
    <2>4. file' \in [Batches -> States \cup {None}]
      BY <1>0, <1>3, <2>1, <2>3, StoreTypes
    <2>5. DataTypes'
      BY <1>0, <2>1, <2>4 DEF DataTypes, history
    <2> QED
      BY <1>4, <2>2, <2>5
  <1>11. CASE Rejects(c)
    <2>1. /\ s.step = "settle" /\ UNCHANGED <<log, begun, made, queue, dropped>>
          /\ rejected' = rejected \cup Members(Chunk(s))
          /\ Stores(c, s.revision, s.failed \o s.pending)
      BY <1>11 DEF Rejects, s
    <2>2. HolderTypes' /\ Assigned' /\ cmd' \in [Commands -> CommandStates]
      BY <1>1, <1>11, LockStep DEF Rejects, Busy, s
    <2>4. file' \in [Batches -> States \cup {None}]
      BY <1>0, <1>2, <1>3, <2>1, StoreTypes
    <2>5. DataTypes'
      BY <1>0, <1>3, <2>1, <2>4 DEF DataTypes
    <2> QED
      BY <1>4, <2>2, <2>5
  <1> QED
    BY <1>6, <1>7, <1>8, <1>9, <1>10, <1>11 DEF CommandMoves

LEMMA WorldKeepsTypes ==
  ASSUME TypeOK, Assigned,
         \/ \E b \in Batches : Create(b)
         \/ \E S \in SUBSET Batches : Discard(S)
         \/ Edit \/ UNCHANGED vars
  PROVE  TypeOK' /\ Assigned'
  <1>0. DataTypes
    BY TypesSplit
  <1>1. UNCHANGED <<lock, cmd>>
    BY DEF Create, Discard, Edit, vars
  <1>2. ASSUME DataTypes'
        PROVE  TypeOK' /\ Assigned'
    BY <1>1, <1>2, TypesSplit DEF TypeOK, DataTypes, Updates, Origins, Assigned
  <1>3. ASSUME NEW b \in Batches, Create(b)
        PROVE  DataTypes'
    <2>1. Empty \in States
      BY DEF Empty, States, Revisions
    <2> QED
      BY <1>0, <1>3, <2>1 DEF Create, DataTypes, history
  <1>4. ASSUME NEW S \in SUBSET Batches, Discard(S)
        PROVE  DataTypes'
    <2>1. \A b \in S : file[b] \in States /\ file[b].requests \in Seq(Nat)
      BY <1>0, <1>4 DEF DataTypes, Discard, States
    <2>2. UNION {Members(file[b].requests) : b \in S} \subseteq Nat
      BY <2>1 DEF Members
    <2> QED
      BY <1>0, <1>4, <2>2 DEF Discard, DataTypes
  <1>5. ASSUME Edit
        PROVE  DataTypes'
    <2>1. [by |-> Foreign, requests |-> <<>>] \in Updates
      BY DEF Updates
    <2> QED
      BY <1>0, <1>5, <2>1, AppendProperties DEF Edit, DataTypes, history
  <1>6. ASSUME UNCHANGED vars
        PROVE  DataTypes'
    BY <1>0, <1>6 DEF vars, history, DataTypes
  <1> QED
    BY <1>2, <1>3, <1>4, <1>5, <1>6

LEMMA NextMoves ==
  ASSUME TypeOK, Assigned, [Next]_vars
  PROVE  \/ \E c \in Commands : CommandMoves(c)
         \/ \E b \in Batches : Create(b)
         \/ \E S \in SUBSET Batches : Discard(S)
         \/ Edit \/ UNCHANGED vars
  BY Moves DEF Next

LEMMA TypeStep == TypeOK /\ Assigned /\ [Next]_vars => TypeOK' /\ Assigned'
  BY NextMoves, MovesKeepTypes, WorldKeepsTypes

LEMMA TypeInit == Init => TypeOK /\ Assigned
  <1> SUFFICES ASSUME Init
               PROVE  TypeOK /\ Assigned
    OBVIOUS
  <1>1. Assigned /\ cmd \in [Commands -> CommandStates]
    BY NoCommandFits DEF Init, Assigned, Records
  <1>2. HolderTypes
    BY NoCommandFits DEF Init, HolderTypes, Busy
  <1>3. DataTypes
    BY DEF Init, DataTypes
  <1> QED
    BY <1>1, <1>2, <1>3, TypesSplit

(* Batch files, locks, commands, the document and the history keep their   *)
(* types, and whoever is past the lock holds it (internal/filelock).       *)
THEOREM TypeCorrect == Spec => []TypeOK
  <1>1. Spec => [](TypeOK /\ Assigned)
    BY TypeInit, TypeStep, PTL DEF Spec
  <1> QED
    BY <1>1, PTL

-----------------------------------------------------------------------------
(* The invariant                                                           *)

(* The requests in a batch file, and those a command is about to add.      *)
Queued(b) == IF file[b] = None THEN {} ELSE Members(file[b].requests)
Adding(c) == IF cmd[c].step \in {"append", "write"} THEN Members(cmd[c].adding) ELSE {}

Touched(q) ==
  AppliedAt(q) # {} \/ \E b \in Batches : q \in Queued(b) \/ q \in Members(queue[b])

Known == \A q \in Nat : Touched(q) => q \in Requests

(* What a batch file says of its requests: they were made for this         *)
(* document, only this batch has changed it up to the file's revision, and *)
(* if one of them was applied nevertheless the revision is old.            *)
OwnSince(q, b, revision) ==
  /\ made[q].batch = b /\ made[q].revision <= revision
  /\ \A j \in (made[q].revision + 1)..revision : log[j].by = b

Sound(b, f) ==
  /\ Distinct(f.requests)
  /\ f.requests # <<>> => f.revision \in 0..Revision
  /\ \A q \in Members(f.requests) :
       /\ q \in Requests /\ OwnSince(q, b, f.revision)
       /\ AppliedAt(q) # {} => f.revision < Revision

FileInv == \A b \in Batches : file[b] # None => b \in begun /\ Sound(b, file[b])

(* What a command is about to add is new, and made for the revision it     *)
(* read.                                                                   *)
Fresh(r) ==
  /\ r.revision \in 0..Revision /\ Distinct(r.adding)
  /\ \A q \in Members(r.adding) :
       q \in Requests /\ made[q] = [batch |-> r.batch, revision |-> r.revision] /\ ~ Touched(q)

Copied(r) ==
  /\ file[r.batch] # None /\ r.pending = file[r.batch].requests
  /\ file[r.batch].revision \in {None, r.revision}

(* What a command submits is what its batch file holds; once Google has    *)
(* accepted a chunk, exactly the chunk is in the document.                 *)
Submitted(r) ==
  /\ file[r.batch] # None /\ file[r.batch].revision = r.revision
  /\ file[r.batch].requests = r.failed \o r.pending

Accepted(r) ==
  /\ r.revision < Revision
  /\ r.given # None => r.given = r.revision + 1 /\ log[r.given].by = r.batch
  /\ \A q \in Members(Chunk(r)) : AppliedAt(q) # {}
  /\ \A q \in Members(r.failed) \cup Members(Rest(r)) : AppliedAt(q) = {}

CommandSound(r) ==
  /\ r.step \in {"append", "write"} => Fresh(r)
  /\ r.step = "write" => Copied(r)
  /\ r.step \in {"send", "settle"} => Submitted(r)
  /\ r.step = "settle" /\ r.answer = "ok" => Accepted(r)

CommandInv == \A c \in Commands : CommandSound(cmd[c])
Apart == \A c, d \in Commands : c # d => Adding(c) \cap Adding(d) = {}

(* No batch that is not discarded has lost a request it acknowledged.      *)
QueueInv == \A b \in Batches :
  /\ \A q \in Members(queue[b]) : made[q].batch = b /\ b \in begun
  /\ file[b] # None =>
       \A q \in Members(queue[b]) : q \in Queued(b) \/ AppliedAt(q) # {}

IInv ==
  /\ TypeOK /\ Assigned /\ Known /\ FileInv /\ CommandInv /\ Apart /\ QueueInv
  /\ AppliedOnce /\ OnlyOwnEdits /\ NoRequestLost

-----------------------------------------------------------------------------
(* How the document and the list of requests grow                          *)

LogStep == log' = log \/ \E e \in Updates : log' = Append(log, e)
MadeStep == \A q \in Requests : q \in Requests' /\ made'[q] = made[q]

LEMMA Positions ==
  ASSUME TypeOK
  PROVE  /\ Revision \in Nat /\ DOMAIN log = 1..Revision
         /\ \A k \in 1..Revision : log[k].requests \in Seq(Nat)
         /\ \A q \in Requests : made[q].batch \in Batches /\ made[q].revision \in Nat
         /\ Requests = 1..Len(made) /\ Len(made) \in Nat
         /\ \A q : AppliedAt(q) \subseteq 1..Revision
  <1>1. log \in Seq(Updates) /\ made \in Seq(Origins)
    BY TypesSplit DEF DataTypes
  <1>2. Revision \in Nat /\ DOMAIN log = 1..Revision /\ \A k \in 1..Revision : log[k] \in Updates
    BY <1>1 DEF Revision
  <1>3. Requests = 1..Len(made) /\ Len(made) \in Nat /\ \A q \in Requests : made[q] \in Origins
    BY <1>1 DEF Requests
  <1>4. \A k \in 1..Revision : log[k].requests \in Seq(Nat)
    BY <1>2 DEF Updates
  <1>5. \A q \in Requests : made[q].batch \in Batches /\ made[q].revision \in Nat
    BY <1>3 DEF Origins
  <1> QED
    BY <1>2, <1>3, <1>4, <1>5 DEF AppliedAt

LEMMA Grows ==
  ASSUME TypeOK, NEW e \in Updates, log' = Append(log, e)
  PROVE  /\ Revision' = Revision + 1 /\ log'[Revision + 1] = e
         /\ \A k \in 1..Revision : log'[k] = log[k]
         /\ \A q : AppliedAt(q)' = IF q \in Members(e.requests) THEN AppliedAt(q) \cup {Revision + 1}
                                   ELSE AppliedAt(q)
  <1>1. log \in Seq(Updates) /\ Revision \in Nat /\ DOMAIN log = 1..Revision
    BY TypesSplit DEF DataTypes, Revision
  <1>2. /\ log' \in Seq(Updates) /\ Len(log') = Revision + 1 /\ log'[Revision + 1] = e
        /\ \A k \in 1..Revision : log'[k] = log[k]
    BY <1>1, AppendProperties DEF Revision
  <1>3. DOMAIN log' = 1..(Revision + 1)
    BY <1>2
  <1>4. ASSUME NEW q
        PROVE  AppliedAt(q)' = IF q \in Members(e.requests) THEN AppliedAt(q) \cup {Revision + 1}
                               ELSE AppliedAt(q)
    <2>1. 1..(Revision + 1) = (1..Revision) \cup {Revision + 1}
      BY <1>1
    <2>2. \A k \in 1..Revision : k \in AppliedAt(q)' <=> k \in AppliedAt(q)
      BY <1>1, <1>2, <1>3, <2>1 DEF AppliedAt, Members
    <2>3. Revision + 1 \in AppliedAt(q)' <=> q \in Members(e.requests)
      BY <1>2, <1>3, <2>1 DEF AppliedAt, Members
    <2>4. AppliedAt(q)' \subseteq (1..Revision) \cup {Revision + 1} /\ AppliedAt(q) \subseteq 1..Revision
      BY <1>1, <1>3, <2>1 DEF AppliedAt
    <2>5. Revision + 1 \notin 1..Revision
      BY <1>1
    <2> DEFINE A == AppliedAt(q)
               B == AppliedAt(q)'
    <2>6. /\ \A k \in 1..Revision : k \in B <=> k \in A
          /\ Revision + 1 \in B <=> q \in Members(e.requests)
          /\ B \subseteq (1..Revision) \cup {Revision + 1} /\ A \subseteq 1..Revision
      BY <2>2, <2>3, <2>4
    <2> HIDE DEF A, B
    <2>7. B = IF q \in Members(e.requests) THEN A \cup {Revision + 1} ELSE A
      <3> DEFINE N == 1..Revision
                 n == Revision + 1
      <3> HIDE DEF N, n
      <3>1. n \notin N /\ A \subseteq N /\ B \subseteq N \cup {n}
            /\ (\A k \in N : k \in B <=> k \in A) /\ (n \in B <=> q \in Members(e.requests))
        BY <2>5, <2>6 DEF N, n
      <3>2. CASE q \in Members(e.requests)
        BY <3>1, <3>2 DEF n
      <3>3. CASE q \notin Members(e.requests)
        <4>1. \A k \in B : k \in A
          BY <3>1, <3>3
        <4>2. \A k \in A : k \in B
          BY <3>1
        <4> QED
          BY <3>3, <4>1, <4>2
      <3> QED
        BY <3>2, <3>3
    <2> QED
      BY <2>7 DEF A, B
  <1> QED
    BY <1>2, <1>4 DEF Revision

LEMMA Later ==
  ASSUME TypeOK, LogStep
  PROVE  /\ Revision' \in Nat /\ Revision' >= Revision
         /\ log' # log => Revision' = Revision + 1
         /\ log' = log => Revision' = Revision /\ \A q : AppliedAt(q)' = AppliedAt(q)
         /\ \A k \in 1..Revision : log'[k] = log[k]
         /\ \A q : AppliedAt(q) \subseteq AppliedAt(q)'
  <1>1. Revision \in Nat
    BY Positions
  <1>2. CASE log' = log
    BY <1>1, <1>2 DEF Revision, AppliedAt
  <1>3. ASSUME NEW e \in Updates, log' = Append(log, e)
        PROVE  /\ Revision' = Revision + 1
               /\ \A k \in 1..Revision : log'[k] = log[k]
               /\ \A q : AppliedAt(q) \subseteq AppliedAt(q)'
    BY <1>3, Grows
  <1>4. ASSUME log' # log
        PROVE  /\ Revision' = Revision + 1
               /\ \A k \in 1..Revision : log'[k] = log[k]
               /\ \A q : AppliedAt(q) \subseteq AppliedAt(q)'
    BY <1>3, <1>4 DEF LogStep
  <1> QED
    BY <1>1, <1>2, <1>4

(* A file that is not rewritten stays sound: when the document changes its *)
(* revision gets old.                                                      *)
LEMMA SoundStays ==
  ASSUME TypeOK, LogStep, MadeStep, NEW b \in Batches, NEW f \in States, Sound(b, f)
  PROVE  Sound(b, f)'
  <1>1. /\ Revision \in Nat /\ Revision' \in Nat /\ Revision' >= Revision
        /\ \A q \in Requests : made[q].revision \in Nat
    BY Later, Positions
  <1>2. f.requests # <<>> => f.revision \in 0..Revision'
    BY <1>1 DEF Sound
  <1>3. ASSUME NEW q \in Members(f.requests)
        PROVE  q \in Requests' /\ OwnSince(q, b, f.revision)' /\ (AppliedAt(q)' # {} => f.revision < Revision')
    <2>1. /\ q \in Requests /\ OwnSince(q, b, f.revision) /\ f.revision \in 0..Revision
          /\ AppliedAt(q) # {} => f.revision < Revision
      BY <1>3 DEF Sound, Members
    <2>2. q \in Requests' /\ made'[q] = made[q] /\ made[q].revision \in Nat
      BY <1>1, <2>1 DEF MadeStep
    <2>3. \A j \in (made[q].revision + 1)..f.revision : j \in 1..Revision /\ log'[j] = log[j]
      BY <1>1, <2>1, <2>2, Later
    <2>4. OwnSince(q, b, f.revision)'
      BY <2>1, <2>2, <2>3 DEF OwnSince
    <2>5. AppliedAt(q)' # {} => f.revision < Revision'
      BY <1>1, <2>1, Later
    <2> QED
      BY <2>2, <2>4, <2>5
  <1> QED
    BY <1>2, <1>3 DEF Sound

LEMMA FilesStay ==
  ASSUME IInv, LogStep, MadeStep, NEW b \in Batches, file'[b] = file[b], begun \subseteq begun'
  PROVE  file'[b] # None => b \in begun' /\ Sound(b, file[b])'
  <1>1. SUFFICES ASSUME file[b] # None
                 PROVE  b \in begun' /\ Sound(b, file[b])'
    OBVIOUS
  <1>2. PICK f \in States : f = file[b]
    BY <1>1 DEF IInv, TypeOK
  <1>3. b \in begun /\ Sound(b, f)
    BY <1>1, <1>2 DEF IInv, FileInv
  <1>4. Sound(b, f)'
    BY <1>3, SoundStays DEF IInv
  <1>5. f = file'[b]
    BY <1>2
  <1> QED
    BY <1>3, <1>4, <1>5

(* The other commands: those that wait keep what they carry, and the one   *)
(* that holds the lock keeps its file.                                     *)
LEMMA OthersSound ==
  ASSUME IInv, LogStep, MadeStep, NEW d \in Commands, cmd'[d] = cmd[d],
         \A q \in Adding(d) : ~ Touched(q)',
         cmd[d].step \notin Busy \/ (UNCHANGED file /\ (log' = log \/ Edit))
  PROVE  CommandSound(cmd[d])'
  <1>0. TypeOK /\ Assigned /\ CommandSound(cmd[d])
    BY DEF IInv, CommandInv
  <1>1. PICK r \in Records : r = cmd[d]
    BY <1>0 DEF Assigned
  <1>2. r = cmd'[d] /\ CommandSound(r)
    BY <1>0, <1>1
  <1>3. /\ Revision \in Nat /\ Revision' \in Nat /\ Revision' >= Revision
        /\ \A q \in Requests : q \in Requests' /\ made'[q] = made[q]
    BY <1>0, Later, Positions DEF MadeStep
  <1>4. ASSUME r.step \in {"append", "write"}
        PROVE  Fresh(r)'
    BY <1>1, <1>2, <1>3, <1>4 DEF CommandSound, Fresh, Adding
  <1>5. ASSUME r.step \in Busy
        PROVE  /\ r.step = "write" => Copied(r)'
               /\ r.step \in {"send", "settle"} => Submitted(r)'
    BY <1>1, <1>2, <1>5 DEF CommandSound, Copied, Submitted
  <1>6. ASSUME r.step = "settle", r.answer = "ok"
        PROVE  Accepted(r)'
    <2>1. Accepted(r) /\ UNCHANGED file /\ (log' = log \/ Edit)
      BY <1>1, <1>2, <1>6 DEF CommandSound, Busy
    <2>2. \A q : AppliedAt(q)' = AppliedAt(q)
      <3>1. CASE log' = log
        BY <1>0, <3>1, Later
      <3>2. CASE Edit
        <4>1. [by |-> Foreign, requests |-> <<>>] \in Updates /\ Members(<<>>) = {}
          BY DEF Updates, Members
        <4>2. log' = Append(log, [by |-> Foreign, requests |-> <<>>])
          BY <3>2 DEF Edit
        <4> QED
          BY <1>0, <4>1, <4>2, Grows
      <3> QED
        BY <2>1, <3>1, <3>2
    <2>3. r.revision < Revision' /\ r.revision \in Nat
      <3>1. r.revision \in Revisions /\ r.pending # <<>> /\ r.batch \in Batches /\ Submitted(r)
            /\ r.pending \in Seq(Nat) /\ r.failed \in Seq(Nat)
        BY <1>2, <1>6 DEF Records, CommandStates, Poised, CommandSound
      <3>2. file[r.batch] # None /\ file[r.batch].requests # <<>> /\ file[r.batch].revision = r.revision
        BY <3>1, ConcatEqualIffEmpty DEF Submitted
      <3>3. r.revision \in 0..Revision
        BY <3>1, <3>2 DEF IInv, FileInv, Sound
      <3> QED
        BY <1>3, <2>1, <3>3 DEF Accepted
    <2>4. r.given # None => r.given = r.revision + 1 /\ log'[r.given] = log[r.given]
      <3>1. r.revision + 1 \in 1..Revision
        BY <1>3, <2>1, <2>3 DEF Accepted
      <3> QED
        BY <1>0, <2>1, <3>1, Later DEF Accepted
    <2> QED
      BY <2>1, <2>2, <2>3, <2>4 DEF Accepted
  <1>7. CommandSound(r)'
    BY <1>4, <1>5, <1>6 DEF CommandSound, Busy
  <1> QED
    BY <1>2, <1>7

-----------------------------------------------------------------------------
(* The invariant is preserved: steps of a command                          *)

(* What is in no file, no update and no acknowledgement is untouched.      *)
LEMMA Touches ==
  ASSUME NEW q
  PROVE  /\ UNCHANGED <<file, log, queue>> => (Touched(q)' <=> Touched(q))
         /\ \A b \in Batches : q \in Queued(b) \/ q \in Members(queue[b]) => Touched(q)
         /\ \A k \in DOMAIN log : q \in Members(log[k].requests) => Touched(q)
  BY DEF Touched, AppliedAt, Queued

LEMMA Waiting ==
  ASSUME IInv, NEW c \in Commands, NEW q \in Adding(c)
  PROVE  q \in Nat /\ q \in Requests /\ ~ Touched(q)
  <1>1. CommandSound(cmd[c]) /\ cmd[c].step \in {"append", "write"} /\ q \in Members(cmd[c].adding)
    BY DEF IInv, CommandInv, Adding
  <1>2. q \in Requests /\ ~ Touched(q)
    BY <1>1 DEF CommandSound, Fresh
  <1>3. Requests = 1..Len(made) /\ Len(made) \in Nat
    BY Positions DEF IInv
  <1> QED
    BY <1>2, <1>3

(* The facts about the world, as opposed to those about commands.          *)
WorldInv ==
  Known /\ FileInv /\ QueueInv /\ AppliedOnce /\ OnlyOwnEdits /\ NoRequestLost

LEMMA WorldStays ==
  ASSUME WorldInv, UNCHANGED <<file, log, begun, made, queue, dropped>>
  PROVE  WorldInv'
  <1>1. UNCHANGED <<file, log, begun, made, queue, dropped>>
    OBVIOUS
  <1>2. /\ Revision' = Revision /\ Requests' = Requests
        /\ \A q : AppliedAt(q)' = AppliedAt(q)
        /\ \A b : Queued(b)' = Queued(b)
    BY <1>1 DEF Revision, Requests, AppliedAt, Queued
  <1>3. Known'
    BY <1>1, <1>2, Touches DEF WorldInv, Known
  <1>4. FileInv'
    BY <1>1, <1>2 DEF WorldInv, FileInv, Sound, OwnSince
  <1>5. QueueInv' /\ NoRequestLost'
    BY <1>1, <1>2 DEF WorldInv, QueueInv, NoRequestLost
  <1>6. AppliedOnce' /\ OnlyOwnEdits'
    BY <1>1, <1>2 DEF WorldInv, AppliedOnce, OnlyOwnEdits
  <1> QED
    BY <1>3, <1>4, <1>5, <1>6 DEF WorldInv

LEMMA Hands ==
  ASSUME IInv, NEW c \in Commands, NEW r \in Records, Sets(c, r)
  PROVE  cmd'[c] = r /\ \A d \in Commands \ {c} : cmd'[d] = cmd[d]
  BY DEF Sets, IInv, TypeOK

(* One command moves: the others keep what they know.                      *)
LEMMA CommandsStay ==
  ASSUME IInv, LogStep, MadeStep, NEW c \in Commands, NEW r \in Records, Sets(c, r),
         CommandSound(cmd[c])',
         \A d \in Commands \ {c} :
           /\ \A q \in Adding(d) : ~ Touched(q)'
           /\ cmd[d].step \notin Busy \/ UNCHANGED <<file, log>>
           /\ r.step \in {"append", "write"} => Members(r.adding) \cap Adding(d) = {}
  PROVE  CommandInv' /\ Apart'
  <1>1. cmd'[c] = r /\ \A d \in Commands \ {c} : cmd'[d] = cmd[d]
    BY Hands
  <1>2. \A d \in Commands \ {c} : Adding(d)' = Adding(d)
    BY <1>1 DEF Adding
  <1>3. Adding(c)' = IF r.step \in {"append", "write"} THEN Members(r.adding) ELSE {}
    BY <1>1 DEF Adding
  <1>4. ASSUME NEW d \in Commands
        PROVE  CommandSound(cmd[d])'
    <2>1. CASE d = c
      BY <1>1, <2>1
    <2>2. CASE d # c
      BY <1>1, <2>2, OthersSound
    <2> QED
      BY <2>1, <2>2
  <1>5. Apart'
    <2>1. \A d \in Commands \ {c} : Adding(c)' \cap Adding(d)' = {}
      BY <1>2, <1>3
    <2>2. \A d, e \in Commands \ {c} : d # e => Adding(d)' \cap Adding(e)' = {}
      BY <1>2 DEF IInv, Apart
    <2> QED
      BY <2>1, <2>2 DEF Apart
  <1> QED
    BY <1>4, <1>5 DEF CommandInv

LEMMA IInvParts == IInv <=> TypeOK /\ Assigned /\ WorldInv /\ CommandInv /\ Apart
  BY DEF IInv, WorldInv

LEMMA ActorSound ==
  ASSUME IInv, NEW c \in Commands
  PROVE  /\ cmd[c] \in Records /\ CommandSound(cmd[c])
         /\ cmd[c].step \in Busy => lock = c
         /\ lock \in {None, c} => \A d \in Commands \ {c} : cmd[d].step \notin Busy
  <1>1. HolderTypes
    BY TypesSplit DEF IInv
  <1> QED
    BY <1>1, OthersWait DEF IInv, Assigned, CommandInv, HolderTypes

LEMMA QuietKeeps ==
  ASSUME IInv, NEW c \in Commands,
         Parks(c) \/ Opens(c) \/ Loads(c) \/ Misses(c) \/ Retries(c)
  PROVE  WorldInv' /\ CommandInv' /\ Apart'
  <1>1. Quiet
    BY DEF Parks, Opens, Loads, Misses, Retries
  <1>2. WorldInv'
    BY <1>1, IInvParts, WorldStays DEF Quiet, history
  <1>3. UNCHANGED <<file, log, begun, made, queue>> /\ LogStep /\ MadeStep
    BY <1>1 DEF Quiet, history, LogStep, MadeStep, Requests
  <1>4. \A q : Touched(q)' <=> Touched(q)
    BY <1>3, Touches
  <1>5. \A d \in Commands \ {c} : \A q \in Adding(d) : ~ Touched(q)'
    BY <1>4, Waiting
  <1>6. cmd[c] \in Records /\ CommandSound(cmd[c])
    BY ActorSound
  <1>7. ASSUME NEW r \in Records, Sets(c, r), CommandSound(cmd[c])',
               r.step \in {"append", "write"} =>
                 cmd[c].step = "append" /\ r.adding = cmd[c].adding
        PROVE  CommandInv' /\ Apart'
    <2>1. \A d \in Commands \ {c} :
            r.step \in {"append", "write"} => Members(r.adding) \cap Adding(d) = {}
      BY <1>7 DEF IInv, Apart, Adding
    <2> QED
      BY <1>3, <1>5, <1>7, <2>1, CommandsStay
  <1>8. CASE Parks(c)
    <2>1. PICK r \in Records : Sets(c, r) /\ r.step \in {"idle", "end"}
      BY <1>8 DEF Parks
    <2>2. CommandSound(r)'
      BY <2>1 DEF CommandSound
    <2>6. CommandSound(cmd[c])'
      BY <2>1, <2>2, Hands
    <2> QED
      BY <1>2, <1>7, <2>1, <2>6
  <1>9. CASE Opens(c)
    <2>1. PICK r \in Records :
            /\ Sets(c, r) /\ cmd[c].step = "append" /\ r.step = "write"
            /\ r.batch = cmd[c].batch /\ r.adding = cmd[c].adding /\ r.revision = cmd[c].revision
            /\ file[r.batch] # None /\ r.pending = file[r.batch].requests
            /\ file[r.batch].revision \in {None, r.revision}
      BY <1>9 DEF Opens
    <2>2. Fresh(cmd[c])
      BY <1>6, <2>1 DEF CommandSound
    <2>3. Fresh(r)'
      BY <1>3, <1>4, <2>1, <2>2 DEF Fresh, Revision, Requests
    <2>4. Copied(r)'
      BY <1>3, <2>1 DEF Copied
    <2>5. CommandSound(r)'
      BY <2>1, <2>3, <2>4 DEF CommandSound
    <2>6. CommandSound(cmd[c])'
      BY <2>1, <2>5, Hands
    <2> QED
      BY <1>2, <1>7, <2>1, <2>6
  <1>10. CASE Loads(c)
    <2>1. PICK r \in Records :
            /\ Sets(c, r) /\ r.step = "send" /\ file[r.batch] # None /\ r.failed = <<>>
            /\ r.pending = file[r.batch].requests /\ r.revision = file[r.batch].revision
      BY <1>10 DEF Loads
    <2>2. r.pending \in Seq(Nat)
      BY <2>1 DEF Records, CommandStates
    <2>3. r.pending = r.failed \o r.pending
      BY <2>1, <2>2
    <2>4. Submitted(r)'
      BY <1>3, <2>1, <2>3 DEF Submitted
    <2>5. CommandSound(r)'
      BY <2>1, <2>4 DEF CommandSound
    <2>6. CommandSound(cmd[c])'
      BY <2>1, <2>5, Hands
    <2> QED
      BY <1>2, <1>7, <2>1, <2>6
  <1>11. CASE Misses(c) \/ Retries(c)
    <2>1. PICK r \in Records :
            /\ Sets(c, r) /\ cmd[c].step \in {"send", "settle"} /\ Keeps(r, cmd[c])
            /\ \/ r.step = "send"
               \/ r.step = "settle" /\ r.answer # "ok"
      BY <1>11 DEF Misses, Retries
    <2>2. Submitted(cmd[c])
      BY <1>6, <2>1 DEF CommandSound
    <2>3. Submitted(r)'
      BY <1>3, <2>1, <2>2 DEF Submitted, Keeps
    <2>5. CommandSound(r)'
      BY <2>1, <2>3 DEF CommandSound
    <2>6. CommandSound(cmd[c])'
      BY <2>1, <2>5, Hands
    <2> QED
      BY <1>2, <1>7, <2>1, <2>6
  <1> QED
    BY <1>2, <1>8, <1>9, <1>10, <1>11

-----------------------------------------------------------------------------
(* Steps that rewrite the batch file after an answer                       *)

LEMMA Sent ==
  ASSUME IInv, NEW c \in Commands, cmd[c].step \in {"send", "settle"}
  PROVE  /\ cmd[c].batch \in Batches /\ file[cmd[c].batch] \in States
         /\ cmd[c].failed \in Seq(Nat) /\ Chunk(cmd[c]) \in Seq(Nat) /\ Rest(cmd[c]) \in Seq(Nat)
         /\ cmd[c].pending = Chunk(cmd[c]) \o Rest(cmd[c]) /\ cmd[c].pending # <<>>
         /\ file[cmd[c].batch].requests = cmd[c].failed \o cmd[c].pending
         /\ file[cmd[c].batch].requests # <<>>
         /\ file[cmd[c].batch].revision = cmd[c].revision /\ cmd[c].revision \in 0..Revision
         /\ Sound(cmd[c].batch, file[cmd[c].batch])
         /\ Queued(cmd[c].batch) =
              Members(cmd[c].failed) \cup Members(Chunk(cmd[c])) \cup Members(Rest(cmd[c]))
         /\ Members(Chunk(cmd[c])) \cap (Members(cmd[c].failed) \cup Members(Rest(cmd[c]))) = {}
         /\ cmd[c].failed \o Rest(cmd[c]) \in Seq(Nat) /\ Distinct(cmd[c].failed \o Rest(cmd[c]))
  <1> DEFINE s == cmd[c]
             f == file[s.batch]
             x == s.failed
             y == Chunk(s)
             z == Rest(s)
  <1>1. s \in CommandStates /\ s.batch \in Batches /\ s.pending # <<>> /\ Submitted(s)
    BY ActorSound DEF Records, Poised, CommandSound
  <1>2. f \in States /\ f.requests = x \o s.pending /\ f.revision = s.revision /\ Sound(s.batch, f)
    BY <1>1 DEF Submitted, IInv, TypeOK, FileInv
  <1>3. x \in Seq(Nat) /\ y \in Seq(Nat) /\ z \in Seq(Nat) /\ s.pending = y \o z
        /\ s.pending \in Seq(Nat)
    <2> HIDE DEF s
    <2> QED
      BY <1>1, ChunkAndRest
  <1>4. Queued(s.batch) = Members(f.requests)
    BY <1>1 DEF Submitted, Queued
  <1>5. Distinct(f.requests) /\ (f.requests # <<>> => f.revision \in 0..Revision)
    BY <1>2 DEF Sound
  <1> HIDE DEF x, y, z, f
  <1>6. x \o (y \o z) # <<>>
    BY <1>1, <1>3, ConcatEqualIffEmpty
  <1>7. /\ Members(x \o (y \o z)) = Members(x) \cup Members(y) \cup Members(z)
        /\ y \o z \in Seq(Nat) /\ x \o z \in Seq(Nat)
        /\ Distinct(x \o (y \o z)) =>
             /\ Members(y) \cap (Members(x) \cup Members(z)) = {}
             /\ Distinct(x \o z)
    <2>1. y \o z \in Seq(Nat) /\ x \o z \in Seq(Nat)
      BY <1>3, ConcatProperties
    <2>2. Members(x \o (y \o z)) = Members(x) \cup Members(y \o z)
      BY <1>3, <2>1, MembersConcat
    <2>3. Members(y \o z) = Members(y) \cup Members(z)
      BY <1>3, MembersConcat
    <2>4. Distinct(x \o (y \o z)) <=> Distinct(x) /\ Distinct(y \o z) /\ Members(x) \cap Members(y \o z) = {}
      BY <1>3, <2>1, DistinctConcat
    <2>5. Distinct(y \o z) <=> Distinct(y) /\ Distinct(z) /\ Members(y) \cap Members(z) = {}
      BY <1>3, DistinctConcat
    <2>6. Distinct(x \o z) <=> Distinct(x) /\ Distinct(z) /\ Members(x) \cap Members(z) = {}
      BY <1>3, DistinctConcat
    <2> QED
      BY <2>1, <2>2, <2>3, <2>4, <2>5, <2>6
  <1> QED
    BY <1>1, <1>2, <1>3, <1>4, <1>5, <1>6, <1>7 DEF x, y, z, f

LEMMA TakesKeeps ==
  ASSUME IInv, NEW c \in Commands, Takes(c)
  PROVE  WorldInv' /\ CommandInv' /\ Apart'
  <1>0. PICK s \in Records : s = cmd[c]
    BY ActorSound
  <1> DEFINE b == s.batch
             kept == s.failed \o Rest(s)
             revision == IF s.given = None THEN s.revision ELSE s.given
             f == [revision |-> revision, requests |-> kept]
  <1>1. PICK r \in Records :
          /\ Sets(c, r) /\ s.step = "settle" /\ s.answer = "ok"
          /\ Stores(c, revision, kept)
          /\ \/ r.step = "idle"
             \/ /\ r.step = "send" /\ r.batch = b
                /\ r.pending = Rest(s) /\ r.failed = s.failed /\ r.revision = revision
          /\ UNCHANGED <<log, begun, made, queue, dropped>>
    BY <1>0 DEF Takes, history
  <1>2. /\ b \in Batches /\ file[b] \in States /\ s.failed \in Seq(Nat) /\ Rest(s) \in Seq(Nat)
        /\ s.revision \in 0..Revision /\ file[b].revision = s.revision /\ file[b].requests # <<>>
        /\ Sound(b, file[b])
        /\ Queued(b) = Members(s.failed) \cup Members(Chunk(s)) \cup Members(Rest(s))
        /\ kept \in Seq(Nat) /\ Distinct(kept)
    BY <1>0, <1>1, Sent
  <1>3. Accepted(s) /\ s \in CommandStates /\ lock = c
    BY <1>0, <1>1, ActorSound DEF CommandSound, Records, Busy
  <1>4. Members(kept) = Members(s.failed) \cup Members(Rest(s))
    BY <1>2, MembersConcat
  <1>5. /\ file'[b] = (IF kept = <<>> THEN None ELSE f)
        /\ \A a \in Batches \ {b} : file'[a] = file[a]
    BY <1>0, <1>1, <1>2 DEF Stores, IInv, TypeOK
  <1>6. /\ Revision \in Nat /\ Revision' = Revision /\ Requests' = Requests
        /\ \A q : AppliedAt(q)' = AppliedAt(q)
        /\ \A q \in Requests : made[q].revision \in Nat
        /\ LogStep /\ MadeStep
    BY <1>1, Positions DEF IInv, Revision, Requests, AppliedAt, LogStep, MadeStep
  <1>7. revision \in 0..Revision /\ revision >= s.revision
        /\ \A j \in (s.revision + 1)..revision : log[j].by = b
    BY <1>2, <1>3, <1>6, NoneAssumption DEF Accepted
  <1>8. kept = <<>> => Members(kept) = {}
    BY DEF Members
  <1>9. Queued(b)' = Members(kept)
    <2>1. CASE kept = <<>>
      BY <1>5, <1>8, <2>1 DEF Queued
    <2>2. CASE kept # <<>>
      <3>1. f \in States /\ f.requests = kept
        BY <1>2, <1>6, <1>7 DEF States, Revisions
      <3> QED
        BY <1>5, <2>2, <3>1, StateAssumption DEF Queued
    <2> QED
      BY <2>1, <2>2
  <1>10. \A q \in Members(kept) : q \in Queued(b) /\ AppliedAt(q) = {}
    BY <1>2, <1>3, <1>4 DEF Accepted
  <1>11. \A q \in Queued(b) : q \in Members(kept) \/ AppliedAt(q) # {}
    BY <1>2, <1>3, <1>4 DEF Accepted
  <1> HIDE DEF kept, revision, b
  <1>12. \A a \in Batches \ {b} : Queued(a)' = Queued(a)
    BY <1>5 DEF Queued
  <1>13. \A q : Touched(q)' => Touched(q)
    BY <1>1, <1>6, <1>9, <1>10, <1>12 DEF Touched
  <1>14. Sound(b, f)'
    <2>1. f.requests = kept /\ f.revision = revision
      OBVIOUS
    <2>2. ASSUME NEW q \in Members(kept)
          PROVE  q \in Requests /\ OwnSince(q, b, revision)
      <3>1. q \in Requests /\ OwnSince(q, b, s.revision)
        BY <1>2, <1>10, <2>2 DEF Sound, Queued
      <3>2. /\ made[q].batch = b /\ made[q].revision <= s.revision
            /\ \A j \in (made[q].revision + 1)..s.revision : log[j].by = b
        BY <3>1 DEF OwnSince
      <3>3. made[q].revision \in Nat /\ s.revision \in Nat /\ revision \in Nat /\ s.revision <= revision
        BY <1>2, <1>6, <1>7, <3>1
      <3>4. \A j \in (made[q].revision + 1)..revision :
              j \in (made[q].revision + 1)..s.revision \/ j \in (s.revision + 1)..revision
        BY <3>3
      <3>5. \A j \in (made[q].revision + 1)..revision : log[j].by = b
        BY <1>7, <3>2, <3>4
      <3>6. made[q].revision <= revision
        BY <3>2, <3>3
      <3> QED
        BY <3>1, <3>2, <3>5, <3>6 DEF OwnSince
    <2>3. \A q \in Members(kept) : q \in Requests' /\ OwnSince(q, b, revision)' /\ AppliedAt(q)' = {}
      BY <1>1, <1>6, <1>10, <2>2 DEF OwnSince
    <2> QED
      BY <1>2, <1>6, <1>7, <2>1, <2>3 DEF Sound
  <1>15. WorldInv'
    <2>1. Known'
      BY <1>6, <1>13 DEF IInv, Known
    <2>2. FileInv'
      <3>1. \A a \in Batches \ {b} : file'[a] # None => a \in begun' /\ Sound(a, file[a])'
        BY <1>1, <1>5, <1>6, FilesStay
      <3>2. b \in begun'
        BY <1>1, <1>2, StateAssumption DEF IInv, FileInv
      <3>3. file'[b] # None => b \in begun' /\ Sound(b, file[b])'
        BY <1>5, <1>14, <3>2
      <3> QED
        BY <3>1, <3>3 DEF FileInv
    <2>3. QueueInv'
      <3>1. ASSUME NEW a \in Batches, NEW q \in Members(queue[a]), file'[a] # None
            PROVE  q \in Queued(a)' \/ AppliedAt(q)' # {}
        <4>1. file[a] # None
          BY <1>2, <1>5, <3>1, StateAssumption
        <4>2. q \in Queued(a) \/ AppliedAt(q) # {}
          BY <4>1 DEF IInv, QueueInv
        <4> QED
          BY <1>6, <1>9, <1>11, <1>12, <4>2
      <3> QED
        BY <1>1, <3>1 DEF IInv, QueueInv
    <2>4. NoRequestLost'
      <3>1. ASSUME NEW a \in Batches, NEW q \in Members(queue[a]), AppliedAt(q)' = {}, q \notin dropped'
            PROVE  file'[a] # None /\ q \in Members(file'[a].requests)
        <4>1. q \in Queued(a)
          BY <1>1, <1>6, <3>1 DEF IInv, NoRequestLost, Queued
        <4>2. q \in Queued(a)'
          BY <1>6, <1>9, <1>11, <1>12, <3>1, <4>1
        <4> QED
          BY <4>2 DEF Queued
      <3> QED
        BY <1>1, <3>1 DEF NoRequestLost
    <2>5. AppliedOnce' /\ OnlyOwnEdits'
      BY <1>1, <1>6 DEF IInv, AppliedOnce, OnlyOwnEdits
    <2> QED
      BY <2>1, <2>2, <2>3, <2>4, <2>5 DEF WorldInv
  <1>16. CommandSound(cmd[c])'
    <2>1. ASSUME r.step = "send"
          PROVE  Submitted(r)'
      <3>1. r.pending # <<>> /\ r.pending = Rest(s) /\ r.failed = s.failed /\ r.batch = b
            /\ r.revision = revision
        BY <1>1, <2>1 DEF Records, Poised
      <3>2. kept # <<>>
        BY <1>2, <3>1, ConcatEqualIffEmpty DEF kept
      <3>3. f \in States /\ f.requests = r.failed \o r.pending /\ f.revision = r.revision
        BY <1>2, <1>6, <1>7, <3>1 DEF States, Revisions, kept
      <3> QED
        BY <1>5, <3>1, <3>2, <3>3, StateAssumption DEF Submitted
    <2>2. CommandSound(r)'
      BY <1>1, <2>1 DEF CommandSound
    <2> QED
      BY <1>1, <2>2, Hands
  <1>17. \A d \in Commands \ {c} : cmd[d].step \notin Busy /\ \A q \in Adding(d) : ~ Touched(q)'
    BY <1>3, <1>13, ActorSound, Waiting
  <1>18. r.step \notin {"append", "write"}
    BY <1>1
  <1> QED
    BY <1>1, <1>6, <1>15, <1>16, <1>17, <1>18, CommandsStay

LEMMA RejectsKeeps ==
  ASSUME IInv, NEW c \in Commands, Rejects(c)
  PROVE  WorldInv' /\ CommandInv' /\ Apart'
  <1>0. PICK s \in Records : s = cmd[c]
    BY ActorSound
  <1> DEFINE b == s.batch
  <1>1. PICK r \in Records :
          /\ Sets(c, r) /\ s.step = "settle"
          /\ Stores(c, s.revision, s.failed \o s.pending)
          /\ \/ r.step = "idle"
             \/ /\ r.step = "send" /\ r.batch = b
                /\ r.pending = Rest(s) /\ r.failed = s.failed \o Chunk(s) /\ r.revision = s.revision
          /\ UNCHANGED <<log, begun, made, queue, dropped>>
    BY <1>0 DEF Rejects
  <1>2. /\ b \in Batches /\ file[b] \in States
        /\ s.failed \in Seq(Nat) /\ Chunk(s) \in Seq(Nat) /\ Rest(s) \in Seq(Nat)
        /\ s.pending = Chunk(s) \o Rest(s)
        /\ file[b].requests = s.failed \o s.pending /\ file[b].requests # <<>>
        /\ file[b].revision = s.revision
    BY <1>0, <1>1, Sent
  <1>3. file' = file
    <2>1. file[b] = [revision |-> s.revision, requests |-> s.failed \o s.pending]
      BY <1>2 DEF States
    <2>2. s.failed \o s.pending # <<>>
      BY <1>2
    <2>3. file' = [file EXCEPT ![b] = file[b]]
      BY <1>0, <1>1, <2>1, <2>2 DEF Stores
    <2> QED
      BY <2>3 DEF IInv, TypeOK
  <1>4. WorldInv' /\ LogStep /\ MadeStep /\ \A q : Touched(q)' <=> Touched(q)
    BY <1>1, <1>3, IInvParts, WorldStays, Touches DEF LogStep, MadeStep, Requests
  <1>5. CommandSound(cmd[c])'
    <2>1. ASSUME r.step = "send"
          PROVE  Submitted(r)'
      <3>1. (s.failed \o Chunk(s)) \o Rest(s) = s.failed \o (Chunk(s) \o Rest(s))
        <4> DEFINE x == s.failed
                   y == Chunk(s)
                   z == Rest(s)
        <4>1. x \in Seq(Nat) /\ y \in Seq(Nat) /\ z \in Seq(Nat)
          BY <1>2
        <4> HIDE DEF x, y, z
        <4>2. (x \o y) \o z = x \o (y \o z)
          BY <4>1, ConcatAssociative
        <4> QED
          BY <4>2 DEF x, y, z
      <3>2. file[b].requests = r.failed \o r.pending
        BY <1>1, <1>2, <2>1, <3>1
      <3> QED
        BY <1>1, <1>2, <1>3, <2>1, <3>2, StateAssumption DEF Submitted
    <2>2. CommandSound(r)'
      BY <1>1, <2>1 DEF CommandSound
    <2> QED
      BY <1>1, <2>2, Hands
  <1>6. \A d \in Commands \ {c} : \A q \in Adding(d) : ~ Touched(q)'
    BY <1>4, Waiting
  <1>7. UNCHANGED <<file, log>> /\ r.step \notin {"append", "write"}
    BY <1>1, <1>3
  <1> QED
    BY <1>1, <1>4, <1>5, <1>6, <1>7, CommandsStay

-----------------------------------------------------------------------------
(* An update is applied; new requests are appended or computed             *)

LEMMA AppliesKeeps ==
  ASSUME IInv, NEW c \in Commands, Applies(c)
  PROVE  WorldInv' /\ CommandInv' /\ Apart'
  <1>0. PICK s \in Records : s = cmd[c]
    BY ActorSound
  <1> DEFINE b == s.batch
             chunk == Members(Chunk(s))
             e == [by |-> b, requests |-> Chunk(s)]
             n == Revision + 1
  <1>1. PICK r \in Records :
          /\ Sets(c, r) /\ s.step = "send" /\ r.step = "settle"
          /\ r.batch = b /\ r.pending = s.pending /\ r.failed = s.failed /\ r.revision = s.revision
          /\ r.mode = s.mode /\ Current(s) /\ r.given \in {None, n}
          /\ log' = Append(log, [by |-> r.batch, requests |-> Chunk(r)])
          /\ UNCHANGED <<file, lock, begun, made, queue, dropped>>
    BY <1>0 DEF Applies, Keeps, history
  <1>2. /\ b \in Batches /\ file[b] \in States /\ file[b].requests = s.failed \o s.pending
        /\ file[b].revision = s.revision /\ s.revision \in 0..Revision
        /\ Sound(b, file[b]) /\ Chunk(s) \in Seq(Nat)
        /\ Queued(b) = Members(s.failed) \cup chunk \cup Members(Rest(s))
        /\ chunk \cap (Members(s.failed) \cup Members(Rest(s))) = {}
    BY <1>0, <1>1, Sent
  <1>3. lock = c /\ Submitted(s)
    BY <1>0, <1>1, ActorSound DEF Busy, CommandSound
  <1>4. Chunk(r) = Chunk(s) /\ Rest(r) = Rest(s)
    BY <1>1 DEF Chunk, Rest, ChunkSize
  <1>5. e \in Updates /\ log' = Append(log, e) /\ e.by = b /\ e.requests = Chunk(s) /\ LogStep
    BY <1>1, <1>2, <1>4 DEF Updates, LogStep
  <1>6. /\ Revision \in Nat /\ DOMAIN log = 1..Revision
        /\ \A q \in Requests : made[q].revision \in Nat
        /\ \A q : AppliedAt(q) \subseteq 1..Revision
    BY Positions DEF IInv
  <1> HIDE DEF e
  <1>7. /\ Revision' = n /\ log'[n] = e /\ \A k \in 1..Revision : log'[k] = log[k]
        /\ \A q \in chunk : AppliedAt(q)' = AppliedAt(q) \cup {n}
        /\ \A q : q \notin chunk => AppliedAt(q)' = AppliedAt(q)
    <2>1. TypeOK
      BY DEF IInv
    <2>2. /\ Revision' = n /\ log'[n] = e /\ \A k \in 1..Revision : log'[k] = log[k]
          /\ \A q : AppliedAt(q)' = IF q \in Members(e.requests) THEN AppliedAt(q) \cup {n}
                                    ELSE AppliedAt(q)
      BY <1>5, <2>1, Grows
    <2> QED
      BY <1>5, <2>2
  <1>8. s.revision = Revision
    BY <1>1, <1>2, NoneAssumption DEF Current
  <1>9. \A q \in Queued(b) : q \in Requests /\ OwnSince(q, b, Revision) /\ AppliedAt(q) = {}
    <2>1. Queued(b) = Members(file[b].requests)
      BY <1>2, StateAssumption DEF Queued
    <2> QED
      BY <1>2, <1>6, <1>8, <2>1 DEF Sound
  <1>10. MadeStep /\ Requests' = Requests /\ \A a : Queued(a)' = Queued(a)
    BY <1>1 DEF MadeStep, Requests, Queued
  <1>11. \A q : Touched(q)' => Touched(q)
    <2>1. \A q \in chunk : Touched(q)
      BY <1>2 DEF Touched
    <2>2. \A q : q \notin chunk => (Touched(q)' => Touched(q))
      BY <1>1, <1>7, <1>10 DEF Touched
    <2> QED
      BY <2>1, <2>2
  <1>12. \A q : AppliedAt(q) # {} => AppliedAt(q)' # {}
    BY <1>7
  <1>13. DOMAIN log' = 1..n
    <2>1. log' \in Seq(Updates)
      BY <1>5, TypesSplit, AppendProperties DEF IInv, DataTypes
    <2> QED
      BY <1>7, <2>1 DEF Revision
  <1> HIDE DEF b, chunk
  <1>14. WorldInv'
    <2>1. Known'
      BY <1>10, <1>11 DEF IInv, Known
    <2>2. FileInv'
      BY <1>1, <1>5, <1>10, FilesStay DEF FileInv
    <2>3. QueueInv'
      BY <1>1, <1>10, <1>12 DEF IInv, QueueInv
    <2>4. NoRequestLost'
      BY <1>1, <1>12 DEF IInv, NoRequestLost
    <2>5. AppliedOnce'
      <3>1. ASSUME NEW q \in Requests, NEW j \in AppliedAt(q)', NEW k \in AppliedAt(q)'
            PROVE  j = k
        <4>1. CASE q \in chunk
          BY <1>2, <1>7, <1>9, <4>1
        <4>2. CASE q \notin chunk
          BY <1>7, <3>1, <4>2 DEF IInv, AppliedOnce
        <4> QED
          BY <4>1, <4>2
      <3> QED
        BY <1>10, <3>1 DEF AppliedOnce
    <2>6. OnlyOwnEdits'
      <3>1. ASSUME NEW k \in 1..n, NEW q \in Members(log'[k].requests),
                   NEW j \in (made[q].revision + 1)..k
            PROVE  log'[j].by = made[q].batch
        <4>1. CASE k = n
          <5>1. q \in chunk
            BY <1>5, <1>7, <3>1, <4>1 DEF chunk
          <5>2. q \in Requests /\ OwnSince(q, b, Revision) /\ made[q].revision \in Nat
            BY <1>2, <1>6, <1>9, <5>1
          <5>3. CASE j = n
            BY <1>5, <1>7, <5>2, <5>3 DEF OwnSince
          <5>4. CASE j # n
            <6>1. j \in (made[q].revision + 1)..Revision /\ j \in 1..Revision
              BY <1>6, <3>1, <4>1, <5>2, <5>4
            <6> QED
              BY <1>7, <5>2, <6>1 DEF OwnSince
          <5> QED
            BY <5>3, <5>4
        <4>2. CASE k # n
          <5>1. k \in 1..Revision /\ q \in Members(log[k].requests)
            BY <1>6, <1>7, <3>1, <4>2
          <5>2. log[j].by = made[q].batch
            BY <1>6, <3>1, <5>1 DEF IInv, OnlyOwnEdits
          <5>3. made[q].revision \in Nat
            <6>1. Touched(q) /\ log[k].requests \in Seq(Nat)
              BY <1>6, <5>1, Touches, Positions DEF IInv
            <6>2. q \in Nat
              BY <5>1, <6>1 DEF Members
            <6> QED
              BY <1>6, <6>1, <6>2 DEF IInv, Known
          <5>4. j \in 1..Revision
            BY <1>6, <3>1, <5>1, <5>3
          <5> QED
            BY <1>7, <5>2, <5>4
        <4> QED
          BY <4>1, <4>2
      <3> QED
        BY <1>1, <1>13, <3>1 DEF OnlyOwnEdits
    <2> QED
      BY <2>1, <2>2, <2>3, <2>4, <2>5, <2>6 DEF WorldInv
  <1>15. CommandSound(cmd[c])'
    <2>1. Submitted(r)'
      BY <1>1, <1>3 DEF Submitted, b
    <2>2. r.given # None => r.given = r.revision + 1 /\ log'[r.given].by = r.batch
      BY <1>1, <1>5, <1>7, <1>8 DEF b
    <2>3. \A q \in Members(Chunk(r)) : AppliedAt(q)' # {}
      BY <1>4, <1>7 DEF chunk
    <2>4. \A q \in Members(r.failed) \cup Members(Rest(r)) : AppliedAt(q)' = {}
      BY <1>1, <1>2, <1>4, <1>7, <1>9
    <2>5. r.revision < Revision'
      BY <1>1, <1>6, <1>7, <1>8
    <2>6. Accepted(r)'
      BY <2>2, <2>3, <2>4, <2>5 DEF Accepted
    <2>7. CommandSound(r)'
      BY <1>1, <2>1, <2>6 DEF CommandSound
    <2> QED
      BY <1>1, <2>7, Hands
  <1>16. \A d \in Commands \ {c} : cmd[d].step \notin Busy /\ \A q \in Adding(d) : ~ Touched(q)'
    BY <1>3, <1>11, ActorSound, Waiting
  <1>17. r.step \notin {"append", "write"}
    BY <1>1
  <1> QED
    BY <1>1, <1>5, <1>10, <1>14, <1>15, <1>16, <1>17, CommandsStay

LEMMA AppendsKeeps ==
  ASSUME IInv, NEW c \in Commands, Appends(c)
  PROVE  WorldInv' /\ CommandInv' /\ Apart'
  <1>0. PICK s \in Records : s = cmd[c]
    BY ActorSound
  <1> DEFINE b == s.batch
             x == s.pending
             y == s.adding
             f == [revision |-> s.revision, requests |-> x \o y]
  <1>1. /\ s.step = "write" /\ Sets(c, NoCommand)
        /\ file' = [file EXCEPT ![b] = f]
        /\ queue' = [queue EXCEPT ![b] = @ \o y]
        /\ UNCHANGED <<log, begun, made, dropped>>
    BY <1>0 DEF Appends
  <1>2. /\ b \in Batches /\ x \in Seq(Nat) /\ y \in Seq(Nat) /\ s.revision \in Revisions
        /\ Fresh(s) /\ Copied(s) /\ lock = c
    BY <1>0, <1>1, ActorSound DEF Records, Poised, CommandStates, CommandSound, Busy
  <1>3. /\ file[b] \in States /\ file[b].requests = x /\ file[b].revision \in {None, s.revision}
        /\ b \in begun /\ Sound(b, file[b]) /\ Queued(b) = Members(x)
    BY <1>2, StateAssumption DEF Copied, IInv, TypeOK, FileInv, Queued
  <1>4. x \o y \in Seq(Nat) /\ Members(x \o y) = Members(x) \cup Members(y)
    BY <1>2, MembersConcat, ConcatProperties
  <1>5. \A q \in Members(y) :
          /\ q \in Nat /\ q \in Requests /\ ~ Touched(q) /\ AppliedAt(q) = {} /\ q \in Adding(c)
          /\ made[q].batch = b /\ made[q].revision = s.revision
    <2>1. Adding(c) = Members(y)
      BY <1>0, <1>1 DEF Adding
    <2>2. \A q \in Members(y) : made[q].batch = b /\ made[q].revision = s.revision
      BY <1>2 DEF Fresh
    <2> HIDE DEF y
    <2>3. ASSUME NEW q \in Members(y)
          PROVE  q \in Nat /\ q \in Requests /\ ~ Touched(q) /\ AppliedAt(q) = {}
      <3>1. q \in Nat /\ q \in Requests /\ ~ Touched(q)
        BY <2>1, <2>3, Waiting
      <3> QED
        BY <3>1 DEF Touched
    <2> QED
      BY <2>1, <2>2, <2>3
  <1>6. Distinct(x \o y)
    <2>1. Distinct(x) /\ Distinct(y)
      BY <1>2, <1>3 DEF Sound, Fresh
    <2>2. Members(x) \cap Members(y) = {}
      BY <1>2, <1>3, <1>5, Touches
    <2> QED
      BY <1>2, <2>1, <2>2, DistinctConcat
  <1>7. /\ Revision \in Nat /\ Revision' = Revision /\ Requests' = Requests
        /\ \A q : AppliedAt(q)' = AppliedAt(q)
        /\ LogStep /\ MadeStep
    BY <1>1, Positions DEF IInv, Revision, Requests, AppliedAt, LogStep, MadeStep
  <1>8. f \in States /\ f.requests = x \o y /\ f.revision = s.revision
    BY <1>2, <1>4 DEF States
  <1> HIDE DEF b, x, y, f
  <1>9. /\ file'[b] = f /\ file'[b] # None
        /\ Members(queue'[b]) = Members(queue[b]) \cup Members(y)
        /\ \A a \in Batches \ {b} : file'[a] = file[a] /\ queue'[a] = queue[a]
    <2>1. queue[b] \in Seq(Nat)
      BY <1>2 DEF IInv, TypeOK
    <2>2. file'[b] = f /\ queue'[b] = queue[b] \o y
          /\ \A a \in Batches \ {b} : file'[a] = file[a] /\ queue'[a] = queue[a]
      BY <1>1, <1>2 DEF IInv, TypeOK
    <2>3. Members(queue[b] \o y) = Members(queue[b]) \cup Members(y)
      BY <1>2, <2>1, MembersConcat
    <2> QED
      BY <1>8, <2>2, <2>3, StateAssumption
  <1>10. /\ Queued(b)' = Queued(b) \cup Members(y)
         /\ \A a \in Batches \ {b} : Queued(a)' = Queued(a)
    BY <1>3, <1>4, <1>8, <1>9 DEF Queued
  <1>11. \A q : Touched(q)' => Touched(q) \/ q \in Members(y)
    BY <1>7, <1>9, <1>10 DEF Touched
  <1>12. Sound(b, f)'
    <2>1. s.revision \in 0..Revision
      BY <1>2 DEF Fresh
    <2>2. ASSUME NEW q \in Members(x)
          PROVE  /\ q \in Requests /\ OwnSince(q, b, s.revision)
                 /\ AppliedAt(q) # {} => s.revision < Revision
      <3>1. x # <<>>
        BY <2>2 DEF Members
      <3>2. file[b].revision = s.revision
        BY <1>3, <3>1, NoneAssumption DEF Sound
      <3> QED
        BY <1>3, <2>2, <3>2 DEF Sound
    <2>3. ASSUME NEW q \in Members(y)
          PROVE  q \in Requests /\ OwnSince(q, b, s.revision) /\ AppliedAt(q) = {}
      BY <1>5, <1>7, <2>1 DEF OwnSince
    <2>4. \A q \in Members(x \o y) :
            /\ q \in Requests' /\ OwnSince(q, b, s.revision)'
            /\ AppliedAt(q)' # {} => s.revision < Revision'
      BY <1>1, <1>4, <1>7, <2>2, <2>3 DEF OwnSince
    <2> QED
      BY <1>6, <1>7, <1>8, <2>1, <2>4 DEF Sound
  <1>13. WorldInv'
    <2>1. Known'
      BY <1>5, <1>7, <1>11 DEF IInv, Known
    <2>2. FileInv'
      <3>1. \A a \in Batches \ {b} : file'[a] # None => a \in begun' /\ Sound(a, file[a])'
        BY <1>1, <1>7, <1>9, FilesStay
      <3>2. b \in begun' /\ Sound(b, file[b])'
        BY <1>1, <1>3, <1>9, <1>12
      <3> QED
        BY <3>1, <3>2 DEF FileInv
    <2>3. QueueInv'
      <3>1. ASSUME NEW a \in Batches, NEW q \in Members(queue'[a])
            PROVE  /\ made[q].batch = a /\ a \in begun
                   /\ file'[a] # None => q \in Queued(a)' \/ AppliedAt(q) # {}
        <4>1. CASE a # b
          BY <1>9, <1>10, <3>1, <4>1 DEF IInv, QueueInv
        <4>2. CASE a = b /\ q \in Members(y)
          BY <1>3, <1>5, <1>10, <4>2
        <4>3. CASE a = b /\ q \in Members(queue[b])
          BY <1>2, <1>3, <1>10, <4>3, StateAssumption DEF IInv, QueueInv
        <4> QED
          BY <1>9, <3>1, <4>1, <4>2, <4>3
      <3> QED
        BY <1>1, <1>7, <3>1 DEF QueueInv
    <2>4. NoRequestLost'
      <3>1. ASSUME NEW a \in Batches, NEW q \in Members(queue'[a]), AppliedAt(q)' = {}, q \notin dropped'
            PROVE  q \in Queued(a)'
        <4>1. CASE q \in Members(queue[a])
          <5>1. q \in Queued(a)
            BY <1>1, <1>7, <3>1, <4>1 DEF IInv, NoRequestLost, Queued
          <5> QED
            BY <1>10, <5>1
        <4>2. CASE q \notin Members(queue[a])
          BY <1>9, <1>10, <3>1, <4>2
        <4> QED
          BY <4>1, <4>2
      <3>2. \A a \in Batches : \A q : q \in Queued(a)' => file'[a] # None /\ q \in Members(file'[a].requests)
        BY DEF Queued
      <3> QED
        BY <1>1, <3>1, <3>2 DEF NoRequestLost
    <2>5. AppliedOnce' /\ OnlyOwnEdits'
      BY <1>1, <1>7 DEF IInv, AppliedOnce, OnlyOwnEdits
    <2> QED
      BY <2>1, <2>2, <2>3, <2>4, <2>5 DEF WorldInv
  <1>14. CommandSound(cmd[c])'
    <2>1. CommandSound(NoCommand)'
      BY NoCommandFits DEF CommandSound
    <2> QED
      BY <1>1, <2>1, NoCommandFits, Hands
  <1>15. \A d \in Commands \ {c} : cmd[d].step \notin Busy /\ \A q \in Adding(d) : ~ Touched(q)'
    <2>1. \A d \in Commands \ {c} : \A q \in Adding(d) : q \notin Adding(c)
      BY DEF IInv, Apart
    <2> QED
      BY <1>2, <1>5, <1>11, <2>1, ActorSound, Waiting
  <1>16. NoCommand \in Records /\ NoCommand.step \notin {"append", "write"}
    BY NoCommandFits
  <1> QED
    BY <1>1, <1>7, <1>13, <1>14, <1>15, <1>16, CommandsStay

LEMMA CapturesKeeps ==
  ASSUME IInv, NEW c \in Commands, Captures(c)
  PROVE  WorldInv' /\ CommandInv' /\ Apart'
  <1>1. PICK r \in Records, n \in Nat :
          /\ Sets(c, r) /\ r.step = "append" /\ r.revision = Revision
          /\ r.adding = [i \in 1..n |-> Len(made) + i]
          /\ made' = made \o [i \in 1..n |-> [batch |-> r.batch, revision |-> Revision]]
          /\ UNCHANGED <<file, log, begun, queue, dropped>>
    BY DEF Captures
  <1> DEFINE m == Len(made)
             origin == [batch |-> r.batch, revision |-> Revision]
             s == [i \in 1..n |-> origin]
  <1>2. /\ Revision \in Nat /\ Requests = 1..m /\ m \in Nat /\ r.batch \in Batches
        /\ \A q \in Requests : made[q].revision \in Nat
        /\ DOMAIN log = 1..Revision /\ \A k \in 1..Revision : log[k].requests \in Seq(Nat)
    BY <1>1, Positions DEF IInv, Records, Poised
  <1>3. /\ made' \in Seq(Origins) /\ Len(made') = m + n
        /\ \A q \in 1..m : made'[q] = made[q]
        /\ \A q \in (m + 1)..(m + n) : made'[q] = origin
    <2>1. made \in Seq(Origins)
      BY TypesSplit DEF IInv, DataTypes
    <2>2. s \in Seq(Origins) /\ Len(s) = n /\ \A i \in 1..n : s[i] = origin
      BY <1>2 DEF Origins
    <2> HIDE DEF s, origin
    <2>3. /\ made \o s \in Seq(Origins) /\ Len(made \o s) = m + n
          /\ \A i \in 1..(m + n) : (made \o s)[i] = IF i <= m THEN made[i] ELSE s[i - m]
      BY <2>1, <2>2, ConcatProperties
    <2>4. made' = made \o s
      BY <1>1 DEF s, origin
    <2>5. \A q \in (m + 1)..(m + n) : ~ (q <= m) /\ q - m \in 1..n /\ q \in 1..(m + n)
      BY <1>2
    <2>6. \A q \in 1..m : q \in 1..(m + n)
      BY <1>2
    <2> QED
      BY <2>2, <2>3, <2>4, <2>5, <2>6
  <1>4. Requests' = 1..(m + n) /\ LogStep /\ MadeStep
    <2>1. Requests' = 1..(m + n)
      BY <1>3 DEF Requests
    <2> QED
      BY <1>1, <1>2, <1>3, <2>1 DEF LogStep, MadeStep
  <1>5. r.adding \in Seq(Nat) /\ Distinct(r.adding) /\ Members(r.adding) = (m + 1)..(m + n)
    BY <1>1, <1>2, Numbered
  <1> HIDE DEF m, origin, s
  <1>6. \A q \in Members(r.adding) : q \in Requests' /\ q \notin Requests /\ q \in Nat
    BY <1>2, <1>4, <1>5
  <1>7. \A q : Touched(q)' <=> Touched(q)
    BY <1>1, Touches
  <1>8. Revision' = Revision /\ \A q : AppliedAt(q)' = AppliedAt(q) /\ \A b : Queued(b)' = Queued(b)
    BY <1>1 DEF Revision, AppliedAt, Queued
  <1>9. \A q \in Nat : Touched(q) => q \in Requests
    BY DEF IInv, Known
  <1>10. \A q \in Nat : Touched(q) => made'[q] = made[q] /\ q \in Requests'
    BY <1>4, <1>9 DEF MadeStep
  <1>11. WorldInv'
    <2>1. Known'
      BY <1>7, <1>10 DEF Known
    <2>2. FileInv'
      BY <1>1, <1>4, FilesStay DEF FileInv
    <2>3. QueueInv'
      <3>1. \A b \in Batches : \A q \in Members(queue[b]) : q \in Nat /\ Touched(q)
        BY Touches DEF IInv, TypeOK, Members
      <3>2. ASSUME NEW b \in Batches, NEW q \in Members(queue[b])
            PROVE  /\ made'[q].batch = b /\ b \in begun
                   /\ file[b] # None => q \in Queued(b) \/ AppliedAt(q) # {}
        BY <1>10, <3>1, <3>2 DEF IInv, QueueInv
      <3>3. UNCHANGED <<file, begun, queue>>
        BY <1>1
      <3>4. /\ \A b : Queued(b)' = Queued(b)
            /\ \A q : AppliedAt(q)' = AppliedAt(q)
        BY <1>8
      <3>5. ASSUME NEW b \in Batches
            PROVE  /\ \A q \in Members(queue'[b]) : made'[q].batch = b /\ b \in begun'
                   /\ file'[b] # None =>
                        \A q \in Members(queue'[b]) : q \in Queued(b)' \/ AppliedAt(q)' # {}
        BY <3>2, <3>3, <3>4
      <3> QED
        BY <3>5 DEF QueueInv
    <2>4. NoRequestLost'
      BY <1>1, <1>8 DEF IInv, NoRequestLost
    <2>5. AppliedOnce'
      <3>1. \A q \in Requests' : AppliedAt(q) # {} => q \in Requests
        BY <1>2, <1>4, <1>9 DEF Touched
      <3> QED
        BY <1>8, <3>1 DEF IInv, AppliedOnce
    <2>6. OnlyOwnEdits'
      <3>1. \A k \in DOMAIN log : \A q \in Members(log[k].requests) : q \in Nat /\ Touched(q)
        BY <1>2, Touches DEF Members
      <3>2. ASSUME NEW k \in DOMAIN log, NEW q \in Members(log[k].requests),
                   NEW j \in (made'[q].revision + 1)..k
            PROVE  log[j].by = made'[q].batch
        BY <1>10, <3>1, <3>2 DEF IInv, OnlyOwnEdits
      <3> QED
        BY <1>1, <3>2 DEF OnlyOwnEdits
    <2> QED
      BY <2>1, <2>2, <2>3, <2>4, <2>5, <2>6 DEF WorldInv
  <1>12. CommandSound(cmd[c])'
    <2>1. \A q \in Members(r.adding) :
            /\ q \in Requests' /\ made'[q] = [batch |-> r.batch, revision |-> r.revision]
            /\ ~ Touched(q)'
      BY <1>1, <1>3, <1>5, <1>6, <1>7, <1>9 DEF origin
    <2>2. r.revision \in 0..Revision'
      BY <1>1, <1>2, <1>8
    <2>4. Distinct(r.adding)' <=> Distinct(r.adding)
      BY DEF Distinct
    <2>5. Fresh(r)'
      BY <1>5, <2>1, <2>2, <2>4 DEF Fresh
    <2>3. CommandSound(r)'
      BY <1>1, <2>5 DEF CommandSound
    <2> QED
      BY <1>1, <2>3, Hands
  <1>13. \A d \in Commands \ {c} :
           /\ \A q \in Adding(d) : ~ Touched(q)'
           /\ Members(r.adding) \cap Adding(d) = {}
    BY <1>6, <1>7, Waiting
  <1> QED
    BY <1>1, <1>4, <1>11, <1>12, <1>13, CommandsStay

-----------------------------------------------------------------------------
(* Steps of others                                                         *)

LEMMA WorldKeeps ==
  ASSUME IInv,
         \/ \E b \in Batches : Create(b)
         \/ \E S \in SUBSET Batches : Discard(S)
         \/ Edit \/ UNCHANGED vars
  PROVE  WorldInv' /\ CommandInv' /\ Apart'
  <1>1. UNCHANGED <<lock, cmd, made, queue>> /\ MadeStep /\ Requests' = Requests
    BY DEF Create, Discard, Edit, vars, history, MadeStep, Requests
  <1>2. Apart'
    BY <1>1 DEF IInv, Apart, Adding
  <1>3. ASSUME LogStep, \A q : Touched(q)' => Touched(q),
               LockFree \/ (UNCHANGED file /\ (log' = log \/ Edit))
        PROVE  CommandInv' /\ Known'
    <2>1. ASSUME NEW d \in Commands
          PROVE  CommandSound(cmd[d])'
      <3>1. \A q \in Adding(d) : ~ Touched(q)'
        BY <1>3, Waiting
      <3>2. LockFree => cmd[d].step \notin Busy
        BY TypesSplit, NoneAssumption DEF IInv, HolderTypes, LockFree
      <3>3. cmd'[d] = cmd[d]
        BY <1>1
      <3> QED
        BY <1>1, <1>3, <3>1, <3>2, <3>3, OthersSound
    <2>2. Known'
      BY <1>1, <1>3 DEF IInv, Known
    <2> QED
      BY <2>1, <2>2 DEF CommandInv
  <1>4. ASSUME UNCHANGED log
        PROVE  /\ Revision' = Revision /\ LogStep /\ \A q : AppliedAt(q)' = AppliedAt(q)
               /\ AppliedOnce' /\ OnlyOwnEdits'
    BY <1>1, <1>4 DEF Revision, LogStep, AppliedAt, IInv, AppliedOnce, OnlyOwnEdits
  <1>5. ASSUME NEW b \in Batches, Create(b)
        PROVE  WorldInv' /\ CommandInv'
    <2>1. /\ LockFree /\ b \notin begun /\ begun' = begun \cup {b}
          /\ file'[b] = Empty /\ \A a \in Batches \ {b} : file'[a] = file[a]
          /\ UNCHANGED <<log, dropped>>
      BY <1>5 DEF Create, IInv, TypeOK, history
    <2>2. file[b] = None /\ Members(queue[b]) = {}
      BY <2>1 DEF IInv, FileInv, QueueInv
    <2>3. Empty \in States /\ Empty.requests = <<>> /\ Members(<<>>) = {}
      BY DEF Empty, States, Revisions, Members
    <2>4. \A a \in Batches : Queued(a)' = Queued(a)
      BY <2>1, <2>2, <2>3, StateAssumption DEF Queued
    <2>5. \A q : Touched(q)' => Touched(q)
      BY <1>1, <1>4, <2>1, <2>4 DEF Touched
    <2>6. FileInv'
      <3>1. Sound(b, Empty)'
        BY <2>3 DEF Sound, Distinct
      <3>2. b \in begun' /\ Sound(b, file[b])'
        BY <2>1, <3>1
      <3>3. \A a \in Batches \ {b} : file'[a] # None => a \in begun' /\ Sound(a, file[a])'
        BY <1>1, <1>4, <2>1, FilesStay
      <3> QED
        BY <3>2, <3>3 DEF FileInv
    <2>7. QueueInv'
      BY <1>1, <1>4, <2>1, <2>2, <2>4 DEF IInv, QueueInv
    <2>8. NoRequestLost'
      BY <1>1, <1>4, <2>1, <2>2 DEF IInv, NoRequestLost
    <2> QED
      BY <1>3, <1>4, <2>1, <2>5, <2>6, <2>7, <2>8 DEF WorldInv
  <1>6. ASSUME NEW S \in SUBSET Batches, Discard(S)
        PROVE  WorldInv' /\ CommandInv'
    <2>1. /\ LockFree /\ UNCHANGED <<log, begun>>
          /\ \A b \in Batches : file'[b] = IF b \in S THEN None ELSE file[b]
          /\ dropped' = dropped \cup UNION {Members(file[b].requests) : b \in S}
      BY <1>6 DEF Discard
    <2>2. \A b \in Batches : Queued(b)' = IF b \in S THEN {} ELSE Queued(b)
      BY <2>1 DEF Queued
    <2>3. \A q : Touched(q)' => Touched(q)
      BY <1>1, <1>4, <2>1, <2>2 DEF Touched
    <2>4. FileInv'
      <3>1. ASSUME NEW b \in Batches, file'[b] # None
            PROVE  b \in begun' /\ Sound(b, file[b])'
        BY <1>1, <1>4, <2>1, <3>1, FilesStay
      <3> QED
        BY <3>1 DEF FileInv
    <2>5. QueueInv'
      BY <1>1, <1>4, <2>1, <2>2 DEF IInv, QueueInv
    <2>6. NoRequestLost'
      <3>1. ASSUME NEW b \in Batches, NEW q \in Members(queue[b]), AppliedAt(q) = {}, q \notin dropped'
            PROVE  b \notin S /\ file[b] # None /\ q \in Members(file[b].requests)
        BY <2>1, <3>1 DEF IInv, NoRequestLost
      <3> QED
        BY <1>1, <1>4, <2>1, <3>1 DEF NoRequestLost
    <2> QED
      BY <1>3, <1>4, <2>1, <2>3, <2>4, <2>5, <2>6 DEF WorldInv
  <1>7. ASSUME Edit
        PROVE  WorldInv' /\ CommandInv'
    <2> DEFINE e == [by |-> Foreign, requests |-> <<>>]
               n == Revision + 1
    <2>1. e \in Updates /\ log' = Append(log, e) /\ LogStep /\ UNCHANGED <<file, begun, dropped>>
          /\ e.requests = <<>> /\ Members(<<>>) = {}
      <3>1. e \in Updates /\ e.requests = <<>> /\ Members(<<>>) = {}
        BY DEF Updates, Members
      <3>2. log' = Append(log, e) /\ UNCHANGED <<file, begun, dropped>>
        BY <1>7 DEF Edit, history
      <3> QED
        BY <3>1, <3>2 DEF LogStep
    <2>2. /\ Revision \in Nat /\ DOMAIN log = 1..Revision
          /\ \A q \in Requests : made[q].revision \in Nat
          /\ \A k \in 1..Revision : log[k].requests \in Seq(Nat)
      BY Positions DEF IInv
    <2>3. /\ Revision' = n /\ log'[n] = e /\ \A k \in 1..Revision : log'[k] = log[k]
          /\ \A q : AppliedAt(q)' = AppliedAt(q)
      <3> HIDE DEF e
      <3> QED
        BY <2>1, Grows DEF IInv
    <2>4. DOMAIN log' = 1..n
      <3>1. log' \in Seq(Updates)
        BY <2>1, TypesSplit, AppendProperties DEF IInv, DataTypes
      <3> QED
        BY <2>3, <3>1 DEF Revision
    <2>5. \A b : Queued(b)' = Queued(b)
      BY <2>1 DEF Queued
    <2>6. \A q : Touched(q)' => Touched(q)
      BY <1>1, <2>3, <2>5 DEF Touched
    <2>7. FileInv'
      BY <1>1, <2>1, FilesStay DEF FileInv
    <2>8. QueueInv' /\ NoRequestLost' /\ AppliedOnce'
      BY <1>1, <2>1, <2>3, <2>5 DEF IInv, QueueInv, NoRequestLost, AppliedOnce
    <2>9. OnlyOwnEdits'
      <3>1. ASSUME NEW k \in 1..n, NEW q \in Members(log'[k].requests),
                   NEW j \in (made[q].revision + 1)..k
            PROVE  log'[j].by = made[q].batch
        <4>1. k \in 1..Revision /\ q \in Members(log[k].requests)
          BY <2>1, <2>2, <2>3, <3>1
        <4>2. log[j].by = made[q].batch
          BY <2>2, <3>1, <4>1 DEF IInv, OnlyOwnEdits
        <4>3. made[q].revision \in Nat
          <5>1. Touched(q) /\ log[k].requests \in Seq(Nat)
            BY <2>2, <4>1, Touches
          <5>2. q \in Nat
            BY <4>1, <5>1 DEF Members
          <5> QED
            BY <2>2, <5>1, <5>2 DEF IInv, Known
        <4>4. j \in 1..Revision
          BY <2>2, <3>1, <4>1, <4>3
        <4> QED
          BY <2>3, <4>2, <4>4
      <3> QED
        BY <1>1, <2>4, <3>1 DEF OnlyOwnEdits
    <2> QED
      BY <1>3, <1>7, <2>1, <2>6, <2>7, <2>8, <2>9 DEF WorldInv
  <1>8. ASSUME UNCHANGED vars
        PROVE  WorldInv' /\ CommandInv'
    <2>1. UNCHANGED <<file, log, begun, made, queue, dropped>>
      BY <1>8 DEF vars, history
    <2>2. WorldInv' /\ \A q : Touched(q)' => Touched(q)
      BY <2>1, IInvParts, WorldStays, Touches
    <2> QED
      BY <1>3, <1>4, <2>1, <2>2
  <1> QED
    BY <1>2, <1>5, <1>6, <1>7, <1>8

-----------------------------------------------------------------------------
(* The theorems                                                            *)

LEMMA InvStep == IInv /\ [Next]_vars => IInv'
  <1> SUFFICES ASSUME IInv, [Next]_vars
               PROVE  IInv'
    OBVIOUS
  <1>1. TypeOK /\ Assigned /\ TypeOK' /\ Assigned'
    BY TypeStep DEF IInv
  <1>2. ASSUME NEW c \in Commands, CommandMoves(c)
        PROVE  WorldInv' /\ CommandInv' /\ Apart'
    BY <1>2, QuietKeeps, CapturesKeeps, AppendsKeeps, AppliesKeeps, TakesKeeps, RejectsKeeps
    DEF CommandMoves
  <1>3. WorldInv' /\ CommandInv' /\ Apart'
    BY <1>1, <1>2, NextMoves, WorldKeeps
  <1> QED
    BY <1>1, <1>3 DEF IInv, WorldInv

LEMMA InvInit == Init => IInv
  <1> SUFFICES ASSUME Init
               PROVE  IInv
    OBVIOUS
  <1>1. TypeOK /\ Assigned
    BY TypeInit
  <1>2. \A c \in Commands : cmd[c] = NoCommand
    BY DEF Init
  <1>3. CommandInv /\ Apart
    BY <1>2, NoCommandFits DEF CommandInv, CommandSound, Apart, Adding
  <1>4. \A b \in Batches : file[b] = None /\ Members(queue[b]) = {}
    <2>1. Members(<<>>) = {}
      BY DEF Members
    <2> QED
      BY <2>1 DEF Init
  <1>5. \A q : AppliedAt(q) = {} /\ ~ Touched(q)
    BY <1>4 DEF Init, AppliedAt, Touched, Queued
  <1>6. Known /\ FileInv /\ QueueInv /\ NoRequestLost
    BY <1>4, <1>5 DEF Known, FileInv, QueueInv, NoRequestLost
  <1>7. AppliedOnce /\ OnlyOwnEdits
    BY <1>5 DEF Init, AppliedOnce, OnlyOwnEdits
  <1> QED
    BY <1>1, <1>3, <1>6, <1>7 DEF IInv

LEMMA InvHolds == Spec => []IInv
  BY InvInit, InvStep, PTL DEF Spec

(* No request of a batch reaches the document twice, whatever answers are  *)
(* lost and processes killed (internal/docsbatch, submitDocsBatch).        *)
THEOREM RequestsAppliedOnce == Spec => []AppliedOnce
  <1>1. IInv => AppliedOnce
    BY DEF IInv
  <1> QED
    BY <1>1, InvHolds, PTL

(* Whoever else edits the document, a request is only applied to the state *)
(* it was computed for and what its own batch made of it.                  *)
THEOREM RequestsMeetTheirDocument == Spec => []OnlyOwnEdits
  <1>1. IInv => OnlyOwnEdits
    BY DEF IInv
  <1> QED
    BY <1>1, InvHolds, PTL

(* No acknowledged request is lost by any interleaving of appending,       *)
(* submitting and discarding commands, nor by killing them.                *)
THEOREM RequestsAreKept == Spec => []NoRequestLost
  <1>1. IInv => NoRequestLost
    BY DEF IInv
  <1> QED
    BY <1>1, InvHolds, PTL

-----------------------------------------------------------------------------
(* The order of the requests                                               *)

Before(b, p, q) == \E i, j \in DOMAIN queue[b] : i < j /\ queue[b][i] = p /\ queue[b][j] = q
Ordered(b, s) == \A i, j \in DOMAIN s : i < j => Before(b, s[i], s[j])

(* A batch file holds acknowledged requests in the order of their queue,   *)
(* and what a command has set aside failed when it was submitted alone.    *)
Lined(b) ==
  /\ Distinct(queue[b]) /\ Queued(b) \subseteq Members(queue[b])
  /\ file[b] # None => Ordered(b, file[b].requests)
SetAside(c) == cmd[c].step \in {"send", "settle"} => Members(cmd[c].failed) \subseteq rejected
OrderInv == (\A b \in Batches : Lined(b)) /\ (\A c \in Commands : SetAside(c)) /\ AppliedInOrder

LEMMA OrderedConcat ==
  ASSUME NEW b \in Batches, NEW s \in Seq(Nat), NEW t \in Seq(Nat)
  PROVE  Ordered(b, s \o t) <=>
           /\ Ordered(b, s) /\ Ordered(b, t)
           /\ \A p \in Members(s), q \in Members(t) : Before(b, p, q)
  <1> DEFINE u == s \o t
             m == Len(s)
             n == Len(t)
  <1>1. /\ u \in Seq(Nat) /\ Len(u) = m + n /\ m \in Nat /\ n \in Nat
        /\ \A i \in 1..(m + n) : u[i] = IF i <= m THEN s[i] ELSE t[i - m]
        /\ DOMAIN s = 1..m /\ DOMAIN t = 1..n
    BY ConcatProperties
  <1>2. DOMAIN u = 1..(m + n)
    BY <1>1
  <1> HIDE DEF u, m, n
  <1>3. \A i \in 1..m : i \in 1..(m + n) /\ u[i] = s[i]
    BY <1>1
  <1>4. \A i \in 1..n : m + i \in 1..(m + n) /\ u[m + i] = t[i]
    BY <1>1
  <1>5. ASSUME NEW i \in 1..(m + n)
        PROVE  \/ i \in 1..m /\ u[i] = s[i]
               \/ i - m \in 1..n /\ u[i] = t[i - m] /\ i > m
    <2>1. CASE i <= m
      BY <1>1, <2>1
    <2>2. CASE i > m
      <3>1. i - m \in 1..n /\ ~ (i <= m)
        BY <1>1, <2>2
      <3> QED
        BY <1>1, <2>2, <3>1
    <2> QED
      BY <1>1, <2>1, <2>2
  <1>6. ASSUME Ordered(b, u)
        PROVE  /\ Ordered(b, s) /\ Ordered(b, t)
               /\ \A p \in Members(s), q \in Members(t) : Before(b, p, q)
    <2>0. \A i, j \in 1..(m + n) : i < j => Before(b, u[i], u[j])
      BY <1>2, <1>6 DEF Ordered
    <2>1. \A i, j \in 1..m : i < j => Before(b, s[i], s[j])
      BY <1>3, <2>0
    <2>2. ASSUME NEW i \in 1..n, NEW j \in 1..n, i < j
          PROVE  Before(b, t[i], t[j])
      <3>1. m + i < m + j
        BY <1>1, <2>2
      <3> QED
        BY <1>4, <2>0, <3>1
    <2>3. ASSUME NEW i \in 1..m, NEW j \in 1..n
          PROVE  Before(b, s[i], t[j])
      <3>1. i < m + j
        BY <1>1
      <3> QED
        BY <1>3, <1>4, <2>0, <3>1
    <2> QED
      BY <1>1, <2>1, <2>2, <2>3 DEF Ordered, Members
  <1>7. ASSUME Ordered(b, s), Ordered(b, t), \A p \in Members(s), q \in Members(t) : Before(b, p, q)
        PROVE  Ordered(b, u)
    <2> SUFFICES ASSUME NEW i \in 1..(m + n), NEW j \in 1..(m + n), i < j
                 PROVE  Before(b, u[i], u[j])
      BY <1>2 DEF Ordered
    <2>1. CASE i \in 1..m /\ j \in 1..m
      BY <1>1, <1>3, <1>7, <2>1 DEF Ordered
    <2>2. CASE i \in 1..m /\ j - m \in 1..n /\ u[j] = t[j - m]
      BY <1>1, <1>3, <1>7, <2>2 DEF Members
    <2>3. CASE i - m \in 1..n /\ u[i] = t[i - m] /\ j - m \in 1..n /\ u[j] = t[j - m]
      <3>1. i - m < j - m
        BY <1>1
      <3> QED
        BY <1>1, <1>7, <2>3, <3>1 DEF Ordered
    <2>4. ~ (i > m /\ j \in 1..m)
      BY <1>1
    <2> QED
      BY <1>5, <2>1, <2>2, <2>3, <2>4
  <1> QED
    BY <1>6, <1>7 DEF u

(* The queue orders requests strictly.                                     *)
LEMMA Strictly ==
  ASSUME TypeOK, NEW b \in Batches, Distinct(queue[b]), NEW p, NEW q, Before(b, p, q)
  PROVE  p # q /\ ~ Before(b, q, p) /\ p \in Members(queue[b]) /\ q \in Members(queue[b])
  <1>1. DOMAIN queue[b] = 1..Len(queue[b]) /\ Len(queue[b]) \in Nat
    <2>1. queue[b] \in Seq(Nat)
      BY DEF TypeOK
    <2> QED
      BY <2>1
  <1>2. PICK i, j \in DOMAIN queue[b] : i < j /\ queue[b][i] = p /\ queue[b][j] = q
    BY DEF Before
  <1>3. p # q
    BY <1>1, <1>2 DEF Distinct
  <1>4. ASSUME NEW x \in DOMAIN queue[b], NEW y \in DOMAIN queue[b],
               x < y, queue[b][x] = q, queue[b][y] = p
        PROVE  FALSE
    <2>1. x = j /\ y = i
      BY <1>2, <1>4 DEF Distinct
    <2> QED
      BY <1>1, <1>2, <1>4, <2>1
  <1> QED
    BY <1>2, <1>3, <1>4 DEF Before, Members

(* AppliedInOrder, said of requests instead of places in a queue.          *)
InLine == \A b \in Batches : \A p, q : Before(b, p, q) /\ p \notin rejected =>
  \A k \in AppliedAt(q) : \E h \in AppliedAt(p) : h <= k

LEMMA ByBefore == AppliedInOrder <=> InLine
  BY DEF AppliedInOrder, InLine, Before

(* Steps that add nothing to a queue nor to the document.                  *)
LEMMA OrderStays ==
  ASSUME OrderInv, UNCHANGED <<queue, log>>, rejected \subseteq rejected'
  PROVE  AppliedInOrder' /\ \A b, p, q : Before(b, p, q)' <=> Before(b, p, q)
  <1>1. \A q : AppliedAt(q)' = AppliedAt(q)
    BY DEF AppliedAt
  <1> QED
    BY <1>1 DEF OrderInv, AppliedInOrder, Before

LEMMA LinesStay ==
  ASSUME OrderInv, UNCHANGED queue, NEW b \in Batches, file'[b] \in {file[b], None}
  PROVE  Lined(b)'
  <1>1. Lined(b)
    BY DEF OrderInv
  <1>2. CASE file'[b] = None
    BY <1>1, <1>2 DEF Lined, Queued
  <1>3. CASE file'[b] = file[b]
    BY <1>1, <1>3 DEF Lined, Queued, Ordered, Before
  <1> QED
    BY <1>2, <1>3

LEMMA AsideStays ==
  ASSUME IInv, OrderInv, NEW c \in Commands, NEW r \in Records, Sets(c, r), rejected \subseteq rejected',
         r.step \in {"send", "settle"} => Members(r.failed) \subseteq rejected'
  PROVE  \A d \in Commands : SetAside(d)'
  <1>1. cmd'[c] = r /\ \A d \in Commands \ {c} : cmd'[d] = cmd[d]
    BY Hands
  <1> QED
    BY <1>1 DEF OrderInv, SetAside

LEMMA QuietOrder ==
  ASSUME IInv, OrderInv, NEW c \in Commands,
         Parks(c) \/ Captures(c) \/ Opens(c) \/ Loads(c) \/ Misses(c) \/ Retries(c)
  PROVE  OrderInv'
  <1>1. UNCHANGED <<file, log, queue, rejected>>
    BY DEF Parks, Captures, Opens, Loads, Misses, Retries, Quiet, history
  <1>2. AppliedInOrder'
    BY <1>1, OrderStays
  <1>3. \A b \in Batches : Lined(b)'
    BY <1>1, LinesStay
  <1>4. Members(<<>>) = {}
    BY DEF Members
  <1>5. \E r \in Records : /\ Sets(c, r)
                           /\ r.step \in {"send", "settle"} => Members(r.failed) \subseteq rejected
    <2>1. Parks(c) \/ Captures(c) \/ Opens(c) => \E r \in Records : Sets(c, r) /\ r.step \notin {"send", "settle"}
      BY DEF Parks, Captures, Opens
    <2>2. Loads(c) => \E r \in Records : Sets(c, r) /\ r.failed = <<>>
      BY DEF Loads
    <2>3. Misses(c) \/ Retries(c) =>
            \E r \in Records : Sets(c, r) /\ cmd[c].step \in {"send", "settle"} /\ r.failed = cmd[c].failed
      BY DEF Misses, Retries, Keeps
    <2>4. SetAside(c)
      BY DEF OrderInv
    <2> QED
      BY <1>4, <2>1, <2>2, <2>3, <2>4 DEF SetAside
  <1>6. \A d \in Commands : SetAside(d)'
    BY <1>1, <1>5, AsideStays
  <1> QED
    BY <1>2, <1>3, <1>6 DEF OrderInv

(* What is left of a batch file keeps its order.                           *)
LEMMA TakesOrder ==
  ASSUME IInv, OrderInv, NEW c \in Commands, Takes(c)
  PROVE  OrderInv'
  <1>0. PICK s \in Records : s = cmd[c]
    BY ActorSound
  <1> DEFINE b == s.batch
             kept == s.failed \o Rest(s)
             revision == IF s.given = None THEN s.revision ELSE s.given
             f == [revision |-> revision, requests |-> kept]
  <1>1. PICK r \in Records :
          /\ Sets(c, r) /\ s.step = "settle"
          /\ Stores(c, revision, kept)
          /\ r.step = "idle" \/ r.failed = s.failed
          /\ UNCHANGED <<log, queue, rejected>>
    BY <1>0 DEF Takes, history
  <1>2. /\ b \in Batches /\ file[b] \in States
        /\ s.failed \in Seq(Nat) /\ Chunk(s) \in Seq(Nat) /\ Rest(s) \in Seq(Nat)
        /\ file[b].requests = s.failed \o (Chunk(s) \o Rest(s))
    BY <1>0, <1>1, Sent
  <1>3. /\ file'[b] = (IF kept = <<>> THEN None ELSE f)
        /\ \A a \in Batches \ {b} : file'[a] = file[a]
    BY <1>0, <1>1, <1>2 DEF Stores, IInv, TypeOK
  <1>4. Lined(b) /\ file[b] # None
    BY <1>2, StateAssumption DEF OrderInv
  <1>5. Ordered(b, kept) /\ Members(kept) \subseteq Queued(b)
    <2> DEFINE x == s.failed
               y == Chunk(s)
               z == Rest(s)
    <2>1. x \in Seq(Nat) /\ y \in Seq(Nat) /\ z \in Seq(Nat) /\ Ordered(b, x \o (y \o z))
          /\ Queued(b) = Members(x \o (y \o z))
      BY <1>2, <1>4 DEF Lined, Queued
    <2> HIDE DEF x, y, z, b
    <2>2. y \o z \in Seq(Nat) /\ b \in Batches
      BY <1>2, <2>1, ConcatProperties DEF b
    <2>3. Ordered(b, x) /\ Ordered(b, y \o z) /\ \A p \in Members(x), q \in Members(y \o z) : Before(b, p, q)
      BY <2>1, <2>2, OrderedConcat
    <2>4. Ordered(b, z)
      BY <2>1, <2>2, <2>3, OrderedConcat
    <2>5. Members(y \o z) = Members(y) \cup Members(z) /\ Members(x \o z) = Members(x) \cup Members(z)
          /\ Members(x \o (y \o z)) = Members(x) \cup Members(y \o z)
      BY <2>1, <2>2, MembersConcat
    <2>6. Ordered(b, x \o z) /\ Members(x \o z) \subseteq Queued(b)
      BY <2>1, <2>2, <2>3, <2>4, <2>5, OrderedConcat
    <2> QED
      BY <2>6 DEF x, z
  <1>6. f.requests = kept
    OBVIOUS
  <1> HIDE DEF kept, f, b
  <1>7. Lined(b)'
    <2>1. CASE file'[b] = None
      BY <1>1, <1>2, <2>1, LinesStay
    <2>2. CASE file'[b] # None
      <3>1. file'[b].requests = kept
        BY <1>3, <1>6, <2>2
      <3>2. Distinct(queue[b])' /\ Queued(b)' \subseteq Members(queue'[b])
        BY <1>1, <1>4, <1>5, <3>1 DEF Lined, Queued
      <3>3. \A i, j \in DOMAIN kept : i < j =>
              \E x, y \in DOMAIN queue'[b] : x < y /\ queue'[b][x] = kept[i] /\ queue'[b][y] = kept[j]
        BY <1>1, <1>5 DEF Ordered, Before
      <3>4. Ordered(b, file[b].requests)'
        BY <3>1, <3>3 DEF Ordered, Before
      <3> QED
        BY <3>2, <3>4 DEF Lined
    <2> QED
      BY <2>1, <2>2
  <1>8. \A a \in Batches : Lined(a)'
    BY <1>1, <1>3, <1>7, LinesStay
  <1>9. \A d \in Commands : SetAside(d)'
    <2>1. Members(s.failed) \subseteq rejected
      BY <1>0, <1>1 DEF OrderInv, SetAside
    <2> QED
      BY <1>1, <2>1, AsideStays
  <1>10. AppliedInOrder'
    BY <1>1, OrderStays
  <1> QED
    BY <1>8, <1>9, <1>10 DEF OrderInv

(* Nothing is taken out of the file for a rejected request.                *)
LEMMA RejectsKeepsFile ==
  ASSUME IInv, NEW c \in Commands, Rejects(c)
  PROVE  UNCHANGED file
  <1>0. PICK s \in Records : s = cmd[c]
    BY ActorSound
  <1>1. s.step = "settle" /\ Stores(c, s.revision, s.failed \o s.pending)
    BY <1>0 DEF Rejects
  <1>2. /\ s.batch \in Batches /\ file[s.batch] \in States
        /\ file[s.batch].requests = s.failed \o s.pending /\ file[s.batch].requests # <<>>
        /\ file[s.batch].revision = s.revision
    BY <1>0, <1>1, Sent
  <1>3. file[s.batch] = [revision |-> s.revision, requests |-> s.failed \o s.pending]
    BY <1>2 DEF States
  <1>4. file' = [file EXCEPT ![s.batch] = file[s.batch]]
    BY <1>0, <1>1, <1>2, <1>3 DEF Stores
  <1> QED
    BY <1>4 DEF IInv, TypeOK

LEMMA RejectsOrder ==
  ASSUME IInv, OrderInv, NEW c \in Commands, Rejects(c)
  PROVE  OrderInv'
  <1>0. PICK s \in Records : s = cmd[c]
    BY ActorSound
  <1>1. PICK r \in Records :
          /\ Sets(c, r) /\ s.step = "settle"
          /\ r.step = "idle" \/ r.failed = s.failed \o Chunk(s)
          /\ rejected' = rejected \cup Members(Chunk(s))
          /\ UNCHANGED <<log, queue>>
    BY <1>0 DEF Rejects
  <1>2. s.failed \in Seq(Nat) /\ Chunk(s) \in Seq(Nat)
    BY <1>0, <1>1, Sent
  <1>3. file' = file
    BY RejectsKeepsFile
  <1>4. \A b \in Batches : Lined(b)'
    BY <1>1, <1>3, LinesStay
  <1>5. Members(s.failed \o Chunk(s)) \subseteq rejected'
    <2>1. Members(s.failed) \subseteq rejected
      BY <1>0, <1>1 DEF OrderInv, SetAside
    <2>2. Members(s.failed \o Chunk(s)) = Members(s.failed) \cup Members(Chunk(s))
      BY <1>2, MembersConcat
    <2> QED
      BY <1>1, <2>1, <2>2
  <1>6. \A d \in Commands : SetAside(d)'
    BY <1>1, <1>5, AsideStays
  <1>7. AppliedInOrder'
    BY <1>1, OrderStays
  <1> QED
    BY <1>4, <1>6, <1>7 DEF OrderInv

(* A chunk is the head of what is not set aside, so whatever was queued    *)
(* before one of its requests is in it, in the document or rejected.       *)
LEMMA HeadOfQueue ==
  ASSUME IInv, OrderInv, NEW c \in Commands, cmd[c].step = "send",
         NEW p, NEW q \in Members(Chunk(cmd[c])), Before(cmd[c].batch, p, q)
  PROVE  p \in Members(Chunk(cmd[c])) \/ AppliedAt(p) # {} \/ p \in rejected
  <1>0. PICK s \in Records : s = cmd[c]
    BY ActorSound
  <1> DEFINE b == s.batch
  <1>1. /\ b \in Batches /\ Chunk(s) \in Seq(Nat) /\ Rest(s) \in Seq(Nat) /\ s.failed \in Seq(Nat)
        /\ file[b] \in States /\ file[b].requests = s.failed \o (Chunk(s) \o Rest(s))
        /\ Queued(b) = Members(s.failed) \cup Members(Chunk(s)) \cup Members(Rest(s))
    BY <1>0, Sent
  <1>2. Lined(b) /\ file[b] # None /\ Members(s.failed) \subseteq rejected
    BY <1>0, <1>1, StateAssumption DEF OrderInv, SetAside
  <1>3. \A r \in Members(Rest(s)) : Before(b, q, r)
    <2> DEFINE x == s.failed
               y == Chunk(s)
               z == Rest(s)
    <2>1. /\ x \in Seq(Nat) /\ y \in Seq(Nat) /\ z \in Seq(Nat) /\ Ordered(b, x \o (y \o z))
          /\ b \in Batches /\ q \in Members(y)
      BY <1>0, <1>1, <1>2 DEF Lined
    <2> HIDE DEF x, y, z, b
    <2>2. y \o z \in Seq(Nat)
      BY <2>1, ConcatProperties
    <2>3. Ordered(b, y \o z)
      BY <2>1, <2>2, OrderedConcat
    <2>4. \A r \in Members(z) : Before(b, q, r)
      BY <2>1, <2>3, OrderedConcat
    <2> QED
      BY <2>4 DEF z
  <1> HIDE DEF b
  <1>4. Before(b, p, q) /\ p \in Members(queue[b])
    BY <1>0 DEF b, Before, Members
  <1>5. CASE p \in Members(Rest(s))
    <2>1. Before(b, q, p)
      BY <1>3, <1>5
    <2> QED
      BY <1>1, <1>2, <1>4, <2>1, Strictly DEF IInv, Lined
  <1>6. CASE p \notin Queued(b)
    BY <1>1, <1>2, <1>4, <1>6 DEF IInv, QueueInv
  <1> QED
    BY <1>0, <1>1, <1>2, <1>5, <1>6

(* What is applied comes after whatever was queued before it.              *)
LEMMA AppliesOrder ==
  ASSUME IInv, OrderInv, NEW c \in Commands, Applies(c)
  PROVE  OrderInv'
  <1>0. PICK s \in Records : s = cmd[c]
    BY ActorSound
  <1> DEFINE b == s.batch
             e == [by |-> b, requests |-> Chunk(s)]
             n == Revision + 1
  <1>1. PICK r \in Records :
          /\ Sets(c, r) /\ s.step = "send"
          /\ r.batch = b /\ r.pending = s.pending /\ r.failed = s.failed /\ r.mode = s.mode
          /\ log' = Append(log, [by |-> r.batch, requests |-> Chunk(r)])
          /\ UNCHANGED <<file, queue, rejected>>
    BY <1>0 DEF Applies, Keeps, history
  <1>2. /\ b \in Batches /\ Chunk(s) \in Seq(Nat) /\ Rest(s) \in Seq(Nat) /\ s.failed \in Seq(Nat)
        /\ file[b] \in States /\ file[b].requests = s.failed \o (Chunk(s) \o Rest(s))
        /\ Queued(b) = Members(s.failed) \cup Members(Chunk(s)) \cup Members(Rest(s))
    BY <1>0, <1>1, Sent
  <1>3. e \in Updates /\ log' = Append(log, e) /\ e.requests = Chunk(s)
    <2>1. Chunk(r) = Chunk(s)
      BY <1>1 DEF Chunk, ChunkSize
    <2> QED
      BY <1>1, <1>2, <2>1 DEF Updates
  <1>4. Lined(b) /\ file[b] # None /\ Members(s.failed) \subseteq rejected
    BY <1>0, <1>1, <1>2, StateAssumption DEF OrderInv, SetAside
  <1>5. \A p : \A q \in Members(Chunk(s)) : Before(b, p, q) =>
          p \in Members(Chunk(s)) \/ AppliedAt(p) # {} \/ p \in rejected
    BY <1>0, <1>1, HeadOfQueue
  <1>6. Revision \in Nat /\ \A q : AppliedAt(q) \subseteq 1..Revision
    BY Positions DEF IInv
  <1> HIDE DEF e
  <1>7. \A q : AppliedAt(q)' = IF q \in Members(Chunk(s)) THEN AppliedAt(q) \cup {n} ELSE AppliedAt(q)
    BY <1>3, Grows DEF IInv
  <1> HIDE DEF b
  <1>8. AppliedInOrder'
    <2> SUFFICES ASSUME NEW a \in Batches, NEW i \in DOMAIN queue[a], NEW j \in DOMAIN queue[a],
                        i < j, queue[a][i] \notin rejected, NEW k \in AppliedAt(queue[a][j])'
                 PROVE  \E h \in AppliedAt(queue[a][i])' : h <= k
      BY <1>1 DEF AppliedInOrder
    <2>1. PICK p, q : p = queue[a][i] /\ q = queue[a][j]
      OBVIOUS
    <2>2. k \in AppliedAt(q)' /\ p \notin rejected /\ Before(a, p, q)
          /\ p \in Members(queue[a]) /\ q \in Members(queue[a])
      BY <1>1, <2>1 DEF Before, Members
    <2>3. \E h \in AppliedAt(p)' : h <= k
      <3>1. CASE k \in AppliedAt(q)
        <4>1. \E h \in AppliedAt(p) : h <= k
          BY <2>1, <2>2, <3>1 DEF OrderInv, AppliedInOrder
        <4> QED
          BY <1>7, <4>1
      <3>2. CASE k \notin AppliedAt(q)
        <4>1. q \in Members(Chunk(s)) /\ k = n
          BY <1>7, <2>2, <3>2
        <4>2. a = b
          <5>1. q \in Members(queue[b])
            BY <1>2, <1>4, <4>1 DEF Lined
          <5> QED
            BY <1>2, <2>2, <5>1 DEF IInv, QueueInv
        <4>3. CASE p \in Members(Chunk(s))
          <5>1. n \in AppliedAt(p)' /\ n <= n
            BY <1>6, <1>7, <4>3
          <5> QED
            BY <4>1, <5>1
        <4>4. CASE AppliedAt(p) # {}
          <5>1. PICK h \in AppliedAt(p) : h <= n
            BY <1>6, <4>4
          <5> QED
            BY <1>7, <4>1, <5>1
        <4> QED
          BY <1>5, <2>2, <4>1, <4>2, <4>3, <4>4
      <3> QED
        BY <3>1, <3>2
    <2> QED
      BY <1>1, <2>1, <2>3
  <1>9. \A a \in Batches : Lined(a)'
    BY <1>1, LinesStay
  <1>10. \A d \in Commands : SetAside(d)'
    BY <1>1, <1>4, AsideStays
  <1> QED
    BY <1>8, <1>9, <1>10 DEF OrderInv

(* New requests go to the end of the file and of the queue.                *)
LEMMA AppendsOrder ==
  ASSUME IInv, OrderInv, NEW c \in Commands, Appends(c)
  PROVE  OrderInv'
  <1>0. PICK s \in Records : s = cmd[c]
    BY ActorSound
  <1> DEFINE b == s.batch
             x == s.pending
             y == s.adding
             f == [revision |-> s.revision, requests |-> x \o y]
             Q == queue[b]
  <1>1. /\ s.step = "write" /\ Sets(c, NoCommand)
        /\ file' = [file EXCEPT ![b] = f]
        /\ queue' = [queue EXCEPT ![b] = @ \o y]
        /\ UNCHANGED <<log, rejected>>
    BY <1>0 DEF Appends
  <1>2. /\ b \in Batches /\ x \in Seq(Nat) /\ y \in Seq(Nat) /\ Q \in Seq(Nat)
        /\ Fresh(s) /\ Copied(s)
    BY <1>0, <1>1, ActorSound DEF Records, Poised, CommandStates, CommandSound, Busy, IInv, TypeOK
  <1>3. /\ file[b] # None /\ file[b].requests = x /\ Lined(b) /\ Queued(b) = Members(x)
    BY <1>2 DEF Copied, Queued, OrderInv
  <1>4. Distinct(y) /\ \A q \in Members(y) : AppliedAt(q) = {} /\ q \notin Members(Q)
    <2>1. \A q \in Members(y) : ~ Touched(q)
      BY <1>2 DEF Fresh
    <2>2. Distinct(y)
      BY <1>2 DEF Fresh
    <2> HIDE DEF y
    <2> QED
      BY <1>2, <2>1, <2>2, Touches DEF Touched
  <1>5. /\ queue'[b] = Q \o y /\ file'[b] = f /\ f.requests = x \o y
        /\ \A a \in Batches \ {b} : file'[a] = file[a] /\ queue'[a] = queue[a]
    BY <1>1, <1>2 DEF IInv, TypeOK
  <1> HIDE DEF b, x, y, f, Q
  <1>6. Distinct(Q \o y) /\ Members(Q \o y) = Members(Q) \cup Members(y)
        /\ Members(x \o y) = Members(x) \cup Members(y)
    <2>1. Distinct(Q) /\ Members(Q) \cap Members(y) = {}
      BY <1>3, <1>4 DEF Lined, Q
    <2> QED
      BY <1>2, <1>4, <2>1, DistinctConcat, MembersConcat
  <1> DEFINE m == Len(Q)
             n == Len(y)
             U == Q \o y
  <1>7. /\ DOMAIN Q = 1..m /\ DOMAIN y = 1..n /\ DOMAIN U = 1..(m + n) /\ m \in Nat /\ n \in Nat
        /\ \A i \in 1..m : i \in 1..(m + n) /\ U[i] = Q[i]
        /\ \A i \in 1..n : m + i \in 1..(m + n) /\ U[m + i] = y[i]
        /\ \A i \in 1..(m + n) : i \in 1..m \/ (i - m \in 1..n /\ U[i] = y[i - m])
    <2>1. /\ U \in Seq(Nat) /\ Len(U) = m + n /\ m \in Nat /\ n \in Nat
          /\ \A i \in 1..(m + n) : U[i] = IF i <= m THEN Q[i] ELSE y[i - m]
          /\ DOMAIN Q = 1..m /\ DOMAIN y = 1..n
      BY <1>2, ConcatProperties
    <2>2. DOMAIN U = 1..(m + n)
      BY <2>1
    <2> HIDE DEF U, m, n
    <2>3. ASSUME NEW i \in 1..n
          PROVE  m + i \in 1..(m + n) /\ U[m + i] = y[i]
      <3>1. m + i \in 1..(m + n) /\ ~ (m + i <= m) /\ (m + i) - m = i
        BY <2>1
      <3> QED
        BY <2>1, <3>1
    <2>4. ASSUME NEW i \in 1..(m + n)
          PROVE  i \in 1..m \/ (i - m \in 1..n /\ U[i] = y[i - m])
      <3>1. i \in 1..m \/ (i - m \in 1..n /\ ~ (i <= m))
        BY <2>1
      <3> QED
        BY <2>1, <3>1
    <2>5. \A i \in 1..m : i \in 1..(m + n) /\ U[i] = Q[i]
      BY <2>1
    <2> QED
      BY <2>1, <2>2, <2>3, <2>4, <2>5
  <1> HIDE DEF m, n, U
  <1>8. \A p, q : Before(b, p, q)' <=> \E i, j \in 1..(m + n) : i < j /\ U[i] = p /\ U[j] = q
    BY <1>5, <1>7 DEF Before, U
  <1>9. Ordered(b, x \o y)'
    <2>1. ASSUME NEW p, NEW q, Before(b, p, q)
          PROVE  \E i, j \in 1..(m + n) : i < j /\ U[i] = p /\ U[j] = q
      BY <1>7, <2>1 DEF Before, Q
    <2>2. ASSUME NEW p \in Members(Q), NEW q \in Members(y)
          PROVE  \E i, j \in 1..(m + n) : i < j /\ U[i] = p /\ U[j] = q
      <3>1. PICK i \in 1..m, k \in 1..n : Q[i] = p /\ y[k] = q
        BY <1>7, <2>2 DEF Members
      <3>2. i < m + k
        BY <1>7
      <3> QED
        BY <1>7, <3>1, <3>2
    <2>3. ASSUME NEW i \in 1..n, NEW j \in 1..n, i < j
          PROVE  \E k, l \in 1..(m + n) : k < l /\ U[k] = y[i] /\ U[l] = y[j]
      <3>1. m + i < m + j
        BY <1>7, <2>3
      <3> QED
        BY <1>7, <3>1
    <2>4. DOMAIN x = 1..Len(x) /\ Len(x) \in Nat
      BY <1>2
    <2>5. /\ DOMAIN (x \o y) = 1..(Len(x) + n)
          /\ \A i \in 1..(Len(x) + n) : (x \o y)[i] = IF i <= Len(x) THEN x[i] ELSE y[i - Len(x)]
      <3>1. /\ x \o y \in Seq(Nat) /\ Len(x \o y) = Len(x) + n
            /\ \A i \in 1..(Len(x) + n) : (x \o y)[i] = IF i <= Len(x) THEN x[i] ELSE y[i - Len(x)]
        BY <1>2, ConcatProperties DEF n
      <3>2. DOMAIN (x \o y) = 1..Len(x \o y)
        BY <3>1
      <3> QED
        BY <3>1, <3>2
    <2> DEFINE z == x \o y
               l == Len(x)
    <2>6. DOMAIN z = 1..(l + n) /\ l \in Nat /\ DOMAIN x = 1..l
          /\ \A i \in 1..(l + n) : z[i] = IF i <= l THEN x[i] ELSE y[i - l]
      BY <2>4, <2>5
    <2> HIDE DEF z, l
    <2>7. Ordered(b, x) /\ Members(x) \subseteq Members(Q)
      BY <1>2, <1>3 DEF Lined, Q
    <2>8. ASSUME NEW i \in 1..(l + n), NEW j \in 1..(l + n), i < j
          PROVE  \E k, h \in 1..(m + n) : k < h /\ U[k] = z[i] /\ U[h] = z[j]
      <3>1. CASE i <= l /\ j <= l
        <4>1. i \in DOMAIN x /\ j \in DOMAIN x /\ z[i] = x[i] /\ z[j] = x[j]
          BY <2>6, <3>1
        <4>2. Before(b, z[i], z[j])
          BY <2>7, <2>8, <4>1 DEF Ordered
        <4> QED
          BY <2>1, <4>2
      <3>2. CASE i <= l /\ ~ (j <= l)
        <4>1. i \in DOMAIN x /\ j - l \in DOMAIN y /\ z[i] = x[i] /\ z[j] = y[j - l]
          BY <1>7, <2>6, <3>2
        <4>2. z[i] \in Members(Q) /\ z[j] \in Members(y)
          BY <2>7, <4>1 DEF Members
        <4> QED
          BY <2>2, <4>2
      <3>3. CASE ~ (i <= l) /\ ~ (j <= l)
        <4>1. i - l \in 1..n /\ j - l \in 1..n /\ i - l < j - l /\ z[i] = y[i - l] /\ z[j] = y[j - l]
          BY <1>7, <2>6, <2>8, <3>3
        <4> QED
          BY <2>3, <4>1
      <3> QED
        BY <2>6, <2>8, <3>1, <3>2, <3>3
    <2>9. \A i, j \in DOMAIN z : i < j => \E k, h \in 1..(m + n) : k < h /\ U[k] = z[i] /\ U[h] = z[j]
      BY <2>6, <2>8
    <2> QED
      BY <1>8, <2>9 DEF Ordered, z
  <1>10. Lined(b)'
    <2>1. Distinct(queue[b])'
      BY <1>5, <1>6 DEF Distinct
    <2>2. file'[b].requests = x \o y
      BY <1>5
    <2>3. Members(x) \subseteq Members(Q)
      BY <1>3 DEF Lined, Q
    <2>4. Queued(b)' \subseteq Members(Q) \cup Members(y)
      BY <1>6, <2>2, <2>3 DEF Queued, Members
    <2>5. Ordered(b, file[b].requests)'
      BY <1>9, <2>2 DEF Ordered
    <2>6. Members(queue[b])' = Members(Q) \cup Members(y)
      BY <1>5, <1>6 DEF Members
    <2> QED
      BY <2>1, <2>4, <2>5, <2>6 DEF Lined
  <1>11. ASSUME NEW a \in Batches, a # b
         PROVE  Lined(a)'
    <2>1. file'[a] = file[a] /\ queue'[a] = queue[a] /\ Lined(a)
      BY <1>5, <1>11 DEF OrderInv
    <2> QED
      BY <2>1 DEF Lined, Queued, Distinct, Ordered, Before
  <1>12. \A d \in Commands : SetAside(d)'
    BY <1>1, NoCommandFits, AsideStays DEF NoCommand
  <1>13. AppliedInOrder'
    <2>1. \A q : AppliedAt(q)' = AppliedAt(q)
      BY <1>1 DEF AppliedAt
    <2>2. ASSUME NEW a \in Batches, NEW p, NEW q, Before(a, p, q)', p \notin rejected, NEW k \in AppliedAt(q)
          PROVE  Before(a, p, q)
      <3>1. CASE a # b
        BY <1>5, <2>2, <3>1 DEF Before
      <3>2. CASE a = b
        <4>1. PICK i, j \in 1..(m + n) : i < j /\ U[i] = p /\ U[j] = q
          BY <1>8, <2>2, <3>2
        <4>2. j \in 1..m
          <5>1. CASE j - m \in 1..n /\ U[j] = y[j - m]
            <6>1. U[j] \in Members(y)
              BY <1>7, <5>1 DEF Members
            <6> QED
              BY <1>4, <2>2, <4>1, <6>1
          <5> QED
            BY <1>7, <4>1, <5>1
        <4>3. i \in 1..m
          BY <1>7, <4>1, <4>2
        <4> QED
          BY <1>7, <3>2, <4>1, <4>2, <4>3 DEF Before, Q
      <3> QED
        BY <3>1, <3>2
    <2>3. AppliedInOrder <=> InLine
      BY ByBefore
    <2>4. AppliedInOrder' <=> InLine'
      BY ByBefore, PTL
    <2>5. InLine'
      BY <1>1, <2>1, <2>2, <2>3 DEF InLine, OrderInv
    <2> QED
      BY <2>4, <2>5
  <1> QED
    BY <1>10, <1>11, <1>12, <1>13 DEF OrderInv

(* Beginning, discarding and the edits of others.                          *)
LEMMA WorldOrder ==
  ASSUME IInv, OrderInv,
         (\E b \in Batches : Create(b)) \/ (\E S \in SUBSET Batches : Discard(S)) \/ Edit \/ UNCHANGED vars
  PROVE  OrderInv'
  <1>1. UNCHANGED <<cmd, queue, rejected>>
    BY DEF Create, Discard, Edit, vars, history
  <1>2. \A c \in Commands : SetAside(c)'
    BY <1>1 DEF OrderInv, SetAside
  <1>3. Members(<<>>) = {} /\ DOMAIN <<>> = {}
    BY DEF Members
  <1>4. ASSUME NEW b \in Batches, Create(b)
        PROVE  OrderInv'
    <2>1. UNCHANGED log /\ file'[b] = Empty /\ \A a \in Batches \ {b} : file'[a] = file[a]
      BY <1>4 DEF Create, IInv, TypeOK
    <2>2. Empty.requests = <<>>
      BY DEF Empty
    <2>3. Distinct(queue[b])
      BY DEF OrderInv, Lined
    <2>4. Lined(b)'
      BY <1>1, <1>3, <2>1, <2>2, <2>3 DEF Lined, Queued, Ordered
    <2>5. \A a \in Batches : Lined(a)'
      BY <1>1, <2>1, <2>4, LinesStay
    <2>6. AppliedInOrder'
      BY <1>1, <2>1, OrderStays
    <2> QED
      BY <1>2, <2>5, <2>6 DEF OrderInv
  <1>5. ASSUME NEW S \in SUBSET Batches, Discard(S)
        PROVE  OrderInv'
    <2>1. UNCHANGED log /\ \A a \in Batches : file'[a] \in {file[a], None}
      BY <1>5 DEF Discard
    <2>2. \A a \in Batches : Lined(a)'
      BY <1>1, <2>1, LinesStay
    <2>3. AppliedInOrder'
      BY <1>1, <2>1, OrderStays
    <2> QED
      BY <1>2, <2>2, <2>3 DEF OrderInv
  <1>6. CASE Edit
    <2> DEFINE e == [by |-> Foreign, requests |-> <<>>]
    <2>1. e \in Updates /\ log' = Append(log, e) /\ e.requests = <<>>
      BY <1>6 DEF Edit, Updates
    <2> HIDE DEF e
    <2>2. \A q : AppliedAt(q)' = AppliedAt(q)
      BY <1>3, <2>1, Grows DEF IInv
    <2>3. UNCHANGED file
      BY <1>6 DEF Edit
    <2>4. \A a \in Batches : Lined(a)'
      BY <1>1, <2>3, LinesStay
    <2>5. AppliedInOrder'
      BY <1>1, <2>2 DEF OrderInv, AppliedInOrder
    <2> QED
      BY <1>2, <2>4, <2>5 DEF OrderInv
  <1>7. CASE UNCHANGED vars
    <2>1. UNCHANGED <<file, log>>
      BY <1>7 DEF vars
    <2>2. \A a \in Batches : Lined(a)'
      BY <1>1, <2>1, LinesStay
    <2>3. AppliedInOrder'
      BY <1>1, <2>1, OrderStays
    <2> QED
      BY <1>2, <2>2, <2>3 DEF OrderInv
  <1> QED
    BY <1>4, <1>5, <1>6, <1>7

LEMMA OrderStep == IInv /\ OrderInv /\ [Next]_vars => OrderInv'
  <1> SUFFICES ASSUME IInv, OrderInv, [Next]_vars
               PROVE  OrderInv'
    OBVIOUS
  <1>1. ASSUME NEW c \in Commands, CommandMoves(c)
        PROVE  OrderInv'
    BY <1>1, QuietOrder, TakesOrder, RejectsOrder, AppliesOrder, AppendsOrder DEF CommandMoves
  <1>2. TypeOK /\ Assigned
    BY DEF IInv
  <1> QED
    BY <1>1, <1>2, NextMoves, WorldOrder

LEMMA OrderInit == Init => OrderInv
  <1> SUFFICES ASSUME Init
               PROVE  OrderInv
    OBVIOUS
  <1>1. \A b \in Batches : file[b] = None /\ Members(queue[b]) = {}
    <2>1. Members(<<>>) = {}
      BY DEF Members
    <2> QED
      BY <2>1 DEF Init
  <1>2. \A b \in Batches : Lined(b)
    BY <1>1 DEF Lined, Queued, Distinct, Members
  <1>3. \A c \in Commands : SetAside(c)
    BY DEF Init, SetAside, NoCommand
  <1>4. AppliedInOrder
    BY <1>1 DEF AppliedInOrder, Members
  <1> QED
    BY <1>2, <1>3, <1>4 DEF OrderInv

LEMMA OrderHolds == Spec => []OrderInv
  BY InvHolds, OrderInit, OrderStep, PTL DEF Spec

(* Whatever is appended, submitted in parts or request by request, killed  *)
(* or edited meanwhile, a request reaches the document no earlier than     *)
(* those queued before it, but for the rejected (internal/docsbatch,       *)
(* submitDocsBatch).                                                       *)
THEOREM RequestsKeepTheirOrder == Spec => []AppliedInOrder
  <1>1. OrderInv => AppliedInOrder
    BY DEF OrderInv
  <1> QED
    BY <1>1, OrderHolds, PTL

-----------------------------------------------------------------------------
(* What the batches promise                                                *)

(* A discarded request was queued, and is in no batch file any more.       *)
Thrown(q) == (\E b \in Batches : q \in Members(queue[b])) /\ \A b \in Batches : q \notin Queued(b)
Listing(c) == cmd[c].step \in {"append", "write"} => cmd[c].adding \in Additions
QueuesInv == (\A q \in dropped : Thrown(q)) /\ (\A c \in Commands : Listing(c))

LEMMA ThrownStays ==
  ASSUME QueuesInv, UNCHANGED <<queue, dropped>>, \A b \in Batches : Queued(b)' \subseteq Queued(b)
  PROVE  \A q \in dropped' : Thrown(q)'
  BY DEF QueuesInv, Thrown, Members

LEMMA ListingStays ==
  ASSUME IInv, QueuesInv, NEW c \in Commands, NEW r \in Records, Sets(c, r),
         r.step \in {"append", "write"} => r.adding \in Additions
  PROVE  \A d \in Commands : Listing(d)'
  <1>1. cmd'[c] = r /\ \A d \in Commands \ {c} : cmd'[d] = cmd[d]
    BY Hands
  <1>2. ASSUME NEW d \in Commands
        PROVE  Listing(d)'
    <2>1. CASE d = c
      BY <1>1, <2>1 DEF Listing, Additions
    <2>2. CASE d # c
      BY <1>1, <2>2 DEF QueuesInv, Listing, Additions
    <2> QED
      BY <2>1, <2>2
  <1> QED
    BY <1>2

(* What the steps of submission do to the file of their batch.             *)
LEMMA TakesLess ==
  ASSUME IInv, NEW c \in Commands, Takes(c)
  PROVE  /\ cmd[c].batch \in Batches /\ file[cmd[c].batch] # None
         /\ \A a \in Batches \ {cmd[c].batch} : file'[a] = file[a]
         /\ \A a \in Batches : Queued(a)' \subseteq Queued(a)
         /\ file'[cmd[c].batch] = None => \A q \in Queued(cmd[c].batch) : AppliedAt(q) # {}
  <1>0. PICK s \in Records : s = cmd[c]
    BY ActorSound
  <1> DEFINE b == s.batch
             kept == s.failed \o Rest(s)
             revision == IF s.given = None THEN s.revision ELSE s.given
             f == [revision |-> revision, requests |-> kept]
  <1>1. /\ s.step = "settle" /\ s.answer = "ok"
        /\ file' = [file EXCEPT ![b] = IF kept = <<>> THEN None ELSE f]
    BY <1>0 DEF Takes, Stores
  <1>2. /\ b \in Batches /\ file[b] \in States
        /\ s.failed \in Seq(Nat) /\ Rest(s) \in Seq(Nat) /\ s.revision \in 0..Revision
        /\ Queued(b) = Members(s.failed) \cup Members(Chunk(s)) \cup Members(Rest(s))
    BY <1>0, <1>1, Sent
  <1>3. /\ file'[b] = (IF kept = <<>> THEN None ELSE f)
        /\ \A a \in Batches \ {b} : file'[a] = file[a]
    BY <1>1, <1>2 DEF IInv, TypeOK
  <1>4. Members(kept) = Members(s.failed) \cup Members(Rest(s)) /\ kept \in Seq(Nat)
    BY <1>2, MembersConcat, ConcatProperties
  <1>5. f.requests = kept /\ f # None
    <2>1. revision \in Revisions
      BY <1>0, Positions DEF Records, CommandStates, Revisions
    <2>2. f \in States
      BY <1>4, <2>1 DEF States
    <2> QED
      BY <2>2, StateAssumption
  <1>6. Members(<<>>) = {}
    BY DEF Members
  <1>7. \A q \in Members(Chunk(s)) : AppliedAt(q) # {}
    BY <1>0, <1>1, ActorSound DEF CommandSound, Accepted
  <1> HIDE DEF kept, f, b
  <1>8. ASSUME NEW a \in Batches
        PROVE  Queued(a)' \subseteq Queued(a)
    <2>1. CASE a = b
      <3>1. CASE file'[a] = None
        BY <3>1 DEF Queued
      <3>2. CASE file'[a] # None
        <4>1. file'[a].requests = kept
          BY <1>3, <1>5, <2>1, <3>2
        <4>2. Queued(a)' = Members(kept)
          BY <3>2, <4>1 DEF Queued, Members
        <4> QED
          BY <1>2, <1>4, <2>1, <4>2
      <3> QED
        BY <3>1, <3>2
    <2>2. CASE a # b
      BY <1>3, <2>2 DEF Queued, Members
    <2> QED
      BY <2>1, <2>2
  <1>9. file'[b] = None => \A q \in Queued(b) : AppliedAt(q) # {}
    BY <1>2, <1>3, <1>4, <1>5, <1>6, <1>7
  <1> QED
    BY <1>0, <1>2, <1>3, <1>8, <1>9, StateAssumption DEF b

LEMMA MovesKeepThrown ==
  ASSUME IInv, OrderInv, QueuesInv, NEW c \in Commands, CommandMoves(c)
  PROVE  \A q \in dropped' : Thrown(q)'
  <1>1. CASE Parks(c) \/ Captures(c) \/ Opens(c) \/ Loads(c) \/ Misses(c) \/ Retries(c) \/ Applies(c)
    <2>1. UNCHANGED <<file, queue, dropped>>
      BY <1>1 DEF Parks, Captures, Opens, Loads, Misses, Retries, Applies, Quiet, history
    <2> QED
      BY <2>1, ThrownStays DEF Queued, Members
  <1>2. CASE Takes(c)
    <2>1. UNCHANGED <<queue, dropped>>
      BY <1>2 DEF Takes, history
    <2> QED
      BY <1>2, <2>1, TakesLess, ThrownStays
  <1>3. CASE Rejects(c)
    <2>1. UNCHANGED <<file, queue, dropped>>
      BY <1>3, RejectsKeepsFile DEF Rejects
    <2> QED
      BY <2>1, ThrownStays DEF Queued, Members
  <1>4. CASE Appends(c)
    <2>0. PICK s \in Records : s = cmd[c]
      BY ActorSound
    <2> DEFINE b == s.batch
               x == s.pending
               y == s.adding
               f == [revision |-> s.revision, requests |-> x \o y]
    <2>1. /\ b \in Batches /\ x \in Seq(Nat) /\ y \in Seq(Nat) /\ Fresh(s) /\ Copied(s)
          /\ file' = [file EXCEPT ![b] = f]
          /\ queue' = [queue EXCEPT ![b] = @ \o y]
          /\ UNCHANGED dropped
      BY <1>4, <2>0, ActorSound DEF Appends, Records, Poised, CommandStates, CommandSound
    <2>2. Queued(b) = Members(x) /\ \A q \in Members(y) : \A a \in Batches : q \notin Members(queue[a])
      <3>1. \A q \in Members(y) : ~ Touched(q)
        BY <2>1 DEF Fresh
      <3> HIDE DEF b, x, y
      <3> QED
        BY <2>1, <3>1 DEF Touched, Copied, Queued, x, b
    <2>3. /\ file'[b] = f /\ queue'[b] = queue[b] \o y /\ f.requests = x \o y
          /\ \A a \in Batches \ {b} : file'[a] = file[a] /\ queue'[a] = queue[a]
      BY <2>1 DEF IInv, TypeOK
    <2> HIDE DEF b, x, y, f
    <2>4. /\ Members(x \o y) = Members(x) \cup Members(y)
          /\ Members(queue[b] \o y) = Members(queue[b]) \cup Members(y)
      <3>1. queue[b] \in Seq(Nat)
        BY <2>1 DEF IInv, TypeOK
      <3> QED
        BY <2>1, <3>1, MembersConcat
    <2>5. Queued(b)' \subseteq Queued(b) \cup Members(y)
      <3>1. Queued(b)' \subseteq Members(x \o y)
        BY <2>3 DEF Queued, Members
      <3> QED
        BY <2>2, <2>4, <3>1
    <2>6. \A a \in Batches \ {b} : Queued(a)' = Queued(a)
      BY <2>3 DEF Queued, Members
    <2>7. \A a \in Batches : Members(queue[a]) \subseteq Members(queue[a])'
      <3>1. Members(queue[b])' = Members(queue[b] \o y)
        BY <2>3 DEF Members
      <3>2. \A a \in Batches \ {b} : Members(queue[a])' = Members(queue[a])
        BY <2>3 DEF Members
      <3> QED
        BY <2>4, <3>1, <3>2
    <2>8. ASSUME NEW q \in dropped
          PROVE  Thrown(q)'
      <3>1. Thrown(q) /\ q \notin Members(y)
        BY <2>2 DEF QueuesInv, Thrown
      <3> QED
        BY <2>5, <2>6, <2>7, <3>1 DEF Thrown
    <2> QED
      BY <2>1, <2>8
  <1> QED
    BY <1>1, <1>2, <1>3, <1>4 DEF CommandMoves

LEMMA MovesKeepListing ==
  ASSUME IInv, QueuesInv, NEW c \in Commands, CommandMoves(c)
  PROVE  \A d \in Commands : Listing(d)'
  <1>1. \E r \in Records : Sets(c, r) /\ (r.step \in {"append", "write"} => r.adding \in Additions)
    <2>1. CASE Captures(c)
      <3>1. PICK r \in Records, n \in Nat :
              /\ Sets(c, r) /\ r.adding = [i \in 1..n |-> Len(made) + i] /\ Len(made) + n <= MaxRequests
        BY <2>1 DEF Captures
      <3>2. Len(made) \in Nat
        BY DEF IInv, TypeOK
      <3>3. Len(made) \in 0..MaxRequests /\ n \in 0..MaxRequests
        BY <3>1, <3>2, BoundAssumption
      <3> QED
        BY <3>1, <3>3 DEF Additions
    <2>2. CASE Opens(c)
      BY <2>2 DEF Opens, QueuesInv, Listing
    <2>3. CASE Parks(c) \/ Appends(c) \/ Loads(c) \/ Applies(c) \/ Misses(c) \/ Takes(c) \/ Rejects(c) \/ Retries(c)
      <3>1. \E r \in Records : Sets(c, r) /\ r.step \in {"idle", "end", "send", "settle"}
        <4>1. Parks(c) \/ Loads(c) => \E r \in Records : Sets(c, r) /\ r.step \in {"idle", "end", "send"}
          BY DEF Parks, Loads
        <4>2. Appends(c) => \E r \in Records : Sets(c, r) /\ r.step = "idle"
          BY NoCommandFits DEF Appends
        <4>3. Applies(c) \/ Misses(c) \/ Retries(c) =>
                \E r \in Records : Sets(c, r) /\ r.step \in {"send", "settle"}
          BY DEF Applies, Misses, Retries
        <4>4. Takes(c) \/ Rejects(c) => \E r \in Records : Sets(c, r) /\ r.step \in {"idle", "send"}
          BY DEF Takes, Rejects
        <4> QED
          BY <2>3, <4>1, <4>2, <4>3, <4>4
      <3> QED
        BY <3>1
    <2> QED
      BY <2>1, <2>2, <2>3 DEF CommandMoves
  <1> QED
    BY <1>1, ListingStays

LEMMA WorldKeepsQueues ==
  ASSUME IInv, OrderInv, QueuesInv,
         (\E b \in Batches : Create(b)) \/ (\E S \in SUBSET Batches : Discard(S)) \/ Edit \/ UNCHANGED vars
  PROVE  QueuesInv'
  <1>1. UNCHANGED <<cmd, queue>>
    BY DEF Create, Discard, Edit, vars, history
  <1>2. \A c \in Commands : Listing(c)'
    BY <1>1 DEF QueuesInv, Listing, Additions
  <1>3. ASSUME NEW b \in Batches, Create(b)
        PROVE  \A q \in dropped' : Thrown(q)'
    <2>1. UNCHANGED dropped /\ file'[b] = Empty /\ \A a \in Batches \ {b} : file'[a] = file[a]
      BY <1>3 DEF Create, history, IInv, TypeOK
    <2>2. Empty.requests = <<>> /\ Members(<<>>) = {}
      BY DEF Empty, Members
    <2>3. Queued(b)' = {} /\ \A a \in Batches \ {b} : Queued(a)' = Queued(a)
      BY <2>1, <2>2 DEF Queued, Members
    <2>4. \A a \in Batches : Queued(a)' \subseteq Queued(a)
      BY <2>3
    <2> QED
      BY <1>1, <2>1, <2>4, ThrownStays
  <1>4. ASSUME NEW S \in SUBSET Batches, Discard(S)
        PROVE  \A q \in dropped' : Thrown(q)'
    <2>1. /\ \A b \in S : file[b] # None
          /\ \A a \in Batches : file'[a] = IF a \in S THEN None ELSE file[a]
          /\ dropped' = dropped \cup UNION {Members(file[b].requests) : b \in S}
      BY <1>4 DEF Discard
    <2>2. \A a \in Batches : Queued(a)' = IF a \in S THEN {} ELSE Queued(a)
      BY <2>1 DEF Queued, Members
    <2>3. \A q \in dropped' : q \in dropped \/ \E b \in S : q \in Queued(b)
      BY <2>1 DEF Queued
    <2>4. ASSUME NEW b \in S, NEW q \in Queued(b)
          PROVE  Thrown(q)'
      <3>1. q \in Members(queue[b]) /\ made[q].batch = b
        BY DEF OrderInv, Lined, IInv, QueueInv
      <3>2. \A a \in Batches : q \in Queued(a) => made[q].batch = a
        BY DEF OrderInv, Lined, IInv, QueueInv
      <3> QED
        BY <1>1, <2>2, <3>1, <3>2 DEF Thrown, Members
    <2>5. ASSUME NEW q \in dropped
          PROVE  Thrown(q)'
      BY <1>1, <2>2 DEF QueuesInv, Thrown, Members
    <2> QED
      BY <2>3, <2>4, <2>5
  <1>5. CASE Edit \/ UNCHANGED vars
    <2>1. UNCHANGED <<file, dropped>>
      BY <1>5 DEF Edit, vars, history
    <2>2. \A b \in Batches : Queued(b)' = Queued(b)
      BY <2>1 DEF Queued, Members
    <2>3. UNCHANGED <<queue, dropped>> /\ \A b \in Batches : Queued(b)' \subseteq Queued(b)
      BY <1>1, <2>1, <2>2
    <2> QED
      BY <1>2, <2>3, ThrownStays DEF QueuesInv
  <1> QED
    BY <1>2, <1>3, <1>4, <1>5 DEF QueuesInv

LEMMA QueuesStep == IInv /\ OrderInv /\ QueuesInv /\ [Next]_vars => QueuesInv'
  <1> SUFFICES ASSUME IInv, OrderInv, QueuesInv, [Next]_vars
               PROVE  QueuesInv'
    OBVIOUS
  <1>1. ASSUME NEW c \in Commands, CommandMoves(c)
        PROVE  QueuesInv'
    BY <1>1, MovesKeepThrown, MovesKeepListing DEF QueuesInv
  <1>2. TypeOK /\ Assigned
    BY DEF IInv
  <1> QED
    BY <1>1, <1>2, NextMoves, WorldKeepsQueues

LEMMA QueuesInit == Init => QueuesInv
  BY DEF Init, QueuesInv, Listing, NoCommand

(* No step of a queue.                                                     *)
Silent == UNCHANGED <<queue, OpenBatches, begun, InDocument, rejected, GivenUp>>

LEMMA Mapped ==
  /\ \A q : q \in InDocument <=> AppliedAt(q) # {}
  /\ \A b \in Batches : Queues!Listed(b) = Members(queue[b])
  /\ \A b \in Batches : Queues!Waiting(b) = Members(queue[b]) \ (InDocument \cup dropped)
  /\ \A b \in Batches : \A p, q : Queues!Precedes(b, p, q) <=> Before(b, p, q)
  <1>1. \A q : q \in InDocument <=> AppliedAt(q) # {}
    BY DEF InDocument, AppliedAt
  <1>2. \A b \in Batches : Queues!Listed(b) = Members(queue[b])
    BY DEF Queues!Listed, Members
  <1>3. \A b \in Batches : Queues!Waiting(b) = Members(queue[b]) \ (InDocument \cup dropped)
    <2>1. \A b \in Batches : Queues!Waiting(b) = Members(queue[b]) \ (InDocument \cup GivenUp)
      BY <1>2 DEF Queues!Waiting
    <2>2. InDocument \cup GivenUp = InDocument \cup dropped
      BY DEF GivenUp
    <2> QED
      BY <2>1, <2>2
  <1>4. \A b \in Batches : \A p, q : Queues!Precedes(b, p, q) <=> Before(b, p, q)
    BY DEF Queues!Precedes, Before
  <1> QED
    BY <1>1, <1>2, <1>3, <1>4

LEMMA AppendsEnqueue ==
  ASSUME IInv, OrderInv, QueuesInv, NEW c \in Commands, Appends(c)
  PROVE  Queues!QueueNext
  <1>0. PICK s \in Records : s = cmd[c]
    BY ActorSound
  <1> DEFINE b == s.batch
             x == s.pending
             y == s.adding
             f == [revision |-> s.revision, requests |-> x \o y]
  <1>1. /\ s.step = "write"
        /\ file' = [file EXCEPT ![b] = f]
        /\ queue' = [queue EXCEPT ![b] = @ \o y]
        /\ UNCHANGED <<log, begun, dropped, rejected>>
    BY <1>0 DEF Appends
  <1>2. /\ b \in Batches /\ x \in Seq(Nat) /\ y \in Seq(Nat) /\ s.revision \in Revisions
        /\ Fresh(s) /\ Copied(s) /\ y \in Additions
    BY <1>0, <1>1, ActorSound
    DEF Records, Poised, CommandStates, CommandSound, QueuesInv, Listing
  <1>3. f \in States /\ f # None
    <2>1. x \o y \in Seq(Nat)
      BY <1>2, ConcatProperties
    <2>2. f \in States
      BY <1>2, <2>1 DEF States
    <2> QED
      BY <2>2, StateAssumption
  <1>4. OpenBatches' = OpenBatches /\ b \in OpenBatches
    <2>1. file'[b] # None /\ file[b] # None /\ \A a \in Batches \ {b} : file'[a] = file[a]
      BY <1>1, <1>2, <1>3 DEF Copied, IInv, TypeOK
    <2> QED
      BY <1>2, <2>1 DEF OpenBatches
  <1>5. UNCHANGED <<InDocument, GivenUp>>
    BY <1>1 DEF InDocument, GivenUp, Members
  <1>6. /\ \A i, j \in DOMAIN y : y[i] = y[j] => i = j
        /\ \A i \in DOMAIN y : ~ Touched(y[i])
    BY <1>2 DEF Fresh, Distinct, Members
  <1>7. \A i \in DOMAIN y : \A a \in Batches : y[i] \notin Queues!Listed(a)
    <2> HIDE DEF y
    <2>1. \A a \in Batches : Queues!Listed(a) = Members(queue[a])
      BY Mapped
    <2> QED
      BY <1>6, <2>1 DEF Touched
  <1> HIDE DEF b, y
  <1>8. Queues!Enqueue(b, y)
    BY <1>1, <1>4, <1>5, <1>6, <1>7 DEF Queues!Enqueue
  <1> QED
    BY <1>2, <1>8 DEF Queues!QueueNext, b, y

LEMMA AppliesApply ==
  ASSUME IInv, OrderInv, QueuesInv, NEW c \in Commands, Applies(c)
  PROVE  Queues!QueueNext
  <1>0. PICK s \in Records : s = cmd[c]
    BY ActorSound
  <1> DEFINE b == s.batch
             S == Members(Chunk(s))
             e == [by |-> b, requests |-> Chunk(s)]
  <1>1. PICK r \in Records :
          /\ s.step = "send" /\ r.batch = b /\ r.pending = s.pending /\ r.mode = s.mode /\ Current(s)
          /\ log' = Append(log, [by |-> r.batch, requests |-> Chunk(r)])
          /\ UNCHANGED <<file, begun, queue, dropped, rejected>>
    BY <1>0 DEF Applies, Keeps, history
  <1>2. /\ b \in Batches /\ file[b] \in States /\ Chunk(s) \in Seq(Nat)
        /\ file[b].requests # <<>> /\ file[b].revision = s.revision /\ s.revision \in 0..Revision
        /\ Sound(b, file[b])
        /\ Queued(b) = Members(s.failed) \cup S \cup Members(Rest(s))
    BY <1>0, <1>1, Sent
  <1>3. e \in Updates /\ log' = Append(log, e) /\ e.requests = Chunk(s)
    <2>1. Chunk(r) = Chunk(s)
      BY <1>1 DEF Chunk, ChunkSize
    <2> QED
      BY <1>1, <1>2, <2>1 DEF Updates
  <1>4. file[b] # None /\ Lined(b)
    BY <1>2, StateAssumption DEF OrderInv
  <1>5. \A q \in S : AppliedAt(q) = {}
    <2>1. s.revision = Revision /\ Revision \in Nat
      BY <1>1, <1>2, Positions, NoneAssumption DEF Current, IInv
    <2>2. \A q \in Queued(b) : q \in Members(file[b].requests)
      BY <1>4 DEF Queued
    <2> QED
      BY <1>2, <2>1, <2>2 DEF Sound
  <1>6. S \subseteq Members(queue[b]) /\ \A q \in S : q \notin dropped
    BY <1>2, <1>4 DEF Lined, QueuesInv, Thrown
  <1> HIDE DEF e
  <1>7. \A q : AppliedAt(q)' # {} <=> AppliedAt(q) # {} \/ q \in S
    BY <1>3, Grows DEF IInv
  <1>8. \A p : \A q \in S : Before(b, p, q) => p \in S \/ AppliedAt(p) # {} \/ p \in rejected
    BY <1>0, <1>1, HeadOfQueue
  <1> HIDE DEF b, S
  <1>9. \A q : q \in InDocument' <=> AppliedAt(q)' # {}
    BY DEF InDocument, AppliedAt, Members
  <1>10. InDocument' = InDocument \cup S
    BY <1>7, <1>9, Mapped
  <1>11. UNCHANGED <<queue, OpenBatches, begun, rejected, GivenUp>> /\ b \in OpenBatches
    BY <1>1, <1>2, <1>4, <1>6, <1>10 DEF OpenBatches, GivenUp
  <1>12. S \subseteq Queues!Waiting(b) /\ S \subseteq Queues!Listed(b)
    <2>1. Queues!Waiting(b) = Members(queue[b]) \ (InDocument \cup dropped) /\ Queues!Listed(b) = Members(queue[b])
      BY <1>2, Mapped
    <2>2. \A q \in S : q \notin InDocument
      BY <1>5, Mapped
    <2> QED
      BY <1>6, <2>1, <2>2
  <1>13. \A q \in S, p \in Queues!Listed(b) : Queues!Precedes(b, p, q) => p \in S \cup InDocument \cup rejected
    <2>1. \A p, q : Queues!Precedes(b, p, q) <=> Before(b, p, q)
      BY <1>2, Mapped
    <2>2. \A p : AppliedAt(p) # {} => p \in InDocument
      BY Mapped
    <2> QED
      BY <1>8, <2>1, <2>2
  <1>14. Queues!Apply(b, S)
    BY <1>10, <1>11, <1>12, <1>13 DEF Queues!Apply
  <1> QED
    BY <1>2, <1>12, <1>14 DEF Queues!QueueNext

LEMMA TakesClose ==
  ASSUME IInv, OrderInv, QueuesInv, NEW c \in Commands, Takes(c)
  PROVE  Queues!QueueNext \/ Silent
  <1> DEFINE b == cmd[c].batch
  <1>1. UNCHANGED <<log, begun, queue, dropped, rejected, InDocument, GivenUp>>
    BY DEF Takes, history, InDocument, GivenUp, Members
  <1>2. /\ b \in Batches /\ file[b] # None /\ \A a \in Batches \ {b} : file'[a] = file[a]
        /\ file'[b] = None => \A q \in Queued(b) : AppliedAt(q) # {}
    BY TakesLess
  <1> HIDE DEF b
  <1>3. CASE file'[b] # None
    <2>1. OpenBatches' = OpenBatches
      BY <1>2, <1>3 DEF OpenBatches
    <2> QED
      BY <1>1, <2>1 DEF Silent
  <1>4. CASE file'[b] = None
    <2>1. OpenBatches' = OpenBatches \ {b} /\ b \in OpenBatches
      BY <1>2, <1>4 DEF OpenBatches
    <2>2. \A q \in Members(queue[b]) : AppliedAt(q) # {}
      BY <1>2, <1>4 DEF IInv, QueueInv
    <2>3. Queues!Waiting(b) = {}
      <3>1. Queues!Waiting(b) = Members(queue[b]) \ (InDocument \cup dropped)
        BY <1>2, Mapped
      <3>2. \A q \in Members(queue[b]) : q \in InDocument
        BY <2>2, Mapped
      <3> QED
        BY <3>1, <3>2
    <2>4. Queues!Close(b)
      BY <1>1, <2>1, <2>3 DEF Queues!Close
    <2> QED
      BY <1>2, <2>4 DEF Queues!QueueNext
  <1> QED
    BY <1>3, <1>4

LEMMA RejectsRefuse ==
  ASSUME IInv, OrderInv, NEW c \in Commands, Rejects(c)
  PROVE  Queues!QueueNext
  <1>0. PICK s \in Records : s = cmd[c]
    BY ActorSound
  <1> DEFINE b == s.batch
             S == Members(Chunk(s))
  <1>1. /\ s.step = "settle" /\ rejected' = rejected \cup S
        /\ UNCHANGED <<log, begun, queue, dropped>>
    BY <1>0 DEF Rejects
  <1>2. b \in Batches /\ file[b] # None /\ S \subseteq Queued(b)
    <2>1. file[b] \in States
      BY <1>0, <1>1, Sent
    <2> QED
      BY <1>0, <1>1, <2>1, Sent, StateAssumption
  <1>3. S \subseteq Queues!Listed(b) /\ b \in OpenBatches
    <2>1. S \subseteq Members(queue[b])
      BY <1>2 DEF OrderInv, Lined
    <2> HIDE DEF b, S
    <2>2. Queues!Listed(b) = Members(queue[b])
      BY <1>2, Mapped
    <2> QED
      BY <1>2, <2>1, <2>2 DEF OpenBatches
  <1>4. UNCHANGED <<OpenBatches, InDocument, GivenUp>>
    BY <1>1, RejectsKeepsFile DEF OpenBatches, InDocument, GivenUp, Members
  <1> HIDE DEF b, S
  <1>5. Queues!Refuse(b, S)
    BY <1>1, <1>3, <1>4 DEF Queues!Refuse
  <1> QED
    BY <1>2, <1>3, <1>5 DEF Queues!QueueNext

LEMMA WorldRefines ==
  ASSUME IInv, OrderInv, QueuesInv,
         (\E b \in Batches : Create(b)) \/ (\E S \in SUBSET Batches : Discard(S)) \/ Edit \/ UNCHANGED vars
  PROVE  Queues!QueueNext \/ Silent
  <1>1. ASSUME NEW b \in Batches, Create(b)
        PROVE  Queues!QueueNext
    <2>1. /\ b \notin begun /\ begun' = begun \cup {b}
          /\ file'[b] = Empty /\ \A a \in Batches \ {b} : file'[a] = file[a]
          /\ UNCHANGED <<log, queue, dropped, rejected>>
      BY <1>1 DEF Create, history, IInv, TypeOK
    <2>2. Empty # None
      <3>1. Empty \in States
        BY DEF Empty, States, Revisions
      <3> QED
        BY <3>1, StateAssumption
    <2>3. OpenBatches' = OpenBatches \cup {b}
      BY <2>1, <2>2 DEF OpenBatches
    <2>4. UNCHANGED <<InDocument, GivenUp>>
      BY <2>1 DEF InDocument, GivenUp, Members
    <2>5. Queues!Open(b)
      BY <2>1, <2>3, <2>4 DEF Queues!Open
    <2> QED
      BY <2>5 DEF Queues!QueueNext
  <1>2. ASSUME NEW S \in SUBSET Batches, Discard(S)
        PROVE  Queues!QueueNext
    <2>1. /\ \A b \in S : file[b] # None
          /\ \A a \in Batches : file'[a] = IF a \in S THEN None ELSE file[a]
          /\ dropped' = dropped \cup UNION {Members(file[b].requests) : b \in S}
          /\ UNCHANGED <<log, begun, queue, rejected>>
      BY <1>2 DEF Discard
    <2>2. S \subseteq OpenBatches /\ OpenBatches' = OpenBatches \ S
      BY <2>1 DEF OpenBatches
    <2>3. InDocument' = InDocument
      BY <2>1 DEF InDocument, Members
    <2>4. \A b \in S : Queues!Waiting(b) = Members(queue[b]) \ (InDocument \cup dropped)
      BY Mapped
    <2>5. ASSUME NEW b \in S
          PROVE  /\ Members(file[b].requests) \subseteq Members(queue[b])
                 /\ \A q \in Members(queue[b]) : q \in Members(file[b].requests) \/ q \in InDocument
      BY <2>1, Mapped DEF OrderInv, Lined, Queued, IInv, QueueInv
    <2>6. GivenUp' = GivenUp \cup UNION {Queues!Waiting(b) : b \in S}
      <3>1. GivenUp' = dropped' \ InDocument
        BY <2>3 DEF GivenUp
      <3>2. ASSUME NEW q \in GivenUp'
            PROVE  q \in GivenUp \/ \E b \in S : q \in Queues!Waiting(b)
        <4>1. q \notin InDocument /\ (q \in dropped \/ \E b \in S : q \in Members(file[b].requests))
          BY <2>1, <3>1, <3>2
        <4> QED
          BY <2>4, <2>5, <4>1 DEF GivenUp
      <3>3. ASSUME NEW q, q \in GivenUp \/ \E b \in S : q \in Queues!Waiting(b)
            PROVE  q \in GivenUp'
        <4>1. q \notin InDocument /\ (q \in dropped \/ \E b \in S : q \in Members(file[b].requests))
          BY <2>4, <2>5, <3>3 DEF GivenUp
        <4> QED
          BY <2>1, <3>1, <4>1
      <3> QED
        BY <3>2, <3>3
    <2>7. Queues!Abandon(S)
      BY <2>1, <2>2, <2>3, <2>6 DEF Queues!Abandon
    <2> QED
      BY <2>7 DEF Queues!QueueNext
  <1>3. CASE Edit
    <2> DEFINE e == [by |-> Foreign, requests |-> <<>>]
    <2>1. e \in Updates /\ log' = Append(log, e) /\ e.requests = <<>> /\ Members(<<>>) = {}
      BY <1>3 DEF Edit, Updates, Members
    <2>2. UNCHANGED <<file, begun, queue, dropped, rejected>>
      BY <1>3 DEF Edit, history
    <2> HIDE DEF e
    <2>3. \A q : AppliedAt(q)' = AppliedAt(q)
      BY <2>1, Grows DEF IInv
    <2>4. \A q : q \in InDocument' <=> AppliedAt(q)' # {}
      BY DEF InDocument, AppliedAt, Members
    <2>5. InDocument' = InDocument
      BY <2>3, <2>4, Mapped
    <2> QED
      BY <2>2, <2>5 DEF Silent, OpenBatches, GivenUp
  <1>4. CASE UNCHANGED vars
    BY <1>4 DEF vars, history, Silent, OpenBatches, InDocument, GivenUp, Members
  <1> QED
    BY <1>1, <1>2, <1>3, <1>4

LEMMA Refines ==
  IInv /\ OrderInv /\ QueuesInv /\ [Next]_vars => [Queues!QueueNext]_Queues!queueVars
  <1> SUFFICES ASSUME IInv, OrderInv, QueuesInv, [Next]_vars
               PROVE  Queues!QueueNext \/ Silent
    BY DEF Silent, Queues!queueVars
  <1>1. ASSUME NEW c \in Commands,
               Parks(c) \/ Captures(c) \/ Opens(c) \/ Loads(c) \/ Misses(c) \/ Retries(c)
        PROVE  Silent
    <2>1. UNCHANGED <<file, log, begun, queue, dropped, rejected>>
      BY <1>1 DEF Parks, Captures, Opens, Loads, Misses, Retries, Quiet, history
    <2> QED
      BY <2>1 DEF Silent, OpenBatches, InDocument, GivenUp, Members
  <1>2. ASSUME NEW c \in Commands, CommandMoves(c)
        PROVE  Queues!QueueNext \/ Silent
    BY <1>1, <1>2, AppendsEnqueue, AppliesApply, TakesClose, RejectsRefuse DEF CommandMoves
  <1>3. TypeOK /\ Assigned
    BY DEF IInv
  <1> QED
    BY <1>2, <1>3, NextMoves, WorldRefines

LEMMA InitRefines == Init => Queues!QueueInit
  <1> SUFFICES ASSUME Init
               PROVE  Queues!QueueInit
    OBVIOUS
  <1>1. OpenBatches = {}
    BY DEF Init, OpenBatches
  <1>2. InDocument = {}
    <2>1. \A q : AppliedAt(q) = {}
      BY InvInit DEF Init, AppliedAt
    <2> QED
      BY <2>1, Mapped
  <1>3. GivenUp = {}
    BY DEF Init, GivenUp
  <1>4. queue = [b \in Batches |-> <<>>] /\ begun = {} /\ rejected = {}
    BY DEF Init
  <1> QED
    BY <1>1, <1>2, <1>3, <1>4 DEF Queues!QueueInit

(* Files, locks, revisions, lost answers and killed processes leave the    *)
(* batches queues: whatever waits goes to the document from the front,     *)
(* once, or is given up with its batch (internal/docsbatch, batch.go).     *)
THEOREM BatchesAreQueues == Spec => ImplementsQueues
  <1>1. Spec => []QueuesInv
    BY InvHolds, OrderHolds, QueuesInit, QueuesStep, PTL DEF Spec
  <1> QED
    BY <1>1, InvHolds, OrderHolds, InitRefines, Refines, PTL
    DEF Spec, ImplementsQueues, Queues!QueueSpec

=============================================================================
