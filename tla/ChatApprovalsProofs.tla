------------------------- MODULE ChatApprovalsProofs -------------------------
(***************************************************************************)
(* ChatApprovals: writes run at most once and only as approved, nothing    *)
(* happens in a purged conversation any more, settled approvals stay       *)
(* settled, and all of it implements ApprovedOnce.                         *)
(*                                                                         *)
(* The induction rests on three facts.  Once the storage was deleted,      *)
(* nothing is taken for execution any more, and once the object was        *)
(* aborted, no operation is under way and none gets past Authorize (Gone); *)
(* until then an id is only ever asked about with one set of arguments,    *)
(* for its entry stays (Entered); and an entry that was released is spent  *)
(* for good (Freed).                                                       *)
(***************************************************************************)
EXTENDS ChatApprovals, FiniteSetTheorems, TLAPS

USE DEF Running, Authorizing, Beginnings

Past(r) == r.step \notin {"idle", "authorize"}

(* What an operation carries.                                              *)
Carried(r) ==
  /\ r.step # "idle" => r.id \in Ids /\ r.args \in Arguments
  /\ r.step \in Authorizing => r.then \in Beginnings
  /\ r.step = "respond" \/ (r.step \in Authorizing /\ r.then = "respond") =>
       <<r.id, r.args>> \in cards /\ (r.yes => <<r.id, r.args>> \in approved)
  /\ r.step # "idle" /\ Entitled => r.entitled
  /\ r.step = "verify" /\ session => r.entitled
  /\ r.step \in Running => r.entitled
  /\ ~wiped => \A i \in Ids : r.seen[i] # None =>
       store[i] # None /\ store[i].expires = r.seen[i].expires
  /\ \A i \in r.left : r.seen[i] # None

Held == \A o \in Ops : Carried(op[o])

Gone ==
  /\ wiped => /\ deleted
              /\ \A o \in Ops : /\ op[o].step # "consume"
                                /\ op[o].step = "verify" => op[o].then # "consume"
  /\ purged \/ (\E d \in Deletes : delete[d] = "mark") =>
       wiped /\ \A o \in Ops : ~Past(op[o])
  /\ \A d \in Deletes : /\ delete[d] = "route" => deleted
                        /\ delete[d] = "abort" => wiped

Entered == ~wiped =>
  /\ \A i \in Ids, a \in Arguments : <<i, a>> \in cards =>
       store[i] # None /\ store[i].args \in {a, None}
  /\ \A i \in Ids : store[i] # None /\ store[i].state \in {"approved", "consumed"} =>
       <<i, store[i].args>> \in approved

Freed ==
  /\ released \subseteq approved
  /\ ~wiped => \A i \in Ids, a \in Arguments : <<i, a>> \in released =>
       store[i] # None /\ store[i].state \in {"consumed", "expired"}

Once ==
  /\ RunsOnce
  /\ \A o \in Ops : op[o].step = "dispatch" =>
       /\ <<op[o].id, op[o].args>> \in released
       /\ \A b \in Arguments : effects[<<op[o].id, b>>] = 0
  /\ \A o, p \in Ops : op[o].step = "dispatch" /\ op[p].step = "dispatch" /\ op[o].id = op[p].id
                       => o = p

IInv == TypeOK /\ Held /\ Gone /\ Entered /\ Freed /\ Once

-----------------------------------------------------------------------------
(* Types and what operations carry                                         *)

Tables ==
  /\ now \in Nat
  /\ store \in [Ids -> Stored]
  /\ session \in BOOLEAN /\ deleted \in BOOLEAN /\ purged \in BOOLEAN /\ wiped \in BOOLEAN
  /\ delete \in [Deletes -> {"idle", "route", "abort", "mark"}]
  /\ cards \subseteq Ids \X Arguments /\ approved \subseteq cards
  /\ released \subseteq Ids \X Arguments
  /\ effects \in [Ids \X Arguments -> Nat]
  /\ \A i \in Ids : store[i] # None => (store[i].args = None <=> store[i].state = "expired")

(* What other operations carry stays true.                                 *)
Grows ==
  /\ cards \subseteq cards' /\ approved \subseteq approved'
  /\ (Entitled' => Entitled) /\ (session' => session) /\ (~wiped' => ~wiped)
  /\ ~wiped => \A i \in Ids : store[i] # None => store'[i] # None /\ store'[i].expires = store[i].expires

Moves(o) ==
  /\ op' \in [Ops -> OpStates]
  /\ \A p \in Ops \ {o} : op'[p] = op[p]
  /\ Carried(op[o])'
  /\ Grows

LEMMA NoOpIsFine == NoOp \in OpStates /\ NoOp.step = "idle" /\ Carried(NoOp) /\ Carried(NoOp)'
  BY DEF OpStates, Stored, Entries, EntryStates, NothingStored, NoOp, Carried, Past

LEMMA MovesHeld == ASSUME Held, NEW o \in Ops, Moves(o) PROVE Held'
  <1>1. ASSUME NEW p \in Ops, p # o
        PROVE  Carried(op[p])'
    <2>1. op'[p] = op[p] /\ Carried(op[p])
      BY <1>1 DEF Moves, Held
    <2> QED
      BY <2>1 DEF Moves, Grows, Carried
  <1> QED
    BY <1>1 DEF Moves, Held

LEMMA OpSteps ==
  ASSUME TypeOK, Held, NEW o \in Ops, OpStep(o)
  PROVE  Moves(o)
  <1>0. op \in [Ops -> OpStates] /\ op[o] \in OpStates /\ Carried(op[o]) /\ Tables
    BY DEF TypeOK, Held, Tables
  <1>00. op[o].id \in Ids \cup {None} /\ op[o].args \in Arguments \cup {None} /\ store \in [Ids -> Stored]
    BY <1>0 DEF OpStates, Tables
  <1> USE <1>0, <1>00
  <1>1. ASSUME NEW i \in Ids, NEW a \in Arguments, NEW yes \in BOOLEAN,
             NEW then \in Beginnings, Start(o, then, i, a, yes)
       PROVE  Moves(o)
    <2>g. Grows
      BY <1>1, NoneAssumption DEF Start, Grows, Entitled, Tables, Stored, Entries, registry, history
    <2>1. ASSUME op' = [op EXCEPT ![o] = [NoOp EXCEPT !.step = "authorize", !.then = then, !.id = i, !.args = a, !.yes = yes, !.entitled = Entitled]]
          PROVE  Moves(o)
      <3> DEFINE r == [NoOp EXCEPT !.step = "authorize", !.then = then, !.id = i, !.args = a, !.yes = yes, !.entitled = Entitled]
      <3>1. Entitled \in BOOLEAN
        BY DEF Entitled
      <3>2. r \in OpStates
        BY <3>1 DEF OpStates, Stored, Entries, EntryStates, NothingStored, NoOp, Carried, Tables
      <3>3. PICK v \in OpStates : v = r
        BY <3>2
      <3>a. /\ v.step = "authorize" /\ v.then = then /\ v.id = i /\ v.args = a /\ v.yes = yes
            /\ v.entitled = Entitled /\ v.seen = NothingStored /\ v.left = {}
        BY <3>3 DEF NoOp
      <3>b. /\ then = "respond" => <<i, a>> \in cards' /\ (yes => <<i, a>> \in approved')
            /\ Entitled' => Entitled
        BY <1>1 DEF Start, Entitled, registry
      <3>4. Carried(v)'
        BY <3>a, <3>b DEF Carried, Past, NothingStored
      <3>5. op' = [op EXCEPT ![o] = v]
        BY <2>1, <3>3
      <3> QED
        BY <2>g, <3>4, <3>5 DEF Moves
    <2> QED
      BY <1>1, <2>1 DEF Start, Entitled, Carried
  <1>2. ASSUME Authorize(o)
       PROVE  Moves(o)
    <2>g. Grows
      BY <1>2, NoneAssumption DEF Authorize, Grows, Entitled, Tables, Stored, Entries, registry, history
    <2>1. ASSUME op' = [op EXCEPT ![o] = NoOp]
          PROVE  Moves(o)
      BY <2>g, <2>1, NoOpIsFine DEF Moves
    <2>2. ASSUME op' = [op EXCEPT ![o] = [op[o] EXCEPT !.step = "verify"]], op[o].step = "authorize"
          PROVE  Moves(o)
      <3> DEFINE r == [op[o] EXCEPT !.step = "verify"]
      <3>2. r \in OpStates
        BY <2>2 DEF OpStates, Stored, Entries, EntryStates, NothingStored, NoOp, Carried, Tables
      <3>3. PICK v \in OpStates : v = r
        BY <3>2
      <3>a. /\ v.step = "verify" /\ v.then = op[o].then /\ v.id = op[o].id /\ v.args = op[o].args
            /\ v.yes = op[o].yes /\ v.seen = op[o].seen /\ v.left = op[o].left
            /\ v.entitled = op[o].entitled
        BY <3>3 DEF OpStates
      <3>b. UNCHANGED <<session, deleted, wiped, store, cards, approved>> /\ Found
        BY <1>2, <2>2, NoOpIsFine DEF Authorize, Finish, registry, history, OpStates
      <3>4. Carried(v)'
        BY <2>2, <3>a, <3>b DEF Carried, Entitled, Found
      <3>5. op' = [op EXCEPT ![o] = v]
        BY <2>2, <3>3
      <3> QED
        BY <2>g, <3>4, <3>5 DEF Moves
    <2> QED
      BY <1>2, <2>1, <2>2 DEF Authorize, Goto, Finish, Carried
  <1>10. ASSUME Verify(o)
       PROVE  Moves(o)
    <2>g. Grows
      BY <1>10, NoneAssumption DEF Verify, Grows, Entitled, Tables, Stored, Entries, registry, history
    <2>1. ASSUME op' = [op EXCEPT ![o] = NoOp]
          PROVE  Moves(o)
      BY <2>g, <2>1, NoOpIsFine DEF Moves
    <2>2. ASSUME op' = [op EXCEPT ![o] = [op[o] EXCEPT !.step = op[o].then]],
                 op[o].step = "verify" /\ Active
          PROVE  Moves(o)
      <3> DEFINE r == [op[o] EXCEPT !.step = op[o].then]
      <3>2. r \in OpStates
        BY <2>2 DEF OpStates, Stored, Entries, EntryStates, NothingStored, NoOp, Carried, Tables
      <3>3. PICK v \in OpStates : v = r
        BY <3>2
      <3>a. /\ v.step = op[o].then /\ v.then = op[o].then /\ v.id = op[o].id /\ v.args = op[o].args
            /\ v.yes = op[o].yes /\ v.seen = op[o].seen /\ v.left = op[o].left
            /\ v.entitled = op[o].entitled
        BY <3>3 DEF OpStates
      <3>b. UNCHANGED <<session, deleted, wiped, store, cards, approved>> /\ Active
        BY <1>10, <2>2, NoOpIsFine DEF Verify, Finish, registry, history, OpStates
      <3>4. Carried(v)'
        BY <2>2, <3>a, <3>b DEF Carried, Entitled, Active
      <3>5. op' = [op EXCEPT ![o] = v]
        BY <2>2, <3>3
      <3> QED
        BY <2>g, <3>4, <3>5 DEF Moves
    <2> QED
      BY <1>10, <2>1, <2>2 DEF Verify, Goto, Finish, Carried
  <1>11. ASSUME List(o)
       PROVE  Moves(o)
    <2>g. Grows
      BY <1>11, NoneAssumption DEF List, Grows, Entitled, Tables, Stored, Entries, registry, history
    <2>2. ASSUME op' = [op EXCEPT ![o] = [op[o] EXCEPT !.step = "expire", !.seen = store, !.left = {i \in Ids : store[i] # None /\ store[i].state # "expired"}]], op[o].step = "list"
          PROVE  Moves(o)
      <3> DEFINE r == [op[o] EXCEPT !.step = "expire", !.seen = store, !.left = {i \in Ids : store[i] # None /\ store[i].state # "expired"}]
      <3>2. r \in OpStates
        BY <2>2 DEF OpStates, Stored, Entries, EntryStates, NothingStored, NoOp, Carried, Tables
      <3>3. PICK v \in OpStates : v = r
        BY <3>2
      <3>4. Carried(v)'
        BY <1>11, <2>g, <2>2, <3>3 DEF List, Carried, Past, Entitled, Grows, OpStates, Stored, Entries, EntryStates, NothingStored, NoOp, registry, history
      <3>5. op' = [op EXCEPT ![o] = v]
        BY <2>2, <3>3
      <3> QED
        BY <2>g, <3>4, <3>5 DEF Moves
    <2> QED
      BY <1>11, <2>2 DEF List, Carried
  <1>3. ASSUME ExpireEntry(o)
       PROVE  Moves(o)
    <2>s. \E i \in op[o].left : store' = store \/ store' = [store EXCEPT ![i] = Compact(op[o].seen[i])]
      BY <1>3 DEF ExpireEntry
    <2>g. Grows
      <3>1. ASSUME NEW i \in op[o].left, store' = [store EXCEPT ![i] = Compact(op[o].seen[i])], ~wiped
            PROVE  \A j \in Ids : store[j] # None => store'[j] # None /\ store'[j].expires = store[j].expires
        <4>1. i \in Ids /\ op[o].seen[i] \in Entries /\ store[i].expires = op[o].seen[i].expires
          BY <3>1 DEF OpStates, Stored, Carried
        <4>2. Compact(op[o].seen[i]) \in Entries /\ Compact(op[o].seen[i]).expires = store[i].expires
          BY <4>1 DEF Compact, Entries, EntryStates
        <4> QED
          BY <3>1, <4>1, <4>2, EntryAssumption
      <3> QED
        BY <1>3, <2>s, <3>1 DEF ExpireEntry, Grows, Entitled, registry, history
    <2>1. PICK i \in op[o].left : op' = [op EXCEPT ![o].left = @ \ {i}]
      BY <1>3 DEF ExpireEntry
    <2> DEFINE r == [op[o] EXCEPT !.left = op[o].left \ {i}]
    <2>2. r \in OpStates /\ op' = [op EXCEPT ![o] = r]
      BY <2>1 DEF OpStates
    <2>3. PICK v \in OpStates : v = r
      BY <2>2
    <2>4. /\ v.step = op[o].step /\ v.then = op[o].then /\ v.id = op[o].id /\ v.args = op[o].args
          /\ v.yes = op[o].yes /\ v.seen = op[o].seen /\ v.left \subseteq op[o].left
          /\ v.entitled = op[o].entitled
      BY <2>3 DEF OpStates
    <2>5. Carried(v)'
      BY <2>g, <2>4 DEF Carried, Grows, Past
    <2> QED
      BY <2>g, <2>2, <2>3, <2>5 DEF Moves
  <1>4. ASSUME Refuse(o)
       PROVE  Moves(o)
    <2>g. Grows
      BY <1>4, NoneAssumption DEF Refuse, Grows, Entitled, Tables, Stored, Entries, registry, history
    <2>1. ASSUME op' = [op EXCEPT ![o] = NoOp]
          PROVE  Moves(o)
      BY <2>g, <2>1, NoOpIsFine DEF Moves
    <2> QED
      BY <1>4, <2>1 DEF Refuse, Finish, Carried
  <1>5. ASSUME Request(o)
       PROVE  Moves(o)
    <2>g. Grows
      BY <1>5, NoneAssumption DEF Request, NewEntry, Grows, Entitled, Tables, Stored, Entries, registry, history
    <2>1. ASSUME op' = [op EXCEPT ![o] = NoOp]
          PROVE  Moves(o)
      BY <2>g, <2>1, NoOpIsFine DEF Moves
    <2>2. ASSUME op' = [op EXCEPT ![o] = [NoOp EXCEPT !.step = "authorize", !.then = "consume", !.id = op[o].id, !.args = op[o].args, !.entitled = Entitled]],
                 op[o].step = "expire"
          PROVE  Moves(o)
      <3> DEFINE r == [NoOp EXCEPT !.step = "authorize", !.then = "consume", !.id = op[o].id, !.args = op[o].args, !.entitled = Entitled]
      <3>1. Entitled \in BOOLEAN
        BY DEF Entitled
      <3>2. r \in OpStates
        BY <2>2, <3>1 DEF OpStates, Stored, Entries, EntryStates, NothingStored, NoOp, Carried, Tables
      <3>3. PICK v \in OpStates : v = r
        BY <3>2
      <3>4. Carried(v)'
        BY <1>5, <2>g, <2>2, <3>3 DEF Request, Carried, Past, Entitled, Grows, OpStates, Stored, Entries, EntryStates, NothingStored, NoOp, registry, history
      <3>5. op' = [op EXCEPT ![o] = v]
        BY <2>2, <3>3
      <3> QED
        BY <2>g, <3>4, <3>5 DEF Moves
    <2> QED
      BY <1>5, <2>1, <2>2 DEF Request, Finish, Carried
  <1>6. ASSUME Respond(o)
       PROVE  Moves(o)
    <2>s. store' = store \/ \E x \in EntryStates : store' = [store EXCEPT ![op[o].id].state = x]
      BY <1>6 DEF Respond, Spent, EntryStates
    <2>g. Grows
      <3>1. \A i \in Ids : store[i] # None => store[i] \in Entries
        BY DEF Stored
      <3>2. CASE store' = store
        BY <1>6, <3>2 DEF Respond, Grows, Entitled, registry, history
      <3>3. ASSUME NEW x \in EntryStates, store' = [store EXCEPT ![op[o].id].state = x], store[op[o].id] # None
            PROVE  Grows
        <4>1. ASSUME NEW i \in Ids, store[i] # None
              PROVE  store'[i] # None /\ store'[i].expires = store[i].expires
          <5>1. store[i] \in Entries
            BY <3>1, <4>1
          <5>2. [store[i] EXCEPT !.state = x] \in Entries /\ [store[i] EXCEPT !.state = x].expires = store[i].expires
            BY <5>1 DEF Entries
          <5>3. store'[i] = IF i = op[o].id THEN [store[i] EXCEPT !.state = x] ELSE store[i]
            BY <3>3
          <5> QED
            BY <4>1, <5>2, <5>3, EntryAssumption
        <4> QED
          BY <1>6, <4>1 DEF Respond, Grows, Entitled, registry, history
      <3> QED
        BY <1>6, <2>s, <3>2, <3>3 DEF Respond, Undecided
    <2>1. ASSUME op' = [op EXCEPT ![o] = NoOp]
          PROVE  Moves(o)
      BY <2>g, <2>1, NoOpIsFine DEF Moves
    <2> QED
      BY <1>6, <2>1 DEF Respond, Finish, Carried
  <1>7. ASSUME Consume(o)
       PROVE  Moves(o)
    <2>s. store' = store \/ \E x \in EntryStates : store' = [store EXCEPT ![op[o].id].state = x]
      BY <1>7 DEF Consume, Spent, EntryStates
    <2>g. Grows
      <3>1. \A i \in Ids : store[i] # None => store[i] \in Entries
        BY DEF Stored
      <3>2. CASE store' = store
        BY <1>7, <3>2 DEF Consume, Grows, Entitled, registry, history
      <3>3. ASSUME NEW x \in EntryStates, store' = [store EXCEPT ![op[o].id].state = x], store[op[o].id] # None
            PROVE  Grows
        <4>1. ASSUME NEW i \in Ids, store[i] # None
              PROVE  store'[i] # None /\ store'[i].expires = store[i].expires
          <5>1. store[i] \in Entries
            BY <3>1, <4>1
          <5>2. [store[i] EXCEPT !.state = x] \in Entries /\ [store[i] EXCEPT !.state = x].expires = store[i].expires
            BY <5>1 DEF Entries
          <5>3. store'[i] = IF i = op[o].id THEN [store[i] EXCEPT !.state = x] ELSE store[i]
            BY <3>3
          <5> QED
            BY <4>1, <5>2, <5>3, EntryAssumption
        <4> QED
          BY <1>7, <4>1 DEF Consume, Grows, Entitled, registry, history
      <3> QED
        BY <1>7, <2>s, <3>2, <3>3 DEF Consume, Usable, Spent
    <2>1. ASSUME op' = [op EXCEPT ![o] = NoOp]
          PROVE  Moves(o)
      BY <2>g, <2>1, NoOpIsFine DEF Moves
    <2>2. ASSUME op' = [op EXCEPT ![o] = [op[o] EXCEPT !.step = "dispatch"]],
                 op[o].step = "consume"
          PROVE  Moves(o)
      <3> DEFINE r == [op[o] EXCEPT !.step = "dispatch"]
      <3>1. Entitled \in BOOLEAN
        BY DEF Entitled
      <3>2. r \in OpStates
        BY <2>2, <3>1 DEF OpStates, Stored, Entries, EntryStates, NothingStored, NoOp, Carried, Tables
      <3>3. PICK v \in OpStates : v = r
        BY <3>2
      <3>4. Carried(v)'
        BY <1>7, <2>g, <2>2, <3>3 DEF Consume, Carried, Past, Entitled, Grows, OpStates, Stored, Entries, EntryStates, NothingStored, NoOp, registry, history
      <3>5. op' = [op EXCEPT ![o] = v]
        BY <2>2, <3>3
      <3> QED
        BY <2>g, <3>4, <3>5 DEF Moves
    <2> QED
      BY <1>7, <2>1, <2>2 DEF Consume, Goto, Finish, Carried
  <1>8. ASSUME Dispatch(o)
       PROVE  Moves(o)
    <2>g. Grows
      BY <1>8, NoneAssumption DEF Dispatch, Grows, Entitled, Tables, Stored, Entries, registry, history
    <2>1. ASSUME op' = [op EXCEPT ![o] = NoOp]
          PROVE  Moves(o)
      BY <2>g, <2>1, NoOpIsFine DEF Moves
    <2> QED
      BY <1>8, <2>1 DEF Dispatch, Finish, Carried
  <1>9. ASSUME Abort(o)
       PROVE  Moves(o)
    <2>g. Grows
      BY <1>9, NoneAssumption DEF Abort, Grows, Entitled, Tables, Stored, Entries, registry, history
    <2>1. ASSUME op' = [op EXCEPT ![o] = NoOp]
          PROVE  Moves(o)
      BY <2>g, <2>1, NoOpIsFine DEF Moves
    <2> QED
      BY <1>9, <2>1 DEF Abort, Finish, Carried
  <1> QED
    BY <1>1, <1>2, <1>3, <1>4, <1>5, <1>6, <1>7, <1>8, <1>9, <1>10, <1>11 DEF OpStep

LEMMA TablesStep ==
  ASSUME TypeOK, Held, Next
  PROVE  Tables'
  <1>0. /\ Tables /\ op \in [Ops -> OpStates] /\ store \in [Ids -> Stored]
        /\ \A o \in Ops : /\ op[o] \in OpStates
                          /\ op[o].id \in Ids \cup {None} /\ op[o].args \in Arguments \cup {None}
    BY DEF TypeOK, Tables, OpStates
  <1>00. /\ \A i \in Ids : store[i] # None => store[i] \in Entries
         /\ \A o \in Ops : /\ op[o].step # "idle" => op[o].id \in Ids /\ op[o].args \in Arguments
                           /\ \A i \in op[o].left : i \in Ids /\ op[o].seen[i] \in Entries
    <2>1. \A i \in Ids : store[i] # None => store[i] \in Entries
      BY <1>0 DEF Stored
    <2>2. ASSUME NEW o \in Ops, NEW i \in op[o].left
          PROVE  i \in Ids /\ op[o].seen[i] \in Entries
      <3>1. op[o].left \subseteq Ids /\ op[o].seen \in [Ids -> Stored] /\ op[o].seen[i] # None
        BY <1>0 DEF OpStates, Held, Carried
      <3> QED
        BY <3>1 DEF Stored
    <2> QED
      BY <2>1, <2>2 DEF Held, Carried
  <1> USE <1>0, <1>00, BoundAssumption, NoneAssumption
  <1>1. ASSUME NEW o \in Ops, NEW i \in Ids, NEW a \in Arguments, NEW yes \in BOOLEAN,
             NEW then \in Beginnings, Start(o, then, i, a, yes)
        PROVE  Tables'
    BY <1>1 DEF Start, registry, history, Tables, NothingStored, Stored, Carried, Held
  <1>2. ASSUME NEW o \in Ops, Authorize(o)
        PROVE  Tables'
    BY <1>2 DEF Authorize, registry, history, Tables, NothingStored, Stored, Carried, Held
  <1>3. ASSUME NEW o \in Ops, ExpireEntry(o)
        PROVE  Tables'
    <2>1. ASSUME NEW i \in op[o].left, store' = [store EXCEPT ![i] = Compact(op[o].seen[i])]
          PROVE  /\ store' \in [Ids -> Stored]
                 /\ \A j \in Ids : store'[j] # None => (store'[j].args = None <=> store'[j].state = "expired")
      <3>1. i \in Ids /\ op[o].seen[i] \in Entries
        BY <1>00
      <3>2. /\ Compact(op[o].seen[i]) \in Entries /\ Compact(op[o].seen[i]).args = None
            /\ Compact(op[o].seen[i]).state = "expired"
        BY <3>1 DEF Compact, Entries, EntryStates
      <3> QED
        BY <2>1, <3>1, <3>2 DEF Stored, Tables
    <2> QED
      BY <1>3, <2>1 DEF ExpireEntry, Tables, registry, history
  <1>4. ASSUME NEW o \in Ops, Refuse(o)
        PROVE  Tables'
    BY <1>4 DEF Refuse, registry, history, Tables, NothingStored, Stored, Carried, Held
  <1>5. ASSUME NEW o \in Ops, Request(o)
        PROVE  Tables'
    <2>1. op[o].id \in Ids /\ op[o].args \in Arguments
      BY <1>5 DEF Request
    <2>2. NewEntry(op[o].args) \in Entries /\ NewEntry(op[o].args).state = "pending" /\ NewEntry(op[o].args).args = op[o].args
      BY <2>1 DEF NewEntry, Entries, EntryStates, Tables
    <2> QED
      BY <1>5, <2>1, <2>2, NoneAssumption DEF Request, Tables, Stored, registry, history
  <1>6. ASSUME NEW o \in Ops, Respond(o)
        PROVE  Tables'
    <2>0. op[o].id \in Ids
      BY <1>6 DEF Respond
    <2>1. store[op[o].id] # None => store[op[o].id] \in Entries
      BY <2>0
    <2>2. store' = store \/ (store[op[o].id] # None /\ \E x \in {"approved", "denied", "consumed"} : store' = [store EXCEPT ![op[o].id] = [store[op[o].id] EXCEPT !.state = x]] /\ store[op[o].id].state \in {"pending", "approved"})
      BY <1>6, <2>0 DEF Respond, Undecided
    <2>3. ASSUME NEW x \in {"approved", "denied", "consumed"}, store[op[o].id] # None, store[op[o].id].state \in {"pending", "approved"},
                 store' = [store EXCEPT ![op[o].id] = [store[op[o].id] EXCEPT !.state = x]]
          PROVE  /\ store' \in [Ids -> Stored]
                 /\ \A i \in Ids : store'[i] # None => (store'[i].args = None <=> store'[i].state = "expired")
      <3>1. [store[op[o].id] EXCEPT !.state = x] \in Entries
        BY <2>1, <2>3 DEF Entries, EntryStates
      <3> QED
        BY <2>0, <2>1, <2>3, <3>1 DEF Stored, Entries, Tables
    <2>4. released' \subseteq Ids \X Arguments
      BY <1>6, <2>0 DEF Respond, Tables, history
    <2> QED
      BY <1>6, <2>2, <2>3, <2>4 DEF Respond, Tables, Stored, registry, history
  <1>7. ASSUME NEW o \in Ops, Consume(o)
        PROVE  Tables'
    <2>0. op[o].id \in Ids
      BY <1>7 DEF Consume
    <2>1. store[op[o].id] # None => store[op[o].id] \in Entries
      BY <2>0
    <2>2. store' = store \/ (store[op[o].id] # None /\ \E x \in {"approved", "denied", "consumed"} : store' = [store EXCEPT ![op[o].id] = [store[op[o].id] EXCEPT !.state = x]] /\ store[op[o].id].state \in {"pending", "approved"})
      BY <1>7, <2>0 DEF Consume, Usable, Spent
    <2>3. ASSUME NEW x \in {"approved", "denied", "consumed"}, store[op[o].id] # None, store[op[o].id].state \in {"pending", "approved"},
                 store' = [store EXCEPT ![op[o].id] = [store[op[o].id] EXCEPT !.state = x]]
          PROVE  /\ store' \in [Ids -> Stored]
                 /\ \A i \in Ids : store'[i] # None => (store'[i].args = None <=> store'[i].state = "expired")
      <3>1. [store[op[o].id] EXCEPT !.state = x] \in Entries
        BY <2>1, <2>3 DEF Entries, EntryStates
      <3> QED
        BY <2>0, <2>1, <2>3, <3>1 DEF Stored, Entries, Tables
    <2>4. released' \subseteq Ids \X Arguments
      BY <1>7, <2>0 DEF Consume, Tables, history
    <2> QED
      BY <1>7, <2>2, <2>3, <2>4 DEF Consume, Tables, Stored, registry, history
  <1>8. ASSUME NEW o \in Ops, Dispatch(o)
        PROVE  Tables'
    BY <1>8 DEF Dispatch, registry, history, Tables, NothingStored, Stored, Carried, Held
  <1>9. ASSUME NEW o \in Ops, Abort(o)
        PROVE  Tables'
    BY <1>9 DEF Abort, registry, history, Tables, NothingStored, Stored, Carried, Held
  <1>10. ASSUME NEW d \in Deletes, Tombstone(d)
        PROVE  Tables'
    BY <1>10 DEF Tombstone, Advance, registry, history, Tables, NothingStored, Stored, Carried, Held
  <1>11. ASSUME NEW d \in Deletes, Wipe(d)
        PROVE  Tables'
    BY <1>11 DEF Wipe, MayDestroy, Cancelled, Advance, registry, history, Tables, NothingStored, Stored, Carried, Held
  <1>12. ASSUME NEW d \in Deletes, MarkPurged(d)
        PROVE  Tables'
    BY <1>12 DEF MarkPurged, Advance, registry, history, Tables, NothingStored, Stored, Carried, Held
  <1>13. ASSUME NEW d \in Deletes, Interrupted(d)
        PROVE  Tables'
    BY <1>13 DEF Interrupted, Advance, registry, history, Tables, NothingStored, Stored, Carried, Held
  <1>14. ASSUME Revoke
        PROVE  Tables'
    BY <1>14 DEF Revoke, registry, history, Tables, NothingStored, Stored, Carried, Held
  <1>15. ASSUME Tick
        PROVE  Tables'
    BY <1>15 DEF Tick, registry, history, Tables, NothingStored, Stored, Carried, Held
  <1>18. ASSUME NEW d \in Deletes, Teardown(d)
        PROVE  Tables'
    BY <1>18 DEF Teardown, Advance, registry, history, Tables, NothingStored, Stored, Carried, Held
  <1>19. ASSUME NEW o \in Ops, Verify(o)
        PROVE  Tables'
    BY <1>19 DEF Verify, registry, history, Tables, NothingStored, Stored, Carried, Held
  <1>20. ASSUME NEW o \in Ops, List(o)
        PROVE  Tables'
    BY <1>20 DEF List, registry, history, Tables, NothingStored, Stored, Carried, Held
  <1>16. ASSUME NEW o \in Ops, OpStep(o)
        PROVE  Tables'
    <2>1. ASSUME NEW i \in Ids, NEW a \in Arguments, NEW yes \in BOOLEAN, NEW then \in Beginnings,
                 Start(o, then, i, a, yes)
          PROVE  Tables'
      BY <2>1, <1>1
    <2> QED
      BY ONLY <1>16, <2>1, <1>2, <1>3, <1>4, <1>5, <1>6, <1>7, <1>8, <1>9, <1>19, <1>20 DEF OpStep
  <1>17. ASSUME NEW d \in Deletes, DeleteStep(d)
        PROVE  Tables'
    BY <1>17, <1>10, <1>11, <1>12, <1>13, <1>18 DEF DeleteStep
  <1> QED
    BY <1>14, <1>15, <1>16, <1>17 DEF Next

LEMMA HeldStep ==
  ASSUME TypeOK, Held, Next
  PROVE  Held' /\ op' \in [Ops -> OpStates]
  <1>0. op \in [Ops -> OpStates] /\ Tables
    BY DEF TypeOK, Tables
  <1>1. ASSUME NEW o \in Ops, OpStep(o)
        PROVE  Held' /\ op' \in [Ops -> OpStates]
    BY <1>1, OpSteps, MovesHeld DEF Moves
  <1>2. ASSUME NEW d \in Deletes, Wipe(d)
        PROVE  Held' /\ op' \in [Ops -> OpStates]
    <2>1. /\ op' = [o \in Ops |-> IF Cancelled(op[o]) THEN NoOp ELSE op[o]]
          /\ UNCHANGED <<cards, approved, session, deleted>> /\ wiped'
      BY <1>2 DEF Wipe, registry, history
    <2>2. ASSUME NEW o \in Ops
          PROVE  op'[o] \in OpStates /\ Carried(op[o])'
      <3>1. op[o] \in OpStates /\ Carried(op[o])
        BY <1>0 DEF Held
      <3>2. CASE op'[o] = NoOp
        BY <3>2, NoOpIsFine DEF Carried
      <3>3. CASE op'[o] = op[o]
        BY <2>1, <3>1, <3>3 DEF Carried, Entitled
      <3> QED
        BY <2>1, <3>2, <3>3
    <2> QED
      BY <2>1, <2>2 DEF Held
  <1>4. ASSUME NEW d \in Deletes, Teardown(d)
        PROVE  Held' /\ op' \in [Ops -> OpStates]
    <2>1. op' = [o \in Ops |-> NoOp]
      BY <1>4 DEF Teardown
    <2>2. \A o \in Ops : op'[o] = NoOp
      BY <2>1
    <2> QED
      BY <2>1, <2>2, NoOpIsFine DEF Held, Carried
  <1>3. ASSUME Revoke \/ Tick \/ \E d \in Deletes : Tombstone(d) \/ MarkPurged(d) \/ Interrupted(d)
        PROVE  Held' /\ op' \in [Ops -> OpStates]
    <2>1. /\ UNCHANGED <<op, store, cards, approved, wiped>>
          /\ Grows
      BY <1>3 DEF Revoke, Tick, Tombstone, MarkPurged, Interrupted, Grows, Entitled, registry, history
    <2>2. ASSUME NEW o \in Ops
          PROVE  Carried(op[o])'
      <3>1. Carried(op[o]) /\ op'[o] = op[o]
        BY <2>1 DEF Held
      <3> QED
        BY <2>1, <3>1 DEF Grows, Carried
    <2> QED
      BY <1>0, <2>1, <2>2 DEF Held
  <1> QED
    BY ONLY <1>1, <1>2, <1>3, <1>4, Next DEF Next, DeleteStep

(* Nothing gets past Authorize in a conversation that is gone.             *)
LEMMA GoneStep ==
  ASSUME TypeOK, Held, Gone, Next
  PROVE  Gone'
  <1>0. /\ Tables /\ op \in [Ops -> OpStates] /\ delete \in [Deletes -> {"idle", "route", "abort", "mark"}]
        /\ store \in [Ids -> Stored] /\ released \subseteq Ids \X Arguments /\ effects \in [Ids \X Arguments -> Nat]
        /\ \A o \in Ops : op[o].step # "idle" => op[o].id \in Ids /\ op[o].args \in Arguments
    BY DEF TypeOK, Tables, Held, Carried
  <1> USE <1>0, NoneAssumption
  <1>1. ASSUME NEW o \in Ops, NEW i \in Ids, NEW a \in Arguments, NEW yes \in BOOLEAN,
             NEW then \in Beginnings, Start(o, then, i, a, yes)
        PROVE  Gone'
    BY <1>1 DEF Start, registry, history, Gone, Past, Goto, Finish, NoOp, NothingStored, Entitled
  <1>2. ASSUME NEW o \in Ops, Authorize(o)
        PROVE  Gone'
    <2>1. /\ UNCHANGED <<deleted, purged, delete, wiped>>
          /\ \A p \in Ops \ {o} : op'[p] = op[p]
          /\ op'[o].step = "idle" \/ (op'[o].step = "verify" /\ ~deleted)
      <3>1. op[o] \in OpStates
        BY DEF TypeOK
      <3>2. UNCHANGED <<deleted, purged, delete, wiped>>
        BY <1>2 DEF Authorize, registry
      <3>3. CASE Found
        BY <1>2, <3>1, <3>2, <3>3 DEF Authorize, Found, Goto, OpStates
      <3>4. CASE ~Found
        <4>1. op' = [op EXCEPT ![o] = NoOp]
          BY <1>2, <3>4 DEF Authorize, Finish
        <4> QED
          BY <3>2, <4>1, NoOpIsFine
      <3> QED
        BY <3>3, <3>4
    <2> QED
      BY <2>1 DEF Gone, Past
  <1>3. ASSUME NEW o \in Ops, ExpireEntry(o)
        PROVE  Gone'
    BY <1>3 DEF ExpireEntry, registry, history, Gone, Past, Goto, Finish, NoOp, NothingStored, Entitled
  <1>4. ASSUME NEW o \in Ops, Refuse(o)
        PROVE  Gone'
    BY <1>4 DEF Refuse, registry, history, Gone, Past, Goto, Finish, NoOp, NothingStored, Entitled
  <1>5. ASSUME NEW o \in Ops, Request(o)
        PROVE  Gone'
    <2>1. /\ UNCHANGED <<deleted, purged, delete, wiped>> /\ op[o].step = "expire"
          /\ \/ op' = [op EXCEPT ![o] = NoOp]
             \/ op' = [op EXCEPT ![o] = [NoOp EXCEPT !.step = "authorize", !.then = "consume",
                                          !.id = op[o].id, !.args = op[o].args, !.entitled = Entitled]]
      BY <1>5 DEF Request, Finish, registry
    <2>2. /\ \A p \in Ops \ {o} : op'[p] = op[p]
          /\ op'[o].step \in {"idle", "authorize"}
      <3> DEFINE r == [NoOp EXCEPT !.step = "authorize", !.then = "consume", !.id = op[o].id,
                                   !.args = op[o].args, !.entitled = Entitled]
      <3>1. r.step = "authorize" /\ NoOp.step = "idle"
        BY NoOpIsFine DEF NoOp
      <3>2. op' = [op EXCEPT ![o] = NoOp] \/ op' = [op EXCEPT ![o] = r]
        BY <2>1
      <3> HIDE DEF r
      <3> QED
        BY <3>1, <3>2
    <2> QED
      BY <2>1, <2>2 DEF Gone, Past
  <1>6. ASSUME NEW o \in Ops, Respond(o)
        PROVE  Gone'
    BY <1>6 DEF Respond, Undecided, registry, history, Gone, Past, Goto, Finish, NoOp, NothingStored, Entitled
  <1>7. ASSUME NEW o \in Ops, Consume(o)
        PROVE  Gone'
    BY <1>7 DEF Consume, Usable, Spent, registry, history, Gone, Past, Goto, Finish, NoOp, NothingStored, Entitled
  <1>8. ASSUME NEW o \in Ops, Dispatch(o)
        PROVE  Gone'
    BY <1>8 DEF Dispatch, registry, history, Gone, Past, Goto, Finish, NoOp, NothingStored, Entitled
  <1>9. ASSUME NEW o \in Ops, Abort(o)
        PROVE  Gone'
    BY <1>9 DEF Abort, registry, history, Gone, Past, Goto, Finish, NoOp, NothingStored, Entitled
  <1>10. ASSUME NEW d \in Deletes, Tombstone(d)
        PROVE  Gone'
    BY <1>10 DEF Tombstone, Advance, registry, history, Gone, Past, Goto, Finish, NoOp, NothingStored, Entitled
  <1>11. ASSUME NEW d \in Deletes, Wipe(d)
        PROVE  Gone'
    BY <1>11 DEF Wipe, MayDestroy, Cancelled, Advance, registry, history, Gone, Past, Goto, Finish, NoOp, NothingStored, Entitled
  <1>12. ASSUME NEW d \in Deletes, MarkPurged(d)
        PROVE  Gone'
    BY <1>12 DEF MarkPurged, Advance, registry, history, Gone, Past, Goto, Finish, NoOp, NothingStored, Entitled
  <1>13. ASSUME NEW d \in Deletes, Interrupted(d)
        PROVE  Gone'
    BY <1>13 DEF Interrupted, Advance, registry, history, Gone, Past, Goto, Finish, NoOp, NothingStored, Entitled
  <1>14. ASSUME Revoke
        PROVE  Gone'
    BY <1>14 DEF Revoke, registry, history, Gone, Past, Goto, Finish, NoOp, NothingStored, Entitled
  <1>15. ASSUME Tick
        PROVE  Gone'
    BY <1>15 DEF Tick, registry, history, Gone, Past, Goto, Finish, NoOp, NothingStored, Entitled
  <1>18. ASSUME NEW d \in Deletes, Teardown(d)
        PROVE  Gone'
    BY <1>18 DEF Teardown, Advance, registry, history, Gone, Past, Goto, Finish, NoOp, NothingStored, Entitled
  <1>19. ASSUME NEW o \in Ops, Verify(o)
        PROVE  Gone'
    <2>1. /\ UNCHANGED <<deleted, purged, delete, wiped>> /\ op[o].step = "verify"
          /\ \A p \in Ops \ {o} : op'[p] = op[p]
          /\ op'[o].step \in {"idle", op[o].then} /\ op[o].then \in Beginnings
      <3>1. op[o] \in OpStates /\ (op[o].step = "verify" => op[o].then \in Beginnings)
        BY DEF TypeOK, Held, Carried
      <3> QED
        BY <1>19, <3>1 DEF Verify, Goto, Finish, NoOp, registry, OpStates
    <2> QED
      BY <2>1 DEF Gone, Past
  <1>20. ASSUME NEW o \in Ops, List(o)
        PROVE  Gone'
    BY <1>20 DEF List, registry, history, Gone, Past, Goto, Finish, NoOp, NothingStored, Entitled
  <1>16. ASSUME NEW o \in Ops, OpStep(o)
        PROVE  Gone'
    <2>1. ASSUME NEW i \in Ids, NEW a \in Arguments, NEW yes \in BOOLEAN, NEW then \in Beginnings,
                 Start(o, then, i, a, yes)
          PROVE  Gone'
      BY <2>1, <1>1
    <2> QED
      BY ONLY <1>16, <2>1, <1>2, <1>3, <1>4, <1>5, <1>6, <1>7, <1>8, <1>9, <1>19, <1>20 DEF OpStep
  <1>17. ASSUME NEW d \in Deletes, DeleteStep(d)
        PROVE  Gone'
    BY <1>17, <1>10, <1>11, <1>12, <1>13, <1>18 DEF DeleteStep
  <1> QED
    BY <1>14, <1>15, <1>16, <1>17 DEF Next

-----------------------------------------------------------------------------
(* How an entry changes                                                    *)

(* Entry i, as it is, is replaced by e.                                    *)
Replaces(i, e) == store[i] \in Entries /\ e \in Entries /\ store' = [store EXCEPT ![i] = e]

LEMMA EntriesAreThere ==
  ASSUME TypeOK
  PROVE  /\ store \in [Ids -> Stored]
         /\ \A i \in Ids : store[i] # None => store[i] \in Entries /\ store[i].expires \in Nat
  BY DEF TypeOK, Stored, Entries

(* After the storage was deleted, a listing may leave a tombstone of what  *)
(* it still saw.                                                           *)
LateTombstone(i, e) ==
  e.args = None /\ e.state = "expired" /\ e.expires <= now /\ store' = [store EXCEPT ![i] = e]

LEMMA ExpireShape ==
  ASSUME TypeOK, Held, NEW o \in Ops, ExpireEntry(o)
  PROVE  /\ UNCHANGED <<now, registry, delete, wiped, history>>
         /\ \/ UNCHANGED store
            \/ \E i \in Ids : store[i] # None /\ Replaces(i, Compact(store[i]))
            \/ wiped /\ \E i \in Ids, e \in Entries : LateTombstone(i, e)
  <1>1. PICK i \in op[o].left :
          store' = store \/ (Expired(op[o].seen[i]) /\ store' = [store EXCEPT ![i] = Compact(op[o].seen[i])])
    BY DEF ExpireEntry
  <1> DEFINE e == Compact(op[o].seen[i])
  <1>2. op[o] \in OpStates /\ Carried(op[o])
    BY DEF TypeOK, Held
  <1>3. i \in Ids /\ op[o].seen[i] \in Entries
    <2>1. op[o].left \subseteq Ids /\ op[o].seen \in [Ids -> Stored] /\ op[o].seen[i] # None
      BY <1>2 DEF OpStates, Carried
    <2> QED
      BY <2>1 DEF Stored
  <1>4. e \in Entries /\ e.args = None /\ e.state = "expired" /\ e.expires = op[o].seen[i].expires
    BY <1>3 DEF Compact, Entries, EntryStates
  <1>5. UNCHANGED <<now, registry, delete, wiped, history>>
    BY DEF ExpireEntry
  <1>6. CASE wiped
    BY <1>1, <1>3, <1>4, <1>5, <1>6 DEF Expired, LateTombstone
  <1>7. CASE ~wiped
    <2>1. store[i] # None /\ store[i] \in Entries /\ store[i].expires = op[o].seen[i].expires
      BY <1>2, <1>3, <1>7, EntryAssumption, EntriesAreThere DEF Carried
    <2>2. e = Compact(store[i])
      BY <1>3, <2>1 DEF Compact, Entries, EntryStates
    <2> QED
      BY <1>1, <1>3, <1>4, <1>5, <2>1, <2>2 DEF Replaces
  <1> QED
    BY <1>6, <1>7

LEMMA RequestShape ==
  ASSUME TypeOK, Held, NEW o \in Ops, Request(o)
  PROVE  LET i == op[o].id
             a == op[o].args
         IN /\ UNCHANGED <<now, registry, delete, wiped, approved, released, effects>>
            /\ i \in Ids /\ a \in Arguments /\ op[o].step = "expire"
            /\ \/ /\ UNCHANGED store
                  /\ store[i] # None
                  /\ cards' = cards \/ (store[i].args = a /\ cards' = cards \cup {<<i, a>>})
               \/ /\ store[i] = None /\ NewEntry(a) \in Entries
                  /\ store' = [store EXCEPT ![i] = NewEntry(a)]
                  /\ cards' = cards \cup {<<i, a>>}
  <1>1. op[o].id \in Ids /\ op[o].args \in Arguments /\ op[o].step = "expire"
    BY DEF Request, Held, Carried
  <1>2. NewEntry(op[o].args) \in Entries
    BY <1>1, BoundAssumption DEF TypeOK, NewEntry, Entries, EntryStates
  <1> QED
    BY <1>1, <1>2 DEF Request

LEMMA RespondShape ==
  ASSUME TypeOK, Held, Entered, NEW o \in Ops, Respond(o)
  PROVE  LET i == op[o].id
         IN /\ UNCHANGED <<now, registry, delete, wiped, history>>
            /\ i \in Ids
            /\ \/ UNCHANGED store
               \/ \E v \in {"approved", "denied"} :
                    /\ store[i] # None /\ store[i].state = "pending" /\ ~Expired(store[i])
                    /\ Replaces(i, [store[i] EXCEPT !.state = v])
                    /\ v = "approved" /\ ~wiped => <<i, store[i].args>> \in approved
  <1> DEFINE i == op[o].id
             v == IF op[o].yes THEN "approved" ELSE "denied"
  <1>1. /\ i \in Ids /\ op[o].args \in Arguments /\ op[o].step = "respond"
        /\ <<i, op[o].args>> \in cards /\ (op[o].yes => <<i, op[o].args>> \in approved)
    BY DEF Respond, Held, Carried
  <1>2. UNCHANGED <<now, registry, delete, wiped, history>>
    BY DEF Respond
  <1>3. CASE Undecided(store[i])
    <2>1. store[i] # None /\ store[i] \in Entries /\ store[i].state = "pending" /\ ~Expired(store[i])
      BY <1>1, <1>3, EntriesAreThere DEF Undecided
    <2>2. ~wiped => store[i].args = op[o].args
      BY <1>1, <2>1 DEF Entered, TypeOK
    <2>3. Replaces(i, [store[i] EXCEPT !.state = v])
      BY <1>3, <2>1 DEF Respond, Replaces, Entries, EntryStates
    <2> QED
      BY <1>1, <1>2, <2>1, <2>2, <2>3
  <1>4. CASE ~Undecided(store[i])
    BY <1>1, <1>2, <1>4 DEF Respond
  <1> QED
    BY <1>3, <1>4

LEMMA ConsumeShape ==
  ASSUME TypeOK, Held, Gone, Entered, NEW o \in Ops, Consume(o)
  PROVE  LET i == op[o].id
         IN /\ UNCHANGED <<now, registry, delete, wiped, cards, approved, effects>>
            /\ i \in Ids /\ op[o].step = "consume" /\ ~wiped
            /\ \/ UNCHANGED <<store, released>> /\ op' = [op EXCEPT ![o] = NoOp]
               \/ /\ store[i] # None /\ store[i].state = "approved" /\ ~Expired(store[i])
                  /\ Replaces(i, Spent(store[i]))
                  /\ store[i].args = op[o].args /\ <<i, op[o].args>> \in approved
                  /\ released' = released \cup {<<i, op[o].args>>}
                  /\ op' = [op EXCEPT ![o].step = "dispatch"]
  <1> DEFINE i == op[o].id
  <1>1. i \in Ids /\ op[o].args \in Arguments /\ op[o].step = "consume" /\ ~wiped
    BY DEF Consume, Held, Carried, Gone, Past
  <1>2. UNCHANGED <<now, registry, delete, wiped, cards, approved, effects>>
    BY DEF Consume
  <1>3. CASE Usable(store[i], op[o].args)
    <2>1. store[i] # None /\ store[i] \in Entries /\ store[i].state = "approved" /\ ~Expired(store[i])
          /\ store[i].args = op[o].args
      BY <1>1, <1>3, EntriesAreThere DEF Usable
    <2>2. Replaces(i, Spent(store[i]))
      BY <1>3, <2>1 DEF Consume, Replaces, Spent, Entries, EntryStates
    <2>3. <<i, op[o].args>> \in approved
      BY <1>1, <2>1 DEF Entered
    <2>4. released' = released \cup {<<i, op[o].args>>} /\ op' = [op EXCEPT ![o].step = "dispatch"]
      BY <1>3 DEF Consume, Goto
    <2> QED
      BY <1>1, <1>2, <2>1, <2>2, <2>3, <2>4
  <1>4. CASE ~Usable(store[i], op[o].args)
    BY <1>1, <1>2, <1>4 DEF Consume, Finish
  <1> QED
    BY <1>3, <1>4

LEMMA EnteredReplace ==
  ASSUME TypeOK, Entered, NEW i \in Ids, store[i] # None, NEW e, Replaces(i, e),
         e.args \in {store[i].args, None},
         e.state \in {"approved", "consumed"} => <<i, e.args>> \in approved,
         UNCHANGED <<cards, approved, wiped>>
  PROVE  Entered'
  <1>1. e # None /\ \A j \in Ids : store'[j] = IF j = i THEN e ELSE store[j]
    BY EntriesAreThere, EntryAssumption DEF Replaces
  <1>2. ASSUME NEW j \in Ids, NEW a \in Arguments, <<j, a>> \in cards, ~wiped
        PROVE  store'[j] # None /\ store'[j].args \in {a, None}
    <2>1. store[j] # None /\ store[j].args \in {a, None}
      BY <1>2 DEF Entered
    <2> QED
      BY <1>1, <2>1
  <1>3. ASSUME NEW j \in Ids, store'[j] # None, store'[j].state \in {"approved", "consumed"}, ~wiped
        PROVE  <<j, store'[j].args>> \in approved
    BY <1>1, <1>3 DEF Entered
  <1> QED
    BY <1>2, <1>3 DEF Entered

-----------------------------------------------------------------------------
(* The invariants                                                          *)

(* The clock only moves on, and only Wipe sets wiped.                      *)
ClockAndWipe ==
  /\ now' \in {now, now + 1}
  /\ wiped' = wiped \/ (wiped' /\ \E d \in Deletes : Wipe(d))

LEMMA Frame ==
  ASSUME [Next]_vars
  PROVE  ClockAndWipe
  <1>1. ASSUME NEW o \in Ops, OpStep(o)
        PROVE  ClockAndWipe
    <2>1. ASSUME NEW i, NEW a, NEW then, NEW yes, Start(o, then, i, a, yes)
          PROVE  ClockAndWipe
      BY <2>1 DEF Start, ClockAndWipe
    <2>2. CASE Authorize(o) \/ Verify(o) \/ List(o) \/ ExpireEntry(o) \/ Refuse(o)
      BY <2>2 DEF Authorize, Verify, List, ExpireEntry, Refuse, ClockAndWipe
    <2>3. CASE Request(o) \/ Respond(o) \/ Consume(o) \/ Dispatch(o) \/ Abort(o)
      BY <2>3 DEF Request, Respond, Consume, Dispatch, Abort, ClockAndWipe
    <2> QED
      BY ONLY <1>1, <2>1, <2>2, <2>3 DEF OpStep
  <1>2. ASSUME NEW d \in Deletes, DeleteStep(d)
        PROVE  ClockAndWipe
    <2>1. CASE Wipe(d)
      BY <2>1 DEF Wipe, ClockAndWipe
    <2>2. CASE ~Wipe(d)
      BY <1>2, <2>2 DEF DeleteStep, Tombstone, Teardown, MarkPurged, Interrupted, ClockAndWipe
    <2> QED
      BY <2>1, <2>2
  <1>3. CASE Revoke \/ Tick \/ UNCHANGED vars
    BY <1>3 DEF Revoke, Tick, vars, ClockAndWipe
  <1> QED
    BY ONLY [Next]_vars, <1>1, <1>2, <1>3 DEF Next

(* An entry keeps its arguments or loses them, and an approval is the      *)
(* user's.                                                                 *)
LEMMA EnteredStep ==
  ASSUME TypeOK, Held, Gone, Entered, Next
  PROVE  Entered'
  <1>0. /\ Tables /\ op \in [Ops -> OpStates] /\ delete \in [Deletes -> {"idle", "route", "abort", "mark"}]
        /\ store \in [Ids -> Stored] /\ released \subseteq Ids \X Arguments /\ effects \in [Ids \X Arguments -> Nat]
        /\ \A o \in Ops : op[o].step # "idle" => op[o].id \in Ids /\ op[o].args \in Arguments
    BY DEF TypeOK, Tables, Held, Carried
  <1> SUFFICES ASSUME ~wiped
               PROVE  Entered'
    BY Frame DEF Entered, ClockAndWipe
  <1> USE <1>0, NoneAssumption
  <1>1. ASSUME NEW o \in Ops, NEW i \in Ids, NEW a \in Arguments, NEW yes \in BOOLEAN,
             NEW then \in Beginnings, Start(o, then, i, a, yes)
        PROVE  Entered'
    BY <1>1 DEF Start, registry, history, Entered, Gone, NothingStored
  <1>2. ASSUME NEW o \in Ops, Authorize(o)
        PROVE  Entered'
    BY <1>2 DEF Authorize, registry, history, Entered, Gone, NothingStored
  <1>3. ASSUME NEW o \in Ops, ExpireEntry(o)
        PROVE  Entered'
    <2>1. UNCHANGED <<cards, approved, wiped>> /\ (UNCHANGED store \/ \E i \in Ids : store[i] # None /\ Replaces(i, Compact(store[i])))
      BY <1>3, ExpireShape DEF history
    <2>2. ASSUME NEW i \in Ids, store[i] # None, Replaces(i, Compact(store[i]))
          PROVE  Entered'
      <3>1. Compact(store[i]).args = None /\ Compact(store[i]).state = "expired"
        BY <2>2 DEF Compact, Replaces, Entries
      <3> QED
        BY <2>1, <2>2, <3>1, EnteredReplace
    <2> QED
      BY <2>1, <2>2 DEF Entered
  <1>4. ASSUME NEW o \in Ops, Refuse(o)
        PROVE  Entered'
    BY <1>4 DEF Refuse, registry, history, Entered, Gone, NothingStored
  <1>5. ASSUME NEW o \in Ops, Request(o)
        PROVE  Entered'
    <2> DEFINE i == op[o].id
               a == op[o].args
    <2>1. /\ UNCHANGED <<wiped, approved>> /\ ~wiped /\ i \in Ids /\ a \in Arguments
          /\ \/ /\ UNCHANGED store /\ store[i] # None
                /\ cards' = cards \/ (store[i].args = a /\ cards' = cards \cup {<<i, a>>})
             \/ /\ store[i] = None /\ NewEntry(a) \in Entries
                /\ store' = [store EXCEPT ![i] = NewEntry(a)]
                /\ cards' = cards \cup {<<i, a>>}
      BY <1>5, RequestShape DEF Gone, Past
    <2>2. CASE UNCHANGED store /\ store[i] # None
      <3>1. CASE cards' = cards
        BY <2>1, <2>2, <3>1 DEF Entered
      <3>2. CASE store[i].args = a /\ cards' = cards \cup {<<i, a>>}
        <4>1. ASSUME NEW j \in Ids, NEW b \in Arguments, <<j, b>> \in cards'
              PROVE  store[j] # None /\ store[j].args \in {b, None}
          <5>1. CASE <<j, b>> \in cards
            BY <2>1, <5>1 DEF Entered
          <5>2. CASE j = i /\ b = a
            BY <2>2, <3>2, <5>2
          <5> QED
            BY <3>2, <4>1, <5>1, <5>2
        <4> QED
          BY <2>1, <2>2, <4>1 DEF Entered
      <3> QED
        BY <2>1, <2>2, <3>1, <3>2
    <2>3. CASE /\ store[i] = None /\ NewEntry(a) \in Entries
               /\ store' = [store EXCEPT ![i] = NewEntry(a)]
               /\ cards' = cards \cup {<<i, a>>}
      <3>1. NewEntry(a) # None /\ NewEntry(a).args = a /\ NewEntry(a).state = "pending"
        BY <2>3, EntryAssumption DEF NewEntry
      <3>2. \A j \in Ids : store'[j] = IF j = i THEN NewEntry(a) ELSE store[j]
        BY <2>3
      <3>3. \A b : <<i, b>> \notin cards \/ b \notin Arguments
        BY <2>1, <2>3 DEF Entered
      <3> QED
        BY <2>1, <2>3, <3>1, <3>2, <3>3 DEF Entered
    <2> QED
      BY <2>1, <2>2, <2>3
  <1>6. ASSUME NEW o \in Ops, Respond(o)
        PROVE  Entered'
    <2> DEFINE i == op[o].id
    <2>1. UNCHANGED <<cards, approved, wiped>> /\ i \in Ids
      BY <1>6, RespondShape DEF history
    <2>2. ASSUME NEW v \in {"approved", "denied"}, store[i] # None, Replaces(i, [store[i] EXCEPT !.state = v]),
                 v = "approved" => <<i, store[i].args>> \in approved
          PROVE  Entered'
      <3>1. [store[i] EXCEPT !.state = v].args = store[i].args /\ [store[i] EXCEPT !.state = v].state = v
        BY <2>2 DEF Replaces, Entries
      <3> QED
        BY <2>1, <2>2, <3>1, EnteredReplace
    <2> QED
      BY <1>6, <2>1, <2>2, RespondShape DEF Entered
  <1>7. ASSUME NEW o \in Ops, Consume(o)
        PROVE  Entered'
    <2> DEFINE i == op[o].id
    <2>1. UNCHANGED <<cards, approved, wiped>> /\ i \in Ids
      BY <1>7, ConsumeShape
    <2>2. ASSUME store[i] # None, Replaces(i, Spent(store[i])), <<i, store[i].args>> \in approved
          PROVE  Entered'
      <3>1. Spent(store[i]).args = store[i].args
        BY <2>2 DEF Replaces, Entries, Spent
      <3> QED
        BY <2>1, <2>2, <3>1, EnteredReplace
    <2> QED
      BY <1>7, <2>1, <2>2, ConsumeShape DEF Entered
  <1>8. ASSUME NEW o \in Ops, Dispatch(o)
        PROVE  Entered'
    BY <1>8 DEF Dispatch, registry, history, Entered, Gone, NothingStored
  <1>9. ASSUME NEW o \in Ops, Abort(o)
        PROVE  Entered'
    BY <1>9 DEF Abort, registry, history, Entered, Gone, NothingStored
  <1>10. ASSUME NEW d \in Deletes, Tombstone(d)
        PROVE  Entered'
    BY <1>10 DEF Tombstone, Advance, registry, history, Entered, Gone, NothingStored
  <1>11. ASSUME NEW d \in Deletes, Wipe(d)
        PROVE  Entered'
    BY <1>11 DEF Wipe, MayDestroy, Cancelled, Advance, registry, history, Entered, Gone, NothingStored
  <1>12. ASSUME NEW d \in Deletes, MarkPurged(d)
        PROVE  Entered'
    BY <1>12 DEF MarkPurged, Advance, registry, history, Entered, Gone, NothingStored
  <1>13. ASSUME NEW d \in Deletes, Interrupted(d)
        PROVE  Entered'
    BY <1>13 DEF Interrupted, Advance, registry, history, Entered, Gone, NothingStored
  <1>14. ASSUME Revoke
        PROVE  Entered'
    BY <1>14 DEF Revoke, registry, history, Entered, Gone, NothingStored
  <1>15. ASSUME Tick
        PROVE  Entered'
    BY <1>15 DEF Tick, registry, history, Entered, Gone, NothingStored
  <1>18. ASSUME NEW d \in Deletes, Teardown(d)
        PROVE  Entered'
    BY <1>18 DEF Teardown, Advance, registry, history, Entered, Gone, NothingStored
  <1>19. ASSUME NEW o \in Ops, Verify(o)
        PROVE  Entered'
    BY <1>19 DEF Verify, registry, history, Entered, Gone, NothingStored
  <1>20. ASSUME NEW o \in Ops, List(o)
        PROVE  Entered'
    BY <1>20 DEF List, registry, history, Entered, Gone, NothingStored
  <1>16. ASSUME NEW o \in Ops, OpStep(o)
        PROVE  Entered'
    <2>1. ASSUME NEW i \in Ids, NEW a \in Arguments, NEW yes \in BOOLEAN, NEW then \in Beginnings,
                 Start(o, then, i, a, yes)
          PROVE  Entered'
      BY <2>1, <1>1
    <2> QED
      BY ONLY <1>16, <2>1, <1>2, <1>3, <1>4, <1>5, <1>6, <1>7, <1>8, <1>9, <1>19, <1>20 DEF OpStep
  <1>17. ASSUME NEW d \in Deletes, DeleteStep(d)
        PROVE  Entered'
    BY <1>17, <1>10, <1>11, <1>12, <1>13, <1>18 DEF DeleteStep
  <1> QED
    BY <1>14, <1>15, <1>16, <1>17 DEF Next

(* What was released is spent.                                             *)
LEMMA FreedStep ==
  ASSUME TypeOK, Held, Gone, Entered, Freed, Next
  PROVE  Freed'
  <1>0. /\ Tables /\ op \in [Ops -> OpStates] /\ delete \in [Deletes -> {"idle", "route", "abort", "mark"}]
        /\ store \in [Ids -> Stored] /\ released \subseteq Ids \X Arguments /\ effects \in [Ids \X Arguments -> Nat]
        /\ \A o \in Ops : op[o].step # "idle" => op[o].id \in Ids /\ op[o].args \in Arguments
    BY DEF TypeOK, Tables, Held, Carried
  <1> USE <1>0, NoneAssumption
  <1>1. ASSUME NEW o \in Ops, NEW i \in Ids, NEW a \in Arguments, NEW yes \in BOOLEAN,
             NEW then \in Beginnings, Start(o, then, i, a, yes)
        PROVE  Freed'
    BY <1>1 DEF Start, registry, history, Freed, Entered, Gone, NothingStored
  <1>2. ASSUME NEW o \in Ops, Authorize(o)
        PROVE  Freed'
    BY <1>2 DEF Authorize, registry, history, Freed, Entered, Gone, NothingStored
  <1>3. ASSUME NEW o \in Ops, ExpireEntry(o)
        PROVE  Freed'
    <2>1. /\ UNCHANGED <<released, approved, wiped>>
          /\ wiped \/ UNCHANGED store \/ \E i \in Ids : store[i] # None /\ Replaces(i, Compact(store[i]))
      BY <1>3, ExpireShape DEF history
    <2>2. ASSUME NEW i \in Ids, store[i] # None, Replaces(i, Compact(store[i]))
          PROVE  Freed'
      <3>1. Compact(store[i]).state = "expired"
        BY <2>2 DEF Compact, Replaces, Entries
      <3>2. \A j \in Ids : store'[j] = IF j = i THEN Compact(store[i]) ELSE store[j]
        BY <2>2 DEF Replaces
      <3>3. Compact(store[i]) # None
        BY <2>2, EntryAssumption DEF Replaces
      <3> QED
        BY <2>1, <3>1, <3>2, <3>3 DEF Freed
    <2> QED
      BY <2>1, <2>2 DEF Freed
  <1>4. ASSUME NEW o \in Ops, Refuse(o)
        PROVE  Freed'
    BY <1>4 DEF Refuse, registry, history, Freed, Entered, Gone, NothingStored
  <1>5. ASSUME NEW o \in Ops, Request(o)
        PROVE  Freed'
    BY <1>5 DEF Request, NewEntry, registry, history, Freed, Entered, Gone, NothingStored
  <1>6. ASSUME NEW o \in Ops, Respond(o)
        PROVE  Freed'
    <2> DEFINE i == op[o].id
    <2>1. UNCHANGED <<released, approved, wiped>> /\ i \in Ids
      BY <1>6, RespondShape DEF history
    <2>2. ASSUME NEW v \in {"approved", "denied"}, store[i] # None, store[i].state = "pending",
                 Replaces(i, [store[i] EXCEPT !.state = v])
          PROVE  Freed'
      <3>1. \A j \in Ids \ {i} : store'[j] = store[j]
        BY <2>1, <2>2 DEF Replaces
      <3>2. \A a \in Arguments : <<i, a>> \in released => wiped
        BY <2>1, <2>2 DEF Freed
      <3> QED
        BY <2>1, <3>1, <3>2 DEF Freed
    <2> QED
      BY <1>6, <2>1, <2>2, RespondShape DEF Freed
  <1>7. ASSUME NEW o \in Ops, Consume(o)
        PROVE  Freed'
    <2> DEFINE i == op[o].id
    <2>1. UNCHANGED <<approved, wiped>> /\ i \in Ids
      BY <1>7, ConsumeShape
    <2>2. ASSUME store[i] # None, Replaces(i, Spent(store[i])), <<i, op[o].args>> \in approved,
                 released' = released \cup {<<i, op[o].args>>}
          PROVE  Freed'
      <3>1. Spent(store[i]).state = "consumed" /\ Spent(store[i]) # None
        BY <2>2, EntryAssumption DEF Replaces, Entries, Spent
      <3>2. \A j \in Ids : store'[j] = IF j = i THEN Spent(store[i]) ELSE store[j]
        BY <2>2 DEF Replaces
      <3> QED
        BY <2>1, <2>2, <3>1, <3>2 DEF Freed
    <2> QED
      BY <1>7, <2>1, <2>2, ConsumeShape DEF Freed
  <1>8. ASSUME NEW o \in Ops, Dispatch(o)
        PROVE  Freed'
    BY <1>8 DEF Dispatch, registry, history, Freed, Entered, Gone, NothingStored
  <1>9. ASSUME NEW o \in Ops, Abort(o)
        PROVE  Freed'
    BY <1>9 DEF Abort, registry, history, Freed, Entered, Gone, NothingStored
  <1>10. ASSUME NEW d \in Deletes, Tombstone(d)
        PROVE  Freed'
    BY <1>10 DEF Tombstone, Advance, registry, history, Freed, Entered, Gone, NothingStored
  <1>11. ASSUME NEW d \in Deletes, Wipe(d)
        PROVE  Freed'
    BY <1>11 DEF Wipe, MayDestroy, Cancelled, Advance, registry, history, Freed, Entered, Gone, NothingStored
  <1>12. ASSUME NEW d \in Deletes, MarkPurged(d)
        PROVE  Freed'
    BY <1>12 DEF MarkPurged, Advance, registry, history, Freed, Entered, Gone, NothingStored
  <1>13. ASSUME NEW d \in Deletes, Interrupted(d)
        PROVE  Freed'
    BY <1>13 DEF Interrupted, Advance, registry, history, Freed, Entered, Gone, NothingStored
  <1>14. ASSUME Revoke
        PROVE  Freed'
    BY <1>14 DEF Revoke, registry, history, Freed, Entered, Gone, NothingStored
  <1>15. ASSUME Tick
        PROVE  Freed'
    BY <1>15 DEF Tick, registry, history, Freed, Entered, Gone, NothingStored
  <1>18. ASSUME NEW d \in Deletes, Teardown(d)
        PROVE  Freed'
    BY <1>18 DEF Teardown, Advance, registry, history, Freed, Entered, Gone, NothingStored
  <1>19. ASSUME NEW o \in Ops, Verify(o)
        PROVE  Freed'
    BY <1>19 DEF Verify, registry, history, Freed, Entered, Gone, NothingStored
  <1>20. ASSUME NEW o \in Ops, List(o)
        PROVE  Freed'
    BY <1>20 DEF List, registry, history, Freed, Entered, Gone, NothingStored
  <1>16. ASSUME NEW o \in Ops, OpStep(o)
        PROVE  Freed'
    <2>1. ASSUME NEW i \in Ids, NEW a \in Arguments, NEW yes \in BOOLEAN, NEW then \in Beginnings,
                 Start(o, then, i, a, yes)
          PROVE  Freed'
      BY <2>1, <1>1
    <2> QED
      BY ONLY <1>16, <2>1, <1>2, <1>3, <1>4, <1>5, <1>6, <1>7, <1>8, <1>9, <1>19, <1>20 DEF OpStep
  <1>17. ASSUME NEW d \in Deletes, DeleteStep(d)
        PROVE  Freed'
    BY <1>17, <1>10, <1>11, <1>12, <1>13, <1>18 DEF DeleteStep
  <1> QED
    BY <1>14, <1>15, <1>16, <1>17 DEF Next

(* And so it is dispatched by one operation only.                          *)
LEMMA OnceStep ==
  ASSUME TypeOK, Held, Gone, Entered, Freed, Once, Next
  PROVE  Once'
  <1>0. /\ Tables /\ op \in [Ops -> OpStates] /\ delete \in [Deletes -> {"idle", "route", "abort", "mark"}]
        /\ store \in [Ids -> Stored] /\ released \subseteq Ids \X Arguments /\ effects \in [Ids \X Arguments -> Nat]
        /\ \A o \in Ops : op[o].step # "idle" => op[o].id \in Ids /\ op[o].args \in Arguments
    BY DEF TypeOK, Tables, Held, Carried
  <1> USE <1>0, NoneAssumption
  <1>1. ASSUME NEW o \in Ops, NEW i \in Ids, NEW a \in Arguments, NEW yes \in BOOLEAN,
             NEW then \in Beginnings, Start(o, then, i, a, yes)
        PROVE  Once'
    <2>1. UNCHANGED <<effects, released>>
      BY <1>1 DEF Start
    <2>2. \A p \in Ops : op'[p].step = "dispatch" => op'[p] = op[p]
      BY <1>1 DEF Start, NoOp
    <2> QED
      BY <2>1, <2>2 DEF Once, RunsOnce
  <1>2. ASSUME NEW o \in Ops, Authorize(o)
        PROVE  Once'
    <2>1. UNCHANGED <<effects, released>>
      BY <1>2 DEF Authorize, history
    <2>2. op[o] \in OpStates /\ (op[o].step = "authorize" => op[o].then # "dispatch")
      BY DEF Held, Carried
    <2>3. \A p \in Ops : op'[p].step = "dispatch" => op'[p] = op[p]
      BY <1>2, <2>2 DEF Authorize, Goto, Finish, NoOp, OpStates
    <2> QED
      BY <2>1, <2>3 DEF Once, RunsOnce
  <1>3. ASSUME NEW o \in Ops, ExpireEntry(o)
        PROVE  Once'
    <2>1. PICK i \in op[o].left : op' = [op EXCEPT ![o].left = @ \ {i}]
      BY <1>3 DEF ExpireEntry
    <2>2. UNCHANGED <<effects, released>> /\ op[o] \in OpStates /\ op[o].step = "expire"
      BY <1>3 DEF ExpireEntry, history
    <2>3. \A p \in Ops : op'[p].step = "dispatch" => op'[p] = op[p]
      BY <2>1, <2>2 DEF OpStates
    <2> QED
      BY <2>2, <2>3 DEF Once, RunsOnce
  <1>4. ASSUME NEW o \in Ops, Refuse(o)
        PROVE  Once'
    BY <1>4 DEF Refuse, registry, history, Once, RunsOnce, Freed, Gone, Past, NoOp, Goto, Finish
  <1>5. ASSUME NEW o \in Ops, Request(o)
        PROVE  Once'
    <2>1. UNCHANGED <<effects, released>>
      BY <1>5 DEF Request
    <2>2. (\A p \in Ops : p # o => op'[p] = op[p]) /\ op'[o].step # "dispatch"
      <3>1. op' = [op EXCEPT ![o] = NoOp] \/ op' = [op EXCEPT ![o] = [NoOp EXCEPT !.step = "authorize", !.then = "consume",
                                        !.id = op[o].id, !.args = op[o].args, !.entitled = Entitled]]
        BY <1>5 DEF Request, Finish
      <3>2. \E r : r.step # "dispatch" /\ op' = [op EXCEPT ![o] = r]
        BY <3>1 DEF NoOp
      <3> QED
        BY <3>2
    <2> QED
      BY <2>1, <2>2 DEF Once, RunsOnce
  <1>6. ASSUME NEW o \in Ops, Respond(o)
        PROVE  Once'
    BY <1>6 DEF Respond, Undecided, registry, history, Once, RunsOnce, Freed, Gone, Past, NoOp, Goto, Finish
  <1>7. ASSUME NEW o \in Ops, Consume(o)
        PROVE  Once'
    <2> DEFINE i == op[o].id
    <2>1. CASE released' = released /\ op' = [op EXCEPT ![o] = NoOp]
      BY <1>7, <2>1 DEF Consume, Once, RunsOnce, NoOp
    <2>2. CASE /\ store[i] # None /\ store[i].state = "approved"
               /\ released' = released \cup {<<i, op[o].args>>}
               /\ op' = [op EXCEPT ![o].step = "dispatch"]
      <3>0. i \in Ids /\ ~wiped /\ op[o].step = "consume" /\ UNCHANGED effects
        BY <1>7, ConsumeShape
      <3>1. \A a \in Arguments : <<i, a>> \notin released
        BY <2>2, <3>0 DEF Freed
      <3>2. ASSUME NEW b \in Arguments
            PROVE  effects[<<i, b>>] = 0
        <4>1. effects[<<i, b>>] \in Nat /\ ~(effects[<<i, b>>] > 0)
          BY <3>0, <3>1 DEF Once, RunsOnce
        <4> QED
          BY <4>1
      <3>3. \A p \in Ops : op[p].step = "dispatch" => op[p].id # i
        BY <3>1 DEF Once
      <3>4. /\ \A p \in Ops \ {o} : op'[p] = op[p]
            /\ op'[o].step = "dispatch" /\ op'[o].id = i /\ op'[o].args = op[o].args
        BY <2>2, <1>0
      <3>5. RunsOnce'
        BY <2>2, <3>0 DEF Once, RunsOnce
      <3> QED
        BY <2>2, <3>0, <3>2, <3>3, <3>4, <3>5 DEF Once
    <2> QED
      BY <1>7, <2>1, <2>2, ConsumeShape
  <1>8. ASSUME NEW o \in Ops, Dispatch(o)
        PROVE  Once'
    <2> DEFINE i == op[o].id
               a == op[o].args
    <2>0. /\ op[o].step = "dispatch" /\ effects' = [effects EXCEPT ![<<i, a>>] = @ + 1]
          /\ op' = [op EXCEPT ![o] = NoOp]
          /\ released' = released /\ i \in Ids /\ a \in Arguments
      BY <1>8 DEF Dispatch, Finish
    <2>1. (\A b \in Arguments : effects[<<i, b>>] = 0) /\ <<i, a>> \in released
      BY <2>0 DEF Once
    <2>2. \A j \in Ids, b \in Arguments :
            effects'[<<j, b>>] = IF j = i /\ b = a THEN 1 ELSE effects[<<j, b>>]
      <3>1. <<i, a>> \in Ids \X Arguments /\ effects[<<i, a>>] + 1 = 1
        BY <2>0, <2>1
      <3> QED
        BY <2>0, <3>1
    <2>3. RunsOnce'
      <3>1. ASSUME NEW j \in Ids, NEW b \in Arguments, effects'[<<j, b>>] > 0
            PROVE  /\ effects'[<<j, b>>] = 1 /\ <<j, b>> \in released'
                   /\ \A c \in Arguments : effects'[<<j, c>>] > 0 => c = b
        <4>1. CASE j = i
          BY <2>0, <2>1, <2>2, <3>1, <4>1
        <4>2. CASE j # i
          BY <2>0, <2>2, <3>1, <4>2 DEF Once, RunsOnce
        <4> QED
          BY <4>1, <4>2
      <3> QED
        BY <3>1 DEF RunsOnce
    <2>4. \A p \in Ops : op'[p].step = "dispatch" => p # o /\ op'[p] = op[p] /\ op[p].id # i
      BY <2>0 DEF Once, NoOp
    <2> QED
      BY <2>0, <2>2, <2>3, <2>4 DEF Once
  <1>9. ASSUME NEW o \in Ops, Abort(o)
        PROVE  Once'
    BY <1>9 DEF Abort, registry, history, Once, RunsOnce, Freed, Gone, Past, NoOp, Goto, Finish
  <1>10. ASSUME NEW d \in Deletes, Tombstone(d)
        PROVE  Once'
    BY <1>10 DEF Tombstone, Advance, registry, history, Once, RunsOnce, Freed, Gone, Past, NoOp, Goto, Finish
  <1>11. ASSUME NEW d \in Deletes, Wipe(d)
        PROVE  Once'
    BY <1>11 DEF Wipe, MayDestroy, Cancelled, Advance, registry, history, Once, RunsOnce, Freed, Gone, Past, NoOp, Goto, Finish
  <1>12. ASSUME NEW d \in Deletes, MarkPurged(d)
        PROVE  Once'
    BY <1>12 DEF MarkPurged, Advance, registry, history, Once, RunsOnce, Freed, Gone, Past, NoOp, Goto, Finish
  <1>13. ASSUME NEW d \in Deletes, Interrupted(d)
        PROVE  Once'
    BY <1>13 DEF Interrupted, Advance, registry, history, Once, RunsOnce, Freed, Gone, Past, NoOp, Goto, Finish
  <1>14. ASSUME Revoke
        PROVE  Once'
    BY <1>14 DEF Revoke, registry, history, Once, RunsOnce, Freed, Gone, Past, NoOp, Goto, Finish
  <1>15. ASSUME Tick
        PROVE  Once'
    BY <1>15 DEF Tick, registry, history, Once, RunsOnce, Freed, Gone, Past, NoOp, Goto, Finish
  <1>18. ASSUME NEW d \in Deletes, Teardown(d)
        PROVE  Once'
    BY <1>18 DEF Teardown, Advance, registry, history, Once, RunsOnce, Freed, Gone, Past, NoOp, Goto, Finish
  <1>19. ASSUME NEW o \in Ops, Verify(o)
        PROVE  Once'
    <2>1. UNCHANGED <<effects, released>>
      BY <1>19 DEF Verify, history
    <2>2. op[o] \in OpStates /\ (op[o].step = "verify" => op[o].then # "dispatch")
      BY DEF Held, Carried
    <2>3. \A p \in Ops : op'[p].step = "dispatch" => op'[p] = op[p]
      BY <1>19, <2>2 DEF Verify, Goto, Finish, NoOp, OpStates
    <2> QED
      BY <2>1, <2>3 DEF Once, RunsOnce
  <1>20. ASSUME NEW o \in Ops, List(o)
        PROVE  Once'
    <2>1. UNCHANGED <<effects, released>> /\ op[o] \in OpStates
      BY <1>20 DEF List, history
    <2>2. \A p \in Ops : op'[p].step = "dispatch" => op'[p] = op[p]
      BY <1>20, <2>1 DEF List, OpStates
    <2> QED
      BY <2>1, <2>2 DEF Once, RunsOnce
  <1>16. ASSUME NEW o \in Ops, OpStep(o)
        PROVE  Once'
    <2>1. ASSUME NEW i \in Ids, NEW a \in Arguments, NEW yes \in BOOLEAN, NEW then \in Beginnings,
                 Start(o, then, i, a, yes)
          PROVE  Once'
      BY <2>1, <1>1
    <2> QED
      BY ONLY <1>16, <2>1, <1>2, <1>3, <1>4, <1>5, <1>6, <1>7, <1>8, <1>9, <1>19, <1>20 DEF OpStep
  <1>17. ASSUME NEW d \in Deletes, DeleteStep(d)
        PROVE  Once'
    BY <1>17, <1>10, <1>11, <1>12, <1>13, <1>18 DEF DeleteStep
  <1> QED
    BY <1>14, <1>15, <1>16, <1>17 DEF Next

-----------------------------------------------------------------------------
LEMMA Initially == Init => IInv
  <1> SUFFICES ASSUME Init
               PROVE  IInv
    OBVIOUS
  <1>1. TypeOK
    BY NoOpIsFine DEF Init, TypeOK, NothingStored, Stored
  <1>2. Held
    BY NoOpIsFine DEF Init, Held
  <1>3. Gone
    BY NoOpIsFine DEF Init, Gone, Past
  <1>4. Entered /\ Freed
    BY DEF Init, Entered, Freed, NothingStored
  <1>5. Once
    BY NoOpIsFine DEF Init, Once, RunsOnce
  <1> QED
    BY <1>1, <1>2, <1>3, <1>4, <1>5 DEF IInv

LEMMA Inductive == IInv /\ [Next]_vars => IInv'
  <1> SUFFICES ASSUME IInv, [Next]_vars
               PROVE  IInv'
    OBVIOUS
  <1>0. TypeOK /\ Held /\ Gone /\ Entered /\ Freed /\ Once
    BY DEF IInv
  <1>1. CASE Next
    <2>1. Held' /\ op' \in [Ops -> OpStates] /\ Tables'
      BY <1>0, <1>1, HeldStep, TablesStep
    <2>2. TypeOK'
      BY <2>1 DEF Tables, TypeOK
    <2> QED
      BY <1>0, <1>1, <2>1, <2>2, GoneStep, EnteredStep, FreedStep, OnceStep DEF IInv
  <1>2. CASE UNCHANGED vars
    BY <1>0, <1>2 DEF vars, registry, history, IInv, TypeOK, Held, Carried, Entitled, Gone, Entered,
                      Freed, Once, RunsOnce
  <1> QED
    BY <1>1, <1>2

LEMMA Invariance == Spec => []IInv
  BY Initially, Inductive, PTL DEF Spec

(* Entries, operations and the history keep their types; exactly the       *)
(* expired entries have lost their arguments.                              *)
THEOREM TypeCorrect == Spec => []TypeOK
  <1>1. IInv => TypeOK
    BY DEF IInv
  <1> QED
    BY <1>1, Invariance, PTL

(* A write is released only with arguments the user approved on a card     *)
(* that showed exactly these (tools.ts: consume).                          *)
THEOREM ReleasedAsApproved == Spec => []OnlyAsApproved
  <1>1. IInv => OnlyAsApproved
    BY DEF IInv, Freed, OnlyAsApproved
  <1> QED
    BY <1>1, Invariance, PTL

(* No call is dispatched twice, and none but with the arguments it was     *)
(* released with (agent.ts: consume before handleToolCall).                *)
THEOREM DispatchedOnce == Spec => []RunsOnce
  <1>1. IInv => RunsOnce
    BY DEF IInv, Once
  <1> QED
    BY <1>1, Invariance, PTL

(* What begins after sign-out or deletion dispatches nothing.              *)
THEOREM EntitledOnly == Spec => []NoWriteUnentitled
  <1>1. IInv => NoWriteUnentitled
    BY DEF IInv, Held, Carried, Past, NoWriteUnentitled
  <1> QED
    BY <1>1, Invariance, PTL

(* Once a conversation is marked purged (threads.ts: purged = 1), its      *)
(* storage was deleted, and no operation still asks, answers, releases or  *)
(* dispatches a call or leaves an entry (agent.ts: destroy).               *)
THEOREM PurgedStaysAsItIs == Spec => PurgedIsFinal
  <1>1. ASSUME IInv, [Next]_vars
        PROVE  purged' => wiped'
    BY <1>1, Inductive DEF IInv, Gone
  <1>2. ASSUME IInv, [Next]_vars, purged
        PROVE  store' \in {store, NothingStored} /\ UNCHANGED <<cards, released, effects>>
    <2>1. \A o \in Ops : op[o].step \notin Running
      BY <1>2 DEF IInv, Gone, Past
    <2>2. ASSUME NEW o \in Ops, OpStep(o)
          PROVE  UNCHANGED <<store, cards, released, effects>>
      BY <2>1, <2>2 DEF OpStep, Start, Authorize, Verify, List, ExpireEntry, Refuse, Request,
                        Respond, Consume, Dispatch, Abort, history
    <2>3. ASSUME NEW d \in Deletes, DeleteStep(d)
          PROVE  store' \in {store, NothingStored} /\ UNCHANGED <<cards, released, effects>>
      BY <2>3 DEF DeleteStep, Tombstone, Wipe, Teardown, MarkPurged, Interrupted, history
    <2>4. ASSUME Revoke \/ Tick \/ UNCHANGED vars
          PROVE  UNCHANGED <<store, cards, released, effects>>
      BY <2>4 DEF Revoke, Tick, vars, history
    <2> QED
      BY ONLY [Next]_vars, <1>2, <2>2, <2>3, <2>4 DEF Next
  <1> QED
    BY <1>1, <1>2, Invariance, PTL DEF Spec, PurgedIsFinal

-----------------------------------------------------------------------------
(* What a step does to the stored entries: nothing, to one of them, or to  *)
(* all.                                                                    *)
LEMMA StoreStep ==
  ASSUME IInv, [Next]_vars
  PROVE  \/ UNCHANGED store
         \/ store' = NothingStored
         \/ \E i \in Ids, a \in Arguments :
              store[i] = None /\ store' = [store EXCEPT ![i] = NewEntry(a)] /\ NewEntry(a) \in Entries
         \/ \E i \in Ids : store[i] # None /\ Replaces(i, Compact(store[i]))
         \/ wiped /\ \E i \in Ids, e \in Entries : LateTombstone(i, e)
         \/ \E i \in Ids, v \in {"approved", "denied", "consumed"} :
              /\ store[i] # None /\ ~Settled(store[i])
              /\ Replaces(i, [store[i] EXCEPT !.state = v])
  <1>0. TypeOK /\ Held /\ Gone /\ Entered
    BY DEF IInv
  <1>1. ASSUME NEW o \in Ops, ExpireEntry(o)
        PROVE  \/ UNCHANGED store
               \/ \E i \in Ids : store[i] # None /\ Replaces(i, Compact(store[i]))
               \/ wiped /\ \E i \in Ids, e \in Entries : LateTombstone(i, e)
    BY <1>0, <1>1, ExpireShape
  <1>2. ASSUME NEW o \in Ops, Request(o)
        PROVE  UNCHANGED store \/ \E i \in Ids, a \in Arguments :
              store[i] = None /\ store' = [store EXCEPT ![i] = NewEntry(a)] /\ NewEntry(a) \in Entries
    BY <1>0, <1>2, RequestShape
  <1>3. ASSUME NEW o \in Ops, Respond(o) \/ Consume(o)
        PROVE  UNCHANGED store \/ \E i \in Ids, v \in {"approved", "denied", "consumed"} :
              /\ store[i] # None /\ ~Settled(store[i])
              /\ Replaces(i, [store[i] EXCEPT !.state = v])
    BY <1>0, <1>3, RespondShape, ConsumeShape DEF Settled, Spent
  <1>4. ASSUME NEW o \in Ops, NEW i \in Ids, NEW a \in Arguments, NEW then, NEW yes,
               Start(o, then, i, a, yes)
        PROVE  UNCHANGED store
    BY <1>4 DEF Start
  <1>5. ASSUME NEW o \in Ops,
               Authorize(o) \/ Verify(o) \/ List(o) \/ Refuse(o) \/ Dispatch(o) \/ Abort(o)
        PROVE  UNCHANGED store
    BY <1>5 DEF Authorize, Verify, List, Refuse, Dispatch, Abort
  <1>6. ASSUME NEW d \in Deletes, DeleteStep(d)
        PROVE  UNCHANGED store \/ store' = NothingStored
    BY <1>6 DEF DeleteStep, Tombstone, Wipe, Teardown, MarkPurged, Interrupted
  <1>7. ASSUME Revoke \/ Tick \/ UNCHANGED vars
        PROVE  UNCHANGED store
    BY <1>7 DEF Revoke, Tick, vars
  <1>8. ASSUME NEW o \in Ops, OpStep(o)
        PROVE  \/ UNCHANGED store
               \/ \E i \in Ids, a \in Arguments :
                    store[i] = None /\ store' = [store EXCEPT ![i] = NewEntry(a)] /\ NewEntry(a) \in Entries
               \/ \E i \in Ids : store[i] # None /\ Replaces(i, Compact(store[i]))
               \/ wiped /\ \E i \in Ids, e \in Entries : LateTombstone(i, e)
               \/ \E i \in Ids, v \in {"approved", "denied", "consumed"} :
                    /\ store[i] # None /\ ~Settled(store[i])
                    /\ Replaces(i, [store[i] EXCEPT !.state = v])
    <2>1. CASE ExpireEntry(o) \/ Request(o) \/ Respond(o) \/ Consume(o)
      BY ONLY <1>1, <1>2, <1>3, <2>1
    <2>2. CASE ~(ExpireEntry(o) \/ Request(o) \/ Respond(o) \/ Consume(o))
      BY ONLY <1>4, <1>5, <1>8, <2>2 DEF OpStep
    <2> QED
      BY <2>1, <2>2
  <1> QED
    BY ONLY <1>6, <1>7, <1>8, [Next]_vars DEF Next

(* An entry that is denied, spent or expired never changes again but for   *)
(* becoming a tombstone or going with the whole conversation.              *)
THEOREM SettledStays == Spec => SettledIsFinal
  <1>1. ASSUME IInv, [Next]_vars
        PROVE  \A i \in Ids : store[i] # None /\ Settled(store[i]) =>
                 store'[i] \in {store[i], None} \/ store'[i].state = "expired"
    <2>0. TypeOK /\ store \in [Ids -> Stored]
      BY <1>1, EntriesAreThere DEF IInv
    <2>1. ASSUME NEW j \in Ids, NEW e, store' = [store EXCEPT ![j] = e]
          PROVE  store'[j] = e /\ \A i \in Ids \ {j} : store'[i] = store[i]
      BY <2>0, <2>1
    <2>2. CASE \E j \in Ids, a \in Arguments :
                 store[j] = None /\ store' = [store EXCEPT ![j] = NewEntry(a)]
      BY <2>1, <2>2
    <2>3. CASE \E j \in Ids : store[j] # None /\ Replaces(j, Compact(store[j]))
      <3>1. PICK j \in Ids : store[j] # None /\ Replaces(j, Compact(store[j]))
        BY <2>3
      <3>2. Compact(store[j]).state = "expired"
        BY <3>1 DEF Replaces, Compact, Entries
      <3> QED
        BY <2>1, <3>1, <3>2 DEF Replaces
    <2>6. CASE \E j \in Ids, e \in Entries : LateTombstone(j, e)
      BY <2>1, <2>6 DEF LateTombstone
    <2>4. CASE \E j \in Ids, v \in {"approved", "denied", "consumed"} :
                 store[j] # None /\ ~Settled(store[j]) /\ Replaces(j, [store[j] EXCEPT !.state = v])
      BY <2>1, <2>4 DEF Replaces
    <2>5. CASE UNCHANGED store \/ store' = NothingStored
      BY <2>5 DEF NothingStored
    <2> QED
      BY <1>1, <2>2, <2>3, <2>4, <2>5, <2>6, StoreStep
  <1> QED
    BY <1>1, Invariance, PTL DEF Spec, SettledIsFinal

-----------------------------------------------------------------------------
(* The cap of unexpired entries                                            *)

(* The entries of a listing that will still be live at a time, and the     *)
(* operations that may still add one, seen from that time: those whose     *)
(* listing lets them, and, once the storage was deleted, all that were     *)
(* under way, whatever they have listed.                                   *)
LiveAt(s, time) == {i \in Ids : s[i] # None /\ s[i].expires > time}
Lets(r, time) == r.step = "expire" /\ Cardinality(LiveAt(r.seen, time)) < MaxActive
Willing(time) == {o \in Ops : IF wiped THEN Past(op[o]) ELSE Lets(op[o], time)}

(* An operation that lists below the cap joins at most all of Ops; one     *)
(* that adds an entry is no longer willing.  It is asked of every time to  *)
(* come, for a listing loses entries as the clock moves.                   *)
BoundAt(time) == Cardinality(LiveAt(store, time)) + Cardinality(Willing(time)) < MaxActive + Cardinality(Ops)
BoundInv == \A time \in Nat : time >= now => BoundAt(time)

LEMMA Counted ==
  ASSUME NEW s, NEW time
  PROVE  /\ IsFiniteSet(LiveAt(s, time)) /\ Cardinality(LiveAt(s, time)) \in Nat
         /\ IsFiniteSet(Willing(time)) /\ Cardinality(Willing(time)) \in Nat
         /\ Cardinality(Willing(time)) <= Cardinality(Ops)
         /\ Cardinality(Ops) \in Nat /\ MaxActive \in Nat \ {0}
  <1>1. LiveAt(s, time) \in SUBSET Ids /\ Willing(time) \in SUBSET Ops
    BY DEF LiveAt, Willing
  <1>2. IsFiniteSet(LiveAt(s, time)) /\ IsFiniteSet(Willing(time))
        /\ Cardinality(Willing(time)) <= Cardinality(Ops)
    BY <1>1, BoundAssumption, FS_Subset
  <1> QED
    BY <1>2, BoundAssumption, FS_CardinalityType

LEMMA Fewer ==
  ASSUME NEW S, NEW T, IsFiniteSet(S), T \subseteq S
  PROVE  Cardinality(T) <= Cardinality(S) /\ Cardinality(T) \in Nat /\ Cardinality(S) \in Nat
  <1>1. T \in SUBSET S
    OBVIOUS
  <1> QED
    BY <1>1, FS_Subset, FS_CardinalityType

(* Where nothing is added and nobody lists, the bound stays.               *)
LEMMA BoundStays ==
  ASSUME NEW time, BoundAt(time),
         LiveAt(store, time)' \subseteq LiveAt(store, time),
         Willing(time)' \subseteq Willing(time)
  PROVE  BoundAt(time)'
  <1>1. Willing(time)' \subseteq Willing(time)
    OBVIOUS
  <1>2. Cardinality(LiveAt(store, time)') <= Cardinality(LiveAt(store, time))
        /\ Cardinality(LiveAt(store, time)') \in Nat
    BY Counted, Fewer
  <1>3. Cardinality(Willing(time)') <= Cardinality(Willing(time)) /\ Cardinality(Willing(time)') \in Nat
    BY <1>1, Counted, Fewer
  <1>4. Cardinality(LiveAt(store, time)) \in Nat /\ Cardinality(Willing(time)) \in Nat
        /\ Cardinality(Ops) \in Nat /\ MaxActive \in Nat
    BY Counted
  <1> QED
    BY <1>2, <1>3, <1>4 DEF BoundAt

(* What is stored stays, is replaced without living longer, or goes.       *)
LEMMA LiveShrinks ==
  ASSUME IInv, [Next]_vars, NEW time \in Nat, time >= now,
         ~ \E i \in Ids, a \in Arguments : store[i] = None /\ store' = [store EXCEPT ![i] = NewEntry(a)]
  PROVE  LiveAt(store, time)' \subseteq LiveAt(store, time)
  <1>0. TypeOK /\ store \in [Ids -> Stored]
    BY EntriesAreThere DEF IInv
  <1>1. CASE UNCHANGED store
    BY <1>1 DEF LiveAt
  <1>2. CASE store' = NothingStored
    BY <1>2 DEF LiveAt, NothingStored
  <1>3. ASSUME NEW i \in Ids, NEW e, store[i] # None, store' = [store EXCEPT ![i] = e],
               e.expires = store[i].expires
        PROVE  LiveAt(store, time)' \subseteq LiveAt(store, time)
    <2>1. store'[i] = e /\ \A j \in Ids \ {i} : store'[j] = store[j]
      BY <1>0, <1>3
    <2> QED
      BY <1>3, <2>1 DEF LiveAt
  <1>4. CASE \E i \in Ids : store[i] # None /\ Replaces(i, Compact(store[i]))
    <2>1. PICK i \in Ids : store[i] # None /\ Replaces(i, Compact(store[i]))
      BY <1>4
    <2>2. Compact(store[i]).expires = store[i].expires
      BY <2>1 DEF Replaces, Compact, Entries
    <2> QED
      BY <1>3, <2>1, <2>2 DEF Replaces
  <1>5. CASE \E i \in Ids, v \in {"approved", "denied", "consumed"} :
               store[i] # None /\ ~Settled(store[i]) /\ Replaces(i, [store[i] EXCEPT !.state = v])
    <2>1. PICK i \in Ids, v \in {"approved", "denied", "consumed"} :
               store[i] # None /\ Replaces(i, [store[i] EXCEPT !.state = v])
      BY <1>5
    <2>2. [store[i] EXCEPT !.state = v].expires = store[i].expires
      BY <2>1 DEF Replaces, Entries
    <2> QED
      BY <1>3, <2>1, <2>2 DEF Replaces
  <1>6. CASE \E i \in Ids, e \in Entries : LateTombstone(i, e)
    <2>1. PICK i \in Ids, e \in Entries : LateTombstone(i, e)
      BY <1>6
    <2>2. store'[i] = e /\ \A j \in Ids \ {i} : store'[j] = store[j]
      BY <1>0, <2>1 DEF LateTombstone
    <2>3. ~(e.expires > time) /\ now \in Nat
      BY <1>0, <2>1 DEF LateTombstone, Entries, TypeOK
    <2> QED
      BY <2>2, <2>3 DEF LiveAt
  <1> QED
    BY ONLY StoreStep, IInv, [Next]_vars, <1>1, <1>2, <1>4, <1>5, <1>6,
       ~ \E i \in Ids, a \in Arguments : store[i] = None /\ store' = [store EXCEPT ![i] = NewEntry(a)]

(* Only List begins to list.                                               *)
LEMMA ListsRemain ==
  ASSUME IInv, [Next]_vars, ~ \E o \in Ops : List(o)
  PROVE  \A o \in Ops : op'[o].step = "expire" => op[o].step = "expire" /\ op'[o].seen = op[o].seen
  <1>0. op \in [Ops -> OpStates] /\ NoOp.step = "idle"
    BY NoOpIsFine DEF IInv, TypeOK
  <1>1. ASSUME NEW o \in Ops, NEW r, op' = [op EXCEPT ![o] = r],
               r.step = "expire" => op[o].step = "expire" /\ r.seen = op[o].seen
        PROVE  \A p \in Ops : op'[p].step = "expire" => op[p].step = "expire" /\ op'[p].seen = op[p].seen
    BY <1>0, <1>1
  <1>2. CASE op' = op
    BY <1>2
  <1>3. ASSUME NEW o \in Ops, op' = [op EXCEPT ![o] = NoOp]
        PROVE  \A p \in Ops : op'[p].step = "expire" => op[p].step = "expire" /\ op'[p].seen = op[p].seen
    BY <1>0, <1>1, <1>3
  <1>4. ASSUME NEW o \in Ops, NEW i \in Ids, NEW a \in Arguments, NEW then, NEW yes,
               Start(o, then, i, a, yes)
        PROVE  \A p \in Ops : op'[p].step = "expire" => op[p].step = "expire" /\ op'[p].seen = op[p].seen
    BY <1>1, <1>4 DEF Start, NoOp
  <1>5. ASSUME NEW o \in Ops, ExpireEntry(o)
        PROVE  \A p \in Ops : op'[p].step = "expire" => op[p].step = "expire" /\ op'[p].seen = op[p].seen
    <2>1. PICK i \in op[o].left : op' = [op EXCEPT ![o].left = @ \ {i}]
      BY <1>5 DEF ExpireEntry
    <2>2. op[o] \in OpStates
      BY <1>0
    <2>3. op' = [op EXCEPT ![o] = [op[o] EXCEPT !.left = op[o].left \ {i}]]
      BY <1>0, <2>1
    <2>4. [op[o] EXCEPT !.left = op[o].left \ {i}].step = op[o].step
          /\ [op[o] EXCEPT !.left = op[o].left \ {i}].seen = op[o].seen
      BY <2>2 DEF OpStates
    <2> QED
      BY <1>1, <2>3, <2>4
  <1>6. ASSUME NEW o \in Ops, Request(o)
        PROVE  \A p \in Ops : op'[p].step = "expire" => op[p].step = "expire" /\ op'[p].seen = op[p].seen
    BY <1>1, <1>3, <1>6 DEF Request, Finish, NoOp
  <1>7. ASSUME NEW o \in Ops, Consume(o)
        PROVE  \A p \in Ops : op'[p].step = "expire" => op[p].step = "expire" /\ op'[p].seen = op[p].seen
    <2>1. op[o] \in OpStates
      BY <1>0
    <2>2. [op[o] EXCEPT !.step = "dispatch"].step = "dispatch"
      BY <2>1 DEF OpStates
    <2>3. op' = [op EXCEPT ![o] = [op[o] EXCEPT !.step = "dispatch"]] \/ op' = [op EXCEPT ![o] = NoOp]
      BY <1>0, <1>7 DEF Consume, Goto, Finish
    <2> QED
      BY <1>1, <1>3, <2>2, <2>3
  <1>8. ASSUME NEW o \in Ops, Refuse(o) \/ Respond(o) \/ Dispatch(o) \/ Abort(o)
        PROVE  \A p \in Ops : op'[p].step = "expire" => op[p].step = "expire" /\ op'[p].seen = op[p].seen
    BY <1>3, <1>8 DEF Refuse, Respond, Dispatch, Abort, Finish
  <1>12. ASSUME NEW o \in Ops, Authorize(o)
         PROVE  \A p \in Ops : op'[p].step = "expire" => op[p].step = "expire" /\ op'[p].seen = op[p].seen
    <2>1. op' = [op EXCEPT ![o] = [op[o] EXCEPT !.step = "verify"]] \/ op' = [op EXCEPT ![o] = NoOp]
      BY <1>0, <1>12 DEF Authorize, Goto, Finish
    <2>2. [op[o] EXCEPT !.step = "verify"].step = "verify"
      BY <1>0 DEF OpStates
    <2> QED
      BY <1>1, <1>3, <2>1, <2>2
  <1>13. ASSUME NEW o \in Ops, Verify(o)
         PROVE  \A p \in Ops : op'[p].step = "expire" => op[p].step = "expire" /\ op'[p].seen = op[p].seen
    <2>1. op[o].step = "verify" /\ op[o].then \in Beginnings
      BY <1>13 DEF IInv, Held, Carried, Verify
    <2>2. \/ op' = [op EXCEPT ![o] = [op[o] EXCEPT !.step = op[o].then]]
          \/ op' = [op EXCEPT ![o] = NoOp]
      BY <1>0, <1>13 DEF Verify, Goto, Finish
    <2>3. [op[o] EXCEPT !.step = op[o].then].step = op[o].then
      BY <1>0 DEF OpStates
    <2> QED
      BY <1>1, <1>3, <2>1, <2>2, <2>3
  <1>9. ASSUME NEW o \in Ops, OpStep(o)
        PROVE  \A p \in Ops : op'[p].step = "expire" => op[p].step = "expire" /\ op'[p].seen = op[p].seen
    <2> DEFINE Other == \/ ExpireEntry(o) \/ Request(o) \/ Consume(o) \/ Refuse(o) \/ Respond(o)
                        \/ Dispatch(o) \/ Abort(o) \/ Authorize(o) \/ Verify(o)
    <2>1. CASE Other
      BY ONLY <1>5, <1>6, <1>7, <1>8, <1>12, <1>13, <2>1
    <2>2. CASE ~Other
      BY ONLY <1>4, <1>9, <2>2, ~ \E p \in Ops : List(p) DEF OpStep
    <2> QED
      BY <2>1, <2>2
  <1>10. ASSUME NEW d \in Deletes, DeleteStep(d)
         PROVE  \A p \in Ops : op'[p].step = "expire" => op[p].step = "expire" /\ op'[p].seen = op[p].seen
    <2>1. CASE Wipe(d)
      <3>1. op' = [o \in Ops |-> IF Cancelled(op[o]) THEN NoOp ELSE op[o]]
        BY <2>1 DEF Wipe
      <3>2. \A p \in Ops : op'[p] = NoOp \/ op'[p] = op[p]
        BY <3>1
      <3> QED
        BY <1>0, <3>2
    <2>2. CASE Teardown(d)
      BY <1>0, <2>2 DEF Teardown
    <2>3. CASE ~Wipe(d) /\ ~Teardown(d)
      BY <1>2, <1>10, <2>3 DEF DeleteStep, Tombstone, MarkPurged, Interrupted
    <2> QED
      BY <2>1, <2>2, <2>3
  <1>11. CASE Revoke \/ Tick \/ UNCHANGED vars
    BY <1>2, <1>11 DEF Revoke, Tick, vars
  <1> QED
    BY ONLY <1>9, <1>10, <1>11, [Next]_vars DEF Next

(* Once the storage was deleted, nothing more comes under way.             *)
LEMMA PastRemains ==
  ASSUME IInv, [Next]_vars, wiped
  PROVE  \A o \in Ops : Past(op'[o]) => Past(op[o])
  <1>0. op \in [Ops -> OpStates] /\ NoOp.step = "idle" /\ ~Found
    BY NoOpIsFine DEF IInv, TypeOK, Gone, Found
  <1>1. ASSUME NEW o \in Ops, NEW r, op' = [op EXCEPT ![o] = r], Past(r) => Past(op[o])
        PROVE  \A p \in Ops : Past(op'[p]) => Past(op[p])
    BY <1>0, <1>1
  <1>2. CASE op' = op
    BY <1>2
  <1>3. ASSUME NEW o \in Ops, OpStep(o)
        PROVE  \A p \in Ops : Past(op'[p]) => Past(op[p])
    <2>1. CASE Past(op[o])
      <3>1. \E r : op' = [op EXCEPT ![o] = r]
        BY <1>3 DEF OpStep, Start, Authorize, Verify, List, ExpireEntry, Refuse, Request, Respond,
                    Consume, Dispatch, Abort, Goto, Finish
      <3> QED
        BY <1>1, <2>1, <3>1
    <2>2. ASSUME ~Past(op[o]), NEW i \in Ids, NEW a \in Arguments, NEW then, NEW yes,
                 Start(o, then, i, a, yes)
          PROVE  \A p \in Ops : Past(op'[p]) => Past(op[p])
      BY <1>1, <2>2 DEF Start, NoOp, Past
    <2>3. CASE Authorize(o) \/ Abort(o)
      BY <1>0, <1>1, <2>3 DEF Authorize, Abort, Finish, Past
    <2>4. ASSUME ~Past(op[o])
          PROVE  ~(Verify(o) \/ List(o) \/ ExpireEntry(o) \/ Refuse(o) \/ Request(o)
                     \/ Respond(o) \/ Consume(o) \/ Dispatch(o))
      BY <2>4 DEF Verify, List, ExpireEntry, Refuse, Request, Respond, Consume, Dispatch, Past
    <2> QED
      BY ONLY <1>3, <2>1, <2>2, <2>3, <2>4 DEF OpStep
  <1>4. ASSUME NEW d \in Deletes, DeleteStep(d)
        PROVE  \A p \in Ops : Past(op'[p]) => Past(op[p])
    <2>1. \A p \in Ops : op'[p] = NoOp \/ op'[p] = op[p]
      BY <1>4 DEF DeleteStep, Tombstone, Wipe, Teardown, MarkPurged, Interrupted
    <2> QED
      BY <1>0, <2>1 DEF Past
  <1>5. CASE Revoke \/ Tick \/ UNCHANGED vars
    BY <1>2, <1>5 DEF Revoke, Tick, vars
  <1> QED
    BY ONLY <1>3, <1>4, <1>5, [Next]_vars DEF Next

(* Only a listing, before the storage is deleted, and the deletion make an *)
(* operation willing.                                                      *)
LEMMA WillingShrinks ==
  ASSUME IInv, [Next]_vars, UNCHANGED wiped, wiped \/ ~ \E o \in Ops : List(o), NEW time
  PROVE  Willing(time)' \subseteq Willing(time)
  <1>1. CASE wiped
    BY <1>1, PastRemains DEF Willing
  <1>2. CASE ~wiped
    <2>1. \A o \in Ops : op'[o].step = "expire" => op[o].step = "expire" /\ op'[o].seen = op[o].seen
      BY <1>2, ListsRemain
    <2> QED
      BY <1>2, <2>1 DEF Willing, Lets, LiveAt
  <1> QED
    BY <1>1, <1>2

LEMMA ListingKeeps ==
  ASSUME IInv, NEW o \in Ops, List(o), ~wiped, NEW time, BoundAt(time)
  PROVE  BoundAt(time)'
  <1>0. op \in [Ops -> OpStates] /\ op[o] \in OpStates /\ store' = store /\ ~wiped'
    BY DEF IInv, TypeOK, List
  <1>1. CASE op'[o].step = "expire" => op'[o].seen = store
    <2>0. \A p \in Ops \ {o} : op'[p] = op[p]
      BY <1>0 DEF List
    <2>1. LiveAt(store, time)' = LiveAt(store, time)
      BY <1>0 DEF LiveAt
    <2>2. CASE Cardinality(LiveAt(store, time)) < MaxActive
      <3>1. Cardinality(Willing(time)') <= Cardinality(Ops) /\ Cardinality(Willing(time)') \in Nat
        <4>1. Willing(time)' \subseteq Ops
          BY DEF Willing
        <4> QED
          BY <4>1, Fewer, BoundAssumption
      <3> QED
        BY <2>1, <2>2, <3>1, Counted DEF BoundAt
    <2>3. CASE ~(Cardinality(LiveAt(store, time)) < MaxActive)
      <3>1. Willing(time)' \subseteq Willing(time)
        BY <1>0, <1>1, <2>0, <2>3 DEF Willing, Lets, LiveAt
      <3>2. Cardinality(Willing(time)') <= Cardinality(Willing(time)) /\ Cardinality(Willing(time)') \in Nat
        BY <3>1, Counted, Fewer
      <3> QED
        BY <2>1, <3>2, Counted DEF BoundAt
    <2> QED
      BY <2>2, <2>3
  <1>2. op'[o].step = "expire" => op'[o].seen = store
    BY <1>0 DEF List, OpStates
  <1> QED
    BY <1>1, <1>2

(* The one step that adds an entry is taken by a willing operation.        *)
LEMMA AddingKeeps ==
  ASSUME IInv, NEW o \in Ops, Request(o), NEW time \in Nat, time >= now, BoundAt(time),
         NEW i \in Ids, NEW a \in Arguments,
         store[i] = None, store' = [store EXCEPT ![i] = NewEntry(a)]
  PROVE  BoundAt(time)'
  <1>0. /\ TypeOK /\ Held /\ store \in [Ids -> Stored] /\ op \in [Ops -> OpStates] /\ now \in Nat
        /\ NoOp.step = "idle" /\ op[o].step = "expire" /\ op[o].id \in Ids
    BY EntriesAreThere, NoOpIsFine, RequestShape DEF IInv, TypeOK
  <1>1. op[o].id = i
    <2>1. NewEntry(a) # None
      BY <1>0, EntryAssumption, BoundAssumption DEF NewEntry, Entries, EntryStates
    <2>2. store'[i] # store[i]
      BY <1>0, <2>1
    <2>3. \A j \in Ids : j # op[o].id => store'[j] = store[j]
      BY <1>0 DEF Request
    <2> QED
      BY <2>2, <2>3
  <1>2. ~wiped => op[o].seen[i] = None
    BY <1>0 DEF Held, Carried
  <1>3. op[o].seen \in [Ids -> Stored]
    BY <1>0 DEF OpStates
  <1>4. ~wiped => Cardinality(Live(op[o].seen)) < MaxActive
    <2>1. ~ TooMany(o)
      BY DEF Request
    <2>2. Live(op[o].seen) = LiveAt(op[o].seen, now)
      <3>1. \A j \in Ids : op[o].seen[j] # None => op[o].seen[j].expires \in Nat
        BY <1>3 DEF Stored, Entries
      <3> QED
        BY <1>0, <3>1 DEF Live, LiveAt, Expired
    <2>3. Cardinality(LiveAt(op[o].seen, now)) \in Nat /\ MaxActive \in Nat
      BY Counted
    <2> HIDE DEF LiveAt
    <2> QED
      BY <1>1, <1>2, <2>1, <2>2, <2>3 DEF TooMany
  <1>5. ~wiped => Cardinality(LiveAt(op[o].seen, time)) < MaxActive
    <2>1. \A j \in Ids : op[o].seen[j] # None => op[o].seen[j].expires \in Nat
      BY <1>3 DEF Stored, Entries
    <2>2. LiveAt(op[o].seen, time) \subseteq Live(op[o].seen)
      BY <1>0, <2>1 DEF Live, LiveAt, Expired
    <2>3. IsFiniteSet(Live(op[o].seen))
      <3>1. Live(op[o].seen) \in SUBSET Ids
        BY DEF Live
      <3> QED
        BY <3>1, FS_Subset, BoundAssumption
    <2>4. Cardinality(LiveAt(op[o].seen, time)) <= Cardinality(Live(op[o].seen))
          /\ Cardinality(LiveAt(op[o].seen, time)) \in Nat /\ Cardinality(Live(op[o].seen)) \in Nat
      BY <2>2, <2>3, Fewer
    <2> QED
      BY <1>4, <2>4, BoundAssumption
  <1>6. Willing(time)' \subseteq Willing(time) \ {o} /\ o \in Willing(time)
    <2>1. op'[o].step \in {"idle", "authorize"} /\ \A p \in Ops \ {o} : op'[p] = op[p]
      <3> DEFINE r == [NoOp EXCEPT !.step = "authorize", !.then = "consume", !.id = op[o].id,
                                   !.args = op[o].args, !.entitled = Entitled]
      <3>1. op' = [op EXCEPT ![o] = r] \/ op' = [op EXCEPT ![o] = NoOp]
        BY <1>1 DEF Request, Finish
      <3>2. r.step = "authorize"
        BY DEF NoOp
      <3> HIDE DEF r
      <3> QED
        BY <1>0, <3>1, <3>2
    <2>2. wiped' = wiped
      BY DEF Request
    <2> QED
      BY <1>0, <1>5, <2>1, <2>2 DEF Willing, Lets, LiveAt, Past
  <1>7. Cardinality(Willing(time)') <= Cardinality(Willing(time)) - 1 /\ Cardinality(Willing(time)') \in Nat
    <2>1. IsFiniteSet(Willing(time) \ {o}) /\ Cardinality(Willing(time) \ {o}) = Cardinality(Willing(time)) - 1
      BY <1>6, Counted, FS_RemoveElement
    <2>2. Cardinality(Willing(time)') <= Cardinality(Willing(time) \ {o}) /\ Cardinality(Willing(time)') \in Nat
      BY <1>6, <2>1, Fewer
    <2> QED
      BY <2>1, <2>2
  <1>8. Cardinality(LiveAt(store, time)') <= Cardinality(LiveAt(store, time)) + 1
        /\ Cardinality(LiveAt(store, time)') \in Nat
    <2>1. LiveAt(store, time)' \subseteq LiveAt(store, time) \cup {i}
      BY <1>0 DEF LiveAt
    <2>2. /\ IsFiniteSet(LiveAt(store, time) \cup {i})
          /\ Cardinality(LiveAt(store, time) \cup {i}) <= Cardinality(LiveAt(store, time)) + 1
      <3>1. IsFiniteSet(LiveAt(store, time)) /\ Cardinality(LiveAt(store, time)) \in Nat
        BY Counted
      <3> DEFINE L == LiveAt(store, time)
      <3>2. IsFiniteSet(L) /\ Cardinality(L) \in Nat
        BY <3>1
      <3> HIDE DEF L
      <3>3. IsFiniteSet(L \cup {i}) /\ Cardinality(L \cup {i}) = IF i \in L THEN Cardinality(L) ELSE Cardinality(L) + 1
        BY <3>2, FS_AddElement
      <3> QED
        BY <3>2, <3>3 DEF L
    <2>3. Cardinality(LiveAt(store, time)') <= Cardinality(LiveAt(store, time) \cup {i})
          /\ Cardinality(LiveAt(store, time)') \in Nat /\ Cardinality(LiveAt(store, time) \cup {i}) \in Nat
      BY <2>1, <2>2, Fewer
    <2> QED
      BY <2>2, <2>3, Counted
  <1> QED
    BY <1>7, <1>8, Counted DEF BoundAt

LEMMA BoundStep == IInv /\ BoundInv /\ [Next]_vars => BoundInv'
  <1> SUFFICES ASSUME IInv, BoundInv, [Next]_vars, NEW time \in Nat, time >= now'
               PROVE  BoundAt(time)'
    BY DEF BoundInv
  <1>1. BoundAt(time) /\ time >= now
    <2>1. now' = now \/ now' = now + 1
      BY Frame DEF ClockAndWipe
    <2>2. now \in Nat
      BY DEF IInv, TypeOK
    <2> QED
      BY <2>1, <2>2 DEF BoundInv
  <1>2. CASE ~wiped /\ \E o \in Ops : List(o)
    BY <1>1, <1>2, ListingKeeps
  <1>6. CASE \E d \in Deletes : Wipe(d)
    <2>1. LiveAt(store, time)' = {}
      BY <1>6 DEF Wipe, LiveAt, NothingStored
    <2>2. Cardinality(Willing(time)') <= Cardinality(Ops) /\ Cardinality(Willing(time)') \in Nat
      <3>1. Willing(time)' \subseteq Ops
        BY DEF Willing
      <3> QED
        BY <3>1, Fewer, BoundAssumption
    <2> QED
      BY <2>1, <2>2, FS_EmptySet, Counted DEF BoundAt
  <1>3. CASE \E o \in Ops : \E i \in Ids, a \in Arguments :
               Request(o) /\ store[i] = None /\ store' = [store EXCEPT ![i] = NewEntry(a)]
    BY <1>1, <1>3, AddingKeeps
  <1>4. CASE /\ wiped \/ ~ \E o \in Ops : List(o)
             /\ ~ \E d \in Deletes : Wipe(d)
             /\ ~ \E i \in Ids, a \in Arguments : store[i] = None /\ store' = [store EXCEPT ![i] = NewEntry(a)]
    <2>1. UNCHANGED wiped
      BY <1>4, Frame DEF ClockAndWipe
    <2>2. Willing(time)' \subseteq Willing(time)
      BY <1>4, <2>1, WillingShrinks
    <2>3. LiveAt(store, time)' \subseteq LiveAt(store, time)
      BY <1>1, <1>4, LiveShrinks
    <2> QED
      BY <1>1, <2>2, <2>3, BoundStays
  <1>5. ASSUME NEW i \in Ids, NEW a \in Arguments,
               store[i] = None, store' = [store EXCEPT ![i] = NewEntry(a)]
        PROVE  \E o \in Ops : Request(o)
    <2>1. store' # store /\ store' # NothingStored
      <3>1. NewEntry(a) # None /\ store \in [Ids -> Stored]
        BY EntriesAreThere, EntryAssumption, BoundAssumption
           DEF NewEntry, Entries, EntryStates, IInv, TypeOK
      <3> QED
        BY <1>5, <3>1 DEF NothingStored
    <2>2. ASSUME NEW o \in Ops, ExpireEntry(o) \/ Respond(o) \/ Consume(o)
          PROVE  FALSE
      <3> DEFINE Kept == \E j \in Ids : \E e : /\ store' = [store EXCEPT ![j] = e]
                                               /\ store[j] # None \/ e.state = "expired"
      <3>0. TypeOK /\ Held /\ Gone /\ Entered /\ store \in [Ids -> Stored]
        BY EntriesAreThere DEF IInv
      <3>a. ExpireEntry(o) => Kept
        BY <2>1, <3>0, ExpireShape DEF Replaces, LateTombstone
      <3>b. Respond(o) => Kept
        BY <2>1, <3>0, RespondShape DEF Replaces
      <3>c. Consume(o) => Kept
        BY <2>1, <3>0, ConsumeShape DEF Replaces
      <3>1. PICK j \in Ids : \E e : /\ store' = [store EXCEPT ![j] = e]
                                    /\ store[j] # None \/ e.state = "expired"
        BY <2>2, <3>a, <3>b, <3>c
      <3>2. store'[i] = store[i] \/ store'[i].state = "expired"
        BY <1>5, <3>0, <3>1
      <3>3. NewEntry(a) # None /\ NewEntry(a).state = "pending"
        BY <3>0, EntryAssumption, BoundAssumption DEF NewEntry, Entries, EntryStates, TypeOK
      <3> QED
        BY <1>5, <3>0, <3>2, <3>3
    <2>3. ASSUME NEW o \in Ops, OpStep(o)
          PROVE  Request(o)
      <3>1. ASSUME NEW j \in Ids, NEW b \in Arguments, NEW then, NEW yes, Start(o, then, j, b, yes)
            PROVE  FALSE
        BY <2>1, <3>1 DEF Start
      <3>2. ~ (Authorize(o) \/ Verify(o) \/ List(o) \/ Refuse(o) \/ Dispatch(o) \/ Abort(o))
        BY <2>1 DEF Authorize, Verify, List, Refuse, Dispatch, Abort
      <3> QED
        BY ONLY <2>2, <2>3, <3>1, <3>2 DEF OpStep
    <2> QED
      BY <2>1, <2>3 DEF Next, DeleteStep, Tombstone, Wipe, Teardown, MarkPurged, Interrupted, Revoke, Tick, vars
  <1> QED
    BY <1>2, <1>3, <1>4, <1>5, <1>6

(* However many requests tested the limit on a listing of before, the      *)
(* unexpired entries pass the limit by fewer than the operations under way *)
(* (tools.ts: request).                                                    *)
THEOREM ActiveStaysBounded == Spec => []ActiveIsBounded
  <1>1. Init => BoundInv
    <2> SUFFICES ASSUME Init, NEW time \in Nat
                 PROVE  BoundAt(time)
      BY DEF BoundInv
    <2>1. LiveAt(store, time) = {} /\ Willing(time) = {}
      BY NoOpIsFine DEF Init, LiveAt, Willing, Lets, NothingStored
    <2>2. Cardinality({}) = 0
      BY FS_EmptySet
    <2> QED
      BY <2>1, <2>2, Counted DEF BoundAt
  <1>2. IInv /\ BoundInv => ActiveIsBounded
    <2> SUFFICES ASSUME IInv, BoundInv
                 PROVE  ActiveIsBounded
      OBVIOUS
    <2>1. TypeOK /\ now \in Nat /\ BoundAt(now)
      BY DEF IInv, TypeOK, BoundInv
    <2>2. Live(store) = LiveAt(store, now)
      BY <2>1, EntriesAreThere DEF Live, LiveAt, Expired
    <2> QED
      BY <2>1, <2>2, Counted DEF BoundAt, ActiveIsBounded
  <1> QED
    BY <1>1, <1>2, Invariance, BoundStep, PTL DEF Spec

-----------------------------------------------------------------------------
(* Refinement                                                              *)

(* What ApprovedOnce sees of an entry.                                     *)
Says(e) == CASE e.state = "pending"  -> "asked"
             [] e.state = "consumed" -> "spent"
             [] e.state = "expired"  -> "void"
             [] OTHER -> e.state

LEMMA OneVerdict ==
  ASSUME TypeOK, ~wiped, ~wiped', NEW i \in Ids, NEW e \in Entries, store' = [store EXCEPT ![i] = e]
  PROVE  Verdict' = [Verdict EXCEPT ![i] = Says(e)] /\ Asked' = [Asked EXCEPT ![i] = e.args]
  <1>1. e # None /\ \A j \in Ids : store'[j] = IF j = i THEN e ELSE store[j]
    BY EntryAssumption DEF TypeOK
  <1>2. Verdict'[i] = Says(e) /\ Asked'[i] = e.args
    BY <1>1 DEF Verdict, Says, Asked
  <1>3. \A j \in Ids : j # i => Verdict'[j] = Verdict[j] /\ Asked'[j] = Asked[j]
    BY <1>1 DEF Verdict, Asked
  <1>4. /\ Verdict' = [j \in Ids |-> Verdict'[j]] /\ Verdict = [j \in Ids |-> Verdict[j]]
        /\ Asked' = [j \in Ids |-> Asked'[j]] /\ Asked = [j \in Ids |-> Asked[j]]
    BY DEF Verdict, Asked
  <1> QED
    BY <1>2, <1>3, <1>4

LEMMA VerdictOf ==
  ASSUME NEW i \in Ids, ~wiped, store[i] # None
  PROVE  Verdict[i] = Says(store[i]) /\ Asked[i] = store[i].args
  BY DEF Verdict, Asked, Says

(* The mapped variables keep their values.                                 *)
Silent == UNCHANGED <<wiped, released, effects>> /\ (wiped \/ UNCHANGED store)

LEMMA SilentStutters == Silent => UNCHANGED <<Verdict, Asked, released, effects>>
  BY DEF Silent, Verdict, Asked

LEMMA OpRefines ==
  ASSUME IInv, NEW o \in Ops, OpStep(o)
  PROVE  Approvals!ApprovedNext \/ Silent
  <1>0. TypeOK /\ Held /\ Gone /\ Entered /\ Freed /\ Once
    BY DEF IInv
  <1>1. CASE ExpireEntry(o)
    <2>0. UNCHANGED <<wiped, released, effects>>
      BY <1>0, <1>1 DEF ExpireEntry, history
    <2>1. CASE wiped \/ UNCHANGED store
      BY <2>0, <2>1 DEF Silent
    <2>2. ASSUME NEW i \in Ids, store[i] # None, Replaces(i, Compact(store[i])), ~wiped
          PROVE  Approvals!Void({i})
      <3>1. Compact(store[i]).state = "expired" /\ Compact(store[i]).args = None
        BY <2>2 DEF Replaces, Compact, Entries
      <3>2. Verdict' = [Verdict EXCEPT ![i] = "void"] /\ Asked' = [Asked EXCEPT ![i] = None]
        BY <1>0, <2>0, <2>2, <3>1, OneVerdict DEF Replaces, Says
      <3>3. /\ Verdict' = [j \in Ids |-> IF j \in {i} THEN "void" ELSE Verdict[j]]
            /\ Asked' = [j \in Ids |-> IF j \in {i} THEN None ELSE Asked[j]]
        BY <3>2 DEF Verdict, Asked
      <3> QED
        BY <2>0, <3>3 DEF Approvals!Void
    <2> QED
      BY <1>0, <1>1, <2>1, <2>2, ExpireShape DEF Approvals!ApprovedNext
  <1>2. CASE Request(o)
    <2> DEFINE i == op[o].id
               a == op[o].args
    <2>0. /\ UNCHANGED <<wiped, released, effects>> /\ i \in Ids /\ a \in Arguments
          /\ UNCHANGED store \/ (store[i] = None /\ NewEntry(a) \in Entries
                                 /\ store' = [store EXCEPT ![i] = NewEntry(a)])
      BY <1>0, <1>2, RequestShape
    <2>1. CASE wiped \/ UNCHANGED store
      BY <2>0, <2>1 DEF Silent
    <2>2. CASE ~wiped /\ store[i] = None /\ NewEntry(a) \in Entries /\ store' = [store EXCEPT ![i] = NewEntry(a)]
      <3>1. Says(NewEntry(a)) = "asked" /\ NewEntry(a).args = a
        BY DEF Says, NewEntry
      <3>2. Verdict' = [Verdict EXCEPT ![i] = "asked"] /\ Asked' = [Asked EXCEPT ![i] = a]
        <4>1. PICK e \in Entries : e = NewEntry(a)
          BY <2>2
        <4>2. TypeOK /\ ~wiped /\ ~wiped' /\ i \in Ids /\ store' = [store EXCEPT ![i] = e]
          BY <1>0, <2>0, <2>2, <4>1
        <4>3. Verdict' = [Verdict EXCEPT ![i] = Says(e)] /\ Asked' = [Asked EXCEPT ![i] = e.args]
          BY ONLY <4>2, OneVerdict
        <4> QED
          BY ONLY <3>1, <4>1, <4>3
      <3>3. Verdict[i] = "new"
        BY <2>0, <2>2 DEF Verdict
      <3>4. Approvals!Ask(i, a)
        BY <2>0, <3>2, <3>3 DEF Approvals!Ask
      <3> QED
        BY <2>0, <3>4 DEF Approvals!ApprovedNext
    <2> QED
      BY <2>0, <2>1, <2>2
  <1>3. CASE Respond(o)
    <2> DEFINE i == op[o].id
    <2>0. UNCHANGED <<wiped, released, effects>> /\ i \in Ids
      BY <1>0, <1>3, RespondShape DEF Respond, history
    <2>1. CASE wiped \/ UNCHANGED store
      BY <2>0, <2>1 DEF Silent
    <2>2. ASSUME NEW v \in {"approved", "denied"}, store[i] # None, store[i].state = "pending",
                 Replaces(i, [store[i] EXCEPT !.state = v]), ~wiped
          PROVE  Approvals!Answer(i, v)
      <3>1. /\ Says([store[i] EXCEPT !.state = v]) = v
            /\ [store[i] EXCEPT !.state = v].args = store[i].args
        BY <2>2 DEF Replaces, Entries, Says
      <3>2. Verdict' = [Verdict EXCEPT ![i] = v] /\ Asked' = [Asked EXCEPT ![i] = store[i].args]
        <4>1. PICK e \in Entries : e = [store[i] EXCEPT !.state = v]
          BY <2>2 DEF Replaces
        <4>2. TypeOK /\ ~wiped /\ ~wiped' /\ i \in Ids /\ store' = [store EXCEPT ![i] = e]
          BY <1>0, <2>0, <2>2, <4>1 DEF Replaces
        <4>3. Verdict' = [Verdict EXCEPT ![i] = Says(e)] /\ Asked' = [Asked EXCEPT ![i] = e.args]
          BY ONLY <4>2, OneVerdict
        <4> QED
          BY ONLY <3>1, <4>1, <4>3
      <3>3. Verdict[i] = "asked" /\ Asked[i] = store[i].args
        BY <2>0, <2>2, VerdictOf DEF Says
      <3>4. Asked' = Asked
        BY <3>2, <3>3 DEF Asked
      <3> QED
        BY <2>0, <3>2, <3>3, <3>4 DEF Approvals!Answer
    <2> QED
      BY <1>0, <1>3, <2>0, <2>1, <2>2, RespondShape DEF Approvals!ApprovedNext
  <1>4. CASE Consume(o)
    <2> DEFINE i == op[o].id
    <2>0. UNCHANGED <<wiped, effects>> /\ ~wiped /\ i \in Ids
      BY <1>0, <1>4, ConsumeShape
    <2>1. CASE UNCHANGED <<store, released>>
      BY <2>0, <2>1 DEF Silent
    <2>2. CASE /\ store[i] # None /\ store[i].state = "approved" /\ Replaces(i, Spent(store[i]))
               /\ store[i].args = op[o].args /\ released' = released \cup {<<i, op[o].args>>}
      <3>1. Says(Spent(store[i])) = "spent" /\ Spent(store[i]).args = store[i].args
        BY <2>2 DEF Replaces, Entries, Spent, Says
      <3>2. Verdict' = [Verdict EXCEPT ![i] = "spent"] /\ Asked' = [Asked EXCEPT ![i] = store[i].args]
        BY <1>0, <2>0, <2>2, <3>1, OneVerdict DEF Replaces
      <3>3. Verdict[i] = "approved" /\ Asked[i] = store[i].args
        BY <2>0, <2>2, VerdictOf DEF Says
      <3>4. Asked' = Asked
        BY <3>2, <3>3 DEF Asked
      <3>5. Approvals!Release(i)
        BY <2>0, <2>2, <3>2, <3>3, <3>4 DEF Approvals!Release
      <3> QED
        BY <2>0, <3>5 DEF Approvals!ApprovedNext
    <2> QED
      BY <1>0, <1>4, <2>1, <2>2, ConsumeShape
  <1>5. CASE Dispatch(o)
    <2> DEFINE i == op[o].id
               a == op[o].args
    <2>0. /\ op[o].step = "dispatch" /\ effects' = [effects EXCEPT ![<<i, a>>] = @ + 1]
          /\ UNCHANGED <<store, wiped, released>> /\ i \in Ids /\ a \in Arguments
      BY <1>0, <1>5 DEF Dispatch, Held, Carried
    <2>1. (\A b \in Arguments : effects[<<i, b>>] = 0) /\ <<i, a>> \in released
      BY <1>0, <2>0 DEF Once
    <2>2. effects' = [effects EXCEPT ![<<i, a>>] = 1]
      <3>1. effects[<<i, a>>] + 1 = 1
        BY <2>0, <2>1
      <3> QED
        BY <2>0, <3>1
    <2>3. Verdict' = Verdict /\ Asked' = Asked
      BY <2>0 DEF Verdict, Asked
    <2>4. Approvals!CarryOut(i, a)
      BY <2>0, <2>1, <2>2, <2>3 DEF Approvals!CarryOut
    <2> QED
      BY <2>0, <2>4 DEF Approvals!ApprovedNext
  <1>6. ASSUME NEW i \in Ids, NEW a \in Arguments, NEW then, NEW yes, Start(o, then, i, a, yes)
        PROVE  Silent
    BY <1>6 DEF Start, Silent
  <1>7. CASE Authorize(o) \/ Verify(o) \/ List(o) \/ Refuse(o) \/ Abort(o)
    BY <1>7 DEF Authorize, Verify, List, Refuse, Abort, Silent, history
  <1> QED
    BY ONLY <1>1, <1>2, <1>3, <1>4, <1>5, <1>6, <1>7, OpStep(o) DEF OpStep

LEMMA Refines ==
  IInv /\ [Next]_vars => [Approvals!ApprovedNext]_<<Verdict, Asked, released, effects>>
  <1> SUFFICES ASSUME IInv, [Next]_vars
               PROVE  Approvals!ApprovedNext \/ UNCHANGED <<Verdict, Asked, released, effects>>
    OBVIOUS
  <1>1. ASSUME NEW o \in Ops, OpStep(o)
        PROVE  Approvals!ApprovedNext \/ Silent
    BY <1>1, OpRefines
  <1>2. ASSUME NEW d \in Deletes, Wipe(d)
        PROVE  Approvals!ApprovedNext
    <2>1. wiped' /\ store' = NothingStored /\ UNCHANGED <<released, effects>>
      BY <1>2 DEF Wipe, history
    <2>2. /\ Verdict' = [i \in Ids |-> IF i \in Ids THEN "void" ELSE Verdict[i]]
          /\ Asked' = [i \in Ids |-> IF i \in Ids THEN None ELSE Asked[i]]
      BY <2>1 DEF Verdict, Asked, NothingStored
    <2>3. Approvals!Void(Ids)
      BY <2>1, <2>2 DEF Approvals!Void
    <2> QED
      BY <2>3 DEF Approvals!ApprovedNext
  <1>3. ASSUME Revoke \/ Tick \/ UNCHANGED vars
               \/ \E d \in Deletes : Tombstone(d) \/ Teardown(d) \/ MarkPurged(d) \/ Interrupted(d)
        PROVE  Silent
    BY <1>3 DEF Revoke, Tick, vars, Tombstone, Teardown, MarkPurged, Interrupted, Silent, history
  <1>4. Approvals!ApprovedNext \/ Silent
    BY ONLY <1>1, <1>2, <1>3, [Next]_vars DEF Next, DeleteStep
  <1> QED
    BY <1>4, SilentStutters

LEMMA InitRefines == Init => Approvals!ApprovedInit
  BY DEF Init, Approvals!ApprovedInit, Verdict, Asked, NothingStored

(* The approvals of a conversation do what ApprovedOnce promises: one      *)
(* question, one answer, one release, one dispatch.                        *)
THEOREM ImplementsPromise == Spec => Implements
  <1>1. Spec => Init /\ [][Next]_vars /\ []IInv
    BY Invariance DEF Spec
  <1> QED
    BY <1>1, InitRefines, Refines, PTL DEF Implements, Approvals!ApprovedSpec, Approvals!approvedVars

=============================================================================
