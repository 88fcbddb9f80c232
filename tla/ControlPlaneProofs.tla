-------------------------- MODULE ControlPlaneProofs --------------------------
(***************************************************************************)
(* ControlPlane: a connection's credential is of the account it shows, and *)
(* no account or credential has two connections.                           *)
(*                                                                         *)
(* All actions but PutSecret do the same few things to rows and to the     *)
(* copies of rows that operations carry: a copy is taken, kept, given the  *)
(* identity of a consent, or written back past the unique index (RowStep   *)
(* and OpStep).  What is proved follows from that, and from a reference    *)
(* being new when it is put.                                               *)
(***************************************************************************)
EXTENDS ControlPlane, TLAPS

Located == \A o \in Ops :
  /\ op[o].step # "idle" => op[o].conn \in Connections
  /\ op[o].step = "save" => op[o].row.ref # None

(* A row refers to a stored credential of the account it names, or none.   *)
Matches(r) == r.ref # None /\ secret[r.ref] # None => secret[r.ref] = r.subject

Matching ==
  /\ \A c \in Connections : row[c] # None => Matches(row[c])
  /\ \A o \in Ops : op[o].step # "put" => Matches(op[o].row)
  /\ \A o \in Ops : op[o].step \in {"put", "refresh"} => op[o].account = op[o].row.subject

Issued ==
  /\ \A c \in Connections : row[c] # None => row[c].ref \in issued \cup {None}
  /\ \A o \in Ops : op[o].row.ref \in issued \cup {None}

(* Connection c, or an operation on it, has the reference s.               *)
Uses(s, c) == \/ row[c] # None /\ row[c].ref = s
              \/ \E o \in Ops : op[o].step # "idle" /\ op[o].conn = c /\ op[o].row.ref = s

Owned == \A s \in Secrets : \A c, d \in Connections : Uses(s, c) /\ Uses(s, d) => c = d

Unique == \A c, d \in Connections :
  /\ row[c] # None /\ row[c].subject # None /\ row[c].status # "disconnected"
  /\ row[d] # None /\ row[d].subject = row[c].subject /\ row[d].status # "disconnected"
  => c = d

IInv == TypeOK /\ Located /\ Matching /\ Issued /\ Owned /\ Unique

-----------------------------------------------------------------------------
(* What steps do                                                           *)

(* The operation holds, on connection c, the reference and subject of r.   *)
Holds(o, c, r) == op[o].step # "idle" /\ op[o].conn = c /\ r.ref = op[o].row.ref

Keeps(o, c, r) ==
  Holds(o, c, r) /\ op[o].step # "put" /\ r.subject = op[o].row.subject

RowStep == row' = row \/ \E c \in Connections : \E r \in Rows \cup {None} :
  /\ row' = [row EXCEPT ![c] = r]
  /\ \/ r = None \/ r = NewRow
     \/ ~Conflicts(c, r) /\ \E o \in Ops : Keeps(o, c, r)

Bare(r) == r.row.ref = None /\ r.step \notin {"put", "refresh"}
Copies(r) ==
  /\ r.conn \in Connections /\ row[r.conn] # None
  /\ r.row.ref = row[r.conn].ref /\ r.row.subject = row[r.conn].subject
  /\ r.step # "put"
  /\ r.step = "refresh" => /\ r.row.ref # None /\ secret[r.row.ref] # None
                           /\ r.account = secret[r.row.ref]
Kind(o, r) ==
  \/ Bare(r)
  \/ Copies(r)
  \/ Keeps(o, r.conn, r.row) /\ r.step \notin {"put", "refresh"}
  \/ Holds(o, r.conn, r.row) /\ r.step = "put" /\ r.account = r.row.subject

(* Operation o goes to a state with a connection, and with the connection's *)
(* lock where it reads or refreshes.                                       *)
Goes(o, r) ==
  /\ r \in OpStates
  /\ op' = [op EXCEPT ![o] = r]
  /\ r.step # "idle" => r.conn \in Connections
  /\ r.step # "save"
  /\ r.step \in {"read", "refresh"} => lock'[r.conn] = o
  /\ \A c \in Connections : lock'[c] = lock[c] \/ lock[c] \in {None, o}

OpStep == \/ op' = op /\ lock' = lock
          \/ op' = [o \in Ops |-> NoOp]
          \/ \E o \in Ops : \E r \in OpStates : Goes(o, r) /\ Kind(o, r)

SecretStep == \A s \in Secrets : secret'[s] \in {secret[s], None}

Tables ==
  /\ row \in [Connections -> Rows \cup {None}]
  /\ oauth \in [States -> Connections \cup {None}]
  /\ secret \in [Secrets -> Accounts \cup {None}] /\ forgotten \subseteq Secrets
  /\ lock \in [Connections -> Ops \cup {None}]
  /\ doomed \subseteq Secrets
  /\ created \subseteq Connections /\ issued \subseteq Secrets /\ asked \subseteq States

Tame == Tables' /\ RowStep /\ OpStep /\ SecretStep /\ issued' = issued

LEMMA UpdateShape ==
  ASSUME row \in [Connections -> Rows \cup {None}], NEW c \in Connections, NEW r \in Rows,
         NEW o \in Ops, Keeps(o, c, r), Update(c, r)
  PROVE  RowStep /\ row' \in [Connections -> Rows \cup {None}]
  <1>1. CASE Updates(c, r)
    BY <1>1 DEF Update, Updates, RowStep
  <1>2. CASE ~Updates(c, r)
    BY <1>2 DEF Update, RowStep
  <1> QED
    BY <1>1, <1>2

LEMMA MarkShape ==
  ASSUME row \in [Connections -> Rows \cup {None}], NEW o \in Ops, op[o].conn \in Connections,
         op[o].row \in Rows, op[o].step = "exchange", Mark(op[o].conn, op[o].row)
  PROVE  RowStep /\ row' \in [Connections -> Rows \cup {None}]
  <1> DEFINE r == [op[o].row EXCEPT !.status = "open"]
  <1>1. r \in Rows /\ Keeps(o, op[o].conn, r)
    BY DEF Rows, Statuses, Keeps, Holds
  <1>2. CASE Update(op[o].conn, r)
    BY <1>1, <1>2, UpdateShape
  <1>3. CASE row' = row
    BY <1>3 DEF RowStep
  <1> QED
    BY <1>2, <1>3 DEF Mark

LEMMA DiscardShape ==
  ASSUME row \in [Connections -> Rows \cup {None}], NEW c \in Connections, Discard(c)
  PROVE  RowStep /\ row' \in [Connections -> Rows \cup {None}]
  BY DEF Discard, RowStep

(* A deletion that succeeds or fails takes a secret away or leaves it.     *)
LEMMA DeleteShape ==
  ASSUME Tables, NEW s \in Secrets \cup {None}, Delete(s) \/ Deleted(s)
  PROVE  /\ secret' \in [Secrets -> Accounts \cup {None}] /\ forgotten' \subseteq Secrets
         /\ SecretStep
  <1>1. CASE UNCHANGED <<secret, forgotten>>
    BY <1>1 DEF Tables, SecretStep
  <1>2. ASSUME s \in Secrets, UNCHANGED secret, forgotten' = forgotten \cup {s}
        PROVE  /\ secret' \in [Secrets -> Accounts \cup {None}] /\ forgotten' \subseteq Secrets
               /\ SecretStep
    BY <1>2 DEF Tables, SecretStep
  <1>3. ASSUME s \in Secrets, secret' = Without(forgotten \cup {s}), forgotten' = {}
        PROVE  /\ secret' \in [Secrets -> Accounts \cup {None}] /\ forgotten' \subseteq Secrets
               /\ SecretStep
    BY <1>3 DEF Tables, SecretStep, Without
  <1> QED
    BY <1>1, <1>2, <1>3 DEF Delete, Deleted, NotDeleted, Readable

LEMMA TypeInit == Init => TypeOK /\ Located
  BY NoneAssumption DEF Init, TypeOK, Located, NoOp, NewRow, OpStates, Rows, Statuses, Steps

(* Every action but PutSecret is tame.                                     *)
LEMMA TameStep ==
  TypeOK /\ Located /\ Next => Tame \/ \E o \in Ops, s \in Secrets : PutSecret(o, s)
  <1> SUFFICES ASSUME TypeOK, Located, Next
               PROVE  Tame \/ \E o \in Ops, s \in Secrets : PutSecret(o, s)
    OBVIOUS
  <1>0. /\ Tables
        /\ \A o \in Ops : op[o] \in OpStates
        /\ op \in [Ops -> OpStates]
        /\ \A c \in Connections : row[c] # None => row[c] \in Rows
        /\ \A o \in Ops : op[o].step \in {"read", "refresh"} => lock[op[o].conn] = o
    BY DEF TypeOK, Tables
  <1>00. /\ \A o \in Ops : op[o].row \in Rows /\ op[o].ref \in Secrets \cup {None} /\ op[o].conn \in Connections \cup {None}
         /\ NoOp \in OpStates /\ NewRow \in Rows
    BY <1>0 DEF OpStates, NoOp, NewRow, Rows, Statuses, Steps
  <1> USE NoneAssumption, <1>0, <1>00
  <1>1. ASSUME NEW c \in Connections, CreateProductConnection(c)
       PROVE  Tame
    <2>1. row' = [row EXCEPT ![c] = NewRow] /\ created' = created \cup {c}
          /\ UNCHANGED <<oauth, secret, forgotten, lock, doomed, op, issued, asked>>
      BY <1>1 DEF CreateProductConnection
    <2>2. Tables'
      BY <2>1 DEF Tables
    <2>3. RowStep
      BY <2>1 DEF RowStep
    <2> QED
      BY <2>1, <2>2, <2>3 DEF Tame, OpStep, SecretStep
  <1>2. ASSUME NEW o \in Ops, NEW c \in Connections, StartTouch(o, c)
       PROVE  Tame
    <2>0. /\ op[o].step # "idle" => op[o].conn \in Connections
          /\ op[o].step = "save" => op[o].row.ref \in Secrets
      BY DEF Located, Rows
    <2>1. ASSUME op' = [op EXCEPT ![o] = [NoOp EXCEPT !.step = "touch", !.conn = c, !.row = row[c]]],
                 row[c] # None /\ UNCHANGED lock
          PROVE  OpStep
      <3> DEFINE r == [NoOp EXCEPT !.step = "touch", !.conn = c, !.row = row[c]]
      <3>1. r \in OpStates
        BY <2>0, <2>1 DEF OpStates, Rows, Statuses, Steps, NoOp, NewRow, Tables
      <3>2. Goes(o, r)
        BY <2>0, <2>1, <3>1 DEF Goes, NoOp, OpStates, Tables
      <3>3. Kind(o, r)
        BY <2>0, <2>1 DEF Kind, Bare, Copies, Keeps, Holds, NoOp, NewRow, OpStates, Rows
      <3> QED
        BY <3>1, <3>2, <3>3 DEF OpStep
    <2>2. OpStep
      BY <1>2, <2>1 DEF StartTouch, Begins, Goto
    <2>3. RowStep /\ row' \in [Connections -> Rows \cup {None}]
      BY <1>2 DEF StartTouch, Begins, Goto, RowStep, Tables
    <2>4. Tables' /\ SecretStep /\ issued' = issued
      BY <1>2, <2>0, <2>3 DEF StartTouch, Begins, Goto, Tables, SecretStep, ids
    <2> QED
      BY <2>2, <2>3, <2>4 DEF Tame
  <1>3. ASSUME NEW o \in Ops, NEW c \in Connections, NEW s \in States, BeginOAuth(o, c, s)
       PROVE  Tame
    <2>0. /\ op[o].step # "idle" => op[o].conn \in Connections
          /\ op[o].step = "save" => op[o].row.ref \in Secrets
      BY DEF Located, Rows
    <2>1. ASSUME op' = [op EXCEPT ![o] = [NoOp EXCEPT !.step = "touch", !.conn = c, !.row = row[c]]],
                 row[c] # None /\ UNCHANGED lock
          PROVE  OpStep
      <3> DEFINE r == [NoOp EXCEPT !.step = "touch", !.conn = c, !.row = row[c]]
      <3>1. r \in OpStates
        BY <2>0, <2>1 DEF OpStates, Rows, Statuses, Steps, NoOp, NewRow, Tables
      <3>2. Goes(o, r)
        BY <2>0, <2>1, <3>1 DEF Goes, NoOp, OpStates, Tables
      <3>3. Kind(o, r)
        BY <2>0, <2>1 DEF Kind, Bare, Copies, Keeps, Holds, NoOp, NewRow, OpStates, Rows
      <3> QED
        BY <3>1, <3>2, <3>3 DEF OpStep
    <2>2. OpStep
      BY <1>3, <2>1 DEF BeginOAuth, Begins, Goto
    <2>3. RowStep /\ row' \in [Connections -> Rows \cup {None}]
      BY <1>3 DEF BeginOAuth, Begins, Goto, RowStep, Tables
    <2>4. Tables' /\ SecretStep /\ issued' = issued
      BY <1>3, <2>0, <2>3 DEF BeginOAuth, Begins, Goto, Tables, SecretStep, ids
    <2> QED
      BY <2>2, <2>3, <2>4 DEF Tame
  <1>4. ASSUME NEW o \in Ops, NEW c \in Connections, StartToken(o, c)
       PROVE  Tame
    <2>0. /\ op[o].step # "idle" => op[o].conn \in Connections
          /\ op[o].step = "save" => op[o].row.ref \in Secrets
      BY DEF Located, Rows
    <2>1. ASSUME op' = [op EXCEPT ![o] = [NoOp EXCEPT !.step = "read", !.conn = c]],
                 lock[c] = None /\ lock' = [lock EXCEPT ![c] = o]
          PROVE  OpStep
      <3> DEFINE r == [NoOp EXCEPT !.step = "read", !.conn = c]
      <3>1. r \in OpStates
        BY DEF OpStates, Rows, Statuses, Steps, NoOp, NewRow
      <3>2. Goes(o, r)
        BY <2>0, <2>1, <3>1 DEF Goes, NoOp, OpStates, Tables
      <3>3. Kind(o, r)
        BY <2>0, <2>1 DEF Kind, Bare, Copies, Keeps, Holds, NoOp, NewRow, OpStates, Rows
      <3> QED
        BY <3>1, <3>2, <3>3 DEF OpStep
    <2>2. OpStep
      BY <1>4, <2>1 DEF StartToken, Unlocked, Begins, Goto
    <2>3. RowStep /\ row' \in [Connections -> Rows \cup {None}]
      BY <1>4 DEF StartToken, Unlocked, Begins, Goto, RowStep, Tables
    <2>4. Tables' /\ SecretStep /\ issued' = issued
      BY <1>4, <2>0, <2>3 DEF StartToken, Unlocked, Begins, Goto, Tables, SecretStep, ids
    <2> QED
      BY <2>2, <2>3, <2>4 DEF Tame
  <1>5. ASSUME NEW o \in Ops, NEW c \in Connections, StartDisconnect(o, c)
       PROVE  Tame
    <2>0. /\ op[o].step # "idle" => op[o].conn \in Connections
          /\ op[o].step = "save" => op[o].row.ref \in Secrets
      BY DEF Located, Rows
    <2>1. ASSUME op' = [op EXCEPT ![o] = [NoOp EXCEPT !.step = "revoke", !.conn = c, !.row = row[c]]],
                 row[c] # None /\ UNCHANGED lock
          PROVE  OpStep
      <3> DEFINE r == [NoOp EXCEPT !.step = "revoke", !.conn = c, !.row = row[c]]
      <3>1. r \in OpStates
        BY <2>0, <2>1 DEF OpStates, Rows, Statuses, Steps, NoOp, NewRow, Tables
      <3>2. Goes(o, r)
        BY <2>0, <2>1, <3>1 DEF Goes, NoOp, OpStates, Tables
      <3>3. Kind(o, r)
        BY <2>0, <2>1 DEF Kind, Bare, Copies, Keeps, Holds, NoOp, NewRow, OpStates, Rows
      <3> QED
        BY <3>1, <3>2, <3>3 DEF OpStep
    <2>2. OpStep
      BY <1>5, <2>1 DEF StartDisconnect, Begins, Goto
    <2>3. RowStep /\ row' \in [Connections -> Rows \cup {None}]
      BY <1>5 DEF StartDisconnect, Begins, Goto, RowStep, Tables
    <2>4. Tables' /\ SecretStep /\ issued' = issued
      BY <1>5, <2>0, <2>3 DEF StartDisconnect, Begins, Goto, Tables, SecretStep, ids
    <2> QED
      BY <2>2, <2>3, <2>4 DEF Tame
  <1>6. ASSUME NEW o \in Ops, NEW s \in States, SelectState(o, s)
       PROVE  Tame
    <2>0. /\ op[o].step # "idle" => op[o].conn \in Connections
          /\ op[o].step = "save" => op[o].row.ref \in Secrets
      BY DEF Located, Rows
    <2>1. ASSUME op' = [op EXCEPT ![o] = [NoOp EXCEPT !.step = "take", !.conn = oauth[s], !.state = s]],
                 oauth[s] # None /\ UNCHANGED lock
          PROVE  OpStep
      <3> DEFINE r == [NoOp EXCEPT !.step = "take", !.conn = oauth[s], !.state = s]
      <3>1. r \in OpStates
        BY <2>0, <2>1 DEF OpStates, Rows, Statuses, Steps, NoOp, NewRow, Tables
      <3>2. Goes(o, r)
        BY <2>0, <2>1, <3>1 DEF Goes, NoOp, OpStates, Tables
      <3>3. Kind(o, r)
        BY <2>0, <2>1 DEF Kind, Bare, Copies, Keeps, Holds, NoOp, NewRow, OpStates, Rows
      <3> QED
        BY <3>1, <3>2, <3>3 DEF OpStep
    <2>2. OpStep
      BY <1>6, <2>1 DEF SelectState, Begins, Goto
    <2>3. RowStep /\ row' \in [Connections -> Rows \cup {None}]
      BY <1>6 DEF SelectState, Begins, Goto, RowStep, Tables
    <2>4. Tables' /\ SecretStep /\ issued' = issued
      BY <1>6, <2>0, <2>3 DEF SelectState, Begins, Goto, Tables, SecretStep, ids
    <2> QED
      BY <2>2, <2>3, <2>4 DEF Tame
  <1>7. ASSUME NEW o \in Ops, Touch(o)
       PROVE  Tame
    <2>0. /\ op[o].step # "idle" => op[o].conn \in Connections
          /\ op[o].step = "save" => op[o].row.ref \in Secrets
      BY DEF Located, Rows
    <2>1. ASSUME op' = [op EXCEPT ![o] = NoOp],
                 lock' = [x \in Connections |-> IF lock[x] = o THEN None ELSE lock[x]]
          PROVE  OpStep
      <3> DEFINE r == NoOp
      <3>1. r \in OpStates
        BY DEF OpStates, Rows, Statuses, Steps, NoOp, NewRow
      <3>2. Goes(o, r)
        BY <2>0, <2>1, <3>1 DEF Goes, NoOp, OpStates, Tables
      <3>3. Kind(o, r)
        BY <2>0, <2>1 DEF Kind, Bare, Copies, Keeps, Holds, NoOp, NewRow, OpStates, Rows
      <3> QED
        BY <3>1, <3>2, <3>3 DEF OpStep
    <2>2. OpStep
      BY <1>7, <2>1 DEF Touch, Return, Goto
    <2>3. RowStep /\ row' \in [Connections -> Rows \cup {None}]
      <3>1. op[o].conn \in Connections /\ Keeps(o, op[o].conn, op[o].row) /\ (Update(op[o].conn, op[o].row) \/ row' = row)
        BY <1>7, <2>0 DEF Touch, Return, Goto, Keeps, Holds
      <3> QED
        BY <3>1, UpdateShape DEF RowStep, Tables
    <2>4. Tables' /\ SecretStep /\ issued' = issued
      BY <1>7, <2>0, <2>3 DEF Touch, Return, Goto, Tables, SecretStep, ids
    <2> QED
      BY <2>2, <2>3, <2>4 DEF Tame
  <1>8. ASSUME NEW o \in Ops, TakeState(o)
       PROVE  Tame
    <2>0. /\ op[o].step # "idle" => op[o].conn \in Connections
          /\ op[o].step = "save" => op[o].row.ref \in Secrets
      BY DEF Located, Rows
    <2>1. ASSUME op' = [op EXCEPT ![o] = [NoOp EXCEPT !.step = "exchange", !.conn = op[o].conn, !.row = row[op[o].conn]]],
                 op[o].step = "take" /\ row[op[o].conn] # None /\ UNCHANGED lock
          PROVE  OpStep
      <3> DEFINE r == [NoOp EXCEPT !.step = "exchange", !.conn = op[o].conn, !.row = row[op[o].conn]]
      <3>0. row[op[o].conn] \in Rows
        BY <2>0, <2>1
      <3>1. r \in OpStates
        BY <2>0, <2>1, <3>0 DEF OpStates, Rows, Statuses, Steps, NoOp, NewRow, Tables
      <3>2. Goes(o, r)
        BY <2>0, <2>1, <3>1 DEF Goes, NoOp, OpStates, Tables
      <3>3. Kind(o, r)
        BY <2>0, <2>1 DEF Kind, Bare, Copies, Keeps, Holds, NoOp, NewRow, OpStates, Rows
      <3> QED
        BY <3>1, <3>2, <3>3 DEF OpStep
    <2>2. ASSUME op' = [op EXCEPT ![o] = NoOp],
                 UNCHANGED lock
          PROVE  OpStep
      <3> DEFINE r == NoOp
      <3>1. r \in OpStates
        BY DEF OpStates, Rows, Statuses, Steps, NoOp, NewRow
      <3>2. Goes(o, r)
        BY <2>0, <2>2, <3>1 DEF Goes, NoOp, OpStates, Tables
      <3>3. Kind(o, r)
        BY <2>0, <2>2 DEF Kind, Bare, Copies, Keeps, Holds, NoOp, NewRow, OpStates, Rows
      <3> QED
        BY <3>1, <3>2, <3>3 DEF OpStep
    <2>3. OpStep
      BY <1>8, <2>1, <2>2 DEF TakeState, Goto
    <2>4. RowStep /\ row' \in [Connections -> Rows \cup {None}]
      BY <1>8 DEF TakeState, Goto, RowStep, Tables
    <2>5. Tables' /\ SecretStep /\ issued' = issued
      BY <1>8, <2>0, <2>4 DEF TakeState, Goto, Tables, SecretStep, ids
    <2> QED
      BY <2>3, <2>4, <2>5 DEF Tame
  <1>9. ASSUME NEW o \in Ops, ExchangeFails(o)
       PROVE  Tame
    <2>0. /\ op[o].step # "idle" => op[o].conn \in Connections
          /\ op[o].step = "save" => op[o].row.ref \in Secrets
      BY DEF Located, Rows
    <2>1. ASSUME op' = [op EXCEPT ![o] = NoOp],
                 UNCHANGED lock
          PROVE  OpStep
      <3> DEFINE r == NoOp
      <3>1. r \in OpStates
        BY DEF OpStates, Rows, Statuses, Steps, NoOp, NewRow
      <3>2. Goes(o, r)
        BY <2>0, <2>1, <3>1 DEF Goes, NoOp, OpStates, Tables
      <3>3. Kind(o, r)
        BY <2>0, <2>1 DEF Kind, Bare, Copies, Keeps, Holds, NoOp, NewRow, OpStates, Rows
      <3> QED
        BY <3>1, <3>2, <3>3 DEF OpStep
    <2>2. OpStep
      BY <1>9, <2>1 DEF ExchangeFails, Goto
    <2>3. RowStep /\ row' \in [Connections -> Rows \cup {None}]
      BY <1>9, <2>0, <1>0, MarkShape, DiscardShape DEF ExchangeFails, Tables
    <2>4. Tables' /\ SecretStep /\ issued' = issued
      BY <1>9, <2>0, <2>3 DEF ExchangeFails, Goto, Tables, SecretStep, ids
    <2> QED
      BY <2>2, <2>3, <2>4 DEF Tame
  <1>10. ASSUME NEW o \in Ops, NEW a \in Accounts, CheckIdentity(o, a)
       PROVE  Tame
    <2>0. /\ op[o].step # "idle" => op[o].conn \in Connections
          /\ op[o].step = "save" => op[o].row.ref \in Secrets
      BY DEF Located, Rows
    <2>1. ASSUME op' = [op EXCEPT ![o] = NoOp],
                 UNCHANGED lock
          PROVE  OpStep
      <3> DEFINE r == NoOp
      <3>1. r \in OpStates
        BY DEF OpStates, Rows, Statuses, Steps, NoOp, NewRow
      <3>2. Goes(o, r)
        BY <2>0, <2>1, <3>1 DEF Goes, NoOp, OpStates, Tables
      <3>3. Kind(o, r)
        BY <2>0, <2>1 DEF Kind, Bare, Copies, Keeps, Holds, NoOp, NewRow, OpStates, Rows
      <3> QED
        BY <3>1, <3>2, <3>3 DEF OpStep
    <2>2. ASSUME op' = [op EXCEPT ![o] = [op[o] EXCEPT !.step = "put", !.row = [op[o].row EXCEPT !.subject = a], !.account = a]],
                 op[o].step = "exchange" /\ UNCHANGED lock
          PROVE  OpStep
      <3> DEFINE r == [op[o] EXCEPT !.step = "put", !.row = [op[o].row EXCEPT !.subject = a], !.account = a]
      <3>1. r \in OpStates
        BY <2>0, <2>2 DEF OpStates, Rows, Statuses, Steps, NoOp, NewRow, Tables
      <3>2. Goes(o, r)
        BY <2>0, <2>2, <3>1 DEF Goes, NoOp, OpStates, Tables
      <3>3. Kind(o, r)
        BY <2>0, <2>2 DEF Kind, Bare, Copies, Keeps, Holds, NoOp, NewRow, OpStates, Rows
      <3> QED
        BY <3>1, <3>2, <3>3 DEF OpStep
    <2>6. ASSUME op' = [op EXCEPT ![o] = [op[o] EXCEPT !.step = "discard"]],
                 op[o].step = "exchange" /\ UNCHANGED lock
          PROVE  OpStep
      <3> DEFINE r == [op[o] EXCEPT !.step = "discard"]
      <3>1. r \in OpStates
        BY <2>0, <2>6 DEF OpStates, Rows, Statuses, Steps, NoOp, NewRow, Tables
      <3>2. Goes(o, r)
        BY <2>0, <2>6, <3>1 DEF Goes, NoOp, OpStates, Tables
      <3>3. Kind(o, r)
        BY <2>0, <2>6 DEF Kind, Bare, Copies, Keeps, Holds, NoOp, NewRow, OpStates, Rows
      <3> QED
        BY <3>1, <3>2, <3>3 DEF OpStep
    <2>3. OpStep
      BY <1>10, <2>1, <2>2, <2>6 DEF CheckIdentity, Named, Goto
    <2>4. RowStep /\ row' \in [Connections -> Rows \cup {None}]
      BY <1>10, <2>0, <1>0, MarkShape DEF CheckIdentity, RowStep, Tables
    <2>5. Tables' /\ SecretStep /\ issued' = issued
      BY <1>10, <2>0, <2>4 DEF CheckIdentity, Named, Goto, Tables, SecretStep, ids
    <2> QED
      BY <2>3, <2>4, <2>5 DEF Tame
  <1>11. ASSUME NEW o \in Ops, PutFails(o)
       PROVE  Tame
    <2>0. /\ op[o].step # "idle" => op[o].conn \in Connections
          /\ op[o].step = "save" => op[o].row.ref \in Secrets
      BY DEF Located, Rows
    <2>1. ASSUME op' = [op EXCEPT ![o] = NoOp],
                 lock' = [x \in Connections |-> IF lock[x] = o THEN None ELSE lock[x]]
          PROVE  OpStep
      <3> DEFINE r == NoOp
      <3>1. r \in OpStates
        BY DEF OpStates, Rows, Statuses, Steps, NoOp, NewRow
      <3>2. Goes(o, r)
        BY <2>0, <2>1, <3>1 DEF Goes, NoOp, OpStates, Tables
      <3>3. Kind(o, r)
        BY <2>0, <2>1 DEF Kind, Bare, Copies, Keeps, Holds, NoOp, NewRow, OpStates, Rows
      <3> QED
        BY <3>1, <3>2, <3>3 DEF OpStep
    <2>2. OpStep
      BY <1>11, <2>1 DEF PutFails, Return, Goto
    <2>3. RowStep /\ row' \in [Connections -> Rows \cup {None}]
      BY <1>11 DEF PutFails, Return, Goto, RowStep, Tables
    <2>4. Tables' /\ SecretStep /\ issued' = issued
      BY <1>11, <2>0, <2>3 DEF PutFails, Return, Goto, Tables, SecretStep, ids
    <2> QED
      BY <2>2, <2>3, <2>4 DEF Tame
  <1>12. ASSUME NEW o \in Ops, SaveRef(o)
       PROVE  Tame
    <2>0. /\ op[o].step # "idle" => op[o].conn \in Connections
          /\ op[o].step = "save" => op[o].row.ref \in Secrets
      BY DEF Located, Rows
    <2>1. ASSUME op' = [op EXCEPT ![o] = [op[o] EXCEPT !.step = "drop"]],
                 op[o].step = "save" /\ UNCHANGED lock
          PROVE  OpStep
      <3> DEFINE r == [op[o] EXCEPT !.step = "drop"]
      <3>1. r \in OpStates
        BY <2>0, <2>1 DEF OpStates, Rows, Statuses, Steps, NoOp, NewRow, Tables
      <3>2. Goes(o, r)
        BY <2>0, <2>1, <3>1 DEF Goes, NoOp, OpStates, Tables
      <3>3. Kind(o, r)
        BY <2>0, <2>1 DEF Kind, Bare, Copies, Keeps, Holds, NoOp, NewRow, OpStates, Rows
      <3> QED
        BY <3>1, <3>2, <3>3 DEF OpStep
    <2>2. OpStep
      BY <1>12, <2>1 DEF SaveRef, Goto, Updates
    <2>3. RowStep /\ row' \in [Connections -> Rows \cup {None}]
      <3>1. op[o].conn \in Connections /\ Keeps(o, op[o].conn, op[o].row) /\ (Update(op[o].conn, op[o].row) \/ row' = row)
        BY <1>12, <2>0 DEF SaveRef, Goto, Keeps, Holds
      <3> QED
        BY <3>1, UpdateShape DEF RowStep, Tables
    <2>4. Tables' /\ SecretStep /\ issued' = issued
      BY <1>12, <2>0, <2>3 DEF SaveRef, Goto, Tables, SecretStep, ids
    <2> QED
      BY <2>2, <2>3, <2>4 DEF Tame
  <1>13. ASSUME NEW o \in Ops, SaveFails(o)
       PROVE  Tame
    <2>0. /\ op[o].step # "idle" => op[o].conn \in Connections
          /\ op[o].step = "save" => op[o].row.ref \in Secrets
      BY DEF Located, Rows
    <2>1. ASSUME op' = [op EXCEPT ![o] = NoOp],
                 lock' = [x \in Connections |-> IF lock[x] = o THEN None ELSE lock[x]]
          PROVE  OpStep
      <3> DEFINE r == NoOp
      <3>1. r \in OpStates
        BY DEF OpStates, Rows, Statuses, Steps, NoOp, NewRow
      <3>2. Goes(o, r)
        BY <2>0, <2>1, <3>1 DEF Goes, NoOp, OpStates, Tables
      <3>3. Kind(o, r)
        BY <2>0, <2>1 DEF Kind, Bare, Copies, Keeps, Holds, NoOp, NewRow, OpStates, Rows
      <3> QED
        BY <3>1, <3>2, <3>3 DEF OpStep
    <2>2. OpStep
      BY <1>13, <2>1 DEF SaveFails, Return, Goto, Updates
    <2>3. RowStep /\ row' \in [Connections -> Rows \cup {None}]
      <3>1. op[o].conn \in Connections /\ Keeps(o, op[o].conn, op[o].row) /\ (Update(op[o].conn, op[o].row) \/ row' = row)
        BY <1>13, <2>0 DEF SaveFails, Return, Goto, Keeps, Holds
      <3> QED
        BY <3>1, UpdateShape DEF RowStep, Tables
    <2>4. Tables' /\ SecretStep /\ issued' = issued
      <3>1. /\ op[o].row.ref \in Secrets
            /\ Delete(op[o].row.ref) \/ UNCHANGED <<secret, forgotten>>
            /\ UNCHANGED <<oauth, ids>> /\ (UNCHANGED doomed \/ doomed' = doomed \cup {op[o].row.ref})
            /\ lock' = [c \in Connections |-> IF lock[c] = o THEN None ELSE lock[c]]
        BY <1>13, <2>0 DEF SaveFails, Return
      <3>2. /\ secret' \in [Secrets -> Accounts \cup {None}] /\ forgotten' \subseteq Secrets
            /\ SecretStep
        BY <3>1, DeleteShape DEF Tables, SecretStep
      <3> QED
        BY <2>3, <3>1, <3>2 DEF Tables, ids
    <2> QED
      BY <2>2, <2>3, <2>4 DEF Tame
  <1>14. ASSUME NEW o \in Ops, DropOld(o)
       PROVE  Tame
    <2>0. /\ op[o].step # "idle" => op[o].conn \in Connections
          /\ op[o].step = "save" => op[o].row.ref \in Secrets
      BY DEF Located, Rows
    <2>1. ASSUME op' = [op EXCEPT ![o] = Finish(op[o])],
                 op[o].step = "drop" /\ lock' = [x \in Connections |-> IF lock[x] = o THEN None ELSE lock[x]]
          PROVE  OpStep
      <3> DEFINE r == Finish(op[o])
      <3>1. r \in OpStates
        BY <2>0, <2>1 DEF OpStates, Rows, Statuses, Steps, NoOp, NewRow, Finish, Tables
      <3>2. Goes(o, r)
        BY <2>0, <2>1, <3>1 DEF Goes, NoOp, OpStates, Tables, Finish
      <3>3. Kind(o, r)
        BY <2>0, <2>1 DEF Kind, Bare, Copies, Keeps, Holds, NoOp, NewRow, OpStates, Rows, Finish
      <3> QED
        BY <3>1, <3>2, <3>3 DEF OpStep
    <2>2. OpStep
      BY <1>14, <2>1 DEF DropOld, Goto
    <2>3. RowStep /\ row' \in [Connections -> Rows \cup {None}]
      BY <1>14 DEF DropOld, Goto, RowStep, Tables
    <2>4. Tables' /\ SecretStep /\ issued' = issued
      BY <1>14, <2>0, <2>3, DeleteShape DEF DropOld, Goto, Tables, ids
    <2> QED
      BY <2>2, <2>3, <2>4 DEF Tame
  <1>15. ASSUME NEW o \in Ops, LoadToken(o)
       PROVE  Tame
    <2>0. /\ op[o].step # "idle" => op[o].conn \in Connections
          /\ op[o].step = "save" => op[o].row.ref \in Secrets
      BY DEF Located, Rows
    <2>1. ASSUME op' = [op EXCEPT ![o] = NoOp],
                 lock' = [x \in Connections |-> IF lock[x] = o THEN None ELSE lock[x]]
          PROVE  OpStep
      <3> DEFINE r == NoOp
      <3>1. r \in OpStates
        BY DEF OpStates, Rows, Statuses, Steps, NoOp, NewRow
      <3>2. Goes(o, r)
        BY <2>0, <2>1, <3>1 DEF Goes, NoOp, OpStates, Tables
      <3>3. Kind(o, r)
        BY <2>0, <2>1 DEF Kind, Bare, Copies, Keeps, Holds, NoOp, NewRow, OpStates, Rows
      <3> QED
        BY <3>1, <3>2, <3>3 DEF OpStep
    <2>2. ASSUME op' = [op EXCEPT ![o] = [[op[o] EXCEPT !.row = row[op[o].conn]] EXCEPT !.step = "touch", !.row.status = "open"]],
                 op[o].step = "read" /\ row[op[o].conn] # None /\ UNCHANGED lock
          PROVE  OpStep
      <3> DEFINE r == [[op[o] EXCEPT !.row = row[op[o].conn]] EXCEPT !.step = "touch", !.row.status = "open"]
      <3>0. row[op[o].conn] \in Rows
        BY <2>0, <2>2
      <3>1. r \in OpStates
        BY <2>0, <2>2, <3>0 DEF OpStates, Rows, Statuses, Steps, NoOp, NewRow, Tables
      <3>2. Goes(o, r)
        BY <2>0, <2>2, <3>1 DEF Goes, NoOp, OpStates, Tables
      <3>3. Kind(o, r)
        BY <2>0, <2>2 DEF Kind, Bare, Copies, Keeps, Holds, NoOp, NewRow, OpStates, Rows
      <3> QED
        BY <3>1, <3>2, <3>3 DEF OpStep
    <2>3. ASSUME op' = [op EXCEPT ![o] = [[op[o] EXCEPT !.row = row[op[o].conn]] EXCEPT !.step = "refresh", !.account = secret[row[op[o].conn].ref]]],
                 op[o].step = "read" /\ row[op[o].conn] # None /\ row[op[o].conn].ref # None /\ secret[row[op[o].conn].ref] # None /\ UNCHANGED lock
          PROVE  OpStep
      <3> DEFINE r == [[op[o] EXCEPT !.row = row[op[o].conn]] EXCEPT !.step = "refresh", !.account = secret[row[op[o].conn].ref]]
      <3>0. row[op[o].conn] \in Rows
        BY <2>0, <2>3
      <3>1. r \in OpStates
        BY <2>0, <2>3, <3>0 DEF OpStates, Rows, Statuses, Steps, NoOp, NewRow, Tables
      <3>2. Goes(o, r)
        BY <2>0, <2>3, <3>1 DEF Goes, NoOp, OpStates, Tables
      <3>3. Kind(o, r)
        BY <2>0, <2>3 DEF Kind, Bare, Copies, Keeps, Holds, NoOp, NewRow, OpStates, Rows
      <3> QED
        BY <3>1, <3>2, <3>3 DEF OpStep
    <2>4. ASSUME op' = [op EXCEPT ![o] = Finish([op[o] EXCEPT !.row = row[op[o].conn]])],
                 op[o].step = "read" /\ row[op[o].conn] # None /\ lock[op[o].conn] = o /\ lock' = [lock EXCEPT ![op[o].conn] = None]
          PROVE  OpStep
      <3> DEFINE r == Finish([op[o] EXCEPT !.row = row[op[o].conn]])
      <3>0. row[op[o].conn] \in Rows
        BY <2>0, <2>4
      <3>1. r \in OpStates
        BY <2>0, <2>4, <3>0 DEF OpStates, Rows, Statuses, Steps, NoOp, NewRow, Finish, Tables
      <3>2. Goes(o, r)
        BY <2>0, <2>4, <3>1 DEF Goes, NoOp, OpStates, Tables, Finish
      <3>3. Kind(o, r)
        BY <2>0, <2>4 DEF Kind, Bare, Copies, Keeps, Holds, NoOp, NewRow, OpStates, Rows, Finish
      <3> QED
        BY <3>1, <3>2, <3>3 DEF OpStep
    <2>5. OpStep
      BY <1>15, <2>1, <2>2, <2>3, <2>4 DEF LoadToken, Readable, NeedsReconnect, Return, Goto
    <2>6. RowStep /\ row' \in [Connections -> Rows \cup {None}]
      BY <1>15 DEF LoadToken, Readable, NeedsReconnect, Return, Goto, RowStep, Tables
    <2>7. Tables' /\ SecretStep /\ issued' = issued
      BY <1>15, <2>0, <2>6 DEF LoadToken, Readable, NeedsReconnect, Return, Goto, Tables, SecretStep, ids
    <2> QED
      BY <2>5, <2>6, <2>7 DEF Tame
  <1>16. ASSUME NEW o \in Ops, RefreshFails(o)
       PROVE  Tame
    <2>0. /\ op[o].step # "idle" => op[o].conn \in Connections
          /\ op[o].step = "save" => op[o].row.ref \in Secrets
      BY DEF Located, Rows
    <2>1. ASSUME op' = [op EXCEPT ![o] = [op[o] EXCEPT !.step = "touch", !.row.status = "open"]],
                 op[o].step = "refresh" /\ UNCHANGED lock
          PROVE  OpStep
      <3> DEFINE r == [op[o] EXCEPT !.step = "touch", !.row.status = "open"]
      <3>1. r \in OpStates
        BY <2>0, <2>1 DEF OpStates, Rows, Statuses, Steps, NoOp, NewRow, Tables
      <3>2. Goes(o, r)
        BY <2>0, <2>1, <3>1 DEF Goes, NoOp, OpStates, Tables
      <3>3. Kind(o, r)
        BY <2>0, <2>1 DEF Kind, Bare, Copies, Keeps, Holds, NoOp, NewRow, OpStates, Rows
      <3> QED
        BY <3>1, <3>2, <3>3 DEF OpStep
    <2>2. OpStep
      BY <1>16, <2>1 DEF RefreshFails, NeedsReconnect, Goto
    <2>3. RowStep /\ row' \in [Connections -> Rows \cup {None}]
      BY <1>16 DEF RefreshFails, NeedsReconnect, Goto, RowStep, Tables
    <2>4. Tables' /\ SecretStep /\ issued' = issued
      BY <1>16, <2>0, <2>3 DEF RefreshFails, NeedsReconnect, Goto, Tables, SecretStep, ids
    <2> QED
      BY <2>2, <2>3, <2>4 DEF Tame
  <1>17. ASSUME NEW o \in Ops, DropCredential(o)
       PROVE  Tame
    <2>0. /\ op[o].step # "idle" => op[o].conn \in Connections
          /\ op[o].step = "save" => op[o].row.ref \in Secrets
      BY DEF Located, Rows
    <2>1. ASSUME op' = [op EXCEPT ![o] = [op[o] EXCEPT !.step = "touch", !.row = [NewRow EXCEPT !.status = "disconnected"]]],
                 op[o].step = "revoke" /\ UNCHANGED lock
          PROVE  OpStep
      <3> DEFINE r == [op[o] EXCEPT !.step = "touch", !.row = [NewRow EXCEPT !.status = "disconnected"]]
      <3>1. r \in OpStates
        BY <2>0, <2>1 DEF OpStates, Rows, Statuses, Steps, NoOp, NewRow, Tables
      <3>2. Goes(o, r)
        BY <2>0, <2>1, <3>1 DEF Goes, NoOp, OpStates, Tables
      <3>3. Kind(o, r)
        BY <2>0, <2>1 DEF Kind, Bare, Copies, Keeps, Holds, NoOp, NewRow, OpStates, Rows
      <3> QED
        BY <3>1, <3>2, <3>3 DEF OpStep
    <2>2. ASSUME op' = [op EXCEPT ![o] = NoOp],
                 UNCHANGED lock
          PROVE  OpStep
      <3> DEFINE r == NoOp
      <3>1. r \in OpStates
        BY DEF OpStates, Rows, Statuses, Steps, NoOp, NewRow
      <3>2. Goes(o, r)
        BY <2>0, <2>2, <3>1 DEF Goes, NoOp, OpStates, Tables
      <3>3. Kind(o, r)
        BY <2>0, <2>2 DEF Kind, Bare, Copies, Keeps, Holds, NoOp, NewRow, OpStates, Rows
      <3> QED
        BY <3>1, <3>2, <3>3 DEF OpStep
    <2>3. OpStep
      BY <1>17, <2>1, <2>2 DEF DropCredential, Goto
    <2>4. RowStep /\ row' \in [Connections -> Rows \cup {None}]
      BY <1>17 DEF DropCredential, Goto, RowStep, Tables
    <2>5. Tables' /\ SecretStep /\ issued' = issued
      <3>1. /\ op[o].row.ref \in Secrets \cup {None}
            /\ Delete(op[o].row.ref) \/ Deleted(op[o].row.ref)
            /\ UNCHANGED <<row, oauth, lock, doomed, ids>>
        BY <1>17 DEF DropCredential, Rows
      <3>2. /\ secret' \in [Secrets -> Accounts \cup {None}] /\ forgotten' \subseteq Secrets
            /\ SecretStep
        BY <3>1, DeleteShape
      <3> QED
        BY <3>1, <3>2 DEF Tables, ids
    <2> QED
      BY <2>3, <2>4, <2>5 DEF Tame
  <1>20. ASSUME NEW o \in Ops, DiscardStub(o)
       PROVE  Tame
    <2>0. /\ op[o].step # "idle" => op[o].conn \in Connections
          /\ op[o].step = "save" => op[o].row.ref \in Secrets
      BY DEF Located, Rows
    <2>1. ASSUME op' = [op EXCEPT ![o] = NoOp],
                 UNCHANGED lock
          PROVE  OpStep
      <3> DEFINE r == NoOp
      <3>1. r \in OpStates
        BY DEF OpStates, Rows, Statuses, Steps, NoOp, NewRow
      <3>2. Goes(o, r)
        BY <2>0, <2>1, <3>1 DEF Goes, NoOp, OpStates, Tables
      <3>3. Kind(o, r)
        BY <2>0, <2>1 DEF Kind, Bare, Copies, Keeps, Holds, NoOp, NewRow, OpStates, Rows
      <3> QED
        BY <3>1, <3>2, <3>3 DEF OpStep
    <2>2. OpStep
      BY <1>20, <2>1 DEF DiscardStub, Goto
    <2>3. RowStep /\ row' \in [Connections -> Rows \cup {None}]
      BY <1>20, <2>0, DiscardShape DEF DiscardStub, RowStep, Tables
    <2>4. Tables' /\ SecretStep /\ issued' = issued
      BY <1>20, <2>0, <2>3 DEF DiscardStub, Goto, Tables, SecretStep, ids
    <2> QED
      BY <2>2, <2>3, <2>4 DEF Tame
  <1>18. ASSUME NEW s \in Secrets, Reap(s)
       PROVE  Tame
    BY <1>18, DeleteShape DEF Reap, Tame, Tables, RowStep, OpStep, ids
  <1>19. ASSUME Restart
       PROVE  Tame
    BY <1>19 DEF Restart, Tame, Tables, RowStep, OpStep, SecretStep, ids
  <1> QED
    BY <1>1, <1>2, <1>3, <1>4, <1>5, <1>6, <1>7, <1>8, <1>9, <1>10, <1>11, <1>12, <1>13, <1>14, <1>15, <1>16, <1>17, <1>18, <1>19, <1>20 DEF Next, Arrive, Step

(* PutSecret gives the copy of its operation a reference nobody has.       *)
Puts(o, s) ==
  LET r == op'[o] IN
  /\ op[o].step \in {"put", "refresh"}
  /\ s \notin issued
  /\ issued' = issued \cup {s}
  /\ secret'[s] = op[o].account
  /\ \A x \in Secrets \ {s} : secret'[x] \in {secret[x], None}
  /\ r \in OpStates
  /\ op' = [op EXCEPT ![o] = r]
  /\ r.step = "save" /\ r.conn = op[o].conn
  /\ r.row.ref = s /\ r.row.subject = op[o].row.subject
  /\ UNCHANGED <<row, lock>>

LEMMA PutStep ==
  ASSUME TypeOK, Located, NEW o \in Ops, NEW s \in Secrets, PutSecret(o, s)
  PROVE  Puts(o, s) /\ Tables'
  <1> DEFINE r == [op[o] EXCEPT !.step = "save", !.account = None,
                                !.ref = op[o].row.ref, !.row.ref = s]
  <1>1. op \in [Ops -> OpStates] /\ op[o] \in OpStates /\ Tables
    BY DEF TypeOK, Tables
  <1>2. r \in OpStates /\ op[o].account \in Accounts \cup {None}
    BY <1>1 DEF OpStates, Rows, Steps
  <1>3. op' = [op EXCEPT ![o] = r] /\ op'[o] = r
    BY <1>1 DEF PutSecret, Goto
  <1>4. r.step = "save" /\ r.conn = op[o].conn /\ r.row.ref = s /\ r.row.subject = op[o].row.subject
    BY <1>1 DEF OpStates, Rows
  <1>5. /\ secret'[s] = op[o].account
        /\ \A x \in Secrets \ {s} : secret'[x] \in {secret[x], None}
    BY <1>1 DEF PutSecret, Without, Tables
  <1>6. Tables'
    BY <1>1, <1>2 DEF PutSecret, Without, Tables
  <1> QED
    BY <1>1, <1>2, <1>3, <1>4, <1>5, <1>6 DEF PutSecret, Puts

(* Every action keeps every variable in its type, the lock of a connection *)
(* with the operation that reads or refreshes its token, and the           *)
(* connection of every operation.                                          *)
LEMMA TypeStep == TypeOK /\ Located /\ [Next]_vars => TypeOK' /\ Located'
  <1> SUFFICES ASSUME TypeOK, Located, [Next]_vars
               PROVE  TypeOK' /\ Located'
    OBVIOUS
  <1>0. op \in [Ops -> OpStates] /\ Tables
    BY DEF TypeOK, Tables
  <1>1. CASE Tame
    <2>1. CASE op' = op /\ lock' = lock
      BY <1>0, <1>1, <2>1 DEF Tame, Tables, TypeOK, Located
    <2>2. CASE op' = [o \in Ops |-> NoOp]
      <3>1. NoOp \in OpStates /\ NoOp.step = "idle"
        BY DEF NoOp, NewRow, OpStates, Rows, Statuses, Steps
      <3> QED
        BY <1>1, <2>2, <3>1 DEF Tame, Tables, TypeOK, Located
    <2>3. ASSUME NEW o \in Ops, NEW r \in OpStates, Goes(o, r)
          PROVE  TypeOK' /\ Located'
      <3>1. op' \in [Ops -> OpStates] /\ \A p \in Ops : op'[p] = IF p = o THEN r ELSE op[p]
        BY <1>0, <2>3 DEF Goes
      <3>2. Located'
        BY <2>3, <3>1 DEF Goes, Located
      <3>3. ASSUME NEW p \in Ops, op'[p].step \in {"read", "refresh"}
            PROVE  lock'[op'[p].conn] = p
        <4>1. CASE p = o
          BY <2>3, <3>1, <3>3, <4>1 DEF Goes
        <4>2. CASE p # o
          <5>1. lock[op[p].conn] = p /\ op[p].conn \in Connections
            BY <3>1, <3>3, <4>2 DEF TypeOK, Located
          <5> QED
            BY NoneAssumption, <2>3, <3>1, <4>2, <5>1 DEF Goes
        <4> QED
          BY <4>1, <4>2
      <3> QED
        BY <1>1, <3>1, <3>2, <3>3 DEF Tame, Tables, TypeOK
    <2> QED
      BY <1>1, <2>1, <2>2, <2>3 DEF Tame, OpStep
  <1>2. ASSUME NEW o \in Ops, NEW s \in Secrets, PutSecret(o, s)
        PROVE  TypeOK' /\ Located'
    <2>1. Puts(o, s) /\ Tables'
      BY <1>2, PutStep
    <2>2. op' \in [Ops -> OpStates] /\ \A p \in Ops : p # o => op'[p] = op[p]
      BY <1>0, <2>1 DEF Puts
    <2>3. Located'
      BY NoneAssumption, <2>1, <2>2 DEF Puts, Located
    <2>4. \A p \in Ops : op'[p].step \in {"read", "refresh"} => lock'[op'[p].conn] = p
      BY <2>1, <2>2 DEF Puts, TypeOK
    <2> QED
      BY <2>1, <2>2, <2>3, <2>4 DEF Tables, TypeOK
  <1>3. CASE UNCHANGED vars
    BY <1>3 DEF vars, ids, TypeOK, Located
  <1> QED
    BY <1>1, <1>2, <1>3, TameStep

-----------------------------------------------------------------------------
(* The invariants                                                          *)

LEMMA Initially == Init => IInv
  <1> SUFFICES ASSUME Init
               PROVE  IInv
    OBVIOUS
  <1>1. TypeOK /\ Located
    BY TypeInit
  <1>2. \A o \in Ops : op[o] = NoOp /\ op[o].row.ref = None /\ op[o].step = "idle"
    BY DEF Init, NoOp, NewRow
  <1>3. Matching /\ Issued /\ Unique
    BY <1>2 DEF Init, Matching, Matches, Issued, Unique
  <1>4. Owned
    BY <1>2 DEF Init, Owned, Uses
  <1> QED
    BY <1>1, <1>3, <1>4 DEF IInv

(* A tame step ends with rows and copies that were there.                  *)
LEMMA TameShape ==
  ASSUME TypeOK, Located, Tame
  PROVE  /\ \A c \in Connections :
              \/ row'[c] = row[c] \/ row'[c] = None \/ row'[c] = NewRow
              \/ ~Conflicts(c, row'[c]) /\ \E o \in Ops : Keeps(o, c, row'[c])
         /\ \A o \in Ops : op'[o] = op[o] \/ op'[o] = NoOp \/ Kind(o, op'[o])
         /\ \A c, d \in Connections : row'[c] = row[c] \/ row'[d] = row[d] \/ c = d
  <1>1. row \in [Connections -> Rows \cup {None}] /\ op \in [Ops -> OpStates]
    BY DEF TypeOK
  <1>2. \A o \in Ops : op'[o] = op[o] \/ op'[o] = NoOp \/ Kind(o, op'[o])
    <2>1. CASE op' = op \/ op' = [o \in Ops |-> NoOp]
      BY <2>1
    <2>2. ASSUME NEW o \in Ops, NEW r \in OpStates, Goes(o, r), Kind(o, r)
          PROVE  \A p \in Ops : op'[p] = op[p] \/ Kind(p, op'[p])
      BY <1>1, <2>2 DEF Goes
    <2> QED
      BY <2>1, <2>2 DEF Tame, OpStep
  <1>3. CASE row' = row
    BY <1>2, <1>3
  <1>4. ASSUME NEW c \in Connections, NEW r \in Rows \cup {None}, row' = [row EXCEPT ![c] = r],
               r = None \/ r = NewRow \/ (~Conflicts(c, r) /\ \E o \in Ops : Keeps(o, c, r))
        PROVE  /\ \A d \in Connections :
                    \/ row'[d] = row[d] \/ row'[d] = None \/ row'[d] = NewRow
                    \/ ~Conflicts(d, row'[d]) /\ \E o \in Ops : Keeps(o, d, row'[d])
               /\ \A d, e \in Connections : row'[d] = row[d] \/ row'[e] = row[e] \/ d = e
    <2>1. \A d \in Connections : row'[d] = IF d = c THEN r ELSE row[d]
      BY <1>1, <1>4
    <2> QED
      BY <1>4, <2>1
  <1> QED
    BY <1>2, <1>3, <1>4 DEF Tame, RowStep

LEMMA TameMatching == ASSUME IInv, Tame, TypeOK' PROVE Matching'
  <1>0. /\ TypeOK /\ Located /\ Matching
        /\ \A c \in Connections : row[c] # None => row[c].ref \in Secrets \cup {None}
        /\ \A o \in Ops : op[o].row.ref \in Secrets \cup {None}
    BY DEF IInv, TypeOK, OpStates, Rows
  <1> DEFINE Good(r) == r.ref # None /\ secret'[r.ref] # None => secret'[r.ref] = r.subject
  <1>1. ASSUME NEW r, r.ref \in Secrets \cup {None}, Matches(r)
        PROVE  Good(r)
    BY <1>1 DEF Matches, Tame, SecretStep
  <1>2. ASSUME NEW c \in Connections, row'[c] # None
        PROVE  Good(row'[c])
    <2>1. CASE row'[c] = row[c]
      BY <1>0, <1>1, <1>2, <2>1 DEF Matching
    <2>2. CASE row'[c] = NewRow
      BY <2>2 DEF NewRow
    <2>3. ASSUME NEW o \in Ops, Keeps(o, c, row'[c])
          PROVE  Good(row'[c])
      BY <1>0, <1>1, <2>3 DEF Matching, Keeps, Holds
    <2> QED
      BY <1>0, <1>2, <2>1, <2>2, <2>3, TameShape
  <1>3. ASSUME NEW o \in Ops
        PROVE  /\ op'[o].step # "put" => Good(op'[o].row)
               /\ op'[o].step \in {"put", "refresh"} => op'[o].account = op'[o].row.subject
    <2>1. CASE op'[o] = op[o]
      BY <1>0, <1>1, <2>1 DEF Matching
    <2>2. CASE op'[o] = NoOp \/ Bare(op'[o])
      BY <2>2 DEF NoOp, NewRow, Bare
    <2>3. CASE Copies(op'[o])
      BY <1>0, <1>1, <2>3 DEF Matching, Matches, Copies
    <2>4. CASE Keeps(o, op'[o].conn, op'[o].row) /\ op'[o].step \notin {"put", "refresh"}
      BY <1>0, <1>1, <2>4 DEF Matching, Keeps, Holds
    <2>5. CASE op'[o].step = "put" /\ op'[o].account = op'[o].row.subject
      BY <2>5
    <2> QED
      BY <1>0, <2>1, <2>2, <2>3, <2>4, <2>5, TameShape DEF Kind
  <1> QED
    BY <1>2, <1>3 DEF Matching, Matches

LEMMA TameOwned == ASSUME IInv, Tame PROVE Issued' /\ Owned'
  <1>0. TypeOK /\ Located /\ Issued /\ Owned
    BY DEF IInv
  <1>1. \A c \in Connections : row'[c] # None => row'[c].ref \in issued \cup {None}
    BY <1>0, TameShape DEF Issued, Keeps, Holds, NewRow
  <1>2. \A o \in Ops : op'[o].row.ref \in issued \cup {None}
    BY <1>0, TameShape DEF Issued, Kind, Bare, Copies, Keeps, Holds, NoOp, NewRow
  <1>3. ASSUME NEW s \in Secrets, NEW c \in Connections, Uses(s, c)'
        PROVE  Uses(s, c)
    <2>0. s # None
      BY NoneAssumption
    <2>1. CASE row'[c] # None /\ row'[c].ref = s
      BY <1>0, <2>0, <2>1, TameShape DEF Uses, Keeps, Holds, NewRow
    <2>2. ASSUME NEW o \in Ops, op'[o].step # "idle", op'[o].conn = c, op'[o].row.ref = s
          PROVE  Uses(s, c)
      BY <1>0, <2>0, <2>2, TameShape DEF Uses, Kind, Bare, Copies, Keeps, Holds, NoOp
    <2> QED
      BY <1>3, <2>1, <2>2 DEF Uses
  <1>4. Owned'
    BY <1>0, <1>3 DEF Owned
  <1> QED
    BY <1>1, <1>2, <1>4 DEF Issued, Tame

LEMMA TameUnique == ASSUME IInv, Tame PROVE Unique'
  <1> DEFINE Live(c) == row'[c] # None /\ row'[c].subject # None /\ row'[c].status # "disconnected"
  <1>0. TypeOK /\ Located /\ Unique
    BY DEF IInv
  <1> SUFFICES ASSUME NEW c \in Connections, NEW d \in Connections, c # d,
                      Live(c), Live(d), row'[d].subject = row'[c].subject
               PROVE  FALSE
    BY DEF Unique
  <1>1. ASSUME NEW x \in Connections, NEW y \in Connections, x # y, Live(x), Live(y),
               row'[y].subject = row'[x].subject, row'[y] = row[y]
        PROVE  FALSE
    <2>1. CASE row'[x] = row[x]
      BY <1>0, <1>1, <2>1 DEF Unique
    <2>2. CASE row'[x] = NewRow
      BY <1>1, <2>2 DEF NewRow
    <2>3. CASE ~Conflicts(x, row'[x])
      BY <1>1, <2>3 DEF Conflicts
    <2> QED
      BY <1>0, <1>1, <2>1, <2>2, <2>3, TameShape
  <1>2. row'[c] = row[c] \/ row'[d] = row[d]
    BY <1>0, TameShape
  <1> QED
    BY <1>1, <1>2

LEMMA PutKeeps ==
  ASSUME IInv, NEW o \in Ops, NEW s \in Secrets, Puts(o, s)
  PROVE  Matching' /\ Issued' /\ Owned' /\ Unique'
  <1>0. /\ TypeOK /\ Located /\ Matching /\ Issued /\ Owned /\ Unique
        /\ secret \in [Secrets -> Accounts \cup {None}]
        /\ \A p \in Ops : p # o => op'[p] = op[p]
        /\ s # None
    BY NoneAssumption DEF IInv, TypeOK, Puts
  <1>1. Matching'
    <2> DEFINE Good(r) == r.ref # None /\ secret'[r.ref] # None => secret'[r.ref] = r.subject
    <2>1. ASSUME NEW r, r.ref \in issued \cup {None}, Matches(r)
          PROVE  Good(r)
      <3>1. issued \subseteq Secrets
        BY <1>0 DEF TypeOK
      <3>2. r.ref # None => r.ref \in Secrets \ {s} /\ secret'[r.ref] \in {secret[r.ref], None}
        BY <2>1, <3>1 DEF Puts
      <3> QED
        BY <2>1, <3>2 DEF Matches
    <2>2. \A c \in Connections : row'[c] # None => Good(row'[c])
      BY <1>0, <2>1 DEF Matching, Issued, Puts
    <2>3. ASSUME NEW p \in Ops
          PROVE  /\ op'[p].step # "put" => Good(op'[p].row)
                 /\ op'[p].step \in {"put", "refresh"} => op'[p].account = op'[p].row.subject
      <3>1. CASE p # o
        BY <1>0, <2>1, <3>1 DEF Matching, Issued
      <3>2. CASE p = o
        BY <1>0, <3>2 DEF Matching, Puts
      <3> QED
        BY <3>1, <3>2
    <2> QED
      BY <2>2, <2>3 DEF Matching, Matches
  <1>2. Issued'
    BY <1>0 DEF Issued, Puts
  <1>3. Owned'
    <2>1. ASSUME NEW x \in Secrets, NEW c \in Connections, Uses(x, c)'
          PROVE  IF x = s THEN c = op[o].conn ELSE Uses(x, c)
      <3>1. CASE row'[c] # None /\ row'[c].ref = x
        BY <1>0, <3>1 DEF Uses, Issued, Puts
      <3>2. ASSUME NEW p \in Ops, op'[p].step # "idle", op'[p].conn = c, op'[p].row.ref = x
            PROVE  IF x = s THEN c = op[o].conn ELSE Uses(x, c)
        BY <1>0, <3>2 DEF Uses, Issued, Puts
      <3> QED
        BY <2>1, <3>1, <3>2 DEF Uses
    <2> QED
      BY <1>0, <2>1 DEF Owned
  <1>4. Unique'
    BY <1>0 DEF Unique, Puts
  <1> QED
    BY <1>1, <1>2, <1>3, <1>4

LEMMA Inductive == IInv /\ [Next]_vars => IInv'
  <1> SUFFICES ASSUME IInv, [Next]_vars
               PROVE  IInv'
    OBVIOUS
  <1>1. TypeOK /\ Located /\ TypeOK' /\ Located'
    BY TypeStep DEF IInv
  <1>2. CASE Tame
    BY <1>1, <1>2, TameMatching, TameOwned, TameUnique DEF IInv
  <1>3. ASSUME NEW o \in Ops, NEW s \in Secrets, PutSecret(o, s)
        PROVE  IInv'
    BY <1>1, <1>3, PutStep, PutKeeps DEF IInv
  <1>4. CASE UNCHANGED vars
    BY <1>1, <1>4 DEF vars, ids, IInv, Matching, Matches, Issued, Owned, Uses, Unique
  <1> QED
    BY <1>1, <1>2, <1>3, <1>4, TameStep

LEMMA Invariance == Spec => []IInv
  BY Initially, Inductive, PTL DEF Spec

-----------------------------------------------------------------------------
(* Rows, secrets, copies and locks keep their types, and two operations    *)
(* never refresh the token of one connection at a time                     *)
(* (ensureFreshToken).                                                     *)
THEOREM TypeCorrect == Spec => []TypeOK
  <1>1. IInv => TypeOK
    BY DEF IInv
  <1> QED
    BY <1>1, Invariance, PTL

(* However many requests write their old copies of a connection back, the  *)
(* credential it refers to, where it is stored, is of the Google account   *)
(* it shows (CompleteOAuth, saveToken, Refresh, Disconnect).               *)
THEOREM CredentialsMatch == Spec => []CredentialMatchesIdentity
  <1>1. IInv => CredentialMatchesIdentity
    BY DEF IInv, Matching, Matches, CredentialMatchesIdentity
  <1> QED
    BY <1>1, Invariance, PTL

(* No Google account is connected twice and no credential is shared: by    *)
(* the unique index alone, whatever the conflict query saw.                *)
THEOREM IdentitiesAreUnique == Spec => []IdentityHasOneConnection
  <1>1. ASSUME IInv
        PROVE  IdentityHasOneConnection
    <2> SUFFICES ASSUME NEW c \in Connections, NEW d \in Connections, c # d,
                        row[c] # None, row[d] # None,
                        row[c].status # "disconnected", row[d].status # "disconnected"
                 PROVE  /\ row[c].subject = row[d].subject => row[c].subject = None
                        /\ row[c].ref = row[d].ref => row[c].ref = None
      BY DEF IdentityHasOneConnection
    <2>1. row[c].ref \in Secrets \cup {None}
      BY <1>1 DEF IInv, TypeOK, Rows
    <2> QED
      BY <1>1, <2>1 DEF IInv, Unique, Owned, Uses
  <1> QED
    BY <1>1, Invariance, PTL
=============================================================================
