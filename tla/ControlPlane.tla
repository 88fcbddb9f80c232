----------------------------- MODULE ControlPlane -----------------------------
(***************************************************************************)
(* The self-hosted control plane (internal/controlplane): the Service that *)
(* handlers of concurrent HTTP requests share, its rows in PostgreSQL      *)
(* (READ COMMITTED, one statement at a time but for TakeOAuthState) and    *)
(* its secret store.  A handler reads a whole connection row, talks to     *)
(* Google and the secret store, and writes the whole row back.             *)
(*                                                                         *)
(* One organisation with product-managed connections; an account is a      *)
(* Google subject with its e-mail address.  Names, services, scopes and    *)
(* tool grants are carried by the row and compared by nobody here: an      *)
(* operation that changes only them writes its copy back (Touch).          *)
(*                                                                         *)
(* External: Google's answers, and a database that fails a statement, or   *)
(* fails to say that it succeeded.  A process that stops takes its         *)
(* requests, its locks and its reapers with it.                            *)
(***************************************************************************)
EXTENDS Naturals, FiniteSets

CONSTANTS Connections, Accounts, Secrets, States, Ops, None

ASSUME NoneAssumption ==
  None \notin Connections \cup Accounts \cup Secrets \cup States \cup Ops

VARIABLES
  row,      \* google_connections; None where there is no row
  oauth,    \* oauth_states: the connection of an outstanding state, else None
  secret,   \* the secret store: the account a stored credential is of
  forgotten,   \* secrets deleted in memory while the file still has them
  lock,     \* per connection: the operation in ensureFreshToken, else None
  doomed,   \* secrets a background reaper will delete
  op,       \* per operation: where it waits and what it carries
  created, issued, asked   \* connections, secrets and states ever made

ids == <<created, issued, asked>>
vars == <<row, oauth, secret, forgotten, lock, doomed, op, ids>>

(* needs_connect, needs_reconnect and healthy, which nothing here tells    *)
(* apart, are "open".                                                      *)
Statuses == {"open", "disconnected"}
Rows == [subject: Accounts \cup {None}, ref: Secrets \cup {None}, status: Statuses]
NewRow == [subject |-> None, ref |-> None, status |-> "open"]

Steps == {"idle", "take", "exchange", "discard", "put", "save", "drop",
          "read", "refresh", "touch", "revoke"}
OpStates == [step: Steps, conn: Connections \cup {None}, row: Rows,
             state: States \cup {None}, account: Accounts \cup {None},
             ref: Secrets \cup {None}]
NoOp == [step |-> "idle", conn |-> None, row |-> NewRow, state |-> None, account |-> None,
         ref |-> None]

Init ==
  /\ row = [c \in Connections |-> None]
  /\ oauth = [s \in States |-> None]
  /\ secret = [s \in Secrets |-> None] /\ forgotten = {}
  /\ lock = [c \in Connections |-> None]
  /\ doomed = {}
  /\ op = [o \in Ops |-> NoOp]
  /\ created = {} /\ issued = {} /\ asked = {}

-----------------------------------------------------------------------------
(* Rows                                                                    *)

(* Fault: without the unique index, only the conflict query is left.       *)
NotIndexed(c, r) == FALSE

(* The unique index on the subject of live product-managed connections.    *)
Conflicts(c, r) ==
  /\ r.subject # None /\ r.status # "disconnected"
  /\ \E d \in Connections \ {c} :
       row[d] # None /\ row[d].subject = r.subject /\ row[d].status # "disconnected"

(* UpdateConnection: every column from the caller's copy, if there is a    *)
(* row and the index allows it.                                            *)
Updates(c, r) == row[c] # None /\ ~Conflicts(c, r)
Update(c, r) == row' = [row EXCEPT ![c] = IF Updates(c, r) THEN r ELSE @]

(* A consent that fails: the row is marked, and discardOAuthStub deletes   *)
(* the row of a connection that had nothing yet, as the copy tells it.     *)
(* Either statement may fail.                                              *)
Mark(c, r) == Update(c, [r EXCEPT !.status = "open"]) \/ UNCHANGED row
IsStub(r) == r.ref = None /\ r.subject = None
Discard(c) == row' = [row EXCEPT ![c] = None]

(* SecretStore.Delete.  A secret that is not there is no error.            *)
Readable(s) == s # None /\ secret[s] # None /\ s \notin forgotten
Without(D) == [x \in Secrets |-> IF x \in D THEN None ELSE secret[x]]

Deleted(s) ==
  IF Readable(s) THEN secret' = Without(forgotten \cup {s}) /\ forgotten' = {}
  ELSE UNCHANGED <<secret, forgotten>>

(* FileSecretStore takes the secret out of its map before it writes the    *)
(* file, and leaves it out when it cannot; Secret Manager leaves it be.    *)
NotDeleted(s) ==
  /\ UNCHANGED secret
  /\ \/ UNCHANGED forgotten
     \/ Readable(s) /\ forgotten' = forgotten \cup {s}

(* The error of a deletion is mostly ignored.                              *)
Delete(s) == Deleted(s) \/ NotDeleted(s)

Goto(o, r) == op' = [op EXCEPT ![o] = r]

(* The handler returns; a lock it holds is released.                       *)
Return(o) ==
  /\ Goto(o, NoOp)
  /\ lock' = [c \in Connections |-> IF lock[c] = o THEN None ELSE lock[c]]

Begins(o, r) == op[o].step = "idle" /\ Goto(o, r)

CreateProductConnection(c) ==
  /\ c \notin created
  /\ created' = created \cup {c}
  /\ row' = [row EXCEPT ![c] = NewRow]
  /\ UNCHANGED <<oauth, secret, forgotten, lock, doomed, op, issued, asked>>

(* RenameConnection, SetToolEnabled, AddConnectionServices, and the write  *)
(* at the end of the others: the row that was read, and what became of it. *)
StartTouch(o, c) ==
  /\ row[c] # None
  /\ Begins(o, [NoOp EXCEPT !.step = "touch", !.conn = c, !.row = row[c]])
  /\ UNCHANGED <<row, oauth, secret, forgotten, lock, doomed, ids>>

Touch(o) ==
  /\ op[o].step = "touch"
  /\ \/ Update(op[o].conn, op[o].row)
     \/ UNCHANGED row
  /\ Return(o)
  /\ UNCHANGED <<oauth, secret, forgotten, doomed, ids>>

-----------------------------------------------------------------------------
(* Consent                                                                 *)

BeginOAuth(o, c, s) ==
  /\ row[c] # None
  /\ s \notin asked
  /\ asked' = asked \cup {s}
  /\ oauth' = [oauth EXCEPT ![s] = c]
  /\ Begins(o, [NoOp EXCEPT !.step = "touch", !.conn = c, !.row = row[c]])
  /\ UNCHANGED <<row, secret, forgotten, lock, doomed, created, issued>>

(* TakeOAuthState selects without a row lock, and does not look at how     *)
(* many rows its DELETE removed.                                           *)
SelectState(o, s) ==
  /\ oauth[s] # None
  /\ Begins(o, [NoOp EXCEPT !.step = "take", !.conn = oauth[s], !.state = s])
  /\ UNCHANGED <<row, oauth, secret, forgotten, lock, doomed, ids>>

(* Then the connection is read.  (The DELETE is not a step of its own: it  *)
(* commutes with every step between the two.)  A state that has expired    *)
(* is gone for everybody.                                                  *)
TakeState(o) ==
  LET c == op[o].conn IN
  /\ op[o].step = "take"
  /\ oauth' = [oauth EXCEPT ![op[o].state] = None]
  /\ \/ /\ row[c] # None
        /\ Goto(o, [NoOp EXCEPT !.step = "exchange", !.conn = c, !.row = row[c]])
     \/ Goto(o, NoOp)
  /\ UNCHANGED <<row, secret, forgotten, lock, doomed, ids>>

(* The exchange fails, or its token names nobody.  (Once the row is        *)
(* discarded, marking it changes nothing.)                                 *)
ExchangeFails(o) ==
  LET r == op[o] IN
  /\ r.step = "exchange"
  /\ \/ IsStub(r.row) /\ Discard(r.conn)
     \/ Mark(r.conn, r.row)
  /\ Goto(o, NoOp)
  /\ UNCHANGED <<oauth, secret, forgotten, lock, doomed, ids>>

(* Fault: an account is only recorded where none is.                       *)
KeptName(r, a) == IF r.subject = None THEN [r EXCEPT !.subject = a] ELSE r

Named(r, a) == [r EXCEPT !.subject = a]

(* The token is of account a: the conflict query, then saveToken.          *)
CheckIdentity(o, a) ==
  LET r == op[o] IN
  /\ r.step = "exchange"
  /\ IF \E d \in Connections \ {r.conn} : row[d] # None /\ row[d].subject = a
     THEN /\ Mark(r.conn, r.row)
          /\ Goto(o, IF IsStub(r.row) THEN [r EXCEPT !.step = "discard"] ELSE NoOp)
     ELSE /\ Goto(o, [r EXCEPT !.step = "put", !.row = Named(r.row, a), !.account = a])
          /\ UNCHANGED row
  /\ UNCHANGED <<oauth, secret, forgotten, lock, doomed, ids>>

DiscardStub(o) ==
  /\ op[o].step = "discard"
  /\ Discard(op[o].conn) \/ UNCHANGED row
  /\ Goto(o, NoOp)
  /\ UNCHANGED <<oauth, secret, forgotten, lock, doomed, ids>>

-----------------------------------------------------------------------------
(* saveToken                                                               *)

PutSecret(o, s) ==
  /\ op[o].step \in {"put", "refresh"}
  /\ s \notin issued
  /\ issued' = issued \cup {s}
  /\ secret' = [Without(forgotten) EXCEPT ![s] = op[o].account] /\ forgotten' = {}
  /\ Goto(o, [op[o] EXCEPT !.step = "save", !.account = None,
                               !.ref = op[o].row.ref, !.row.ref = s])
  /\ UNCHANGED <<row, oauth, lock, doomed, created, asked>>

(* The row now refers to the new secret.                                   *)
SaveRef(o) ==
  LET r == op[o] IN
  /\ r.step = "save"
  /\ Updates(r.conn, r.row)
  /\ Update(r.conn, r.row)
  /\ Goto(o, [r EXCEPT !.step = "drop"])
  /\ UNCHANGED <<oauth, secret, forgotten, lock, doomed, ids>>

(* The row could not be written, or was without the answer arriving: the   *)
(* new secret is deleted where the index refused a first consent, and left *)
(* to a reaper otherwise.  The copy has an identity by now, so    *)
(* discardOAuthStub does nothing.                                          *)
SaveFails(o) ==
  LET r == op[o]
      s == r.row.ref IN
  /\ r.step = "save"
  /\ \/ /\ row[r.conn] # None /\ Conflicts(r.conn, r.row) /\ r.ref = None
        /\ Delete(s)
        /\ UNCHANGED <<row, doomed>>
     \/ /\ doomed' = doomed \cup {s}
        /\ Update(r.conn, r.row) \/ UNCHANGED row
        /\ UNCHANGED <<secret, forgotten>>
  /\ Return(o)
  /\ UNCHANGED <<oauth, ids>>

(* CompleteOAuth and Refresh write the row once more.  (Other callers of   *)
(* ensureFreshToken do not: as if that write had failed.)                  *)
Finish(r) == [NoOp EXCEPT !.step = "touch", !.conn = r.conn,
                          !.row = [r.row EXCEPT !.status = "open"]]

(* The secret store or another call before a write fails.                  *)
PutFails(o) ==
  /\ op[o].step \in {"put", "refresh"}
  /\ Return(o)
  /\ UNCHANGED <<row, oauth, secret, forgotten, doomed, ids>>

(* The replaced secret goes; a refresh gives up its lock.                  *)
DropOld(o) ==
  LET r == op[o] IN
  /\ r.step = "drop"
  /\ Delete(r.ref)
  /\ lock' = [c \in Connections |-> IF lock[c] = o THEN None ELSE lock[c]]
  /\ Goto(o, Finish(r))
  /\ UNCHANGED <<row, oauth, doomed, ids>>

Reap(s) ==
  /\ s \in doomed
  /\ doomed' = doomed \ {s}
  /\ Delete(s)
  /\ UNCHANGED <<row, oauth, lock, op, ids>>

-----------------------------------------------------------------------------
(* Use and refresh of a token                                              *)

(* Fault: tokenLocks makes a mutex for every caller.                       *)
NewMutex(c) == TRUE

Unlocked(c) == lock[c] = None

(* ensureFreshToken: one at a time per connection and process.             *)
StartToken(o, c) ==
  /\ Unlocked(c)
  /\ lock' = [lock EXCEPT ![c] = o]
  /\ Begins(o, [NoOp EXCEPT !.step = "read", !.conn = c])
  /\ UNCHANGED <<row, oauth, secret, forgotten, doomed, ids>>

NeedsReconnect(o, r) ==
  Goto(o, [r EXCEPT !.step = "touch", !.row.status = "open"]) /\ UNCHANGED lock

(* loadToken: the row and its secret.  (A secret deleted between the two   *)
(* reads ends as a refresh does that Google refuses.)  A token that is     *)
(* still good goes to its use, or lacks scopes.                            *)
LoadToken(o) ==
  LET c == op[o].conn
      r == [op[o] EXCEPT !.row = row[c]]
  IN /\ op[o].step = "read"
     /\ IF row[c] = None THEN Return(o)
        ELSE \/ Return(o)
             \/ row[c].ref # None /\ NeedsReconnect(o, r)
             \/ /\ Readable(row[c].ref)
                /\ \/ /\ Goto(o, [r EXCEPT !.step = "refresh", !.account = secret[row[c].ref]])
                      /\ UNCHANGED lock
                   \/ lock' = [lock EXCEPT ![c] = None] /\ Goto(o, Finish(r))
  /\ UNCHANGED <<row, oauth, secret, forgotten, doomed, ids>>

(* Google refuses to refresh the token; PutSecret is where it does not.    *)
RefreshFails(o) ==
  /\ op[o].step = "refresh"
  /\ NeedsReconnect(o, op[o])
  /\ UNCHANGED <<row, oauth, secret, forgotten, doomed, ids>>

-----------------------------------------------------------------------------
(* Disconnect                                                              *)

StartDisconnect(o, c) ==
  /\ row[c] # None
  /\ Begins(o, [NoOp EXCEPT !.step = "revoke", !.conn = c, !.row = row[c]])
  /\ UNCHANGED <<row, oauth, secret, forgotten, lock, doomed, ids>>

(* Google's revocation is best effort; if the secret cannot be deleted the *)
(* disconnect fails.                                                       *)
DropCredential(o) ==
  LET r == op[o] IN
  /\ r.step = "revoke"
  /\ \/ /\ Deleted(r.row.ref)
        /\ Goto(o, [r EXCEPT !.step = "touch",
                             !.row = [NewRow EXCEPT !.status = "disconnected"]])
     \/ Goto(o, NoOp) /\ Delete(r.row.ref)
  /\ UNCHANGED <<row, oauth, lock, doomed, ids>>

-----------------------------------------------------------------------------
(* The process stops: requests, locks and reapers are gone, and the file   *)
(* brings back what was deleted in memory only.                            *)
Restart ==
  /\ op' = [o \in Ops |-> NoOp]
  /\ forgotten' = {}
  /\ lock' = [c \in Connections |-> None]
  /\ doomed' = {}
  /\ UNCHANGED <<row, oauth, secret, ids>>

Step(o) ==
  \/ Touch(o)
  \/ TakeState(o) \/ ExchangeFails(o)
  \/ \E a \in Accounts : CheckIdentity(o, a)
  \/ DiscardStub(o)
  \/ \E s \in Secrets : PutSecret(o, s)
  \/ PutFails(o) \/ SaveRef(o) \/ SaveFails(o) \/ DropOld(o)
  \/ LoadToken(o) \/ RefreshFails(o)
  \/ DropCredential(o)

Arrive(o) == \E c \in Connections :
  \/ StartTouch(o, c)
  \/ \E s \in States : BeginOAuth(o, c, s)
  \/ StartToken(o, c)
  \/ StartDisconnect(o, c)

Next ==
  \/ \E c \in Connections : CreateProductConnection(c)
  \/ \E o \in Ops : Arrive(o) \/ Step(o) \/ \E s \in States : SelectState(o, s)
  \/ \E s \in Secrets : Reap(s)
  \/ Restart

Spec == Init /\ [][Next]_vars

-----------------------------------------------------------------------------
(* Properties                                                              *)

TypeOK ==
  /\ row \in [Connections -> Rows \cup {None}]
  /\ oauth \in [States -> Connections \cup {None}]
  /\ secret \in [Secrets -> Accounts \cup {None}] /\ forgotten \subseteq Secrets
  /\ lock \in [Connections -> Ops \cup {None}]
  /\ doomed \subseteq Secrets
  /\ op \in [Ops -> OpStates]
  /\ created \subseteq Connections /\ issued \subseteq Secrets /\ asked \subseteq States
  /\ \A o \in Ops : op[o].step \in {"read", "refresh"} => lock[op[o].conn] = o

(* The credential a connection refers to, while it is stored (a restart    *)
(* may bring it back), is of the Google account the connection shows,      *)
(* whatever handlers write their old copies of the row back.               *)
CredentialMatchesIdentity == \A c \in Connections :
  row[c] # None /\ row[c].ref # None /\ secret[row[c].ref] # None =>
    secret[row[c].ref] = row[c].subject

(* No credential is used by two connections, and no Google account is      *)
(* connected twice.                                                        *)
IdentityHasOneConnection == \A c, d \in Connections :
  /\ c # d /\ row[c] # None /\ row[d] # None
  /\ row[c].status # "disconnected" /\ row[d].status # "disconnected"
  => /\ row[c].subject = row[d].subject => row[c].subject = None
     /\ row[c].ref = row[d].ref => row[c].ref = None
=============================================================================
