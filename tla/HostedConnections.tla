-------------------------- MODULE HostedConnections --------------------------
(***************************************************************************)
(* The lifecycle of a Google account connection in the hosted Worker       *)
(* (internal/hosted/app/src/connect.ts) over its D1 tables                 *)
(* (internal/hosted/state/src/repository.ts and state/migrations).         *)
(*                                                                         *)
(* Every HTTP request is handled by its own Worker invocation.  An         *)
(* invocation is a sequence of awaits: between two of them any other       *)
(* invocation may run.  One D1 statement is atomic; nothing else is.  So a *)
(* request r is a program counter pc[r] and the local values it has read,  *)
(* and each action is one statement or one call to Google.                 *)
(*                                                                         *)
(* One tenant is modelled: every statement carries the tenant of the       *)
(* authenticated session.  A pending placeholder subject (pending-<uuid>)  *)
(* is Pending, a verified Google subject is a member of Subjects.  A       *)
(* credential row is represented by the Google grant (token) it encrypts;  *)
(* display data, scopes and the discovery columns are left out.            *)
(***************************************************************************)
EXTENDS Naturals

CONSTANTS
  Connections,    \* UUIDs that createConnection may draw
  States,         \* random OAuth state values startConnect may draw
  Tokens,         \* grants Google may issue
  Subjects,       \* Google accounts (OIDC sub)
  Requests,       \* concurrent Worker invocations
  SessionOf,      \* the Clerk session each invocation is authenticated with
  TrackedEvents,  \* audit events the log variable keeps (all are appended)
  MayCrash,       \* may an invocation be killed between two awaits?
  Pending,        \* the placeholder subject of a connection without identity
  None            \* SQL NULL, a missing row, an unset local

ASSUME PlaceholderAssumption == Pending \notin Subjects
ASSUME NoneAssumption ==
  None \notin Subjects \cup Tokens \cup Connections \cup States \cup {Pending}
ASSUME CrashAssumption == MayCrash \in BOOLEAN

Intents == {"connect", "reconnect"}

Events == {"google.connect.start", "google.connect.consent_denied",
           "google.connect.failure", "google.connect.complete",
           "google.connect.refresh", "google.disconnect"}

(* Where an invocation waits.  The two intents are also the points at      *)
(* which startConnect is about to insert its OAuth state.                  *)
Labels == Intents \cup
  {"idle", "take", "load", "exchange", "conflict", "store", "identify",
   "activate", "fail", "readCredential", "refresh", "restore", "drop",
   "needsReconnect", "readForRevoke", "revoke", "delete", "audit"}

VARIABLES
  created,     \* UUIDs drawn so far
  rows,        \* hosted_google_connections: ids present
  subject,     \* .google_subject
  status,      \* .status
  credential,  \* hosted_connection_credentials: the grant stored, or None
  oauthState,  \* hosted_oauth_states: free, issued, consumed or deleted
  binding,     \* .connection_id, .intent, .clerk_session_id
  minted,      \* Google: the account each issued grant belongs to
  dead,        \* Google: grants revoked or expired
  pc,          \* per invocation: where it waits,
  target,      \*   the connection it works on,
  ticket,      \*   the OAuth state it presented,
  seen,        \*   google_subject in the row it read,
  identity,    \*   the subject it will write,
  token,       \*   the grant it will write, refresh or revoke,
  event,       \*   the audit event it will append
  auditLog,    \* hosted_audit_events: <<connection, event>>, tracked ones
  uses,        \* history: how many callbacks a state has authorised
  consented    \* history: the account the connection's own consent returned

connectionVars == <<created, rows, subject, status, credential>>
stateVars      == <<oauthState, binding>>
googleVars     == <<minted, dead>>
localVars      == <<target, ticket, seen, identity, token, event>>
historyVars    == <<uses, consented>>
vars == <<connectionVars, stateVars, googleVars, pc, localVars, auditLog, historyVars>>

RowTypes ==
  /\ created \subseteq Connections
  /\ rows \subseteq created
  /\ subject \in [Connections -> Subjects \cup {Pending}]
  /\ status \in [Connections -> {"active", "needs_reconnect"}]
  /\ credential \in [Connections -> Tokens \cup {None}]

StateTypes ==
  /\ oauthState \in [States -> {"free", "issued", "consumed", "deleted"}]
  /\ binding \in [States -> [connection: Connections \cup {None}, intent: Intents,
                             session: {SessionOf[r] : r \in Requests} \cup {None}]]
  /\ \A s \in States : oauthState[s] # "free" => binding[s].connection \in Connections

GoogleTypes ==
  /\ minted \in [Tokens -> Subjects \cup {None}]
  /\ dead \subseteq Tokens

LocalTypes ==
  /\ target \in [Requests -> Connections \cup {None}]
  /\ ticket \in [Requests -> States \cup {None}]
  /\ seen \in [Requests -> Subjects \cup {Pending, None}]
  /\ identity \in [Requests -> Subjects \cup {Pending, None}]
  /\ token \in [Requests -> Tokens \cup {None}]
  /\ event \in [Requests -> Events \cup {None}]

HistoryTypes ==
  /\ uses \in [States -> Nat]
  /\ consented \in [Connections -> Subjects \cup {None}]

(* The locals an invocation is about to use have been set.                 *)
LocalsAreSet == \A r \in Requests :
  /\ IF pc[r] = "idle" THEN seen[r] = None ELSE target[r] \in Connections
  /\ pc[r] \in {"take", "load", "exchange"} => ticket[r] \in States
  /\ pc[r] \in {"conflict", "store", "refresh", "restore"} => token[r] \in Tokens
  /\ pc[r] \in {"conflict", "store", "readCredential", "refresh", "restore", "identify"}
       => identity[r] \in Subjects \cup {Pending}
  /\ pc[r] \in {"identify", "activate", "audit"} => event[r] \in Events

TypeOK ==
  /\ pc \in [Requests -> Labels]
  /\ RowTypes
  /\ StateTypes
  /\ GoogleTypes
  /\ LocalTypes
  /\ HistoryTypes
  /\ LocalsAreSet
  /\ auditLog \subseteq Connections \X Events

Init ==
  /\ created = {}
  /\ rows = {}
  /\ subject = [c \in Connections |-> Pending]
  /\ status = [c \in Connections |-> "active"]
  /\ credential = [c \in Connections |-> None]
  /\ oauthState = [s \in States |-> "free"]
  /\ binding = [s \in States |->
                  [connection |-> None, intent |-> "connect", session |-> None]]
  /\ minted = [t \in Tokens |-> None]
  /\ dead = {}
  /\ pc = [r \in Requests |-> "idle"]
  /\ target = [r \in Requests |-> None]
  /\ ticket = [r \in Requests |-> None]
  /\ seen = [r \in Requests |-> None]
  /\ identity = [r \in Requests |-> None]
  /\ token = [r \in Requests |-> None]
  /\ event = [r \in Requests |-> None]
  /\ auditLog = {}
  /\ uses = [s \in States |-> 0]
  /\ consented = [c \in Connections |-> None]

-----------------------------------------------------------------------------
(* Moving an invocation.                                                   *)

Goto(r, label) == pc' = [pc EXCEPT ![r] = label]

(* The handler returns, throws, or is killed: its locals are gone.         *)
Finish(r) ==
  /\ pc' = [pc EXCEPT ![r] = "idle"]
  /\ target' = [target EXCEPT ![r] = None]
  /\ ticket' = [ticket EXCEPT ![r] = None]
  /\ seen' = [seen EXCEPT ![r] = None]
  /\ identity' = [identity EXCEPT ![r] = None]
  /\ token' = [token EXCEPT ![r] = None]
  /\ event' = [event EXCEPT ![r] = None]

(* A new invocation that works on connection c.                            *)
Begin(r, c, label) ==
  /\ pc[r] = "idle"
  /\ Goto(r, label)
  /\ target' = [target EXCEPT ![r] = c]

(* audit() is called next with this event.                                 *)
ThenAudit(r, e) ==
  /\ Goto(r, "audit")
  /\ event' = [event EXCEPT ![r] = e]

-----------------------------------------------------------------------------
(* SQL statements of the repository.                                       *)

(* Faults the mutation runs put in place of the definition that follows.   *)
NoForeignKey(c) == TRUE
NoUniqueIndex(c, s) == TRUE

(* INSERT of a child row: the compound foreign key needs the connection.   *)
ForeignKeyHolds(c) == c \in rows

(* UNIQUE (tenant_id, google_subject); placeholders are unique uuids.      *)
SubjectIsFree(c, s) == s = Pending \/ \A d \in rows \ {c} : subject[d] # s

(* ON CONFLICT DO UPDATE: the newest writer wins.                          *)
UpsertCredential(c, t) ==
  /\ ForeignKeyHolds(c)
  /\ credential' = [credential EXCEPT ![c] = t]
  /\ UNCHANGED <<created, rows, subject, status>>

(* The UPDATE touches the row if it still exists.                          *)
UpdateConnectionIdentity(c, s) ==
  /\ c \in rows => SubjectIsFree(c, s)
  /\ subject' = IF c \in rows THEN [subject EXCEPT ![c] = s] ELSE subject
  /\ UNCHANGED <<created, rows, status, credential>>

(* Fault: the status CHECK of the table is gone and a typo goes through.     *)
UnknownStatus(c, value) ==
  /\ status' = [status EXCEPT ![c] = "reconnect"]
  /\ UNCHANGED <<created, rows, subject, credential>>

UpdateConnectionStatus(c, value) ==
  /\ status' = IF c \in rows THEN [status EXCEPT ![c] = value] ELSE status
  /\ UNCHANGED <<created, rows, subject, credential>>

(* Fault: the credential table has no cascade.                              *)
DeleteRowOnly(c) ==
  /\ rows' = rows \ {c}
  /\ subject' = [subject EXCEPT ![c] = Pending]
  /\ UNCHANGED <<created, status, credential, stateVars>>

(* ON DELETE CASCADE takes the credential and the OAuth states along.      *)
DeleteRow(c) ==
  /\ rows' = rows \ {c}
  /\ subject' = [subject EXCEPT ![c] = Pending]
  /\ status' = [status EXCEPT ![c] = "active"]
  /\ credential' = [credential EXCEPT ![c] = None]
  /\ oauthState' = [s \in States |->
                      IF oauthState[s] # "free" /\ binding[s].connection = c
                      THEN "deleted" ELSE oauthState[s]]
  /\ UNCHANGED <<created, binding>>

(* findIdentityConflict: another row of the tenant has this identity, or   *)
(* the same e-mail address, which any row with an identity may have.       *)
IdentityConflict(c, s) == \E d \in rows \ {c} : subject[d] = s
MayShareAddress(c) == \E d \in rows \ {c} : subject[d] # Pending

-----------------------------------------------------------------------------
(* startConnect                                                            *)

(* A new connection begins as a placeholder row with status active.        *)
StartConnect(r, c) ==
  /\ c \notin created
  /\ Begin(r, c, "connect")
  /\ created' = created \cup {c}
  /\ rows' = rows \cup {c}
  /\ UNCHANGED <<subject, status, credential, stateVars, googleVars,
                 ticket, seen, identity, token, event, auditLog, historyVars>>

(* The body names a connection: getConnection must find it.                *)
StartReconnect(r, c) ==
  /\ c \in rows
  /\ Begin(r, c, "reconnect")
  /\ UNCHANGED <<connectionVars, stateVars, googleVars,
                 ticket, seen, identity, token, event, auditLog, historyVars>>

CreateOAuthState(r, s) ==
  /\ pc[r] \in Intents
  /\ oauthState[s] = "free"
  /\ ForeignKeyHolds(target[r])
  /\ oauthState' = [oauthState EXCEPT ![s] = "issued"]
  /\ binding' = [binding EXCEPT ![s] = [connection |-> target[r], intent |-> pc[r],
                                        session |-> SessionOf[r]]]
  /\ ThenAudit(r, "google.connect.start")
  /\ UNCHANGED <<connectionVars, googleVars, target, ticket, seen, identity,
                 token, auditLog, historyVars>>

(* Nobody catches a foreign-key failure of createOAuthState and of the      *)
(* refresh's upsertCredential, nor the refresh's failing decrypt, encrypt  *)
(* and scope checks before and after the call to Google.                   *)
HandlerThrows(r) ==
  /\ \/ pc[r] \in Intents /\ ~ ForeignKeyHolds(target[r])
     \/ pc[r] \in {"refresh", "restore"}
  /\ Finish(r)
  /\ UNCHANGED <<connectionVars, stateVars, googleVars, auditLog, historyVars>>

-----------------------------------------------------------------------------
(* completeCallback                                                        *)

(* takeOAuthState's SELECT and its checks.  A mismatch, a replay or an     *)
(* expired state is answered without any change.  Expiry is the absence of *)
(* this step: the model lets any unconsumed state still be presented.      *)
PresentState(r, s, outcome) ==
  /\ oauthState[s] = "issued"
  /\ binding[s].session = SessionOf[r]
  /\ Begin(r, binding[s].connection, "take")
  /\ ticket' = [ticket EXCEPT ![r] = s]
  /\ event' = [event EXCEPT ![r] = outcome]
  /\ UNCHANGED <<connectionVars, stateVars, googleVars, seen, identity, token,
                 auditLog, historyVars>>

(* Fault: the UPDATE does not ask for consumed_at IS NULL.                  *)
AnyStateRow(s) == oauthState[s] \in {"issued", "consumed"}

(* The guard of the UPDATE: consumed_at IS NULL, the row still there.      *)
StateIsUnconsumed(s) == oauthState[s] = "issued"

ConsumeState(r) ==
  /\ pc[r] = "take"
  /\ StateIsUnconsumed(ticket[r])
  /\ oauthState' = [oauthState EXCEPT ![ticket[r]] = "consumed"]
  /\ uses' = [uses EXCEPT ![ticket[r]] = @ + 1]
  /\ Goto(r, "load")
  /\ UNCHANGED <<connectionVars, binding, googleVars, localVars, auditLog, consented>>

(* Another callback consumed it in between, or its connection went away.   *)
StateWasTaken(r) ==
  /\ pc[r] = "take"
  /\ ~ StateIsUnconsumed(ticket[r])
  /\ Finish(r)
  /\ UNCHANGED <<connectionVars, stateVars, googleVars, auditLog, historyVars>>

(* The snapshot every later decision of the callback is made from.         *)
LoadConnection(r) ==
  /\ pc[r] = "load"
  /\ target[r] \in rows
  /\ seen' = [seen EXCEPT ![r] = subject[target[r]]]
  /\ Goto(r, IF event[r] = None THEN "exchange" ELSE "fail")
  /\ UNCHANGED <<connectionVars, stateVars, googleVars, target, ticket, identity,
                 token, event, auditLog, historyVars>>

ConnectionIsGone(r) ==
  /\ pc[r] = "load"
  /\ target[r] \notin rows
  /\ Finish(r)
  /\ UNCHANGED <<connectionVars, stateVars, googleVars, auditLog, historyVars>>

Intent(r) == binding[ticket[r]].intent

(* Fault: the callback adopts whatever account consented.                   *)
AdoptAnyAccount(r, s) == TRUE

(* Reconnecting may only restore the account in the snapshot.              *)
MayAdopt(r, s) == Intent(r) = "reconnect" => seen[r] = s

(* exchangeCode and identity succeed: Google issues grant t for account s. *)
ExchangeCode(r, t, s) ==
  /\ pc[r] = "exchange"
  /\ minted[t] = None
  /\ minted' = [minted EXCEPT ![t] = s]
  /\ consented' = IF Intent(r) = "connect"
                  THEN [consented EXCEPT ![target[r]] = s] ELSE consented
  /\ \/ /\ MayAdopt(r, s)
        /\ Goto(r, "conflict")
        /\ identity' = [identity EXCEPT ![r] = s]
        /\ token' = [token EXCEPT ![r] = t]
        /\ UNCHANGED event
     \/ /\ ~ MayAdopt(r, s)
        /\ ThenAudit(r, "google.connect.failure")
        /\ UNCHANGED <<identity, token>>
  /\ UNCHANGED <<connectionVars, stateVars, dead, target, ticket, seen, auditLog, uses>>

(* The code, the scopes or the identity is refused, or Google is away.     *)
ExchangeFails(r) ==
  /\ pc[r] = "exchange"
  /\ Goto(r, "fail")
  /\ event' = [event EXCEPT ![r] = "google.connect.failure"]
  /\ UNCHANGED <<connectionVars, stateVars, googleVars, target, ticket, seen,
                 identity, token, auditLog, historyVars>>

FindIdentityConflict(r) ==
  /\ pc[r] = "conflict"
  /\ \/ /\ IdentityConflict(target[r], identity[r]) \/ MayShareAddress(target[r])
        /\ Goto(r, "fail")
        /\ event' = [event EXCEPT ![r] = "google.connect.failure"]
     \/ /\ ~ IdentityConflict(target[r], identity[r])
        /\ Goto(r, "store")
        /\ UNCHANGED event
  /\ UNCHANGED <<connectionVars, stateVars, googleVars, target, ticket, seen,
                 identity, token, auditLog, historyVars>>

StoreCredential(r) ==
  /\ pc[r] = "store"
  /\ UpsertCredential(target[r], token[r])
  /\ Goto(r, "identify")
  /\ event' = [event EXCEPT ![r] = "google.connect.complete"]
  /\ UNCHANGED <<stateVars, googleVars, target, ticket, seen, identity, token,
                 auditLog, historyVars>>

(* Encryption or the statement fails (a missing row included): caught.     *)
StoreFails(r) ==
  /\ pc[r] = "store"
  /\ Goto(r, "fail")
  /\ UNCHANGED <<connectionVars, stateVars, googleVars, localVars, auditLog, historyVars>>

(* markConnectionFailed: whether the row is a stub is read off the         *)
(* snapshot.  The failed store is the one failure that is not audited.     *)
MarkConnectionFailed(r) ==
  /\ pc[r] = "fail"
  /\ \/ seen[r] = Pending /\ DeleteRow(target[r])
     \/ seen[r] # Pending /\ UNCHANGED <<connectionVars, stateVars>>
  /\ \/ event[r] = None /\ Finish(r)
     \/ event[r] # None /\ Goto(r, "audit") /\ UNCHANGED localVars
  /\ UNCHANGED <<googleVars, auditLog, historyVars>>

-----------------------------------------------------------------------------
(* The last two statements of completeCallback and of refreshConnection.   *)

(* A callback writes the identity Google returned, a refresh writes back   *)
(* the one in its snapshot.                                                *)
RecordIdentity(r) ==
  /\ pc[r] = "identify"
  /\ UpdateConnectionIdentity(target[r], identity[r])
  /\ Goto(r, "activate")
  /\ UNCHANGED <<stateVars, googleVars, localVars, auditLog, historyVars>>

(* The UNIQUE constraint refuses the UPDATE; nobody catches it.            *)
IdentityThrows(r) ==
  /\ pc[r] = "identify"
  /\ target[r] \in rows
  /\ ~ SubjectIsFree(target[r], identity[r])
  /\ Finish(r)
  /\ UNCHANGED <<connectionVars, stateVars, googleVars, auditLog, historyVars>>

Activate(r) ==
  /\ pc[r] = "activate"
  /\ UpdateConnectionStatus(target[r], "active")
  /\ Goto(r, "audit")
  /\ UNCHANGED <<stateVars, googleVars, localVars, auditLog, historyVars>>

-----------------------------------------------------------------------------
(* refreshConnection, by its route or through googleGrantForConnection     *)

RefreshConnection(r, c) ==
  /\ c \in rows
  /\ Begin(r, c, "readCredential")
  /\ seen' = [seen EXCEPT ![r] = subject[c]]
  /\ identity' = [identity EXCEPT ![r] = subject[c]]
  /\ UNCHANGED <<connectionVars, stateVars, googleVars, ticket, token, event,
                 auditLog, historyVars>>

ReadCredential(r) ==
  /\ pc[r] = "readCredential"
  /\ token' = [token EXCEPT ![r] = credential[target[r]]]
  /\ Goto(r, IF credential[target[r]] = None THEN "needsReconnect" ELSE "refresh")
  /\ UNCHANGED <<connectionVars, stateVars, googleVars, target, ticket, seen,
                 identity, event, auditLog, historyVars>>

GoogleRefreshes(r) ==
  /\ pc[r] = "refresh"
  /\ token[r] \notin dead
  /\ Goto(r, "restore")
  /\ UNCHANGED <<connectionVars, stateVars, googleVars, localVars, auditLog, historyVars>>

(* invalid_grant                                                           *)
GoogleRejects(r) ==
  /\ pc[r] = "refresh"
  /\ token[r] \in dead
  /\ Goto(r, "drop")
  /\ UNCHANGED <<connectionVars, stateVars, googleVars, localVars, auditLog, historyVars>>

(* Any other failure leaves the credential alone.                          *)
GoogleIsUnavailable(r) ==
  /\ pc[r] = "refresh"
  /\ ThenAudit(r, "google.connect.refresh")
  /\ UNCHANGED <<connectionVars, stateVars, googleVars, target, ticket, seen,
                 identity, token, auditLog, historyVars>>

RestoreCredential(r) ==
  /\ pc[r] = "restore"
  /\ UpsertCredential(target[r], token[r])
  /\ Goto(r, "identify")
  /\ event' = [event EXCEPT ![r] = "google.connect.refresh"]
  /\ UNCHANGED <<stateVars, googleVars, target, ticket, seen, identity, token,
                 auditLog, historyVars>>

(* deleteCredential deletes whatever the connection now holds.             *)
DropCredential(r) ==
  /\ pc[r] = "drop"
  /\ credential' = [credential EXCEPT ![target[r]] = None]
  /\ Goto(r, "needsReconnect")
  /\ event' = [event EXCEPT ![r] = "google.connect.refresh"]
  /\ UNCHANGED <<created, rows, subject, status, stateVars, googleVars, target,
                 ticket, seen, identity, token, auditLog, historyVars>>

(* Only the dropped credential is audited, not the missing one.            *)
MarkNeedsReconnect(r) ==
  /\ pc[r] = "needsReconnect"
  /\ UpdateConnectionStatus(target[r], "needs_reconnect")
  /\ \/ event[r] = None /\ Finish(r)
     \/ event[r] # None /\ Goto(r, "audit") /\ UNCHANGED localVars
  /\ UNCHANGED <<stateVars, googleVars, auditLog, historyVars>>

-----------------------------------------------------------------------------
(* disconnect                                                              *)

Disconnect(r, c) ==
  /\ c \in rows
  /\ Begin(r, c, "readForRevoke")
  /\ UNCHANGED <<connectionVars, stateVars, googleVars, ticket, seen, identity,
                 token, event, auditLog, historyVars>>

ReadForRevoke(r) ==
  /\ pc[r] = "readForRevoke"
  /\ token' = [token EXCEPT ![r] = credential[target[r]]]
  /\ Goto(r, "revoke")
  /\ UNCHANGED <<connectionVars, stateVars, googleVars, target, ticket, seen,
                 identity, event, auditLog, historyVars>>

(* Best effort: the call may also fail, and the teardown goes on.          *)
Revoke(r) ==
  /\ pc[r] = "revoke"
  /\ \/ token[r] # None /\ dead' = dead \cup {token[r]}
     \/ UNCHANGED dead
  /\ Goto(r, "delete")
  /\ UNCHANGED <<connectionVars, stateVars, minted, localVars, auditLog, historyVars>>

DeleteConnection(r) ==
  /\ pc[r] = "delete"
  /\ DeleteRow(target[r])
  /\ ThenAudit(r, "google.disconnect")
  /\ UNCHANGED <<googleVars, target, ticket, seen, identity, token, auditLog, historyVars>>

-----------------------------------------------------------------------------
(* audit(): appendAudit refuses a connection that is not in the tenant,    *)
(* and audit() swallows the error.                                         *)
AppendAudit(r) ==
  /\ pc[r] = "audit"
  /\ auditLog' = IF target[r] \in rows /\ event[r] \in TrackedEvents
                 THEN auditLog \cup {<<target[r], event[r]>>} ELSE auditLog
  /\ Finish(r)
  /\ UNCHANGED <<connectionVars, stateVars, googleVars, historyVars>>

(* The runtime may kill an invocation at any await; so may a D1 error.     *)
Crash(r) ==
  /\ MayCrash
  /\ pc[r] # "idle"
  /\ Finish(r)
  /\ UNCHANGED <<connectionVars, stateVars, googleVars, auditLog, historyVars>>

(* The account owner revokes the grant at Google, or Google expires it.    *)
GrantDies(t) ==
  /\ minted[t] # None
  /\ dead' = dead \cup {t}
  /\ UNCHANGED <<connectionVars, stateVars, minted, pc, localVars, auditLog, historyVars>>

Next ==
  \/ \E r \in Requests, c \in Connections :
       \/ StartConnect(r, c) \/ StartReconnect(r, c)
       \/ RefreshConnection(r, c) \/ Disconnect(r, c)
  \/ \E r \in Requests, s \in States :
       \/ CreateOAuthState(r, s)
       \/ \E outcome \in {None, "google.connect.consent_denied"} : PresentState(r, s, outcome)
  \/ \E r \in Requests, t \in Tokens, s \in Subjects : ExchangeCode(r, t, s)
  \/ \E r \in Requests :
       \/ HandlerThrows(r) \/ ConsumeState(r) \/ StateWasTaken(r)
       \/ LoadConnection(r) \/ ConnectionIsGone(r) \/ ExchangeFails(r)
       \/ FindIdentityConflict(r) \/ StoreCredential(r) \/ StoreFails(r)
       \/ MarkConnectionFailed(r) \/ RecordIdentity(r) \/ IdentityThrows(r)
       \/ Activate(r) \/ ReadCredential(r) \/ GoogleRefreshes(r)
       \/ GoogleRejects(r) \/ GoogleIsUnavailable(r) \/ RestoreCredential(r)
       \/ DropCredential(r) \/ MarkNeedsReconnect(r) \/ ReadForRevoke(r)
       \/ Revoke(r) \/ DeleteConnection(r) \/ AppendAudit(r) \/ Crash(r)
  \/ \E t \in Tokens : GrantDies(t)

Spec == Init /\ [][Next]_vars

-----------------------------------------------------------------------------
(* Properties.                                                             *)

Verified(c) == c \in rows /\ subject[c] # Pending

(* Whatever callbacks, refreshes and disconnects overlap, a stored         *)
(* credential belongs to the account the connection's own consent          *)
(* returned, and a verified connection shows that account: no reconnect    *)
(* and no late write puts another account's grant behind it.               *)
CredentialIdentity == \A c \in rows :
  /\ credential[c] # None => minted[credential[c]] = consented[c]
  /\ subject[c] # Pending => subject[c] = consented[c]

(* Two connections never show the same Google account, although callbacks  *)
(* check for a conflict and write the identity in different statements.    *)
UniqueIdentity == \A c, d \in rows :
  subject[c] # Pending /\ subject[c] = subject[d] => c = d

(* An OAuth state authorises at most one token exchange, even when two     *)
(* callbacks read it before either consumes it.                            *)
StateIsOneUse == \A s \in States : uses[s] <= 1

(* A disconnected or discarded connection never comes back and never holds *)
(* a credential again, whatever request was in flight when it went.        *)
DisconnectIsFinal ==
  [][\A c \in created \ rows : c \notin rows' /\ credential'[c] = None]_vars

(* The invariant behind CredentialIdentity and the vault.                  *)

(* A missing row has neither identity nor credential.                      *)
AbsentIsEmpty == \A c \in Connections \ rows :
  subject[c] = Pending /\ credential[c] = None

Consented(c, t) == minted[t] # None /\ minted[t] = consented[c]

RowsAreConsented == \A c \in Connections :
  /\ credential[c] # None => Consented(c, credential[c])
  /\ subject[c] # Pending => subject[c] = consented[c]

(* What an invocation carries across its awaits names that account too.    *)
LocalsAreConsented == \A r \in Requests : pc[r] # "idle" =>
  /\ target[r] \in created
  /\ seen[r] \in Subjects => seen[r] = consented[target[r]]
  /\ /\ pc[r] \in {"conflict", "store", "readCredential", "refresh", "restore", "identify"}
     /\ identity[r] \in Subjects
     => identity[r] = consented[target[r]]
  /\ pc[r] \in {"conflict", "store", "refresh", "restore"}
       => token[r] \in Tokens /\ Consented(target[r], token[r])

OpensConnection(s) == oauthState[s] # "free" /\ binding[s].intent = "connect"

(* A connection has one connect state, and until the callback that holds   *)
(* it has exchanged its code the connection's account is not known.        *)
StatesAreBound ==
  /\ \A c \in Connections \ created : consented[c] = None
  /\ \A s \in States : oauthState[s] # "free" => binding[s].connection \in created
  /\ \A s1, s2 \in States :
       /\ OpensConnection(s1) /\ OpensConnection(s2)
       /\ binding[s1].connection = binding[s2].connection
       => s1 = s2
  /\ \A s \in States : OpensConnection(s) /\ oauthState[s] = "issued" =>
       consented[binding[s].connection] = None

HoldersAreBound ==
  /\ \A r \in Requests : pc[r] \in {"take", "load", "exchange"} =>
       /\ ticket[r] \in States
       /\ oauthState[ticket[r]] # "free"
       /\ target[r] = binding[ticket[r]].connection
  /\ \A r \in Requests : pc[r] \in {"load", "exchange"} =>
       /\ oauthState[ticket[r]] # "issued"
       /\ Intent(r) = "connect" => consented[target[r]] = None
  /\ \A q, r \in Requests :
       /\ pc[q] \in {"load", "exchange"} /\ pc[r] \in {"load", "exchange"}
       /\ ticket[q] = ticket[r]
       => q = r

(* A connection waits for its connect state at one place only.             *)
OpenersAreAlone ==
  /\ \A r \in Requests : pc[r] = "connect" =>
       /\ consented[target[r]] = None
       /\ \A s \in States : OpensConnection(s) => binding[s].connection # target[r]
  /\ \A q, r \in Requests :
       pc[q] = "connect" /\ pc[r] = "connect" /\ target[q] = target[r] => q = r

(* Every credential, identity and local of a connection goes back to the   *)
(* one consent that opened it.                                             *)
ConsentInv ==
  /\ AbsentIsEmpty
  /\ RowsAreConsented
  /\ LocalsAreConsented
  /\ StatesAreBound
  /\ HoldersAreBound
  /\ OpenersAreAlone

(* The store as a vault per connection.                                    *)
HeldSubject == [c \in Connections |->
                  IF credential[c] = None THEN None ELSE minted[credential[c]]]

Vault == INSTANCE CredentialVault WITH
  Vaults <- Connections, Owners <- Subjects, opened <- created, open <- rows,
  owner <- consented, held <- HeldSubject

(* The detailed store implements the vault.                                *)
ImplementsVault == Vault!VaultSpec

-----------------------------------------------------------------------------
(* What the repository says of the program and its interleavings refute.   *)

(* connect.ts says a failed authorization of a new code preserves the      *)
(* identity, ciphertext and grants of the connection it was meant for: a   *)
(* failing callback never removes a verified connection.                   *)
FailedConsentKeepsGrant ==
  [][\A r \in Requests : pc[r] = "fail" /\ pc'[r] # "fail" =>
       \A c \in rows : Verified(c) => c \in rows']_vars

=============================================================================
