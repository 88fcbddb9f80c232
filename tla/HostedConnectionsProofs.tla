----------------------- MODULE HostedConnectionsProofs -----------------------
(***************************************************************************)
(* Theorems about HostedConnections for every number of connections,       *)
(* OAuth states, grants, accounts and concurrent invocations.              *)
(*                                                                         *)
(* TypeStep and ConsentStep go through the actions one by one; TableSteps  *)
(* reduces the rest to the six statements that write the tables.           *)
(***************************************************************************)
EXTENDS HostedConnections, TLAPS

(* Every action keeps every variable in its type, and leaves an invocation *)
(* with the locals its next statement needs.                               *)
LEMMA TypeStep == TypeOK /\ [Next]_vars => TypeOK'
  <1> SUFFICES ASSUME TypeOK, [Next]_vars
               PROVE  TypeOK'
    OBVIOUS
  <1>0. /\ pc \in [Requests -> Labels] /\ RowTypes /\ StateTypes /\ GoogleTypes /\ LocalTypes
        /\ HistoryTypes /\ LocalsAreSet /\ auditLog \subseteq Connections \X Events
    BY DEF TypeOK
  <1> USE <1>0 DEF Labels, Intents, Events, RowTypes, StateTypes, GoogleTypes, LocalTypes, HistoryTypes, LocalsAreSet,
                   connectionVars, stateVars, googleVars, localVars, historyVars
  <1>1. ASSUME NEW r \in Requests, NEW c \in Connections, StartConnect(r, c)
         PROVE  TypeOK'
    BY <1>1 DEF StartConnect, Begin, Goto, Intents, TypeOK
  <1>2. ASSUME NEW r \in Requests, NEW c \in Connections, StartReconnect(r, c)
         PROVE  TypeOK'
    BY <1>2 DEF StartReconnect, Begin, Goto, TypeOK
  <1>3. ASSUME NEW r \in Requests, NEW c \in Connections, RefreshConnection(r, c)
         PROVE  TypeOK'
    BY <1>3 DEF RefreshConnection, Begin, Goto, TypeOK
  <1>4. ASSUME NEW r \in Requests, NEW c \in Connections, Disconnect(r, c)
         PROVE  TypeOK'
    BY <1>4 DEF Disconnect, Begin, Goto, TypeOK
  <1>5. ASSUME NEW r \in Requests, NEW s \in States, CreateOAuthState(r, s)
         PROVE  TypeOK'
    BY <1>5 DEF CreateOAuthState, ThenAudit, Goto, TypeOK
  <1>6. ASSUME NEW r \in Requests, NEW s \in States, NEW outcome \in {None, "google.connect.consent_denied"}, PresentState(r, s, outcome)
         PROVE  TypeOK'
    BY <1>6 DEF PresentState, Begin, Goto, TypeOK
  <1>7. ASSUME NEW r \in Requests, NEW t \in Tokens, NEW u \in Subjects, ExchangeCode(r, t, u)
         PROVE  TypeOK'
    <2>1. pc[r] = "exchange" /\ minted' = [minted EXCEPT ![t] = u]
          /\ (consented' = consented \/ consented' = [consented EXCEPT ![target[r]] = u])
          /\ UNCHANGED <<connectionVars, stateVars, dead, target, ticket, seen, auditLog, uses>>
      BY <1>7 DEF ExchangeCode
    <2>2. CASE MayAdopt(r, u)
      <3>1. pc' = [pc EXCEPT ![r] = "conflict"] /\ identity' = [identity EXCEPT ![r] = u]
              /\ token' = [token EXCEPT ![r] = t] /\ event' = event
        BY <1>7, <2>2 DEF ExchangeCode, Goto
      <3> QED
        BY <2>1, <2>2, <3>1 DEF TypeOK, ThenAudit, Goto
    <2>3. CASE ~ MayAdopt(r, u)
      <3>1. ThenAudit(r, "google.connect.failure") /\ UNCHANGED <<identity, token>>
        BY <1>7, <2>3 DEF ExchangeCode, Goto
      <3> QED
        BY <2>1, <2>3, <3>1 DEF TypeOK, ThenAudit, Goto
    <2> QED
      BY <2>2, <2>3
  <1>8. ASSUME NEW r \in Requests, HandlerThrows(r)
         PROVE  TypeOK'
    BY <1>8 DEF HandlerThrows, Finish, Goto, TypeOK
  <1>9. ASSUME NEW r \in Requests, ConsumeState(r)
         PROVE  TypeOK'
    <2>1. StateTypes'
      BY <1>9 DEF ConsumeState, Goto, StateIsUnconsumed, MayAdopt
    <2>2. HistoryTypes'
      BY <1>9 DEF ConsumeState, Goto, StateIsUnconsumed, MayAdopt
    <2>3. RowTypes' /\ GoogleTypes' /\ LocalTypes' /\ LocalsAreSet'
      BY <1>9 DEF ConsumeState, Goto, StateIsUnconsumed, MayAdopt
    <2>4. pc' \in [Requests -> Labels] /\ auditLog' \subseteq Connections \X Events
      BY <1>9 DEF ConsumeState, Goto, StateIsUnconsumed, MayAdopt
    <2> QED
      BY <2>1, <2>2, <2>3, <2>4 DEF TypeOK
  <1>10. ASSUME NEW r \in Requests, StateWasTaken(r)
         PROVE  TypeOK'
    BY <1>10 DEF StateWasTaken, Finish, Goto, TypeOK
  <1>11. ASSUME NEW r \in Requests, LoadConnection(r)
         PROVE  TypeOK'
    BY <1>11 DEF LoadConnection, Goto, TypeOK
  <1>12. ASSUME NEW r \in Requests, ConnectionIsGone(r)
         PROVE  TypeOK'
    BY <1>12 DEF ConnectionIsGone, Finish, Goto, TypeOK
  <1>13. ASSUME NEW r \in Requests, ExchangeFails(r)
         PROVE  TypeOK'
    BY <1>13 DEF ExchangeFails, Goto, TypeOK
  <1>14. ASSUME NEW r \in Requests, FindIdentityConflict(r)
         PROVE  TypeOK'
    <2>1. pc[r] = "conflict" /\ UNCHANGED <<connectionVars, stateVars, googleVars, target, ticket, seen,
             identity, token, auditLog, historyVars>>
      BY <1>14 DEF FindIdentityConflict
    <2>2. CASE /\ pc' = [pc EXCEPT ![r] = "fail"]
               /\ event' = [event EXCEPT ![r] = "google.connect.failure"]
      BY <2>1, <2>2 DEF TypeOK
    <2>3. CASE pc' = [pc EXCEPT ![r] = "store"] /\ event' = event
      BY <2>1, <2>3 DEF TypeOK
    <2> QED
      BY <1>14, <2>2, <2>3 DEF FindIdentityConflict, Goto
  <1>15. ASSUME NEW r \in Requests, StoreCredential(r)
         PROVE  TypeOK'
    BY <1>15 DEF StoreCredential, UpsertCredential, Goto, TypeOK
  <1>16. ASSUME NEW r \in Requests, StoreFails(r)
         PROVE  TypeOK'
    BY <1>16 DEF StoreFails, Goto, TypeOK
  <1>17. ASSUME NEW r \in Requests, MarkConnectionFailed(r)
         PROVE  TypeOK'
    <2>1. RowTypes' /\ StateTypes'
      <3>1. CASE DeleteRow(target[r])
        <4>1. target[r] \in Connections
          BY <1>17 DEF MarkConnectionFailed
        <4>2. RowTypes'
          BY <3>1, <4>1 DEF DeleteRow
        <4>3. StateTypes'
          BY <3>1, <4>1 DEF DeleteRow
        <4> QED
          BY <4>2, <4>3
      <3>2. CASE UNCHANGED <<connectionVars, stateVars>>
        BY <3>2
      <3> QED
        BY <1>17, <3>1, <3>2 DEF MarkConnectionFailed
    <2>2. pc' \in [Requests -> Labels] /\ LocalTypes' /\ LocalsAreSet'
      <3>1. CASE event[r] = None
        <4>1. Finish(r)
          BY <1>17, <3>1 DEF MarkConnectionFailed
        <4> QED
          BY <4>1 DEF Finish
      <3>2. CASE event[r] # None
        <4>1. pc' = [pc EXCEPT ![r] = "audit"] /\ UNCHANGED localVars
          BY <1>17, <3>2 DEF MarkConnectionFailed, Goto
        <4>2. pc[r] = "fail"
          BY <1>17 DEF MarkConnectionFailed
        <4> QED
          BY <3>2, <4>1, <4>2
      <3> QED
        BY <3>1, <3>2
    <2>3. GoogleTypes' /\ HistoryTypes' /\ auditLog' \subseteq Connections \X Events
      BY <1>17 DEF MarkConnectionFailed
    <2> QED
      BY <2>1, <2>2, <2>3 DEF TypeOK
  <1>18. ASSUME NEW r \in Requests, RecordIdentity(r)
         PROVE  TypeOK'
    BY <1>18 DEF RecordIdentity, UpdateConnectionIdentity, Goto, TypeOK
  <1>19. ASSUME NEW r \in Requests, IdentityThrows(r)
         PROVE  TypeOK'
    BY <1>19 DEF IdentityThrows, Finish, Goto, TypeOK
  <1>20. ASSUME NEW r \in Requests, Activate(r)
         PROVE  TypeOK'
    BY <1>20 DEF Activate, UpdateConnectionStatus, Goto, TypeOK
  <1>21. ASSUME NEW r \in Requests, ReadCredential(r)
         PROVE  TypeOK'
    BY <1>21 DEF ReadCredential, Goto, TypeOK
  <1>22. ASSUME NEW r \in Requests, GoogleRefreshes(r)
         PROVE  TypeOK'
    BY <1>22 DEF GoogleRefreshes, Goto, TypeOK
  <1>23. ASSUME NEW r \in Requests, GoogleRejects(r)
         PROVE  TypeOK'
    BY <1>23 DEF GoogleRejects, Goto, TypeOK
  <1>24. ASSUME NEW r \in Requests, GoogleIsUnavailable(r)
         PROVE  TypeOK'
    BY <1>24 DEF GoogleIsUnavailable, ThenAudit, Goto, TypeOK
  <1>25. ASSUME NEW r \in Requests, RestoreCredential(r)
         PROVE  TypeOK'
    BY <1>25 DEF RestoreCredential, UpsertCredential, Goto, TypeOK
  <1>26. ASSUME NEW r \in Requests, DropCredential(r)
         PROVE  TypeOK'
    BY <1>26 DEF DropCredential, Goto, TypeOK
  <1>27. ASSUME NEW r \in Requests, MarkNeedsReconnect(r)
         PROVE  TypeOK'
    <2>1. pc[r] = "needsReconnect" /\ UpdateConnectionStatus(target[r], "needs_reconnect")
             /\ UNCHANGED <<stateVars, googleVars, auditLog, historyVars>>
      BY <1>27 DEF MarkNeedsReconnect
    <2>2. CASE event[r] = None
      <3>1. Finish(r)
        BY <1>27, <2>2 DEF MarkNeedsReconnect, Goto
      <3> QED
        BY <2>1, <2>2, <3>1 DEF TypeOK, UpdateConnectionStatus, Finish, Goto
    <2>3. CASE event[r] # None
      <3>1. pc' = [pc EXCEPT ![r] = "audit"] /\ UNCHANGED localVars
        BY <1>27, <2>3 DEF MarkNeedsReconnect, Goto
      <3> QED
        BY <2>1, <2>3, <3>1 DEF TypeOK, UpdateConnectionStatus, Finish, Goto
    <2> QED
      BY <2>2, <2>3
  <1>28. ASSUME NEW r \in Requests, ReadForRevoke(r)
         PROVE  TypeOK'
    BY <1>28 DEF ReadForRevoke, Goto, TypeOK
  <1>29. ASSUME NEW r \in Requests, Revoke(r)
         PROVE  TypeOK'
    BY <1>29 DEF Revoke, Goto, TypeOK
  <1>30. ASSUME NEW r \in Requests, DeleteConnection(r)
         PROVE  TypeOK'
    BY <1>30 DEF DeleteConnection, DeleteRow, ThenAudit, Goto, TypeOK
  <1>31. ASSUME NEW r \in Requests, AppendAudit(r)
         PROVE  TypeOK'
    BY <1>31 DEF AppendAudit, Finish, Goto, TypeOK
  <1>32. ASSUME NEW r \in Requests, Crash(r)
         PROVE  TypeOK'
    BY <1>32 DEF Crash, Finish, Goto, TypeOK
  <1>33. ASSUME NEW t \in Tokens, GrantDies(t)
         PROVE  TypeOK'
    BY <1>33 DEF GrantDies, Goto, TypeOK
  <1>34. CASE UNCHANGED vars
    BY <1>34 DEF vars, TypeOK
  <1> HIDE <1>0 DEF Labels, Intents, Events, RowTypes, StateTypes, GoogleTypes, LocalTypes, HistoryTypes, LocalsAreSet,
                   connectionVars, stateVars, googleVars, localVars, historyVars
  <1> QED
    BY <1>1, <1>2, <1>3, <1>4, <1>5, <1>6, <1>7, <1>8, <1>9, <1>10, <1>11, <1>12, <1>13, <1>14,
       <1>15, <1>16, <1>17, <1>18, <1>19, <1>20, <1>21, <1>22, <1>23, <1>24, <1>25, <1>26, <1>27,
       <1>28, <1>29, <1>30, <1>31, <1>32, <1>33, <1>34 DEF Next

-----------------------------------------------------------------------------
(* Every action keeps each credential, identity and in-flight local tied   *)
(* to the one consent that opened its connection.                          *)
LEMMA ConsentStep == TypeOK /\ ConsentInv /\ [Next]_vars => ConsentInv'
  <1> SUFFICES ASSUME TypeOK, ConsentInv, [Next]_vars
               PROVE  ConsentInv'
    OBVIOUS
  <1>0. /\ pc \in [Requests -> Labels] /\ RowTypes /\ StateTypes /\ GoogleTypes /\ LocalTypes
        /\ HistoryTypes /\ LocalsAreSet /\ AbsentIsEmpty /\ RowsAreConsented
        /\ LocalsAreConsented /\ StatesAreBound /\ HoldersAreBound /\ OpenersAreAlone
    BY DEF TypeOK, ConsentInv
  <1> USE <1>0, NoneAssumption, PlaceholderAssumption
      DEF Labels, Intents, Events, RowTypes, StateTypes, GoogleTypes, LocalTypes, HistoryTypes,
    LocalsAreSet, AbsentIsEmpty, RowsAreConsented, Consented, LocalsAreConsented,
    StatesAreBound, OpensConnection, Intent, HoldersAreBound, OpenersAreAlone,
    connectionVars, stateVars, googleVars, localVars, historyVars
  <1>1. ASSUME NEW r \in Requests, NEW c \in Connections, StartConnect(r, c)
         PROVE  ConsentInv'
    BY <1>1 DEF StartConnect, Begin, Goto, ConsentInv
  <1>2. ASSUME NEW r \in Requests, NEW c \in Connections, StartReconnect(r, c)
         PROVE  ConsentInv'
    BY <1>2 DEF StartReconnect, Begin, Goto, ConsentInv
  <1>3. ASSUME NEW r \in Requests, NEW c \in Connections, RefreshConnection(r, c)
         PROVE  ConsentInv'
    BY <1>3 DEF RefreshConnection, Begin, Goto, ConsentInv
  <1>4. ASSUME NEW r \in Requests, NEW c \in Connections, Disconnect(r, c)
         PROVE  ConsentInv'
    BY <1>4 DEF Disconnect, Begin, Goto, ConsentInv
  <1>5. ASSUME NEW r \in Requests, NEW s \in States, CreateOAuthState(r, s)
         PROVE  ConsentInv'
    BY <1>5 DEF CreateOAuthState, ThenAudit, Goto, ForeignKeyHolds, ConsentInv
  <1>6. ASSUME NEW r \in Requests, NEW s \in States, NEW outcome \in {None, "google.connect.consent_denied"}, PresentState(r, s, outcome)
         PROVE  ConsentInv'
    BY <1>6 DEF PresentState, Begin, Goto, ConsentInv
  <1>7. ASSUME NEW r \in Requests, NEW t \in Tokens, NEW u \in Subjects, ExchangeCode(r, t, u)
         PROVE  ConsentInv'
    <2>1. /\ pc[r] = "exchange" /\ minted[t] = None /\ minted' = [minted EXCEPT ![t] = u]
          /\ UNCHANGED <<connectionVars, stateVars, dead, target, ticket, seen, auditLog, uses>>
      BY <1>7 DEF ExchangeCode
    <2>2. \/ /\ pc' = [pc EXCEPT ![r] = "conflict"] /\ MayAdopt(r, u)
             /\ identity' = [identity EXCEPT ![r] = u] /\ token' = [token EXCEPT ![r] = t]
          \/ pc' = [pc EXCEPT ![r] = "audit"] /\ UNCHANGED <<identity, token>>
      BY <1>7 DEF ExchangeCode, ThenAudit, Goto
    <2>3. consented' = IF Intent(r) = "connect"
                       THEN [consented EXCEPT ![target[r]] = u] ELSE consented
      BY <1>7 DEF ExchangeCode
    \* The consent of a connection is written while it is still unknown.
    <2>4. \A c \in Connections : consented[c] # None => consented'[c] = consented[c]
      BY <2>1, <2>3
    <2>5. \A c \in Connections : c # target[r] => consented'[c] = consented[c]
      BY <2>3
    <2>6. \A q \in Requests : q # r => /\ pc'[q] = pc[q] /\ identity'[q] = identity[q]
                                       /\ token'[q] = token[q]
      BY <2>2
    <2>7. AbsentIsEmpty' /\ RowsAreConsented'
      BY <2>1, <2>4
    <2>8. LocalsAreConsented'
      <3>1. ASSUME NEW q \in Requests, q # r, pc[q] # "idle"
            PROVE  /\ target'[q] \in created'
                   /\ seen'[q] \in Subjects => seen'[q] = consented'[target'[q]]
                   /\ /\ pc'[q] \in {"conflict", "store", "readCredential", "refresh",
                                     "restore", "identify"}
                      /\ identity'[q] \in Subjects
                      => identity'[q] = consented'[target'[q]]
                   /\ pc'[q] \in {"conflict", "store", "refresh", "restore"}
                        => token'[q] \in Tokens /\ Consented(target[q], token[q])'
        BY <2>1, <2>4, <2>6, <3>1
      <3>2. CASE pc' = [pc EXCEPT ![r] = "conflict"] /\ MayAdopt(r, u)
                 /\ identity' = [identity EXCEPT ![r] = u] /\ token' = [token EXCEPT ![r] = t]
        <4>1. consented'[target[r]] = u
          BY <2>1, <2>3, <3>2 DEF MayAdopt
        <4>2. target[r] \in created /\ (seen[r] \in Subjects => seen[r] = consented'[target[r]])
          BY <2>1, <2>4
        <4> QED
          BY <2>1, <2>6, <3>1, <3>2, <4>1, <4>2
      <3>3. CASE pc' = [pc EXCEPT ![r] = "audit"] /\ UNCHANGED <<identity, token>>
        <4>1. target[r] \in created /\ (seen[r] \in Subjects => seen[r] = consented'[target[r]])
          BY <2>1, <2>4
        <4> QED
          BY <2>1, <2>6, <3>1, <3>3, <4>1
      <3> QED
        BY <2>2, <3>2, <3>3
    <2>9. pc'[r] \in {"conflict", "audit"}
      BY <2>2
    \* The state r holds is the only one that opens its connection.
    <2>10. StatesAreBound'
      BY <2>1, <2>3, <2>5
    <2>11. HoldersAreBound'
      <3>1. \A q \in Requests : pc'[q] \in {"take", "load", "exchange"} => q # r /\ pc'[q] = pc[q]
        BY <2>6, <2>9
      <3>2. ASSUME NEW q \in Requests, pc'[q] \in {"load", "exchange"}, Intent(q) = "connect"
            PROVE  consented'[target[q]] = None
        <4>1. CASE Intent(r) = "connect" /\ target[q] = target[r]
          BY <2>1, <3>1, <3>2, <4>1
        <4>2. CASE ~ (Intent(r) = "connect" /\ target[q] = target[r])
          BY <2>1, <2>3, <3>1, <3>2, <4>2
        <4> QED
          BY <4>1, <4>2
      <3> QED
        BY <2>1, <3>1, <3>2
    <2>12. OpenersAreAlone'
      <3>1. \A q \in Requests : pc'[q] = "connect" => q # r /\ pc[q] = "connect"
        BY <2>6, <2>9
      <3>2. ASSUME NEW q \in Requests, pc[q] = "connect"
            PROVE  consented'[target[q]] = None
        BY <2>1, <2>3, <3>2
      <3> QED
        BY <2>1, <3>1, <3>2
    <2> QED
      BY <2>7, <2>8, <2>10, <2>11, <2>12 DEF ConsentInv
  <1>8. ASSUME NEW r \in Requests, HandlerThrows(r)
         PROVE  ConsentInv'
    BY <1>8 DEF HandlerThrows, Finish, Goto, ForeignKeyHolds, ConsentInv
  <1>9. ASSUME NEW r \in Requests, ConsumeState(r)
         PROVE  ConsentInv'
    BY <1>9 DEF ConsumeState, Goto, StateIsUnconsumed, ConsentInv
  <1>10. ASSUME NEW r \in Requests, StateWasTaken(r)
         PROVE  ConsentInv'
    BY <1>10 DEF StateWasTaken, Finish, Goto, StateIsUnconsumed, ConsentInv
  <1>11. ASSUME NEW r \in Requests, LoadConnection(r)
         PROVE  ConsentInv'
    BY <1>11 DEF LoadConnection, Goto, ConsentInv
  <1>12. ASSUME NEW r \in Requests, ConnectionIsGone(r)
         PROVE  ConsentInv'
    BY <1>12 DEF ConnectionIsGone, Finish, Goto, ConsentInv
  <1>13. ASSUME NEW r \in Requests, ExchangeFails(r)
         PROVE  ConsentInv'
    BY <1>13 DEF ExchangeFails, Goto, ConsentInv
  <1>14. ASSUME NEW r \in Requests, FindIdentityConflict(r)
         PROVE  ConsentInv'
    <2>1. pc[r] = "conflict" /\ UNCHANGED <<connectionVars, stateVars, googleVars, target, ticket, seen,
             identity, token, auditLog, historyVars>>
      BY <1>14 DEF FindIdentityConflict
    <2>2. CASE /\ pc' = [pc EXCEPT ![r] = "fail"]
               /\ event' = [event EXCEPT ![r] = "google.connect.failure"]
      BY <2>1, <2>2 DEF ConsentInv
    <2>3. CASE pc' = [pc EXCEPT ![r] = "store"] /\ event' = event
      BY <2>1, <2>3 DEF ConsentInv
    <2> QED
      BY <1>14, <2>2, <2>3 DEF FindIdentityConflict, Goto
  <1>15. ASSUME NEW r \in Requests, StoreCredential(r)
         PROVE  ConsentInv'
    BY <1>15 DEF StoreCredential, UpsertCredential, Goto, ForeignKeyHolds, ConsentInv
  <1>16. ASSUME NEW r \in Requests, StoreFails(r)
         PROVE  ConsentInv'
    BY <1>16 DEF StoreFails, Goto, ConsentInv
  <1>17. ASSUME NEW r \in Requests, MarkConnectionFailed(r)
         PROVE  ConsentInv'
    <2>1. pc[r] = "fail" /\ UNCHANGED <<googleVars, auditLog, historyVars, created, binding>>
      BY <1>17 DEF MarkConnectionFailed, DeleteRow
    <2>2. \/ Finish(r)
          \/ pc' = [pc EXCEPT ![r] = "audit"] /\ UNCHANGED localVars
      BY <1>17 DEF MarkConnectionFailed, Goto
    <2>3. DeleteRow(target[r]) \/ UNCHANGED <<connectionVars, stateVars>>
      BY <1>17 DEF MarkConnectionFailed
    <2>4. AbsentIsEmpty' /\ RowsAreConsented' /\ StatesAreBound'
      <3>1. CASE DeleteRow(target[r])
        BY <2>1, <3>1 DEF DeleteRow
      <3>2. CASE UNCHANGED <<connectionVars, stateVars>>
        BY <2>1, <3>2
      <3> QED
        BY <2>3, <3>1, <3>2
    <2>5. LocalsAreConsented'
      BY <2>1, <2>2 DEF Finish
    <2>6. HoldersAreBound'
      <3>1. \A q \in Requests : pc'[q] \in {"take", "load", "exchange", "connect"} =>
              /\ pc'[q] = pc[q] /\ ticket'[q] = ticket[q] /\ target'[q] = target[q]
        BY <2>1, <2>2 DEF Finish
      <3>2. \A s \in States : /\ oauthState[s] # "free" => oauthState'[s] # "free"
                              /\ oauthState[s] # "issued" => oauthState'[s] # "issued"
        BY <2>3 DEF DeleteRow
      <3> QED
        BY <2>1, <3>1, <3>2
    <2>7. OpenersAreAlone'
      <3>1. \A q \in Requests : pc'[q] = "connect" => pc[q] = "connect" /\ target'[q] = target[q]
        BY <2>1, <2>2 DEF Finish
      <3>2. \A s \in States : oauthState'[s] # "free" => oauthState[s] # "free"
        BY <2>3 DEF DeleteRow
      <3> QED
        BY <2>1, <3>1, <3>2
    <2> QED
      BY <2>4, <2>5, <2>6, <2>7 DEF ConsentInv
  <1>18. ASSUME NEW r \in Requests, RecordIdentity(r)
         PROVE  ConsentInv'
    BY <1>18 DEF RecordIdentity, UpdateConnectionIdentity, Goto, ConsentInv
  <1>19. ASSUME NEW r \in Requests, IdentityThrows(r)
         PROVE  ConsentInv'
    BY <1>19 DEF IdentityThrows, Finish, Goto, ConsentInv
  <1>20. ASSUME NEW r \in Requests, Activate(r)
         PROVE  ConsentInv'
    BY <1>20 DEF Activate, UpdateConnectionStatus, Goto, ConsentInv
  <1>21. ASSUME NEW r \in Requests, ReadCredential(r)
         PROVE  ConsentInv'
    BY <1>21 DEF ReadCredential, Goto, ConsentInv
  <1>22. ASSUME NEW r \in Requests, GoogleRefreshes(r)
         PROVE  ConsentInv'
    BY <1>22 DEF GoogleRefreshes, Goto, ConsentInv
  <1>23. ASSUME NEW r \in Requests, GoogleRejects(r)
         PROVE  ConsentInv'
    BY <1>23 DEF GoogleRejects, Goto, ConsentInv
  <1>24. ASSUME NEW r \in Requests, GoogleIsUnavailable(r)
         PROVE  ConsentInv'
    BY <1>24 DEF GoogleIsUnavailable, ThenAudit, Goto, ConsentInv
  <1>25. ASSUME NEW r \in Requests, RestoreCredential(r)
         PROVE  ConsentInv'
    BY <1>25 DEF RestoreCredential, UpsertCredential, Goto, ForeignKeyHolds, ConsentInv
  <1>26. ASSUME NEW r \in Requests, DropCredential(r)
         PROVE  ConsentInv'
    BY <1>26 DEF DropCredential, Goto, ConsentInv
  <1>27. ASSUME NEW r \in Requests, MarkNeedsReconnect(r)
         PROVE  ConsentInv'
    <2>1. pc[r] = "needsReconnect" /\ UpdateConnectionStatus(target[r], "needs_reconnect")
             /\ UNCHANGED <<stateVars, googleVars, auditLog, historyVars>>
      BY <1>27 DEF MarkNeedsReconnect
    <2>2. CASE event[r] = None
      <3>1. Finish(r)
        BY <1>27, <2>2 DEF MarkNeedsReconnect, Goto
      <3> QED
        BY <2>1, <2>2, <3>1 DEF ConsentInv, UpdateConnectionStatus, Finish, Goto
    <2>3. CASE event[r] # None
      <3>1. pc' = [pc EXCEPT ![r] = "audit"] /\ UNCHANGED localVars
        BY <1>27, <2>3 DEF MarkNeedsReconnect, Goto
      <3> QED
        BY <2>1, <2>3, <3>1 DEF ConsentInv, UpdateConnectionStatus, Finish, Goto
    <2> QED
      BY <2>2, <2>3
  <1>28. ASSUME NEW r \in Requests, ReadForRevoke(r)
         PROVE  ConsentInv'
    BY <1>28 DEF ReadForRevoke, Goto, ConsentInv
  <1>29. ASSUME NEW r \in Requests, Revoke(r)
         PROVE  ConsentInv'
    BY <1>29 DEF Revoke, Goto, ConsentInv
  <1>30. ASSUME NEW r \in Requests, DeleteConnection(r)
         PROVE  ConsentInv'
    BY <1>30 DEF DeleteConnection, DeleteRow, ThenAudit, Goto, ConsentInv
  <1>31. ASSUME NEW r \in Requests, AppendAudit(r)
         PROVE  ConsentInv'
    BY <1>31 DEF AppendAudit, Finish, Goto, ConsentInv
  <1>32. ASSUME NEW r \in Requests, Crash(r)
         PROVE  ConsentInv'
    BY <1>32 DEF Crash, Finish, Goto, ConsentInv
  <1>33. ASSUME NEW t \in Tokens, GrantDies(t)
         PROVE  ConsentInv'
    BY <1>33 DEF GrantDies, Goto, ConsentInv
  <1>34. CASE UNCHANGED vars
    BY <1>34 DEF vars, ConsentInv
  <1> HIDE <1>0 DEF Labels, Intents, Events, RowTypes, StateTypes, GoogleTypes, LocalTypes, HistoryTypes,
    LocalsAreSet, AbsentIsEmpty, RowsAreConsented, Consented, LocalsAreConsented,
    StatesAreBound, OpensConnection, Intent, HoldersAreBound, OpenersAreAlone,
    connectionVars, stateVars, googleVars, localVars, historyVars
  <1> QED
    BY <1>1, <1>2, <1>3, <1>4, <1>5, <1>6, <1>7, <1>8, <1>9, <1>10, <1>11, <1>12, <1>13, <1>14,
       <1>15, <1>16, <1>17, <1>18, <1>19, <1>20, <1>21, <1>22, <1>23, <1>24, <1>25, <1>26, <1>27,
       <1>28, <1>29, <1>30, <1>31, <1>32, <1>33, <1>34 DEF Next

-----------------------------------------------------------------------------
(* What a step may do to the tables.                                       *)

(* Every step leaves the connection tables alone or executes exactly one   *)
(* of the six statements that write them.                                  *)
LEMMA TableSteps ==
  ASSUME TypeOK, [Next]_vars
  PROVE  \/ UNCHANGED <<created, rows, subject, credential>>
         \/ \E c \in Connections \ created :
              /\ created' = created \cup {c} /\ rows' = rows \cup {c}
              /\ UNCHANGED <<subject, credential>>
         \/ \E r \in Requests : StoreCredential(r) \/ RestoreCredential(r)
         \/ \E c \in Connections, x \in Subjects \cup {Pending} : UpdateConnectionIdentity(c, x)
         \/ \E c \in Connections : /\ credential' = [credential EXCEPT ![c] = None]
                                   /\ UNCHANGED <<created, rows, subject>>
         \/ \E c \in Connections : DeleteRow(c)
  <1> USE DEF connectionVars
  <1>1. CASE UNCHANGED vars
    BY <1>1 DEF vars
  <1>2. ASSUME NEW r \in Requests, NEW c \in Connections,
               StartConnect(r, c) \/ StartReconnect(r, c) \/ RefreshConnection(r, c) \/ Disconnect(r, c)
        PROVE  \/ UNCHANGED <<created, rows, subject, credential>>
               \/ /\ c \notin created /\ created' = created \cup {c} /\ rows' = rows \cup {c}
                  /\ UNCHANGED <<subject, credential>>
    BY <1>2 DEF StartConnect, StartReconnect, RefreshConnection, Disconnect
  <1>3. ASSUME NEW r \in Requests, NEW s \in States,
               \/ CreateOAuthState(r, s)
               \/ \E outcome \in {None, "google.connect.consent_denied"} : PresentState(r, s, outcome)
        PROVE  UNCHANGED <<created, rows, subject, credential>>
    BY <1>3 DEF CreateOAuthState, PresentState
  <1>4. ASSUME NEW r \in Requests, NEW t \in Tokens, NEW s \in Subjects, ExchangeCode(r, t, s)
        PROVE  UNCHANGED <<created, rows, subject, credential>>
    BY <1>4 DEF ExchangeCode
  <1>5. ASSUME NEW r \in Requests,
               \/ HandlerThrows(r) \/ ConsumeState(r) \/ StateWasTaken(r)
               \/ LoadConnection(r) \/ ConnectionIsGone(r) \/ ExchangeFails(r)
               \/ FindIdentityConflict(r) \/ StoreFails(r) \/ IdentityThrows(r)
               \/ ReadCredential(r) \/ GoogleRefreshes(r) \/ GoogleRejects(r)
               \/ GoogleIsUnavailable(r) \/ ReadForRevoke(r) \/ Revoke(r)
               \/ AppendAudit(r) \/ Crash(r)
        PROVE  UNCHANGED <<created, rows, subject, credential>>
    BY <1>5 DEF HandlerThrows, ConsumeState, StateWasTaken, LoadConnection, ConnectionIsGone,
         ExchangeFails, FindIdentityConflict, StoreFails, IdentityThrows, ReadCredential,
         GoogleRefreshes, GoogleRejects, GoogleIsUnavailable, ReadForRevoke, Revoke,
         AppendAudit, Crash
  <1>6. ASSUME NEW r \in Requests, Activate(r) \/ MarkNeedsReconnect(r)
        PROVE  UNCHANGED <<created, rows, subject, credential>>
    BY <1>6 DEF Activate, MarkNeedsReconnect, UpdateConnectionStatus
  <1>7. ASSUME NEW r \in Requests, RecordIdentity(r)
        PROVE  /\ target[r] \in Connections /\ identity[r] \in Subjects \cup {Pending}
               /\ UpdateConnectionIdentity(target[r], identity[r])
    BY <1>7 DEF RecordIdentity, TypeOK, LocalsAreSet
  <1>8. ASSUME NEW r \in Requests, DropCredential(r)
        PROVE  /\ target[r] \in Connections
               /\ credential' = [credential EXCEPT ![target[r]] = None]
               /\ UNCHANGED <<created, rows, subject>>
    BY <1>8 DEF DropCredential, TypeOK, LocalsAreSet
  <1>9. ASSUME NEW r \in Requests, MarkConnectionFailed(r) \/ DeleteConnection(r)
         PROVE  /\ target[r] \in Connections
                /\ DeleteRow(target[r]) \/ UNCHANGED <<created, rows, subject, credential>>
    BY <1>9 DEF MarkConnectionFailed, DeleteConnection, TypeOK, LocalsAreSet
  <1>10. ASSUME NEW t \in Tokens, GrantDies(t)
         PROVE  UNCHANGED <<created, rows, subject, credential>>
    BY <1>10 DEF GrantDies
  <1> QED
    BY <1>1, <1>2, <1>3, <1>4, <1>5, <1>6, <1>7, <1>8, <1>9, <1>10 DEF Next

-----------------------------------------------------------------------------
(* The theorems.                                                           *)

(* Every variable keeps its type and every invocation has set the locals   *)
(* it is about to use.                                                     *)
THEOREM TypeCorrect == Spec => []TypeOK
  <1>1. Init => TypeOK
    BY NoneAssumption, PlaceholderAssumption
       DEF Init, TypeOK, RowTypes, StateTypes, GoogleTypes, LocalTypes, HistoryTypes,
           LocalsAreSet, Labels, Intents
  <1> QED
    BY <1>1, TypeStep, PTL DEF Spec

(* The strengthening behind the safety properties: what rows, states and   *)
(* in-flight callbacks, refreshes and disconnects hold goes back to the    *)
(* consent that opened the connection.                                     *)
THEOREM ConsentIsInvariant == Spec => []ConsentInv
  <1>1. Init => ConsentInv
    BY NoneAssumption, PlaceholderAssumption
       DEF Init, ConsentInv, AbsentIsEmpty, RowsAreConsented, LocalsAreConsented,
           StatesAreBound, OpensConnection, HoldersAreBound, OpenersAreAlone
  <1> QED
    BY <1>1, TypeCorrect, ConsentStep, PTL DEF Spec

(* However callbacks, refreshes and disconnects overlap, a stored          *)
(* credential and the identity shown for a connection are those of the     *)
(* account that consented when the connection was opened.                  *)
THEOREM CredentialsAreTheOwners == Spec => []CredentialIdentity
  <1>1. TypeOK /\ ConsentInv => CredentialIdentity
    BY DEF TypeOK, RowTypes, ConsentInv, RowsAreConsented, Consented, CredentialIdentity
  <1> QED
    BY <1>1, TypeCorrect, ConsentIsInvariant, PTL

(* No two connections of the tenant ever show the same Google account.     *)
THEOREM IdentitiesAreUnique == Spec => []UniqueIdentity
  <1>1. Init => UniqueIdentity
    BY DEF Init, UniqueIdentity
  <1>2. TypeOK /\ ConsentInv /\ UniqueIdentity /\ [Next]_vars => UniqueIdentity'
    <2> SUFFICES ASSUME TypeOK, ConsentInv, UniqueIdentity, [Next]_vars
                 PROVE  UniqueIdentity'
      OBVIOUS
    <2> USE DEF UniqueIdentity
    <2>0. RowTypes /\ AbsentIsEmpty
      BY DEF TypeOK, ConsentInv
    <2>1. CASE UNCHANGED <<created, rows, subject, credential>>
      BY <2>1
    <2>2. ASSUME NEW c \in Connections \ created, rows' = rows \cup {c},
                 UNCHANGED <<subject, credential>>
          PROVE  UniqueIdentity'
      BY <2>0, <2>2 DEF RowTypes, AbsentIsEmpty
    <2>3. ASSUME NEW r \in Requests, StoreCredential(r) \/ RestoreCredential(r)
          PROVE  UniqueIdentity'
      BY <2>3 DEF StoreCredential, RestoreCredential, UpsertCredential
    <2>4. ASSUME NEW c \in Connections, NEW x \in Subjects \cup {Pending},
                 UpdateConnectionIdentity(c, x)
          PROVE  UniqueIdentity'
      BY <2>0, <2>4 DEF UpdateConnectionIdentity, SubjectIsFree, RowTypes
    <2>5. ASSUME NEW c \in Connections, DeleteRow(c)
          PROVE  UniqueIdentity'
      BY <2>0, <2>5 DEF DeleteRow, RowTypes
    <2> QED
      BY TableSteps, <2>1, <2>2, <2>3, <2>4, <2>5
  <1> QED
    BY <1>1, <1>2, TypeCorrect, ConsentIsInvariant, PTL DEF Spec

(* A connection that is gone stays gone and stays empty.                   *)
THEOREM DisconnectionIsFinal == Spec => DisconnectIsFinal
  <1>1. TypeOK /\ ConsentInv /\ [Next]_vars
        => [\A c \in created \ rows : c \notin rows' /\ credential'[c] = None]_vars
    <2> SUFFICES ASSUME TypeOK, ConsentInv, [Next]_vars, NEW c \in created \ rows
                 PROVE  c \notin rows' /\ credential'[c] = None
      OBVIOUS
    <2>0. RowTypes /\ c \in Connections /\ credential[c] = None
      BY DEF TypeOK, RowTypes, ConsentInv, AbsentIsEmpty
    <2>1. ASSUME NEW r \in Requests, StoreCredential(r) \/ RestoreCredential(r)
          PROVE  c \notin rows' /\ credential'[c] = None
      <3>1. target[r] \in rows /\ credential' = [credential EXCEPT ![target[r]] = token[r]]
            /\ rows' = rows
        BY <2>1 DEF StoreCredential, RestoreCredential, UpsertCredential, ForeignKeyHolds
      <3> QED
        BY <2>0, <3>1 DEF RowTypes
    <2>2. ASSUME NEW d \in Connections, NEW x \in Subjects \cup {Pending},
                 UpdateConnectionIdentity(d, x)
          PROVE  c \notin rows' /\ credential'[c] = None
      BY <2>0, <2>2 DEF UpdateConnectionIdentity
    <2>3. ASSUME NEW d \in Connections, DeleteRow(d)
          PROVE  c \notin rows' /\ credential'[c] = None
      BY <2>0, <2>3 DEF DeleteRow, RowTypes
    <2> QED
      BY TableSteps, <2>0, <2>1, <2>2, <2>3 DEF RowTypes
  <1> QED
    BY <1>1, TypeCorrect, ConsentIsInvariant, PTL DEF Spec, DisconnectIsFinal

(* A state nobody has consumed has authorised nothing.                     *)
UsesInv == \A s \in States :
  /\ oauthState[s] \in {"free", "issued"} => uses[s] = 0
  /\ uses[s] <= 1

(* An OAuth state authorises at most one token exchange.                   *)
THEOREM StatesAreOneUse == Spec => []StateIsOneUse
  <1>1. Init => UsesInv
    BY DEF Init, UsesInv
  <1>2. TypeOK /\ UsesInv /\ [Next]_vars => UsesInv'
    <2> SUFFICES ASSUME TypeOK, UsesInv, [Next]_vars
                 PROVE  UsesInv'
      OBVIOUS
    <2>0. StateTypes /\ HistoryTypes
      BY DEF TypeOK
    <2> USE DEF stateVars, historyVars
    <2>1. ASSUME NEW r \in Requests, NEW s \in States, CreateOAuthState(r, s)
          PROVE  UsesInv'
      BY <2>0, <2>1 DEF CreateOAuthState, UsesInv, StateTypes
    <2>2. ASSUME NEW r \in Requests, ConsumeState(r)
          PROVE  UsesInv'
      <3>1. ticket[r] \in States /\ uses[ticket[r]] = 0
        BY <2>2 DEF ConsumeState, StateIsUnconsumed, UsesInv, TypeOK, LocalsAreSet
      <3> QED
        BY <2>0, <2>2, <3>1 DEF ConsumeState, UsesInv, StateTypes, HistoryTypes
    <2>3. ASSUME NEW r \in Requests, MarkConnectionFailed(r) \/ DeleteConnection(r)
          PROVE  UsesInv'
      <3>1. UNCHANGED uses /\ (UNCHANGED oauthState \/ DeleteRow(target[r]))
        BY <2>3 DEF MarkConnectionFailed, DeleteConnection
      <3>2. \A s \in States : oauthState'[s] \in {"free", "issued"} => oauthState'[s] = oauthState[s]
        BY <3>1 DEF DeleteRow
      <3> QED
        BY <3>1, <3>2 DEF UsesInv
    <2>4. CASE UNCHANGED <<oauthState, uses>>
      BY <2>4 DEF UsesInv
    <2>5. \/ UNCHANGED <<oauthState, uses>>
          \/ \E r \in Requests, s \in States : CreateOAuthState(r, s)
          \/ \E r \in Requests : ConsumeState(r) \/ MarkConnectionFailed(r) \/ DeleteConnection(r)
      BY DEF Next, vars, StartConnect, StartReconnect, RefreshConnection, Disconnect, PresentState,
         ExchangeCode, HandlerThrows, StateWasTaken, LoadConnection, ConnectionIsGone,
         ExchangeFails, FindIdentityConflict, StoreCredential, StoreFails, RecordIdentity,
         IdentityThrows, Activate, ReadCredential, GoogleRefreshes, GoogleRejects,
         GoogleIsUnavailable, RestoreCredential, DropCredential, MarkNeedsReconnect,
         ReadForRevoke, Revoke, AppendAudit, Crash, GrantDies
    <2> QED
      BY <2>1, <2>2, <2>3, <2>4, <2>5
  <1>3. UsesInv => StateIsOneUse
    BY DEF UsesInv, StateIsOneUse
  <1> QED
    BY <1>1, <1>2, <1>3, TypeCorrect, PTL DEF Spec

(* The tables, requests and Google calls implement one vault per           *)
(* connection: named once, filled only for its owner, empty once closed.   *)
THEOREM ConnectionsImplementVaults == Spec => ImplementsVault
  <1> USE DEF HeldSubject
  <1>1. Init => Vault!VaultInit
    BY DEF Init, Vault!VaultInit
  <1>2. TypeOK /\ ConsentInv /\ [Next]_vars => [Vault!VaultNext]_(Vault!vaultVars)
    <2> SUFFICES ASSUME TypeOK, ConsentInv, [Next]_vars
                 PROVE  [Vault!VaultNext]_(Vault!vaultVars)
      OBVIOUS
    <2>0. RowTypes /\ GoogleTypes /\ HistoryTypes /\ RowsAreConsented
      BY DEF TypeOK, ConsentInv
    \* A step that is not a token exchange leaves grants and consents alone.
    <2>1. CASE UNCHANGED <<minted, consented>>
      <3>1. CASE UNCHANGED <<created, rows, subject, credential>>
        BY <2>1, <3>1 DEF Vault!vaultVars
      <3>2. ASSUME NEW c \in Connections \ created, created' = created \cup {c},
                   rows' = rows \cup {c}, UNCHANGED <<subject, credential>>
            PROVE  Vault!VaultNext
        <4>1. Vault!Open(c)
          BY <2>1, <3>2 DEF Vault!Open
        <4> QED
          BY <3>2, <4>1 DEF Vault!VaultNext
      <3>3. ASSUME NEW r \in Requests, StoreCredential(r) \/ RestoreCredential(r)
            PROVE  Vault!VaultNext
        <4>1. /\ target[r] \in Connections /\ token[r] \in Tokens
              /\ Consented(target[r], token[r]) /\ UpsertCredential(target[r], token[r])
          BY <3>3 DEF StoreCredential, RestoreCredential, TypeOK, LocalsAreSet, ConsentInv,
             LocalsAreConsented
        <4>2. HeldSubject' = [HeldSubject EXCEPT ![target[r]] = consented[target[r]]]
          BY <2>0, <2>1, <4>1, NoneAssumption DEF UpsertCredential, Consented, RowTypes
        <4>3. Vault!Put(target[r])
          BY <2>1, <4>1, <4>2 DEF Vault!Put, UpsertCredential, ForeignKeyHolds, Consented
        <4>4. \E v \in Connections : Vault!Put(v)
          <5> HIDE DEF HeldSubject
          <5> QED
            BY <4>1, <4>3, Zenon
        <4> QED
          BY <4>4 DEF Vault!VaultNext
      <3>4. ASSUME NEW c \in Connections, NEW x \in Subjects \cup {Pending},
                   UpdateConnectionIdentity(c, x)
            PROVE  UNCHANGED Vault!vaultVars
        BY <2>1, <3>4 DEF Vault!vaultVars, UpdateConnectionIdentity
      <3>5. ASSUME NEW c \in Connections, credential' = [credential EXCEPT ![c] = None],
                   UNCHANGED <<created, rows, subject>>
            PROVE  Vault!VaultNext
        <4>1. Vault!Drop(c)
          BY <2>0, <2>1, <3>5 DEF Vault!Drop, RowTypes
        <4> QED
          BY <3>5, <4>1 DEF Vault!VaultNext
      <3>6. ASSUME NEW c \in Connections, DeleteRow(c)
            PROVE  Vault!VaultNext
        <4>1. Vault!Close(c)
          BY <2>0, <2>1, <3>6 DEF Vault!Close, DeleteRow, RowTypes
        <4> QED
          BY <3>6, <4>1 DEF Vault!VaultNext
      <3> HIDE DEF HeldSubject
      <3> QED
        BY TableSteps, <3>1, <3>2, <3>3, <3>4, <3>5, <3>6
    <2>2. ASSUME NEW r \in Requests, NEW t \in Tokens, NEW s \in Subjects, ExchangeCode(r, t, s)
          PROVE  [Vault!VaultNext]_(Vault!vaultVars)
      <3>1. /\ minted[t] = None /\ minted' = [minted EXCEPT ![t] = s]
            /\ UNCHANGED <<created, rows, credential>> /\ target[r] \in Connections
            /\ Intent(r) = "connect" => consented[target[r]] = None
            /\ target[r] \in created
        BY <2>2 DEF ExchangeCode, connectionVars, TypeOK, LocalsAreSet, ConsentInv, HoldersAreBound,
           LocalsAreConsented
      <3>2. HeldSubject' = HeldSubject
        BY <2>0, <3>1 DEF RowTypes, GoogleTypes, RowsAreConsented, Consented
      <3>3. CASE Intent(r) = "connect"
        <4>1. consented' = [consented EXCEPT ![target[r]] = s]
          BY <2>2, <3>3 DEF ExchangeCode
        <4>2. Vault!Name(target[r], s)
          BY <3>1, <3>2, <3>3, <4>1 DEF Vault!Name
        <4> QED
          BY <3>1, <4>2 DEF Vault!VaultNext
      <3>4. CASE Intent(r) # "connect"
        BY <2>2, <3>1, <3>2, <3>4 DEF ExchangeCode, Vault!vaultVars
      <3> QED
        BY <3>3, <3>4
    <2>3. \/ UNCHANGED <<minted, consented>>
          \/ \E r \in Requests, t \in Tokens, s \in Subjects : ExchangeCode(r, t, s)
      BY DEF Next, vars, googleVars, historyVars, StartConnect, StartReconnect, RefreshConnection,
         Disconnect, CreateOAuthState, PresentState, ConsumeState, MarkConnectionFailed,
         DeleteConnection, HandlerThrows, StateWasTaken, LoadConnection, ConnectionIsGone,
         ExchangeFails, FindIdentityConflict, StoreCredential, StoreFails, RecordIdentity,
         IdentityThrows, Activate, ReadCredential, GoogleRefreshes, GoogleRejects,
         GoogleIsUnavailable, RestoreCredential, DropCredential, MarkNeedsReconnect,
         ReadForRevoke, Revoke, AppendAudit, Crash, GrantDies
    <2> QED
      BY <2>1, <2>2, <2>3
  <1> QED
    BY <1>1, <1>2, TypeCorrect, ConsentIsInvariant, PTL DEF Spec, ImplementsVault, Vault!VaultSpec

=============================================================================
