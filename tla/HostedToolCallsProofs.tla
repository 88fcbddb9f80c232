------------------------ MODULE HostedToolCallsProofs ------------------------
(***************************************************************************)
(* Theorems about HostedToolCalls for every number of connections, tools,  *)
(* resources, concurrent calls and settings requests, and every batch size.*)
(*                                                                         *)
(* Types come in three parts, for the tables, the calls and the pages.     *)
(* For the invariant, Proceeded and Decided follow the reads of the call   *)
(* that moves, Untouched covers the calls that wait meanwhile.             *)
(***************************************************************************)
EXTENDS HostedToolCalls, TLAPS

(* The parts of TypeOK.                                                    *)
TableTypes ==
  /\ VaultTypes
  /\ status \in [Vaults -> {"active", "needs_reconnect"}]
  /\ toolGrants \subseteq Vaults \X Tools
  /\ inventory \subseteq Vaults \X Resources /\ enabled \subseteq inventory

CallTypes ==
  /\ call \in [Calls -> CallStates]
  /\ \A q \in Calls :
       /\ call[q].step # "idle" =>
            /\ call[q].tool \in Tools
            /\ call[q].resource = None <=> call[q].tool \in AccountTools
       /\ call[q].chosen # None <=> call[q].step \in Resolved

PageTypes ==
  /\ page \in [Pages -> PageStates]
  /\ \A e \in Pages :
       /\ page[e].step # "idle" => page[e].connection \in opened
       /\ page[e].step = "saveTools" => page[e].on \cup page[e].off \subseteq Tools

(* TypeOK, taken apart: tables, calls, pages and history.                  *)
LEMMA TypeParts ==
    TypeOK <=> TableTypes /\ CallTypes /\ PageTypes /\ during \in [Calls -> Sightings]
  BY DEF TypeOK, TableTypes, CallTypes, PageTypes

-----------------------------------------------------------------------------
(* Types                                                                   *)

(* Storing a well-formed record for one call keeps the calls well-formed.  *)
LEMMA CallRecord ==
  ASSUME CallTypes, NEW q \in Calls, NEW r \in CallStates, call' = [call EXCEPT ![q] = r],
         r.step # "idle" => /\ r.tool \in Tools
                            /\ r.resource = None <=> r.tool \in AccountTools,
         r.chosen # None <=> r.step \in Resolved
  PROVE  CallTypes'
  BY DEF CallTypes

(* Ending a call keeps the calls well-formed.                              *)
LEMMA FinishTypes == \A q \in Calls : CallTypes /\ Finish(q) => CallTypes'
  <1> SUFFICES ASSUME NEW q \in Calls, CallTypes, Finish(q)
               PROVE  CallTypes'
    OBVIOUS
  <1>1. NoCall \in CallStates /\ NoCall.step = "idle" /\ NoCall.chosen = None
    BY DEF NoCall, CallStates, CallSteps
  <1>2. "idle" \notin Resolved
    BY DEF Resolved
  <1> QED
    BY <1>1, <1>2, CallRecord DEF Finish

(* Reading on, and settling on a connection, keep calls well-formed.       *)
LEMMA ProceedTypes ==
    \A q \in Calls : \A todo, found \in SUBSET Vaults :
      CallTypes /\ call[q].step \in {"connections"} \cup Resolving /\ Proceed(q, todo, found)
        => CallTypes'
  <1> SUFFICES ASSUME NEW q \in Calls, NEW todo \in SUBSET Vaults, NEW found \in SUBSET Vaults,
                      CallTypes, call[q].step \in {"connections"} \cup Resolving,
                      Proceed(q, todo, found)
               PROVE  CallTypes'
    OBVIOUS
  <1>0. /\ call[q] \in CallStates /\ call[q].tool \in Tools /\ call[q].chosen = None
        /\ call[q].resource = None <=> call[q].tool \in AccountTools
    BY DEF CallTypes, Resolving, Resolved
  <1>1. CASE Visit(q, FirstRead(q), todo, found)
    <2>1. PICK c \in todo : call' = [call EXCEPT ![q] = [@ EXCEPT !.step = FirstRead(q),
              !.at = c, !.usable = FALSE, !.todo = todo \ {c}, !.found = found]]
      BY <1>1 DEF Visit
    <2> DEFINE r == [call[q] EXCEPT !.step = FirstRead(q), !.at = c, !.usable = FALSE,
                                    !.todo = todo \ {c}, !.found = found]
    <2>2. FirstRead(q) \in Resolving
      BY DEF FirstRead, Resolving
    <2>3. /\ r \in CallStates /\ r.tool = call[q].tool /\ r.resource = call[q].resource
          /\ r.chosen = call[q].chosen /\ r.step \in Resolving
      BY <1>0, <2>2 DEF CallStates, CallSteps
    <2>4. r.step \notin Resolved
      BY <2>3 DEF Resolving, Resolved
    <2>5. call' = [call EXCEPT ![q] = r]
      BY <2>1
    <2> HIDE DEF r
    <2> QED
      BY <1>0, <2>3, <2>4, <2>5, CallRecord
  <1>2. CASE Finish(q)
    BY <1>2, FinishTypes
  <1>3. ASSUME NEW c \in OnlyCandidate(found),
               call' = [call EXCEPT ![q] = [@ EXCEPT !.step = "policy", !.at = None,
                          !.usable = FALSE, !.todo = {}, !.found = {}, !.chosen = c]]
        PROVE  CallTypes'
    <2>0. c \in Vaults
      BY <1>3 DEF OnlyCandidate
    <2> DEFINE r == [call[q] EXCEPT !.step = "policy", !.at = None, !.usable = FALSE,
                                    !.todo = {}, !.found = {}, !.chosen = c]
    <2>1. /\ r \in CallStates /\ r.tool = call[q].tool /\ r.resource = call[q].resource
          /\ r.chosen = c /\ r.step = "policy"
      BY <1>0, <2>0 DEF CallStates, CallSteps, Resolved
    <2>2. c # None /\ "policy" \in Resolved
      BY <2>0, NoneAssumption DEF Resolved
    <2>3. call' = [call EXCEPT ![q] = r]
      BY <1>3
    <2> HIDE DEF r
    <2> QED
      BY <1>0, <2>1, <2>2, <2>3, CallRecord
  <1> QED
    BY <1>1, <1>2, <1>3 DEF Proceed, Resolve

(* A step of a call's own keeps the calls well-formed, ...                 *)
LEMMA CallStepTypes == \A q \in Calls : TypeOK /\ CallStep(q) => CallTypes'
  <1> SUFFICES ASSUME NEW q \in Calls, TypeOK, CallStep(q)
               PROVE  CallTypes'
    OBVIOUS
  <1>0. /\ CallTypes /\ TableTypes
        /\ call[q] \in CallStates
        /\ call[q].step # "idle" => /\ call[q].tool \in Tools
                                    /\ call[q].resource = None <=> call[q].tool \in AccountTools
        /\ call[q].chosen # None <=> call[q].step \in Resolved
    BY TypeParts DEF CallTypes
  <1>1. ASSUME NEW t \in Tools, NEW x \in Resources \cup {None}, NEW c \in Vaults \cup {None},
               Receive(q, t, x, c)
        PROVE  CallTypes'
    <2> DEFINE r == [NoCall EXCEPT !.step = "connections", !.tool = t, !.resource = x, !.asked = c]
    <2>1. /\ r \in CallStates /\ r.step = "connections" /\ r.tool = t /\ r.resource = x
          /\ r.chosen = None
      BY DEF NoCall, CallStates, CallSteps
    <2>2. call' = [call EXCEPT ![q] = r] /\ (x = None <=> t \in AccountTools)
      BY <1>1 DEF Receive
    <2>3. "connections" \notin Resolved
      BY DEF Resolved
    <2> HIDE DEF r
    <2> QED
      BY <1>0, <2>1, <2>2, <2>3, CallRecord
  <1>2. CASE ListConnections(q)
    <2> DEFINE todo == {c \in ActiveConnections : call[q].asked \in {None, c}}
    <2>1. todo \in SUBSET Vaults /\ {} \in SUBSET Vaults
      BY <1>0 DEF ActiveConnections, TableTypes, VaultTypes
    <2>2. Proceed(q, todo, {}) /\ call[q].step = "connections"
      BY <1>2 DEF ListConnections
    <2> HIDE DEF todo
    <2> QED
      BY <1>0, <2>1, <2>2, ProceedTypes
  <1>3. CASE ReadToolGrants(q) \/ ReadResourceGrants(q)
    <2>1. call[q].step \in Resolving
      BY <1>3 DEF ReadToolGrants, ReadResourceGrants, Resolving
    <2>2. call[q].todo \in SUBSET Vaults /\ call[q].found \in SUBSET Vaults
      BY <1>0 DEF CallStates
    <2>3. ASSUME Failed(q)
          PROVE  CallTypes'
      BY <1>0, <2>1, <2>2, <2>3, ProceedTypes DEF Failed
    <2>4. ASSUME NEW other \in Resolving, Passed(q, other), call[q].at \in Vaults
          PROVE  CallTypes'
      <3>1. CASE call' = [call EXCEPT ![q].step = other]
        <4> DEFINE r == [call[q] EXCEPT !.step = other]
        <4>1. /\ r \in CallStates /\ r.step \notin Resolved /\ r.tool = call[q].tool
              /\ r.resource = call[q].resource /\ r.chosen = call[q].chosen
              /\ call[q].step # "idle" /\ call[q].step \notin Resolved
          BY <1>0, <2>1 DEF CallStates, CallSteps, Resolving, Resolved
        <4>2. call' = [call EXCEPT ![q] = r]
          BY <3>1
        <4> HIDE DEF r
        <4> QED
          BY <1>0, <4>1, <4>2, CallRecord
      <3>2. CASE Proceed(q, call[q].todo, call[q].found \cup {call[q].at})
        <4>1. call[q].found \cup {call[q].at} \in SUBSET Vaults
          BY <2>2, <2>4
        <4> QED
          BY <1>0, <2>1, <2>2, <3>2, <4>1, ProceedTypes
      <3> QED
        BY <2>4, <3>1, <3>2 DEF Passed
    <2>5. \/ Failed(q)
          \/ /\ call[q].at \in Vaults
             /\ Passed(q, "tool") \/ Passed(q, "resource")
      BY <1>3 DEF ReadToolGrants, ReadResourceGrants, ResourceIsGranted, WithTool, WithResource
    <2>6. "tool" \in Resolving /\ "resource" \in Resolving
      BY DEF Resolving
    <2> QED
      BY <2>3, <2>4, <2>5, <2>6
  <1>4. CASE \/ ListPolicyConnections(q) \/ ReadPolicyResources(q) \/ ReadPolicyTools(q)
             \/ ReadCredential(q) \/ RefreshReturns(q) \/ Execute(q)
    <2>1. call[q].step \in Resolved
      BY <1>4 DEF ListPolicyConnections, ReadPolicyResources, ReadPolicyTools, ReadCredential,
         RefreshReturns, Execute, Resolved
    <2>2. ASSUME NEW r \in CallStates, call' = [call EXCEPT ![q] = r], r.step \in Resolved,
                 r.tool = call[q].tool, r.resource = call[q].resource, r.chosen = call[q].chosen
          PROVE  CallTypes'
      <3>1. call[q].step # "idle"
        BY <2>1 DEF Resolved
      <3> QED
        BY <1>0, <2>1, <2>2, <3>1, CallRecord
    <2>3. ASSUME NEW todo \in SUBSET Vaults, NEW found \in SUBSET Vaults, Scan(q, todo, found)
          PROVE  CallTypes'
      <3>1. ASSUME NEW c \in todo,
                   call' = [call EXCEPT ![q] = [@ EXCEPT !.step = "policyResources", !.at = c,
                              !.usable = FALSE, !.todo = todo \ {c}, !.found = found]]
            PROVE  CallTypes'
        <4> DEFINE r == [call[q] EXCEPT !.step = "policyResources", !.at = c, !.usable = FALSE,
                                        !.todo = todo \ {c}, !.found = found]
        <4>1. /\ r \in CallStates /\ r.step \in Resolved /\ r.tool = call[q].tool
              /\ r.resource = call[q].resource /\ r.chosen = call[q].chosen
          BY <1>0 DEF CallStates, CallSteps, Resolved
        <4>2. call' = [call EXCEPT ![q] = r]
          BY <3>1
        <4> HIDE DEF r
        <4> QED
          BY <2>2, <4>1, <4>2
      <3>2. ASSUME call' = [call EXCEPT ![q] = [@ EXCEPT !.step = "credential", !.at = None,
                              !.usable = FALSE, !.todo = {}, !.found = {}]]
            PROVE  CallTypes'
        <4> DEFINE r == [call[q] EXCEPT !.step = "credential", !.at = None, !.usable = FALSE,
                                        !.todo = {}, !.found = {}]
        <4>1. /\ r \in CallStates /\ r.step \in Resolved /\ r.tool = call[q].tool
              /\ r.resource = call[q].resource /\ r.chosen = call[q].chosen
          BY <1>0 DEF CallStates, CallSteps, Resolved
        <4>2. call' = [call EXCEPT ![q] = r]
          BY <3>2
        <4> HIDE DEF r
        <4> QED
          BY <2>2, <4>1, <4>2
      <3> QED
        BY <1>0, <2>3, <3>1, <3>2, FinishTypes DEF Scan, Visit
    <2>4. CASE ListPolicyConnections(q)
      <3>1. Scan(q, ActiveConnections, {}) /\ ActiveConnections \in SUBSET Vaults
        BY <1>0, <2>4 DEF ListPolicyConnections, ActiveConnections, TableTypes, VaultTypes
      <3> QED
        BY <2>3, <3>1
    <2>5. CASE ReadPolicyTools(q)
      <3>1. \E found \in SUBSET Vaults : Scan(q, call[q].todo, found)
        BY <1>0, <2>5 DEF ReadPolicyTools, WithTool, CallStates
      <3>2. call[q].todo \in SUBSET Vaults
        BY <1>0 DEF CallStates
      <3> QED
        BY <2>3, <3>1, <3>2
    <2>6. CASE ReadPolicyResources(q)
      <3> DEFINE b == \/ call[q].resource = None
                      \/ \E x \in Resources : call[q].at \in WithResource(x)
                 r == [call[q] EXCEPT !.step = "policyTools", !.usable = b]
      <3>1. b \in BOOLEAN
        OBVIOUS
      <3>2. call' = [call EXCEPT ![q] = r]
        BY <2>6 DEF ReadPolicyResources
      <3> HIDE DEF b
      <3>3. /\ r \in CallStates /\ r.step \in Resolved /\ r.tool = call[q].tool
            /\ r.resource = call[q].resource /\ r.chosen = call[q].chosen
        BY <1>0, <3>1 DEF CallStates, CallSteps, Resolved
      <3> HIDE DEF r
      <3> QED
        BY <2>2, <3>2, <3>3
    <2>7. CASE ReadCredential(q) \/ RefreshReturns(q) \/ Execute(q)
      <3>1. \/ Finish(q)
            \/ \E step \in {"execute", "refresh"} : call' = [call EXCEPT ![q].step = step]
        BY <2>7 DEF ReadCredential, RefreshReturns, Execute
      <3>2. ASSUME NEW step \in {"execute", "refresh"}, call' = [call EXCEPT ![q].step = step]
            PROVE  CallTypes'
        <4> DEFINE r == [call[q] EXCEPT !.step = step]
        <4>1. /\ r \in CallStates /\ r.step \in Resolved /\ r.tool = call[q].tool
              /\ r.resource = call[q].resource /\ r.chosen = call[q].chosen
          BY <1>0 DEF CallStates, CallSteps, Resolved
        <4>2. call' = [call EXCEPT ![q] = r]
          BY <3>2
        <4> HIDE DEF r
        <4> QED
          BY <2>2, <4>1, <4>2
      <3> QED
        BY <1>0, <3>1, <3>2, FinishTypes
    <2> QED
      BY <1>4, <2>4, <2>5, <2>6, <2>7
  <1> QED
    BY <1>1, <1>2, <1>3, <1>4 DEF CallStep

(* ... and touches nothing but the connection's status.                    *)
LEMMA CallStepFrame ==
    \A q \in Calls : TypeOK /\ CallStep(q) =>
      /\ UNCHANGED <<vaultVars, toolGrants, inventory, enabled, page>>
      /\ status' \in [Vaults -> {"active", "needs_reconnect"}]
  BY DEF TypeOK, CallStep, Receive, ListConnections, ReadToolGrants, ReadResourceGrants,
     ListPolicyConnections, ReadPolicyResources, ReadPolicyTools, ReadCredential, RefreshReturns,
     Execute, tableVars

(* A settings or discovery request keeps pages and tables well-formed, ... *)
LEMMA PageStepTypes == \A e \in Pages : TypeOK /\ PageStep(e) => PageTypes' /\ TableTypes'
  <1> SUFFICES ASSUME NEW e \in Pages, TypeOK, PageStep(e)
               PROVE  PageTypes' /\ TableTypes'
    OBVIOUS
  <1>0. PageTypes /\ TableTypes
    BY TypeParts
  <1> USE <1>0 DEF PageTypes, TableTypes, VaultTypes, PageStates, PageSteps, NoPage, tableVars,
                   vaultVars, Answer, OfConnection
  <1>1. ASSUME NEW c \in Vaults, NEW on \in SUBSET Tools, NEW off \in SUBSET Tools,
               Submit(e, c, "saveTools", on, off)
        PROVE  PageTypes' /\ TableTypes'
    BY <1>1 DEF Submit
  <1>2. ASSUME NEW c \in Vaults, NEW on \in SUBSET Resources, NEW off \in SUBSET Resources,
               Submit(e, c, "listOwned", on, off)
        PROVE  PageTypes' /\ TableTypes'
    BY <1>2 DEF Submit
  <1>3. ASSUME NEW c \in Vaults, Discover(e, c)
        PROVE  PageTypes' /\ TableTypes'
    BY <1>3 DEF Discover
  <1>4. ASSUME NEW items \in SUBSET Resources, ListKnown(e, items)
        PROVE  PageTypes' /\ TableTypes'
    <2>1. /\ page[e].step = "discover"
          /\ UNCHANGED <<vaultVars, tableVars>>
      BY <1>4 DEF ListKnown
    <2>2. \/ Answer(e)
          \/ \E chosen \in SUBSET items :
               page' = [page EXCEPT ![e].step = "insert", ![e].on = chosen,
                                    ![e].off = items \ chosen]
      BY <1>4 DEF ListKnown
    <2>3. CASE Answer(e)
      BY <2>1, <2>3
    <2>4. ASSUME NEW chosen \in SUBSET items,
                 page' = [page EXCEPT ![e].step = "insert", ![e].on = chosen,
                                      ![e].off = items \ chosen]
          PROVE  PageTypes' /\ TableTypes'
      <3> DEFINE r == [page[e] EXCEPT !.step = "insert", !.on = chosen, !.off = items \ chosen]
      <3>1. chosen \subseteq Resources /\ items \ chosen \subseteq Resources
        OBVIOUS
      <3>2. r \in PageStates /\ r.step = "insert" /\ r.connection = page[e].connection
        BY <3>1
      <3>3. page' = [page EXCEPT ![e] = r]
        BY <2>4
      <3> HIDE DEF r
      <3> QED
        BY <2>1, <3>2, <3>3
    <2> QED
      BY <2>2, <2>3, <2>4
  <1>5. ASSUME NEW items \in SUBSET Resources, InsertChunk(e, items)
        PROVE  PageTypes' /\ TableTypes'
    <2>1. page[e].connection \in Vaults /\ page[e].step = "insert"
      BY <1>5 DEF InsertChunk
    <2>2. UNCHANGED <<vaultVars, status, toolGrants>>
      BY <1>5 DEF InsertChunk
    <2>3. inventory' \subseteq Vaults \X Resources /\ enabled' \subseteq inventory'
      BY <1>5, <2>1 DEF InsertChunk, InsertChoices
    <2>4. \/ Answer(e)
          \/ page' = [page EXCEPT ![e].on = @ \ items, ![e].off = @ \ items]
      BY <1>5 DEF InsertChunk
    <2>5. PageTypes'
      BY <2>1, <2>2, <2>4
    <2> QED
      BY <2>2, <2>3, <2>5
  <1>6. CASE SaveToolGrants(e)
    <2>1. page[e].connection \in Vaults /\ page[e].on \subseteq Tools
      BY <1>6 DEF SaveToolGrants
    <2> QED
      BY <1>6, <2>1 DEF SaveToolGrants
  <1>7. CASE ListOwned(e)
    BY <1>7 DEF ListOwned
  <1>8. CASE SaveResourceGrants(e)
    BY <1>8 DEF SaveResourceGrants, StoredRows
  <1> QED
    BY <1>1, <1>2, <1>3, <1>4, <1>5, <1>6, <1>7, <1>8 DEF PageStep

(* ... and touches neither connections nor calls.                          *)
LEMMA PageStepFrame ==
    \A e \in Pages : PageStep(e) => UNCHANGED <<vaultVars, status, call>>
  <1> SUFFICES ASSUME NEW e \in Pages, PageStep(e)
               PROVE  UNCHANGED <<vaultVars, status, call>>
    OBVIOUS
  <1>1. ASSUME NEW items \in SUBSET Resources, ListKnown(e, items) \/ InsertChunk(e, items)
        PROVE  UNCHANGED <<vaultVars, status, call>>
    BY <1>1 DEF ListKnown, InsertChunk, tableVars
  <1>2. ASSUME NEW c \in Vaults, NEW step, NEW on, NEW off, Submit(e, c, step, on, off)
        PROVE  UNCHANGED <<vaultVars, status, call>>
    BY <1>2 DEF Submit, tableVars
  <1>3. ASSUME NEW c \in Vaults, Discover(e, c)
        PROVE  UNCHANGED <<vaultVars, status, call>>
    BY <1>3 DEF Discover, tableVars
  <1>4. CASE SaveToolGrants(e) \/ ListOwned(e) \/ SaveResourceGrants(e)
    BY <1>4 DEF SaveToolGrants, ListOwned, SaveResourceGrants, tableVars
  <1> QED
    BY <1>1, <1>2, <1>3, <1>4 DEF PageStep

(* A step of the connection store keeps tables and pages well-formed, and  *)
(* forgets no connection that was ever opened.                             *)
LEMMA ConnectionStepTypes == TypeOK /\ ConnectionStep => TableTypes' /\ PageTypes' /\ opened \subseteq opened'
  <1> SUFFICES ASSUME TypeOK, ConnectionStep
               PROVE  TableTypes' /\ PageTypes' /\ opened \subseteq opened'
    OBVIOUS
  <1>0. PageTypes /\ TableTypes
    BY TypeParts
  <1>1. VaultTypes' /\ opened \subseteq opened'
    BY <1>0 DEF ConnectionStep, VaultNext, Open, Name, Put, Drop, Close, TableTypes, VaultTypes
  <1> QED
    BY <1>0, <1>1 DEF ConnectionStep, OnlyOpen, TableTypes, PageTypes

(* Every step keeps every variable in its type.                            *)
LEMMA TypeStep == TypeOK /\ [Next]_vars => TypeOK'
  <1> SUFFICES ASSUME TypeOK, [Next]_vars
               PROVE  TypeOK'
    OBVIOUS
  <1>0. TableTypes /\ CallTypes /\ PageTypes /\ during \in [Calls -> Sightings]
    BY TypeParts
  <1>1. CASE UNCHANGED vars
    BY <1>1 DEF vars, vaultVars, tableVars, TypeOK, VaultTypes
  <1>2. CASE Next
    <2>1. TableTypes' /\ CallTypes' /\ PageTypes'
      <3>1. CASE ConnectionStep
        <4>1. call' = call
          BY <3>1 DEF ConnectionStep
        <4> QED
          BY <1>0, <3>1, <4>1, ConnectionStepTypes DEF CallTypes
      <3>2. ASSUME NEW c \in Vaults, NEW value \in {"active", "needs_reconnect"},
                   UpdateConnectionStatus(c, value)
            PROVE  TableTypes' /\ CallTypes' /\ PageTypes'
        BY <1>0, <3>2 DEF UpdateConnectionStatus, TableTypes, VaultTypes, CallTypes, PageTypes,
           vaultVars
      <3>3. ASSUME NEW q \in Calls, CallStep(q)
            PROVE  TableTypes' /\ CallTypes' /\ PageTypes'
        BY <1>0, <3>3, CallStepTypes, CallStepFrame DEF TableTypes, VaultTypes, PageTypes, vaultVars
      <3>4. ASSUME NEW e \in Pages, PageStep(e)
            PROVE  TableTypes' /\ CallTypes' /\ PageTypes'
        BY <1>0, <3>4, PageStepTypes, PageStepFrame DEF CallTypes
      <3> QED
        BY <1>2, <3>1, <3>2, <3>3, <3>4 DEF Next, Step
    <2>2. ActiveConnections' \subseteq Vaults
      BY <2>1 DEF ActiveConnections, TableTypes, VaultTypes
    <2>3. \A q \in Calls : Granted(q)' \subseteq Vaults /\ Enabled(q)' \subseteq Vaults
      BY DEF Granted, Enabled, WithTool, WithResource
    <2>4. \A q \in Calls : \A before \in Sightings : Seen(q, before) \in Sightings
      BY <2>2, <2>3 DEF Seen, Sightings
    <2>5. NothingSeen \in Sightings /\ [NothingSeen EXCEPT !.servable = Vaults] \in Sightings
      BY DEF NothingSeen, Sightings
    <2>6. during' \in [Calls -> Sightings]
      BY <1>0, <1>2, <2>4, <2>5 DEF Next, Observe
    <2> QED
      BY <2>1, <2>6, TypeParts DEF TypeOK, TableTypes, CallTypes, PageTypes
  <1> QED
    BY <1>1, <1>2


-----------------------------------------------------------------------------
(* The inductive invariant                                                 *)

(* What Inv says of one call.                                              *)
CallInv(q) == Collected(q) /\ Complete(q)

(* What is known of a call once this step's tables have been looked at.    *)
NowActive(q) == during[q].active \cup ActiveConnections'
NowGranted(q) == during[q].tool \cup Granted(q)'
NowEnabled(q) == during[q].resource \cup Enabled(q)'
StillServable(q) ==
  during[q].servable \cap ActiveConnections' \cap Granted(q)' \cap Enabled(q)'

(* A call under way remembers what it has seen of the connections left.    *)
LEMMA Remembered ==
  ASSUME NEW q \in Calls, Observe, call[q].step # "idle", call'[q].step # "idle"
  PROVE  /\ during'[q].active = Considered(q)' \cap NowActive(q)
         /\ during'[q].tool = Considered(q)' \cap NowGranted(q)
         /\ during'[q].resource = Considered(q)' \cap NowEnabled(q)
         /\ during'[q].servable = StillServable(q)
  <1>1. during'[q] = Seen(q, during[q])
    BY DEF Observe
  <1> QED
    BY <1>1 DEF Seen, NowActive, NowGranted, NowEnabled, StillServable

(* A call that has ended, or not begun to read, claims nothing.            *)
LEMMA Unclaimed ==
  ASSUME NEW q \in Calls, call[q].step \in {"idle", "connections"}
  PROVE  CallInv(q)
  BY DEF CallInv, Collected, Complete, Resolving, Resolved

(* A call that waits loses nothing: memory only shrinks with what it still *)
(* considers, and connections stop being servable but never start.         *)
LEMMA Untouched ==
  ASSUME TypeOK, NEW q \in Calls, CallInv(q), Observe, call'[q] = call[q]
  PROVE  CallInv(q)'
  <1>1. CASE call[q].step \in {"idle", "connections"}
    BY <1>1 DEF CallInv, Collected, Complete, Resolving, Resolved
  <1>2. CASE call[q].step \in Resolving \cup Resolved
    <2>1. call[q].step # "idle"
      BY <1>2 DEF Resolving, Resolved
    <2>2. /\ during'[q].active = Considered(q)' \cap NowActive(q)
          /\ during'[q].tool = Considered(q)' \cap NowGranted(q)
          /\ during'[q].resource = Considered(q)' \cap NowEnabled(q)
          /\ during'[q].servable \subseteq during[q].servable
      BY <2>1, Remembered DEF StillServable
    <2>3. FirstRead(q)' = FirstRead(q)
      BY DEF FirstRead
    <2>4. CASE call[q].step \in Resolving
      <3>1. /\ call[q].chosen = None
            /\ call[q].step \notin Resolved /\ call[q].step # "connections"
        BY <2>4 DEF TypeOK, Resolving, Resolved
      <3>2. Considered(q)' = call[q].todo \cup {call[q].at} \cup call[q].found
        BY <3>1 DEF Considered
      <3> QED
        BY <2>2, <2>3, <2>4, <3>1, <3>2
           DEF CallInv, Collected, Complete, NowActive, NowGranted, NowEnabled
    <2>5. CASE call[q].step \in Resolved
      <3>1. /\ call[q].chosen # None
            /\ call[q].step \notin Resolving /\ call[q].step # "connections"
        BY <2>5 DEF TypeOK, Resolving, Resolved
      <3>2. Considered(q)' = {call[q].chosen}
        BY <3>1 DEF Considered
      <3> QED
        BY <2>2, <2>5, <3>1, <3>2
           DEF CallInv, Collected, Complete, NowActive, NowGranted, NowEnabled
    <2> QED
      BY <1>2, <2>4, <2>5
  <1> QED
    BY <1>1, <1>2 DEF TypeOK, CallStates, CallSteps

(* A call that has settled on a connection keeps what it knows of it.      *)
LEMMA Decided ==
  ASSUME TypeOK, NEW q \in Calls, CallInv(q), Observe,
         call[q].step \in Resolved, call'[q].step \in Resolved,
         call'[q].chosen = call[q].chosen, call'[q].asked = call[q].asked
  PROVE  CallInv(q)'
  <1>1. /\ call[q].chosen # None /\ call[q].step # "idle" /\ call'[q].step # "idle"
        /\ call'[q].step \notin Resolving /\ call'[q].step # "connections"
    BY DEF TypeOK, Resolving, Resolved
  <1>2. Considered(q)' = {call[q].chosen}
    BY <1>1 DEF Considered
  <1>3. /\ during'[q].active = Considered(q)' \cap NowActive(q)
        /\ during'[q].tool = Considered(q)' \cap NowGranted(q)
        /\ during'[q].resource = Considered(q)' \cap NowEnabled(q)
        /\ during'[q].servable \subseteq during[q].servable
    BY <1>1, Remembered DEF StillServable
  <1> QED
    BY <1>1, <1>2, <1>3 DEF CallInv, Collected, Complete, NowActive, NowGranted, NowEnabled

(* Reading on from connections and candidates that are what they seem      *)
(* keeps the invariant; so does settling on the only candidate.            *)
LEMMA Proceeded ==
  \A q \in Calls : \A todo, found \in SUBSET Vaults :
    /\ TypeOK /\ Observe
    /\ call[q].step \in {"connections"} \cup Resolving
    /\ todo \subseteq NowActive(q)
    /\ found \subseteq NowActive(q) \cap NowGranted(q) \cap NowEnabled(q)
    /\ IF call[q].asked = None THEN StillServable(q) \subseteq todo \cup found
       ELSE todo \cup found \subseteq {call[q].asked}
    /\ Proceed(q, todo, found)
    => CallInv(q)'
  <1> SUFFICES ASSUME NEW q \in Calls, NEW todo \in SUBSET Vaults, NEW found \in SUBSET Vaults,
                      TypeOK, Observe, call[q].step \in {"connections"} \cup Resolving,
                      todo \subseteq NowActive(q),
                      found \subseteq NowActive(q) \cap NowGranted(q) \cap NowEnabled(q),
                      IF call[q].asked = None THEN StillServable(q) \subseteq todo \cup found
                      ELSE todo \cup found \subseteq {call[q].asked},
                      Proceed(q, todo, found)
               PROVE  CallInv(q)'
    OBVIOUS
  <1>0. /\ call \in [Calls -> CallStates] /\ call[q] \in CallStates /\ call[q].chosen = None
        /\ call[q].step # "idle"
    BY DEF TypeOK, Resolving, Resolved
  <1>1. CASE Visit(q, FirstRead(q), todo, found)
    <2>1. PICK c \in todo : call' = [call EXCEPT ![q] = [@ EXCEPT !.step = FirstRead(q),
              !.at = c, !.usable = FALSE, !.todo = todo \ {c}, !.found = found]]
      BY <1>1 DEF Visit
    <2>2. /\ call'[q].step = FirstRead(q) /\ call'[q].at = c /\ call'[q].todo = todo \ {c}
          /\ call'[q].found = found /\ call'[q].chosen = None
          /\ call'[q].asked = call[q].asked /\ call'[q].resource = call[q].resource
      BY <1>0, <2>1 DEF CallStates
    <2>3. FirstRead(q) \in Resolving /\ FirstRead(q)' = FirstRead(q)
      BY <2>2 DEF FirstRead, Resolving
    <2>4. /\ call'[q].step \in Resolving /\ call'[q].step \notin Resolved
          /\ call'[q].step # "connections" /\ call'[q].step # "idle"
      BY <2>2, <2>3 DEF Resolving, Resolved
    <2>5. Considered(q)' = todo \cup found
      BY <2>1, <2>2, <2>4 DEF Considered
    <2>6. /\ during'[q].active = Considered(q)' \cap NowActive(q)
          /\ during'[q].tool = Considered(q)' \cap NowGranted(q)
          /\ during'[q].resource = Considered(q)' \cap NowEnabled(q)
          /\ during'[q].servable = StillServable(q)
      BY <1>0, <2>4, Remembered
    <2>7. Collected(q)'
      BY <2>1, <2>2, <2>3, <2>4, <2>5, <2>6 DEF Collected
    <2>8. Complete(q)'
      BY <2>1, <2>2, <2>4, <2>6 DEF Complete
    <2> QED
      BY <2>7, <2>8 DEF CallInv
  <1>2. CASE Finish(q)
    <2>1. call'[q].step = "idle"
      BY <1>0, <1>2 DEF Finish, NoCall
    <2> QED
      BY <2>1 DEF CallInv, Collected, Complete, Resolving, Resolved
  <1>3. ASSUME NEW c \in OnlyCandidate(found), todo = {},
               call' = [call EXCEPT ![q] = [@ EXCEPT !.step = "policy", !.at = None,
                          !.usable = FALSE, !.todo = {}, !.found = {}, !.chosen = c]]
        PROVE  CallInv(q)'
    <2>1. found = {c} /\ c \in Vaults /\ c # None
      BY <1>3, NoneAssumption DEF OnlyCandidate
    <2>2. /\ call'[q].step = "policy" /\ call'[q].chosen = c
          /\ call'[q].asked = call[q].asked
      BY <1>0, <1>3 DEF CallStates
    <2>3. Considered(q)' = {c}
      BY <2>1, <2>2 DEF Considered
    <2>4. /\ during'[q].active = Considered(q)' \cap NowActive(q)
          /\ during'[q].tool = Considered(q)' \cap NowGranted(q)
          /\ during'[q].resource = Considered(q)' \cap NowEnabled(q)
          /\ during'[q].servable = StillServable(q)
      BY <1>0, <2>2, Remembered
    <2> QED
      BY <1>3, <2>1, <2>2, <2>3, <2>4 DEF CallInv, Collected, Complete, Resolving, Resolved
  <1> QED
    BY <1>1, <1>2, <1>3 DEF Proceed, Resolve


(* Reading on, a call keeps its question.                                  *)
LEMMA SameQuestion ==
  ASSUME call \in [Calls -> CallStates], NEW q \in Calls, NEW todo, NEW found,
         Proceed(q, todo, found), call'[q].step # "idle"
  PROVE  call'[q].tool = call[q].tool /\ call'[q].resource = call[q].resource
  <1>0. call[q] \in CallStates
    OBVIOUS
  <1>1. CASE Visit(q, FirstRead(q), todo, found)
    BY <1>0, <1>1 DEF Visit, CallStates
  <1>2. CASE Finish(q)
    BY <1>2 DEF Finish, NoCall
  <1>3. ASSUME NEW c \in OnlyCandidate(found),
               call' = [call EXCEPT ![q] = [@ EXCEPT !.step = "policy", !.at = None,
                          !.usable = FALSE, !.todo = {}, !.found = {}, !.chosen = c]]
        PROVE  call'[q].tool = call[q].tool /\ call'[q].resource = call[q].resource
    BY <1>0, <1>3 DEF CallStates
  <1> QED
    BY <1>1, <1>2, <1>3 DEF Proceed, Resolve

(* A step of a call's own keeps what it has collected true and complete.   *)
LEMMA CallStepInv ==
  ASSUME TypeOK, NEW q \in Calls, CallInv(q), CallStep(q), Observe
  PROVE  CallInv(q)'
  <1>0. /\ call \in [Calls -> CallStates] /\ call[q] \in CallStates
        /\ call[q].step # "idle" => call[q].tool \in Tools
        /\ open \subseteq Vaults
        /\ UNCHANGED <<vaultVars, toolGrants, enabled>>
    BY CallStepFrame DEF TypeOK, VaultTypes
  <1>1. ASSUME NEW t \in Tools, NEW x \in Resources \cup {None}, NEW c \in Vaults \cup {None},
               Receive(q, t, x, c)
        PROVE  CallInv(q)'
    <2>1. call'[q].step = "connections"
      BY <1>0, <1>1 DEF Receive, NoCall
    <2> QED
      BY <2>1 DEF CallInv, Collected, Complete, Resolving, Resolved
  <1>2. CASE ListConnections(q)
    <2> DEFINE todo == {c \in ActiveConnections : call[q].asked \in {None, c}}
    <2>1. /\ Proceed(q, todo, {}) /\ call[q].step = "connections"
          /\ ActiveConnections' = ActiveConnections
      BY <1>2 DEF ListConnections, ActiveConnections, vaultVars, tableVars
    <2>2. /\ todo \in SUBSET Vaults /\ {} \in SUBSET Vaults /\ todo \subseteq NowActive(q)
          /\ {} \subseteq NowActive(q) \cap NowGranted(q) \cap NowEnabled(q)
      BY <1>0, <2>1 DEF ActiveConnections, NowActive
    <2>3. CASE call[q].asked = None
      <3>1. StillServable(q) \subseteq todo \cup {}
        BY <2>1, <2>3 DEF StillServable
      <3> HIDE DEF todo
      <3> QED
        BY <2>1, <2>2, <2>3, <3>1, Proceeded
    <2>4. CASE call[q].asked # None
      <3>1. todo \cup {} \subseteq {call[q].asked}
        BY <2>4
      <3> HIDE DEF todo
      <3> QED
        BY <2>1, <2>2, <2>4, <3>1, Proceeded
    <2> QED
      BY <2>3, <2>4
  <1>3. CASE ReadToolGrants(q) \/ ReadResourceGrants(q)
    <2>0. /\ call[q].step \in Resolving /\ call[q].step # "idle"
          /\ UNCHANGED <<vaultVars, tableVars>>
      BY <1>3 DEF ReadToolGrants, ReadResourceGrants, Resolving
    <2> DEFINE todo == call[q].todo
               at == call[q].at
               found == call[q].found
               toolFirst == FirstRead(q) = "tool"
    <2>1. /\ todo \in SUBSET Vaults /\ found \in SUBSET Vaults
          /\ at \in during[q].active /\ todo \subseteq during[q].active
          /\ found \subseteq during[q].active \cap during[q].tool \cap during[q].resource
          /\ call[q].step # FirstRead(q) =>
               at \in IF FirstRead(q) = "tool" THEN during[q].tool ELSE during[q].resource
      BY <1>0, <2>0 DEF CallInv, Collected, CallStates
    <2>2. at \in Vaults
      BY <2>1 DEF TypeOK, Sightings
    <2>3. IF call[q].asked = None THEN during[q].servable \subseteq todo \cup {at} \cup found
          ELSE todo \cup {at} \cup found \subseteq {call[q].asked}
      BY <2>0 DEF CallInv, Complete
    <2>4. /\ todo \subseteq NowActive(q)
          /\ found \subseteq NowActive(q) \cap NowGranted(q) \cap NowEnabled(q)
      BY <2>1 DEF NowActive, NowGranted, NowEnabled
    \* A connection that fails a read is not servable any more.
    <2>5. ASSUME Failed(q), at \notin Granted(q)' \cap Enabled(q)'
          PROVE  CallInv(q)'
      <3>1. IF call[q].asked = None THEN StillServable(q) \subseteq todo \cup found
            ELSE todo \cup found \subseteq {call[q].asked}
        BY <2>3, <2>5 DEF StillServable
      <3> QED
        BY <2>0, <2>1, <2>4, <2>5, <3>1, Proceeded DEF Failed
    \* One that passes its last read is a candidate.
    <2>6. ASSUME Proceed(q, todo, found \cup {at}), at \in NowGranted(q) \cap NowEnabled(q)
          PROVE  CallInv(q)'
      <3>1. /\ found \cup {at} \in SUBSET Vaults
            /\ found \cup {at} \subseteq NowActive(q) \cap NowGranted(q) \cap NowEnabled(q)
        BY <2>1, <2>2, <2>4, <2>6 DEF NowActive
      <3>2. IF call[q].asked = None THEN StillServable(q) \subseteq todo \cup (found \cup {at})
            ELSE todo \cup (found \cup {at}) \subseteq {call[q].asked}
        BY <2>3 DEF StillServable
      <3> QED
        BY <2>0, <2>1, <2>4, <2>6, <3>1, <3>2, Proceeded
    \* One that passes its first read is kept for the second.
    <2>7. ASSUME NEW other \in Resolving, call' = [call EXCEPT ![q].step = other],
                 other # FirstRead(q),
                 at \in IF FirstRead(q) = "tool" THEN NowGranted(q) ELSE NowEnabled(q)
          PROVE  CallInv(q)'
      <3>1. /\ call'[q].step = other /\ call'[q].todo = todo /\ call'[q].at = at
            /\ call'[q].found = found /\ call'[q].chosen = call[q].chosen
            /\ call'[q].asked = call[q].asked /\ call'[q].resource = call[q].resource
        BY <1>0, <2>7 DEF CallStates
      <3>2. /\ call[q].chosen = None /\ other \notin Resolved /\ other # "connections"
            /\ other # "idle"
        BY <2>0 DEF TypeOK, Resolving, Resolved
      <3>3. Considered(q)' = todo \cup {at} \cup found /\ FirstRead(q)' = FirstRead(q)
        BY <3>1, <3>2 DEF Considered, FirstRead
      <3>4. /\ during'[q].active = Considered(q)' \cap NowActive(q)
            /\ during'[q].tool = Considered(q)' \cap NowGranted(q)
            /\ during'[q].resource = Considered(q)' \cap NowEnabled(q)
            /\ during'[q].servable = StillServable(q)
        BY <2>0, <3>1, <3>2, Remembered
      <3>5. Collected(q)'
        BY <2>1, <2>4, <2>7, <3>1, <3>2, <3>3, <3>4 DEF Collected, NowActive
      <3>6. Complete(q)'
        BY <2>3, <3>1, <3>2, <3>4 DEF Complete, StillServable
      <3> QED
        BY <3>5, <3>6 DEF CallInv
    <2>8. CASE call'[q].step = "idle"
      BY <2>8 DEF CallInv, Collected, Complete, Resolving, Resolved
    \* What the read says is still so after the step.
    <2>9. /\ call'[q].tool = call[q].tool =>
               (at \in Granted(q)' <=> at \in WithTool(call[q].tool))
          /\ call'[q].resource = call[q].resource =>
               (at \in Enabled(q)' <=> at \in WithResource(call[q].resource))
      BY <2>0 DEF Granted, Enabled, WithTool, WithResource, tableVars
    <2>10. ASSUME call'[q].step # "idle", Failed(q),
                  \/ at \notin WithTool(call[q].tool)
                  \/ at \notin WithResource(call[q].resource)
           PROVE  CallInv(q)'
      <3>1. call'[q].tool = call[q].tool /\ call'[q].resource = call[q].resource
        BY <1>0, <2>10, SameQuestion DEF Failed
      <3> QED
        BY <2>5, <2>9, <2>10, <3>1
    <2>11. ASSUME call'[q].step # "idle", Passed(q, "resource"), call[q].step = "tool",
                  at \in WithTool(call[q].tool)
           PROVE  CallInv(q)'
      <3>1. CASE call[q].resource # None /\ FirstRead(q) # "resource"
        <4>1. call' = [call EXCEPT ![q].step = "resource"]
          BY <2>11, <3>1 DEF Passed
        <4>2. FirstRead(q) = "tool" /\ at \in NowGranted(q)
          BY <1>0, <2>9, <2>11, <3>1, <4>1 DEF FirstRead, NowGranted, CallStates
        <4> QED
          BY <2>7, <4>1, <4>2 DEF Resolving
      <3>2. CASE ~ (call[q].resource # None /\ FirstRead(q) # "resource")
        <4>1. Proceed(q, todo, found \cup {at})
          BY <2>11, <3>2 DEF Passed
        <4>2. call'[q].tool = call[q].tool /\ call'[q].resource = call[q].resource
          BY <1>0, <2>11, <4>1, SameQuestion
        <4>3. at \in NowGranted(q)
          BY <2>9, <2>11, <4>2 DEF NowGranted
        <4>4. at \in NowEnabled(q)
          <5>1. CASE call[q].resource = None
            BY <2>2, <2>9, <4>2, <5>1 DEF NowEnabled, WithResource
          <5>2. CASE FirstRead(q) = "resource"
            BY <2>1, <2>11, <5>2 DEF NowEnabled
          <5> QED
            BY <3>2, <5>1, <5>2
        <4> QED
          BY <2>6, <4>1, <4>3, <4>4
      <3> QED
        BY <3>1, <3>2
    <2>12. ASSUME call'[q].step # "idle", Passed(q, "tool"), call[q].step = "resource",
                  at \in WithResource(call[q].resource)
           PROVE  CallInv(q)'
      <3>1. CASE call[q].resource # None /\ FirstRead(q) # "tool"
        <4>1. call' = [call EXCEPT ![q].step = "tool"]
          BY <2>12, <3>1 DEF Passed
        <4>2. FirstRead(q) = "resource" /\ at \in NowEnabled(q)
          BY <1>0, <2>9, <2>12, <3>1, <4>1 DEF FirstRead, NowEnabled, CallStates
        <4> QED
          BY <2>7, <4>1, <4>2 DEF Resolving
      <3>2. CASE ~ (call[q].resource # None /\ FirstRead(q) # "tool")
        <4>1. Proceed(q, todo, found \cup {at})
          BY <2>12, <3>2 DEF Passed
        <4>2. call'[q].tool = call[q].tool /\ call'[q].resource = call[q].resource
          BY <1>0, <2>12, <4>1, SameQuestion
        <4>3. at \in NowEnabled(q)
          BY <2>9, <2>12, <4>2 DEF NowEnabled
        <4>4. FirstRead(q) = "tool"
          BY <3>2 DEF FirstRead
        <4>5. at \in NowGranted(q)
          BY <2>1, <2>12, <4>4 DEF NowGranted
        <4> QED
          BY <2>6, <4>1, <4>3, <4>5
      <3> QED
        BY <3>1, <3>2
    <2> QED
      BY <1>3, <2>8, <2>10, <2>11, <2>12 DEF ReadToolGrants, ReadResourceGrants, ResourceIsGranted
  <1>4. CASE \/ ListPolicyConnections(q) \/ ReadPolicyResources(q) \/ ReadPolicyTools(q)
             \/ ReadCredential(q) \/ RefreshReturns(q) \/ Execute(q)
    <2>1. call[q].step \in Resolved
      BY <1>4 DEF ListPolicyConnections, ReadPolicyResources, ReadPolicyTools, ReadCredential,
         RefreshReturns, Execute, Resolved
    <2>2. CASE call'[q].step = "idle"
      BY <2>2 DEF CallInv, Collected, Complete, Resolving, Resolved
    <2>3. ASSUME NEW todo, NEW found, Scan(q, todo, found), call'[q].step # "idle"
          PROVE  /\ call'[q].step \in Resolved /\ call'[q].chosen = call[q].chosen
                 /\ call'[q].asked = call[q].asked
      <3>1. CASE Visit(q, "policyResources", todo, found)
        BY <1>0, <3>1 DEF Visit, Resolved, CallStates
      <3>2. CASE call' = [call EXCEPT ![q] = [@ EXCEPT !.step = "credential", !.at = None,
                            !.usable = FALSE, !.todo = {}, !.found = {}]]
        BY <1>0, <3>2 DEF Resolved, CallStates
      <3>3. CASE Finish(q)
        BY <1>0, <2>3, <3>3 DEF Finish, NoCall
      <3> QED
        BY <2>3, <3>1, <3>2, <3>3 DEF Scan
    <2>4. ASSUME call'[q].step # "idle"
          PROVE  /\ call'[q].step \in Resolved /\ call'[q].chosen = call[q].chosen
                 /\ call'[q].asked = call[q].asked
      <3>1. CASE ListPolicyConnections(q) \/ ReadPolicyTools(q)
        BY <2>3, <2>4, <3>1 DEF ListPolicyConnections, ReadPolicyTools
      <3>2. CASE ReadPolicyResources(q)
        BY <1>0, <3>2 DEF ReadPolicyResources, Resolved, CallStates
      <3>3. CASE ReadCredential(q) \/ RefreshReturns(q) \/ Execute(q)
        BY <1>0, <2>4, <3>3 DEF ReadCredential, RefreshReturns, Execute, Finish, NoCall, Resolved,
           CallStates
      <3> QED
        BY <1>4, <3>1, <3>2, <3>3
    <2> QED
      BY <2>1, <2>2, <2>4, Decided
  <1> QED
    BY <1>1, <1>2, <1>3, <1>4 DEF CallStep

(* Grants have connections and a discovery under way only brings back      *)
(* choices about rows that are stored.                                     *)
RowInv ==
  /\ GrantsHaveConnections
  /\ \A e \in Pages : page[e].step = "insert" /\ page[e].connection \in open =>
       OfConnection(page[e].connection, page[e].on) \subseteq inventory

(* Deleting a connection deletes its grants, opening one brings none back. *)
LEMMA ConnectionStepRows == TypeOK /\ RowInv /\ ConnectionStep => RowInv'
  <1> SUFFICES ASSUME TypeOK, RowInv, ConnectionStep
               PROVE  RowInv'
    OBVIOUS
  <1>1. open' \cap opened \subseteq open
    BY DEF ConnectionStep, VaultNext, Open, Name, Put, Drop, Close
  <1>2. GrantsHaveConnections'
    BY DEF ConnectionStep, OnlyOpen, GrantsHaveConnections
  <1>3. ASSUME NEW e \in Pages, page'[e].step = "insert", page'[e].connection \in open'
        PROVE  OfConnection(page'[e].connection, page'[e].on) \subseteq inventory'
    <2>1. page' = page /\ page[e].connection \in opened
      BY <1>3 DEF ConnectionStep, TypeOK
    <2>2. OfConnection(page[e].connection, page[e].on) \subseteq inventory
      BY <1>1, <1>3, <2>1 DEF RowInv
    <2> QED
      BY <1>3, <2>1, <2>2 DEF ConnectionStep, OnlyOpen, OfConnection
  <1> QED
    BY <1>2, <1>3 DEF RowInv, OfConnection

(* Saves and discoveries write rows of connections that exist.             *)
LEMMA PageStepRows == \A e \in Pages : TypeOK /\ RowInv /\ PageStep(e) => RowInv'
  <1> SUFFICES ASSUME NEW e \in Pages, TypeOK, RowInv, PageStep(e)
               PROVE  RowInv'
    OBVIOUS
  <1>0. page \in [Pages -> PageStates] /\ enabled \subseteq inventory
        /\ inventory \subseteq Vaults \X Resources /\ open' = open
    BY PageStepFrame DEF TypeOK, vaultVars
  <1> USE <1>0 DEF RowInv, GrantsHaveConnections, PageStates, PageSteps, NoPage, tableVars, Answer,
                   OfConnection
  <1>1. ASSUME NEW c \in Vaults, NEW step \in {"saveTools", "listOwned"}, NEW on, NEW off,
               Submit(e, c, step, on, off)
        PROVE  RowInv'
    BY <1>1 DEF Submit
  <1>2. ASSUME NEW c \in Vaults, Discover(e, c)
        PROVE  RowInv'
    BY <1>2 DEF Discover
  <1>3. ASSUME NEW items \in SUBSET Resources, ListKnown(e, items)
        PROVE  RowInv'
    <2>1. UNCHANGED tableVars
      BY <1>3 DEF ListKnown
    <2>2. \/ Answer(e)
          \/ /\ page'[e].connection = page[e].connection
             /\ \A x \in page'[e].on : <<page[e].connection, x>> \in enabled
             /\ \A f \in Pages : f # e => page'[f] = page[f]
      <3> DEFINE chosen == {x \in items : <<page[e].connection, x>> \in enabled}
      <3>1. \/ Answer(e)
            \/ page' = [page EXCEPT ![e].step = "insert", ![e].on = chosen,
                                    ![e].off = items \ chosen]
        BY <1>3 DEF ListKnown
      <3>2. \A x \in chosen : <<page[e].connection, x>> \in enabled
        OBVIOUS
      <3> HIDE DEF chosen
      <3> QED
        BY <3>1, <3>2
    <2>3. CASE Answer(e)
      BY <2>1, <2>3
    <2>4. CASE /\ page'[e].connection = page[e].connection
               /\ \A x \in page'[e].on : <<page[e].connection, x>> \in enabled
               /\ \A f \in Pages : f # e => page'[f] = page[f]
      BY <2>1, <2>4
    <2> QED
      BY <2>2, <2>3, <2>4
  <1>4. ASSUME NEW items \in SUBSET Resources, InsertChunk(e, items)
        PROVE  RowInv'
    <2>1. /\ page[e].step = "insert" /\ toolGrants' = toolGrants
          /\ \/ inventory' = inventory
             \/ /\ inventory' = inventory \cup OfConnection(page[e].connection, items)
                /\ page[e].connection \in open
      BY <1>4 DEF InsertChunk, ForeignKeyHolds
    <2>2. \/ Answer(e)
          \/ /\ page'[e].connection = page[e].connection
             /\ page'[e].on \subseteq page[e].on /\ page'[e].step = page[e].step
             /\ \A f \in Pages : f # e => page'[f] = page[f]
      BY <1>4 DEF InsertChunk
    <2> QED
      BY <2>1, <2>2
  <1>5. CASE SaveToolGrants(e)
    BY <1>5 DEF SaveToolGrants, ForeignKeyHolds
  <1>6. CASE ListOwned(e)
    BY <1>6 DEF ListOwned
  <1>7. CASE SaveResourceGrants(e)
    BY <1>7 DEF SaveResourceGrants
  <1> QED
    BY <1>1, <1>2, <1>3, <1>4, <1>5, <1>6, <1>7 DEF PageStep

(* Inv, taken apart: the rows, and call by call.                           *)
LEMMA InvParts == Inv <=> RowInv /\ \A q \in Calls : CallInv(q)
  BY DEF Inv, RowInv, CallInv

(* Every step keeps the inductive invariant.                               *)
LEMMA InvStep == TypeOK /\ Inv /\ [Next]_vars => Inv'
  <1> SUFFICES ASSUME TypeOK, Inv, [Next]_vars
               PROVE  Inv'
    OBVIOUS
  <1>0. RowInv /\ \A q \in Calls : CallInv(q)
    BY InvParts
  <1>1. CASE UNCHANGED vars
    <2>1. RowInv'
      BY <1>0, <1>1 DEF vars, vaultVars, tableVars, RowInv, GrantsHaveConnections
    <2>2. ASSUME NEW q \in Calls
          PROVE  CallInv(q)'
      BY <1>0, <1>1 DEF vars, CallInv, Collected, Complete, FirstRead
    <2> QED
      BY <2>1, <2>2 DEF Inv, RowInv, CallInv
  <1>2. CASE Next
    <2>0. Observe
      BY <1>2 DEF Next
    <2>1. RowInv'
      <3>1. ASSUME NEW c \in Vaults, NEW value, UpdateConnectionStatus(c, value)
            PROVE  RowInv'
        BY <1>0, <3>1 DEF UpdateConnectionStatus, vaultVars, RowInv, GrantsHaveConnections
      <3>2. ASSUME NEW q \in Calls, CallStep(q)
            PROVE  RowInv'
        BY <1>0, <3>2, CallStepFrame DEF vaultVars, RowInv, GrantsHaveConnections
      <3> QED
        BY <1>0, <1>2, <3>1, <3>2, ConnectionStepRows, PageStepRows DEF Next, Step
    <2>2. ASSUME NEW q \in Calls
          PROVE  CallInv(q)'
      <3>1. CallStep(q) \/ call'[q] = call[q]
        <4>1. ASSUME NEW p \in Calls, p # q, CallStep(p)
              PROVE  call'[q] = call[q]
          BY <4>1 DEF TypeOK, CallStep, Receive, ListConnections, ReadToolGrants,
             ReadResourceGrants, ListPolicyConnections, ReadPolicyResources, ReadPolicyTools,
             ReadCredential, RefreshReturns, Execute, Passed, Failed, Proceed, Visit, Resolve,
             Scan, Finish
        <4> QED
          BY <1>2, <4>1, PageStepFrame DEF Next, Step, ConnectionStep, UpdateConnectionStatus
      <3> QED
        BY <1>0, <2>0, <3>1, CallStepInv, Untouched
    <2> QED
      BY <2>1, <2>2 DEF Inv, RowInv, CallInv
  <1> QED
    BY <1>1, <1>2

-----------------------------------------------------------------------------
(* The theorems.                                                           *)

(* Every variable keeps its type, and a call under way has set what it is  *)
(* about to use.                                                           *)
THEOREM TypeCorrect == Spec => []TypeOK
  <1>1. Init => TypeOK
    BY DEF Init, VaultInit, TypeOK, VaultTypes, NoCall, CallStates, CallSteps, Resolved, NoPage,
       PageStates, PageSteps, NothingSeen, Sightings
  <1> QED
    BY <1>1, TypeStep, PTL DEF Spec

(* The strengthening: what a call has collected was true while it          *)
(* collected it, and no connection that could have served it is dropped.   *)
THEOREM AuthorityIsCollected == Spec => []Inv
  <1>1. Init => Inv
    BY DEF Init, VaultInit, Inv, Collected, Complete, GrantsHaveConnections, NoCall, NoPage,
       Resolving, Resolved
  <1> QED
    BY <1>1, TypeCorrect, InvStep, PTL DEF Spec

(* A call is executed only under authority that was in force, piece by     *)
(* piece, since it arrived.                                                *)
THEOREM RevocationIsHonoured == Spec => []RevocationsAreHonoured
  <1>1. Inv => RevocationsAreHonoured
    BY DEF Inv, Collected, Resolved, RevocationsAreHonoured
  <1> QED
    BY <1>1, AuthorityIsCollected, PTL

(* A call is never executed while a second connection could have served    *)
(* it all along.                                                           *)
THEOREM ChoicesAreUnambiguous == Spec => []ChoiceIsUnambiguous
  <1>1. Inv => ChoiceIsUnambiguous
    BY DEF Inv, Complete, Resolved, ChoiceIsUnambiguous
  <1> QED
    BY <1>1, AuthorityIsCollected, PTL

(* No grant outlives its connection.                                       *)
THEOREM GrantsBelongToConnections == Spec => []GrantsHaveConnections
  <1>1. Inv => GrantsHaveConnections
    BY DEF Inv
  <1> QED
    BY <1>1, AuthorityIsCollected, PTL

(* Discovery never enables a resource.                                     *)
THEOREM OnlyUsersEnable == Spec => DiscoveryEnablesNothing
  <1>1. TypeOK /\ Inv /\ [Next]_vars
        => [\A g \in enabled' \ enabled : \E e \in Pages :
              /\ page[e].step = "saveResources"
              /\ g \in OfConnection(page[e].connection, page[e].on)]_vars
    <2> SUFFICES ASSUME TypeOK, Inv, [Next]_vars, NEW g \in enabled' \ enabled
                 PROVE  \E e \in Pages : /\ page[e].step = "saveResources"
                                         /\ g \in OfConnection(page[e].connection, page[e].on)
      OBVIOUS
    <2>1. PICK e \in Pages : PageStep(e)
      BY CallStepFrame DEF Next, Step, ConnectionStep, OnlyOpen, UpdateConnectionStatus, vars,
         tableVars
    <2>2. ASSUME NEW items, InsertChunk(e, items)
          PROVE  enabled' \subseteq enabled
      <3>1. CASE enabled' = enabled
        BY <3>1
      <3>2. CASE /\ page[e].step = "insert" /\ page[e].connection \in open
                 /\ InsertChoices(page[e].connection, page[e].on \cap items, items)
        BY <3>2 DEF InsertChoices, Inv, OfConnection
      <3> QED
        BY <2>2, <3>1, <3>2 DEF InsertChunk, ForeignKeyHolds
    <2>3. SaveResourceGrants(e)
      BY <2>1, <2>2 DEF PageStep, Submit, Discover, ListKnown, SaveToolGrants, ListOwned, tableVars
    <2> QED
      BY <2>3 DEF SaveResourceGrants, StoredRows
  <1> QED
    BY <1>1, TypeCorrect, AuthorityIsCollected, PTL DEF Spec, DiscoveryEnablesNothing


=============================================================================
