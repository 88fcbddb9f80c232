--------------------------- MODULE HostedToolCalls ---------------------------
(***************************************************************************)
(* Authority over the tools of the hosted Worker: a tool call              *)
(* (internal/hosted/app/src/mcp.ts, handleToolCall) collects the           *)
(* connection, the tool grant, the resource grant and the credential it    *)
(* needs in separate reads, while the settings page saves grants,          *)
(* discovery imports resources and connections come and go.                *)
(*                                                                         *)
(* Connections are the vaults of CredentialVault, which the store of       *)
(* HostedConnections implements: whatever its requests do to a connection  *)
(* and its credential is a step of VaultNext here.  One D1 statement or    *)
(* batch is atomic.  One service and one type of resource are modelled;    *)
(* an account-level tool is called without a resource.  Denials that only  *)
(* depend on the request or on the daily quota precede all of this and     *)
(* change none of it, and audit rows are left out.                         *)
(***************************************************************************)
EXTENDS CredentialVault, Integers, FiniteSets

CONSTANTS
  Tools,          \* executable tools
  AccountTools,   \* those whose mapping names no resource type
  Resources,      \* Google resources that may be discovered
  Calls,          \* tool calls served at the same time
  Pages,          \* settings and discovery requests served at the same time
  ChunkSize       \* rows one discovery batch writes (100)

ASSUME ToolAssumption == AccountTools \subseteq Tools
ASSUME ChunkAssumption == ChunkSize \in Nat \ {0}
ASSUME NoneAssumption == None \notin Vaults \cup Owners \cup Tools \cup Resources

VARIABLES
  status,      \* hosted_google_connections.status
  toolGrants,  \* hosted_tool_grants: <<connection, tool>>, enabled rows
  inventory,   \* hosted_resource_grants: <<connection, resource>>, all rows
  enabled,     \* hosted_resource_grants: enabled rows
  call,        \* per tool call: where it waits and what it has read
  page,        \* per settings or discovery request: likewise
  during       \* history: what has been true since the call arrived

tableVars == <<status, toolGrants, inventory, enabled>>
vars == <<vaultVars, tableVars, call, page, during>>

(* While a connection is looked for, and once it has been found.           *)
Resolving == {"tool", "resource"}
Resolved == {"policy", "policyResources", "policyTools", "credential", "refresh", "execute"}

CallSteps == {"idle", "connections"} \cup Resolving \cup Resolved
CallStates == [step: CallSteps, tool: Tools \cup {None}, resource: Resources \cup {None},
               asked: Vaults \cup {None}, todo: SUBSET Vaults, at: Vaults \cup {None},
               usable: BOOLEAN, found: SUBSET Vaults, chosen: Vaults \cup {None}]
NoCall == [step |-> "idle", tool |-> None, resource |-> None, asked |-> None, todo |-> {},
           at |-> None, usable |-> FALSE, found |-> {}, chosen |-> None]

PageSteps == {"idle", "saveTools", "listOwned", "saveResources", "discover", "insert"}
PageStates == [step: PageSteps, connection: Vaults \cup {None},
               on: SUBSET (Tools \cup Resources), off: SUBSET (Tools \cup Resources)]
NoPage == [step |-> "idle", connection |-> None, on |-> {}, off |-> {}]

(* What a connection has been while a call was served: active, the tool    *)
(* granted, the resource enabled, and all three of them all the time.      *)
Sightings == [active: SUBSET Vaults, tool: SUBSET Vaults, resource: SUBSET Vaults,
              servable: SUBSET Vaults]
NothingSeen == [active |-> {}, tool |-> {}, resource |-> {}, servable |-> {}]

VaultTypes ==
  /\ opened \subseteq Vaults /\ open \subseteq opened
  /\ owner \in [Vaults -> Owners \cup {None}]
  /\ held \in [Vaults -> Owners \cup {None}]

(* Rows and locals have their types; a call has set what it is to use.     *)
TypeOK ==
  /\ VaultTypes
  /\ status \in [Vaults -> {"active", "needs_reconnect"}]
  /\ toolGrants \subseteq Vaults \X Tools
  /\ inventory \subseteq Vaults \X Resources /\ enabled \subseteq inventory
  /\ call \in [Calls -> CallStates] /\ page \in [Pages -> PageStates]
  /\ during \in [Calls -> Sightings]
  /\ \A q \in Calls :
       /\ call[q].step # "idle" =>
            /\ call[q].tool \in Tools
            /\ call[q].resource = None <=> call[q].tool \in AccountTools
       /\ call[q].chosen # None <=> call[q].step \in Resolved
  /\ \A e \in Pages :
       /\ page[e].step # "idle" => page[e].connection \in opened
       /\ page[e].step = "saveTools" => page[e].on \cup page[e].off \subseteq Tools

Init ==
  /\ VaultInit
  /\ status = [c \in Vaults |-> "active"]
  /\ toolGrants = {} /\ inventory = {} /\ enabled = {}
  /\ call = [q \in Calls |-> NoCall]
  /\ page = [e \in Pages |-> NoPage]
  /\ during = [q \in Calls |-> NothingSeen]

-----------------------------------------------------------------------------
(* The tables                                                              *)

(* listConnections, getConnection and the status check after either.       *)
ActiveConnections == {c \in open : status[c] = "active"}

WithTool(t) == {c \in Vaults : <<c, t>> \in toolGrants}
WithResource(x) == IF x = None THEN Vaults ELSE {c \in Vaults : <<c, x>> \in enabled}

OfConnection(c, items) == {c} \X items

(* ON DELETE CASCADE                                                       *)
OnlyOpen(grants) == {g \in grants : g[1] \in open'}

(* A step of the connection store, and what follows for its child tables.  *)
ConnectionStep ==
  /\ VaultNext
  /\ status' = [c \in Vaults |-> IF c \in open' THEN status[c] ELSE "active"]
  /\ toolGrants' = OnlyOpen(toolGrants)
  /\ inventory' = OnlyOpen(inventory)
  /\ enabled' = OnlyOpen(enabled)
  /\ UNCHANGED <<call, page>>

(* A callback or refresh has ended, one way or the other.                  *)
UpdateConnectionStatus(c, value) ==
  /\ c \in open
  /\ status' = [status EXCEPT ![c] = value]
  /\ UNCHANGED <<vaultVars, toolGrants, inventory, enabled, call, page>>

-----------------------------------------------------------------------------
(* handleToolCall                                                          *)

Finish(q) == call' = [call EXCEPT ![q] = NoCall]

Receive(q, t, x, c) ==
  /\ call[q].step = "idle"
  /\ x = None <=> t \in AccountTools
  /\ call' = [call EXCEPT ![q] = [NoCall EXCEPT !.step = "connections", !.tool = t,
                                                !.resource = x, !.asked = c]]
  /\ UNCHANGED <<vaultVars, tableVars, page>>

(* Go on with one of the connections left, at its first read, ...          *)
Visit(q, first, todo, found) == \E c \in todo :
  call' = [call EXCEPT ![q] = [@ EXCEPT !.step = first, !.at = c, !.usable = FALSE,
                                        !.todo = todo \ {c}, !.found = found]]

(* Fault: the first candidate is as good as any.                           *)
FirstCandidate(found) == found

(* ... or settle on the one candidate: none, and two, are denied.          *)
OnlyCandidate(found) == {c \in found : found = {c}}

Resolve(q, found) ==
  \/ \E c \in OnlyCandidate(found) :
       call' = [call EXCEPT ![q] = [@ EXCEPT !.step = "policy", !.at = None, !.usable = FALSE,
                                             !.todo = {}, !.found = {}, !.chosen = c]]
  \/ OnlyCandidate(found) = {} /\ Finish(q)

(* resolveGrantedResource reads the tool grant first, except that a named  *)
(* connection's resource comes before its tool.                            *)
FirstRead(q) ==
  IF call[q].resource # None /\ call[q].asked # None THEN "resource" ELSE "tool"

Proceed(q, todo, found) ==
  \/ Visit(q, FirstRead(q), todo, found)
  \/ todo = {} /\ Resolve(q, found)

ListConnections(q) ==
  /\ call[q].step = "connections"
  /\ Proceed(q, {c \in ActiveConnections : call[q].asked \in {None, c}}, {})
  /\ UNCHANGED <<vaultVars, tableVars, page>>

(* The connection at hand passed this read: it is a candidate once it has  *)
(* passed both.                                                            *)
Passed(q, other) ==
  IF call[q].resource # None /\ FirstRead(q) # other
  THEN call' = [call EXCEPT ![q].step = other]
  ELSE Proceed(q, call[q].todo, call[q].found \cup {call[q].at})

Failed(q) == Proceed(q, call[q].todo, call[q].found)

ReadToolGrants(q) ==
  /\ call[q].step = "tool"
  /\ IF call[q].at \in WithTool(call[q].tool) THEN Passed(q, "resource") ELSE Failed(q)
  /\ UNCHANGED <<vaultVars, tableVars, page>>

(* Fault: a resource in the inventory passes, enabled or not.              *)
AnyRow(q) == <<call[q].at, call[q].resource>> \in inventory

ResourceIsGranted(q) == call[q].at \in WithResource(call[q].resource)

ReadResourceGrants(q) ==
  /\ call[q].step = "resource"
  /\ IF ResourceIsGranted(q) THEN Passed(q, "tool") ELSE Failed(q)
  /\ UNCHANGED <<vaultVars, tableVars, page>>

(* policyTools goes through every active connection again: is the tool on  *)
(* offer on any of them?                                                   *)
Scan(q, todo, found) ==
  \/ Visit(q, "policyResources", todo, found)
  \/ todo = {} /\ found # {} /\
       call' = [call EXCEPT ![q] = [@ EXCEPT !.step = "credential", !.at = None,
                                             !.usable = FALSE, !.todo = {}, !.found = {}]]
  \/ todo = {} /\ found = {} /\ Finish(q)

ListPolicyConnections(q) ==
  /\ call[q].step = "policy"
  /\ Scan(q, ActiveConnections, {})
  /\ UNCHANGED <<vaultVars, tableVars, page>>

(* Any enabled resource of the tool's type will do.                        *)
ReadPolicyResources(q) ==
  /\ call[q].step = "policyResources"
  /\ call' = [call EXCEPT ![q].step = "policyTools",
                          ![q].usable = \/ call[q].resource = None
                                        \/ \E x \in Resources : call[q].at \in WithResource(x)]
  /\ UNCHANGED <<vaultVars, tableVars, page>>

ReadPolicyTools(q) ==
  /\ call[q].step = "policyTools"
  /\ Scan(q, call[q].todo,
          IF call[q].usable /\ call[q].at \in WithTool(call[q].tool)
          THEN call[q].found \cup {call[q].at} ELSE call[q].found)
  /\ UNCHANGED <<vaultVars, tableVars, page>>

(* googleGrantForConnection: without a credential the connection needs a   *)
(* reconnect; a token about to expire is refreshed first; a scope that may *)
(* not be used, or a broken deployment, ends the call.                     *)
ReadCredential(q) ==
  /\ call[q].step = "credential"
  /\ \/ /\ held[call[q].chosen] = None
        /\ status' = IF call[q].chosen \in open
                     THEN [status EXCEPT ![call[q].chosen] = "needs_reconnect"] ELSE status
        /\ Finish(q)
     \/ /\ held[call[q].chosen] # None
        /\ \/ call' = [call EXCEPT ![q].step = "execute"]
           \/ call' = [call EXCEPT ![q].step = "refresh"]
           \/ Finish(q)
        /\ UNCHANGED status
  /\ UNCHANGED <<vaultVars, toolGrants, inventory, enabled, page>>

(* refreshConnection has run, as steps of the connection store, and the    *)
(* credential is read again.                                               *)
RefreshReturns(q) ==
  /\ call[q].step = "refresh"
  /\ \/ /\ held[call[q].chosen] # None
        /\ call' = [call EXCEPT ![q].step = "execute"]
     \/ Finish(q)
  /\ UNCHANGED <<vaultVars, tableVars, page>>

(* The runner calls Google, the answer is returned.                        *)
Execute(q) ==
  /\ call[q].step = "execute"
  /\ Finish(q)
  /\ UNCHANGED <<vaultVars, tableVars, page>>

-----------------------------------------------------------------------------
(* The settings page                                                       *)

(* The request is answered, or its statement throws.                       *)
Answer(e) == page' = [page EXCEPT ![e] = NoPage]

(* saveToolPermissions and saveResourceGrants: getConnection must find the *)
(* row.  Choices are what the user turned on and off.                      *)
Submit(e, c, step, on, off) ==
  /\ page[e].step = "idle"
  /\ c \in open
  /\ on \cap off = {} /\ on \cup off # {}
  /\ page' = [page EXCEPT ![e] = [step |-> step, connection |-> c, on |-> on, off |-> off]]
  /\ UNCHANGED <<vaultVars, tableVars, call>>

(* Fault: the INSERT does not look for the connection and no foreign key   *)
(* does.                                                                   *)
AnyConnection(c) == TRUE

(* INSERT ... SELECT FROM the connection, and the compound foreign key.    *)
ForeignKeyHolds(c) == c \in open

(* saveToolGrants: one batch; a statement without a row to return throws.  *)
SaveToolGrants(e) ==
  /\ page[e].step = "saveTools"
  /\ LET c == page[e].connection IN
       toolGrants' = IF ForeignKeyHolds(c)
                     THEN (toolGrants \cup OfConnection(c, page[e].on))
                            \ OfConnection(c, page[e].off)
                     ELSE toolGrants
  /\ Answer(e)
  /\ UNCHANGED <<vaultVars, status, inventory, enabled, call>>

(* Every choice must be about a resource the connection has.               *)
ListOwned(e) ==
  /\ page[e].step = "listOwned"
  /\ IF OfConnection(page[e].connection, page[e].on \cup page[e].off) \subseteq inventory
     THEN page' = [page EXCEPT ![e].step = "saveResources"]
     ELSE Answer(e)
  /\ UNCHANGED <<vaultVars, tableVars, call>>

(* Fault: the choices are upserted.                                        *)
AnyChoice(c, items) == OfConnection(c, items)

(* setResourceGrantsEnabled: an UPDATE touches the rows that still exist.  *)
StoredRows(c, items) == OfConnection(c, items) \cap inventory

SaveResourceGrants(e) ==
  /\ page[e].step = "saveResources"
  /\ LET c == page[e].connection IN
       enabled' = (enabled \cup StoredRows(c, page[e].on)) \ OfConnection(c, page[e].off)
  /\ Answer(e)
  /\ UNCHANGED <<vaultVars, status, toolGrants, inventory, call>>

-----------------------------------------------------------------------------
(* Discovery                                                               *)

(* discoverConnection, or a callback that has just connected the account.  *)
Discover(e, c) ==
  /\ page[e].step = "idle"
  /\ c \in open
  /\ page' = [page EXCEPT ![e] = [NoPage EXCEPT !.step = "discover", !.connection = c]]
  /\ UNCHANGED <<vaultVars, tableVars, call>>

(* The runner has listed the account's resources, or failed to.  The       *)
(* choices the user made so far are read before they are written back.     *)
ListKnown(e, items) ==
  /\ page[e].step = "discover"
  /\ LET chosen == {x \in items : <<page[e].connection, x>> \in enabled} IN
       IF items = {} THEN Answer(e)
       ELSE page' = [page EXCEPT ![e].step = "insert", ![e].on = chosen,
                                 ![e].off = items \ chosen]
  /\ UNCHANGED <<vaultVars, tableVars, call>>

(* Fault: the conflict clause also writes the choice read before.          *)
WriteBack(c, chosen, items) ==
  enabled' = (enabled \ OfConnection(c, items)) \cup OfConnection(c, chosen)

(* ON CONFLICT leaves enabled alone: a choice is written with a new row.   *)
InsertChoices(c, chosen, items) ==
  enabled' = enabled \cup (OfConnection(c, chosen) \ inventory)

(* upsertResourceGrants: one batch after the other, each of them atomic.   *)
InsertChunk(e, items) ==
  LET c == page[e].connection
      left == page[e].on \cup page[e].off
  IN
  /\ page[e].step = "insert"
  /\ items \subseteq left
  /\ IF Cardinality(left) < ChunkSize THEN items = left ELSE Cardinality(items) = ChunkSize
  /\ \/ /\ ForeignKeyHolds(c)
        /\ InsertChoices(c, page[e].on \cap items, items)
        /\ inventory' = inventory \cup OfConnection(c, items)
        /\ IF items = left THEN Answer(e)
           ELSE page' = [page EXCEPT ![e].on = @ \ items, ![e].off = @ \ items]
     \/ /\ ~ ForeignKeyHolds(c)
        /\ Answer(e)
        /\ UNCHANGED <<inventory, enabled>>
  /\ UNCHANGED <<vaultVars, status, toolGrants, call>>

-----------------------------------------------------------------------------
(* The system                                                              *)

CallStep(q) ==
  \/ \E t \in Tools, x \in Resources \cup {None}, c \in Vaults \cup {None} : Receive(q, t, x, c)
  \/ ListConnections(q) \/ ReadToolGrants(q) \/ ReadResourceGrants(q)
  \/ ListPolicyConnections(q) \/ ReadPolicyResources(q) \/ ReadPolicyTools(q)
  \/ ReadCredential(q) \/ RefreshReturns(q) \/ Execute(q)

PageStep(e) ==
  \/ \E c \in Vaults :
       \/ \E on, off \in SUBSET Tools : Submit(e, c, "saveTools", on, off)
       \/ \E on, off \in SUBSET Resources : Submit(e, c, "listOwned", on, off)
       \/ Discover(e, c)
  \/ \E items \in SUBSET Resources : ListKnown(e, items) \/ InsertChunk(e, items)
  \/ SaveToolGrants(e) \/ ListOwned(e) \/ SaveResourceGrants(e)

Step ==
  \/ ConnectionStep
  \/ \E c \in Vaults, value \in {"active", "needs_reconnect"} : UpdateConnectionStatus(c, value)
  \/ \E q \in Calls : CallStep(q)
  \/ \E e \in Pages : PageStep(e)

(* The connections a call may still be executed with.                      *)
Considered(q) ==
  IF call[q].step = "connections" THEN Vaults
  ELSE IF call[q].chosen # None THEN {call[q].chosen}
  ELSE call[q].todo \cup {call[q].at} \cup call[q].found

Granted(q) == WithTool(call[q].tool)
Enabled(q) == WithResource(call[q].resource)

(* What is true of them after the step is remembered until the call ends.  *)
Seen(q, before) ==
  [active   |-> Considered(q)' \cap (before.active \cup ActiveConnections'),
   tool     |-> Considered(q)' \cap (before.tool \cup Granted(q)'),
   resource |-> Considered(q)' \cap (before.resource \cup Enabled(q)'),
   servable |-> before.servable \cap ActiveConnections' \cap Granted(q)' \cap Enabled(q)']

Observe == during' = [q \in Calls |->
  IF call'[q].step = "idle" THEN NothingSeen
  ELSE IF call[q].step = "idle" THEN Seen(q, [NothingSeen EXCEPT !.servable = Vaults])
  ELSE Seen(q, during[q])]

Next == Step /\ Observe

Spec == Init /\ [][Next]_vars

-----------------------------------------------------------------------------
(* Properties                                                              *)

(* A call is executed only with a connection, a tool grant and a resource  *)
(* grant that all were in force at some time after it arrived: what the    *)
(* user took back before, in whatever order grants, discovery and          *)
(* connections change while the call reads them one by one, is refused.    *)
RevocationsAreHonoured == \A q \in Calls : call[q].step = "execute" =>
  /\ call[q].chosen \in during[q].active
  /\ call[q].chosen \in during[q].tool
  /\ call[q].chosen \in during[q].resource

(* A call that names its connection is executed there, and one that does   *)
(* not is never executed while another connection could have served it     *)
(* all along: resolveGrantedResource answers connection_ambiguous.         *)
ChoiceIsUnambiguous == \A q \in Calls : call[q].step = "execute" =>
  IF call[q].asked = None THEN during[q].servable \subseteq {call[q].chosen}
  ELSE call[q].chosen = call[q].asked

(* Authority goes with its connection: no save and no discovery that was   *)
(* under way when a connection was deleted leaves a grant behind.          *)
GrantsHaveConnections ==
  \A g \in toolGrants \cup inventory : g[1] \in open

(* "Added assets start disabled; conflicts preserve the current stored     *)
(* choice" (docs/hosted/control-plane.md): a resource becomes enabled only *)
(* by a saved choice of the user, even when the user turned it off after   *)
(* a discovery under way had read the choices.                             *)
DiscoveryEnablesNothing ==
  [][\A g \in enabled' \ enabled : \E e \in Pages :
       /\ page[e].step = "saveResources"
       /\ g \in OfConnection(page[e].connection, page[e].on)]_vars

(* The inductive invariant.                                                *)
(* What a call has collected so far was true while it was collected.       *)
Collected(q) ==
  /\ call[q].step \in Resolving =>
       /\ call[q].at \in during[q].active /\ call[q].todo \subseteq during[q].active
       /\ call[q].found \subseteq
            during[q].active \cap during[q].tool \cap during[q].resource
       /\ call[q].step # FirstRead(q) =>
            call[q].at \in IF FirstRead(q) = "tool" THEN during[q].tool ELSE during[q].resource
  /\ call[q].step \in Resolved =>
       call[q].chosen \in during[q].active \cap during[q].tool \cap during[q].resource

(* Connections that could serve the call all along have not been dropped.  *)
Complete(q) ==
  /\ call[q].step \in Resolving =>
       LET kept == call[q].todo \cup {call[q].at} \cup call[q].found IN
       IF call[q].asked = None THEN during[q].servable \subseteq kept
       ELSE kept \subseteq {call[q].asked}
  /\ call[q].step \in Resolved =>
       IF call[q].asked = None THEN during[q].servable \subseteq {call[q].chosen}
       ELSE call[q].chosen = call[q].asked

Inv ==
  /\ \A q \in Calls : Collected(q) /\ Complete(q)
  /\ GrantsHaveConnections
  /\ \A e \in Pages : page[e].step = "insert" /\ page[e].connection \in open =>
       OfConnection(page[e].connection, page[e].on) \subseteq inventory

=============================================================================
