---------------------------- MODULE ApprovedOnce ----------------------------
(***************************************************************************)
(* What the hosted chat promises about writes, without storage, clocks,    *)
(* browsers or requests: a tool call is asked about with certain           *)
(* arguments, the user decides once, and only an approved call is          *)
(* released, once, to be carried out with the arguments asked about.       *)
(* Whatever expires or is deleted is void for good.                        *)
(***************************************************************************)
EXTENDS Naturals

CONSTANTS Ids, Arguments, None

VARIABLES
  verdict,    \* per call: new, asked, approved, denied, spent or void
  asked,      \* per call: the arguments the user was asked about
  released,   \* calls released so far, with their arguments
  effects     \* per call and arguments: how often Google was asked to carry it out

approvedVars == <<verdict, asked, released, effects>>

ApprovedInit ==
  /\ verdict = [i \in Ids |-> "new"]
  /\ asked = [i \in Ids |-> None]
  /\ released = {}
  /\ effects = [x \in Ids \X Arguments |-> 0]

Ask(i, a) ==
  /\ verdict[i] = "new"
  /\ verdict' = [verdict EXCEPT ![i] = "asked"]
  /\ asked' = [asked EXCEPT ![i] = a]
  /\ UNCHANGED <<released, effects>>

Answer(i, v) ==
  /\ verdict[i] = "asked"
  /\ verdict' = [verdict EXCEPT ![i] = v]
  /\ UNCHANGED <<asked, released, effects>>

Release(i) ==
  /\ verdict[i] = "approved"
  /\ verdict' = [verdict EXCEPT ![i] = "spent"]
  /\ released' = released \cup {<<i, asked[i]>>}
  /\ UNCHANGED <<asked, effects>>

CarryOut(i, a) ==
  /\ <<i, a>> \in released
  /\ \A b \in Arguments : effects[<<i, b>>] = 0
  /\ effects' = [effects EXCEPT ![<<i, a>>] = 1]
  /\ UNCHANGED <<verdict, asked, released>>

Void(S) ==
  /\ verdict' = [i \in Ids |-> IF i \in S THEN "void" ELSE verdict[i]]
  /\ asked' = [i \in Ids |-> IF i \in S THEN None ELSE asked[i]]
  /\ UNCHANGED <<released, effects>>

ApprovedNext ==
  \/ \E i \in Ids :
       \/ \E a \in Arguments : Ask(i, a) \/ CarryOut(i, a)
       \/ \E v \in {"approved", "denied"} : Answer(i, v)
       \/ Release(i)
  \/ \E S \in SUBSET Ids : Void(S)

ApprovedSpec == ApprovedInit /\ [][ApprovedNext]_approvedVars

=============================================================================
