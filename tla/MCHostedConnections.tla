------------------------ MODULE MCHostedConnections ------------------------
(* Small instances of the hosted connection store for TLC.                 *)
EXTENDS HostedConnections, TLC

CONSTANTS r1, r2, sessionA, sessionB

(* Two invocations of one browser session.                                 *)
OneSession == (r1 :> sessionA) @@ (r2 :> sessionA)

(* Two invocations of different sessions of the same user.                 *)
TwoSessions == (r1 :> sessionA) @@ (r2 :> sessionB)

Symmetric == Permutations(Connections) \cup Permutations(States)
             \cup Permutations(Tokens) \cup Permutations(Subjects)
SymmetricRequests == Symmetric \cup Permutations(Requests)

=============================================================================
