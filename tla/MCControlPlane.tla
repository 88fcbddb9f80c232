--------------------------- MODULE MCControlPlane ---------------------------
(* A small instance of ControlPlane.                                       *)
EXTENDS ControlPlane, TLC

Symmetry == Permutations(Connections) \cup Permutations(Accounts) \cup
            Permutations(Secrets) \cup Permutations(States) \cup
            Permutations(Ops)
=============================================================================
