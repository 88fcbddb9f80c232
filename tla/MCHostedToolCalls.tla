-------------------------- MODULE MCHostedToolCalls --------------------------
(* Small instances of the hosted tool calls for TLC.                       *)
EXTENDS HostedToolCalls, TLC

Symmetric == Permutations(Vaults) \cup Permutations(Pages) \cup Permutations(Resources)

=============================================================================
