--------------------------- MODULE MCChatApprovals ---------------------------
(* Small instances of the chat's approvals for TLC.                        *)
EXTENDS ChatApprovals, TLC

Symmetric == Permutations(Ids) \cup Permutations(Arguments)
               \cup Permutations(Ops) \cup Permutations(Deletes)

=============================================================================
