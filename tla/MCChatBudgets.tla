---------------------------- MODULE MCChatBudgets ----------------------------
(* Small instances of the chat's budgets for TLC.                          *)
EXTENDS ChatBudgets, TLC

Symmetric == Permutations(Tenants) \cup Permutations(Turns)

Starts == [minute |-> 2, day |-> 1, month |-> 1]
Metered == [m \in Meters |-> 1]
Weights == [request: {1}, token: {1}, cost: {0, 1}]

=============================================================================
