----------------------------- MODULE MCAccounts -----------------------------
(* Two processes over two migrations and three phones. *)
EXTENDS Accounts, TLC

CONSTANTS admin, p1, p2

AuthProcesses == [p \in Processes |-> AuthMain]

Symmetry == Permutations(Processes) \cup Permutations(Requests) \cup Permutations({p1, p2})
=============================================================================
