---------------------------- MODULE MCJobQueue ----------------------------
(* JobQueue with small sets of hosts, clients, recordings and jobs. *)
EXTENDS JobQueue, TLC

CONSTANTS hostA, hostB, master, frontend, none, recording1, recording2

Symmetric == Permutations({hostA, hostB})
=============================================================================
