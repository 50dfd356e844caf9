---------------------------- MODULE MCWinProcess ----------------------------
(* Instances of WinProcess for TLC: programs and services are alike.       *)
EXTENDS WinProcess

Symmetry == Permutations(App) \cup Permutations(Svc)
=============================================================================
