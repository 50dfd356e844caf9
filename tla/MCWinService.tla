---------------------------- MODULE MCWinService ----------------------------
(* Instance of WinService for TLC: the lists of two services.              *)
EXTENDS WinService

MCLists == {l \in [1 .. 2 -> Svc] : l[1] # l[2]}
=============================================================================
