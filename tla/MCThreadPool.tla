---------------------------- MODULE MCThreadPool ----------------------------
(* Instances of ThreadPool for TLC. *)
EXTENDS ThreadPool, TLC

\* The threads and the jobs are interchangeable.
Symmetry == Permutations(Tid) \cup Permutations(Job)
=============================================================================
