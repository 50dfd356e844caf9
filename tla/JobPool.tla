------------------------------ MODULE JobPool ------------------------------
(***************************************************************************)
(* What CThreadPool promises to the callers of InputWork, with no threads, *)
(* slots or ports: a job posted while the pool is open waits until it is   *)
(* run, at most once and with at most Limit others, or until the pool      *)
(* gives it up when it closes; a job posted to a closed pool is lost.      *)
(***************************************************************************)
EXTENDS Integers, FiniteSets

CONSTANTS Job,    \* the jobs
          Limit   \* iMaxNum, the most jobs run at a time

VARIABLES open,   \* does the pool accept jobs?
          status  \* what became of each job

vars == <<open, status>>

In(s) == {j \in Job : status[j] = s}

Init == open = FALSE /\ status = [j \in Job |-> "new"]

Open == ~open /\ open' = TRUE /\ UNCHANGED status

Post(j) ==
    /\ status[j] = "new"
    /\ status' = [status EXCEPT ![j] = IF open THEN "queued" ELSE "lost"]
    /\ UNCHANGED open

Start(j) ==
    /\ status[j] = "queued" /\ Cardinality(In("running")) < Limit
    /\ status' = [status EXCEPT ![j] = "running"]
    /\ UNCHANGED open

Finish(j) ==
    /\ status[j] = "running"
    /\ status' = [status EXCEPT ![j] = "done"]
    /\ UNCHANGED open

Drop(j) ==
    /\ status[j] = "queued"
    /\ status' = [status EXCEPT ![j] = "dropped"]
    /\ UNCHANGED open

Close ==
    /\ open /\ open' = FALSE
    /\ status' = [j \in Job |-> IF status[j] = "queued" THEN "lost" ELSE status[j]]

Next == Open \/ Close \/ \E j \in Job : Post(j) \/ Start(j) \/ Finish(j) \/ Drop(j)

Spec == Init /\ [][Next]_vars
=============================================================================
