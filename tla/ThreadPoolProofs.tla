-------------------------- MODULE ThreadPoolProofs --------------------------
(***************************************************************************)
(* Theorems about the thread pool for every number of slots, workers, jobs *)
(* and restarts: its types and the conservation of jobs; and, when no job  *)
(* is posted while Init runs, the ownership of the slots, the busy marks,  *)
(* the first iInitialNum workers and the abstract pool of jobs that the    *)
(* threads implement.                                                      *)
(***************************************************************************)
EXTENDS ThreadPool, FiniteSetTheorems, TLAPS

\* The loops of Init and Fini stop for a slot of the array.
LoopInv ==
    /\ cpc = "store" => ci < InitialNum
    /\ cpc = "wait" => ci < MaxNum

\* What the conservation of jobs rests on: only a worker that marks or serves
\* has a job in hand, a closed port is empty, and nothing runs once the
\* process is dead.
JobInv ==
    /\ \A t \in Tid : pc[t] \in {"mark", "serve"} => job[t] # Null
    /\ ~Crashed => \A t \in Tid : job[t] # Null => pc[t] \in {"mark", "serve"}
    /\ Crashed => mpc = "none" /\ \A t \in Tid : pc[t] = "none"
    /\ ~bPort => iocp = <<>>
    /\ (cpc = "idle" /\ ~bIsInit) \/ cpc = "free" => ~bPort

\* The life of the slot array, as the client and the manager see it.
ArrayInv ==
    /\ ~bArray => ~bIsInit /\ cpc \in {"idle", "dead"} /\ mpc \in {"none", "done"}
    /\ ~bArray /\ ~outlived => \A t \in Tid : pc[t] = "none"
    /\ cpc = "dead" \/ (cpc = "idle" /\ ~bIsInit) => ~bArray
    /\ cpc \in {"drain", "close", "free"} => mpc = "done"
    /\ mpc # "count" => mBusy = 0
    /\ mpc # "del" => mi >= 0

\* While Init runs and nothing is posted no worker is ever busy, so that the
\* manager does not grow the pool and Init meets only empty slots.
QuietInit ==
    InInit /\ ~outlived =>
        /\ iocp = <<>> /\ mBusy = 0 /\ mpc \notin {"add", "store"}
        /\ \A i \in Slot : ~bIsBuy[i]
        /\ \A t \in Tid : pc[t] \notin {"mark", "serve", "unmark"}
        /\ \A i \in Slot : i > ci \/ (i = ci /\ cpc = "create") => iThreadId[i] = Null

\* Every worker has a slot with its identifier, and no two slots have the
\* same one.
OwnInv ==
    ~outlived =>
        /\ \A t \in Tid : pc[t] \in Placed => iThreadId[idx[t]] = t
        /\ \A t \in Tid : pc[t] = "start" => \E i \in Slot : iThreadId[i] = t
        /\ \A i, j \in Slot : iThreadId[i] # Null /\ iThreadId[i] = iThreadId[j] => i = j
-----------------------------------------------------------------------------
(* The frames of the actions, expanded in every step below. *)
USE DEF slotVars, poolVars, clientVars, mangerVars, workerVars, queueVars,
        jobVars, auxVars, finiRest, mangerRest, workerRest

\* The initial state has the types, and satisfies the invariants on jobs and
\* loops.
LEMMA InitialTypes == Init => TypeOK /\ LoopInv /\ JobInv
<1> SUFFICES ASSUME Init
             PROVE  TypeOK /\ LoopInv /\ JobInv
  OBVIOUS
<1>1. PoolTypes /\ CounterTypes
  BY DEF Init, PoolTypes, CounterTypes
<1>2. 0 \in Slot
  BY NumAssumption DEF Slot
<1>3. SlotTypes
  BY DEF Init, SlotTypes
<1>4. ClientTypes
  BY NumAssumption DEF Init, ClientTypes, ClientPc
<1>5. MangerTypes
  BY NumAssumption DEF Init, MangerTypes, MangerPc
<1>6. WorkerTypes
  BY <1>2 DEF Init, WorkerTypes, WorkerPc
<1>7. JobTypes
  BY DEF Init, JobTypes
<1>8. LoopInv /\ JobInv
  BY DEF Init, LoopInv, JobInv, Crashed
<1> QED
  BY <1>1, <1>3, <1>4, <1>5, <1>6, <1>7, <1>8 DEF TypeOK

\* Every step keeps the types.
LEMMA TypeStep ==
  ASSUME TypeOK, LoopInv, JobInv, [Next]_vars
  PROVE  TypeOK'
<1> USE NumAssumption
<1>1. CASE InitSetup
  <2>1. PoolTypes'
    BY <1>1 DEF TypeOK, PoolTypes, InitSetup
  <2>2. SlotTypes'
    BY <1>1 DEF TypeOK, SlotTypes, InitSetup
  <2>3. ClientTypes'
    BY <1>1 DEF TypeOK, ClientTypes, InitSetup, ClientPc, Slot
  <2>4. MangerTypes'
    BY <1>1 DEF TypeOK, MangerTypes, InitSetup, MangerPc, Slot
  <2>5. JobTypes'
    BY <1>1 DEF TypeOK, JobTypes, InitSetup
  <2>6. CounterTypes'
    BY <1>1 DEF TypeOK, CounterTypes, InitSetup
  <2> QED
    BY <2>1, <2>2, <2>3, <2>4, <2>5, <2>6, <1>1 DEF TypeOK, WorkerTypes,
       InitSetup
<1>2. CASE InitFails
  <2>1. PoolTypes'
    BY <1>2 DEF TypeOK, PoolTypes, InitFails
  <2>2. CounterTypes'
    BY <1>2 DEF TypeOK, CounterTypes, InitFails
  <2> QED
    BY <2>1, <2>2, <1>2 DEF TypeOK, SlotTypes, ClientTypes, MangerTypes,
       WorkerTypes, JobTypes, InitFails
<1>3. CASE FiniCall
  <2>1. ClientTypes'
    BY <1>3 DEF TypeOK, ClientTypes, FiniCall, ClientPc, Slot
  <2> QED
    BY <2>1, <1>3 DEF TypeOK, PoolTypes, SlotTypes, MangerTypes, WorkerTypes,
       JobTypes, CounterTypes, FiniCall
<1>4. CASE InitCreate
  <2>1. SlotTypes'
    BY <1>4 DEF TypeOK, SlotTypes, InitCreate, StartWorker, BeginThread,
       BeginThreadFails, Unused
  <2>2. ClientTypes'
    BY <1>4 DEF TypeOK, ClientTypes, InitCreate, StartWorker, BeginThread,
       BeginThreadFails, Unused, ClientPc, Slot
  <2>3. WorkerTypes'
    BY <1>4 DEF TypeOK, WorkerTypes, InitCreate, StartWorker, BeginThread,
       BeginThreadFails, Unused, WorkerPc, Placed
  <2>4. CounterTypes'
    BY <1>4 DEF TypeOK, CounterTypes, InitCreate, StartWorker, BeginThread,
       BeginThreadFails, Unused
  <2> QED
    BY <2>1, <2>2, <2>3, <2>4, <1>4 DEF TypeOK, PoolTypes, MangerTypes,
       JobTypes, InitCreate, StartWorker, BeginThread, BeginThreadFails,
       Unused
<1>5. CASE InitStore
  <2>1. SlotTypes'
    BY <1>5 DEF TypeOK, SlotTypes, ClientTypes, InitStore
  <2>2. ClientTypes'
    BY <1>5 DEF TypeOK, ClientTypes, LoopInv, InitStore, ClientPc, Slot
  <2> QED
    BY <2>1, <2>2, <1>5 DEF TypeOK, PoolTypes, MangerTypes, WorkerTypes,
       JobTypes, CounterTypes, InitStore
<1>6. CASE InitReturns
  <2>1. PoolTypes'
    BY <1>6 DEF TypeOK, PoolTypes, InitReturns
  <2>2. ClientTypes'
    BY <1>6 DEF TypeOK, ClientTypes, InitReturns, ClientPc, Slot
  <2> QED
    BY <2>1, <2>2, <1>6 DEF TypeOK, SlotTypes, MangerTypes, WorkerTypes,
       JobTypes, CounterTypes, InitReturns
<1>7. CASE FiniScan
  <2>1. SlotTypes'
    BY <1>7 DEF TypeOK, SlotTypes, FiniScan
  <2>2. ClientTypes'
    BY <1>7 DEF TypeOK, ClientTypes, FiniScan, ClientPc, Slot
  <2> QED
    BY <2>1, <2>2, <1>7 DEF TypeOK, PoolTypes, MangerTypes, WorkerTypes,
       JobTypes, CounterTypes, FiniScan
<1>8. CASE FiniWait
  <2>1. ClientTypes'
    BY <1>8 DEF TypeOK, ClientTypes, LoopInv, FiniWait, ClientPc, Slot
  <2> QED
    BY <2>1, <1>8 DEF TypeOK, PoolTypes, SlotTypes, MangerTypes, WorkerTypes,
       JobTypes, CounterTypes, FiniWait
<1>9. CASE FiniStop
  <2>1. PoolTypes'
    BY <1>9 DEF TypeOK, PoolTypes, FiniStop, TellManger
  <2>2. ClientTypes'
    BY <1>9 DEF TypeOK, ClientTypes, FiniStop, TellManger, ClientPc, Slot
  <2> QED
    BY <2>1, <2>2, <1>9 DEF TypeOK, SlotTypes, MangerTypes, WorkerTypes,
       JobTypes, CounterTypes, FiniStop, TellManger
<1>10. CASE FiniJoin
  <2>1. PoolTypes'
    BY <1>10 DEF TypeOK, PoolTypes, FiniJoin
  <2>2. ClientTypes'
    BY <1>10 DEF TypeOK, ClientTypes, FiniJoin, ClientPc, Slot
  <2> QED
    BY <2>1, <2>2, <1>10 DEF TypeOK, SlotTypes, MangerTypes, WorkerTypes,
       JobTypes, CounterTypes, FiniJoin
<1>11. CASE FiniDrain
  <2>1. ClientTypes'
    BY <1>11 DEF TypeOK, ClientTypes, FiniDrain, Drop, ClientPc, Slot
  <2>2. JobTypes'
    BY <1>11 DEF TypeOK, JobTypes, FiniDrain, Drop
  <2> QED
    BY <2>1, <2>2, <1>11 DEF TypeOK, PoolTypes, SlotTypes, MangerTypes,
       WorkerTypes, CounterTypes, FiniDrain, Drop
<1>12. CASE FiniClose
  <2>1. PoolTypes'
    BY <1>12 DEF TypeOK, PoolTypes, FiniClose, Queued
  <2>2. ClientTypes'
    BY <1>12 DEF TypeOK, ClientTypes, FiniClose, Queued, ClientPc, Slot
  <2>3. JobTypes'
    BY <1>12 DEF TypeOK, JobTypes, FiniClose, Queued
  <2> QED
    BY <2>1, <2>2, <2>3, <1>12 DEF TypeOK, SlotTypes, MangerTypes,
       WorkerTypes, CounterTypes, FiniClose, Queued
<1>13. CASE FiniFree
  <2>1. PoolTypes'
    BY <1>13 DEF TypeOK, PoolTypes, FiniFree
  <2>2. SlotTypes'
    BY <1>13 DEF TypeOK, SlotTypes, FiniFree
  <2>3. ClientTypes'
    BY <1>13 DEF TypeOK, ClientTypes, FiniFree, ClientPc, Slot
  <2> QED
    BY <2>1, <2>2, <2>3, <1>13 DEF TypeOK, MangerTypes, WorkerTypes, JobTypes,
       CounterTypes, FiniFree
<1>14. ASSUME NEW j \in Job, InputWork(j) PROVE TypeOK'
  <2>1. JobTypes'
    BY <1>14 DEF TypeOK, JobTypes, InputWork, InInit
  <2> QED
    BY <2>1, <1>14 DEF TypeOK, PoolTypes, SlotTypes, ClientTypes, MangerTypes,
       WorkerTypes, CounterTypes, InputWork, InInit
<1>15. CASE MangerCheck
  <2>1. MangerTypes'
    BY <1>15 DEF TypeOK, MangerTypes, MangerCheck, MangerPc, Slot
  <2> QED
    BY <2>1, <1>15 DEF TypeOK, PoolTypes, SlotTypes, ClientTypes, WorkerTypes,
       JobTypes, CounterTypes, MangerCheck
<1>16. CASE MangerEvent
  <2>1. PoolTypes'
    BY <1>16 DEF TypeOK, PoolTypes, MangerEvent
  <2>2. MangerTypes'
    BY <1>16 DEF TypeOK, MangerTypes, MangerEvent, MangerPc, Slot
  <2> QED
    BY <2>1, <2>2, <1>16 DEF TypeOK, SlotTypes, ClientTypes, WorkerTypes,
       JobTypes, CounterTypes, MangerEvent
<1>17. CASE MangerCount
  <2>1. MangerTypes'
    BY <1>17 DEF TypeOK, MangerTypes, MangerCount, MangerPc, Slot
  <2> QED
    BY <2>1, <1>17 DEF TypeOK, PoolTypes, SlotTypes, ClientTypes, WorkerTypes,
       JobTypes, CounterTypes, MangerCount
<1>18. CASE MangerDecide
  <2>1. MangerTypes'
    BY <1>18 DEF TypeOK, MangerTypes, MangerDecide, PoolBusy, PoolIdle,
       MangerPc, Slot
  <2> QED
    BY <2>1, <1>18 DEF TypeOK, PoolTypes, SlotTypes, ClientTypes, WorkerTypes,
       JobTypes, CounterTypes, MangerDecide, PoolBusy, PoolIdle
<1>19. CASE AddThread
  <2>1. SlotTypes'
    BY <1>19 DEF TypeOK, SlotTypes, AddThread, StartWorker, BeginThread,
       BeginThreadFails, Unused, IsFree
  <2>2. MangerTypes'
    BY <1>19 DEF TypeOK, MangerTypes, AddThread, StartWorker, BeginThread,
       BeginThreadFails, Unused, IsFree, MangerPc, Slot
  <2>3. WorkerTypes'
    BY <1>19 DEF TypeOK, WorkerTypes, AddThread, StartWorker, BeginThread,
       BeginThreadFails, Unused, IsFree, WorkerPc, Placed
  <2>4. CounterTypes'
    BY <1>19 DEF TypeOK, CounterTypes, AddThread, StartWorker, BeginThread,
       BeginThreadFails, Unused, IsFree
  <2> QED
    BY <2>1, <2>2, <2>3, <2>4, <1>19 DEF TypeOK, PoolTypes, ClientTypes,
       JobTypes, AddThread, StartWorker, BeginThread, BeginThreadFails,
       Unused, IsFree
<1>20. CASE AddThreadStore
  <2>1. SlotTypes'
    BY <1>20 DEF TypeOK, SlotTypes, MangerTypes, AddThreadStore
  <2>2. MangerTypes'
    BY <1>20 DEF TypeOK, MangerTypes, AddThreadStore, MangerPc, Slot
  <2> QED
    BY <2>1, <2>2, <1>20 DEF TypeOK, PoolTypes, ClientTypes, WorkerTypes,
       JobTypes, CounterTypes, AddThreadStore
<1>21. CASE DeleteThread
  <2>1. SlotTypes'
    BY <1>21 DEF TypeOK, SlotTypes, DeleteThread, FirstElastic
  <2>2. MangerTypes'
    BY <1>21 DEF TypeOK, MangerTypes, DeleteThread, FirstElastic, MangerPc, Slot
  <2> QED
    BY <2>1, <2>2, <1>21 DEF TypeOK, PoolTypes, ClientTypes, WorkerTypes,
       JobTypes, CounterTypes, DeleteThread, FirstElastic
<1>22. ASSUME NEW t \in Tid, WorkerStart(t) PROVE TypeOK'
  <2>1. WorkerTypes'
    BY <1>22 DEF TypeOK, WorkerTypes, WorkerStart, Index, WorkerPc, Placed, Slot
  <2> QED
    BY <2>1, <1>22 DEF TypeOK, PoolTypes, SlotTypes, ClientTypes, MangerTypes,
       JobTypes, CounterTypes, WorkerStart, Index
<1>23. ASSUME NEW t \in Tid, WorkerLoop(t) PROVE TypeOK'
  <2>1. WorkerTypes'
    BY <1>23 DEF TypeOK, WorkerTypes, WorkerLoop, WorkerPc, Placed
  <2> QED
    BY <2>1, <1>23 DEF TypeOK, PoolTypes, SlotTypes, ClientTypes, MangerTypes,
       JobTypes, CounterTypes, WorkerLoop
<1>24. ASSUME NEW t \in Tid, WorkerDequeue(t) PROVE TypeOK'
  <2>1. WorkerTypes'
    BY <1>24 DEF TypeOK, WorkerTypes, JobTypes, WorkerDequeue, WorkerPc, Placed
  <2>2. JobTypes'
    BY <1>24 DEF TypeOK, JobTypes, WorkerDequeue
  <2> QED
    BY <2>1, <2>2, <1>24 DEF TypeOK, PoolTypes, SlotTypes, ClientTypes,
       MangerTypes, CounterTypes, WorkerDequeue
<1>25. ASSUME NEW t \in Tid, WorkerTimeout(t) PROVE TypeOK'
  <2>1. WorkerTypes'
    BY <1>25 DEF TypeOK, WorkerTypes, WorkerTimeout, WorkerPc, Placed
  <2> QED
    BY <2>1, <1>25 DEF TypeOK, PoolTypes, SlotTypes, ClientTypes, MangerTypes,
       JobTypes, CounterTypes, WorkerTimeout
<1>26. ASSUME NEW t \in Tid, WorkerMark(t) PROVE TypeOK'
  <2>1. SlotTypes'
    BY <1>26 DEF TypeOK, SlotTypes, WorkerMark, SetBusy
  <2>2. WorkerTypes'
    BY <1>26 DEF TypeOK, WorkerTypes, WorkerMark, SetBusy, WorkerPc, Placed
  <2> QED
    BY <2>1, <2>2, <1>26 DEF TypeOK, PoolTypes, ClientTypes, MangerTypes,
       JobTypes, CounterTypes, WorkerMark, SetBusy
<1>27. ASSUME NEW t \in Tid, WorkerServe(t) PROVE TypeOK'
  <2>1. WorkerTypes'
    BY <1>27 DEF TypeOK, WorkerTypes, WorkerServe, LetGo, WorkerPc, Placed
  <2>2. JobTypes'
    BY <1>27 DEF TypeOK, JobTypes, JobInv, WorkerTypes, WorkerServe, LetGo
  <2> QED
    BY <2>1, <2>2, <1>27 DEF TypeOK, PoolTypes, SlotTypes, ClientTypes,
       MangerTypes, CounterTypes, WorkerServe, LetGo
<1>28. ASSUME NEW t \in Tid, WorkerUnmark(t) PROVE TypeOK'
  <2>1. SlotTypes'
    BY <1>28 DEF TypeOK, SlotTypes, WorkerUnmark, SetBusy
  <2>2. WorkerTypes'
    BY <1>28 DEF TypeOK, WorkerTypes, WorkerUnmark, SetBusy, WorkerPc, Placed
  <2> QED
    BY <2>1, <2>2, <1>28 DEF TypeOK, PoolTypes, ClientTypes, MangerTypes,
       JobTypes, CounterTypes, WorkerUnmark, SetBusy
<1>29. ASSUME NEW t \in Tid, WorkerClose(t) PROVE TypeOK'
  <2>1. SlotTypes'
    BY <1>29 DEF TypeOK, SlotTypes, WorkerClose
  <2>2. WorkerTypes'
    BY <1>29 DEF TypeOK, WorkerTypes, WorkerClose, WorkerPc, Placed
  <2> QED
    BY <2>1, <2>2, <1>29 DEF TypeOK, PoolTypes, ClientTypes, MangerTypes,
       JobTypes, CounterTypes, WorkerClose
<1>30. ASSUME NEW t \in Tid, WorkerClear(t) PROVE TypeOK'
  <2>1. SlotTypes'
    BY <1>30 DEF TypeOK, SlotTypes, WorkerClear, Vacate
  <2>2. WorkerTypes'
    BY <1>30 DEF TypeOK, WorkerTypes, WorkerClear, Vacate, WorkerPc, Placed,
       Slot
  <2> QED
    BY <2>1, <2>2, <1>30 DEF TypeOK, PoolTypes, ClientTypes, MangerTypes,
       JobTypes, CounterTypes, WorkerClear, Vacate
<1>31. ASSUME NEW t \in Tid, WorkerCrash(t) PROVE TypeOK'
  <2>1. ClientTypes'
    BY <1>31 DEF TypeOK, ClientTypes, WorkerCrash, ClientPc, Slot
  <2>2. MangerTypes'
    BY <1>31 DEF TypeOK, MangerTypes, WorkerCrash, MangerPc, Slot
  <2>3. WorkerTypes'
    BY <1>31 DEF TypeOK, WorkerTypes, WorkerCrash, WorkerPc, Placed
  <2> QED
    BY <2>1, <2>2, <2>3, <1>31 DEF TypeOK, PoolTypes, SlotTypes, JobTypes,
       CounterTypes, WorkerCrash
<1>32. CASE UNCHANGED vars
  BY <1>32 DEF vars, TypeOK, PoolTypes, SlotTypes, ClientTypes, MangerTypes,
     WorkerTypes, JobTypes, CounterTypes
<1> QED
  BY <1>1, <1>2, <1>3, <1>4, <1>5, <1>6, <1>7, <1>8, <1>9, <1>10, <1>11,
     <1>12, <1>13, <1>14, <1>15, <1>16, <1>17, <1>18, <1>19, <1>20, <1>21,
     <1>22, <1>23, <1>24, <1>25, <1>26, <1>27, <1>28, <1>29, <1>30, <1>31,
     <1>32 DEF Next, ClientCall, ClientStep, Manger, Worker

\* Every step keeps the bounds of the loops.
LEMMA LoopStep ==
  ASSUME TypeOK, LoopInv, [Next]_vars
  PROVE  LoopInv'
<1> USE NumAssumption DEF LoopInv
<1>1. CASE ClientCall
  BY <1>1 DEF ClientCall, InitSetup, InitFails, FiniCall
<1>2. CASE ClientStep
  BY <1>2 DEF ClientStep, InitCreate, InitStore, InitReturns, FiniScan,
     FiniWait,
     FiniStop, FiniJoin, FiniDrain, FiniClose, FiniFree
<1>3. CASE UNCHANGED <<cpc, ci>>
  BY <1>3
<1>4. CASE Manger
  BY <1>3, <1>4 DEF Manger, MangerCheck, MangerEvent, MangerCount, MangerDecide,
     AddThread, AddThreadStore, DeleteThread
<1>5. ASSUME NEW t \in Tid, Worker(t) PROVE LoopInv'
  BY <1>3, <1>5 DEF Worker, WorkerStart, WorkerLoop, WorkerDequeue,
     WorkerTimeout,
     WorkerMark, WorkerServe, WorkerUnmark, WorkerClose, WorkerClear, WorkerCrash
<1> QED
  BY <1>1, <1>2, <1>3, <1>4, <1>5 DEF Next, InputWork, vars

\* Every step keeps the facts about the jobs in hand.
LEMMA JobStep ==
  ASSUME TypeOK, JobInv, [Next]_vars
  PROVE  JobInv'
<1> USE NullAssumption DEF JobInv, Crashed
<1>1. CASE InitSetup
  BY <1>1 DEF InitSetup
<1>2. CASE InitFails
  BY <1>2 DEF InitFails
<1>3. CASE FiniCall
  BY <1>3 DEF FiniCall
<1>4. CASE InitCreate
  BY <1>4 DEF InitCreate, StartWorker, BeginThread, BeginThreadFails, Unused,
     TypeOK, WorkerTypes
<1>5. CASE InitStore \/ InitReturns
  BY <1>5 DEF InitStore, InitReturns
<1>6. CASE FiniScan \/ FiniWait \/ FiniStop \/ FiniJoin
  BY <1>6 DEF FiniScan, FiniWait, FiniStop, TellManger, FiniJoin
<1>7. CASE FiniDrain \/ FiniClose \/ FiniFree
  BY <1>7 DEF FiniDrain, FiniClose, FiniFree
<1>8. ASSUME NEW j \in Job, InputWork(j) PROVE JobInv'
  BY <1>8 DEF InputWork
<1>9. CASE AddThread
  BY <1>9 DEF AddThread, StartWorker, BeginThread, BeginThreadFails, Unused,
     TypeOK, WorkerTypes
<1>10. CASE MangerCheck \/ MangerEvent \/ MangerCount \/ MangerDecide
              \/ AddThreadStore \/ DeleteThread
  BY <1>10 DEF MangerCheck, MangerEvent, MangerCount, MangerDecide,
     AddThreadStore, DeleteThread
<1>11. ASSUME NEW t \in Tid, WorkerDequeue(t) PROVE JobInv'
  BY <1>11 DEF WorkerDequeue, TypeOK, WorkerTypes, JobTypes
<1>12. ASSUME NEW t \in Tid, WorkerServe(t) PROVE JobInv'
  BY <1>12 DEF WorkerServe, LetGo, TypeOK, WorkerTypes
<1>13. ASSUME NEW t \in Tid, WorkerCrash(t) PROVE JobInv'
  BY <1>13 DEF WorkerCrash
<1>14. ASSUME NEW t \in Tid,
              \/ WorkerStart(t) \/ WorkerLoop(t) \/ WorkerTimeout(t) \/ WorkerMark(t)
              \/ WorkerUnmark(t) \/ WorkerClose(t) \/ WorkerClear(t)
       PROVE  JobInv'
  <2>1. /\ UNCHANGED <<job, cpc, mpc, bPort, iocp, bIsInit>>
        /\ pc[t] \notin {"none", "serve"} /\ pc'[t] # "mark"
        /\ pc'[t] = "serve" => pc[t] = "mark"
        /\ pc[t] = "mark" => pc'[t] = "serve"
        /\ \A u \in Tid \ {t} : pc'[u] = pc[u]
    BY <1>14 DEF WorkerStart, WorkerLoop, WorkerTimeout, WorkerMark,
       WorkerUnmark,
       WorkerClose, WorkerClear, TypeOK, WorkerTypes
  <2> QED
    BY <2>1
<1>15. CASE UNCHANGED vars
  BY <1>15 DEF vars
<1> QED
  BY <1>1, <1>2, <1>3, <1>4, <1>5, <1>6, <1>7, <1>8, <1>9, <1>10, <1>11, <1>12,
     <1>13, <1>14, <1>15 DEF Next, ClientCall, ClientStep, Manger, Worker

\* The types of all variables, for every instance of the pool.
THEOREM TypeCorrect == Spec => []TypeOK
<1>1. Init => TypeOK /\ LoopInv /\ JobInv
  BY InitialTypes
<1>2. TypeOK /\ LoopInv /\ JobInv /\ [Next]_vars => (TypeOK /\ LoopInv /\ JobInv)'
  BY TypeStep, LoopStep, JobStep
<1> QED
  BY <1>1, <1>2, PTL DEF Spec

-----------------------------------------------------------------------------
(* The conservation of jobs. *)

\* Taking the first packet off a queue without duplicates.
LEMMA QueueTail ==
  ASSUME NEW S, NEW q \in Seq(S), q # <<>>,
         \A m, n \in DOMAIN q : q[m] = q[n] => m = n
  PROVE  /\ Head(q) \in {q[n] : n \in DOMAIN q}
         /\ {Tail(q)[n] : n \in DOMAIN Tail(q)} = {q[n] : n \in DOMAIN q} \ {Head(q)}
         /\ \A m, n \in DOMAIN Tail(q) : Tail(q)[m] = Tail(q)[n] => m = n
<1>1. Len(q) \in Nat /\ Len(q) > 0 /\ DOMAIN q = 1 .. Len(q) /\ Head(q) = q[1]
  OBVIOUS
<1>2. Tail(q) \in Seq(S) /\ DOMAIN Tail(q) = 1 .. Len(q) - 1
  BY <1>1
<1>3. \A n \in 1 .. Len(q) - 1 : Tail(q)[n] = q[n + 1]
  BY <1>1
<1>4. \A n \in 2 .. Len(q) : q[n] = Tail(q)[n - 1] /\ n - 1 \in 1 .. Len(q) - 1
  BY <1>1, <1>3
<1>5. \A n \in 1 .. Len(q) - 1 : n + 1 \in 2 .. Len(q)
  BY <1>1
<1> DEFINE r == Tail(q)
<1>6. /\ DOMAIN r = 1 .. Len(q) - 1 /\ \A n \in 1 .. Len(q) - 1 : r[n] = q[n + 1]
      /\ \A n \in 2 .. Len(q) : q[n] = r[n - 1]
  BY <1>2, <1>3, <1>4
<1> HIDE DEF r
<1>7. {r[n] : n \in DOMAIN r} = {q[n] : n \in 2 .. Len(q)}
  <2>1. ASSUME NEW n \in DOMAIN r PROVE r[n] \in {q[m] : m \in 2 .. Len(q)}
    BY <1>5, <1>6
  <2>2. ASSUME NEW n \in 2 .. Len(q) PROVE q[n] \in {r[m] : m \in DOMAIN r}
    BY <1>4, <1>6
  <2> QED
    BY <2>1, <2>2
<1>8. {q[n] : n \in DOMAIN q} \ {Head(q)} = {q[n] : n \in 2 .. Len(q)}
  BY <1>1
<1>9. \A m, n \in DOMAIN r : r[m] = r[n] => m = n
  <2>1. ASSUME NEW m \in DOMAIN r, NEW n \in DOMAIN r, r[m] = r[n] PROVE m = n
    <3>1. q[m + 1] = q[n + 1] /\ m + 1 \in DOMAIN q /\ n + 1 \in DOMAIN q
      BY <1>1, <1>6, <2>1
    <3> QED
      BY <3>1, <1>1, <1>6, <2>1
  <2> QED
    BY <2>1
<1>10. Head(q) \in {q[n] : n \in DOMAIN q}
  BY <1>1
<1> QED
  BY <1>7, <1>8, <1>9, <1>10 DEF r

\* Adding a packet to the end of a queue that does not hold it.
LEMMA QueueAppend ==
  ASSUME NEW S, NEW q \in Seq(S), NEW j \in S,
         \A m, n \in DOMAIN q : q[m] = q[n] => m = n,
         j \notin {q[n] : n \in DOMAIN q}
  PROVE  LET r == Append(q, j)
         IN  /\ {r[n] : n \in DOMAIN r} = {q[n] : n \in DOMAIN q} \cup {j}
             /\ \A m, n \in DOMAIN r : r[m] = r[n] => m = n
<1> DEFINE r == Append(q, j)
<1>1. /\ Len(q) \in Nat /\ DOMAIN q = 1 .. Len(q) /\ DOMAIN r = 1 .. Len(q) + 1
      /\ r[Len(q) + 1] = j /\ \A n \in 1 .. Len(q) : r[n] = q[n]
  OBVIOUS
<1>2. \A n \in 1 .. Len(q) + 1 : n \in 1 .. Len(q) \/ n = Len(q) + 1
  BY <1>1
<1> HIDE DEF r
<1>3. {r[n] : n \in DOMAIN r} = {q[n] : n \in DOMAIN q} \cup {j}
  BY <1>1, <1>2
<1>4. \A m, n \in DOMAIN r : r[m] = r[n] => m = n
  BY <1>1, <1>2
<1> QED
  BY <1>3, <1>4 DEF r

\* A step that leaves the queue, the hands of the workers and the records of
\* the jobs alone keeps them.
LEMMA JobsFrame ==
  ASSUME JobsConserved, UNCHANGED <<iocp, job, jobVars>>
  PROVE  JobsConserved'
BY DEF JobsConserved, Queued, Held

\* Every step conserves the jobs.
LEMMA ConservationStep ==
  ASSUME TypeOK, JobInv, JobsConserved, [Next]_vars
  PROVE  JobsConserved'
<1> USE NullAssumption
<1>1. CASE InitSetup
  <2>1. iocp = <<>>
    BY <1>1 DEF InitSetup, JobInv
  <2> QED
    BY <1>1, <2>1, JobsFrame DEF InitSetup
<1>2. CASE FiniDrain
  <2>1. CASE UNCHANGED <<dropped, iocp>>
    BY <1>2, <2>1, JobsFrame DEF FiniDrain
  <2>2. CASE iocp # <<>> /\ Drop(Head(iocp)) /\ iocp' = Tail(iocp)
    <3>1. /\ iocp' = Tail(iocp) /\ dropped' = dropped \cup {Head(iocp)}
          /\ UNCHANGED <<job, posted, done, lost>>
      BY <1>2, <2>2 DEF FiniDrain, Drop
    <3>2. /\ Head(iocp) \in Queued /\ Queued' = Queued \ {Head(iocp)}
          /\ \A m, n \in DOMAIN iocp' : iocp'[m] = iocp'[n] => m = n
      BY <2>2, <3>1, QueueTail DEF JobsConserved, Queued, TypeOK, JobTypes
    <3>3. Held' = Held
      BY <3>1 DEF Held
    <3> QED
      BY <3>1, <3>2, <3>3 DEF JobsConserved
  <2> QED
    BY <1>2, <2>1, <2>2 DEF FiniDrain
<1>3. CASE FiniClose
  <2>1. /\ iocp' = <<>> /\ lost' = lost \cup Queued
        /\ UNCHANGED <<job, posted, done, dropped>>
    BY <1>3 DEF FiniClose
  <2>2. Queued' = {} /\ Held' = Held
    BY <2>1 DEF Queued, Held
  <2> QED
    BY <2>1, <2>2 DEF JobsConserved
<1>4. ASSUME NEW j \in Job, InputWork(j) PROVE JobsConserved'
  <2>1. /\ j \notin posted /\ posted' = posted \cup {j}
        /\ UNCHANGED <<job, done, dropped>>
    BY <1>4 DEF InputWork
  <2>2. j \notin Queued /\ Held' = Held
    BY <2>1 DEF JobsConserved, Held
  <2>3. CASE bPort
    <3>1. iocp' = Append(iocp, j) /\ lost' = lost
      BY <1>4, <2>3 DEF InputWork
    <3>2. /\ Queued' = Queued \cup {j}
          /\ \A m, n \in DOMAIN iocp' : iocp'[m] = iocp'[n] => m = n
      BY <2>2, <3>1, QueueAppend DEF JobsConserved, Queued, TypeOK, JobTypes
    <3> QED
      BY <2>1, <2>2, <3>1, <3>2 DEF JobsConserved
  <2>4. CASE ~bPort
    <3>1. iocp' = iocp /\ lost' = lost \cup {j}
      BY <1>4, <2>4 DEF InputWork
    <3>2. Queued' = Queued
      BY <3>1 DEF Queued
    <3> QED
      BY <2>1, <2>2, <3>1, <3>2 DEF JobsConserved
  <2> QED
    BY <2>3, <2>4
<1>5. ASSUME NEW t \in Tid, WorkerDequeue(t) PROVE JobsConserved'
  <2>1. /\ iocp # <<>> /\ iocp' = Tail(iocp)
        /\ job' = [job EXCEPT ![t] = Head(iocp)] /\ UNCHANGED jobVars
    BY <1>5 DEF WorkerDequeue
  <2>2. /\ Head(iocp) \in Queued /\ Queued' = Queued \ {Head(iocp)}
        /\ \A m, n \in DOMAIN iocp' : iocp'[m] = iocp'[n] => m = n
    BY <2>1, QueueTail DEF JobsConserved, Queued, TypeOK, JobTypes
  <2>3. Head(iocp) # Null /\ job[t] = Null
    <3>1. pc[t] = "deq" /\ Head(iocp) \in Job
      BY <1>5, <2>1 DEF WorkerDequeue, TypeOK, JobTypes
    <3>2. ~Crashed
      BY <3>1 DEF JobInv
    <3> QED
      BY <3>1, <3>2 DEF JobInv
  <2>4. job \in [Tid -> Job \cup {Null}]
    BY DEF TypeOK, WorkerTypes
  <2>5. Held' = Held \cup {Head(iocp)}
    BY <2>1, <2>3, <2>4 DEF Held
  <2>6. \A u, w \in Tid : job'[u] # Null /\ job'[u] = job'[w] => u = w
    BY <2>1, <2>2, <2>4 DEF JobsConserved, Held
  <2> QED
    BY <2>1, <2>2, <2>5, <2>6 DEF JobsConserved
<1>6. ASSUME NEW t \in Tid, WorkerServe(t) PROVE JobsConserved'
  <2>1. /\ job' = [job EXCEPT ![t] = Null] /\ done' = done \cup {job[t]}
        /\ UNCHANGED <<iocp, posted, dropped, lost>>
    BY <1>6 DEF WorkerServe, LetGo
  <2>2. job[t] \in Held
    BY <1>6 DEF WorkerServe, JobInv, Held
  <2>3. job \in [Tid -> Job \cup {Null}]
    BY DEF TypeOK, WorkerTypes
  <2>4. Held' = Held \ {job[t]}
    BY <2>1, <2>2, <2>3 DEF Held, JobsConserved
  <2>5. \A u, w \in Tid : job'[u] # Null /\ job'[u] = job'[w] => u = w
    BY <2>1, <2>3 DEF JobsConserved
  <2>6. Queued' = Queued
    BY <2>1 DEF Queued
  <2> QED
    BY <2>1, <2>2, <2>4, <2>5, <2>6 DEF JobsConserved
<1>7. CASE UNCHANGED <<iocp, job, jobVars>>
  BY <1>7, JobsFrame
<1>8. CASE Manger
  BY <1>8, <1>7 DEF Manger, MangerCheck, MangerEvent, MangerCount, MangerDecide,
     AddThread, AddThreadStore, DeleteThread
<1>9. CASE InitFails \/ FiniCall \/ InitCreate \/ InitStore \/ InitReturns
  BY <1>9, <1>7 DEF InitFails, FiniCall, InitCreate, InitStore, InitReturns
<1>10. CASE FiniScan \/ FiniWait \/ FiniStop \/ FiniJoin \/ FiniFree
  BY <1>10, <1>7 DEF FiniScan, FiniWait, FiniStop, FiniJoin, FiniFree
<1>11. ASSUME NEW t \in Tid, Worker(t) PROVE JobsConserved'
  BY <1>11, <1>5, <1>6, <1>7 DEF Worker, WorkerStart, WorkerLoop, WorkerTimeout,
     WorkerMark, WorkerUnmark, WorkerClose, WorkerClear, WorkerCrash
<1> QED
  BY <1>1, <1>2, <1>3, <1>4, <1>7, <1>8, <1>9, <1>10, <1>11
     DEF Next, ClientCall, ClientStep, vars

\* Every job posted is in exactly one place, for any number of workers, jobs
\* and restarts of the pool, also with workers that outlive it.
THEOREM JobsAreConserved == Spec => []JobsConserved
<1>1. Init => TypeOK /\ LoopInv /\ JobInv /\ JobsConserved
  <2>1. Init => JobsConserved
    BY DEF Init, JobsConserved, Queued, Held
  <2> QED
    BY <2>1, InitialTypes
<1>2. TypeOK /\ LoopInv /\ JobInv /\ JobsConserved /\ [Next]_vars
        => (TypeOK /\ LoopInv /\ JobInv /\ JobsConserved)'
  BY TypeStep, LoopStep, JobStep, ConservationStep
<1> QED
  BY <1>1, <1>2, PTL DEF Spec

-----------------------------------------------------------------------------
(* The ownership of the slots. *)

\* Every step keeps the facts about the life of the slot array.
LEMMA ArrayStep ==
  ASSUME TypeOK, ArrayInv, [Next]_vars
  PROVE  ArrayInv'
<1> USE NumAssumption DEF ArrayInv
<1>1. CASE ClientCall
  <2>1. CASE InitSetup
    BY <2>1 DEF InitSetup
  <2>2. CASE InitFails
    BY <2>2 DEF InitFails
  <2>3. CASE FiniCall
    BY <2>3 DEF FiniCall
  <2> QED
    BY <1>1, <2>1, <2>2, <2>3 DEF ClientCall
<1>2. CASE ClientStep
  BY <1>2 DEF ClientStep, InitCreate, InitStore, InitReturns, FiniScan,
     FiniWait,
     FiniStop, TellManger, FiniJoin, FiniDrain, Drop, FiniClose, FiniFree,
     StartWorker, BeginThread, BeginThreadFails
<1>3. ASSUME NEW j \in Job, InputWork(j) PROVE ArrayInv'
  BY <1>3 DEF InputWork
<1>4. CASE Manger
  BY <1>4 DEF Manger, MangerCheck, MangerEvent, MangerCount, MangerDecide,
     AddThread, AddThreadStore, DeleteThread, StartWorker, BeginThread, BeginThreadFails,
     TypeOK, MangerTypes
<1>5. ASSUME NEW t \in Tid, Worker(t) PROVE ArrayInv'
  <2>1. pc \in [Tid -> WorkerPc]
    BY DEF TypeOK, WorkerTypes
  <2>2. CASE WorkerCrash(t)
    BY <2>2 DEF WorkerCrash
  <2>3. CASE ~WorkerCrash(t)
    <3>1. UNCHANGED <<bArray, bIsInit, cpc, mpc, mBusy, mi, outlived>>
      BY <1>5, <2>3 DEF Worker, WorkerStart, WorkerLoop, WorkerDequeue,
         WorkerTimeout,
         WorkerMark, WorkerServe, WorkerUnmark, WorkerClose, WorkerClear
    <3>2. pc[t] # "none" /\ \A u \in Tid \ {t} : pc'[u] = pc[u]
      BY <1>5, <2>1, <2>3 DEF Worker, WorkerStart, WorkerLoop, WorkerDequeue,
         WorkerTimeout, WorkerMark, WorkerServe, WorkerUnmark, WorkerClose, WorkerClear
    <3> QED
      BY <3>1, <3>2
  <2> QED
    BY <2>2, <2>3
<1>6. CASE UNCHANGED vars
  BY <1>6 DEF vars
<1> QED
  BY <1>1, <1>2, <1>3, <1>4, <1>5, <1>6 DEF Next

\* Every step keeps Init quiet, if nobody posts a job meanwhile.
LEMMA QuietStep ==
  ASSUME ~EarlyPost, TypeOK, JobInv, ArrayInv, QuietInit, [Next]_vars
  PROVE  QuietInit'
<1> USE NumAssumption DEF QuietInit, InInit
<1>1. CASE InitSetup
  BY <1>1 DEF InitSetup, ArrayInv, Slot
<1>2. CASE InitCreate
  BY <1>2 DEF InitCreate, StartWorker, BeginThread, BeginThreadFails, Unused,
     TypeOK,
     SlotTypes, WorkerTypes, ClientTypes, Slot
<1>3. CASE InitStore
  BY <1>3 DEF InitStore, TypeOK, ClientTypes, Slot
<1>4. CASE InitFails \/ FiniCall \/ InitReturns \/ FiniScan \/ FiniWait
             \/ FiniStop \/ FiniJoin \/ FiniDrain \/ FiniClose \/ FiniFree
  BY <1>4 DEF InitFails, FiniCall, InitReturns, FiniScan, FiniWait, FiniStop,
     FiniJoin, FiniDrain, FiniClose, FiniFree
<1>5. ASSUME NEW j \in Job, InputWork(j) PROVE QuietInit'
  BY <1>5 DEF InputWork
<1>6. CASE Manger
  BY <1>6 DEF Manger, MangerCheck, MangerEvent, MangerCount, MangerDecide,
     PoolBusy,
     AddThread, AddThreadStore, DeleteThread, ArrayInv, TypeOK, MangerTypes, SlotTypes,
     ClientTypes, Slot
<1>7. ASSUME NEW t \in Tid, Worker(t) PROVE QuietInit'
  <2>1. CASE WorkerCrash(t)
    BY <2>1 DEF WorkerCrash
  <2>2. CASE WorkerStart(t) \/ WorkerLoop(t) \/ WorkerDequeue(t) \/ WorkerTimeout(t)
    BY <2>2 DEF WorkerStart, WorkerLoop, WorkerDequeue, WorkerTimeout,
       TypeOK, WorkerTypes, SlotTypes
  <2>3. CASE WorkerMark(t) \/ WorkerServe(t) \/ WorkerUnmark(t)
    BY <2>3 DEF WorkerMark, WorkerServe, WorkerUnmark, TypeOK, WorkerTypes, SlotTypes
  <2>4. CASE WorkerClose(t) \/ WorkerClear(t)
    BY <2>4 DEF WorkerClose, WorkerClear, Vacate, TypeOK, WorkerTypes, SlotTypes
  <2> QED
    BY <1>7, <2>1, <2>2, <2>3, <2>4 DEF Worker
<1>8. CASE UNCHANGED vars
  BY <1>8 DEF vars
<1> QED
  BY <1>1, <1>2, <1>3, <1>4, <1>5, <1>6, <1>7, <1>8 DEF Next, ClientCall,
     ClientStep

\* A thread started in an empty slot owns it, and no owner loses its own.
LEMMA OwnStart ==
  ASSUME TypeOK, OwnInv, ~outlived, UNCHANGED <<idx, outlived>>,
         NEW i \in Slot, iThreadId[i] = Null,
         NEW t \in Unused, BeginThread(i, t)
  PROVE  OwnInv'
<1> USE NullAssumption
<1>1. /\ t \in Tid /\ pc[t] = "none" /\ \A k \in Slot : iThreadId[k] # t
      /\ iThreadId' = [iThreadId EXCEPT ![i] = t] /\ pc' = [pc EXCEPT ![t] = "start"]
  BY DEF Unused, BeginThread
<1>2. iThreadId \in [Slot -> Tid \cup {Null}] /\ idx \in [Tid -> Slot] /\ pc \in [Tid -> WorkerPc]
  BY DEF TypeOK, SlotTypes, WorkerTypes
<1>3. ASSUME NEW u \in Tid, pc'[u] \in Placed PROVE iThreadId'[idx'[u]] = u
  <2>1. u # t /\ pc[u] \in Placed
    BY <1>1, <1>2, <1>3 DEF Placed
  <2>2. iThreadId[idx[u]] = u
    BY <2>1 DEF OwnInv
  <2> QED
    BY <1>1, <1>2, <2>2
<1>4. ASSUME NEW u \in Tid, pc'[u] = "start" PROVE \E k \in Slot : iThreadId'[k] = u
  <2>1. CASE u = t
    BY <2>1, <1>1, <1>2
  <2>2. CASE u # t
    <3>1. PICK k \in Slot : iThreadId[k] = u
      BY <2>2, <1>1, <1>2, <1>4 DEF OwnInv
    <3> QED
      BY <3>1, <1>1, <1>2
  <2> QED
    BY <2>1, <2>2
<1>5. ASSUME NEW k \in Slot, NEW l \in Slot, iThreadId'[k] # Null, iThreadId'[k] = iThreadId'[l]
      PROVE  k = l
  BY <1>1, <1>2, <1>5 DEF OwnInv
<1> QED
  BY <1>3, <1>4, <1>5 DEF OwnInv

\* A step that starts and ends no worker, and leaves the identifiers alone,
\* keeps the owners.
LEMMA OwnFrame ==
  ASSUME TypeOK, OwnInv, UNCHANGED <<iThreadId, idx, outlived>>,
         \A t \in Tid : /\ pc'[t] = "start" => pc[t] = "start"
                        /\ pc'[t] \in Placed => pc[t] \in Placed
  PROVE  OwnInv'
BY DEF OwnInv

\* Every step keeps the owners of the slots.
LEMMA OwnStep ==
  ASSUME TypeOK, LoopInv, ArrayInv, QuietInit, OwnInv, [Next]_vars
  PROVE  OwnInv'
<1> USE NullAssumption, NumAssumption
<1>1. CASE InitSetup
  <2>1. ~outlived => \A t \in Tid : pc[t] = "none"
    BY <1>1 DEF InitSetup, ArrayInv
  <2> QED
    BY <1>1, <2>1 DEF InitSetup, OwnInv, Placed
<1>2. CASE InitCreate
  <2>1. CASE outlived
    BY <1>2, <2>1 DEF InitCreate, OwnInv
  <2>2. CASE ~outlived
    <3>1. ci \in Slot /\ iThreadId[ci] = Null
      BY <1>2, <2>2 DEF InitCreate, QuietInit, InInit, Slot, TypeOK, ClientTypes
    <3>2. CASE BeginThreadFails
      BY <1>2, <3>2, OwnFrame DEF InitCreate, BeginThreadFails
    <3>3. ASSUME NEW t \in Unused, BeginThread(ci, t) PROVE OwnInv'
      BY <1>2, <2>2, <3>1, <3>3, OwnStart DEF InitCreate
    <3> QED
      BY <1>2, <3>2, <3>3 DEF InitCreate, StartWorker
  <2> QED
    BY <2>1, <2>2
<1>3. CASE FiniFree
  <2>1. ~outlived' => \A t \in Tid : pc'[t] = "none"
    BY <1>3 DEF FiniFree
  <2>2. \A i \in Slot : iThreadId'[i] = Null
    BY <1>3 DEF FiniFree
  <2> QED
    BY <2>1, <2>2 DEF OwnInv, Placed
<1>4. CASE InitFails \/ FiniCall \/ InitStore \/ InitReturns \/ FiniScan \/ FiniWait
             \/ FiniStop \/ FiniJoin \/ FiniDrain \/ FiniClose
  BY <1>4, OwnFrame DEF InitFails, FiniCall, InitStore, InitReturns, FiniScan,
     FiniWait,
     FiniStop, FiniJoin, FiniDrain, FiniClose
<1>5. ASSUME NEW j \in Job, InputWork(j) PROVE OwnInv'
  BY <1>5, OwnFrame DEF InputWork
<1>6. CASE AddThread
  <2>1. CASE outlived
    BY <1>6, <2>1 DEF AddThread, OwnInv
  <2>2. CASE UNCHANGED <<iThreadId, pc>>
    BY <1>6, <2>2, OwnFrame DEF AddThread
  <2>3. CASE ~outlived /\ mi < MaxNum /\ IsFree(mi) /\ StartWorker(mi, mNew')
    <3>1. CASE BeginThreadFails
      BY <3>1, <2>2 DEF BeginThreadFails
    <3>2. ASSUME NEW t \in Unused, BeginThread(mi, t) PROVE OwnInv'
      <4>1. mi \in Slot
        BY <1>6, <2>3 DEF AddThread, ArrayInv, Slot, TypeOK, MangerTypes
      <4> QED
        BY <1>6, <2>3, <3>2, <4>1, OwnStart DEF AddThread, IsFree
    <3> QED
      BY <2>3, <3>1, <3>2 DEF StartWorker
  <2> QED
    BY <1>6, <2>1, <2>2, <2>3 DEF AddThread
<1>7. CASE MangerCheck \/ MangerEvent \/ MangerCount \/ MangerDecide
             \/ AddThreadStore \/ DeleteThread
  BY <1>7, OwnFrame DEF MangerCheck, MangerEvent, MangerCount, MangerDecide,
     AddThreadStore, DeleteThread
<1>8. ASSUME NEW t \in Tid, WorkerStart(t) PROVE OwnInv'
  <2>1. CASE outlived
    BY <1>8, <2>1 DEF WorkerStart, OwnInv
  <2>2. CASE ~outlived
    <3>1. UNCHANGED <<iThreadId, outlived>> /\ pc \in [Tid -> WorkerPc] /\ idx \in [Tid -> Slot]
      BY <1>8 DEF WorkerStart, TypeOK, WorkerTypes
    <3>2. CASE Index(t) = {}
      BY <1>8, <2>2, <3>1, <3>2, OwnFrame DEF WorkerStart, Placed
    <3>3. ASSUME NEW i \in Index(t), idx' = [idx EXCEPT ![t] = i], pc' = [pc EXCEPT ![t] = "loop"]
          PROVE  OwnInv'
      BY <2>2, <3>1, <3>3 DEF OwnInv, Index, Placed
    <3> QED
      BY <1>8, <3>2, <3>3 DEF WorkerStart
  <2> QED
    BY <2>1, <2>2
<1>9. ASSUME NEW t \in Tid, WorkerClear(t) PROVE OwnInv'
  <2>1. /\ iThreadId' = [iThreadId EXCEPT ![idx[t]] = Null] /\ UNCHANGED outlived
        /\ pc' = [pc EXCEPT ![t] = "none"] /\ idx' = [idx EXCEPT ![t] = 0]
        /\ pc[t] \in Placed
    BY <1>9 DEF WorkerClear, Vacate, Placed
  <2>2. /\ iThreadId \in [Slot -> Tid \cup {Null}] /\ idx \in [Tid -> Slot]
        /\ pc \in [Tid -> WorkerPc]
    BY DEF TypeOK, SlotTypes, WorkerTypes
  <2> SUFFICES ASSUME ~outlived PROVE OwnInv'
    BY <2>1 DEF OwnInv
  <2>3. iThreadId[idx[t]] = t
    BY <2>1 DEF OwnInv
  <2>4. ASSUME NEW u \in Tid, pc'[u] \in Placed PROVE iThreadId'[idx'[u]] = u
    <3>1. u # t /\ pc[u] \in Placed
      BY <2>1, <2>2, <2>4 DEF Placed
    <3>2. iThreadId[idx[u]] = u
      BY <3>1 DEF OwnInv
    <3> QED
      BY <2>1, <2>2, <2>3, <3>1, <3>2
  <2>5. ASSUME NEW u \in Tid, pc'[u] = "start" PROVE \E k \in Slot : iThreadId'[k] = u
    <3>1. u # t /\ pc[u] = "start"
      BY <2>1, <2>2, <2>5
    <3>2. PICK k \in Slot : iThreadId[k] = u
      BY <3>1 DEF OwnInv
    <3> QED
      BY <2>1, <2>2, <2>3, <3>1, <3>2
  <2>6. ASSUME NEW k \in Slot, NEW l \in Slot, iThreadId'[k] # Null, iThreadId'[k] = iThreadId'[l]
        PROVE  k = l
    BY <2>1, <2>2, <2>6 DEF OwnInv
  <2> QED
    BY <2>4, <2>5, <2>6 DEF OwnInv
<1>10. ASSUME NEW t \in Tid,
              \/ WorkerLoop(t) \/ WorkerDequeue(t) \/ WorkerTimeout(t) \/ WorkerMark(t)
              \/ WorkerServe(t) \/ WorkerUnmark(t) \/ WorkerClose(t)
       PROVE  OwnInv'
  <2>1. pc \in [Tid -> WorkerPc]
    BY DEF TypeOK, WorkerTypes
  <2> QED
    BY <1>10, <2>1, OwnFrame DEF WorkerLoop, WorkerDequeue, WorkerTimeout,
       WorkerMark,
       WorkerServe, WorkerUnmark, WorkerClose, Placed
<1>11. ASSUME NEW t \in Tid, WorkerCrash(t) PROVE OwnInv'
  BY <1>11, OwnFrame DEF WorkerCrash, Placed
<1>12. CASE UNCHANGED vars
  BY <1>12, OwnFrame DEF vars
<1> QED
  BY <1>1, <1>2, <1>3, <1>4, <1>5, <1>6, <1>7, <1>8, <1>9, <1>10, <1>11, <1>12
     DEF Next, ClientCall, ClientStep, Manger, Worker

\* The slots that distinct workers remember are distinct.
LEMMA OwnersDiffer == TypeOK /\ OwnInv => SlotOwned
BY DEF OwnInv, SlotOwned

OwnedInv == TypeOK /\ LoopInv /\ JobInv /\ ArrayInv /\ QuietInit /\ OwnInv

\* The initial state satisfies the whole invariant, and every step keeps it.
LEMMA OwnedInvariant == ~EarlyPost => (Spec => []OwnedInv)
<1> SUFFICES ASSUME ~EarlyPost PROVE Spec => []OwnedInv
  OBVIOUS
<1>1. Init => OwnedInv
  <2>1. Init => ArrayInv /\ QuietInit /\ OwnInv
    BY DEF Init, ArrayInv, QuietInit, InInit, OwnInv, Placed
  <2> QED
    BY <2>1, InitialTypes DEF OwnedInv
<1>2. OwnedInv /\ [Next]_vars => OwnedInv'
  BY TypeStep, LoopStep, JobStep, ArrayStep, QuietStep, OwnStep DEF OwnedInv
<1> QED
  BY <1>1, <1>2, PTL DEF Spec

\* No two workers share a slot, for any size of the pool, if no job is posted
\* while Init runs.
THEOREM SlotsAreOwned == ~EarlyPost => (Spec => []SlotOwned)
<1>1. OwnedInv => SlotOwned
  BY OwnersDiffer DEF OwnedInv
<1> QED
  BY <1>1, OwnedInvariant, PTL

\* What a worker remembers is an injection of the workers into the slots.
LEMMA WorkersFit ==
  ASSUME OwnedInv, ~outlived
  PROVE  LET W == {t \in Tid : pc[t] \in Placed}
         IN  IsFiniteSet(W) /\ Cardinality(W) <= MaxNum
<1> DEFINE W == {t \in Tid : pc[t] \in Placed}
           f == [t \in W |-> idx[t]]
<1>1. IsFiniteSet(Slot) /\ Cardinality(Slot) = MaxNum
  <2>1. 0 \in Int /\ MaxNum - 1 \in Int /\ (MaxNum - 1) - 0 + 1 = MaxNum /\ ~(0 > MaxNum - 1)
    BY NumAssumption
  <2> QED
    BY <2>1, FS_Interval DEF Slot
<1>2. f \in [W -> Slot]
  BY DEF OwnedInv, TypeOK, WorkerTypes
<1>3. \A t, u \in W : f[t] = f[u] => t = u
  BY OwnersDiffer DEF OwnedInv, SlotOwned
<1>4. f \in Injection(W, Slot)
  BY <1>2, <1>3 DEF Injection, IsInjective
<1> QED
  BY <1>1, <1>4, FS_Injection

\* At most iMaxNum workers are at work, under the same condition.
THEOREM WorkersAreBounded == ~EarlyPost => (Spec => []WithinMaxNum)
<1>1. OwnedInv => WithinMaxNum
  BY WorkersFit DEF WithinMaxNum
<1> QED
  BY <1>1, OwnedInvariant, PTL

-----------------------------------------------------------------------------
(* The busy slots. *)

\* A busy slot is that of a worker that serves, and conversely.
BusyInv ==
    ~outlived =>
        /\ \A i \in Slot : bIsBuy[i] =>
              \E t \in Tid : idx[t] = i /\ pc[t] \in {"serve", "unmark"}
        /\ \A t \in Tid : pc[t] \in {"serve", "unmark"} => bIsBuy[idx[t]]

\* A step that marks no slot, and moves no worker that serves, keeps it.
LEMMA BusyFrame ==
  ASSUME BusyInv, outlived' = outlived, bIsBuy' = bIsBuy,
         \A t \in Tid : /\ pc[t] \in {"serve", "unmark"} =>
                              pc'[t] \in {"serve", "unmark"} /\ idx'[t] = idx[t]
                        /\ pc'[t] \in {"serve", "unmark"} => pc[t] \in {"serve", "unmark"}
  PROVE  BusyInv'
BY DEF BusyInv

\* Every step keeps it, since no two workers share a slot.
LEMMA BusyStep ==
  ASSUME TypeOK, ArrayInv, OwnInv, BusyInv, [Next]_vars
  PROVE  BusyInv'
<1>1. pc \in [Tid -> WorkerPc] /\ idx \in [Tid -> Slot] /\ bIsBuy \in [Slot -> BOOLEAN]
  BY DEF TypeOK, WorkerTypes, SlotTypes
<1>2. CASE InitSetup
  <2>1. ~outlived => \A t \in Tid : pc[t] = "none"
    BY <1>2 DEF InitSetup, ArrayInv
  <2> QED
    BY <1>2, <2>1 DEF InitSetup, BusyInv
<1>3. CASE FiniFree
  BY <1>3 DEF FiniFree, BusyInv
<1>4. ASSUME NEW i, NEW new, StartWorker(i, new), UNCHANGED <<idx, bIsBuy, outlived>>
      PROVE  BusyInv'
  <2>1. ASSUME NEW t \in Unused, pc' = [pc EXCEPT ![t] = "start"] PROVE BusyInv'
    BY <1>1, <1>4, <2>1, BusyFrame DEF Unused
  <2>2. CASE UNCHANGED pc
    BY <1>4, <2>2, BusyFrame
  <2> QED
    BY <1>4, <2>1, <2>2 DEF StartWorker, BeginThread, BeginThreadFails
<1>5. CASE UNCHANGED <<pc, idx, bIsBuy, outlived>>
  BY <1>5, BusyFrame
<1>6. CASE InitCreate
  BY <1>4, <1>6 DEF InitCreate
<1>7. CASE AddThread
  BY <1>4, <1>5, <1>7 DEF AddThread
<1>8. CASE InitFails \/ FiniCall \/ InitStore \/ InitReturns \/ FiniScan \/ FiniWait
             \/ FiniStop \/ FiniJoin \/ FiniDrain \/ FiniClose
  BY <1>5, <1>8 DEF InitFails, FiniCall, InitStore, InitReturns, FiniScan,
     FiniWait,
     FiniStop, FiniJoin, FiniDrain, FiniClose
<1>9. CASE MangerCheck \/ MangerEvent \/ MangerCount \/ MangerDecide
             \/ AddThreadStore \/ DeleteThread
  BY <1>5, <1>9 DEF MangerCheck, MangerEvent, MangerCount, MangerDecide,
     AddThreadStore, DeleteThread
<1>10. ASSUME NEW j \in Job, InputWork(j) PROVE BusyInv'
  BY <1>5, <1>10 DEF InputWork
<1>11. ASSUME NEW t \in Tid, WorkerMark(t) PROVE BusyInv'
  BY <1>1, <1>11 DEF WorkerMark, SetBusy, BusyInv
<1>12. ASSUME NEW t \in Tid, WorkerUnmark(t) PROVE BusyInv'
  <2>1. \A u \in Tid : pc[u] \in {"serve", "unmark"} /\ ~outlived /\ u # t => idx[u] # idx[t]
    BY <1>12 DEF WorkerUnmark, OwnInv, Placed
  <2> QED
    BY <1>1, <1>12, <2>1 DEF WorkerUnmark, SetBusy, BusyInv
<1>13. ASSUME NEW t \in Tid,
              \/ WorkerStart(t) \/ WorkerLoop(t) \/ WorkerDequeue(t) \/ WorkerTimeout(t)
              \/ WorkerServe(t) \/ WorkerClose(t) \/ WorkerClear(t)
       PROVE  BusyInv'
  <2>1. /\ UNCHANGED <<bIsBuy, outlived>>
        /\ \A u \in Tid \ {t} : pc'[u] = pc[u] /\ idx'[u] = idx[u]
        /\ pc[t] \in {"serve", "unmark"} <=> pc'[t] \in {"serve", "unmark"}
        /\ pc[t] \in {"serve", "unmark"} => idx'[t] = idx[t]
    BY <1>1, <1>13 DEF WorkerStart, WorkerLoop, WorkerDequeue, WorkerTimeout,
       WorkerServe,
       WorkerClose, WorkerClear
  <2> QED
    BY <2>1, BusyFrame
<1>14. ASSUME NEW t \in Tid, WorkerCrash(t) PROVE BusyInv'
  <2>1. outlived
    BY <1>14 DEF WorkerCrash, ArrayInv, Touching
  <2> QED
    BY <1>14, <2>1 DEF WorkerCrash, BusyInv
<1>15. CASE UNCHANGED vars
  BY <1>5, <1>15 DEF vars
<1> QED
  BY <1>2, <1>3, <1>6, <1>7, <1>8, <1>9, <1>10, <1>11, <1>12, <1>13, <1>14,
     <1>15
     DEF Next, ClientCall, ClientStep, Manger, Worker

\* GetThreadPoolStatus never counts a slot as busy that is not, nor the other
\* way round, if no job is posted while Init runs: a worker is retired only
\* between two jobs, and its slot is marked and unmarked by no other.
THEOREM BusySlotsServe == ~EarlyPost => (Spec => []BusyMeansServing)
<1> SUFFICES ASSUME ~EarlyPost PROVE Spec => []BusyMeansServing
  OBVIOUS
<1>1. Init => BusyInv
  BY DEF Init, BusyInv
<1>2. OwnedInv /\ BusyInv /\ [Next]_vars => BusyInv'
  BY BusyStep DEF OwnedInv
<1>3. BusyInv => BusyMeansServing
  BY DEF BusyInv, BusyMeansServing
<1> QED
  BY <1>1, <1>2, <1>3, OwnedInvariant, PTL DEF Spec

-----------------------------------------------------------------------------
(* The first iInitialNum workers. *)

\* The system has enough identifiers for them.
EnoughThreads == IsFiniteSet(Tid) => Cardinality(Tid) >= InitialNum

\* Slot i has a worker that is not about to leave.
Core(i) ==
    /\ ~bIsExit[i] /\ iThreadId[i] \in Tid
    /\ pc[iThreadId[i]] \notin {"none", "close", "clear"}

\* A thread that has just been created is that of the slot it was created
\* for, and while Init runs no worker is told to exit.
NewInv ==
    /\ InInit => ~bIsInit /\ ci <= InitialNum
    /\ cNew # Null => cpc \in {"store", "dead"}
    /\ mNew # Null => mpc = "store" \/ cpc = "dead"
    /\ InInit /\ ~outlived =>
          /\ cNew \in {Null, iThreadId[ci]}
          /\ \A i \in Slot : ~bIsExit[i] /\ hHandle[i] \in {Null, iThreadId[i]}
          /\ \A t \in Tid : pc[t] \notin {"close", "clear"}

\* If no thread was refused, the slots that Init is past have such workers,
\* and once it has returned all of the first iInitialNum, until Fini.
CoreInv ==
    ~outlived /\ fails = 0 =>
        /\ InInit => \A i \in 0 .. InitialNum - 1 :
                        i < ci \/ (i = ci /\ cpc = "store") => Core(i)
        /\ bIsInit /\ ~InFini => \A i \in 0 .. InitialNum - 1 : Core(i)

\* While Init runs there is an identifier that is not in use.
LEMMA UnusedExists ==
  ASSUME EnoughThreads, TypeOK, QuietInit, OwnInv, NewInv, ~outlived,
         cpc = "create", ci < InitialNum, mpc # "store"
  PROVE  Unused # {}
<1> USE NumAssumption, NullAssumption
<1> SUFFICES ASSUME Unused = {} PROVE FALSE
  OBVIOUS
<1>1. ci \in Nat /\ ci < MaxNum /\ pc \in [Tid -> WorkerPc]
  BY DEF TypeOK, ClientTypes, WorkerTypes
<1> DEFINE S == {iThreadId[i] : i \in 0 .. ci - 1}
<1>2. \A i \in Slot : iThreadId[i] = Null \/ i \in 0 .. ci - 1
  BY <1>1 DEF QuietInit, InInit, Slot
<1>3. \A i \in Slot : hHandle[i] \in {Null, iThreadId[i]}
  BY DEF NewInv, InInit
<1>4. cNew = Null /\ mNew = Null
  BY DEF NewInv
<1>5. ASSUME NEW t \in Tid PROVE t \in S
  <2>1. t # Null /\ t \notin Unused
    BY <1>5
  <2>2. pc[t] = "none" \/ \E i \in Slot : iThreadId[i] = t
    <3>1. pc[t] = "none" \/ pc[t] = "start" \/ pc[t] \in Placed
      BY <1>1 DEF WorkerPc
    <3>2. pc[t] \in Placed => idx[t] \in Slot
      BY DEF TypeOK, WorkerTypes
    <3> QED
      BY <3>1, <3>2 DEF OwnInv
  <2>3. \E i \in Slot : iThreadId[i] = t
    BY <2>1, <2>2, <1>3, <1>4 DEF Unused
  <2> QED
    BY <2>1, <2>3, <1>2
<1>6. IsFiniteSet(0 .. ci - 1) /\ Cardinality(0 .. ci - 1) = ci
  <2>1. 0 \in Int /\ ci - 1 \in Int /\ (0 > ci - 1 => ci = 0) /\ (ci - 1) - 0 + 1 = ci
    BY <1>1
  <2> QED
    BY <2>1, FS_Interval
<1>7. IsFiniteSet(S) /\ Cardinality(S) <= ci
  <2> DEFINE f == [i \in 0 .. ci - 1 |-> iThreadId[i]]
  <2>1. f \in Surjection(0 .. ci - 1, S)
    BY DEF Surjection
  <2> QED
    BY <1>6, <2>1, FS_Surjection
<1>8. IsFiniteSet(Tid) /\ Cardinality(Tid) <= Cardinality(S)
  BY <1>5, <1>7, FS_Subset
<1>9. Cardinality(S) \in Nat /\ Cardinality(Tid) \in Nat
  BY <1>7, <1>8, FS_CardinalityType
<1> QED
  BY <1>1, <1>7, <1>8, <1>9 DEF EnoughThreads

\* Every step keeps it.
LEMMA NewStep ==
  ASSUME TypeOK, LoopInv, ArrayInv, QuietInit, OwnInv, NewInv, [Next]_vars
  PROVE  NewInv'
<1> USE NumAssumption, NullAssumption DEF InInit
<1>1. /\ hHandle \in [Slot -> Tid \cup {Null}] /\ iThreadId \in [Slot -> Tid \cup {Null}]
      /\ bIsExit \in [Slot -> BOOLEAN] /\ pc \in [Tid -> WorkerPc] /\ idx \in [Tid -> Slot]
      /\ ci \in 0 .. MaxNum
  BY DEF TypeOK, SlotTypes, WorkerTypes, ClientTypes
<1>2. CASE InitSetup
  <2>1. ~outlived => \A t \in Tid : pc[t] = "none"
    BY <1>2 DEF InitSetup, ArrayInv
  <2>2. /\ cNew' = Null /\ ~bIsInit' /\ ci' = 0
        /\ UNCHANGED <<pc, outlived>> /\ \A i \in Slot : ~bIsExit'[i] /\ hHandle'[i] = Null
    BY <1>2 DEF InitSetup, NewInv
  <2>3. mNew' = Null
    BY <1>2, <2>2 DEF InitSetup, NewInv, ArrayInv
  <2> QED
    BY <2>1, <2>2, <2>3 DEF NewInv
<1>3. CASE InitCreate
  <2>1. InInit => ci \in Slot /\ (~outlived => iThreadId[ci] = Null)
    BY <1>1, <1>3 DEF InitCreate, QuietInit, Slot
  <2>2. CASE BeginThreadFails /\ cNew' = Null
    BY <1>3, <2>2 DEF InitCreate, BeginThreadFails, NewInv
  <2>3. ASSUME NEW t \in Unused, BeginThread(ci, t), cNew' = t PROVE NewInv'
    <3>1. /\ iThreadId' = [iThreadId EXCEPT ![ci] = t] /\ pc' = [pc EXCEPT ![t] = "start"]
          /\ UNCHANGED <<hHandle, bIsExit, bIsInit, ci, mpc, mNew, outlived>>
          /\ cpc = "create" /\ cpc' = "store"
      BY <1>3, <2>3 DEF InitCreate, BeginThread
    <3> QED
      BY <1>1, <2>1, <2>3, <3>1 DEF NewInv
  <2> QED
    BY <1>3, <2>2, <2>3 DEF InitCreate, StartWorker
<1>4. CASE InitStore
  <2>1. /\ hHandle' = [hHandle EXCEPT ![ci] = cNew] /\ cNew' = Null /\ ci' = ci + 1
        /\ cpc = "store" /\ cpc' = "create"
        /\ UNCHANGED <<iThreadId, bIsExit, bIsInit, pc, mpc, mNew, outlived>>
    BY <1>4 DEF InitStore
  <2>2. ci < InitialNum /\ ci' \in Int /\ ci' <= InitialNum
    BY <1>1, <2>1 DEF LoopInv
  <2> QED
    BY <1>1, <2>1, <2>2 DEF NewInv
<1>5. CASE InitFails \/ FiniCall \/ InitReturns \/ FiniScan \/ FiniWait
             \/ FiniStop \/ FiniJoin \/ FiniDrain \/ FiniClose \/ FiniFree
  <2>1. UNCHANGED <<cNew, mpc, mNew>>
    BY <1>5 DEF InitFails, FiniCall, InitReturns, FiniScan, FiniWait, FiniStop,
       FiniJoin, FiniDrain, FiniClose, FiniFree
  <2>2. cpc \notin {"store", "dead"} /\ cpc' \notin {"create", "store", "dead"}
    BY <1>5 DEF InitFails, FiniCall, InitReturns, FiniScan, FiniWait, FiniStop,
       FiniJoin, FiniDrain, FiniClose, FiniFree
  <2> QED
    BY <2>1, <2>2 DEF NewInv
<1>6. CASE UNCHANGED <<cpc, ci, bIsInit, cNew, mpc, mNew, outlived, slotVars, pc>>
  BY <1>6 DEF NewInv
<1>7. ASSUME NEW j \in Job, InputWork(j) PROVE NewInv'
  BY <1>6, <1>7 DEF InputWork
<1>8. CASE MangerCheck \/ MangerEvent \/ MangerCount \/ MangerDecide
  <2>1. /\ UNCHANGED <<cpc, ci, bIsInit, cNew, mNew, outlived, slotVars, pc>>
        /\ mpc # "store"
    BY <1>8 DEF MangerCheck, MangerEvent, MangerCount, MangerDecide
  <2> QED
    BY <2>1 DEF NewInv
<1>9. CASE AddThread
  <2>1. UNCHANGED <<cpc, ci, bIsInit, cNew, outlived>> /\ mpc = "add"
    BY <1>9 DEF AddThread
  <2>2. InInit => outlived
    BY <2>1 DEF QuietInit
  <2>3. mNew' # Null => mpc' = "store" \/ cpc = "dead"
    BY <1>9, <2>1 DEF AddThread, StartWorker, NewInv
  <2> QED
    BY <2>1, <2>2, <2>3 DEF NewInv
<1>10. CASE AddThreadStore
  <2>1. UNCHANGED <<cpc, ci, bIsInit, cNew, outlived>> /\ mpc = "store" /\ mNew' = Null
    BY <1>10 DEF AddThreadStore
  <2>2. InInit => outlived
    BY <2>1 DEF QuietInit
  <2> QED
    BY <2>1, <2>2 DEF NewInv
<1>11. CASE DeleteThread
  <2>1. /\ UNCHANGED <<cpc, ci, bIsInit, cNew, mNew, outlived, hHandle, iThreadId, pc>>
        /\ mpc # "store"
    BY <1>11 DEF DeleteThread
  <2>2. InInit /\ ~outlived => UNCHANGED bIsExit
    <3>1. ASSUME InInit, ~outlived, mi >= InitialNum
          PROVE  [bIsExit EXCEPT ![mi] = @ \/ iThreadId[mi] # Null] = bIsExit
      <4>1. mi \in Int /\ ci <= InitialNum
        BY <3>1 DEF TypeOK, MangerTypes, NewInv
      <4>2. mi > ci \/ (mi = ci /\ cpc = "create")
        BY <1>1, <3>1, <4>1 DEF LoopInv
      <4>3. mi \in Slot => iThreadId[mi] = Null
        BY <3>1, <4>2 DEF QuietInit
      <4> QED
        BY <1>1, <3>1, <4>3 DEF NewInv
    <3> QED
      BY <1>11, <3>1 DEF DeleteThread, FirstElastic
  <2> QED
    BY <2>1, <2>2 DEF NewInv
<1>12. ASSUME NEW t \in Tid, WorkerCrash(t) PROVE NewInv'
  BY <1>12 DEF WorkerCrash, NewInv
<1>13. ASSUME NEW t \in Tid, Worker(t), ~WorkerCrash(t) PROVE NewInv'
  <2>1. UNCHANGED <<cpc, ci, bIsInit, cNew, mpc, mNew, outlived>>
    BY <1>13 DEF Worker, WorkerStart, WorkerLoop, WorkerDequeue, WorkerTimeout,
       WorkerMark, WorkerServe, WorkerUnmark, WorkerClose, WorkerClear
  <2>2. ASSUME InInit, ~outlived
        PROVE  UNCHANGED <<hHandle, iThreadId, bIsExit>> /\ pc'[t] \notin {"close", "clear"}
    <3>1. /\ pc[t] \notin {"close", "clear"} /\ ~bIsExit[idx[t]]
      BY <1>1, <2>2 DEF NewInv
    <3> QED
      BY <1>1, <1>13, <3>1 DEF Worker, WorkerStart, WorkerLoop, WorkerDequeue,
         WorkerTimeout, WorkerMark, WorkerServe, WorkerUnmark, WorkerClose, WorkerClear
  <2>3. \A u \in Tid \ {t} : pc'[u] = pc[u]
    BY <1>1, <1>13 DEF Worker, WorkerStart, WorkerLoop, WorkerDequeue,
       WorkerTimeout,
       WorkerMark, WorkerServe, WorkerUnmark, WorkerClose, WorkerClear
  <2> QED
    BY <2>1, <2>2, <2>3 DEF NewInv
<1>14. CASE UNCHANGED vars
  BY <1>6, <1>14 DEF vars
<1> QED
  BY <1>2, <1>3, <1>4, <1>5, <1>7, <1>8, <1>9, <1>10, <1>11, <1>12, <1>13, <1>14
     DEF Next, ClientCall, ClientStep, Manger

\* A step of no client that leaves the first slots with their workers keeps
\* the invariant.
LEMMA CoreFrame ==
  ASSUME CoreInv, UNCHANGED <<cpc, ci, bIsInit, outlived>>, fails \in Nat,
         fails' = fails \/ fails' = fails + 1,
         ~outlived /\ fails = 0 => \A i \in 0 .. InitialNum - 1 : Core(i) => Core(i)'
  PROVE  CoreInv'
BY DEF CoreInv, InInit, InFini

\* A new thread in an empty slot does not disturb the other slots.
LEMMA CoreStart ==
  ASSUME TypeOK, NEW i \in Slot, Core(i), NEW k \in Slot, iThreadId[k] = Null,
         NEW t \in Unused, BeginThread(k, t), UNCHANGED bIsExit
  PROVE  Core(i)'
BY NullAssumption DEF TypeOK, SlotTypes, WorkerTypes, Core, Unused, BeginThread

\* Every step keeps the first workers.
LEMMA CoreStep ==
  ASSUME EnoughThreads, TypeOK, LoopInv, ArrayInv, QuietInit, OwnInv, NewInv, CoreInv,
         [Next]_vars
  PROVE  CoreInv'
<1> USE NumAssumption, NullAssumption
<1>1. /\ iThreadId \in [Slot -> Tid \cup {Null}] /\ bIsExit \in [Slot -> BOOLEAN]
      /\ pc \in [Tid -> WorkerPc] /\ idx \in [Tid -> Slot]
      /\ ci \in 0 .. MaxNum /\ fails \in Nat /\ 0 .. InitialNum - 1 \subseteq Slot
  BY DEF TypeOK, SlotTypes, WorkerTypes, ClientTypes, CounterTypes, Slot
<1>2. CASE InitSetup
  BY <1>2 DEF InitSetup, CoreInv, InInit
<1>3. CASE InitFails
  BY <1>1, <1>3, CoreFrame DEF InitFails, Core
<1>4. CASE InitCreate
  <2>1. /\ cpc = "create" /\ ci < InitialNum /\ cpc' = "store" /\ ci' = ci
        /\ UNCHANGED <<bIsInit, bIsExit, outlived>>
    BY <1>4 DEF InitCreate
  <2>2. ~bIsInit
    BY <2>1 DEF NewInv, InInit
  <2> SUFFICES ASSUME ~outlived, fails' = 0,
                      NEW i \in 0 .. InitialNum - 1, i < ci \/ i = ci
               PROVE  Core(i)'
    BY <2>1, <2>2 DEF CoreInv
  <2>3. ci \in Slot /\ iThreadId[ci] = Null /\ mpc # "store" /\ ~bIsExit[ci]
    BY <1>1, <2>1 DEF QuietInit, NewInv, InInit, Slot
  <2>4. ~BeginThreadFails
    BY <1>1, <2>1, <2>3, UnusedExists DEF BeginThreadFails
  <2>5. PICK t \in Unused : BeginThread(ci, t)
    BY <1>4, <2>4 DEF InitCreate, StartWorker
  <2>6. fails = 0
    BY <2>5 DEF BeginThread
  <2>7. CASE i = ci
    BY <1>1, <2>1, <2>3, <2>5, <2>7 DEF BeginThread, Core, Unused
  <2>8. CASE i < ci
    <3>1. Core(i)
      BY <2>1, <2>6, <2>8 DEF CoreInv, InInit
    <3> QED
      BY <1>1, <2>1, <2>3, <2>5, <3>1, CoreStart
  <2> QED
    BY <2>7, <2>8
<1>5. CASE InitStore
  <2>1. /\ cpc = "store" /\ cpc' = "create" /\ ci' = ci + 1
        /\ UNCHANGED <<bIsInit, bIsExit, iThreadId, pc, outlived, fails>>
    BY <1>5 DEF InitStore
  <2>2. \A i : Core(i)' <=> Core(i)
    BY <2>1 DEF Core
  <2>3. \A i \in 0 .. InitialNum - 1 : i < ci + 1 => i < ci \/ i = ci
    BY <1>1
  <2>4. ~bIsInit
    BY <2>1 DEF NewInv, InInit
  <2> QED
    BY <2>1, <2>2, <2>3, <2>4 DEF CoreInv, InInit
<1>6. CASE InitReturns
  <2>1. /\ cpc = "create" /\ cpc' = "idle" /\ ci = InitialNum
        /\ UNCHANGED <<bIsExit, iThreadId, pc, outlived, fails>>
    BY <1>6 DEF InitReturns
  <2>2. \A i : Core(i)' <=> Core(i)
    BY <2>1 DEF Core
  <2>3. \A i \in 0 .. InitialNum - 1 : i < ci
    BY <2>1
  <2> QED
    BY <2>1, <2>2, <2>3 DEF CoreInv, InInit
<1>7. CASE FiniCall \/ FiniScan \/ FiniWait \/ FiniStop \/ FiniJoin \/ FiniDrain \/ FiniClose
  <2>1. InFini' /\ ~InInit'
    BY <1>7 DEF FiniCall, FiniScan, FiniWait, FiniStop, FiniJoin, FiniDrain,
       FiniClose,
       InFini, InInit
  <2> QED
    BY <2>1 DEF CoreInv
<1>8. CASE FiniFree
  <2>1. ~bIsInit' /\ ~InInit'
    BY <1>8 DEF FiniFree, InInit
  <2> QED
    BY <2>1 DEF CoreInv
<1>9. CASE UNCHANGED <<cpc, ci, bIsInit, outlived, fails, bIsExit, iThreadId, pc>>
  BY <1>1, <1>9, CoreFrame DEF Core
<1>10. ASSUME NEW j \in Job, InputWork(j) PROVE CoreInv'
  BY <1>9, <1>10 DEF InputWork
<1>11. CASE MangerCheck \/ MangerEvent \/ MangerCount \/ MangerDecide \/ AddThreadStore
  BY <1>9, <1>11 DEF MangerCheck, MangerEvent, MangerCount, MangerDecide,
     AddThreadStore
<1>12. CASE AddThread
  <2>1. UNCHANGED <<cpc, ci, bIsInit, outlived, bIsExit>>
    BY <1>12 DEF AddThread
  <2>2. CASE UNCHANGED <<iThreadId, pc>> /\ (fails' = fails \/ fails' = fails + 1)
    BY <1>1, <2>1, <2>2, CoreFrame DEF Core
  <2>3. ASSUME mi < MaxNum, iThreadId[mi] = Null, NEW t \in Unused, BeginThread(mi, t)
        PROVE  CoreInv'
    <3>1. mi \in Slot
      BY <1>12, <2>3 DEF AddThread, ArrayInv, Slot, TypeOK, MangerTypes
    <3>2. \A i \in 0 .. InitialNum - 1 : Core(i) => Core(i)'
      BY <1>1, <2>1, <2>3, <3>1, CoreStart
    <3>3. fails' = fails
      BY <2>3 DEF BeginThread
    <3> QED
      BY <1>1, <2>1, <3>2, <3>3, CoreFrame
  <2> QED
    BY <1>12, <2>2, <2>3 DEF AddThread, IsFree, StartWorker, BeginThreadFails
<1>13. CASE DeleteThread
  <2>1. UNCHANGED <<cpc, ci, bIsInit, outlived, fails, iThreadId, pc>>
    BY <1>13 DEF DeleteThread
  <2>2. \A i \in 0 .. InitialNum - 1 : bIsExit'[i] = bIsExit[i]
    BY <1>1, <1>13 DEF DeleteThread, FirstElastic
  <2> QED
    BY <1>1, <2>1, <2>2, CoreFrame DEF Core
<1>14. ASSUME NEW t \in Tid, WorkerCrash(t) PROVE CoreInv'
  <2>1. outlived' /\ outlived
    BY <1>14 DEF WorkerCrash, ArrayInv, Touching
  <2> QED
    BY <2>1 DEF CoreInv
<1>15. ASSUME NEW t \in Tid, Worker(t), ~WorkerCrash(t) PROVE CoreInv'
  <2>1. UNCHANGED <<cpc, ci, bIsInit, outlived, fails, bIsExit>>
    BY <1>15 DEF Worker, WorkerStart, WorkerLoop, WorkerDequeue, WorkerTimeout,
       WorkerMark, WorkerServe, WorkerUnmark, WorkerClose, WorkerClear
  <2>2. ASSUME ~outlived, NEW i \in 0 .. InitialNum - 1, Core(i) PROVE Core(i)'
    <3>1. i \in Slot
      BY <1>1
    <3>2. iThreadId[i] = t => Index(t) # {} /\ (pc[t] \in Placed => idx[t] = i)
      <4>1. ASSUME iThreadId[i] = t
            PROVE  \A k \in Slot : iThreadId[k] = t => k = i
        BY <2>2, <3>1, <4>1 DEF OwnInv
      <4>2. ASSUME iThreadId[i] = t PROVE i \in Index(t)
        BY <3>1, <4>1, <4>2 DEF Index, Slot
      <4>3. ASSUME iThreadId[i] = t, pc[t] \in Placed PROVE idx[t] = i
        BY <1>1, <2>2, <4>1, <4>3 DEF OwnInv
      <4> QED
        BY <4>2, <4>3
    <3>3. CASE iThreadId[i] # t
      <4>1. pc'[iThreadId[i]] = pc[iThreadId[i]]
        BY <1>1, <1>15, <2>2, <3>3 DEF Core, Worker, WorkerStart, WorkerLoop,
           WorkerDequeue,
           WorkerTimeout, WorkerMark, WorkerServe, WorkerUnmark, WorkerClose, WorkerClear
      <4>2. iThreadId'[i] = iThreadId[i]
        <5>1. pc[t] \in Placed => idx[t] # i
          BY <2>2, <3>3 DEF OwnInv
        <5> QED
          BY <1>1, <1>15, <3>1, <5>1 DEF Worker, WorkerStart, WorkerLoop,
             WorkerDequeue,
             WorkerTimeout, WorkerMark, WorkerServe, WorkerUnmark, WorkerClose, WorkerClear,
             Vacate, Placed
      <4> QED
        BY <2>1, <2>2, <4>1, <4>2 DEF Core
    <3>4. CASE iThreadId[i] = t
      <4>1. /\ ~bIsExit[i] /\ pc[t] \notin {"close", "clear"}
        BY <2>2, <3>4 DEF Core
      <4>2. UNCHANGED iThreadId /\ pc'[t] \notin {"none", "close", "clear"}
        BY <1>1, <1>15, <3>2, <3>4, <4>1 DEF Worker, WorkerStart, WorkerLoop,
           WorkerDequeue,
           WorkerTimeout, WorkerMark, WorkerServe, WorkerUnmark, WorkerClose, WorkerClear,
           Placed
      <4> QED
        BY <2>1, <2>2, <3>4, <4>2 DEF Core
    <3> QED
      BY <3>3, <3>4
  <2> QED
    BY <1>1, <2>1, <2>2, CoreFrame
<1>16. CASE UNCHANGED vars
  BY <1>9, <1>16 DEF vars
<1> QED
  BY <1>2, <1>3, <1>4, <1>5, <1>6, <1>7, <1>8, <1>10, <1>11, <1>12, <1>13,
     <1>14, <1>15,
     <1>16 DEF Next, ClientCall, ClientStep, Manger

\* If the system has the identifiers, refuses no thread, and no job is posted
\* while Init runs, the first iInitialNum workers stay at work until Fini.
THEOREM FirstWorkersStay == ~EarlyPost /\ EnoughThreads => (Spec => []CoreWorkersStay)
<1> SUFFICES ASSUME ~EarlyPost, EnoughThreads PROVE Spec => []CoreWorkersStay
  OBVIOUS
<1>1. Init => NewInv /\ CoreInv
  BY DEF Init, NewInv, CoreInv, InInit
<1>2. OwnedInv /\ NewInv /\ CoreInv /\ [Next]_vars => NewInv' /\ CoreInv'
  BY NewStep, CoreStep DEF OwnedInv
<1>3. CoreInv => CoreWorkersStay
  BY NullAssumption DEF CoreInv, Core, CoreWorkersStay
<1> QED
  BY <1>1, <1>2, <1>3, OwnedInvariant, PTL DEF Spec

-----------------------------------------------------------------------------
(* The pool implements the abstract pool of jobs. *)

\* The port is open from Init until Fini closes it.
PortInv ==
    /\ InInit \/ (InFini /\ cpc # "free") => bPort
    /\ bIsInit /\ cpc = "idle" => bPort

\* Every step keeps it.
LEMMA PortStep ==
  ASSUME PortInv, [Next]_vars
  PROVE  PortInv'
<1> USE DEF PortInv, InInit, InFini
<1>1. CASE ClientCall
  <2>1. CASE InitSetup
    BY <2>1 DEF InitSetup
  <2>2. CASE InitFails
    BY <2>2 DEF InitFails
  <2>3. CASE FiniCall
    BY <2>3 DEF FiniCall
  <2> QED
    BY <1>1, <2>1, <2>2, <2>3 DEF ClientCall
<1>2. CASE ClientStep
  BY <1>2 DEF ClientStep, InitCreate, InitStore, InitReturns, FiniScan,
     FiniWait, FiniStop,
     FiniJoin, FiniDrain, FiniClose, FiniFree
<1>3. CASE UNCHANGED <<bPort, cpc, bIsInit>>
  BY <1>3
<1>4. CASE Manger
  BY <1>3, <1>4 DEF Manger, MangerCheck, MangerEvent, MangerCount, MangerDecide,
     AddThread, AddThreadStore, DeleteThread
<1>5. ASSUME NEW t \in Tid, Worker(t) PROVE PortInv'
  BY <1>3, <1>5 DEF Worker, WorkerStart, WorkerLoop, WorkerDequeue,
     WorkerTimeout,
     WorkerMark, WorkerServe, WorkerUnmark, WorkerClose, WorkerClear, WorkerCrash
<1> QED
  BY <1>1, <1>2, <1>3, <1>4, <1>5 DEF Next, InputWork, vars

\* The status of a job is the place where it is.
StatusMeansPlace ==
    /\ JobStatus = [j \in Job |-> JobStatus[j]]
    /\ \A j \in Job :
          /\ j \in Queued  <=> JobStatus[j] = "queued"
          /\ j \in Held    <=> JobStatus[j] = "running"
          /\ j \in done    <=> JobStatus[j] = "done"
          /\ j \in dropped <=> JobStatus[j] = "dropped"
          /\ j \in lost    <=> JobStatus[j] = "lost"
          /\ j \notin posted <=> JobStatus[j] = "new"
          /\ JobStatus[j] \in {"new", "queued", "running", "done", "dropped", "lost"}

\* It follows from the conservation of the jobs.
LEMMA StatusIsPlace == JobsConserved => StatusMeansPlace
<1> SUFFICES ASSUME JobsConserved PROVE StatusMeansPlace
  OBVIOUS
<1> DEFINE S(j) == CASE j \in Queued  -> "queued"
                     [] j \in Held    -> "running"
                     [] j \in done    -> "done"
                     [] j \in dropped -> "dropped"
                     [] j \in lost    -> "lost"
                     [] OTHER         -> "new"
<1>1. JobStatus = [j \in Job |-> S(j)]
  BY DEF JobStatus
<1>2. ASSUME NEW j \in Job
      PROVE  /\ j \in Queued  <=> S(j) = "queued"
             /\ j \in Held    <=> S(j) = "running"
             /\ j \in done    <=> S(j) = "done"
             /\ j \in dropped <=> S(j) = "dropped"
             /\ j \in lost    <=> S(j) = "lost"
             /\ j \notin posted <=> S(j) = "new"
             /\ S(j) \in {"new", "queued", "running", "done", "dropped", "lost"}
  <2>1. /\ Queued \cap Held = {} /\ (Queued \cup Held) \cap (done \cup dropped \cup lost) = {}
        /\ done \cap dropped = {} /\ done \cap lost = {} /\ dropped \cap lost = {}
        /\ posted = Queued \cup Held \cup done \cup dropped \cup lost
    BY DEF JobsConserved
  <2> HIDE DEF S
  <2>2. /\ j \in Queued => S(j) = "queued"
        /\ j \in Held /\ j \notin Queued => S(j) = "running"
        /\ j \in done /\ j \notin Queued \cup Held => S(j) = "done"
        /\ j \in dropped /\ j \notin Queued \cup Held \cup done => S(j) = "dropped"
        /\ j \in lost /\ j \notin Queued \cup Held \cup done \cup dropped => S(j) = "lost"
        /\ j \notin Queued \cup Held \cup done \cup dropped \cup lost => S(j) = "new"
    BY <2>1 DEF S
  <2> QED
    BY <2>1, <2>2
<1> HIDE DEF S
<1> QED
  BY <1>1, <1>2 DEF StatusMeansPlace

\* A step that leaves the queue, the hands of the workers and the records of
\* the jobs alone leaves the status of every job alone.
LEMMA StatusFrame ==
  ASSUME UNCHANGED <<iocp, job, done, dropped, lost>>
  PROVE  JobStatus' = JobStatus
BY DEF JobStatus, Queued, Held

\* A worker that waits for a job leaves room for its job: the others that
\* have one are at work.
LEMMA RoomToRun ==
  ASSUME OwnedInv, ~outlived, NEW t \in Tid, pc[t] = "deq"
  PROVE  IsFiniteSet(Held) /\ Cardinality(Held) < MaxNum
<1> DEFINE W == {u \in Tid : pc[u] \in Placed}
           H == {u \in Tid : job[u] # Null}
<1>1. IsFiniteSet(W) /\ Cardinality(W) <= MaxNum
  BY WorkersFit
<1>2. t \in W /\ H \subseteq W \ {t}
  <2>1. ~Crashed
    BY DEF OwnedInv, JobInv
  <2> QED
    BY <2>1 DEF OwnedInv, JobInv, Placed
<1>3. IsFiniteSet(W \ {t}) /\ Cardinality(W \ {t}) = Cardinality(W) - 1
  BY <1>1, <1>2, FS_RemoveElement
<1>4. IsFiniteSet(H) /\ Cardinality(H) <= Cardinality(W \ {t})
  BY <1>2, <1>3, FS_Subset
<1>5. IsFiniteSet(Held) /\ Cardinality(Held) <= Cardinality(H)
  <2> DEFINE f == [u \in H |-> job[u]]
  <2>1. f \in Surjection(H, Held)
    BY DEF Surjection, Held
  <2> QED
    BY <1>4, <2>1, FS_Surjection
<1>6. /\ Cardinality(W) \in Nat /\ Cardinality(W \ {t}) \in Nat
      /\ Cardinality(H) \in Nat /\ Cardinality(Held) \in Nat
  BY <1>1, <1>3, <1>4, <1>5, FS_CardinalityType
<1> QED
  BY <1>1, <1>3, <1>4, <1>5, <1>6, NumAssumption

\* Every step of the threads is a step of the abstract pool or invisible, as
\* long as the port is not open while a worker of an earlier pool is alive.
LEMMA PoolStep ==
  ASSUME OwnedInv, JobsConserved, JobsConserved', PortInv, outlived => ~bPort, [Next]_vars
  PROVE  [Promise!Next]_(Promise!vars)
<1> USE NullAssumption DEF Promise!vars
<1>1. StatusMeansPlace
  BY StatusIsPlace
<1>2. StatusMeansPlace'
  <2>1. (JobsConserved => StatusMeansPlace)'
    BY StatusIsPlace, PTL
  <2> QED
    BY <2>1
<1>3. /\ iocp \in Seq(Job) /\ job \in [Tid -> Job \cup {Null}]
      /\ \A m, n \in DOMAIN iocp : iocp[m] = iocp[n] => m = n
  BY DEF OwnedInv, TypeOK, JobTypes, WorkerTypes, JobsConserved
<1>4. CASE UNCHANGED <<bPort, iocp, job, done, dropped, lost>>
  BY <1>4, StatusFrame
<1>5. CASE InitSetup
  <2>1. ~bPort /\ iocp = <<>> /\ bPort' = TRUE /\ UNCHANGED <<iocp, job, done, dropped, lost>>
    BY <1>5 DEF InitSetup, OwnedInv, JobInv
  <2> QED
    BY <2>1, StatusFrame DEF Promise!Next, Promise!Open
<1>6. CASE FiniDrain
  <2>1. CASE UNCHANGED <<dropped, iocp>>
    BY <1>4, <1>6, <2>1 DEF FiniDrain
  <2>2. CASE iocp # <<>> /\ Drop(Head(iocp)) /\ iocp' = Tail(iocp)
    <3>1. /\ iocp' = Tail(iocp) /\ dropped' = dropped \cup {Head(iocp)}
          /\ UNCHANGED <<bPort, job, posted, done, lost>>
      BY <1>6, <2>2 DEF FiniDrain, Drop
    <3>2. Head(iocp) \in Queued /\ Queued' = Queued \ {Head(iocp)} /\ Held' = Held
      BY <1>3, <2>2, <3>1, QueueTail DEF Queued, Held
    <3>3. PICK j \in Job : j = Head(iocp)
      BY <1>3, <2>2
    <3>4. JobStatus' = [JobStatus EXCEPT ![j] = "dropped"]
      BY <1>1, <1>2, <3>1, <3>2, <3>3 DEF StatusMeansPlace
    <3>5. JobStatus[j] = "queued"
      BY <1>1, <3>2, <3>3 DEF StatusMeansPlace
    <3> QED
      BY <3>1, <3>4, <3>5 DEF Promise!Next, Promise!Drop
  <2> QED
    BY <1>6, <2>1, <2>2 DEF FiniDrain
<1>7. CASE FiniClose
  <2>1. /\ bPort /\ bPort' = FALSE /\ iocp' = <<>> /\ lost' = lost \cup Queued
        /\ UNCHANGED <<job, posted, done, dropped>>
    BY <1>7 DEF FiniClose, PortInv, InFini
  <2>2. Queued' = {} /\ Held' = Held
    BY <2>1 DEF Queued, Held
  <2>3. JobStatus' = [j \in Job |-> IF JobStatus[j] = "queued" THEN "lost" ELSE JobStatus[j]]
    BY <1>1, <1>2, <2>1, <2>2 DEF StatusMeansPlace
  <2> QED
    BY <2>1, <2>3 DEF Promise!Next, Promise!Close
<1>8. ASSUME NEW j \in Job, InputWork(j) PROVE [Promise!Next]_(Promise!vars)
  <2>1. /\ j \notin posted /\ posted' = posted \cup {j} /\ UNCHANGED <<bPort, job, done, dropped>>
        /\ IF bPort THEN iocp' = Append(iocp, j) /\ UNCHANGED lost
                    ELSE lost' = lost \cup {j} /\ UNCHANGED iocp
    BY <1>8 DEF InputWork
  <2>2. j \notin Queued /\ Held' = Held
    BY <2>1 DEF JobsConserved, Held
  <2>3. Queued' = IF bPort THEN Queued \cup {j} ELSE Queued
    BY <1>3, <2>1, <2>2, QueueAppend DEF Queued
  <2>4. JobStatus' = [JobStatus EXCEPT ![j] = IF bPort THEN "queued" ELSE "lost"]
    BY <1>1, <1>2, <2>1, <2>2, <2>3 DEF StatusMeansPlace
  <2>5. JobStatus[j] = "new"
    BY <1>1, <2>1 DEF StatusMeansPlace
  <2> QED
    BY <2>1, <2>4, <2>5 DEF Promise!Next, Promise!Post
<1>9. ASSUME NEW t \in Tid, WorkerDequeue(t) PROVE [Promise!Next]_(Promise!vars)
  <2>1. /\ bPort /\ pc[t] = "deq" /\ iocp # <<>> /\ iocp' = Tail(iocp)
        /\ job' = [job EXCEPT ![t] = Head(iocp)] /\ UNCHANGED <<bPort, jobVars>>
    BY <1>9 DEF WorkerDequeue
  <2>2. Head(iocp) \in Queued /\ Queued' = Queued \ {Head(iocp)}
    BY <1>3, <2>1, QueueTail DEF Queued
  <2>3. PICK j \in Job : j = Head(iocp)
    BY <1>3, <2>1
  <2>4. job[t] = Null
    <3>1. ~Crashed
      BY <2>1 DEF OwnedInv, JobInv
    <3> QED
      BY <2>1, <3>1 DEF OwnedInv, JobInv
  <2>5. Held' = Held \cup {j}
    BY <1>3, <2>1, <2>3, <2>4 DEF Held
  <2>6. JobStatus' = [JobStatus EXCEPT ![j] = "running"]
    BY <1>1, <1>2, <2>1, <2>2, <2>3, <2>5 DEF StatusMeansPlace
  <2>7. JobStatus[j] = "queued"
    BY <1>1, <2>2, <2>3 DEF StatusMeansPlace
  <2>8. Promise!In("running") = Held
    BY <1>1, <1>3 DEF Promise!In, StatusMeansPlace, Held
  <2>9. Cardinality(Promise!In("running")) < MaxNum
    BY <2>1, <2>8, RoomToRun
  <2>10. Promise!Cardinality(Held) = Cardinality(Held)
    BY DEF Cardinality, Promise!Cardinality
  <2>11. Promise!Start(j)
    BY <2>1, <2>6, <2>7, <2>8, <2>9, <2>10 DEF Promise!Start
  <2> QED
    BY <2>11 DEF Promise!Next
<1>10. ASSUME NEW t \in Tid, WorkerServe(t) PROVE [Promise!Next]_(Promise!vars)
  <2>1. /\ job' = [job EXCEPT ![t] = Null] /\ done' = done \cup {job[t]}
        /\ UNCHANGED <<bPort, iocp, posted, dropped, lost>>
    BY <1>10 DEF WorkerServe, LetGo
  <2>2. PICK j \in Job : j = job[t]
    BY <1>3, <1>10 DEF WorkerServe, OwnedInv, JobInv
  <2>3. j \in Held /\ Queued' = Queued
    BY <2>1, <2>2 DEF Held, Queued
  <2>4. Held' = Held \ {j}
    BY <1>3, <2>1, <2>2 DEF Held, JobsConserved
  <2>5. JobStatus' = [JobStatus EXCEPT ![j] = "done"]
    BY <1>1, <1>2, <2>1, <2>2, <2>3, <2>4 DEF StatusMeansPlace
  <2>6. JobStatus[j] = "running"
    BY <1>1, <2>3 DEF StatusMeansPlace
  <2> QED
    BY <2>1, <2>5, <2>6 DEF Promise!Next, Promise!Finish
<1>11. CASE InitFails \/ FiniCall \/ InitCreate \/ InitStore \/ InitReturns \/ FiniScan
              \/ FiniWait \/ FiniStop \/ FiniJoin \/ FiniFree
  BY <1>4, <1>11 DEF InitFails, FiniCall, InitCreate, InitStore, InitReturns,
     FiniScan,
     FiniWait, FiniStop, FiniJoin, FiniFree
<1>12. CASE Manger
  BY <1>4, <1>12 DEF Manger, MangerCheck, MangerEvent, MangerCount,
     MangerDecide,
     AddThread, AddThreadStore, DeleteThread
<1>13. ASSUME NEW t \in Tid, Worker(t), ~WorkerDequeue(t), ~WorkerServe(t)
       PROVE  [Promise!Next]_(Promise!vars)
  BY <1>4, <1>13 DEF Worker, WorkerStart, WorkerLoop, WorkerTimeout,
     WorkerMark, WorkerUnmark, WorkerClose, WorkerClear, WorkerCrash
<1>14. CASE UNCHANGED vars
  BY <1>4, <1>14 DEF vars
<1> QED
  BY <1>5, <1>6, <1>7, <1>8, <1>9, <1>10, <1>11, <1>12, <1>13, <1>14
     DEF Next, ClientCall, ClientStep

\* In the initial state every job is new and the port is closed.
LEMMA PoolInit == Init => Promise!Init /\ PortInv
<1> SUFFICES ASSUME Init PROVE Promise!Init /\ PortInv
  OBVIOUS
<1>1. Queued = {} /\ Held = {} /\ done = {} /\ dropped = {} /\ lost = {}
  BY DEF Init, Queued, Held
<1> QED
  BY <1>1 DEF Init, Promise!Init, JobStatus, PortInv, InInit, InFini

\* However often the pool is started and finished, it implements the abstract
\* one as long as no worker outlives a pool and meets the next one's port, if
\* no job is posted while Init runs.
THEOREM RestartedPoolImplements ==
  ~EarlyPost => (Spec /\ [](outlived => ~bPort) => ImplementsJobPool)
<1> SUFFICES ASSUME ~EarlyPost PROVE Spec /\ [](outlived => ~bPort) => ImplementsJobPool
  OBVIOUS
<1>1. Init => Promise!Init /\ PortInv
  BY PoolInit
<1>2. PortInv /\ [Next]_vars => PortInv'
  BY PortStep
<1>3. OwnedInv /\ JobsConserved /\ JobsConserved' /\ PortInv /\ (outlived => ~bPort) /\ [Next]_vars
        => [Promise!Next]_(Promise!vars)
  BY PoolStep
<1> QED
  BY <1>1, <1>2, <1>3, OwnedInvariant, JobsAreConserved, PTL DEF Spec,
     ImplementsJobPool, Promise!Spec

\* The pool is started at most once: when a worker outlives it, it stays
\* closed.
SingleInv ==
    /\ cpc # "idle" \/ bIsInit => inits >= 1
    /\ outlived => inits >= 1 /\ cpc \in {"idle", "dead"} /\ ~bIsInit /\ ~bPort

\* Every step keeps it, if Init succeeds once.
LEMMA SingleStep ==
  ASSUME MaxInits = 1, TypeOK, JobInv, ArrayInv, SingleInv, [Next]_vars
  PROVE  SingleInv'
<1> USE DEF SingleInv
<1>1. inits \in Nat
  BY DEF TypeOK, CounterTypes
<1>2. CASE ClientCall
  <2>1. CASE InitSetup
    BY <1>1, <2>1 DEF InitSetup
  <2>2. CASE InitFails
    BY <2>2 DEF InitFails
  <2>3. CASE FiniCall
    BY <2>3 DEF FiniCall
  <2> QED
    BY <1>2, <2>1, <2>2, <2>3 DEF ClientCall
<1>3. CASE ClientStep
  BY <1>3 DEF ClientStep, InitCreate, InitStore, InitReturns, FiniScan,
     FiniWait, FiniStop,
     FiniJoin, FiniDrain, FiniClose, FiniFree, JobInv
<1>4. CASE UNCHANGED <<cpc, bIsInit, inits, outlived, bPort>>
  BY <1>4
<1>5. CASE Manger
  BY <1>4, <1>5 DEF Manger, MangerCheck, MangerEvent, MangerCount, MangerDecide,
     AddThread, AddThreadStore, DeleteThread
<1>6. ASSUME NEW t \in Tid, Worker(t) PROVE SingleInv'
  <2>1. CASE WorkerCrash(t)
    <3>1. outlived /\ cpc' = "dead" /\ UNCHANGED <<bIsInit, bPort, inits, outlived>>
      BY <2>1 DEF WorkerCrash, ArrayInv, Touching
    <3> QED
      BY <3>1
  <2>2. CASE ~WorkerCrash(t)
    BY <1>4, <1>6, <2>2 DEF Worker, WorkerStart, WorkerLoop, WorkerDequeue,
       WorkerTimeout,
       WorkerMark, WorkerServe, WorkerUnmark, WorkerClose, WorkerClear
  <2> QED
    BY <2>1, <2>2
<1> QED
  BY <1>2, <1>3, <1>4, <1>5, <1>6 DEF Next, InputWork, vars

\* A pool that is started once implements the abstract pool of jobs, for any
\* number of slots, workers and jobs.
THEOREM PoolImplementsJobPool ==
  ~EarlyPost /\ MaxInits = 1 => (Spec => ImplementsJobPool)
<1> SUFFICES ASSUME ~EarlyPost, MaxInits = 1 PROVE Spec => ImplementsJobPool
  OBVIOUS
<1>1. Init => SingleInv
  BY DEF Init, SingleInv
<1>2. OwnedInv /\ SingleInv /\ [Next]_vars => SingleInv'
  BY SingleStep DEF OwnedInv
<1>3. SingleInv => (outlived => ~bPort)
  BY DEF SingleInv
<1> QED
  BY <1>1, <1>2, <1>3, OwnedInvariant, RestartedPoolImplements, PTL DEF Spec

=============================================================================
