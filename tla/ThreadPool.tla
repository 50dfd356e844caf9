----------------------------- MODULE ThreadPool -----------------------------
(***************************************************************************)
(* CThreadPool (ThreadPool.h, ThreadPool.cpp): a client thread that calls  *)
(* Init and Fini, the manager thread that grows and shrinks the pool, the  *)
(* worker threads, and the threads that post jobs with InputWork.  They    *)
(* share the array of slots m_pstWorkThdInfo, which no lock protects, and  *)
(* the I/O completion port m_hWorkIocp, which is the job queue.            *)
(*                                                                         *)
(* A step reads or writes one slot, one port or one flag: every            *)
(* interleaving of the unlocked accesses is a behaviour.                   *)
(***************************************************************************)
EXTENDS Integers, Sequences, FiniteSets

CONSTANTS
    MaxNum,        \* iMaxNum, the size of the slot array
    InitialNum,    \* iInitialNum, the workers that Init starts
    Tid,           \* identifiers of the worker threads
    Job,           \* a job is one pair (pWork, pWorkData) given to InputWork
    Null,          \* NULL handle, thread id 0, no job
    EarlyPost,     \* may another thread call InputWork while Init is running?
    MaxInits,      \* bound on the calls of Init that succeed
    MaxFail        \* bound on the resource failures (threads, ports, events)

ASSUME NumAssumption ==
    /\ MaxNum \in Nat \ {0}
    /\ InitialNum \in 0 .. MaxNum
    /\ MaxInits \in Nat
    /\ MaxFail \in Nat
ASSUME NullAssumption == Null \notin Tid \cup Job
ASSUME EarlyPostAssumption == EarlyPost \in BOOLEAN

Slot == 0 .. MaxNum - 1

VARIABLES
    bIsInit,        \* m_bIsInit
    bMangerIsExit,  \* m_bMangerIsExit
    bExitEvent,     \* is the auto-reset event m_hMangerExitEvent signalled?
    bArray,         \* is m_pstWorkThdInfo allocated (not NULL)?
    bPort,          \* is m_hWorkIocp open?
    iocp,           \* packets queued on m_hWorkIocp, first in first out
    hHandle, iThreadId, bIsBuy, bIsExit,   \* the fields of the slots
    cpc, ci, cNew,  \* client: control, loop index, thread just created
    mpc, mi, mTotal, mBusy, mNew,   \* manager: control, index, counts, new thread
    pc, idx, job,   \* workers: control, iIndex, job in hand
    posted,         \* jobs given to InputWork
    done,           \* jobs run, and their data deleted, by a worker
    dropped,        \* jobs whose data Fini deleted, unrun
    lost,           \* jobs nobody holds any more, their data never deleted
    inits, fails,   \* counters for MaxInits and MaxFail
    outlived        \* history: did a worker outlive its slot array?

slotVars   == <<hHandle, iThreadId, bIsBuy, bIsExit>>
poolVars   == <<bIsInit, bMangerIsExit, bExitEvent, bArray>>
clientVars == <<cpc, ci, cNew>>
mangerVars == <<mpc, mi, mTotal, mBusy, mNew>>
workerVars == <<pc, idx, job>>
queueVars  == <<bPort, iocp>>
jobVars    == <<posted, done, dropped, lost>>
auxVars    == <<inits, fails, outlived>>
\* What the steps of Fini, of the manager and of a worker leave alone.
finiRest   == <<cNew, mangerVars, workerVars, posted, done, inits, fails>>
mangerRest == <<bIsInit, bMangerIsExit, bArray, clientVars, bIsBuy, idx, job,
                queueVars, jobVars, inits, outlived>>
workerRest == <<poolVars, clientVars, mangerVars, auxVars>>
vars == <<slotVars, poolVars, clientVars, mangerVars, workerVars, queueVars,
          jobVars, auxVars>>

-----------------------------------------------------------------------------
(* Sets of control points. *)

ClientPc == {"idle", "create", "store",
             "scan", "wait", "stop", "join", "drain", "close", "free",
             "dead"}    \* the process was terminated by the system
MangerPc == {"none", "check", "event", "count", "add", "store", "del", "done"}
\* A worker that knows its slot.
Placed   == {"loop", "deq", "mark", "serve", "unmark", "close", "clear"}
WorkerPc == {"none", "start"} \cup Placed
\* Where a worker reads or writes m_pstWorkThdInfo.
Touching == {"start", "loop", "mark", "unmark", "close", "clear"}

InInit == cpc \in {"create", "store"}
Crashed == cpc = "dead"
InFini == cpc \in {"scan", "wait", "stop", "join", "drain", "close", "free"}

\* The packets on the port.
Queued == {iocp[n] : n \in DOMAIN iocp}

-----------------------------------------------------------------------------
Init ==
    /\ bIsInit = FALSE /\ bMangerIsExit = FALSE /\ bExitEvent = FALSE
    /\ bArray = FALSE /\ bPort = FALSE /\ iocp = <<>>
    /\ hHandle = [i \in Slot |-> Null] /\ iThreadId = [i \in Slot |-> Null]
    /\ bIsBuy = [i \in Slot |-> FALSE] /\ bIsExit = [i \in Slot |-> FALSE]
    /\ cpc = "idle" /\ ci = 0 /\ cNew = Null
    /\ mpc = "none" /\ mi = 0 /\ mTotal = 0 /\ mBusy = 0 /\ mNew = Null
    /\ pc = [t \in Tid |-> "none"] /\ idx = [t \in Tid |-> 0]
    /\ job = [t \in Tid |-> Null]
    /\ posted = {} /\ done = {} /\ dropped = {} /\ lost = {}
    /\ inits = 0 /\ fails = 0 /\ outlived = FALSE

-----------------------------------------------------------------------------
(* _beginthreadex.  The system stores the identifier before the new thread *)
(* runs; the caller stores the handle it returns afterwards.  Windows does *)
(* not reuse the identifier of a thread that runs or has an open handle.   *)

Unused == {t \in Tid : /\ pc[t] = "none"
                       /\ t \notin {cNew, mNew}
                       /\ \A i \in Slot : t \notin {hHandle[i], iThreadId[i]}}

BeginThread(i, t) ==
    /\ iThreadId' = [iThreadId EXCEPT ![i] = t]
    /\ pc' = [pc EXCEPT ![t] = "start"]
    /\ UNCHANGED fails

BeginThreadFails ==
    /\ fails < MaxFail \/ Unused = {}
    /\ fails' = IF fails < MaxFail THEN fails + 1 ELSE fails
    /\ UNCHANGED <<iThreadId, pc>>

\* Slot i gets a new worker, or none; new is what _beginthreadex returned.
StartWorker(i, new) ==
    \/ \E t \in Unused : BeginThread(i, t) /\ new = t
    \/ BeginThreadFails /\ new = Null

-----------------------------------------------------------------------------
(* The client: Init. *)

\* Everything up to the start of the manager; nobody sees a state between.
InitSetup ==
    /\ cpc = "idle" /\ ~bIsInit /\ inits < MaxInits
    /\ inits' = inits + 1
    /\ bArray' = TRUE /\ bPort' = TRUE /\ iocp' = <<>>
    /\ hHandle' = [i \in Slot |-> Null] /\ iThreadId' = [i \in Slot |-> Null]
    /\ bIsBuy' = [i \in Slot |-> FALSE] /\ bIsExit' = [i \in Slot |-> FALSE]
    /\ bExitEvent' = FALSE /\ bMangerIsExit' = FALSE
    /\ mpc' = "check"
    /\ cpc' = "create" /\ ci' = 0
    /\ UNCHANGED <<bIsInit, cNew, mi, mTotal, mBusy, mNew, workerVars, jobVars,
                   fails, outlived>>

\* The array, a port, the event or the manager's thread cannot be had: Init
\* releases what it took and returns -1.
InitFails ==
    /\ cpc = "idle" /\ ~bIsInit /\ inits < MaxInits /\ fails < MaxFail
    /\ fails' = fails + 1
    /\ bMangerIsExit' \in {bMangerIsExit, FALSE}
    /\ UNCHANGED <<slotVars, bIsInit, bExitEvent, bArray, clientVars, mangerVars,
                   workerVars, queueVars, jobVars, inits, outlived>>

InitCreate ==
    /\ cpc = "create" /\ ci < InitialNum
    /\ StartWorker(ci, cNew')
    /\ cpc' = "store"
    /\ UNCHANGED <<hHandle, bIsBuy, bIsExit, poolVars, ci, mangerVars, idx, job,
                   queueVars, jobVars, inits, outlived>>

InitStore ==
    /\ cpc = "store"
    /\ hHandle' = [hHandle EXCEPT ![ci] = cNew]
    /\ cNew' = Null /\ ci' = ci + 1 /\ cpc' = "create"
    /\ UNCHANGED <<iThreadId, bIsBuy, bIsExit, poolVars, mangerVars, workerVars,
                   queueVars, jobVars, auxVars>>

InitReturns ==
    /\ cpc = "create" /\ ci = InitialNum
    /\ bIsInit' = TRUE
    /\ cpc' = "idle" /\ ci' = 0
    /\ UNCHANGED <<slotVars, bMangerIsExit, bExitEvent, bArray, cNew, mangerVars,
                   workerVars, queueVars, jobVars, auxVars>>

-----------------------------------------------------------------------------
(* The client: Fini. *)

FiniCall ==
    /\ cpc = "idle" /\ bIsInit
    /\ cpc' = "scan" /\ ci' = 0
    /\ UNCHANGED <<finiRest, slotVars, poolVars, queueVars, dropped, lost,
                   outlived>>

\* The for loop: a slot in use is told to exit and waited for, an empty one
\* is passed over.
FiniScan ==
    /\ cpc = "scan"
    /\ \/ /\ ci < MaxNum /\ iThreadId[ci] # Null
          /\ bIsExit' = [bIsExit EXCEPT ![ci] = TRUE]
          /\ cpc' = "wait" /\ UNCHANGED ci
       \/ /\ ci < MaxNum /\ iThreadId[ci] = Null
          /\ ci' = ci + 1 /\ UNCHANGED <<cpc, bIsExit>>
       \/ /\ ci = MaxNum
          /\ cpc' = "stop" /\ ci' = 0 /\ UNCHANGED bIsExit
    /\ UNCHANGED <<finiRest, hHandle, iThreadId, bIsBuy, poolVars, queueVars,
                   dropped, lost, outlived>>

\* The polling loop on hHandle; a poll that finds a handle changes nothing.
FiniWait ==
    /\ cpc = "wait" /\ hHandle[ci] = Null
    /\ cpc' = "scan" /\ ci' = ci + 1
    /\ UNCHANGED <<finiRest, slotVars, poolVars, queueVars, dropped, lost,
                   outlived>>

TellMangerNothing == UNCHANGED <<bMangerIsExit, bExitEvent>>    \* mutant
TellManger == bMangerIsExit' = TRUE /\ bExitEvent' = TRUE

FiniStop ==
    /\ cpc = "stop"
    /\ TellManger
    /\ cpc' = "join"
    /\ UNCHANGED <<finiRest, slotVars, bIsInit, bArray, ci, queueVars, dropped,
                   lost, outlived>>

FiniJoin ==
    /\ cpc = "join" /\ mpc = "done"
    /\ bExitEvent' = FALSE
    /\ cpc' = "drain"
    /\ UNCHANGED <<finiRest, slotVars, bIsInit, bMangerIsExit, bArray, ci,
                   queueVars, dropped, lost, outlived>>

DropForgets(j) == UNCHANGED dropped    \* mutant: the data is not deleted
Drop(j) == dropped' = dropped \cup {j}

\* Delete the data of the jobs still queued, until a wait times out: the port
\* stays empty, or it holds its packets back as in WorkerTimeout below.
FiniDrain ==
    /\ cpc = "drain"
    /\ \/ /\ iocp # <<>>
          /\ Drop(Head(iocp))
          /\ iocp' = Tail(iocp)
          /\ UNCHANGED cpc
       \/ /\ iocp = <<>> \/ \E t \in Tid : job[t] # Null
          /\ cpc' = "close" /\ UNCHANGED <<dropped, iocp>>
    /\ UNCHANGED <<finiRest, slotVars, poolVars, ci, bPort, lost, outlived>>

\* Closing the port discards the packets posted since the drain or left by it.
FiniClose ==
    /\ cpc = "close"
    /\ bPort' = FALSE /\ iocp' = <<>> /\ lost' = lost \cup Queued
    /\ cpc' = "free"
    /\ UNCHANGED <<finiRest, slotVars, poolVars, ci, dropped, outlived>>

FiniFree ==
    /\ cpc = "free"
    /\ bArray' = FALSE /\ bIsInit' = FALSE
    /\ hHandle' = [i \in Slot |-> Null] /\ iThreadId' = [i \in Slot |-> Null]
    /\ bIsBuy' = [i \in Slot |-> FALSE] /\ bIsExit' = [i \in Slot |-> FALSE]
    /\ outlived' = (outlived \/ \E t \in Tid : pc[t] # "none")
    /\ cpc' = "idle"
    /\ UNCHANGED <<finiRest, bMangerIsExit, bExitEvent, ci, queueVars, dropped,
                   lost>>

-----------------------------------------------------------------------------
(* InputWork, called by any thread: nothing checks that the pool is up. *)

InputWork(j) ==
    /\ j \notin posted /\ cpc # "dead"
    /\ EarlyPost \/ ~InInit
    /\ posted' = posted \cup {j}
    /\ IF bPort THEN iocp' = Append(iocp, j) /\ UNCHANGED lost
                ELSE lost' = lost \cup {j} /\ UNCHANGED iocp
    /\ UNCHANGED <<slotVars, poolVars, clientVars, mangerVars, workerVars, bPort,
                   done, dropped, auxVars>>

-----------------------------------------------------------------------------
(* The manager.  Nothing is ever posted to m_hMangerIocp, so the wait on   *)
(* it always times out and the pool is inspected.                          *)

MangerCheck ==
    /\ mpc = "check"
    /\ mpc' = IF bMangerIsExit THEN "done" ELSE "event"
    /\ UNCHANGED <<mangerRest, hHandle, iThreadId, bIsExit, bExitEvent, mi,
                   mTotal, mBusy, mNew, pc, fails>>

MangerEvent ==
    /\ mpc = "event"
    /\ mpc' = IF bExitEvent THEN "done" ELSE "count"
    /\ bExitEvent' = FALSE
    /\ UNCHANGED <<mangerRest, hHandle, iThreadId, bIsExit, mi, mTotal, mBusy,
                   mNew, pc, fails>>

\* GetThreadPoolStatus counts slot by slot, while the workers go on.
MangerCount ==
    /\ mpc = "count" /\ mi < MaxNum
    /\ mi' = mi + 1
    /\ mTotal' = IF iThreadId[mi] # Null THEN mTotal + 1 ELSE mTotal
    /\ mBusy' = IF iThreadId[mi] # Null /\ bIsBuy[mi] THEN mBusy + 1 ELSE mBusy
    /\ UNCHANGED <<mangerRest, hHandle, iThreadId, bIsExit, bExitEvent, mpc,
                   mNew, pc, fails>>

\* busy / total against 0.8 and 0.2; with no worker the quotient is not a
\* number and neither comparison holds.
PoolBusy == 5 * mBusy > 4 * mTotal
PoolIdle == 5 * mBusy < mTotal

MangerDecide ==
    /\ mpc = "count" /\ mi = MaxNum
    /\ \/ PoolBusy /\ mpc' = "add" /\ mi' = 0
       \/ PoolIdle /\ mpc' = "del" /\ mi' = MaxNum - 1
       \/ ~PoolBusy /\ ~PoolIdle /\ mpc' = "check" /\ mi' = 0
    /\ mTotal' = 0 /\ mBusy' = 0
    /\ UNCHANGED <<mangerRest, hHandle, iThreadId, bIsExit, bExitEvent, mNew,
                   pc, fails>>

IsFreeUnread(i) == TRUE    \* mutant: iThreadId is not looked at
IsFree(i) == iThreadId[i] = Null

\* AddThread: the first slot found empty gets a worker.  The slot's bIsExit
\* stays as its last worker left it.
AddThread ==
    /\ mpc = "add"
    /\ \/ /\ mi < MaxNum /\ IsFree(mi)
          /\ StartWorker(mi, mNew')
          /\ mpc' = "store" /\ UNCHANGED mi
       \/ /\ mi < MaxNum /\ ~IsFree(mi)
          /\ mi' = mi + 1 /\ UNCHANGED <<mpc, mNew, iThreadId, pc, fails>>
       \/ /\ mi = MaxNum
          /\ mpc' = "check" /\ mi' = 0 /\ UNCHANGED <<mNew, iThreadId, pc, fails>>
    /\ UNCHANGED <<mangerRest, hHandle, bIsExit, bExitEvent, mTotal, mBusy>>

AddThreadStore ==
    /\ mpc = "store"
    /\ hHandle' = [hHandle EXCEPT ![mi] = mNew]
    /\ mNew' = Null /\ mpc' = "check" /\ mi' = 0
    /\ UNCHANGED <<mangerRest, iThreadId, bIsExit, bExitEvent, mTotal, mBusy,
                   pc, fails>>

\* DeleteThread: every worker above the first InitialNum is told to exit.
FirstElasticNone == 0    \* mutant: the loop runs down to the first slot
FirstElastic == InitialNum
DeleteThread ==
    /\ mpc = "del"
    /\ \/ /\ mi >= FirstElastic
          /\ bIsExit' = [bIsExit EXCEPT ![mi] = @ \/ iThreadId[mi] # Null]
          /\ mi' = mi - 1 /\ UNCHANGED mpc
       \/ /\ mi < FirstElastic
          /\ mpc' = "check" /\ mi' = 0 /\ UNCHANGED bIsExit
    /\ UNCHANGED <<mangerRest, hHandle, iThreadId, bExitEvent, mTotal, mBusy,
                   mNew, pc, fails>>

-----------------------------------------------------------------------------
(* The workers. *)

\* GetIndexByThreadId: the first slot with the thread's own identifier.
IndexBelow(t) == {i - 1 : i \in {k \in Slot : iThreadId[k] = t}}    \* mutant
Index(t) == {i \in Slot : iThreadId[i] = t /\ \A k \in 0 .. i - 1 : iThreadId[k] # t}

\* A thread that finds no slot returns at once.
WorkerStart(t) ==
    /\ pc[t] = "start" /\ bArray
    /\ \/ /\ idx' \in {[idx EXCEPT ![t] = i] : i \in Index(t)}
          /\ pc' = [pc EXCEPT ![t] = "loop"]
       \/ /\ Index(t) = {} /\ UNCHANGED idx
          /\ pc' = [pc EXCEPT ![t] = "none"]
    /\ UNCHANGED <<workerRest, slotVars, job, queueVars, jobVars>>

WorkerLoop(t) ==
    /\ pc[t] = "loop" /\ bArray
    /\ pc' = [pc EXCEPT ![t] = IF bIsExit[idx[t]] THEN "close" ELSE "deq"]
    /\ UNCHANGED <<workerRest, slotVars, idx, job, queueVars, jobVars>>

WorkerDequeue(t) ==
    /\ pc[t] = "deq" /\ bPort /\ iocp # <<>>
    /\ job' = [job EXCEPT ![t] = Head(iocp)]
    /\ iocp' = Tail(iocp)
    /\ pc' = [pc EXCEPT ![t] = "mark"]
    /\ UNCHANGED <<workerRest, slotVars, idx, bPort, jobVars>>

\* The wait times out when nothing is queued, or while the port holds its
\* packets back because enough of its threads are running; it fails at once
\* when the port is closed.
WorkerTimeout(t) ==
    /\ pc[t] = "deq"
    /\ ~bPort \/ iocp = <<>> \/ \E u \in Tid \ {t} : job[u] # Null
    /\ pc' = [pc EXCEPT ![t] = "loop"]
    /\ UNCHANGED <<workerRest, slotVars, idx, job, queueVars, jobVars>>

SetBusySticky(i, b) == bIsBuy' = [bIsBuy EXCEPT ![i] = @ \/ b]    \* mutant
SetBusy(i, b) == bIsBuy' = [bIsBuy EXCEPT ![i] = b]

WorkerMark(t) ==
    /\ pc[t] = "mark" /\ bArray
    /\ SetBusy(idx[t], TRUE)
    /\ pc' = [pc EXCEPT ![t] = "serve"]
    /\ UNCHANGED <<workerRest, hHandle, iThreadId, bIsExit, idx, job, queueVars, jobVars>>

LetGoNever(t) == UNCHANGED job    \* mutant: pWorkData is deleted and kept
LetGo(t) == job' = [job EXCEPT ![t] = Null]

\* ProcessJob returns and the job's data is deleted.
WorkerServe(t) ==
    /\ pc[t] = "serve"
    /\ done' = done \cup {job[t]}
    /\ LetGo(t)
    /\ pc' = [pc EXCEPT ![t] = "unmark"]
    /\ UNCHANGED <<workerRest, slotVars, idx, queueVars, posted, dropped, lost>>

WorkerUnmark(t) ==
    /\ pc[t] = "unmark" /\ bArray
    /\ SetBusy(idx[t], FALSE)
    /\ pc' = [pc EXCEPT ![t] = "loop"]
    /\ UNCHANGED <<workerRest, hHandle, iThreadId, bIsExit, idx, job, queueVars, jobVars>>

WorkerClose(t) ==
    /\ pc[t] = "close" /\ bArray
    /\ hHandle' = [hHandle EXCEPT ![idx[t]] = Null]
    /\ pc' = [pc EXCEPT ![t] = "clear"]
    /\ UNCHANGED <<workerRest, iThreadId, bIsBuy, bIsExit, idx, job, queueVars, jobVars>>

VacateNever(i) == UNCHANGED iThreadId    \* mutant: iThreadId is not reset
Vacate(i) == iThreadId' = [iThreadId EXCEPT ![i] = Null]

WorkerClear(t) ==
    /\ pc[t] = "clear" /\ bArray
    /\ Vacate(idx[t])
    /\ pc' = [pc EXCEPT ![t] = "none"] /\ idx' = [idx EXCEPT ![t] = 0]
    /\ UNCHANGED <<workerRest, hHandle, bIsBuy, bIsExit, job, queueVars, jobVars>>

\* m_pstWorkThdInfo is NULL when the worker comes to it: the access violation
\* ends the process and every thread of it.
WorkerCrash(t) ==
    /\ pc[t] \in Touching /\ ~bArray
    /\ cpc' = "dead" /\ mpc' = "none" /\ pc' = [u \in Tid |-> "none"]
    /\ UNCHANGED <<slotVars, poolVars, ci, cNew, mi, mTotal, mBusy, mNew, idx, job,
                   queueVars, jobVars, auxVars>>

-----------------------------------------------------------------------------
\* A call of Init or Fini under way: the client owes its next step.
ClientStep ==
    \/ InitCreate \/ InitStore \/ InitReturns
    \/ FiniScan \/ FiniWait \/ FiniStop \/ FiniJoin
    \/ FiniDrain \/ FiniClose \/ FiniFree

ClientCall == InitSetup \/ InitFails \/ FiniCall

Manger ==
    \/ MangerCheck \/ MangerEvent \/ MangerCount \/ MangerDecide
    \/ AddThread \/ AddThreadStore \/ DeleteThread

Worker(t) ==
    \/ WorkerStart(t) \/ WorkerLoop(t) \/ WorkerDequeue(t) \/ WorkerTimeout(t)
    \/ WorkerMark(t) \/ WorkerServe(t) \/ WorkerUnmark(t)
    \/ WorkerClose(t) \/ WorkerClear(t) \/ WorkerCrash(t)

Next ==
    \/ ClientCall
    \/ ClientStep
    \/ \E j \in Job : InputWork(j)
    \/ Manger
    \/ \E t \in Tid : Worker(t)

Spec == Init /\ [][Next]_vars

\* The threads that run keep running, and ProcessJob returns.  Nothing makes
\* a client call Init, Fini or InputWork.
Fairness ==
    /\ WF_vars(ClientStep)
    /\ WF_vars(Manger)
    /\ \A t \in Tid : WF_vars(Worker(t))

FairSpec == Spec /\ Fairness
-----------------------------------------------------------------------------
(* Properties. *)

PoolTypes ==
    /\ bIsInit \in BOOLEAN /\ bMangerIsExit \in BOOLEAN /\ bExitEvent \in BOOLEAN
    /\ bArray \in BOOLEAN /\ bPort \in BOOLEAN /\ outlived \in BOOLEAN
SlotTypes ==
    /\ hHandle \in [Slot -> Tid \cup {Null}]
    /\ iThreadId \in [Slot -> Tid \cup {Null}]
    /\ bIsBuy \in [Slot -> BOOLEAN] /\ bIsExit \in [Slot -> BOOLEAN]
ClientTypes == cpc \in ClientPc /\ ci \in 0 .. MaxNum /\ cNew \in Tid \cup {Null}
MangerTypes ==
    /\ mpc \in MangerPc /\ mi \in -1 .. MaxNum
    /\ mTotal \in Nat /\ mBusy \in Nat /\ mNew \in Tid \cup {Null}
WorkerTypes ==
    /\ pc \in [Tid -> WorkerPc] /\ idx \in [Tid -> Slot]
    /\ job \in [Tid -> Job \cup {Null}]
JobTypes ==
    /\ iocp \in Seq(Job)
    /\ posted \subseteq Job /\ done \subseteq Job
    /\ dropped \subseteq Job /\ lost \subseteq Job
CounterTypes == inits \in Nat /\ fails \in Nat

\* The type of every variable of the pool.
TypeOK ==
    /\ PoolTypes /\ SlotTypes /\ ClientTypes /\ MangerTypes
    /\ WorkerTypes /\ JobTypes /\ CounterTypes

Held == {job[t] : t \in Tid} \ {Null}

\* Every job given to InputWork is in exactly one place: queued once, in the
\* hands of one worker, done, dropped by Fini or lost.  So ProcessJob runs at
\* most once on a job, its data is deleted at most once, by the worker
\* (ThreadPool.cpp:258) or by Fini (ThreadPool.cpp:153), and no job vanishes,
\* whatever workers are retired, added or still alive after Fini.
JobsConserved ==
    /\ \A m, n \in DOMAIN iocp : iocp[m] = iocp[n] => m = n
    /\ \A t, u \in Tid : job[t] # Null /\ job[t] = job[u] => t = u
    /\ Queued \cap Held = {} /\ (Queued \cup Held) \cap (done \cup dropped \cup lost) = {}
    /\ done \cap dropped = {} /\ done \cap lost = {} /\ dropped \cap lost = {}
    /\ posted = Queued \cup Held \cup done \cup dropped \cup lost

\* Two workers never work from one slot, and the slot a worker remembers
\* from GetIndexByThreadId still carries its identifier, although the array
\* has no lock and AddThread refills slots while others are being left.
SlotOwned ==
    ~outlived => \A t \in Tid : pc[t] \in Placed =>
        /\ iThreadId[idx[t]] = t
        /\ \A u \in Tid \ {t} : pc[u] \in Placed => idx[u] # idx[t]

\* No more than iMaxNum workers are at work: "iMaxNum" is documented as the
\* largest number of threads (ThreadPool.h:60).
WithinMaxNum ==
    ~outlived => Cardinality({t \in Tid : pc[t] \in Placed}) <= MaxNum

\* A worker counted as busy is serving a job, and one that serves is counted:
\* what GetThreadPoolStatus reads of a slot is true when it reads it, also of
\* a slot whose last worker was retired in the middle of a burst.
BusyMeansServing ==
    ~outlived =>
        /\ \A i \in Slot : bIsBuy[i] =>
              \E t \in Tid : idx[t] = i /\ pc[t] \in {"serve", "unmark"}
        /\ \A t \in Tid : pc[t] = "serve" => bIsBuy[idx[t]]

\* Between Init and Fini the first iInitialNum workers are at work (none was
\* refused by the system) and none of them is ever told to exit, however
\* often the manager finds the pool idle.
CoreWorkersStay ==
    (~outlived /\ fails = 0 /\ bIsInit /\ ~InFini) =>
        \A i \in 0 .. InitialNum - 1 :
            ~bIsExit[i] /\ iThreadId[i] # Null /\ pc[iThreadId[i]] \notin {"none", "close", "clear"}

\* A queued job is served in the end, unless the client calls Fini: the
\* manager never retires so many workers that the queue is left alone.
JobsServed == \A j \in Job : j \in Queued ~> (j \in done \/ InFini)

\* A worker told to exit leaves its slot, so that a later AddThread can use
\* it, also when the word comes in the middle of a job.
RetiredLeave ==
    \A i \in Slot : (bArray /\ bIsExit[i]) ~> (iThreadId[i] = Null \/ Crashed)

\* Once the workers are dealt with, Fini returns: the manager sees the flag
\* or the event wherever it is in its loop, and the drain comes to an end.
FiniEnds == cpc = "stop" ~> (cpc = "idle" \/ Crashed)

\* Fini returns.  ThreadPool.h:65-69 promises no less of it; a slot that
\* keeps the handle of a dead thread makes it poll for ever.
FiniReturns == InFini ~> ~InFini

-----------------------------------------------------------------------------
(* The abstract pool of jobs that this one implements. *)

JobStatus == [j \in Job |->
    CASE j \in Queued  -> "queued"
      [] j \in Held    -> "running"
      [] j \in done    -> "done"
      [] j \in dropped -> "dropped"
      [] j \in lost    -> "lost"
      [] OTHER         -> "new"]

Promise == INSTANCE JobPool WITH Limit <- MaxNum, open <- bPort, status <- JobStatus

\* With one Init and no early posts, every step of the threads is a step of
\* the abstract pool or invisible to the callers of InputWork: a job is run
\* once, never given up once a worker has it, dropped or lost only by Fini,
\* and at most iMaxNum jobs run at a time.
ImplementsJobPool == Promise!Spec
=============================================================================
