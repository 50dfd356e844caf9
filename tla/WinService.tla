----------------------------- MODULE WinService -----------------------------
(***************************************************************************)
(* The service functions of CWinApiWrap (WinApiWrap.h, WinApiWrap.cpp):    *)
(* ServiceControl, StopService and GetServiceStatus ask the service        *)
(* control manager for the state of a service and then act on the answer,  *)
(* while the services, other programs and other threads change it.  One    *)
(* thread calls; what a second one does is what any other program does.    *)
(***************************************************************************)
EXTENDS Naturals, SequencesExt

CONSTANTS
    Svc,    \* the services
    Null,   \* no service
    Lists   \* the lists of services passed to StopService

ASSUME NullAssumption == Null \notin Svc
ASSUME ListsAssumption == Lists \subseteq Seq(Svc)

VARIABLES
    state,      \* each service: its state, or "absent" while not installed
    handles,    \* the services this process has a handle of, see Open
    pc,         \* the call: control
    svr,        \* the service that ServiceControl was called for
    bRun,       \* the argument of ServiceControl
    ret,        \* what the last call returned
    vctSvrList, \* the list of the last StopService
    it,         \* the entry that StopService or GetServiceStatus is at
    same        \* history: during a call, the services that have not changed

callVars == <<handles, pc, svr, bRun, ret, vctSvrList, it>>
vars == <<state, same, callVars>>

\* "paused" stands for the states on the way there and back as well.
States == {"absent", "stopped", "startPending", "running", "stopPending",
           "paused"}

\* SVR_INFO_ST
Entries == [strSvrName : Svc, iState : {"UNKNOW", "RUN", "STOP"}]

-----------------------------------------------------------------------------
Init ==
    /\ state \in [Svc -> {"absent", "stopped", "running"}]
    /\ handles = {}
    /\ pc = "idle" /\ svr = Null /\ bRun = FALSE /\ ret = "OK"
    /\ vctSvrList = <<>> /\ it = 1
    /\ same = {}

\* Only the state of s changes.
Becomes(s, v) ==
    /\ state' = [state EXCEPT ![s] = v]
    /\ same' = same \ {s}

-----------------------------------------------------------------------------
(* The services and their manager.  A service that is starting or stopping *)
(* gets somewhere; one that runs may end by itself at any time.            *)

Settle(s) ==
    /\ \/ state[s] = "startPending" /\ Becomes(s, "running")
       \/ state[s] \in {"startPending", "stopPending"} /\ Becomes(s, "stopped")
    /\ UNCHANGED callVars

End(s) ==
    /\ state[s] \in {"running", "paused"} /\ Becomes(s, "stopped")
    /\ UNCHANGED callVars

\* Others start, stop, pause, resume and install a service.  One that is
\* removed goes when the last handle of it is closed.
Others(s) ==
    /\ \/ state[s] = "stopped" /\ Becomes(s, "startPending")
       \/ state[s] \in {"running", "paused"} /\ Becomes(s, "stopPending")
       \/ state[s] = "running" /\ Becomes(s, "paused")
       \/ state[s] = "paused" /\ Becomes(s, "running")
       \/ state[s] = "absent" /\ Becomes(s, "stopped")
       \/ state[s] = "stopped" /\ s \notin handles /\ Becomes(s, "absent")
    /\ UNCHANGED callVars

\* The states in which the manager may accept a control; it may refuse any.
\* A service that is told to start or stop is starting or stopping then.
TellStop(s)  == state[s] \in {"running", "paused"} /\ Becomes(s, "stopPending")
TellStart(s) == state[s] = "stopped" /\ Becomes(s, "startPending")

-----------------------------------------------------------------------------
(* What the three functions share.  They close their handles if these are  *)
(* NULL: a service that was opened once stays open as long as the process. *)

Goto(l) == pc' = l /\ UNCHANGED <<svr, bRun, ret>>
Stay == UNCHANGED <<state, same>>
Return(r) ==
    /\ pc' = "idle" /\ ret' = r
    /\ svr' = Null /\ bRun' = FALSE /\ same' = {} /\ UNCHANGED state

Open(s) == state[s] # "absent" /\ handles' = handles \cup {s}

-----------------------------------------------------------------------------
(* ServiceControl *)

ServiceControl(s, b) ==
    /\ pc = "idle" /\ pc' = "open"
    /\ svr' = s /\ bRun' = b /\ same' = Svc
    /\ UNCHANGED <<state, handles, ret, vctSvrList, it>>

ControlOpen ==
    /\ pc = "open"
    /\ \/ Open(svr) /\ Goto("query") /\ Stay
       \/ Return("ERROR") /\ UNCHANGED handles
    /\ UNCHANGED <<vctSvrList, it>>

\* Mutant: the two conditions have exchanged their arguments.
AfterQuerySwapped(v) ==
    IF v = "running" /\ bRun THEN "tellStop"
    ELSE IF v = "stopped" /\ ~bRun THEN "tellStart" ELSE "idle"

\* A service that is neither running nor stopped is left alone.
AfterQuery(v) ==
    IF v = "running" /\ ~bRun THEN "tellStop"
    ELSE IF v = "stopped" /\ bRun THEN "tellStart" ELSE "idle"

ControlQuery ==
    /\ pc = "query"
    /\ \/ LET next == AfterQuery(state[svr])
          IN  IF next = "idle" THEN Return("OK") ELSE Goto(next) /\ Stay
       \/ Return("ERROR")
    /\ UNCHANGED <<handles, vctSvrList, it>>

ControlTell ==
    /\ \/ pc = "tellStop"  /\ TellStop(svr)  /\ Goto("waitStop")
       \/ pc = "tellStart" /\ TellStart(svr) /\ Goto("waitStart")
       \/ pc \in {"tellStop", "tellStart"} /\ Return("ERROR")
    /\ UNCHANGED <<handles, vctSvrList, it>>

\* Mutant: both loops wait for a service that runs.
AwaitedAlways == "running"
Awaited == IF pc = "waitStop" THEN "stopped" ELSE "running"

\* One turn of the loops; one that finds another state changes nothing.
ControlWait ==
    /\ pc \in {"waitStop", "waitStart"} /\ state[svr] = Awaited
    /\ Return("OK") /\ UNCHANGED <<handles, vctSvrList, it>>

\* A query that fails ends the loop as well, and the call succeeds.
ControlLost ==
    /\ pc \in {"waitStop", "waitStart"}
    /\ Return("OK") /\ UNCHANGED <<handles, vctSvrList, it>>

-----------------------------------------------------------------------------
(* GetServiceStatus, for an entry that StopService left in the list.       *)

GetServiceStatus(i) ==
    /\ pc = "idle" /\ i \in DOMAIN vctSvrList
    /\ pc' = "statusOpen" /\ it' = i /\ same' = Svc
    /\ UNCHANGED <<state, handles, svr, bRun, ret, vctSvrList>>

Name == vctSvrList[it].strSvrName
Mark(v) == vctSvrList' = [vctSvrList EXCEPT ![it].iState = v]

StatusOpen ==
    /\ pc = "statusOpen"
    /\ \/ Open(Name) /\ Goto("statusQuery") /\ Stay
       \/ Return("ERROR") /\ UNCHANGED handles
    /\ UNCHANGED <<vctSvrList, it>>

StatusQuery ==
    /\ pc = "statusQuery"
    /\ \/ state[Name] = "stopped" /\ Mark("STOP") /\ Return("OK")
       \/ state[Name] # "stopped" /\ Return("OK") /\ UNCHANGED vctSvrList
       \/ Return("ERROR") /\ UNCHANGED vctSvrList
    /\ UNCHANGED <<handles, it>>

-----------------------------------------------------------------------------
(* StopService.  An entry keeps the state that the caller gave it until    *)
(* the loop reaches it.                                                    *)

StopService(l) ==
    /\ pc = "idle"
    /\ \/ pc' = "stopOpen" /\ UNCHANGED ret
       \/ pc' = "idle" /\ ret' = "ERROR"
    /\ vctSvrList' = [i \in DOMAIN l |-> [strSvrName |-> l[i], iState |-> "UNKNOW"]]
    /\ it' = 1 /\ same' = IF pc' = "idle" THEN {} ELSE Svc
    /\ UNCHANGED <<state, handles, svr, bRun>>

\* Mutant: erase gives the entry behind, and the loop advances as well.
EraseSkips == vctSvrList' = RemoveAt(vctSvrList, it) /\ it' = it + 1
Erase == vctSvrList' = RemoveAt(vctSvrList, it) /\ UNCHANGED it

\* A service that cannot be opened, for whatever reason, leaves the list.
StopOpen ==
    /\ pc = "stopOpen" /\ it <= Len(vctSvrList) /\ Stay
    /\ \/ Open(Name) /\ Goto("stopQuery") /\ UNCHANGED <<vctSvrList, it>>
       \/ Erase /\ Goto("stopOpen") /\ UNCHANGED handles

Advance == it' = it + 1 /\ Goto("stopOpen")

\* Mutant: the error ends the loop, but the result is not set.
StopFailsOk == Return("OK") /\ UNCHANGED <<vctSvrList, it>>
StopFails == Return("ERROR") /\ UNCHANGED <<vctSvrList, it>>

StopQuery ==
    /\ pc = "stopQuery" /\ UNCHANGED handles
    /\ \/ /\ state[Name] = "running" /\ Goto("stopTell") /\ Stay
          /\ UNCHANGED <<vctSvrList, it>>
       \/ state[Name] # "running" /\ Mark("STOP") /\ Advance /\ Stay
       \/ StopFails

StopTell ==
    /\ pc = "stopTell" /\ UNCHANGED handles
    /\ \/ TellStop(Name) /\ Mark("RUN") /\ Advance
       \/ StopFails

StopReturns ==
    /\ pc = "stopOpen" /\ it > Len(vctSvrList) /\ Return("OK")
    /\ UNCHANGED <<handles, vctSvrList, it>>

-----------------------------------------------------------------------------
Run ==
    \/ ControlOpen \/ ControlQuery \/ ControlTell \/ ControlWait
    \/ StatusOpen \/ StatusQuery
    \/ StopOpen \/ StopQuery \/ StopTell \/ StopReturns

Next ==
    \/ \E s \in Svc : Settle(s) \/ End(s) \/ Others(s)
    \/ \E s \in Svc, b \in BOOLEAN : ServiceControl(s, b)
    \/ \E i \in DOMAIN vctSvrList : GetServiceStatus(i)
    \/ \E l \in Lists : StopService(l)
    \/ Run \/ ControlLost

Spec == Init /\ [][Next]_vars

\* The calling thread runs, and a service that is starting or stopping gets
\* somewhere.  Nobody need call, start or stop anything, no query need fail.
FairSpec == Spec /\ WF_vars(Run) /\ \A s \in Svc : WF_vars(Settle(s))

-----------------------------------------------------------------------------
(* Properties.                                                             *)

Controls == {"open", "query", "tellStop", "tellStart", "waitStop", "waitStart"}
Stops    == {"stopOpen", "stopQuery", "stopTell"}

\* The services, and those of them that this process has a handle of.
ServiceTypes ==
    /\ state \in [Svc -> States] /\ same \subseteq Svc
    /\ handles \subseteq {s \in Svc : state[s] # "absent"}

\* Where the call is, and the service that it is about.
CallTypes ==
    /\ pc \in {"idle", "statusOpen", "statusQuery"} \cup Controls \cup Stops
    /\ pc \in Controls => svr \in Svc
    /\ pc \in Controls \ {"open"} => svr \in handles
    /\ svr \in Svc \cup {Null} /\ ret \in {"OK", "ERROR"}

\* The list and the entry that the call is at.
ListTypes ==
    /\ vctSvrList \in Seq(Entries)
    /\ it \in 1 .. Len(vctSvrList) + 1
    /\ pc \in {"statusOpen", "statusQuery", "stopQuery", "stopTell"} =>
           it <= Len(vctSvrList)

\* The type invariant: the shape of each variable, a service in use is held,
\* and the iterator of StopService never passes the end of its list.
TypeOK == ServiceTypes /\ CallTypes /\ ListTypes /\ bRun \in BOOLEAN

Undisturbed(s, v) == s \in same /\ state[s] = v

\* ServiceControl does not answer DTK_OK about a service that has stood in the
\* opposite state all the time: whatever others do between the query, the
\* control and the loop, a running service that was to stop has at least left
\* that state, and a stopped one that was to run as well.
ControlHasEffect ==
    [][pc' = "idle" /\ ret' = "OK" /\ pc \in Controls =>
          ~Undisturbed(svr, IF bRun THEN "stopped" ELSE "running")]_vars

\* When StopService answers DTK_OK, every service that is still in the list
\* has been marked, and none of them has run undisturbed: erasing entries
\* under the iterator skips none, and an error on the way is never lost.
StopListHasEffect ==
    [][pc' = "idle" /\ ret' = "OK" /\ pc \in Stops =>
          \A i \in DOMAIN vctSvrList :
              /\ vctSvrList[i].iState # "UNKNOW"
              /\ ~Undisturbed(vctSvrList[i].strSvrName, "running")]_vars

\* The loop that waits for a service to stop ends, unless somebody starts the
\* service again while it sleeps.  The loop that waits for a start has no such
\* property: a service that fails to start stops, and the loop never ends.
StopWaitEnds == \A s \in Svc :
    (pc = "waitStop" /\ svr = s /\ state[s] \in {"stopPending", "stopped"})
        ~> (pc # "waitStop" \/ state[s] = "startPending")
=============================================================================
