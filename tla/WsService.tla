----------------------------- MODULE WsService -----------------------------
(***************************************************************************)
(* The web service: CWsService (WsService.h, WsService.cpp), whose Start   *)
(* creates a thread that binds a port and serves one request at a time,    *)
(* and CWsClient (WsClient.cpp), which calls it.  Stop only sets a flag,   *)
(* which the thread reads between two requests and, while the port cannot  *)
(* be bound, every second.  The object outlives its threads here: its      *)
(* owner must see to that, for neither Stop nor the destructor waits.      *)
(***************************************************************************)
EXTENDS Naturals, FiniteSets

CONSTANTS
    Svc,        \* the threads that calls of Start create
    Client,     \* the threads that call RemoteConfig
    Null,       \* no thread
    Backlog,    \* connections a socket keeps waiting, 100 in the code
    Seconds     \* seconds between two attempts to bind, 30 in the code

ASSUME NullAssumption == Null \notin Svc
ASSUME NumAssumption == Backlog \in Nat \ {0} /\ Seconds \in Nat \ {0}

VARIABLES
    m_bExit,    \* the flag that Stop sets and nothing resets
    pc,         \* each service thread: control
    pSvr,       \* each service thread: is its service object allocated?
    bBind,      \* each service thread: has soap_bind succeeded?
    master,     \* each service thread: how far the socket of soap_bind got
    slept,      \* each service thread: seconds since bind failed
    call,       \* each client: the state of its call
    at          \* each client: the thread whose socket it connected to

serviceVars == <<pc, pSvr, bBind, master, slept>>
clientVars  == <<call, at>>
vars == <<m_bExit, serviceVars, clientVars>>

\* A socket that takes connections, whoever still knows of it.
Listening(s) == master[s] = "listening"
Waiting(s) == {c \in Client : call[c] = "queued" /\ at[c] = s}
Served(s)  == {c \in Client : call[c] = "serving" /\ at[c] = s}

-----------------------------------------------------------------------------
Init ==
    /\ m_bExit = FALSE
    /\ pc = [s \in Svc |-> "none"]
    /\ pSvr = [s \in Svc |-> FALSE] /\ bBind = [s \in Svc |-> FALSE]
    /\ master = [s \in Svc |-> "none"] /\ slept = [s \in Svc |-> 0]
    /\ call = [c \in Client |-> "idle"] /\ at = [c \in Client |-> Null]

Goto(s, l) == pc' = [pc EXCEPT ![s] = l]

-----------------------------------------------------------------------------
(* The owner.  Start that creates no thread changes nothing.               *)

Start(s) ==
    /\ pc[s] = "none" /\ Goto(s, "new")
    /\ UNCHANGED <<m_bExit, pSvr, bBind, master, slept, clientVars>>

Stop ==
    /\ m_bExit' = TRUE
    /\ UNCHANGED <<serviceVars, clientVars>>

-----------------------------------------------------------------------------
(* SubRecvThread *)

NewService(s) ==
    /\ pc[s] = "new"
    /\ \/ pSvr' = [pSvr EXCEPT ![s] = TRUE] /\ Goto(s, "loop")
       \/ UNCHANGED pSvr /\ Goto(s, "done")
    /\ UNCHANGED <<m_bExit, bBind, master, slept, clientVars>>

\* Mutants: the loop never ends, and it ends with the object still there.
AfterLoopNever(s) == IF bBind[s] THEN "accept" ELSE "bind"
AfterLoopNoDelete(s) == IF m_bExit THEN "done" ELSE AfterLoopNever(s)

AfterLoop(s) ==
    IF m_bExit THEN "delete" ELSE IF bBind[s] THEN "accept" ELSE "bind"

Loop(s) ==
    /\ pc[s] = "loop" /\ Goto(s, AfterLoop(s))
    /\ UNCHANGED <<m_bExit, pSvr, bBind, master, slept, clientVars>>

\* soap_bind closes the socket of its last attempt.  The port may be taken, by
\* another process or another service thread; a failure of setsockopt or bind
\* leaves the new socket open, one of listen leaves it bound as well.
Bind(s) ==
    /\ pc[s] = "bind"
    /\ \/ /\ bBind' = [bBind EXCEPT ![s] = TRUE]
          /\ master' = [master EXCEPT ![s] = "listening"]
          /\ Goto(s, "accept") /\ UNCHANGED slept
       \/ /\ \E failed \in {"none", "open", "bound"} :
                 master' = [master EXCEPT ![s] = failed]
          /\ slept' = [slept EXCEPT ![s] = 0]
          /\ Goto(s, "sleep") /\ UNCHANGED bBind
    /\ UNCHANGED <<m_bExit, pSvr, clientVars>>

\* Mutant: one second more than the retry takes.
RetryLate(n) == n > Seconds
Retry(n) == n = Seconds

\* One second; a stopped thread returns at once and leaves its pSvr behind,
\* with what soap_bind left of its socket.
Sleep(s) ==
    /\ pc[s] = "sleep"
    /\ IF m_bExit
       THEN Goto(s, "done") /\ UNCHANGED slept
       ELSE /\ slept' = [slept EXCEPT ![s] = @ + 1]
            /\ Goto(s, IF Retry(slept'[s]) THEN "loop" ELSE "sleep")
    /\ UNCHANGED <<m_bExit, pSvr, bBind, master, clientVars>>

\* accept_timeout: 30 s without a connection.  A connection whose client has
\* given up is accepted all the same.
Accept(s) ==
    /\ pc[s] = "accept"
    /\ \/ \E c \in Waiting(s) :
             /\ call' = [call EXCEPT ![c] = "serving"]
             /\ Goto(s, "serve")
       \/ UNCHANGED call /\ Goto(s, "serve")
       \/ Waiting(s) = {} /\ UNCHANGED call /\ Goto(s, "loop")
    /\ UNCHANGED <<m_bExit, pSvr, bBind, master, slept, at>>

\* The client may have gone, or be too slow for the time limits.
Serve(s) ==
    /\ pc[s] = "serve" /\ Goto(s, "loop")
    /\ \E answer \in {"answered", "failed"} :
          call' = [c \in Client |-> IF c \in Served(s) THEN answer ELSE call[c]]
    /\ UNCHANGED <<m_bExit, pSvr, bBind, master, slept, at>>

\* delete pSvr (soap_done) closes the socket and resets the connections that
\* wait.
Delete(s) ==
    /\ pc[s] = "delete" /\ Goto(s, "done")
    /\ pSvr' = [pSvr EXCEPT ![s] = FALSE]
    /\ master' = [master EXCEPT ![s] = "none"]
    /\ call' = [c \in Client |-> IF c \in Waiting(s) THEN "failed" ELSE call[c]]
    /\ UNCHANGED <<m_bExit, bBind, slept, at>>

-----------------------------------------------------------------------------
(* CWsClient::RemoteConfig, which returns DTK_OK answered or not.          *)

Connect(c) ==
    /\ call[c] = "idle"
    /\ \/ \E s \in Svc :
             /\ Listening(s) /\ Cardinality(Waiting(s)) < Backlog
             /\ at' = [at EXCEPT ![c] = s]
             /\ call' = [call EXCEPT ![c] = "queued"]
       \/ /\ \A s \in Svc : Listening(s) => Cardinality(Waiting(s)) >= Backlog
          /\ call' = [call EXCEPT ![c] = "failed"] /\ UNCHANGED at
    /\ UNCHANGED <<m_bExit, serviceVars>>

\* recv_timeout: 10 s without an answer.
GiveUp(c) ==
    /\ call[c] \in {"queued", "serving"}
    /\ call' = [call EXCEPT ![c] = "failed"]
    /\ UNCHANGED <<m_bExit, serviceVars, at>>

Returns(c) ==
    /\ call[c] \in {"answered", "failed"}
    /\ call' = [call EXCEPT ![c] = "idle"] /\ at' = [at EXCEPT ![c] = Null]
    /\ UNCHANGED <<m_bExit, serviceVars>>

-----------------------------------------------------------------------------
SubRecvThread(s) ==
    \/ NewService(s) \/ Loop(s) \/ Bind(s) \/ Sleep(s)
    \/ Accept(s) \/ Serve(s) \/ Delete(s)

RemoteConfig(c) == Connect(c) \/ GiveUp(c) \/ Returns(c)

Next ==
    \/ \E s \in Svc : Start(s) \/ SubRecvThread(s)
    \/ Stop
    \/ \E c \in Client : RemoteConfig(c)

Spec == Init /\ [][Next]_vars

\* Service threads run, accept and serve end by their time limits.
FairSpec == Spec /\ \A s \in Svc : WF_vars(SubRecvThread(s))

-----------------------------------------------------------------------------
(* Properties.                                                             *)

ServiceTypes ==
    /\ pc \in [Svc -> {"none", "new", "loop", "bind", "sleep", "accept",
                       "serve", "delete", "done"}]
    /\ slept \in [Svc -> 0 .. Seconds]

FlagTypes ==
    /\ m_bExit \in BOOLEAN /\ pSvr \in [Svc -> BOOLEAN] /\ bBind \in [Svc -> BOOLEAN]
    /\ master \in [Svc -> {"none", "open", "bound", "listening"}]

ClientTypes ==
    /\ call \in [Client -> {"idle", "queued", "serving", "answered", "failed"}]
    /\ at \in [Client -> Svc \cup {Null}]

OneServed ==
    \A s \in Svc : Cardinality(Served(s)) <= (IF pc[s] = "serve" THEN 1 ELSE 0)

\* The type invariant: the shape of each variable, only a thread that serves
\* has a client in hand, and that one only.
TypeOK == ServiceTypes /\ FlagTypes /\ ClientTypes /\ OneServed

\* A service thread that has ended takes no more connections and no client
\* waits on it, on whichever of its ways out; and where it has deleted its
\* object it keeps no socket at all.  The early return of the bind retry leaks
\* the object together with what the failed soap_bind left of its socket: that
\* may be bound, which keeps the port from a later service until the process
\* ends, but no client is ever drawn to it.
NoOrphanListener == \A s \in Svc : pc[s] = "done" =>
    /\ ~Listening(s) /\ Waiting(s) = {} /\ Served(s) = {}
    /\ ~pSvr[s] => master[s] = "none"

\* A service that was stopped ends, whether it was binding, waiting to bind
\* again, waiting for a connection or serving one.
StopEnds == \A s \in Svc : (m_bExit /\ pc[s] # "none") ~> pc[s] = "done"
=============================================================================
