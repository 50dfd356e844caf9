----------------------------- MODULE WinProcess -----------------------------
(***************************************************************************)
(* The functions of CWinApiWrap (WinApiWrap.cpp) and CPortDetect           *)
(* (PortDetect.cpp) that list the processes, services and ports of the     *)
(* host and act on what they found: KillProcessByAppName, GetAppSetupPath, *)
(* GetSetupPathBySvrName, GetTcpPortList and GetUdpPortList.  Each list    *)
(* shows one moment; processes start and end between two of them, and the  *)
(* identifier of one that ended may be given to another.                   *)
(***************************************************************************)
EXTENDS Integers, SequencesExt

CONSTANTS
    App,        \* names of programs
    Svc,        \* names of services
    Port,       \* the ports of one protocol
    MaxPid,     \* process identifiers are 1 .. MaxPid
    Null        \* no program, no name

ASSUME NullAssumption == Null \notin App \cup Svc
ASSUME NamesAssumption == App \cap Svc = {}
ASSUME MaxPidAssumption == MaxPid \in Nat \ {0}

Pid == 1 .. MaxPid

VARIABLES
    proc,       \* each identifier: the program that its process runs, or Null
    svcPid,     \* each service: its process, 0 while it does not run
    owner,      \* each port: the processes with a listening socket
    opened,     \* processes this one has a handle of, which it never closes
    pc,         \* the call: control
    op, arg,    \* the function called and the name it was called with
    iPid,       \* the identifier found, -1 if there is none
    table,      \* GetExtendedTcpTable or GetExtendedUdpTable: port -> process
    mapProcInfo,\* GetProcInfo: process -> program
    mapSvrInfo, \* GetSvrInfo: process -> one of its services
    ret, out,   \* the result; the names by port, or the program of the path
    gone        \* history: processes and services that ended since the first list

hostVars  == <<proc, svcPid, owner>>
foundVars == <<iPid, table, mapProcInfo, mapSvrInfo>>
vars == <<hostVars, opened, pc, op, arg, foundVars, ret, out, gone>>

Empty == [x \in {} |-> Null]
Running == {p \in Pid : proc[p] # Null}

-----------------------------------------------------------------------------
Init ==
    /\ proc = [p \in Pid |-> Null] /\ svcPid = [s \in Svc |-> 0]
    /\ owner = [t \in Port |-> {}] /\ opened = {}
    /\ pc = "idle" /\ op = "none" /\ arg = Null
    /\ iPid = -1 /\ table = Empty /\ mapProcInfo = Empty /\ mapSvrInfo = Empty
    /\ ret = "OK" /\ out = Empty /\ gone = {}

-----------------------------------------------------------------------------
(* The host.  An identifier is free once its process has ended and no      *)
(* handle of it is open.                                                   *)

\* What the end of process p changes; its services and sockets end with it.
Hosted(p) == {s \in Svc : svcPid[s] = p}
Ends(p) ==
    /\ proc' = [proc EXCEPT ![p] = Null]
    /\ svcPid' = [s \in Svc |-> IF s \in Hosted(p) THEN 0 ELSE svcPid[s]]
    /\ owner' = [t \in Port |-> owner[t] \ {p}]

\* What the call in progress would like to know.
Note(ended) == gone' = IF pc = "idle" THEN {} ELSE gone \cup ended

callVars == <<opened, pc, op, arg, foundVars, ret, out>>

Start(p, a) ==
    /\ p \notin Running \cup opened /\ proc' = [proc EXCEPT ![p] = a]
    /\ UNCHANGED <<svcPid, owner, gone, callVars>>

Exit(p) ==
    /\ p \in Running /\ Ends(p) /\ Note({p} \cup Hosted(p))
    /\ UNCHANGED callVars

StartService(s, p) ==
    /\ svcPid[s] = 0 /\ p \in Running /\ svcPid' = [svcPid EXCEPT ![s] = p]
    /\ UNCHANGED <<proc, owner, gone, callVars>>

StopService(s) ==
    /\ svcPid[s] # 0 /\ svcPid' = [svcPid EXCEPT ![s] = 0]
    /\ Note({s}) /\ UNCHANGED <<proc, owner, callVars>>

Listen(t, p) ==
    /\ p \in Running \ owner[t] /\ owner' = [owner EXCEPT ![t] = @ \cup {p}]
    /\ UNCHANGED <<proc, svcPid, gone, callVars>>

Unlisten(t, p) ==
    /\ p \in owner[t] /\ owner' = [owner EXCEPT ![t] = @ \ {p}]
    /\ UNCHANGED <<proc, svcPid, gone, callVars>>

-----------------------------------------------------------------------------
(* The functions, each as the steps it takes.                              *)

\* Mutant: the ports are fetched after the processes they are looked up in.
StepsSwapped == [kill    |-> <<"procs", "open", "terminate">>,
                 path    |-> <<"procs", "open", "image">>,
                 svrPath |-> <<"svrs", "open", "image">>,
                 ports   |-> <<"procs", "table", "svrs", "names">>]
Steps == [kill    |-> <<"procs", "open", "terminate">>,
          path    |-> <<"procs", "open", "image">>,
          svrPath |-> <<"svrs", "open", "image">>,
          ports   |-> <<"table", "procs", "svrs", "names">>]

NextStep == CHOOSE l \in Range(Steps[op]) : \E i \in 2 .. Len(Steps[op]) :
    Steps[op][i - 1] = pc /\ Steps[op][i] = l

Call(f, a) ==
    /\ pc = "idle" /\ pc' = Head(Steps[f]) /\ op' = f /\ arg' = a
    /\ ret' = "OK" /\ out' = Empty
    /\ UNCHANGED <<hostVars, opened, foundVars, gone>>

Return(r, o) ==
    /\ pc' = "idle" /\ op' = "none" /\ arg' = Null /\ ret' = r /\ out' = o
    /\ iPid' = -1 /\ table' = Empty /\ mapProcInfo' = Empty /\ mapSvrInfo' = Empty

\* One list: found or refused.  The history begins with the first one.
List(found) ==
    /\ \/ found /\ pc' = NextStep /\ UNCHANGED <<op, arg, ret, out>>
       \/ Return("ERROR", Empty)
    /\ gone' = IF pc = Head(Steps[op]) \/ pc' = "idle" THEN {} ELSE gone
    /\ UNCHANGED <<hostVars, opened>>

\* GetPidByAppName: the lowest identifier of a process with that name.
\* Mutant: the lowest identifier of all.
PidOfAny(a) == IF Running = {} THEN -1 ELSE Min(Running)
PidOf(a) == LET named == {p \in Running : proc[p] = a}
            IN  IF named = {} THEN -1 ELSE Min(named)

GetProcInfo == Restrict(proc, Running)

\* What a call finds out about the processes: all of them, or one identifier.
Procs ==
    /\ pc = "procs"
    /\ List(/\ mapProcInfo' = IF op = "ports" THEN GetProcInfo ELSE Empty
            /\ iPid' = IF op = "ports" THEN -1 ELSE PidOf(arg)
            /\ UNCHANGED <<table, mapSvrInfo>>)

\* One service of each process, and one of all that are stopped.
GetSvrInfo == {m \in [Range(svcPid) -> Svc] : \A p \in DOMAIN m : svcPid[m[p]] = p}

\* What it finds out about the services: all that GetSvrInfo gives, or the
\* process of one of these.  The list may have outgrown the buffer that was
\* measured for it.
Svrs ==
    /\ pc = "svrs"
    /\ \E m \in GetSvrInfo :
        List(/\ mapSvrInfo' = IF op = "ports" THEN m ELSE Empty
             /\ iPid' = IF op = "svrPath" /\ arg \in Range(m)
                        THEN svcPid[arg] ELSE -1
             /\ UNCHANGED <<table, mapProcInfo>>)

\* The first process that listens on a port is the one kept.
Table ==
    /\ pc = "table"
    /\ \E m \in [{t \in Port : owner[t] # {}} -> Pid] :
        /\ \A t \in DOMAIN m : m[t] \in owner[t]
        /\ List(table' = m /\ UNCHANGED <<iPid, mapProcInfo, mapSvrInfo>>)

\* Mutant: the test of the handle for NULL is missing.
OpensAny == TRUE
Opens == iPid \in Running

\* OpenProcess.  For -1 and for 0, a service that is stopped, the callers
\* return an error themselves, but for KillProcessByAppName, whose call fails.
Open ==
    /\ pc = "open"
    /\ \/ /\ Opens /\ opened' = opened \cup {iPid}
          /\ pc' = NextStep /\ UNCHANGED <<op, arg, foundVars, ret, out, gone>>
       \/ Return("ERROR", Empty) /\ gone' = {} /\ UNCHANGED opened
    /\ UNCHANGED hostVars

\* TerminateProcess.  The handle keeps a process that has ended by itself.
Terminate ==
    /\ pc = "terminate"
    /\ \/ iPid \in Running /\ Ends(iPid) /\ Return("OK", Empty)
       \/ Return("ERROR", Empty) /\ UNCHANGED hostVars
    /\ gone' = {} /\ UNCHANGED opened

\* QueryFullProcessImageName
Image ==
    /\ pc = "image"
    /\ \/ iPid \in Running /\ Return("OK", [path |-> proc[iPid]])
       \/ Return("ERROR", Empty)
    /\ gone' = {} /\ UNCHANGED <<hostVars, opened>>

\* A service if the process has one, else the program.
NameOf(p) == IF p \in DOMAIN mapSvrInfo THEN mapSvrInfo[p]
             ELSE IF p \in DOMAIN mapProcInfo THEN mapProcInfo[p] ELSE Null

\* The loop over the table, which knows no failure.
Names ==
    /\ pc = "names"
    /\ Return("OK", [t \in DOMAIN table |-> NameOf(table[t])])
    /\ gone' = {} /\ UNCHANGED <<hostVars, opened>>

-----------------------------------------------------------------------------
Next ==
    \/ \E p \in Pid : Exit(p)
    \/ \E p \in Pid, a \in App : Start(p, a)
    \/ \E s \in Svc, p \in Pid : StartService(s, p)
    \/ \E s \in Svc : StopService(s)
    \/ \E t \in Port, p \in Pid : Listen(t, p) \/ Unlisten(t, p)
    \/ \E a \in App : Call("kill", a) \/ Call("path", a)
    \/ \E s \in Svc : Call("svrPath", s)
    \/ Call("ports", Null)
    \/ Procs \/ Svrs \/ Table \/ Open \/ Terminate \/ Image \/ Names

Spec == Init /\ [][Next]_vars

-----------------------------------------------------------------------------
(* Properties.                                                             *)

\* Services and sockets belong to processes that run.
HostTypes ==
    /\ proc \in [Pid -> App \cup {Null}]
    /\ svcPid \in [Svc -> Running \cup {0}] /\ owner \in [Port -> SUBSET Running]

\* Where the call is, and what it was called with.
CallTypes ==
    /\ op \in DOMAIN Steps \cup {"none"} /\ arg \in App \cup Svc \cup {Null}
    /\ pc \in IF op = "none" THEN {"idle"} ELSE Range(Steps[op])
    /\ ret \in {"OK", "ERROR"} /\ Range(out) \subseteq App \cup Svc \cup {Null}

\* What it has found: an identifier stays what it was found for, and nothing
\* is left of a call that has returned.
FoundTypes ==
    /\ opened \subseteq Pid /\ gone \subseteq Pid \cup Svc
    /\ iPid \in Pid \cup {-1, 0} /\ (pc \in {"terminate", "image"} => iPid \in opened)
    /\ DOMAIN table \subseteq Port /\ Range(table) \subseteq Pid
    /\ DOMAIN mapProcInfo \subseteq Pid /\ Range(mapProcInfo) \subseteq App
    /\ DOMAIN mapSvrInfo \subseteq Pid \cup {0} /\ Range(mapSvrInfo) \subseteq Svc
    /\ pc = "idle" => gone = {} /\ iPid = -1 /\ table = Empty

\* The type invariant: the shape of each variable.
TypeOK == HostTypes /\ CallTypes /\ FoundTypes

\* The process that a call is about to terminate, or whose path it is about to
\* ask for, has the name or hosts the service it was looked up by, unless what
\* was found has ended since: then it may be any process that was given the
\* same identifier, for nothing compares the name again.
HandleIsRight ==
    pc \in {"terminate", "image"} /\ iPid \in Running /\ iPid \notin gone =>
        IF op = "svrPath" THEN arg \notin gone => svcPid[arg] = iPid
        ELSE proc[iPid] = arg

\* Every port in the result has a name, which is that of its owner or of a
\* service in it, if neither has ended since the table was fetched: the order
\* of the three lists leaves no port of a living process without a name (the
\* code logs "why can't find name of this pid"), and no reused identifier
\* lends a name to a process that still lives.
PortsNamed ==
    [][pc = "names" => \A t \in DOMAIN out' :
          table[t] \notin gone =>
              /\ out'[t] # Null
              /\ out'[t] \in App => proc[table[t]] = out'[t]
              /\ out'[t] \in Svc \ gone => svcPid[out'[t]] = table[t]]_vars
=============================================================================
