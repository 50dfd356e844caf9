------------------------- MODULE WinProcessProofs --------------------------
(***************************************************************************)
(* Proofs about WinProcess: its type invariant, that a call terminates, or *)
(* asks for the path of, the process that it looked up unless what it      *)
(* found has ended since, and that every port of a living process is given *)
(* the name of that process or of a service in it.                         *)
(***************************************************************************)
EXTENDS WinProcess, WellFoundedInduction, TLAPS

-----------------------------------------------------------------------------
(* The inductive invariant.                                                *)

\* A call by the name of a service has one.
ArgInv == op = "svrPath" => arg \in Svc

\* The identifier found is that of a process that runs, and is what it was
\* looked up by, from the list on and as long as nothing found has ended.
FoundInv ==
    pc \in {"open", "terminate", "image"} /\ iPid \in Pid \ gone =>
        /\ iPid \in Running
        /\ op = "svrPath" => (arg \notin gone => svcPid[arg] = iPid)
        /\ op # "svrPath" => proc[iPid] = arg

\* A process in the table runs, and once the processes are listed its name is
\* known, unless it has ended since.
TableInv ==
    pc \in {"procs", "svrs", "names"} /\ op = "ports" =>
        \A t \in DOMAIN table : table[t] \notin gone =>
            /\ table[t] \in Running
            /\ pc # "procs" => /\ table[t] \in DOMAIN mapProcInfo
                               /\ mapProcInfo[table[t]] = proc[table[t]]

\* A service that is listed for a process is in it, unless it has ended since.
\* Nothing is known of the one that is listed as stopped: it may start.
SvrInv ==
    pc = "names" => \A p \in DOMAIN mapSvrInfo \ {0} :
        mapSvrInfo[p] \in Svc \ gone => svcPid[mapSvrInfo[p]] = p

\* A call in progress has no result.
OutInv == pc # "idle" => out = Empty

WinProcessInv == TypeOK /\ ArgInv /\ FoundInv /\ TableInv /\ SvrInv /\ OutInv

-----------------------------------------------------------------------------
(* The operators.                                                          *)

\* The order of the natural numbers, as the theorems on well-founded relations
\* take it.
NatLess == OpToRel(<, Nat)

\* A set of natural numbers that has a member has a least one.
LEMMA Smallest ==
  ASSUME NEW T \in SUBSET Nat, T # {}
  PROVE  \E x \in T : \A y \in T : x <= y
<1>1. IsWellFoundedOn(NatLess, Nat)
  BY NatLessThanWellFounded DEF NatLess
<1>2. \A x, y \in Nat : x < y => <<x, y>> \in NatLess
  BY DEF OpToRel, NatLess
<1>3. \E x \in T : \A y \in T : ~(<<y, x>> \in NatLess)
  BY <1>1, WFMin
<1> SUFFICES ASSUME NEW x \in T, \A y \in T : ~(<<y, x>> \in NatLess), NEW y \in T
             PROVE  x <= y
  BY <1>3
<1>4. <<y, x>> \notin NatLess
  OBVIOUS
<1>5. ~(y < x)
  BY <1>2, <1>4
<1> QED
  BY <1>5

\* PidOf finds a process with the name, or none.
LEMMA PidOfNames ==
  ASSUME NEW a
  PROVE  PidOf(a) = -1 \/ (PidOf(a) \in Running /\ proc[PidOf(a)] = a)
<1> DEFINE named == {p \in Running : proc[p] = a}
<1>1. CASE named = {}
  BY <1>1 DEF PidOf
<1>2. CASE named # {}
  <2>1. named \in SUBSET Nat
    BY MaxPidAssumption DEF Running, Pid
  <2>2. \E x \in named : \A y \in named : x <= y
    BY <1>2, <2>1, Smallest
  <2>3. Min(named) \in named
    BY <2>2 DEF Min
  <2>4. PidOf(a) = Min(named)
    BY <1>2 DEF PidOf
  <2> QED
    BY <2>3, <2>4
<1> QED
  BY <1>1, <1>2

\* The functions and the first step of each.
LEMMA StepsOf ==
  /\ DOMAIN Steps = {"kill", "path", "svrPath", "ports"}
  /\ Head(Steps["kill"]) = "procs" /\ Head(Steps["path"]) = "procs"
  /\ Head(Steps["svrPath"]) = "svrs" /\ Head(Steps["ports"]) = "table"
  /\ Range(Steps["kill"]) = {"procs", "open", "terminate"}
  /\ Range(Steps["path"]) = {"procs", "open", "image"}
  /\ Range(Steps["svrPath"]) = {"svrs", "open", "image"}
  /\ Range(Steps["ports"]) = {"table", "procs", "svrs", "names"}
<1>1. /\ DOMAIN Steps = {"kill", "path", "svrPath", "ports"}
      /\ Head(Steps["kill"]) = "procs" /\ Head(Steps["path"]) = "procs"
      /\ Head(Steps["svrPath"]) = "svrs" /\ Head(Steps["ports"]) = "table"
  BY DEF Steps
<1>2. Range(Steps["kill"]) = {"procs", "open", "terminate"}
  BY DEF Steps, Range
<1>3. Range(Steps["path"]) = {"procs", "open", "image"}
  BY DEF Steps, Range
<1>4. Range(Steps["svrPath"]) = {"svrs", "open", "image"}
  BY DEF Steps, Range
<1>5. Range(Steps["ports"]) = {"table", "procs", "svrs", "names"}
  BY DEF Steps, Range
<1> QED
  BY <1>1, <1>2, <1>3, <1>4, <1>5

\* The step after the one that a call is at.
LEMMA NextOf ==
  ASSUME CallTypes, pc \in {"procs", "svrs", "table", "open"}
  PROVE  /\ op = "ports" =>
              /\ pc # "open"
              /\ pc = "table" => NextStep = "procs"
              /\ pc = "procs" => NextStep = "svrs"
              /\ pc = "svrs" => NextStep = "names"
         /\ op \in {"kill", "path"} =>
              /\ pc \in {"procs", "open"}
              /\ pc = "procs" => NextStep = "open"
              /\ pc = "open" => NextStep \in {"terminate", "image"}
         /\ op = "svrPath" =>
              /\ pc \in {"svrs", "open"}
              /\ pc = "svrs" => NextStep = "open"
              /\ pc = "open" => NextStep = "image"
         /\ op \in {"kill", "path", "svrPath", "ports"}
         /\ NextStep \in Range(Steps[op])
<1>1. op \in {"kill", "path", "svrPath", "ports"} /\ pc \in Range(Steps[op])
  BY StepsOf DEF CallTypes
<1>2. ASSUME op = "ports"
      PROVE  /\ pc = "table" => NextStep = "procs"
             /\ pc = "procs" => NextStep = "svrs"
             /\ pc = "svrs" => NextStep = "names"
  BY <1>2 DEF NextStep, Steps, Range
<1>3. ASSUME op = "kill"
      PROVE  (pc = "procs" => NextStep = "open") /\ (pc = "open" => NextStep = "terminate")
  BY <1>3 DEF NextStep, Steps, Range
<1>4. ASSUME op = "path"
      PROVE  (pc = "procs" => NextStep = "open") /\ (pc = "open" => NextStep = "image")
  BY <1>4 DEF NextStep, Steps, Range
<1>5. ASSUME op = "svrPath"
      PROVE  (pc = "svrs" => NextStep = "open") /\ (pc = "open" => NextStep = "image")
  BY <1>5 DEF NextStep, Steps, Range
<1> QED
  BY <1>1, <1>2, <1>3, <1>4, <1>5, StepsOf

-----------------------------------------------------------------------------
(* What happens on the host.                                               *)

\* The end of a process leaves the others alone.
LEMMA EndsEffect ==
  ASSUME HostTypes, NEW p \in Pid, Ends(p)
  PROVE  /\ HostTypes' /\ Running' = Running \ {p}
         /\ \A q \in Pid : q # p => proc'[q] = proc[q]
         /\ \A s \in Svc : s \notin Hosted(p) => svcPid'[s] = svcPid[s]
<1>1. proc' \in [Pid -> App \cup {Null}] /\ \A q \in Pid : q # p => proc'[q] = proc[q]
  BY DEF HostTypes, Ends
<1>2. Running' = Running \ {p}
  BY <1>1 DEF HostTypes, Ends, Running
<1>3. svcPid' \in [Svc -> Running' \cup {0}] /\ owner' \in [Port -> SUBSET Running']
  BY <1>2 DEF HostTypes, Ends, Hosted
<1> QED
  BY <1>1, <1>2, <1>3 DEF HostTypes, Ends

\* A step of the host, in the terms of the call that goes on meanwhile: the
\* history has what has ended, and the rest stays what it was.
HostStep ==
    /\ HostTypes' /\ UNCHANGED callVars
    /\ IF pc = "idle" THEN gone' \subseteq gone ELSE gone \subseteq gone'
    /\ gone' \subseteq Pid \cup Svc
    /\ pc # "idle" => \A q \in Running : q \notin gone' => q \in Running' /\ proc'[q] = proc[q]
    /\ pc # "idle" => \A s \in Svc :
          s \notin gone' /\ svcPid[s] # 0 => svcPid'[s] = svcPid[s]

\* Every step of a process, a service or a socket is one.
LEMMA HostSteps ==
  ASSUME TypeOK,
         \/ \E p \in Pid : Exit(p)
         \/ \E p \in Pid, a \in App : Start(p, a)
         \/ \E s \in Svc, p \in Pid : StartService(s, p)
         \/ \E s \in Svc : StopService(s)
         \/ \E t \in Port, p \in Pid : Listen(t, p) \/ Unlisten(t, p)
  PROVE  HostStep
<1>1. HostTypes /\ gone \subseteq Pid \cup Svc /\ (pc = "idle" => gone = {})
  BY DEF TypeOK, FoundTypes
<1>2. ASSUME NEW p \in Pid, Exit(p) PROVE HostStep
  <2>1. /\ HostTypes' /\ Running' = Running \ {p}
        /\ \A q \in Pid : q # p => proc'[q] = proc[q]
        /\ \A s \in Svc : s \notin Hosted(p) => svcPid'[s] = svcPid[s]
    BY <1>1, <1>2, EndsEffect DEF Exit
  <2>2. gone' = IF pc = "idle" THEN {} ELSE gone \cup {p} \cup Hosted(p)
    BY <1>2 DEF Exit, Note
  <2>3. Hosted(p) \subseteq Svc /\ Running \subseteq Pid
    BY DEF Hosted, Running
  <2> QED
    BY <1>1, <1>2, <2>1, <2>2, <2>3 DEF Exit, HostStep
<1>3. ASSUME NEW p \in Pid, NEW a \in App, Start(p, a) PROVE HostStep
  <2>1. proc' \in [Pid -> App \cup {Null}] /\ \A q \in Pid : q # p => proc'[q] = proc[q]
    BY <1>1, <1>3 DEF HostTypes, Start
  <2>2. Running' = Running \cup {p} /\ p \notin Running
    BY <1>1, <1>3, <2>1, NullAssumption DEF HostTypes, Start, Running
  <2>3. HostTypes'
    BY <1>1, <1>3, <2>1, <2>2 DEF HostTypes, Start
  <2> QED
    BY <1>1, <1>3, <2>1, <2>2, <2>3 DEF Start, HostStep, Running
<1>4. ASSUME NEW s \in Svc, NEW p \in Pid, StartService(s, p) PROVE HostStep
  <2>1. Running' = Running
    BY <1>4 DEF StartService, Running
  <2>2. HostTypes'
    BY <1>1, <1>4, <2>1 DEF HostTypes, StartService
  <2> QED
    BY <1>1, <1>4, <2>1, <2>2 DEF StartService, HostStep, HostTypes
<1>5. ASSUME NEW s \in Svc, StopService(s) PROVE HostStep
  <2>1. Running' = Running
    BY <1>5 DEF StopService, Running
  <2>2. HostTypes'
    BY <1>1, <1>5, <2>1 DEF HostTypes, StopService
  <2>3. gone' = IF pc = "idle" THEN {} ELSE gone \cup {s}
    BY <1>5 DEF StopService, Note
  <2> QED
    BY <1>1, <1>5, <2>1, <2>2, <2>3 DEF StopService, HostStep, HostTypes
<1>6. ASSUME NEW t \in Port, NEW p \in Pid, Listen(t, p) \/ Unlisten(t, p) PROVE HostStep
  <2>1. Running' = Running
    BY <1>6 DEF Listen, Unlisten, Running
  <2>2. HostTypes'
    BY <1>1, <1>6, <2>1 DEF HostTypes, Listen, Unlisten
  <2> QED
    BY <1>1, <1>6, <2>1, <2>2 DEF Listen, Unlisten, HostStep
<1> QED
  BY <1>2, <1>3, <1>4, <1>5, <1>6

\* Such a step keeps the invariant.
LEMMA HostKeeps ==
  ASSUME WinProcessInv, HostStep
  PROVE  WinProcessInv'
<1> USE DEF WinProcessInv, TypeOK
<1>1. UNCHANGED <<opened, pc, op, arg, iPid, table, mapProcInfo, mapSvrInfo, ret, out>>
  BY DEF HostStep, callVars, foundVars
<1>2. HostTypes'
  BY DEF HostStep
<1>3. CallTypes' /\ ArgInv' /\ OutInv'
  BY <1>1 DEF CallTypes, ArgInv, OutInv
<1>4. FoundTypes'
  BY <1>1 DEF HostStep, FoundTypes
<1>5. CASE pc = "idle"
  BY <1>1, <1>2, <1>3, <1>4, <1>5 DEF FoundInv, TableInv, SvrInv
<1>6. CASE pc # "idle"
  <2>1. /\ gone \subseteq gone'
        /\ \A q \in Running : q \notin gone' => q \in Running' /\ proc'[q] = proc[q]
        /\ \A s \in Svc : s \notin gone' /\ svcPid[s] # 0 => svcPid'[s] = svcPid[s]
    BY <1>6 DEF HostStep
  <2>2. 0 \notin Pid
    BY MaxPidAssumption DEF Pid
  <2>3. FoundInv'
    BY <1>1, <2>1, <2>2 DEF FoundInv, ArgInv
  <2>4. TableInv'
    BY <1>1, <2>1 DEF TableInv
  <2>5. SvrInv'
    <3> SUFFICES ASSUME pc = "names",
                 NEW p \in DOMAIN mapSvrInfo \ {0}, mapSvrInfo[p] \in Svc \ gone'
                 PROVE  svcPid'[mapSvrInfo[p]] = p
      BY <1>1 DEF SvrInv
    <3>1. svcPid[mapSvrInfo[p]] = p
      BY <2>1 DEF SvrInv
    <3> QED
      BY <2>1, <3>1
  <2> QED
    BY <1>2, <1>3, <1>4, <2>3, <2>4, <2>5
<1> QED
  BY <1>5, <1>6

-----------------------------------------------------------------------------
(* The steps of a call.                                                    *)

\* A call that has returned leaves nothing.
LEMMA Returned ==
  ASSUME WinProcessInv, NEW r \in {"OK", "ERROR"}, NEW o,
         Range(o) \subseteq App \cup Svc \cup {Null},
         Return(r, o), gone' = {}, opened' = opened, HostTypes'
  PROVE  WinProcessInv'
<1> USE DEF WinProcessInv, TypeOK
<1>1. pc' = "idle" /\ op' = "none" /\ arg' = Null /\ ret' = r /\ out' = o
  BY DEF Return
<1>2. CallTypes'
  BY <1>1 DEF CallTypes
<1>3. DOMAIN Empty = {} /\ Range(Empty) = {}
  BY DEF Empty, Range
<1>4. FoundTypes'
  BY <1>1, <1>3 DEF FoundTypes, Return
<1>5. ArgInv' /\ FoundInv' /\ TableInv' /\ SvrInv' /\ OutInv'
  BY <1>1 DEF ArgInv, FoundInv, TableInv, SvrInv, OutInv
<1> QED
  BY <1>2, <1>4, <1>5

\* Nothing on the host changes.
LEMMA HostSame ==
  ASSUME HostTypes, UNCHANGED hostVars
  PROVE  HostTypes' /\ Running' = Running
BY DEF HostTypes, Running, hostVars

\* Nothing is found but an empty result.
LEMMA NoNames == Range(Empty) \subseteq App \cup Svc \cup {Null}
BY DEF Empty, Range

\* What a list that is found changes besides what it holds.
Found ==
    /\ pc' = NextStep /\ UNCHANGED <<op, arg, ret, out>>
    /\ gone' = IF pc = Head(Steps[op]) \/ pc' = "idle" THEN {} ELSE gone
    /\ UNCHANGED <<hostVars, opened>>

\* The call goes on to its next step, and the history begins with the first.
LEMMA FoundKeeps ==
  ASSUME WinProcessInv, Found, pc \in {"procs", "svrs", "table"}
  PROVE  /\ HostTypes' /\ Running' = Running /\ CallTypes' /\ ArgInv' /\ OutInv'
         /\ op \in {"kill", "path", "svrPath"} =>
               gone' = {} /\ pc' = "open" /\ pc = (IF op = "svrPath" THEN "svrs" ELSE "procs")
         /\ op = "ports" =>
               /\ pc' = CASE pc = "table" -> "procs" [] pc = "procs" -> "svrs"
                          [] OTHER -> "names"
               /\ gone' = IF pc = "table" THEN {} ELSE gone
         /\ op \in {"kill", "path", "svrPath", "ports"}
<1> USE DEF WinProcessInv, TypeOK
<1>1. HostTypes' /\ Running' = Running
  BY HostSame DEF Found
<1>2. op \in {"kill", "path", "svrPath", "ports"} /\ NextStep \in Range(Steps[op])
  BY NextOf
<1>3. CallTypes' /\ ArgInv' /\ OutInv'
  BY <1>2 DEF CallTypes, Found, ArgInv, OutInv
<1>4. CASE op \in {"kill", "path", "svrPath"}
  <2>1. pc = Head(Steps[op]) /\ NextStep = "open"
    BY <1>4, NextOf, StepsOf
  <2> QED
    BY <1>1, <1>3, <1>4, <2>1, NextOf DEF Found
<1>5. CASE op = "ports"
  <2>1. pc' = CASE pc = "table" -> "procs" [] pc = "procs" -> "svrs" [] OTHER -> "names"
    BY <1>5, NextOf DEF Found
  <2>2. gone' = IF pc = "table" THEN {} ELSE gone
    BY <1>5, <2>1, StepsOf DEF Found
  <2> QED
    BY <1>1, <1>3, <1>5, <2>1, <2>2
<1> QED
  BY <1>2, <1>4, <1>5

\* A list is found or refused.
LEMMA ListCases ==
  ASSUME WinProcessInv, NEW ACTION F, List(F)
  PROVE  (F /\ Found) \/ WinProcessInv'
<1>1. CASE F /\ pc' = NextStep /\ UNCHANGED <<op, arg, ret, out>>
  BY <1>1 DEF List, Found
<1>2. CASE Return("ERROR", Empty)
  <2>1. gone' = {} /\ opened' = opened /\ UNCHANGED hostVars
    BY <1>2 DEF List, Return
  <2> QED
    BY <1>2, <2>1, HostSame, NoNames, Returned DEF WinProcessInv, TypeOK
<1> QED
  BY <1>1, <1>2 DEF List

\* The list of the processes.
LEMMA ProcsKeeps ==
  ASSUME WinProcessInv, Procs
  PROVE  WinProcessInv'
<1> USE DEF WinProcessInv, TypeOK
<1>1. SUFFICES ASSUME Found,
                      mapProcInfo' = (IF op = "ports" THEN GetProcInfo ELSE Empty),
                      iPid' = (IF op = "ports" THEN -1 ELSE PidOf(arg)),
                      UNCHANGED <<table, mapSvrInfo>>
               PROVE  WinProcessInv'
  BY ListCases DEF Procs
<1>2. pc = "procs"
  BY DEF Procs
<1>3. /\ HostTypes' /\ Running' = Running /\ CallTypes' /\ ArgInv' /\ OutInv'
      /\ UNCHANGED <<hostVars, opened, op, arg>>
  BY <1>1, <1>2, FoundKeeps DEF Found
<1>4. CASE op \in {"kill", "path"}
  <2>1. gone' = {} /\ pc' = "open"
    BY <1>1, <1>2, <1>4, FoundKeeps
  <2>2. iPid' = -1 \/ (iPid' \in Running /\ proc[iPid'] = arg)
    BY <1>1, <1>4, PidOfNames
  <2>3. FoundTypes'
    BY <1>1, <1>3, <1>4, <2>1, <2>2, NoNames DEF FoundTypes, Running, Empty,
       Range
  <2>4. FoundInv'
    BY <1>3, <1>4, <2>1, <2>2, MaxPidAssumption DEF FoundInv, Pid, hostVars
  <2>5. TableInv' /\ SvrInv'
    BY <2>1 DEF TableInv, SvrInv
  <2> QED
    BY <1>3, <2>3, <2>4, <2>5
<1>5. CASE op = "ports"
  <2>1. gone' = gone /\ pc' = "svrs" /\ iPid' = -1 /\ mapProcInfo' = GetProcInfo
    BY <1>1, <1>2, <1>5, FoundKeeps
  <2>2. /\ DOMAIN GetProcInfo = Running /\ Range(GetProcInfo) \subseteq App
        /\ \A p \in Running : GetProcInfo[p] = proc[p]
    BY DEF GetProcInfo, Restrict, Range, Running, HostTypes
  <2>3. FoundTypes'
    BY <1>1, <1>3, <2>1, <2>2 DEF FoundTypes, Running
  <2>4. FoundInv' /\ SvrInv'
    BY <2>1 DEF FoundInv, SvrInv
  <2>5. TableInv'
    BY <1>1, <1>2, <1>3, <1>5, <2>1, <2>2 DEF TableInv, hostVars
  <2> QED
    BY <1>3, <2>3, <2>4, <2>5
<1> QED
  BY <1>1, <1>2, <1>4, <1>5, FoundKeeps, NextOf

\* The list of the services.
LEMMA SvrsKeeps ==
  ASSUME WinProcessInv, Svrs
  PROVE  WinProcessInv'
<1> USE DEF WinProcessInv, TypeOK
<1>1. SUFFICES ASSUME Found, NEW m \in GetSvrInfo,
                      mapSvrInfo' = (IF op = "ports" THEN m ELSE Empty),
                      iPid' = (IF op = "svrPath" /\ arg \in Range(m) THEN svcPid[arg] ELSE -1),
                      UNCHANGED <<table, mapProcInfo>>
               PROVE  WinProcessInv'
  BY ListCases DEF Svrs
<1>2. pc = "svrs"
  BY DEF Svrs
<1>3. /\ HostTypes' /\ Running' = Running /\ CallTypes' /\ ArgInv' /\ OutInv'
      /\ UNCHANGED <<hostVars, opened, op, arg>>
  BY <1>1, <1>2, FoundKeeps DEF Found
<1>4. CASE op = "svrPath"
  <2>1. gone' = {} /\ pc' = "open" /\ arg \in Svc
    BY <1>1, <1>2, <1>4, FoundKeeps DEF ArgInv
  <2>2. iPid' = -1 \/ (iPid' = svcPid[arg] /\ svcPid[arg] \in Running \cup {0})
    BY <1>1, <2>1 DEF HostTypes
  <2>3. FoundTypes'
    BY <1>1, <1>3, <1>4, <2>1, <2>2 DEF FoundTypes, Running, Empty, Range
  <2>4. FoundInv'
    BY <1>3, <1>4, <2>1, <2>2, MaxPidAssumption DEF FoundInv, Pid, hostVars
  <2>5. TableInv' /\ SvrInv'
    BY <2>1 DEF TableInv, SvrInv
  <2> QED
    BY <1>3, <2>3, <2>4, <2>5
<1>5. CASE op = "ports"
  <2>1. gone' = gone /\ pc' = "names" /\ iPid' = -1 /\ mapSvrInfo' = m
    BY <1>1, <1>2, <1>5, FoundKeeps
  <2>2. /\ m \in [Range(svcPid) -> Svc] /\ \A p \in DOMAIN m : svcPid[m[p]] = p
    BY DEF GetSvrInfo
  <2>3. Range(svcPid) \subseteq Pid \cup {0}
    BY DEF HostTypes, Range, Running
  <2>4. FoundTypes'
    BY <1>1, <1>3, <2>1, <2>2, <2>3 DEF FoundTypes, Range
  <2>5. FoundInv'
    BY <2>1 DEF FoundInv
  <2>6. SvrInv'
    BY <1>3, <2>1, <2>2 DEF SvrInv, hostVars
  <2>7. TableInv'
    BY <1>1, <1>2, <1>3, <1>5, <2>1 DEF TableInv, hostVars
  <2> QED
    BY <1>3, <2>4, <2>5, <2>6, <2>7
<1> QED
  BY <1>1, <1>2, <1>4, <1>5, FoundKeeps, NextOf

\* The table of the ports.
LEMMA TableKeeps ==
  ASSUME WinProcessInv, Table
  PROVE  WinProcessInv'
<1> USE DEF WinProcessInv, TypeOK
<1>1. SUFFICES ASSUME Found, NEW m \in [{t \in Port : owner[t] # {}} -> Pid],
                      \A t \in DOMAIN m : m[t] \in owner[t],
                      table' = m, UNCHANGED <<iPid, mapProcInfo, mapSvrInfo>>
               PROVE  WinProcessInv'
  BY ListCases DEF Table
<1>2. pc = "table" /\ op = "ports"
  BY StepsOf, NextOf DEF Table
<1>3. /\ HostTypes' /\ Running' = Running /\ CallTypes' /\ ArgInv' /\ OutInv'
      /\ UNCHANGED <<hostVars, opened, op, arg>>
  BY <1>1, <1>2, FoundKeeps DEF Found
<1>4. gone' = {} /\ pc' = "procs"
  BY <1>1, <1>2, FoundKeeps
<1>5. \A t \in DOMAIN m : m[t] \in Running
  BY <1>1 DEF HostTypes
<1>6. FoundTypes'
  BY <1>1, <1>3, <1>4 DEF FoundTypes, Range
<1>7. TableInv'
  BY <1>1, <1>3, <1>4, <1>5 DEF TableInv
<1>8. FoundInv' /\ SvrInv'
  BY <1>4 DEF FoundInv, SvrInv
<1> QED
  BY <1>3, <1>6, <1>7, <1>8

\* The process is opened.
LEMMA OpenKeeps ==
  ASSUME WinProcessInv, Open
  PROVE  WinProcessInv'
<1> USE DEF WinProcessInv, TypeOK
<1>1. HostTypes' /\ Running' = Running
  BY HostSame DEF Open
<1>2. CASE Return("ERROR", Empty) /\ gone' = {} /\ UNCHANGED opened
  BY <1>1, <1>2, NoNames, Returned
<1>3. CASE /\ Opens /\ opened' = opened \cup {iPid}
           /\ pc' = NextStep /\ UNCHANGED <<op, arg, foundVars, ret, out, gone>>
  <2>1. pc = "open" /\ UNCHANGED hostVars
    BY DEF Open
  <2>2. /\ pc' \in {"terminate", "image"} /\ NextStep \in Range(Steps[op])
        /\ op \in {"kill", "path", "svrPath"}
    BY <1>3, <2>1, NextOf
  <2>3. iPid \in Pid
    BY <1>3 DEF Opens, Running
  <2>4. CallTypes' /\ ArgInv' /\ OutInv'
    BY <1>3, <2>1, <2>2 DEF CallTypes, ArgInv, OutInv
  <2>5. FoundTypes'
    BY <1>3, <2>2, <2>3 DEF FoundTypes, foundVars
  <2>6. FoundInv'
    BY <1>1, <1>3, <2>1, <2>2 DEF FoundInv, foundVars, hostVars
  <2>7. TableInv' /\ SvrInv'
    BY <2>2 DEF TableInv, SvrInv
  <2> QED
    BY <1>1, <2>4, <2>5, <2>6, <2>7
<1> QED
  BY <1>2, <1>3 DEF Open

\* It is terminated or asked for its path.
LEMMA ActKeeps ==
  ASSUME WinProcessInv, Terminate \/ Image
  PROVE  WinProcessInv'
<1> USE DEF WinProcessInv, TypeOK
<1>1. gone' = {} /\ opened' = opened
  BY DEF Terminate, Image
<1>2. CASE iPid \in Running /\ Ends(iPid) /\ Return("OK", Empty)
  <2>1. HostTypes'
    BY <1>2, EndsEffect DEF Running
  <2> QED
    BY <1>1, <1>2, <2>1, NoNames, Returned
<1>3. CASE Return("ERROR", Empty) /\ UNCHANGED hostVars
  BY <1>1, <1>3, NoNames, HostSame, Returned
<1>4. CASE iPid \in Running /\ Return("OK", [path |-> proc[iPid]]) /\ UNCHANGED hostVars
  <2>1. proc[iPid] \in App \cup {Null}
    BY <1>4 DEF HostTypes, Running
  <2>2. Range([path |-> proc[iPid]]) \subseteq App \cup Svc \cup {Null}
    BY <2>1 DEF Range
  <2> QED
    BY <1>1, <1>4, <2>2, HostSame, Returned
<1> QED
  BY <1>2, <1>3, <1>4 DEF Terminate, Image

\* The names of the ports.
LEMMA NamesKeeps ==
  ASSUME WinProcessInv, Names
  PROVE  WinProcessInv'
<1> USE DEF WinProcessInv, TypeOK
<1> DEFINE o == [t \in DOMAIN table |-> NameOf(table[t])]
<1>1. Range(o) \subseteq App \cup Svc \cup {Null}
  BY DEF FoundTypes, Range, NameOf
<1>2. HostTypes' /\ gone' = {} /\ opened' = opened /\ Return("OK", o)
  BY HostSame DEF Names
<1> HIDE DEF o
<1> QED
  BY <1>1, <1>2, Returned

\* A call begins.
LEMMA CallKeeps ==
  ASSUME WinProcessInv,
         \/ \E a \in App : Call("kill", a) \/ Call("path", a)
         \/ \E s \in Svc : Call("svrPath", s)
         \/ Call("ports", Null)
  PROVE  WinProcessInv'
<1> USE DEF WinProcessInv, TypeOK
<1>1. PICK f \in {"kill", "path", "svrPath", "ports"}, a \in App \cup Svc \cup {Null} :
           Call(f, a) /\ (f = "svrPath" => a \in Svc)
  OBVIOUS
<1>2. /\ pc = "idle" /\ pc' = Head(Steps[f]) /\ op' = f /\ arg' = a /\ ret' = "OK"
      /\ out' = Empty /\ UNCHANGED <<hostVars, opened, foundVars, gone>>
  BY <1>1 DEF Call
<1>3. HostTypes'
  BY <1>2, HostSame
<1>4. pc' \in {"procs", "svrs", "table"} /\ pc' \in Range(Steps[f]) /\ f \in DOMAIN Steps
  BY <1>2, StepsOf
<1>5. CallTypes'
  BY <1>1, <1>2, <1>4, NoNames DEF CallTypes
<1>6. ArgInv' /\ OutInv'
  BY <1>1, <1>2 DEF ArgInv, OutInv
<1>7. FoundTypes'
  BY <1>2, <1>4 DEF FoundTypes, foundVars
<1>8. FoundInv' /\ SvrInv'
  BY <1>4 DEF FoundInv, SvrInv
<1>9. TableInv'
  <2>1. table' = Empty
    BY <1>2 DEF FoundTypes, foundVars
  <2> QED
    BY <2>1 DEF TableInv, Empty
<1> QED
  BY <1>3, <1>5, <1>6, <1>7, <1>8, <1>9

-----------------------------------------------------------------------------
(* Theorems.                                                               *)

\* The inductive invariant.
LEMMA ProcessInvariant == Spec => []WinProcessInv
<1>1. Init => WinProcessInv
  <2> SUFFICES ASSUME Init PROVE WinProcessInv
    OBVIOUS
  <2>1. HostTypes
    BY DEF Init, HostTypes
  <2>2. CallTypes
    BY NoNames DEF Init, CallTypes
  <2>3. FoundTypes
    BY DEF Init, FoundTypes, Empty, Range
  <2>4. ArgInv /\ FoundInv /\ TableInv /\ SvrInv /\ OutInv
    BY DEF Init, ArgInv, FoundInv, TableInv, SvrInv, OutInv
  <2> QED
    BY <2>1, <2>2, <2>3, <2>4 DEF WinProcessInv, TypeOK
<1>2. ASSUME WinProcessInv, [Next]_vars PROVE WinProcessInv'
  <2>1. CASE \/ \E p \in Pid : Exit(p)
             \/ \E p \in Pid, a \in App : Start(p, a)
             \/ \E s \in Svc, p \in Pid : StartService(s, p)
             \/ \E s \in Svc : StopService(s)
             \/ \E t \in Port, p \in Pid : Listen(t, p) \/ Unlisten(t, p)
    BY <1>2, <2>1, HostSteps, HostKeeps DEF WinProcessInv
  <2>2. CASE \/ \E a \in App : Call("kill", a) \/ Call("path", a)
             \/ \E s \in Svc : Call("svrPath", s)
             \/ Call("ports", Null)
    BY <1>2, <2>2, CallKeeps
  <2>3. CASE UNCHANGED vars
    <3>1. HostStep
      BY <1>2, <2>3 DEF vars, hostVars, callVars, HostStep, WinProcessInv,
         TypeOK, HostTypes,
         FoundTypes, Running
    <3> QED
      BY <1>2, <3>1, HostKeeps
  <2> QED
    BY <1>2, <2>1, <2>2, <2>3, ProcsKeeps, SvrsKeeps, TableKeeps, OpenKeeps,
       ActKeeps,
       NamesKeeps DEF Next
<1> QED
  BY <1>1, <1>2, PTL DEF Spec

\* The variables have their types, services and sockets belong to processes
\* that run, and nothing is left of a call that has returned.
THEOREM WinProcessTypeCorrect == Spec => []TypeOK
<1>1. WinProcessInv => TypeOK
  BY DEF WinProcessInv
<1> QED
  BY <1>1, ProcessInvariant, PTL

\* The process that KillProcessByAppName is about to terminate, or whose path
\* is about to be asked for, is what it was looked up by, unless that ended
\* since: the handle keeps the identifier from being reused, but only from
\* OpenProcess on.
THEOREM RightHandles == Spec => []HandleIsRight
<1>1. WinProcessInv => HandleIsRight
  BY DEF WinProcessInv, FoundInv, HandleIsRight, Running
<1> QED
  BY <1>1, ProcessInvariant, PTL

\* Every port of a process that has not ended since the table was fetched is
\* given the name of the process or of a service in it.
THEOREM PortsAreNamed == Spec => PortsNamed
<1> DEFINE Named(t) == table[t] \notin gone =>
              /\ out'[t] # Null
              /\ out'[t] \in App => proc[table[t]] = out'[t]
              /\ out'[t] \in Svc \ gone => svcPid[out'[t]] = table[t]
<1>1. ASSUME WinProcessInv, Names, NEW t \in DOMAIN out' PROVE Named(t)
  <2> USE DEF WinProcessInv, TypeOK
  <2>1. t \in DOMAIN table /\ out'[t] = NameOf(table[t])
    BY <1>1 DEF Names, Return
  <2>2. pc = "names" /\ op = "ports"
    BY <1>1, StepsOf DEF Names, CallTypes
  <2>3. table[t] \in Pid /\ 0 \notin Pid
    BY <1>1, <2>1, MaxPidAssumption DEF FoundTypes, Range, Pid
  <2>4. ASSUME table[t] \notin gone
        PROVE  /\ table[t] \in DOMAIN mapProcInfo
               /\ mapProcInfo[table[t]] = proc[table[t]] /\ proc[table[t]] \in App
    <3>1. /\ table[t] \in Running /\ table[t] \in DOMAIN mapProcInfo
          /\ mapProcInfo[table[t]] = proc[table[t]]
      BY <1>1, <2>1, <2>2, <2>4 DEF TableInv
    <3> QED
      BY <1>1, <2>3, <3>1 DEF FoundTypes, Range
  <2>5. CASE table[t] \in DOMAIN mapSvrInfo
    <3>1. out'[t] = mapSvrInfo[table[t]] /\ out'[t] \in Svc
      BY <1>1, <2>1, <2>5 DEF NameOf, FoundTypes, Range
    <3>2. out'[t] \notin gone => svcPid[out'[t]] = table[t]
      BY <1>1, <2>2, <2>3, <2>5, <3>1 DEF SvrInv
    <3> QED
      BY <3>1, <3>2, NullAssumption, NamesAssumption
  <2>6. CASE table[t] \notin DOMAIN mapSvrInfo
    BY <2>1, <2>4, <2>6, NullAssumption, NamesAssumption DEF NameOf
  <2> QED
    BY <2>5, <2>6
<1>2. ASSUME WinProcessInv, [Next]_vars, pc = "names", ~Names PROVE out' = Empty
  <2>1. out = Empty
    BY <1>2 DEF WinProcessInv, OutInv
  <2>2. UNCHANGED out
    BY <1>2 DEF Next, vars, callVars, Exit, Start, StartService, StopService,
       Listen,
       Unlisten, Call, Procs, Svrs, Table, Open, Terminate, Image
  <2> QED
    BY <2>1, <2>2
<1>3. WinProcessInv /\ [Next]_vars =>
         [pc = "names" => \A t \in DOMAIN out' : Named(t)]_vars
  BY <1>1, <1>2 DEF Empty
<1> QED
  BY <1>3, ProcessInvariant, PTL DEF Spec, PortsNamed
=============================================================================
