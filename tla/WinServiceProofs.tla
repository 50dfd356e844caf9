-------------------------- MODULE WinServiceProofs --------------------------
(***************************************************************************)
(* Proofs about WinService: its type invariant, that ServiceControl does   *)
(* not report success about a service that has stood in the opposite state *)
(* all the time, and that StopService does not report success about a list *)
(* with an entry that it skipped or that has run undisturbed.              *)
(***************************************************************************)
EXTENDS WinService, SequenceTheorems, TLAPS

-----------------------------------------------------------------------------
(* The inductive invariant.                                                *)

\* ServiceControl tells a service to do what it was called for, and waits for
\* one only after its state has changed.
ControlInv ==
    /\ pc \in {"tellStop", "waitStop"} => ~bRun
    /\ pc \in {"tellStart", "waitStart"} => bRun
    /\ pc \in {"waitStop", "waitStart"} => svr \notin same

\* An entry of the list that is dealt with.
Done(e) == e.iState # "UNKNOW" /\ ~Undisturbed(e.strSvrName, "running")

\* StopService has dealt with all entries before the one it is at.
StopInv ==
    pc \in Stops => \A i \in DOMAIN vctSvrList : i < it => Done(vctSvrList[i])

WinServiceInv == TypeOK /\ ControlInv /\ StopInv

-----------------------------------------------------------------------------
(* The lists.                                                              *)

\* RemoveAt takes one element out and moves those behind it up.
LEMMA Removed ==
  ASSUME NEW S, NEW q \in Seq(S), NEW n \in 1 .. Len(q)
  PROVE  /\ RemoveAt(q, n) \in Seq(S)
         /\ Len(RemoveAt(q, n)) = Len(q) - 1
         /\ \A k \in 1 .. Len(q) - 1 : RemoveAt(q, n)[k] = IF k < n THEN q[k] ELSE q[k + 1]
<1>1. Len(q) \in Nat /\ n \in Nat
   BY LenProperties
<1> DEFINE a == SubSeq(q, 1, n - 1)
           b == SubSeq(q, n + 1, Len(q))
<1>2. a \in Seq(S) /\ Len(a) = n - 1 /\ \A k \in 1 .. n - 1 : a[k] = q[k]
  <2>1. CASE n = 1
    BY <2>1, SubSeqEmpty, EmptySeq, SubSeqProperties, <1>1
  <2>2. CASE n > 1
    BY <2>2, <1>1, SubSeqProperties
  <2> QED BY <2>1, <2>2, <1>1
<1>3. b \in Seq(S) /\ Len(b) = Len(q) - n /\ \A k \in 1 .. Len(q) - n : b[k] = q[n + k]
  <2>1. CASE n = Len(q)
    BY <2>1, <1>1, SubSeqEmpty, EmptySeq, SubSeqProperties
  <2>2. CASE n < Len(q)
    BY <2>2, <1>1, SubSeqProperties
  <2> QED BY <2>1, <2>2, <1>1
<1>4. RemoveAt(q, n) = a \o b
  BY DEF RemoveAt
<1> HIDE DEF a, b
<1>5. RemoveAt(q, n) \in Seq(S) /\ Len(RemoveAt(q, n)) = Len(q) - 1
  <2>1. a \o b \in Seq(S) /\ Len(a \o b) = Len(a) + Len(b)
    BY <1>2, <1>3, ConcatProperties
  <2> QED
    BY <1>1, <1>2, <1>3, <1>4, <2>1
<1>6. ASSUME NEW k \in 1 .. Len(q) - 1
      PROVE  RemoveAt(q, n)[k] = IF k < n THEN q[k] ELSE q[k + 1]
  <2>1. CASE k < n
    <3>1. k \in 1 .. Len(a)
      BY <2>1, <1>1, <1>2
    <3>2. (a \o b)[k] = a[k]
      BY <3>1, <1>2, <1>3, ConcatProperties
    <3> QED
      BY <2>1, <3>1, <3>2, <1>2, <1>4
  <2>2. CASE ~(k < n)
    <3>1. k \in Len(a) + 1 .. Len(a) + Len(b) /\ k - Len(a) = k + 1 - n
      BY <2>2, <1>1, <1>2, <1>3
    <3>2. (a \o b)[k] = b[k - Len(a)]
      BY <3>1, <1>2, <1>3, ConcatProperties
    <3>3. b[k + 1 - n] = q[k + 1]
      BY <2>2, <1>1, <1>3
    <3> QED
      BY <2>2, <3>1, <3>2, <3>3, <1>4
  <2> QED
    BY <2>1, <2>2
<1> QED
  BY <1>5, <1>6

\* Mark changes the state of one entry.
LEMMA MarkEffect ==
  ASSUME vctSvrList \in Seq(Entries), it \in 1 .. Len(vctSvrList),
         NEW v \in {"RUN", "STOP"}, Mark(v)
  PROVE  /\ vctSvrList' \in Seq(Entries) /\ Len(vctSvrList') = Len(vctSvrList)
         /\ vctSvrList'[it].iState = v
         /\ vctSvrList'[it].strSvrName = vctSvrList[it].strSvrName
         /\ \A k \in 1 .. Len(vctSvrList) : k # it => vctSvrList'[k] = vctSvrList[k]
<1> DEFINE q == vctSvrList
           e == [q[it] EXCEPT !.iState = v]
<1>1. vctSvrList' = [q EXCEPT ![it] = e]
  BY DEF Mark
<1>2. Len(q) \in Nat /\ q \in [1 .. Len(q) -> Entries] /\ q[it] \in Entries
  BY LenProperties
<1>3. e \in Entries /\ e.iState = v /\ e.strSvrName = q[it].strSvrName
  BY <1>2 DEF Entries
<1> HIDE DEF e, q
<1>4. /\ vctSvrList' \in [1 .. Len(q) -> Entries]
      /\ vctSvrList'[it] = e
      /\ \A k \in 1 .. Len(q) : k # it => vctSvrList'[k] = q[k]
  BY <1>1, <1>2, <1>3 DEF q
<1>5. vctSvrList' \in Seq(Entries) /\ Len(vctSvrList') = Len(q)
  BY <1>2, <1>4
<1> QED
  BY <1>3, <1>4, <1>5 DEF q

\* The list that StopService is given, with every entry unknown.
LEMMA Listed ==
  ASSUME NEW l \in Lists
  PROVE  [i \in DOMAIN l |-> [strSvrName |-> l[i], iState |-> "UNKNOW"]] \in Seq(Entries)
<1>1. l \in Seq(Svc)
  BY ListsAssumption
<1>2. Len(l) \in Nat /\ l \in [1 .. Len(l) -> Svc] /\ DOMAIN l = 1 .. Len(l)
  BY <1>1, LenProperties
<1>3. \A i \in 1 .. Len(l) : [strSvrName |-> l[i], iState |-> "UNKNOW"] \in Entries
  BY <1>2 DEF Entries
<1> QED
  BY <1>2, <1>3

-----------------------------------------------------------------------------
(* The steps.                                                              *)

\* What a change of one service leaves alone.
LEMMA BecomesEffect ==
  ASSUME ServiceTypes, NEW s \in Svc, NEW v \in States, Becomes(s, v),
         v = "absent" => s \notin handles
  PROVE  /\ handles' = handles => ServiceTypes'
         /\ s \notin same' /\ same' \subseteq same
         /\ \A r, w : Undisturbed(r, w)' => Undisturbed(r, w)
BY DEF ServiceTypes, Becomes, Undisturbed

\* The services, and what others do to them, leave the call alone.
LEMMA OthersEffect ==
  ASSUME NEW s \in Svc, Settle(s) \/ End(s) \/ Others(s)
  PROVE  \E v \in States : /\ Becomes(s, v) /\ UNCHANGED callVars
                           /\ v = "absent" => s \notin handles
BY DEF Settle, End, Others, States

\* Every step keeps the types.
LEMMA TypeStep ==
  ASSUME TypeOK, ControlInv, [Next]_vars
  PROVE  TypeOK'
<1> USE DEF TypeOK, Controls, Stops
<1>1. ASSUME NEW s \in Svc, Settle(s) \/ End(s) \/ Others(s) PROVE TypeOK'
  <2>1. PICK v \in States : /\ Becomes(s, v) /\ UNCHANGED callVars
                            /\ v = "absent" => s \notin handles
    BY <1>1, OthersEffect
  <2>2. ServiceTypes'
    BY <2>1, BecomesEffect DEF callVars
  <2>3. CallTypes' /\ ListTypes' /\ bRun' \in BOOLEAN
    BY <2>1 DEF callVars, CallTypes, ListTypes
  <2> QED
    BY <2>2, <2>3
<1>2. ASSUME NEW s \in Svc, NEW b \in BOOLEAN, ServiceControl(s, b) PROVE TypeOK'
  <2>1. ServiceTypes'
    BY <1>2 DEF ServiceTypes, ServiceControl
  <2>2. CallTypes'
    BY <1>2 DEF CallTypes, ServiceControl
  <2>3. ListTypes'
    BY <1>2 DEF ListTypes, ServiceControl
  <2>4. bRun' \in BOOLEAN
    BY <1>2 DEF ServiceControl
  <2> QED
    BY <2>1, <2>2, <2>3, <2>4
<1>3. ASSUME NEW i \in DOMAIN vctSvrList, GetServiceStatus(i) PROVE TypeOK'
  <2>1. i \in 1 .. Len(vctSvrList) /\ Len(vctSvrList) \in Nat
    BY LenProperties DEF ListTypes
  <2>2. ServiceTypes'
    BY <1>3 DEF ServiceTypes, GetServiceStatus
  <2>3. CallTypes'
    BY <1>3 DEF CallTypes, GetServiceStatus
  <2>4. ListTypes'
    BY <1>3, <2>1 DEF ListTypes, GetServiceStatus
  <2>5. bRun' \in BOOLEAN
    BY <1>3 DEF GetServiceStatus
  <2> QED
    BY <2>2, <2>3, <2>4, <2>5
<1>4. ASSUME NEW l \in Lists, StopService(l) PROVE TypeOK'
  <2>1. ServiceTypes'
    BY <1>4 DEF ServiceTypes, StopService
  <2>2. CallTypes'
    BY <1>4 DEF CallTypes, StopService
  <2>3. vctSvrList' \in Seq(Entries)
    BY <1>4, Listed DEF StopService
  <2>4. Len(vctSvrList') \in Nat /\ it' = 1 /\ pc' \in {"idle", "stopOpen"}
    BY <1>4, <2>3, LenProperties DEF StopService
  <2>5. ListTypes'
    BY <2>3, <2>4 DEF ListTypes
  <2>6. bRun' \in BOOLEAN
    BY <1>4 DEF StopService
  <2> QED
    BY <2>1, <2>2, <2>5, <2>6
<1>5. ASSUME NEW r \in {"OK", "ERROR"}, Return(r), UNCHANGED <<vctSvrList, it>>,
             handles' = handles
      PROVE  TypeOK'
  <2>1. ServiceTypes'
    BY <1>5 DEF ServiceTypes, Return
  <2>2. CallTypes'
    BY <1>5 DEF CallTypes, Return
  <2>3. ListTypes'
    BY <1>5 DEF ListTypes, Return
  <2>4. bRun' \in BOOLEAN
    BY <1>5 DEF Return
  <2> QED
    BY <2>1, <2>2, <2>3, <2>4
<1>6. ASSUME NEW s \in Svc, Open(s), Stay PROVE ServiceTypes' /\ s \in handles'
  BY <1>6 DEF ServiceTypes, Open, Stay
<1>7. CASE ControlOpen
  <2>1. CASE Open(svr) /\ Goto("query") /\ Stay /\ pc = "open" /\ UNCHANGED <<vctSvrList, it>>
    <3>1. svr \in Svc
      BY <2>1 DEF CallTypes
    <3>2. ServiceTypes' /\ svr \in handles'
      BY <2>1, <3>1, <1>6
    <3>3. CallTypes'
      BY <2>1, <3>1, <3>2 DEF CallTypes, Goto
    <3>4. ListTypes' /\ bRun' = bRun
      BY <2>1 DEF ListTypes, Goto
    <3> QED
      BY <3>2, <3>3, <3>4
  <2> QED
    BY <1>5, <1>7, <2>1 DEF ControlOpen
<1>8. CASE ControlQuery
  <2>1. CASE /\ pc = "query" /\ AfterQuery(state[svr]) # "idle"
             /\ Goto(AfterQuery(state[svr])) /\ Stay
             /\ UNCHANGED <<handles, vctSvrList, it>>
    <3>1. pc' \in {"tellStop", "tellStart"} /\ UNCHANGED <<svr, bRun, ret>>
      BY <2>1 DEF Goto, AfterQuery
    <3>2. ServiceTypes'
      BY <2>1 DEF ServiceTypes, Stay
    <3>3. CallTypes'
      BY <2>1, <3>1 DEF CallTypes
    <3>4. ListTypes' /\ bRun' = bRun
      BY <2>1, <3>1 DEF ListTypes
    <3> QED
      BY <3>2, <3>3, <3>4
  <2> QED
    BY <1>5, <1>8, <2>1 DEF ControlQuery
<1>9. CASE ControlTell
  <2>1. ASSUME NEW v \in {"startPending", "stopPending"}, Becomes(svr, v),
               NEW l \in {"waitStop", "waitStart"}, Goto(l),
               pc \in {"tellStop", "tellStart"}, UNCHANGED <<handles, vctSvrList, it>>
        PROVE  TypeOK'
    <3>1. svr \in Svc
      BY <2>1 DEF CallTypes
    <3>2. ServiceTypes'
      BY <2>1, <3>1, BecomesEffect DEF States
    <3>3. CallTypes'
      BY <2>1 DEF CallTypes, Goto
    <3>4. ListTypes' /\ bRun' = bRun
      BY <2>1 DEF ListTypes, Goto
    <3> QED
      BY <3>2, <3>3, <3>4
  <2>2. CASE pc = "tellStop" /\ TellStop(svr) /\ Goto("waitStop")
    BY <1>9, <2>1, <2>2 DEF ControlTell, TellStop
  <2>3. CASE pc = "tellStart" /\ TellStart(svr) /\ Goto("waitStart")
    BY <1>9, <2>1, <2>3 DEF ControlTell, TellStart
  <2> QED
    BY <1>5, <1>9, <2>2, <2>3 DEF ControlTell
<1>10. CASE ControlWait \/ ControlLost
  BY <1>5, <1>10 DEF ControlWait, ControlLost
<1>11. CASE StatusOpen \/ StopOpen
  <2>1. Len(vctSvrList) \in Nat /\ it \in 1 .. Len(vctSvrList)
    BY <1>11, LenProperties DEF ListTypes, StatusOpen, StopOpen
  <2>2. vctSvrList[it] \in Entries
    BY <2>1, ElementOfSeq DEF ListTypes
  <2>3. Name \in Svc
    BY <2>2 DEF Name, Entries
  <2>4. ASSUME NEW l \in {"statusQuery", "stopQuery"}, Open(Name), Goto(l), Stay,
               UNCHANGED <<vctSvrList, it>>
        PROVE  TypeOK'
    <3>1. ServiceTypes'
      BY <1>6, <2>3, <2>4
    <3>2. CallTypes'
      BY <2>4 DEF CallTypes, Goto
    <3>3. ListTypes' /\ bRun' = bRun
      BY <2>1, <2>4 DEF ListTypes, Goto
    <3> QED
      BY <3>1, <3>2, <3>3
  <2>5. CASE Erase /\ Goto("stopOpen") /\ handles' = handles /\ Stay
    <3>1. vctSvrList' \in Seq(Entries) /\ Len(vctSvrList') = Len(vctSvrList) - 1 /\ it' = it
      BY <2>1, <2>5, Removed DEF ListTypes, Erase
    <3>2. ListTypes'
      BY <2>1, <2>5, <3>1 DEF ListTypes, Goto
    <3>3. CallTypes' /\ bRun' = bRun
      BY <2>5 DEF CallTypes, Goto
    <3>4. ServiceTypes'
      BY <2>5 DEF ServiceTypes, Stay
    <3> QED
      BY <3>2, <3>3, <3>4
  <2> QED
    BY <1>5, <1>11, <2>4, <2>5 DEF StatusOpen, StopOpen
<1>12. CASE StatusQuery \/ StopQuery \/ StopTell
  <2>1. Len(vctSvrList) \in Nat /\ it \in 1 .. Len(vctSvrList) /\ vctSvrList \in Seq(Entries)
    BY <1>12, LenProperties DEF ListTypes, StatusQuery, StopQuery, StopTell
  <2>2. Name \in Svc
    <3>1. vctSvrList[it] \in Entries
      BY <2>1, ElementOfSeq
    <3> QED
      BY <3>1 DEF Name, Entries
  <2>3. ASSUME NEW v \in {"RUN", "STOP"}, Mark(v)
        PROVE  vctSvrList' \in Seq(Entries) /\ Len(vctSvrList') = Len(vctSvrList)
    BY <2>1, <2>3, MarkEffect
  <2>4. CASE state[Name] = "stopped" /\ Mark("STOP") /\ Return("OK") /\ UNCHANGED <<handles, it>>
    <3>1. ListTypes'
      BY <2>1, <2>3, <2>4 DEF ListTypes, Return
    <3>2. ServiceTypes' /\ CallTypes'
      BY <2>4 DEF ServiceTypes, CallTypes, Return
    <3>3. bRun' \in BOOLEAN
      BY <2>4 DEF Return
    <3> QED
      BY <3>1, <3>2, <3>3
  <2>5. CASE Goto("stopTell") /\ Stay /\ UNCHANGED <<handles, vctSvrList, it>>
    <3>1. ListTypes' /\ bRun' = bRun
      BY <2>1, <2>5 DEF ListTypes, Goto
    <3>2. ServiceTypes' /\ CallTypes'
      BY <2>5 DEF ServiceTypes, CallTypes, Stay, Goto
    <3> QED
      BY <3>1, <3>2
  <2>6. ASSUME NEW v \in {"RUN", "STOP"}, Mark(v), Advance
        PROVE  CallTypes' /\ ListTypes' /\ bRun' = bRun
    <3>1. it' = it + 1 /\ pc' = "stopOpen"
      BY <2>6 DEF Advance, Goto
    <3>2. ListTypes'
      BY <2>1, <2>3, <2>6, <3>1 DEF ListTypes
    <3>3. CallTypes' /\ bRun' = bRun
      BY <2>6 DEF CallTypes, Advance, Goto
    <3> QED
      BY <3>2, <3>3
  <2>7. CASE Mark("STOP") /\ Advance /\ Stay /\ UNCHANGED handles
    BY <2>6, <2>7 DEF ServiceTypes, Stay
  <2>8. CASE TellStop(Name) /\ Mark("RUN") /\ Advance /\ UNCHANGED handles
    <3>1. ServiceTypes'
      BY <2>2, <2>8, BecomesEffect DEF TellStop, States
    <3> QED
      BY <2>6, <2>8, <3>1
  <2> QED
    BY <1>5, <1>12, <2>4, <2>5, <2>7, <2>8 DEF StatusQuery, StopQuery,
       StopTell, StopFails
<1>13. CASE StopReturns
  BY <1>5, <1>13 DEF StopReturns
<1>14. CASE UNCHANGED vars
  BY <1>14 DEF vars, callVars, ServiceTypes, CallTypes, ListTypes
<1> QED
  BY <1>1, <1>2, <1>3, <1>4, <1>7, <1>8, <1>9, <1>10, <1>11, <1>12, <1>13,
     <1>14 DEF Next, Run

\* Every step keeps what ServiceControl was called for.
LEMMA ControlStep ==
  ASSUME TypeOK, ControlInv, [Next]_vars
  PROVE  ControlInv'
<1> USE DEF ControlInv
<1>1. ASSUME NEW s \in Svc, Settle(s) \/ End(s) \/ Others(s) PROVE ControlInv'
  <2>1. PICK v \in States : /\ Becomes(s, v) /\ UNCHANGED callVars
                            /\ v = "absent" => s \notin handles
    BY <1>1, OthersEffect
  <2> QED
    BY <2>1, BecomesEffect DEF TypeOK, callVars
<1>2. ASSUME NEW s \in Svc, NEW b \in BOOLEAN, ServiceControl(s, b) PROVE ControlInv'
  BY <1>2 DEF ServiceControl
<1>3. ASSUME NEW i \in DOMAIN vctSvrList, GetServiceStatus(i) PROVE ControlInv'
  BY <1>3 DEF GetServiceStatus
<1>4. ASSUME NEW l \in Lists, StopService(l) PROVE ControlInv'
  BY <1>4 DEF StopService
<1>5. CASE pc' = "idle"
  BY <1>5
<1>6. CASE ControlOpen
  BY <1>6 DEF ControlOpen, Goto, Return
<1>7. CASE ControlQuery
  BY <1>7 DEF TypeOK, ControlQuery, AfterQuery, Goto, Return
<1>8. CASE ControlTell
  <2>1. (svr \notin same' /\ UNCHANGED <<svr, bRun>>) \/ pc' = "idle"
    BY <1>8 DEF ControlTell, TellStop, TellStart, Becomes, Goto, Return
  <2> QED
    BY <1>5, <1>8, <2>1 DEF ControlTell, Goto, Return
<1>9. CASE pc' \in {"statusQuery", "stopQuery", "stopTell", "stopOpen"}
  BY <1>9
<1>10. CASE \/ ControlWait \/ ControlLost \/ StatusOpen \/ StatusQuery \/ StopOpen
            \/ StopQuery \/ StopTell \/ StopReturns
  BY <1>5, <1>9, <1>10 DEF ControlWait, ControlLost, StatusOpen, StatusQuery,
     StopOpen,
     StopQuery, StopTell, StopReturns, StopFails, Advance, Goto, Return
<1>11. CASE UNCHANGED vars
  BY <1>11 DEF vars, callVars
<1> QED
  BY <1>1, <1>2, <1>3, <1>4, <1>6, <1>7, <1>8, <1>10, <1>11 DEF Next, Run

\* Every step keeps the entries that StopService has dealt with.
LEMMA StopStep ==
  ASSUME TypeOK, StopInv, [Next]_vars
  PROVE  StopInv'
<1> USE DEF Stops
<1>1. vctSvrList \in Seq(Entries) /\ Len(vctSvrList) \in Nat /\ it \in 1 .. Len(vctSvrList) + 1
  BY LenProperties DEF TypeOK, ListTypes
<1>2. DOMAIN vctSvrList = 1 .. Len(vctSvrList)
  BY <1>1, LenProperties
<1>3. ASSUME NEW s \in Svc, Settle(s) \/ End(s) \/ Others(s) PROVE StopInv'
  <2>1. PICK v \in States : /\ Becomes(s, v) /\ UNCHANGED callVars
                            /\ v = "absent" => s \notin handles
    BY <1>3, OthersEffect
  <2>2. \A r : Undisturbed(r, "running")' => Undisturbed(r, "running")
    BY <2>1, BecomesEffect DEF TypeOK
  <2> QED
    BY <2>1, <2>2 DEF callVars, StopInv, Done
<1>4. ASSUME NEW l \in Lists, StopService(l) PROVE StopInv'
  <2>1. vctSvrList' \in Seq(Entries) /\ it' = 1
    BY <1>4, Listed DEF StopService
  <2>2. DOMAIN vctSvrList' = 1 .. Len(vctSvrList') /\ Len(vctSvrList') \in Nat
    BY <2>1, LenProperties
  <2> QED
    BY <2>1, <2>2 DEF StopInv
<1>5. CASE pc' \notin Stops
  BY <1>5 DEF StopInv
<1>6. CASE StopOpen
  <2>1. it \in 1 .. Len(vctSvrList) /\ UNCHANGED <<state, same>> /\ pc \in Stops
    BY <1>1, <1>6 DEF StopOpen, Stay
  <2>2. \A e : Done(e)' <=> Done(e)
    BY <2>1 DEF Done, Undisturbed
  <2>3. CASE UNCHANGED <<vctSvrList, it>>
    BY <2>1, <2>2, <2>3 DEF StopInv
  <2>4. CASE Erase
    <3>1. /\ vctSvrList' \in Seq(Entries) /\ Len(vctSvrList') = Len(vctSvrList) - 1 /\ it' = it
          /\ \A k \in 1 .. Len(vctSvrList) - 1 : k < it => vctSvrList'[k] = vctSvrList[k]
      BY <1>1, <2>1, <2>4, Removed DEF Erase
    <3>2. DOMAIN vctSvrList' = 1 .. Len(vctSvrList) - 1
      BY <3>1, LenProperties
    <3>3. \A i \in DOMAIN vctSvrList' : i < it' => Done(vctSvrList'[i])
      BY <1>1, <1>2, <2>1, <3>1, <3>2 DEF StopInv
    <3> QED
      BY <2>2, <3>3 DEF StopInv
  <2> QED
    BY <1>6, <2>3, <2>4 DEF StopOpen
<1>7. CASE StopQuery \/ StopTell
  <2>1. it \in 1 .. Len(vctSvrList) /\ pc \in Stops
    BY <1>1, <1>7 DEF TypeOK, ListTypes, StopQuery, StopTell
  <2>2. PICK n \in Svc : n = Name
    <3>1. vctSvrList[it] \in Entries
      BY <1>1, <2>1, ElementOfSeq
    <3> QED
      BY <3>1 DEF Name, Entries
  <2>3. CASE Goto("stopTell") /\ Stay /\ UNCHANGED <<vctSvrList, it>>
    BY <2>1, <2>3 DEF StopInv, Done, Undisturbed, Stay
  <2>4. ASSUME NEW v \in {"RUN", "STOP"}, Mark(v), Advance,
               \A r : Undisturbed(r, "running")' => Undisturbed(r, "running"),
               ~Undisturbed(n, "running")'
        PROVE  StopInv'
    <3>1. /\ vctSvrList' \in Seq(Entries) /\ Len(vctSvrList') = Len(vctSvrList)
          /\ vctSvrList'[it].iState = v /\ vctSvrList'[it].strSvrName = n
          /\ \A k \in 1 .. Len(vctSvrList) : k # it => vctSvrList'[k] = vctSvrList[k]
      BY <1>1, <2>1, <2>2, <2>4, MarkEffect DEF Name
    <3>2. it' = it + 1 /\ DOMAIN vctSvrList' = 1 .. Len(vctSvrList)
      BY <2>4, <3>1, LenProperties DEF Advance
    <3>3. PICK e \in Entries : e = vctSvrList'[it]
      BY <1>1, <2>1, <3>1, ElementOfSeq
    <3>4. Done(e)'
      BY <2>4, <3>1, <3>3 DEF Done
    <3> QED
      BY <1>1, <1>2, <2>1, <2>4, <3>1, <3>2, <3>3, <3>4 DEF StopInv, Done
  <2>5. CASE StopQuery /\ state[Name] # "running" /\ Mark("STOP") /\ Advance /\ Stay
    BY <2>2, <2>4, <2>5 DEF Undisturbed, Stay
  <2>6. CASE TellStop(Name) /\ Mark("RUN") /\ Advance
    <3>1. ServiceTypes /\ Becomes(n, "stopPending")
      BY <2>2, <2>6 DEF TypeOK, TellStop
    <3>2. n \notin same' /\ \A r, w : Undisturbed(r, w)' => Undisturbed(r, w)
      BY <3>1, BecomesEffect DEF States
    <3>3. ~Undisturbed(n, "running")'
      BY <3>2 DEF Undisturbed
    <3> QED
      BY <2>4, <2>6, <3>2, <3>3
  <2>7. CASE StopFails
    BY <1>5, <2>7 DEF StopFails, Return
  <2> QED
    BY <1>7, <2>3, <2>5, <2>6, <2>7 DEF StopQuery, StopTell
<1>8. ASSUME NEW s \in Svc, NEW b \in BOOLEAN, ServiceControl(s, b) PROVE pc' \notin Stops
  BY <1>8 DEF ServiceControl
<1>9. ASSUME NEW i \in DOMAIN vctSvrList, GetServiceStatus(i) PROVE pc' \notin Stops
  BY <1>9 DEF GetServiceStatus
<1>10. CASE \/ ControlOpen \/ ControlQuery \/ ControlTell \/ ControlWait \/ ControlLost
            \/ StatusOpen \/ StatusQuery \/ StopReturns
  <2>1. pc' \notin Stops
    BY <1>10 DEF ControlOpen, ControlQuery, AfterQuery, ControlTell,
       ControlWait, ControlLost,
       StatusOpen, StatusQuery, StopReturns, Goto, Return
  <2> QED
    BY <1>5, <2>1
<1>11. CASE UNCHANGED vars
  BY <1>11 DEF vars, callVars, StopInv, Done, Undisturbed
<1> QED
  BY <1>3, <1>4, <1>5, <1>6, <1>7, <1>8, <1>9, <1>10, <1>11 DEF Next, Run

-----------------------------------------------------------------------------
(* Theorems.                                                               *)

\* The inductive invariant.
LEMMA ServiceInvariant == Spec => []WinServiceInv
<1>1. Init => WinServiceInv
  <2> SUFFICES ASSUME Init PROVE WinServiceInv
    OBVIOUS
  <2>1. ServiceTypes /\ CallTypes /\ bRun \in BOOLEAN
    BY DEF Init, ServiceTypes, CallTypes, Controls, Stops, States
  <2>2. ListTypes
    BY EmptySeq DEF Init, ListTypes
  <2>3. ControlInv /\ StopInv
    BY DEF Init, ControlInv, StopInv, Stops
  <2> QED
    BY <2>1, <2>2, <2>3 DEF WinServiceInv, TypeOK
<1>2. WinServiceInv /\ [Next]_vars => WinServiceInv'
  BY TypeStep, ControlStep, StopStep DEF WinServiceInv
<1> QED
  BY <1>1, <1>2, PTL DEF Spec

\* The variables have their types: a service in use is held, and the iterator
\* of StopService never passes the end of its list.
THEOREM WinServiceTypeCorrect == Spec => []TypeOK
<1>1. WinServiceInv => TypeOK
  BY DEF WinServiceInv
<1> QED
  BY <1>1, ServiceInvariant, PTL

\* ServiceControl does not answer DTK_OK about a service that has stood in the
\* opposite of the asked state from the call to the answer, whatever the
\* service and other programs do between its query, its control and its loop.
THEOREM ControlsHaveEffect == Spec => ControlHasEffect
<1>1. ASSUME WinServiceInv, [Next]_vars, pc' = "idle", ret' = "OK", pc \in Controls
      PROVE  ~Undisturbed(svr, IF bRun THEN "stopped" ELSE "running")
  <2> USE DEF Controls
  <2>1. ControlQuery \/ ControlWait \/ ControlLost
    BY <1>1 DEF Next, Run, Settle, End, Others, callVars, vars,
       ServiceControl, GetServiceStatus,
       StopService, ControlOpen, ControlTell, StatusOpen, StatusQuery, StopOpen, StopQuery,
       StopTell, StopReturns, Goto, Return
  <2>2. CASE ControlWait \/ ControlLost
    BY <1>1, <2>2 DEF WinServiceInv, ControlInv, ControlWait, ControlLost,
       Undisturbed
  <2>3. CASE ControlQuery
    BY <1>1, <2>3 DEF ControlQuery, AfterQuery, Goto, Return, Undisturbed
  <2> QED
    BY <2>1, <2>2, <2>3
<1>2. WinServiceInv /\ [Next]_vars =>
         [pc' = "idle" /\ ret' = "OK" /\ pc \in Controls =>
             ~Undisturbed(svr, IF bRun THEN "stopped" ELSE "running")]_vars
  BY <1>1
<1> QED
  BY <1>2, ServiceInvariant, PTL DEF Spec, ControlHasEffect

\* When StopService answers DTK_OK, it has dealt with every service that is
\* still in its list, although it erases entries under its iterator.
THEOREM StopListsHaveEffect == Spec => StopListHasEffect
<1>1. ASSUME WinServiceInv, [Next]_vars, pc' = "idle", ret' = "OK", pc \in Stops,
             NEW i \in DOMAIN vctSvrList
      PROVE  Done(vctSvrList[i])
  <2> USE DEF Stops
  <2>1. StopReturns
    BY <1>1 DEF Next, Run, Settle, End, Others, callVars, vars,
       ServiceControl, GetServiceStatus,
       StopService, ControlOpen, ControlQuery, ControlTell, ControlWait, ControlLost, StatusOpen,
       StatusQuery, StopOpen, StopQuery, StopTell, StopFails, Advance, Goto, Return
  <2>2. it > Len(vctSvrList) /\ Len(vctSvrList) \in Nat /\ i \in 1 .. Len(vctSvrList) /\ it \in Nat
    BY <1>1, <2>1, LenProperties DEF StopReturns, WinServiceInv, TypeOK,
       ListTypes
  <2>3. i < it
    BY <2>2
  <2> QED
    BY <1>1, <2>3 DEF WinServiceInv, StopInv
<1>2. WinServiceInv /\ [Next]_vars =>
         [pc' = "idle" /\ ret' = "OK" /\ pc \in Stops =>
            \A i \in DOMAIN vctSvrList :
              /\ vctSvrList[i].iState # "UNKNOW"
              /\ ~Undisturbed(vctSvrList[i].strSvrName, "running")]_vars
  BY <1>1 DEF Done
<1> QED
  BY <1>2, ServiceInvariant, PTL DEF Spec, StopListHasEffect
=============================================================================
