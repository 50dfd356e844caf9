--------------------------- MODULE FireWallProofs ---------------------------
(***************************************************************************)
(* Theorems about CFireWallMgr for any applications and ports: the types,  *)
(* that no call leaks an interface, a string or an initialisation of COM,  *)
(* that a result means what it says, and that nothing is done twice.       *)
(***************************************************************************)
EXTENDS FireWall, SequenceTheorems, TLAPS

\* What a step gets: the item of a rule by Item, or what it is named after.
Gets(s) == IF s = "Item" THEN "item" ELSE s

\* The calls of interfaces of each part of a function, the last of them too.
Puts == {"put_ProcessImageFileName", "put_Port", "put_Protocol", "put_Name"}
Final(p, o) ==
    IF p = "init" THEN "profile"
    ELSE IF p = "ask" THEN "get_Enabled"
    ELSE IF o \in {"TurnOnFirewall", "TurnOffFirewall"} THEN "put_Enabled"
    ELSE IF o \in {"AddApplication", "AddPortRule"} THEN "Add" ELSE "Remove"
Steps(p, o) ==
    {Final(p, o)} \cup
    IF p = "init" THEN {"fwMgr", "fwPolicy"}
    ELSE IF p = "ask" THEN {"list", "bstrFile", "Item"}
    ELSE {"list", "item", "bstrFile", "bstrName"} \cup Puts

\* The rest of a function: it gets nothing twice, ends with the call that
\* answers or changes, and asks an item right after it got it.
Program(s, p, o) ==
    /\ s \in Seq(Steps(p, o))
    /\ s # <<>> => s[Len(s)] = Final(p, o)
    /\ \A i, j \in 1 .. Len(s) : i < j => Gets(s[i]) # Gets(s[j])
    /\ \A i \in 2 .. Len(s) : s[i] = "get_Enabled" => s[i - 1] = "Item"

\* Every call is at some point of such a program.
ProgramInv == pc # "idle" => Program(todo, pc, op)

\* Every pointer that is not NULL counts, once, and none is got again; COM
\* and the profile belong together but for the time in Init.
LeakInv ==
    /\ \A k \in Locals : refs[k] = IF k \in held THEN 1 ELSE 0
    /\ refs["profile"] = IF m_pFireWallProfile THEN 1 ELSE 0
    /\ com = IF m_pFireWallProfile \/ pc = "init" THEN 1 ELSE 0
    /\ pc = "idle" => held = {}
    /\ pc = "init" => (m_pFireWallProfile <=> todo = <<>>)
    /\ pc \in {"ask", "change"} => m_pFireWallProfile
    /\ \A i \in 1 .. Len(todo) : Gets(todo[i]) \notin held

\* What a function makes of its rule.
Effect(o) ==
    IF o \in {"TurnOnFirewall", "AddApplication", "AddPortRule"} THEN "enabled"
    ELSE IF o = "TurnOffFirewall" THEN "disabled" ELSE "absent"

\* What the call knows of its rule as long as nobody else changes it: the item
\* it has got is there, its answer is right, and so is its change.
KnowInv ==
    /\ pc \in {"idle", "init"} => ~mine /\ same = {}
    /\ pc = "ask" => ~mine /\ (todo # <<>> => ~bEnable)
    /\ pc = "change" => Acts(op) /\ (mine <=> todo = <<>>)
    /\ failed => arg \in Apps
    /\ pc = "ask" /\ todo # <<>> /\ Head(todo) = "get_Enabled" /\ arg \in same
          => state[arg] # "absent"
    /\ (pc = "ask" /\ todo = <<>>) \/ (pc = "change" /\ ~mine)
          => (arg \in same /\ ~failed => (bEnable <=> state[arg] = "enabled"))
    /\ mine /\ arg \in same => state[arg] = Effect(op)

FireWallInv == TypeOK /\ ProgramInv /\ LeakInv /\ KnowInv
-----------------------------------------------------------------------------
\* The empty rest is a program.
LEMMA NoProgram == ASSUME NEW p, NEW o PROVE Program(<<>>, p, o)
BY DEF Program

\* What a function has left after a step is a program again, gets nothing that
\* the step got, and is empty exactly after the last step.
LEMMA RestProgram ==
  ASSUME NEW p, NEW o, NEW s, Program(s, p, o), s # <<>>
  PROVE  /\ Program(Tail(s), p, o)
         /\ Head(s) \in Steps(p, o)
         /\ Tail(s) = <<>> <=> Head(s) = Final(p, o)
         /\ \A i \in 1 .. Len(Tail(s)) :
               Tail(s)[i] = s[i + 1] /\ Gets(Tail(s)[i]) # Gets(Head(s))
         /\ Tail(s) # <<>> /\ Head(Tail(s)) = "get_Enabled" => Head(s) = "Item"
<1>1. s \in Seq(Steps(p, o)) /\ Len(s) \in Nat /\ Len(s) >= 1
  BY DEF Program
<1>2. /\ Tail(s) \in Seq(Steps(p, o)) /\ Len(Tail(s)) = Len(s) - 1
      /\ Head(s) = s[1] /\ s[1] \in Steps(p, o)
  BY <1>1
<1>3. \A i \in 1 .. Len(Tail(s)) : Tail(s)[i] = s[i + 1] /\ i + 1 \in 2 .. Len(s)
  BY <1>1, <1>2
<1>4. \A i \in 1 .. Len(Tail(s)) : Gets(Tail(s)[i]) # Gets(Head(s))
  BY <1>1, <1>2, <1>3 DEF Program
<1>5. Tail(s) = <<>> <=> Len(s) = 1
  <2>1. Tail(s) = <<>> <=> Len(Tail(s)) = 0
    BY <1>2, EmptySeq
  <2> QED
    BY <1>1, <1>2, <2>1
<1>6. Tail(s) # <<>> => Tail(s)[Len(Tail(s))] = Final(p, o)
  BY <1>1, <1>2, <1>3, <1>5 DEF Program
<1>7. Tail(s) = <<>> <=> Head(s) = Final(p, o)
  BY <1>1, <1>2, <1>4, <1>5, <1>6 DEF Program
<1>8. \A i, j \in 1 .. Len(Tail(s)) : i < j => Gets(Tail(s)[i]) # Gets(Tail(s)[j])
  BY <1>1, <1>2, <1>3 DEF Program
<1>9. \A i \in 2 .. Len(Tail(s)) : Tail(s)[i] = "get_Enabled" => Tail(s)[i - 1] = "Item"
  BY <1>1, <1>2, <1>3 DEF Program
<1>10. Tail(s) # <<>> /\ Head(Tail(s)) = "get_Enabled" => Head(s) = "Item"
  BY <1>1, <1>2, <1>3, <1>5 DEF Program
<1> QED
  BY <1>2, <1>3, <1>4, <1>6, <1>7, <1>8, <1>9, <1>10 DEF Program

\* What Init does to get at the firewall.
LEMMA SetupProgram == Program(Setup, "init", "Init")
<1>1. Setup \in Seq(Steps("init", "Init")) /\ Len(Setup) = 3
  BY DEF Setup, Steps, Final
<1>2. Setup[1] = "fwMgr" /\ Setup[2] = "fwPolicy" /\ Setup[3] = "profile"
  BY DEF Setup
<1> QED
  BY <1>1, <1>2 DEF Program, Gets, Final

\* The questions about a rule begin with get_Enabled only for the firewall as a
\* whole, which needs no list.
LEMMA QuestionProgram ==
  ASSUME NEW x \in Rules, NEW o
  PROVE  Program(Question(x), "ask", o) /\ Question(x) # <<>>
         /\ (Head(Question(x)) = "get_Enabled" => x = Firewall)
<1>1. CASE x = Firewall
  <2>1. Question(x) = <<"get_Enabled">>
    BY <1>1 DEF Question
  <2> QED
    BY <1>1, <2>1 DEF Program, Steps, Gets, Final
<1>2. CASE x # Firewall /\ x \in Apps
  <2> DEFINE s == <<"list", "bstrFile", "Item", "get_Enabled">>
  <2>1. Question(x) = s
    BY <1>2 DEF Question
  <2>2. s \in Seq(Steps("ask", o)) /\ Len(s) = 4
    BY DEF Steps, Final
  <2>3. /\ s[1] = "list" /\ s[2] = "bstrFile" /\ s[3] = "Item" /\ s[4] = "get_Enabled"
        /\ Head(s) = s[1]
    OBVIOUS
  <2> HIDE DEF s
  <2>4. 1 .. Len(s) = {1, 2, 3, 4}
    BY <2>2
  <2>5. \A i, j \in 1 .. Len(s) : i < j => Gets(s[i]) # Gets(s[j])
    BY <2>3, <2>4 DEF Gets
  <2>6. \A i \in 2 .. Len(s) : s[i] = "get_Enabled" => s[i - 1] = "Item"
    BY <2>2, <2>3
  <2>7. s[Len(s)] = Final("ask", o) /\ s # <<>> /\ Head(s) # "get_Enabled"
    <3>1. s[Len(s)] = Final("ask", o)
      BY <2>2, <2>3 DEF Final
    <3>2. s # <<>>
      BY <2>2
    <3>3. Head(s) # "get_Enabled"
      BY <2>3
    <3> QED
      BY <3>1, <3>2, <3>3
  <2>8. Program(s, "ask", o)
    BY <2>2, <2>5, <2>6, <2>7 DEF Program
  <2> QED
    BY <2>1, <2>7, <2>8
<1>3. CASE x # Firewall /\ x \notin Apps
  <2> DEFINE s == <<"list", "Item", "get_Enabled">>
  <2>1. Question(x) = s
    BY <1>3 DEF Question
  <2>2. s \in Seq(Steps("ask", o)) /\ Len(s) = 3
    BY DEF Steps, Final
  <2>3. s[1] = "list" /\ s[2] = "Item" /\ s[3] = "get_Enabled" /\ Head(s) = s[1]
    OBVIOUS
  <2> HIDE DEF s
  <2>4. 1 .. Len(s) = {1, 2, 3}
    BY <2>2
  <2>5. \A i, j \in 1 .. Len(s) : i < j => Gets(s[i]) # Gets(s[j])
    BY <2>3, <2>4 DEF Gets
  <2>6. \A i \in 2 .. Len(s) : s[i] = "get_Enabled" => s[i - 1] = "Item"
    BY <2>2, <2>3
  <2>7. s[Len(s)] = Final("ask", o) /\ s # <<>> /\ Head(s) # "get_Enabled"
    <3>1. s[Len(s)] = Final("ask", o)
      BY <2>2, <2>3 DEF Final
    <3>2. s # <<>>
      BY <2>2, EmptySeq
    <3>3. Head(s) # "get_Enabled"
      BY <2>3
    <3> QED
      BY <3>1, <3>2, <3>3
  <2>8. Program(s, "ask", o)
    BY <2>2, <2>5, <2>6, <2>7 DEF Program
  <2> QED
    BY <2>1, <2>7, <2>8
<1> QED
  BY <1>1, <1>2, <1>3

\* The operations that change something, after they have asked.
Changes == {"TurnOnFirewall", "TurnOffFirewall", "AddApplication", "AddPortRule",
            "RemoveApplication", "RemovePortRule"}

\* What a change does when the question is answered.
LEMMA ChangeProgram ==
  ASSUME NEW o \in Changes
  PROVE  Program(Change(o), "change", o) /\ Change(o) # <<>>
<1>1. CASE o \in {"TurnOnFirewall", "TurnOffFirewall"}
  <2>1. Change(o) = <<"put_Enabled">>
    BY <1>1 DEF Change
  <2> QED
    BY <1>1, <2>1 DEF Program, Steps, Gets, Final
<1>2. CASE o = "AddApplication"
  <2> DEFINE s == <<"list", "item", "bstrFile", "put_ProcessImageFileName",
                    "bstrName", "put_Name", "Add">>
  <2>1. Change(o) = s
    BY <1>2 DEF Change
  <2>2. s \in Seq(Steps("change", o)) /\ Len(s) = 7
    BY <1>2 DEF Steps, Final, Puts
  <2>3. /\ s[1] = "list" /\ s[2] = "item" /\ s[3] = "bstrFile"
        /\ s[4] = "put_ProcessImageFileName" /\ s[5] = "bstrName"
        /\ s[6] = "put_Name" /\ s[7] = "Add"
    OBVIOUS
  <2> HIDE DEF s
  <2>4. 1 .. Len(s) = {1, 2, 3, 4, 5, 6, 7}
    BY <2>2
  <2>5. \A i, j \in 1 .. Len(s) : i < j => Gets(s[i]) # Gets(s[j])
    <3>1. \A i \in 1 .. Len(s) : Gets(s[i]) = s[i]
      BY <2>3, <2>4 DEF Gets
    <3>2. \A i, j \in 1 .. Len(s) : i < j => s[i] # s[j]
      BY <2>3, <2>4, SMTT(30)
    <3> QED
      BY <3>1, <3>2
  <2>6. \A i \in 1 .. Len(s) : s[i] # "get_Enabled"
    BY <2>3, <2>4
  <2>7. s[Len(s)] = Final("change", o) /\ s # <<>>
    BY <1>2, <2>2, <2>3 DEF Final
  <2>8. Program(s, "change", o)
    BY <2>2, <2>5, <2>6, <2>7 DEF Program
  <2> QED
    BY <2>1, <2>7, <2>8
<1>3. CASE o = "AddPortRule"
  <2> DEFINE s == <<"list", "item", "put_Port", "put_Protocol",
                    "bstrName", "put_Name", "Add">>
  <2>1. Change(o) = s
    BY <1>3 DEF Change
  <2>2. s \in Seq(Steps("change", o)) /\ Len(s) = 7
    BY <1>3 DEF Steps, Final, Puts
  <2>3. /\ s[1] = "list" /\ s[2] = "item" /\ s[3] = "put_Port"
        /\ s[4] = "put_Protocol" /\ s[5] = "bstrName"
        /\ s[6] = "put_Name" /\ s[7] = "Add"
    OBVIOUS
  <2> HIDE DEF s
  <2>4. 1 .. Len(s) = {1, 2, 3, 4, 5, 6, 7}
    BY <2>2
  <2>5. \A i, j \in 1 .. Len(s) : i < j => Gets(s[i]) # Gets(s[j])
    <3>1. \A i \in 1 .. Len(s) : Gets(s[i]) = s[i]
      BY <2>3, <2>4 DEF Gets
    <3>2. \A i, j \in 1 .. Len(s) : i < j => s[i] # s[j]
      BY <2>3, <2>4, SMTT(30)
    <3> QED
      BY <3>1, <3>2
  <2>6. \A i \in 1 .. Len(s) : s[i] # "get_Enabled"
    BY <2>3, <2>4
  <2>7. s[Len(s)] = Final("change", o) /\ s # <<>>
    <3>1. Final("change", o) = "Add"
      BY <1>3 DEF Final
    <3>2. s[Len(s)] = s[7] /\ s # <<>>
      BY <2>2
    <3> QED
      BY <2>3, <3>1, <3>2
  <2>8. Program(s, "change", o)
    BY <2>2, <2>5, <2>6, <2>7 DEF Program
  <2> QED
    BY <2>1, <2>7, <2>8
<1>4. CASE o = "RemoveApplication"
  <2> DEFINE s == <<"list", "bstrFile", "Remove">>
  <2>1. Change(o) = s
    BY <1>4 DEF Change
  <2>2. s \in Seq(Steps("change", o)) /\ Len(s) = 3
    BY <1>4 DEF Steps, Final
  <2>3. s[1] = "list" /\ s[2] = "bstrFile" /\ s[3] = "Remove"
    OBVIOUS
  <2> HIDE DEF s
  <2>4. 1 .. Len(s) = {1, 2, 3}
    BY <2>2
  <2>5. \A i, j \in 1 .. Len(s) : i < j => Gets(s[i]) # Gets(s[j])
    <3>1. \A i \in 1 .. Len(s) : Gets(s[i]) = s[i]
      BY <2>3, <2>4 DEF Gets
    <3>2. \A i, j \in 1 .. Len(s) : i < j => s[i] # s[j]
      BY <2>3, <2>4, SMTT(30)
    <3> QED
      BY <3>1, <3>2
  <2>6. \A i \in 1 .. Len(s) : s[i] # "get_Enabled"
    BY <2>3, <2>4
  <2>7. s[Len(s)] = Final("change", o) /\ s # <<>>
    BY <1>4, <2>2, <2>3 DEF Final
  <2>8. Program(s, "change", o)
    BY <2>2, <2>5, <2>6, <2>7 DEF Program
  <2> QED
    BY <2>1, <2>7, <2>8
<1>5. CASE o = "RemovePortRule"
  <2> DEFINE s == <<"list", "Remove">>
  <2>1. Change(o) = s
    BY <1>5 DEF Change
  <2>2. s \in Seq(Steps("change", o)) /\ Len(s) = 2
    BY <1>5 DEF Steps, Final
  <2>3. s[1] = "list" /\ s[2] = "Remove"
    OBVIOUS
  <2> HIDE DEF s
  <2>4. 1 .. Len(s) = {1, 2}
    BY <2>2
  <2>5. \A i, j \in 1 .. Len(s) : i < j => Gets(s[i]) # Gets(s[j])
    <3>1. \A i \in 1 .. Len(s) : Gets(s[i]) = s[i]
      BY <2>3, <2>4 DEF Gets
    <3>2. \A i, j \in 1 .. Len(s) : i < j => s[i] # s[j]
      BY <2>3, <2>4, SMTT(30)
    <3> QED
      BY <3>1, <3>2
  <2>6. \A i \in 1 .. Len(s) : s[i] # "get_Enabled"
    BY <2>3, <2>4
  <2>7. s[Len(s)] = Final("change", o) /\ s # <<>>
    BY <1>5, <2>2, <2>3 DEF Final
  <2>8. Program(s, "change", o)
    BY <2>2, <2>5, <2>6, <2>7 DEF Program
  <2> QED
    BY <2>1, <2>7, <2>8
<1> QED
  BY <1>1, <1>2, <1>3, <1>4, <1>5 DEF Changes

-----------------------------------------------------------------------------
(* The frames of the actions, expanded in every step below. *)
USE DEF firewallVars, comVars, callVars

\* The steps that are no call of an interface.
Entered == InitCall \/ \E x \in Rules : \E o \in Operations(x) : Call(o, x)
Left == Answered \/ Changed \/ Fail

\* What a call of an interface that goes on with the next one can rely on.
LEMMA Advances ==
  ASSUME TypeOK, ProgramInv, LeakInv, todo # <<>>, Done, UNCHANGED <<pc, op>>
  PROVE  /\ pc # "idle" /\ Program(todo', pc, op)
         /\ Head(todo) \in Steps(pc, op)
         /\ todo' = <<>> <=> Head(todo) = Final(pc, op)
         /\ Gets(Head(todo)) \notin held
         /\ \A i \in 1 .. Len(todo') : Gets(todo'[i]) \notin held \cup {Gets(Head(todo))}
         /\ todo' # <<>> /\ Head(todo') = "get_Enabled" => Head(todo) = "Item"
<1>1. pc # "idle" /\ Program(todo, pc, op)
  BY DEF TypeOK, CallTypes, ProgramInv
<1>2. todo \in Seq(Steps(pc, op)) /\ Len(todo) \in Nat /\ Len(todo) >= 1 /\ Head(todo) = todo[1]
  BY <1>1 DEF Program
<1>3. todo' = Tail(todo) /\ Len(todo') = Len(todo) - 1
  BY <1>2 DEF Done
<1>4. /\ Program(todo', pc, op)
      /\ Head(todo) \in Steps(pc, op)
      /\ todo' = <<>> <=> Head(todo) = Final(pc, op)
      /\ \A i \in 1 .. Len(todo') :
            todo'[i] = todo[i + 1] /\ Gets(todo'[i]) # Gets(Head(todo))
      /\ todo' # <<>> /\ Head(todo') = "get_Enabled" => Head(todo) = "Item"
  BY <1>1, <1>3, RestProgram
<1>5. Gets(Head(todo)) \notin held
  BY <1>2 DEF LeakInv
<1>6. \A i \in 1 .. Len(todo') : Gets(todo'[i]) \notin held \cup {Gets(Head(todo))}
  BY <1>2, <1>3, <1>4 DEF LeakInv
<1> QED
  BY <1>1, <1>4, <1>5, <1>6

\* Every step follows the program of its function.
LEMMA ProgramStep ==
  ASSUME TypeOK, ProgramInv, LeakInv, [Next]_vars
  PROVE  ProgramInv'
<1>1. CASE todo # <<>> /\ Done /\ UNCHANGED <<pc, op>>
  BY <1>1, Advances DEF ProgramInv
<1>2. CASE UNCHANGED <<todo, pc, op>>
  BY <1>2 DEF ProgramInv
<1>3. CASE InitCall
  BY <1>3, SetupProgram DEF ProgramInv, InitCall
<1>4. ASSUME NEW x \in Rules, NEW o \in Operations(x), Call(o, x) PROVE ProgramInv'
  BY <1>4, QuestionProgram DEF ProgramInv, Call
<1>5. CASE NoItem
  BY <1>5, NoProgram DEF ProgramInv, NoItem
<1>6. CASE Answered /\ pc' = "change"
  <2>1. op \in Changes
    BY <1>6 DEF Answered, Return, TypeOK, CallTypes, Operations, Asks,
       Changes, Rules
  <2> QED
    BY <1>6, <2>1, ChangeProgram DEF ProgramInv, Answered, Return
<1>7. CASE pc' = "idle"
  BY <1>7 DEF ProgramInv
<1> QED
  BY <1>1, <1>2, <1>3, <1>4, <1>5, <1>6, <1>7
     DEF Next, Others, Refused, InitRefused, Fini, Get, Put, Item, GetEnabled, PutEnabled, Add,
         Remove, Apply, At, Answered, Changed, Fail, Return, vars

\* Every step keeps count of what was got.
LEMMA LeakStep ==
  ASSUME TypeOK, ProgramInv, LeakInv, [Next]_vars
  PROVE  LeakInv'
<1> USE DEF Kinds
<1>1. CASE UNCHANGED <<m_pFireWallProfile, com, refs, held, pc, todo>>
  BY <1>1 DEF LeakInv
<1>2. CASE InitCall
  <2>1. held = {} /\ com = 0 /\ com' = 1
    BY <1>2 DEF LeakInv, InitCall
  <2>2. todo' # <<>>
    BY <1>2 DEF InitCall, Setup
  <2> QED
    BY <1>2, <2>1, <2>2 DEF LeakInv, InitCall
<1>3. ASSUME NEW x \in Rules, NEW o \in Operations(x), Call(o, x) PROVE LeakInv'
  BY <1>3 DEF LeakInv, Call
<1>4. CASE Fini
  BY <1>4 DEF LeakInv, Fini, TypeOK, ComTypes, Locals
<1>5. ASSUME NEW k \in Kinds, Get(k) PROVE LeakInv'
  <2>1. k = Head(todo) /\ todo # <<>> /\ Done /\ UNCHANGED <<pc, op>> /\ Gets(k) = k
    BY <1>5 DEF Get, At, Gets, Locals
  <2>2. /\ pc # "idle" /\ k \in Steps(pc, op) /\ (todo' = <<>> <=> k = Final(pc, op))
        /\ k \notin held /\ \A i \in 1 .. Len(todo') : Gets(todo'[i]) \notin held \cup {k}
    BY <2>1, Advances
  <2>3. CASE k = "profile"
    <3>1. pc = "init" /\ todo' = <<>> /\ ~m_pFireWallProfile
      BY <2>1, <2>2, <2>3 DEF Steps, Final, Puts, TypeOK, CallTypes, LeakInv
    <3>2. /\ refs'["profile"] = refs["profile"] + 1 /\ \A j \in Locals : refs'[j] = refs[j]
          /\ held' = held /\ m_pFireWallProfile' /\ UNCHANGED com
      BY <1>5, <2>3 DEF Get, Got, TypeOK, ComTypes, Locals
    <3>3. Len(todo') = 0
      BY <3>1
    <3> QED
      BY <2>1, <3>1, <3>2, <3>3 DEF LeakInv
  <2>4. CASE k # "profile"
    <3>1. pc = "init" => todo' # <<>>
      BY <2>2, <2>4 DEF Final
    <3>2. /\ refs'[k] = refs[k] + 1 /\ \A j \in Kinds \ {k} : refs'[j] = refs[j]
          /\ held' = held \cup {k} /\ k \in Locals /\ UNCHANGED <<m_pFireWallProfile, com>>
      BY <1>5, <2>4 DEF Get, Got, TypeOK, ComTypes, FlagTypes
    <3>3. \A j \in Locals : refs'[j] = IF j \in held' THEN 1 ELSE 0
      BY <2>2, <3>2 DEF LeakInv
    <3>4. refs'["profile"] = refs["profile"]
      BY <2>4, <3>2
    <3> QED
      BY <2>1, <2>2, <3>1, <3>2, <3>3, <3>4 DEF LeakInv, TypeOK, CallTypes
  <2> QED
    BY <2>3, <2>4
<1>6. CASE Item
  <2>1. "Item" = Head(todo) /\ todo # <<>> /\ Done /\ UNCHANGED <<pc, op>> /\ Gets("Item") = "item"
    BY <1>6 DEF Item, At, Gets
  <2>2. /\ pc # "idle" /\ "Item" \in Steps(pc, op)
        /\ "item" \notin held /\ \A i \in 1 .. Len(todo') : Gets(todo'[i]) \notin held \cup {"item"}
    BY <2>1, Advances
  <2>3. pc = "ask"
    BY <2>2 DEF Steps, Final, Puts, TypeOK, CallTypes
  <2>4. /\ refs'["item"] = refs["item"] + 1 /\ \A j \in Kinds \ {"item"} : refs'[j] = refs[j]
        /\ held' = held \cup {"item"} /\ UNCHANGED <<m_pFireWallProfile, com>>
    BY <1>6 DEF Item, Got, TypeOK, ComTypes, FlagTypes, Locals
  <2>5. \A j \in Locals : refs'[j] = IF j \in held' THEN 1 ELSE 0
    BY <2>2, <2>4 DEF LeakInv, Locals
  <2> QED
    BY <2>1, <2>2, <2>3, <2>4, <2>5 DEF LeakInv
<1>7. CASE Put \/ GetEnabled \/ PutEnabled \/ Add \/ Remove
  <2>1. /\ todo # <<>> /\ Done /\ UNCHANGED <<comVars, pc, op>>
        /\ Head(todo) \in Puts \cup {"get_Enabled", "put_Enabled", "Add", "Remove"}
    BY <1>7 DEF Put, GetEnabled, PutEnabled, Add, Remove, Apply, At, Puts
  <2>2. /\ pc # "idle" /\ Head(todo) \in Steps(pc, op)
        /\ \A i \in 1 .. Len(todo') : Gets(todo'[i]) \notin held
    BY <2>1, Advances
  <2>3. pc # "init"
    BY <2>1, <2>2 DEF Steps, Final, Puts
  <2> QED
    BY <2>1, <2>2, <2>3 DEF LeakInv
<1>8. CASE NoItem
  <2>1. pc = "ask"
    <3>1. pc # "idle" /\ todo \in Seq(Steps(pc, op))
      BY <1>8 DEF NoItem, At, TypeOK, CallTypes, ProgramInv, Program
    <3>2. "Item" \in Steps(pc, op)
      BY <1>8, <3>1 DEF NoItem, At
    <3> QED
      BY <3>1, <3>2 DEF Steps, Final, Puts, TypeOK, CallTypes
  <2> QED
    BY <1>8, <2>1 DEF NoItem, LeakInv
<1>9. CASE Left
  <2>1. Release
    BY <1>9 DEF Left, Answered, Changed, Fail, Return
  <2>2. /\ \A k \in Locals : refs'[k] = 0
        /\ refs'["profile"] = refs["profile"] /\ held' = {}
        /\ UNCHANGED m_pFireWallProfile
    BY <2>1 DEF Release, LeakInv, TypeOK, ComTypes, Locals
  <2>3. CASE Answered
    BY <2>2, <2>3 DEF Answered, Return, LeakInv
  <2>4. CASE Changed
    BY <2>2, <2>4 DEF Changed, Return, LeakInv
  <2>5. CASE Fail
    BY <2>2, <2>5 DEF Fail, Return, LeakInv, TypeOK, CallTypes
  <2> QED
    BY <1>9, <2>3, <2>4, <2>5 DEF Left
<1> QED
  BY <1>1, <1>2, <1>3, <1>4, <1>5, <1>6, <1>7, <1>8, <1>9
     DEF Next, Others, Refused, InitRefused, Left, vars


\* Every step keeps the types.
LEMMA TypeStep ==
  ASSUME TypeOK, ProgramInv, LeakInv, [Next]_vars
  PROVE  TypeOK'
<1>1. RuleTypes'
  <2>1. CASE UNCHANGED <<state, same>>
    BY <2>1 DEF TypeOK, RuleTypes
  <2>2. ASSUME NEW x \in Rules, Others(x) PROVE RuleTypes'
    BY <2>2 DEF Others, Values, TypeOK, RuleTypes
  <2>3. ASSUME NEW v \in {"absent", "disabled", "enabled"}, NEW s, At(s), Apply(v),
               s = "put_Enabled" => v # "absent", s \in {"put_Enabled", "Add", "Remove"},
               s = "Add" => v # "absent"
        PROVE  RuleTypes'
    <3>1. pc = "change" /\ s = Final(pc, op)
      <4>1. todo # <<>> /\ Done /\ UNCHANGED <<pc, op>> /\ Head(todo) = s
        BY <2>3 DEF Apply, At
      <4>2. pc # "idle" /\ s \in Steps(pc, op)
        BY <4>1, Advances
      <4> QED
        BY <2>3, <4>2 DEF Steps, Puts, Final, TypeOK, CallTypes
    <3>2. arg \in Rules /\ (arg = Firewall => s = "put_Enabled")
      BY <3>1, RuleAssumption DEF TypeOK, CallTypes, Final, Operations, Asks,
         Rules
    <3> QED
      BY <2>3, <3>2 DEF Apply, TypeOK, RuleTypes
  <2>4. ASSUME NEW x \in Rules, NEW o \in Operations(x), Call(o, x) PROVE RuleTypes'
    BY <2>4 DEF Call, TypeOK, RuleTypes
  <2>5. CASE Left /\ UNCHANGED state /\ same' \subseteq same
    BY <2>5 DEF TypeOK, RuleTypes
  <2>6. Left => UNCHANGED state /\ same' \subseteq same
    BY DEF Left, Answered, Changed, Fail, Return
  <2> QED
    BY <2>1, <2>2, <2>3, <2>4, <2>5, <2>6
       DEF Next, Refused, InitRefused, InitCall, Fini, Get, Put, Item, NoItem, GetEnabled,
           PutEnabled, Add, Remove, Left, vars
<1>2. ComTypes'
  <2>1. LeakInv'
    BY LeakStep
  <2>2. held' \subseteq Locals
    BY DEF TypeOK, ComTypes, Next, Others, Refused, InitRefused, InitCall,
       Call, Fini, Get, Got,
           Put, Item, NoItem, GetEnabled, PutEnabled, Add, Remove, Apply, Answered, Changed, Fail,
           Return, Release, Locals, vars
  <2>3. refs' = [k \in Kinds |-> refs'[k]]
    <3>1. CASE UNCHANGED refs
      BY <3>1 DEF TypeOK, ComTypes
    <3>2. CASE Release
      BY <3>2 DEF Release
    <3>3. ASSUME NEW k \in Kinds, refs' = [refs EXCEPT ![k] = refs[k] + 1]
          PROVE  refs' = [j \in Kinds |-> refs'[j]]
      BY <3>3 DEF TypeOK, ComTypes
    <3>4. CASE Fini
      BY <3>4 DEF Fini, TypeOK, ComTypes
    <3> QED
      BY <3>1, <3>2, <3>3, <3>4
         DEF Next, Others, Refused, InitRefused, InitCall, Call, Get, Got, Put, Item, NoItem,
             GetEnabled, PutEnabled, Add, Remove, Apply, Answered, Changed, Fail, Return, vars,
             Kinds, Locals
  <2>4. \A k \in Kinds : refs'[k] \in Nat
    BY <2>1 DEF LeakInv, Kinds
  <2> QED
    BY <2>1, <2>2, <2>3, <2>4 DEF ComTypes, LeakInv
<1>3. CallTypes'
  <2>1. CASE /\ UNCHANGED <<pc, op, arg>> /\ ret' \in {"OK", "ERROR"}
             /\ pc = "idle" => UNCHANGED todo /\ same' \subseteq same
    BY <2>1 DEF TypeOK, CallTypes
  <2>2. ASSUME NEW x \in Rules, NEW o \in Operations(x), Call(o, x) PROVE CallTypes'
    BY <2>2 DEF Call, TypeOK, CallTypes
  <2>3. CASE InitCall
    BY <2>3 DEF InitCall, TypeOK, CallTypes
  <2>4. CASE Answered /\ pc' = "change"
    BY <2>4 DEF Answered, Return, TypeOK, CallTypes
  <2>5. ASSUME NEW r \in {"OK", "ERROR"}, Return(r) PROVE CallTypes'
    BY <2>5 DEF Return, CallTypes
  <2>6. Left => (Answered /\ pc' = "change") \/ \E r \in {"OK", "ERROR"} : Return(r)
    BY DEF Left, Answered, Changed, Fail, Otherwise
  <2>7. todo = <<>> => ~At("Item") /\ \A s : ~At(s)
    BY DEF At
  <2> QED
    BY <2>1, <2>2, <2>3, <2>4, <2>5, <2>6, <2>7
       DEF Next, Others, Refused, InitRefused, Fini, Get, Put, Item, NoItem, GetEnabled,
           PutEnabled, Add, Remove, Apply, Left, vars, TypeOK, CallTypes
<1>4. FlagTypes'
  BY DEF TypeOK, FlagTypes, Next, Others, Refused, InitRefused, InitCall,
     Call, Fini, Get, Got,
         Put, Item, NoItem, GetEnabled, PutEnabled, Add, Remove, Apply, Answered, Changed, Fail,
         Return, Release, vars
<1> QED
  BY <1>1, <1>2, <1>3, <1>4 DEF TypeOK

\* Which function changes what, and which call of an interface changes it.
LEMMA ChangeOperations ==
  ASSUME TypeOK, pc = "change"
  PROVE  op \in Changes /\ arg \in Rules
BY DEF TypeOK, CallTypes, Operations, Asks, Changes, Rules

\* The call that changes the firewall is the last of its function, and makes of
\* the rule what the function is for.
LEMMA Applies ==
  ASSUME TypeOK, ProgramInv, LeakInv, PutEnabled \/ Add \/ Remove
  PROVE  pc = "change" /\ todo' = <<>> /\ op \in Changes /\ state'[arg] = Effect(op)
<1> DEFINE s == Head(todo)
<1>1. /\ todo # <<>> /\ Done /\ UNCHANGED <<pc, op>> /\ s \in {"put_Enabled", "Add", "Remove"}
      /\ state' = [state EXCEPT ![arg] =
                     IF s = "Add" \/ (s = "put_Enabled" /\ op = "TurnOnFirewall") THEN "enabled"
                     ELSE IF s = "put_Enabled" THEN "disabled" ELSE "absent"]
  BY DEF PutEnabled, Add, Remove, Apply, At
<1>2. pc # "idle" /\ s \in Steps(pc, op) /\ (todo' = <<>> <=> s = Final(pc, op))
  BY <1>1, Advances
<1> HIDE DEF s
<1>3. pc = "change" /\ s = Final(pc, op) /\ todo' = <<>>
  BY <1>1, <1>2 DEF Steps, Puts, Final, TypeOK, CallTypes
<1>4. op \in Changes /\ arg \in Rules
  BY <1>3, ChangeOperations
<1>5. state'[arg] = IF s = "Add" \/ (s = "put_Enabled" /\ op = "TurnOnFirewall") THEN "enabled"
                    ELSE IF s = "put_Enabled" THEN "disabled" ELSE "absent"
  BY <1>1, <1>4 DEF TypeOK, RuleTypes
<1>6. state'[arg] = Effect(op)
  BY <1>3, <1>4, <1>5 DEF Final, Changes, Effect
<1> QED
  BY <1>3, <1>4, <1>6

\* Every step keeps what the call knows of its rule.
LEMMA KnowStep ==
  ASSUME TypeOK, ProgramInv, LeakInv, KnowInv, [Next]_vars
  PROVE  KnowInv'
<1>1. CASE UNCHANGED <<state, same, pc, op, arg, todo, bEnable, failed, mine>>
  BY <1>1 DEF KnowInv, Acts
<1>2. ASSUME NEW x \in Rules, Others(x) PROVE KnowInv'
  <2>1. /\ UNCHANGED <<pc, op, arg, todo, bEnable, failed, mine>> /\ same' \subseteq same
        /\ arg \in same' => state'[arg] = state[arg]
    BY <1>2 DEF Others, TypeOK, RuleTypes
  <2> QED
    BY <2>1 DEF KnowInv, Acts
<1>3. ASSUME NEW x \in Rules, NEW o \in Operations(x), Call(o, x) PROVE KnowInv'
  <2>1. /\ pc' = "ask" /\ arg' = x /\ ~bEnable' /\ ~failed' /\ ~mine' /\ UNCHANGED state
        /\ todo' # <<>> /\ (Head(todo') = "get_Enabled" => x = Firewall)
    BY <1>3, QuestionProgram DEF Call
  <2> QED
    BY <2>1 DEF KnowInv, TypeOK, RuleTypes
<1>4. CASE pc = "idle" /\ UNCHANGED <<state, same, failed, mine, arg>> /\ pc' \in {"idle", "init"}
           /\ (pc' = "idle" => UNCHANGED op)
  BY <1>4 DEF KnowInv, TypeOK, CallTypes
<1>5. ASSUME NEW s, At(s), Done, UNCHANGED <<state, same, pc, op, arg, bEnable, failed, mine>>,
             s \notin {"get_Enabled", "put_Enabled", "Add", "Remove"},
             s = "Item" => state[arg] # "absent"
      PROVE  KnowInv'
  <2>1. /\ todo # <<>> /\ pc # "idle" /\ (todo' = <<>> <=> s = Final(pc, op))
        /\ todo' # <<>> /\ Head(todo') = "get_Enabled" => s = "Item"
    BY <1>5, Advances DEF At
  <2>2. CASE pc = "init"
    BY <1>5, <2>2 DEF KnowInv
  <2>3. CASE pc \in {"ask", "change"}
    <3>1. todo' # <<>>
      BY <1>5, <2>1, <2>3 DEF Final
    <3> QED
      BY <1>5, <2>1, <2>3, <3>1 DEF KnowInv, Acts
  <2> QED
    BY <2>1, <2>2, <2>3 DEF TypeOK, CallTypes
<1>6. CASE NoItem
  <2>1. pc = "ask"
    <3>1. pc # "idle" /\ todo \in Seq(Steps(pc, op))
      BY <1>6 DEF NoItem, At, TypeOK, CallTypes, ProgramInv, Program
    <3>2. "Item" \in Steps(pc, op)
      BY <1>6, <3>1 DEF NoItem, At
    <3> QED
      BY <3>1, <3>2 DEF Steps, Final, Puts, TypeOK, CallTypes
  <2> QED
    BY <1>6, <2>1 DEF NoItem, At, KnowInv
<1>7. CASE GetEnabled
  <2>1. todo # <<>> /\ Done /\ UNCHANGED <<pc, op>> /\ Head(todo) = "get_Enabled"
    BY <1>7 DEF GetEnabled, At
  <2>2. /\ pc # "idle" /\ "get_Enabled" \in Steps(pc, op)
        /\ todo' = <<>> <=> "get_Enabled" = Final(pc, op)
    BY <2>1, Advances
  <2>3. pc = "ask" /\ todo' = <<>>
    BY <2>2 DEF Steps, Final, Puts, TypeOK, CallTypes
  <2>4. arg \in same => (bEnable' <=> state[arg] = "enabled")
    BY <1>7, <2>1, <2>3 DEF GetEnabled, KnowInv
  <2> QED
    BY <1>7, <2>3, <2>4 DEF GetEnabled, KnowInv
<1>8. CASE PutEnabled \/ Add \/ Remove
  <2>1. pc = "change" /\ todo' = <<>> /\ state'[arg] = Effect(op)
    BY <1>8, Applies
  <2>2. UNCHANGED <<same, pc, op, arg, bEnable, failed>> /\ mine'
    BY <1>8 DEF PutEnabled, Add, Remove, Apply
  <2> QED
    BY <2>1, <2>2 DEF KnowInv, Acts
<1>9. CASE Answered /\ pc' = "change"
  <2>1. op \in Changes
    BY <1>9 DEF Answered, Return, TypeOK, CallTypes, Operations, Asks,
       Changes, Rules
  <2>2. todo' # <<>>
    BY <1>9, <2>1, ChangeProgram DEF Answered, Return
  <2> QED
    BY <1>9, <2>2 DEF Answered, Return, KnowInv, Acts
<1>10. CASE Left /\ pc' = "idle"
  <2>1. ~failed' /\ ~mine' /\ same' = {} /\ pc' = "idle"
    BY <1>10 DEF Left, Answered, Changed, Fail, Return
  <2> QED
    BY <2>1 DEF KnowInv
<1>11. Left => pc' \in {"idle", "change"} /\ (pc' = "change" => Answered)
  BY DEF Left, Answered, Changed, Fail, Return
<1>12. ASSUME NEW k \in Kinds, Get(k) PROVE KnowInv'
  <2>1. At(k) /\ Done /\ UNCHANGED <<state, same, pc, op, arg, bEnable, failed, mine>>
        /\ k \notin {"get_Enabled", "put_Enabled", "Add", "Remove", "Item"}
    BY <1>12 DEF Get, Kinds, Locals
  <2> QED
    BY <1>5, <2>1
<1>13. CASE Put
  <2>1. PICK s \in Puts : At(s)
    BY <1>13 DEF Put, Puts
  <2>2. Done /\ UNCHANGED <<state, same, pc, op, arg, bEnable, failed, mine>>
        /\ s \notin {"get_Enabled", "put_Enabled", "Add", "Remove", "Item"}
    BY <1>13, <2>1 DEF Put, Puts
  <2> QED
    BY <1>5, <2>1, <2>2
<1>14. CASE Item
  BY <1>5, <1>14 DEF Item
<1>15. ASSUME NEW x \in Rules, NEW o \in Operations(x), Refused(o, x) PROVE KnowInv'
  BY <1>4, <1>15 DEF Refused
<1>16. CASE InitRefused \/ InitCall \/ Fini
  BY <1>4, <1>16 DEF InitRefused, InitCall, Fini
<1>17. CASE UNCHANGED vars
  BY <1>1, <1>17 DEF vars
<1> QED
  BY <1>2, <1>3, <1>6, <1>7, <1>8, <1>9, <1>10, <1>11, <1>12, <1>13, <1>14,
     <1>15, <1>16, <1>17
     DEF Next, Left
-----------------------------------------------------------------------------
\* The invariant holds throughout.
LEMMA FireWallInvariant == Spec => []FireWallInv
<1>1. Init => FireWallInv
  <2> SUFFICES ASSUME Init PROVE FireWallInv
    OBVIOUS
  <2>1. TypeOK
    BY DEF Init, TypeOK, RuleTypes, ComTypes, CallTypes, FlagTypes, Rules
  <2>2. ProgramInv /\ LeakInv /\ KnowInv
    BY DEF Init, ProgramInv, LeakInv, KnowInv, Kinds
  <2> QED
    BY <2>1, <2>2 DEF FireWallInv
<1>2. FireWallInv /\ [Next]_vars => FireWallInv'
  BY TypeStep, ProgramStep, LeakStep, KnowStep DEF FireWallInv
<1> QED
  BY <1>1, <1>2, PTL DEF Spec

\* The variables have their types, for any applications and ports.
THEOREM FireWallTypeCorrect == Spec => []TypeOK
<1>1. FireWallInv => TypeOK
  BY DEF FireWallInv
<1> QED
  BY <1>1, FireWallInvariant, PTL

\* Whichever call of an interface failed, and however often Init and Fini were
\* called, nothing is kept between two calls but the profile.
THEOREM FireWallGivesBack == Spec => []NothingLeaks
<1>1. FireWallInv => NothingLeaks
  BY DEF FireWallInv, LeakInv, NothingLeaks, Kinds, Locals
<1> QED
  BY <1>1, FireWallInvariant, PTL

\* An answer or DTK_OK is true unless others changed the rule, and an error
\* means that nothing was changed.
THEOREM FireWallMeansIt == Spec => ResultsMeanIt
<1>1. ASSUME FireWallInv, Next, pc # "idle", pc' = "idle"
      PROVE  IF ret' = "ERROR" THEN ~mine ELSE arg \in same => Promised
  <2>1. Left
    BY <1>1 DEF Next, Others, Refused, Call, InitRefused, InitCall, Fini, Get,
       Put, Item, NoItem,
       GetEnabled, PutEnabled, Add, Remove, Apply, Left
  <2>2. CASE Fail
    BY <1>1, <2>2 DEF Fail, Return, FireWallInv, KnowInv, TypeOK, CallTypes
  <2>3. CASE Changed
    <3>1. ret' = "OK"
      BY <2>3 DEF Changed, Return
    <3>2. CASE pc = "init"
      BY <1>1, <3>1, <3>2 DEF FireWallInv, KnowInv
    <3>3. CASE pc = "change"
      <4>1. op \in Changes
        BY <1>1, <3>3, ChangeOperations DEF FireWallInv
      <4>2. arg \in same => state[arg] = Effect(op)
        BY <1>1, <2>3, <3>3 DEF Changed, FireWallInv, KnowInv
      <4> QED
        BY <3>1, <4>1, <4>2 DEF Effect, Changes, Promised, Asks
    <3> QED
      BY <2>3, <3>2, <3>3 DEF Changed
  <2>4. CASE Answered
    <3>1. /\ ~mine /\ arg \in Rules /\ op \in Operations(arg)
          /\ failed => arg \in Apps
          /\ arg \in same /\ ~failed => (bEnable <=> state[arg] = "enabled")
      BY <1>1, <2>4 DEF Answered, FireWallInv, KnowInv, TypeOK, CallTypes
    <3>2. CASE op \in Asks
      <4>1. (failed \/ (bEnable <=> state[arg] = "enabled")) => Promised
        BY <3>2 DEF Promised, Asks
      <4> QED
        BY <3>1, <4>1
    <3>3. CASE op \notin Asks /\ ~Acts(op) /\ ret' = Otherwise(op)
      <4>1. op \in {"TurnOnFirewall", "TurnOffFirewall", "RemovePortRule"} => arg \notin Apps
        BY <3>1, RuleAssumption DEF Operations, Rules
      <4>2. CASE op \in {"TurnOnFirewall", "TurnOffFirewall"}
        BY <3>1, <3>3, <4>1, <4>2 DEF Promised, Acts, Otherwise
      <4>3. CASE op = "RemovePortRule"
        BY <3>1, <3>3, <4>1, <4>3 DEF Promised, Acts, Otherwise
      <4>4. CASE op \notin {"TurnOnFirewall", "TurnOffFirewall", "RemovePortRule"}
        BY <3>1, <3>3, <4>4 DEF Otherwise
      <4> QED
        BY <4>2, <4>3, <4>4
    <3> QED
      BY <1>1, <2>4, <3>2, <3>3 DEF Answered, Return
  <2> QED
    BY <2>1, <2>2, <2>3, <2>4 DEF Left
<1>2. FireWallInv /\ [Next]_vars =>
        [pc # "idle" /\ pc' = "idle" =>
            IF ret' = "ERROR" THEN ~mine ELSE arg \in same => Promised]_vars
  BY <1>1
<1> QED
  BY <1>2, FireWallInvariant, PTL DEF Spec, ResultsMeanIt

\* The call changes only what is not so already, unless others changed it or
\* the Item failed.
THEOREM FireWallActsOnce == Spec => NotDoneTwice
<1>1. ASSUME FireWallInv, Next, ~mine, mine', arg \in same, ~failed, op # "TurnOffFirewall"
      PROVE  state'[arg] # state[arg]
  <2>1. PutEnabled \/ Add \/ Remove
    BY <1>1 DEF Next, Others, Refused, Call, InitRefused, InitCall, Fini, Get,
       Put, Item, NoItem,
       GetEnabled, Answered, Changed, Fail, Return
  <2>2. pc = "change" /\ op \in Changes /\ state'[arg] = Effect(op)
    BY <1>1, <2>1, Applies DEF FireWallInv
  <2>3. Acts(op) /\ (bEnable <=> state[arg] = "enabled")
    BY <1>1, <2>2 DEF FireWallInv, KnowInv
  <2> QED
    BY <1>1, <2>2, <2>3 DEF Acts, Effect, Changes
<1>2. FireWallInv /\ [Next]_vars =>
        [~mine /\ mine' /\ arg \in same /\ ~failed /\ op # "TurnOffFirewall" =>
            state'[arg] # state[arg]]_vars
  BY <1>1
<1> QED
  BY <1>2, FireWallInvariant, PTL DEF Spec, NotDoneTwice
=============================================================================
