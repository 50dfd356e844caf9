------------------------------ MODULE FireWall ------------------------------
(***************************************************************************)
(* CFireWallMgr (FireWallMgr.h, FireWallMgr.cpp): the rules of the Windows *)
(* firewall, through COM interfaces.  Each call of an interface may fail;  *)
(* whatever the call of the manager has got by then it must give back.     *)
(* The calls that change something ask first and then act on the answer,   *)
(* while the user and other programs change the same rules.  The manager   *)
(* is a singleton and COM is initialised per thread: one thread calls.     *)
(***************************************************************************)
EXTENDS Naturals, Sequences

CONSTANTS
    Apps,      \* the applications, by the path of their image
    Ports,     \* the ports, each with its protocol
    Firewall,  \* the firewall itself, which is enabled or not as rules are
    Null       \* no rule

ASSUME RuleAssumption ==
    /\ Apps \cap Ports = {}
    /\ Firewall \notin Apps \cup Ports
    /\ Null \notin Apps \cup Ports \cup {Firewall}

VARIABLES
    state,    \* the firewall: "absent", "disabled" or "enabled", each rule
    m_pFireWallProfile, \* the interface of the profile is not NULL
    com,      \* the calls of CoInitialize that are not undone
    refs,     \* of each kind, the interfaces and strings not given back
    held,     \* the local pointers of the call that are not NULL
    pc,       \* the call: idle, init, ask, change
    op, arg,  \* the function called and the rule it is about
    todo,     \* the calls of interfaces it has yet to make
    bEnable,  \* the answer of the last question
    ret,      \* what the last call returned
    same,     \* history: the rules nobody else has changed during the call
    failed,   \* history: a call of an interface has failed during the call
    mine      \* history: the call has changed the firewall

firewallVars == <<state, same>>
comVars == <<m_pFireWallProfile, com, refs, held>>
callVars == <<pc, op, arg, todo, bEnable, ret, failed, mine>>
vars == <<firewallVars, comVars, callVars>>

Rules == Apps \cup Ports \cup {Firewall}
Values(x) ==
    {"disabled", "enabled"} \cup IF x = Firewall THEN {} ELSE {"absent"}

\* What a call gets and gives back: interfaces, and the names as BSTR.  The
\* interfaces of applications and of open ports are alike.
Locals == {"fwMgr", "fwPolicy", "list", "item", "bstrFile", "bstrName"}
Kinds == Locals \cup {"profile"}

-----------------------------------------------------------------------------
Init ==
    /\ state \in {s \in [Rules -> {"absent", "disabled", "enabled"}] :
                     s[Firewall] # "absent"}
    /\ m_pFireWallProfile = FALSE /\ com = 0
    /\ refs = [k \in Kinds |-> 0] /\ held = {}
    /\ pc = "idle" /\ op = "none" /\ arg = Null /\ todo = <<>>
    /\ bEnable = FALSE /\ ret = "OK"
    /\ same = {} /\ failed = FALSE /\ mine = FALSE

\* The user and other programs switch the firewall, and add, change and
\* remove rules, at any time.
Others(x) ==
    /\ \E v \in Values(x) \ {state[x]} : state' = [state EXCEPT ![x] = v]
    /\ same' = same \ {x}
    /\ UNCHANGED <<comVars, callVars>>

-----------------------------------------------------------------------------
(* The calls of interfaces that a function makes, in their order.  One     *)
(* named after a kind of pointer gets it.                                  *)

Setup == <<"fwMgr", "fwPolicy", "profile">>

\* IsFirewallOn, IsAppEnabled, IsPortEnabled
Question(x) ==
    IF x = Firewall THEN <<"get_Enabled">>
    ELSE IF x \in Apps THEN <<"list", "bstrFile", "Item", "get_Enabled">>
    ELSE <<"list", "Item", "get_Enabled">>

\* Mutant: a rule is added before it has its name.
ChangeEarly(o) == CASE
       o \in {"TurnOnFirewall", "TurnOffFirewall"} -> <<"put_Enabled">>
    [] o \in {"AddApplication", "AddPortRule"} ->
           <<"list", "item", "put_Port", "Add", "bstrName", "put_Name">>
    [] o = "RemoveApplication" -> <<"list", "bstrFile", "Remove">>
    [] o = "RemovePortRule" -> <<"list", "Remove">>

Change(o) == CASE
       o \in {"TurnOnFirewall", "TurnOffFirewall"} -> <<"put_Enabled">>
    [] o = "AddApplication" -> <<"list", "item", "bstrFile",
           "put_ProcessImageFileName", "bstrName", "put_Name", "Add">>
    [] o = "AddPortRule" -> <<"list", "item", "put_Port", "put_Protocol",
           "bstrName", "put_Name", "Add">>
    [] o = "RemoveApplication" -> <<"list", "bstrFile", "Remove">>
    [] o = "RemovePortRule" -> <<"list", "Remove">>

\* Mutant: an application that is enabled already is added all the same.
ActsAlways(o) == o \in {"AddApplication", "RemoveApplication"} \/ ~bEnable

\* Whether the answer makes the function change something, and what it
\* returns if not.  TurnOffFirewall has the test of TurnOnFirewall.
Acts(o) ==
    IF o \in {"RemoveApplication", "RemovePortRule"} THEN bEnable ELSE ~bEnable

Otherwise(o) ==
    IF o \in {"TurnOnFirewall", "TurnOffFirewall", "RemovePortRule"}
    THEN "OK" ELSE "ERROR"

-----------------------------------------------------------------------------
Operations(x) == CASE
       x = Firewall -> {"IsFirewallOn", "TurnOnFirewall", "TurnOffFirewall"}
    [] x \in Apps   -> {"IsAppEnabled", "AddApplication", "RemoveApplication"}
    [] x \in Ports  -> {"IsPortEnabled", "AddPortRule", "RemovePortRule"}

Asks == {"IsFirewallOn", "IsAppEnabled", "IsPortEnabled"}

\* Nothing is asked of a manager that is not initialised, nor about an
\* application without a name.
Refused(o, x) ==
    /\ pc = "idle" /\ o \in Operations(x) /\ (m_pFireWallProfile => x \in Apps)
    /\ ret' = "ERROR" /\ bEnable' = (bEnable /\ m_pFireWallProfile)
    /\ UNCHANGED <<firewallVars, comVars, pc, op, arg, todo, failed, mine>>

Call(o, x) ==
    /\ pc = "idle" /\ o \in Operations(x) /\ m_pFireWallProfile
    /\ pc' = "ask" /\ op' = o /\ arg' = x /\ todo' = Question(x)
    /\ bEnable' = FALSE /\ same' = Rules /\ failed' = FALSE /\ mine' = FALSE
    /\ UNCHANGED <<state, comVars, ret>>

InitRefused ==
    /\ pc = "idle" /\ ret' = "ERROR"
    /\ UNCHANGED <<firewallVars, comVars, pc, op, arg, todo, bEnable, failed, mine>>

InitCall ==
    /\ pc = "idle" /\ ~m_pFireWallProfile
    /\ com' = com + 1 /\ pc' = "init" /\ op' = "Init" /\ todo' = Setup
    /\ UNCHANGED <<firewallVars, m_pFireWallProfile, refs, held, arg, bEnable,
                   ret, failed, mine>>

\* Mutant: the pointer is not set to NULL.
FiniKeeps ==
    /\ pc = "idle" /\ m_pFireWallProfile
    /\ refs' = [refs EXCEPT !["profile"] = @ - 1] /\ com' = com - 1
    /\ UNCHANGED <<m_pFireWallProfile, firewallVars, held, callVars>>

Fini ==
    /\ pc = "idle" /\ m_pFireWallProfile
    /\ m_pFireWallProfile' = FALSE /\ refs' = [refs EXCEPT !["profile"] = @ - 1]
    /\ com' = com - 1
    /\ UNCHANGED <<firewallVars, held, callVars>>

-----------------------------------------------------------------------------
(* One call of an interface each.                                          *)

At(s) == todo # <<>> /\ Head(todo) = s
Done == todo' = Tail(todo)

Got(k) ==
    /\ refs' = [refs EXCEPT ![k] = @ + 1]
    /\ held' = held \cup ({k} \cap Locals)
    /\ m_pFireWallProfile' = (m_pFireWallProfile \/ k = "profile")
    /\ UNCHANGED com

Get(k) ==
    /\ At(k) /\ Got(k) /\ Done
    /\ UNCHANGED <<firewallVars, pc, op, arg, bEnable, ret, failed, mine>>

Put ==
    /\ \E s \in {"put_ProcessImageFileName", "put_Port", "put_Protocol", "put_Name"} : At(s)
    /\ Done
    /\ UNCHANGED <<firewallVars, comVars, pc, op, arg, bEnable, ret, failed, mine>>

Item ==
    /\ At("Item") /\ state[arg] # "absent" /\ Got("item") /\ Done
    /\ UNCHANGED <<firewallVars, pc, op, arg, bEnable, ret, failed, mine>>

\* An application that is not found is not enabled; nor is one whose Item
\* fails for another reason.
NoItem ==
    /\ At("Item") /\ arg \in Apps
    /\ todo' = <<>> /\ failed' = (failed \/ state[arg] # "absent")
    /\ UNCHANGED <<firewallVars, comVars, pc, op, arg, bEnable, ret, mine>>

\* The item of a rule that was removed meanwhile may say anything.
GetEnabled ==
    /\ At("get_Enabled") /\ Done
    /\ bEnable' \in IF state[arg] = "absent" THEN BOOLEAN ELSE {state[arg] = "enabled"}
    /\ UNCHANGED <<firewallVars, comVars, pc, op, arg, ret, failed, mine>>

\* The firewall takes the change.  To add a rule that exists enables it.
Apply(v) ==
    /\ state' = [state EXCEPT ![arg] = v] /\ mine' = TRUE /\ Done
    /\ UNCHANGED <<same, comVars, pc, op, arg, bEnable, ret, failed>>

PutEnabled == At("put_Enabled")
    /\ Apply(IF op = "TurnOnFirewall" THEN "enabled" ELSE "disabled")
Add == At("Add") /\ Apply("enabled")
Remove == At("Remove") /\ Apply("absent")

-----------------------------------------------------------------------------
(* The ends of the functions.                                              *)

\* Mutant: the item got by CoCreateInstance is not given back.
ReleaseAllButItem ==
    /\ refs' = [k \in Kinds |-> IF k \in held \ {"item"} THEN refs[k] - 1 ELSE refs[k]]
    /\ held' = {} /\ UNCHANGED m_pFireWallProfile

\* The pointers that are not NULL are released.
Release ==
    /\ refs' = [k \in Kinds |-> IF k \in held THEN refs[k] - 1 ELSE refs[k]]
    /\ held' = {} /\ UNCHANGED m_pFireWallProfile

Return(r) ==
    /\ Release
    /\ pc' = "idle" /\ ret' = r /\ todo' = <<>>
    /\ op' = "none" /\ arg' = Null /\ same' = {} /\ mine' = FALSE /\ failed' = FALSE
    /\ UNCHANGED <<state, bEnable>>

Answered ==
    /\ pc = "ask" /\ todo = <<>> /\ UNCHANGED com
    /\ \/ op \in Asks /\ Return("OK")
       \/ op \notin Asks /\ ~Acts(op) /\ Return(Otherwise(op))
       \/ /\ op \notin Asks /\ Acts(op) /\ Release
          /\ pc' = "change" /\ todo' = Change(op)
          /\ UNCHANGED <<firewallVars, op, arg, bEnable, ret, failed, mine>>

Changed == pc \in {"init", "change"} /\ todo = <<>> /\ Return("OK") /\ UNCHANGED com

\* Any call of an interface may fail, and that is the end of the function.
Fail ==
    /\ todo # <<>> /\ ~(At("Item") /\ arg \in Apps)
    /\ Return("ERROR")
    /\ com' = IF pc = "init" THEN com - 1 ELSE com

-----------------------------------------------------------------------------
Next ==
    \/ \E x \in Rules : Others(x)
    \/ \E x \in Rules : \E o \in Operations(x) : Refused(o, x) \/ Call(o, x)
    \/ InitRefused \/ InitCall \/ Fini
    \/ \E k \in Kinds : Get(k)
    \/ Put \/ Item \/ NoItem \/ GetEnabled \/ PutEnabled \/ Add \/ Remove
    \/ Answered \/ Changed \/ Fail

Spec == Init /\ [][Next]_vars

-----------------------------------------------------------------------------
(* Properties.                                                             *)

RuleTypes ==
    /\ state \in [Rules -> {"absent", "disabled", "enabled"}]
    /\ state[Firewall] # "absent" /\ same \subseteq Rules
ComTypes == com \in Nat /\ refs \in [Kinds -> Nat] /\ held \subseteq Locals
CallTypes ==
    /\ pc \in {"idle", "init", "ask", "change"} /\ ret \in {"OK", "ERROR"}
    /\ pc \in {"ask", "change"} => arg \in Rules /\ op \in Operations(arg)
    /\ pc = "change" => op \notin Asks
    /\ pc = "idle" => todo = <<>> /\ same = {}
FlagTypes ==
    /\ m_pFireWallProfile \in BOOLEAN /\ bEnable \in BOOLEAN
    /\ failed \in BOOLEAN /\ mine \in BOOLEAN

\* The type invariant: the shape of each variable, and what a call is about.
TypeOK == RuleTypes /\ ComTypes /\ CallTypes /\ FlagTypes

\* Between two calls every interface and string got has been given back, but
\* the profile while the manager is initialised, and CoUninitialize has been
\* called as often as CoInitialize: whichever of the calls of a function has
\* failed, and however often Init and Fini were called.
NothingLeaks == pc = "idle" =>
    /\ held = {}
    /\ \A k \in Kinds : refs[k] = IF k = "profile" /\ m_pFireWallProfile THEN 1 ELSE 0
    /\ com = IF m_pFireWallProfile THEN 1 ELSE 0

\* DTK_OK means it: unless others have changed the rule during the call, a
\* rule that was added is enabled, one that was removed is not, the firewall
\* that was turned on is on, and an answer is right.  TurnOffFirewall is left
\* out: it turns nothing off and answers DTK_OK.  So is an answer got from an
\* Item that failed.  An error means that the call has changed nothing: the
\* change is the last thing that can fail.
Promised ==
    CASE op \in Asks -> failed \/ (bEnable <=> state[arg] = "enabled")
      [] op \in {"TurnOnFirewall", "AddApplication", "AddPortRule"} ->
            state[arg] = "enabled"
      [] op = "RemoveApplication" -> state[arg] = "absent"
      [] op = "RemovePortRule" -> state[arg] # "enabled"
      [] OTHER -> TRUE

ResultsMeanIt ==
    [][pc # "idle" /\ pc' = "idle" =>
          IF ret' = "ERROR" THEN ~mine ELSE arg \in same => Promised]_vars

\* A rule is not added, removed or switched a second time: the call changes
\* only what is not so already ("applications cannot be added twice", line
\* 300), unless others changed it after the question, or the Item failed.
NotDoneTwice ==
    [][~mine /\ mine' /\ arg \in same /\ ~failed /\ op # "TurnOffFirewall" =>
          state'[arg] # state[arg]]_vars
=============================================================================
