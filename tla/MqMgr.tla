------------------------------- MODULE MqMgr -------------------------------
(***************************************************************************)
(* The message queue wrapper (AMqWraper.h, AMqWraper.cpp): MqMgr, the      *)
(* connections it keeps per broker, and their producers and consumers.     *)
(*                                                                         *)
(* Any number of threads call MqMgr.  Its two maps are protected by the    *)
(* read-write lock m_wrLockMqContainer: a call that changes them holds it  *)
(* for writing, a send holds it for reading until the broker has answered. *)
(* The lists of a connection have a lock of their own, m_lockProCon, which *)
(* is all that onException takes: the library calls it from a thread of    *)
(* its own when a connection breaks.  A step is one section of code under  *)
(* one of these locks.                                                     *)
(***************************************************************************)
EXTENDS Naturals, Sequences, FiniteSets, SequencesExt

CONSTANTS
    Thread,        \* the threads that use the manager
    Url,           \* the URLs they use, each the sequence of its '/'-separated parts
    EndsInMq,      \* the parts that end in "mq"
    Prod,          \* addresses of MqProducer objects
    Null,          \* no thread, no URL, no producer
    ConnMayFail,   \* may MqConnection::Conn fail?
    NoMemory,      \* may new(std::nothrow) return NULL?
    MaxDrops,      \* bound on the connections that break
    MaxCalls       \* bound on the calls of the manager

ASSUME UrlAssumption == Url \subseteq Seq(STRING) /\ "mq" \in EndsInMq
ASSUME NullAssumption == Null \notin Thread \cup Url \cup Prod
ASSUME BoundAssumption == MaxDrops \in Nat /\ MaxCalls \in Nat
ASSUME FailAssumption == ConnMayFail \in BOOLEAN /\ NoMemory \in BOOLEAN

-----------------------------------------------------------------------------
(* ParseMqUri: .../mq/<server>/<queue|topic>/<destination>, where "mq/"    *)
(* is searched for and whatever stands before it is ignored.               *)

MqAt(u) == {k \in 1 .. Len(u) - 1 : u[k] \in EndsInMq}
Start(u) == CHOOSE k \in MqAt(u) : \A j \in MqAt(u) : k <= j

ParseMqUri(u) ==
    /\ MqAt(u) # {}
    /\ Start(u) + 3 <= Len(u)
    /\ u[Start(u) + 2] \in {"queue", "topic"}
    /\ SubSeq(u, Start(u) + 3, Len(u)) # <<"">>

Svr(u) == u[Start(u) + 1]
Dst(u) == [mode |-> u[Start(u) + 2], name |-> SubSeq(u, Start(u) + 3, Len(u))]

GoodUrl == {u \in Url : ParseMqUri(u)}
Server  == {Svr(u) : u \in GoodUrl}
Target  == {Dst(u) : u \in GoodUrl}

VARIABLES
    bLibrary,       \* initializeLibrary called, shutdownLibrary not yet
    writer,         \* the thread that holds m_wrLockMqContainer for writing
    readers,        \* the threads that hold it for reading
    conn,           \* m_mapConn: no connection, one with a session, one without
    listProducer,   \* m_listProducer of each connection
    listConsumer,   \* m_listConsumer, the destinations of its consumers
    consuming,      \* those whose m_pConsumer is set and has its listener
    hidden,         \* history: those whose Create failed, which nobody was told
    mapProducer,    \* m_mapProcucer, Null where a URL has no entry
    alive,          \* the MqProducer objects allocated
    dstOf,          \* m_nMode and m_strName of each object
    created,        \* the producers whose m_pProducer is set
    callback,       \* onException per server: where it is in DisConn
    pc, op, url,    \* each thread: control, the call it makes, its argument
    pro,            \* each thread: the MqProducer it holds a pointer to
    ret,            \* each thread: what its last call returned
    fault,          \* what the process crashed on, "none" while it runs
    drops, calls    \* counters for MaxDrops and MaxCalls

lockVars   == <<writer, readers>>
consumerVars == <<listConsumer, consuming, hidden>>
connVars   == <<conn, listProducer, consumerVars, callback>>
prodVars   == <<mapProducer, alive, dstOf, created>>
threadVars == <<pc, op, url, pro, ret>>
boundVars  == <<drops, calls>>
vars == <<bLibrary, lockVars, connVars, prodVars, threadVars, fault, boundVars>>

Listed(s) == {listProducer[s][n] : n \in DOMAIN listProducer[s]}

-----------------------------------------------------------------------------
Init ==
    /\ bLibrary = FALSE /\ writer = Null /\ readers = {}
    /\ conn = [s \in Server |-> "none"]
    /\ listProducer = [s \in Server |-> <<>>]
    /\ listConsumer = [s \in Server |-> {}]
    /\ consuming = [s \in Server |-> {}] /\ hidden = [s \in Server |-> {}]
    /\ mapProducer = [u \in Url |-> Null]
    /\ alive = {} /\ created = {}
    /\ dstOf = [p \in Prod |-> Null]
    /\ callback = [s \in Server |-> "none"]
    /\ pc = [t \in Thread |-> "idle"] /\ op = [t \in Thread |-> "none"]
    /\ url = [t \in Thread |-> Null] /\ pro = [t \in Thread |-> Null]
    /\ ret = [t \in Thread |-> "none"]
    /\ fault = "none" /\ drops = 0 /\ calls = 0

-----------------------------------------------------------------------------
(* The read-write lock and the returns of a call. *)

MayWrite == writer = Null /\ readers = {}
MayRead  == writer = Null
ReadLock(t)  == MayRead /\ readers' = readers \cup {t}
\* Mutant: the read lock is kept.
ReleasedNever(t) == readers
Released(t)  == readers \ {t}

Goto(t, l) == pc' = [pc EXCEPT ![t] = l]
Return(t, r) ==
    /\ Goto(t, "idle")
    /\ ret' = [ret EXCEPT ![t] = r]
    /\ op' = [op EXCEPT ![t] = "none"] /\ url' = [url EXCEPT ![t] = Null]

\* An AddProducer inside SendMsg goes on to the second half of SendMsg.
Added(t) ==
    \/ op[t] = "send" /\ Goto(t, "resend") /\ UNCHANGED <<op, url, ret>>
    \/ op[t] = "add" /\ Return(t, "ok")

Running == fault = "none"
Crash(what) == fault' = what

-----------------------------------------------------------------------------
(* A call begins.  SendMsg looks before it parses; the others parse first. *)

Library ==
    /\ Running /\ ~bLibrary /\ calls < MaxCalls
    /\ bLibrary' = TRUE /\ calls' = calls + 1
    /\ UNCHANGED <<lockVars, connVars, prodVars, threadVars, fault, drops>>

Call(t, o, u) ==
    /\ Running /\ pc[t] = "idle" /\ bLibrary /\ calls < MaxCalls
    /\ calls' = calls + 1
    /\ \/ /\ o = "send" \/ ParseMqUri(u)
          /\ op' = [op EXCEPT ![t] = o] /\ url' = [url EXCEPT ![t] = u]
          /\ ret' = [ret EXCEPT ![t] = "none"]
          /\ Goto(t, o)
       \/ /\ ~(o = "send" \/ ParseMqUri(u))
          /\ Return(t, "error")
    /\ UNCHANGED <<bLibrary, lockVars, connVars, prodVars, pro, fault, drops>>

-----------------------------------------------------------------------------
(* AddProducer *)

\* MqConnection::AddProducer, up to push_back: new may fail.
Fresh == {p \in Prod : /\ p \notin alive
                       /\ \A u \in Url : mapProducer[u] # p
                       /\ \A t \in Thread : pro[t] # p}

NewProducer(t, s) ==
    \/ \E p \in Fresh :
          /\ alive' = alive \cup {p}
          /\ dstOf' = [dstOf EXCEPT ![p] = Dst(url[t])]
          /\ listProducer' = [listProducer EXCEPT ![s] = Append(@, p)]
          /\ pro' = [pro EXCEPT ![t] = p]
          /\ writer' = t /\ Goto(t, "create")
          /\ UNCHANGED <<op, url, ret>>
    \/ /\ NoMemory
       /\ Return(t, "error") /\ UNCHANGED <<alive, dstOf, listProducer, pro, writer>>

\* AddConnection: the one in the map, a new one, or the address of one that
\* could not connect and was deleted.
HaveConnection(s) == conn[s] # "none" /\ UNCHANGED conn
NewConnection(s)  == conn[s] = "none" /\ conn' = [conn EXCEPT ![s] = "up"]
DeadConnection(s) == conn[s] = "none" /\ ConnMayFail

\* Mutant: the lock is taken for reading.
AddLockShared == MayRead
AddLock == MayWrite

AddProducer(t) ==
    LET s == Svr(url[t]) IN
    /\ Running /\ pc[t] = "add" /\ AddLock
    /\ \/ /\ mapProducer[url[t]] # Null
          /\ Added(t)
          /\ UNCHANGED <<writer, connVars, prodVars, pro, fault>>
       \/ /\ mapProducer[url[t]] = Null
          /\ HaveConnection(s) \/ NewConnection(s)
          /\ NewProducer(t, s)
          /\ UNCHANGED <<consumerVars, callback, mapProducer, created, fault>>
       \/ /\ mapProducer[url[t]] = Null
          /\ NoMemory /\ conn[s] = "none"
          /\ Return(t, "error")
          /\ UNCHANGED <<writer, connVars, prodVars, pro, fault>>
       \/ /\ mapProducer[url[t]] = Null
          /\ DeadConnection(s)
          /\ Crash("deleted connection")
          /\ UNCHANGED <<writer, connVars, prodVars, threadVars>>
    /\ UNCHANGED <<bLibrary, readers, boundVars>>

\* MqProducer::Create does nothing without a session and hides its failures.
CreateProducer(t) ==
    /\ Running /\ pc[t] = "create"
    /\ \/ conn[Svr(url[t])] = "up" /\ created' = created \cup {pro[t]}
       \/ UNCHANGED created
    /\ mapProducer' = [mapProducer EXCEPT ![url[t]] = pro[t]]
    /\ writer' = Null /\ pro' = [pro EXCEPT ![t] = Null]
    /\ Added(t)
    /\ UNCHANGED <<bLibrary, readers, connVars, alive, dstOf, fault, boundVars>>

-----------------------------------------------------------------------------
(* SendMsg *)

SendMsg(t) ==
    /\ Running /\ pc[t] = "send" /\ ReadLock(t)
    /\ Goto(t, "lookup")
    /\ UNCHANGED <<bLibrary, writer, connVars, prodVars, op, url, pro, ret,
                   fault, boundVars>>

\* Without an entry the lock is given back, as AddProducer needs it.
Lookup(t) ==
    /\ Running /\ pc[t] = "lookup"
    /\ \/ /\ mapProducer[url[t]] # Null
          /\ pro' = [pro EXCEPT ![t] = mapProducer[url[t]]]
          /\ Goto(t, "sending") /\ UNCHANGED <<op, url, ret, readers>>
       \/ /\ mapProducer[url[t]] = Null /\ readers' = Released(t)
          /\ IF ParseMqUri(url[t])
             THEN Goto(t, "add") /\ UNCHANGED <<op, url, ret>>
             ELSE Return(t, "error")
          /\ UNCHANGED pro
    /\ UNCHANGED <<bLibrary, writer, connVars, prodVars, fault, boundVars>>

\* operator[] of an absent URL yields NULL, which is dereferenced.
Resend(t) ==
    /\ Running /\ pc[t] = "resend"
    /\ \/ /\ mapProducer[url[t]] # Null /\ ReadLock(t)
          /\ pro' = [pro EXCEPT ![t] = mapProducer[url[t]]]
          /\ Goto(t, "sending") /\ UNCHANGED fault
       \/ /\ mapProducer[url[t]] = Null /\ MayRead
          /\ Crash("null producer") /\ UNCHANGED <<pc, pro, readers>>
    /\ UNCHANGED <<bLibrary, writer, connVars, prodVars, op, url, ret, boundVars>>

\* MqProducer::SendMsg: the broker may refuse; without a producer it fails.
Sending(t) ==
    /\ Running /\ pc[t] = "sending"
    /\ \/ /\ pro[t] \in alive
          /\ \/ pro[t] \in created /\ Return(t, "ok")
             \/ Return(t, "error")
          /\ readers' = Released(t) /\ pro' = [pro EXCEPT ![t] = Null]
          /\ UNCHANGED fault
       \/ /\ pro[t] \notin alive
          /\ Crash("deleted producer") /\ UNCHANGED <<threadVars, readers>>
    /\ UNCHANGED <<bLibrary, writer, connVars, prodVars, boundVars>>

-----------------------------------------------------------------------------
(* DelProducer *)

\* Mutant: the mode is not compared.
MatchName(s, d) ==
    {n \in DOMAIN listProducer[s] : dstOf[listProducer[s][n]].name = d.name}
Match(s, d) == {n \in DOMAIN listProducer[s] : dstOf[listProducer[s][n]] = d}
First(s, d) == CHOOSE n \in Match(s, d) : \A k \in Match(s, d) : n <= k

\* Mutants: the producer stays listed, the entry stays in the cache, and the
\* last consumer or producer leaves its connection behind.
EraseNothing(s, n) == listProducer
ForgetNothing(u) == mapProducer
IsEmptyConnNever(producers, consumers) == FALSE

Erase(s, n) == [listProducer EXCEPT ![s] = RemoveAt(@, n)]
Forget(u)   == [mapProducer EXCEPT ![u] = Null]

IsEmptyConn(producers, consumers) == producers = <<>> /\ consumers = {}

\* DisConn and delete of a connection whose lists are empty; onException may
\* still be between the two halves of DisConn.
DropConnection(s) ==
    /\ conn' = [conn EXCEPT ![s] = "none"]
    /\ callback' = [callback EXCEPT ![s] = IF @ = "half" THEN "orphan" ELSE @]

DropIfEmpty(s) ==
    IF conn[s] # "none" /\ IsEmptyConn(listProducer'[s], listConsumer'[s])
    THEN DropConnection(s)
    ELSE UNCHANGED <<conn, callback>>

\* Mutant: the lock is taken for reading.
DelLockShared == MayRead
DelLock == MayWrite

DelProducer(t) ==
    LET s == Svr(url[t])
        d == Dst(url[t])
    IN
    /\ Running /\ pc[t] = "del" /\ DelLock
    /\ IF Match(s, d) = {}
       THEN UNCHANGED <<alive, created, listProducer>>
       ELSE LET p == listProducer[s][First(s, d)] IN
            /\ alive' = alive \ {p} /\ created' = created \ {p}
            /\ listProducer' = Erase(s, First(s, d))
    /\ UNCHANGED consumerVars
    /\ DropIfEmpty(s)
    /\ mapProducer' = Forget(url[t])
    /\ Return(t, "ok")
    /\ UNCHANGED <<bLibrary, lockVars, dstOf, pro, fault, boundVars>>

-----------------------------------------------------------------------------
(* AddConsumer and DelConsumer *)

\* The address of a connection that could not connect is not NULL either.
AddConsumer(t) ==
    LET s == Svr(url[t]) IN
    /\ Running /\ pc[t] = "sub" /\ MayWrite
    /\ \/ /\ Dst(url[t]) \in listConsumer[s]
          /\ Return(t, "ok")
          /\ UNCHANGED <<writer, conn, listConsumer, fault>>
       \/ /\ Dst(url[t]) \notin listConsumer[s]
          /\ HaveConnection(s) \/ NewConnection(s)
          /\ listConsumer' = [listConsumer EXCEPT ![s] = @ \cup {Dst(url[t])}]
          /\ writer' = t /\ Goto(t, "subcreate")
          /\ UNCHANGED <<op, url, ret, fault>>
       \/ /\ Dst(url[t]) \notin listConsumer[s] /\ NoMemory
          /\ HaveConnection(s) \/ NewConnection(s) \/ (conn[s] = "none" /\ UNCHANGED conn)
          /\ Return(t, "error")
          /\ UNCHANGED <<writer, listConsumer, fault>>
       \/ /\ DeadConnection(s)
          /\ Crash("deleted connection")
          /\ UNCHANGED <<writer, conn, listConsumer, pc, op, url, ret>>
    /\ UNCHANGED <<bLibrary, readers, listProducer, consuming, hidden, callback,
                   prodVars, pro, boundVars>>

\* MqConsumer::Create does nothing without a session and hides its failures;
\* AddConsumer answers DTK_OK all the same.
CreateConsumer(t) ==
    LET s == Svr(url[t])
        d == Dst(url[t])
    IN
    /\ Running /\ pc[t] = "subcreate"
    /\ \/ /\ conn[s] = "up" /\ consuming' = [consuming EXCEPT ![s] = @ \cup {d}]
          /\ UNCHANGED hidden
       \/ /\ hidden' = [hidden EXCEPT ![s] = @ \cup ({d} \cap listConsumer[s])]
          /\ UNCHANGED consuming
    /\ writer' = Null /\ Return(t, "ok")
    /\ UNCHANGED <<bLibrary, readers, conn, listProducer, listConsumer, callback,
                   prodVars, pro, fault, boundVars>>

DelConsumer(t) ==
    LET s == Svr(url[t])
        d == Dst(url[t])
    IN
    /\ Running /\ pc[t] = "unsub" /\ MayWrite
    /\ listConsumer' = [listConsumer EXCEPT ![s] = @ \ {d}]
    /\ consuming' = [consuming EXCEPT ![s] = @ \ {d}]
    /\ hidden' = [hidden EXCEPT ![s] = @ \ {d}]
    /\ UNCHANGED listProducer
    /\ DropIfEmpty(s)
    /\ Return(t, "ok")
    /\ UNCHANGED <<bLibrary, lockVars, prodVars, pro, fault, boundVars>>

-----------------------------------------------------------------------------
(* MqMgr::Fini.  Its callers have no other call under way: any later use   *)
(* of a map would find the library shut down.                              *)

Fini ==
    /\ Running /\ bLibrary /\ MayWrite /\ \A t \in Thread : pc[t] = "idle"
    /\ calls < MaxCalls /\ calls' = calls + 1
    /\ conn' = [s \in Server |-> "none"]
    /\ callback' = [s \in Server |->
                      IF callback[s] = "half" THEN "orphan" ELSE callback[s]]
    /\ listProducer' = [s \in Server |-> <<>>]
    /\ listConsumer' = [s \in Server |-> {}]
    /\ consuming' = [s \in Server |-> {}] /\ hidden' = [s \in Server |-> {}]
    /\ alive' = alive \ UNION {Listed(s) : s \in Server}
    /\ created' = created \ UNION {Listed(s) : s \in Server}
    /\ mapProducer' = [u \in Url |-> Null]
    /\ bLibrary' = FALSE
    /\ UNCHANGED <<lockVars, dstOf, threadVars, fault, drops>>

-----------------------------------------------------------------------------
(* onException: DestroyConn, then the second half of DisConn. *)

\* A thread that uses, without m_lockProCon, what DestroyConn deletes.
Using(s) == \E t \in Thread :
    \/ pc[t] = "sending" /\ pro[t] \in Listed(s)
    \/ pc[t] \in {"create", "subcreate"} /\ Svr(url[t]) = s

OnException(s) ==
    /\ Running /\ conn[s] = "up" /\ callback[s] = "none" /\ drops < MaxDrops
    /\ drops' = drops + 1
    /\ conn' = [conn EXCEPT ![s] = "down"]
    /\ created' = created \ Listed(s) /\ consuming' = [consuming EXCEPT ![s] = {}]
    /\ callback' = [callback EXCEPT ![s] = "half"]
    /\ \/ UNCHANGED fault
       \/ Using(s) /\ Crash("deleted session")
    /\ UNCHANGED <<bLibrary, lockVars, listProducer, listConsumer, hidden,
                   mapProducer, alive, dstOf, threadVars, calls>>

DeleteAll(s) ==
    /\ Running /\ callback[s] = "half"
    /\ callback' = [callback EXCEPT ![s] = "none"]
    /\ alive' = alive \ Listed(s)
    /\ listProducer' = [listProducer EXCEPT ![s] = <<>>]
    /\ listConsumer' = [listConsumer EXCEPT ![s] = {}]
    /\ hidden' = [hidden EXCEPT ![s] = {}]
    /\ UNCHANGED <<bLibrary, lockVars, conn, consuming, mapProducer, dstOf, created,
                   threadVars, fault, boundVars>>

\* The connection was deleted between the halves.
DeletedUnderCallback(s) ==
    /\ Running /\ callback[s] = "orphan"
    /\ Crash("deleted mutex")
    /\ UNCHANGED <<bLibrary, lockVars, connVars, prodVars, threadVars, boundVars>>

-----------------------------------------------------------------------------
Step(t) ==
    \/ AddProducer(t) \/ CreateProducer(t)
    \/ SendMsg(t) \/ Lookup(t) \/ Resend(t) \/ Sending(t)
    \/ DelProducer(t)
    \/ AddConsumer(t) \/ CreateConsumer(t) \/ DelConsumer(t)

Callback(s) == OnException(s) \/ DeleteAll(s) \/ DeletedUnderCallback(s)

Operation == {"add", "del", "send", "sub", "unsub"}

Next ==
    \/ Library \/ Fini
    \/ \E t \in Thread, o \in Operation, u \in Url : Call(t, o, u)
    \/ \E t \in Thread : Step(t)
    \/ \E s \in Server : Callback(s)

Spec == Init /\ [][Next]_vars

\* Threads run, and so does the library's once it is in onException.
Fairness ==
    /\ \A t \in Thread : WF_vars(Step(t))
    /\ \A s \in Server : WF_vars(DeleteAll(s))

FairSpec == Spec /\ Fairness

-----------------------------------------------------------------------------
(* Properties.                                                             *)

LockTypes ==
    /\ writer \in Thread \cup {Null}
    /\ writer # Null => readers = {}
    /\ \A t \in Thread : writer = t <=> pc[t] \in {"create", "subcreate"}
    /\ readers = {t \in Thread : pc[t] \in {"lookup", "sending"}}

ConnTypes ==
    /\ conn \in [Server -> {"none", "up", "down"}]
    /\ callback \in [Server -> {"none", "half", "orphan"}]
    /\ listProducer \in [Server -> Seq(Prod)]
    /\ listConsumer \in [Server -> SUBSET Target]
    /\ consuming \in [Server -> SUBSET Target] /\ hidden \in [Server -> SUBSET Target]
    /\ \A s \in Server :
          conn[s] = "none" => listProducer[s] = <<>> /\ listConsumer[s] = {}

ProdTypes ==
    /\ mapProducer \in [Url -> Prod \cup {Null}]
    /\ alive \subseteq Prod /\ created \subseteq alive
    /\ dstOf \in [Prod -> Target \cup {Null}]

ThreadTypes ==
    /\ pc \in [Thread -> Operation \cup {"idle", "create", "lookup", "resend",
                                        "sending", "subcreate"}]
    /\ op \in [Thread -> Operation \cup {"none"}]
    /\ url \in [Thread -> Url \cup {Null}]
    /\ pro \in [Thread -> Prod \cup {Null}]
    /\ ret \in [Thread -> {"none", "ok", "error"}]
    /\ \A t \in Thread : pc[t] = "idle" <=> url[t] = Null

ProcessTypes ==
    /\ fault \in {"none", "deleted connection", "deleted producer",
                  "null producer", "deleted session", "deleted mutex"}
    /\ drops \in 0 .. MaxDrops /\ calls \in 0 .. MaxCalls

\* The type invariant: the shape of each variable, and the lock is held by
\* the threads that are in a section it protects, one writer or any readers.
TypeOK ==
    /\ bLibrary \in BOOLEAN /\ ProcessTypes
    /\ LockTypes /\ ConnTypes /\ ProdTypes /\ ThreadTypes

\* Every MqProducer allocated is owned by one connection, which lists it once,
\* and no list holds the address of a deleted one: whatever connections break
\* or cannot be made, none leaks and none is deleted twice.
ProducersOwned ==
    /\ alive = UNION {Listed(s) : s \in Server}
    /\ \A s \in Server, r \in Server :
          \A m \in DOMAIN listProducer[s], n \in DOMAIN listProducer[r] :
             listProducer[s][m] = listProducer[r][n] => s = r /\ m = n

\* While no connection breaks, and unless an AddProducer is half way, the
\* cache m_mapProcucer and the lists of the connections agree: an entry names
\* a living producer of the connection and destination of its URL, and every
\* producer has an entry, one only, so that two threads that send to a new
\* URL at once do not make two.
RegistryConsistent == writer = Null =>
    /\ \A u \in Url : mapProducer[u] # Null =>
          /\ ParseMqUri(u)
          /\ mapProducer[u] \in Listed(Svr(u)) \cap alive
          /\ dstOf[mapProducer[u]] = Dst(u)
    /\ \A s \in Server : \A p \in Listed(s) :
          \E u \in Url : mapProducer[u] = p
    /\ \A s \in Server : \A m, n \in DOMAIN listProducer[s] :
          dstOf[listProducer[s][m]] = dstOf[listProducer[s][n]] => m = n

\* While no connection breaks, a thread inside MqProducer::SendMsg holds a
\* pointer to a living producer of the destination it was asked to send to,
\* whatever other threads delete meanwhile.
SendsToItsDestination == \A t \in Thread : pc[t] = "sending" =>
    pro[t] \in alive /\ dstOf[pro[t]] = Dst(url[t])

\* While no connection breaks and memory lasts, every connection that is kept
\* outside a locked section is there for a producer or a consumer: the calls
\* that delete them delete the connection with the last one.
NoEmptyConnection == writer = Null => \A s \in Server :
    conn[s] # "none" => listProducer[s] # <<>> \/ listConsumer[s] # {}

\* What DTK_OK says of a call that returns, while no connection breaks: the URL
\* has a producer, or none any more; a message counted as sent went through the
\* producer registered for its URL, which the broker knows; the destination has
\* a consumer, and messages come, unless its Create failed, now or in an earlier
\* call, which AddConsumer does not notice; or it has none any more and no
\* message comes.
Postcondition(t) == CASE
       op[t] = "add"   -> mapProducer'[url[t]] # Null
    [] op[t] = "del"   -> /\ mapProducer'[url[t]] = Null
                          /\ \A p \in alive' : p \notin Listed(Svr(url[t]))
                                               \/ dstOf'[p] # Dst(url[t])
    [] op[t] = "send"  -> pro[t] = mapProducer[url[t]] /\ pro[t] \in created
    [] op[t] = "sub"   -> LET s == Svr(url[t]) IN
                          Dst(url[t]) \in listConsumer'[s] \cap (consuming'[s] \cup hidden'[s])
    [] op[t] = "unsub" -> LET s == Svr(url[t]) IN
                          Dst(url[t]) \notin listConsumer'[s] \cup consuming'[s]

ReturnsMeanIt == [][\A t \in Thread :
    ret[t] = "none" /\ ret'[t] = "ok" /\ op[t] # "none" => Postcondition(t)]_vars

\* Every call returns, unless the process crashed: SendMsg gives its read lock
\* back before it calls AddProducer, and no section waits for another.
CallsReturn == \A t \in Thread :
    pc[t] # "idle" ~> pc[t] = "idle" \/ fault # "none"
=============================================================================
