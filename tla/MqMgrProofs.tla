---------------------------- MODULE MqMgrProofs ----------------------------
(***************************************************************************)
(* Proofs about MqMgr.  For any connections that break and any calls that  *)
(* fail: its type invariant, and that each producer has one owner.  While  *)
(* no connection breaks: that the cache of producers and the lists of the  *)
(* connections agree, that a send uses a living producer of its            *)
(* destination, that no connection is kept for nobody, and that DTK_OK     *)
(* means what it says.  These hold of URLs that are spelt in one way only  *)
(* (OneSpelling), for the cache is looked up by the URL and the lists by   *)
(* its server and destination.                                             *)
(***************************************************************************)
EXTENDS MqMgr, SequenceTheorems, WellFoundedInduction, TLAPS

-----------------------------------------------------------------------------
(* The inductive invariant.                                                *)

\* The elements of a sequence, and that it has none of them twice.
Elems(q) == {q[k] : k \in DOMAIN q}
Distinct(q) == \A i, j \in DOMAIN q : q[i] = q[j] => i = j

\* Where a thread is decides what it was called for, that its URL parses, and
\* whether it holds a pointer to a producer.
CallInv == \A t \in Thread :
    /\ pc[t] \in {"add", "create", "resend", "del", "sub", "subcreate", "unsub"}
          => ParseMqUri(url[t])
    /\ pro[t] # Null <=> pc[t] \in {"create", "sending"}
    /\ pc[t] \in {"add", "create"} => op[t] \in {"add", "send"}
    /\ pc[t] \in {"send", "lookup", "resend", "sending"} => op[t] = "send"
    /\ pc[t] \in {"del", "sub", "unsub"} => op[t] = pc[t]
    /\ pc[t] = "subcreate" => op[t] = "sub"

\* A connection is between the halves of DisConn only when it is down, and none
\* of the producers of one that is down has a session.
DownInv ==
    /\ \A s \in Server : callback[s] = "half" => conn[s] = "down"
    /\ \A s \in Server : conn[s] = "down" => Listed(s) \cap created = {}

\* A connection is kept, and its new producer listed, while a producer or
\* consumer is created on it, unless it breaks.
KeptInv == \A t \in Thread, s \in Server :
    pc[t] \in {"create", "subcreate"} /\ s = Svr(url[t]) =>
       /\ conn[s] # "none"
       /\ pc[t] = "create" /\ conn[s] = "up" => pro[t] \in Listed(s)

ConnInv == DownInv /\ KeptInv

\* ProducersOwned in terms of the sets of the producers that are listed.
OwnInv ==
    /\ alive = UNION {Listed(s) : s \in Server}
    /\ \A s \in Server : Distinct(listProducer[s])
    /\ \A s, r \in Server : s # r => Listed(s) \cap Listed(r) = {}

MqInv == TypeOK /\ CallInv /\ ConnInv /\ OwnInv

\* Two URLs that name the same destination of the same server are the same:
\* nobody writes what ParseMqUri ignores, the parts before "mq/".
OneSpelling ==
    \A u, v \in Url : ParseMqUri(u) /\ ParseMqUri(v) /\ Svr(u) = Svr(v) /\ Dst(u) = Dst(v)
                         => u = v

\* No connection breaks.
StaysUp == \A s \in Server : callback[s] = "none" /\ conn[s] # "down"

\* While no connection breaks, an entry of the cache names a listed producer
\* of its URL.
EntryInv == \A u \in Url : mapProducer[u] # Null =>
    /\ ParseMqUri(u) /\ mapProducer[u] \in Listed(Svr(u))
    /\ dstOf[mapProducer[u]] = Dst(u)

\* A listed producer has an entry, or the thread that creates it is about to
\* make one, and no connection lists two of the same destination.
ListInv ==
    /\ \A s \in Server : \A p \in Listed(s) :
          \/ \E u \in Url : mapProducer[u] = p
          \/ \E t \in Thread : pc[t] = "create" /\ pro[t] = p
    /\ \A s \in Server : \A p, q \in Listed(s) : dstOf[p] = dstOf[q] => p = q

\* A producer that is being created is listed, for a URL without an entry.
CreateInv == \A t \in Thread, s \in Server :
    pc[t] = "create" /\ s = Svr(url[t]) =>
       /\ pro[t] \in Listed(s) /\ dstOf[pro[t]] = Dst(url[t])
       /\ mapProducer[url[t]] = Null

\* A thread that sends holds what the cache names.
SendInv == \A t \in Thread : pc[t] = "sending" =>
    pro[t] = mapProducer[url[t]] /\ mapProducer[url[t]] # Null

CacheInv == EntryInv /\ ListInv /\ CreateInv /\ SendInv

\* While no connection breaks, a consumer that is being created is listed.
ConsumerInv == \A t \in Thread, s \in Server :
    pc[t] = "subcreate" /\ s = Svr(url[t]) => Dst(url[t]) \in listConsumer[s]

\* Then a consumer that is listed and that no thread is about to create has its
\* listener, or its Create failed.
HeardInv == \A s \in Server : \A d \in listConsumer[s] :
    \/ d \in consuming[s] \cup hidden[s]
    \/ \E t \in Thread : pc[t] = "subcreate" /\ s = Svr(url[t]) /\ d = Dst(url[t])

\* With memory enough besides, no connection is ever empty.
UsedInv == \A s \in Server :
    conn[s] # "none" => listProducer[s] # <<>> \/ listConsumer[s] # {}

-----------------------------------------------------------------------------
(* Sequences without repetitions, as the lists of producers are.           *)

\* Append adds one element at the end.
LEMMA Appended ==
  ASSUME NEW S, NEW q \in Seq(S), NEW p \in S
  PROVE  /\ Append(q, p) \in Seq(S) /\ Append(q, p) # <<>>
         /\ Len(Append(q, p)) = Len(q) + 1
         /\ \A n \in 1 .. Len(q) : Append(q, p)[n] = q[n]
         /\ Append(q, p)[Len(q) + 1] = p
OBVIOUS

\* RemoveAt takes one element out and moves those behind it up.
LEMMA Removed ==
  ASSUME NEW S, NEW q \in Seq(S), NEW n \in 1 .. Len(q)
  PROVE  /\ RemoveAt(q, n) \in Seq(S)
         /\ Len(RemoveAt(q, n)) = Len(q) - 1
         /\ \A k \in 1 .. Len(q) - 1 : RemoveAt(q, n)[k] = IF k < n THEN q[k] ELSE q[k + 1]
<1>1. Len(q) \in Nat /\ n \in Nat
  OBVIOUS
<1> DEFINE a == SubSeq(q, 1, n - 1)
           b == SubSeq(q, n + 1, Len(q))
<1>2. a \in Seq(S) /\ Len(a) = n - 1 /\ \A k \in 1 .. n - 1 : a[k] = q[k]
  <2>1. CASE n = 1
    OBVIOUS
  <2>2. CASE n > 1
    OBVIOUS
  <2> QED
    BY <2>1, <2>2, <1>1
<1>3. b \in Seq(S) /\ Len(b) = Len(q) - n /\ \A k \in 1 .. Len(q) - n : b[k] = q[n + k]
  <2>1. CASE n = Len(q)
    OBVIOUS
  <2>2. CASE n < Len(q)
    OBVIOUS
  <2> QED
    BY <2>1, <2>2, <1>1
<1>4. RemoveAt(q, n) = a \o b
  BY DEF RemoveAt
<1> HIDE DEF a, b
<1>5. RemoveAt(q, n) \in Seq(S) /\ Len(RemoveAt(q, n)) = Len(q) - 1
  <2>1. a \o b \in Seq(S) /\ Len(a \o b) = Len(a) + Len(b)
    BY <1>2, <1>3, ConcatProperties
  <2> QED
    BY <1>2, <1>3, <1>4, <2>1
<1>6. ASSUME NEW k \in 1 .. Len(q) - 1
      PROVE  RemoveAt(q, n)[k] = IF k < n THEN q[k] ELSE q[k + 1]
  <2>1. CASE k < n
    BY <2>1, <1>2, <1>4
  <2>2. CASE ~(k < n)
    <3>1. k \in Len(a) + 1 .. Len(a) + Len(b) /\ k - Len(a) = k + 1 - n
      BY <2>2, <1>2, <1>3
    <3>2. b[k + 1 - n] = q[k + 1]
      BY <2>2, <1>3
    <3> QED
      BY <3>1, <3>2, <1>4
  <2> QED
    BY <2>1, <2>2
<1> QED
  BY <1>5, <1>6

\* A new element at the end repeats nothing.
LEMMA AppendDistinct ==
  ASSUME NEW S, NEW q \in Seq(S), NEW p \in S, Distinct(q), p \notin Elems(q)
  PROVE  /\ Append(q, p) \in Seq(S) /\ Append(q, p) # <<>>
         /\ Elems(Append(q, p)) = Elems(q) \cup {p}
         /\ Distinct(Append(q, p))
<1> DEFINE r == Append(q, p)
<1>1. /\ r \in Seq(S) /\ r # <<>> /\ Len(r) = Len(q) + 1
      /\ \A i \in 1 .. Len(q) : r[i] = q[i]
      /\ r[Len(q) + 1] = p
  OBVIOUS
<1>2. Len(q) \in Nat /\ DOMAIN q = 1 .. Len(q) /\ DOMAIN r = 1 .. Len(q) + 1
  OBVIOUS
<1> HIDE DEF r
<1>3. Elems(r) = Elems(q) \cup {p}
  BY <1>1 DEF Elems
<1>4. Distinct(r)
  <2> SUFFICES ASSUME NEW i \in 1 .. Len(q) + 1, NEW j \in 1 .. Len(q) + 1, r[i] = r[j]
               PROVE  i = j
    BY <1>2 DEF Distinct
  <2>1. \A k \in 1 .. Len(q) : r[k] # p
    BY <1>1 DEF Elems
  <2> QED
    BY <1>1, <2>1 DEF Distinct
<1> QED
  BY <1>3, <1>4 DEF r

\* Without one of its elements, a sequence that repeats nothing has the others.
LEMMA RemoveDistinct ==
  ASSUME NEW S, NEW q \in Seq(S), NEW n \in DOMAIN q, Distinct(q)
  PROVE  /\ RemoveAt(q, n) \in Seq(S)
         /\ Elems(RemoveAt(q, n)) = Elems(q) \ {q[n]}
         /\ Distinct(RemoveAt(q, n))
<1> DEFINE r == RemoveAt(q, n)
<1>1. Len(q) \in Nat /\ DOMAIN q = 1 .. Len(q) /\ n \in 1 .. Len(q) /\ n \in Nat
  OBVIOUS
<1>2. /\ r \in Seq(S) /\ Len(r) = Len(q) - 1
      /\ \A k \in 1 .. Len(q) - 1 : r[k] = IF k < n THEN q[k] ELSE q[k + 1]
  BY <1>1, Removed
<1>3. DOMAIN r = 1 .. Len(q) - 1
  BY <1>2
<1> HIDE DEF r
<1>4. \A k \in 1 .. Len(q) - 1 : \E i \in 1 .. Len(q) : i # n /\ r[k] = q[i]
  BY <1>2
<1>5. \A i \in 1 .. Len(q) : i # n => \E k \in 1 .. Len(q) - 1 : r[k] = q[i]
  <2> SUFFICES ASSUME NEW i \in 1 .. Len(q), i # n
               PROVE  \E k \in 1 .. Len(q) - 1 : r[k] = q[i]
    OBVIOUS
  <2>1. CASE i < n
    BY <2>1, <1>2
  <2>2. CASE i > n
    <3>1. i - 1 \in 1 .. Len(q) - 1 /\ ~(i - 1 < n) /\ (i - 1) + 1 = i
      BY <2>2
    <3> QED
      BY <3>1, <1>2
  <2> QED
    BY <2>1, <2>2
<1>6. Elems(r) = Elems(q) \ {q[n]}
  <2>1. ASSUME NEW e \in Elems(r) PROVE e \in Elems(q) \ {q[n]}
    <3>1. PICK k \in 1 .. Len(q) - 1 : e = r[k]
      BY <1>3 DEF Elems
    <3>2. PICK i \in 1 .. Len(q) : i # n /\ r[k] = q[i]
      BY <1>4
    <3> QED
      BY <3>1, <3>2 DEF Elems, Distinct
  <2>2. ASSUME NEW e \in Elems(q) \ {q[n]} PROVE e \in Elems(r)
    <3>1. PICK i \in 1 .. Len(q) : e = q[i]
      BY DEF Elems
    <3>2. PICK k \in 1 .. Len(q) - 1 : r[k] = q[i]
      BY <1>5, <3>1
    <3> QED
      BY <1>3, <3>1, <3>2 DEF Elems
  <2> QED
    BY <2>1, <2>2
<1>7. Distinct(r)
  <2> SUFFICES ASSUME NEW i \in 1 .. Len(q) - 1, NEW j \in 1 .. Len(q) - 1, r[i] = r[j]
               PROVE  i = j
    BY <1>3 DEF Distinct
  <2> DEFINE At(k) == IF k < n THEN k ELSE k + 1
  <2>1. At(i) \in 1 .. Len(q) /\ At(j) \in 1 .. Len(q)
    OBVIOUS
  <2>2. r[i] = q[At(i)] /\ r[j] = q[At(j)]
    BY <1>2
  <2>3. At(i) = At(j)
    BY <1>1, <2>1, <2>2 DEF Distinct
  <2> QED
    BY <2>3
<1> QED
  BY <1>2, <1>6, <1>7 DEF r

\* The order of the natural numbers, as the theorems on well-founded relations
\* take it.
NatLess == OpToRel(<, Nat)

\* A set of natural numbers that has a member has a least one.
LEMMA Smallest ==
  ASSUME NEW T \in SUBSET Nat, T # {}
  PROVE  \E x \in T : \A y \in T : x <= y
<1>1. IsWellFoundedOn(NatLess, Nat)
  BY NatLessThanWellFounded DEF NatLess
<1>2. \A x, y \in Nat : x < y => <<x, y>> \in NatLess
  BY DEF OpToRel, NatLess
<1>3. \E x \in T : \A y \in T : ~(<<y, x>> \in NatLess)
  BY <1>1, WFMin
<1> SUFFICES ASSUME NEW x \in T, \A y \in T : ~(<<y, x>> \in NatLess), NEW y \in T
             PROVE  x <= y
  BY <1>3
<1>4. <<y, x>> \notin NatLess
  OBVIOUS
<1>5. ~(y < x)
  BY <1>2, <1>4
<1> QED
  BY <1>5

\* The first producer of a destination is one of its producers.
LEMMA FirstMatches ==
  ASSUME NEW s, NEW d, Match(s, d) # {}, DOMAIN listProducer[s] \subseteq Nat
  PROVE  First(s, d) \in DOMAIN listProducer[s] /\ dstOf[listProducer[s][First(s, d)]] = d
<1>1. \E n \in Match(s, d) : \A k \in Match(s, d) : n <= k
  BY Smallest DEF Match
<1>2. First(s, d) \in Match(s, d)
  BY <1>1 DEF First
<1> QED
  BY <1>2 DEF Match

-----------------------------------------------------------------------------
(* The cases of a step.  What a section of code may do is named here, in   *)
(* the form in which the proofs below use it; StepCases shows that every   *)
(* step is one of these.                                                   *)

\* The process ends on memory it must not use; nothing else changes.
Crashes ==
    /\ fault' \in {"deleted connection", "deleted producer", "null producer",
                   "deleted mutex"}
    /\ UNCHANGED <<bLibrary, lockVars, connVars, prodVars, threadVars, boundVars>>

\* AddProducer of a URL that is in the cache.
AddFound(t) ==
    /\ pc[t] = "add" /\ MayWrite /\ mapProducer[url[t]] # Null /\ Added(t)
    /\ UNCHANGED <<bLibrary, lockVars, connVars, prodVars, pro, fault, boundVars>>

\* AddConnection when it succeeds: the connection of s, which is up if it is new.
Connected(s) == conn' = [conn EXCEPT ![s] = IF conn[s] = "none" THEN "up" ELSE conn[s]]

\* AddProducer that lists a new producer p.
AddMakes(t, p) ==
    LET s == Svr(url[t]) IN
    /\ pc[t] = "add" /\ MayWrite /\ mapProducer[url[t]] = Null
    /\ p \in Prod \ alive
    /\ \A u \in Url : mapProducer[u] # p
    /\ \A r \in Thread : pro[r] # p
    /\ Connected(s)
    /\ alive' = alive \cup {p} /\ dstOf' = [dstOf EXCEPT ![p] = Dst(url[t])]
    /\ listProducer' = [listProducer EXCEPT ![s] = Append(listProducer[s], p)]
    /\ pro' = [pro EXCEPT ![t] = p] /\ writer' = t /\ Goto(t, "create")
    /\ UNCHANGED <<bLibrary, readers, consumerVars, callback, mapProducer,
                   created, op, url, ret, fault, boundVars>>

\* AddProducer and AddConsumer without memory, which may leave a connection.
Fails(t) ==
    /\ pc[t] \in {"add", "sub"} /\ MayWrite /\ NoMemory /\ Return(t, "error")
    /\ Connected(Svr(url[t])) \/ UNCHANGED conn
    /\ UNCHANGED <<bLibrary, lockVars, listProducer, consumerVars, callback,
                   prodVars, pro, fault, boundVars>>

\* SendMsg finds its producer, before or after its AddProducer, and calls it
\* with the lock held for reading.
Finds(t) ==
    /\ pc[t] \in {"lookup", "resend"} /\ writer = Null
    /\ mapProducer[url[t]] # Null
    /\ readers' = readers \cup {t}
    /\ pro' = [pro EXCEPT ![t] = mapProducer[url[t]]] /\ Goto(t, "sending")
    /\ UNCHANGED <<bLibrary, writer, connVars, prodVars, op, url, ret, fault, boundVars>>

\* It does not, and gives the lock back.
Misses(t) ==
    /\ pc[t] = "lookup" /\ readers' = readers \ {t}
    /\ \/ ParseMqUri(url[t]) /\ Goto(t, "add") /\ UNCHANGED <<op, url, ret>>
       \/ ~ParseMqUri(url[t]) /\ Return(t, "error")
    /\ UNCHANGED <<bLibrary, writer, connVars, prodVars, pro, fault, boundVars>>

\* A send ends.
Sends(t, r) ==
    /\ pc[t] = "sending" /\ r \in {"ok", "error"} /\ Return(t, r)
    /\ r = "ok" => pro[t] \in created
    /\ readers' = readers \ {t} /\ pro' = [pro EXCEPT ![t] = Null]
    /\ UNCHANGED <<bLibrary, writer, connVars, prodVars, fault, boundVars>>

\* DelProducer deletes those in gone, one producer of the URL or none if there
\* is none, and leaves the list q.
Deletes(t, gone, q) ==
    LET s == Svr(url[t]) IN
    /\ pc[t] = "del" /\ MayWrite
    /\ gone \subseteq Listed(s) /\ \A p, r \in gone : p = r
    /\ \A p \in gone : dstOf[p] = Dst(url[t])
    /\ gone = {} => \A p \in Listed(s) : dstOf[p] # Dst(url[t])
    /\ q \in Seq(Prod) /\ Distinct(q) /\ Elems(q) = Listed(s) \ gone
    /\ listProducer' = [listProducer EXCEPT ![s] = q]
    /\ alive' = alive \ gone /\ created' = created \ gone
    /\ UNCHANGED consumerVars /\ DropIfEmpty(s)
    /\ mapProducer' = [mapProducer EXCEPT ![url[t]] = Null]
    /\ Return(t, "ok")
    /\ UNCHANGED <<bLibrary, lockVars, dstOf, pro, fault, boundVars>>

\* AddConsumer of a destination that has a consumer, and of one that has none.
SubFound(t) ==
    /\ pc[t] = "sub" /\ MayWrite /\ Return(t, "ok")
    /\ Dst(url[t]) \in listConsumer[Svr(url[t])]
    /\ UNCHANGED <<bLibrary, lockVars, connVars, prodVars, pro, fault, boundVars>>

SubMakes(t) ==
    LET s == Svr(url[t]) IN
    /\ pc[t] = "sub" /\ MayWrite
    /\ Connected(s)
    /\ listConsumer' = [listConsumer EXCEPT ![s] = listConsumer[s] \cup {Dst(url[t])}]
    /\ writer' = t /\ Goto(t, "subcreate")
    /\ UNCHANGED <<bLibrary, readers, listProducer, consuming, hidden, callback,
                   prodVars, op, url, pro, ret, fault, boundVars>>

Cases ==
    \/ Library \/ Fini \/ Crashes \/ UNCHANGED vars
    \/ \E t \in Thread, o \in Operation, u \in Url : Call(t, o, u)
    \/ \E t \in Thread :
          \/ AddFound(t) \/ (\E p \in Prod : AddMakes(t, p)) \/ Fails(t)
          \/ CreateProducer(t)
          \/ SendMsg(t) \/ Finds(t) \/ Misses(t) \/ (\E r \in {"ok", "error"} : Sends(t, r))
          \/ (\E gone \in SUBSET Prod, q \in Seq(Prod) : Deletes(t, gone, q))
          \/ SubFound(t) \/ SubMakes(t) \/ CreateConsumer(t) \/ DelConsumer(t)
    \/ \E s \in Server : OnException(s) \/ DeleteAll(s)

\* The frames of the actions, expanded in every step below.
USE DEF lockVars, consumerVars, connVars, prodVars, threadVars, boundVars, Goto, Crash,
        Running, MayWrite, MayRead

\* A URL that parses names a server and a destination.
LEMMA TargetOf ==
  ASSUME NEW u \in Url, ParseMqUri(u)
  PROVE  Svr(u) \in Server /\ Dst(u) \in Target
BY DEF Server, Target, GoodUrl

\* A thread that has a URL to work on.
LEMMA UrlOf ==
  ASSUME ThreadTypes, CallInv, NEW t \in Thread,
         pc[t] \in {"add", "create", "resend", "del", "sub", "subcreate", "unsub"}
  PROVE  /\ url[t] \in Url /\ ParseMqUri(url[t])
         /\ Svr(url[t]) \in Server /\ Dst(url[t]) \in Target
BY TargetOf DEF ThreadTypes, CallInv

\* Listed changes only with the lists.
LEMMA ListedSame ==
  ASSUME listProducer' = listProducer
  PROVE  \A s : Listed(s)' = Listed(s)
BY DEF Listed

\* Listed is the set of the elements of a list.
LEMMA ListedElems ==
  ASSUME ConnTypes, NEW s \in Server
  PROVE  /\ listProducer[s] \in Seq(Prod) /\ Listed(s) = Elems(listProducer[s])
         /\ Listed(s) \subseteq Prod
         /\ listProducer[s] = <<>> <=> Listed(s) = {}
<1>1. listProducer[s] \in Seq(Prod) /\ Listed(s) = Elems(listProducer[s])
  BY DEF ConnTypes, Listed, Elems
<1>2. Listed(s) \subseteq Prod
  BY <1>1 DEF Listed
<1>3. ASSUME listProducer[s] = <<>> PROVE Listed(s) = {}
  <2>1. DOMAIN listProducer[s] = {}
    BY <1>3
  <2> QED
    BY <2>1 DEF Listed
<1>4. ASSUME listProducer[s] # <<>> PROVE Listed(s) # {}
  <2>1. 1 \in DOMAIN listProducer[s]
    BY <1>4
  <2> QED
    BY <2>1 DEF Listed
<1> QED
  BY <1>1, <1>2, <1>3, <1>4

\* The list of one connection changes.
LEMMA ListedChanges ==
  ASSUME ConnTypes, NEW s \in Server, NEW q,
         listProducer' = [listProducer EXCEPT ![s] = q]
  PROVE  /\ listProducer'[s] = q /\ Listed(s)' = Elems(q)
         /\ \A r \in Server : r # s =>
               listProducer'[r] = listProducer[r] /\ Listed(r)' = Listed(r)
BY DEF ConnTypes, Listed, Elems

\* AddConnection: the connection that was there or a new one.
LEMMA ConnectedEffect ==
  ASSUME ConnTypes, NEW s \in Server, Connected(s)
  PROVE  /\ conn' \in [Server -> {"none", "up", "down"}]
         /\ conn'[s] # "none"
         /\ \A r \in Server : conn'[r] = conn[r] \/ (conn[r] = "none" /\ conn'[r] = "up")
BY DEF ConnTypes, Connected

\* The connection is dropped only when both of its lists are empty.
LEMMA DropEffect ==
  ASSUME ConnTypes, NEW s \in Server, DropIfEmpty(s)
  PROVE  /\ conn' \in [Server -> {"none", "up", "down"}]
         /\ callback' \in [Server -> {"none", "half", "orphan"}]
         /\ \A r \in Server :
               \/ conn'[r] = conn[r] /\ callback'[r] = callback[r]
               \/ /\ r = s /\ conn'[r] = "none" /\ callback'[r] # "half"
                  /\ listProducer'[r] = <<>> /\ listConsumer'[r] = {}
         /\ listProducer'[s] = <<>> /\ listConsumer'[s] = {} => conn'[s] = "none"
         /\ UNCHANGED callback \/ callback' = [callback EXCEPT ![s] =
                                     IF callback[s] = "half" THEN "orphan" ELSE callback[s]]
BY DEF ConnTypes, DropIfEmpty, DropConnection, IsEmptyConn

\* While the lock is free nobody is between the halves of an Add.
LEMMA NobodyCreates ==
  ASSUME LockTypes, writer = Null, NEW t \in Thread
  PROVE  pc[t] \notin {"create", "subcreate"}
BY NullAssumption DEF LockTypes

\* AddProducer finds, makes, fails or crashes.
LEMMA AddCases ==
  ASSUME TypeOK, CallInv, NEW t \in Thread, AddProducer(t)
  PROVE  AddFound(t) \/ (\E p \in Prod : AddMakes(t, p)) \/ Fails(t) \/ Crashes
<1> DEFINE s == Svr(url[t])
<1>1. s \in Server /\ conn \in [Server -> {"none", "up", "down"}]
  BY UrlOf DEF TypeOK, AddProducer, ConnTypes
<1>2. CASE /\ mapProducer[url[t]] # Null
           /\ Added(t)
           /\ UNCHANGED <<writer, connVars, prodVars, pro, fault>>
  BY <1>2 DEF AddProducer, AddLock, AddFound
<1>3. CASE /\ mapProducer[url[t]] = Null
           /\ HaveConnection(s) \/ NewConnection(s)
           /\ NewProducer(t, s)
           /\ UNCHANGED <<consumerVars, callback, mapProducer, created, fault>>
  <2>1. Connected(s)
    BY <1>1, <1>3 DEF HaveConnection, NewConnection, Connected
  <2>2. ASSUME NEW p \in Fresh,
               /\ alive' = alive \cup {p}
               /\ dstOf' = [dstOf EXCEPT ![p] = Dst(url[t])]
               /\ listProducer' = [listProducer EXCEPT ![s] = Append(@, p)]
               /\ pro' = [pro EXCEPT ![t] = p]
               /\ writer' = t /\ Goto(t, "create")
               /\ UNCHANGED <<op, url, ret>>
        PROVE  p \in Prod /\ AddMakes(t, p)
    BY <1>3, <2>1, <2>2 DEF AddProducer, AddLock, AddMakes, Fresh
  <2>3. CASE NoMemory /\ Return(t, "error") /\ UNCHANGED <<alive, dstOf, listProducer, pro, writer>>
    BY <1>3, <2>1, <2>3 DEF AddProducer, AddLock, Fails
  <2> QED
    BY <1>3, <2>2, <2>3 DEF NewProducer
<1>4. CASE /\ mapProducer[url[t]] = Null
           /\ NoMemory /\ conn[s] = "none"
           /\ Return(t, "error")
           /\ UNCHANGED <<writer, connVars, prodVars, pro, fault>>
  BY <1>4 DEF AddProducer, AddLock, Fails
<1>5. CASE /\ Crash("deleted connection")
           /\ UNCHANGED <<writer, connVars, prodVars, threadVars>>
  BY <1>5 DEF AddProducer, Crashes
<1> QED
  BY <1>2, <1>3, <1>4, <1>5 DEF AddProducer

\* AddConsumer finds, makes, fails or crashes.
LEMMA SubCases ==
  ASSUME TypeOK, CallInv, NEW t \in Thread, AddConsumer(t)
  PROVE  SubFound(t) \/ SubMakes(t) \/ Fails(t) \/ Crashes
<1> DEFINE s == Svr(url[t])
<1>1. s \in Server /\ conn \in [Server -> {"none", "up", "down"}]
  BY UrlOf DEF TypeOK, AddConsumer, ConnTypes
<1>2. HaveConnection(s) \/ NewConnection(s) => Connected(s)
  BY <1>1 DEF HaveConnection, NewConnection, Connected
<1>3. CASE /\ Dst(url[t]) \in listConsumer[s]
           /\ Return(t, "ok")
           /\ UNCHANGED <<writer, conn, listConsumer, fault>>
  BY <1>3 DEF AddConsumer, SubFound
<1>4. CASE /\ HaveConnection(s) \/ NewConnection(s)
           /\ listConsumer' = [listConsumer EXCEPT ![s] = @ \cup {Dst(url[t])}]
           /\ writer' = t /\ Goto(t, "subcreate")
           /\ UNCHANGED <<op, url, ret, fault>>
  BY <1>2, <1>4 DEF AddConsumer, SubMakes
<1>5. CASE /\ NoMemory
           /\ HaveConnection(s) \/ NewConnection(s) \/ (conn[s] = "none" /\ UNCHANGED conn)
           /\ Return(t, "error")
           /\ UNCHANGED <<writer, listConsumer, fault>>
  BY <1>2, <1>5 DEF AddConsumer, Fails
<1>6. CASE /\ Crash("deleted connection")
           /\ UNCHANGED <<writer, conn, listConsumer, pc, op, url, ret>>
  BY <1>6 DEF AddConsumer, Crashes
<1> QED
  BY <1>3, <1>4, <1>5, <1>6 DEF AddConsumer

\* DelProducer deletes the first producer of its destination, if there is one.
LEMMA DelCases ==
  ASSUME TypeOK, CallInv, OwnInv, NEW t \in Thread, DelProducer(t)
  PROVE  \E gone \in SUBSET Prod, q \in Seq(Prod) : Deletes(t, gone, q)
<1> DEFINE s == Svr(url[t])
           d == Dst(url[t])
           l == listProducer[s]
<1>1. s \in Server /\ url[t] \in Url
  BY UrlOf DEF TypeOK, DelProducer
<1>2. l \in Seq(Prod) /\ listProducer \in [Server -> Seq(Prod)] /\ Listed(s) \subseteq Prod
  BY <1>1 DEF TypeOK, ConnTypes, Listed
<1>3. Distinct(l) /\ Elems(l) = Listed(s)
  BY <1>1 DEF OwnInv, Elems, Listed
<1>4. CASE Match(s, d) = {}
  <2>1. /\ listProducer' = [listProducer EXCEPT ![s] = l]
        /\ alive' = alive \ {} /\ created' = created \ {}
    BY <1>2, <1>4 DEF DelProducer
  <2>2. \A p \in Listed(s) : dstOf[p] # d
    BY <1>4 DEF Match, Listed
  <2>3. Deletes(t, {}, l)
    BY <1>2, <1>3, <2>1, <2>2 DEF DelProducer, DelLock, Deletes, Forget
  <2> QED
    BY <1>2, <2>3
<1>5. CASE Match(s, d) # {}
  <2> DEFINE n == First(s, d)
             q == RemoveAt(l, n)
  <2>1. DOMAIN l \subseteq Nat
    BY <1>2
  <2>2. n \in DOMAIN l /\ dstOf[l[n]] = d
    BY <1>5, <2>1, FirstMatches
  <2>3. q \in Seq(Prod) /\ Elems(q) = Elems(l) \ {l[n]} /\ Distinct(q)
    BY <1>2, <1>3, <2>2, RemoveDistinct
  <2>4. l[n] \in Listed(s)
    BY <2>2 DEF Listed
  <2>5. /\ listProducer' = [listProducer EXCEPT ![s] = q]
        /\ alive' = alive \ {l[n]} /\ created' = created \ {l[n]}
    BY <1>5 DEF DelProducer, Erase
  <2>6. /\ {l[n]} \subseteq Listed(s)
        /\ \A p \in {l[n]} : dstOf[p] = d
        /\ Elems(q) = Listed(s) \ {l[n]}
    BY <1>3, <2>2, <2>3, <2>4
  <2> HIDE DEF q, n
  <2>7. Deletes(t, {l[n]}, q)
    BY <2>3, <2>5, <2>6 DEF DelProducer, DelLock, Deletes, Forget
  <2> QED
    BY <1>2, <2>3, <2>4, <2>7
<1> QED
  BY <1>4, <1>5

\* Every step is one of the cases.
LEMMA StepCases ==
  ASSUME TypeOK, CallInv, OwnInv, [Next]_vars
  PROVE  Cases
<1>1. CASE Library \/ Fini \/ UNCHANGED vars
  BY <1>1 DEF Cases
<1>2. CASE \E t \in Thread, o \in Operation, u \in Url : Call(t, o, u)
  BY <1>2 DEF Cases
<1>3. ASSUME NEW t \in Thread, Step(t) PROVE Cases
  <2>1. CASE AddProducer(t)
    BY <2>1, AddCases DEF Cases
  <2>2. CASE AddConsumer(t)
    BY <2>2, SubCases DEF Cases
  <2>3. CASE DelProducer(t)
    BY <2>3, DelCases DEF Cases
  <2>4. CASE Lookup(t)
    <3>1. CASE mapProducer[url[t]] # Null
      <4>1. t \in readers /\ writer = Null
        BY <2>4 DEF TypeOK, LockTypes, Lookup
      <4>3. Finds(t)
        BY <2>4, <3>1, <4>1 DEF Lookup, Finds
      <4> QED
        BY <4>3 DEF Cases
    <3>2. CASE mapProducer[url[t]] = Null
      <4>1. Misses(t)
        BY <2>4, <3>2 DEF Lookup, Misses, Released
      <4> QED
        BY <4>1 DEF Cases
    <3> QED
      BY <3>1, <3>2
  <2>5. CASE Resend(t)
    <3>1. Finds(t) \/ Crashes
      BY <2>5 DEF Resend, Finds, Crashes, ReadLock
    <3> QED
      BY <3>1 DEF Cases
  <2>6. CASE Sending(t)
    <3>1. Sends(t, "ok") \/ Sends(t, "error") \/ Crashes
      BY <2>6 DEF Sending, Sends, Crashes, Released
    <3>2. (\E r \in {"ok", "error"} : Sends(t, r)) \/ Crashes
      BY <3>1
    <3> QED
      BY <3>2 DEF Cases
  <2>7. CASE CreateProducer(t) \/ SendMsg(t) \/ CreateConsumer(t) \/ DelConsumer(t)
    BY <2>7 DEF Cases
  <2> QED
    BY <1>3, <2>1, <2>2, <2>3, <2>4, <2>5, <2>6, <2>7 DEF Step
<1>4. ASSUME NEW s \in Server, Callback(s) PROVE Cases
  <2>1. CASE OnException(s) \/ DeleteAll(s)
    BY <2>1 DEF Cases
  <2>2. CASE DeletedUnderCallback(s)
    BY <2>2 DEF DeletedUnderCallback, Crashes, Cases
  <2> QED
    BY <1>4, <2>1, <2>2 DEF Callback
<1> QED
  BY <1>1, <1>2, <1>3, <1>4 DEF Next

-----------------------------------------------------------------------------
\* Every step keeps the types.
LEMMA TypeStep ==
  ASSUME TypeOK, CallInv, ConnInv, OwnInv, [Next]_vars
  PROVE  TypeOK'
<1>1. CASE Library
  <2>1. bLibrary' \in BOOLEAN
    BY <1>1 DEF Library
  <2>2. ProcessTypes'
    BY <1>1, BoundAssumption DEF TypeOK, ProcessTypes, Library
  <2>3. LockTypes'
    BY <1>1 DEF TypeOK, LockTypes, Library
  <2>4. ConnTypes'
    BY <1>1 DEF TypeOK, ConnTypes, Library
  <2>5. ProdTypes'
    BY <1>1 DEF TypeOK, ProdTypes, Library
  <2>6. ThreadTypes'
    BY <1>1 DEF TypeOK, ThreadTypes, Library
  <2> QED
    BY <2>1, <2>2, <2>3, <2>4, <2>5, <2>6 DEF TypeOK
<1>2. CASE Fini
  <2>1. bLibrary' \in BOOLEAN
    BY <1>2 DEF TypeOK, Fini
  <2>2. ProcessTypes'
    BY <1>2, BoundAssumption DEF TypeOK, ProcessTypes, Fini
  <2>3. LockTypes'
    BY <1>2, NullAssumption DEF LockTypes, Fini
  <2>4. ConnTypes'
    BY <1>2 DEF TypeOK, ConnTypes, Fini
  <2>5. ProdTypes'
    BY <1>2 DEF TypeOK, ProdTypes, Fini
  <2>6. ThreadTypes'
    BY <1>2 DEF TypeOK, ThreadTypes, Fini
  <2> QED
    BY <2>1, <2>2, <2>3, <2>4, <2>5, <2>6 DEF TypeOK
<1>3. CASE Crashes
  <2>1. bLibrary' \in BOOLEAN
    BY <1>3 DEF TypeOK, Crashes
  <2>2. ProcessTypes'
    BY <1>3, BoundAssumption, NullAssumption DEF TypeOK, ProcessTypes, Crashes
  <2>3. LockTypes'
    BY <1>3, NullAssumption DEF TypeOK, LockTypes, ThreadTypes, Crashes
  <2>4. ConnTypes'
    BY <1>3, NullAssumption DEF TypeOK, ConnTypes, Crashes
  <2>5. ProdTypes'
    BY <1>3, NullAssumption DEF TypeOK, ProdTypes, Crashes
  <2>6. ThreadTypes'
    BY <1>3, NullAssumption DEF TypeOK, ThreadTypes, ProdTypes, CallInv, Crashes
  <2> QED
    BY <2>1, <2>2, <2>3, <2>4, <2>5, <2>6 DEF TypeOK
<1>4. CASE UNCHANGED vars
  <2>1. bLibrary' \in BOOLEAN
    BY <1>4 DEF TypeOK, vars
  <2>2. ProcessTypes'
    BY <1>4, BoundAssumption, NullAssumption DEF TypeOK, ProcessTypes, vars
  <2>3. LockTypes'
    BY <1>4 DEF TypeOK, LockTypes, vars
  <2>4. ConnTypes'
    BY <1>4 DEF TypeOK, ConnTypes, vars
  <2>5. ProdTypes'
    BY <1>4 DEF TypeOK, ProdTypes, vars
  <2>6. ThreadTypes'
    BY <1>4 DEF TypeOK, ThreadTypes, vars
  <2> QED
    BY <2>1, <2>2, <2>3, <2>4, <2>5, <2>6 DEF TypeOK
<1>5. ASSUME NEW t \in Thread, NEW o \in Operation, NEW u \in Url, Call(t, o, u) PROVE TypeOK'
  <2>1. bLibrary' \in BOOLEAN
    BY <1>5 DEF Call
  <2>2. ProcessTypes'
    BY <1>5, BoundAssumption DEF TypeOK, ProcessTypes, Call
  <2>3. LockTypes'
    BY <1>5 DEF TypeOK, LockTypes, ThreadTypes, Call, Operation, Return
  <2>4. ConnTypes'
    BY <1>5 DEF TypeOK, ConnTypes, Call
  <2>5. ProdTypes'
    BY <1>5 DEF TypeOK, ProdTypes, Call
  <2>6. ThreadTypes'
    BY <1>5, NullAssumption DEF TypeOK, ThreadTypes, Call, Operation, Return
  <2> QED
    BY <2>1, <2>2, <2>3, <2>4, <2>5, <2>6 DEF TypeOK
<1>6. ASSUME NEW t \in Thread, AddFound(t) PROVE TypeOK'
  <2>1. bLibrary' \in BOOLEAN
    BY <1>6 DEF TypeOK, AddFound
  <2>2. ProcessTypes'
    BY <1>6, UrlOf, BoundAssumption, NullAssumption DEF TypeOK, ProcessTypes,
       AddFound, Added,
       Return
  <2>3. LockTypes'
    BY <1>6 DEF TypeOK, LockTypes, ThreadTypes, AddFound, Added, Return
  <2>4. ConnTypes'
    BY <1>6 DEF TypeOK, ConnTypes, AddFound
  <2>5. ProdTypes'
    BY <1>6 DEF TypeOK, ProdTypes, AddFound
  <2>6. ThreadTypes'
    BY <1>6 DEF TypeOK, ThreadTypes, AddFound, Added, Return
  <2> QED
    BY <2>1, <2>2, <2>3, <2>4, <2>5, <2>6 DEF TypeOK
<1>7. ASSUME NEW t \in Thread, NEW p \in Prod, AddMakes(t, p) PROVE TypeOK'
  <2>1. bLibrary' \in BOOLEAN
    BY <1>7 DEF TypeOK, AddMakes
  <2>2. ProcessTypes'
    BY <1>7, UrlOf, BoundAssumption, NullAssumption DEF TypeOK, ProcessTypes,
       AddMakes, Connected
  <2>3. LockTypes'
    BY <1>7, NullAssumption DEF TypeOK, LockTypes, ThreadTypes, AddMakes
  <2>4. ConnTypes'
    BY <1>7, UrlOf DEF TypeOK, ConnTypes, AddMakes, Connected
  <2>5. ProdTypes'
    BY <1>7, UrlOf DEF TypeOK, ProdTypes, AddMakes
  <2>6. ThreadTypes'
    BY <1>7 DEF TypeOK, ThreadTypes, AddMakes
  <2> QED
    BY <2>1, <2>2, <2>3, <2>4, <2>5, <2>6 DEF TypeOK
<1>8. ASSUME NEW t \in Thread, Fails(t) PROVE TypeOK'
  <2>1. bLibrary' \in BOOLEAN
    BY <1>8 DEF TypeOK, Fails
  <2>2. ProcessTypes'
    BY <1>8, UrlOf, BoundAssumption, NullAssumption DEF TypeOK, ProcessTypes,
       Fails, Connected,
       Return
  <2>3. LockTypes'
    BY <1>8 DEF TypeOK, LockTypes, Fails, Return
  <2>4. ConnTypes'
    <3>1. conn' \in [Server -> {"none", "up", "down"}]
      BY <1>8, UrlOf DEF TypeOK, ConnTypes, Fails, Connected
    <3>2. \A s \in Server : conn'[s] = "none" => conn[s] = "none"
      BY <1>8 DEF TypeOK, ConnTypes, Fails, Connected
    <3> QED
      BY <1>8, <3>1, <3>2 DEF TypeOK, ConnTypes, Fails
  <2>5. ProdTypes'
    BY <1>8 DEF TypeOK, ProdTypes, Fails
  <2>6. ThreadTypes'
    BY <1>8 DEF TypeOK, ThreadTypes, Fails, Return
  <2> QED
    BY <2>1, <2>2, <2>3, <2>4, <2>5, <2>6 DEF TypeOK
<1>9. ASSUME NEW t \in Thread, CreateProducer(t) PROVE TypeOK'
  <2>1. bLibrary' \in BOOLEAN
    BY <1>9 DEF TypeOK, CreateProducer
  <2>2. ProcessTypes'
    BY <1>9 DEF TypeOK, ProcessTypes, CreateProducer
  <2>3. LockTypes'
    BY <1>9, NullAssumption DEF TypeOK, LockTypes, ThreadTypes,
       CreateProducer, Added, Return
  <2>4. ConnTypes'
    BY <1>9 DEF TypeOK, ConnTypes, CreateProducer
  <2>5. ProdTypes'
    <3>1. created' \subseteq alive
      <4>1. PICK s \in Server : s = Svr(url[t])
        BY <1>9, UrlOf DEF TypeOK, CreateProducer
      <4>2. conn[s] = "up" => pro[t] \in Listed(s)
        BY <1>9, <4>1 DEF ConnInv, KeptInv, CreateProducer
      <4>3. Listed(s) \subseteq alive
        BY DEF OwnInv
      <4> QED
        BY <1>9, <4>1, <4>2, <4>3 DEF TypeOK, ProdTypes, CreateProducer
    <3>2. mapProducer' \in [Url -> Prod \cup {Null}]
      BY <1>9 DEF TypeOK, ProdTypes, ThreadTypes, CreateProducer
    <3> QED
      BY <1>9, <3>1, <3>2 DEF TypeOK, ProdTypes, CreateProducer
  <2>6. ThreadTypes'
    BY <1>9 DEF TypeOK, ThreadTypes, CreateProducer, Added, Return
  <2> QED
    BY <2>1, <2>2, <2>3, <2>4, <2>5, <2>6 DEF TypeOK
<1>10. ASSUME NEW t \in Thread, SendMsg(t) PROVE TypeOK'
  <2>1. bLibrary' \in BOOLEAN
    BY <1>10 DEF TypeOK, SendMsg
  <2>2. ProcessTypes'
    BY <1>10 DEF TypeOK, ProcessTypes, SendMsg
  <2>3. LockTypes'
    BY <1>10 DEF TypeOK, LockTypes, ThreadTypes, SendMsg, ReadLock
  <2>4. ConnTypes'
    BY <1>10 DEF TypeOK, ConnTypes, SendMsg
  <2>5. ProdTypes'
    BY <1>10 DEF TypeOK, ProdTypes, SendMsg
  <2>6. ThreadTypes'
    BY <1>10 DEF TypeOK, ThreadTypes, SendMsg
  <2> QED
    BY <2>1, <2>2, <2>3, <2>4, <2>5, <2>6 DEF TypeOK
<1>11. ASSUME NEW t \in Thread, Finds(t) PROVE TypeOK'
  <2>1. bLibrary' \in BOOLEAN
    BY <1>11 DEF TypeOK, Finds
  <2>2. ProcessTypes'
    BY <1>11, UrlOf, BoundAssumption, NullAssumption DEF TypeOK, ProcessTypes,
       Finds
  <2>3. LockTypes'
    BY <1>11 DEF TypeOK, LockTypes, ThreadTypes, Finds
  <2>4. ConnTypes'
    BY <1>11 DEF TypeOK, ConnTypes, Finds
  <2>5. ProdTypes'
    BY <1>11 DEF TypeOK, ProdTypes, Finds
  <2>6. ThreadTypes'
    BY <1>11 DEF TypeOK, ThreadTypes, ProdTypes, Finds
  <2> QED
    BY <2>1, <2>2, <2>3, <2>4, <2>5, <2>6 DEF TypeOK
<1>12. ASSUME NEW t \in Thread, Misses(t) PROVE TypeOK'
  <2>1. bLibrary' \in BOOLEAN
    BY <1>12 DEF TypeOK, Misses
  <2>2. ProcessTypes'
    BY <1>12, BoundAssumption, NullAssumption DEF TypeOK, ProcessTypes,
       Misses, Return
  <2>3. LockTypes'
    BY <1>12 DEF TypeOK, LockTypes, ThreadTypes, Misses, Return
  <2>4. ConnTypes'
    BY <1>12 DEF TypeOK, ConnTypes, Misses
  <2>5. ProdTypes'
    BY <1>12 DEF TypeOK, ProdTypes, Misses
  <2>6. ThreadTypes'
    <3>1. CASE ParseMqUri(url[t]) /\ Goto(t, "add") /\ UNCHANGED <<op, url, ret>>
      BY <1>12, <3>1 DEF TypeOK, ThreadTypes, Operation, Misses
    <3>2. CASE Return(t, "error")
      BY <1>12, <3>2 DEF TypeOK, ThreadTypes, Return, Misses
    <3> QED
      BY <1>12, <3>1, <3>2 DEF Misses
  <2> QED
    BY <2>1, <2>2, <2>3, <2>4, <2>5, <2>6 DEF TypeOK
<1>13. ASSUME NEW t \in Thread, NEW r \in {"ok", "error"}, Sends(t, r) PROVE TypeOK'
  <2>1. bLibrary' \in BOOLEAN
    BY <1>13 DEF TypeOK, Sends
  <2>2. ProcessTypes'
    BY <1>13, BoundAssumption, NullAssumption DEF TypeOK, ProcessTypes, Sends,
       Return
  <2>3. LockTypes'
    BY <1>13 DEF TypeOK, LockTypes, ThreadTypes, Sends, Return
  <2>4. ConnTypes'
    BY <1>13 DEF TypeOK, ConnTypes, Sends
  <2>5. ProdTypes'
    BY <1>13 DEF TypeOK, ProdTypes, Sends
  <2>6. ThreadTypes'
    BY <1>13 DEF TypeOK, ThreadTypes, Sends, Return
  <2> QED
    BY <2>1, <2>2, <2>3, <2>4, <2>5, <2>6 DEF TypeOK
<1>14. ASSUME NEW t \in Thread, NEW gone \in SUBSET Prod, NEW q \in Seq(Prod),
              Deletes(t, gone, q)
       PROVE  TypeOK'
  <2>1. bLibrary' \in BOOLEAN
    BY <1>14 DEF TypeOK, Deletes
  <2>2. ProcessTypes'
    BY <1>14, UrlOf, BoundAssumption, NullAssumption DEF TypeOK, ProcessTypes,
       Deletes, Return,
       DropIfEmpty, DropConnection, IsEmptyConn
  <2>3. LockTypes'
    BY <1>14 DEF TypeOK, LockTypes, Deletes, Return
  <2>4. ConnTypes'
    <3> DEFINE s == Svr(url[t])
    <3>1. s \in Server /\ url[t] \in Url /\ Dst(url[t]) \in Target
      BY <1>14, UrlOf DEF TypeOK, Deletes
    <3>2. /\ listProducer' \in [Server -> Seq(Prod)] /\ listConsumer' \in [Server -> SUBSET Target]
          /\ consuming' \in [Server -> SUBSET Target] /\ hidden' \in [Server -> SUBSET Target]
      BY <1>14, <3>1 DEF TypeOK, ConnTypes, Deletes
    <3>3. /\ conn' \in [Server -> {"none", "up", "down"}]
          /\ callback' \in [Server -> {"none", "half", "orphan"}]
      BY <1>14, <3>1 DEF TypeOK, ConnTypes, Deletes, DropIfEmpty, DropConnection
    <3>4. ASSUME NEW r \in Server, conn'[r] = "none"
          PROVE  listProducer'[r] = <<>> /\ listConsumer'[r] = {}
      <4>1. CASE r # s
        BY <1>14, <3>4, <4>1 DEF TypeOK, ConnTypes, Deletes, DropIfEmpty,
           DropConnection
      <4>2. conn[s] = "none" => q = <<>>
        <5> SUFFICES ASSUME listProducer[s] = <<>> PROVE q = <<>>
          BY <3>1 DEF TypeOK, ConnTypes
        <5>1. Elems(q) = {}
          BY <1>14 DEF Deletes, Listed
        <5>2. \A k \in 1 .. Len(q) : q[k] \in Elems(q)
          BY DEF Elems
        <5> QED
          BY <5>1, <5>2
      <4>3. CASE r = s
        BY <1>14, <3>4, <4>3, <4>2 DEF TypeOK, ConnTypes, Deletes,
           DropIfEmpty, IsEmptyConn
      <4> QED
        BY <4>1, <4>3
    <3> QED
      BY <3>2, <3>3, <3>4 DEF ConnTypes
  <2>5. ProdTypes'
    BY <1>14, UrlOf DEF TypeOK, ProdTypes, Deletes
  <2>6. ThreadTypes'
    BY <1>14 DEF TypeOK, ThreadTypes, Deletes, Return
  <2> QED
    BY <2>1, <2>2, <2>3, <2>4, <2>5, <2>6 DEF TypeOK
<1>15. ASSUME NEW t \in Thread, SubFound(t) PROVE TypeOK'
  <2>1. bLibrary' \in BOOLEAN
    BY <1>15 DEF TypeOK, SubFound
  <2>2. ProcessTypes'
    BY <1>15, BoundAssumption, NullAssumption DEF TypeOK, ProcessTypes,
       SubFound, Return
  <2>3. LockTypes'
    BY <1>15 DEF TypeOK, LockTypes, SubFound, Return
  <2>4. ConnTypes'
    BY <1>15 DEF TypeOK, ConnTypes, SubFound
  <2>5. ProdTypes'
    BY <1>15 DEF TypeOK, ProdTypes, SubFound
  <2>6. ThreadTypes'
    BY <1>15 DEF TypeOK, ThreadTypes, SubFound, Return
  <2> QED
    BY <2>1, <2>2, <2>3, <2>4, <2>5, <2>6 DEF TypeOK
<1>16. ASSUME NEW t \in Thread, SubMakes(t) PROVE TypeOK'
  <2>1. bLibrary' \in BOOLEAN
    BY <1>16 DEF TypeOK, SubMakes
  <2>2. ProcessTypes'
    BY <1>16, UrlOf, BoundAssumption, NullAssumption DEF TypeOK, ProcessTypes,
       SubMakes,
       Connected
  <2>3. LockTypes'
    BY <1>16, NullAssumption DEF TypeOK, LockTypes, ThreadTypes, SubMakes
  <2>4. ConnTypes'
    BY <1>16, UrlOf DEF TypeOK, ConnTypes, SubMakes, Connected
  <2>5. ProdTypes'
    BY <1>16 DEF TypeOK, ProdTypes, SubMakes
  <2>6. ThreadTypes'
    BY <1>16 DEF TypeOK, ThreadTypes, SubMakes
  <2> QED
    BY <2>1, <2>2, <2>3, <2>4, <2>5, <2>6 DEF TypeOK
<1>17. ASSUME NEW t \in Thread, CreateConsumer(t) PROVE TypeOK'
  <2>1. bLibrary' \in BOOLEAN
    BY <1>17 DEF TypeOK, CreateConsumer
  <2>2. ProcessTypes'
    BY <1>17 DEF TypeOK, ProcessTypes, CreateConsumer
  <2>3. LockTypes'
    BY <1>17, NullAssumption DEF TypeOK, LockTypes, ThreadTypes,
       CreateConsumer, Return
  <2>4. ConnTypes'
    <3>1. PICK s \in Server, d \in Target : s = Svr(url[t]) /\ d = Dst(url[t])
      BY <1>17, UrlOf DEF TypeOK, CreateConsumer
    <3>2. /\ consuming \in [Server -> SUBSET Target] /\ hidden \in [Server -> SUBSET Target]
          /\ UNCHANGED <<conn, listProducer, listConsumer, callback>>
          /\ \/ consuming' = [consuming EXCEPT ![s] = @ \cup {d}] /\ UNCHANGED hidden
             \/ /\ hidden' = [hidden EXCEPT ![s] = @ \cup ({d} \cap listConsumer[s])]
                /\ UNCHANGED consuming
      BY <1>17, <3>1 DEF TypeOK, ConnTypes, CreateConsumer
    <3>3. consuming' \in [Server -> SUBSET Target] /\ hidden' \in [Server -> SUBSET Target]
      BY <3>2
    <3> QED
      BY <3>2, <3>3 DEF TypeOK, ConnTypes
  <2>5. ProdTypes'
    BY <1>17 DEF TypeOK, ProdTypes, CreateConsumer
  <2>6. ThreadTypes'
    BY <1>17 DEF TypeOK, ThreadTypes, CreateConsumer, Return
  <2> QED
    BY <2>1, <2>2, <2>3, <2>4, <2>5, <2>6 DEF TypeOK
<1>18. ASSUME NEW t \in Thread, DelConsumer(t) PROVE TypeOK'
  <2>1. bLibrary' \in BOOLEAN
    BY <1>18 DEF TypeOK, DelConsumer
  <2>2. ProcessTypes'
    BY <1>18 DEF TypeOK, ProcessTypes, DelConsumer
  <2>3. LockTypes'
    BY <1>18 DEF TypeOK, LockTypes, DelConsumer, Return
  <2>4. ConnTypes'
    <3> DEFINE s == Svr(url[t])
    <3>1. s \in Server /\ url[t] \in Url /\ Dst(url[t]) \in Target
      BY <1>18, UrlOf DEF TypeOK, DelConsumer
    <3>2. /\ listProducer' \in [Server -> Seq(Prod)] /\ listConsumer' \in [Server -> SUBSET Target]
          /\ consuming' \in [Server -> SUBSET Target] /\ hidden' \in [Server -> SUBSET Target]
      BY <1>18, <3>1 DEF TypeOK, ConnTypes, DelConsumer
    <3>3. /\ conn' \in [Server -> {"none", "up", "down"}]
          /\ callback' \in [Server -> {"none", "half", "orphan"}]
      BY <1>18, <3>1 DEF TypeOK, ConnTypes, DelConsumer, DropIfEmpty,
         DropConnection
    <3>4. ASSUME NEW r \in Server, conn'[r] = "none"
          PROVE  listProducer'[r] = <<>> /\ listConsumer'[r] = {}
      <4>1. CASE r # s
        BY <1>18, <3>4, <4>1 DEF TypeOK, ConnTypes, DelConsumer, DropIfEmpty,
           DropConnection
      <4>2. CASE r = s
        BY <1>18, <3>4, <4>2 DEF TypeOK, ConnTypes, DelConsumer, DropIfEmpty,
           IsEmptyConn
      <4> QED
        BY <4>1, <4>2
    <3> QED
      BY <3>2, <3>3, <3>4 DEF ConnTypes
  <2>5. ProdTypes'
    BY <1>18 DEF TypeOK, ProdTypes, DelConsumer
  <2>6. ThreadTypes'
    BY <1>18 DEF TypeOK, ThreadTypes, DelConsumer, Return
  <2> QED
    BY <2>1, <2>2, <2>3, <2>4, <2>5, <2>6 DEF TypeOK
<1>19. ASSUME NEW s \in Server, OnException(s) PROVE TypeOK'
  <2>1. bLibrary' \in BOOLEAN
    BY <1>19 DEF TypeOK, OnException
  <2>2. ProcessTypes'
    <3>1. drops' = drops + 1 /\ drops < MaxDrops /\ calls' = calls
      BY <1>19 DEF OnException
    <3>2. fault' = fault \/ fault' = "deleted session"
      BY <1>19 DEF OnException
    <3>3. /\ drops \in 0 .. MaxDrops /\ MaxDrops \in Nat
          /\ calls \in 0 .. MaxCalls /\ ProcessTypes
      BY BoundAssumption DEF TypeOK, ProcessTypes
    <3>4. drops' \in 0 .. MaxDrops
      BY <3>1, <3>3
    <3> QED
      BY <3>1, <3>2, <3>3, <3>4 DEF ProcessTypes
  <2>3. LockTypes'
    BY <1>19, NullAssumption DEF TypeOK, LockTypes, ThreadTypes, OnException
  <2>4. ConnTypes'
    BY <1>19, NullAssumption DEF TypeOK, ConnTypes, OnException
  <2>5. ProdTypes'
    BY <1>19, NullAssumption DEF TypeOK, ProdTypes, OnException
  <2>6. ThreadTypes'
    BY <1>19, NullAssumption DEF TypeOK, ThreadTypes, ProdTypes, CallInv,
       OnException
  <2> QED
    BY <2>1, <2>2, <2>3, <2>4, <2>5, <2>6 DEF TypeOK
<1>20. ASSUME NEW s \in Server, DeleteAll(s) PROVE TypeOK'
  <2>1. bLibrary' \in BOOLEAN
    BY <1>20 DEF TypeOK, DeleteAll
  <2>2. ProcessTypes'
    BY <1>20 DEF TypeOK, ProcessTypes, DeleteAll
  <2>3. LockTypes'
    BY <1>20 DEF TypeOK, LockTypes, DeleteAll
  <2>4. ConnTypes'
    BY <1>20 DEF TypeOK, ConnTypes, DeleteAll
  <2>5. ProdTypes'
    BY <1>20 DEF TypeOK, ProdTypes, ConnInv, DownInv, DeleteAll
  <2>6. ThreadTypes'
    BY <1>20 DEF TypeOK, ThreadTypes, DeleteAll
  <2> QED
    BY <2>1, <2>2, <2>3, <2>4, <2>5, <2>6 DEF TypeOK
<1> QED
  BY StepCases, <1>1, <1>2, <1>3, <1>4, <1>5, <1>6, <1>7, <1>8, <1>9, <1>10,
     <1>11, <1>12, <1>13,
     <1>14, <1>15, <1>16, <1>17, <1>18, <1>19, <1>20 DEF Cases

\* Every step keeps what a thread was called for.
LEMMA CallStep ==
  ASSUME TypeOK, CallInv, OwnInv, [Next]_vars
  PROVE  CallInv'
<1>1. CASE Library
  BY <1>1 DEF CallInv, Library
<1>2. CASE Fini
  BY <1>2 DEF CallInv, Fini
<1>3. CASE Crashes
  BY <1>3, NullAssumption DEF TypeOK, ThreadTypes, ProdTypes, CallInv, Crashes
<1>4. CASE UNCHANGED vars
  BY <1>4 DEF CallInv, vars
<1>5. ASSUME NEW t \in Thread, NEW o \in Operation, NEW u \in Url, Call(t, o, u) PROVE CallInv'
  BY <1>5 DEF TypeOK, ThreadTypes, CallInv, Call, Operation, Return
<1>6. ASSUME NEW t \in Thread, AddFound(t) PROVE CallInv'
  BY <1>6 DEF TypeOK, ThreadTypes, CallInv, AddFound, Added, Return
<1>7. ASSUME NEW t \in Thread, NEW p \in Prod, AddMakes(t, p) PROVE CallInv'
  BY <1>7 DEF TypeOK, ThreadTypes, CallInv, AddMakes
<1>8. ASSUME NEW t \in Thread, Fails(t) PROVE CallInv'
  BY <1>8 DEF TypeOK, ThreadTypes, CallInv, Fails, Return
<1>9. ASSUME NEW t \in Thread, CreateProducer(t) PROVE CallInv'
  BY <1>9 DEF TypeOK, ThreadTypes, CallInv, CreateProducer, Added, Return
<1>10. ASSUME NEW t \in Thread, SendMsg(t) PROVE CallInv'
  BY <1>10 DEF CallInv, SendMsg
<1>11. ASSUME NEW t \in Thread, Finds(t) PROVE CallInv'
  BY <1>11 DEF TypeOK, ThreadTypes, CallInv, Finds
<1>12. ASSUME NEW t \in Thread, Misses(t) PROVE CallInv'
  BY <1>12 DEF TypeOK, ThreadTypes, CallInv, Misses, Return
<1>13. ASSUME NEW t \in Thread, NEW r \in {"ok", "error"}, Sends(t, r) PROVE CallInv'
  BY <1>13 DEF TypeOK, ThreadTypes, CallInv, Sends, Return
<1>14. ASSUME NEW t \in Thread, NEW gone \in SUBSET Prod, NEW q \in Seq(Prod),
              Deletes(t, gone, q)
       PROVE  CallInv'
  BY <1>14 DEF TypeOK, ThreadTypes, CallInv, Deletes, Return
<1>15. ASSUME NEW t \in Thread, SubFound(t) PROVE CallInv'
  BY <1>15 DEF TypeOK, ThreadTypes, CallInv, SubFound, Return
<1>16. ASSUME NEW t \in Thread, SubMakes(t) PROVE CallInv'
  BY <1>16 DEF CallInv, SubMakes
<1>17. ASSUME NEW t \in Thread, CreateConsumer(t) PROVE CallInv'
  BY <1>17 DEF TypeOK, ThreadTypes, CallInv, CreateConsumer, Return
<1>18. ASSUME NEW t \in Thread, DelConsumer(t) PROVE CallInv'
  BY <1>18 DEF TypeOK, ThreadTypes, CallInv, DelConsumer, Return
<1>19. ASSUME NEW s \in Server, OnException(s) PROVE CallInv'
  BY <1>19, NullAssumption DEF TypeOK, ThreadTypes, ProdTypes, CallInv,
     OnException
<1>20. ASSUME NEW s \in Server, DeleteAll(s) PROVE CallInv'
  BY <1>20 DEF CallInv, DeleteAll
<1> QED
  BY StepCases, <1>1, <1>2, <1>3, <1>4, <1>5, <1>6, <1>7, <1>8, <1>9, <1>10,
     <1>11, <1>12, <1>13,
     <1>14, <1>15, <1>16, <1>17, <1>18, <1>19, <1>20 DEF Cases

\* An empty list.
LEMMA NoElems == Elems(<<>>) = {} /\ Distinct(<<>>)
<1> QED
  BY DEF Elems, Distinct

\* Every step keeps the owners of the producers.
LEMMA OwnedStep ==
  ASSUME TypeOK, CallInv, OwnInv, [Next]_vars
  PROVE  OwnInv'
<1>1. CASE Library
  BY <1>1, ListedSame DEF OwnInv, Library
<1>2. CASE Fini
  <2>1. \A s \in Server : listProducer'[s] = <<>>
    BY <1>2 DEF Fini
  <2>2. \A s \in Server : Listed(s)' = {} /\ Distinct(listProducer'[s])
    BY <2>1, NoElems DEF Listed
  <2>3. alive' = {}
    BY <1>2 DEF Fini, OwnInv
  <2> QED
    BY <2>2, <2>3 DEF OwnInv
<1>3. CASE Crashes
  BY <1>3, ListedSame DEF OwnInv, Crashes
<1>4. CASE UNCHANGED vars
  BY <1>4, ListedSame DEF OwnInv, vars
<1>5. ASSUME NEW t \in Thread, NEW o \in Operation, NEW u \in Url, Call(t, o, u) PROVE OwnInv'
  BY <1>5, ListedSame DEF OwnInv, Call
<1>6. ASSUME NEW t \in Thread, AddFound(t) PROVE OwnInv'
  BY <1>6, ListedSame DEF OwnInv, AddFound
<1>7. ASSUME NEW t \in Thread, NEW p \in Prod, AddMakes(t, p) PROVE OwnInv'
  <2>1. PICK s \in Server : s = Svr(url[t])
    BY <1>7, UrlOf DEF AddMakes, TypeOK
  <2> DEFINE q == Append(listProducer[s], p)
  <2>7. ConnTypes /\ Distinct(listProducer[s])
    BY DEF TypeOK, OwnInv
  <2>2. listProducer[s] \in Seq(Prod) /\ Listed(s) = Elems(listProducer[s])
    BY <2>7, ListedElems
  <2>3. \A r \in Server : p \notin Listed(r)
    BY <1>7 DEF AddMakes, OwnInv
  <2>4. Elems(q) = Listed(s) \cup {p} /\ Distinct(q)
    BY <2>2, <2>3, <2>7, AppendDistinct
  <2>5. listProducer' = [listProducer EXCEPT ![s] = q] /\ alive' = alive \cup {p}
    BY <1>7, <2>1 DEF AddMakes
  <2> HIDE DEF q
  <2>6. /\ listProducer'[s] = q /\ Listed(s)' = Elems(q)
        /\ \A r \in Server : r # s =>
              listProducer'[r] = listProducer[r] /\ Listed(r)' = Listed(r)
    BY <2>5, <2>7, ListedChanges
  <2> QED
    BY <2>3, <2>4, <2>5, <2>6 DEF OwnInv
<1>8. ASSUME NEW t \in Thread, Fails(t) PROVE OwnInv'
  BY <1>8, ListedSame DEF OwnInv, Fails
<1>9. ASSUME NEW t \in Thread, CreateProducer(t) PROVE OwnInv'
  BY <1>9, ListedSame DEF OwnInv, CreateProducer
<1>10. ASSUME NEW t \in Thread, SendMsg(t) PROVE OwnInv'
  BY <1>10, ListedSame DEF OwnInv, SendMsg
<1>11. ASSUME NEW t \in Thread, Finds(t) PROVE OwnInv'
  BY <1>11, ListedSame DEF OwnInv, Finds
<1>12. ASSUME NEW t \in Thread, Misses(t) PROVE OwnInv'
  BY <1>12, ListedSame DEF OwnInv, Misses
<1>13. ASSUME NEW t \in Thread, NEW r \in {"ok", "error"}, Sends(t, r) PROVE OwnInv'
  BY <1>13, ListedSame DEF OwnInv, Sends
<1>14. ASSUME NEW t \in Thread, NEW gone \in SUBSET Prod, NEW q \in Seq(Prod),
              Deletes(t, gone, q)
       PROVE  OwnInv'
  <2>1. PICK s \in Server : s = Svr(url[t])
    BY <1>14, UrlOf DEF Deletes, TypeOK
  <2>2. /\ Distinct(q) /\ Elems(q) = Listed(s) \ gone /\ gone \subseteq Listed(s)
        /\ listProducer' = [listProducer EXCEPT ![s] = q] /\ alive' = alive \ gone
    BY <1>14, <2>1 DEF Deletes
  <2>3. /\ listProducer'[s] = q /\ Listed(s)' = Elems(q)
        /\ \A r \in Server : r # s =>
              listProducer'[r] = listProducer[r] /\ Listed(r)' = Listed(r)
    BY <2>2, ListedChanges DEF TypeOK
  <2> QED
    BY <2>2, <2>3 DEF OwnInv
<1>15. ASSUME NEW t \in Thread, SubFound(t) PROVE OwnInv'
  BY <1>15, ListedSame DEF OwnInv, SubFound
<1>16. ASSUME NEW t \in Thread, SubMakes(t) PROVE OwnInv'
  BY <1>16, ListedSame DEF OwnInv, SubMakes
<1>17. ASSUME NEW t \in Thread, CreateConsumer(t) PROVE OwnInv'
  BY <1>17, ListedSame DEF OwnInv, CreateConsumer
<1>18. ASSUME NEW t \in Thread, DelConsumer(t) PROVE OwnInv'
  BY <1>18, ListedSame DEF OwnInv, DelConsumer
<1>19. ASSUME NEW s \in Server, OnException(s) PROVE OwnInv'
  BY <1>19, ListedSame DEF OwnInv, OnException
<1>20. ASSUME NEW s \in Server, DeleteAll(s) PROVE OwnInv'
  <2>1. ConnTypes /\ listProducer' = [listProducer EXCEPT ![s] = <<>>] /\ alive' = alive \ Listed(s)
    BY <1>20 DEF DeleteAll, TypeOK
  <2>2. /\ listProducer'[s] = <<>> /\ Listed(s)' = Elems(<<>>)
        /\ \A r \in Server : r # s =>
              listProducer'[r] = listProducer[r] /\ Listed(r)' = Listed(r)
    BY <2>1, ListedChanges
  <2> QED
    BY <2>1, <2>2, NoElems DEF OwnInv
<1> QED
  BY StepCases, <1>1, <1>2, <1>3, <1>4, <1>5, <1>6, <1>7, <1>8, <1>9, <1>10,
     <1>11, <1>12, <1>13,
     <1>14, <1>15, <1>16, <1>17, <1>18, <1>19, <1>20 DEF Cases

\* Every step keeps the connections that are in use or half way down.
LEMMA ConnStep ==
  ASSUME TypeOK, CallInv, ConnInv, OwnInv, [Next]_vars
  PROVE  ConnInv'
<1>1. CASE Library
  <2>1. DownInv'
    BY <1>1, ListedSame DEF ConnInv, DownInv, Library
  <2>2. KeptInv'
    BY <1>1, ListedSame DEF ConnInv, KeptInv, Library
  <2> QED
    BY <2>1, <2>2 DEF ConnInv
<1>2. CASE Fini
  <2>1. DownInv'
    BY <1>2 DEF DownInv, Fini
  <2>2. KeptInv'
    BY <1>2 DEF KeptInv, Fini
  <2> QED
    BY <2>1, <2>2 DEF ConnInv
<1>3. CASE Crashes
  <2>1. DownInv'
    BY <1>3, ListedSame DEF TypeOK, ConnInv, DownInv, Crashes
  <2>2. KeptInv'
    <3>1. UNCHANGED <<conn, listProducer, pc, url, pro>>
      BY <1>3 DEF Crashes
    <3> QED
      BY <3>1, ListedSame DEF ConnInv, KeptInv
  <2> QED
    BY <2>1, <2>2 DEF ConnInv
<1>4. CASE UNCHANGED vars
  <2>1. DownInv'
    BY <1>4, ListedSame DEF ConnInv, DownInv, vars
  <2>2. KeptInv'
    BY <1>4, ListedSame DEF ConnInv, KeptInv, vars
  <2> QED
    BY <2>1, <2>2 DEF ConnInv
<1>5. ASSUME NEW t \in Thread, NEW o \in Operation, NEW u \in Url, Call(t, o, u) PROVE ConnInv'
  <2>1. DownInv'
    BY <1>5, ListedSame DEF ConnInv, DownInv, Call
  <2>2. KeptInv'
    BY <1>5, ListedSame DEF TypeOK, ConnInv, KeptInv, ThreadTypes, Call,
       Operation, Return
  <2> QED
    BY <2>1, <2>2 DEF ConnInv
<1>6. ASSUME NEW t \in Thread, AddFound(t) PROVE ConnInv'
  <2>1. DownInv'
    BY <1>6, ListedSame DEF ConnInv, DownInv, AddFound
  <2>2. KeptInv'
    BY <1>6, ListedSame DEF TypeOK, ConnInv, KeptInv, ThreadTypes, AddFound,
       Added, Return
  <2> QED
    BY <2>1, <2>2 DEF ConnInv
<1>7. ASSUME NEW t \in Thread, NEW p \in Prod, AddMakes(t, p) PROVE ConnInv'
  <2>1. PICK s \in Server : s = Svr(url[t])
    BY <1>7, UrlOf DEF AddMakes, TypeOK
  <2> DEFINE q == Append(listProducer[s], p)
  <2>2. /\ ConnTypes /\ LockTypes /\ pro \in [Thread -> Prod \cup {Null}]
        /\ pc \in [Thread -> Operation \cup {"idle", "create", "lookup", "resend",
                                             "sending", "subcreate"}]
    BY DEF TypeOK, ThreadTypes
  <2>3. Distinct(listProducer[s]) /\ p \notin Listed(s) /\ p \notin created
    BY <1>7 DEF OwnInv, AddMakes, TypeOK, ProdTypes
  <2>4. Elems(q) = Listed(s) \cup {p}
    BY <2>2, <2>3, ListedElems, AppendDistinct
  <2>5. /\ writer = Null /\ Connected(s) /\ listProducer' = [listProducer EXCEPT ![s] = q]
        /\ pro' = [pro EXCEPT ![t] = p] /\ pc' = [pc EXCEPT ![t] = "create"]
        /\ UNCHANGED <<url, callback, created>>
    BY <1>7, <2>1 DEF AddMakes
  <2> HIDE DEF q
  <2>6. Listed(s)' = Listed(s) \cup {p} /\ \A r \in Server : r # s => Listed(r)' = Listed(r)
    BY <2>2, <2>4, <2>5, ListedChanges
  <2>7. DownInv'
    <3>1. \A r \in Server : conn'[r] = "down" => conn[r] = "down"
      BY <2>2, <2>5, ConnectedEffect
    <3>2. \A r \in Server : conn[r] = "down" => conn'[r] = "down"
      BY <2>2, <2>5, ConnectedEffect
    <3> QED
      BY <2>3, <2>5, <2>6, <3>1, <3>2 DEF DownInv, ConnInv
  <2>8. KeptInv'
    <3> SUFFICES ASSUME NEW r \in Thread, NEW z \in Server,
                        pc'[r] \in {"create", "subcreate"}, z = Svr(url[r])
                 PROVE  conn'[z] # "none" /\ pro'[r] \in Listed(z)'
      BY <2>5 DEF KeptInv
    <3>1. r = t
      BY <2>2, <2>5, NobodyCreates
    <3> QED
      BY <3>1, <2>1, <2>2, <2>5, <2>6, ConnectedEffect
  <2> QED
    BY <2>7, <2>8 DEF ConnInv
<1>8. ASSUME NEW t \in Thread, Fails(t) PROVE ConnInv'
  <2>1. DownInv'
    BY <1>8, UrlOf, ListedSame, ConnectedEffect DEF TypeOK, ConnInv, DownInv,
       Fails
  <2>2. KeptInv'
    BY <1>8, UrlOf, ListedSame, ConnectedEffect DEF TypeOK, ConnInv, KeptInv,
       Fails, Return
  <2> QED
    BY <2>1, <2>2 DEF ConnInv
<1>9. ASSUME NEW t \in Thread, CreateProducer(t) PROVE ConnInv'
  <2>1. DownInv'
    <3>1. PICK s \in Server : s = Svr(url[t])
      BY <1>9, UrlOf DEF CreateProducer, TypeOK
    <3>2. created' = created \/ (created' = created \cup {pro[t]} /\ conn[s] = "up")
      BY <1>9, <3>1 DEF CreateProducer
    <3>3. conn[s] = "up" => pro[t] \in Listed(s)
      BY <1>9, <3>1 DEF ConnInv, KeptInv, CreateProducer
    <3>4. UNCHANGED <<callback, conn, listProducer>>
      BY <1>9 DEF CreateProducer
    <3> QED
      BY <3>2, <3>3, <3>4, ListedSame DEF ConnInv, DownInv, OwnInv
  <2>2. KeptInv'
    BY <1>9, ListedSame DEF TypeOK, ConnInv, KeptInv, ThreadTypes,
       CreateProducer, Added, Return
  <2> QED
    BY <2>1, <2>2 DEF ConnInv
<1>10. ASSUME NEW t \in Thread, SendMsg(t) PROVE ConnInv'
  <2>1. DownInv'
    BY <1>10, ListedSame DEF ConnInv, DownInv, SendMsg
  <2>2. KeptInv'
    BY <1>10, ListedSame DEF ConnInv, KeptInv, SendMsg
  <2> QED
    BY <2>1, <2>2 DEF ConnInv
<1>11. ASSUME NEW t \in Thread, Finds(t) PROVE ConnInv'
  <2>1. DownInv'
    BY <1>11, ListedSame DEF ConnInv, DownInv, Finds
  <2>2. KeptInv'
    BY <1>11, ListedSame DEF ConnInv, KeptInv, Finds
  <2> QED
    BY <2>1, <2>2 DEF ConnInv
<1>12. ASSUME NEW t \in Thread, Misses(t) PROVE ConnInv'
  <2>1. DownInv'
    BY <1>12, ListedSame DEF ConnInv, DownInv, Misses
  <2>2. KeptInv'
    BY <1>12, ListedSame DEF TypeOK, ConnInv, KeptInv, ThreadTypes, Misses,
       Return
  <2> QED
    BY <2>1, <2>2 DEF ConnInv
<1>13. ASSUME NEW t \in Thread, NEW r \in {"ok", "error"}, Sends(t, r) PROVE ConnInv'
  <2>1. DownInv'
    BY <1>13, ListedSame DEF ConnInv, DownInv, Sends
  <2>2. KeptInv'
    BY <1>13, ListedSame DEF ConnInv, KeptInv, Sends, Return
  <2> QED
    BY <2>1, <2>2 DEF ConnInv
<1>14. ASSUME NEW t \in Thread, NEW gone \in SUBSET Prod, NEW q \in Seq(Prod),
              Deletes(t, gone, q)
       PROVE  ConnInv'
  <2>1. PICK s \in Server : s = Svr(url[t])
    BY <1>14, UrlOf DEF Deletes, TypeOK
  <2>2. ConnTypes /\ LockTypes
    BY DEF TypeOK
  <2>3. /\ listProducer' = [listProducer EXCEPT ![s] = q] /\ DropIfEmpty(s)
        /\ Elems(q) \subseteq Listed(s) /\ created' \subseteq created
    BY <1>14, <2>1 DEF Deletes
  <2>4. Elems(q) = Listed(s)' /\ \A r \in Server : r # s => Listed(r)' = Listed(r)
    BY <2>2, <2>3, ListedChanges
  <2>5. DownInv'
    BY <2>2, <2>3, <2>4, DropEffect DEF DownInv, ConnInv
  <2>6. \A r \in Thread : pc'[r] \notin {"create", "subcreate"}
    BY <1>14, <2>2, NobodyCreates DEF Deletes, Return
  <2>7. KeptInv'
    BY <2>6 DEF KeptInv
  <2> QED
    BY <2>5, <2>7 DEF ConnInv
<1>15. ASSUME NEW t \in Thread, SubFound(t) PROVE ConnInv'
  <2>1. DownInv'
    BY <1>15, ListedSame DEF ConnInv, DownInv, SubFound
  <2>2. KeptInv'
    BY <1>15, ListedSame DEF ConnInv, KeptInv, SubFound, Return
  <2> QED
    BY <2>1, <2>2 DEF ConnInv
<1>16. ASSUME NEW t \in Thread, SubMakes(t) PROVE ConnInv'
  <2>1. DownInv'
    BY <1>16, UrlOf, ListedSame, ConnectedEffect DEF TypeOK, ConnInv, DownInv,
       SubMakes
  <2>2. KeptInv'
    <3>1. PICK s \in Server : s = Svr(url[t])
      BY <1>16, UrlOf DEF SubMakes, TypeOK
    <3>2. Connected(s) /\ writer = Null /\ pc' = [pc EXCEPT ![t] = "subcreate"] /\ UNCHANGED url
      BY <1>16, <3>1 DEF SubMakes
    <3>3. conn'[s] # "none"
      BY <3>2, ConnectedEffect DEF TypeOK
    <3>4. \A r \in Thread : r # t => pc'[r] \notin {"create", "subcreate"}
      BY <3>2, NobodyCreates DEF TypeOK
    <3>5. pc'[t] = "subcreate"
      BY <3>2 DEF TypeOK, ThreadTypes
    <3> QED
      BY <3>1, <3>2, <3>3, <3>4, <3>5 DEF KeptInv
  <2> QED
    BY <2>1, <2>2 DEF ConnInv
<1>17. ASSUME NEW t \in Thread, CreateConsumer(t) PROVE ConnInv'
  <2>1. DownInv'
    BY <1>17, ListedSame DEF ConnInv, DownInv, CreateConsumer
  <2>2. KeptInv'
    BY <1>17, ListedSame DEF TypeOK, ConnInv, KeptInv, ThreadTypes,
       CreateConsumer, Return
  <2> QED
    BY <2>1, <2>2 DEF ConnInv
<1>18. ASSUME NEW t \in Thread, DelConsumer(t) PROVE ConnInv'
  <2>1. PICK s \in Server : s = Svr(url[t])
    BY <1>18, UrlOf DEF DelConsumer, TypeOK
  <2>2. ConnTypes /\ LockTypes
    BY DEF TypeOK
  <2>3. DropIfEmpty(s) /\ UNCHANGED <<listProducer, created>>
    BY <1>18, <2>1 DEF DelConsumer
  <2>4. DownInv'
    BY <2>2, <2>3, ListedSame, DropEffect DEF DownInv, ConnInv
  <2>5. \A r \in Thread : pc'[r] \notin {"create", "subcreate"}
    BY <1>18, <2>2, NobodyCreates DEF DelConsumer, Return
  <2>6. KeptInv'
    BY <2>5 DEF KeptInv
  <2> QED
    BY <2>4, <2>6 DEF ConnInv
<1>19. ASSUME NEW s \in Server, OnException(s) PROVE ConnInv'
  <2>1. DownInv'
    BY <1>19, ListedSame DEF TypeOK, ConnInv, DownInv, ConnTypes, OnException
  <2>2. KeptInv'
    <3>1. UNCHANGED <<listProducer, pc, url, pro>> /\ conn' = [conn EXCEPT ![s] = "down"]
      BY <1>19 DEF OnException
    <3> QED
      BY <3>1, ListedSame DEF ConnInv, KeptInv
  <2> QED
    BY <2>1, <2>2 DEF ConnInv
<1>20. ASSUME NEW s \in Server, DeleteAll(s) PROVE ConnInv'
  <2>1. ConnTypes /\ listProducer' = [listProducer EXCEPT ![s] = <<>>]
    BY <1>20 DEF DeleteAll, TypeOK
  <2>2. Listed(s)' = {} /\ \A r \in Server : r # s => Listed(r)' = Listed(r)
    BY <2>1, ListedChanges, NoElems
  <2>3. DownInv'
    BY <1>20, <2>2 DEF DownInv, ConnInv, DeleteAll
  <2>4. KeptInv'
    BY <1>20, <2>2 DEF KeptInv, DownInv, ConnInv, DeleteAll
  <2> QED
    BY <2>3, <2>4 DEF ConnInv
<1> QED
  BY StepCases, <1>1, <1>2, <1>3, <1>4, <1>5, <1>6, <1>7, <1>8, <1>9, <1>10,
     <1>11, <1>12, <1>13,
     <1>14, <1>15, <1>16, <1>17, <1>18, <1>19, <1>20 DEF Cases

\* No connection that may not break breaks.
LEMMA UpStep ==
  ASSUME MaxDrops = 0, MqInv, StaysUp, [Next]_vars
  PROVE  StaysUp'
<1>1. CASE Library
  BY <1>1 DEF StaysUp, Library
<1>2. CASE Fini
  BY <1>2 DEF StaysUp, Fini
<1>3. CASE Crashes
  BY <1>3 DEF MqInv, TypeOK, StaysUp, Crashes
<1>4. CASE UNCHANGED vars
  BY <1>4 DEF StaysUp, vars
<1>5. ASSUME NEW t \in Thread, NEW o \in Operation, NEW u \in Url, Call(t, o, u) PROVE StaysUp'
  BY <1>5 DEF StaysUp, Call
<1>6. ASSUME NEW t \in Thread, AddFound(t) PROVE StaysUp'
  BY <1>6 DEF StaysUp, AddFound
<1>7. ASSUME NEW t \in Thread, NEW p \in Prod, AddMakes(t, p) PROVE StaysUp'
  <2>1. PICK s \in Server : s = Svr(url[t])
    BY <1>7, UrlOf DEF AddMakes, MqInv, TypeOK
  <2>2. (Connected(s) \/ UNCHANGED conn) /\ UNCHANGED callback
    BY <1>7, <2>1 DEF AddMakes
  <2>3. \A r \in Server : conn'[r] = conn[r] \/ conn'[r] = "up"
    BY <2>2, ConnectedEffect DEF MqInv, TypeOK
  <2> QED
    BY <2>2, <2>3 DEF StaysUp
<1>8. ASSUME NEW t \in Thread, Fails(t) PROVE StaysUp'
  <2>1. PICK s \in Server : s = Svr(url[t])
    BY <1>8, UrlOf DEF Fails, MqInv, TypeOK
  <2>2. (Connected(s) \/ UNCHANGED conn) /\ UNCHANGED callback
    BY <1>8, <2>1 DEF Fails
  <2>3. \A r \in Server : conn'[r] = conn[r] \/ conn'[r] = "up"
    BY <2>2, ConnectedEffect DEF MqInv, TypeOK
  <2> QED
    BY <2>2, <2>3 DEF StaysUp
<1>9. ASSUME NEW t \in Thread, CreateProducer(t) PROVE StaysUp'
  BY <1>9 DEF StaysUp, CreateProducer
<1>10. ASSUME NEW t \in Thread, SendMsg(t) PROVE StaysUp'
  BY <1>10 DEF StaysUp, SendMsg
<1>11. ASSUME NEW t \in Thread, Finds(t) PROVE StaysUp'
  BY <1>11 DEF StaysUp, Finds
<1>12. ASSUME NEW t \in Thread, Misses(t) PROVE StaysUp'
  BY <1>12 DEF StaysUp, Misses
<1>13. ASSUME NEW t \in Thread, NEW r \in {"ok", "error"}, Sends(t, r) PROVE StaysUp'
  BY <1>13 DEF StaysUp, Sends
<1>14. ASSUME NEW t \in Thread, NEW gone \in SUBSET Prod, NEW q \in Seq(Prod),
              Deletes(t, gone, q)
       PROVE  StaysUp'
  <2>1. PICK s \in Server : s = Svr(url[t])
    BY <1>14, UrlOf DEF Deletes, MqInv, TypeOK
  <2>2. DropIfEmpty(s)
    BY <1>14, <2>1 DEF Deletes
  <2>3. \A r \in Server : /\ (conn'[r] = conn[r] \/ conn'[r] = "none")
                         /\ (callback'[r] = callback[r] \/ conn'[r] = "none")
    BY <2>2, DropEffect DEF MqInv, TypeOK
  <2>4. \A r \in Server : callback[r] = "none" => callback'[r] = "none"
    BY <2>2 DEF DropIfEmpty, DropConnection, MqInv, TypeOK, ConnTypes
  <2> QED
    BY <2>3, <2>4 DEF StaysUp
<1>15. ASSUME NEW t \in Thread, SubFound(t) PROVE StaysUp'
  BY <1>15 DEF StaysUp, SubFound
<1>16. ASSUME NEW t \in Thread, SubMakes(t) PROVE StaysUp'
  <2>1. PICK s \in Server : s = Svr(url[t])
    BY <1>16, UrlOf DEF SubMakes, MqInv, TypeOK
  <2>2. (Connected(s) \/ UNCHANGED conn) /\ UNCHANGED callback
    BY <1>16, <2>1 DEF SubMakes
  <2>3. \A r \in Server : conn'[r] = conn[r] \/ conn'[r] = "up"
    BY <2>2, ConnectedEffect DEF MqInv, TypeOK
  <2> QED
    BY <2>2, <2>3 DEF StaysUp
<1>17. ASSUME NEW t \in Thread, CreateConsumer(t) PROVE StaysUp'
  BY <1>17 DEF StaysUp, CreateConsumer
<1>18. ASSUME NEW t \in Thread, DelConsumer(t) PROVE StaysUp'
  <2>1. PICK s \in Server : s = Svr(url[t])
    BY <1>18, UrlOf DEF DelConsumer, MqInv, TypeOK
  <2>2. DropIfEmpty(s)
    BY <1>18, <2>1 DEF DelConsumer
  <2>3. \A r \in Server : /\ (conn'[r] = conn[r] \/ conn'[r] = "none")
                         /\ (callback'[r] = callback[r] \/ conn'[r] = "none")
    BY <2>2, DropEffect DEF MqInv, TypeOK
  <2>4. \A r \in Server : callback[r] = "none" => callback'[r] = "none"
    BY <2>2 DEF DropIfEmpty, DropConnection, MqInv, TypeOK, ConnTypes
  <2> QED
    BY <2>3, <2>4 DEF StaysUp
<1>19. ASSUME NEW s \in Server, OnException(s) PROVE StaysUp'
  <2>1. drops < MaxDrops /\ drops \in 0 .. MaxDrops
    BY <1>19 DEF OnException, MqInv, TypeOK, ProcessTypes
  <2> QED
    BY <2>1
<1>20. ASSUME NEW s \in Server, DeleteAll(s) PROVE StaysUp'
  BY <1>20 DEF StaysUp, DeleteAll
<1> QED
  BY StepCases, <1>1, <1>2, <1>3, <1>4, <1>5, <1>6, <1>7, <1>8, <1>9, <1>10,
     <1>11, <1>12, <1>13,
     <1>14, <1>15, <1>16, <1>17, <1>18, <1>19, <1>20 DEF Cases, MqInv

\* A step that changes no list, no entry and no producer keeps the cache, if no
\* producer begins or ends to be created.
LEMMA CacheFrame ==
  ASSUME CacheInv, UNCHANGED <<listProducer, mapProducer, dstOf>>, SendInv',
         \A r \in Thread :
            /\ pc'[r] = "create" <=> pc[r] = "create"
            /\ pc[r] = "create" => pro'[r] = pro[r] /\ url'[r] = url[r]
  PROVE  CacheInv'
<1>1. EntryInv'
  BY ListedSame DEF CacheInv, EntryInv
<1>2. ListInv'
  BY ListedSame DEF CacheInv, ListInv
<1>3. CreateInv'
  BY ListedSame DEF CacheInv, CreateInv
<1> QED
  BY <1>1, <1>2, <1>3 DEF CacheInv

\* While no connection breaks, every step keeps the cache and the lists in
\* agreement, if each destination has one URL.
LEMMA CacheStep ==
  ASSUME MqInv, OneSpelling, MaxDrops = 0, StaysUp, CacheInv, [Next]_vars
  PROVE  CacheInv'
<1>1. CASE Library
  <2>1. SendInv'
    BY <1>1 DEF CacheInv, SendInv, Library
  <2> QED
    BY <1>1, <2>1, CacheFrame DEF Library
<1>2. CASE Fini
  <2>1. /\ \A s \in Server : Listed(s)' = {}
        /\ \A u \in Url : mapProducer'[u] = Null
        /\ \A t \in Thread : pc'[t] = "idle"
    BY <1>2 DEF Fini, Listed
  <2> QED
    BY <2>1 DEF CacheInv, EntryInv, ListInv, CreateInv, SendInv
<1>3. CASE Crashes
  <2>1. SendInv'
    BY <1>3 DEF MqInv, TypeOK, ThreadTypes, CacheInv, SendInv, Crashes
  <2> QED
    BY <1>3, <2>1, CacheFrame DEF MqInv, TypeOK, ThreadTypes, Crashes
<1>4. CASE UNCHANGED vars
  <2>1. SendInv'
    BY <1>4 DEF CacheInv, SendInv, vars
  <2> QED
    BY <1>4, <2>1, CacheFrame DEF vars
<1>5. ASSUME NEW t \in Thread, NEW o \in Operation, NEW u \in Url, Call(t, o, u) PROVE CacheInv'
  <2>1. SendInv'
    BY <1>5 DEF MqInv, TypeOK, ThreadTypes, CacheInv, SendInv, Call,
       Operation, Return
  <2> QED
    BY <1>5, <2>1, CacheFrame DEF MqInv, TypeOK, ThreadTypes, Call, Operation,
       Return
<1>6. ASSUME NEW t \in Thread, AddFound(t) PROVE CacheInv'
  <2>1. SendInv'
    BY <1>6 DEF MqInv, TypeOK, ThreadTypes, CacheInv, SendInv, AddFound,
       Added, Return
  <2> QED
    BY <1>6, <2>1, CacheFrame DEF MqInv, TypeOK, ThreadTypes, AddFound, Added,
       Return
<1>7. ASSUME NEW t \in Thread, NEW p \in Prod, AddMakes(t, p) PROVE CacheInv'
  <2>1. PICK s \in Server : s = Svr(url[t])
    BY <1>7, UrlOf DEF AddMakes, MqInv, TypeOK
  <2> DEFINE u == url[t]
  <2>2. /\ ConnTypes /\ LockTypes /\ ProdTypes /\ ThreadTypes /\ OwnInv
        /\ u \in Url /\ ParseMqUri(u)
    BY <1>7, UrlOf DEF MqInv, TypeOK, AddMakes
  <2>3. /\ writer = Null /\ readers = {} /\ mapProducer[u] = Null /\ p \notin alive
        /\ dstOf' = [dstOf EXCEPT ![p] = Dst(u)]
        /\ listProducer' = [listProducer EXCEPT ![s] = Append(listProducer[s], p)]
        /\ pro' = [pro EXCEPT ![t] = p] /\ pc' = [pc EXCEPT ![t] = "create"]
        /\ UNCHANGED <<url, mapProducer>>
    BY <1>7, <2>1 DEF AddMakes
  <2>4. \A r \in Thread : pc[r] \notin {"create", "sending"}
    BY <2>2, <2>3, NobodyCreates DEF LockTypes
  <2>5. \A r \in Server : Listed(r) \subseteq alive /\ Listed(r) \subseteq Prod
    BY <2>2 DEF OwnInv, ProdTypes
  <2>6. Elems(Append(listProducer[s], p)) = Listed(s) \cup {p}
    BY <2>2, <2>3, ListedElems, AppendDistinct DEF OwnInv
  <2>7. Listed(s)' = Listed(s) \cup {p} /\ \A r \in Server : r # s => Listed(r)' = Listed(r)
    BY <2>2, <2>3, <2>6, ListedChanges
  <2>8. \A v \in Url : mapProducer[v] # Null => mapProducer[v] # p /\ Svr(v) \in Server
    BY <2>3, <2>5, TargetOf DEF CacheInv, EntryInv
  <2>9. dstOf'[p] = Dst(u) /\ \A r \in Prod : r # p => dstOf'[r] = dstOf[r]
    BY <2>2, <2>3 DEF ProdTypes
  <2>10. EntryInv'
    <3> SUFFICES ASSUME NEW v \in Url, mapProducer[v] # Null
                 PROVE  /\ ParseMqUri(v) /\ mapProducer[v] \in Listed(Svr(v))'
                        /\ dstOf'[mapProducer[v]] = Dst(v)
      BY <2>3 DEF EntryInv
    <3>1. /\ ParseMqUri(v) /\ mapProducer[v] \in Listed(Svr(v)) /\ Svr(v) \in Server
          /\ dstOf[mapProducer[v]] = Dst(v) /\ mapProducer[v] \in Prod /\ mapProducer[v] # p
      BY <2>5, <2>8 DEF CacheInv, EntryInv
    <3> QED
      BY <2>7, <2>9, <3>1
  <2>11. ASSUME NEW r \in Listed(s) PROVE dstOf[r] # Dst(u)
    <3>1. PICK v \in Url : mapProducer[v] = r
      BY <2>4 DEF CacheInv, ListInv
    <3>2. r # Null
      BY <2>5, NullAssumption
    <3>3. ParseMqUri(v) /\ r \in Listed(Svr(v)) /\ dstOf[r] = Dst(v) /\ Svr(v) \in Server
      BY <2>8, <3>1, <3>2 DEF CacheInv, EntryInv
    <3>4. Svr(v) = s
      BY <2>2, <3>3 DEF OwnInv
    <3>5. v # u
      BY <2>3, <3>1, <3>2
    <3> QED
      BY <2>1, <2>2, <3>3, <3>4, <3>5 DEF OneSpelling
  <2>12. ListInv'
    <3>1. pc'[t] = "create" /\ pro'[t] = p
      BY <2>2, <2>3 DEF ThreadTypes
    <3>2. \A z \in Server : \A r \in Listed(z)' : r = p \/ r \in Listed(z)
      BY <2>7
    <3>3. \A z \in Server : \A r \in Listed(z) : \E v \in Url : mapProducer[v] = r
      BY <2>4 DEF CacheInv, ListInv
    <3>4. \A z \in Server : \A r \in Listed(z)' :
             \/ \E v \in Url : mapProducer'[v] = r
             \/ \E x \in Thread : pc'[x] = "create" /\ pro'[x] = r
      BY <2>3, <3>1, <3>2, <3>3
    <3>5. ASSUME NEW z \in Server, NEW q \in Listed(z)', NEW r \in Listed(z)',
                 dstOf'[q] = dstOf'[r]
          PROVE  q = r
      <4>1. \A x \in Listed(z) : x # p /\ dstOf'[x] = dstOf[x]
        BY <2>3, <2>5
      <4>2. \A x \in Listed(z)' : x \in Listed(z) \/ (x = p /\ z = s)
        BY <2>7
      <4> QED
        BY <2>9, <2>11, <3>5, <4>1, <4>2 DEF CacheInv, ListInv
    <3> QED
      BY <3>4, <3>5 DEF ListInv
  <2>13. CreateInv'
    <3> SUFFICES ASSUME NEW r \in Thread, NEW z \in Server, pc'[r] = "create", z = Svr(url'[r])
                 PROVE  /\ pro'[r] \in Listed(z)' /\ dstOf'[pro'[r]] = Dst(url'[r])
                        /\ mapProducer'[url'[r]] = Null
      BY DEF CreateInv
    <3>1. r = t /\ pro'[t] = p
      BY <2>2, <2>3, <2>4 DEF ThreadTypes
    <3> QED
      BY <2>1, <2>3, <2>7, <2>9, <3>1
  <2>14. SendInv'
    BY <2>3, <2>4 DEF SendInv
  <2> QED
    BY <2>10, <2>12, <2>13, <2>14 DEF CacheInv
<1>8. ASSUME NEW t \in Thread, Fails(t) PROVE CacheInv'
  <2>1. SendInv'
    BY <1>8 DEF CacheInv, SendInv, Fails, Return
  <2> QED
    BY <1>8, <2>1, CacheFrame DEF Fails, Return
<1>9. ASSUME NEW t \in Thread, CreateProducer(t) PROVE CacheInv'
  <2>1. PICK s \in Server : s = Svr(url[t])
    BY <1>9, UrlOf DEF CreateProducer, MqInv, TypeOK
  <2> DEFINE u == url[t]
  <2>2. /\ ConnTypes /\ LockTypes /\ ProdTypes /\ ThreadTypes /\ OwnInv
        /\ u \in Url /\ ParseMqUri(u)
    BY <1>9, UrlOf DEF MqInv, TypeOK, CreateProducer
  <2>3. /\ pc[t] = "create" /\ mapProducer' = [mapProducer EXCEPT ![u] = pro[t]]
        /\ UNCHANGED <<listProducer, dstOf>>
    BY <1>9 DEF CreateProducer
  <2>4. \A r \in Thread : r # t => pc[r] \notin {"create", "sending"}
    BY <2>2, <2>3, NullAssumption DEF LockTypes
  <2>5. \A r \in Thread : pc'[r] \notin {"create", "sending"}
    BY <1>9, <2>2, <2>4 DEF CreateProducer, Added, Return, ThreadTypes
  <2>6. /\ pro[t] \in Listed(s) /\ dstOf[pro[t]] = Dst(u) /\ mapProducer[u] = Null
    BY <2>1, <2>3 DEF CacheInv, CreateInv
  <2>7. mapProducer'[u] = pro[t] /\ \A v \in Url : v # u => mapProducer'[v] = mapProducer[v]
    BY <2>2, <2>3 DEF ProdTypes
  <2>8. EntryInv'
    <3> SUFFICES ASSUME NEW v \in Url, mapProducer'[v] # Null
                 PROVE  /\ ParseMqUri(v) /\ mapProducer'[v] \in Listed(Svr(v))'
                        /\ dstOf'[mapProducer'[v]] = Dst(v)
      BY DEF EntryInv
    <3>1. CASE v = u
      BY <2>1, <2>2, <2>3, <2>6, <3>1, ListedSame
    <3>2. CASE v # u
      BY <2>3, <3>2, ListedSame DEF CacheInv, EntryInv
    <3> QED
      BY <3>1, <3>2
  <2>9. ASSUME NEW z \in Server, NEW p \in Listed(z)
        PROVE  \E v \in Url : mapProducer'[v] = p
    <3>1. p # Null
      BY <2>2, NullAssumption, ListedElems
    <3>2. CASE \E v \in Url : mapProducer[v] = p
      BY <2>6, <2>7, <3>1, <3>2
    <3>3. CASE \E r \in Thread : pc[r] = "create" /\ pro[r] = p
      BY <2>2, <2>4, <2>7, <3>3
    <3> QED
      BY <3>2, <3>3 DEF CacheInv, ListInv
  <2>10. ListInv'
    BY <2>3, <2>9, ListedSame DEF CacheInv, ListInv
  <2> QED
    BY <2>5, <2>8, <2>10 DEF CacheInv, CreateInv, SendInv
<1>10. ASSUME NEW t \in Thread, SendMsg(t) PROVE CacheInv'
  <2>1. SendInv'
    BY <1>10 DEF CacheInv, SendInv, SendMsg
  <2> QED
    BY <1>10, <2>1, CacheFrame DEF SendMsg
<1>11. ASSUME NEW t \in Thread, Finds(t) PROVE CacheInv'
  <2>1. SendInv'
    BY <1>11 DEF MqInv, TypeOK, ThreadTypes, CacheInv, SendInv, Finds
  <2> QED
    BY <1>11, <2>1, CacheFrame DEF Finds
<1>12. ASSUME NEW t \in Thread, Misses(t) PROVE CacheInv'
  <2>1. SendInv'
    BY <1>12 DEF MqInv, TypeOK, ThreadTypes, CacheInv, SendInv, Misses, Return
  <2> QED
    BY <1>12, <2>1, CacheFrame DEF MqInv, TypeOK, ThreadTypes, Misses, Return
<1>13. ASSUME NEW t \in Thread, NEW r \in {"ok", "error"}, Sends(t, r) PROVE CacheInv'
  <2>1. SendInv'
    BY <1>13 DEF MqInv, TypeOK, ThreadTypes, CacheInv, SendInv, Sends, Return
  <2> QED
    BY <1>13, <2>1, CacheFrame DEF Sends, Return
<1>14. ASSUME NEW t \in Thread, NEW gone \in SUBSET Prod, NEW q \in Seq(Prod),
              Deletes(t, gone, q)
       PROVE  CacheInv'
  <2>1. PICK s \in Server : s = Svr(url[t])
    BY <1>14, UrlOf DEF Deletes, MqInv, TypeOK
  <2> DEFINE u == url[t]
  <2>2. /\ ConnTypes /\ LockTypes /\ ProdTypes /\ ThreadTypes /\ OwnInv
        /\ u \in Url /\ ParseMqUri(u)
    BY <1>14, UrlOf DEF MqInv, TypeOK, Deletes
  <2>3. /\ writer = Null /\ readers = {} /\ gone \subseteq Listed(s)
        /\ \A p \in gone : dstOf[p] = Dst(u)
        /\ gone = {} => \A p \in Listed(s) : dstOf[p] # Dst(u)
        /\ Elems(q) = Listed(s) \ gone
        /\ listProducer' = [listProducer EXCEPT ![s] = q]
        /\ mapProducer' = [mapProducer EXCEPT ![u] = Null]
        /\ UNCHANGED dstOf
    BY <1>14, <2>1 DEF Deletes
  <2>4. \A r \in Thread : pc[r] \notin {"create", "sending"}
    BY <2>2, <2>3, NobodyCreates DEF LockTypes
  <2>5. \A r \in Thread : pc'[r] \notin {"create", "sending"}
    BY <1>14, <2>4 DEF Deletes, Return
  <2>6. Listed(s)' = Listed(s) \ gone /\ \A r \in Server : r # s => Listed(r)' = Listed(r)
    BY <2>2, <2>3, ListedChanges
  <2>7. mapProducer'[u] = Null /\ \A v \in Url : v # u => mapProducer'[v] = mapProducer[v]
    BY <2>2, <2>3 DEF ProdTypes
  <2>8. ASSUME NEW v \in Url, v # u, mapProducer[v] # Null
        PROVE  /\ ParseMqUri(v) /\ mapProducer[v] \in Listed(Svr(v)) /\ Svr(v) \in Server
               /\ dstOf[mapProducer[v]] = Dst(v) /\ mapProducer[v] \notin gone
    <3>1. /\ ParseMqUri(v) /\ mapProducer[v] \in Listed(Svr(v)) /\ Svr(v) \in Server
          /\ dstOf[mapProducer[v]] = Dst(v)
      BY <2>8, TargetOf DEF CacheInv, EntryInv
    <3>2. ASSUME mapProducer[v] \in gone PROVE FALSE
      <4>1. Svr(v) = s
        BY <2>2, <2>3, <3>1, <3>2 DEF OwnInv
      <4>2. Dst(v) = Dst(u)
        BY <2>3, <3>1, <3>2
      <4> QED
        BY <2>1, <2>2, <2>8, <3>1, <4>1, <4>2 DEF OneSpelling
    <3> QED
      BY <3>1, <3>2
  <2>9. EntryInv'
    <3> SUFFICES ASSUME NEW v \in Url, mapProducer'[v] # Null
                 PROVE  /\ ParseMqUri(v) /\ mapProducer'[v] \in Listed(Svr(v))'
                        /\ dstOf'[mapProducer'[v]] = Dst(v)
      BY DEF EntryInv
    <3>1. v # u /\ mapProducer'[v] = mapProducer[v]
      BY <2>7
    <3> QED
      BY <2>3, <2>6, <2>8, <3>1
  <2>10. ASSUME NEW z \in Server, NEW p \in Listed(z)'
         PROVE  \E v \in Url : mapProducer'[v] = p
    <3>1. p \in Listed(z) /\ (z = s => p \notin gone)
      BY <2>6
    <3>2. PICK v \in Url : mapProducer[v] = p
      BY <2>4, <3>1 DEF CacheInv, ListInv
    <3>3. p # Null
      BY <2>2, <3>1, NullAssumption, ListedElems
    <3>4. ASSUME v = u PROVE FALSE
      <4>1. p \in Listed(s) /\ dstOf[p] = Dst(u)
        BY <2>1, <3>2, <3>3, <3>4 DEF CacheInv, EntryInv
      <4>2. z = s
        BY <2>2, <3>1, <4>1 DEF OwnInv
      <4>3. PICK r \in gone : dstOf[r] = Dst(u)
        BY <2>3, <4>1
      <4> QED
        BY <2>3, <3>1, <4>1, <4>2 DEF CacheInv, ListInv
    <3> QED
      BY <2>7, <3>2, <3>4
  <2>11. ListInv'
    BY <2>3, <2>6, <2>10 DEF CacheInv, ListInv
  <2> QED
    BY <2>5, <2>9, <2>11 DEF CacheInv, CreateInv, SendInv
<1>15. ASSUME NEW t \in Thread, SubFound(t) PROVE CacheInv'
  <2>1. SendInv'
    BY <1>15 DEF CacheInv, SendInv, SubFound, Return
  <2> QED
    BY <1>15, <2>1, CacheFrame DEF SubFound, Return
<1>16. ASSUME NEW t \in Thread, SubMakes(t) PROVE CacheInv'
  <2>1. SendInv'
    BY <1>16 DEF CacheInv, SendInv, SubMakes
  <2> QED
    BY <1>16, <2>1, CacheFrame DEF SubMakes
<1>17. ASSUME NEW t \in Thread, CreateConsumer(t) PROVE CacheInv'
  <2>1. SendInv'
    BY <1>17 DEF CacheInv, SendInv, CreateConsumer, Return
  <2> QED
    BY <1>17, <2>1, CacheFrame DEF CreateConsumer, Return
<1>18. ASSUME NEW t \in Thread, DelConsumer(t) PROVE CacheInv'
  <2>1. SendInv'
    BY <1>18 DEF CacheInv, SendInv, DelConsumer, Return
  <2> QED
    BY <1>18, <2>1, CacheFrame DEF DelConsumer, Return
<1>19. ASSUME NEW s \in Server, OnException(s) PROVE CacheInv'
  <2>1. drops < MaxDrops /\ drops \in 0 .. MaxDrops
    BY <1>19 DEF OnException, MqInv, TypeOK, ProcessTypes
  <2> QED
    BY <2>1
<1>20. ASSUME NEW s \in Server, DeleteAll(s) PROVE CacheInv'
  BY <1>20 DEF DeleteAll, StaysUp
<1> QED
  BY StepCases, <1>1, <1>2, <1>3, <1>4, <1>5, <1>6, <1>7, <1>8, <1>9, <1>10,
     <1>11, <1>12, <1>13,
     <1>14, <1>15, <1>16, <1>17, <1>18, <1>19, <1>20 DEF Cases, MqInv

\* While no connection breaks, a consumer that is being created stays listed.
LEMMA ConsumerStep ==
  ASSUME MqInv, StaysUp, ConsumerInv, [Next]_vars
  PROVE  ConsumerInv'
<1>1. CASE Library
  BY <1>1 DEF ConsumerInv, Library
<1>2. CASE Fini
  BY <1>2 DEF ConsumerInv, Fini
<1>3. CASE Crashes
  BY <1>3 DEF ConsumerInv, MqInv, TypeOK, ThreadTypes, Crashes
<1>4. CASE UNCHANGED vars
  BY <1>4 DEF ConsumerInv, vars
<1>5. ASSUME NEW t \in Thread, NEW o \in Operation, NEW u \in Url, Call(t, o, u) PROVE ConsumerInv'
  BY <1>5 DEF ConsumerInv, MqInv, TypeOK, ThreadTypes, Call, Operation, Return
<1>6. ASSUME NEW t \in Thread, AddFound(t) PROVE ConsumerInv'
  BY <1>6 DEF ConsumerInv, MqInv, TypeOK, ThreadTypes, AddFound, Added, Return
<1>7. ASSUME NEW t \in Thread, NEW p \in Prod, AddMakes(t, p) PROVE ConsumerInv'
  BY <1>7 DEF ConsumerInv, AddMakes
<1>8. ASSUME NEW t \in Thread, Fails(t) PROVE ConsumerInv'
  BY <1>8 DEF ConsumerInv, Fails, Return
<1>9. ASSUME NEW t \in Thread, CreateProducer(t) PROVE ConsumerInv'
  BY <1>9 DEF ConsumerInv, MqInv, TypeOK, ThreadTypes, CreateProducer, Added,
     Return
<1>10. ASSUME NEW t \in Thread, SendMsg(t) PROVE ConsumerInv'
  BY <1>10 DEF ConsumerInv, SendMsg
<1>11. ASSUME NEW t \in Thread, Finds(t) PROVE ConsumerInv'
  BY <1>11 DEF ConsumerInv, Finds
<1>12. ASSUME NEW t \in Thread, Misses(t) PROVE ConsumerInv'
  BY <1>12 DEF ConsumerInv, MqInv, TypeOK, ThreadTypes, Misses, Return
<1>13. ASSUME NEW t \in Thread, NEW r \in {"ok", "error"}, Sends(t, r) PROVE ConsumerInv'
  BY <1>13 DEF ConsumerInv, Sends, Return
<1>14. ASSUME NEW t \in Thread, NEW gone \in SUBSET Prod, NEW q \in Seq(Prod),
              Deletes(t, gone, q)
       PROVE  ConsumerInv'
  BY <1>14 DEF ConsumerInv, Deletes, Return
<1>15. ASSUME NEW t \in Thread, SubFound(t) PROVE ConsumerInv'
  BY <1>15 DEF ConsumerInv, SubFound, Return
<1>16. ASSUME NEW t \in Thread, SubMakes(t) PROVE ConsumerInv'
  <2>1. \A r \in Thread : r # t => pc'[r] # "subcreate"
    BY <1>16, NobodyCreates DEF MqInv, TypeOK, SubMakes
  <2>2. PICK s \in Server : s = Svr(url[t])
    BY <1>16, UrlOf DEF SubMakes, MqInv, TypeOK
  <2>3. Dst(url[t]) \in listConsumer'[s] /\ url' = url
    BY <1>16, <2>2 DEF SubMakes, MqInv, TypeOK, ConnTypes
  <2> QED
    BY <2>1, <2>2, <2>3 DEF ConsumerInv
<1>17. ASSUME NEW t \in Thread, CreateConsumer(t) PROVE ConsumerInv'
  BY <1>17 DEF ConsumerInv, MqInv, TypeOK, ThreadTypes, CreateConsumer, Return
<1>18. ASSUME NEW t \in Thread, DelConsumer(t) PROVE ConsumerInv'
  <2>1. \A r \in Thread : pc'[r] # "subcreate"
    BY <1>18, NobodyCreates DEF MqInv, TypeOK, DelConsumer, Return
  <2> QED
    BY <2>1 DEF ConsumerInv
<1>19. ASSUME NEW s \in Server, OnException(s) PROVE ConsumerInv'
  BY <1>19 DEF ConsumerInv, MqInv, TypeOK, ThreadTypes, OnException
<1>20. ASSUME NEW s \in Server, DeleteAll(s) PROVE ConsumerInv'
  BY <1>20 DEF DeleteAll, StaysUp
<1> QED
  BY StepCases, <1>1, <1>2, <1>3, <1>4, <1>5, <1>6, <1>7, <1>8, <1>9, <1>10,
     <1>11, <1>12, <1>13,
     <1>14, <1>15, <1>16, <1>17, <1>18, <1>19, <1>20 DEF Cases, MqInv

\* A step that leaves the consumers and the threads that create them alone.
LEMMA HeardFrame ==
  ASSUME HeardInv, UNCHANGED <<listConsumer, consuming, hidden>>,
         \A t \in Thread : pc[t] = "subcreate" => pc'[t] = "subcreate" /\ url'[t] = url[t]
  PROVE  HeardInv'
<1> SUFFICES ASSUME NEW s \in Server, NEW d \in listConsumer[s],
                    d \notin consuming[s] \cup hidden[s]
             PROVE  \E t \in Thread : pc'[t] = "subcreate" /\ s = Svr(url'[t]) /\ d = Dst(url'[t])
  BY DEF HeardInv
<1>1. PICK t \in Thread : pc[t] = "subcreate" /\ s = Svr(url[t]) /\ d = Dst(url[t])
  BY DEF HeardInv
<1> QED
  BY <1>1

\* While no connection breaks, every consumer is created, or its Create fails.
LEMMA HeardStep ==
  ASSUME MaxDrops = 0, MqInv, StaysUp, ConsumerInv, HeardInv, [Next]_vars
  PROVE  HeardInv'
<1>1. CASE Library
  BY <1>1, HeardFrame DEF Library
<1>2. CASE Fini
  BY <1>2 DEF HeardInv, Fini
<1>3. CASE Crashes \/ UNCHANGED vars
  BY <1>3, HeardFrame DEF Crashes, vars
<1>4. ASSUME NEW t \in Thread, NEW o \in Operation, NEW u \in Url, Call(t, o, u) PROVE HeardInv'
  BY <1>4, HeardFrame DEF MqInv, TypeOK, ThreadTypes, Call, Return
<1>5. ASSUME NEW t \in Thread, AddFound(t) \/ Fails(t) \/ CreateProducer(t) PROVE HeardInv'
  BY <1>5, HeardFrame DEF MqInv, TypeOK, ThreadTypes, AddFound, Fails, CreateProducer, Added,
     Return
<1>6. ASSUME NEW t \in Thread, NEW p \in Prod, AddMakes(t, p) PROVE HeardInv'
  BY <1>6, HeardFrame DEF MqInv, TypeOK, ThreadTypes, AddMakes
<1>7. ASSUME NEW t \in Thread, SendMsg(t) \/ Finds(t) \/ Misses(t) PROVE HeardInv'
  BY <1>7, HeardFrame DEF MqInv, TypeOK, ThreadTypes, SendMsg, Finds, Misses, Return
<1>8. ASSUME NEW t \in Thread, NEW r \in {"ok", "error"}, Sends(t, r) PROVE HeardInv'
  BY <1>8, HeardFrame DEF MqInv, TypeOK, ThreadTypes, Sends, Return
<1>9. ASSUME NEW t \in Thread, NEW gone \in SUBSET Prod, NEW q \in Seq(Prod),
             Deletes(t, gone, q)
      PROVE  HeardInv'
  BY <1>9, HeardFrame DEF MqInv, TypeOK, ThreadTypes, Deletes, Return
<1>10. ASSUME NEW t \in Thread, SubFound(t) PROVE HeardInv'
  BY <1>10, HeardFrame DEF MqInv, TypeOK, ThreadTypes, SubFound, Return
<1>11. ASSUME NEW t \in Thread, SubMakes(t) PROVE HeardInv'
  <2>1. \A r \in Thread : pc[r] # "subcreate"
    BY <1>11, NobodyCreates DEF MqInv, TypeOK, SubMakes
  <2>2. PICK s \in Server : s = Svr(url[t])
    BY <1>11, UrlOf DEF SubMakes, MqInv, TypeOK
  <2>3. /\ listConsumer' = [listConsumer EXCEPT ![s] = listConsumer[s] \cup {Dst(url[t])}]
        /\ UNCHANGED <<consuming, hidden, url>> /\ pc'[t] = "subcreate"
    BY <1>11, <2>2 DEF SubMakes, MqInv, TypeOK, ThreadTypes
  <2>4. \A z \in Server : listConsumer'[z] \subseteq listConsumer[z]
                                 \cup (IF z = s THEN {Dst(url[t])} ELSE {})
    BY <2>3 DEF MqInv, TypeOK, ConnTypes
  <2> QED
    BY <2>1, <2>2, <2>3, <2>4 DEF HeardInv
<1>12. ASSUME NEW t \in Thread, CreateConsumer(t) PROVE HeardInv'
  <2>1. PICK s \in Server : s = Svr(url[t])
    BY <1>12, UrlOf DEF CreateConsumer, MqInv, TypeOK
  <2>2. PICK d \in listConsumer[s] : d = Dst(url[t])
    BY <1>12, <2>1 DEF ConsumerInv, CreateConsumer
  <2>3. \A r \in Thread : pc[r] = "subcreate" => r = t
    BY <1>12 DEF CreateConsumer, MqInv, TypeOK, LockTypes
  <2>4. consuming \in [Server -> SUBSET Target] /\ hidden \in [Server -> SUBSET Target]
    BY DEF MqInv, TypeOK, ConnTypes
  <2>5. /\ UNCHANGED listConsumer
        /\ \/ consuming' = [consuming EXCEPT ![s] = @ \cup {d}] /\ UNCHANGED hidden
           \/ hidden' = [hidden EXCEPT ![s] = @ \cup {d}] /\ UNCHANGED consuming
    BY <1>12, <2>1, <2>2 DEF CreateConsumer
  <2>6. /\ d \in consuming'[s] \cup hidden'[s]
        /\ \A z \in Server : consuming[z] \cup hidden[z] \subseteq consuming'[z] \cup hidden'[z]
    BY <2>4, <2>5
  <2> QED
    BY <2>1, <2>2, <2>3, <2>5, <2>6 DEF HeardInv
<1>13. ASSUME NEW t \in Thread, DelConsumer(t) PROVE HeardInv'
  <2>1. \A r \in Thread : pc[r] # "subcreate"
    BY <1>13, NobodyCreates DEF MqInv, TypeOK, DelConsumer
  <2>2. PICK s \in Server : s = Svr(url[t])
    BY <1>13, UrlOf DEF DelConsumer, MqInv, TypeOK
  <2>3. /\ listConsumer' = [listConsumer EXCEPT ![s] = @ \ {Dst(url[t])}]
        /\ consuming' = [consuming EXCEPT ![s] = @ \ {Dst(url[t])}]
        /\ hidden' = [hidden EXCEPT ![s] = @ \ {Dst(url[t])}]
    BY <1>13, <2>2 DEF DelConsumer
  <2>4. /\ listConsumer \in [Server -> SUBSET Target]
        /\ consuming \in [Server -> SUBSET Target] /\ hidden \in [Server -> SUBSET Target]
    BY DEF MqInv, TypeOK, ConnTypes
  <2> QED
    BY <2>1, <2>3, <2>4 DEF HeardInv
<1>14. ASSUME NEW s \in Server, OnException(s) PROVE HeardInv'
  <2>1. drops \in 0 .. MaxDrops /\ drops < MaxDrops
    BY <1>14 DEF OnException, MqInv, TypeOK, ProcessTypes
  <2> QED
    BY <2>1
<1>15. ASSUME NEW s \in Server, DeleteAll(s) PROVE HeardInv'
  BY <1>15 DEF DeleteAll, StaysUp
<1> QED
  BY StepCases, <1>1, <1>2, <1>3, <1>4, <1>5, <1>6, <1>7, <1>8, <1>9, <1>10, <1>11, <1>12,
     <1>13, <1>14, <1>15 DEF Cases, MqInv

\* With memory enough besides, every step leaves a connection to somebody.
LEMMA UsedStep ==
  ASSUME MaxDrops = 0, ~NoMemory, MqInv, StaysUp, UsedInv, [Next]_vars
  PROVE  UsedInv'
<1>1. CASE Library
  BY <1>1 DEF UsedInv, Library
<1>2. CASE Fini
  BY <1>2 DEF UsedInv, Fini
<1>3. CASE Crashes
  BY <1>3 DEF UsedInv, Crashes
<1>4. CASE UNCHANGED vars
  BY <1>4 DEF UsedInv, vars
<1>5. ASSUME NEW t \in Thread, NEW o \in Operation, NEW u \in Url, Call(t, o, u) PROVE UsedInv'
  BY <1>5 DEF UsedInv, Call
<1>6. ASSUME NEW t \in Thread, AddFound(t) PROVE UsedInv'
  BY <1>6 DEF UsedInv, AddFound
<1>7. ASSUME NEW t \in Thread, NEW p \in Prod, AddMakes(t, p) PROVE UsedInv'
  <2>1. PICK s \in Server : s = Svr(url[t])
    BY <1>7, UrlOf DEF AddMakes, MqInv, TypeOK
  <2>2. listProducer' = [listProducer EXCEPT ![s] = Append(listProducer[s], p)]
        /\ UNCHANGED listConsumer /\ Connected(s)
    BY <1>7, <2>1 DEF AddMakes
  <2>3. listProducer'[s] # <<>> /\ \A r \in Server : r # s => listProducer'[r] = listProducer[r]
    <3>1. listProducer \in [Server -> Seq(Prod)] /\ listProducer[s] \in Seq(Prod)
      BY DEF MqInv, TypeOK, ConnTypes
    <3> QED
      BY <2>2, <3>1
  <2>4. \A r \in Server : r # s => conn'[r] = conn[r]
    BY <2>2 DEF Connected
  <2> QED
    BY <2>2, <2>3, <2>4 DEF UsedInv
<1>8. ASSUME NEW t \in Thread, Fails(t) PROVE UsedInv'
  BY <1>8 DEF Fails
<1>9. ASSUME NEW t \in Thread, CreateProducer(t) PROVE UsedInv'
  BY <1>9 DEF UsedInv, CreateProducer
<1>10. ASSUME NEW t \in Thread, SendMsg(t) PROVE UsedInv'
  BY <1>10 DEF UsedInv, SendMsg
<1>11. ASSUME NEW t \in Thread, Finds(t) PROVE UsedInv'
  BY <1>11 DEF UsedInv, Finds
<1>12. ASSUME NEW t \in Thread, Misses(t) PROVE UsedInv'
  BY <1>12 DEF UsedInv, Misses
<1>13. ASSUME NEW t \in Thread, NEW r \in {"ok", "error"}, Sends(t, r) PROVE UsedInv'
  BY <1>13 DEF UsedInv, Sends
<1>14. ASSUME NEW t \in Thread, NEW gone \in SUBSET Prod, NEW q \in Seq(Prod),
              Deletes(t, gone, q)
       PROVE  UsedInv'
  <2>1. PICK s \in Server : s = Svr(url[t])
    BY <1>14, UrlOf DEF Deletes, MqInv, TypeOK
  <2>2. listProducer' = [listProducer EXCEPT ![s] = q] /\ UNCHANGED listConsumer
    BY <1>14, <2>1 DEF Deletes
  <2>3. DropIfEmpty(s)
    BY <1>14, <2>1 DEF Deletes
  <2>4. \A r \in Server : r # s =>
           listProducer'[r] = listProducer[r] /\ listConsumer'[r] = listConsumer[r]
    BY <2>2
  <2>5. ASSUME NEW r \in Server, conn'[r] # "none"
        PROVE  listProducer'[r] # <<>> \/ listConsumer'[r] # {}
    <3>1. CASE r = s
      BY <2>3, <2>5, <3>1, DropEffect DEF MqInv, TypeOK
    <3>2. CASE r # s
      BY <2>3, <2>4, <2>5, DropEffect DEF MqInv, TypeOK, UsedInv
    <3> QED
      BY <3>1, <3>2
  <2> QED
    BY <2>5 DEF UsedInv
<1>15. ASSUME NEW t \in Thread, SubFound(t) PROVE UsedInv'
  BY <1>15 DEF UsedInv, SubFound
<1>16. ASSUME NEW t \in Thread, SubMakes(t) PROVE UsedInv'
  <2>1. PICK s \in Server : s = Svr(url[t])
    BY <1>16, UrlOf DEF SubMakes, MqInv, TypeOK
  <2>2. /\ listConsumer' = [listConsumer EXCEPT ![s] = listConsumer[s] \cup {Dst(url[t])}]
        /\ UNCHANGED listProducer /\ Connected(s)
    BY <1>16, <2>1 DEF SubMakes
  <2>3. \A r \in Server : listConsumer'[r] = IF r = s THEN listConsumer[s] \cup {Dst(url[t])}
                                             ELSE listConsumer[r]
    BY <2>2 DEF MqInv, TypeOK, ConnTypes
  <2>4. \A r \in Server : r # s => conn'[r] = conn[r]
    BY <2>2 DEF Connected
  <2> QED
    BY <2>2, <2>3, <2>4 DEF UsedInv
<1>17. ASSUME NEW t \in Thread, CreateConsumer(t) PROVE UsedInv'
  BY <1>17 DEF UsedInv, CreateConsumer
<1>18. ASSUME NEW t \in Thread, DelConsumer(t) PROVE UsedInv'
  <2>1. PICK s \in Server : s = Svr(url[t])
    BY <1>18, UrlOf DEF DelConsumer, MqInv, TypeOK
  <2>2. listConsumer' = [listConsumer EXCEPT ![s] = @ \ {Dst(url[t])}] /\ UNCHANGED listProducer
    BY <1>18, <2>1 DEF DelConsumer
  <2>3. DropIfEmpty(s)
    BY <1>18, <2>1 DEF DelConsumer
  <2>4. \A r \in Server : r # s =>
           listProducer'[r] = listProducer[r] /\ listConsumer'[r] = listConsumer[r]
    BY <2>2
  <2>5. ASSUME NEW r \in Server, conn'[r] # "none"
        PROVE  listProducer'[r] # <<>> \/ listConsumer'[r] # {}
    <3>1. CASE r = s
      BY <2>3, <2>5, <3>1, DropEffect DEF MqInv, TypeOK
    <3>2. CASE r # s
      BY <2>3, <2>4, <2>5, DropEffect DEF MqInv, TypeOK, UsedInv
    <3> QED
      BY <3>1, <3>2
  <2> QED
    BY <2>5 DEF UsedInv
<1>19. ASSUME NEW s \in Server, OnException(s) PROVE UsedInv'
  <2>1. drops < MaxDrops /\ drops \in 0 .. MaxDrops
    BY <1>19 DEF OnException, MqInv, TypeOK, ProcessTypes
  <2> QED
    BY <2>1
<1>20. ASSUME NEW s \in Server, DeleteAll(s) PROVE UsedInv'
  BY <1>20 DEF DeleteAll, StaysUp
<1> QED
  BY StepCases, <1>1, <1>2, <1>3, <1>4, <1>5, <1>6, <1>7, <1>8, <1>9, <1>10,
     <1>11, <1>12, <1>13,
     <1>14, <1>15, <1>16, <1>17, <1>18, <1>19, <1>20 DEF Cases, MqInv

\* The formula that ReturnsMeanIt asserts of every step.
Answered == \A t \in Thread :
    ret[t] = "none" /\ ret'[t] = "ok" /\ op[t] # "none" => Postcondition(t)

\* While no connection breaks, DTK_OK means what it says.
LEMMA AnswerStep ==
  ASSUME MqInv, StaysUp, CacheInv, ConsumerInv, HeardInv, [Next]_vars
  PROVE  Answered
<1>1. CASE Library
  BY <1>1 DEF Answered, Library
<1>2. CASE Fini
  BY <1>2 DEF Answered, Fini
<1>3. CASE Crashes
  BY <1>3 DEF MqInv, TypeOK, ThreadTypes, Answered, Crashes
<1>4. CASE UNCHANGED vars
  BY <1>4 DEF Answered, vars
<1>5. ASSUME NEW t \in Thread, NEW o \in Operation, NEW u \in Url, Call(t, o, u) PROVE Answered
  BY <1>5 DEF MqInv, TypeOK, ThreadTypes, Answered, Call, Return
<1>6. ASSUME NEW t \in Thread, AddFound(t) PROVE Answered
  <2> SUFFICES ASSUME ret[t] = "none", ret'[t] = "ok", op[t] # "none"
               PROVE  Postcondition(t)
    BY <1>6 DEF MqInv, TypeOK, ThreadTypes, Answered, AddFound, Return, Added
  <2>1. op[t] = "add" /\ mapProducer'[url[t]] # Null
    BY <1>6 DEF AddFound, Added
  <2> QED
    BY <2>1 DEF Postcondition
<1>7. ASSUME NEW t \in Thread, NEW p \in Prod, AddMakes(t, p) PROVE Answered
  BY <1>7 DEF Answered, AddMakes
<1>8. ASSUME NEW t \in Thread, Fails(t) PROVE Answered
  BY <1>8 DEF Answered, Fails, Return
<1>9. ASSUME NEW t \in Thread, CreateProducer(t) PROVE Answered
  <2> SUFFICES ASSUME ret[t] = "none", ret'[t] = "ok", op[t] # "none"
               PROVE  Postcondition(t)
    BY <1>9 DEF MqInv, TypeOK, ThreadTypes, Answered, CreateProducer, Return,
       Added
  <2>1. op[t] = "add"
    BY <1>9 DEF CreateProducer, Added
  <2>2. mapProducer'[url[t]] = pro[t] /\ pro[t] # Null
    BY <1>9, UrlOf DEF MqInv, CallInv, TypeOK, ProdTypes, CreateProducer
  <2> QED
    BY <2>1, <2>2 DEF Postcondition
<1>10. ASSUME NEW t \in Thread, SendMsg(t) PROVE Answered
  BY <1>10 DEF Answered, SendMsg
<1>11. ASSUME NEW t \in Thread, Finds(t) PROVE Answered
  BY <1>11 DEF Answered, Finds
<1>12. ASSUME NEW t \in Thread, Misses(t) PROVE Answered
  BY <1>12 DEF MqInv, TypeOK, ThreadTypes, Answered, Misses, Return
<1>13. ASSUME NEW t \in Thread, NEW r \in {"ok", "error"}, Sends(t, r) PROVE Answered
  <2> SUFFICES ASSUME ret[t] = "none", ret'[t] = "ok", op[t] # "none"
               PROVE  Postcondition(t)
    BY <1>13 DEF Answered, Sends, Return
  <2>1. op[t] = "send" /\ pro[t] = mapProducer[url[t]]
    BY <1>13 DEF MqInv, CallInv, CacheInv, SendInv, Sends
  <2>2. pro[t] \in created
    BY <1>13 DEF Sends, Return
  <2> QED
    BY <2>1, <2>2 DEF Postcondition
<1>14. ASSUME NEW t \in Thread, NEW gone \in SUBSET Prod, NEW q \in Seq(Prod),
              Deletes(t, gone, q)
       PROVE  Answered
  <2> SUFFICES ASSUME ret[t] = "none", ret'[t] = "ok", op[t] # "none"
               PROVE  Postcondition(t)
    BY <1>14 DEF Answered, Deletes, Return
  <2>1. PICK s \in Server : s = Svr(url[t])
    BY <1>14, UrlOf DEF Deletes, MqInv, TypeOK
  <2>2. op[t] = "del" /\ mapProducer'[url[t]] = Null
    BY <1>14, UrlOf DEF MqInv, CallInv, TypeOK, ProdTypes, Deletes
  <2>3. ASSUME NEW p \in alive', p \in Listed(s), dstOf'[p] = Dst(url[t])
        PROVE  FALSE
    <3>1. p \notin gone /\ dstOf[p] = Dst(url[t])
      BY <1>14, <2>3 DEF Deletes
    <3>2. PICK r \in gone : r \in Listed(s) /\ dstOf[r] = Dst(url[t])
      BY <1>14, <2>1, <2>3 DEF Deletes
    <3> QED
      BY <2>3, <3>1, <3>2 DEF CacheInv, ListInv
  <2> QED
    BY <2>1, <2>2, <2>3 DEF Postcondition
<1>15. ASSUME NEW t \in Thread, SubFound(t) PROVE Answered
  <2> SUFFICES ASSUME ret[t] = "none", ret'[t] = "ok", op[t] # "none"
               PROVE  Postcondition(t)
    BY <1>15 DEF Answered, SubFound, Return
  <2>1. PICK s \in Server : s = Svr(url[t])
    BY <1>15, UrlOf DEF SubFound, MqInv, TypeOK
  <2>2. op[t] = "sub" /\ Dst(url[t]) \in listConsumer[s]
    BY <1>15, <2>1 DEF MqInv, CallInv, SubFound
  <2>3. Dst(url[t]) \in consuming[s] \cup hidden[s]
    BY <1>15, <2>2, NobodyCreates DEF HeardInv, MqInv, TypeOK, SubFound
  <2> QED
    BY <1>15, <2>1, <2>2, <2>3 DEF Postcondition, SubFound
<1>16. ASSUME NEW t \in Thread, SubMakes(t) PROVE Answered
  BY <1>16 DEF Answered, SubMakes
<1>17. ASSUME NEW t \in Thread, CreateConsumer(t) PROVE Answered
  <2> SUFFICES ASSUME ret[t] = "none", ret'[t] = "ok", op[t] # "none"
               PROVE  Postcondition(t)
    BY <1>17 DEF Answered, CreateConsumer, Return
  <2>1. PICK s \in Server : s = Svr(url[t])
    BY <1>17, UrlOf DEF CreateConsumer, MqInv, TypeOK
  <2>2. op[t] = "sub" /\ Dst(url[t]) \in listConsumer'[s] /\ Dst(url[t]) \in listConsumer[s]
    BY <1>17, <2>1 DEF MqInv, CallInv, ConsumerInv, CreateConsumer
  <2>3. Dst(url[t]) \in consuming'[s] \cup hidden'[s]
    BY <1>17, <2>1, <2>2 DEF CreateConsumer, MqInv, TypeOK, ConnTypes
  <2> QED
    BY <2>1, <2>2, <2>3 DEF Postcondition
<1>18. ASSUME NEW t \in Thread, DelConsumer(t) PROVE Answered
  <2> SUFFICES ASSUME ret[t] = "none", ret'[t] = "ok", op[t] # "none"
               PROVE  Postcondition(t)
    BY <1>18 DEF Answered, DelConsumer, Return
  <2>1. PICK s \in Server : s = Svr(url[t])
    BY <1>18, UrlOf DEF DelConsumer, MqInv, TypeOK
  <2>2. op[t] = "unsub" /\ Dst(url[t]) \notin listConsumer'[s] \cup consuming'[s]
    BY <1>18, <2>1 DEF MqInv, CallInv, DelConsumer, TypeOK, ConnTypes
  <2> QED
    BY <2>1, <2>2 DEF Postcondition
<1>19. ASSUME NEW s \in Server, OnException(s) PROVE Answered
  BY <1>19 DEF MqInv, TypeOK, ThreadTypes, Answered, OnException
<1>20. ASSUME NEW s \in Server, DeleteAll(s) PROVE Answered
  BY <1>20 DEF Answered, DeleteAll
<1> QED
  BY StepCases, <1>1, <1>2, <1>3, <1>4, <1>5, <1>6, <1>7, <1>8, <1>9, <1>10,
     <1>11, <1>12, <1>13,
     <1>14, <1>15, <1>16, <1>17, <1>18, <1>19, <1>20 DEF Cases, MqInv

-----------------------------------------------------------------------------
(* Theorems.                                                               *)

\* The initial states meet the invariants.
LEMMA InitialMq ==
  ASSUME Init
  PROVE  MqInv /\ StaysUp /\ CacheInv /\ ConsumerInv /\ HeardInv /\ UsedInv
<1> USE BoundAssumption, NullAssumption
<1>1. bLibrary \in BOOLEAN
  BY DEF Init
<1>2. fault = "none" /\ drops = 0 /\ calls = 0
  BY DEF Init
<1>4. ProcessTypes
  BY <1>2 DEF ProcessTypes
<1>5. LockTypes
  BY DEF Init, LockTypes
<1>6. ConnTypes
  BY DEF Init, ConnTypes
<1>7. ProdTypes
  BY DEF Init, ProdTypes
<1>8. ThreadTypes
  BY DEF Init, ThreadTypes
<1>9. CallInv
  BY DEF Init, CallInv
<1>10. \A s \in Server : Listed(s) = {} /\ Distinct(listProducer[s])
  BY NoElems DEF Init, Listed
<1>11. ConnInv
  BY DEF Init, ConnInv, DownInv, KeptInv
<1>12. OwnInv
  BY <1>10 DEF Init, OwnInv
<1>13. CacheInv
  BY <1>10 DEF Init, CacheInv, EntryInv, ListInv, CreateInv, SendInv
<1>14. StaysUp /\ ConsumerInv /\ HeardInv /\ UsedInv
  BY DEF Init, StaysUp, ConsumerInv, HeardInv, UsedInv
<1> QED
  BY <1>1, <1>4, <1>5, <1>6, <1>7, <1>8, <1>9, <1>11, <1>12, <1>13, <1>14
     DEF MqInv, TypeOK

\* The inductive invariant holds whatever breaks and fails.
LEMMA MqInvariant == Spec => []MqInv
<1>1. Init => MqInv
  BY InitialMq
<1>2. MqInv /\ [Next]_vars => MqInv'
  BY TypeStep, CallStep, ConnStep, OwnedStep DEF MqInv
<1> QED
  BY <1>1, <1>2, PTL DEF Spec

\* While no connection breaks, the cache and the lists agree at every moment.
LEMMA CacheInvariant ==
  ASSUME MaxDrops = 0, OneSpelling
  PROVE  Spec => [](StaysUp /\ CacheInv /\ ConsumerInv /\ HeardInv)
<1> DEFINE UpInv == StaysUp /\ CacheInv /\ ConsumerInv /\ HeardInv
<1>1. Init => UpInv
  BY InitialMq
<1>2. MqInv /\ UpInv /\ [Next]_vars => UpInv'
  BY UpStep, CacheStep, ConsumerStep, HeardStep
<1> HIDE DEF UpInv
<1>3. Spec => []UpInv
  BY <1>1, <1>2, MqInvariant, PTL DEF Spec
<1> QED
  BY <1>3 DEF UpInv

\* The manager's variables have their types, whatever breaks or fails, and the
\* lock m_wrLockMqContainer is held by one writer or by the threads that read.
THEOREM MqTypeCorrect == Spec => []TypeOK
<1>1. MqInv => TypeOK
  BY DEF MqInv
<1> QED
  BY <1>1, MqInvariant, PTL

\* Whatever connections break or cannot be made, between any two sections of
\* the code, each MqProducer has one owner that lists it once: none leaks and
\* none is deleted twice.
THEOREM ProducersHaveOneOwner == Spec => []ProducersOwned
<1>1. MqInv => ProducersOwned
  <2> SUFFICES ASSUME MqInv,
                      NEW s \in Server, NEW r \in Server,
                      NEW m \in DOMAIN listProducer[s], NEW n \in DOMAIN listProducer[r],
                      listProducer[s][m] = listProducer[r][n]
               PROVE  s = r /\ m = n
    BY DEF MqInv, OwnInv, ProducersOwned
  <2>1. listProducer[s][m] \in Listed(s) \cap Listed(r)
    BY DEF Listed
  <2>2. s = r
    BY <2>1 DEF MqInv, OwnInv
  <2> QED
    BY <2>2 DEF MqInv, OwnInv, Distinct
<1> QED
  BY <1>1, MqInvariant, PTL

\* While no connection breaks, the cache m_mapProcucer and the lists of the
\* connections agree whenever no AddProducer is half way, if each destination
\* has one URL: two threads that send to a new URL at once make one producer.
THEOREM CacheAndListsAgree ==
  ASSUME MaxDrops = 0, OneSpelling
  PROVE  Spec => []RegistryConsistent
<1>1. MqInv /\ CacheInv => RegistryConsistent
  <2> SUFFICES ASSUME MqInv, CacheInv, writer = Null
               PROVE  RegistryConsistent
    BY DEF RegistryConsistent
  <2>1. ASSUME NEW u \in Url, mapProducer[u] # Null
        PROVE  /\ ParseMqUri(u)
               /\ mapProducer[u] \in Listed(Svr(u)) \cap alive
               /\ dstOf[mapProducer[u]] = Dst(u)
    BY <2>1, TargetOf DEF CacheInv, EntryInv, MqInv, OwnInv
  <2>2. \A s \in Server : \A p \in Listed(s) : \E u \in Url : mapProducer[u] = p
    BY NobodyCreates DEF CacheInv, ListInv, MqInv, TypeOK
  <2>3. ASSUME NEW s \in Server, NEW m \in DOMAIN listProducer[s], NEW n \in DOMAIN listProducer[s],
               dstOf[listProducer[s][m]] = dstOf[listProducer[s][n]]
        PROVE  m = n
    <3>1. listProducer[s][m] \in Listed(s) /\ listProducer[s][n] \in Listed(s)
      BY DEF Listed
    <3>2. listProducer[s][m] = listProducer[s][n]
      BY <2>3, <3>1 DEF CacheInv, ListInv
    <3> QED
      BY <3>2 DEF MqInv, OwnInv, Distinct
  <2> QED
    BY <2>1, <2>2, <2>3 DEF RegistryConsistent
<1> QED
  BY <1>1, MqInvariant, CacheInvariant, PTL

\* While no connection breaks, a thread inside MqProducer::SendMsg holds a
\* living producer of the destination it was asked to send to, whatever the
\* others delete meanwhile.
THEOREM SendsAreSafe ==
  ASSUME MaxDrops = 0, OneSpelling
  PROVE  Spec => []SendsToItsDestination
<1>1. MqInv /\ CacheInv => SendsToItsDestination
  <2> SUFFICES ASSUME MqInv, CacheInv, NEW t \in Thread, pc[t] = "sending"
               PROVE  pro[t] \in alive /\ dstOf[pro[t]] = Dst(url[t])
    BY DEF SendsToItsDestination
  <2>1. PICK u \in Url : u = url[t]
    BY DEF MqInv, TypeOK, ThreadTypes
  <2>2. pro[t] = mapProducer[u] /\ mapProducer[u] # Null
    BY <2>1 DEF CacheInv, SendInv
  <2>3. ParseMqUri(u) /\ mapProducer[u] \in Listed(Svr(u)) /\ dstOf[mapProducer[u]] = Dst(u)
    BY <2>2 DEF CacheInv, EntryInv
  <2> QED
    BY <2>1, <2>2, <2>3, TargetOf DEF MqInv, OwnInv
<1> QED
  BY <1>1, MqInvariant, CacheInvariant, PTL

\* While no connection breaks and memory lasts, each connection is kept for a
\* producer or a consumer: the call that deletes the last one deletes it too.
THEOREM NoConnectionForNobody ==
  ASSUME MaxDrops = 0, ~NoMemory
  PROVE  Spec => []NoEmptyConnection
<1>1. Init => StaysUp /\ UsedInv
  BY InitialMq
<1>2. MqInv /\ StaysUp /\ UsedInv /\ [Next]_vars => StaysUp' /\ UsedInv'
  BY UpStep, UsedStep
<1>3. UsedInv => NoEmptyConnection
  BY DEF UsedInv, NoEmptyConnection
<1> QED
  BY <1>1, <1>2, <1>3, MqInvariant, PTL DEF Spec

\* While no connection breaks, a call that returns DTK_OK has done what it was
\* called for, if each destination has one URL; but of a consumer it says only
\* that it is listed, and has its listener unless Create hid that it failed.
THEOREM OkMeansDone ==
  ASSUME MaxDrops = 0, OneSpelling
  PROVE  Spec => ReturnsMeanIt
<1>1. MqInv /\ StaysUp /\ CacheInv /\ ConsumerInv /\ HeardInv /\ [Next]_vars => Answered
  BY AnswerStep
<1>2. MqInv /\ (StaysUp /\ CacheInv /\ ConsumerInv /\ HeardInv) /\ [Next]_vars => [Answered]_vars
  BY <1>1
<1>3. ReturnsMeanIt <=> [][Answered]_vars
  BY DEF ReturnsMeanIt, Answered
<1> QED
  BY <1>2, <1>3, MqInvariant, CacheInvariant, PTL DEF Spec

=============================================================================
