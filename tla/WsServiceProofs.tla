-------------------------- MODULE WsServiceProofs --------------------------
(***************************************************************************)
(* Proofs about WsService: its type invariant, and that a service thread   *)
(* that has ended leaves no listening socket and no client behind, on each *)
(* of its ways out.  Neither is inductive.  What they rest on is where the *)
(* thread may be with its object allocated and its socket open, bound or   *)
(* listening (ServiceInv), and that a client only ever waits in the queue  *)
(* of a listening socket or in the hands of a thread (ClientInv).          *)
(***************************************************************************)
EXTENDS WsService, FiniteSetTheorems, TLAPS

-----------------------------------------------------------------------------
(* The inductive invariant.                                                *)

\* The object exists from new to delete, and no socket without it; the socket
\* listens from a bind that succeeded until the object is deleted, and no thread
\* that binds or waits to bind has such a one.
ThreadInv(s) ==
    /\ pc[s] \in {"none", "new"} => ~pSvr[s] /\ ~bBind[s]
    /\ pc[s] \in {"loop", "bind", "sleep", "accept", "serve", "delete"} => pSvr[s]
    /\ pc[s] \in {"bind", "sleep"} => ~bBind[s]
    /\ pc[s] \in {"accept", "serve"} => bBind[s]
    /\ ~bBind[s] => ~Listening(s)
    /\ bBind[s] /\ pSvr[s] => Listening(s)
    /\ ~pSvr[s] => master[s] = "none"
    /\ pc[s] = "done" => ~Listening(s)
    /\ pc[s] = "sleep" => slept[s] < Seconds

ServiceInv == \A s \in Svc : ThreadInv(s)

\* A client queues at a listening socket, is served by a thread that serves, and
\* by no thread together with another client.
ClientInv ==
    /\ \A c \in Client : call[c] \in {"queued", "serving"} => at[c] \in Svc
    /\ \A c \in Client : call[c] = "queued" => Listening(at[c])
    /\ \A c \in Client : call[c] = "serving" => pc[at[c]] = "serve"
    /\ \A c, d \in Client :
          call[c] = "serving" /\ call[d] = "serving" /\ at[c] = at[d] => c = d

ShapeInv == ServiceTypes /\ FlagTypes /\ ClientTypes
WsServiceInv == ShapeInv /\ ServiceInv /\ ClientInv

-----------------------------------------------------------------------------

\* The frames of the actions, expanded in every step below.
USE DEF serviceVars, clientVars, Goto, SubRecvThread, RemoteConfig, Listening

\* Every step keeps the shape of the variables.
LEMMA ShapeStep ==
  ASSUME ShapeInv, ServiceInv, [Next]_vars
  PROVE  ShapeInv'
<1> USE NumAssumption, NullAssumption
<1>1. ASSUME NEW s \in Svc, Start(s) PROVE ShapeInv'
  <2>1. ServiceTypes'
    BY <1>1 DEF ShapeInv, ServiceTypes, Start
  <2>2. FlagTypes'
    BY <1>1 DEF ShapeInv, FlagTypes, Start
  <2>3. ClientTypes'
    BY <1>1 DEF ShapeInv, ClientTypes, Start
  <2> QED
    BY <2>1, <2>2, <2>3 DEF ShapeInv
<1>2. ASSUME NEW s \in Svc, NewService(s) PROVE ShapeInv'
  <2>1. ServiceTypes'
    BY <1>2 DEF ShapeInv, ServiceTypes, NewService
  <2>2. FlagTypes'
    BY <1>2 DEF ShapeInv, FlagTypes, NewService
  <2>3. ClientTypes'
    BY <1>2 DEF ShapeInv, ClientTypes, NewService
  <2> QED
    BY <2>1, <2>2, <2>3 DEF ShapeInv
<1>3. ASSUME NEW s \in Svc, Loop(s) PROVE ShapeInv'
  <2>1. ServiceTypes'
    BY <1>3 DEF ShapeInv, ServiceTypes, Loop, AfterLoop
  <2>2. FlagTypes'
    BY <1>3 DEF ShapeInv, FlagTypes, Loop, AfterLoop
  <2>3. ClientTypes'
    BY <1>3 DEF ShapeInv, ClientTypes, Loop, AfterLoop
  <2> QED
    BY <2>1, <2>2, <2>3 DEF ShapeInv
<1>4. ASSUME NEW s \in Svc, Bind(s) PROVE ShapeInv'
  <2>1. ServiceTypes'
    BY <1>4 DEF ShapeInv, ServiceTypes, Bind
  <2>2. FlagTypes'
    BY <1>4 DEF ShapeInv, FlagTypes, Bind
  <2>3. ClientTypes'
    BY <1>4 DEF ShapeInv, ClientTypes, Bind
  <2> QED
    BY <2>1, <2>2, <2>3 DEF ShapeInv
<1>5. ASSUME NEW s \in Svc, Sleep(s) PROVE ShapeInv'
  <2>1. ServiceTypes'
    BY <1>5 DEF ShapeInv, ServiceTypes, ServiceInv, ThreadInv, Sleep, Retry
  <2>2. FlagTypes'
    BY <1>5 DEF ShapeInv, FlagTypes, Sleep, Retry
  <2>3. ClientTypes'
    BY <1>5 DEF ShapeInv, ClientTypes, Sleep, Retry
  <2> QED
    BY <2>1, <2>2, <2>3 DEF ShapeInv
<1>6. ASSUME NEW s \in Svc, Accept(s) PROVE ShapeInv'
  <2>1. ServiceTypes'
    BY <1>6 DEF ShapeInv, ServiceTypes, Accept, Waiting
  <2>2. FlagTypes'
    BY <1>6 DEF ShapeInv, FlagTypes, Accept, Waiting
  <2>3. ClientTypes'
    BY <1>6 DEF ShapeInv, ClientTypes, Accept, Waiting
  <2> QED
    BY <2>1, <2>2, <2>3 DEF ShapeInv
<1>7. ASSUME NEW s \in Svc, Serve(s) PROVE ShapeInv'
  <2>1. ServiceTypes'
    BY <1>7 DEF ShapeInv, ServiceTypes, Serve, Served
  <2>2. FlagTypes'
    BY <1>7 DEF ShapeInv, FlagTypes, Serve, Served
  <2>3. ClientTypes'
    BY <1>7 DEF ShapeInv, ClientTypes, Serve, Served
  <2> QED
    BY <2>1, <2>2, <2>3 DEF ShapeInv
<1>8. ASSUME NEW s \in Svc, Delete(s) PROVE ShapeInv'
  <2>1. ServiceTypes'
    BY <1>8 DEF ShapeInv, ServiceTypes, Delete, Waiting
  <2>2. FlagTypes'
    BY <1>8 DEF ShapeInv, FlagTypes, Delete, Waiting
  <2>3. ClientTypes'
    BY <1>8 DEF ShapeInv, ClientTypes, Delete, Waiting
  <2> QED
    BY <2>1, <2>2, <2>3 DEF ShapeInv
<1>9. CASE Stop
  <2>1. ServiceTypes'
    BY <1>9 DEF ShapeInv, ServiceTypes, Stop
  <2>2. FlagTypes'
    BY <1>9 DEF ShapeInv, FlagTypes, Stop
  <2>3. ClientTypes'
    BY <1>9 DEF ShapeInv, ClientTypes, Stop
  <2> QED
    BY <2>1, <2>2, <2>3 DEF ShapeInv
<1>10. ASSUME NEW c \in Client, Connect(c) PROVE ShapeInv'
  <2>1. ServiceTypes'
    BY <1>10 DEF ShapeInv, ServiceTypes, Connect
  <2>2. FlagTypes'
    BY <1>10 DEF ShapeInv, FlagTypes, Connect
  <2>3. ClientTypes'
    BY <1>10 DEF ShapeInv, ClientTypes, Connect
  <2> QED
    BY <2>1, <2>2, <2>3 DEF ShapeInv
<1>11. ASSUME NEW c \in Client, GiveUp(c) PROVE ShapeInv'
  <2>1. ServiceTypes'
    BY <1>11 DEF ShapeInv, ServiceTypes, GiveUp
  <2>2. FlagTypes'
    BY <1>11 DEF ShapeInv, FlagTypes, GiveUp
  <2>3. ClientTypes'
    BY <1>11 DEF ShapeInv, ClientTypes, GiveUp
  <2> QED
    BY <2>1, <2>2, <2>3 DEF ShapeInv
<1>12. ASSUME NEW c \in Client, Returns(c) PROVE ShapeInv'
  <2>1. ServiceTypes'
    BY <1>12 DEF ShapeInv, ServiceTypes, Returns
  <2>2. FlagTypes'
    BY <1>12 DEF ShapeInv, FlagTypes, Returns
  <2>3. ClientTypes'
    BY <1>12 DEF ShapeInv, ClientTypes, Returns
  <2> QED
    BY <2>1, <2>2, <2>3 DEF ShapeInv
<1>13. CASE UNCHANGED vars
  <2>1. ServiceTypes'
    BY <1>13 DEF ShapeInv, ServiceTypes, vars
  <2>2. FlagTypes'
    BY <1>13 DEF ShapeInv, FlagTypes, vars
  <2>3. ClientTypes'
    BY <1>13 DEF ShapeInv, ClientTypes, vars
  <2> QED
    BY <2>1, <2>2, <2>3 DEF ShapeInv
<1> QED
  BY <1>1, <1>2, <1>3, <1>4, <1>5, <1>6, <1>7, <1>8, <1>9, <1>10, <1>11,
     <1>12, <1>13 DEF Next

\* Every step keeps each thread between new and delete of its object.
LEMMA ThreadStep ==
  ASSUME ShapeInv, ServiceInv, [Next]_vars
  PROVE  ServiceInv'
<1> USE NumAssumption, NullAssumption
<1>1. ASSUME NEW s \in Svc, Start(s) PROVE ServiceInv'
  BY <1>1 DEF ServiceInv, ThreadInv, Start
<1>2. ASSUME NEW s \in Svc, NewService(s) PROVE ServiceInv'
  BY <1>2 DEF ShapeInv, ServiceTypes, FlagTypes, ServiceInv, ThreadInv,
     NewService
<1>3. ASSUME NEW s \in Svc, Loop(s) PROVE ServiceInv'
  BY <1>3 DEF ServiceInv, ThreadInv, Loop, AfterLoop
<1>4. ASSUME NEW s \in Svc, Bind(s) PROVE ServiceInv'
  BY <1>4 DEF ShapeInv, ServiceTypes, FlagTypes, ServiceInv, ThreadInv, Bind
<1>5. ASSUME NEW s \in Svc, Sleep(s) PROVE ServiceInv'
  BY <1>5 DEF ShapeInv, ServiceTypes, ServiceInv, ThreadInv, Sleep, Retry
<1>6. ASSUME NEW s \in Svc, Accept(s) PROVE ServiceInv'
  BY <1>6 DEF ShapeInv, ServiceTypes, ServiceInv, ThreadInv, Accept
<1>7. ASSUME NEW s \in Svc, Serve(s) PROVE ServiceInv'
  BY <1>7 DEF ServiceInv, ThreadInv, Serve
<1>8. ASSUME NEW s \in Svc, Delete(s) PROVE ServiceInv'
  BY <1>8 DEF ShapeInv, ServiceTypes, FlagTypes, ServiceInv, ThreadInv, Delete
<1>9. CASE Stop
  BY <1>9 DEF ServiceInv, ThreadInv, Stop
<1>10. ASSUME NEW c \in Client, Connect(c) PROVE ServiceInv'
  BY <1>10 DEF ServiceInv, ThreadInv, Connect
<1>11. ASSUME NEW c \in Client, GiveUp(c) PROVE ServiceInv'
  BY <1>11 DEF ServiceInv, ThreadInv, GiveUp
<1>12. ASSUME NEW c \in Client, Returns(c) PROVE ServiceInv'
  BY <1>12 DEF ServiceInv, ThreadInv, Returns
<1>13. CASE UNCHANGED vars
  BY <1>13 DEF ServiceInv, ThreadInv, vars
<1> QED
  BY <1>1, <1>2, <1>3, <1>4, <1>5, <1>6, <1>7, <1>8, <1>9, <1>10, <1>11,
     <1>12, <1>13 DEF Next

\* Every step keeps the clients at open sockets.
LEMMA ClientStep ==
  ASSUME ShapeInv, ServiceInv, ClientInv, [Next]_vars
  PROVE  ClientInv'
<1> USE NumAssumption, NullAssumption
<1>1. ASSUME NEW s \in Svc, Start(s) PROVE ClientInv'
  BY <1>1 DEF ClientInv, Start
<1>2. ASSUME NEW s \in Svc, NewService(s) PROVE ClientInv'
  BY <1>2 DEF ShapeInv, ServiceTypes, FlagTypes, ClientInv,
     NewService
<1>3. ASSUME NEW s \in Svc, Loop(s) PROVE ClientInv'
  BY <1>3 DEF ClientInv, Loop
<1>4. ASSUME NEW s \in Svc, Bind(s) PROVE ClientInv'
  BY <1>4 DEF ShapeInv, ServiceTypes, FlagTypes, ServiceInv, ThreadInv, ClientInv,
     Bind
<1>5. ASSUME NEW s \in Svc, Sleep(s) PROVE ClientInv'
  BY <1>5 DEF ShapeInv, ServiceTypes, ClientInv, Sleep
<1>6. ASSUME NEW s \in Svc, Accept(s) PROVE ClientInv'
  BY <1>6 DEF ShapeInv, ServiceTypes, ClientTypes, ClientInv,
     Accept, Waiting
<1>7. ASSUME NEW s \in Svc, Serve(s) PROVE ClientInv'
  BY <1>7 DEF ClientInv, Serve, Served
<1>8. ASSUME NEW s \in Svc, Delete(s) PROVE ClientInv'
  BY <1>8 DEF ClientInv, Delete, Waiting
<1>9. CASE Stop
  BY <1>9 DEF ClientInv, Stop
<1>10. ASSUME NEW c \in Client, Connect(c) PROVE ClientInv'
  BY <1>10 DEF ShapeInv, ClientTypes, ClientInv, Connect
<1>11. ASSUME NEW c \in Client, GiveUp(c) PROVE ClientInv'
  BY <1>11 DEF ClientInv, GiveUp
<1>12. ASSUME NEW c \in Client, Returns(c) PROVE ClientInv'
  BY <1>12 DEF ClientInv, Returns
<1>13. CASE UNCHANGED vars
  BY <1>13 DEF ClientInv, vars
<1> QED
  BY <1>1, <1>2, <1>3, <1>4, <1>5, <1>6, <1>7, <1>8, <1>9, <1>10, <1>11,
     <1>12, <1>13 DEF Next

\* Every state of the program meets the inductive invariant.
LEMMA WsServiceInvariant == Spec => []WsServiceInv
<1>1. Init => WsServiceInv
  <2> SUFFICES ASSUME Init PROVE WsServiceInv
    OBVIOUS
  <2>1. ServiceTypes
    BY NumAssumption DEF Init, ServiceTypes
  <2>2. FlagTypes
    BY DEF Init, FlagTypes
  <2>3. ClientTypes
    BY DEF Init, ClientTypes
  <2>4. ServiceInv
    BY DEF Init, ServiceInv, ThreadInv
  <2>5. ClientInv
    BY DEF Init, ClientInv
  <2> QED
    BY <2>1, <2>2, <2>3, <2>4, <2>5 DEF WsServiceInv, ShapeInv
<1>2. WsServiceInv /\ [Next]_vars => WsServiceInv'
  BY ShapeStep, ThreadStep, ClientStep DEF WsServiceInv
<1> QED
  BY <1>1, <1>2, PTL DEF Spec

\* A thread has a client in hand only while it serves, and that one only: the
\* clients in its hands are none, or the one that each of them is.
LEMMA AtMostOneServed ==
  ASSUME ClientInv
  PROVE  OneServed
<1> SUFFICES ASSUME NEW s \in Svc
             PROVE  Cardinality(Served(s)) <= (IF pc[s] = "serve" THEN 1 ELSE 0)
  BY DEF OneServed
<1>1. CASE Served(s) = {}
  BY <1>1, FS_EmptySet
<1>2. CASE Served(s) # {}
  <2>1. PICK c \in Served(s) : TRUE
    BY <1>2
  <2>2. pc[s] = "serve"
    BY <2>1 DEF Served, ClientInv
  <2>3. Served(s) = {c}
    BY <2>1 DEF Served, ClientInv
  <2>4. Cardinality(Served(s)) = 1
    BY <2>3, FS_Singleton
  <2> QED
    BY <2>2, <2>4
<1> QED
  BY <1>1, <1>2

-----------------------------------------------------------------------------
(* Theorems.                                                               *)

\* SubRecvThread has at most one client in its hands, and only between a call
\* of accept and the next round of its loop, and its variables have their
\* types.
THEOREM WsServiceTypeCorrect == Spec => []TypeOK
<1>1. WsServiceInv => TypeOK
  BY AtMostOneServed DEF WsServiceInv, ShapeInv, TypeOK
<1> QED
  BY <1>1, WsServiceInvariant, PTL

\* A thread of the web service that has ended, after delete pSvr or by the
\* return in its retry loop, has no listening socket and leaves no client
\* waiting or half served, and once it has deleted pSvr it has no socket.
THEOREM EndedServicesAreGone == Spec => []NoOrphanListener
<1>1. WsServiceInv => NoOrphanListener
  <2> SUFFICES ASSUME WsServiceInv, NEW s \in Svc, pc[s] = "done"
               PROVE  /\ ~Listening(s) /\ Waiting(s) = {} /\ Served(s) = {}
                      /\ ~pSvr[s] => master[s] = "none"
    BY DEF NoOrphanListener
  <2>1. ~Listening(s) /\ (~pSvr[s] => master[s] = "none")
    BY DEF WsServiceInv, ServiceInv, ThreadInv
  <2>2. Waiting(s) = {}
    BY <2>1 DEF WsServiceInv, ClientInv, Waiting
  <2>3. Served(s) = {}
    BY DEF WsServiceInv, ClientInv, Served
  <2> QED
    BY <2>1, <2>2, <2>3
<1> QED
  BY <1>1, WsServiceInvariant, PTL

=============================================================================
