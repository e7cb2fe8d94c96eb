--------------------------- MODULE WsQueueProofs ---------------------------
(***************************************************************************)
(* Proofs about WsQueue, for every size of the connection table, of the    *)
(* queues and of the set of texts.                                         *)
(***************************************************************************)
EXTENDS WsQueue, TLAPS, FiniteSetTheorems, SequenceTheorems

-----------------------------------------------------------------------------
(* The inductive invariant. *)

\* How the two program counters, the flags of http_start and http_stop and the
\* published context go together.
LifeInv ==
    /\ published <=> mainPc \in {"register", "idle", "wake", "join"}
    /\ running <=> mainPc \in {"publish", "register", "idle", "wake"}
    /\ statusCb <=> mainPc \in {"idle", "wake"}
    /\ ctxUp <=> mainPc \notin {"cleanup", "stopped"}
    /\ mainPc \in {"destroy", "cleanup", "stopped"} => lwsPc = "exited"
    /\ lwsPc = "exited" => ~running
    /\ lwsPc \in {"notify", "wake"} => published

\* Ids that were not handed out yet are unused everywhere.
IdsInv ==
    /\ \A s \in Slots : conns[s] <= nextConnId
    /\ \A c \in ConnIds : c > nextConnId =>
            accepted[c] = <<>> /\ written[c] = <<>> /\ outgoing[c] = <<>>

\* The service thread works for, has armed and has seen fail only connections
\* that are registered: it alone unregisters them.
ServiceInv ==
    /\ lwsPc \in {"write", "recheck"} => lwsConn \in Registered
    /\ lwsPc \notin {"write", "recheck"} => lwsConn = NoConn
    /\ lwsPc # "write" => frame = <<>>
    /\ lwsPc = "write" => frame # <<>>
    /\ armed \subseteq Registered
    /\ broken \subseteq Registered
    /\ mainPc \in {"cleanup", "stopped"} => armed = {} /\ broken = {}

IInv ==
    /\ TypeOK
    /\ LifeInv
    /\ IdsInv
    /\ ServiceInv
    /\ NoOrphanFrames
    /\ InOrder
    /\ NoLostWakeup

USE ConnectionsAssumption, QueueAssumption, ConnIdsAssumption, SendsAssumption,
    ReceivesAssumption

-----------------------------------------------------------------------------
(* Lemmas about slots and sequences. *)

\* How many frames a broadcast queues is a number.
LEMMA ReachedFinite == Cardinality(Reached) \in Nat
<1>1. IsFiniteSet(Slots)
  BY FS_Interval DEF Slots
<1>2. Reached \subseteq Slots
  BY DEF Reached, Occupied
<1>3. IsFiniteSet(Reached)
  BY <1>1, <1>2, FS_Subset
<1> QED
  BY <1>3, FS_CardinalityType

\* Queueing behind a concatenation.
LEMMA ConcatAppend ==
    ASSUME NEW S, NEW u \in Seq(S), NEW v \in Seq(S), NEW t \in S
    PROVE  u \o Append(v, t) = Append(u \o v, t)
OBVIOUS

\* Taking the first frame off the queue and holding it.
LEMMA ConcatHeadTail ==
    ASSUME NEW S, NEW u \in Seq(S), NEW v \in Seq(S), v # <<>>
    PROVE  (u \o <<Head(v)>>) \o Tail(v) = u \o v
OBVIOUS

\* The empty sequence is neutral.
LEMMA ConcatEmpty ==
    ASSUME NEW S, NEW u \in Seq(S)
    PROVE  u \o <<>> = u /\ <<>> \o u = u
OBVIOUS

\* The first part of a concatenation is a prefix of it.
LEMMA ConcatPrefix ==
    ASSUME NEW S, NEW u \in Seq(S), NEW v \in Seq(S)
    PROVE  /\ Len(u) <= Len(u \o v)
           /\ \A i \in 1 .. Len(u) : u[i] = (u \o v)[i]
OBVIOUS

-----------------------------------------------------------------------------
\* The initial states satisfy the invariant.
LEMMA InitIInv == Init => IInv
<1> SUFFICES ASSUME Init PROVE IInv
  OBVIOUS
<1>1. Registered = {}
  BY DEF Init, Registered
<1>2. DataTypes
  BY DEF Init, DataTypes, Slots, ConnIds, NoConn
<1>3. FlagTypes
  BY DEF Init, FlagTypes
<1>4. LifeInv
  BY DEF Init, LifeInv
<1>5. IdsInv /\ ServiceInv
  BY <1>1 DEF Init, IdsInv, ServiceInv, Slots, NoConn
<1>6. NoOrphanFrames /\ InOrder /\ NoLostWakeup
  BY <1>1 DEF Init, NoOrphanFrames, InOrder, NoLostWakeup
<1> QED
  BY <1>2, <1>3, <1>4, <1>5, <1>6 DEF IInv, TypeOK

\* The flags and the two program counters move together.
LEMMA LifeStep ==
    FlagTypes /\ LifeInv /\ [Next]_vars => FlagTypes' /\ LifeInv'
<1> SUFFICES ASSUME FlagTypes, LifeInv, [Next]_vars
             PROVE  FlagTypes' /\ LifeInv'
  OBVIOUS
<1> USE DEF Next, MainNext, LwsNext, vars, ws_set_context,
      RegisterStatusCallback, ws_pop_incoming, ws_send_to, MainBroadcast,
      MainWake, ws_wake_service, StopBegin, StopUnpublish, StopDestroy,
      ws_cleanup, Stopped, Established, Receive, Closed, Writeable, WriteFrame,
      WriteFails, Recheck, WaitCancelled, ws_on_service_cancel, StatusChanged,
      LwsBroadcast, LwsWake, LwsExit, lifeVars, lwsVars
<1>1. FlagTypes'
  BY ZenonT(30) DEF FlagTypes
<1>2. LifeInv'
  BY DEF FlagTypes, LifeInv
<1> QED
  BY <1>1, <1>2

\* Queues, tables and histories keep their types.
LEMMA DataStep == DataTypes /\ ServiceInv /\ [Next]_vars => DataTypes'
<1> SUFFICES ASSUME DataTypes, ServiceInv, [Next]_vars PROVE DataTypes'
  OBVIOUS
<1>0. lwsPc \in {"write", "recheck"} => lwsConn \in ConnIds
  BY DEF DataTypes, ServiceInv, Registered
<1> USE DEF DataTypes, NoConn, hist, queueVars
<1>1. CASE ws_set_context \/ RegisterStatusCallback
  BY <1>1 DEF ws_set_context, RegisterStatusCallback, lwsVars
<1>2. CASE ws_pop_incoming
  BY <1>2 DEF ws_pop_incoming, lwsVars
<1>3. ASSUME NEW c \in ConnIds, NEW t \in Texts, ws_send_to(c, t)
      PROVE  DataTypes'
  BY <1>3 DEF ws_send_to, lwsVars
<1>4. ASSUME NEW t \in Texts, MainBroadcast(t) PROVE DataTypes'
  BY <1>4, ReachedFinite DEF MainBroadcast, ws_broadcast_text, lwsVars
<1>5. CASE MainWake \/ LwsWake
  BY <1>5 DEF MainWake, LwsWake
<1>6. CASE StopBegin \/ StopUnpublish
  BY <1>6 DEF StopBegin, StopUnpublish, lwsVars
<1>7. CASE StopDestroy
  BY <1>7 DEF StopDestroy
<1>8. CASE ws_cleanup
  BY <1>8 DEF ws_cleanup, lwsVars
<1>9. CASE Established
  <2>1. ws_next_conn_id \in ConnIds
    BY <1>9 DEF Established, ws_next_conn_id, ConnIds
  <2>2. conns' \in [Slots -> {NoConn} \cup ConnIds]
    BY <1>9, <2>1 DEF Established
  <2>3. nextConnId' \in 0 .. MaxConnIds
    BY <1>9 DEF Established, ws_next_conn_id
  <2> QED
    BY <1>9, <2>2, <2>3 DEF Established, lwsVars
<1>10. ASSUME NEW c \in ConnIds, Receive(c) PROVE DataTypes'
  BY <1>10 DEF Receive, IncomingRoom, lwsVars
<1>11. ASSUME NEW c \in ConnIds, Closed(c) PROVE DataTypes'
  BY <1>11 DEF Closed, ws_unregister_conn
<1>12. ASSUME NEW c \in ConnIds, Writeable(c) PROVE DataTypes'
  <2>1. CASE outgoing[c] = <<>>
    BY <1>12, <2>1 DEF Writeable
  <2>2. CASE outgoing[c] # <<>>
    <3>1. Head(outgoing[c]) \in Texts /\ Tail(outgoing[c]) \in Seq(Texts)
      BY <2>2
    <3>2. <<Head(outgoing[c])>> \in Seq(Texts)
      BY <3>1
    <3>3. outgoing' = [outgoing EXCEPT ![c] = Tail(@)]
          /\ frame' = <<Head(outgoing[c])>> /\ outCount' = outCount - 1
          /\ lwsConn' = c /\ lwsPc' = "write"
      BY <1>12, <2>2 DEF Writeable, ws_dequeue_outgoing
    <3>4. outgoing' \in [ConnIds -> Seq(Texts)] /\ frame' \in Seq(Texts)
      BY <3>1, <3>2, <3>3
    <3> QED
      BY <1>12, <3>3, <3>4 DEF Writeable
  <2> QED
    BY <2>1, <2>2
<1>13. CASE WriteFrame
  <2>1. written[lwsConn] \o frame \in Seq(Texts)
    BY <1>0, <1>13, ConcatProperties DEF WriteFrame
  <2>2. written' \in [ConnIds -> Seq(Texts)]
    BY <1>13, <2>1 DEF WriteFrame
  <2> QED
    BY <1>13, <2>2 DEF WriteFrame, lwsVars
<1>14. CASE WriteFails
  BY <1>0, <1>14 DEF WriteFails
<1>15. CASE Recheck
  BY <1>0, <1>15 DEF Recheck
<1>16. CASE WaitCancelled
  BY <1>16 DEF WaitCancelled
<1>17. CASE ws_on_service_cancel
  BY <1>17 DEF ws_on_service_cancel, Registered
<1>18. CASE StatusChanged \/ LwsExit
  <2>1. CASE StatusChanged
    <3>1. sends < MaxSends /\ sends' = sends + 1 /\ lwsPc' = "notify"
      BY <2>1 DEF StatusChanged
    <3>2. sends' \in 0 .. MaxSends
      BY <3>1
    <3> QED
      BY <2>1, <3>1, <3>2 DEF StatusChanged, lwsVars
  <2>2. CASE LwsExit
    BY <2>2 DEF LwsExit, lwsVars
  <2> QED
    BY <1>18, <2>1, <2>2
<1>19. ASSUME NEW t \in Texts, LwsBroadcast(t) PROVE DataTypes'
  BY <1>19, ReachedFinite DEF LwsBroadcast, ws_broadcast_text, lwsVars
<1>20. CASE Stopped \/ UNCHANGED vars
  BY <1>20 DEF Stopped, vars
<1> HIDE DEF DataTypes, NoConn, hist, queueVars
<1> QED
  BY <1>1, <1>2, <1>3, <1>4, <1>5, <1>6, <1>7, <1>8, <1>9, <1>10, <1>11,
     <1>12, <1>13, <1>14, <1>15, <1>16, <1>17, <1>18, <1>19, <1>20
     DEF Next, MainNext, LwsNext

-----------------------------------------------------------------------------
(* The invariant is preserved. *)

\* Only Established, Closed, StopDestroy and ws_cleanup change g_conns.
LEMMA RegisteredStep ==
    ASSUME TypeOK, IdsInv, [Next]_vars
    PROVE  /\ Registered' \subseteq Registered \cup {nextConnId + 1}
           /\ \A s \in Slots : conns'[s] <= nextConnId'
           /\ nextConnId' >= nextConnId
<1>0. /\ nextConnId \in Int
      /\ \A r \in Slots : conns[r] \in Int /\ conns[r] <= nextConnId
  BY DEF TypeOK, DataTypes, IdsInv, NoConn, ConnIds
<1>01. conns \in [Slots -> Int]
  BY DEF TypeOK, DataTypes, NoConn, ConnIds
<1> USE DEF Registered, NoConn
<1>1. CASE Established
  <2>1. nextConnId' = nextConnId + 1
    BY <1>1 DEF Established, ws_next_conn_id
  <2>2. CASE conns' = conns
    BY <1>0, <2>1, <2>2
  <2>3. ASSUME NEW s \in Slots, conns' = [conns EXCEPT ![s] = nextConnId + 1]
        PROVE  /\ Registered' \subseteq Registered \cup {nextConnId + 1}
               /\ \A r \in Slots : conns'[r] <= nextConnId'
    <3>1. \A r \in Slots : conns'[r] = conns[r] \/ conns'[r] = nextConnId + 1
      BY <1>01, <2>3
    <3>2. \A r \in Slots : conns'[r] <= nextConnId'
      BY <1>0, <2>1, <3>1
    <3> QED
      BY <3>1, <3>2
  <2> QED
    BY <1>0, <1>1, <2>1, <2>2, <2>3 DEF Established, ws_next_conn_id, Free
<1>2. ASSUME NEW c \in ConnIds, Closed(c)
      PROVE  /\ Registered' \subseteq Registered \cup {nextConnId + 1}
             /\ \A s \in Slots : conns'[s] <= nextConnId'
             /\ nextConnId' >= nextConnId
  BY <1>0, <1>2 DEF Closed, ws_unregister_conn, TypeOK, DataTypes
<1>3. CASE StopDestroy \/ ws_cleanup
  BY <1>0, <1>3, SMTT(30) DEF StopDestroy, ws_cleanup, TypeOK, DataTypes
<1>4. CASE UNCHANGED <<conns, nextConnId>>
  BY <1>0, <1>4
<1> HIDE DEF Registered, NoConn
<1> QED
  BY <1>1, <1>2, <1>3, <1>4 DEF Next, MainNext, LwsNext, vars, queueVars,
     ws_set_context, RegisterStatusCallback, ws_pop_incoming, ws_send_to,
     MainBroadcast, MainWake, StopBegin, StopUnpublish, Stopped, Receive,
     Writeable, WriteFrame, WriteFails, Recheck, WaitCancelled,
     ws_on_service_cancel, StatusChanged, LwsBroadcast, LwsWake, LwsExit

\* Connections are registered under ids that were handed out.
LEMMA RegisteredIds ==
    ASSUME TypeOK, IdsInv
    PROVE  /\ Registered \subseteq ConnIds
           /\ \A c \in Registered : c <= nextConnId
           /\ {conns[s] : s \in Reached} \subseteq Registered
BY ZenonT(30) DEF TypeOK, DataTypes, IdsInv, Registered, Reached, Occupied

\* A fresh id has no frames and no history.
LEMMA IdsStep ==
    ASSUME TypeOK, IdsInv, ServiceInv, [Next]_vars
    PROVE  IdsInv'
<1>1. \A s \in Slots : conns'[s] <= nextConnId'
  BY RegisteredStep
<1> SUFFICES ASSUME NEW d \in ConnIds, d > nextConnId'
             PROVE  accepted'[d] = <<>> /\ written'[d] = <<>> /\ outgoing'[d] = <<>>
  BY <1>1 DEF IdsInv
<1>2. /\ d > nextConnId
      /\ d \notin Registered
      /\ accepted[d] = <<>> /\ written[d] = <<>> /\ outgoing[d] = <<>>
  <2>1. nextConnId' >= nextConnId /\ nextConnId' \in Int
    <3>1. DataTypes'
      BY DataStep DEF TypeOK
    <3> QED
      BY <3>1, RegisteredStep DEF DataTypes
  <2>2. d > nextConnId /\ d \in Int
    BY <2>1 DEF TypeOK, DataTypes, ConnIds
  <2> QED
    BY <2>2, RegisteredIds, SMTT(30) DEF TypeOK, DataTypes, IdsInv
<1> USE DEF TypeOK, DataTypes
<1>3. ASSUME NEW c \in ConnIds, NEW t \in Texts, ws_send_to(c, t)
      PROVE  accepted'[d] = <<>> /\ written'[d] = <<>> /\ outgoing'[d] = <<>>
  BY <1>2, <1>3 DEF ws_send_to
<1>4. ASSUME NEW t \in Texts, MainBroadcast(t) \/ LwsBroadcast(t)
      PROVE  accepted'[d] = <<>> /\ written'[d] = <<>> /\ outgoing'[d] = <<>>
  BY <1>2, <1>4, RegisteredIds
     DEF MainBroadcast, LwsBroadcast, ws_broadcast_text
<1>5. CASE StopDestroy \/ ws_cleanup
  BY <1>2, <1>5 DEF StopDestroy, ws_cleanup, hist
<1>6. ASSUME NEW c \in ConnIds, Closed(c)
      PROVE  accepted'[d] = <<>> /\ written'[d] = <<>> /\ outgoing'[d] = <<>>
  BY <1>2, <1>6 DEF Closed, ws_unregister_conn, hist
<1>7. ASSUME NEW c \in ConnIds, Writeable(c)
      PROVE  accepted'[d] = <<>> /\ written'[d] = <<>> /\ outgoing'[d] = <<>>
  BY <1>2, <1>7 DEF Writeable, ws_dequeue_outgoing, ServiceInv, hist
<1>8. CASE WriteFrame
  BY <1>2, <1>8 DEF WriteFrame, ServiceInv, queueVars
<1>9. CASE UNCHANGED <<accepted, written, outgoing>>
  BY <1>2, <1>9
<1> HIDE DEF TypeOK, DataTypes
<1> QED
  BY <1>3, <1>4, <1>5, <1>6, <1>7, <1>8, <1>9 DEF Next, MainNext, LwsNext,
     vars, queueVars, hist, ws_set_context, RegisterStatusCallback,
     ws_pop_incoming, MainWake, StopBegin, StopUnpublish, Stopped, Established,
     Receive, WriteFails, Recheck, WaitCancelled, ws_on_service_cancel,
     StatusChanged, LwsWake, LwsExit

\* A new connection takes a free slot and displaces nobody.
LEMMA EstablishedGrows ==
    ASSUME TypeOK, Established
    PROVE  Registered \subseteq Registered'
<1>1. CASE conns' = conns
  BY <1>1 DEF Registered
<1>2. ASSUME NEW s \in Free, conns' = [conns EXCEPT ![s] = ws_next_conn_id]
      PROVE  Registered \subseteq Registered'
  <2>1. \A r \in Slots : conns[r] # NoConn => conns'[r] = conns[r]
    BY <1>2 DEF Free, TypeOK, DataTypes
  <2> QED
    BY <2>1 DEF Registered
<1> QED
  BY <1>1, <1>2 DEF Established

\* A close removes exactly the closed connection.
LEMMA ClosedRemoves ==
    ASSUME TypeOK, NEW c \in ConnIds, Closed(c)
    PROVE  Registered' = Registered \ {c}
BY DEF TypeOK, DataTypes, Closed, ws_unregister_conn, Registered, NoConn, ConnIds

\* The service thread works only for registered connections.
LEMMA ServiceStep ==
    ASSUME TypeOK, LifeInv, ServiceInv, [Next]_vars
    PROVE  ServiceInv'
<1> USE DEF ServiceInv, NoConn
<1>1. CASE StopDestroy
  BY <1>1 DEF StopDestroy, LifeInv
<1>2. CASE ws_cleanup
  BY <1>2 DEF ws_cleanup, LifeInv, lwsVars
<1>3. CASE Established
  BY <1>3, EstablishedGrows DEF Established, LifeInv, lwsVars
<1>4. ASSUME NEW c \in ConnIds, Closed(c) PROVE ServiceInv'
  BY <1>4, ClosedRemoves DEF Closed, LifeInv
<1>5. ASSUME NEW c \in ConnIds, Writeable(c) PROVE ServiceInv'
  BY <1>5 DEF Writeable, ws_dequeue_outgoing, Registered
<1>6. CASE WriteFrame \/ WriteFails \/ Recheck
  BY <1>6 DEF WriteFrame, WriteFails, Recheck, Registered, queueVars, lwsVars,
     LifeInv
<1>7. CASE ws_on_service_cancel
  BY <1>7 DEF ws_on_service_cancel, Registered, queueVars, LifeInv
<1>8. CASE WaitCancelled \/ StatusChanged \/ LwsWake \/ LwsExit
  BY <1>8 DEF WaitCancelled, StatusChanged, LwsWake, LwsExit, Registered,
     queueVars, lwsVars
<1>9. ASSUME NEW t \in Texts, MainBroadcast(t) \/ LwsBroadcast(t)
      PROVE  ServiceInv'
  BY <1>9 DEF MainBroadcast, LwsBroadcast, Registered, lwsVars
<1>10. ASSUME NEW c \in ConnIds, NEW t \in Texts, ws_send_to(c, t)
       PROVE  ServiceInv'
  BY <1>10 DEF ws_send_to, Registered, lwsVars
<1>11. CASE ws_set_context \/ RegisterStatusCallback \/ ws_pop_incoming \/
            MainWake \/ StopBegin \/ StopUnpublish \/ Stopped \/ UNCHANGED vars
  BY <1>11 DEF ws_set_context, RegisterStatusCallback, ws_pop_incoming,
     MainWake, StopBegin, StopUnpublish, Stopped, vars, Registered, queueVars,
     lwsVars
<1>12. ASSUME NEW c \in ConnIds, Receive(c) PROVE ServiceInv'
  BY <1>12 DEF Receive, Registered, lwsVars
<1> HIDE DEF ServiceInv, NoConn
<1> QED
  BY <1>1, <1>2, <1>3, <1>4, <1>5, <1>6, <1>7, <1>8, <1>9, <1>10, <1>11, <1>12
     DEF Next, MainNext, LwsNext

\* No frame is queued for a connection that is gone.
LEMMA OrphanStep ==
    ASSUME TypeOK, IdsInv, ServiceInv, NoOrphanFrames, [Next]_vars
    PROVE  NoOrphanFrames'
<1> USE DEF NoOrphanFrames, TypeOK, DataTypes
<1>1. CASE StopDestroy \/ ws_cleanup
  BY <1>1 DEF StopDestroy, ws_cleanup
<1>2. CASE Established
  BY <1>2, EstablishedGrows DEF Established
<1>3. ASSUME NEW c \in ConnIds, Closed(c) PROVE NoOrphanFrames'
  BY <1>3, ClosedRemoves, ZenonT(30) DEF Closed, ws_unregister_conn
<1>4. ASSUME NEW c \in ConnIds, Writeable(c) PROVE NoOrphanFrames'
  <2>1. Registered' = Registered
    BY <1>4 DEF Writeable, Registered
  <2>2. \A d \in ConnIds : outgoing'[d] # <<>> => outgoing[d] # <<>>
    BY <1>4 DEF Writeable, ws_dequeue_outgoing
  <2> QED
    BY <2>1, <2>2
<1>5. ASSUME NEW c \in ConnIds, NEW t \in Texts, ws_send_to(c, t)
      PROVE  NoOrphanFrames'
  BY <1>5, ZenonT(30) DEF ws_send_to, Registered
<1>6. ASSUME NEW t \in Texts, MainBroadcast(t) \/ LwsBroadcast(t)
      PROVE  NoOrphanFrames'
  <2>1. Registered' = Registered
    BY <1>6 DEF MainBroadcast, LwsBroadcast, Registered
  <2>2. \A c \in ConnIds : c \in {conns[s] : s \in Reached} \/ outgoing'[c] = outgoing[c]
    BY <1>6 DEF MainBroadcast, LwsBroadcast, ws_broadcast_text
  <2> QED
    BY <2>1, <2>2, RegisteredIds
<1>7. CASE UNCHANGED <<conns, outgoing>>
  BY <1>7 DEF Registered
<1> HIDE DEF NoOrphanFrames, TypeOK, DataTypes
<1> QED
  BY <1>1, <1>2, <1>3, <1>4, <1>5, <1>6, <1>7 DEF Next, MainNext, LwsNext,
     vars, queueVars, ws_set_context, RegisterStatusCallback, ws_pop_incoming,
     MainWake, StopBegin, StopUnpublish, Stopped, Receive, WriteFrame,
     WriteFails, Recheck, WaitCancelled, ws_on_service_cancel, StatusChanged,
     LwsWake, LwsExit

\* Nobody forgets a queued frame.
LEMMA WakeupStep ==
    ASSUME TypeOK, LifeInv, IdsInv, ServiceInv, NoLostWakeup, [Next]_vars
    PROVE  NoLostWakeup'
<1> USE DEF NoLostWakeup, TypeOK, DataTypes
<1>1. CASE StopDestroy \/ ws_cleanup
  BY <1>1 DEF StopDestroy, ws_cleanup, Registered
<1>2. CASE Established
  <2>1. \A c \in Registered' : c \in Registered \/ c = nextConnId + 1
    BY RegisteredStep
  <2>2. nextConnId + 1 \in ConnIds => outgoing[nextConnId + 1] = <<>>
    BY DEF IdsInv
  <2>3. nextConnId + 1 \in ConnIds
    BY <1>2 DEF Established, ConnIds
  <2> QED
    BY <1>2, <2>1, <2>2, <2>3 DEF Established, lwsVars
<1>3. ASSUME NEW c \in ConnIds, Closed(c) PROVE NoLostWakeup'
  <2> SUFFICES ASSUME NEW d \in Registered \ {c}, outgoing'[d] # <<>>
               PROVE  \/ pipe' \/ d \in armed' \/ d \in broken'
                      \/ mainPc' = "wake" \/ lwsPc' \in {"collect", "wake"}
                      \/ lwsPc' \in {"write", "recheck"} /\ lwsConn' = d
    BY <1>3, ClosedRemoves
  <2>1. d \in ConnIds
    BY RegisteredIds
  <2>2. outgoing'[d] = outgoing[d]
    BY <1>3, <2>1 DEF Closed, ws_unregister_conn
  <2> QED
    BY <1>3, <2>2 DEF Closed
<1>4. ASSUME NEW c \in ConnIds, Writeable(c) PROVE NoLostWakeup'
  <2>1. Registered' = Registered
    BY <1>4 DEF Writeable, Registered
  <2>2. CASE outgoing[c] = <<>>
    BY <1>4, <2>1, <2>2 DEF Writeable
  <2>3. CASE outgoing[c] # <<>>
    <3>1. lwsConn' = c /\ lwsPc' = "write"
      BY <1>4, <2>3 DEF Writeable
    <3>2. \A d \in ConnIds \ {c} : outgoing'[d] = outgoing[d]
      BY <1>4, <2>3 DEF Writeable, ws_dequeue_outgoing
    <3>3. armed' = armed \ {c} /\ lwsPc = "service" /\ pipe' = pipe
          /\ broken' = broken /\ mainPc' = mainPc
      BY <1>4 DEF Writeable
    <3> QED
      BY <2>1, <3>1, <3>2, <3>3, RegisteredIds
  <2> QED
    BY <2>2, <2>3
<1>5. ASSUME NEW c \in ConnIds, NEW t \in Texts, ws_send_to(c, t)
      PROVE  NoLostWakeup'
  BY <1>5 DEF ws_send_to
<1>6. ASSUME NEW t \in Texts, MainBroadcast(t) \/ LwsBroadcast(t)
      PROVE  NoLostWakeup'
  <2>1. CASE Reached = {}
    BY <1>6, <2>1, SMTT(30)
       DEF MainBroadcast, LwsBroadcast, ws_broadcast_text, Registered, lwsVars
  <2>2. CASE Reached # {}
    BY <1>6, <2>2 DEF MainBroadcast, LwsBroadcast
  <2> QED
    BY <2>1, <2>2
<1>7. CASE MainWake
  BY <1>7 DEF MainWake, ws_wake_service, LifeInv
<1>8. CASE LwsWake
  BY <1>8 DEF LwsWake, ws_wake_service, LifeInv
<1>9. CASE WriteFrame
  BY <1>9 DEF WriteFrame, Registered, queueVars, lwsVars
<1>10. CASE WriteFails
  BY <1>10 DEF WriteFails, Registered, queueVars
<1>11. CASE Recheck
  BY <1>11 DEF Recheck, ws_has_pending_outgoing, Registered, queueVars
<1>12. CASE WaitCancelled
  BY <1>12 DEF WaitCancelled
<1>13. CASE ws_on_service_cancel
  BY <1>13 DEF ws_on_service_cancel, Registered, queueVars
<1>14. CASE StatusChanged
  BY <1>14 DEF StatusChanged, Registered, queueVars, lwsVars
<1>18. CASE LwsExit
  BY <1>18 DEF LwsExit, Registered, queueVars, lwsVars
<1>15. CASE UNCHANGED <<conns, outgoing, pipe, armed, broken, lwsPc, lwsConn>>
            /\ mainPc # "wake"
  BY <1>15 DEF Registered
<1>16. CASE UNCHANGED vars
  BY <1>16 DEF vars, Registered
<1>17. ASSUME NEW c \in ConnIds, Receive(c) PROVE NoLostWakeup'
  BY <1>17 DEF Receive, Registered, lwsVars
<1> HIDE DEF NoLostWakeup, TypeOK, DataTypes
<1> QED
  BY <1>1, <1>2, <1>3, <1>4, <1>5, <1>6, <1>7, <1>8, <1>9, <1>10, <1>11,
     <1>12, <1>13, <1>14, <1>15, <1>16, <1>17, <1>18 DEF Next, MainNext, LwsNext,
     queueVars, lwsVars, ws_set_context, RegisterStatusCallback,
     ws_pop_incoming, StopBegin, StopUnpublish, Stopped

\* What InOrder says of one connection, unprimed and primed.
Prefix(c) ==
    /\ Len(written[c]) <= Len(accepted[c])
    /\ \A i \in 1 .. Len(written[c]) : written[c][i] = accepted[c][i]

Exact(c) ==
    c \in Registered \ broken =>
        accepted[c] = (written[c] \o InFlight(c)) \o outgoing[c]

\* Frames are written in the order in which they were queued.
LEMMA OrderStep ==
    ASSUME TypeOK, IdsInv, ServiceInv, InOrder, [Next]_vars
    PROVE  InOrder'
<1> SUFFICES ASSUME NEW d \in ConnIds PROVE Prefix(d)' /\ Exact(d)'
  BY DEF InOrder, Prefix, Exact
<1>1. Prefix(d) /\ Exact(d)
  BY DEF InOrder, Prefix, Exact
<1>2. /\ outgoing \in [ConnIds -> Seq(Texts)] /\ accepted \in [ConnIds -> Seq(Texts)]
      /\ written \in [ConnIds -> Seq(Texts)] /\ InFlight(d) \in Seq(Texts)
  BY DEF TypeOK, DataTypes, InFlight
<1>3. /\ outgoing[d] \in Seq(Texts) /\ accepted[d] \in Seq(Texts)
      /\ written[d] \in Seq(Texts) /\ written[d] \o InFlight(d) \in Seq(Texts)
  BY <1>2, ConcatProperties
<1>4. CASE UNCHANGED <<conns, outgoing, accepted, written, lwsConn, frame, broken>>
  BY <1>1, <1>4 DEF Prefix, Exact, Registered, InFlight
<1>5. CASE StopDestroy \/ ws_cleanup
  <2>1. Registered' = {}
    BY <1>5 DEF StopDestroy, ws_cleanup, Registered
  <2> QED
    BY <1>1, <1>5, <2>1 DEF StopDestroy, ws_cleanup, Prefix, Exact, hist
<1>6. CASE Established
  <2>1. UNCHANGED <<outgoing, accepted, written, lwsConn, frame, broken>>
        /\ lwsPc = "service"
    BY <1>6 DEF Established, lwsVars, hist
  <2>2. d \in Registered \/ d = nextConnId + 1 \/ d \notin Registered'
    BY RegisteredStep
  <2>3. CASE d \in Registered \/ d \notin Registered'
    BY <1>1, <2>1, <2>3 DEF Prefix, Exact, InFlight
  <2>4. CASE d = nextConnId + 1
    <3>1. accepted[d] = <<>> /\ written[d] = <<>> /\ outgoing[d] = <<>>
      BY <2>4 DEF IdsInv, TypeOK, DataTypes
    <3>2. InFlight(d)' = <<>>
      BY <2>1 DEF InFlight, ServiceInv
    <3> QED
      BY <2>1, <3>1, <3>2 DEF Prefix, Exact
  <2> QED
    BY <2>2, <2>3, <2>4
<1>7. ASSUME NEW c \in ConnIds, Closed(c) PROVE Prefix(d)' /\ Exact(d)'
  <2>1. Registered' = Registered \ {c}
    BY <1>7, ClosedRemoves
  <2>2. d # c => outgoing'[d] = outgoing[d]
    BY <1>2, <1>7 DEF Closed, ws_unregister_conn
  <2> QED
    BY <1>1, <1>7, <2>1, <2>2 DEF Closed, Prefix, Exact, InFlight, hist
<1>8. ASSUME NEW t \in Texts,
             UNCHANGED <<conns, written, lwsConn, frame, broken>>,
             \/ outgoing'[d] = outgoing[d] /\ accepted'[d] = accepted[d]
             \/ outgoing'[d] = Append(outgoing[d], t) /\
                accepted'[d] = Append(accepted[d], t)
      PROVE  Prefix(d)' /\ Exact(d)'
  <2>1. CASE outgoing'[d] = outgoing[d] /\ accepted'[d] = accepted[d]
    BY <1>1, <1>8, <2>1 DEF Prefix, Exact, Registered, InFlight
  <2>2. CASE outgoing'[d] = Append(outgoing[d], t) /\
             accepted'[d] = Append(accepted[d], t)
    <3>1. Prefix(d)'
      BY <1>1, <1>3, <1>8, <2>2 DEF Prefix
    <3>2. Exact(d)'
      <4>1. /\ InFlight(d)' = InFlight(d) /\ written'[d] = written[d]
            /\ Registered' = Registered /\ broken' = broken
        BY <1>8 DEF InFlight, Registered
      <4>2. (written[d] \o InFlight(d)) \o Append(outgoing[d], t)
              = Append((written[d] \o InFlight(d)) \o outgoing[d], t)
        <5>1. \A u, v \in Seq(Texts) : u \o Append(v, t) = Append(u \o v, t)
          BY ConcatAppend
        <5> QED
          BY <1>3, <5>1, Zenon
      <4> QED
        BY <1>1, <2>2, <4>1, <4>2 DEF Exact
    <3> QED
      BY <3>1, <3>2
  <2> QED
    BY <1>8, <2>1, <2>2
<1>9. ASSUME NEW c \in ConnIds, NEW t \in Texts, ws_send_to(c, t)
      PROVE  Prefix(d)' /\ Exact(d)'
  BY <1>2, <1>8, <1>9 DEF ws_send_to, lwsVars
<1>10. ASSUME NEW t \in Texts, MainBroadcast(t) \/ LwsBroadcast(t)
       PROVE  Prefix(d)' /\ Exact(d)'
  BY <1>2, <1>8, <1>10 DEF MainBroadcast, LwsBroadcast, ws_broadcast_text, lwsVars
<1>11. ASSUME NEW c \in ConnIds, Writeable(c) PROVE Prefix(d)' /\ Exact(d)'
  <2>1. lwsPc = "service" /\ UNCHANGED <<conns, accepted, written, broken>>
    BY <1>11 DEF Writeable, hist
  <2>2. InFlight(d) = <<>>
    BY <2>1 DEF InFlight, ServiceInv
  <2>3. CASE outgoing[c] = <<>>
    BY <1>1, <1>11, <2>1, <2>3 DEF Writeable, Prefix, Exact, Registered, InFlight
  <2>4. CASE outgoing[c] # <<>>
    <3>1. /\ outgoing' = [outgoing EXCEPT ![c] = Tail(@)]
          /\ frame' = <<Head(outgoing[c])>>
          /\ lwsConn' = c
      BY <1>11, <2>4 DEF Writeable, ws_dequeue_outgoing
    <3>2. CASE d = c
      <4>1. (written[d] \o frame') \o outgoing'[d] = written[d] \o outgoing[d]
        BY <1>2, <1>3, <2>4, <3>1, <3>2, ConcatHeadTail, SMTT(30)
      <4> QED
        BY <1>1, <1>3, <2>1, <2>2, <3>1, <3>2, <4>1, ConcatEmpty, ZenonT(30)
           DEF Prefix, Exact, Registered, InFlight
    <3>3. CASE d # c
      BY <1>1, <1>2, <2>1, <2>2, <3>1, <3>3
         DEF Prefix, Exact, Registered, InFlight
    <3> QED
      BY <3>2, <3>3
  <2> QED
    BY <2>3, <2>4
<1>12. CASE WriteFrame
  <2>1. /\ UNCHANGED <<conns, outgoing, accepted, broken, lwsConn>>
        /\ frame' = <<>>
        /\ lwsConn \in Registered \ broken
        /\ written' = [written EXCEPT ![lwsConn] = @ \o frame]
    BY <1>12 DEF WriteFrame, ServiceInv, queueVars, lwsVars
  <2>2. InFlight(d)' = <<>>
    BY <2>1 DEF InFlight
  <2>3. CASE d = lwsConn
    <3>1. written'[d] = written[d] \o InFlight(d)
      BY <1>2, <2>1, <2>3 DEF InFlight
    <3>2. accepted[d] = written'[d] \o outgoing[d]
      BY <1>1, <2>1, <2>3, <3>1 DEF Exact
    <3>3. Prefix(d)'
      <4>1. written'[d] \in Seq(Texts) /\ accepted'[d] = written'[d] \o outgoing[d]
        BY <1>3, <2>1, <3>1, <3>2
      <4>2. /\ Len(written'[d]) <= Len(written'[d] \o outgoing[d])
            /\ \A i \in 1 .. Len(written'[d]) :
                  written'[d][i] = (written'[d] \o outgoing[d])[i]
        BY <1>3, <4>1, ConcatPrefix
      <4> QED
        BY <4>1, <4>2 DEF Prefix
    <3>4. Exact(d)'
      BY <1>3, <2>1, <2>2, <3>1, <3>2, ConcatEmpty DEF Exact
    <3> QED
      BY <3>3, <3>4
  <2>4. CASE d # lwsConn
    BY <1>1, <1>2, <2>1, <2>2, <2>4 DEF Prefix, Exact, Registered, InFlight
  <2> QED
    BY <2>3, <2>4
<1>13. CASE WriteFails
  <2>1. /\ UNCHANGED <<conns, outgoing, accepted, written>>
        /\ broken' = broken \cup {lwsConn}
        /\ frame' = <<>>
    BY <1>13 DEF WriteFails, queueVars, hist
  <2> QED
    BY <1>1, <2>1 DEF Prefix, Exact, Registered, InFlight
<1>14. CASE Recheck
  <2>1. /\ UNCHANGED <<conns, outgoing, accepted, written, broken, frame>>
        /\ frame = <<>>
    BY <1>14 DEF Recheck, ServiceInv, queueVars, hist
  <2> QED
    BY <1>1, <2>1 DEF Prefix, Exact, Registered, InFlight
<1> QED
  BY <1>4, <1>5, <1>6, <1>7, <1>9, <1>10, <1>11, <1>12, <1>13, <1>14
     DEF Next, MainNext, LwsNext, vars, queueVars, lwsVars, hist,
     ws_set_context, RegisterStatusCallback, ws_pop_incoming, MainWake,
     StopBegin, StopUnpublish, Stopped, Receive, WaitCancelled,
     ws_on_service_cancel, StatusChanged, LwsWake, LwsExit

-----------------------------------------------------------------------------
(* The theorems. *)

\* The inductive invariant holds in every reachable state.
THEOREM Invariance == Spec => []IInv
<1>1. IInv /\ [Next]_vars => IInv'
  BY LifeStep, DataStep, IdsStep, ServiceStep, OrphanStep, OrderStep, WakeupStep
     DEF IInv, TypeOK
<1> QED
  BY InitIInv, <1>1, PTL DEF Spec

\* Every variable keeps its type and the incoming queue of ws_push_incoming
\* keeps its bound.
THEOREM TypeCorrect == Spec => []TypeOK
BY Invariance, PTL DEF IInv

\* The outgoing queue of ws.c holds frames of live connections only.
THEOREM OrphanFree == Spec => []NoOrphanFrames
BY Invariance, PTL DEF IInv

\* Frames are written to each socket in the order they were queued, none lost
\* and none repeated while the socket works.
THEOREM OrderPreserved == Spec => []InOrder
BY Invariance, PTL DEF IInv

\* A queued frame of a live connection always has a wake-up under way.
THEOREM WakeupsKept == Spec => []NoLostWakeup
BY Invariance, PTL DEF IInv

\* ws_wake_service never touches a destroyed lws context.
THEOREM CancelSafe == Spec => []NoLateCancel
<1>1. IInv => NoLateCancel
  BY DEF IInv, LifeInv, NoLateCancel
<1> QED
  BY Invariance, <1>1, PTL

\* A conn_id is never handed to a second client.
THEOREM IdsFresh == Spec => NoIdReuse
<1>1. IInv /\ [Next]_vars => [(Registered' \ Registered) \cap (1 .. nextConnId) = {}]_vars
  <2> SUFFICES ASSUME IInv, [Next]_vars
               PROVE  (Registered' \ Registered) \cap (1 .. nextConnId) = {}
    OBVIOUS
  <2>1. Registered' \subseteq Registered \cup {nextConnId + 1}
    BY RegisteredStep DEF IInv
  <2>2. nextConnId \in Int
    BY DEF IInv, TypeOK, DataTypes
  <2>3. nextConnId + 1 \notin 1 .. nextConnId
    BY <2>2
  <2> QED
    BY <2>1, <2>3
<1> QED
  BY Invariance, <1>1, PTL DEF Spec, NoIdReuse
=============================================================================
