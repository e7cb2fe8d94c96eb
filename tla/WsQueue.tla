------------------------------ MODULE WsQueue ------------------------------
(***************************************************************************)
(* The WebSocket queues of the gateway (gateway/ws.c), the libwebsockets   *)
(* callbacks that fill and drain them (gateway/http_lws.c), the life of    *)
(* the service thread (gateway/http.c) and the webchat channel that polls  *)
(* and sends through them (channels/webchat.c).                            *)
(*                                                                         *)
(* Two threads run.  The main thread starts the gateway, polls the         *)
(* incoming queue, sends replies, broadcasts provider status and finally   *)
(* stops the gateway.  The service thread runs lws_service in a loop and   *)
(* gets every socket callback.  A critical section of g_mutex is one       *)
(* action; what a thread does after it releases g_mutex is another.        *)
(*                                                                         *)
(* The shared outgoing list is kept per connection: every reader of the    *)
(* list filters it by conn_id, so the order between two connections is     *)
(* never observed, and g_outgoing_count is a variable of its own.  Memory  *)
(* exhaustion (malloc, strdup returning NULL) is left out.                 *)
(***************************************************************************)
EXTENDS Integers, Sequences, FiniteSets

CONSTANTS
    MaxConnections,   \* MAX_CONNECTIONS: entries of g_conns
    MaxQueue,         \* MAX_QUEUE: bound of each of the two queues
    Texts,            \* the texts of the frames sent to clients
    MaxConnIds,       \* bound on how many clients ever connect
    MaxSends,         \* bound on the sends and broadcasts ever made
    MaxReceives       \* bound on the client messages ever received

ASSUME ConnectionsAssumption == MaxConnections \in Nat \ {0}
ASSUME QueueAssumption == MaxQueue \in Nat \ {0}
ASSUME ConnIdsAssumption == MaxConnIds \in Nat
ASSUME SendsAssumption == MaxSends \in Nat
ASSUME ReceivesAssumption == MaxReceives \in Nat

VARIABLES
    conns,       \* g_conns: slot -> conn_id, NoConn when wsi is NULL
    nextConnId,  \* g_next_conn_id
    incoming,    \* g_queue_head .. g_queue_tail: the sender of each message
    outgoing,    \* the frames of g_outgoing_head .. of each connection
    outCount,    \* g_outgoing_count
    wsShutdown,  \* g_ws_shutdown
    published,   \* g_lws_ctx # NULL
    ctxUp,       \* the lws_context has been created and not destroyed
    running,     \* g_ctx->running
    statusCb,    \* g_status_changed_cb is http_emit_ws_provider_status
    pipe,        \* a byte of lws_cancel_service waits in the event pipe
    armed,       \* connections with a writable callback requested
    broken,      \* connections on which lws_write has failed
    mainPc,      \* where the main thread is
    lwsPc,       \* where the service thread is
    lwsConn,     \* the connection ws_on_writable is working for
    frame,       \* the frame ws_on_writable took off the queue, or <<>>
    receives,    \* how many client messages were received
    sends,       \* how many sends and broadcasts were made
    accepted,    \* history: frames queued for each connection, in order
    written      \* history: frames handed to each socket, in order

\* The state ws.c guards with g_mutex.
queueVars == <<conns, incoming, outgoing, outCount>>
\* The state of the libwebsockets context.
lwsVars == <<pipe, armed, broken>>
\* What the model counts and records.
hist == <<receives, sends, accepted, written>>
\* The life cycle of the gateway.
lifeVars == <<wsShutdown, published, ctxUp, running, statusCb>>
vars == <<conns, nextConnId, incoming, outgoing, outCount, wsShutdown,
          published, ctxUp, running, statusCb, pipe, armed, broken, mainPc,
          lwsPc, lwsConn, frame, receives, sends, accepted,
          written>>

Slots == 1 .. MaxConnections
ConnIds == 1 .. MaxConnIds
NoConn == 0

\* Connections that have an entry with a wsi in g_conns.
Registered == {conns[s] : s \in Slots} \ {NoConn}
Occupied == {s \in Slots : conns[s] # NoConn}
Free == {s \in Slots : conns[s] = NoConn}

Init ==
    /\ conns = [s \in Slots |-> NoConn]
    /\ nextConnId = 0
    /\ incoming = <<>>
    /\ outgoing = [c \in ConnIds |-> <<>>]
    /\ outCount = 0
    /\ wsShutdown = FALSE
    /\ published = FALSE
    /\ ctxUp = TRUE
    /\ running = TRUE
    /\ statusCb = FALSE
    /\ pipe = FALSE
    /\ armed = {}
    /\ broken = {}
    /\ mainPc = "publish"
    /\ lwsPc = "service"
    /\ lwsConn = NoConn
    /\ frame = <<>>
    /\ receives = 0
    /\ sends = 0
    /\ accepted = [c \in ConnIds |-> <<>>]
    /\ written = [c \in ConnIds |-> <<>>]

-----------------------------------------------------------------------------
(* The main thread. *)

\* The tail of http_start: g_lws_ctx is set once the thread runs.
ws_set_context ==
    /\ mainPc = "publish"
    /\ published' = TRUE
    /\ mainPc' = "register"
    /\ UNCHANGED <<queueVars, nextConnId, wsShutdown, ctxUp, running, statusCb,
                   lwsVars, lwsPc, lwsConn, frame, hist>>

\* init_subsystems registers the broadcast callback after http_start.
RegisterStatusCallback ==
    /\ mainPc = "register"
    /\ statusCb' = TRUE
    /\ mainPc' = "idle"
    /\ UNCHANGED <<queueVars, nextConnId, wsShutdown, published, ctxUp, running,
                   lwsVars, lwsPc, lwsConn, frame, hist>>

\* ws_pop_incoming with a message queued.  With none it returns 0 when the
\* timed wait ends, which changes nothing.
ws_pop_incoming ==
    /\ mainPc = "idle"
    /\ incoming # <<>>
    /\ ~wsShutdown
    /\ incoming' = Tail(incoming)
    /\ UNCHANGED <<conns, nextConnId, outgoing, outCount, lifeVars, lwsVars,
                   mainPc, lwsPc, lwsConn, frame, hist>>

\* The critical section of ws_send_to.  Its early returns, 0 for a connection
\* with no live socket and -1 for a full queue, change nothing.
ws_send_to(c, t) ==
    /\ mainPc = "idle"
    /\ c \in Registered
    /\ outCount < MaxQueue
    /\ sends < MaxSends
    /\ sends' = sends + 1
    /\ outgoing' = [outgoing EXCEPT ![c] = Append(@, t)]
    /\ accepted' = [accepted EXCEPT ![c] = Append(@, t)]
    /\ outCount' = outCount + 1
    /\ mainPc' = "wake"
    /\ UNCHANGED <<conns, nextConnId, incoming, lifeVars, lwsVars, lwsPc,
                   lwsConn, frame, receives, written>>

\* ws_broadcast_text walks g_conns in slot order and stops when the queue is
\* full: the slots that still get their frame.
Reached ==
    {s \in Occupied :
        outCount + Cardinality({r \in Occupied : r < s}) < MaxQueue}

\* The critical section of ws_broadcast_text; the caller wakes the service
\* thread afterwards if a frame was queued.
ws_broadcast_text(t) ==
    LET to == {conns[s] : s \in Reached}
    IN  /\ outgoing' = [c \in ConnIds |->
                IF c \in to THEN Append(outgoing[c], t) ELSE outgoing[c]]
        /\ accepted' = [c \in ConnIds |->
                IF c \in to THEN Append(accepted[c], t) ELSE accepted[c]]
        /\ outCount' = outCount + Cardinality(Reached)

\* A provider change seen by the main thread.
MainBroadcast(t) ==
    /\ mainPc = "idle"
    /\ statusCb
    /\ sends < MaxSends
    /\ sends' = sends + 1
    /\ ws_broadcast_text(t)
    /\ mainPc' = IF Reached # {} THEN "wake" ELSE "idle"
    /\ UNCHANGED <<conns, nextConnId, incoming, lifeVars, lwsVars, lwsPc,
                   lwsConn, frame, receives, written>>

\* Mutant: the wake-up call is forgotten.
Mut_wake_service == pipe' = pipe

\* The critical section of ws_wake_service.
ws_wake_service == pipe' = (pipe \/ published)

MainWake ==
    /\ mainPc = "wake"
    /\ ws_wake_service
    /\ mainPc' = "idle"
    /\ UNCHANGED <<queueVars, nextConnId, lifeVars, armed, broken, lwsPc,
                   lwsConn, frame, hist>>

\* Mutant: the service thread is never told to leave its loop.
Mut_StopBegin ==
    /\ mainPc = "idle"
    /\ statusCb' = FALSE
    /\ wsShutdown' = TRUE
    /\ mainPc' = "join"
    /\ UNCHANGED <<queueVars, nextConnId, published, ctxUp, running, lwsVars,
                   lwsPc, lwsConn, frame, hist>>

\* http_stop up to the join: callback dropped, running cleared, waiters told.
StopBegin ==
    /\ mainPc = "idle"
    /\ statusCb' = FALSE
    /\ running' = FALSE
    /\ wsShutdown' = TRUE
    /\ mainPc' = "join"
    /\ UNCHANGED <<queueVars, nextConnId, published, ctxUp, lwsVars, lwsPc,
                   lwsConn, frame, hist>>

\* Mutant: the context pointer is left in place before the destroy.
Mut_StopUnpublish ==
    /\ mainPc = "join"
    /\ lwsPc = "exited"
    /\ mainPc' = "destroy"
    /\ UNCHANGED <<queueVars, nextConnId, lifeVars, lwsVars, lwsPc, lwsConn,
                   frame, hist>>

\* pthread_join, then ws_set_context(NULL).
StopUnpublish ==
    /\ mainPc = "join"
    /\ lwsPc = "exited"
    /\ published' = FALSE
    /\ mainPc' = "destroy"
    /\ UNCHANGED <<queueVars, nextConnId, wsShutdown, ctxUp, running, statusCb,
                   lwsVars, lwsPc, lwsConn, frame, hist>>

\* lws_context_destroy closes each socket: its CLOSED callback unregisters the
\* connection and drops its frames.
StopDestroy ==
    /\ mainPc = "destroy"
    /\ ctxUp' = FALSE
    /\ conns' = [s \in Slots |-> NoConn]
    /\ outgoing' = [c \in ConnIds |->
            IF c \in Registered THEN <<>> ELSE outgoing[c]]
    /\ outCount' = 0
    /\ armed' = {}
    /\ broken' = {}
    /\ pipe' = FALSE
    /\ mainPc' = "cleanup"
    /\ UNCHANGED <<nextConnId, incoming, wsShutdown, published, running,
                   statusCb, lwsPc, lwsConn, frame, hist>>

\* ws_cleanup empties both queues and the connection table.
ws_cleanup ==
    /\ mainPc = "cleanup"
    /\ incoming' = <<>>
    /\ outgoing' = [c \in ConnIds |-> <<>>]
    /\ outCount' = 0
    /\ conns' = [s \in Slots |-> NoConn]
    /\ mainPc' = "stopped"
    /\ UNCHANGED <<nextConnId, lifeVars, lwsVars, lwsPc, lwsConn, frame,
                   hist>>

-----------------------------------------------------------------------------
(* The service thread: callbacks of ws_callback. *)

\* atomic_fetch_add(&g_next_conn_id, 1) + 1
ws_next_conn_id == nextConnId + 1

\* ESTABLISHED: ws_next_conn_id and ws_register_conn in the first free slot.
\* A full table closes the socket again (the callback returns -1).
Established ==
    /\ lwsPc = "service"
    /\ nextConnId < MaxConnIds
    /\ nextConnId' = ws_next_conn_id
    /\ \/ \E s \in Free :
            /\ \A r \in Free : s <= r
            /\ conns' = [conns EXCEPT ![s] = ws_next_conn_id]
       \/ /\ Free = {}
          /\ conns' = conns
    /\ UNCHANGED <<incoming, outgoing, outCount, lifeVars, lwsVars, mainPc,
                   lwsPc, lwsConn, frame, hist>>

\* ws_push_incoming has room for one more message.
IncomingRoom == Len(incoming) < MaxQueue

\* RECEIVE with a well-formed message: ws_push_incoming, which drops the text
\* when the queue is full.  A malformed frame changes nothing.
Receive(c) ==
    /\ lwsPc = "service"
    /\ c \in Registered
    /\ receives < MaxReceives
    /\ receives' = receives + 1
    /\ incoming' = IF IncomingRoom
                   THEN Append(incoming, c)
                   ELSE incoming
    /\ UNCHANGED <<conns, nextConnId, outgoing, outCount, lifeVars, lwsVars,
                   mainPc, lwsPc, lwsConn, frame, sends, accepted, written>>

\* Mutant: the frames of the closed connection stay in the queue.
Mut_unregister_keeps_frames(c) ==
    /\ conns' = [s \in Slots |-> IF conns[s] = c THEN NoConn ELSE conns[s]]
    /\ UNCHANGED <<outgoing, outCount>>

\* CLOSED: ws_unregister_conn frees the slot and drops the queued frames.
ws_unregister_conn(c) ==
    /\ conns' = [s \in Slots |-> IF conns[s] = c THEN NoConn ELSE conns[s]]
    /\ outgoing' = [outgoing EXCEPT ![c] = <<>>]
    /\ outCount' = outCount - Len(outgoing[c])

Closed(c) ==
    /\ lwsPc = "service"
    /\ c \in Registered
    /\ ws_unregister_conn(c)
    /\ armed' = armed \ {c}
    /\ broken' = broken \ {c}
    /\ UNCHANGED <<nextConnId, incoming, lifeVars, pipe, mainPc, lwsPc,
                   lwsConn, frame, hist>>

\* Mutant: the scan goes on and takes the newest frame.
Mut_dequeue_outgoing(c) ==
    /\ frame' = <<outgoing[c][Len(outgoing[c])]>>
    /\ outgoing' = [outgoing EXCEPT ![c] = SubSeq(@, 1, Len(@) - 1)]
    /\ outCount' = outCount - 1

\* ws_dequeue_outgoing takes the oldest frame of the connection.
ws_dequeue_outgoing(c) ==
    /\ frame' = <<Head(outgoing[c])>>
    /\ outgoing' = [outgoing EXCEPT ![c] = Tail(@)]
    /\ outCount' = outCount - 1

\* SERVER_WRITEABLE, up to the call of lws_write.
Writeable(c) ==
    /\ lwsPc = "service"
    /\ c \in armed
    /\ armed' = armed \ {c}
    /\ \/ /\ outgoing[c] = <<>>
          /\ UNCHANGED <<outgoing, outCount, lwsPc, lwsConn, frame>>
       \/ /\ outgoing[c] # <<>>
          /\ ws_dequeue_outgoing(c)
          /\ lwsConn' = c
          /\ lwsPc' = "write"
    /\ UNCHANGED <<conns, nextConnId, incoming, lifeVars, pipe, broken, mainPc,
                   hist>>

\* lws_write succeeds.
WriteFrame ==
    /\ lwsPc = "write"
    /\ lwsConn \notin broken
    /\ written' = [written EXCEPT ![lwsConn] = @ \o frame]
    /\ frame' = <<>>
    /\ lwsPc' = "recheck"
    /\ UNCHANGED <<queueVars, nextConnId, lifeVars, lwsVars, mainPc, lwsConn,
                   receives, sends, accepted>>

\* lws_write fails: ws_on_writable returns and does not ask for another
\* callback; libwebsockets will close the socket.
WriteFails ==
    /\ lwsPc = "write"
    /\ broken' = broken \cup {lwsConn}
    /\ frame' = <<>>
    /\ lwsConn' = NoConn
    /\ lwsPc' = "service"
    /\ UNCHANGED <<queueVars, nextConnId, lifeVars, pipe, armed, mainPc, hist>>

\* Mutant: one frame per writable request, nothing asks for the next.
Mut_has_pending_outgoing(c) == FALSE

ws_has_pending_outgoing(c) == outgoing[c] # <<>>

\* The end of ws_on_writable: another writable request if there is more.
Recheck ==
    /\ lwsPc = "recheck"
    /\ armed' = IF ws_has_pending_outgoing(lwsConn)
                THEN armed \cup {lwsConn} ELSE armed
    /\ lwsConn' = NoConn
    /\ lwsPc' = "service"
    /\ UNCHANGED <<queueVars, nextConnId, lifeVars, pipe, broken, mainPc,
                   frame, hist>>

\* EVENT_WAIT_CANCELLED: libwebsockets empties the pipe, then calls back.
WaitCancelled ==
    /\ lwsPc = "service"
    /\ pipe
    /\ pipe' = FALSE
    /\ lwsPc' = "collect"
    /\ UNCHANGED <<queueVars, nextConnId, lifeVars, armed, broken, mainPc,
                   lwsConn, frame, hist>>

\* ws_on_service_cancel: ask for a writable callback on every registered
\* connection that has a frame queued.
ws_on_service_cancel ==
    /\ lwsPc = "collect"
    /\ armed' = armed \cup {c \in Registered : outgoing[c] # <<>>}
    /\ lwsPc' = "service"
    /\ UNCHANGED <<queueVars, nextConnId, lifeVars, pipe, broken, mainPc,
                   lwsConn, frame, hist>>

\* A provider change seen by a request handler: the callback is read here and
\* called later, when http_stop may already have dropped it.
StatusChanged ==
    /\ lwsPc = "service"
    /\ statusCb
    /\ sends < MaxSends
    /\ sends' = sends + 1
    /\ lwsPc' = "notify"
    /\ UNCHANGED <<queueVars, nextConnId, lifeVars, lwsVars, mainPc, lwsConn,
                   frame, receives, accepted, written>>

LwsBroadcast(t) ==
    /\ lwsPc = "notify"
    /\ ws_broadcast_text(t)
    /\ lwsPc' = IF Reached # {} THEN "wake" ELSE "service"
    /\ UNCHANGED <<conns, nextConnId, incoming, lifeVars, lwsVars, mainPc,
                   lwsConn, frame, receives, sends, written>>

LwsWake ==
    /\ lwsPc = "wake"
    /\ ws_wake_service
    /\ lwsPc' = "service"
    /\ UNCHANGED <<queueVars, nextConnId, lifeVars, armed, broken, mainPc,
                   lwsConn, frame, hist>>

\* http_thread_fn leaves its loop.  The flag is read between two calls of
\* lws_service, so callbacks of the current call still run after it is cleared.
LwsExit ==
    /\ lwsPc = "service"
    /\ ~running
    /\ lwsPc' = "exited"
    /\ UNCHANGED <<queueVars, nextConnId, lifeVars, lwsVars, mainPc, lwsConn,
                   frame, hist>>

-----------------------------------------------------------------------------
\* The process after the gateway is gone.
Stopped ==
    /\ mainPc = "stopped"
    /\ UNCHANGED vars

MainNext ==
    \/ ws_set_context
    \/ RegisterStatusCallback
    \/ ws_pop_incoming
    \/ \E c \in ConnIds, t \in Texts : ws_send_to(c, t)
    \/ \E t \in Texts : MainBroadcast(t)
    \/ MainWake
    \/ StopBegin
    \/ StopUnpublish
    \/ StopDestroy
    \/ ws_cleanup
    \/ Stopped

LwsNext ==
    \/ Established
    \/ \E c \in ConnIds : Receive(c)
    \/ \E c \in ConnIds : Closed(c)
    \/ \E c \in ConnIds : Writeable(c)
    \/ WriteFrame
    \/ WriteFails
    \/ Recheck
    \/ WaitCancelled
    \/ ws_on_service_cancel
    \/ StatusChanged
    \/ \E t \in Texts : LwsBroadcast(t)
    \/ LwsWake
    \/ LwsExit

Next == MainNext \/ LwsNext

Spec == Init /\ [][Next]_vars

\* Each thread goes on with what it has begun.  lws_service serves every
\* descriptor that poll reports, so no socket and no wake-up byte waits for
\* ever behind the others; the client of an armed connection reads, and
\* libwebsockets closes a socket whose write failed.
Fairness ==
    /\ WF_vars(MainWake)
    /\ WF_vars(StopUnpublish)
    /\ WF_vars(StopDestroy)
    /\ WF_vars(ws_cleanup)
    /\ WF_vars(WriteFrame \/ WriteFails)
    /\ WF_vars(Recheck)
    /\ WF_vars(ws_on_service_cancel)
    /\ WF_vars(\E t \in Texts : LwsBroadcast(t))
    /\ WF_vars(LwsWake)
    /\ WF_vars(LwsExit)
    /\ SF_vars(WaitCancelled)
    /\ \A c \in ConnIds : SF_vars(Writeable(c))
    /\ \A c \in ConnIds : SF_vars(c \in broken /\ Closed(c))

FairSpec == Spec /\ Fairness

-----------------------------------------------------------------------------
(* Properties. *)

\* The types of the flags.
FlagTypes ==
    /\ wsShutdown \in BOOLEAN
    /\ published \in BOOLEAN
    /\ ctxUp \in BOOLEAN
    /\ running \in BOOLEAN
    /\ statusCb \in BOOLEAN
    /\ pipe \in BOOLEAN

\* The types of the rest of the state.
DataTypes ==
    /\ conns \in [Slots -> {NoConn} \cup ConnIds]
    /\ nextConnId \in 0 .. MaxConnIds
    /\ incoming \in Seq(ConnIds)
    /\ Len(incoming) <= MaxQueue
    /\ outgoing \in [ConnIds -> Seq(Texts)]
    /\ outCount \in Int
    /\ armed \in SUBSET ConnIds
    /\ broken \in SUBSET ConnIds
    /\ mainPc \in {"publish", "register", "idle", "wake", "join", "destroy",
                   "cleanup", "stopped"}
    /\ lwsPc \in {"service", "write", "recheck", "collect", "notify", "wake",
                  "exited"}
    /\ lwsConn \in {NoConn} \cup ConnIds
    /\ frame \in Seq(Texts)
    /\ receives \in 0 .. MaxReceives
    /\ sends \in 0 .. MaxSends
    /\ accepted \in [ConnIds -> Seq(Texts)]
    /\ written \in [ConnIds -> Seq(Texts)]

\* Every variable has its type; the incoming queue never exceeds MAX_QUEUE.
TypeOK == FlagTypes /\ DataTypes

\* A frame is queued only for a connection that is in g_conns: the comments of
\* ws_send_to and ws_unregister_conn say that a frame with no live socket
\* would stay in the shared queue until restart.
NoOrphanFrames ==
    \A c \in ConnIds : outgoing[c] # <<>> => c \in Registered

\* What ws_on_writable has taken off the queue and not yet written.
InFlight(c) == IF lwsConn = c THEN frame ELSE <<>>

\* Frames reach a socket in the order ws_send_to and ws_broadcast_text queued
\* them, none lost, none twice, whatever the two threads do in between; after
\* a failed lws_write or the close, what was written is a prefix.
InOrder ==
    \A c \in ConnIds :
        /\ Len(written[c]) <= Len(accepted[c])
        /\ \A i \in 1 .. Len(written[c]) : written[c][i] = accepted[c][i]
        /\ c \in Registered \ broken =>
              accepted[c] = (written[c] \o InFlight(c)) \o outgoing[c]

\* No wake-up is lost between enqueue, lws_cancel_service and the writable
\* callback: when a live connection has a frame queued, something that leads
\* to its being written is under way.
NoLostWakeup ==
    \A c \in Registered :
        outgoing[c] # <<>> =>
            \/ pipe
            \/ c \in armed
            \/ c \in broken
            \/ mainPc = "wake"
            \/ lwsPc \in {"collect", "wake"}
            \/ lwsPc \in {"write", "recheck"} /\ lwsConn = c

\* lws_cancel_service is never called on a destroyed context: http_stop drops
\* the pointer before lws_context_destroy, and only after the join.
NoLateCancel ==
    /\ published => ctxUp
    /\ ~ctxUp => lwsPc = "exited"

\* A conn_id is never given to a second client, so a reply to a closed webchat
\* session cannot reach somebody else.
NoIdReuse == [][(Registered' \ Registered) \cap (1 .. nextConnId) = {}]_vars

\* A frame that was accepted is written in the end, unless its connection is
\* closed or the gateway stops.
EventuallyWritten ==
    \A c \in ConnIds : \A n \in 1 .. MaxSends :
        Len(accepted[c]) >= n ~>
            \/ Len(written[c]) >= n
            \/ c \notin Registered
            \/ ~running

\* http_stop returns: the service thread leaves its loop whatever it was doing.
GatewayStops == mainPc = "join" ~> mainPc = "stopped"
=============================================================================
