--------------------------- MODULE DiscordSession ---------------------------
(***************************************************************************)
(* The discord channel (channels/discord.c): the service thread keeps one  *)
(* gateway connection, identifies or resumes on it, puts the messages it   *)
(* routes into a queue and reconnects when the connection goes; the main   *)
(* loop takes messages from the queue and finally stops the thread.        *)
(*                                                                         *)
(* Each callback of libwebsockets is one action of the thread, and so is   *)
(* each pass of its loop that starts a connection or asks for a heartbeat. *)
(* Time is abstract: a deadline may have passed at any pass.  The gateway  *)
(* of Discord is external: it numbers the events of a session, replays     *)
(* those after the number of a RESUME, may end a session, and closes a     *)
(* connection after it sent RECONNECT or INVALID_SESSION (the client only  *)
(* sets a close reason and its callback returns 0).  Memory exhaustion and *)
(* payloads that are not JSON are left out.                                *)
(***************************************************************************)
EXTENDS Integers, Sequences, FiniteSets, SequencesExt

CONSTANTS
    RxMax,        \* RX_MAX, in fragments
    Shapes,       \* the messages there can be: [kind, len in fragments]
    MaxMsgs,      \* bound on the messages ever posted
    MaxFaults,    \* bound on the connections that fail
    MaxOrders,    \* bound on the RECONNECTs and INVALID_SESSIONs of the gateway
    BackoffMax    \* DISCORD_RECONNECT_MAX_MS, in units of the base

ASSUME RxMaxAssumption == RxMax \in Nat \ {0}
ASSUME ShapesAssumption ==
    \A e \in Shapes : e.kind \in {"dm", "mention", "stranger"} /\ e.len \in Nat \ {0}

VARIABLES
    conn,      \* dc->wsi: "none", "connecting" or "open"
    outbound,  \* outbound_connect
    sched,     \* schedule_reconnect
    backoff,   \* reconnect_backoff_ms
    hello,     \* saw_hello
    pend,      \* "resume", "identify" or "no": pending_resume, pending_identify
    hb,        \* pending_periodic_hb
    armed,     \* a writable callback has been asked for
    ready,     \* gateway_ready
    sid,       \* session_id, 0 for NULL
    seq,       \* last_seq
    botId,     \* bot_user_id # NULL
    rx,        \* the fragments in rx_buf
    skip,      \* rx_skip
    queue,     \* q_head .. q_tail
    run,       \* run_service
    thread,    \* the service thread runs
    mainPc,    \* the main thread: "loop", "join" or "stopped"
    wire,      \* fragments on their way from the gateway
    up,        \* the client's frame on its way to the gateway, or <<>>
    srv,       \* the gateway's view: [sid, log, at, live, replay, closing]
    posted,    \* how many messages were posted
    faults,    \* how many connections failed
    orders,    \* how many RECONNECTs and INVALID_SESSIONs were sent
    got        \* history: the numbers of the messages put into the queue

connVars == <<conn, outbound, sched, backoff>>
sessVars == <<sid, seq, botId>>
hsVars == <<hello, pend, hb, armed, ready>>
rxVars == <<rx, skip>>
mainVars == <<queue, run, thread, mainPc>>
netVars == <<wire, up, srv>>
counts == <<posted, faults, orders>>
vars == <<connVars, sessVars, hsVars, rxVars, mainVars, netVars, counts, got>>

\* The payload p cut into its fragments.
Fragments(p) == [i \in 1 .. p.len |-> [of |-> p, i |-> i, final |-> i = p.len]]
Send(p) == wire' = wire \o Fragments(p)

Hello == [op |-> "hello", len |-> 1]
Reconnect == [op |-> "reconnect", len |-> 1]
Invalid(resumable) == [op |-> "invalid", len |-> 1, d |-> resumable]
Ready(s, session) == [op |-> "ready", len |-> 1, s |-> s, session |-> session]
Resumed == [op |-> "resumed", len |-> 1]
Create(s, e) == [op |-> "create", len |-> e.len, s |-> s, m |-> e.m, kind |-> e.kind]

\* discord_init has started the first connection and the thread.
Init ==
    /\ conn = "connecting" /\ outbound = FALSE /\ sched = FALSE /\ backoff = 1
    /\ hello = FALSE /\ pend = "no" /\ hb = FALSE /\ armed = FALSE /\ ready = FALSE
    /\ sid = 0 /\ seq = 0 /\ botId = FALSE
    /\ rx = <<>> /\ skip = FALSE
    /\ queue = <<>> /\ run = TRUE /\ thread = TRUE /\ mainPc = "loop"
    /\ wire = <<>> /\ up = <<>>
    /\ srv = [sid |-> 0, log |-> <<>>, at |-> 0, live |-> FALSE, replay |-> FALSE,
              closing |-> FALSE]
    /\ posted = 0 /\ faults = 0 /\ orders = 0
    /\ got = <<>>

-----------------------------------------------------------------------------
(* The gateway of Discord. *)

\* A user posts; the event is numbered in the session the gateway keeps.
Post ==
    /\ posted < MaxMsgs
    /\ posted' = posted + 1
    /\ srv.log # <<>>
    /\ \E e \in Shapes :
          srv' = [srv EXCEPT !.log = Append(@, [kind |-> e.kind, len |-> e.len, m |-> posted'])]
    /\ UNCHANGED <<connVars, sessVars, hsVars, rxVars, mainVars, wire, up, faults, orders, got>>

\* The gateway sends the next event of the session on a live connection, or
\* sends it again after a RESUME; the first one is READY.
GatewaySends ==
    /\ conn = "open" /\ srv.live /\ ~srv.closing
    /\ srv.at < Len(srv.log)
    /\ srv' = [srv EXCEPT !.at = @ + 1]
    /\ Send(LET e == srv.log[srv.at + 1]
            IN  IF e.kind = "ready" THEN Ready(srv.at + 1, srv.sid)
                ELSE Create(srv.at + 1, e))
    /\ UNCHANGED <<connVars, sessVars, hsVars, rxVars, mainVars, up, counts, got>>

\* IDENTIFY opens a new session, in which everything before it is gone.
GatewayIdentifies ==
    /\ up # <<>> /\ up[1].op = "identify"
    /\ up' = <<>>
    /\ srv' = [sid |-> srv.sid + 1, log |-> <<[kind |-> "ready", len |-> 1, m |-> 0]>>,
               at |-> 0, live |-> TRUE, replay |-> FALSE, closing |-> FALSE]
    /\ UNCHANGED <<connVars, sessVars, hsVars, rxVars, mainVars, wire, counts, got>>

\* RESUME of the session that is kept: the events after the number it carries
\* are to be sent again, then RESUMED.
GatewayResumes ==
    /\ up # <<>> /\ up[1].op = "resume" /\ up[1].sid = srv.sid
    /\ up' = <<>>
    /\ srv' = [srv EXCEPT !.at = up[1].seq, !.live = TRUE, !.replay = TRUE]
    /\ UNCHANGED <<connVars, sessVars, hsVars, rxVars, mainVars, wire, counts, got>>

\* RESUMED follows the last event that is replayed.
GatewayResumed ==
    /\ conn = "open" /\ srv.live /\ srv.replay /\ ~srv.closing
    /\ srv.at = Len(srv.log)
    /\ srv' = [srv EXCEPT !.replay = FALSE]
    /\ Send(Resumed)
    /\ UNCHANGED <<connVars, sessVars, hsVars, rxVars, mainVars, up, counts, got>>

\* RESUME of a session that is gone needs a new IDENTIFY; one that is kept may
\* be put off with a resumable INVALID_SESSION.
GatewayRefuses ==
    /\ up # <<>> /\ up[1].op = "resume"
    /\ up' = <<>>
    /\ \/ up[1].sid # srv.sid /\ Send(Invalid(FALSE)) /\ UNCHANGED orders
       \/ /\ up[1].sid = srv.sid /\ orders < MaxOrders
          /\ orders' = orders + 1
          /\ Send(Invalid(TRUE))
    /\ srv' = [srv EXCEPT !.closing = TRUE]
    /\ UNCHANGED <<connVars, sessVars, hsVars, rxVars, mainVars, posted, faults, got>>

\* The gateway asks for a reconnect (opcode 7).
GatewayReconnects ==
    /\ conn = "open" /\ srv.live /\ ~srv.closing
    /\ orders < MaxOrders
    /\ orders' = orders + 1
    /\ Send(Reconnect)
    /\ srv' = [srv EXCEPT !.closing = TRUE]
    /\ UNCHANGED <<connVars, sessVars, hsVars, rxVars, mainVars, up, posted, faults, got>>

\* A session that is not connected expires.
GatewayForgets ==
    /\ ~srv.live /\ srv.log # <<>>
    /\ orders < MaxOrders
    /\ orders' = orders + 1
    /\ srv' = [srv EXCEPT !.sid = @ + 1, !.log = <<>>]
    /\ UNCHANGED <<connVars, sessVars, hsVars, rxVars, mainVars, wire, up, posted, faults, got>>

-----------------------------------------------------------------------------
(* The callbacks of the service thread. *)

\* Who may talk to the agent, and what is meant for it: a direct message, or a
\* mention in a guild, for which the id of the bot must be known.
discord_helpers_user_in_allowlist(p) == p.kind # "stranger"
discord_helpers_mentions_include_bot(p) == p.kind = "mention" /\ botId
discord_helpers_route_message_create(p) ==
    /\ discord_helpers_user_in_allowlist(p)
    /\ p.kind = "dm" \/ discord_helpers_mentions_include_bot(p)

discord_rx_reset == rx' = <<>> /\ skip' = FALSE

discord_has_resume_state == sid # 0 /\ seq > 0

\* LWS_CALLBACK_CLIENT_ESTABLISHED; the gateway greets with HELLO.
Established ==
    /\ thread /\ conn = "connecting"
    /\ conn' = "open"
    /\ outbound' = FALSE
    /\ sched' = FALSE
    /\ backoff' = 1
    /\ discord_rx_reset
    /\ wire' = Fragments(Hello)
    /\ srv' = [srv EXCEPT !.live = FALSE, !.closing = FALSE]
    /\ UNCHANGED <<sessVars, hsVars, mainVars, up, counts, got>>

\* Mutant: outbound_active is not cleared with the connection.
Mut_ConnectionGone ==
    /\ conn' = "none"
    /\ UNCHANGED outbound
    /\ sched' = (run \/ sched)
    /\ hello' = FALSE /\ pend' = "no" /\ hb' = FALSE /\ armed' = FALSE /\ ready' = FALSE
    /\ wire' = <<>> /\ up' = <<>>

\* What CONNECTION_ERROR and CLOSED leave behind; rx_buf waits for the next
\* connection to reset it.
ConnectionGone ==
    /\ conn' = "none"
    /\ outbound' = FALSE
    /\ sched' = (run \/ sched)
    /\ hello' = FALSE /\ pend' = "no" /\ hb' = FALSE /\ armed' = FALSE /\ ready' = FALSE
    /\ wire' = <<>> /\ up' = <<>>

\* LWS_CALLBACK_CLIENT_CONNECTION_ERROR, or LWS_CALLBACK_CLIENT_CLOSED for a
\* connection that broke: what was on its way is lost.
ConnectionFails ==
    /\ thread /\ conn # "none"
    /\ faults < MaxFaults
    /\ faults' = faults + 1
    /\ ConnectionGone
    /\ srv' = [srv EXCEPT !.live = FALSE, !.replay = FALSE]
    /\ UNCHANGED <<backoff, sessVars, rxVars, mainVars, posted, orders, got>>

\* LWS_CALLBACK_CLIENT_CLOSED for a connection the gateway closes in order.
ConnectionClosed ==
    /\ thread /\ conn = "open" /\ srv.closing /\ wire = <<>>
    /\ ConnectionGone
    /\ srv' = [srv EXCEPT !.live = FALSE, !.replay = FALSE]
    /\ UNCHANGED <<backoff, sessVars, rxVars, mainVars, counts, got>>

discord_queue_enqueue(m) == queue' = Append(queue, m) /\ got' = Append(got, m)

\* Mutant: messages before READY or RESUMED are passed over.
Mut_on_message_create(p) ==
    IF discord_helpers_route_message_create(p) /\ ready
    THEN discord_queue_enqueue(p.m)
    ELSE UNCHANGED <<queue, got>>

\* discord_on_message_create: a message that is routed goes to the queue.
discord_on_message_create(p) ==
    IF discord_helpers_route_message_create(p)
    THEN discord_queue_enqueue(p.m)
    ELSE UNCHANGED <<queue, got>>

\* discord_handle_dispatch: the number of the event is kept first.
discord_handle_dispatch(p) ==
    /\ seq' = IF p.op = "resumed" THEN seq ELSE p.s
    /\ IF p.op = "ready"
       THEN sid' = p.session /\ botId' = TRUE
       ELSE UNCHANGED <<sid, botId>>
    /\ ready' = (ready \/ p.op \in {"ready", "resumed"})
    /\ IF p.op = "create" THEN discord_on_message_create(p) ELSE UNCHANGED <<queue, got>>
    /\ UNCHANGED <<hello, pend, hb, armed, sched>>

\* discord_handle_payload: opcodes 7, 9, 10 and 0.
discord_handle_payload(p) ==
    CASE p.op = "reconnect" ->
            /\ sched' = TRUE
            /\ UNCHANGED <<sessVars, hsVars, queue, got>>
      [] p.op = "invalid" ->
            /\ sid' = IF p.d THEN sid ELSE 0
            /\ seq' = IF p.d THEN seq ELSE 0
            /\ sched' = TRUE
            /\ UNCHANGED <<botId, hsVars, queue, got>>
      [] p.op = "hello" ->
            /\ hello' = TRUE
            /\ pend' = IF discord_has_resume_state THEN "resume" ELSE "identify"
            /\ armed' = TRUE
            /\ UNCHANGED <<hb, ready, sched, sessVars, queue, got>>
      [] OTHER -> discord_handle_dispatch(p)

\* Whether rx_buf has room for one more fragment.
discord_rx_append_fits == Len(rx) < RxMax

\* Mutant: after an overflow the next fragment is taken for a new payload.
Mut_SkipRest(f) == FALSE

\* Whether more fragments of a payload that was given up are to come.
SkipRest(f) == ~f.final

\* LWS_CALLBACK_CLIENT_RECEIVE: fragments are collected up to the final one;
\* a payload above RX_MAX is dropped and the rest of it skipped.
Receive ==
    /\ thread /\ conn = "open" /\ wire # <<>>
    /\ wire' = Tail(wire)
    /\ LET f == Head(wire) IN
       \/ /\ skip
          /\ skip' = ~f.final
          /\ UNCHANGED <<rx, sched, sessVars, hsVars, queue, got>>
       \/ /\ ~skip /\ ~discord_rx_append_fits
          /\ rx' = <<>>
          /\ skip' = SkipRest(f)
          /\ UNCHANGED <<sched, sessVars, hsVars, queue, got>>
       \/ /\ ~skip /\ discord_rx_append_fits /\ ~f.final
          /\ rx' = Append(rx, f)
          /\ UNCHANGED <<skip, sched, sessVars, hsVars, queue, got>>
       \/ /\ ~skip /\ discord_rx_append_fits /\ f.final
          /\ discord_handle_payload(Append(rx, f)[1].of)
          /\ discord_rx_reset
    /\ UNCHANGED <<conn, outbound, backoff, run, thread, mainPc, up, srv, counts>>

\* The frames of the client.
\* Mutant: the session is resumed from the message before the last.
Mut_build_resume == [op |-> "resume", sid |-> sid, seq |-> seq - 1]

discord_build_identify == [op |-> "identify"]
discord_build_resume == [op |-> "resume", sid |-> sid, seq |-> seq]
discord_send_json(f) == up' = <<f>>

\* LWS_CALLBACK_CLIENT_WRITEABLE: RESUME while there is still a session to
\* resume, otherwise IDENTIFY at the next callback; then the heartbeat.
Writeable ==
    /\ thread /\ conn = "open" /\ armed
    /\ \/ /\ pend = "resume" /\ hello /\ discord_has_resume_state
          /\ pend' = "no"
          /\ discord_send_json(discord_build_resume)
          /\ armed' = FALSE
       \/ /\ pend = "resume" /\ hello /\ ~discord_has_resume_state
          /\ pend' = "identify"
          /\ armed' = TRUE
          /\ UNCHANGED up
       \/ /\ pend = "identify" /\ hello
          /\ pend' = "no"
          /\ discord_send_json(discord_build_identify)
          /\ armed' = FALSE
       \/ /\ pend = "no"
          /\ armed' = FALSE
          /\ UNCHANGED <<pend, up>>
    /\ hb' = FALSE
    /\ UNCHANGED <<connVars, sessVars, hello, ready, rxVars, mainVars, wire, srv, counts, got>>

-----------------------------------------------------------------------------
(* The loop of the service thread. *)

CanReconnect == thread /\ run /\ sched /\ conn = "none" /\ ~outbound

\* discord_start_client_connect succeeds: wsi is set while it connects.
StartConnect ==
    /\ CanReconnect
    /\ conn' = "connecting"
    /\ outbound' = TRUE
    /\ UNCHANGED <<sched, backoff, sessVars, hsVars, rxVars, mainVars, netVars, counts, got>>

\* It fails to start: the wait for the next attempt is doubled up to the limit.
StartFails ==
    /\ CanReconnect
    /\ faults < MaxFaults
    /\ faults' = faults + 1
    /\ backoff' = IF backoff * 2 > BackoffMax THEN BackoffMax ELSE backoff * 2
    /\ UNCHANGED <<conn, outbound, sched, sessVars, hsVars, rxVars, mainVars, netVars,
                   posted, orders, got>>

\* The interval of the heartbeat has passed.
AskHeartbeat ==
    /\ thread /\ run /\ conn # "none" /\ hello /\ ~hb
    /\ hb' = TRUE
    /\ armed' = TRUE
    /\ UNCHANGED <<connVars, sessVars, hello, pend, ready, rxVars, mainVars, netVars, counts, got>>

\* The loop ends when run_service has been cleared.
ThreadExits ==
    /\ thread /\ ~run
    /\ thread' = FALSE
    /\ UNCHANGED <<connVars, sessVars, hsVars, rxVars, queue, run, mainPc, netVars, counts, got>>

-----------------------------------------------------------------------------
(* The main thread. *)

\* discord_poll takes the head of the queue.
discord_poll ==
    /\ mainPc = "loop" /\ queue # <<>>
    /\ queue' = Tail(queue)
    /\ UNCHANGED <<connVars, sessVars, hsVars, rxVars, run, thread, mainPc, netVars, counts, got>>

\* discord_cleanup: the flag is cleared and the queue emptied before the join.
CleanupBegin ==
    /\ mainPc = "loop"
    /\ run' = FALSE
    /\ queue' = <<>>
    /\ mainPc' = "join"
    /\ UNCHANGED <<connVars, sessVars, hsVars, rxVars, thread, netVars, counts, got>>

CleanupEnd ==
    /\ mainPc = "join" /\ ~thread
    /\ mainPc' = "stopped"
    /\ sid' = 0 /\ botId' = FALSE
    /\ rx' = <<>>
    /\ UNCHANGED <<connVars, seq, hsVars, skip, queue, run, thread, netVars, counts, got>>

\* What discord_status_snapshot_fill reports of an enabled channel.
discord_status_snapshot_fill ==
    CASE mainPc # "loop" -> "disconnected"
      [] mainPc = "loop" /\ ready -> "connected"
      [] mainPc = "loop" /\ ~ready /\ sched -> "reconnecting"
      [] OTHER -> "connecting"

Next ==
    \/ Post \/ GatewaySends \/ GatewayIdentifies \/ GatewayResumes \/ GatewayResumed
    \/ GatewayRefuses \/ GatewayReconnects \/ GatewayForgets
    \/ Established \/ ConnectionFails \/ ConnectionClosed \/ Receive \/ Writeable
    \/ StartConnect \/ StartFails \/ AskHeartbeat \/ ThreadExits
    \/ discord_poll \/ CleanupBegin \/ CleanupEnd

Spec == Init /\ [][Next]_vars

-----------------------------------------------------------------------------
(* Properties. *)

\* rx_buf only ever holds fragments of one payload, in their order: after an
\* oversized payload, a skipped rest or a connection that broke in the middle,
\* discord_handle_payload is never given a payload put together from two.
NoSplice ==
    \A i \in DOMAIN rx : rx[i].i = i /\ rx[i].of = rx[1].of

\* Through lost connections and resumes, every message of the session up to
\* the number that the next RESUME will carry was put into the queue, if it
\* fits into rx_buf and is routed: none is passed over for ever.
NothingMissed ==
    sid # 0 /\ sid = srv.sid =>
        \A i \in 1 .. seq :
            LET e == srv.log[i]
            IN  e.kind \in {"dm", "mention"} /\ e.len <= RxMax
                    => e.m \in ToSet(got)

\* The queue is an Inbox: through replays after a RESUME, new sessions and
\* stopping, no message is queued twice or after a later one, and the main
\* loop takes them in order.
Numbered == INSTANCE Inbox WITH last <- IF got = <<>> THEN 0 ELSE Last(got)
InboxKept == Numbered!Spec
=============================================================================
