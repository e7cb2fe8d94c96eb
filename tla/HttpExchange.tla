---------------------------- MODULE HttpExchange ----------------------------
(***************************************************************************)
(* One keep-alive connection of the HTTP server (http_callback of          *)
(* gateway/http_lws.c, gateway/asap_http_body.c): a request is             *)
(* authorised, its body collected and dispatched, the answer written in    *)
(* chunks.  libwebsockets is external: it hands over the body in fragments *)
(* (never more than Content-Length), may leave out the completion callback *)
(* of a body whose length was given (the code says so), calls back once    *)
(* for a writable request and may close the connection at any time.        *)
(* Lengths are in units.  Memory exhaustion is left out.                   *)
(***************************************************************************)
EXTENDS Integers, Sequences

CONSTANTS
    Requests,     \* [uri, method, token, cl, len]: cl is Content-Length, -1 for none
    BufSize,      \* BODY_BUF_SIZE
    BodyMax,      \* ASAP_BODY_MAX
    ChunkSize,    \* the 4096 of a write
    AnswerLens,   \* lengths of an answer
    FileLen,      \* length of a static file
    MaxRequests   \* bound on the requests of the connection

NoConn == [kind |-> "none"]

VARIABLES
    req,       \* the request libwebsockets is reading
    conn,      \* the http_conn_t of the connection, or NoConn
    toCome,    \* units of the body that have not been handed over
    armed,     \* lws_callback_on_writable was called
    reqs,      \* how many requests there were
    calls      \* history: the dispatches of this request, [body, code]

httpVars == <<req, conn, toCome, armed, reqs, calls>>

NoReq == [uri |-> "none"]

\* What libwebsockets guarantees of a request: a body is not longer than the
\* Content-Length it came with.
ASSUME RequestsAssumption ==
    /\ BufSize \in Nat \ {0} /\ BodyMax \in Nat /\ ChunkSize \in Nat
    /\ FileLen \in Nat /\ AnswerLens \subseteq Nat
    /\ \A r \in Requests :
          /\ r # NoReq
          /\ r.cl \in Int /\ r.len \in Nat
          /\ r.cl >= 0 => r.len <= r.cl

HttpInit ==
    /\ req = NoReq /\ conn = NoConn
    /\ toCome = 0 /\ armed = FALSE /\ reqs = 0
    /\ calls = <<>>

-----------------------------------------------------------------------------
HasBody(r) == r.method \in {"POST", "PUT"}

requires_auth(r) == r.uri = "/api"

is_static_path(r) == r.method = "GET" /\ r.uri \in {"/", "/missing"}

\* The file is one of those built in; any other is left to the routes.
static_lookup(r) == r.uri = "/"

\* Content-Length as atol reads it, -1 for none.
http_body_content_length(r) == r.cl

\* Content-Length that is negative or above the cap of POST /asap.
BadLength(r) == r.cl > BodyMax \/ r.cl < -1

asap_is_asap_post(r) == r.uri = "/asap" /\ r.method = "POST"

TooLong(r) == asap_is_asap_post(r) /\ BadLength(r)

\* The buffer of POST /asap is as large as the body is to be; others are static.
asap_http_body_init_from_request(r) ==
    IF asap_is_asap_post(r)
    THEN [dyn |-> TRUE, cap |-> IF r.cl > 0 THEN r.cl ELSE BodyMax]
    ELSE [dyn |-> FALSE, cap |-> BufSize - 1]

asap_http_body_exceeds_static_cap(body, r) == ~body.dyn /\ http_body_content_length(r) > BufSize

\* dispatch_route, or 413 for a body that did not fit: the answer is ready.
Dispatched(c) ==
    \E n \in AnswerLens :
        /\ conn' = [c EXCEPT !.hasBody = FALSE, !.answer = n]
        /\ calls' = Append(calls, [body |-> c.len, code |-> IF c.tooLarge THEN 413 ELSE 200])

\* LWS_CALLBACK_HTTP of a request that is answered by libwebsockets itself:
\* 401 without a valid token, 413 for a Content-Length above the cap.
Refused ==
    /\ conn = NoConn /\ req = NoReq /\ reqs < MaxRequests
    /\ \E r \in Requests : (requires_auth(r) /\ ~r.token) \/ TooLong(r)
    /\ reqs' = reqs + 1
    /\ UNCHANGED <<req, conn, toCome, armed, calls>>

\* LWS_CALLBACK_HTTP of all others.
OnHttp(r) ==
    LET body == asap_http_body_init_from_request(r)
        c == [kind |-> "route", hasBody |-> HasBody(r), dyn |-> body.dyn, cap |-> body.cap,
              len |-> 0, tooLarge |-> HasBody(r) /\ asap_http_body_exceeds_static_cap(body, r),
              answer |-> 0, sent |-> 0]
    IN  /\ conn = NoConn /\ req = NoReq /\ reqs < MaxRequests
        /\ ~requires_auth(r) \/ r.token
        /\ ~TooLong(r)
        /\ req' = r /\ reqs' = reqs + 1
        /\ toCome' = IF HasBody(r) THEN r.len ELSE 0
        /\ IF is_static_path(r) /\ static_lookup(r)
           THEN /\ conn' = [c EXCEPT !.kind = "static", !.answer = FileLen]
                /\ armed' = TRUE /\ calls' = <<>>
           ELSE IF ~HasBody(r) \/ c.tooLarge
           THEN /\ \E n \in AnswerLens : conn' = [c EXCEPT !.hasBody = FALSE, !.answer = n]
                /\ calls' = <<[body |-> 0, code |-> IF c.tooLarge THEN 413 ELSE 200]>>
                /\ armed' = TRUE
           ELSE conn' = c /\ calls' = <<>> /\ armed' = FALSE

\* Mutant: what does not fit is dropped without a mark.
Mut_asap_http_body_append(c, n) ==
    [c EXCEPT !.len = @ + (IF n > c.cap - c.len THEN c.cap - c.len ELSE n)]

\* What fits is kept; the rest is dropped and the body marked.
asap_http_body_append(c, n) ==
    LET room == c.cap - c.len
    IN  [c EXCEPT !.len = @ + (IF n > room THEN room ELSE n),
                  !.tooLarge = @ \/ n > room]

\* LWS_CALLBACK_HTTP_BODY: dispatched as soon as Content-Length was received.
OnBody(n) ==
    /\ n <= toCome
    /\ toCome' = toCome - n
    /\ IF conn.kind = "none" \/ ~conn.hasBody THEN UNCHANGED <<conn, armed, calls>>
       ELSE LET c == asap_http_body_append(conn, n)
            IN  IF /\ http_body_content_length(req) > 0
                    /\ c.len >= req.cl /\ ~c.tooLarge
                THEN Dispatched(c) /\ armed' = TRUE
                ELSE conn' = c /\ UNCHANGED <<armed, calls>>
    /\ UNCHANGED <<req, reqs>>

\* conn && conn->has_body
MayDispatch(c) == c.kind = "route" /\ c.hasBody

\* LWS_CALLBACK_HTTP_BODY_COMPLETION
OnBodyCompletion ==
    /\ req # NoReq /\ HasBody(req) /\ toCome = 0
    /\ MayDispatch(conn)
    /\ Dispatched(conn) /\ armed' = TRUE
    /\ UNCHANGED <<req, toCome, reqs>>

\* LWS_CALLBACK_HTTP_WRITEABLE: one chunk; the last one ends the exchange.  Only
\* the answer of a route asks for another callback.
OnWriteable ==
    /\ armed /\ conn.kind # "none"
    /\ LET left == conn.answer - conn.sent
           chunk == IF left > ChunkSize THEN ChunkSize ELSE left
       IN  IF left = chunk
           THEN conn' = NoConn /\ armed' = FALSE
           ELSE /\ conn' = [conn EXCEPT !.sent = @ + chunk]
                /\ armed' = (conn.kind = "route")
    /\ UNCHANGED <<req, toCome, reqs, calls>>

\* libwebsockets is done with the request: the rest of its body is drained.
NextRequest ==
    /\ req # NoReq /\ conn = NoConn
    /\ req' = NoReq /\ toCome' = 0 /\ calls' = <<>>
    /\ UNCHANGED <<conn, armed, reqs>>

\* LWS_CALLBACK_CLOSED_HTTP, or an error of a write.
OnClosed ==
    /\ req # NoReq
    /\ req' = NoReq /\ conn' = NoConn /\ toCome' = 0 /\ armed' = FALSE /\ calls' = <<>>
    /\ UNCHANGED reqs

HttpNext ==
    \/ Refused \/ \E r \in Requests : OnHttp(r)
    \/ \E n \in 1 .. toCome : OnBody(n)
    \/ OnBodyCompletion \/ OnWriteable \/ NextRequest \/ OnClosed

HttpSpec == HttpInit /\ [][HttpNext]_httpVars

-----------------------------------------------------------------------------
(* Properties. *)

\* A request is dispatched at most once, and a route sees the whole body that
\* the client sent, whatever its fragments and whichever callback comes first
\* or not at all (http_lws.c:94-118, 268-320).
OneWholeDispatch ==
    /\ Len(calls) <= 1
    /\ \A i \in DOMAIN calls :
          calls[i].code = 200 /\ HasBody(req) => calls[i].body = req.len
=============================================================================
