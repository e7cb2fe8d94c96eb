------------------------------ MODULE AsapPeers ------------------------------
(***************************************************************************)
(* Daemons that delegate to each other.  A daemon has one agent lock and   *)
(* two threads that run the agent under it: the main thread for the user's *)
(* messages, the service thread for inbound requests (asap/server.c,       *)
(* reached by POST /asap in gateway/routes.c).  A turn of either may       *)
(* invoke the tool asap_invoke, which posts to a peer and waits, the lock  *)
(* held, for the answer or the timeout of the client (asap/client.c).      *)
(* Envelopes are parsed as in asap/envelope.c.  Outsiders post what they   *)
(* like and do not wait.                                                   *)
(***************************************************************************)
EXTENDS Integers, Sequences, FiniteSets

CONSTANTS
    Nodes,        \* the daemons, which are also the URNs of their senders
    Outsiders,    \* envelopes outsiders post: [valid, sender, type, field]
    Trusted,      \* asap.trusted_senders of every daemon, {} for all
    MaxPosts,     \* bound on the requests there are
    MaxOutside    \* bound on those that outsiders post

ASSUME PostsAssumption == MaxPosts \in Nat

\* A sender is a URN; where some give no name, none has the name of their session.
Senders == Nodes \cup {o.sender : o \in Outsiders}
ASSUME SendersAssumption == ~({"", "inbound"} \subseteq Senders)

PeerThreads == {"main", "service"}
Idle == [pc |-> "idle"]

VARIABLES
    lock,      \* lock[n]: the thread that holds the agent lock of n, or "free"
    thread,    \* thread[n][t]: what the thread does
    inbox,     \* inbox[n]: the requests that wait for the service thread of n
    answer,    \* answer[i]: what came back for request i, or "none"
    posts,     \* how many requests were posted
    ran,       \* ran[i]: <<session, sender>> of the run for request i, or <<>>
    asked      \* the requests that asap_invoke posted

peerVars == <<lock, thread, inbox, answer, posts, ran, asked>>

PeersInit ==
    /\ lock = [n \in Nodes |-> "free"]
    /\ thread = [n \in Nodes |-> [t \in PeerThreads |-> Idle]]
    /\ inbox = [n \in Nodes |-> <<>>]
    /\ answer = [i \in 1 .. MaxPosts |-> "none"]
    /\ posts = 0
    /\ ran = [i \in 1 .. MaxPosts |-> <<>>]
    /\ asked = {}

Become(n, t, s) == thread' = [thread EXCEPT ![n][t] = s]

-----------------------------------------------------------------------------
(* The client. *)

\* The main thread starts a turn for a message of its user.
StartTurn(n) ==
    /\ thread[n]["main"] = Idle
    /\ lock[n] = "free"
    /\ posts < MaxPosts
    /\ lock' = [lock EXCEPT ![n] = "main"]
    /\ Become(n, "main", [pc |-> "run", req |-> [id |-> 0]])
    /\ UNCHANGED <<inbox, answer, posts, ran, asked>>

\* The turn calls the tool, which posts a task.request to a peer and waits.
asap_client_send_task(n, t, m) ==
    /\ thread[n][t].pc = "run"
    /\ posts < MaxPosts
    /\ posts' = posts + 1
    /\ inbox' = [inbox EXCEPT ![m] =
                   Append(@, [id |-> posts', valid |-> TRUE, sender |-> n,
                              type |-> "task.request", field |-> TRUE])]
    /\ Become(n, t, [pc |-> "wait", req |-> thread[n][t].req, for |-> posts'])
    /\ asked' = asked \cup {posts'}
    /\ UNCHANGED <<lock, answer, ran>>

\* The answer arrives; what is no envelope makes the tool fail.
AnswerArrives(n, t) ==
    /\ thread[n][t].pc = "wait" /\ answer[thread[n][t].for] # "none"
    /\ Become(n, t, [pc |-> "run", req |-> thread[n][t].req])
    /\ UNCHANGED <<lock, inbox, answer, posts, ran, asked>>

\* Mutant: the client waits without a timeout.
Mut_TimedOut(n, t) == FALSE

\* CURLOPT_TIMEOUT: the client gives up; the server does not learn of it.
TimedOut(n, t) ==
    /\ thread[n][t].pc = "wait" /\ answer[thread[n][t].for] = "none"
    /\ answer' = [answer EXCEPT ![thread[n][t].for] = "timeout"]
    /\ Become(n, t, [pc |-> "run", req |-> thread[n][t].req])
    /\ UNCHANGED <<lock, inbox, posts, ran, asked>>

\* The turn of the main thread ends.
EndTurn(n) ==
    /\ thread[n]["main"].pc = "run"
    /\ lock' = [lock EXCEPT ![n] = "free"]
    /\ Become(n, "main", Idle)
    /\ UNCHANGED <<inbox, answer, posts, ran, asked>>

\* Somebody else posts an envelope.
OutsiderPosts(n) ==
    /\ posts < MaxPosts /\ posts - Cardinality(asked) < MaxOutside
    /\ posts' = posts + 1
    /\ \E o \in Outsiders :
          inbox' = [inbox EXCEPT ![n] =
                       Append(@, [id |-> posts', valid |-> o.valid, sender |-> o.sender,
                                  type |-> o.type, field |-> o.field])]
    /\ UNCHANGED <<lock, thread, answer, ran, asked>>

-----------------------------------------------------------------------------
(* The server. *)

sender_is_trusted(sender) == Trusted = {} \/ sender \in Trusted

PayloadTypes == {"task.request", "task.response", "task.cancel",
                 "state.query", "mcp.tool_call", "mcp.tool_result"}

\* The object has all the fields of an envelope, and a payload.
FieldsPresent(r) == r.valid

\* A JSON-RPC 2.0 request with an envelope of a known payload_type.
asap_envelope_parse(r) == FieldsPresent(r) /\ r.type \in PayloadTypes

\* Mutant: one session for all senders.
Mut_asap_resolve_task_session_id(sender) == <<"asap", "inbound">>

\* One session for every sender; "" is "asap:inbound".
asap_resolve_task_session_id(sender) ==
    <<"asap", IF sender = "" THEN "inbound" ELSE sender>>

Reply(i, what) ==
    answer' = [answer EXCEPT ![i] = IF @ = "none" THEN what ELSE @]

\* A task has a text: its input, prompt or message, or else the whole payload; only
\* an empty text is none.  A tool call has a name and arguments.
Prompt(r) == r.type = "task.request" /\ r.field
ToolCall(r) == r.type = "mcp.tool_call" /\ r.field

\* A cancellation is answered that it is not supported.
Cancel(r) == r.type = "task.cancel"

\* asap_server_handle sends every other request back.
AnsweredAtOnce(r) ==
    \/ ~sender_is_trusted(r.sender)
    \/ ~(Prompt(r) \/ ToolCall(r) \/ Cancel(r) \/ r.type = "state.query")

\* The first request is read; the rate limit may refuse it before it is parsed.
\* What is refused, and a task.cancel, is answered at once; the rest is handled
\* under the agent lock.
handle_asap(n) ==
    LET r == Head(inbox[n])
        AtOnce(what) == Reply(r.id, what) /\ UNCHANGED thread
        Handled(pc) == Become(n, "service", [pc |-> pc, req |-> r]) /\ UNCHANGED answer
    IN  /\ thread[n]["service"] = Idle
        /\ inbox[n] # <<>>
        /\ inbox' = [inbox EXCEPT ![n] = Tail(@)]
        /\ \/ AtOnce("429")
           \/ ~asap_envelope_parse(r) /\ AtOnce("400")
           \/ /\ asap_envelope_parse(r)
              /\ IF AnsweredAtOnce(r) THEN AtOnce("400")
                 ELSE Handled(IF Cancel(r) THEN "answer" ELSE "lock")
        /\ UNCHANGED <<lock, posts, ran, asked>>

\* A state.query counts rows under the lock, and lets go of it.
StateQuery(n, r) ==
    /\ r.type = "state.query"
    /\ Become(n, "service", [pc |-> "answer", req |-> r])
    /\ UNCHANGED <<lock, ran>>

\* agent_lock, then agent_run or the tool.
Locked(n) ==
    LET r == thread[n]["service"].req
    IN  /\ thread[n]["service"].pc = "lock"
        /\ lock[n] = "free"
        /\ \/ StateQuery(n, r)
           \/ /\ r.type # "state.query"
              /\ lock' = [lock EXCEPT ![n] = "service"]
              /\ Become(n, "service", [pc |-> "run", req |-> r])
              /\ ran' = IF Prompt(r)
                        THEN [ran EXCEPT ![r.id] = <<asap_resolve_task_session_id(r.sender), r.sender>>]
                        ELSE ran
        /\ UNCHANGED <<inbox, answer, posts, asked>>

\* agent_unlock; a failed run is answered with an error.
Unlocked(n) ==
    LET r == thread[n]["service"].req
    IN  /\ thread[n]["service"].pc = "run"
        /\ lock' = [lock EXCEPT ![n] = "free"]
        /\ \/ Become(n, "service", [pc |-> "answer", req |-> r]) /\ UNCHANGED answer
           \/ Become(n, "service", Idle) /\ Reply(r.id, "400")
        /\ UNCHANGED <<inbox, posts, ran, asked>>

\* The response envelope is written; one too long for the buffer is
\* refused instead, whatever was done for it.
write_asap_jsonrpc(n) ==
    LET r == thread[n]["service"].req
    IN  /\ thread[n]["service"].pc = "answer"
        /\ Become(n, "service", Idle)
        /\ Reply(r.id, "ok") \/ Reply(r.id, "500")
        /\ UNCHANGED <<lock, inbox, posts, ran, asked>>

-----------------------------------------------------------------------------
Client(n) ==
    \/ StartTurn(n) \/ EndTurn(n)
    \/ \E t \in PeerThreads :
          AnswerArrives(n, t) \/ TimedOut(n, t) \/ \E m \in Nodes : asap_client_send_task(n, t, m)

Server(n) == handle_asap(n) \/ Locked(n) \/ Unlocked(n) \/ write_asap_jsonrpc(n)

PeersNext == \E n \in Nodes : Client(n) \/ Server(n) \/ OutsiderPosts(n)

PeersSpec == PeersInit /\ [][PeersNext]_peerVars

\* A turn ends unless its tool waits; a wait ends by the answer or the timeout.
PeersFairness ==
    \A n \in Nodes :
        /\ WF_peerVars(EndTurn(n))
        /\ WF_peerVars(Unlocked(n))
        /\ \A t \in PeerThreads : WF_peerVars(AnswerArrives(n, t)) /\ WF_peerVars(TimedOut(n, t))

PeersFairSpec == PeersSpec /\ PeersFairness

-----------------------------------------------------------------------------
(* Properties. *)

\* A peer that is told "ok" had the agent run for it, and no two senders ever
\* share a session: the history of one is never shown to the other
\* (server.c:114-130, 155-160).
OwnSession ==
    /\ \A i \in asked : answer[i] = "ok" => ran[i] # <<>>
    /\ \A i, j \in 1 .. MaxPosts :
          ran[i] # <<>> /\ ran[j] # <<>> /\ ran[i][1] = ran[j][1] => ran[i][2] = ran[j][2]

\* Daemons that wait for each other, or for themselves, with their locks held
\* come free again: every turn ends (client.c:120, server.c:184-187).
TurnsEnd == \A n \in Nodes : lock[n] # "free" ~> lock[n] = "free"
=============================================================================
