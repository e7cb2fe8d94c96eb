------------------------------ MODULE MCRemote ------------------------------
(***************************************************************************)
(* What is done while the agent lock is held and somebody remote is waited *)
(* for, for TLC: the chain of providers, and daemons that delegate to each *)
(* other.  The two share no state: focus says which one runs.              *)
(***************************************************************************)
EXTENDS ProviderRouter, AsapPeers

VARIABLE focus

allVars == <<focus, vars, peerVars>>

\* A chain with an unknown name, a duplicate and the local provider last, one
\* with the local provider first, and one that may have no usable backend.
MCChains ==
    { <<"anthropic", "mistral", "anthropic", "openai", "local">>,
      <<"local", "openai">>,
      <<"openai">> }
MCKnown == {"anthropic", "openai", "local"}

\* No envelope, a stranger's request, and of a trusted sender: a request without
\* input, a tool call, a cancellation, a question and an answer out of place.
Envelope(sender, type, field) ==
    [valid |-> TRUE, sender |-> sender, type |-> type, field |-> field]
MCOutsiders ==
    { [Envelope("b", "task.request", TRUE) EXCEPT !.valid = FALSE],
      Envelope("s", "task.request", TRUE), Envelope("b", "task.request", FALSE),
      Envelope("b", "mcp.tool_call", TRUE), Envelope("b", "task.cancel", TRUE),
      Envelope("b", "state.query", TRUE), Envelope("b", "task.response", TRUE) }

\* The part that does not run is in one initial state only.
MCInit ==
    /\ focus \in {"router", "peers"} /\ Init /\ PeersInit
    /\ focus = "peers" => up = {}

OnRouter(A) == focus = "router" /\ A /\ UNCHANGED <<focus, peerVars>>
OnPeers(A) == focus = "peers" /\ A /\ UNCHANGED <<focus, vars>>

MCNext == OnRouter(Next) \/ OnPeers(PeersNext)

\* The fairness of ProviderRouter and of AsapPeers.
MCFairness ==
    /\ WF_allVars(OnRouter(MainStep))
    /\ SF_allVars(OnRouter(ChatBegin("main")))
    /\ WF_allVars(OnRouter(ChatStep))
    /\ WF_allVars(OnRouter(Second))
    /\ \A n \in Nodes :
          /\ WF_allVars(OnPeers(EndTurn(n)))
          /\ WF_allVars(OnPeers(Unlocked(n)))
          /\ \A t \in PeerThreads :
                /\ WF_allVars(OnPeers(AnswerArrives(n, t)))
                /\ WF_allVars(OnPeers(TimedOut(n, t)))

MCSpec == MCInit /\ [][MCNext]_allVars /\ MCFairness
=============================================================================
