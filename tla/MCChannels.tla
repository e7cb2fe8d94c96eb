----------------------------- MODULE MCChannels -----------------------------
(***************************************************************************)
(* The two receiving channels for TLC.  They share no state, so a behaviour *)
(* is of one of them: focus says which, and the other one stays as it is.  *)
(***************************************************************************)
EXTENDS DiscordSession, TelegramPoll

VARIABLE focus

\* A direct message in one fragment, a mention that just fits, a message of
\* somebody who is not allowed, one that is too long by one fragment and one
\* too long by several.
MCShapes ==
    { [kind |-> "dm", len |-> 1], [kind |-> "mention", len |-> 2],
      [kind |-> "stranger", len |-> 1], [kind |-> "dm", len |-> 3],
      [kind |-> "dm", len |-> 5] }

MCInit == focus \in {"discord", "telegram"} /\ Init /\ TelegramInit

OnDiscord(A) == focus = "discord" /\ A /\ UNCHANGED <<focus, telegramVars>>
OnTelegram(A) == focus = "telegram" /\ A /\ UNCHANGED <<focus, vars>>

MCNext == OnDiscord(Next) \/ OnTelegram(TelegramNext)

allVars == <<focus, vars, telegramVars>>

\* The service thread of discord serves its sockets and gets round its loop, a
\* connection comes about unless it fails, and the gateway answers and closes
\* what it ended.  The main loop polls telegram, the process is started again,
\* and the Bot API answers in the end.
MCFairness ==
    /\ WF_allVars(OnDiscord(Established))
    /\ WF_allVars(OnDiscord(ConnectionClosed))
    /\ WF_allVars(OnDiscord(Receive))
    /\ WF_allVars(OnDiscord(Writeable))
    /\ WF_allVars(OnDiscord(StartConnect))
    /\ WF_allVars(OnDiscord(GatewaySends))
    /\ WF_allVars(OnDiscord(GatewayResumed))
    /\ WF_allVars(OnDiscord(GatewayIdentifies \/ GatewayResumes \/ GatewayRefuses))
    /\ WF_allVars(OnTelegram(tg_poll))
    /\ WF_allVars(OnTelegram(Handled))
    /\ WF_allVars(OnTelegram(tg_init))

MCSpec == MCInit /\ [][MCNext]_allVars /\ MCFairness

\* The channel is connected again in the end, whatever ended the connection: an
\* error while connecting, a lost connection, RECONNECT or a refused RESUME.
DiscordReconnects ==
    focus = "discord" /\ ~ready
        ~> discord_status_snapshot_fill \in {"connected", "disconnected"}
=============================================================================
