--------------------------- MODULE ProviderRouter ---------------------------
(***************************************************************************)
(* The composite provider of shellclaw: the backends of fallback_chain are *)
(* tried in order, the snapshot says which one is active, and the main     *)
(* loop looks from time to time whether an earlier one is back             *)
(* (providers/router.c).  The local inference server is probed at start    *)
(* and again by chats that reach it (providers/local.c).                   *)
(*                                                                         *)
(* Chats of the main thread and of the gateway thread exclude each other   *)
(* by the agent lock; the recovery tick takes no lock.  Ages count up to   *)
(* the interval they are compared with.                                    *)
(***************************************************************************)
EXTENDS Integers, Sequences, SequencesExt

CONSTANTS
    Chains,    \* the possible values of fallback_chain
    Known,     \* the names lookup_backend finds
    Local,     \* the local provider
    Interval,  \* g_recovery_interval_sec
    Reprobe,   \* LOCAL_REPROBE_MIN_SEC
    MaxFlips   \* bound on the servers coming and going

ASSUME ChainsAssumption == Chains \subseteq Seq(STRING) /\ Local \in Known
ASSUME TimesAssumption == Interval \in Nat /\ Reprobe \in Nat /\ MaxFlips \in Nat

Threads == {"main", "lws"}
Nobody == "nobody"
NoName == ""

VARIABLES
    backends,     \* g_backends
    act,          \* g_snap_act
    ix,           \* g_snap_chain_ix, counted from 1; 0 before init
    recAge,       \* seconds since g_recovery_last_wall
    unavailable,  \* s_local_unavailable
    reprobeAge,   \* seconds since s_local_reprobe_last_wall
    chatBy,       \* holder of the agent lock, Nobody when it is free
    chatPc,       \* where the chat of the holder is
    chatIx,       \* ix in fallback_composite_chat
    mainPc,       \* where the main thread is
    tickActive,   \* active_ix in the recovery tick
    tickJ,        \* j in the recovery tick
    up,           \* the servers that answer
    flips         \* changes of up so far

snap == <<act, ix>>
local == <<unavailable, reprobeAge>>
chat == <<chatBy, chatPc, chatIx>>
tick == <<tickActive, tickJ>>
world == <<up, flips>>
vars == <<backends, act, ix, recAge, unavailable, reprobeAge, chatBy, chatPc,
          chatIx, mainPc, tickActive, tickJ, up, flips>>

Init ==
    /\ backends = <<>>
    /\ act = NoName /\ ix = 0
    /\ recAge = 0
    /\ unavailable = FALSE
    /\ reprobeAge = Reprobe
    /\ chatBy = Nobody /\ chatPc = "idle" /\ chatIx = 1
    /\ mainPc = "init"
    /\ tickActive = 0 /\ tickJ = 0
    /\ up \in SUBSET Known
    /\ flips = 0

Running == mainPc \notin {"init", "join", "off"}

\* router_snap_set_active
router_snap_set_active(i) == act' = backends[i] /\ ix' = i

-----------------------------------------------------------------------------
(* Start and stop. *)

\* One round of the loop in fallback_composite_init: unknown names, duplicates
\* and backends whose init fails (no key in the environment) are skipped.  The
\* init of the local provider never fails.
AddBackend(list, name, keyed) ==
    IF name \in (keyed \cup {Local}) \cap Known /\ name \notin ToSet(list)
    THEN Append(list, name)
    ELSE list

\* The process ends when no backend is usable.
fallback_composite_init ==
    /\ mainPc = "init"
    /\ \E chain \in Chains, keyed \in SUBSET (Known \ {Local}) :
          LET list == FoldLeft(LAMBDA l, n : AddBackend(l, n, keyed), <<>>, chain)
          IN  /\ backends' = list
              /\ IF list = <<>>
                 THEN mainPc' = "off" /\ UNCHANGED <<snap, unavailable>>
                 ELSE /\ act' = list[1]
                      /\ ix' = 1
                      /\ unavailable' = (Local \in ToSet(list) /\ Local \notin up)
                      /\ mainPc' = "tick"
    /\ recAge' = 0
    /\ UNCHANGED <<reprobeAge, chat, tick, world>>

\* The main loop ends.
LoopExit ==
    /\ mainPc = "tick"
    /\ mainPc' = "join"
    /\ UNCHANGED <<backends, snap, recAge, local, chat, tick, world>>

\* cleanup_subsystems has joined the gateway thread when it comes to the
\* providers.
fallback_composite_cleanup ==
    /\ mainPc = "join"
    /\ chatBy = Nobody
    /\ backends' = <<>>
    /\ act' = NoName
    /\ ix' = 0
    /\ unavailable' = FALSE
    /\ reprobeAge' = Reprobe
    /\ recAge' = Interval
    /\ mainPc' = "off"
    /\ UNCHANGED <<chat, tick, world>>

-----------------------------------------------------------------------------
(* provider_router_periodic_recovery_tick, in the main loop. *)

TickDue == Len(backends) >= 2 /\ ix # 1 /\ recAge = Interval

TickSkip ==
    /\ mainPc = "tick"
    /\ ~TickDue
    /\ mainPc' = "poll"
    /\ UNCHANGED <<backends, snap, recAge, local, chat, tick, world>>

\* Mutant: the first entry of the chain is not probed.
Mut_FirstProbed == 2

\* Where the loop over the backends before the active one begins.
FirstProbed == 1

TickBegin ==
    /\ mainPc = "tick"
    /\ TickDue
    /\ tickActive' = ix
    /\ tickJ' = FirstProbed
    /\ recAge' = 0
    /\ mainPc' = "probe"
    /\ UNCHANGED <<backends, snap, local, chat, world>>

Probing == mainPc = "probe" /\ tickJ < tickActive

\* router_probe_backend answers 1; a probe of the local server also makes it
\* available to chats.
TickProbeOk ==
    /\ Probing
    /\ backends[tickJ] \in up
    /\ unavailable' = (unavailable /\ backends[tickJ] # Local)
    /\ mainPc' = "set"
    /\ UNCHANGED <<backends, snap, recAge, reprobeAge, chat, tick, world>>

TickProbeFails ==
    /\ Probing
    /\ backends[tickJ] \notin up
    /\ tickJ' = tickJ + 1
    /\ UNCHANGED <<backends, snap, recAge, local, chat, mainPc, tickActive, world>>

TickEnd ==
    /\ mainPc = "probe"
    /\ tickJ >= tickActive
    /\ mainPc' = "poll"
    /\ UNCHANGED <<backends, snap, recAge, local, chat, tick, world>>

\* The switch back.  A chat of the gateway thread may have set another index
\* since the tick read active_ix.
TickSet ==
    /\ mainPc = "set"
    /\ router_snap_set_active(tickJ)
    /\ mainPc' = "poll"
    /\ UNCHANGED <<backends, recAge, local, chat, tick, world>>

\* The channels have nothing, or a message for the agent.
PollNothing ==
    /\ mainPc = "poll"
    /\ mainPc' = "tick"
    /\ UNCHANGED <<backends, snap, recAge, local, chat, tick, world>>

PollMessage ==
    /\ mainPc = "poll"
    /\ mainPc' = "lock"
    /\ UNCHANGED <<backends, snap, recAge, local, chat, tick, world>>

-----------------------------------------------------------------------------
(* fallback_composite_chat, by the holder of the agent lock. *)

ChatBegin(t) ==
    /\ chatBy = Nobody
    /\ mainPc \notin {"init", "off"}
    /\ t = "main" => mainPc = "lock"
    /\ chatBy' = t
    /\ chatPc' = "try"
    /\ chatIx' = 1
    /\ mainPc' = IF t = "main" THEN "chat" ELSE mainPc
    /\ UNCHANGED <<backends, snap, recAge, local, tick, world>>

ChatEnds ==
    /\ chatBy' = Nobody
    /\ chatPc' = "idle"
    /\ chatIx' = 1
    /\ mainPc' = IF chatBy = "main" THEN "tick" ELSE mainPc

NextBackend ==
    \/ /\ chatIx < Len(backends)
       /\ chatIx' = chatIx + 1
       /\ chatPc' = "try"
       /\ UNCHANGED <<chatBy, mainPc>>
    \/ chatIx = Len(backends) /\ ChatEnds

\* local_chat has to look again whether the server is there.
reprobe_due ==
    backends[chatIx] = Local /\ unavailable /\ reprobeAge = Reprobe

\* Mutant: a chat that finds the server unavailable restarts the wait.
Mut_ReprobeAgeNotDue == IF backends[chatIx] = Local THEN 0 ELSE reprobeAge

\* The age of the last probe after a chat that does not probe.
ReprobeAgeNotDue == reprobeAge

ChatTry ==
    /\ chatPc = "try"
    /\ ~reprobe_due
    /\ reprobeAge' = ReprobeAgeNotDue
    /\ chatPc' = "check"
    /\ UNCHANGED <<backends, snap, recAge, unavailable, chatBy, chatIx, mainPc,
                   tick, world>>

LocalReprobe ==
    /\ chatPc = "try"
    /\ reprobe_due
    /\ reprobeAge' = 0
    /\ unavailable' = (Local \notin up)
    /\ chatPc' = "check"
    /\ UNCHANGED <<backends, snap, recAge, chatBy, chatIx, mainPc, tick, world>>

\* The local provider refuses while its server is unavailable; that error lets
\* the router go on.
LocalRefuses ==
    /\ chatPc = "check"
    /\ backends[chatIx] = Local /\ unavailable
    /\ NextBackend
    /\ UNCHANGED <<backends, snap, recAge, local, tick, world>>

ChatSend ==
    /\ chatPc = "check"
    /\ ~ (backends[chatIx] = Local /\ unavailable)
    /\ chatPc' = "send"
    /\ UNCHANGED <<backends, snap, recAge, local, chatBy, chatIx, mainPc, tick,
                   world>>

ChatOk ==
    /\ chatPc = "send"
    /\ backends[chatIx] \in up
    /\ router_snap_set_active(chatIx)
    /\ ChatEnds
    /\ UNCHANGED <<backends, recAge, local, tick, world>>

\* provider_error_allows_fallback_retry: transport errors, HTTP 5xx, a model of
\* another vendor.  A server that answers a probe may still fail a chat.
ChatRetry ==
    /\ chatPc = "send"
    /\ NextBackend
    /\ UNCHANGED <<backends, snap, recAge, local, tick, world>>

\* HTTP 4xx: no other backend is asked.
ChatStop ==
    /\ chatPc = "send"
    /\ backends[chatIx] \in up
    /\ ChatEnds
    /\ UNCHANGED <<backends, snap, recAge, local, tick, world>>

-----------------------------------------------------------------------------
\* A server comes or goes.
Flip(b) ==
    /\ flips < MaxFlips
    /\ flips' = flips + 1
    /\ up' = IF b \in up THEN up \ {b} ELSE up \cup {b}
    /\ UNCHANGED <<backends, snap, recAge, local, chat, mainPc, tick>>

\* A second passes.
Second ==
    /\ Running
    /\ recAge < Interval \/ reprobeAge < Reprobe
    /\ recAge' = IF recAge < Interval THEN recAge + 1 ELSE recAge
    /\ reprobeAge' = IF reprobeAge < Reprobe THEN reprobeAge + 1 ELSE reprobeAge
    /\ UNCHANGED <<backends, snap, unavailable, chat, mainPc, tick, world>>

MainStep ==
    \/ fallback_composite_init
    \/ fallback_composite_cleanup
    \/ TickSkip
    \/ TickBegin
    \/ TickProbeOk
    \/ TickProbeFails
    \/ TickEnd
    \/ TickSet
    \/ PollNothing
    \/ PollMessage

ChatStep ==
    \/ ChatTry
    \/ LocalReprobe
    \/ LocalRefuses
    \/ ChatSend
    \/ ChatOk
    \/ ChatRetry
    \/ ChatStop

Next ==
    \/ MainStep
    \/ LoopExit
    \/ \E t \in Threads : ChatBegin(t)
    \/ ChatStep
    \/ \E b \in Known : Flip(b)
    \/ Second

Spec == Init /\ [][Next]_vars

\* The main loop and a chat that has begun go on (every request has a
\* time-out), a thread that waits for the agent lock gets it in the end, and
\* time passes.  Nothing is assumed of messages, requests or servers.
Fairness ==
    /\ WF_vars(MainStep)
    /\ SF_vars(ChatBegin("main"))
    /\ WF_vars(ChatStep)
    /\ WF_vars(Second)

FairSpec == Spec /\ Fairness

-----------------------------------------------------------------------------
(* Properties. *)

\* When the first backend answers for good, the snapshot comes back to it again
\* and again, however often chats fall back meanwhile and however they
\* interleave with the tick.
PrimaryStays == Running /\ backends[1] \in up
RecoversInTheEnd == <>[]PrimaryStays => []<>(ix = 1)

\* When the local server answers for good and chats go on reaching the local
\* provider, it serves in the end, although it was down at the start and chats
\* may come faster than the wait between two probes.
AtLocal == chatPc = "try" /\ backends[chatIx] = Local
LocalServes == (<>[](Running /\ Local \in up) /\ []<>AtLocal) => <>[]~unavailable
=============================================================================
