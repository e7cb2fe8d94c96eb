--------------------------- MODULE ConfigReload ---------------------------
(***************************************************************************)
(* The life of the config_t objects: try_config_reload (core/reload.c),    *)
(* called by the main loop after a SIGHUP (core/main.c) and by PUT         *)
(* /api/config on the gateway thread (gateway/routes.c), the pointers that *)
(* every subsystem keeps to the live configuration, and the way down       *)
(* (core/main.c, core/bootstrap.c), where all of them are freed.           *)
(*                                                                         *)
(* A config_t is numbered by its load; 1 is the one main() parsed.  The    *)
(* file on disk counts its versions.  The temporary config_t with which    *)
(* handle_config_put validates a body is freed by the same handler before  *)
(* anybody sees it and is left out.                                        *)
(***************************************************************************)
EXTENDS Integers, Sequences, FiniteSets

CONSTANTS
    MaxHups,       \* bound on the SIGHUPs delivered
    MaxPuts,       \* bound on the configurations saved by PUT /api/config
    MaxEdits,      \* bound on the edits of config.toml by anybody else
    SavesOverlap   \* TRUE when a save may overlap the start or the stop of
                   \* the process

ASSUME BoundsAssumption ==
    MaxHups \in Nat /\ MaxPuts \in Nat /\ MaxEdits \in Nat
ASSUME OverlapAssumption == SavesOverlap \in BOOLEAN

Cfgs == 1 .. (1 + MaxHups + MaxPuts)
Versions == 1 .. (1 + MaxEdits + MaxPuts)
NoCfg == 0

Threads == {"main", "http"}
\* Who keeps a pointer to the live configuration: the router and the
\* providers, the tools, the telegram, discord and heartbeat channels, and
\* the gateway context.
Consumers == {"router", "tools", "channels", "http"}
\* Who reads through such a pointer: the two threads, the discord thread and
\* the skill watcher, which never leaves the configuration it was started with.
Readers == {"main", "http", "discord", "watch"}

VARIABLES
    file,      \* config.toml: its version, and whether config_load accepts it
    loads,     \* config_t objects allocated so far: 1 .. loads
    version,   \* the version each of them was parsed from
    freed,     \* how often config_free was called on each of them
    cfg,       \* bootstrap.c's g_cfg
    live,      \* the pointer each consumer keeps
    stale,     \* g_stale_cfg_head: the queue of retired configurations
    held,      \* the config_t each reader is using
    lock,      \* who holds the agent mutex
    rl,        \* where each thread is in try_config_reload
    old,       \* its local variable old
    new,       \* its local variable new_cfg, NoCfg when the reload failed
    reload,    \* g_reload_requested
    shutdown,  \* g_shutdown
    running,   \* g_ctx->running
    mainPc,    \* where the main thread is
    httpPc,    \* where the gateway thread is
    toFree,    \* the pointer main() frees last
    putVer,    \* the version the current PUT has saved
    hups, puts, edits,  \* how often each of these happened
    seen       \* history: the newest version any reload has read

cfgVars == <<loads, version, freed, cfg, live, stale>>
rlVars == <<lock, rl, old, new>>
counts == <<hups, puts, edits>>
vars == <<file, loads, version, freed, cfg, live, stale, held, lock, rl, old,
          new, reload, shutdown, running, mainPc, httpPc, toFree, putVer, hups,
          puts, edits, seen>>

\* init_subsystems has started the watcher, the channels and the gateway, and
\* is about to call tools_init.
Init ==
    /\ file = [ver |-> 1, ok |-> TRUE]
    /\ loads = 1
    /\ version = [c \in Cfgs |-> 1]
    /\ freed = [c \in Cfgs |-> 0]
    /\ cfg = 1
    /\ live = [k \in Consumers |-> IF k = "tools" THEN NoCfg ELSE 1]
    /\ stale = <<>>
    /\ held = [r \in Readers |-> IF r = "watch" THEN 1 ELSE NoCfg]
    /\ lock = "none"
    /\ rl = [t \in Threads |-> "off"]
    /\ old = [t \in Threads |-> NoCfg]
    /\ new = [t \in Threads |-> NoCfg]
    /\ reload = FALSE
    /\ shutdown = FALSE
    /\ running = TRUE
    /\ mainPc = "tools"
    /\ httpPc = "idle"
    /\ toFree = NoCfg
    /\ putVer = 0
    /\ hups = 0
    /\ puts = 0
    /\ edits = 0
    /\ seen = 1

-----------------------------------------------------------------------------
(* try_config_reload, called by thread t. *)

\* Mutant: a reload that finds the mutex taken goes on without it.
Mut_agent_lock(t) ==
    /\ rl[t] = "lock"
    /\ lock' = t
    /\ rl' = [rl EXCEPT ![t] = "load"]
    /\ UNCHANGED <<file, cfgVars, held, old, new, reload, shutdown, running,
                   mainPc, httpPc, toFree, putVer, counts, seen>>

\* Mutant: a reload that finds the mutex taken is given up.
Mut_agent_trylock(t) ==
    /\ rl[t] = "lock"
    /\ lock' = IF lock = "none" THEN t ELSE lock
    /\ rl' = [rl EXCEPT ![t] = IF lock = "none" THEN "load" ELSE "off"]
    /\ UNCHANGED <<file, cfgVars, held, old, new, reload, shutdown, running,
                   mainPc, httpPc, toFree, putVer, counts, seen>>

\* agent_lock() before the call.
agent_lock(t) ==
    /\ rl[t] = "lock"
    /\ lock = "none"
    /\ lock' = t
    /\ rl' = [rl EXCEPT ![t] = "load"]
    /\ UNCHANGED <<file, cfgVars, held, old, new, reload, shutdown, running,
                   mainPc, httpPc, toFree, putVer, counts, seen>>

\* The configuration a reload retires: the live one of bootstrap.c, not the
\* copy of the caller.
RetiredBy(t) == cfg

\* config_load parses the file.
Load(t) ==
    /\ rl[t] = "load"
    /\ old' = [old EXCEPT ![t] = RetiredBy(t)]
    /\ seen' = IF file.ver > seen THEN file.ver ELSE seen
    /\ \/ /\ file.ok
          /\ loads' = loads + 1
          /\ version' = [version EXCEPT ![loads + 1] = file.ver]
          /\ new' = [new EXCEPT ![t] = loads + 1]
          /\ rl' = [rl EXCEPT ![t] = "enqueue"]
       \/ /\ ~file.ok
          /\ new' = [new EXCEPT ![t] = NoCfg]
          /\ rl' = [rl EXCEPT ![t] = "unlock"]
          /\ UNCHANGED <<loads, version>>
    /\ UNCHANGED <<file, freed, cfg, live, stale, held, lock, reload, shutdown,
                   running, mainPc, httpPc, toFree, putVer, counts>>

stale_enqueue(t) ==
    /\ rl[t] = "enqueue"
    /\ stale' = <<old[t]>> \o stale
    /\ rl' = [rl EXCEPT ![t] = "publish"]
    /\ UNCHANGED <<file, loads, version, freed, cfg, live, held, lock, old, new,
                   reload, shutdown, running, mainPc, httpPc, toFree, putVer,
                   counts, seen>>

\* Mutant: the error return of an out-of-memory reload keeps the mutex.
Mut_EnqueueFails(t) ==
    /\ rl[t] = "enqueue"
    /\ freed' = [freed EXCEPT ![new[t]] = @ + 1]
    /\ new' = [new EXCEPT ![t] = NoCfg]
    /\ rl' = [rl EXCEPT ![t] = "off"]
    /\ UNCHANGED <<file, loads, version, cfg, live, stale, held, lock, old,
                   reload, shutdown, running, mainPc, httpPc, toFree, putVer,
                   counts, seen>>

\* stale_enqueue is out of memory: the new configuration is dropped.
EnqueueFails(t) ==
    /\ rl[t] = "enqueue"
    /\ freed' = [freed EXCEPT ![new[t]] = @ + 1]
    /\ new' = [new EXCEPT ![t] = NoCfg]
    /\ rl' = [rl EXCEPT ![t] = "unlock"]
    /\ UNCHANGED <<file, loads, version, cfg, live, stale, held, lock, old,
                   reload, shutdown, running, mainPc, httpPc, toFree, putVer,
                   counts, seen>>

\* Mutant: one subsystem is forgotten in the list of the live pointers.
Mut_Published(c) == [live EXCEPT !["router"] = c, !["tools"] = c, !["http"] = c]

\* The *_set_live_config calls reach every consumer.
Published(c) == [k \in Consumers |-> c]

SetLive(t) ==
    /\ rl[t] = "publish"
    /\ live' = Published(new[t])
    /\ rl' = [rl EXCEPT ![t] = "set"]
    /\ UNCHANGED <<file, loads, version, freed, cfg, stale, held, lock, old,
                   new, reload, shutdown, running, mainPc, httpPc, toFree,
                   putVer, counts, seen>>

bootstrap_set_cfg(t) ==
    /\ rl[t] = "set"
    /\ cfg' = new[t]
    /\ rl' = [rl EXCEPT ![t] = "unlock"]
    /\ UNCHANGED <<file, loads, version, freed, live, stale, held, lock, old,
                   new, reload, shutdown, running, mainPc, httpPc, toFree,
                   putVer, counts, seen>>

\* agent_unlock() after the call: the caller is back in its own code.
agent_unlock(t) ==
    /\ rl[t] = "unlock"
    /\ lock' = "none"
    /\ rl' = [rl EXCEPT ![t] = "off"]
    /\ UNCHANGED <<file, cfgVars, held, old, new, reload, shutdown, running,
                   mainPc, httpPc, toFree, putVer, counts, seen>>

Reloading(t) ==
    \/ agent_lock(t)
    \/ Load(t)
    \/ stale_enqueue(t)
    \/ EnqueueFails(t)
    \/ SetLive(t)
    \/ bootstrap_set_cfg(t)
    \/ agent_unlock(t)

-----------------------------------------------------------------------------
(* The main thread. *)

\* tools_init(cfg) with the pointer main() parsed.
tools_init ==
    /\ mainPc = "tools"
    /\ live' = [live EXCEPT !["tools"] = 1]
    /\ mainPc' = "loop"
    /\ UNCHANGED <<file, loads, version, freed, cfg, stale, held, rlVars,
                   reload, shutdown, running, httpPc, toFree, putVer, counts,
                   seen>>

\* tools_init fails: init_subsystems stops the gateway.
ToolsInitFails ==
    /\ mainPc = "tools"
    /\ running' = FALSE
    /\ mainPc' = "failed"
    /\ UNCHANGED <<file, cfgVars, held, rlVars, reload, shutdown, httpPc,
                   toFree, putVer, counts, seen>>

\* The rest of the failed start: join, clean up, and free what main() parsed.
FailedJoin ==
    /\ mainPc = "failed"
    /\ httpPc = "exited"
    /\ cfg' = NoCfg
    /\ held' = [held EXCEPT !["discord"] = NoCfg, !["watch"] = NoCfg]
    /\ toFree' = 1
    /\ mainPc' = "free"
    /\ UNCHANGED <<file, loads, version, freed, live, stale, rlVars, reload,
                   shutdown, running, httpPc, putVer, counts, seen>>

\* main_loop finds g_reload_requested: the flag is cleared before the reload.
LoopReload ==
    /\ mainPc = "loop"
    /\ ~shutdown
    /\ reload
    /\ reload' = FALSE
    /\ rl' = [rl EXCEPT !["main"] = "lock"]
    /\ mainPc' = "poll"
    /\ UNCHANGED <<file, cfgVars, held, lock, old, new, shutdown, running,
                   httpPc, toFree, putVer, counts, seen>>

LoopNoReload ==
    /\ mainPc = "loop"
    /\ ~shutdown
    /\ ~reload
    /\ mainPc' = "poll"
    /\ UNCHANGED <<file, cfgVars, held, rlVars, reload, shutdown, running,
                   httpPc, toFree, putVer, counts, seen>>

\* The polls found nothing.
PollNothing ==
    /\ mainPc = "poll"
    /\ rl["main"] = "off"
    /\ mainPc' = "loop"
    /\ UNCHANGED <<file, cfgVars, held, rlVars, reload, shutdown, running,
                   httpPc, toFree, putVer, counts, seen>>

\* handle_message runs the agent under the agent mutex; the provider and the
\* tools read their configuration.
AgentBegin ==
    /\ mainPc = "poll"
    /\ rl["main"] = "off"
    /\ lock = "none"
    /\ lock' = "main"
    /\ \E k \in {"router", "tools"} : held' = [held EXCEPT !["main"] = live[k]]
    /\ mainPc' = "agent"
    /\ UNCHANGED <<file, cfgVars, rl, old, new, reload, shutdown, running,
                   httpPc, toFree, putVer, counts, seen>>

AgentEnd ==
    /\ mainPc = "agent"
    /\ lock' = "none"
    /\ held' = [held EXCEPT !["main"] = NoCfg]
    /\ mainPc' = "loop"
    /\ UNCHANGED <<file, cfgVars, rl, old, new, reload, shutdown, running,
                   httpPc, toFree, putVer, counts, seen>>

\* main_loop returns; main() reads the live configuration.
LoopExit ==
    /\ mainPc = "loop"
    /\ shutdown
    /\ SavesOverlap \/ rl["http"] = "off"
    /\ toFree' = cfg
    /\ mainPc' = "stop"
    /\ UNCHANGED <<file, cfgVars, held, rlVars, reload, shutdown, running,
                   httpPc, putVer, counts, seen>>

\* http_stop: tell the gateway thread to leave.
StopGateway ==
    /\ mainPc = "stop"
    /\ running' = FALSE
    /\ mainPc' = "join"
    /\ UNCHANGED <<file, cfgVars, held, rlVars, reload, shutdown, httpPc,
                   toFree, putVer, counts, seen>>

Join ==
    /\ mainPc = "join"
    /\ httpPc = "exited"
    /\ mainPc' = "channels"
    /\ UNCHANGED <<file, cfgVars, held, rlVars, reload, shutdown, running,
                   httpPc, toFree, putVer, counts, seen>>

\* channels_cleanup joins the discord thread and forgets g_cfg.
channels_cleanup ==
    /\ mainPc = "channels"
    /\ cfg' = NoCfg
    /\ held' = [held EXCEPT !["discord"] = NoCfg]
    /\ mainPc' = "skills"
    /\ UNCHANGED <<file, loads, version, freed, live, stale, rlVars, reload,
                   shutdown, running, httpPc, toFree, putVer, counts, seen>>

\* Mutant: the watcher thread is not joined.
Mut_skills_cleanup ==
    /\ mainPc = "skills"
    /\ mainPc' = "stale"
    /\ UNCHANGED <<file, cfgVars, held, rlVars, reload, shutdown, running,
                   httpPc, toFree, putVer, counts, seen>>

\* skills_cleanup joins the watcher.
skills_cleanup ==
    /\ mainPc = "skills"
    /\ held' = [held EXCEPT !["watch"] = NoCfg]
    /\ mainPc' = "stale"
    /\ UNCHANGED <<file, cfgVars, rlVars, reload, shutdown, running, httpPc,
                   toFree, putVer, counts, seen>>

\* How often a configuration is in the stale queue.
Queued(c) == Cardinality({i \in 1 .. Len(stale) : stale[i] = c})

stale_free_all ==
    /\ mainPc = "stale"
    /\ freed' = [c \in Cfgs |-> freed[c] + Queued(c)]
    /\ stale' = <<>>
    /\ mainPc' = "free"
    /\ UNCHANGED <<file, loads, version, cfg, live, held, rlVars, reload,
                   shutdown, running, httpPc, toFree, putVer, counts, seen>>

\* config_free of the pointer main() read, and the end of the process.
FreeLive ==
    /\ mainPc = "free"
    /\ freed' = [freed EXCEPT ![toFree] = @ + 1]
    /\ mainPc' = "done"
    /\ UNCHANGED <<file, loads, version, cfg, live, stale, held, rlVars, reload,
                   shutdown, running, httpPc, toFree, putVer, counts, seen>>

-----------------------------------------------------------------------------
(* The gateway thread. *)

\* A request handler reads the configuration, without the agent mutex.
RequestBegin ==
    /\ httpPc = "idle"
    /\ running
    /\ held' = [held EXCEPT !["http"] = live["http"]]
    /\ httpPc' = "request"
    /\ UNCHANGED <<file, cfgVars, rlVars, reload, shutdown, running, mainPc,
                   toFree, putVer, counts, seen>>

RequestEnd ==
    /\ httpPc = "request"
    /\ held' = [held EXCEPT !["http"] = NoCfg]
    /\ httpPc' = "idle"
    /\ UNCHANGED <<file, cfgVars, rlVars, reload, shutdown, running, mainPc,
                   toFree, putVer, counts, seen>>

\* A handler that takes the agent mutex: sessions, cron jobs, and POST /asap,
\* which runs the agent.
LockedRequestBegin ==
    /\ httpPc = "idle"
    /\ running
    /\ lock = "none"
    /\ lock' = "http"
    /\ held' = [held EXCEPT !["http"] = live["router"]]
    /\ httpPc' = "locked"
    /\ UNCHANGED <<file, cfgVars, rl, old, new, reload, shutdown, running,
                   mainPc, toFree, putVer, counts, seen>>

LockedRequestEnd ==
    /\ httpPc = "locked"
    /\ lock' = "none"
    /\ held' = [held EXCEPT !["http"] = NoCfg]
    /\ httpPc' = "idle"
    /\ UNCHANGED <<file, cfgVars, rl, old, new, reload, shutdown, running,
                   mainPc, toFree, putVer, counts, seen>>

\* PUT /api/config: the body is valid and renamed over config.toml; the live
\* configuration is there, so the handler goes on to reload.
PutSave ==
    /\ httpPc = "idle"
    /\ running
    /\ puts < MaxPuts
    /\ SavesOverlap \/ mainPc \in {"loop", "poll", "agent"}
    /\ cfg # NoCfg
    /\ puts' = puts + 1
    /\ file' = [ver |-> file.ver + 1, ok |-> TRUE]
    /\ putVer' = file.ver + 1
    /\ rl' = [rl EXCEPT !["http"] = "lock"]
    /\ httpPc' = "put"
    /\ UNCHANGED <<cfgVars, held, lock, old, new, reload, shutdown, running,
                   mainPc, toFree, hups, edits, seen>>

\* The handler answers 200, or 500 when the reload failed.
PutReply ==
    /\ httpPc = "put"
    /\ rl["http"] = "off"
    /\ httpPc' = "idle"
    /\ UNCHANGED <<file, cfgVars, held, rlVars, reload, shutdown, running,
                   mainPc, toFree, putVer, counts, seen>>

\* http_thread_fn leaves its loop.
HttpExit ==
    /\ httpPc = "idle"
    /\ ~running
    /\ httpPc' = "exited"
    /\ UNCHANGED <<file, cfgVars, held, rlVars, reload, shutdown, running,
                   mainPc, toFree, putVer, counts, seen>>

-----------------------------------------------------------------------------
(* The discord thread, the signals and the editor. *)

\* The discord thread looks up the allowlist, until it is joined.
DiscordRead ==
    /\ cfg # NoCfg
    /\ held' = [held EXCEPT !["discord"] =
            IF @ = NoCfg THEN live["channels"] ELSE NoCfg]
    /\ UNCHANGED <<file, cfgVars, rlVars, reload, shutdown, running, mainPc,
                   httpPc, toFree, putVer, counts, seen>>

on_hup ==
    /\ hups < MaxHups
    /\ hups' = hups + 1
    /\ reload' = TRUE
    /\ UNCHANGED <<file, cfgVars, held, rlVars, shutdown, running, mainPc,
                   httpPc, toFree, putVer, puts, edits, seen>>

\* SIGINT, SIGTERM, or the end of a one-shot message.
on_signal ==
    /\ ~shutdown
    /\ shutdown' = TRUE
    /\ UNCHANGED <<file, cfgVars, held, rlVars, reload, running, mainPc,
                   httpPc, toFree, putVer, counts, seen>>

\* Somebody edits config.toml, well or badly.
EditFile(ok) ==
    /\ edits < MaxEdits
    /\ edits' = edits + 1
    /\ file' = [ver |-> file.ver + 1, ok |-> ok]
    /\ UNCHANGED <<cfgVars, held, rlVars, reload, shutdown, running, mainPc,
                   httpPc, toFree, putVer, hups, puts, seen>>

Done == mainPc = "done" /\ UNCHANGED vars

MainNext ==
    \/ tools_init
    \/ ToolsInitFails
    \/ FailedJoin
    \/ LoopReload
    \/ LoopNoReload
    \/ PollNothing
    \/ AgentBegin
    \/ AgentEnd
    \/ LoopExit
    \/ StopGateway
    \/ Join
    \/ channels_cleanup
    \/ skills_cleanup
    \/ stale_free_all
    \/ FreeLive

HttpNext ==
    \/ RequestBegin
    \/ RequestEnd
    \/ LockedRequestBegin
    \/ LockedRequestEnd
    \/ PutSave
    \/ PutReply
    \/ HttpExit

Next ==
    \/ MainNext
    \/ HttpNext
    \/ \E t \in Threads : Reloading(t)
    \/ DiscordRead
    \/ on_hup
    \/ on_signal
    \/ \E ok \in BOOLEAN : EditFile(ok)
    \/ Done

Spec == Init /\ [][Next]_vars

\* The threads go on, a waiter for the agent mutex gets it in the end, and the
\* agent and the request handlers end.  Signals, edits and requests may stay
\* away.
Fairness ==
    /\ WF_vars(tools_init \/ ToolsInitFails)
    /\ WF_vars(FailedJoin)
    /\ WF_vars(LoopReload)
    /\ WF_vars(LoopNoReload)
    /\ WF_vars(PollNothing)
    /\ WF_vars(AgentEnd)
    /\ WF_vars(LoopExit)
    /\ WF_vars(StopGateway)
    /\ WF_vars(Join)
    /\ WF_vars(channels_cleanup)
    /\ WF_vars(skills_cleanup)
    /\ WF_vars(stale_free_all)
    /\ WF_vars(FreeLive)
    /\ WF_vars(RequestEnd)
    /\ WF_vars(LockedRequestEnd)
    /\ WF_vars(PutReply)
    /\ WF_vars(HttpExit)
    /\ \A t \in Threads : SF_vars(Reloading(t))

FairSpec == Spec /\ Fairness

-----------------------------------------------------------------------------
(* Properties. *)

\* No config_t is freed twice: reload.c retires the live pointer of bootstrap.c
\* "so a later SIGHUP does not double-free", and main() frees the last one.
FreedOnce == \A c \in Cfgs : freed[c] <= 1

\* No thread works with a config_t that was freed: the retired ones are kept
\* until the gateway, discord and watcher threads are joined.  None is freed
\* twice, and once the process is down every one that was loaded is freed: none
\* is lost between the reloads of the two threads (reload.c:70-96, main.c:204).
NoUseAfterFree ==
    /\ \A r \in Readers : held[r] # NoCfg => freed[held[r]] = 0
    /\ FreedOnce
    /\ mainPc = "done" => \A c \in 1 .. loads : freed[c] = 1

\* While the main loop runs and nobody is reloading, every subsystem reads the
\* same configuration, the one the next reload will retire.
LiveAgree ==
    mainPc \in {"loop", "poll", "agent"}
      /\ (\A t \in Threads : rl[t] \in {"off", "lock"})
        => \A k \in Consumers : live[k] = cfg

\* PUT /api/config answers 200 only when the live configuration is the saved
\* one or a newer one, even when a SIGHUP is reloading at the same time.
PutApplied ==
    rl["http"] = "unlock" /\ new["http"] # NoCfg => version[cfg] >= putVer

\* A SIGHUP is never lost: once it is delivered, a reload reads the file as it
\* is or newer, also when the signal arrives during a reload or a save, unless
\* the process is on its way down.
HupHonoured ==
    \A v \in Versions :
        (reload /\ file.ver >= v) ~> (seen >= v \/ shutdown \/ mainPc = "done")

\* SIGTERM ends the process: nobody waits for ever for the agent mutex or for
\* the gateway thread.
Terminates == shutdown ~> mainPc = "done"
=============================================================================
