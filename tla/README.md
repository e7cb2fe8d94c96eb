# Specifications of shellclaw

TLA+ models of the parts of shellclaw in which threads, signals, failures and
restarts meet, checked with TLC on small instances and, for some of them, proved
with TLAPS for every size. Paths below are
relative to `src/` of the repository.

## The system

shellclaw is one process. The **main thread** (`core/main.c`) polls the channels
in turn, runs the agent on what arrives, sends the answer, and serves SIGHUP and
SIGTERM. The **gateway thread** (`gateway/http.c`, `http_lws.c`) runs
libwebsockets and serves HTTP and WebSocket clients. A **discord thread**
receives events of the Discord gateway, and a **skill watcher** follows the
skills directory. Threads meet at the agent mutex (`agent_lock`), at the mutex
of the WebSocket queues, and at pointers to the live configuration. SQLite
(`core/memory.c`) keeps the sessions and the cron jobs across restarts.

| component | state | operations | what is hard | what makes it correct |
|---|---|---|---|---|
| WebSocket hub `gateway/ws.c`, `channels/webchat.c` | connection table, two bounded queues, wake-up pipe | register, unregister, enqueue, dequeue, send, broadcast, writable callbacks | two threads, wake-ups, one queue for all clients, destroying the context | order, no lost wake-up, no orphan frames |
| Gateway life cycle `gateway/http.c` | context, thread, running flag | start, stop | join, late callers | the context is not used after it is destroyed; stop returns |
| HTTP transport `http_lws.c`, `asap_http_body.c` | body buffer and answer of a connection | request, body, completion, writable, closed | a body in pieces, callbacks that may not come | one dispatch, of the whole body |
| Cron `tools/cron.c`, `core/dispatch.c`, `channels/heartbeat.c` | rows in SQLite, table of offered jobs | create, delete, toggle, poll, acknowledge | crash or failure between send and commit, bounded table, ids used again | no job lost, put off or starved |
| Sessions `core/agent.c`, `core/memory.c` | transcript of a session | load, compact, chat, tool round, save, reset | failed calls, limits, what a compaction forgets | roles alternate, nothing is forgotten unread |
| Reload `core/reload.c`, `main.c`, `bootstrap.c`, `gateway/routes.c` | live configuration, its copies, the stale list | start, SIGHUP, PUT /api/config, stop | ownership across threads, a second signal, start and stop | freed once and not in use, all agree |
| Provider router `providers/router.c` | chain, active index, snapshot | chat with fallback, recovery probe, status | main loop against gateway thread | the chain comes back to its first backend |
| Pairing `gateway/auth.c`, rate limit `gateway/rate_limit.c` | token file, pairing code, two tables | pair, check, count | full tables, crash while saving | tokens kept, a code used once, throttling |
| Manifest keys `asap/manifest_keys.c` | two key files, backups, keys in memory | create, load, rotate, prune | crash between two renames | signatures match, published keys kept |
| ASAP server `asap/server.c`, client `asap/client.c` | agent lock, requests in progress | dispatch, invoke, time out | daemons waiting for each other, sessions by sender | every turn ends, a session per sender |
| ASAP registry `asap/registry.c`, `tools/asap_invoke.c` | cached index | resolve, refresh, check the revocation list | stale cache, unreadable list | never to a revoked agent, address not stale |
| Discord `channels/discord.c` | session id, sequence number, buffer, queue | receive, resume, identify, reconnect, poll | fragments, resumes, stop | messages once, in order, none missed |
| Telegram `channels/telegram.c` | update offset | poll, handle, restart | offset lost at a restart | every message handled, none blocks the rest |
| Sending `channels/channel_common.c` | cursor in the reply | cut, post, retry | cuts inside a character, retries | the reply arrives whole |
| Shell and sandbox `tools/shell.c`, `sandbox/sandbox.c` | child processes, pipes, control group | fork, isolate, drain, kill, reap | time-outs, background processes | nothing is left running |
| Context `tools/context*.c` | place, two caches, last answer | resolve, fill, snapshot | caches across midnight and years | an answer fits together |
| Skills `core/skill.c` | files, cache, inotify queue, editor | scan, watch, create, update, delete, get | changes during a scan, cuts | cache fresh, no skill cut |
| Configuration `core/config.c`, `config_patch.c` | the file | load, patch | edits of text that knows little of TOML | what is saved is loaded, the rest unchanged |
| Hardware, crypto, daemon | devices, keys, pid file | | | not modelled, see the end |

`PROJECT.json` lists every component with its sources and its status, and every
hazard at the line where it bites.

## Modules

| module | models | run |
|---|---|---|
| `WsQueue` | `gateway/ws.c`, the WebSocket callbacks of `http_lws.c`, `http_start`/`http_stop`, `webchat.c` | `ws_delivery`, `ws_progress` |
| `WsQueueProofs` | theorems about `WsQueue` | |
| `CronDelivery` | `tools/cron.c`, the cron tables of `memory.c`, `dispatch.c` | `cron`, `cron_hidden`, `cron_reuse` |
| `ConfigReload` | `reload.c`, `main.c`, `bootstrap.c`, `PUT /api/config` | `reload`, `reload_at_stop` |
| `AgentSession` | `agent.c` and the sessions table of `memory.c` | `session`, `session_wiped` |
| `Inbox` | what a receiving channel promises (abstract) | `channels` |
| `DiscordSession` | `discord.c`, `discord_helpers.c`; implements `Inbox` | `channels` |
| `TelegramPoll` | polling of `telegram.c` | `channels` |
| `ProviderRouter` | `router.c`, the availability of the server in `local.c` | `remote` |
| `AsapPeers` | `asap/server.c`, `client.c`, `envelope.c`, `POST /asap`: several daemons | `remote` |
| `ManifestKeys` | `manifest_keys.c`, its use by `bootstrap.c`, `manifest_sign.c` and `--rotate-keys` | `services` |
| `ManifestKeysProofs` | theorems about `ManifestKeys` | |
| `AsapDelegation` | `asap_invoke.c`, `registry.c`, `client.c`, the answers of `envelope.c` | `services` |
| `GatewayAccess` | `auth.c`, `rate_limit.c`, `POST /pair` | `services` |
| `HttpExchange` | the HTTP callbacks of `http_lws.c`, `asap_http_body.c`, `static.c` | `services` |
| `CommandExec` | `shell.c`, `sandbox.c`, `sandbox_landlock.c` | `services` |
| `ChunkedSend` | `channel_common.c`, the sends of `discord.c` and `telegram.c` | `services` |
| `ContextTool` | `context.c`, `context_geo.c`, `context_cache.c`, `context_http.c` | `services` |
| `SkillStore` | `skill.c`, the skill routes of `routes.c` | `services` |
| `ConfigPatch` | `config_patch.c`, what `config.c` loads | `services` |
| `CronDeliveryProofs`, `AgentSessionProofs` | theorems about those modules | |
| `ConfigReloadProofs` | theorems about `ConfigReload` and `ConfigPatch` | |
| `ChannelProofs` | theorems about `DiscordSession`, `TelegramPoll` and `ChunkedSend` | |
| `GatewayProofs` | theorems about `HttpExchange`, `GatewayAccess` and `AsapPeers` | |
| `ToolProofs` | theorems about `AsapDelegation`, `CommandExec`, `ContextTool` and `SkillStore` | |
| `MC...` | what TLC needs besides: symmetry, documents, texts and files to choose from | |

`MCChannels`, `MCRemote` and `MCServices` put several components into one run.
Components that share no state are not interleaved: the variable `focus` is
chosen in the initial state, the part it names moves and all others stay as they
are. Those parts meet only at the agent lock, which each module has where it
matters (an invocation of a tool excludes a reload, for instance).
The parts are extended beside each other there and in the modules of proofs, so
most specifications have names of their own (`TelegramSpec`, `HttpSpec`,
`AccessSpec`, `DelegationSpec`, `ExecSpec`, `ContextSpec`, `SendSpec`,
`SkillSpec`, `PatchSpec`, `PeersSpec`).

Definitions keep the names of the C functions where one function is one action.
A critical section is one action; what a thread does after it releases the mutex
is another. The `map` of `PROJECT.json` gives the lines of each definition.
`Mut_...` operators are plausible mistakes in the definition that follows them;
nothing uses them but the mutants of `PROJECT.json`, each of which makes TLC
find its property violated.

### WsQueue

`conns` is `g_conns`, `incoming` and `outgoing` are the two lists, `outCount` is
`g_outgoing_count`. The outgoing list is kept per connection, which no reader can
tell from the C list because all of them filter by `conn_id`. `pipe` is the byte
that `lws_cancel_service` writes, `armed` the writable callbacks requested of
libwebsockets. `mainPc` follows `http_start`, sends and `http_stop`, `lwsPc` the
callbacks. A callback of the current `lws_service` call may still run after
`running` is cleared. `accepted` and `written` are history.

* `NoLostWakeup`: whenever a live connection has a frame queued, somebody is on
  the way to write it: a wake-up byte, an armed callback, or a step that leads to
  one.
* `InOrder`: what was written to a socket, the frame in flight and the queue are
  together what was accepted, in order, as long as no write failed.
* `NoOrphanFrames`: the shared queue holds frames of registered clients only.
* `NoLateCancel`: `lws_cancel_service` is never called on a destroyed context.
* `NoIdReuse`: a connection id never names a second client (proved, no run of
  its own).
* `EventuallyWritten`, `GatewayStops`: under fairness.

### CronDelivery

A row of `jobs` has the ticks until `next_run`; an offer has its age up to the
poll timeout. The main thread goes through `poll`, `wait`, `run`, `send`, `ack`;
creation, deletion and toggling come between any two of its steps, and so may a
restart, which keeps the rows and clears the offers. `ReminderKept` says that a
job that has not been delivered is still in the table (unless a user
deleted it); `AdvanceOnlyFired` that a recurring job is advanced only by a
delivery and none is offered again within the poll timeout, although the table of
offers is too small for all; `EventuallyFired` is the liveness of it all. Of a
recurring job the history `fired` tells the first delivery only: a later advance is
checked for its order after that one, not for a delivery of its own.

Two runs expect a violation. `cron_hidden`: a job whose handling takes longer
than the poll timeout is always picked first again, so later jobs starve.
`cron_reuse`: an acknowledgement goes by id alone, so it can delete a new job
under an id used again.

### ConfigReload

Configurations are numbered by load. `cfg` is what `bootstrap_get_cfg` returns,
`live` what each consumer keeps, `stale` the list of retired ones, `freed` how
often each was freed, `held` what a thread is reading. `NoUseAfterFree` is the
ownership: each is freed at most once, never while it is held or live, and none
is left at the end. `LiveAgree` and `PutApplied` say that after a
reload every subsystem has the new configuration and that a PUT is answered only
once its file is live; `HupHonoured` and `Terminates` are liveness.

With `SavesOverlap = TRUE` a PUT may overlap the start or the stop, and two
properties fail. The run `reload_at_stop` expects one of them: main() reads the
live pointer before it joins the gateway thread, so a configuration is freed
twice. The other is `LiveAgree`: the gateway serves before `tools_init`, which
puts back the configuration a PUT has replaced; the same configuration file with
`LiveAgree` in place of `FreedOnce` shows it.

### AgentSession

A message is its role, its length and the set of original messages it covers; a
summary covers all it summarises. The run of the agent goes through `load`,
`scan` (filling the summary source), `summarize`, `chat` and the save; every call
of the provider may fail, a save may be refused for size, and the process may
die. `RequestAlternates`: the transcript of every request alternates roles.
`NothingForgotten`: what was stored is still covered by the row.
`OnlyWholeExchanges`: the row changes by whole exchanges, by a compaction that
shortens it, or by a reset, and one above the limit is never overwritten.
`session_load` returns -1 both for "no row" and for an error of SQLite; `misread` remembers such an error. `NothingForgotten` is about
the behaviours without one, and the run `session_wiped` expects the violation of
`NothingWiped`, which is about all of them.

### ManifestKeys

A key pair is a number; `priv` and `pub` are the two files, `privBaks` and
`pubBaks` the backups by second. The daemon creates the pair at its first start,
reads the files at later ones and when a request finds the keys dropped, and
signs; a rotation is a process of its own that runs beside it. Every file
operation is a step, may fail, and may be the last one of its process; live
files are replaced by rename, backups are written in place, so a crash may leave
a part of one (`Cut`). `SignsMatching`: a manifest is signed with the private
half of the public key it carries. `PublishedKept`: a key that has signed stays
on disk until `Keep` later backups were begun. `PairIntact` (proved, no run of
its own): the two files belong together whenever nobody is writing, unless a
crash or a second failure hit between the two writes (`torn`); a rotation that
ends repairs the pair.

Two things are assumed of the operator and have names: `Alone` (no rotation
while the daemon creates its first pair) and `OncePerSecond` (two rotations in
one second would write the same backup, and the first pair would be lost).

### ProviderRouter

`backends` is what is left of `fallback_chain` after unknown names, duplicates
and providers without a key are skipped. A chat goes down the list under the
agent lock; the tick of the main loop reads the active index, probes the backends
before it and switches back without that lock. `up` is the set of servers that
answer; they come and go. A server that answers a probe may still fail a chat,
as in the code, where a probe only asks for a transport without error.
`RecoversInTheEnd`:
when the first backend answers for good, the snapshot comes back to it again and
again. `LocalServes`: a local server that was down at start serves in the end
when it is up for good and chats reach it, however fast they come. The tick may
overwrite the index of a newer chat with an older choice; `RecoversInTheEnd`
shows that this heals.

### Inbox and DiscordSession

`Inbox` is what a receiving channel promises the main loop: messages are
accepted once and in the order of their numbers, and taken in that order.
`DiscordSession` implements it (`InboxKept`, with the last number accepted read
from the history `got`).

The service thread has one action per callback of libwebsockets and per pass of
its loop: `Established`, `Receive`, `Writeable`, `ConnectionClosed`,
`ConnectionFails`, `StartConnect`, `StartFails`, `AskHeartbeat`. `rx` and `skip`
are the buffer for fragments, `sid` and `seq` the session to resume, `sched`,
`outbound` and `conn` decide whether the loop connects again. The gateway of
Discord is external: it numbers the events of a session and replays them one
after the other when it is resumed (`GatewayResumed`), refuses or forgets a
session, and asks for a reconnect. A message has a kind and a number of
fragments (`Shapes`).

* `NoSplice`: the buffer never holds fragments of two payloads.
* `NothingMissed`: no event up to the number that the next RESUME carries was
  passed over, unless it did not fit or is not for the agent.
* `InboxKept`: no message twice or after a later one.
* `DiscordReconnects`: the channel is connected again in the end.

### TelegramPoll

`last` is `last_update_id`, which is in memory only; `kept` are the updates the
server has not seen confirmed. `HandledOnce`: what the server has forgotten was
handled, and more than once only by a process that was started again (a restart
may repeat the last message; the code does not claim otherwise).
`LaterHandled`: an update that is ignored does not block the ones behind it.

### AsapPeers

Several daemons, each with one agent lock and two threads that need it. A turn
may post to a peer, or to its own daemon, and waits with the lock held.
`TurnsEnd`: every lock is released in the end, by the timeout of the client if
by nothing else. `OwnSession`: "ok" is answered only when the agent ran, and no
two senders share a session. An envelope without a sender gets the session of a
sender called "inbound"; `SendersAssumption` says that the two do not both occur.

### AsapDelegation

One invocation of `asap_invoke` after the other: check the revocation list, find
the address in the cached index of the registry, post, read the answer. The
documents, the configuration and the clock change in between. The index of a
registry is the sequence of its complete items, and the entry of an URN is the
first one that has it. `past` is history: when each registry last gave each
address for an URN. `NeverToRevoked` and `AddressCurrent` say whom a task is
posted to, and where.

### GatewayAccess

`file` is the token file and `form` what a reader meets: nothing, an array, text
that is no array, or a file that cannot be opened. `pair` is a pairing between its
steps, `lockout` and `rate` are the two tables. The process may crash at any step, a
write or a rename may fail, the owner may edit or remove the file, and it may be
unreadable for a while.

A code is issued when the file is empty, missing or cannot be opened
(`auth.c:46-47`): tokens may then be stored that nobody sees. A pairing that still
cannot read the file starts from an empty array and its rename replaces every
stored token (`auth.c:254-267`); one that comes after the file is readable again
adds to them. So a second device is paired, as `auth.c:251` has it, only by way of a
file that the gateway could not open when it started, or one that the owner put
there afterwards.

`TokensKept`: a token that was given is valid whenever the file can be opened,
through crashes and failed writes of later pairings, until the cap, the owner or a
pairing that could not read the file removes it (`gone`), and a code is good for one
token. `ThrottleHolds`: in any stretch as long as the window, the histories `tries`
and `taken`, the times of an address's wrong codes and requests in order, have at
most `MaxFails` of the first and `2 * Rpm - 1` of the second: a burst across the end of
a window gets nearly twice the rate, and the bound is reached. It is about the addresses
the table remembers: a full lockout table gives up slot 0 although its lockout is
running, and its history is forgotten with it.

### HttpExchange

One keep-alive connection. `conn` is its `http_conn_t`, `toCome` what
libwebsockets has not handed over of the body, `calls` the dispatches of the
request. libwebsockets may leave out the completion of a body, cuts it as it
likes and may close at any time. `OneWholeDispatch`: a route runs at most once
for a request and is given the whole body. The writable callback of a static
file is not asked for again after a chunk, which the model has, and no property
is about: whether the rest is sent depends on other events of the socket.

### CommandExec

The processes of a shell command: the wrapper of the sandbox, the command and
what it starts in the background, with their process group, the ends of the pipes
they hold and pending signals. `NothingLeft`: when the tool returns, every
process is dead or about to be, on each path through isolation, draining,
time-out and reaping; without the sandbox a process that left the group is
excepted. Two things in the code differ from its comments without an effect on
this: the parent takes the end of the isolation pipe for success where the
comment says it fails closed (the command has not run then), and the removal of
a control group whose processes are still dying is refused and not tried again
(`left` counts them).

### ChunkedSend

The text is a sequence of bytes of which only matters whether they begin a
character. `ReplyWhole`: what arrived is a prefix of the reply, in order, cut at
characters, all of it when the send reports success, and the place that is
logged on an error is right but for a piece whose answer was lost. The back-off
of Discord doubles, has a floor (`LeastWait`) and a cap. The wait the service asks
for is a whole number here; the code turns `retry_after`, a double, into one.

### ContextTool

`geo`, `wx` and `hy` are the place and the two caches. An invocation takes its
steps while the clock goes on, and any of the three services may fail.
`ContextRight`: the parts of an answer fit together, across midnight and the end
of a year. Its exceptions are in the code: midnight may pass between taking the
date and fetching the forecast; when the second of two years cannot be fetched,
the first is cached alone. A place that could not be found is not looked for again
while the process lives.

### SkillStore

A content is a version and how much of it there is. The watcher loads, sets its
watch, and scans file by file while the service thread and the owner change
them. The owner writes in place, in two steps: the file is cut and partly written,
then whole. `CacheFresh`: a watcher with nothing to do serves what is on disk; a change
between the first load and the watch is the exception (`missed`), and without
inotify the cache is never refreshed. `NeverCut`: opening a skill in the editor and
saving it never shortens it, also after edits of the owner and with versions that do
not fit the editor or the answer. `skill_get_content` compares the length it measured
with what it read (`skill.c:340-360`), so a half-written file whose length does not
change in between is given out as whole, and a save of it is cut: `raced` names the
files saved from such a text, until they are written again, and a file that the owner
is writing at the moment is excepted too.

There is one directory. The cache and the watcher keep to the one they were started
with: `skill_load_all` gives the cache whatever configuration it is called with
(`skill.c:243-252`), and `g_watch_cfg` is set once (`skill.c:508`). After a reload
that changes `skills.dir` the agent is therefore still served the old directory, while
the dashboard reads and writes the new one. The owner's deletions are like those of
the dashboard; a file is read in one step.

### ConfigPatch

The file is a sequence of lines: headers and keys, with or without a comment behind
them, and comments, with or without a newline at the end; the five fields are applied
in the order of the code.
`PatchRight`: a save that is accepted sets what it names,
changes nothing else, and leaves a file that loads. `Blind` names the layouts in
which the save is accepted and the field is not set: an indented header (the key
goes into another table), and a comment at the end of the file without a newline, on
a line of its own or behind a key or a header (it swallows the key). Strings over
several lines are not among the lines: the text scan would take a line inside one
for a header or a key. A save of a field that an environment variable overrides has no live effect;
a port is not checked for its range; a host with a control character is stored and
then replaced by the default at load.

## Runs and bounds

| run | instance | why it is enough |
|---|---|---|
| `ws_delivery` | 2 slots, 2 clients, queues of 2, 3 sends, 3 messages received, 2 texts | both queues are full and refuse, a broadcast meets a send, a client leaves with frames queued |
| `ws_progress` | 2 slots, 3 clients, 2 sends, fairness | a slot is used again, a frame behind another one, stop in between |
| `cron` | 2 jobs, 1 slot of the offer table, 2 creations, 1 restart, fairness | more offers than slots, a crash at each step |
| `cron_hidden` | 2 jobs, 2 slots, fairness of the loop | one job behind another |
| `cron_reuse` | 1 id, 2 creations, ids of the callers | an id used again |
| `reload` | 2 SIGHUPs, 1 PUT, 1 edit of the file, fairness | a signal during a reload, a PUT between two |
| `reload_at_stop` | 1 PUT that may overlap the stop | |
| `session` | context of 3 messages, 1 tool round, 6 turns | two compactions, a summary that is summarised, a source that is full |
| `session_wiped` | the same with 3 turns | |
| `channels` | Discord: buffer of 2 fragments, 5 shapes of messages, 2 messages, 2 faults, 1 order of the gateway; Telegram: 3 updates, 2 restarts; fairness | payloads that fit, just do not, and exceed by several fragments; a loss in the middle of a replay; a message behind an ignored one at each restart |
| `remote` | 3 chains of providers, intervals of 2 seconds, 2 changes of a server; 2 daemons, 2 requests, 1 from outside; fairness | the tick skips a backend that is down while both threads fall back; daemons wait for each other and for themselves |
| `services` | see below | |

`services` checks its parts one at a time (2.6 million states in all):

| part | instance | why it is enough |
|---|---|---|
| keys | 4 pairs, 3 seconds, 1 backup kept, 2 collected, 1 chmod | three rotations, more backups than are kept and than are collected, a crash at each step |
| delegation | 1 agent, 2 addresses, 2 registries, time to live 2, 2 changes, 3 documents, 4 lists | an index of the wrong registry, one that is too old, each form of a revoked entry |
| pairing | 3 addresses, cap of 2 tokens, 3 tokens, 2 crashes, 3 changes by the owner | a token is given, the file becomes unreadable, the process starts again with a code, and its pairing reads the file or not and crashes or fails at each step; the cap drops a token |
| lockout | 3 addresses, 2 slots, 2 wrong codes, window of 2, clock up to 3 | the table overflows, a lockout ends and begins again |
| rate | 3 addresses, 2 slots, 2 requests a window, window of 2, clock up to 4 | the table overflows; three requests of an address fall into one stretch across the end of a window |
| http | buffer of 3, limit of 5, 14 requests, 3 on a connection | bodies below, at and above the buffer and the limit, each with and without its length |
| command | 2 commands, with and without the sandbox | what the first leaves meets the second |
| send | texts up to 7 bytes, pieces of 3, 3 attempts | three pieces, characters longer than a piece |
| context | 2 countries, days and years of 2, clock up to 4 | midnight, the end of a year, caches that expire apart |
| skills | 2 files, 3 versions, 3 changes | a change during each step of a scan, and a scan of a half-written file |
| editor | the same without the watcher, 4 changes | an edit of the owner before and between the reads of a skill and before its save; a version that fits the editor and not the answer |
| config | files of up to two tables, 10 saves, 2 in a row | tables in either order, keys of one name in two tables, an end without newline, comments behind the last line |

Counters that the code leaves unbounded (clients, sends, creations, restarts,
signals, turns, requests, changes) are bounded by a constant named `Max...` in
the guards. `channels`, `remote` and `services` do not check for deadlock: each of
their parts does a bounded number of things.

**Fairness.** `WsQueue`: both threads go on with a step they have begun, and
`lws_service` serves every descriptor poll reports (weak fairness per thread
step, strong fairness per connection for its callbacks). `CronDelivery`: the main
loop and time go on; for `EventuallyFired` failures pass (strong fairness of a
success), for `cron_hidden` they need not. `ConfigReload` and `ProviderRouter`:
threads go on (every request of a provider has a time-out), a waiter gets the
agent mutex in the end, and time passes. `DiscordSession`: the service thread
serves its socket and its loop, and the gateway answers, sends and closes what it
has ended. `TelegramPoll`: the main loop polls and handles, and a process that
died is started again. `AsapPeers`: a turn ends unless its tool waits, and a wait
ends by the answer or the time-out; nothing is assumed of the peer. Nothing is
assumed of users, signals, clients' sends, faults or crashes.

## What is proved

`WsQueueProofs` proves, for every number of connections, queue size, number of
clients and set of texts (sizes positive, bounds natural numbers):

* `TypeCorrect`: `Spec => []TypeOK`, with it the bound of the incoming queue;
* `OrphanFree`, `OrderPreserved`, `WakeupsKept`, `CancelSafe`: the invariants of
  `ws_delivery` of the same meaning;
* `IdsFresh`: the action property `NoIdReuse`.

All follow from `Invariance`, `Spec => []IInv`. None of the invariants is
inductive alone. `IInv` adds to them
`LifeInv` (which flags hold at which step of start and stop; needed because a
wake-up counts only while the context is published),
`IdsInv` (ids not handed out yet are unused everywhere; needed so that a new
client starts with empty histories), and
`ServiceInv` (the service thread works only for registered connections, since it
alone unregisters them; needed so that a frame in flight is accounted for).

`ManifestKeysProofs` proves, for every number of pairs, seconds, changes of the
mode and backups kept (at least one, and not more than are collected):

* `KeysTypeCorrect`: the type invariant;
* `SignaturesMatch`: `Spec => []SignsMatching`;
* `FilesMatch`: `Spec => []PairIntact`;
* `KeysKept`: `Spec => []PublishedKept`.

The first three follow from `KeysInvariance`. Its `IInv` adds
`MemoryInv` (what the daemon holds as loaded is one pair; the comparison in
`manifest_keys_pub_matches_priv` is what preserves it when a rotation replaces
the files between the two reads),
`CreationInv` (which files exist at each step of a creation, and that no rotation
runs beside it) and
`RotationInv` (which halves are on disk at which step of a rotation; needed
because `PairIntact` says nothing while one runs, and the rollback must end in a
pair).
`KeysKept` needs the history besides: no key is used and no backup written before
there is a public key (`EmptyInv`), the key on disk is the youngest but for the
one a rotation has generated (`NewestInv`), backups are in the order of their keys
(`BackupInv`), and a key that has signed is on disk or has `Keep` younger backups
behind it (`HeldInv`). The pruning removes a backup only below `Keep` others;
that is counting, with the library's theorems on finite sets.

`ConfigReloadProofs` proves, for any number of signals, saves and edits, when no
save overlaps the start or the stop (`SavesOverlap = FALSE`; with one that does,
the first two fail, see above): `ConfigSafe` (`NoUseAfterFree`), `ConsumersAgree`
(`LiveAgree`) and `SavesApply` (`PutApplied`). `ReloadInv` says who owns each
configuration that is not freed: the queue of retired ones, `bootstrap.c`, or the
reload that has just read it (`OwnInv`). It needs who has the mutex at which stage
(`LockInv`), who may read during which stage of the way down (`HeldInv`), that
loads do not run out (`CountInv`), what the consumers have (`LiveInv`), and that a
save's version is in what its reload has read (`PutInv`).

It also proves `SavesPatchRight`, the action property `PatchRight` of `ConfigPatch`,
for files of any length, with any tables and keys in any order, and for any saves
(`FilesAssumption`: the lines of a file are a sequence). The invariant `TomlInv` is
small, the file parses; the work is in what one patch does to a file that is
`Plain`, one that parses and that the text scan reads as the parser does.
`find_section` and `section_end` enclose exactly the lines that the parser puts into
the table (`SectionLines`). There are five places for the new line (`Places`); at
each, the lines of the old file keep their order and so their tables (`TablesKept`),
which gives `Patched`: the new file is `Plain` and has the same keys with the same
values but for the one that was set (`Sets`). `SaveSets` puts the five fields
together. A line that a patch without a final newline breaks is never mended by a
later one (`BrokenStays`), so the parse at the end of the save vouches for the files
in between.

`AgentSessionProofs` proves `RequestsAlternate`, `ExchangesRemembered`
(`NothingForgotten`) and the action property `WholeExchanges`, for every length of
the context, the messages and the buffers. `SessionInv`: every transcript ends
with the assistant and alternates (`ShapeInv`), only what is longer than the
context is summarised, something of it and nothing that is to be kept
(`ScanInv`), and a run that read the row has what it covers in its transcript or
will not write (`CoverInv`). How the length of the JSON is counted is a fold and
is never expanded: the theorems hold for any count.

`ChannelProofs` has the refinement. `DiscordInvariance` is the invariant
`DiscordInv`: sessions and messages are numbered upwards (`NumbersInv`), and while
the thread runs the client and the gateway agree on whether a session is being
identified, resumed or live (`HandshakeInv`), the fragments on the wire continue
what was reassembled or is skipped (`FrameInv`), a live connection brings, in
order, every event of the log after the client's number (`LiveInv`), and what was
not passed is later than what is in the queue (`LaterInv`). From it follow
`PayloadsWhole` (`NoSplice`), `MessagesKept` (`NothingMissed`) and
`ImplementsInbox` (`Spec => InboxKept`: the first state maps to a first state of
`Inbox` and every step to one of its steps or to none), for any frame limit, any
shapes of messages and any number of connections and faults.

The other results, one invariant each:

| theorem | states | assumes | needs besides |
|---|---|---|---|
| `CronDeliveryProofs!RemindersKept` | `[]ReminderKept`, for any number of jobs, slots, restarts | sizes positive, ids not chosen by callers (with them it fails: `cron_reuse`) | `TableInv`: an id is the number of its creation, so the commit of a row cannot hit another; `LoopInv`: only what was sent is committed. That the query finds a first row at all is `FirstExists`, by a least element |
| `CronDeliveryProofs!AdvancesOnlyFired` | `AdvanceOnlyFired`, an action property | the same | `OfferInv`: a job that was offered less than the poll timeout ago has a slot of its own that is not older, and the loop sleeps until a slot can be taken |
| `ChannelProofs!TelegramHandled` | `[]HandledOnce`, for any number of updates and restarts | `MaxUpdates` is a natural number | `OffsetInv`: what a running process has moved past was handled or ignored, what it has not come to was handled by earlier ones only; `HandInv`: the update in hand is the last one taken and the server still keeps it; `NumberedInv`: no gaps |
| `ChannelProofs!RepliesWhole` | `[]ReplyWhole`, for any text, limits, waits and attempts | limits natural, the limit of a message positive; `BackoffAssumption`: the doubled wait is a natural number (the provers have no powers) | `CursorInv`: the pieces end where the cursor is, and each is cut right; `EndInv`: what is said at the end; `WaitInv` |
| `GatewayProofs!WholeBodies` | `[]OneWholeDispatch`, for requests and buffers of any size | `RequestsAssumption`: a body is not longer than its Content-Length, which libwebsockets guarantees | `BodyInv`: until the dispatch, what was kept and what is to come is the body, or it is marked as too large |
| `GatewayProofs!TokensSafe` | `[]TokensKept`, for any number of tokens, crashes, changes of the file and any cap | the cap is a natural number | `KeptInv`: what was given is stored or was removed, also while nobody can read it; `PendingInv`: at each step of a pairing, the text it is about to write has every token that was given, but for those it drops; `CodeInv`: codes are handed out in order and the pending one has given no token |
| `GatewayProofs!Throttled` | `[]ThrottleHolds`, for any tables, windows and limits | they are positive | `TriesInv`, `TakenInv`: what a slot of the tables says of the history of its address (how many of its last entries lie in the window, and since when), and that an address without a slot has none |
| `GatewayProofs!SessionsOwned` | `[]OwnSession`, for any daemons, outsiders and number of requests | `SendersAssumption` | `PostsInv`: runs have the session of their sender; `ServiceInv`, `AnsweredInv`: what a service thread has in hand was posted, and an answer "ok" comes after the run |
| `ToolProofs!RevokedNeverCalled` | `[]NeverToRevoked`, for any documents, caches and clocks | `ListsAssumption`: an entry of a list is a string or an object | `CallInv`: the check that an invocation carries allows it, from the check to the post |
| `ToolProofs!AddressesCurrent` | `[]AddressCurrent`, for the same | the items of a registry are a sequence of entries; the time to live is positive, as the code makes it | `CacheInv`: what the cached index leads to was given by its registry when it was fetched or later; `RouteInv`: an address that was resolved is current |
| `ToolProofs!CommandsEnd` | `[]NothingLeft`, for any number of commands | nothing | `WrapperInv`: the wrapper does not die before the command; `KilledInv`: after the kill nothing can be started; `ForksInv`: which states each process goes through |
| `ToolProofs!AnswersFit` | `[]ContextRight`, for any calendars, lengths of day and year, and clock | lengths positive, a forecast kept no longer than a day | `CachesInv`: what a cache serves was fetched for what it is asked for; `TimeInv`: the date of an answer was taken while it was made |
| `ToolProofs!SkillsFresh` | `[]CacheFresh`, for any files, lengths and limits | `SkillsAssumption`: lengths and limits are natural numbers | `SkillCacheInv`: a scan that has no event to come back for, and the cache it becomes, are what some order of the files gives as they are on disk now (`Scanned`); while a scan runs, the files it has come to, and a change of one of them leaves an event behind |
| `ToolProofs!SkillsWhole` | `[]NeverCut`, for any files, contents and limits | `SkillsAssumption` | `SkillInv`: what is on disk, on its way there or in the editor is whole, and the file that is read is the one that was measured, unless the owner is writing it or wrote it while it was read |

The assumptions are named in the modules that declare the constants, and TLC
evaluates them on the instance. Every safety invariant and action property that a
passing run checks is proved. Where a definition goes over data (the buffer of a
scan, the table of a line), the induction is an argument about the least place where
two things differ (`LeastNumber`), which needs no induction theorem.

**Only model-checked:**

* All liveness properties (`EventuallyWritten`, `GatewayStops`, `EventuallyFired`,
  `HupHonoured`, `Terminates`, `DiscordReconnects`, `LaterHandled`,
  `RecoversInTheEnd`, `LocalServes`, `TurnsEnd`): liveness under fairness is out of
  reach of the proof system. `ProviderRouter` has no other property.

## What is not modelled and why

* The allowlist of the shell tool scans the text of a command character by
  character; it is one choice in `CommandExec`.
* The parser of cron expressions is calendar arithmetic on `struct tm`; a period
  is a number.
* Hardware tools and drivers are register and device access; what is right is
  a matter of the devices.
* Cryptography, canonical JSON, the JSON of manifests and the dialects of the
  providers are text or arithmetic without a protocol.
* The daemon is `fork`, `setsid` and a pid file. Its lock is released before the
  file is removed (`daemon.c:158-167`): a second process that takes the lock in
  between has its file removed, and a third one can start beside it.
* The log ring and the ids of ASAP, routes that print a status, the memory tools,
  option parsing.
* Memory exhaustion, torn reads of pointers, the text of messages and prompts.
  Sockets, SQLite, curl, libwebsockets, the kernel and the remote services are
  modelled by the results the code handles.
* `ws_send_to` reports success for a client that has gone (`ws.c:377`), so a cron
  job of a closed web chat is acknowledged: in `CronDelivery` that is a send that
  succeeded.

## What is left

A composition of `CronDelivery` with `WsQueue`, for the acknowledgement of a
job whose client has gone.
