--------------------------- MODULE CronDelivery ---------------------------
(***************************************************************************)
(* Delivery of scheduled jobs: the cron channel (tools/cron.c), the rows   *)
(* it keeps in SQLite (core/memory.c), and the main loop that runs the     *)
(* agent on a due job, sends the answer and commits the delivery           *)
(* (core/main.c, core/dispatch.c).                                         *)
(*                                                                         *)
(* The main thread polls, runs, sends and acks.  Jobs are created, deleted *)
(* and toggled by the gateway thread (gateway/routes.c) when the agent     *)
(* mutex is free, and by the agent's own cron tool while it is held, so    *)
(* these steps may come between any two steps of the main thread.  The     *)
(* process may die at any moment; the rows survive, the rest does not.     *)
(*                                                                         *)
(* Time is relative: a row counts the ticks until next_run (not positive   *)
(* when it is due; long overdue rows keep only their order), an offer      *)
(* counts its age up to Window, the poll timeout after which a job may be  *)
(* offered again.                                                          *)
(***************************************************************************)
EXTENDS Integers, FiniteSets

CONSTANTS
    MaxJobs,       \* job ids in play
    OfferTrack,    \* CRON_OFFER_TRACK: slots of s_offers
    Window,        \* POLL_TIMEOUT_MS, in ticks
    MaxLate,       \* how far overdue the model tells apart
    Period,        \* the interval of recurring jobs, in ticks
    Snooze,        \* the 365 days a rejected schedule is put off, in ticks
    MaxCreates,    \* bound on the jobs ever created
    MaxRestarts,   \* bound on the restarts of the process
    ExplicitIds    \* TRUE when callers may name the id of a new job

ASSUME SizesAssumption ==
    /\ MaxJobs \in Nat \ {0}
    /\ OfferTrack \in Nat \ {0}
    /\ Window \in Nat \ {0}
    /\ MaxLate \in Nat /\ MaxLate >= MaxJobs - 1
    /\ Period \in Nat \ {0}
    /\ Snooze \in Nat \ {0}
    /\ MaxCreates \in Nat \ {0}
    /\ MaxRestarts \in Nat
ASSUME ExplicitIdsAssumption == ExplicitIds \in BOOLEAN

VARIABLES
    jobs,       \* table cron_jobs: id -> row, NoJob when there is none
    offers,     \* s_offers: slot -> offer, NoOffer when id is empty
    pc,         \* where the main thread is
    cur,        \* user_id of the message being handled
    curGen,     \* which creation of that id the row was read from
    agentOk,    \* agent_run returned 0
    sleep,      \* ticks left of the re-offer sleep
    creates,    \* jobs created so far: generations 1 .. creates
    restarts,   \* restarts so far
    fired,      \* history: generations answered and sent with success
    removed,    \* history: generations deleted on request
    since       \* history: ticks since the last offer of an id not acked

vars == <<jobs, offers, pc, cur, curGen, agentOk, sleep, creates, restarts,
          fired, removed, since>>

Ids == 1 .. MaxJobs
OfferSlots == 1 .. OfferTrack
Gens == 1 .. MaxCreates
NoId == 0
NoGen == 0

\* A row is [kind, due, enabled, gen] with a kind of "at", "interval" or
\* "rejected", an offer [id, age].
NoJob == [kind |-> "none"]
NoOffer == [id |-> NoId]

\* A row that an older version stored with a schedule the parser now rejects.
LegacyRow == [kind |-> "rejected", due |-> 0, enabled |-> TRUE, gen |-> 1]

Init ==
    /\ \/ jobs = [i \in Ids |-> NoJob] /\ creates = 0
       \/ jobs = [i \in Ids |-> IF i = 1 THEN LegacyRow ELSE NoJob]
          /\ creates = 1
    /\ offers = [s \in OfferSlots |-> NoOffer]
    /\ pc = "poll"
    /\ cur = NoId
    /\ curGen = NoGen
    /\ agentOk = FALSE
    /\ sleep = 0
    /\ restarts = 0
    /\ fired = {}
    /\ removed = {}
    /\ since = [i \in Ids |-> Window]

-----------------------------------------------------------------------------
(* The table of offers. *)

Offered(i) == {s \in OfferSlots : offers[s].id = i}

\* cron_slot_reusable: empty, or offered a whole window ago.
cron_slot_reusable(s) == offers[s] = NoOffer \/ offers[s].age >= Window

cron_offer_has_room == \E s \in OfferSlots : cron_slot_reusable(s)

cron_offer_is_hot(i) == \E s \in Offered(i) : offers[s].age < Window

\* cron_due_is_returnable: a job not in the table needs a slot.
cron_due_is_returnable(i) ==
    /\ ~cron_offer_is_hot(i)
    /\ Offered(i) # {} \/ cron_offer_has_room

\* cron_mark_offered: the job's own slot, else the first reusable one; with
\* neither the offer is not remembered.
cron_mark_offered(i) ==
    LET reusable == {s \in OfferSlots : cron_slot_reusable(s)}
        slot == IF Offered(i) # {} THEN Offered(i) ELSE reusable
    IN  offers' = [s \in OfferSlots |->
            IF s \in slot /\ \A r \in slot : s <= r
            THEN [id |-> i, age |-> 0] ELSE offers[s]]

\* cron_offer_release.
cron_offer_release(i) ==
    offers' = [s \in OfferSlots |->
        IF offers[s].id = i THEN NoOffer ELSE offers[s]]

\* How long cron_pick_due_row sleeps before it returns the first due job: the
\* rest of the window, or a whole one for a job that is not in the table.
WaitFor(i) ==
    IF Offered(i) # {}
    THEN Window - offers[CHOOSE s \in Offered(i) : TRUE].age
    ELSE Window

-----------------------------------------------------------------------------
(* The main thread. *)

Due == {i \in Ids : /\ jobs[i] # NoJob
                    /\ jobs[i].enabled
                    /\ jobs[i].due <= 0}

\* Mutant: ORDER BY next_run DESC.
Mut_Before(i, j) ==
    \/ jobs[i].due > jobs[j].due
    \/ jobs[i].due = jobs[j].due /\ i < j

\* ORDER BY next_run ASC, id ASC
Before(i, j) ==
    \/ jobs[i].due < jobs[j].due
    \/ jobs[i].due = jobs[j].due /\ i < j

Returnable == {i \in Due : cron_due_is_returnable(i)}

FirstOf(S) == CHOOSE i \in S : \A j \in S \ {i} : Before(i, j)

\* The message cron_poll hands to the main loop.
Hand(i, gen) ==
    /\ cur' = i
    /\ curGen' = gen
    /\ pc' = "run"
    /\ cron_mark_offered(i)
    /\ since' = [since EXCEPT ![i] = 0]

\* cron_poll finds a due job outside its window.
PollPick ==
    /\ pc = "poll"
    /\ Returnable # {}
    /\ LET i == FirstOf(Returnable) IN Hand(i, jobs[i].gen)
    /\ UNCHANGED <<jobs, agentOk, sleep, creates, restarts, fired, removed>>

\* Every due job is inside its window: cron_pick_due_row copies the first row,
\* releases the agent mutex and goes to sleep.
PollWait ==
    /\ pc = "poll"
    /\ Returnable = {}
    /\ Due # {}
    /\ LET i == FirstOf(Due)
       IN  /\ cur' = i
           /\ curGen' = jobs[i].gen
           /\ sleep' = WaitFor(i)
    /\ pc' = "wait"
    /\ UNCHANGED <<jobs, offers, agentOk, creates, restarts, fired, removed,
                   since>>

\* The sleep is over, and the copied row is handed out, whatever became of it.
WaitDone ==
    /\ pc = "wait"
    /\ sleep = 0
    /\ Hand(cur, curGen)
    /\ UNCHANGED <<jobs, agentOk, sleep, creates, restarts, fired, removed>>

\* A signal ends nanosleep early.  The offer is remembered if there is room.
WaitInterrupted ==
    /\ pc = "wait"
    /\ sleep > 0
    /\ sleep' = 0
    /\ cron_mark_offered(cur)
    /\ since' = [since EXCEPT ![cur] =
            IF cron_offer_has_room \/ Offered(cur) # {} THEN 0 ELSE Window]
    /\ pc' = "run"
    /\ UNCHANGED <<jobs, cur, curGen, agentOk, creates, restarts, fired,
                   removed>>

\* handle_message: agent_run succeeds (or a slash command needs no agent), or
\* fails.
AgentRun(ok) ==
    /\ pc = "run"
    /\ agentOk' = ok
    /\ pc' = "send"
    /\ UNCHANGED <<jobs, offers, cur, curGen, sleep, creates, restarts, fired,
                   removed, since>>

\* Mutant: the answer was sent, so the job is committed, error or not.
Mut_AfterSend == "ack"

\* send_then_maybe_ack_cron after a successful send.
AfterSend == IF agentOk THEN "ack" ELSE "poll"

SendOk ==
    /\ pc = "send"
    /\ fired' = IF agentOk THEN fired \cup {curGen} ELSE fired
    /\ pc' = AfterSend
    /\ UNCHANGED <<jobs, offers, cur, curGen, agentOk, sleep, creates, restarts,
                   removed, since>>

\* Mutant: a failed send falls through to the ack.
Mut_AfterSendError == "ack"

\* send_then_maybe_ack_cron returns the error of the channel.
AfterSendError == "poll"

SendFails ==
    /\ pc = "send"
    /\ pc' = AfterSendError
    /\ UNCHANGED <<jobs, offers, cur, curGen, agentOk, sleep, creates, restarts,
                   fired, removed, since>>

\* The new next_run of a recurring job: one interval on, or 365 days on when
\* the schedule is rejected.
NextDue(kind) == IF kind = "interval" THEN Period ELSE Snooze

\* cron_ack_delivery under the agent mutex: a one-shot row is deleted, another
\* advances, and the offer is released; a row that is gone is an error that
\* leaves the offer in its slot.
cron_ack_delivery ==
    /\ pc = "ack"
    /\ \/ /\ jobs[cur] = NoJob
          /\ UNCHANGED <<jobs, offers, since>>
       \/ /\ jobs[cur] # NoJob
          /\ jobs' = [jobs EXCEPT ![cur] =
                IF @.kind = "at" THEN NoJob
                ELSE [@ EXCEPT !.due = NextDue(jobs[cur].kind)]]
          /\ cron_offer_release(cur)
          /\ since' = [since EXCEPT ![cur] = Window]
    /\ pc' = "poll"
    /\ UNCHANGED <<cur, curGen, agentOk, sleep, creates, restarts, fired,
                   removed>>

\* SQLite refuses the DELETE or UPDATE of the ack: nothing is committed.
AckFails ==
    /\ pc = "ack"
    /\ jobs[cur] # NoJob
    /\ pc' = "poll"
    /\ UNCHANGED <<jobs, offers, cur, curGen, agentOk, sleep, creates, restarts,
                   fired, removed, since>>

-----------------------------------------------------------------------------
(* The other users of the table, time, and the process. *)

\* The id is the caller's or a fresh one; INSERT fails when the id is taken.
cron_create_job(i, kind, due) ==
    /\ creates < MaxCreates
    /\ jobs[i] = NoJob
    /\ ExplicitIds \/ i = creates + 1
    /\ kind = "interval" => due = Period
    /\ jobs' = [jobs EXCEPT ![i] =
            [kind |-> kind, due |-> due, enabled |-> TRUE, gen |-> creates + 1]]
    /\ creates' = creates + 1
    /\ UNCHANGED <<offers, pc, cur, curGen, agentOk, sleep, restarts, fired,
                   removed, since>>

cron_job_delete(i) ==
    /\ jobs[i] # NoJob
    /\ jobs' = [jobs EXCEPT ![i] = NoJob]
    /\ removed' = removed \cup {jobs[i].gen}
    /\ UNCHANGED <<offers, pc, cur, curGen, agentOk, sleep, creates, restarts,
                   fired, since>>

cron_job_toggle(i) ==
    /\ jobs[i] # NoJob
    /\ jobs' = [jobs EXCEPT ![i].enabled = ~@]
    /\ UNCHANGED <<offers, pc, cur, curGen, agentOk, sleep, creates, restarts,
                   fired, removed, since>>

TableChange ==
    \/ \E i \in Ids, kind \in {"at", "interval"}, due \in -MaxLate .. Period :
            cron_create_job(i, kind, due)
    \/ \E i \in Ids : cron_job_delete(i)
    \/ \E i \in Ids : cron_job_toggle(i)

\* The agent's cron tool, while agent_run holds the agent mutex.
cron_tool_execute == pc = "run" /\ TableChange

\* handle_cron_create, handle_cron_delete and handle_cron_toggle: the gateway
\* thread gets the agent mutex whenever the main thread does not hold it.
RouteCron == TableChange

\* A row one tick later.  Rows that are long overdue stay, but never catch up
\* with the row before them: the order of their next_run is kept.
Sooner(d) ==
    IF \E e \in -MaxLate .. (d - 1) :
            \A j \in Ids : jobs[j] = NoJob \/ jobs[j].due # e
    THEN d - 1 ELSE d

\* Time passes: next runs come closer, offers age, the sleeper sleeps.
Tick ==
    /\ pc = "wait" => sleep > 0
    /\ jobs' = [i \in Ids |->
            IF jobs[i] = NoJob THEN NoJob
            ELSE [jobs[i] EXCEPT !.due = Sooner(@)]]
    /\ offers' = [s \in OfferSlots |->
            IF offers[s] = NoOffer THEN NoOffer
            ELSE [offers[s] EXCEPT !.age = IF @ < Window THEN @ + 1 ELSE @]]
    /\ since' = [i \in Ids |-> IF since[i] < Window THEN since[i] + 1 ELSE Window]
    /\ sleep' = IF sleep > 0 THEN sleep - 1 ELSE 0
    /\ UNCHANGED <<pc, cur, curGen, agentOk, creates, restarts, fired, removed>>

\* The process dies, or is stopped, and comes up again with the same database.
Restart ==
    /\ restarts < MaxRestarts
    /\ restarts' = restarts + 1
    /\ offers' = [s \in OfferSlots |-> NoOffer]
    /\ since' = [i \in Ids |-> Window]
    /\ pc' = "poll"
    /\ cur' = NoId
    /\ curGen' = NoGen
    /\ agentOk' = FALSE
    /\ sleep' = 0
    /\ UNCHANGED <<jobs, creates, fired, removed>>

MainNext ==
    \/ PollPick
    \/ PollWait
    \/ WaitDone
    \/ WaitInterrupted
    \/ \E ok \in BOOLEAN : AgentRun(ok)
    \/ SendOk
    \/ SendFails
    \/ cron_ack_delivery
    \/ AckFails

Next ==
    \/ MainNext
    \/ cron_tool_execute
    \/ RouteCron
    \/ Tick
    \/ Restart

Spec == Init /\ [][Next]_vars

\* The main loop goes on, and time passes.
LoopFairness ==
    /\ WF_vars(PollPick)
    /\ WF_vars(PollWait)
    /\ WF_vars(WaitDone)
    /\ WF_vars(\E ok \in BOOLEAN : AgentRun(ok))
    /\ WF_vars(SendOk \/ SendFails)
    /\ WF_vars(cron_ack_delivery \/ AckFails)
    /\ WF_vars(Tick)

\* Failures of the provider, of the target channel and of the disk pass: a job
\* that is tried again and again succeeds in the end.
FailuresPass ==
    \A i \in Ids :
        /\ SF_vars(cur = i /\ AgentRun(TRUE))
        /\ SF_vars(cur = i /\ agentOk /\ SendOk)
        /\ SF_vars(cur = i /\ cron_ack_delivery)

LoopSpec == Spec /\ LoopFairness
FairSpec == Spec /\ LoopFairness /\ FailuresPass

-----------------------------------------------------------------------------
(* Properties. *)

Present(g) == \E i \in Ids : jobs[i] # NoJob /\ jobs[i].gen = g

\* No job is dropped: its row is there until somebody deletes it or, for a
\* one-shot, until the agent has handled it and the answer was sent, whatever
\* fails or crashes in between.
ReminderKept ==
    \A g \in 1 .. creates : Present(g) \/ g \in removed \/ g \in fired

\* cron_poll hands job i to the main loop.
HandsOut(i) == pc \in {"poll", "wait"} /\ pc' = "run" /\ cur' = i

\* The row of job i is put off.
PutOff(i) ==
    /\ jobs[i] # NoJob /\ jobs'[i] # NoJob /\ jobs'[i].gen = jobs[i].gen
    /\ jobs'[i].due > jobs[i].due

\* A job is put off only by the commit of a delivery of that same job: a
\* failed run, a failed send or a crash never costs a recurring job its turn.
\* And a job whose delivery failed is not offered again before the poll timeout
\* has passed, even when the offer table is full, so that it cannot spin the
\* main loop; only a signal cuts the wait short (cron.c:274, dispatch.c:38-46).
AdvanceOnlyFired ==
    [][\A i \in Ids :
          /\ PutOff(i) => jobs[i].gen \in fired
          /\ HandsOut(i) => since[i] = Window \/ (pc = "wait" /\ sleep > 0)]_vars

Waiting(g) ==
    \E i \in Due : jobs[i].gen = g

\* When failures pass, every job that is due is delivered in the end, unless
\* it is deleted or disabled.
EventuallyFired == \A g \in Gens : Waiting(g) ~> (g \in fired \/ ~Waiting(g))

\* One stuck job cannot hide the rest: a due job is offered in the end, also
\* when the delivery of another one fails for ever.
NotHidden ==
    \A i \in Ids : i \in Due ~> (i \notin Due \/ (pc = "run" /\ cur = i))
=============================================================================
