------------------------ MODULE CronDeliveryProofs ------------------------
(***************************************************************************)
(* ReminderKept and AdvanceOnlyFired of CronDelivery, for any number of    *)
(* jobs, restarts, slots and ticks, when ids are not chosen by callers.    *)
(* With ids of the callers ReminderKept does not hold, as the run          *)
(* cron_reuse shows.                                                       *)
(***************************************************************************)
EXTENDS CronDelivery, WellFoundedInduction, TLAPS

Rows == [kind : {"at", "interval", "rejected"}, due : Int, enabled : BOOLEAN, gen : Nat]

Stages == {"poll", "wait", "run", "send", "ack"}

\* A row has the number of its creation for an id, and is at most MaxLate overdue.
TableInv ==
    /\ jobs \in [Ids -> Rows \cup {NoJob}]
    /\ creates \in Nat
    /\ \A i \in Ids : jobs[i] # NoJob =>
          jobs[i].gen = i /\ i <= creates /\ jobs[i].due >= -MaxLate

\* The main thread handles the row that its id names, and commits only what it has
\* sent.
LoopInv ==
    /\ pc \in Stages
    /\ pc # "poll" => cur \in Ids /\ curGen = cur
    /\ pc = "ack" => curGen \in fired

CronInv == TableInv /\ LoopInv /\ ReminderKept

\* NoJob is no row.
LEMMA NoJobNoRow == NoJob \notin Rows
<1> SUFFICES ASSUME NoJob \in Rows PROVE FALSE
  OBVIOUS
<1>1. NoJob.kind = "none"
  BY DEF NoJob
<1> QED
  BY <1>1 DEF Rows

\* With ids that are numbers of creations, a job is there when its row is.
LEMMA PresentById ==
    ASSUME TableInv, NEW g \in Nat
    PROVE  Present(g) <=> (g \in Ids /\ jobs[g] # NoJob)
  BY DEF TableInv, Present

\* Every set of natural numbers has a least one.
LEMMA LeastNumber ==
    ASSUME NEW S, S \subseteq Nat, S # {}
    PROVE  \E j \in S : \A k \in S : j <= k
<1>1. PICK j \in S : \A k \in S : <<k, j>> \notin OpToRel(<, Nat)
  BY NatLessThanWellFounded, WFMin
<1>2. \A k \in S : ~(k < j)
  BY <1>1 DEF OpToRel
<1> QED
  BY <1>2

\* There is a first one among rows: ORDER BY next_run, id is a total order.
LEMMA FirstExists ==
    ASSUME TableInv, NEW S, S \subseteq Ids, S # {}, \A i \in S : jobs[i] # NoJob
    PROVE  FirstOf(S) \in S
<1> DEFINE late(i) == jobs[i].due + MaxLate
           D == {late(i) : i \in S}
<1>1. \A i \in S : i \in Nat /\ jobs[i].due \in Int /\ late(i) \in Nat
  BY SizesAssumption, NoJobNoRow DEF TableInv, Rows, Ids
<1>2. PICK m \in D : \A k \in D : m <= k
  BY <1>1, LeastNumber
<1> DEFINE T == {i \in S : late(i) = m}
<1>3. PICK i \in T : \A k \in T : i <= k
  BY <1>1, <1>2, LeastNumber
<1>4. ASSUME NEW j \in S \ {i} PROVE Before(i, j)
  <2>1. i \in S /\ late(i) = m /\ late(j) \in D
    BY <1>3
  <2>2. late(i) <= late(j)
    BY <1>2, <2>1
  <2>3. jobs[i].due <= jobs[j].due
    BY <1>1, <2>1, <2>2, SizesAssumption
  <2>4. jobs[i].due = jobs[j].due => i < j
    <3> SUFFICES ASSUME jobs[i].due = jobs[j].due PROVE i < j
      OBVIOUS
    <3>1. j \in T
      BY <2>1
    <3>2. i <= j
      BY <1>3, <3>1
    <3> QED
      BY <1>1, <2>1, <3>2
  <2> QED
    BY <1>1, <2>1, <2>3, <2>4 DEF Before
<1> QED
  BY <1>3, <1>4 DEF FirstOf

\* CronInv holds at start, with or without a row of an older version.
LEMMA CronInit == Init => CronInv
<1> SUFFICES ASSUME Init PROVE CronInv
  OBVIOUS
<1>1. pc = "poll" /\ fired = {} /\ removed = {}
  BY DEF Init
<1>2. LoopInv
  BY <1>1 DEF LoopInv, Stages
<1>3. CASE jobs = [i \in Ids |-> NoJob] /\ creates = 0
  <2>1. TableInv
    BY <1>3 DEF TableInv
  <2> QED
    BY <1>2, <1>3, <2>1 DEF CronInv, ReminderKept
<1>4. CASE jobs = [i \in Ids |-> IF i = 1 THEN LegacyRow ELSE NoJob] /\ creates = 1
  <2>1. /\ LegacyRow \in Rows /\ LegacyRow.gen = 1 /\ LegacyRow.due = 0
        /\ 1 \in Ids /\ LegacyRow # NoJob
    <3>1. TRUE \in BOOLEAN
      OBVIOUS
    <3>2. LegacyRow \in Rows
      BY <3>1 DEF LegacyRow, Rows
    <3>3. LegacyRow.gen = 1 /\ LegacyRow.due = 0
      BY DEF LegacyRow
    <3>4. 1 \in Ids
      BY SizesAssumption DEF Ids
    <3> QED
      BY <3>2, <3>3, <3>4, NoJobNoRow
  <2>2. TableInv
    BY <1>4, <2>1, SizesAssumption DEF TableInv
  <2>3. Present(1) /\ 1 .. creates = {1}
    BY <1>4, <2>1 DEF Present
  <2> QED
    BY <1>2, <2>2, <2>3 DEF CronInv, ReminderKept
<1> QED
  BY <1>3, <1>4 DEF Init

\* Steps that leave the table alone.
LEMMA TableUntouched ==
    ASSUME CronInv, UNCHANGED <<jobs, creates, removed>>, fired \subseteq fired', LoopInv'
    PROVE  CronInv'
<1>1. TableInv'
  BY DEF CronInv, TableInv
<1>2. ReminderKept'
  BY DEF CronInv, ReminderKept, Present
<1> QED
  BY <1>1, <1>2 DEF CronInv

\* A job that is due is handed out under its own number.
LEMMA PollKeeps == CronInv /\ (PollPick \/ PollWait) => CronInv'
<1> SUFFICES ASSUME CronInv, PollPick \/ PollWait PROVE CronInv'
  OBVIOUS
<1>1. Returnable \subseteq Due /\ Due \subseteq Ids /\ \A i \in Due : jobs[i] # NoJob
  BY DEF Returnable, Due
<1>2. PICK i \in Due : cur' = i /\ curGen' = jobs[i].gen /\ pc' \in {"run", "wait"}
  <2>1. CASE PollPick
    <3>1. FirstOf(Returnable) \in Returnable
      BY <1>1, <2>1, FirstExists DEF PollPick, CronInv
    <3> QED
      BY <1>1, <2>1, <3>1 DEF PollPick, Hand
  <2>2. CASE PollWait
    <3>1. FirstOf(Due) \in Due
      BY <1>1, <2>2, FirstExists DEF PollWait, CronInv
    <3> QED
      BY <2>2, <3>1 DEF PollWait
  <2> QED
    BY <2>1, <2>2
<1>3. jobs[i].gen = i
  BY <1>1 DEF CronInv, TableInv
<1>4. LoopInv'
  BY <1>1, <1>2, <1>3 DEF LoopInv, Stages
<1> QED
  BY <1>4, TableUntouched DEF PollPick, PollWait

\* The steps between the offer and the commit.
LEMMA HandlingKeeps ==
    ASSUME CronInv,
           \/ WaitDone \/ WaitInterrupted \/ \E ok \in BOOLEAN : AgentRun(ok)
           \/ SendOk \/ SendFails \/ AckFails \/ Restart
    PROVE  CronInv'
<1>1. CASE WaitDone \/ WaitInterrupted
  BY <1>1, TableUntouched DEF WaitDone, WaitInterrupted, Hand, CronInv, LoopInv, Stages
<1>2. CASE \E ok \in BOOLEAN : AgentRun(ok)
  BY <1>2, TableUntouched DEF AgentRun, CronInv, LoopInv, Stages
<1>3. CASE SendOk
  BY <1>3, TableUntouched DEF SendOk, AfterSend, CronInv, LoopInv, Stages
<1>4. CASE SendFails
  BY <1>4, TableUntouched DEF SendFails, AfterSendError, CronInv, LoopInv, Stages
<1>5. CASE AckFails
  BY <1>5, TableUntouched DEF AckFails, CronInv, LoopInv, Stages
<1>6. CASE Restart
  BY <1>6, TableUntouched DEF Restart, CronInv, LoopInv, Stages
<1> QED
  BY <1>1, <1>2, <1>3, <1>4, <1>5, <1>6

\* A commit removes or advances the job that was sent.
LEMMA AckKeeps == CronInv /\ cron_ack_delivery => CronInv'
<1> SUFFICES ASSUME CronInv, cron_ack_delivery PROVE CronInv'
  OBVIOUS
<1>1. /\ pc = "ack" /\ pc' = "poll" /\ cur \in Ids /\ curGen = cur /\ cur \in fired
      /\ UNCHANGED <<creates, fired, removed>>
  BY DEF cron_ack_delivery, CronInv, LoopInv
<1>2. LoopInv'
  BY <1>1 DEF LoopInv, Stages
<1>3. CASE UNCHANGED jobs
  BY <1>1, <1>2, <1>3, TableUntouched
<1>4. CASE /\ jobs[cur] # NoJob
           /\ jobs' = [jobs EXCEPT ![cur] =
                IF jobs[cur].kind = "at" THEN NoJob
                ELSE [jobs[cur] EXCEPT !.due = NextDue(jobs[cur].kind)]]
  <2>1. /\ jobs \in [Ids -> Rows \cup {NoJob}] /\ jobs[cur] \in Rows
        /\ jobs[cur].gen = cur /\ cur <= creates
    BY <1>1, <1>4 DEF CronInv, TableInv
  <2> DEFINE d == NextDue(jobs[cur].kind)
             row == [jobs[cur] EXCEPT !.due = d]
  <2>2. d \in Nat
    BY SizesAssumption DEF NextDue
  <2> HIDE DEF d
  <2>3. row \in Rows /\ row.gen = cur /\ row.due = d
    BY <2>1, <2>2 DEF Rows
  <2>4. jobs'[cur] \in {NoJob, row} /\ \A i \in Ids \ {cur} : jobs'[i] = jobs[i]
    BY <1>1, <1>4, <2>1 DEF d
  <2> HIDE DEF row
  <2>5. jobs' \in [Ids -> Rows \cup {NoJob}]
    BY <1>1, <1>4, <2>1, <2>3 DEF d, row
  <2>6. TableInv'
    BY <1>1, <2>1, <2>2, <2>3, <2>4, <2>5, SizesAssumption DEF CronInv, TableInv
  <2>7. \A g \in 1 .. creates : g = cur \/ (Present(g) => Present(g)')
    BY <2>1, <2>4, <2>6, PresentById DEF CronInv, Present, TableInv
  <2>8. ReminderKept'
    BY <1>1, <2>7 DEF CronInv, ReminderKept
  <2> QED
    BY <1>2, <2>6, <2>8 DEF CronInv
<1> QED
  BY <1>3, <1>4 DEF cron_ack_delivery

\* A job that is created gets the next number and the id of that number.
LEMMA CreateKeeps ==
    ASSUME CronInv, ExplicitIds = FALSE, NEW i \in Ids, NEW kind \in {"at", "interval"},
           NEW due \in -MaxLate .. Period, cron_create_job(i, kind, due)
    PROVE  CronInv'
<1> DEFINE row == [kind |-> kind, due |-> due, enabled |-> TRUE, gen |-> creates + 1]
<1>1. /\ jobs[i] = NoJob /\ i = creates + 1 /\ creates' = creates + 1
      /\ jobs' = [jobs EXCEPT ![i] = row]
      /\ UNCHANGED <<pc, cur, curGen, fired, removed>>
  BY DEF cron_create_job
<1>2. jobs \in [Ids -> Rows \cup {NoJob}] /\ creates \in Nat
  BY DEF CronInv, TableInv
<1>3. due \in Int /\ due >= -MaxLate
  BY SizesAssumption
<1>4. row \in Rows /\ row.gen = i /\ row.due = due
  BY <1>1, <1>2, <1>3 DEF Rows
<1> HIDE DEF row
<1>5. jobs' \in [Ids -> Rows \cup {NoJob}] /\ jobs'[i] = row /\ \A j \in Ids \ {i} : jobs'[j] = jobs[j]
  BY <1>1, <1>2, <1>4
<1>6. TableInv'
  BY <1>1, <1>2, <1>3, <1>4, <1>5 DEF CronInv, TableInv, Ids
<1>7. row # NoJob
  BY <1>4, NoJobNoRow
<1>8. \A g \in 1 .. creates' : g \in 1 .. creates \/ g = i
  BY <1>1, <1>2
<1>9. Present(i)' /\ \A g \in 1 .. creates : Present(g) => Present(g)'
  BY <1>1, <1>4, <1>5, <1>7 DEF Present
<1>10. ReminderKept'
  BY <1>1, <1>8, <1>9 DEF CronInv, ReminderKept
<1>11. LoopInv'
  BY <1>1 DEF CronInv, LoopInv
<1> QED
  BY <1>6, <1>10, <1>11 DEF CronInv

\* A job that is deleted on request is remembered as removed.
LEMMA DeleteKeeps ==
    ASSUME CronInv, NEW i \in Ids, cron_job_delete(i)
    PROVE  CronInv'
<1>1. /\ jobs[i] # NoJob /\ jobs' = [jobs EXCEPT ![i] = NoJob]
      /\ removed' = removed \cup {jobs[i].gen}
      /\ UNCHANGED <<pc, cur, curGen, creates, fired>>
  BY DEF cron_job_delete
<1>2. jobs \in [Ids -> Rows \cup {NoJob}] /\ jobs[i].gen = i
  BY <1>1 DEF CronInv, TableInv
<1>3. jobs' \in [Ids -> Rows \cup {NoJob}] /\ \A j \in Ids \ {i} : jobs'[j] = jobs[j]
  BY <1>1, <1>2
<1>4. jobs'[i] = NoJob
  BY <1>1, <1>2
<1>5. TableInv'
  BY <1>1, <1>3, <1>4 DEF CronInv, TableInv
<1>6. \A g \in 1 .. creates : g = i \/ (Present(g) => Present(g)')
  BY <1>2, <1>3, PresentById DEF CronInv, Present, TableInv
<1>7. ReminderKept'
  BY <1>1, <1>2, <1>6 DEF CronInv, ReminderKept
<1>8. LoopInv'
  BY <1>1 DEF CronInv, LoopInv
<1> QED
  BY <1>5, <1>7, <1>8 DEF CronInv

\* Toggling and time change no row's number.
LEMMA RowsKept ==
    ASSUME CronInv, UNCHANGED <<pc, cur, curGen, creates, fired, removed>>,
           jobs' \in [Ids -> Rows \cup {NoJob}],
           \A i \in Ids : jobs[i] = NoJob => jobs'[i] = NoJob,
           \A i \in Ids : jobs[i] # NoJob =>
              jobs'[i] # NoJob /\ jobs'[i].gen = jobs[i].gen /\ jobs'[i].due >= -MaxLate
    PROVE  CronInv'
<1>1. TableInv'
  BY DEF CronInv, TableInv
<1>2. \A g \in 1 .. creates : Present(g) => Present(g)'
  BY DEF Present
<1>3. ReminderKept'
  BY <1>2 DEF CronInv, ReminderKept
<1>4. LoopInv'
  BY DEF CronInv, LoopInv
<1> QED
  BY <1>1, <1>3, <1>4 DEF CronInv

\* Enabling or disabling a job changes neither its number nor its presence.
LEMMA ToggleKeeps ==
    ASSUME CronInv, NEW i \in Ids, cron_job_toggle(i)
    PROVE  CronInv'
<1> DEFINE row == [jobs[i] EXCEPT !.enabled = ~jobs[i].enabled]
<1>1. /\ jobs[i] # NoJob /\ jobs' = [jobs EXCEPT ![i] = row]
      /\ UNCHANGED <<pc, cur, curGen, creates, fired, removed>>
  BY DEF cron_job_toggle
<1>2. jobs \in [Ids -> Rows \cup {NoJob}] /\ jobs[i] \in Rows /\ jobs[i].due >= -MaxLate
  BY <1>1 DEF CronInv, TableInv
<1>3. row \in Rows /\ row.gen = jobs[i].gen /\ row.due = jobs[i].due
  <2>1. (~jobs[i].enabled) \in BOOLEAN
    OBVIOUS
  <2> QED
    BY <1>2, <2>1 DEF Rows
<1>4. row # NoJob
  BY <1>3, NoJobNoRow
<1> HIDE DEF row
<1>5. jobs' \in [Ids -> Rows \cup {NoJob}] /\ jobs'[i] = row /\ \A j \in Ids \ {i} : jobs'[j] = jobs[j]
  BY <1>1, <1>2, <1>3
<1> QED
  BY <1>1, <1>2, <1>3, <1>4, <1>5, RowsKept DEF CronInv, TableInv

\* A tick only moves due times, never past MaxLate.
LEMMA TickKeeps == CronInv /\ Tick => CronInv'
<1> SUFFICES ASSUME CronInv, Tick PROVE CronInv'
  OBVIOUS
<1> DEFINE row(i) == [jobs[i] EXCEPT !.due = Sooner(jobs[i].due)]
<1>1. /\ jobs' = [i \in Ids |-> IF jobs[i] = NoJob THEN NoJob ELSE row(i)]
      /\ UNCHANGED <<pc, cur, curGen, creates, fired, removed>>
  BY DEF Tick
<1>2. ASSUME NEW i \in Ids, jobs[i] # NoJob
      PROVE  /\ row(i) \in Rows /\ row(i) # NoJob
             /\ row(i).gen = jobs[i].gen /\ row(i).due >= -MaxLate
  <2>1. jobs[i] \in Rows /\ jobs[i].due >= -MaxLate /\ jobs[i].due \in Int
    BY <1>2 DEF CronInv, TableInv, Rows
  <2>2. Sooner(jobs[i].due) \in Int /\ Sooner(jobs[i].due) >= -MaxLate
    BY <2>1, SizesAssumption DEF Sooner
  <2>3. row(i) \in Rows /\ row(i).gen = jobs[i].gen /\ row(i).due = Sooner(jobs[i].due)
    BY <2>1, <2>2 DEF Rows
  <2> QED
    BY <2>2, <2>3, NoJobNoRow
<1> HIDE DEF row
<1> QED
  BY <1>1, <1>2, RowsKept

\* No reminder is dropped by a failed run, a failed send, a failed commit, a crash
\* or a full table of offers, as long as ids are not used again (cron.c:405-440,
\* dispatch.c:30-50).
THEOREM RemindersKept ==
    ASSUME ExplicitIds = FALSE
    PROVE  Spec => []ReminderKept
<1>1. CronInv /\ [Next]_vars => CronInv'
  <2> SUFFICES ASSUME CronInv, [Next]_vars PROVE CronInv'
    OBVIOUS
  <2>1. CASE UNCHANGED vars
    BY <2>1, RowsKept DEF vars, CronInv, TableInv
  <2>2. CASE MainNext
    BY <2>2, PollKeeps, HandlingKeeps, AckKeeps DEF MainNext
  <2>3. CASE TableChange
    BY <2>3, CreateKeeps, DeleteKeeps, ToggleKeeps DEF TableChange
  <2>4. CASE Tick
    BY <2>4, TickKeeps
  <2>5. CASE Restart
    BY <2>5, HandlingKeeps
  <2> QED
    BY <2>1, <2>2, <2>3, <2>4, <2>5 DEF Next, cron_tool_execute, RouteCron
<1>2. CronInv => ReminderKept
  BY DEF CronInv
<1> QED
  BY CronInit, <1>1, <1>2, PTL DEF Spec

-----------------------------------------------------------------------------
(* When a job is offered again. *)

OfferRows == [id : Ids, age : 0 .. Window]

\* Where the memory of an offer is: a job offered less than a window ago has a
\* slot of its own that is not older, and a sleeper sleeps until that is no longer
\* so and there is a slot to take.
OffersInv ==
    /\ offers \in [OfferSlots -> OfferRows \cup {NoOffer}]
    /\ since \in [Ids -> 0 .. Window]
    /\ sleep \in 0 .. Window
SlotInv ==
    \A s \in OfferSlots : offers[s] # NoOffer =>
        /\ offers[s].age <= since[offers[s].id]
        /\ \A r \in OfferSlots : offers[r].id = offers[s].id => r = s
SinceInv ==
    \A i \in Ids : since[i] < Window =>
        \E s \in OfferSlots : offers[s].id = i /\ offers[s].age <= since[i]
SleepInv ==
    pc = "wait" =>
        /\ since[cur] + sleep >= Window
        /\ \E s \in OfferSlots :
              \/ offers[s].id = cur
              \/ offers[s] = NoOffer
              \/ offers[s].age + sleep >= Window

OfferInv == OffersInv /\ SlotInv /\ SinceInv /\ SleepInv

\* An empty slot has no id of a job.
LEMMA SlotShapes ==
    ASSUME OffersInv, NEW s \in OfferSlots
    PROVE  /\ NoOffer \notin OfferRows
           /\ offers[s] = NoOffer => offers[s].id = NoId /\ offers[s].id \notin Ids
           /\ offers[s] # NoOffer =>
                 offers[s] \in OfferRows /\ offers[s].id \in Ids /\ offers[s].age \in 0 .. Window
<1>1. NoOffer.id = NoId /\ NoId \notin Ids
  BY DEF NoOffer, NoId, Ids
<1>2. NoOffer \notin OfferRows
  BY <1>1 DEF OfferRows
<1> QED
  BY <1>1, <1>2 DEF OffersInv, OfferRows

\* An offer that finds a slot is the only one of its job, and takes the place of
\* none that is still needed.
LEMMA MarkKeeps ==
    ASSUME OffersInv, SlotInv, SinceInv, NEW i \in Ids, cron_mark_offered(i),
           Offered(i) # {} \/ cron_offer_has_room,
           since' = [since EXCEPT ![i] = 0]
    PROVE  /\ offers' \in [OfferSlots -> OfferRows \cup {NoOffer}]
           /\ since' \in [Ids -> 0 .. Window]
           /\ SlotInv' /\ SinceInv'
<1> DEFINE reusable == {s \in OfferSlots : cron_slot_reusable(s)}
           slot == IF Offered(i) # {} THEN Offered(i) ELSE reusable
           offer == [id |-> i, age |-> 0]
<1>1. slot # {} /\ slot \subseteq OfferSlots /\ slot \subseteq Nat
  BY DEF Offered, cron_offer_has_room, OfferSlots
<1>2. PICK t \in slot : \A r \in slot : t <= r
  BY <1>1, LeastNumber
<1>3. \A s \in OfferSlots : (s \in slot /\ \A r \in slot : s <= r) <=> s = t
  BY <1>1, <1>2
<1>4. offers' = [s \in OfferSlots |-> IF s \in slot /\ \A r \in slot : s <= r THEN offer ELSE offers[s]]
  BY DEF cron_mark_offered
<1>5. \A s \in OfferSlots : offers'[s] = IF s = t THEN offer ELSE offers[s]
  BY <1>3, <1>4
<1>6. t \in OfferSlots /\ (offers[t].id = i \/ (cron_slot_reusable(t) /\ \A r \in OfferSlots : offers[r].id # i))
  BY <1>1, <1>2 DEF Offered
<1>7. offer \in OfferRows /\ offer.id = i /\ offer.age = 0 /\ Window \in Nat \ {0}
  BY SizesAssumption DEF OfferRows
<1> HIDE DEF offer, slot
<1>8. offer # NoOffer
  BY <1>6, <1>7, SlotShapes
<1>9. \A r \in OfferSlots : offers[r].id = i => r = t
  <2> SUFFICES ASSUME NEW r \in OfferSlots, offers[r].id = i PROVE r = t
    OBVIOUS
  <2>1. offers[t].id = i /\ offers[r] # NoOffer
    BY <1>6, SlotShapes
  <2> QED
    BY <1>6, <2>1 DEF SlotInv
<1>10. since \in [Ids -> 0 .. Window] /\ since' \in [Ids -> 0 .. Window]
  BY <1>7 DEF OffersInv
<1>11. since'[i] = 0 /\ \A j \in Ids \ {i} : since'[j] = since[j]
  BY <1>10
<1>12. offers' \in [OfferSlots -> OfferRows \cup {NoOffer}]
  BY <1>4, <1>7 DEF OffersInv
<1>13. SlotInv'
  <2> SUFFICES ASSUME NEW s \in OfferSlots, offers'[s] # NoOffer
               PROVE  /\ offers'[s].age <= since'[offers'[s].id]
                      /\ \A r \in OfferSlots : offers'[r].id = offers'[s].id => r = s
    BY DEF SlotInv
  <2>1. CASE s = t
    <3>1. offers'[s].age <= since'[offers'[s].id] /\ offers'[s].id = i
      BY <1>5, <1>7, <1>11, <2>1
    <3> QED
      BY <1>5, <1>9, <2>1, <3>1
  <2>2. CASE s # t
    <3>1. offers'[s] = offers[s] /\ offers[s].id \in Ids \ {i}
      BY <1>5, <1>9, <2>2, SlotShapes
    <3>2. offers'[s].age <= since'[offers'[s].id]
      BY <1>11, <3>1 DEF SlotInv
    <3>3. ASSUME NEW r \in OfferSlots, offers'[r].id = offers'[s].id PROVE r = s
      <4>1. r # t
        BY <1>5, <1>7, <3>1, <3>3
      <4> QED
        BY <1>5, <3>1, <3>3, <4>1 DEF SlotInv
    <3> QED
      BY <3>2, <3>3
  <2> QED
    BY <2>1, <2>2
<1>14. SinceInv'
  <2> SUFFICES ASSUME NEW j \in Ids, since'[j] < Window
               PROVE  \E s \in OfferSlots : offers'[s].id = j /\ offers'[s].age <= since'[j]
    BY DEF SinceInv
  <2>1. CASE j = i
    BY <1>5, <1>6, <1>7, <1>11, <2>1
  <2>2. CASE j # i
    <3>1. since'[j] = since[j] /\ since[j] \in 0 .. Window
      BY <1>10, <1>11, <2>2
    <3>2. PICK s \in OfferSlots : offers[s].id = j /\ offers[s].age <= since[j]
      BY <3>1 DEF SinceInv
    <3>3. s # t
      <4> SUFFICES ASSUME s = t PROVE FALSE
        OBVIOUS
      <4>1. offers[s] # NoOffer /\ offers[s].age \in 0 .. Window
        BY <3>2, SlotShapes
      <4>2. offers[s].age >= Window
        BY <1>6, <2>2, <3>2, <4>1 DEF cron_slot_reusable
      <4> QED
        BY <1>7, <3>1, <3>2, <4>1, <4>2
    <3> QED
      BY <1>5, <3>1, <3>2, <3>3
  <2> QED
    BY <2>1, <2>2
<1> QED
  BY <1>10, <1>12, <1>13, <1>14

\* Steps that touch neither the offers nor the sleeper.
LEMMA OffersUntouched ==
    ASSUME OfferInv, UNCHANGED <<offers, since, sleep, cur>>, pc' = "wait" => pc = "wait"
    PROVE  OfferInv'
  BY DEF OfferInv, OffersInv, SlotInv, SinceInv, SleepInv

\* A job that has no slot, or only an old one, was last offered a window ago.
LEMMA NotHot ==
    ASSUME OfferInv, NEW i \in Ids, ~cron_offer_is_hot(i)
    PROVE  since[i] = Window
<1>1. since[i] \in 0 .. Window /\ Window \in Nat
  BY SizesAssumption DEF OfferInv, OffersInv
<1> SUFFICES ASSUME since[i] < Window PROVE FALSE
  BY <1>1
<1>2. PICK s \in OfferSlots : offers[s].id = i /\ offers[s].age <= since[i]
  BY DEF OfferInv, SinceInv
<1>3. offers[s].age \in 0 .. Window
  BY <1>2, SlotShapes DEF OfferInv
<1> QED
  BY <1>1, <1>2, <1>3 DEF cron_offer_is_hot, Offered

\* cron_poll offers a job, or goes to sleep for long enough.
LEMMA PollOffers ==
    ASSUME CronInv, OfferInv, PollPick \/ PollWait
    PROVE  OfferInv'
<1>1. Returnable \subseteq Due /\ Due \subseteq Ids /\ \A i \in Due : jobs[i] # NoJob
  BY DEF Returnable, Due
<1>2. CASE PollPick
  <2> DEFINE i == FirstOf(Returnable)
  <2>1. i \in Returnable
    BY <1>1, <1>2, FirstExists DEF PollPick, CronInv
  <2>2. i \in Ids /\ (Offered(i) # {} \/ cron_offer_has_room)
    BY <1>1, <2>1 DEF Returnable, cron_due_is_returnable
  <2>3. cron_mark_offered(i) /\ since' = [since EXCEPT ![i] = 0] /\ pc' = "run" /\ sleep' = sleep
    BY <1>2 DEF PollPick, Hand
  <2> HIDE DEF i
  <2> QED
    BY <2>2, <2>3, MarkKeeps DEF OfferInv, OffersInv, SleepInv
<1>3. CASE PollWait
  <2> DEFINE i == FirstOf(Due)
  <2>1. i \in Due
    BY <1>1, <1>3, FirstExists DEF PollWait, CronInv
  <2>2. i \in Ids /\ ~cron_due_is_returnable(i)
    BY <1>1, <1>3, <2>1 DEF PollWait, Returnable
  <2>3. cur' = i /\ sleep' = WaitFor(i) /\ UNCHANGED <<offers, since>>
    BY <1>3 DEF PollWait
  <2> HIDE DEF i
  <2>4. since[i] \in 0 .. Window /\ Window \in Nat /\ 1 \in OfferSlots
    BY <2>2, SizesAssumption DEF OfferInv, OffersInv, OfferSlots
  <2>5. CASE Offered(i) # {}
    <3> DEFINE t == CHOOSE s \in Offered(i) : TRUE
    <3>1. t \in OfferSlots /\ offers[t].id = i
      BY <2>5 DEF Offered
    <3>2. sleep' = Window - offers[t].age
      BY <2>3, <2>5 DEF WaitFor
    <3> HIDE DEF t
    <3>3. offers[t].age \in 0 .. Window /\ offers[t].age <= since[i]
      BY <2>2, <3>1, SlotShapes DEF OfferInv, SlotInv
    <3>4. sleep' \in 0 .. Window /\ since[i] + sleep' >= Window
      BY <2>4, <3>2, <3>3
    <3> QED
      BY <2>3, <3>1, <3>4 DEF OfferInv, OffersInv, SlotInv, SinceInv, SleepInv
  <2>6. CASE Offered(i) = {}
    <3>1. sleep' = Window
      BY <2>3, <2>6 DEF WaitFor
    <3>2. sleep' \in 0 .. Window /\ since[i] + sleep' >= Window
      BY <2>4, <3>1
    <3>3. offers[1] = NoOffer \/ offers[1].age + sleep' >= Window
      BY <2>4, <3>1, SlotShapes DEF OfferInv
    <3> QED
      BY <2>3, <2>4, <3>2, <3>3 DEF OfferInv, OffersInv, SlotInv, SinceInv, SleepInv
  <2> QED
    BY <2>5, <2>6
<1> QED
  BY <1>2, <1>3

\* The end of the sleep: when it was slept out, there is a slot for the offer.
LEMMA WaitOffers ==
    ASSUME CronInv, OfferInv, WaitDone \/ WaitInterrupted
    PROVE  OfferInv'
<1>1. cur \in Ids /\ pc = "wait" /\ pc' = "run" /\ cron_mark_offered(cur) /\ sleep' \in {0, sleep}
  BY DEF WaitDone, WaitInterrupted, Hand, CronInv, LoopInv
<1>2. sleep' \in 0 .. Window
  BY <1>1, SizesAssumption DEF OfferInv, OffersInv
<1>3. CASE Offered(cur) # {} \/ cron_offer_has_room
  <2>1. since' = [since EXCEPT ![cur] = 0]
    BY <1>3 DEF WaitDone, WaitInterrupted, Hand
  <2> QED
    BY <1>1, <1>2, <1>3, <2>1, MarkKeeps DEF OfferInv, OffersInv, SleepInv
<1>4. CASE Offered(cur) = {} /\ ~cron_offer_has_room
  <2>1. ~WaitDone
    <3> SUFFICES ASSUME sleep = 0 PROVE FALSE
      BY DEF WaitDone
    <3>1. PICK s \in OfferSlots : offers[s].id = cur \/ offers[s] = NoOffer \/ offers[s].age + sleep >= Window
      BY <1>1 DEF OfferInv, SleepInv
    <3>2. offers[s] # NoOffer /\ ~(offers[s].age >= Window) /\ offers[s].id # cur
      BY <1>4 DEF cron_offer_has_room, cron_slot_reusable, Offered
    <3>3. offers[s].age \in 0 .. Window
      BY <3>2, SlotShapes DEF OfferInv
    <3> QED
      BY <3>1, <3>2, <3>3, SizesAssumption
  <2>2. since' = [since EXCEPT ![cur] = Window]
    BY <1>4, <2>1 DEF WaitInterrupted
  <2>3. ~cron_offer_is_hot(cur)
    BY <1>4 DEF cron_offer_is_hot
  <2>4. since[cur] = Window
    BY <1>1, <2>3, NotHot
  <2>5. since' = since
    BY <1>1, <2>2, <2>4 DEF OfferInv, OffersInv
  <2>6. offers' = offers
    BY <1>1, <1>4 DEF cron_mark_offered, cron_offer_has_room, OfferInv, OffersInv
  <2> QED
    BY <1>1, <1>2, <2>5, <2>6 DEF OfferInv, OffersInv, SlotInv, SinceInv, SleepInv
<1> QED
  BY <1>3, <1>4

\* A commit forgets the offer of its job.
LEMMA AckOffers ==
    ASSUME CronInv, OfferInv, cron_ack_delivery
    PROVE  OfferInv'
<1>1. cur \in Ids /\ pc' = "poll" /\ UNCHANGED <<cur, sleep>>
  BY DEF cron_ack_delivery, CronInv, LoopInv
<1>2. CASE UNCHANGED <<offers, since>>
  BY <1>1, <1>2, OffersUntouched
<1>3. CASE cron_offer_release(cur) /\ since' = [since EXCEPT ![cur] = Window]
  <2>1. \A s \in OfferSlots : offers'[s] = IF offers[s].id = cur THEN NoOffer ELSE offers[s]
    BY <1>3 DEF cron_offer_release
  <2>2. NoOffer.id \notin Ids
    BY DEF NoOffer, NoId, Ids
  <2>3. OffersInv'
    BY <1>1, <1>3, SizesAssumption DEF OfferInv, OffersInv, cron_offer_release
  <2>4. since'[cur] = Window /\ \A i \in Ids \ {cur} : since'[i] = since[i]
    BY <1>1, <1>3 DEF OfferInv, OffersInv
  <2>5. SlotInv'
    <3> SUFFICES ASSUME NEW s \in OfferSlots, offers'[s] # NoOffer
                 PROVE  /\ offers'[s].age <= since'[offers'[s].id]
                        /\ \A r \in OfferSlots : offers'[r].id = offers'[s].id => r = s
      BY DEF SlotInv
    <3>1. offers'[s] = offers[s] /\ offers[s].id # cur /\ offers[s].id \in Ids
      BY <2>1, SlotShapes DEF OfferInv
    <3>2. \A r \in OfferSlots : offers'[r].id = offers'[s].id => offers[r].id = offers[s].id
      BY <2>1, <2>2, <3>1
    <3> QED
      BY <2>4, <3>1, <3>2 DEF OfferInv, SlotInv
  <2>6. SinceInv'
    BY <2>1, <2>4, SizesAssumption DEF OfferInv, SinceInv
  <2> QED
    BY <1>1, <2>3, <2>5, <2>6 DEF OfferInv, SleepInv
<1> QED
  BY <1>2, <1>3 DEF cron_ack_delivery

\* Offers, the time since them and the sleep run at the same pace.
LEMMA TickOffers ==
    ASSUME CronInv, OfferInv, Tick
    PROVE  OfferInv'
<1> DEFINE older(o) == [o EXCEPT !.age = IF o.age < Window THEN o.age + 1 ELSE o.age]
<1>1. /\ offers' = [s \in OfferSlots |-> IF offers[s] = NoOffer THEN NoOffer ELSE older(offers[s])]
      /\ since' = [i \in Ids |-> IF since[i] < Window THEN since[i] + 1 ELSE Window]
      /\ sleep' = IF sleep > 0 THEN sleep - 1 ELSE 0
      /\ pc = "wait" => sleep > 0
      /\ UNCHANGED <<pc, cur>>
  BY DEF Tick
<1>2. Window \in Nat \ {0} /\ since \in [Ids -> 0 .. Window] /\ sleep \in 0 .. Window
  BY SizesAssumption DEF OfferInv, OffersInv
<1>3. ASSUME NEW o \in OfferRows
      PROVE  /\ older(o) \in OfferRows /\ older(o).id = o.id
             /\ older(o).age = IF o.age < Window THEN o.age + 1 ELSE o.age
  BY <1>2 DEF OfferRows
<1> HIDE DEF older
<1>4. ASSUME NEW s \in OfferSlots
      PROVE  /\ offers[s] = NoOffer => offers'[s] = NoOffer
             /\ offers[s] # NoOffer =>
                   /\ offers'[s] \in OfferRows /\ offers'[s] # NoOffer
                   /\ offers'[s].age = IF offers[s].age < Window THEN offers[s].age + 1 ELSE offers[s].age
             /\ offers'[s].id = offers[s].id
  BY <1>1, <1>3, SlotShapes DEF OfferInv
<1>5. offers' \in [OfferSlots -> OfferRows \cup {NoOffer}]
  BY <1>1, <1>4
<1>6. OffersInv'
  BY <1>1, <1>2, <1>5 DEF OffersInv
<1>7. \A i \in Ids : since[i] \in 0 .. Window /\ since'[i] = IF since[i] < Window THEN since[i] + 1 ELSE Window
  BY <1>1, <1>2
<1>8. SlotInv'
  <2> SUFFICES ASSUME NEW s \in OfferSlots, offers'[s] # NoOffer
               PROVE  /\ offers'[s].age <= since'[offers'[s].id]
                      /\ \A r \in OfferSlots : offers'[r].id = offers'[s].id => r = s
    BY DEF SlotInv
  <2>1. /\ offers[s] # NoOffer /\ offers[s].id \in Ids /\ offers[s].age \in 0 .. Window
        /\ offers[s].age <= since[offers[s].id]
        /\ \A r \in OfferSlots : offers[r].id = offers[s].id => r = s
    BY <1>4, SlotShapes DEF OfferInv, SlotInv
  <2> QED
    BY <1>2, <1>4, <1>7, <2>1
<1>9. SinceInv'
  <2> SUFFICES ASSUME NEW i \in Ids, since'[i] < Window
               PROVE  \E s \in OfferSlots : offers'[s].id = i /\ offers'[s].age <= since'[i]
    BY DEF SinceInv
  <2>1. since[i] < Window /\ since'[i] = since[i] + 1
    BY <1>2, <1>7
  <2>2. PICK s \in OfferSlots : offers[s].id = i /\ offers[s].age <= since[i]
    BY <2>1 DEF OfferInv, SinceInv
  <2>3. offers[s] # NoOffer /\ offers[s].age \in 0 .. Window
    BY <2>2, SlotShapes DEF OfferInv
  <2> QED
    BY <1>2, <1>4, <1>7, <2>1, <2>2, <2>3
<1>10. SleepInv'
  <2> SUFFICES ASSUME pc = "wait"
               PROVE  /\ since'[cur] + sleep' >= Window
                      /\ \E s \in OfferSlots : \/ offers'[s].id = cur
                                               \/ offers'[s] = NoOffer
                                               \/ offers'[s].age + sleep' >= Window
    BY <1>1 DEF SleepInv
  <2>1. cur \in Ids /\ since[cur] + sleep >= Window /\ sleep' = sleep - 1
    BY <1>1 DEF CronInv, LoopInv, OfferInv, SleepInv
  <2>2. since'[cur] + sleep' >= Window
    BY <1>1, <1>2, <1>7, <2>1
  <2>3. PICK s \in OfferSlots : offers[s].id = cur \/ offers[s] = NoOffer \/ offers[s].age + sleep >= Window
    BY DEF OfferInv, SleepInv
  <2>4. CASE offers[s] = NoOffer \/ offers[s].id = cur
    BY <1>4, <2>2, <2>4
  <2>5. CASE offers[s] # NoOffer /\ offers[s].age + sleep >= Window
    <3>1. offers[s].age \in 0 .. Window
      BY <2>5, SlotShapes DEF OfferInv
    <3>2. offers'[s].age + sleep' >= Window
      BY <1>1, <1>2, <1>4, <2>1, <2>5, <3>1
    <3> QED
      BY <2>2, <3>2
  <2> QED
    BY <2>3, <2>4, <2>5
<1> QED
  BY <1>6, <1>8, <1>9, <1>10 DEF OfferInv

\* A restart forgets every offer.
LEMMA RestartOffers ==
    ASSUME Init \/ Restart
    PROVE  (Init => OfferInv) /\ (Restart => OfferInv')
<1>1. Window \in Nat \ {0} /\ NoOffer.id \notin Ids
  BY SizesAssumption DEF NoOffer, NoId, Ids
<1> QED
  BY <1>1 DEF Init, Restart, OfferInv, OffersInv, SlotInv, SinceInv, SleepInv

\* Every step keeps both invariants, when callers choose no ids.
LEMMA CronStep ==
    ASSUME ExplicitIds = FALSE, CronInv, OfferInv, [Next]_vars
    PROVE  CronInv' /\ OfferInv'
<1>1. CASE UNCHANGED vars
  BY <1>1, RowsKept, OffersUntouched DEF vars, CronInv, TableInv
<1>2. CASE MainNext
  <2>1. CASE (\E ok \in BOOLEAN : AgentRun(ok)) \/ SendOk \/ SendFails \/ AckFails
    <3>1. OfferInv'
      BY <2>1, OffersUntouched DEF AgentRun, SendOk, AfterSend, SendFails, AfterSendError, AckFails
    <3> QED
      BY <2>1, <3>1, HandlingKeeps
  <2> QED
    BY <1>2, <2>1, PollKeeps, PollOffers, HandlingKeeps, WaitOffers, AckKeeps, AckOffers DEF MainNext
<1>3. CASE TableChange
  <2>1. OfferInv'
    BY <1>3, OffersUntouched DEF TableChange, cron_create_job, cron_job_delete, cron_job_toggle
  <2> QED
    BY <1>3, <2>1, CreateKeeps, DeleteKeeps, ToggleKeeps DEF TableChange
<1>4. CASE Tick
  BY <1>4, TickKeeps, TickOffers
<1>5. CASE Restart
  BY <1>5, HandlingKeeps, RestartOffers
<1> QED
  BY <1>1, <1>2, <1>3, <1>4, <1>5 DEF Next, cron_tool_execute, RouteCron

\* The commit of a delivery is the only step that puts a row off.
LEMMA OnlyAckPutsOff ==
    ASSUME CronInv, Next, NEW i \in Ids, PutOff(i)
    PROVE  jobs[i].gen \in fired
<1>1. jobs[i] \in Rows /\ jobs[i].gen = i /\ jobs[i].due \in Int /\ jobs \in [Ids -> Rows \cup {NoJob}]
  BY DEF PutOff, CronInv, TableInv, Rows
<1>2. jobs'[i] # jobs[i] /\ jobs[i] # NoJob /\ jobs'[i] # NoJob /\ jobs'[i].due > jobs[i].due
  BY <1>1 DEF PutOff
<1>3. CASE cron_ack_delivery
  <2>1. i = cur
    BY <1>1, <1>2, <1>3 DEF cron_ack_delivery
  <2> QED
    BY <1>1, <1>3, <2>1 DEF cron_ack_delivery, CronInv, LoopInv
<1>4. CASE TableChange
  <2>1. ASSUME NEW j \in Ids, NEW kind, NEW due, cron_create_job(j, kind, due) PROVE FALSE
    BY <1>1, <1>2, <2>1 DEF cron_create_job
  <2>2. ASSUME NEW j \in Ids, cron_job_delete(j) PROVE FALSE
    BY <1>1, <1>2, <2>2 DEF cron_job_delete
  <2>3. ASSUME NEW j \in Ids, cron_job_toggle(j) PROVE FALSE
    <3>1. jobs'[i] = [jobs[i] EXCEPT !.enabled = ~jobs[i].enabled]
      BY <1>1, <1>2, <2>3 DEF cron_job_toggle
    <3>2. jobs'[i].due = jobs[i].due
      BY <1>1, <3>1 DEF Rows
    <3> QED
      BY <1>1, <1>2, <3>2
  <2> QED
    BY <1>4, <2>1, <2>2, <2>3 DEF TableChange
<1>5. CASE Tick
  <2>1. jobs'[i] = [jobs[i] EXCEPT !.due = Sooner(jobs[i].due)]
    BY <1>2, <1>5 DEF Tick
  <2>2. Sooner(jobs[i].due) <= jobs[i].due
    BY <1>1 DEF Sooner
  <2>3. jobs'[i].due = Sooner(jobs[i].due)
    BY <1>1, <2>1 DEF Rows
  <2> QED
    BY <1>1, <1>2, <2>2, <2>3 DEF Sooner
<1>6. CASE UNCHANGED jobs
  BY <1>2, <1>6
<1> QED
  BY <1>3, <1>4, <1>5, <1>6
     DEF Next, MainNext, cron_tool_execute, RouteCron, PollPick, PollWait, WaitDone, WaitInterrupted,
         AgentRun, SendOk, SendFails, AckFails, Restart

\* A job is handed out a window after its last offer, or when a signal ends the sleep.
LEMMA HandedOutLate ==
    ASSUME CronInv, OfferInv, Next, NEW i \in Ids, HandsOut(i)
    PROVE  since[i] = Window \/ (pc = "wait" /\ sleep > 0)
<1>1. pc \in {"poll", "wait"} /\ pc' = "run" /\ cur' = i
  BY DEF HandsOut
<1>2. CASE PollPick
  <2> DEFINE j == FirstOf(Returnable)
  <2>1. Returnable \subseteq Due /\ Due \subseteq Ids /\ \A k \in Due : jobs[k] # NoJob
    BY DEF Returnable, Due
  <2>2. j \in Returnable /\ i = j
    BY <1>1, <1>2, <2>1, FirstExists DEF PollPick, Hand, CronInv
  <2> HIDE DEF j
  <2> QED
    BY <2>2, NotHot DEF Returnable, cron_due_is_returnable
<1>3. CASE WaitDone
  <2>1. i = cur /\ since[cur] \in 0 .. Window /\ since[cur] + sleep >= Window /\ sleep = 0
    BY <1>1, <1>3 DEF WaitDone, Hand, OfferInv, OffersInv, SleepInv
  <2> QED
    BY <2>1, SizesAssumption
<1>4. CASE WaitInterrupted
  BY <1>4 DEF WaitInterrupted
<1> QED
  BY <1>1, <1>2, <1>3, <1>4
     DEF Next, MainNext, cron_tool_execute, RouteCron, TableChange, cron_create_job, cron_job_delete,
         cron_job_toggle, Tick, PollWait, AgentRun, SendOk, AfterSend, SendFails, AfterSendError,
         cron_ack_delivery, AckFails, Restart

\* A failed run, a failed send or a crash never costs a job its turn, and a job is
\* offered again only a poll timeout later, also when the table of offers is full
\* (cron_pick_due_row, cron_ack_delivery, send_then_maybe_ack_cron).
THEOREM AdvancesOnlyFired ==
    ASSUME ExplicitIds = FALSE
    PROVE  Spec => AdvanceOnlyFired
<1> DEFINE Right == \A i \in Ids :
              /\ PutOff(i) => jobs[i].gen \in fired
              /\ HandsOut(i) => since[i] = Window \/ (pc = "wait" /\ sleep > 0)
<1>1. Init => CronInv /\ OfferInv
  BY CronInit, RestartOffers
<1>2. CronInv /\ OfferInv /\ [Next]_vars => (CronInv /\ OfferInv)'
  BY CronStep
<1>3. CronInv /\ OfferInv /\ [Next]_vars => [Right]_vars
  <2> SUFFICES ASSUME CronInv, OfferInv, Next PROVE Right
    OBVIOUS
  <2> QED
    BY OnlyAckPutsOff, HandedOutLate
<1> QED
  BY <1>1, <1>2, <1>3, PTL DEF Spec, AdvanceOnlyFired
=============================================================================
