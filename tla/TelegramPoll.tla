---------------------------- MODULE TelegramPoll ----------------------------
(***************************************************************************)
(* The telegram channel (channels/telegram.c): the main loop asks the Bot  *)
(* API for one update at a time.  The server keeps an update until it is   *)
(* asked for a later offset, so the offset of the next poll is what        *)
(* confirms the last one, and a restart, which begins at offset 1 again,   *)
(* gets whatever was not confirmed.  The Bot API is external.  A curl      *)
(* error, an error answer and an answer that does not parse have the same  *)
(* effect on the channel.                                                  *)
(***************************************************************************)
EXTENDS Integers, FiniteSets

CONSTANTS
    Kinds,         \* "text", "stranger", "anonymous", "other"
    MaxUpdates,    \* bound on the updates ever made
    MaxRestarts    \* bound on the crashes and restarts

ASSUME UpdatesAssumption == MaxUpdates \in Nat

VARIABLES
    kind,       \* the kind of each update made so far, in the order of its id
    kept,       \* the ids the server keeps
    last,       \* last_update_id
    hand,       \* the update the main loop is handling, 0 when none
    alive,      \* the process runs (initialized)
    restarts,   \* how often it was restarted
    times       \* history: how often each update was handled to the end

telegramVars == <<kind, kept, last, hand, alive, restarts, times>>

Ids == 1 .. MaxUpdates
Made == DOMAIN kind

TelegramInit ==
    /\ kind = [i \in {} |-> "text"]
    /\ kept = {}
    /\ last = 0 /\ hand = 0 /\ alive = TRUE
    /\ restarts = 0
    /\ times = [i \in Ids |-> 0]

\* A user, a channel or an anonymous admin posts.
UpdateMade ==
    /\ Cardinality(Made) < MaxUpdates
    /\ \E k \in Kinds :
          LET id == Cardinality(Made) + 1
          IN  /\ kind' = [i \in Made \cup {id} |-> IF i = id THEN k ELSE kind[i]]
              /\ kept' = kept \cup {id}
    /\ UNCHANGED <<last, hand, alive, restarts, times>>

\* Mutant: the offset is two past the last update.
Mut_Offset == last + 2

\* The offset in the URL of format_getupdates_url.
Offset == last + 1

\* The server forgets what is below the offset and answers with the first of
\* the rest (limit=1).
Confirmed == {i \in kept : i >= Offset}

\* Mutant: an update without a sender is an error.
Mut_parse_update(i) ==
    IF kind[i] = "text" THEN 1 ELSE IF kind[i] = "anonymous" THEN -1 ELSE 0

\* parse_update: an update that is not for the agent is 0, and tg_poll moves
\* on past it all the same; -1 leaves the offset where it is.
parse_update(i) == IF kind[i] = "text" THEN 1 ELSE 0

tg_poll ==
    /\ alive /\ hand = 0
    /\ kept' = Confirmed
    /\ kept' # {}
    /\ LET i == CHOOSE j \in Confirmed : \A k \in Confirmed : j <= k
       IN  /\ last' = IF parse_update(i) >= 0 THEN i ELSE last
           /\ hand' = IF parse_update(i) > 0 THEN i ELSE 0
    /\ UNCHANGED <<kind, alive, restarts, times>>

\* A poll that fails, before or after the server has seen the offset, or one
\* that has nothing to give.
tg_poll_none ==
    /\ alive /\ hand = 0
    /\ kept' = Confirmed
    /\ UNCHANGED <<kind, last, hand, alive, restarts, times>>

\* handle_message has run the agent and sent what it could of the reply.
Handled ==
    /\ alive /\ hand # 0
    /\ times' = [times EXCEPT ![hand] = @ + 1]
    /\ hand' = 0
    /\ UNCHANGED <<kind, kept, last, alive, restarts>>

Crash ==
    /\ alive /\ restarts < MaxRestarts
    /\ alive' = FALSE
    /\ hand' = 0
    /\ UNCHANGED <<kind, kept, last, restarts, times>>

\* tg_init of the next process.
tg_init ==
    /\ ~alive
    /\ alive' = TRUE
    /\ last' = 0
    /\ restarts' = restarts + 1
    /\ UNCHANGED <<kind, kept, hand, times>>

TelegramNext == UpdateMade \/ tg_poll \/ tg_poll_none \/ Handled \/ Crash \/ tg_init

TelegramSpec == TelegramInit /\ [][TelegramNext]_telegramVars

-----------------------------------------------------------------------------
(* Properties. *)

\* An update for the agent that the server has forgotten was handled: a crash
\* while it is in hand leaves it to be fetched again.  It is handled more than
\* once only by a process that was started again.
HandledOnce ==
    \A i \in Made :
        /\ i \notin kept /\ kind[i] = "text" => times[i] > 0
        /\ times[i] <= 1 + restarts

\* No update stays at the head of getUpdates: a message behind one that is
\* ignored (no sender id, not allowed, not a message) is handled in the end.
LaterHandled ==
    \A i \in Ids : (i \in Made /\ kind[i] = "text") ~> (i \in Ids /\ times[i] > 0)
=============================================================================
