--------------------------- MODULE AgentSession ---------------------------
(***************************************************************************)
(* One conversation: agent_run (core/agent.c) loads the session from       *)
(* SQLite (core/memory.c), summarizes its oldest messages when there are   *)
(* too many, talks to the provider and the tools, and stores the exchange. *)
(*                                                                         *)
(* agent_run and session_delete hold the agent mutex, so runs on the same  *)
(* session follow one another; the process may die between any two steps.  *)
(* The provider is external: every call of it may fail.                    *)
(*                                                                         *)
(* A message is abstracted to its role, its length and the set of original *)
(* messages whose text it holds, verbatim or in a summary.  Lengths are in *)
(* units of which SourceMax fill the summary source; the JSON around a     *)
(* message takes Envelope units.                                           *)
(***************************************************************************)
EXTENDS Integers, Sequences, FiniteSets

CONSTANTS
    MaxCtx,       \* agent.max_context_messages, at most MAX_HISTORY_MESSAGES
    MaxIter,      \* agent.max_tool_iterations
    SourceMax,    \* SUMMARY_SOURCE_MAX
    JsonMax,      \* SESSION_JSON_MAX
    Envelope,     \* the JSON around one message
    UserLens,     \* lengths of user messages
    AnswerLens,   \* lengths of answers
    SummaryLens,  \* lengths of summaries, up to SUMMARY_RESULT_MAX
    MaxTurns      \* bound on the runs of the agent

ASSUME ContextAssumption == MaxCtx \in Nat \ {0} /\ MaxIter \in Nat \ {0}
ASSUME CapsAssumption ==
    SourceMax \in Nat \ {0} /\ JsonMax \in Nat \ {0} /\ Envelope \in Nat
\* A length counts the role in front of the text, so none is zero.
ASSUME LensAssumption ==
    UserLens \cup AnswerLens \cup SummaryLens \subseteq Nat \ {0}
ASSUME TurnsAssumption == MaxTurns \in Nat

VARIABLES
    stored,   \* column messages of the session's row, NoRow without one
    buf,      \* session_buf: the transcript of the current run
    skip,     \* skip_session_persist
    pc,       \* where agent_run is, "idle" between runs
    userLen,  \* length of the current user message
    cut,      \* messages put into the summary source so far
    used,     \* length of the summary source
    iter,     \* rounds of tool calls in this run
    turns,    \* runs begun: run t has the messages 2t - 1 and 2t
    saved,    \* history: messages of the exchanges stored since the last reset
    misread   \* history: SQLite failed to read the row since the last reset

hist == <<saved, misread>>
vars == <<stored, buf, skip, pc, userLen, cut, used, iter, turns, saved,
          misread>>

NoRow == <<>>

Message(role, len, covers) == [role |-> role, len |-> len, covers |-> covers]

\* The printed length of a session.
JsonLen(s) ==
    LET sum[i \in 0 .. Len(s)] ==
            IF i = 0 THEN 0 ELSE sum[i - 1] + s[i].len + Envelope
    IN  sum[Len(s)]

\* A row that an older version wrote, longer than SESSION_JSON_MAX.
LegacyRow == <<Message("user", JsonMax, {}), Message("assistant", 1, {})>>

Init ==
    /\ stored \in {NoRow, LegacyRow}
    /\ buf = <<>>
    /\ skip = FALSE
    /\ pc = "idle"
    /\ userLen = 0
    /\ cut = 0
    /\ used = 0
    /\ iter = 0
    /\ turns = 0
    /\ saved = {}
    /\ misread = FALSE

-----------------------------------------------------------------------------
(* agent_run *)

\* handle_message calls agent_run with the agent mutex.
Begin(len) ==
    /\ pc = "idle"
    /\ turns < MaxTurns
    /\ turns' = turns + 1
    /\ userLen' = len
    /\ iter' = 0
    /\ pc' = "load"
    /\ UNCHANGED <<stored, buf, skip, cut, used, hist>>

\* What follows the load: compaction when the history is too long.
AfterLoad(s) == IF Len(s) > MaxCtx /\ MaxCtx >= 2 THEN "scan" ELSE "chat"

\* session_load refuses a row that does not fit the buffer.
TooLarge(s) == JsonLen(s) >= JsonMax

\* session_load finds a row, or none; one that is too large is left alone.
session_load ==
    /\ pc = "load"
    /\ skip' = TooLarge(stored)
    /\ buf' = IF JsonLen(stored) >= JsonMax THEN <<>> ELSE stored
    /\ cut' = 0
    /\ used' = 0
    /\ pc' = AfterLoad(buf')
    /\ UNCHANGED <<stored, userLen, iter, turns, hist>>

\* SQLite fails to read the row: the same return value as for no row.
LoadError ==
    /\ pc = "load"
    /\ stored # NoRow
    /\ misread' = TRUE
    /\ skip' = FALSE
    /\ buf' = <<>>
    /\ pc' = "chat"
    /\ UNCHANGED <<stored, userLen, cut, used, iter, turns, saved>>

\* Mutant: the window stops one short of the kept tail.
Mut_to_summarize_n == Len(buf) - MaxCtx

\* The oldest messages, which the summary must cover: all but the MaxCtx - 1
\* last ones.
to_summarize_n == Len(buf) - MaxCtx + 1

\* summary_source_append: the whole line and its terminator fit.
LineFits == used + buf[cut + 1].len < SourceMax

\* summary_source_append_truncated, only for a line that no source can hold and
\* only against an empty source.
LineStubbed == ~LineFits /\ used = 0 /\ buf[cut + 1].len >= SourceMax

\* The next line goes into the summary source, whole or as a stub that fills it.
ScanLine ==
    /\ pc = "scan"
    /\ cut < to_summarize_n
    /\ LineFits \/ LineStubbed
    /\ used' = IF LineFits THEN used + buf[cut + 1].len ELSE SourceMax - 1
    /\ cut' = cut + 1
    /\ UNCHANGED <<stored, buf, skip, pc, userLen, iter, turns, hist>>

\* All lines are in, or the next one stays in the session.
ScanStop ==
    /\ pc = "scan"
    /\ cut >= to_summarize_n \/ ~(LineFits \/ LineStubbed)
    /\ pc' = IF cut = 0 THEN "chat" ELSE "summarize"
    /\ UNCHANGED <<stored, buf, skip, userLen, cut, used, iter, turns, hist>>

\* How many messages the summary replaces: those before the line that did not
\* fit, or all but the MaxCtx - 1 last ones.
start == IF cut < to_summarize_n THEN cut ELSE Len(buf) - (MaxCtx - 1)

\* Mutant: the summary is always a message of its own.
Mut_Merged == FALSE

\* The summary goes into the first kept message when that is a user turn, or
\* when it stopped the pass right behind its only line.
Merged ==
    \/ buf[start + 1].role = "user"
    \/ cut = 1 /\ cut < to_summarize_n

\* What the summary stands for.
Summarized == UNION {buf[i].covers : i \in 1 .. cut}

\* The transcript with its oldest messages replaced by a summary.
Compacted(len) ==
    LET first == buf[start + 1]
        folded == Message(first.role, len + first.len,
                          Summarized \cup first.covers)
        rest == SubSeq(buf, start + 2, Len(buf))
    IN  IF Merged
        THEN <<folded>> \o rest
        ELSE <<Message("user", len, Summarized), first>> \o rest

\* Mutant: the summarized transcript is stored at once.
Mut_SavedByCompaction(s) == stored' = s

\* Compaction changes session_buf only.
SavedByCompaction(s) == stored' = stored

\* The provider summarizes; a result that would not fit is not taken over.
compact_session_via_llm(len) ==
    /\ pc = "summarize"
    /\ buf' = IF JsonLen(Compacted(len)) < JsonMax THEN Compacted(len) ELSE buf
    /\ SavedByCompaction(buf')
    /\ pc' = "chat"
    /\ UNCHANGED <<skip, userLen, cut, used, iter, turns, hist>>

\* The provider does not summarize: the run goes on with the long transcript.
CompactionFails ==
    /\ pc = "summarize"
    /\ pc' = "chat"
    /\ UNCHANGED <<stored, buf, skip, userLen, cut, used, iter, turns, hist>>

\* The history of the request: the last MaxCtx messages.
Window(s) ==
    SubSeq(s, (IF Len(s) > MaxCtx THEN Len(s) - MaxCtx ELSE 0) + 1, Len(s))

\* agent_build_messages: the roles of the request after the system prompt.
Request == Append(Window(buf), Message("user", userLen, {2 * turns - 1}))

\* The test of the iteration limit in agent_react_loop.
RoundsLeft == iter < MaxIter

\* agent_react_loop: the provider asks for tools, which are executed.
ToolRound ==
    /\ pc = "chat"
    /\ RoundsLeft
    /\ iter' = iter + 1
    /\ UNCHANGED <<stored, buf, skip, pc, userLen, cut, used, turns, hist>>

\* The provider fails: agent_run returns without storing anything.
ChatFails ==
    /\ pc = "chat"
    /\ pc' = "idle"
    /\ buf' = <<>>
    /\ UNCHANGED <<stored, skip, userLen, cut, used, iter, turns, hist>>

\* append_exchange_to_session_json
Exchange(len) ==
    buf \o <<Message("user", userLen, {2 * turns - 1}),
             Message("assistant", len, {2 * turns})>>

\* The provider answers (or the tool rounds are used up): agent_persist_session
\* stores transcript and exchange, unless the row was too large to load or the
\* result would be too large to store.
Answer(len) ==
    /\ pc = "chat"
    /\ \/ /\ ~skip
          /\ JsonLen(Exchange(len)) < JsonMax
          /\ stored' = Exchange(len)
          /\ saved' = saved \cup {2 * turns - 1, 2 * turns}
       \/ /\ skip \/ JsonLen(Exchange(len)) >= JsonMax
          /\ UNCHANGED <<stored, saved>>
    /\ buf' = <<>>
    /\ pc' = "idle"
    /\ UNCHANGED <<skip, userLen, cut, used, iter, turns, misread>>

\* session_save fails; its return value is not looked at.
SaveFails ==
    /\ pc = "chat"
    /\ ~skip
    /\ buf' = <<>>
    /\ pc' = "idle"
    /\ UNCHANGED <<stored, skip, userLen, cut, used, iter, turns, hist>>

-----------------------------------------------------------------------------
\* /reset, DELETE /api/sessions: under the agent mutex, so between two runs.
session_delete ==
    /\ pc = "idle"
    /\ stored # NoRow
    /\ stored' = NoRow
    /\ saved' = {}
    /\ misread' = FALSE
    /\ UNCHANGED <<buf, skip, pc, userLen, cut, used, iter, turns>>

\* The process dies and comes up again.
Crash ==
    /\ pc # "idle"
    /\ pc' = "idle"
    /\ buf' = <<>>
    /\ UNCHANGED <<stored, skip, userLen, cut, used, iter, turns, hist>>

\* Nobody writes any more.
Quiet ==
    /\ pc = "idle"
    /\ turns = MaxTurns
    /\ UNCHANGED vars

Next ==
    \/ \E len \in UserLens : Begin(len)
    \/ session_load
    \/ LoadError
    \/ ScanLine
    \/ ScanStop
    \/ \E len \in SummaryLens : compact_session_via_llm(len)
    \/ CompactionFails
    \/ ToolRound
    \/ ChatFails
    \/ \E len \in AnswerLens : Answer(len)
    \/ SaveFails
    \/ session_delete
    \/ Crash
    \/ Quiet

Spec == Init /\ [][Next]_vars

-----------------------------------------------------------------------------
(* Properties. *)

\* No two neighbours have the same role.
Alternates(s) == \A i \in 1 .. (Len(s) - 1) : s[i].role # s[i + 1].role

\* What a transcript still tells, verbatim or summarized.
Covered(s) == UNION {s[i].covers : i \in 1 .. Len(s)}

\* The provider never gets two user turns in a row, which Anthropic rejects on
\* this turn and every later one, whatever was summarized, folded or cut.
RequestAlternates ==
    pc = "chat" => Alternates(Request)

\* Every exchange that was stored is still in the row, verbatim or in a
\* summary, until the session is reset: compaction deletes no turn unread.  A
\* failed read of the row is the subject of NothingWiped.
NothingForgotten == misread \/ saved \subseteq Covered(stored)

\* The same when SQLite fails to read a row that is there: a caller that cannot
\* tell this from an empty history stores the next exchange over it.
NothingWiped == saved \subseteq Covered(stored)

\* The row changes by a reset or by a whole exchange only: a failed follow-up
\* call, a failed summary or a crash leaves the stored transcript as it was, and
\* a row longer than the buffer is not replaced by a turn that could read it.  A
\* compaction that changes the transcript makes it shorter, so that it cannot
\* grow until SESSION_JSON_MAX stops the saves (agent.c:284, 325, memory.c:263).
OnlyWholeExchanges ==
    [][/\ stored' # stored =>
             \/ stored' = NoRow
             \/ /\ pc = "chat" /\ {2 * turns - 1, 2 * turns} \subseteq saved'
                /\ ~(JsonLen(stored) >= JsonMax) \/ misread
       /\ pc = "summarize" /\ buf' # buf => Len(buf') < Len(buf) \/ buf' = <<>>]_vars

=============================================================================
