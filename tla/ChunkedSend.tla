----------------------------- MODULE ChunkedSend -----------------------------
(***************************************************************************)
(* A reply that is longer than a message of the platform may be is sent in *)
(* pieces (channels/channel_common.c), each posted by the Discord or the   *)
(* Telegram channel with a retry when the platform says "too many          *)
(* requests" (channels/discord.c, channels/telegram.c).  A text is its     *)
(* bytes, of which only matters whether they continue a character.  The    *)
(* platform is external: it takes a piece or refuses it, and its answer    *)
(* may be lost.  Waiting is in seconds; memory exhaustion is left out.     *)
(***************************************************************************)
EXTENDS Integers, Sequences

CONSTANTS
    MaxText,     \* bound on the bytes of a text
    MaxBytes,    \* DISCORD_MSG_MAX_LEN and TG_TEXT_MAX
    Attempts,    \* DISCORD_SEND_MAX_ATTEMPTS
    Asked,       \* the waits a platform asks for, 0 for none
    BaseWait,    \* DISCORD_SEND_BASE_BACKOFF_MS
    LeastWait,   \* the shortest wait of discord_helpers_send_backoff_ms
    WaitCap      \* DISCORD_SEND_WAIT_CAP_MS and TG_429_WAIT_CAP_SEC

ASSUME PiecesAssumption == MaxText \in Nat /\ MaxBytes \in Nat \ {0}
ASSUME WaitsAssumption ==
    Attempts \in Nat /\ Asked \subseteq Nat /\ LeastWait \in Nat /\ WaitCap \in Nat

\* 1 << attempt does not overflow in so few attempts.
ASSUME BackoffAssumption == \A a \in 0 .. Attempts : 2 ^ a * BaseWait \in Nat

Texts == UNION {[1 .. n -> {"lead", "cont"}] : n \in 0 .. MaxText}

VARIABLES
    platform,  \* "discord" or "telegram"
    text,      \* what is to be sent
    pc,        \* "idle", "post" or "done"
    cursor,    \* bytes before the cursor
    index,     \* pieces before the cursor
    attempt,   \* posts of this piece that were refused with 429
    returned,  \* what the send returned
    fail,      \* channel_chunk_fail_t
    wait,      \* history: [asked, slept] of the last 429
    pieces     \* history: the pieces the platform took, <<first, last>> bytes

sendVars == <<platform, text, pc, cursor, index, attempt, returned, fail, wait, pieces>>

NoFail == [index |-> 0, offset |-> 0]

SendInit ==
    /\ platform = "discord" /\ text = <<>> /\ pc = "idle"
    /\ cursor = 0 /\ index = 0 /\ attempt = 0
    /\ returned = 0 /\ fail = NoFail
    /\ wait = [asked |-> 0, slept |-> 0] /\ pieces = <<>>

-----------------------------------------------------------------------------
\* How far back the cut walks from byte n: to a byte that starts a character.
Boundary(n) ==
    {k \in 1 .. n : /\ text[cursor + k + 1] = "lead"
                    /\ \A j \in k + 1 .. n : text[cursor + j + 1] = "cont"}

\* Mutant: the cut does not look at the bytes.
Mut_channel_outbound_chunk_len ==
    IF Len(text) - cursor <= MaxBytes THEN Len(text) - cursor ELSE MaxBytes

\* The length of the next piece; a text with no boundary is cut at the limit.
channel_outbound_chunk_len ==
    IF Len(text) - cursor <= MaxBytes THEN Len(text) - cursor
    ELSE IF Boundary(MaxBytes) # {} THEN CHOOSE k \in Boundary(MaxBytes) : TRUE
    ELSE MaxBytes

piece == <<cursor + 1, cursor + channel_outbound_chunk_len>>

\* discord_send and tg_send: no text, no token or no address is an error.
SendReply(k, t) ==
    /\ pc = "idle"
    /\ platform' = k /\ text' = t
    /\ \/ t # <<>> /\ pc' = "post" /\ UNCHANGED returned
       \/ pc' = "done" /\ returned' = -1
    /\ UNCHANGED <<cursor, index, attempt, fail, wait, pieces>>

Stop ==
    /\ pc' = "done" /\ returned' = -1
    /\ fail' = [index |-> index, offset |-> cursor]
    /\ UNCHANGED <<cursor, index, attempt>>

\* channel_send_chunked: the piece is posted and the cursor moves on.
Posted ==
    /\ pc = "post"
    /\ pieces' = Append(pieces, piece)
    /\ cursor' = cursor + channel_outbound_chunk_len
    /\ index' = index + 1 /\ attempt' = 0
    /\ IF cursor' = Len(text) THEN pc' = "done" /\ returned' = 0
       ELSE UNCHANGED <<pc, returned>>
    /\ UNCHANGED <<platform, text, fail, wait>>

\* The platform took the piece, but the transfer broke off before its answer.
AnswerLost ==
    /\ pc = "post"
    /\ pieces' = Append(pieces, piece)
    /\ Stop
    /\ UNCHANGED <<platform, text, wait>>

\* The transfer failed, or the answer is neither success nor 429.
Rejected ==
    /\ pc = "post"
    /\ Stop
    /\ UNCHANGED <<platform, text, wait, pieces>>

Least(a, b) == IF a < b THEN a ELSE b
Greatest(a, b) == IF a < b THEN b ELSE a

\* What is slept: the wait that was asked for, or twice as long every time.
discord_helpers_send_backoff_ms(asked) ==
    Least(WaitCap, Greatest(LeastWait, IF asked > 0 THEN asked ELSE 2 ^ attempt * BaseWait))

telegram_retry_after_sec(asked) == Least(WaitCap, asked)

Slept(asked) ==
    IF platform = "discord" THEN discord_helpers_send_backoff_ms(asked)
    ELSE telegram_retry_after_sec(asked)

MayRetry == attempt + 1 < (IF platform = "discord" THEN Attempts ELSE 2)

\* 429: the same piece again, or the end of the attempts.
TooMany(asked) ==
    /\ pc = "post"
    /\ IF MayRetry
       THEN /\ attempt' = attempt + 1
            /\ wait' = [asked |-> asked, slept |-> Slept(asked)]
            /\ UNCHANGED <<pc, cursor, index, returned, fail>>
       ELSE Stop /\ UNCHANGED wait
    /\ UNCHANGED <<platform, text, pieces>>

SendNext ==
    \/ \E k \in {"discord", "telegram"}, t \in Texts : SendReply(k, t)
    \/ Posted \/ AnswerLost \/ Rejected \/ \E a \in Asked : TooMany(a)

SendSpec == SendInit /\ [][SendNext]_sendVars

-----------------------------------------------------------------------------
(* Properties. *)

\* Every character is at most as long as a message may be.
Readable ==
    \A i \in 1 .. Len(text) - MaxBytes + 1 : \E j \in i .. i + MaxBytes - 1 : text[j] = "lead"

Through == IF pieces = <<>> THEN 0 ELSE pieces[Len(pieces)][2]

\* What the recipient has is the beginning of the reply, each byte once and in
\* order, no message too long and no character cut in two; all of it on success;
\* on an error the place that is logged is where it stops, but for the one piece
\* whose answer was lost.  A wait that was asked for is kept up to the cap
\* (channel_common.c:34-101, discord.c:883-936, telegram.c:355-395).
ReplyWhole ==
    /\ \A i \in DOMAIN pieces :
          /\ pieces[i][1] = (IF i = 1 THEN 1 ELSE pieces[i - 1][2] + 1)
          /\ pieces[i][2] - pieces[i][1] \in 0 .. MaxBytes - 1
          /\ Readable /\ pieces[i][2] < Len(text) => text[pieces[i][2] + 1] = "lead"
    /\ pc = "done" /\ returned = 0 => Through = Len(text)
    /\ pc = "done" /\ returned = -1 /\ text # <<>> =>
          \/ Through = fail.offset /\ Len(pieces) = fail.index
          \/ /\ pieces # <<>> /\ fail.offset = pieces[Len(pieces)][1] - 1
             /\ Len(pieces) = fail.index + 1
    /\ wait.slept >= Least(wait.asked, WaitCap)
=============================================================================
