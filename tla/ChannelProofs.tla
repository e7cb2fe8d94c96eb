--------------------------- MODULE ChannelProofs ----------------------------
(***************************************************************************)
(* The message channels: two that remember a position on a server, and how *)
(* both send a reply.                                                      *)
(*                                                                         *)
(* Telegram: HandledOnce, for any number of updates and restarts.  It is   *)
(* not inductive: what makes it so is where the offset stands.             *)
(*                                                                         *)
(* Discord: NoSplice, NothingMissed and the refinement of Inbox, for any   *)
(* frame limit, any set of message shapes and any number of connections.   *)
(* The invariant ties four things together: the log that the gateway keeps *)
(* of a session, the fragments on the wire, the payload that is being      *)
(* reassembled or skipped, and the sequence number that the client would   *)
(* resume from.                                                            *)
(*                                                                         *)
(* Sending: ReplyWhole, for any text, length of a message, number of       *)
(* attempts and waits.                                                     *)
(***************************************************************************)
EXTENDS DiscordSession, TelegramPoll, ChunkedSend, FiniteSetTheorems,
        WellFoundedInduction, SequenceTheorems, TLAPS

-----------------------------------------------------------------------------
(* Telegram. *)

\* The updates are numbered without gaps, the server keeps some of them, and
\* none was handled before it was made.
NumberedInv ==
    /\ \E n \in Nat : Made = 1 .. n
    /\ Made \subseteq Ids
    /\ kept \subseteq Made
    /\ last = 0 \/ last \in Made
    /\ hand \in Nat /\ restarts \in Nat
    /\ times \in [Ids -> Nat]
    /\ \A i \in Ids \ Made : times[i] = 0

\* The update in hand is the last one that was taken, it is for the agent, and
\* the server still keeps it: the offset that confirms it has not been sent.
HandInv ==
    hand # 0 =>
        /\ alive
        /\ hand = last
        /\ hand \in kept /\ kind[hand] = "text"
        /\ times[hand] <= restarts

\* What this process has moved past was handled; what it has not come to was
\* handled by earlier processes only.
OffsetInv ==
    alive => \A i \in Made :
        /\ i <= last /\ i # hand /\ kind[i] = "text" => times[i] > 0
        /\ i > last => times[i] <= restarts

TelegramInv == NumberedInv /\ HandInv /\ OffsetInv /\ HandledOnce

\* TelegramInv holds when the process starts for the first time.
LEMMA TelegramInvInit == TelegramInit => TelegramInv
<1> SUFFICES ASSUME TelegramInit PROVE TelegramInv
  OBVIOUS
<1>1. Made = {}
  BY DEF TelegramInit, Made
<1>2. 0 \in Nat /\ 1 .. 0 = {}
  OBVIOUS
<1> QED
  BY <1>1, <1>2 DEF TelegramInit, TelegramInv, NumberedInv, HandInv, OffsetInv, HandledOnce

\* An update that is made has a number above the offset.
LEMMA PostKeeps ==
    ASSUME TelegramInv, UpdateMade
    PROVE  TelegramInv'
<1> USE DEF TelegramInv
<1>1. PICK n \in Nat : Made = 1 .. n
  BY DEF NumberedInv
<1>2. Cardinality(Made) = n
  BY <1>1, FS_Interval
<1>3. PICK k \in Kinds :
        /\ kind' = [i \in Made \cup {n + 1} |-> IF i = n + 1 THEN k ELSE kind[i]]
        /\ kept' = kept \cup {n + 1}
  BY <1>2 DEF UpdateMade
<1>4. Made' = 1 .. (n + 1) /\ n + 1 \in Ids /\ n + 1 \notin Made
  BY <1>1, <1>2, <1>3, UpdatesAssumption DEF Made, UpdateMade, Ids
<1>5. \A i \in Made : kind'[i] = kind[i]
  BY <1>1, <1>3
<1>6. UNCHANGED <<last, hand, alive, restarts, times>>
  BY DEF UpdateMade
<1>7. \A i \in Made' : i \in Made \/ i = n + 1
  BY <1>1, <1>4
<1>8. Made \subseteq Made' /\ kept' \subseteq Made' /\ Made' \subseteq Ids
  BY <1>1, <1>3, <1>4 DEF NumberedInv
<1>9. NumberedInv'
  BY <1>4, <1>6, <1>8 DEF NumberedInv, Ids
<1>10. HandInv'
  BY <1>3, <1>5, <1>6 DEF HandInv, NumberedInv
<1>11. times[n + 1] = 0 /\ restarts \in Nat
  BY <1>4 DEF NumberedInv
<1>12. OffsetInv'
  BY <1>1, <1>5, <1>6, <1>7, <1>11 DEF OffsetInv, NumberedInv
<1>13. HandledOnce'
  BY <1>3, <1>5, <1>6, <1>7, <1>11 DEF HandledOnce
<1> QED
  BY <1>9, <1>10, <1>12, <1>13

\* Every set of natural numbers has a least one.
LEMMA LeastOfNaturals ==
    ASSUME NEW S, S \subseteq Nat, S # {}
    PROVE  \E j \in S : \A k \in S : j <= k
<1>1. PICK j \in S : \A k \in S : <<k, j>> \notin OpToRel(<, Nat)
  BY NatLessThanWellFounded, WFMin
<1>2. \A k \in S : ~(k < j)
  BY <1>1 DEF OpToRel
<1> QED
  BY <1>2

\* The numbers of updates are positive.
LEMMA MadeNaturals == NumberedInv => Made \subseteq Nat \ {0} /\ last \in Nat
  BY DEF NumberedInv

\* The server forgets only what the offset has passed and was handled.
LEMMA ConfirmedHandled ==
    ASSUME TelegramInv, alive, hand = 0
    PROVE  /\ Confirmed \subseteq kept
           /\ \A i \in Made \ Confirmed : kind[i] = "text" => times[i] > 0
<1>1. \A i \in Made : i \in Int
  BY DEF TelegramInv, NumberedInv
<1>2. last \in Nat
  BY DEF TelegramInv, NumberedInv
<1>3. ASSUME NEW i \in Made \ Confirmed, i \in kept PROVE i <= last /\ i # hand
  BY <1>1, <1>2, <1>3 DEF Confirmed, Offset, TelegramInv, NumberedInv
<1>4. \A i \in Made \ kept : kind[i] = "text" => times[i] > 0
  BY DEF TelegramInv, HandledOnce
<1> QED
  BY <1>3, <1>4 DEF Confirmed, TelegramInv, OffsetInv

\* A poll that gives nothing confirms what was handled.
LEMMA PollNoneKeeps == TelegramInv /\ tg_poll_none => TelegramInv'
<1> SUFFICES ASSUME TelegramInv, tg_poll_none PROVE TelegramInv'
  OBVIOUS
<1>1. /\ UNCHANGED <<kind, last, hand, alive, restarts, times>>
      /\ alive /\ hand = 0 /\ kept' = Confirmed
  BY DEF tg_poll_none
<1>2. Made' = Made
  BY <1>1 DEF Made
<1>3. /\ kept' \subseteq kept
      /\ \A i \in Made \ kept' : kind[i] = "text" => times[i] > 0
  BY <1>1, ConfirmedHandled
<1> QED
  BY <1>1, <1>2, <1>3 DEF TelegramInv, NumberedInv, HandInv, OffsetInv, HandledOnce

\* A poll takes the first update behind the offset: those between were handled.
LEMMA PollKeeps == TelegramInv /\ tg_poll => TelegramInv'
<1> SUFFICES ASSUME TelegramInv, tg_poll PROVE TelegramInv'
  OBVIOUS
<1> DEFINE i == CHOOSE j \in Confirmed : \A k \in Confirmed : j <= k
<1>1. /\ UNCHANGED <<kind, alive, restarts, times>>
      /\ alive /\ hand = 0 /\ kept' = Confirmed /\ Confirmed # {}
      /\ last' = i
      /\ hand' = IF kind[i] = "text" THEN i ELSE 0
  BY DEF tg_poll, parse_update
<1>2. Made' = Made
  BY <1>1 DEF Made
<1>3. /\ kept' \subseteq kept
      /\ \A j \in Made \ kept' : kind[j] = "text" => times[j] > 0
  BY <1>1, ConfirmedHandled
<1>4. i \in Confirmed /\ \A k \in Confirmed : i <= k
  <2>1. Confirmed \subseteq Nat /\ Confirmed # {}
    BY <1>1, MadeNaturals DEF Confirmed, TelegramInv, NumberedInv
  <2> HIDE DEF i
  <2>2. \E j \in Confirmed : \A k \in Confirmed : j <= k
    BY <2>1, LeastOfNaturals
  <2> QED
    BY <2>2 DEF i
<1> HIDE DEF i
<1>5. i \in Made /\ i > last /\ last \in Nat /\ i \in Nat
  <2>1. i \in kept /\ i >= last + 1
    BY <1>4 DEF Confirmed, Offset
  <2> QED
    BY <2>1, MadeNaturals DEF TelegramInv, NumberedInv
<1>6. times[i] <= restarts
  BY <1>1, <1>5 DEF TelegramInv, OffsetInv
<1>7. NumberedInv'
  BY <1>1, <1>2, <1>3, <1>5 DEF TelegramInv, NumberedInv
<1>8. HandInv'
  BY <1>1, <1>4, <1>6 DEF HandInv
<1>9. OffsetInv'
  <2> SUFFICES ASSUME NEW j \in Made
      PROVE  /\ j <= i /\ j # hand' /\ kind[j] = "text" => times[j] > 0
             /\ j > i => times[j] <= restarts
    BY <1>1, <1>2 DEF OffsetInv
  <2>1. j \in Nat
    BY DEF TelegramInv, NumberedInv
  <2>2. j > i => times[j] <= restarts
    BY <2>1, <1>1, <1>5 DEF TelegramInv, OffsetInv
  <2>3. j < i => j \in Made \ kept'
    BY <2>1, <1>1, <1>4, <1>5
  <2>4. j <= i /\ j # hand' /\ kind[j] = "text" => times[j] > 0
    BY <2>1, <2>3, <1>1, <1>3, <1>5
  <2> QED
    BY <2>2, <2>4
<1>10. HandledOnce'
  BY <1>1, <1>2, <1>3 DEF TelegramInv, HandledOnce
<1> QED
  BY <1>7, <1>8, <1>9, <1>10 DEF TelegramInv

\* The update in hand is done: it was handled by earlier processes at most.
LEMMA HandledKeeps == TelegramInv /\ Handled => TelegramInv'
<1> SUFFICES ASSUME TelegramInv, Handled PROVE TelegramInv'
  OBVIOUS
<1>1. /\ UNCHANGED <<kind, kept, last, alive, restarts>>
      /\ alive /\ hand # 0 /\ hand' = 0
      /\ times' = [times EXCEPT ![hand] = @ + 1]
  BY DEF Handled
<1>2. Made' = Made /\ hand \in Made /\ hand \in Ids
  BY <1>1 DEF Made, TelegramInv, NumberedInv, HandInv
<1>3. times \in [Ids -> Nat] /\ restarts \in Nat /\ hand = last /\ times[hand] <= restarts
  BY <1>1 DEF TelegramInv, NumberedInv, HandInv
<1>4. /\ times' \in [Ids -> Nat] /\ times'[hand] = times[hand] + 1
      /\ \A i \in Ids \ {hand} : times'[i] = times[i]
  BY <1>1, <1>2, <1>3
<1>5. NumberedInv'
  BY <1>1, <1>2, <1>4 DEF TelegramInv, NumberedInv, Ids
<1>6. HandInv'
  BY <1>1 DEF HandInv
<1>7. Made \subseteq Ids /\ Made \subseteq Nat
  BY DEF TelegramInv, NumberedInv
<1>8. OffsetInv'
  BY <1>1, <1>2, <1>3, <1>4, <1>7 DEF TelegramInv, OffsetInv
<1>9. HandledOnce'
  BY <1>1, <1>2, <1>3, <1>4, <1>7 DEF TelegramInv, HandledOnce
<1> QED
  BY <1>5, <1>6, <1>8, <1>9 DEF TelegramInv

\* A crash loses what is in hand, which the server still keeps.
LEMMA CrashKeeps == TelegramInv /\ Crash => TelegramInv'
<1> SUFFICES ASSUME TelegramInv, Crash PROVE TelegramInv'
  OBVIOUS
<1>1. Made' = Made
  BY DEF Crash, Made
<1> QED
  BY <1>1 DEF Crash, TelegramInv, NumberedInv, HandInv, OffsetInv, HandledOnce

\* The next process starts below all updates, and may handle each once more.
LEMMA RestartKeeps == TelegramInv /\ tg_init => TelegramInv'
<1> SUFFICES ASSUME TelegramInv, tg_init PROVE TelegramInv'
  OBVIOUS
<1>1. Made' = Made /\ Made \subseteq Nat \ {0} /\ Made \subseteq Ids
  BY DEF tg_init, Made, TelegramInv, NumberedInv
<1>2. /\ UNCHANGED <<kind, kept, hand, times>>
      /\ last' = 0 /\ restarts' = restarts + 1 /\ hand = 0
  BY DEF tg_init, TelegramInv, HandInv
<1>3. restarts \in Nat /\ times \in [Ids -> Nat]
  BY DEF TelegramInv, NumberedInv
<1>4. \A i \in Made : i > 0 /\ times[i] <= 1 + restarts
  BY <1>1 DEF TelegramInv, HandledOnce
<1>5. NumberedInv'
  BY <1>1, <1>2, <1>3 DEF TelegramInv, NumberedInv, Ids
<1>6. OffsetInv'
  BY <1>1, <1>2, <1>3, <1>4 DEF OffsetInv
<1>7. HandledOnce'
  BY <1>1, <1>2, <1>3, <1>4 DEF TelegramInv, HandledOnce
<1> QED
  BY <1>2, <1>5, <1>6, <1>7 DEF TelegramInv, HandInv

\* An update the server has forgotten was handled, and more than once only by
\* processes that were started again (telegram.c:268-300).
THEOREM TelegramHandled == TelegramSpec => []HandledOnce
<1>1. TelegramInv /\ [TelegramNext]_telegramVars => TelegramInv'
  <2> SUFFICES ASSUME TelegramInv, [TelegramNext]_telegramVars PROVE TelegramInv'
    OBVIOUS
  <2>1. CASE UNCHANGED telegramVars
    <3>1. Made' = Made
      BY <2>1 DEF telegramVars, Made
    <3> QED
      BY <2>1, <3>1 DEF telegramVars, TelegramInv, NumberedInv, HandInv, OffsetInv, HandledOnce
  <2> QED
    BY <2>1, PostKeeps, PollKeeps, PollNoneKeeps, HandledKeeps, CrashKeeps, RestartKeeps
    DEF TelegramNext
<1>2. TelegramInv => HandledOnce
  BY DEF TelegramInv
<1> QED
  BY TelegramInvInit, <1>1, <1>2, PTL DEF TelegramSpec

-----------------------------------------------------------------------------
(* Discord: the sequences that the model is built from. *)

\* s is a sequence, whatever its elements are.
IsSeq(s) == s \in Seq({s[i] : i \in 1 .. Len(s)})

-----------------------------------------------------------------------------
(* What the gateway keeps and what is on its way. *)

\* The events of a session: READY, then the messages in the order of their
\* numbers, of which n were posted.
LogOk(log, n) ==
    /\ IsSeq(log)
    /\ log # <<>> => log[1].kind = "ready" /\ log[1].len = 1 /\ log[1].m = 0
    /\ \A i \in 2 .. Len(log) :
          /\ log[i].kind \in {"dm", "mention", "stranger"}
          /\ log[i].len \in Nat \ {0}
          /\ log[i].m \in 1 .. n
          /\ \A j \in 2 .. i - 1 : log[j].m < log[i].m

\* The payload of the event n of a session.
Event(n, log, session) == IF n = 1 THEN Ready(1, session) ELSE Create(n, log[n])

\* The event that a fragment is part of has a number.
HasNumber(f) == f.of.op \in {"ready", "create"}

\* A fragment is cut as Fragments does.
Cut(f) == /\ f.of.len \in Nat /\ f.i \in 1 .. f.of.len
          /\ f.final \in BOOLEAN /\ (f.final <=> f.i = f.of.len)

\* The fragments of a payload follow one another, and the last one is there.
Chained(w) ==
    /\ IsSeq(w)
    /\ \A j \in 1 .. Len(w) : Cut(w[j])
    /\ \A j \in 1 .. Len(w) - 1 :
          IF w[j].final THEN w[j + 1].i = 1
          ELSE w[j + 1].of = w[j].of /\ w[j + 1].i = w[j].i + 1
    /\ w # <<>> => w[Len(w)].final

\* The next fragment goes on where rx_buf (r) ends; while the rest of a payload
\* is skipped (k), it is of one that does not fit.
HeadOk(w, r, k) ==
    /\ IsSeq(r)
    /\ k \in BOOLEAN
    /\ w = <<>> => r = <<>> /\ ~k
    /\ w # <<>> /\ ~k => w[1].i = Len(r) + 1 /\ (r # <<>> => w[1].of = r[1].of)
    /\ w # <<>> /\ k => r = <<>> /\ w[1].i > 1 /\ w[1].of.len > RxMax

\* On a live connection there are the events up to at, RESUMED and RECONNECT.
Served(w, log, session, at) ==
    \A j \in 1 .. Len(w) :
        \/ w[j].of \in {Resumed, Reconnect}
        \/ \E n \in 1 .. at : w[j].of = Event(n, log, session)

\* Events come in the order of their numbers, all of them above q.
Ordered(w, q) ==
    /\ \A j \in 1 .. Len(w) : HasNumber(w[j]) => w[j].of.s > q
    /\ \A j, k \in 1 .. Len(w) :
          j < k /\ HasNumber(w[j]) /\ HasNumber(w[k]) =>
              /\ w[j].of.s <= w[k].of.s
              /\ w[j].final => w[j].of.s < w[k].of.s

\* Every event after q up to at that fits into rx_buf has its end on the wire.
EndOf(f, n) == f.final /\ HasNumber(f) /\ f.of.s = n
Ends(w, n) == \E j \in 1 .. Len(w) : EndOf(w[j], n)
Complete(w, log, q, at) == \A n \in q + 1 .. at : log[n].len > RxMax \/ Ends(w, n)

\* s is a record with the fields of srv.
IsServer(s) ==
    s = [sid |-> s.sid, log |-> s.log, at |-> s.at, live |-> s.live,
         replay |-> s.replay, closing |-> s.closing]

\* The last message that was put into the queue.
LastGot == IF got = <<>> THEN 0 ELSE Last(got)

-----------------------------------------------------------------------------
(* The parts of the inductive invariant. *)

\* The gateway numbers sessions and messages upwards; the session the client
\* knows is not newer than the gateway's.
NumbersInv ==
    /\ IsServer(srv)
    /\ srv.sid \in Nat /\ posted \in Nat /\ sid \in Nat /\ seq \in Nat
    /\ srv.at \in Nat /\ srv.live \in BOOLEAN
    /\ sid <= srv.sid
    /\ LogOk(srv.log, posted)
    /\ sid # 0 /\ sid = srv.sid => seq \in 1 .. Len(srv.log)
    /\ up # <<>> => up[1].op = "identify" \/ up[1].seq \in Nat
    /\ got \in Seq(Nat)
    /\ LastGot <= posted

\* What the client and the gateway agree on before events may be sent: no
\* frame of the client meets one of the gateway.
HandshakeInv ==
    /\ pend \in {"no", "identify", "resume"}
    /\ up \in {<<>>, <<discord_build_identify>>, <<discord_build_resume>>}
    /\ sid = 0 <=> seq = 0
    /\ sid # 0 => botId
    /\ conn # "open" => wire = <<>> /\ up = <<>> /\ pend = "no" /\ ~srv.live
    /\ wire # <<>> /\ ~srv.live => up = <<>> /\ pend = "no"
    /\ srv.live \/ pend # "no" => up = <<>>
    /\ srv.live => pend = "no"
    /\ pend = "identify" \/ up = <<discord_build_identify>> => sid = 0
    /\ pend = "resume" \/ up = <<discord_build_resume>> => sid # 0
    /\ ~srv.live => /\ Len(wire) <= 1
                    /\ \A j \in 1 .. Len(wire) :
                          wire[j].of \in {Hello, Invalid(TRUE), Invalid(FALSE)}
                    /\ \A j \in 1 .. Len(wire) :
                          wire[j].of = Invalid(FALSE) => sid # srv.sid

\* The fragments on the wire and in rx_buf fit together.
FrameInv == Chained(wire) /\ (conn = "open" => HeadOk(wire, rx, skip))

\* What a live connection still has to bring.
LiveInv ==
    srv.live =>
        /\ sid \in {0, srv.sid} /\ srv.sid # 0
        /\ srv.log # <<>> /\ srv.at \in seq .. Len(srv.log)
        /\ Served(wire, srv.log, srv.sid, srv.at)
        /\ Ordered(wire, seq)
        /\ Complete(wire, srv.log, seq, srv.at)

\* A message that was not passed yet is later than those in the queue.
LaterInv ==
    \A i \in 2 .. Len(srv.log) : (sid = srv.sid /\ i <= seq) \/ srv.log[i].m > LastGot

DiscordInv ==
    /\ NumbersInv
    /\ thread => HandshakeInv /\ FrameInv /\ LiveInv /\ LaterInv
    /\ NoSplice
    /\ NothingMissed
-----------------------------------------------------------------------------
(* Sequences. *)

\* IsSeq in the words of the definition of Seq.
LEMMA IsSeqLen ==
    ASSUME NEW w, IsSeq(w)
    PROVE  Len(w) \in Nat /\ DOMAIN w = 1 .. Len(w) /\ (w = <<>> <=> Len(w) = 0)
BY DEF IsSeq

\* A sequence of any set is a sequence.
LEMMA SeqIsSeq ==
    ASSUME NEW S, NEW w \in Seq(S)
    PROVE  IsSeq(w)
<1> DEFINE R == {w[i] : i \in 1 .. Len(w)}
<1>1. Len(w) \in Nat /\ DOMAIN w = 1 .. Len(w) /\ w \in [1 .. Len(w) -> S]
  OBVIOUS
<1>2. w \in [1 .. Len(w) -> R]
  BY <1>1
<1> HIDE DEF R
<1>3. w \in Seq(R)
  BY <1>1, <1>2
<1> QED
  BY <1>3 DEF IsSeq, R

LEMMA TailFacts ==
    ASSUME NEW w, IsSeq(w), w # <<>>
    PROVE  /\ IsSeq(Tail(w))
           /\ Len(w) \in Nat \ {0} /\ Len(Tail(w)) = Len(w) - 1
           /\ \A j \in 1 .. Len(w) - 1 : Tail(w)[j] = w[j + 1]
           /\ Head(w) = w[1]
           /\ Tail(w) = <<>> <=> Len(w) = 1
<1> DEFINE R == {w[i] : i \in 1 .. Len(w)}
<1>1. w \in Seq(R)
  BY DEF IsSeq
<1> HIDE DEF R
<1>2. Tail(w) \in Seq(R) /\ Len(w) \in Nat \ {0} /\ Len(Tail(w)) = Len(w) - 1
  BY <1>1
<1>3. \A j \in 1 .. Len(w) - 1 : Tail(w)[j] = w[j + 1]
  BY <1>1
<1>4. Head(w) = w[1]
  BY <1>1
<1>5. IsSeq(Tail(w))
  BY <1>2, SeqIsSeq
<1>6. Tail(w) = <<>> <=> Len(Tail(w)) = 0
  BY <1>5, IsSeqLen
<1>7. Len(Tail(w)) = 0 <=> Len(w) = 1
  BY <1>2
<1> QED
  BY <1>2, <1>3, <1>4, <1>5, <1>6, <1>7

LEMMA ConcatFacts ==
    ASSUME NEW v, NEW w, IsSeq(v), IsSeq(w)
    PROVE  /\ IsSeq(v \o w)
           /\ Len(v) \in Nat /\ Len(w) \in Nat /\ Len(v \o w) = Len(v) + Len(w)
           /\ \A j \in 1 .. Len(v) : (v \o w)[j] = v[j]
           /\ \A j \in Len(v) + 1 .. Len(v) + Len(w) : (v \o w)[j] = w[j - Len(v)]
<1> DEFINE R == {v[i] : i \in 1 .. Len(v)} \cup {w[i] : i \in 1 .. Len(w)}
<1>1. v \in Seq(R) /\ w \in Seq(R)
  <2>1. v \in [1 .. Len(v) -> R] /\ Len(v) \in Nat
    BY DEF IsSeq
  <2>2. w \in [1 .. Len(w) -> R] /\ Len(w) \in Nat
    BY DEF IsSeq
  <2> HIDE DEF R
  <2> QED
    BY <2>1, <2>2
<1> HIDE DEF R
<1>2. v \o w \in Seq(R) /\ Len(v \o w) = Len(v) + Len(w) /\ Len(v) \in Nat /\ Len(w) \in Nat
  BY <1>1
<1>3. \A j \in 1 .. Len(v) : (v \o w)[j] = v[j]
  BY <1>1
<1>4. \A j \in Len(v) + 1 .. Len(v) + Len(w) : (v \o w)[j] = w[j - Len(v)]
  BY <1>1
<1> QED
  BY <1>2, <1>3, <1>4, SeqIsSeq

LEMMA AppendFacts ==
    ASSUME NEW v, NEW e, IsSeq(v)
    PROVE  /\ IsSeq(Append(v, e))
           /\ Len(v) \in Nat /\ Len(Append(v, e)) = Len(v) + 1
           /\ \A j \in 1 .. Len(v) : Append(v, e)[j] = v[j]
           /\ Append(v, e)[Len(v) + 1] = e
           /\ Append(v, e) # <<>>
           /\ Last(Append(v, e)) = e
<1> DEFINE R == {v[i] : i \in 1 .. Len(v)} \cup {e}
<1>1. v \in Seq(R) /\ e \in R
  <2>1. v \in [1 .. Len(v) -> R] /\ Len(v) \in Nat
    BY DEF IsSeq
  <2>2. e \in R
    OBVIOUS
  <2> HIDE DEF R
  <2> QED
    BY <2>1, <2>2
<1> HIDE DEF R
<1>2. Append(v, e) \in Seq(R) /\ Len(Append(v, e)) = Len(v) + 1 /\ Len(v) \in Nat
  BY <1>1
<1>3. \A j \in 1 .. Len(v) : Append(v, e)[j] = v[j]
  BY <1>1
<1>4. Append(v, e)[Len(v) + 1] = e
  BY <1>1
<1>5. IsSeq(Append(v, e))
  BY <1>2, SeqIsSeq
<1>6. Append(v, e) # <<>>
  BY <1>2, <1>5, IsSeqLen
<1>7. Last(Append(v, e)) = e
  BY <1>2, <1>4 DEF Last
<1> QED
  BY <1>2, <1>3, <1>4, <1>5, <1>6, <1>7

\* What Fragments cuts a payload into.
LEMMA FragmentsFacts ==
    ASSUME NEW p, p.len \in Nat \ {0}
    PROVE  /\ IsSeq(Fragments(p)) /\ Len(Fragments(p)) = p.len
           /\ \A j \in 1 .. p.len : /\ Fragments(p)[j].of = p
                                    /\ Fragments(p)[j].i = j
                                    /\ Fragments(p)[j].final \in BOOLEAN
                                    /\ Fragments(p)[j].final <=> j = p.len
<1> DEFINE g(j) == [of |-> p, i |-> j, final |-> j = p.len]
           R == {g(j) : j \in 1 .. p.len}
<1>1. Fragments(p) = [j \in 1 .. p.len |-> g(j)]
  BY DEF Fragments
<1>2. \A j \in 1 .. p.len : g(j) \in R
  OBVIOUS
<1>3. \A j \in 1 .. p.len : /\ g(j).of = p /\ g(j).i = j
                            /\ g(j).final \in BOOLEAN /\ (g(j).final <=> j = p.len)
  OBVIOUS
<1> HIDE DEF g, R
<1>4. Fragments(p) \in Seq(R) /\ Len(Fragments(p)) = p.len
  BY <1>1, <1>2
<1>5. IsSeq(Fragments(p))
  BY <1>4, SeqIsSeq
<1> QED
  BY <1>1, <1>3, <1>4, <1>5
-----------------------------------------------------------------------------
(* Sending. *)

\* A payload that is sent whole keeps the fragments in a chain.
LEMMA SendChained ==
    ASSUME NEW w, NEW p, Chained(w), p.len \in Nat \ {0}
    PROVE  Chained(w \o Fragments(p))
<1> DEFINE g == Fragments(p)
           v == w \o g
<1>0. p.len \in Nat /\ p.len >= 1
  OBVIOUS
<1>1. IsSeq(w) /\ IsSeq(g) /\ Len(g) = p.len
  BY FragmentsFacts DEF Chained
<1>2. \A j \in 1 .. p.len : /\ g[j].of = p /\ g[j].i = j
                            /\ g[j].final \in BOOLEAN /\ (g[j].final <=> j = p.len)
  BY FragmentsFacts
<1> HIDE DEF g
<1>3. /\ IsSeq(v) /\ Len(w) \in Nat /\ Len(v) = Len(w) + p.len
      /\ \A j \in 1 .. Len(w) : v[j] = w[j]
      /\ \A j \in Len(w) + 1 .. Len(w) + p.len : v[j] = g[j - Len(w)]
  BY <1>1, ConcatFacts
<1>4. v # <<>>
  BY <1>3, IsSeqLen
<1> HIDE DEF v
<1>5. ASSUME NEW j \in 1 .. Len(v) PROVE Cut(v[j])
  <2>1. CASE j <= Len(w)
    BY <1>3, <2>1 DEF Chained
  <2>2. CASE j > Len(w)
    <3>1. j - Len(w) \in 1 .. p.len /\ v[j] = g[j - Len(w)]
      BY <1>3, <2>2, SMTT(30)
    <3> QED
      BY <1>2, <3>1 DEF Cut
  <2> QED
    BY <1>3, <2>1, <2>2
<1>6. ASSUME NEW j \in 1 .. Len(v) - 1
      PROVE  IF v[j].final THEN v[j + 1].i = 1
             ELSE v[j + 1].of = v[j].of /\ v[j + 1].i = v[j].i + 1
  <2>1. CASE j < Len(w)
    <3>1. j \in 1 .. Len(w) /\ j + 1 \in 1 .. Len(w) /\ j \in 1 .. Len(w) - 1
      BY <1>3, <2>1
    <3>2. v[j] = w[j] /\ v[j + 1] = w[j + 1]
      BY <1>3, <3>1
    <3> QED
      BY <3>1, <3>2 DEF Chained
  <2>2. CASE j = Len(w)
    <3>1. /\ j \in 1 .. Len(w) /\ j + 1 \in Len(w) + 1 .. Len(w) + p.len
          /\ (j + 1) - Len(w) = 1
      BY <1>0, <1>3, <2>2
    <3>2. v[j] = w[j] /\ v[j + 1] = g[1]
      BY <1>3, <3>1
    <3>3. w # <<>> /\ w[j].final
      BY <1>1, <2>2, <3>1, IsSeqLen DEF Chained
    <3>4. g[1].i = 1
      BY <1>0, <1>2
    <3> QED
      BY <3>2, <3>3, <3>4
  <2>3. CASE j > Len(w)
    <3>1. /\ j - Len(w) \in 1 .. p.len - 1
          /\ j \in Len(w) + 1 .. Len(w) + p.len /\ j + 1 \in Len(w) + 1 .. Len(w) + p.len
          /\ (j + 1) - Len(w) = (j - Len(w)) + 1
      BY <1>0, <1>3, <2>3, SMTT(30)
    <3>2. v[j] = g[j - Len(w)] /\ v[j + 1] = g[(j - Len(w)) + 1]
      BY <1>3, <3>1
    <3> DEFINE k == j - Len(w)
    <3> HIDE DEF k
    <3>3. k \in 1 .. p.len - 1 => /\ ~g[k].final
                                  /\ g[k + 1].of = g[k].of /\ g[k + 1].i = g[k].i + 1
      BY <1>2
    <3> QED
      BY <3>1, <3>2, <3>3 DEF k
  <2> QED
    BY <1>3, <2>1, <2>2, <2>3
<1>7. v[Len(v)].final
  <2>1. Len(v) \in Len(w) + 1 .. Len(w) + p.len /\ Len(v) - Len(w) = p.len
    BY <1>0, <1>3
  <2>2. v[Len(v)] = g[p.len]
    BY <1>3, <2>1
  <2> QED
    BY <1>0, <1>2, <2>2
<1> QED
  BY <1>3, <1>5, <1>6, <1>7 DEF Chained, v, g

\* What is sent behind the others does not change what comes next.
LEMMA SendHead ==
    ASSUME NEW w, NEW p, NEW r, NEW k,
           Chained(w), HeadOk(w, r, k), p.len \in Nat \ {0}
    PROVE  HeadOk(w \o Fragments(p), r, k)
<1> DEFINE g == Fragments(p)
           v == w \o g
<1>1. IsSeq(w) /\ IsSeq(g) /\ Len(g) = p.len /\ g[1].i = 1
  BY FragmentsFacts DEF Chained
<1> HIDE DEF g
<1>2. /\ IsSeq(v) /\ Len(w) \in Nat /\ Len(v) = Len(w) + p.len
      /\ \A j \in 1 .. Len(w) : v[j] = w[j]
      /\ \A j \in Len(w) + 1 .. Len(w) + p.len : v[j] = g[j - Len(w)]
  BY <1>1, ConcatFacts
<1>3. v # <<>>
  BY <1>2, IsSeqLen
<1> HIDE DEF v
<1>4. CASE w = <<>>
  <2>1. Len(w) = 0
    BY <1>1, <1>4, IsSeqLen
  <2>2. v[1] = g[1]
    BY <1>2, <2>1
  <2>3. r = <<>> /\ ~k /\ Len(r) = 0
    BY <1>4, IsSeqLen DEF HeadOk
  <2> QED
    BY <1>1, <1>3, <2>2, <2>3 DEF HeadOk, v, g
<1>5. CASE w # <<>>
  <2>1. Len(w) # 0
    BY <1>1, <1>5, IsSeqLen
  <2>2. v[1] = w[1]
    BY <1>2, <2>1
  <2> QED
    BY <1>3, <1>5, <2>2 DEF HeadOk, v, g
<1> QED
  BY <1>4, <1>5

-----------------------------------------------------------------------------
(* Receiving. *)

\* The rest of a chain is a chain.
LEMMA TailChained ==
    ASSUME NEW w, Chained(w), w # <<>>
    PROVE  Chained(Tail(w))
<1> DEFINE v == Tail(w)
<1>1. /\ IsSeq(v) /\ Len(w) \in Nat \ {0} /\ Len(v) = Len(w) - 1
      /\ \A j \in 1 .. Len(w) - 1 : v[j] = w[j + 1]
  BY TailFacts DEF Chained
<1> HIDE DEF v
<1>2. \A j \in 1 .. Len(v) : Cut(v[j])
  BY <1>1 DEF Chained
<1>3. ASSUME NEW j \in 1 .. Len(v) - 1
      PROVE  IF v[j].final THEN v[j + 1].i = 1
             ELSE v[j + 1].of = v[j].of /\ v[j + 1].i = v[j].i + 1
  <2>1. j + 1 \in 1 .. Len(w) - 1 /\ v[j] = w[j + 1] /\ v[j + 1] = w[(j + 1) + 1]
    BY <1>1
  <2> QED
    BY <2>1 DEF Chained
<1>4. v # <<>> => v[Len(v)].final
  <2> SUFFICES ASSUME v # <<>> PROVE v[Len(v)].final
    OBVIOUS
  <2>1. Len(v) # 0
    BY <1>1, IsSeqLen
  <2>2. v[Len(v)] = w[Len(w)]
    BY <1>1, <2>1
  <2> QED
    BY <2>2 DEF Chained
<1> QED
  BY <1>1, <1>2, <1>3, <1>4 DEF Chained, v

\* The frame that LWS_CALLBACK_CLIENT_RECEIVE takes is either collected, given
\* up because it is of a payload that does not fit, or the end of the payload
\* that is then handled; rx_buf keeps fragments of one payload.
LEMMA ReceiveFrames ==
    ASSUME Receive, Chained(wire), HeadOk(wire, rx, skip), NoSplice
    PROVE  /\ Chained(wire') /\ HeadOk(wire', rx', skip') /\ NoSplice'
           /\ \/ /\ UNCHANGED <<sched, sessVars, hsVars, queue, got>>
                 /\ wire[1].final => wire[1].of.len > RxMax
              \/ wire[1].final /\ discord_handle_payload(wire[1].of)
<1> DEFINE f == wire[1]
<1>1. wire # <<>> /\ wire' = Tail(wire)
  BY DEF Receive
<1>2. Chained(wire')
  BY <1>1, TailChained
<1>3. /\ Len(wire) \in Nat \ {0} /\ Head(wire) = f
      /\ Tail(wire) = <<>> <=> Len(wire) = 1
      /\ \A j \in 1 .. Len(wire) - 1 : Tail(wire)[j] = wire[j + 1]
  BY <1>1, TailFacts DEF Chained
<1>4. Cut(f)
  BY <1>3 DEF Chained
<1>5. ~f.final => wire' # <<>> /\ wire'[1].of = f.of /\ wire'[1].i = f.i + 1
  <2> SUFFICES ASSUME ~f.final PROVE wire' # <<>> /\ wire'[1].of = f.of /\ wire'[1].i = f.i + 1
    OBVIOUS
  <2>1. Len(wire) # 1
    BY <1>1 DEF Chained
  <2>2. 1 \in 1 .. Len(wire) - 1 /\ wire' # <<>> /\ wire'[1] = wire[2]
    BY <1>1, <1>3, <2>1
  <2> QED
    BY <2>2 DEF Chained
<1>6. f.final /\ wire' # <<>> => wire'[1].i = 1
  <2> SUFFICES ASSUME f.final, wire' # <<>> PROVE wire'[1].i = 1
    OBVIOUS
  <2>1. 1 \in 1 .. Len(wire) - 1 /\ wire'[1] = wire[2]
    BY <1>1, <1>3
  <2> QED
    BY <2>1 DEF Chained
<1>7. f.i \in Nat /\ f.of.len \in Nat /\ f.i >= 1 /\ f.i <= f.of.len /\ f.final \in BOOLEAN
  BY <1>4 DEF Cut
<1>8. /\ IsSeq(rx) /\ skip \in BOOLEAN
      /\ ~skip => f.i = Len(rx) + 1 /\ (rx # <<>> => f.of = rx[1].of)
      /\ skip => rx = <<>> /\ f.i > 1 /\ f.of.len > RxMax
  BY <1>1 DEF HeadOk
<1>9. IsSeq(<<>>) /\ Len(<<>>) = 0
  BY DEF IsSeq
<1>10. RxMax \in Nat \ {0} /\ Len(rx) \in Nat
  BY <1>8, RxMaxAssumption, IsSeqLen
<1> HIDE DEF f
<1>11. \/ /\ skip /\ skip' = ~f.final
          /\ UNCHANGED <<rx, sched, sessVars, hsVars, queue, got>>
       \/ /\ ~skip /\ ~discord_rx_append_fits /\ rx' = <<>> /\ skip' = SkipRest(f)
          /\ UNCHANGED <<sched, sessVars, hsVars, queue, got>>
       \/ /\ ~skip /\ discord_rx_append_fits /\ ~f.final /\ rx' = Append(rx, f)
          /\ UNCHANGED <<skip, sched, sessVars, hsVars, queue, got>>
       \/ /\ ~skip /\ discord_rx_append_fits /\ f.final
          /\ discord_handle_payload(Append(rx, f)[1].of)
          /\ discord_rx_reset
  BY <1>3 DEF Receive
<1>12. CASE /\ skip /\ skip' = ~f.final
            /\ UNCHANGED <<rx, sched, sessVars, hsVars, queue, got>>
  <2>1. NoSplice'
    BY <1>12 DEF NoSplice
  <2>2. HeadOk(wire', rx', skip')
    <3>1. rx' = <<>> /\ IsSeq(rx') /\ Len(rx') = 0 /\ skip' \in BOOLEAN
      BY <1>8, <1>9, <1>12
    <3>4. f.final <=> ~skip'
      BY <1>12, Zenon
    <3>2. CASE f.final
      BY <1>6, <3>1, <3>2, <3>4 DEF HeadOk
    <3>3. CASE ~f.final
      <4>1. wire'[1].i > 1 /\ wire'[1].of.len > RxMax /\ skip'
        BY <1>5, <1>7, <1>8, <1>12, <3>3, <3>4
      <4> QED
        BY <1>5, <3>1, <3>3, <4>1 DEF HeadOk
    <3> QED
      BY <3>2, <3>3
  <2> QED
    BY <1>2, <1>8, <1>12, <2>1, <2>2 DEF f
<1>13. CASE /\ ~skip /\ ~discord_rx_append_fits /\ rx' = <<>> /\ skip' = SkipRest(f)
            /\ UNCHANGED <<sched, sessVars, hsVars, queue, got>>
  <2>1. NoSplice'
    BY <1>13 DEF NoSplice
  <2>2. f.of.len > RxMax /\ f.i > 1
    BY <1>7, <1>8, <1>10, <1>13 DEF discord_rx_append_fits
  <2>3. HeadOk(wire', rx', skip')
    <3>1. rx' = <<>> /\ IsSeq(rx') /\ Len(rx') = 0 /\ skip' = ~f.final /\ skip' \in BOOLEAN
      BY <1>9, <1>13 DEF SkipRest
    <3>4. f.final <=> ~skip'
      BY <3>1, Zenon
    <3>2. CASE f.final
      BY <1>6, <3>1, <3>2, <3>4 DEF HeadOk
    <3>3. CASE ~f.final
      <4>1. wire'[1].i > 1 /\ wire'[1].of.len > RxMax /\ skip'
        BY <1>5, <1>7, <2>2, <3>3, <3>4
      <4> QED
        BY <1>5, <3>1, <3>3, <4>1 DEF HeadOk
    <3> QED
      BY <3>2, <3>3
  <2> QED
    BY <1>2, <1>13, <2>1, <2>2, <2>3 DEF f
<1>14. CASE /\ ~skip /\ discord_rx_append_fits /\ ~f.final /\ rx' = Append(rx, f)
            /\ UNCHANGED <<skip, sched, sessVars, hsVars, queue, got>>
  <2>1. /\ IsSeq(rx') /\ Len(rx') = Len(rx) + 1
        /\ \A j \in 1 .. Len(rx) : rx'[j] = rx[j]
        /\ rx'[Len(rx) + 1] = f /\ rx' # <<>>
    BY <1>8, <1>14, AppendFacts
  <2>2. rx'[1].of = f.of
    <3>1. CASE rx = <<>>
      BY <1>9, <2>1, <3>1
    <3>2. CASE rx # <<>>
      <4>1. Len(rx) >= 1
        BY <1>8, <1>10, <3>2, IsSeqLen
      <4> QED
        BY <1>8, <1>10, <1>14, <2>1, <3>2, <4>1
    <3> QED
      BY <3>1, <3>2
  <2>3. HeadOk(wire', rx', skip')
    BY <1>5, <1>8, <1>14, <2>1, <2>2 DEF HeadOk
  <2>4. ASSUME NEW j \in DOMAIN rx' PROVE rx'[j].i = j /\ rx'[j].of = rx'[1].of
    <3>1. j \in 1 .. Len(rx) + 1 /\ DOMAIN rx = 1 .. Len(rx)
      BY <1>8, <2>1, IsSeqLen
    <3>2. CASE j = Len(rx) + 1
      BY <1>8, <1>14, <2>1, <2>2, <3>2
    <3>3. CASE j # Len(rx) + 1
      <4>1. j \in DOMAIN rx /\ rx'[j] = rx[j] /\ rx'[1] = rx[1]
        BY <1>10, <2>1, <3>1, <3>3
      <4> QED
        BY <4>1 DEF NoSplice
    <3> QED
      BY <3>2, <3>3
  <2> QED
    BY <1>2, <1>14, <2>3, <2>4 DEF NoSplice, f
<1>15. CASE /\ ~skip /\ discord_rx_append_fits /\ f.final
            /\ discord_handle_payload(Append(rx, f)[1].of)
            /\ discord_rx_reset
  <2>1. Append(rx, f)[1].of = f.of
    <3>1. /\ \A j \in 1 .. Len(rx) : Append(rx, f)[j] = rx[j]
          /\ Append(rx, f)[Len(rx) + 1] = f
      BY <1>8, AppendFacts
    <3>2. CASE rx = <<>>
      BY <1>9, <3>1, <3>2
    <3>3. CASE rx # <<>>
      <4>1. Len(rx) >= 1
        BY <1>8, <1>10, <3>3, IsSeqLen
      <4> QED
        BY <1>8, <1>10, <1>15, <3>1, <3>3, <4>1
    <3> QED
      BY <3>2, <3>3
  <2>2. rx' = <<>> /\ skip' = FALSE
    BY <1>15 DEF discord_rx_reset
  <2>3. HeadOk(wire', rx', skip')
    <3>1. IsSeq(rx') /\ Len(rx') = 0 /\ skip' \in BOOLEAN
      BY <1>9, <2>2
    <3> QED
      BY <1>6, <1>15, <2>2, <3>1 DEF HeadOk
  <2>4. NoSplice'
    BY <2>2 DEF NoSplice
  <2> QED
    BY <1>2, <1>15, <2>1, <2>3, <2>4 DEF f
<1> QED
  BY <1>11, <1>12, <1>13, <1>14, <1>15
-----------------------------------------------------------------------------
(* The events on a live connection. *)

\* The payload of an event says what the log has at its number.
LEMMA EventFacts ==
    ASSUME NEW log, NEW n, LogOk(log, n), NEW session, NEW i \in 1 .. Len(log)
    PROVE  LET p == Event(i, log, session) IN
           /\ p.s = i /\ p.len = log[i].len /\ p.len \in Nat \ {0}
           /\ p.op \in {"ready", "create"}
           /\ p.op = "ready" <=> i = 1
           /\ p.op = "ready" => p.session = session
           /\ p.op = "create" => p.m = log[i].m /\ p.kind = log[i].kind
<1>1. Len(log) \in Nat /\ log # <<>>
  BY IsSeqLen DEF LogOk
<1>2. CASE i = 1
  <2>1. Event(i, log, session) = [op |-> "ready", len |-> 1, s |-> 1, session |-> session]
    BY <1>2 DEF Event, Ready
  <2>2. log[i].len = 1
    BY <1>1, <1>2 DEF LogOk
  <2> QED
    BY <1>2, <2>1, <2>2
<1>3. CASE i # 1
  <2>1. Event(i, log, session)
            = [op |-> "create", len |-> log[i].len, s |-> i, m |-> log[i].m, kind |-> log[i].kind]
    BY <1>3 DEF Event, Create
  <2>2. i \in 2 .. Len(log)
    BY <1>1, <1>3
  <2>3. log[i].len \in Nat \ {0}
    BY <2>2 DEF LogOk
  <2> QED
    BY <1>3, <2>1, <2>3
<1> QED
  BY <1>2, <1>3

\* A fragment with a number is of the event of that number.
LEMMA NumberedFragment ==
    ASSUME NEW w, NEW log, NEW n, NEW session, NEW at \in 0 .. Len(log),
           LogOk(log, n), Served(w, log, session, at),
           NEW j \in 1 .. Len(w), HasNumber(w[j])
    PROVE  w[j].of.s \in 1 .. at /\ w[j].of = Event(w[j].of.s, log, session)
<1>1. Len(log) \in Nat
  BY IsSeqLen DEF LogOk
<1>2. w[j].of \notin {Resumed, Reconnect}
  BY DEF HasNumber, Resumed, Reconnect
<1>3. PICK i \in 1 .. at : w[j].of = Event(i, log, session)
  BY <1>2 DEF Served
<1>4. i \in 1 .. Len(log)
  BY <1>1
<1>5. Event(i, log, session).s = i
  BY <1>4, EventFacts
<1> QED
  BY <1>3, <1>5

\* The next event is sent behind the ones before it.
LEMMA SendEvent ==
    ASSUME NEW w, NEW log, NEW n, NEW session, NEW q \in Nat, NEW at \in Nat,
           IsSeq(w), LogOk(log, n), q <= at, at < Len(log),
           Served(w, log, session, at), Ordered(w, q), Complete(w, log, q, at)
    PROVE  LET v == w \o Fragments(Event(at + 1, log, session)) IN
           Served(v, log, session, at + 1) /\ Ordered(v, q) /\ Complete(v, log, q, at + 1)
<1> DEFINE p == Event(at + 1, log, session)
           g == Fragments(p)
           v == w \o g
<1>1. Len(log) \in Nat /\ at + 1 \in 1 .. Len(log) /\ at \in 0 .. Len(log)
  BY IsSeqLen DEF LogOk
<1>2. p.s = at + 1 /\ p.len \in Nat \ {0} /\ p.op \in {"ready", "create"}
  BY <1>1, EventFacts
<1> HIDE DEF p
<1>3. /\ IsSeq(g) /\ Len(g) = p.len
      /\ \A j \in 1 .. p.len : g[j].of = p
      /\ g[p.len].final
  BY <1>2, FragmentsFacts
<1> HIDE DEF g
<1>4. /\ Len(w) \in Nat /\ Len(v) = Len(w) + p.len
      /\ \A j \in 1 .. Len(w) : v[j] = w[j]
      /\ \A j \in Len(w) + 1 .. Len(w) + p.len : v[j] = g[j - Len(w)]
  BY <1>3, ConcatFacts, SMTT(30)
<1> HIDE DEF v
<1>5. ASSUME NEW j \in 1 .. Len(v)
      PROVE  \/ j \in 1 .. Len(w) /\ v[j] = w[j]
             \/ j > Len(w) /\ v[j].of = p
  <2>1. CASE j <= Len(w)
    BY <1>4, <2>1
  <2>2. CASE j > Len(w)
    <3>1. j \in Len(w) + 1 .. Len(w) + p.len /\ j - Len(w) \in 1 .. p.len
      BY <1>2, <1>4, <2>2, SMTT(30)
    <3> QED
      BY <1>3, <1>4, <2>2, <3>1
  <2> QED
    BY <1>4, <2>1, <2>2
<1>6. Served(v, log, session, at + 1)
  <2> SUFFICES ASSUME NEW j \in 1 .. Len(v)
               PROVE  \/ v[j].of \in {Resumed, Reconnect}
                      \/ \E i \in 1 .. at + 1 : v[j].of = Event(i, log, session)
    BY DEF Served
  <2>1. CASE j \in 1 .. Len(w) /\ v[j] = w[j]
    <3>1. \A i \in 1 .. at : i \in 1 .. at + 1
      OBVIOUS
    <3> QED
      BY <2>1, <3>1 DEF Served
  <2>2. CASE v[j].of = p
    <3>1. at + 1 \in 1 .. at + 1
      OBVIOUS
    <3> QED
      BY <2>2, <3>1 DEF p
  <2> QED
    BY <1>5, <2>1, <2>2
<1>7. \A j \in 1 .. Len(w) : HasNumber(w[j]) => w[j].of.s \in 1 .. at
  BY <1>1, NumberedFragment
<1>8. Ordered(v, q)
  <2>1. ASSUME NEW j \in 1 .. Len(v), HasNumber(v[j]) PROVE v[j].of.s > q
    <3>1. CASE j \in 1 .. Len(w) /\ v[j] = w[j]
      BY <2>1, <3>1 DEF Ordered
    <3>2. CASE v[j].of = p
      BY <1>2, <3>2
    <3> QED
      BY <1>5, <3>1, <3>2
  <2>2. ASSUME NEW j \in 1 .. Len(v), NEW k \in 1 .. Len(v), j < k,
               HasNumber(v[j]), HasNumber(v[k])
        PROVE  v[j].of.s <= v[k].of.s /\ (v[j].final => v[j].of.s < v[k].of.s)
    <3>1. CASE k \in 1 .. Len(w) /\ v[k] = w[k]
      <4>1. j \in 1 .. Len(w)
        BY <1>4, <2>2, <3>1
      <4>2. v[j] = w[j]
        BY <1>4, <4>1
      <4> QED
        BY <2>2, <3>1, <4>1, <4>2 DEF Ordered
    <3>2. CASE v[k].of = p /\ j \in 1 .. Len(w) /\ v[j] = w[j]
      <4>1. v[j].of.s \in 1 .. at
        BY <1>7, <2>2, <3>2
      <4>2. v[k].of.s = at + 1
        BY <1>2, <3>2
      <4> QED
        BY <4>1, <4>2
    <3>3. CASE v[k].of = p /\ j > Len(w) /\ v[j].of = p
      <4>1. ~v[j].final
        <5>1. /\ j - Len(w) \in 1 .. p.len /\ j - Len(w) # p.len
              /\ j \in Len(w) + 1 .. Len(w) + p.len
          BY <1>2, <1>4, <2>2, <3>3, SMTT(30)
        <5>2. ~g[j - Len(w)].final
          BY <1>2, <5>1, FragmentsFacts DEF g
        <5> QED
          BY <1>4, <5>1, <5>2
      <4> QED
        BY <1>2, <3>3, <4>1
    <3> QED
      BY <1>5, <3>1, <3>2, <3>3
  <2> QED
    BY <2>1, <2>2 DEF Ordered
<1>9. Complete(v, log, q, at + 1)
  <2> SUFFICES ASSUME NEW i \in q + 1 .. at + 1, ~(log[i].len > RxMax)
               PROVE  Ends(v, i)
    BY DEF Complete
  <2>1. CASE i <= at
    <3>1. i \in q + 1 .. at
      BY <2>1
    <3>2. PICK j \in 1 .. Len(w) : EndOf(w[j], i)
      BY <3>1 DEF Complete, Ends
    <3>3. j \in 1 .. Len(v) /\ v[j] = w[j]
      BY <1>2, <1>4
    <3> QED
      BY <3>2, <3>3 DEF Ends
  <2>2. CASE i = at + 1
    <3>1. /\ Len(v) \in 1 .. Len(v) /\ Len(v) \in Len(w) + 1 .. Len(w) + p.len
          /\ Len(v) - Len(w) = p.len
      BY <1>2, <1>4
    <3>2. v[Len(v)] = g[p.len]
      BY <1>4, <3>1
    <3>3. g[p.len].final /\ g[p.len].of = p
      BY <1>2, <1>3
    <3> QED
      BY <1>2, <2>2, <3>1, <3>2, <3>3 DEF HasNumber, Ends, EndOf
  <2> QED
    BY <2>1, <2>2
<1> QED
  BY <1>6, <1>8, <1>9 DEF v, g, p

\* A payload without a number changes nothing of this.
LEMMA SendControl ==
    ASSUME NEW w, NEW log, NEW session, NEW q, NEW at, NEW p \in {Resumed, Reconnect},
           IsSeq(w), Served(w, log, session, at), Ordered(w, q), Complete(w, log, q, at)
    PROVE  LET v == w \o Fragments(p) IN
           Served(v, log, session, at) /\ Ordered(v, q) /\ Complete(v, log, q, at)
<1> DEFINE g == Fragments(p)
           v == w \o g
<1>1. p.len = 1 /\ p.len \in Nat \ {0} /\ p.op \notin {"ready", "create"}
  BY DEF Resumed, Reconnect
<1>2. IsSeq(g) /\ Len(g) = 1 /\ g[1].of = p
  <2>0. p.len \in Nat \ {0}
    BY <1>1
  <2>1. /\ IsSeq(g) /\ Len(g) = p.len
        /\ \A j \in 1 .. p.len : g[j].of = p
    BY <2>0, FragmentsFacts, ZenonT(60)
  <2> HIDE DEF g
  <2>2. 1 \in 1 .. p.len
    BY <1>1
  <2> QED
    BY <1>1, <2>1, <2>2
<1> HIDE DEF g
<1>3. /\ Len(w) \in Nat /\ Len(v) = Len(w) + 1
      /\ \A j \in 1 .. Len(w) : v[j] = w[j]
      /\ \A j \in Len(w) + 1 .. Len(w) + 1 : v[j] = g[j - Len(w)]
  <2>1. /\ Len(w) \in Nat /\ Len(v) = Len(w) + Len(g)
        /\ \A j \in 1 .. Len(w) : v[j] = w[j]
        /\ \A j \in Len(w) + 1 .. Len(w) + Len(g) : v[j] = g[j - Len(w)]
    BY <1>2, ConcatFacts
  <2> HIDE DEF v
  <2> QED
    BY <1>2, <2>1
<1>4. v[Len(w) + 1] = g[1]
  <2>1. Len(w) + 1 \in Len(w) + 1 .. Len(w) + 1 /\ (Len(w) + 1) - Len(w) = 1
    BY <1>3
  <2> QED
    BY <1>3, <2>1
<1> HIDE DEF v
<1>5. \A j \in 1 .. Len(v) : \/ j \in 1 .. Len(w) /\ v[j] = w[j]
                             \/ j = Len(w) + 1 /\ v[j].of = p
  BY <1>2, <1>3, <1>4
<1>6. \A j \in 1 .. Len(v) : HasNumber(v[j]) => j \in 1 .. Len(w) /\ v[j] = w[j]
  BY <1>1, <1>5 DEF HasNumber
<1>7. Served(v, log, session, at)
  BY <1>5 DEF Served
<1>8. Ordered(v, q)
  BY <1>6 DEF Ordered
<1>9. \A j \in 1 .. Len(w) : j \in 1 .. Len(v)
  BY <1>3
<1>10. Complete(v, log, q, at)
  BY <1>3, <1>9 DEF Complete, Ends
<1> QED
  BY <1>7, <1>8, <1>10 DEF v, g

\* The log grows behind what was sent of it.
LEMMA LogGrows ==
    ASSUME NEW log, NEW n \in Nat, NEW e, LogOk(log, n), log # <<>>,
           e.kind \in {"dm", "mention", "stranger"}, e.len \in Nat \ {0}, e.m = n + 1
    PROVE  /\ LogOk(Append(log, e), n + 1)
           /\ Append(log, e) # <<>> /\ Len(log) \in Nat /\ Len(Append(log, e)) = Len(log) + 1
           /\ \A i \in 1 .. Len(log) : Append(log, e)[i] = log[i]
           /\ Append(log, e)[Len(log) + 1] = e
           /\ \A session : \A i \in 1 .. Len(log) :
                  Event(i, Append(log, e), session) = Event(i, log, session)
<1> DEFINE v == Append(log, e)
<1>1. /\ IsSeq(v) /\ Len(log) \in Nat /\ Len(v) = Len(log) + 1 /\ v # <<>>
      /\ \A i \in 1 .. Len(log) : v[i] = log[i]
      /\ v[Len(log) + 1] = e
  BY AppendFacts DEF LogOk
<1> HIDE DEF v
<1>2. Len(log) >= 1
  BY <1>1, IsSeqLen DEF LogOk
<1>3. v[1] = log[1]
  BY <1>1, <1>2
<1>4. ASSUME NEW i \in 2 .. Len(v)
      PROVE  /\ v[i].kind \in {"dm", "mention", "stranger"}
             /\ v[i].len \in Nat \ {0}
             /\ v[i].m \in 1 .. n + 1
             /\ \A j \in 2 .. i - 1 : v[j].m < v[i].m
  <2>1. CASE i <= Len(log)
    <3>1. i \in 2 .. Len(log) /\ i \in 1 .. Len(log)
      BY <1>1, <2>1
    <3>2. v[i] = log[i] /\ \A j \in 2 .. i - 1 : v[j] = log[j]
      BY <1>1, <3>1
    <3>3. /\ log[i].kind \in {"dm", "mention", "stranger"} /\ log[i].len \in Nat \ {0}
          /\ log[i].m \in 1 .. n /\ \A j \in 2 .. i - 1 : log[j].m < log[i].m
      BY <3>1 DEF LogOk
    <3>4. v[i].m \in 1 .. n + 1
      BY <3>2, <3>3
    <3>5. \A j \in 2 .. i - 1 : v[j].m < v[i].m
      BY <3>2, <3>3
    <3> QED
      BY <3>2, <3>3, <3>4, <3>5
  <2>2. CASE i = Len(log) + 1
    <3>1. v[i] = e
      BY <1>1, <2>2
    <3>2. \A j \in 2 .. i - 1 : j \in 2 .. Len(log) /\ j \in 1 .. Len(log)
      BY <1>1, <2>2
    <3>3. \A j \in 2 .. i - 1 : v[j] = log[j]
      BY <1>1, <3>2
    <3>4. \A j \in 2 .. i - 1 : log[j].m \in 1 .. n
      BY <3>2 DEF LogOk
    <3>5. \A j \in 2 .. i - 1 : v[j].m < e.m
      BY <3>3, <3>4
    <3> QED
      BY <3>1, <3>5
  <2> QED
    BY <1>1, <2>1, <2>2
<1>5. LogOk(v, n + 1)
  BY <1>1, <1>3, <1>4 DEF LogOk
<1>6. \A session : \A i \in 1 .. Len(log) : Event(i, v, session) = Event(i, log, session)
  BY <1>1 DEF Event
<1> QED
  BY <1>1, <1>5, <1>6 DEF v
\* Taking the first fragment away loses the end of an event only if it is that
\* end; the others stay served and in order.
LEMMA TailEvents ==
    ASSUME NEW w, NEW log, NEW session, NEW q \in Nat, NEW at \in Nat, IsSeq(w), w # <<>>,
           Served(w, log, session, at), Ordered(w, q), Complete(w, log, q, at)
    PROVE  /\ Served(Tail(w), log, session, at) /\ Ordered(Tail(w), q)
           /\ \A i \in q + 1 .. at :
                 log[i].len > RxMax \/ EndOf(w[1], i) \/ Ends(Tail(w), i)
<1> DEFINE v == Tail(w)
<1>1. /\ Len(w) \in Nat \ {0} /\ Len(v) = Len(w) - 1
      /\ \A j \in 1 .. Len(w) - 1 : v[j] = w[j + 1]
  BY TailFacts
<1> HIDE DEF v
<1>2. \A j \in 1 .. Len(v) : j + 1 \in 1 .. Len(w) /\ v[j] = w[j + 1]
  BY <1>1
<1>3. Served(v, log, session, at)
  BY <1>2 DEF Served
<1>4. Ordered(v, q)
  <2>1. \A j \in 1 .. Len(v) : HasNumber(v[j]) => v[j].of.s > q
    BY <1>2 DEF Ordered
  <2>2. ASSUME NEW j \in 1 .. Len(v), NEW k \in 1 .. Len(v), j < k,
               HasNumber(v[j]), HasNumber(v[k])
        PROVE  v[j].of.s <= v[k].of.s /\ (v[j].final => v[j].of.s < v[k].of.s)
    <3>1. j + 1 \in 1 .. Len(w) /\ k + 1 \in 1 .. Len(w) /\ v[j] = w[j + 1] /\ v[k] = w[k + 1]
      BY <1>2
    <3>2. j + 1 < k + 1
      BY <2>2
    <3> QED
      BY <2>2, <3>1, <3>2 DEF Ordered
  <2> QED
    BY <2>1, <2>2 DEF Ordered
<1>5. ASSUME NEW i \in q + 1 .. at, ~(log[i].len > RxMax),
             ~EndOf(w[1], i)
      PROVE  Ends(v, i)
  <2>1. PICK j \in 1 .. Len(w) : EndOf(w[j], i)
    BY <1>5 DEF Complete, Ends
  <2>2. j # 1
    BY <1>5, <2>1
  <2>3. j - 1 \in 1 .. Len(v)
    BY <1>1, <2>2
  <2>4. v[j - 1] = w[j]
    <3>1. v[j - 1] = w[(j - 1) + 1] /\ (j - 1) + 1 = j
      BY <1>1, <2>3
    <3> QED
      BY <3>1
  <2> QED
    BY <2>1, <2>3, <2>4 DEF Ends
<1> QED
  BY <1>3, <1>4, <1>5 DEF v

\* A fragment that is not the end of an event that fits leaves nothing out.
LEMMA DropEvent ==
    ASSUME NEW w, NEW log, NEW n, NEW session, NEW q \in Nat, NEW at \in 0 .. Len(log),
           IsSeq(w), w # <<>>, LogOk(log, n),
           Served(w, log, session, at), Ordered(w, q), Complete(w, log, q, at),
           w[1].final /\ HasNumber(w[1]) => w[1].of.len > RxMax
    PROVE  /\ Served(Tail(w), log, session, at) /\ Ordered(Tail(w), q)
           /\ Complete(Tail(w), log, q, at)
<1>1. Len(log) \in Nat /\ at \in Nat
  BY IsSeqLen DEF LogOk
<1>2. 1 \in 1 .. Len(w)
  BY TailFacts
<1>3. ASSUME HasNumber(w[1]) PROVE w[1].of.len = log[w[1].of.s].len
  <2>1. w[1].of.s \in 1 .. at /\ w[1].of = Event(w[1].of.s, log, session)
    BY <1>2, <1>3, NumberedFragment
  <2>2. w[1].of.s \in 1 .. Len(log)
    BY <1>1, <2>1
  <2>3. Event(w[1].of.s, log, session).len = log[w[1].of.s].len
    BY <2>2, EventFacts
  <2> QED
    BY <2>1, <2>3
<1>4. \A i \in q + 1 .. at : EndOf(w[1], i) => log[i].len > RxMax
  BY <1>3 DEF EndOf
<1>5. /\ Served(Tail(w), log, session, at) /\ Ordered(Tail(w), q)
      /\ \A i \in q + 1 .. at :
            log[i].len > RxMax \/ EndOf(w[1], i) \/ Ends(Tail(w), i)
  BY <1>1, TailEvents
<1> QED
  BY <1>4, <1>5 DEF Complete

\* With the end of an event the client has come to its number, and what it
\* passed over does not fit.
LEMMA TakeEvent ==
    ASSUME NEW w, NEW log, NEW n, NEW session, NEW q \in Nat, NEW at \in 0 .. Len(log),
           IsSeq(w), w # <<>>, LogOk(log, n),
           Served(w, log, session, at), Ordered(w, q), Complete(w, log, q, at),
           NEW s, EndOf(w[1], s)
    PROVE  /\ s \in q + 1 .. at /\ w[1].of = Event(s, log, session)
           /\ \A i \in q + 1 .. s - 1 : log[i].len > RxMax
           /\ Served(Tail(w), log, session, at) /\ Ordered(Tail(w), s)
           /\ Complete(Tail(w), log, s, at)
<1> DEFINE v == Tail(w)
<1>0. s = w[1].of.s /\ w[1].final /\ HasNumber(w[1])
  BY DEF EndOf
<1>1. Len(log) \in Nat /\ at \in Nat
  BY IsSeqLen DEF LogOk
<1>2. 1 \in 1 .. Len(w) /\ Len(w) \in Nat
  BY TailFacts
<1>3. s \in 1 .. at /\ w[1].of = Event(s, log, session)
  BY <1>0, <1>2, NumberedFragment
<1>4. s > q
  BY <1>0, <1>2 DEF Ordered
<1>5. s \in q + 1 .. at /\ s \in Nat
  BY <1>1, <1>3, <1>4
<1>6. \A j \in 2 .. Len(w) : HasNumber(w[j]) => s < w[j].of.s
  <2> SUFFICES ASSUME NEW j \in 2 .. Len(w), HasNumber(w[j]) PROVE s < w[j].of.s
    OBVIOUS
  <2>1. j \in 1 .. Len(w) /\ 1 < j
    BY <1>2
  <2> QED
    BY <1>0, <1>2, <2>1 DEF Ordered
<1>7. /\ Len(v) = Len(w) - 1 /\ \A j \in 1 .. Len(w) - 1 : v[j] = w[j + 1]
  BY TailFacts
<1>8. /\ Served(v, log, session, at) /\ Ordered(v, q)
      /\ \A i \in q + 1 .. at :
            log[i].len > RxMax \/ s = i \/ Ends(v, i)
  <2>1. /\ Served(v, log, session, at) /\ Ordered(v, q)
        /\ \A i \in q + 1 .. at :
              log[i].len > RxMax \/ EndOf(w[1], i) \/ Ends(v, i)
    BY <1>1, TailEvents
  <2> QED
    BY <2>1 DEF EndOf
<1> HIDE DEF v
<1>9. \A j \in 1 .. Len(v) : HasNumber(v[j]) => s < v[j].of.s
  <2> SUFFICES ASSUME NEW j \in 1 .. Len(v), HasNumber(v[j]) PROVE s < v[j].of.s
    OBVIOUS
  <2>1. j + 1 \in 2 .. Len(w) /\ v[j] = w[j + 1]
    BY <1>2, <1>7
  <2> QED
    BY <1>6, <2>1
<1>10. Ordered(v, s)
  <2>1. \A j \in 1 .. Len(v) : HasNumber(v[j]) => v[j].of.s > s
    <3> SUFFICES ASSUME NEW j \in 1 .. Len(v), HasNumber(v[j]) PROVE v[j].of.s > s
      OBVIOUS
    <3>1. s < v[j].of.s
      BY <1>9
    <3> QED
      BY <3>1
  <2> QED
    BY <1>8, <2>1 DEF Ordered
<1>11. Complete(v, log, s, at)
  <2> SUFFICES ASSUME NEW i \in s + 1 .. at
               PROVE  log[i].len > RxMax \/ Ends(v, i)
    BY DEF Complete
  <2>1. i \in q + 1 .. at /\ s # i
    BY <1>1, <1>5
  <2> QED
    BY <1>8, <2>1
<1>12. ASSUME NEW i \in q + 1 .. s - 1 PROVE log[i].len > RxMax
  <2>1. i \in q + 1 .. at /\ s # i /\ i < s
    BY <1>1, <1>5
  <2>2. ASSUME NEW j \in 1 .. Len(v), HasNumber(v[j]), v[j].of.s = i PROVE FALSE
    <3>1. s < v[j].of.s
      BY <1>9, <2>2
    <3>2. s < i
      BY <2>2, <3>1
    <3> QED
      BY <1>5, <2>1, <3>2
  <2> QED
    BY <1>8, <2>1, <2>2 DEF Ends, EndOf
<1> QED
  BY <1>3, <1>5, <1>8, <1>10, <1>11, <1>12 DEF v
-----------------------------------------------------------------------------
(* Every step keeps the invariant: the beginning, and steps of the loop. *)

\* Nothing on the wire.
LEMMA NothingSent ==
    ASSUME NEW w, w = <<>>
    PROVE  IsSeq(w) /\ Len(w) = 0 /\ Chained(w)
<1>1. w \in Seq(Nat) /\ Len(w) = 0
  OBVIOUS
<1>2. IsSeq(w)
  BY <1>1, SeqIsSeq
<1>3. \A i : i \notin 1 .. Len(w) /\ i \notin 1 .. Len(w) - 1
  BY <1>1
<1>4. Chained(w)
  BY <1>2, <1>3, Zenon DEF Chained
<1> QED
  BY <1>1, <1>2, <1>4

\* A session without events.
LEMMA EmptyLog ==
    ASSUME NEW w, w = <<>>, NEW n
    PROVE  LogOk(w, n)
<1>1. IsSeq(w) /\ Len(w) = 0
  BY NothingSent
<1>2. \A i : i \notin 2 .. Len(w)
  BY <1>1
<1> QED
  BY <1>1, <1>2, Zenon DEF LogOk

\* DiscordInv holds when the thread starts.
LEMMA DiscordInvInit == Init => DiscordInv
<1> SUFFICES ASSUME Init PROVE DiscordInv
  OBVIOUS
<1>1. /\ srv.sid = 0 /\ srv.log = <<>> /\ srv.at = 0 /\ srv.live = FALSE
      /\ srv.replay = FALSE /\ srv.closing = FALSE
  BY DEF Init
<1>2. FALSE \in BOOLEAN /\ 0 \in Nat
  OBVIOUS
<1>3. LogOk(srv.log, posted)
  BY <1>1, EmptyLog
<1>4. LastGot = 0 /\ got \in Seq(Nat) /\ LastGot <= posted
  BY DEF Init, LastGot
<1>5. NumbersInv
  BY <1>1, <1>2, <1>3, <1>4 DEF Init, NumbersInv, IsServer
<1>6. HandshakeInv
  BY <1>1, <1>2, NothingSent DEF Init, HandshakeInv
<1>7. FrameInv
  BY NothingSent DEF Init, FrameInv
<1>8. LiveInv
  BY <1>1 DEF LiveInv
<1>9. LaterInv
  BY <1>1, NothingSent DEF LaterInv
<1>10. NoSplice /\ NothingMissed
  BY DEF Init, NoSplice, NothingMissed
<1> QED
  BY <1>5, <1>6, <1>7, <1>8, <1>9, <1>10 DEF DiscordInv

\* Steps of the loop and of the main thread that leave the session, the wire
\* and the gateway alone.
LEMMA Quiet ==
    ASSUME DiscordInv,
           UNCHANGED <<sid, seq, botId, pend, rx, skip, wire, up, srv, posted, got>>,
           thread' => thread,
           conn' = conn \/ (conn # "open" /\ conn' # "open")
    PROVE  DiscordInv'
<1>1. NumbersInv'
  BY DEF DiscordInv, NumbersInv, LastGot
<1>2. thread' => HandshakeInv'
  BY DEF DiscordInv, HandshakeInv, discord_build_identify, discord_build_resume
<1>3. thread' => FrameInv'
  BY DEF DiscordInv, FrameInv
<1>4. thread' => LiveInv' /\ LaterInv'
  BY DEF DiscordInv, LiveInv, LaterInv, LastGot
<1>5. NoSplice' /\ NothingMissed'
  BY DEF DiscordInv, NoSplice, NothingMissed
<1> QED
  BY <1>1, <1>2, <1>3, <1>4, <1>5 DEF DiscordInv

\* The steps that are quiet.
LEMMA QuietSteps ==
    ASSUME DiscordInv,
           \/ StartConnect \/ StartFails \/ AskHeartbeat \/ ThreadExits
           \/ discord_poll \/ CleanupBegin \/ UNCHANGED vars
    PROVE  DiscordInv'
<1> USE DEF connVars, sessVars, hsVars, rxVars, mainVars, netVars, counts
<1>1. CASE StartConnect
  BY <1>1, Quiet DEF StartConnect, CanReconnect
<1>2. CASE StartFails
  BY <1>2, Quiet DEF StartFails
<1>3. CASE AskHeartbeat
  BY <1>3, Quiet DEF AskHeartbeat
<1>4. CASE ThreadExits
  BY <1>4, Quiet DEF ThreadExits
<1>5. CASE discord_poll
  BY <1>5, Quiet DEF discord_poll
<1>6. CASE CleanupBegin
  BY <1>6, Quiet DEF CleanupBegin
<1>7. CASE UNCHANGED vars
  BY <1>7, Quiet DEF vars
<1> QED
  BY <1>1, <1>2, <1>3, <1>4, <1>5, <1>6, <1>7

\* discord_cleanup forgets the session when the thread is gone.
LEMMA CleanupKeeps ==
    ASSUME DiscordInv, CleanupEnd
    PROVE  DiscordInv'
<1> USE DEF connVars, sessVars, hsVars, rxVars, mainVars, netVars, counts
<1>1. ~thread' /\ sid' = 0 /\ rx' = <<>> /\ UNCHANGED <<seq, srv, up, posted, got>>
  BY DEF CleanupEnd
<1>2. NumbersInv'
  BY <1>1 DEF DiscordInv, NumbersInv, LastGot
<1>3. NoSplice' /\ NothingMissed'
  BY <1>1 DEF NoSplice, NothingMissed
<1> QED
  BY <1>1, <1>2, <1>3 DEF DiscordInv

\* The frame that the thread sends says what it knows of the session.
LEMMA WriteableKeeps ==
    ASSUME DiscordInv, Writeable
    PROVE  DiscordInv'
<1> USE DEF connVars, sessVars, hsVars, rxVars, mainVars, netVars, counts
<1>1. /\ thread /\ conn = "open" /\ (pend # "no" \/ UNCHANGED <<pend, up>>)
      /\ UNCHANGED <<conn, sid, seq, botId, rx, skip, thread, wire, srv, posted, got>>
  BY DEF Writeable
<1>2. NumbersInv'
  <2>1. \/ UNCHANGED up
        \/ up' # <<>> => up'[1].op = "identify" \/ up'[1].seq = seq
    BY DEF Writeable, discord_send_json, discord_build_identify, discord_build_resume
  <2>2. up' # <<>> => up'[1].op = "identify" \/ up'[1].seq \in Nat
    BY <2>1 DEF DiscordInv, NumbersInv
  <2> QED
    BY <1>1, <2>2 DEF DiscordInv, NumbersInv, LastGot
<1>3. thread' => FrameInv' /\ LiveInv' /\ LaterInv'
  BY <1>1 DEF DiscordInv, FrameInv, LiveInv, LaterInv, LastGot
<1>4. NoSplice' /\ NothingMissed'
  BY <1>1 DEF DiscordInv, NoSplice, NothingMissed
<1>5. thread /\ conn = "open" /\ HandshakeInv
  BY DEF Writeable, DiscordInv
<1>6. UNCHANGED <<discord_build_identify, discord_build_resume>>
  BY <1>1 DEF discord_build_identify, discord_build_resume
<1>7. discord_build_identify # discord_build_resume
  BY DEF discord_build_identify, discord_build_resume
<1>8. HandshakeInv'
  <2>1. CASE /\ pend = "resume" /\ hello /\ discord_has_resume_state
             /\ pend' = "no" /\ up' = <<discord_build_resume>>
    <3>1. up' # <<discord_build_identify>> /\ up' # <<>> /\ sid # 0 /\ ~srv.live /\ wire = <<>>
      BY <1>5, <1>7, <2>1 DEF HandshakeInv
    <3> QED
      BY <1>1, <1>5, <1>6, <2>1, <3>1, NothingSent DEF HandshakeInv
  <2>2. CASE /\ pend = "identify" /\ pend' = "no" /\ up' = <<discord_build_identify>>
    <3>1. up' # <<discord_build_resume>> /\ up' # <<>> /\ sid = 0 /\ ~srv.live /\ wire = <<>>
      BY <1>5, <1>7, <2>2 DEF HandshakeInv
    <3> QED
      BY <1>1, <1>5, <1>6, <2>2, <3>1, NothingSent DEF HandshakeInv
  <2>3. CASE pend = "resume" /\ ~discord_has_resume_state
    <3>1. sid # 0 /\ seq # 0 /\ seq \in Nat
      BY <1>5, <2>3 DEF HandshakeInv, DiscordInv, NumbersInv
    <3> QED
      BY <2>3, <3>1 DEF discord_has_resume_state
  <2>4. CASE UNCHANGED <<pend, up>>
    BY <1>1, <1>5, <1>6, <2>4 DEF HandshakeInv
  <2> QED
    BY <2>1, <2>2, <2>3, <2>4 DEF Writeable, discord_send_json
<1> QED
  BY <1>2, <1>3, <1>4, <1>8 DEF DiscordInv
-----------------------------------------------------------------------------
(* The steps of the gateway. *)

\* A user posts: the log grows, and what was sent of it stays.
LEMMA DiscordPostKeeps ==
    ASSUME DiscordInv, Post
    PROVE  DiscordInv'
<1> USE DEF connVars, sessVars, hsVars, rxVars, mainVars, netVars, counts
<1>1. PICK e \in Shapes :
        srv' = [srv EXCEPT !.log = Append(srv.log,
                                     [kind |-> e.kind, len |-> e.len, m |-> posted + 1])]
  BY DEF Post
<1> DEFINE new == [kind |-> e.kind, len |-> e.len, m |-> posted + 1]
           log == srv.log
<1>2. /\ posted' = posted + 1 /\ log # <<>>
      /\ UNCHANGED <<conn, sid, seq, botId, pend, rx, skip, thread, wire, up, got>>
  BY DEF Post
<1>3. NumbersInv
  BY DEF DiscordInv
<1>4. /\ IsServer(srv') /\ srv'.log = Append(log, new)
      /\ srv'.sid = srv.sid /\ srv'.at = srv.at /\ srv'.live = srv.live
  <2>1. IsServer(srv)
    BY <1>3 DEF NumbersInv
  <2>2. srv' = [srv EXCEPT !.log = Append(log, new)]
    BY <1>1
  <2> HIDE DEF new, log
  <2>3. /\ IsServer(srv') /\ srv'.log = Append(log, new)
        /\ srv'.sid = srv.sid /\ srv'.at = srv.at /\ srv'.live = srv.live
    BY <2>1, <2>2 DEF IsServer
  <2> QED
    BY <2>3
<1>5. /\ new.kind \in {"dm", "mention", "stranger"} /\ new.len \in Nat \ {0}
      /\ new.m = posted + 1
  BY ShapesAssumption
<1>6. LogOk(log, posted) /\ posted \in Nat
  BY <1>3 DEF NumbersInv
<1> HIDE DEF new
<1>7. /\ LogOk(srv'.log, posted')
      /\ srv'.log # <<>> /\ Len(log) \in Nat /\ Len(srv'.log) = Len(log) + 1
      /\ \A i \in 1 .. Len(log) : srv'.log[i] = log[i]
      /\ srv'.log[Len(log) + 1] = new
      /\ \A i \in 1 .. Len(log) : Event(i, srv'.log, srv.sid) = Event(i, log, srv.sid)
  BY <1>2, <1>4, <1>5, <1>6, LogGrows
<1> HIDE DEF log
<1>8. LastGot' = LastGot /\ LastGot <= posted /\ got \in Seq(Nat) /\ LastGot \in Nat
  BY <1>2, <1>3 DEF NumbersInv, LastGot, Last
<1>9. sid # 0 /\ sid = srv.sid => seq \in 1 .. Len(log)
  BY <1>3 DEF NumbersInv, log
<1>10. NumbersInv'
  <2>1. LastGot' <= posted'
    BY <1>2, <1>6, <1>8
  <2>2. sid' # 0 /\ sid' = srv'.sid => seq' \in 1 .. Len(srv'.log)
    BY <1>2, <1>4, <1>7, <1>9
  <2> QED
    BY <1>2, <1>3, <1>4, <1>6, <1>7, <2>1, <2>2, SMTT(30) DEF NumbersInv
<1>11. thread => HandshakeInv'
  <2>1. UNCHANGED <<discord_build_identify, discord_build_resume>>
    BY <1>2 DEF discord_build_identify, discord_build_resume
  <2> QED
    BY <1>2, <1>4, <2>1 DEF DiscordInv, HandshakeInv
<1>12. thread => FrameInv'
  BY <1>2 DEF DiscordInv, FrameInv
<1>13. thread /\ srv.live => LiveInv'
  <2> SUFFICES ASSUME thread, srv.live PROVE LiveInv'
    OBVIOUS
  <2>1. /\ sid \in {0, srv.sid} /\ srv.sid # 0 /\ srv.at \in seq .. Len(log) /\ seq \in Nat
        /\ Served(wire, log, srv.sid, srv.at) /\ Ordered(wire, seq)
        /\ Complete(wire, log, seq, srv.at)
    BY <1>3 DEF DiscordInv, LiveInv, NumbersInv, log
  <2>2. \A i \in 1 .. srv.at : i \in 1 .. Len(log)
    BY <1>7, <2>1
  <2>3. Served(wire, srv'.log, srv.sid, srv.at)
    BY <1>7, <2>1, <2>2 DEF Served
  <2>4. \A i \in seq + 1 .. srv.at : i \in 1 .. Len(log)
    BY <1>7, <2>1
  <2>5. Complete(wire, srv'.log, seq, srv.at)
    BY <1>7, <2>1, <2>4 DEF Complete
  <2>6. srv.at \in seq .. Len(srv'.log)
    BY <1>7, <2>1
  <2> QED
    BY <1>2, <1>4, <1>7, <2>1, <2>3, <2>5, <2>6 DEF LiveInv
<1>14. thread => LaterInv'
  <2> SUFFICES ASSUME thread, NEW i \in 2 .. Len(log) + 1
               PROVE  (sid = srv.sid /\ i <= seq) \/ srv'.log[i].m > LastGot
    BY <1>2, <1>4, <1>7, <1>8 DEF LaterInv
  <2>1. CASE i = Len(log) + 1
    <3>1. srv'.log[i].m = posted + 1
      BY <1>5, <1>7, <2>1
    <3> QED
      BY <1>6, <1>8, <3>1
  <2>2. CASE i # Len(log) + 1
    <3>1. i \in 2 .. Len(log) /\ i \in 1 .. Len(log)
      BY <1>7, <2>2
    <3> QED
      BY <1>7, <3>1 DEF DiscordInv, LaterInv, log
  <2> QED
    BY <2>1, <2>2
<1>15. NoSplice'
  BY <1>2 DEF DiscordInv, NoSplice
<1>16. NothingMissed'
  <2> SUFFICES ASSUME sid # 0, sid = srv.sid, NEW i \in 1 .. seq,
                      srv'.log[i].kind \in {"dm", "mention"}, srv'.log[i].len <= RxMax
               PROVE  srv'.log[i].m \in ToSet(got)
    BY <1>2, <1>4 DEF NothingMissed
  <2>1. i \in 1 .. Len(log)
    BY <1>7, <1>9
  <2>2. srv'.log[i] = log[i]
    BY <1>7, <2>1
  <2> QED
    BY <2>2 DEF DiscordInv, NothingMissed, log
<1>17. ~srv.live => LiveInv'
  BY <1>4 DEF LiveInv
<1> QED
  BY <1>2, <1>10, <1>11, <1>12, <1>13, <1>14, <1>15, <1>16, <1>17 DEF DiscordInv

\* What is sent on a live connection keeps the invariant if it keeps what the
\* connection still has to bring.
LEMMA SentKeeps ==
    ASSUME DiscordInv, conn = "open", srv.live,
           NEW p, p.len \in Nat \ {0}, wire' = wire \o Fragments(p),
           IsServer(srv'), srv'.sid = srv.sid, srv'.log = srv.log, srv'.live = srv.live,
           srv'.at \in Nat,
           thread => /\ srv'.at \in seq .. Len(srv.log)
                     /\ Served(wire', srv.log, srv.sid, srv'.at)
                     /\ Ordered(wire', seq)
                     /\ Complete(wire', srv.log, seq, srv'.at),
           UNCHANGED <<conn, sid, seq, botId, pend, rx, skip, thread, up, posted, got>>
    PROVE  DiscordInv'
<1>1. NumbersInv'
  BY DEF DiscordInv, NumbersInv, LastGot
<1>2. thread => HandshakeInv'
  <2>1. UNCHANGED <<discord_build_identify, discord_build_resume>>
    BY DEF discord_build_identify, discord_build_resume
  <2> QED
    BY <2>1 DEF DiscordInv, HandshakeInv
<1>3. thread => FrameInv'
  <2> SUFFICES ASSUME thread PROVE FrameInv'
    OBVIOUS
  <2>1. Chained(wire) /\ HeadOk(wire, rx, skip)
    BY DEF DiscordInv, FrameInv
  <2>2. Chained(wire') /\ HeadOk(wire', rx, skip)
    BY <2>1, SendChained, SendHead
  <2> QED
    BY <2>2 DEF FrameInv
<1>4. thread => LiveInv' /\ LaterInv'
  BY DEF DiscordInv, LiveInv, LaterInv, LastGot
<1>5. NoSplice' /\ NothingMissed'
  BY DEF DiscordInv, NoSplice, NothingMissed
<1> QED
  BY <1>1, <1>2, <1>3, <1>4, <1>5 DEF DiscordInv

\* What LiveInv says of a live connection.
LEMMA LiveFacts ==
    ASSUME DiscordInv, thread, srv.live
    PROVE  /\ LogOk(srv.log, posted) /\ Chained(wire) /\ IsSeq(wire)
           /\ Len(srv.log) \in Nat /\ seq \in Nat /\ srv.at \in Nat
           /\ sid \in {0, srv.sid} /\ srv.sid # 0 /\ srv.log # <<>>
           /\ srv.at \in seq .. Len(srv.log)
           /\ Served(wire, srv.log, srv.sid, srv.at)
           /\ Ordered(wire, seq)
           /\ Complete(wire, srv.log, seq, srv.at)
<1>1. LogOk(srv.log, posted) /\ seq \in Nat /\ srv.at \in Nat
  BY DEF DiscordInv, NumbersInv
<1>2. Len(srv.log) \in Nat
  BY <1>1, IsSeqLen DEF LogOk
<1>3. Chained(wire) /\ IsSeq(wire)
  BY DEF DiscordInv, FrameInv, Chained
<1>4. /\ sid \in {0, srv.sid} /\ srv.sid # 0 /\ srv.log # <<>> /\ srv.at \in seq .. Len(srv.log)
      /\ Served(wire, srv.log, srv.sid, srv.at) /\ Ordered(wire, seq)
      /\ Complete(wire, srv.log, seq, srv.at)
  BY DEF DiscordInv, LiveInv
<1> QED
  BY <1>1, <1>2, <1>3, <1>4

\* The next event goes out.
LEMMA SendsKeeps ==
    ASSUME DiscordInv, GatewaySends
    PROVE  DiscordInv'
<1> USE DEF connVars, sessVars, hsVars, rxVars, mainVars, netVars, counts
<1> DEFINE p == Event(srv.at + 1, srv.log, srv.sid)
<1>1. /\ conn = "open" /\ srv.live /\ srv.at < Len(srv.log)
      /\ srv' = [srv EXCEPT !.at = srv.at + 1]
      /\ UNCHANGED <<conn, sid, seq, botId, pend, rx, skip, thread, up, posted, got>>
  BY DEF GatewaySends
<1>2. /\ IsServer(srv) /\ srv.at \in Nat /\ LogOk(srv.log, posted)
  BY DEF DiscordInv, NumbersInv
<1>3. Len(srv.log) \in Nat /\ srv.at + 1 \in 1 .. Len(srv.log)
  BY <1>1, <1>2, IsSeqLen DEF LogOk
<1>4. srv.log[srv.at + 1].kind = "ready" <=> srv.at + 1 = 1
  <2>1. CASE srv.at + 1 = 1
    <3>1. srv.log # <<>>
      BY <1>2, <1>3, IsSeqLen DEF LogOk
    <3> QED
      BY <1>2, <2>1, <3>1 DEF LogOk
  <2>2. CASE srv.at + 1 # 1
    <3>1. srv.at + 1 \in 2 .. Len(srv.log)
      BY <1>2, <1>3, <2>2
    <3> QED
      BY <1>2, <2>2, <3>1 DEF LogOk
  <2> QED
    BY <2>1, <2>2
<1>5. wire' = wire \o Fragments(p)
  BY <1>4 DEF GatewaySends, Send, Event
<1>6. p.len \in Nat \ {0}
  BY <1>2, <1>3, EventFacts
<1>7. /\ IsServer(srv') /\ srv'.sid = srv.sid /\ srv'.log = srv.log /\ srv'.live = srv.live
      /\ srv'.at = srv.at + 1
  BY <1>1, <1>2 DEF IsServer
<1>8. ASSUME thread
      PROVE  /\ srv'.at \in seq .. Len(srv.log)
             /\ Served(wire', srv.log, srv.sid, srv'.at)
             /\ Ordered(wire', seq)
             /\ Complete(wire', srv.log, seq, srv'.at)
  <2>1. /\ IsSeq(wire) /\ seq \in Nat /\ srv.at \in seq .. Len(srv.log)
        /\ Served(wire, srv.log, srv.sid, srv.at) /\ Ordered(wire, seq)
        /\ Complete(wire, srv.log, seq, srv.at)
    BY <1>1, <1>8, LiveFacts
  <2>2. /\ Served(wire', srv.log, srv.sid, srv.at + 1) /\ Ordered(wire', seq)
        /\ Complete(wire', srv.log, seq, srv.at + 1)
    <3>1. seq <= srv.at
      BY <1>2, <2>1
    <3> QED
      BY <1>1, <1>2, <1>5, <2>1, <3>1, SendEvent
  <2>3. srv.at + 1 \in seq .. Len(srv.log)
    BY <1>2, <1>3, <2>1
  <2> QED
    BY <1>7, <2>2, <2>3
<1> HIDE DEF p
<1>9. srv'.at \in Nat
  BY <1>2, <1>7
<1> QED
  BY <1>1, <1>5, <1>6, <1>7, <1>8, <1>9, SentKeeps

\* RESUMED and RECONNECT carry no number.
LEMMA ControlKeeps ==
    ASSUME DiscordInv, GatewayResumed \/ GatewayReconnects
    PROVE  DiscordInv'
<1> USE DEF connVars, sessVars, hsVars, rxVars, mainVars, netVars, counts
<1>1. PICK p \in {Resumed, Reconnect} : wire' = wire \o Fragments(p)
  BY DEF GatewayResumed, GatewayReconnects, Send
<1>2. /\ conn = "open" /\ srv.live
      /\ UNCHANGED <<conn, sid, seq, botId, pend, rx, skip, thread, up, posted, got>>
  BY DEF GatewayResumed, GatewayReconnects
<1>3. p.len \in Nat \ {0}
  BY <1>1 DEF Resumed, Reconnect
<1>4. IsServer(srv) /\ srv.at \in Nat
  BY DEF DiscordInv, NumbersInv
<1>5. \/ srv' = [srv EXCEPT !.replay = FALSE]
      \/ srv' = [srv EXCEPT !.closing = TRUE]
  BY DEF GatewayResumed, GatewayReconnects
<1>6. /\ IsServer(srv') /\ srv'.sid = srv.sid /\ srv'.log = srv.log /\ srv'.live = srv.live
      /\ srv'.at = srv.at
  <2>1. CASE srv' = [srv EXCEPT !.replay = FALSE]
    BY <1>4, <2>1 DEF IsServer
  <2>2. CASE srv' = [srv EXCEPT !.closing = TRUE]
    BY <1>4, <2>2 DEF IsServer
  <2> QED
    BY <1>5, <2>1, <2>2
<1>7. ASSUME thread
      PROVE  /\ srv'.at \in seq .. Len(srv.log)
             /\ Served(wire', srv.log, srv.sid, srv'.at)
             /\ Ordered(wire', seq)
             /\ Complete(wire', srv.log, seq, srv'.at)
  <2>1. /\ IsSeq(wire) /\ srv.at \in seq .. Len(srv.log)
        /\ Served(wire, srv.log, srv.sid, srv.at) /\ Ordered(wire, seq)
        /\ Complete(wire, srv.log, seq, srv.at)
    BY <1>2, <1>7, LiveFacts
  <2>2. /\ Served(wire', srv.log, srv.sid, srv.at) /\ Ordered(wire', seq)
        /\ Complete(wire', srv.log, seq, srv.at)
    BY <1>1, <2>1, SendControl
  <2> QED
    BY <1>6, <2>1, <2>2
<1> QED
  BY <1>1, <1>2, <1>3, <1>4, <1>6, <1>7, SentKeeps

\* While a frame of the client is on its way, nothing else is.
LEMMA UpFacts ==
    ASSUME DiscordInv, thread, up # <<>>
    PROVE  /\ conn = "open" /\ ~srv.live /\ pend = "no" /\ wire = <<>>
           /\ rx = <<>> /\ skip = FALSE
           /\ up[1].op = "identify" => sid = 0 /\ seq = 0
           /\ up[1].op = "resume" => up[1].sid = sid /\ up[1].seq = seq /\ sid # 0
<1>1. HandshakeInv /\ FrameInv
  BY DEF DiscordInv
<1>2. conn = "open" /\ ~srv.live /\ pend = "no" /\ wire = <<>>
  BY <1>1 DEF HandshakeInv
<1>3. rx = <<>> /\ skip = FALSE
  BY <1>1, <1>2 DEF FrameInv, HeadOk
<1>4. up = <<discord_build_identify>> \/ up = <<discord_build_resume>>
  BY <1>1 DEF HandshakeInv
<1>5. CASE up = <<discord_build_identify>>
  <2>1. up[1].op = "identify"
    BY <1>5 DEF discord_build_identify
  <2>2. sid = 0 /\ seq = 0
    BY <1>1, <1>5 DEF HandshakeInv
  <2> QED
    BY <1>2, <1>3, <2>1, <2>2
<1>6. CASE up = <<discord_build_resume>>
  <2>1. up[1].op = "resume" /\ up[1].sid = sid /\ up[1].seq = seq
    BY <1>6 DEF discord_build_resume
  <2>2. sid # 0
    BY <1>1, <1>6 DEF HandshakeInv
  <2> QED
    BY <1>2, <1>3, <2>1, <2>2
<1> QED
  BY <1>4, <1>5, <1>6

\* An empty wire serves nothing, in order, and nothing is missing up to q.
LEMMA NothingDue ==
    ASSUME NEW w, w = <<>>, NEW log, NEW session, NEW q \in Nat
    PROVE  Served(w, log, session, q) /\ Ordered(w, q) /\ Complete(w, log, q, q)
<1>1. Len(w) = 0
  BY NothingSent
<1>2. \A j : j \notin 1 .. Len(w) /\ j \notin q + 1 .. q
  BY <1>1
<1> QED
  BY <1>2, Zenon DEF Served, Ordered, Complete

\* A connection becomes live: nothing is on the wire yet.
LEMMA BecomesLive ==
    ASSUME DiscordInv, up # <<>>, up' = <<>>,
           NumbersInv', srv'.live = TRUE,
           thread => /\ sid \in {0, srv'.sid} /\ srv'.sid # 0 /\ srv'.log # <<>>
                     /\ srv'.at = seq /\ seq \in 0 .. Len(srv'.log)
                     /\ LaterInv',
           NothingMissed',
           UNCHANGED <<conn, sid, seq, botId, pend, rx, skip, thread, wire, got>>
    PROVE  DiscordInv'
<1>1. ASSUME thread PROVE HandshakeInv'
  <2>1. conn = "open" /\ pend = "no" /\ wire = <<>>
    BY <1>1, UpFacts
  <2>2. (sid = 0 <=> seq = 0) /\ (sid # 0 => botId)
    BY <1>1 DEF DiscordInv, HandshakeInv
  <2>3. up' # <<discord_build_identify>>' /\ up' # <<discord_build_resume>>'
    OBVIOUS
  <2> QED
    BY <2>1, <2>2, <2>3 DEF HandshakeInv
<1>2. thread => FrameInv'
  BY DEF DiscordInv, FrameInv
<1>3. ASSUME thread PROVE LiveInv'
  <2>1. wire' = <<>> /\ seq \in Nat
    BY <1>3, UpFacts DEF DiscordInv, NumbersInv
  <2>2. /\ Served(wire', srv'.log, srv'.sid, seq) /\ Ordered(wire', seq)
        /\ Complete(wire', srv'.log, seq, seq)
    BY <2>1, NothingDue
  <2>3. seq \in seq .. Len(srv'.log)
    BY <1>3, <2>1
  <2> QED
    BY <1>3, <2>2, <2>3 DEF LiveInv
<1>4. NoSplice'
  BY DEF DiscordInv, NoSplice
<1> QED
  BY <1>1, <1>2, <1>3, <1>4 DEF DiscordInv

\* IDENTIFY opens a session nobody has seen yet.
LEMMA IdentifiesKeeps ==
    ASSUME DiscordInv, GatewayIdentifies
    PROVE  DiscordInv'
<1> USE DEF connVars, sessVars, hsVars, rxVars, mainVars, netVars, counts
<1> DEFINE first == [kind |-> "ready", len |-> 1, m |-> 0]
<1>1. /\ up # <<>> /\ up[1].op = "identify" /\ up' = <<>>
      /\ UNCHANGED <<conn, sid, seq, botId, pend, rx, skip, thread, wire, posted, got>>
  BY DEF GatewayIdentifies
<1>2. /\ srv'.sid = srv.sid + 1 /\ srv'.log = <<first>> /\ srv'.at = 0 /\ srv'.live = TRUE
      /\ IsServer(srv')
  BY DEF GatewayIdentifies, IsServer
<1>3. first.kind = "ready" /\ first.len = 1 /\ first.m = 0
  OBVIOUS
<1> HIDE DEF first
<1>4. IsSeq(srv'.log) /\ Len(srv'.log) = 1 /\ srv'.log[1] = first /\ srv'.log # <<>>
  <2>1. srv'.log \in Seq({first}) /\ Len(srv'.log) = 1 /\ srv'.log[1] = first
    BY <1>2
  <2>2. IsSeq(srv'.log)
    BY <2>1, SeqIsSeq
  <2> QED
    BY <2>1, <2>2, IsSeqLen
<1>5. \A i : i \notin 2 .. Len(srv'.log)
  BY <1>4
<1>6. LogOk(srv'.log, posted)
  BY <1>3, <1>4, <1>5 DEF LogOk
<1>7. srv.sid \in Nat /\ sid \in Nat /\ sid <= srv.sid
  BY DEF DiscordInv, NumbersInv
<1>8. sid # srv'.sid /\ sid <= srv'.sid /\ srv'.sid \in Nat /\ srv'.sid # 0
  BY <1>2, <1>7
<1>9. NumbersInv'
  <2>1. TRUE \in BOOLEAN /\ 0 \in Nat
    OBVIOUS
  <2> QED
    BY <1>1, <1>2, <1>6, <1>8, <2>1 DEF DiscordInv, NumbersInv, LastGot
<1>10. NothingMissed'
  BY <1>1, <1>8 DEF NothingMissed
<1>11. LaterInv'
  BY <1>5 DEF LaterInv
<1>12. ASSUME thread PROVE sid = 0 /\ srv'.at = seq /\ seq \in 0 .. Len(srv'.log)
  <2>1. sid = 0 /\ seq = 0
    BY <1>1, <1>12, UpFacts
  <2> QED
    BY <1>2, <1>4, <2>1
<1> QED
  BY <1>1, <1>2, <1>4, <1>8, <1>9, <1>10, <1>11, <1>12, BecomesLive

\* RESUME goes on after the last event that was handled.
LEMMA ResumesKeeps ==
    ASSUME DiscordInv, GatewayResumes
    PROVE  DiscordInv'
<1> USE DEF connVars, sessVars, hsVars, rxVars, mainVars, netVars, counts
<1>1. /\ up # <<>> /\ up[1].op = "resume" /\ up[1].sid = srv.sid /\ up' = <<>>
      /\ srv' = [srv EXCEPT !.at = up[1].seq, !.live = TRUE, !.replay = TRUE]
      /\ UNCHANGED <<conn, sid, seq, botId, pend, rx, skip, thread, wire, posted, got>>
  BY DEF GatewayResumes
<1>2. IsServer(srv) /\ up[1].seq \in Nat
  BY <1>1 DEF DiscordInv, NumbersInv
<1>3. /\ IsServer(srv') /\ srv'.sid = srv.sid /\ srv'.log = srv.log
      /\ srv'.at = up[1].seq /\ srv'.live = TRUE
  BY <1>1, <1>2 DEF IsServer
<1>4. NumbersInv'
  <2>1. TRUE \in BOOLEAN
    OBVIOUS
  <2> QED
    BY <1>1, <1>2, <1>3, <2>1 DEF DiscordInv, NumbersInv, LastGot
<1>5. NothingMissed'
  BY <1>1, <1>3 DEF DiscordInv, NothingMissed
<1>6. ASSUME thread
      PROVE  /\ sid \in {0, srv'.sid} /\ srv'.sid # 0 /\ srv'.log # <<>>
             /\ srv'.at = seq /\ seq \in 0 .. Len(srv'.log) /\ LaterInv'
  <2>1. up[1].sid = sid /\ up[1].seq = seq /\ sid # 0
    BY <1>1, <1>6, UpFacts
  <2>2. seq \in 1 .. Len(srv.log) /\ IsSeq(srv.log)
    BY <1>1, <2>1 DEF DiscordInv, NumbersInv, LogOk
  <2>3. Len(srv.log) \in Nat /\ (srv.log = <<>> <=> Len(srv.log) = 0)
    BY <2>2, IsSeqLen
  <2>4. seq \in 0 .. Len(srv.log) /\ srv.log # <<>>
    BY <2>2, <2>3
  <2>5. LaterInv'
    BY <1>1, <1>3, <1>6 DEF DiscordInv, LaterInv, LastGot
  <2> QED
    BY <1>1, <1>3, <2>1, <2>4, <2>5
<1> QED
  BY <1>1, <1>3, <1>4, <1>5, <1>6, BecomesLive

\* A payload in one fragment on an empty wire.
LEMMA FirstSent ==
    ASSUME NEW w, w = <<>>, NEW p, p.len = 1
    PROVE  /\ w \o Fragments(p) = Fragments(p)
           /\ Chained(Fragments(p))
           /\ Len(Fragments(p)) = 1 /\ Fragments(p)[1].of = p
           /\ \A r, k : r = <<>> /\ k = FALSE => HeadOk(Fragments(p), r, k)
<1>1. p.len \in Nat \ {0} /\ 1 \in 1 .. p.len
  OBVIOUS
<1>2. /\ IsSeq(Fragments(p)) /\ Len(Fragments(p)) = 1
      /\ Fragments(p)[1].of = p /\ Fragments(p)[1].i = 1
  BY <1>1, FragmentsFacts, ZenonT(30)
<1>3. <<>> \o Fragments(p) = Fragments(p)
  BY <1>2, ConcatEmptySeq DEF IsSeq
<1>4. Chained(Fragments(p))
  BY <1>1, <1>3, NothingSent, SendChained
<1>5. ASSUME NEW r, NEW k, r = <<>>, k = FALSE PROVE HeadOk(Fragments(p), r, k)
  <2>1. IsSeq(r) /\ Len(r) = 0
    BY <1>5, NothingSent
  <2> DEFINE g == Fragments(p)
  <2>2. IsSeq(g) /\ Len(g) = 1 /\ g[1].i = 1
    BY <1>2
  <2> HIDE DEF g
  <2>3. g # <<>>
    BY <2>2, NothingSent
  <2>4. ~k /\ k \in BOOLEAN
    BY <1>5
  <2>5. HeadOk(g, r, k)
    BY <1>5, <2>1, <2>2, <2>3, <2>4 DEF HeadOk
  <2> QED
    BY <2>5 DEF g
<1> QED
  BY <1>2, <1>3, <1>4, <1>5

\* INVALID_SESSION answers a RESUME; it is final only for a session that is gone.
LEMMA RefusesKeeps ==
    ASSUME DiscordInv, GatewayRefuses
    PROVE  DiscordInv'
<1> USE DEF connVars, sessVars, hsVars, rxVars, mainVars, netVars, counts
<1>1. /\ up # <<>> /\ up[1].op = "resume" /\ up' = <<>>
      /\ srv' = [srv EXCEPT !.closing = TRUE]
      /\ UNCHANGED <<conn, sid, seq, botId, pend, rx, skip, thread, posted, got>>
  BY DEF GatewayRefuses
<1>2. PICK p \in {Invalid(TRUE), Invalid(FALSE)} :
        wire' = wire \o Fragments(p) /\ (p = Invalid(FALSE) => up[1].sid # srv.sid)
  <2>1. Invalid(TRUE) # Invalid(FALSE)
    BY DEF Invalid
  <2> QED
    BY <2>1 DEF GatewayRefuses, Send
<1>3. IsServer(srv)
  BY DEF DiscordInv, NumbersInv
<1>4. /\ IsServer(srv') /\ srv'.sid = srv.sid /\ srv'.log = srv.log
      /\ srv'.at = srv.at /\ srv'.live = srv.live
  BY <1>1, <1>3 DEF IsServer
<1>5. NumbersInv'
  BY <1>1, <1>4 DEF DiscordInv, NumbersInv, LastGot
<1>6. NoSplice' /\ NothingMissed'
  BY <1>1, <1>4 DEF DiscordInv, NoSplice, NothingMissed
<1>7. thread => LaterInv'
  BY <1>1, <1>4 DEF DiscordInv, LaterInv, LastGot
<1>8. ASSUME thread PROVE HandshakeInv' /\ FrameInv' /\ LiveInv'
  <2>1. /\ conn = "open" /\ ~srv.live /\ pend = "no" /\ wire = <<>>
        /\ rx = <<>> /\ skip = FALSE /\ up[1].sid = sid
    BY <1>1, <1>8, UpFacts
  <2>2. p.len = 1
    BY <1>2 DEF Invalid
  <2>3. /\ wire' = Fragments(p) /\ Chained(wire') /\ Len(wire') = 1 /\ wire'[1].of = p
        /\ HeadOk(wire', rx, skip)
    <3>1. /\ wire \o Fragments(p) = Fragments(p) /\ Chained(Fragments(p))
          /\ Len(Fragments(p)) = 1 /\ Fragments(p)[1].of = p
      BY <2>1, <2>2, FirstSent
    <3>2. HeadOk(Fragments(p), rx, skip)
      BY <2>1, <2>2, FirstSent
    <3> QED
      BY <1>2, <3>1, <3>2
  <2>4. \A j \in 1 .. Len(wire') : wire'[j].of = p
    BY <2>3
  <2>5. p = Invalid(FALSE) => sid # srv.sid
    BY <1>2, <2>1
  <2>6. (sid = 0 <=> seq = 0) /\ (sid # 0 => botId)
    BY <1>8 DEF DiscordInv, HandshakeInv
  <2>7. up' # <<discord_build_identify>>' /\ up' # <<discord_build_resume>>'
    BY <1>1
  <2>8. Len(wire') <= 1
    BY <2>3
  <2>9. HandshakeInv'
    BY <1>1, <1>2, <1>4, <2>1, <2>4, <2>5, <2>6, <2>7, <2>8 DEF HandshakeInv
  <2>10. FrameInv' /\ LiveInv'
    BY <1>1, <1>4, <2>1, <2>3 DEF FrameInv, LiveInv
  <2> QED
    BY <2>9, <2>10
<1> QED
  BY <1>1, <1>5, <1>6, <1>7, <1>8 DEF DiscordInv

\* A session that expires is not the one any client knows from then on.
LEMMA ForgetsKeeps ==
    ASSUME DiscordInv, GatewayForgets
    PROVE  DiscordInv'
<1> USE DEF connVars, sessVars, hsVars, rxVars, mainVars, netVars, counts
<1>1. /\ ~srv.live /\ srv' = [srv EXCEPT !.sid = srv.sid + 1, !.log = <<>>]
      /\ UNCHANGED <<conn, sid, seq, botId, pend, rx, skip, thread, wire, up, posted, got>>
  BY DEF GatewayForgets
<1>2. IsServer(srv) /\ srv.sid \in Nat /\ sid \in Nat /\ sid <= srv.sid
  BY DEF DiscordInv, NumbersInv
<1>3. /\ IsServer(srv') /\ srv'.sid = srv.sid + 1 /\ srv'.log = <<>>
      /\ srv'.at = srv.at /\ srv'.live = srv.live
  BY <1>1, <1>2 DEF IsServer
<1>4. srv'.sid \in Nat /\ sid <= srv'.sid /\ sid # srv'.sid
  BY <1>2, <1>3
<1>5. LogOk(srv'.log, posted) /\ Len(srv'.log) = 0
  BY <1>3, EmptyLog, NothingSent
<1>6. NumbersInv'
  BY <1>1, <1>3, <1>4, <1>5 DEF DiscordInv, NumbersInv, LastGot
<1>7. NoSplice' /\ NothingMissed'
  BY <1>1, <1>4 DEF DiscordInv, NoSplice, NothingMissed
<1>8. LaterInv'
  BY <1>5 DEF LaterInv
<1>9. thread => HandshakeInv'
  <2>1. UNCHANGED <<discord_build_identify, discord_build_resume>>
    BY <1>1 DEF discord_build_identify, discord_build_resume
  <2> QED
    BY <1>1, <1>3, <1>4, <2>1 DEF DiscordInv, HandshakeInv
<1>10. thread => FrameInv' /\ LiveInv'
  BY <1>1, <1>3 DEF DiscordInv, FrameInv, LiveInv
<1> QED
  BY <1>1, <1>6, <1>7, <1>8, <1>9, <1>10 DEF DiscordInv

-----------------------------------------------------------------------------
(* Connections come and go. *)

\* A new connection starts with HELLO and an empty rx_buf.
LEMMA EstablishedKeeps ==
    ASSUME DiscordInv, Established
    PROVE  DiscordInv'
<1> USE DEF connVars, sessVars, hsVars, rxVars, mainVars, netVars, counts
<1>1. /\ thread /\ conn = "connecting" /\ conn' = "open" /\ rx' = <<>> /\ skip' = FALSE
      /\ wire' = Fragments(Hello)
      /\ srv' = [srv EXCEPT !.live = FALSE, !.closing = FALSE]
      /\ UNCHANGED <<sid, seq, botId, pend, thread, up, posted, got>>
  BY DEF Established, discord_rx_reset
<1>2. IsServer(srv)
  BY DEF DiscordInv, NumbersInv
<1>3. /\ IsServer(srv') /\ srv'.sid = srv.sid /\ srv'.log = srv.log
      /\ srv'.at = srv.at /\ srv'.live = FALSE
  BY <1>1, <1>2 DEF IsServer
<1>4. NumbersInv'
  <2>1. FALSE \in BOOLEAN
    OBVIOUS
  <2> QED
    BY <1>1, <1>3, <2>1 DEF DiscordInv, NumbersInv, LastGot
<1>5. NoSplice' /\ NothingMissed'
  <2>1. NoSplice'
    BY <1>1 DEF NoSplice
  <2>2. NothingMissed'
    BY <1>1, <1>3 DEF DiscordInv, NothingMissed
  <2> QED
    BY <2>1, <2>2
<1>6. LaterInv' /\ LiveInv'
  BY <1>1, <1>3 DEF DiscordInv, LaterInv, LiveInv, LastGot
<1>7. Hello.len = 1 /\ Hello # Invalid(FALSE)
  BY DEF Hello, Invalid
<1>8. /\ Chained(wire') /\ Len(wire') = 1 /\ wire'[1].of = Hello
      /\ HeadOk(wire', rx', skip')
  BY <1>1, <1>7, FirstSent
<1>9. \A j \in 1 .. Len(wire') : wire'[j].of = Hello
  BY <1>8
<1>10. HandshakeInv'
  <2>1. up = <<>> /\ pend = "no" /\ (sid = 0 <=> seq = 0) /\ (sid # 0 => botId)
    BY <1>1 DEF DiscordInv, HandshakeInv
  <2>2. up' # <<discord_build_identify>>' /\ up' # <<discord_build_resume>>' /\ Len(wire') <= 1
    BY <1>1, <1>8, <2>1
  <2> QED
    BY <1>1, <1>3, <1>7, <1>9, <2>1, <2>2 DEF HandshakeInv
<1>11. FrameInv'
  BY <1>8 DEF FrameInv
<1> QED
  BY <1>4, <1>5, <1>6, <1>10, <1>11 DEF DiscordInv

\* With a connection everything on it is gone, but not the session.
LEMMA GoneKeeps ==
    ASSUME DiscordInv, ConnectionFails \/ ConnectionClosed
    PROVE  DiscordInv'
<1> USE DEF connVars, sessVars, hsVars, rxVars, mainVars, netVars, counts
<1>1. /\ thread /\ conn' = "none" /\ pend' = "no" /\ wire' = <<>> /\ up' = <<>>
      /\ srv' = [srv EXCEPT !.live = FALSE, !.replay = FALSE]
      /\ UNCHANGED <<sid, seq, botId, rx, skip, thread, posted, got>>
  BY DEF ConnectionFails, ConnectionClosed, ConnectionGone
<1>2. IsServer(srv)
  BY DEF DiscordInv, NumbersInv
<1>3. /\ IsServer(srv') /\ srv'.sid = srv.sid /\ srv'.log = srv.log
      /\ srv'.at = srv.at /\ srv'.live = FALSE
  BY <1>1, <1>2 DEF IsServer
<1>4. NumbersInv'
  <2>1. FALSE \in BOOLEAN
    OBVIOUS
  <2> QED
    BY <1>1, <1>3, <2>1 DEF DiscordInv, NumbersInv, LastGot
<1>5. NoSplice' /\ NothingMissed'
  BY <1>1, <1>3 DEF DiscordInv, NoSplice, NothingMissed
<1>6. LaterInv' /\ LiveInv'
  BY <1>1, <1>3 DEF DiscordInv, LaterInv, LiveInv, LastGot
<1>7. FrameInv' /\ Len(wire') = 0
  BY <1>1, NothingSent DEF FrameInv
<1>8. HandshakeInv'
  <2>1. (sid = 0 <=> seq = 0) /\ (sid # 0 => botId)
    BY <1>1 DEF DiscordInv, HandshakeInv
  <2>2. /\ up' # <<discord_build_identify>>' /\ up' # <<discord_build_resume>>'
        /\ Len(wire') <= 1 /\ \A j : j \notin 1 .. Len(wire')
    BY <1>1, <1>7
  <2> QED
    BY <1>1, <1>3, <2>1, <2>2 DEF HandshakeInv
<1> QED
  BY <1>4, <1>5, <1>6, <1>7, <1>8 DEF DiscordInv

-----------------------------------------------------------------------------
(* A fragment is received. *)

\* The part of Receive that has nothing to do with the session.
Took ==
    /\ thread /\ conn = "open" /\ wire # <<>> /\ wire' = Tail(wire)
    /\ Chained(wire') /\ HeadOk(wire', rx', skip') /\ NoSplice'
    /\ UNCHANGED <<conn, thread, up, srv, posted>>

\* The session stays as it is.
LEMMA TookQuiet ==
    ASSUME DiscordInv, Took, UNCHANGED <<sid, seq, botId, pend, got>>,
           srv.live /\ wire[1].final /\ HasNumber(wire[1]) => wire[1].of.len > RxMax
    PROVE  DiscordInv'
<1>1. /\ thread /\ conn = "open" /\ wire # <<>> /\ wire' = Tail(wire)
      /\ UNCHANGED <<conn, thread, up, srv, posted>>
  BY DEF Took
<1>2. NumbersInv'
  BY <1>1 DEF DiscordInv, NumbersInv, LastGot
<1>3. FrameInv' /\ NoSplice'
  BY DEF Took, FrameInv
<1>4. LaterInv' /\ NothingMissed'
  BY <1>1 DEF DiscordInv, LaterInv, NothingMissed, LastGot
<1>5. HandshakeInv'
  <2>1. UNCHANGED <<discord_build_identify, discord_build_resume>>
    BY <1>1 DEF discord_build_identify, discord_build_resume
  <2>2. HandshakeInv /\ IsSeq(wire)
    BY <1>1 DEF DiscordInv, FrameInv, Chained
  <2>3. CASE srv.live
    BY <1>1, <2>1, <2>2, <2>3 DEF HandshakeInv
  <2>4. CASE ~srv.live
    <3>1. Len(wire) <= 1
      BY <2>2, <2>4 DEF HandshakeInv
    <3>2. Len(wire') = 0
      BY <1>1, <2>2, <3>1, TailFacts
    <3>3. Len(wire') <= 1 /\ \A j : j \notin 1 .. Len(wire')
      BY <3>2
    <3> QED
      BY <1>1, <2>1, <2>2, <2>4, <3>3 DEF HandshakeInv
  <2> QED
    BY <2>3, <2>4
<1>6. ASSUME srv.live PROVE LiveInv'
  <2>1. /\ LogOk(srv.log, posted) /\ IsSeq(wire) /\ Len(srv.log) \in Nat
        /\ seq \in Nat /\ srv.at \in Nat /\ sid \in {0, srv.sid} /\ srv.sid # 0
        /\ srv.log # <<>> /\ srv.at \in seq .. Len(srv.log)
        /\ Served(wire, srv.log, srv.sid, srv.at) /\ Ordered(wire, seq)
        /\ Complete(wire, srv.log, seq, srv.at)
    BY <1>1, <1>6, LiveFacts
  <2>2. srv.at \in 0 .. Len(srv.log)
    BY <2>1
  <2>3. /\ Served(wire', srv.log, srv.sid, srv.at) /\ Ordered(wire', seq)
        /\ Complete(wire', srv.log, seq, srv.at)
    BY <1>1, <1>6, <2>1, <2>2, DropEvent
  <2> QED
    BY <1>1, <2>1, <2>3 DEF LiveInv
<1>7. ~srv.live => LiveInv'
  BY <1>1 DEF LiveInv
<1> QED
  BY <1>2, <1>3, <1>4, <1>5, <1>6, <1>7 DEF DiscordInv

\* HELLO and INVALID_SESSION come before the connection is live.
LEMMA TookGreeting ==
    ASSUME DiscordInv, Took, ~srv.live, discord_handle_payload(wire[1].of)
    PROVE  DiscordInv' /\ UNCHANGED <<queue, got>>
<1> USE DEF sessVars, hsVars
<1> DEFINE p == wire[1].of
<1>1. /\ thread /\ conn = "open" /\ wire # <<>> /\ wire' = Tail(wire)
      /\ UNCHANGED <<conn, thread, up, srv, posted>>
  BY DEF Took
<1>2. HandshakeInv /\ NumbersInv /\ LaterInv /\ IsSeq(wire)
  BY <1>1 DEF DiscordInv, FrameInv, Chained
<1>3. Len(wire) = 1 /\ Len(wire') = 0
  <2>1. Len(wire) \in Nat \ {0} /\ Len(wire') = Len(wire) - 1
    BY <1>1, <1>2, TailFacts
  <2>2. Len(wire) <= 1
    BY <1>2 DEF HandshakeInv
  <2> QED
    BY <2>1, <2>2
<1>4. /\ p \in {Hello, Invalid(TRUE), Invalid(FALSE)}
      /\ p = Invalid(FALSE) => sid # srv.sid
      /\ up = <<>> /\ pend = "no"
  <2>1. 1 \in 1 .. Len(wire)
    BY <1>3
  <2> QED
    BY <1>1, <1>2, <2>1 DEF HandshakeInv
<1>5. (sid = 0 <=> seq = 0) /\ (sid # 0 => botId) /\ sid \in Nat /\ seq \in Nat
  BY <1>2 DEF HandshakeInv, NumbersInv
<1>6. FrameInv' /\ NoSplice' /\ LiveInv'
  BY <1>1 DEF Took, FrameInv, LiveInv
<1>7. /\ Len(wire') <= 1 /\ \A j : j \notin 1 .. Len(wire')
      /\ wire' = <<>> /\ up' = <<>>
      /\ up' # <<discord_build_identify>>' /\ up' # <<discord_build_resume>>'
  <2>1. IsSeq(wire')
    BY DEF Took, Chained
  <2>2. wire' = <<>>
    BY <1>3, <2>1, IsSeqLen
  <2>3. Len(wire') <= 1 /\ \A j : j \notin 1 .. Len(wire')
    BY <1>3
  <2> QED
    BY <1>1, <1>4, <2>2, <2>3
<1> HIDE DEF p
<1>8. CASE p = Hello
  <2>1. p.op = "hello"
    BY <1>8 DEF Hello
  <2>2. /\ pend' = IF discord_has_resume_state THEN "resume" ELSE "identify"
        /\ UNCHANGED <<sid, seq, botId, queue, got>>
    BY <2>1 DEF discord_handle_payload, p
  <2>3. /\ pend' \in {"no", "identify", "resume"}
        /\ pend' = "identify" => sid = 0
        /\ pend' = "resume" => sid # 0
    BY <1>5, <2>2 DEF discord_has_resume_state
  <2>4. HandshakeInv'
    BY <1>1, <1>5, <1>7, <2>2, <2>3 DEF HandshakeInv
  <2>5. NumbersInv' /\ LaterInv' /\ NothingMissed'
    BY <1>1, <1>2, <2>2 DEF DiscordInv, NumbersInv, LaterInv, NothingMissed, LastGot
  <2> QED
    BY <1>6, <2>2, <2>4, <2>5 DEF DiscordInv
<1>9. CASE p = Invalid(TRUE)
  <2>1. p.op = "invalid" /\ p.d = TRUE
    BY <1>9 DEF Invalid
  <2>2. UNCHANGED <<sid, seq, botId, pend, queue, got>>
    BY <2>1 DEF discord_handle_payload, p
  <2> QED
    BY <2>2, TookQuiet
<1>10. CASE p = Invalid(FALSE)
  <2>1. p.op = "invalid" /\ p.d = FALSE
    BY <1>10 DEF Invalid
  <2>2. sid' = 0 /\ seq' = 0 /\ UNCHANGED <<botId, pend, queue, got>>
    BY <2>1 DEF discord_handle_payload, p
  <2>3. HandshakeInv'
    BY <1>1, <1>4, <1>7, <2>2 DEF HandshakeInv
  <2>4. LastGot' = LastGot
    BY <2>2 DEF LastGot
  <2>5. LaterInv'
    BY <1>1, <1>2, <1>4, <1>10, <2>4 DEF LaterInv
  <2>6. 0 \in Nat /\ 0 <= srv.sid
    BY <1>2 DEF NumbersInv
  <2>7. NumbersInv'
    BY <1>1, <1>2, <2>2, <2>4, <2>6 DEF NumbersInv
  <2>8. NothingMissed'
    BY <2>2 DEF NothingMissed
  <2> QED
    BY <1>6, <2>2, <2>3, <2>5, <2>7, <2>8 DEF DiscordInv
<1> QED
  BY <1>4, <1>8, <1>9, <1>10

\* The end of an event on a live connection: the client comes to its number.
LEMMA TookNumbered ==
    ASSUME DiscordInv, Took, srv.live, wire[1].final, HasNumber(wire[1])
    PROVE  /\ wire[1].of.s \in seq + 1 .. srv.at
           /\ wire[1].of = Event(wire[1].of.s, srv.log, srv.sid)
           /\ \A i \in seq + 1 .. wire[1].of.s - 1 : srv.log[i].len > RxMax
           /\ Served(wire', srv.log, srv.sid, srv.at) /\ Ordered(wire', wire[1].of.s)
           /\ Complete(wire', srv.log, wire[1].of.s, srv.at)
<1> DEFINE log == srv.log
           session == srv.sid
           at == srv.at
           w == wire
           s == w[1].of.s
<1>1. thread /\ w # <<>> /\ wire' = Tail(w)
  BY DEF Took
<1>2. /\ LogOk(log, posted) /\ IsSeq(w) /\ Len(log) \in Nat /\ seq \in Nat /\ at \in Nat
      /\ at \in seq .. Len(log)
      /\ Served(w, log, session, at) /\ Ordered(w, seq) /\ Complete(w, log, seq, at)
  BY <1>1, LiveFacts
<1>3. EndOf(w[1], s)
  BY DEF EndOf
<1> HIDE DEF log, session, at, w, s
<1>4. at \in 0 .. Len(log)
  BY <1>2
<1>5. /\ s \in seq + 1 .. at /\ w[1].of = Event(s, log, session)
      /\ \A i \in seq + 1 .. s - 1 : log[i].len > RxMax
      /\ Served(Tail(w), log, session, at) /\ Ordered(Tail(w), s)
      /\ Complete(Tail(w), log, s, at)
  BY <1>1, <1>2, <1>3, <1>4, TakeEvent
<1> QED
  BY <1>1, <1>5 DEF log, session, at, w, s

\* READY gives the session its number; it is handled before any other event.
LEMMA TookReady ==
    ASSUME DiscordInv, Took, srv.live, wire[1].final, wire[1].of.op = "ready",
           discord_handle_payload(wire[1].of)
    PROVE  DiscordInv' /\ UNCHANGED <<queue, got>>
<1> DEFINE p == wire[1].of
           log == srv.log
<1>1. /\ thread /\ conn = "open" /\ wire # <<>> /\ wire' = Tail(wire)
      /\ UNCHANGED <<conn, thread, up, srv, posted>>
  BY DEF Took
<1>2. /\ LogOk(log, posted) /\ IsSeq(wire) /\ Len(log) \in Nat /\ seq \in Nat
      /\ srv.at \in Nat /\ srv.sid # 0 /\ log # <<>> /\ srv.at \in seq .. Len(log)
      /\ Served(wire, log, srv.sid, srv.at) /\ Ordered(wire, seq)
      /\ Complete(wire, log, seq, srv.at)
  BY <1>1, LiveFacts
<1>3. srv.at \in 0 .. Len(log)
  BY <1>2
<1>4. HasNumber(wire[1])
  BY DEF HasNumber
<1>5. /\ p.s \in seq + 1 .. srv.at /\ p = Event(p.s, log, srv.sid)
      /\ Served(wire', log, srv.sid, srv.at) /\ Ordered(wire', p.s)
      /\ Complete(wire', log, p.s, srv.at)
  BY <1>4, TookNumbered
<1>6. p.s = 1 /\ p.session = srv.sid
  <2>1. p.s \in 1 .. Len(log)
    BY <1>2, <1>5
  <2>2. /\ Event(p.s, log, srv.sid).op = "ready" => p.s = 1
        /\ Event(p.s, log, srv.sid).op = "ready" => Event(p.s, log, srv.sid).session = srv.sid
    BY <1>2, <2>1, EventFacts
  <2> QED
    BY <1>5, <2>2
<1>7. /\ seq' = 1 /\ sid' = srv.sid /\ botId' = TRUE
      /\ UNCHANGED <<pend, queue, got>>
  BY <1>6 DEF discord_handle_payload, discord_handle_dispatch
<1> HIDE DEF p
<1>8. seq = 0 /\ 1 \in 1 .. Len(log) /\ srv.at \in 1 .. Len(log)
  BY <1>2, <1>5, <1>6
<1>9. srv.sid \in Nat /\ NumbersInv /\ LaterInv /\ HandshakeInv
  BY <1>1 DEF DiscordInv, NumbersInv
<1>10. LastGot' = LastGot
  BY <1>7 DEF LastGot
<1>11. NumbersInv'
  <2>1. 1 \in Nat /\ srv.sid <= srv.sid
    BY <1>9
  <2> QED
    BY <1>1, <1>7, <1>8, <1>9, <1>10, <2>1 DEF NumbersInv
<1>12. HandshakeInv'
  <2>1. pend = "no" /\ up = <<>>
    BY <1>9 DEF HandshakeInv
  <2>2. up' # <<discord_build_identify>>' /\ up' # <<discord_build_resume>>' /\ 1 # 0
    BY <1>1, <2>1
  <2> QED
    BY <1>1, <1>2, <1>7, <2>1, <2>2 DEF HandshakeInv
<1>13. FrameInv' /\ NoSplice'
  BY DEF Took, FrameInv
<1>14. LiveInv'
  BY <1>1, <1>2, <1>5, <1>6, <1>7, <1>8 DEF LiveInv
<1>15. LaterInv'
  <2> SUFFICES ASSUME NEW i \in 2 .. Len(log) PROVE log[i].m > LastGot
    BY <1>1, <1>10 DEF LaterInv
  <2>1. ~(i <= seq)
    BY <1>8
  <2> QED
    BY <1>9, <2>1 DEF LaterInv
<1>16. NothingMissed'
  <2>1. log[1].kind = "ready"
    BY <1>2 DEF LogOk
  <2>2. \A i \in 1 .. 1 : i = 1
    OBVIOUS
  <2> QED
    BY <1>1, <1>7, <2>1, <2>2 DEF NothingMissed
<1> QED
  BY <1>7, <1>11, <1>12, <1>13, <1>14, <1>15, <1>16 DEF DiscordInv

\* A message that comes is the first one not passed; if it is routed it is put
\* into the queue, behind those with smaller numbers.
LEMMA TookCreate ==
    ASSUME DiscordInv, Took, srv.live, wire[1].final, wire[1].of.op = "create",
           discord_handle_payload(wire[1].of)
    PROVE  /\ DiscordInv'
           /\ \/ UNCHANGED <<queue, got>>
              \/ LastGot' > LastGot /\ queue' = Append(queue, LastGot')
<1> DEFINE p == wire[1].of
           log == srv.log
           n == p.s
<1>1. /\ thread /\ conn = "open" /\ wire # <<>> /\ wire' = Tail(wire)
      /\ UNCHANGED <<conn, thread, up, srv, posted>>
  BY DEF Took
<1>2. /\ LogOk(log, posted) /\ IsSeq(wire) /\ Len(log) \in Nat /\ seq \in Nat
      /\ srv.at \in Nat /\ sid \in {0, srv.sid} /\ srv.sid # 0
      /\ log # <<>> /\ srv.at \in seq .. Len(log)
      /\ Served(wire, log, srv.sid, srv.at) /\ Ordered(wire, seq)
      /\ Complete(wire, log, seq, srv.at)
  BY <1>1, LiveFacts
<1>3. srv.at \in 0 .. Len(log)
  BY <1>2
<1>4. HasNumber(wire[1])
  BY DEF HasNumber
<1>5. /\ n \in seq + 1 .. srv.at /\ p = Event(n, log, srv.sid)
      /\ \A i \in seq + 1 .. n - 1 : log[i].len > RxMax
      /\ Served(wire', log, srv.sid, srv.at) /\ Ordered(wire', n)
      /\ Complete(wire', log, n, srv.at)
  BY <1>4, TookNumbered
<1>6. /\ seq' = n /\ UNCHANGED <<sid, botId, pend>>
      /\ IF discord_helpers_route_message_create(p)
         THEN queue' = Append(queue, p.m) /\ got' = Append(got, p.m)
         ELSE UNCHANGED <<queue, got>>
  BY DEF discord_handle_payload, discord_handle_dispatch, discord_on_message_create,
         discord_queue_enqueue
<1>7. n # 1 /\ p.m = log[n].m /\ p.kind = log[n].kind
  <2>1. n \in 1 .. Len(log)
    BY <1>2, <1>5
  <2>2. /\ Event(n, log, srv.sid).op = "ready" <=> n = 1
        /\ Event(n, log, srv.sid).op = "create" =>
              Event(n, log, srv.sid).m = log[n].m /\ Event(n, log, srv.sid).kind = log[n].kind
    BY <1>2, <2>1, EventFacts
  <2>3. p.op = "create"
    OBVIOUS
  <2> QED
    BY <1>5, <2>2, <2>3
<1> HIDE DEF p, n
<1>8. n \in 2 .. Len(log) /\ n \in Nat /\ n > seq /\ srv.at \in n .. Len(log)
  BY <1>2, <1>5, <1>7
<1>9. NumbersInv /\ LaterInv /\ HandshakeInv
  BY <1>1 DEF DiscordInv
<1>10. sid # 0 /\ sid = srv.sid /\ botId
  <2>1. ASSUME sid = 0 PROVE FALSE
    <3>1. seq = 0
      BY <1>9, <2>1 DEF HandshakeInv
    <3>2. 1 \in seq + 1 .. n - 1
      BY <1>8, <3>1
    <3>3. log[1].len = 1
      BY <1>2 DEF LogOk
    <3> QED
      BY <1>5, <3>2, <3>3, RxMaxAssumption
  <2> QED
    BY <1>2, <1>9, <2>1 DEF HandshakeInv
<1>11. /\ log[n].kind \in {"dm", "mention", "stranger"} /\ log[n].m \in 1 .. posted
       /\ \A i \in 2 .. Len(log) : i > n => log[n].m < log[i].m
  <2>1. log[n].kind \in {"dm", "mention", "stranger"} /\ log[n].m \in 1 .. posted
    BY <1>2, <1>8 DEF LogOk
  <2>2. ASSUME NEW i \in 2 .. Len(log), i > n PROVE log[n].m < log[i].m
    <3>1. n \in 2 .. i - 1
      BY <1>2, <1>8, <2>2
    <3> QED
      BY <1>2, <3>1 DEF LogOk
  <2> QED
    BY <2>1, <2>2
<1>12. discord_helpers_route_message_create(p) <=> log[n].kind \in {"dm", "mention"}
  BY <1>7, <1>10, <1>11 DEF discord_helpers_route_message_create,
       discord_helpers_user_in_allowlist, discord_helpers_mentions_include_bot
<1>13. log[n].m > LastGot
  <2>1. ~(n <= seq)
    BY <1>2, <1>8
  <2> QED
    BY <1>8, <1>9, <2>1 DEF LaterInv
<1>14. got \in Seq(Nat) /\ posted \in Nat /\ LastGot <= posted
  BY <1>9 DEF NumbersInv
<1>15. \/ /\ log[n].kind \in {"dm", "mention"} /\ LastGot' = log[n].m
          /\ queue' = Append(queue, log[n].m) /\ got' \in Seq(Nat)
          /\ ToSet(got') = ToSet(got) \cup {log[n].m}
       \/ log[n].kind \notin {"dm", "mention"} /\ UNCHANGED <<queue, got>> /\ LastGot' = LastGot
  <2>1. CASE log[n].kind \in {"dm", "mention"}
    <3>1. queue' = Append(queue, log[n].m) /\ got' = Append(got, log[n].m)
      BY <1>6, <1>7, <1>12, <2>1
    <3>2. IsSeq(got) /\ log[n].m \in Nat
      BY <1>11, <1>14, SeqIsSeq
    <3>3. /\ IsSeq(got') /\ Len(got) \in Nat /\ Len(got') = Len(got) + 1
          /\ \A j \in 1 .. Len(got) : got'[j] = got[j]
          /\ got'[Len(got) + 1] = log[n].m /\ got' # <<>> /\ Last(got') = log[n].m
      BY <3>1, <3>2, AppendFacts
    <3>4. LastGot' = log[n].m
      BY <3>3 DEF LastGot
    <3>5. got' \in Seq(Nat)
      BY <1>14, <3>1, <3>2
    <3>6. DOMAIN got = 1 .. Len(got) /\ DOMAIN got' = 1 .. Len(got) + 1
      BY <3>2, <3>3, IsSeqLen
    <3>7. ToSet(got') = ToSet(got) \cup {log[n].m}
      BY <3>3, <3>6 DEF ToSet
    <3> QED
      BY <2>1, <3>1, <3>4, <3>5, <3>7
  <2>2. CASE log[n].kind \notin {"dm", "mention"}
    <3>1. UNCHANGED <<queue, got>>
      BY <1>6, <1>12, <2>2
    <3> QED
      BY <2>2, <3>1 DEF LastGot
  <2> QED
    BY <2>1, <2>2
<1>16. LastGot' <= posted /\ got' \in Seq(Nat)
  BY <1>11, <1>14, <1>15
<1>17. NumbersInv'
  <2>1. n \in 1 .. Len(log)
    BY <1>2, <1>8
  <2> QED
    BY <1>1, <1>6, <1>8, <1>9, <1>16, <2>1 DEF NumbersInv
<1>18. HandshakeInv'
  <2>1. pend = "no" /\ up = <<>>
    BY <1>9 DEF HandshakeInv
  <2>2. up' # <<discord_build_identify>>' /\ up' # <<discord_build_resume>>' /\ n # 0
    BY <1>1, <1>8, <2>1
  <2> QED
    BY <1>1, <1>6, <1>10, <2>1, <2>2 DEF HandshakeInv
<1>19. FrameInv' /\ NoSplice'
  BY DEF Took, FrameInv
<1>20. LiveInv'
  BY <1>1, <1>2, <1>5, <1>6, <1>8 DEF LiveInv
<1>21. LaterInv'
  <2> SUFFICES ASSUME NEW i \in 2 .. Len(log), i > n PROVE log[i].m > LastGot'
    <3>1. \A i \in 2 .. Len(log) : i <= n \/ i > n
      BY <1>2, <1>8
    <3> QED
      BY <1>1, <1>6, <1>10, <3>1 DEF LaterInv
  <2>1. CASE LastGot' = log[n].m
    <3>1. log[n].m < log[i].m
      BY <1>11
    <3> QED
      BY <2>1, <3>1
  <2>2. CASE LastGot' = LastGot
    <3>1. ~(i <= seq)
      BY <1>2, <1>8
    <3> QED
      BY <1>9, <2>2, <3>1 DEF LaterInv
  <2> QED
    BY <1>15, <2>1, <2>2
<1>22. NothingMissed'
  <2> SUFFICES ASSUME NEW i \in 1 .. n, log[i].kind \in {"dm", "mention"},
                      log[i].len <= RxMax
               PROVE  log[i].m \in ToSet(got')
    BY <1>1, <1>6 DEF NothingMissed
  <2>1. CASE i <= seq
    <3>1. i \in 1 .. seq
      BY <1>2, <1>8, <2>1
    <3>2. log[i].m \in ToSet(got)
      BY <1>10, <3>1 DEF DiscordInv, NothingMissed
    <3> QED
      BY <1>15, <3>2
  <2>2. CASE i > seq /\ i < n
    <3>1. i \in seq + 1 .. n - 1
      BY <1>2, <1>8, <2>2
    <3>2. log[i].len > RxMax
      BY <1>5, <3>1
    <3>3. log[i].len \in Nat
      <4>1. CASE i = 1
        BY <1>2, <4>1 DEF LogOk
      <4>2. CASE i # 1
        <5>1. i \in 2 .. Len(log)
          BY <1>2, <1>8, <4>2
        <5> QED
          BY <1>2, <5>1 DEF LogOk
      <4> QED
        BY <4>1, <4>2
    <3> QED
      BY <3>2, <3>3, RxMaxAssumption
  <2>3. CASE i = n
    BY <1>15, <2>3
  <2> QED
    BY <1>2, <1>8, <2>1, <2>2, <2>3
<1>23. \/ UNCHANGED <<queue, got>>
       \/ LastGot' > LastGot /\ queue' = Append(queue, LastGot')
  BY <1>13, <1>15
<1> QED
  BY <1>17, <1>18, <1>19, <1>20, <1>21, <1>22, <1>23 DEF DiscordInv

\* Receive keeps the invariant, and what it puts into the queue is new.
LEMMA ReceiveKeeps ==
    ASSUME DiscordInv, Receive
    PROVE  /\ DiscordInv'
           /\ \/ UNCHANGED <<queue, got>>
              \/ LastGot' > LastGot /\ queue' = Append(queue, LastGot')
<1> USE DEF sessVars, hsVars
<1>1. /\ thread /\ conn = "open" /\ wire # <<>> /\ wire' = Tail(wire)
      /\ UNCHANGED <<conn, thread, up, srv, posted>>
  BY DEF Receive, counts
<1>2. Chained(wire) /\ HeadOk(wire, rx, skip) /\ NoSplice
  BY <1>1 DEF DiscordInv, FrameInv
<1>3. Chained(wire') /\ HeadOk(wire', rx', skip') /\ NoSplice'
  BY <1>2, ReceiveFrames
<1>4. \/ /\ UNCHANGED <<sched, sessVars, hsVars, queue, got>>
         /\ wire[1].final => wire[1].of.len > RxMax
      \/ wire[1].final /\ discord_handle_payload(wire[1].of)
  BY <1>2, ReceiveFrames
<1>5. Took
  BY <1>1, <1>3 DEF Took
<1>6. CASE /\ UNCHANGED <<sched, sessVars, hsVars, queue, got>>
           /\ wire[1].final => wire[1].of.len > RxMax
  BY <1>5, <1>6, TookQuiet
<1>7. CASE wire[1].final /\ discord_handle_payload(wire[1].of)
  <2>1. CASE ~srv.live
    BY <1>5, <1>7, <2>1, TookGreeting
  <2>2. CASE srv.live
    <3>1. CASE wire[1].of.op = "ready"
      BY <1>5, <1>7, <2>2, <3>1, TookReady
    <3>2. CASE wire[1].of.op = "create"
      BY <1>5, <1>7, <2>2, <3>2, TookCreate
    <3>3. CASE ~HasNumber(wire[1])
      <4>1. wire[1].of \in {Resumed, Reconnect}
        <5>1. /\ Served(wire, srv.log, srv.sid, srv.at) /\ IsSeq(wire)
              /\ LogOk(srv.log, posted) /\ Len(srv.log) \in Nat /\ seq \in Nat
              /\ srv.at \in seq .. Len(srv.log)
          BY <1>1, <2>2, LiveFacts
        <5>2. 1 \in 1 .. Len(wire)
          BY <1>1, <5>1, TailFacts
        <5>3. ASSUME NEW i \in 1 .. srv.at, wire[1].of = Event(i, srv.log, srv.sid) PROVE FALSE
          <6>1. i \in 1 .. Len(srv.log)
            BY <5>1
          <6>2. Event(i, srv.log, srv.sid).op \in {"ready", "create"}
            BY <5>1, <6>1, EventFacts
          <6> QED
            BY <3>3, <5>3, <6>2 DEF HasNumber
        <5> QED
          BY <5>1, <5>2, <5>3 DEF Served
      <4>2. UNCHANGED <<sid, seq, botId, pend, queue, got>>
        <5>1. CASE wire[1].of = Resumed
          <6>1. wire[1].of.op = "resumed"
            BY <5>1 DEF Resumed
          <6> QED
            BY <1>7, <6>1 DEF discord_handle_payload, discord_handle_dispatch
        <5>2. CASE wire[1].of = Reconnect
          <6>1. wire[1].of.op = "reconnect"
            BY <5>2 DEF Reconnect
          <6> QED
            BY <1>7, <6>1 DEF discord_handle_payload
        <5> QED
          BY <4>1, <5>1, <5>2
      <4> QED
        BY <1>5, <3>3, <4>2, TookQuiet
    <3> QED
      BY <3>1, <3>2, <3>3 DEF HasNumber
  <2> QED
    BY <2>1, <2>2
<1> QED
  BY <1>4, <1>6, <1>7

-----------------------------------------------------------------------------
(* The theorems about discord. *)

\* Every step keeps the invariant.
LEMMA DiscordInvNext == DiscordInv /\ [Next]_vars => DiscordInv'
<1> SUFFICES ASSUME DiscordInv, [Next]_vars PROVE DiscordInv'
  OBVIOUS
<1>1. CASE \/ StartConnect \/ StartFails \/ AskHeartbeat \/ ThreadExits
           \/ discord_poll \/ CleanupBegin \/ UNCHANGED vars
  BY <1>1, QuietSteps
<1>2. CASE Post \/ GatewaySends \/ GatewayIdentifies \/ GatewayResumes \/ GatewayResumed
  BY <1>2, DiscordPostKeeps, SendsKeeps, IdentifiesKeeps, ResumesKeeps, ControlKeeps
<1>3. CASE GatewayRefuses \/ GatewayReconnects \/ GatewayForgets
  BY <1>3, RefusesKeeps, ControlKeeps, ForgetsKeeps
<1>4. CASE Established \/ ConnectionFails \/ ConnectionClosed
  BY <1>4, EstablishedKeeps, GoneKeeps
<1>5. CASE Receive \/ Writeable \/ CleanupEnd
  BY <1>5, ReceiveKeeps, WriteableKeeps, CleanupKeeps
<1> QED
  BY <1>1, <1>2, <1>3, <1>4, <1>5 DEF Next

\* The inductive invariant of the discord session: what the gateway keeps, the
\* handshake, the fragments on the wire and in rx_buf, what a live connection
\* still has to bring, and the order of the queue hold together.
THEOREM DiscordInvariance == Spec => []DiscordInv
BY DiscordInvInit, DiscordInvNext, PTL DEF Spec

\* discord_handle_payload is never given a payload put together from two, for
\* messages of any length and any size of rx_buf.
THEOREM PayloadsWhole == Spec => []NoSplice
BY DiscordInvariance, PTL DEF DiscordInv

\* No message of the session that fits and is routed is passed over, through
\* any number of lost connections, resumes and new sessions.
THEOREM MessagesKept == Spec => []NothingMissed
BY DiscordInvariance, PTL DEF DiscordInv

\* Every step is a step of Inbox or leaves it as it is: a routed message is
\* accepted with a number above the last one, the main loop takes the head, and
\* discord_cleanup closes.
LEMMA InboxStep == DiscordInv /\ [Next]_vars => [Numbered!Next]_(Numbered!vars)
<1> SUFFICES ASSUME DiscordInv, [Next]_vars PROVE [Numbered!Next]_(Numbered!vars)
  OBVIOUS
<1> USE DEF connVars, sessVars, hsVars, rxVars, mainVars, netVars, counts
<1>1. CASE UNCHANGED <<queue, got>>
  BY <1>1 DEF Numbered!vars
<1>2. CASE LastGot' > LastGot /\ queue' = Append(queue, LastGot')
  <2>1. Numbered!Accept
    BY <1>2 DEF Numbered!Accept, LastGot
  <2> QED
    BY <2>1 DEF Numbered!Next
<1>3. CASE discord_poll
  <2>1. Numbered!Take
    BY <1>3 DEF discord_poll, Numbered!Take
  <2> QED
    BY <2>1 DEF Numbered!Next
<1>4. CASE CleanupBegin
  <2>1. Numbered!Close
    BY <1>4 DEF CleanupBegin, Numbered!Close
  <2> QED
    BY <2>1 DEF Numbered!Next
<1>5. CASE Receive
  BY <1>1, <1>2, <1>5, ReceiveKeeps
<1>6. CASE Post \/ GatewaySends \/ GatewayIdentifies \/ GatewayResumes \/ GatewayResumed
  BY <1>1, <1>6 DEF Post, GatewaySends, GatewayIdentifies, GatewayResumes, GatewayResumed
<1>7. CASE GatewayRefuses \/ GatewayReconnects \/ GatewayForgets \/ UNCHANGED vars
  BY <1>1, <1>7 DEF GatewayRefuses, GatewayReconnects, GatewayForgets, vars
<1>8. CASE Established \/ ConnectionFails \/ ConnectionClosed \/ Writeable
  BY <1>1, <1>8 DEF Established, ConnectionFails, ConnectionClosed, Writeable
<1>9. CASE StartConnect \/ StartFails \/ AskHeartbeat \/ ThreadExits \/ CleanupEnd
  BY <1>1, <1>9 DEF StartConnect, StartFails, AskHeartbeat, ThreadExits, CleanupEnd
<1> QED
  BY <1>3, <1>4, <1>5, <1>6, <1>7, <1>8, <1>9 DEF Next

\* The channel implements Inbox: the main loop gets each message at most once
\* and in the order of posting, whatever is replayed after a RESUME.
THEOREM ImplementsInbox == Spec => InboxKept
<1>1. Init => Numbered!Init
  BY DEF Init, Numbered!Init
<1>2. DiscordInv /\ [Next]_vars => [Numbered!Next]_(Numbered!vars)
  BY InboxStep
<1> QED
  BY <1>1, <1>2, DiscordInvariance, PTL DEF Spec, InboxKept, Numbered!Spec


-----------------------------------------------------------------------------
(* Replies in pieces: ChunkedSend. *)

\* What a text is made of.
Bytes == {"lead", "cont"}

\* The part of ReplyWhole about one piece.
PieceRight(i) ==
    /\ pieces[i][1] = (IF i = 1 THEN 1 ELSE pieces[i - 1][2] + 1)
    /\ pieces[i][2] - pieces[i][1] \in 0 .. MaxBytes - 1
    /\ Readable /\ pieces[i][2] < Len(text) => text[pieces[i][2] + 1] = "lead"

\* Types of what moves.
SendTypes ==
    /\ text \in Seq(Bytes)
    /\ pc \in {"idle", "post", "done"}
    /\ cursor \in Nat /\ index \in Nat /\ attempt \in Nat
    /\ pieces \in Seq(Nat \X Nat)

\* Where the pieces end, and the cursor with them.
CursorInv ==
    /\ pc = "idle" => /\ pieces = <<>> /\ cursor = 0 /\ index = 0 /\ attempt = 0
                      /\ fail = NoFail
    /\ pc = "post" => cursor < Len(text) /\ index = Len(pieces) /\ Through = cursor
    /\ \A i \in 1 .. Len(pieces) : PieceRight(i)

\* What is said when the send is over.
EndInv ==
    /\ pc = "done" /\ returned = 0 => Through = Len(text)
    /\ pc = "done" /\ returned = -1 /\ text # <<>> =>
          \/ Through = fail.offset /\ Len(pieces) = fail.index
          \/ /\ pieces # <<>> /\ fail.offset = pieces[Len(pieces)][1] - 1
             /\ Len(pieces) = fail.index + 1

\* A wait is not cut below what was asked for.
WaitInv ==
    /\ platform \in {"discord", "telegram"}
    /\ platform = "discord" => attempt \in 0 .. Attempts
    /\ wait.slept >= Least(wait.asked, WaitCap)

SendInv == SendTypes /\ CursorInv /\ EndInv /\ WaitInv

\* Nothing is sent at first.
LEMMA SendInvInit == SendInit => SendInv
<1> SUFFICES ASSUME SendInit PROVE SendInv
  OBVIOUS
<1>1. SendTypes
  BY DEF SendInit, SendTypes
<1>2. CursorInv
  BY DEF SendInit, CursorInv
<1>3. EndInv
  BY DEF SendInit, EndInv
<1>4. WaitInv
  BY WaitsAssumption DEF SendInit, WaitInv, Least
<1> QED
  BY <1>1, <1>2, <1>3, <1>4 DEF SendInv

\* In a text whose characters fit a message there is a boundary to cut at.
LEMMA BoundaryExists ==
    ASSUME SendTypes, Readable, Len(text) - cursor > MaxBytes
    PROVE  Boundary(MaxBytes) # {}
<1>1. text \in Seq(Bytes) /\ cursor \in Nat /\ Len(text) \in Nat /\ MaxBytes \in Nat \ {0}
  BY PiecesAssumption DEF SendTypes
<1>2. PICK j \in cursor + 2 .. cursor + 2 + MaxBytes - 1 : text[j] = "lead"
  <2>1. cursor + 2 \in 1 .. Len(text) - MaxBytes + 1
    BY <1>1
  <2> QED
    BY <2>1 DEF Readable
<1> DEFINE Back == {b \in 0 .. MaxBytes - 1 : text[cursor + (MaxBytes - b) + 1] = "lead"}
<1>3. cursor + MaxBytes + 1 - j \in Back
  <2>1. cursor + MaxBytes + 1 - j \in 0 .. MaxBytes - 1
    BY <1>1
  <2>2. cursor + (MaxBytes - (cursor + MaxBytes + 1 - j)) + 1 = j
    BY <1>1
  <2> QED
    BY <1>2, <2>1, <2>2
<1>4. PICK b \in Back : \A c \in Back : b <= c
  <2>1. Back # {}
    BY <1>3, Zenon
  <2>2. \A c \in Back : c \in Nat
    BY <1>1
  <2> HIDE DEF Back
  <2> QED
    BY <2>1, <2>2, LeastOfNaturals
<1> PICK k : k = MaxBytes - b
  OBVIOUS
<1>5. k \in 1 .. MaxBytes /\ text[cursor + k + 1] = "lead"
  BY <1>1, <1>4
<1>6. ASSUME NEW i \in k + 1 .. MaxBytes PROVE text[cursor + i + 1] = "cont"
  <2>1. MaxBytes - i \in 0 .. MaxBytes - 1 /\ MaxBytes - i < b
    BY <1>1, <1>4, <1>5
  <2>2. ASSUME MaxBytes - i \in Back PROVE FALSE
    <3>1. b <= MaxBytes - i
      BY <1>4, <2>2, Zenon
    <3>2. b \in Int
      BY <1>1, <1>4
    <3> QED
      BY <1>1, <2>1, <3>1, <3>2
  <2>3. cursor + (MaxBytes - (MaxBytes - i)) + 1 = cursor + i + 1
    BY <1>1, <1>5
  <2>4. text[cursor + i + 1] # "lead"
    BY <2>1, <2>2, <2>3
  <2>5. cursor + i + 1 \in 1 .. Len(text)
    BY <1>1, <1>5
  <2> QED
    BY <1>1, <2>4, <2>5 DEF Bytes
<1> QED
  BY <1>5, <1>6 DEF Boundary

\* A piece is not empty, not too long, and ends at a character.
LEMMA ChunkRight ==
    ASSUME SendTypes, cursor < Len(text)
    PROVE  /\ channel_outbound_chunk_len \in 1 .. MaxBytes
           /\ cursor + channel_outbound_chunk_len <= Len(text)
           /\ Readable /\ cursor + channel_outbound_chunk_len < Len(text) =>
                 text[cursor + channel_outbound_chunk_len + 1] = "lead"
<1>1. text \in Seq(Bytes) /\ cursor \in Nat /\ Len(text) \in Nat /\ MaxBytes \in Nat \ {0}
  BY PiecesAssumption DEF SendTypes
<1>2. CASE Len(text) - cursor <= MaxBytes
  BY <1>1, <1>2 DEF channel_outbound_chunk_len
<1>3. CASE Len(text) - cursor > MaxBytes /\ Boundary(MaxBytes) # {}
  <2>1. channel_outbound_chunk_len \in Boundary(MaxBytes)
    BY <1>1, <1>3 DEF channel_outbound_chunk_len
  <2>2. /\ channel_outbound_chunk_len \in 1 .. MaxBytes
        /\ text[cursor + channel_outbound_chunk_len + 1] = "lead"
    BY <2>1 DEF Boundary
  <2> QED
    BY <1>1, <1>3, <2>2
<1>4. CASE Len(text) - cursor > MaxBytes /\ Boundary(MaxBytes) = {}
  <2>1. ~Readable
    BY <1>4, BoundaryExists
  <2>2. channel_outbound_chunk_len = MaxBytes
    BY <1>1, <1>4 DEF channel_outbound_chunk_len
  <2> QED
    BY <1>1, <1>4, <2>1, <2>2
<1> QED
  BY <1>1, <1>2, <1>3, <1>4

\* The piece at the cursor continues what was taken.
LEMMA PieceContinues ==
    ASSUME SendInv, pc = "post", UNCHANGED text, pieces' = Append(pieces, piece)
    PROVE  /\ pieces' \in Seq(Nat \X Nat) /\ Len(pieces') = Len(pieces) + 1
           /\ pieces'[Len(pieces')] = piece
           /\ Through' = cursor + channel_outbound_chunk_len
           /\ \A i \in 1 .. Len(pieces') : PieceRight(i)'
<1> DEFINE n == channel_outbound_chunk_len
<1>1. /\ n \in 1 .. MaxBytes /\ cursor + n <= Len(text)
      /\ Readable /\ cursor + n < Len(text) => text[cursor + n + 1] = "lead"
  BY ChunkRight DEF SendInv, CursorInv
<1>2. /\ cursor \in Nat /\ MaxBytes \in Nat /\ n \in Nat /\ pieces \in Seq(Nat \X Nat)
      /\ Len(pieces) \in Nat /\ Through = cursor
  BY <1>1, PiecesAssumption DEF SendInv, SendTypes, CursorInv
<1>3. piece = <<cursor + 1, cursor + n>> /\ piece \in Nat \X Nat
  BY <1>2 DEF piece
<1> HIDE DEF n
<1>4. /\ pieces' \in Seq(Nat \X Nat) /\ Len(pieces') = Len(pieces) + 1
      /\ pieces'[Len(pieces) + 1] = piece
      /\ \A i \in 1 .. Len(pieces) : pieces'[i] = pieces[i]
  BY <1>2, <1>3
<1>5. Through' = cursor + n
  <2>1. pieces' # <<>>
    BY <1>2, <1>4
  <2> QED
    BY <1>3, <1>4, <2>1 DEF Through
<1>6. Readable' <=> Readable
  BY DEF Readable
<1>7. ASSUME NEW i \in 1 .. Len(pieces') PROVE PieceRight(i)'
  <2>1. CASE i \in 1 .. Len(pieces)
    <3>1. PieceRight(i)
      BY <2>1 DEF SendInv, CursorInv
    <3>2. pieces'[i] = pieces[i] /\ (i # 1 => pieces'[i - 1] = pieces[i - 1])
      <4>1. i # 1 => i - 1 \in 1 .. Len(pieces)
        BY <1>2, <2>1
      <4> QED
        BY <1>4, <2>1, <4>1
    <3> QED
      BY <1>6, <3>1, <3>2 DEF PieceRight
  <2>2. CASE i = Len(pieces) + 1
    <3>1. pieces'[i] = <<cursor + 1, cursor + n>>
      BY <1>3, <1>4, <2>2
    <3>2. cursor + 1 = IF i = 1 THEN 1 ELSE pieces'[i - 1][2] + 1
      <4>1. CASE i = 1
        BY <1>2, <2>2, <4>1 DEF Through
      <4>2. CASE i # 1
        <5>1. i - 1 = Len(pieces) /\ Len(pieces) \in 1 .. Len(pieces) /\ pieces # <<>>
          BY <1>2, <2>2, <4>2
        <5>2. pieces'[i - 1][2] = Through
          BY <1>4, <5>1 DEF Through
        <5> QED
          BY <1>2, <4>2, <5>2
      <4> QED
        BY <4>1, <4>2
    <3>3. (cursor + n) - (cursor + 1) \in 0 .. MaxBytes - 1
      BY <1>1, <1>2
    <3>4. pieces'[i][1] = cursor + 1 /\ pieces'[i][2] = cursor + n
      BY <3>1
    <3> QED
      BY <1>1, <1>6, <3>2, <3>3, <3>4 DEF PieceRight, n
  <2> QED
    BY <1>2, <1>4, <2>1, <2>2
<1> QED
  BY <1>3, <1>4, <1>5, <1>7 DEF n

\* A piece was taken and the answer came.
LEMMA PostedKeeps == SendInv /\ Posted => SendInv'
<1> SUFFICES ASSUME SendInv, Posted PROVE SendInv'
  OBVIOUS
<1> DEFINE n == channel_outbound_chunk_len
<1>1. /\ pc = "post" /\ pieces' = Append(pieces, piece) /\ cursor' = cursor + n
      /\ index' = index + 1 /\ attempt' = 0 /\ UNCHANGED <<platform, text, fail, wait>>
      /\ IF cursor' = Len(text) THEN pc' = "done" /\ returned' = 0
         ELSE UNCHANGED <<pc, returned>>
  BY DEF Posted
<1>2. n \in 1 .. MaxBytes /\ cursor + n <= Len(text) /\ MaxBytes \in Nat
  BY <1>1, ChunkRight, PiecesAssumption DEF SendInv, CursorInv
<1>3. /\ pieces' \in Seq(Nat \X Nat) /\ Len(pieces') = Len(pieces) + 1
      /\ Through' = cursor + n
      /\ \A i \in 1 .. Len(pieces') : PieceRight(i)'
  BY <1>1, PieceContinues
<1> HIDE DEF n
<1>4. /\ cursor \in Nat /\ index = Len(pieces) /\ index \in Nat /\ Len(text) \in Nat
  BY <1>1 DEF SendInv, SendTypes, CursorInv
<1>5. SendTypes'
  BY <1>1, <1>2, <1>3, <1>4 DEF SendInv, SendTypes
<1>6. CursorInv'
  BY <1>1, <1>2, <1>3, <1>4 DEF CursorInv
<1>7. EndInv'
  BY <1>1, <1>2, <1>3, <1>4 DEF EndInv
<1>8. WaitInv'
  BY <1>1, WaitsAssumption DEF SendInv, WaitInv
<1> QED
  BY <1>5, <1>6, <1>7, <1>8 DEF SendInv

\* The send ends with an error, where the cursor is; the piece may have been taken.
LEMMA StopKeeps ==
    ASSUME SendInv, pc = "post", Stop, UNCHANGED <<platform, text, wait>>,
           UNCHANGED pieces \/ pieces' = Append(pieces, piece)
    PROVE  SendInv'
<1>1. /\ pc' = "done" /\ returned' = -1 /\ UNCHANGED <<cursor, index, attempt>>
      /\ fail'.index = index /\ fail'.offset = cursor
  BY DEF Stop
<1>2. /\ cursor \in Nat /\ index = Len(pieces) /\ Through = cursor
      /\ pieces \in Seq(Nat \X Nat) /\ Len(pieces) \in Nat
  BY DEF SendInv, SendTypes, CursorInv
<1>3. WaitInv'
  BY <1>1 DEF SendInv, WaitInv
<1>4. CASE UNCHANGED pieces
  <2>1. SendTypes' /\ CursorInv'
    BY <1>1, <1>4 DEF SendInv, SendTypes, CursorInv, PieceRight, Readable
  <2>2. EndInv'
    BY <1>1, <1>2, <1>4 DEF EndInv, Through
  <2> QED
    BY <1>3, <2>1, <2>2 DEF SendInv
<1>5. CASE pieces' = Append(pieces, piece)
  <2>1. /\ pieces' \in Seq(Nat \X Nat) /\ Len(pieces') = Len(pieces) + 1
        /\ pieces'[Len(pieces')] = piece
        /\ \A i \in 1 .. Len(pieces') : PieceRight(i)'
    BY <1>5, PieceContinues
  <2>2. SendTypes' /\ CursorInv'
    BY <1>1, <2>1 DEF SendInv, SendTypes, CursorInv
  <2>3. EndInv'
    <3>1. piece[1] = cursor + 1
      BY DEF piece
    <3>2. pieces' # <<>> /\ pieces'[Len(pieces')][1] - 1 = cursor
      BY <1>2, <2>1, <3>1
    <3> QED
      BY <1>1, <1>2, <2>1, <3>2 DEF EndInv
  <2> QED
    BY <1>3, <2>2, <2>3 DEF SendInv
<1> QED
  BY <1>4, <1>5

\* The wait before another attempt is as long as was asked for, up to the cap.
LEMMA SleptEnough ==
    ASSUME SendInv, NEW a \in Asked
    PROVE  Slept(a) >= Least(a, WaitCap)
<1>1. a \in Nat /\ WaitCap \in Nat /\ LeastWait \in Nat
  BY WaitsAssumption
<1>2. CASE platform = "discord"
  <2> PICK d : d = 2 ^ attempt * BaseWait
    OBVIOUS
  <2>1. d \in Nat
    BY <1>2, BackoffAssumption DEF SendInv, WaitInv
  <2>2. Slept(a) = Least(WaitCap, Greatest(LeastWait, IF a > 0 THEN a ELSE d))
    BY <1>2 DEF Slept, discord_helpers_send_backoff_ms
  <2> QED
    BY <1>1, <2>1, <2>2 DEF Least, Greatest
<1>3. CASE platform # "discord"
  BY <1>1, <1>3 DEF Slept, telegram_retry_after_sec, Least
<1> QED
  BY <1>2, <1>3

\* Another attempt, or the last one refused.
LEMMA TooManyKeeps == ASSUME SendInv, NEW a \in Asked, TooMany(a) PROVE SendInv'
<1>1. pc = "post" /\ UNCHANGED <<platform, text, pieces>>
  BY DEF TooMany
<1>2. CASE MayRetry
  <2>1. /\ attempt' = attempt + 1 /\ UNCHANGED <<pc, cursor, index, returned, fail>>
        /\ wait'.asked = a /\ wait'.slept = Slept(a)
    BY <1>2 DEF TooMany
  <2>2. attempt \in Nat
    BY DEF SendInv, SendTypes
  <2>3. SendTypes' /\ CursorInv' /\ EndInv'
    BY <1>1, <2>1, <2>2 DEF SendInv, SendTypes, CursorInv, EndInv, PieceRight, Readable, Through
  <2>4. WaitInv'
    <3>1. platform = "discord" => attempt + 1 \in 0 .. Attempts
      BY <1>2, <2>2, WaitsAssumption DEF MayRetry
    <3> QED
      BY <1>1, <2>1, <3>1, SleptEnough DEF SendInv, WaitInv, Least
  <2> QED
    BY <2>3, <2>4 DEF SendInv
<1>3. CASE ~MayRetry
  BY <1>1, <1>3, StopKeeps DEF TooMany
<1> QED
  BY <1>2, <1>3

\* Every step keeps the invariant.
LEMMA SendInvNext == SendInv /\ [SendNext]_sendVars => SendInv'
<1> SUFFICES ASSUME SendInv, [SendNext]_sendVars PROVE SendInv'
  OBVIOUS
<1>1. ASSUME NEW k \in {"discord", "telegram"}, NEW t \in Texts, SendReply(k, t)
      PROVE  SendInv'
  <2>1. /\ pc = "idle" /\ platform' = k /\ text' = t
        /\ UNCHANGED <<cursor, index, attempt, fail, wait, pieces>>
        /\ (pc' = "post" /\ t # <<>>) \/ (pc' = "done" /\ returned' = -1)
    BY <1>1 DEF SendReply
  <2>2. t \in Seq(Bytes)
    BY DEF Texts, Bytes
  <2>3. /\ pieces = <<>> /\ cursor = 0 /\ index = 0 /\ attempt = 0 /\ fail = NoFail
    BY <2>1 DEF SendInv, CursorInv
  <2>4. SendTypes'
    BY <2>1, <2>2 DEF SendInv, SendTypes
  <2>5. CursorInv'
    BY <2>1, <2>2, <2>3 DEF CursorInv, Through
  <2>6. EndInv'
    BY <2>1, <2>3 DEF EndInv, Through, NoFail
  <2>7. WaitInv'
    BY <2>1, <2>3, WaitsAssumption DEF SendInv, WaitInv
  <2> QED
    BY <2>4, <2>5, <2>6, <2>7 DEF SendInv
<1>2. CASE Posted
  BY <1>2, PostedKeeps
<1>3. CASE AnswerLost
  BY <1>3, StopKeeps DEF AnswerLost
<1>4. CASE Rejected
  BY <1>4, StopKeeps DEF Rejected
<1>5. ASSUME NEW a \in Asked, TooMany(a) PROVE SendInv'
  BY <1>5, TooManyKeeps
<1>6. CASE UNCHANGED sendVars
  BY <1>6 DEF sendVars, SendInv, SendTypes, CursorInv, EndInv, WaitInv, PieceRight, Readable,
     Through
<1> QED
  BY <1>1, <1>2, <1>3, <1>4, <1>5, <1>6 DEF SendNext

\* For any texts, lengths of a message, attempts and waits, what the recipient has
\* is the beginning of the reply, cut at characters, all of it on success and up to
\* the place that is logged on an error (channel_common.c:34-101,
\* discord.c:883-936, telegram.c:355-395).
THEOREM RepliesWhole == SendSpec => []ReplyWhole
<1>1. SendInv => ReplyWhole
  <2> SUFFICES ASSUME SendInv PROVE ReplyWhole
    OBVIOUS
  <2>1. DOMAIN pieces = 1 .. Len(pieces)
    BY DEF SendInv, SendTypes
  <2>2. \A i \in DOMAIN pieces : PieceRight(i)
    BY <2>1 DEF SendInv, CursorInv
  <2> QED
    BY <2>2 DEF SendInv, EndInv, WaitInv, ReplyWhole, PieceRight
<1> QED
  BY SendInvInit, SendInvNext, <1>1, PTL DEF SendSpec
=============================================================================
