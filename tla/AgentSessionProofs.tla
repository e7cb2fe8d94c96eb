------------------------ MODULE AgentSessionProofs ------------------------
(***************************************************************************)
(* RequestAlternates, NothingForgotten and OnlyWholeExchanges of           *)
(* AgentSession, for every length of the context, of the messages and of   *)
(* the buffers.  What is proved of a transcript does not depend on how the *)
(* length of its JSON is counted: JsonLen is never expanded.               *)
(***************************************************************************)
EXTENDS AgentSession, SequenceTheorems, TLAPS

Messages == [role : {"user", "assistant"}, len : Nat, covers : SUBSET Int]

Running == {"scan", "summarize", "chat"}

TypeInv ==
    /\ stored \in Seq(Messages) /\ buf \in Seq(Messages)
    /\ skip \in BOOLEAN /\ misread \in BOOLEAN
    /\ userLen \in Nat /\ turns \in Nat /\ cut \in Nat
    /\ pc \in {"idle", "load"} \cup Running

\* A transcript that another exchange can follow: the roles alternate and the
\* last word is the assistant's.
Followable(s) == Alternates(s) /\ (Len(s) > 0 => s[Len(s)].role = "assistant")

ShapeInv == Followable(stored) /\ Followable(buf)

\* Only what is longer than the context is summarized, something of it, and
\* nothing that is to be kept.
ScanInv ==
    /\ pc \in {"scan", "summarize"} =>
          Len(buf) > MaxCtx /\ MaxCtx >= 2 /\ cut <= to_summarize_n
    /\ pc = "summarize" => cut >= 1

\* A run that read the row has it in its transcript, and one that did not does
\* not write.
CoverInv ==
    pc \in Running =>
        misread \/ skip \/ (saved \subseteq Covered(buf) /\ ~(JsonLen(stored) >= JsonMax))

SessionInv == TypeInv /\ ShapeInv /\ ScanInv /\ CoverInv /\ NothingForgotten

-----------------------------------------------------------------------------
(* Sequences. *)

\* A message has its parts.
LEMMA MessageIs ==
    ASSUME NEW role \in {"user", "assistant"}, NEW len \in Nat, NEW covers \in SUBSET Int
    PROVE  /\ Message(role, len, covers) \in Messages
           /\ Message(role, len, covers).role = role
           /\ Message(role, len, covers).covers = covers
  BY DEF Message, Messages

LEMMA PartsOf ==
    ASSUME NEW m \in Messages
    PROVE  m.role \in {"user", "assistant"} /\ m.len \in Nat /\ m.covers \in SUBSET Int
  BY DEF Messages

\* What is left of a sequence behind its first c + 1 elements.
LEMMA RestIs ==
    ASSUME NEW S, NEW s \in Seq(S), NEW c \in Nat, c < Len(s)
    PROVE  /\ SubSeq(s, c + 2, Len(s)) \in Seq(S)
           /\ Len(SubSeq(s, c + 2, Len(s))) = Len(s) - c - 1
           /\ \A i \in 1 .. Len(s) - c - 1 : SubSeq(s, c + 2, Len(s))[i] = s[c + 1 + i]
<1>1. Len(s) \in Nat /\ \A i \in 1 .. Len(s) : s[i] \in S
  OBVIOUS
<1>2. c + 2 \in 1 .. Len(s) + 1
  BY <1>1
<1> QED
  BY <1>1, <1>2, SubSeqProperties

\* A sequence of one or of two in front of another one.
LEMMA FrontOne ==
    ASSUME NEW S, NEW t \in Seq(S), NEW a \in S
    PROVE  /\ <<a>> \o t \in Seq(S)
           /\ Len(<<a>> \o t) = Len(t) + 1
           /\ (<<a>> \o t)[1] = a
           /\ \A i \in 1 .. Len(t) : (<<a>> \o t)[i + 1] = t[i]
<1>1. <<a>> \in Seq(S) /\ Len(<<a>>) = 1 /\ <<a>>[1] = a
  OBVIOUS
<1> QED
  BY <1>1, ConcatProperties

LEMMA FrontTwo ==
    ASSUME NEW S, NEW t \in Seq(S), NEW a \in S, NEW b \in S
    PROVE  /\ <<a, b>> \o t \in Seq(S)
           /\ Len(<<a, b>> \o t) = Len(t) + 2
           /\ (<<a, b>> \o t)[1] = a /\ (<<a, b>> \o t)[2] = b
           /\ \A i \in 1 .. Len(t) : (<<a, b>> \o t)[i + 2] = t[i]
<1>1. <<a, b>> \in Seq(S) /\ Len(<<a, b>>) = 2 /\ <<a, b>>[1] = a /\ <<a, b>>[2] = b
  OBVIOUS
<1> QED
  BY <1>1, ConcatProperties

\* Two elements behind a sequence.
LEMMA BackTwo ==
    ASSUME NEW S, NEW t \in Seq(S), NEW a \in S, NEW b \in S
    PROVE  /\ t \o <<a, b>> \in Seq(S)
           /\ Len(t \o <<a, b>>) = Len(t) + 2
           /\ (t \o <<a, b>>)[Len(t) + 1] = a /\ (t \o <<a, b>>)[Len(t) + 2] = b
           /\ \A i \in 1 .. Len(t) : (t \o <<a, b>>)[i] = t[i]
<1>1. <<a, b>> \in Seq(S) /\ Len(<<a, b>>) = 2 /\ <<a, b>>[1] = a /\ <<a, b>>[2] = b
  OBVIOUS
<1> QED
  BY <1>1, ConcatProperties

\* What a transcript covers, message by message.
LEMMA CoveredIs ==
    ASSUME NEW s, NEW x
    PROVE  x \in Covered(s) <=> \E i \in 1 .. Len(s) : x \in s[i].covers
  BY DEF Covered

-----------------------------------------------------------------------------
(* Compaction. *)

\* The transcript is compacted behind the lines that the summary has read.
LEMMA StartIsCut ==
    ASSUME TypeInv, ScanInv, pc = "summarize"
    PROVE  /\ start = cut /\ cut \in Nat /\ cut >= 1 /\ cut < Len(buf)
           /\ Len(buf) \in Nat
           /\ ~Merged => cut >= 2
<1>1. Len(buf) \in Nat /\ cut \in Nat /\ MaxCtx \in Nat
  BY ContextAssumption DEF TypeInv
<1>2. Len(buf) > MaxCtx /\ MaxCtx >= 2 /\ cut <= Len(buf) - MaxCtx + 1 /\ cut >= 1
  BY DEF ScanInv, to_summarize_n
<1>3. start = cut
  BY <1>1, <1>2 DEF start, to_summarize_n
<1>4. ~Merged => cut >= 2
  <2>1. CASE cut = 1
    <3>1. cut < to_summarize_n
      BY <1>1, <1>2, <2>1 DEF to_summarize_n
    <3> QED
      BY <2>1, <3>1 DEF Merged
  <2> QED
    BY <1>1, <1>2, <2>1
<1> QED
  BY <1>1, <1>2, <1>3, <1>4

\* The compacted transcript, element by element: a first message that covers what
\* was summarized, and the rest of the transcript as it was.
LEMMA CompactedIs ==
    ASSUME TypeInv, ScanInv, pc = "summarize", NEW len \in Nat
    PROVE  LET s == Compacted(len)
               k == IF Merged THEN cut ELSE cut - 1
           IN  /\ s \in Seq(Messages)
               /\ k \in Nat /\ k >= 1 /\ k < Len(buf) /\ Len(s) = Len(buf) - k
               /\ \A i \in 2 .. Len(s) : s[i] = buf[k + i]
               /\ s[1].role = (IF Merged THEN buf[k + 1].role ELSE "user")
               /\ Summarized \subseteq s[1].covers
               /\ Merged => buf[k + 1].covers \subseteq s[1].covers
<1> DEFINE first == buf[cut + 1]
           rest == SubSeq(buf, cut + 2, Len(buf))
           folded == Message(first.role, len + first.len, Summarized \cup first.covers)
           alone == Message("user", len, Summarized)
<1>1. /\ start = cut /\ cut \in Nat /\ cut >= 1 /\ cut < Len(buf) /\ Len(buf) \in Nat
      /\ ~Merged => cut >= 2
  BY StartIsCut
<1>2. buf \in Seq(Messages)
  BY DEF TypeInv
<1>3. first \in Messages /\ \A i \in 1 .. Len(buf) : buf[i] \in Messages
  BY <1>1, <1>2
<1>4. Summarized \in SUBSET Int
  <2>1. \A i \in 1 .. cut : buf[i].covers \in SUBSET Int
    BY <1>1, <1>3, PartsOf
  <2> QED
    BY <2>1 DEF Summarized
<1>5. /\ folded \in Messages /\ folded.role = first.role
      /\ folded.covers = Summarized \cup first.covers
  <2>1. first.role \in {"user", "assistant"} /\ first.len \in Nat /\ first.covers \in SUBSET Int
    BY <1>3, PartsOf
  <2> HIDE DEF first
  <2>2. len + first.len \in Nat
    BY <2>1
  <2>3. Summarized \cup first.covers \in SUBSET Int
    BY <1>4, <2>1
  <2> QED
    BY <2>1, <2>2, <2>3, MessageIs
<1>6. alone \in Messages /\ alone.role = "user" /\ alone.covers = Summarized
  BY <1>4, MessageIs
<1>7. /\ rest \in Seq(Messages) /\ Len(rest) = Len(buf) - cut - 1
      /\ \A i \in 1 .. Len(buf) - cut - 1 : rest[i] = buf[cut + 1 + i]
  BY <1>1, <1>2, RestIs
<1>8. Compacted(len) = IF Merged THEN <<folded>> \o rest ELSE <<alone, first>> \o rest
  BY <1>1 DEF Compacted
<1> HIDE DEF folded, alone, rest, first
<1>9. CASE Merged
  <2> DEFINE s == <<folded>> \o rest
  <2>1. /\ s \in Seq(Messages) /\ Len(s) = Len(rest) + 1 /\ s[1] = folded
        /\ \A i \in 1 .. Len(rest) : s[i + 1] = rest[i]
    BY <1>5, <1>7, FrontOne
  <2> HIDE DEF s
  <2>2. Len(s) = Len(buf) - cut
    BY <1>1, <1>7, <2>1
  <2>3. ASSUME NEW i \in 2 .. Len(s) PROVE s[i] = buf[cut + i]
    <3>1. i - 1 \in 1 .. Len(rest) /\ i - 1 \in 1 .. Len(buf) - cut - 1
      BY <1>1, <1>7, <2>2
    <3>2. s[(i - 1) + 1] = rest[i - 1] /\ rest[i - 1] = buf[cut + 1 + (i - 1)]
      BY <1>7, <2>1, <3>1
    <3> QED
      BY <1>1, <3>2
  <2>4. s[1].role = buf[cut + 1].role /\ s[1].covers = Summarized \cup buf[cut + 1].covers
    BY <1>5, <2>1 DEF first
  <2>5. Compacted(len) = s
    BY <1>8, <1>9 DEF s
  <2> QED
    BY <1>1, <1>9, <2>1, <2>2, <2>3, <2>4, <2>5
<1>10. CASE ~Merged
  <2> DEFINE s == <<alone, first>> \o rest
             k == cut - 1
  <2>1. /\ s \in Seq(Messages) /\ Len(s) = Len(rest) + 2 /\ s[1] = alone /\ s[2] = first
        /\ \A i \in 1 .. Len(rest) : s[i + 2] = rest[i]
    BY <1>3, <1>6, <1>7, FrontTwo
  <2> HIDE DEF s
  <2>2. k \in Nat /\ k >= 1 /\ k < Len(buf) /\ Len(s) = Len(buf) - k /\ cut = k + 1
    BY <1>1, <1>7, <1>10, <2>1
  <2>3. ASSUME NEW i \in 2 .. Len(s) PROVE s[i] = buf[k + i]
    <3>1. CASE i = 2
      BY <1>1, <2>1, <2>2, <3>1 DEF first
    <3>2. CASE i # 2
      <4>1. i - 2 \in 1 .. Len(rest) /\ i - 2 \in 1 .. Len(buf) - cut - 1
        BY <1>1, <1>7, <2>1, <3>2
      <4>2. s[(i - 2) + 2] = rest[i - 2] /\ rest[i - 2] = buf[cut + 1 + (i - 2)]
        BY <1>7, <2>1, <4>1
      <4> QED
        BY <1>1, <4>2
    <3> QED
      BY <3>1, <3>2
  <2>4. s[1].role = "user" /\ s[1].covers = Summarized
    BY <1>6, <2>1
  <2>5. Compacted(len) = s
    BY <1>8, <1>10 DEF s
  <2> QED
    BY <1>1, <1>10, <2>1, <2>2, <2>3, <2>4, <2>5
<1> QED
  BY <1>9, <1>10

\* Compaction keeps a transcript followable, shorter and with all it told.
LEMMA CompactedKeeps ==
    ASSUME SessionInv, pc = "summarize", NEW len \in Nat
    PROVE  /\ Compacted(len) \in Seq(Messages)
           /\ Followable(Compacted(len))
           /\ Covered(buf) \subseteq Covered(Compacted(len))
           /\ Len(Compacted(len)) < Len(buf)
<1> DEFINE s == Compacted(len)
           k == IF Merged THEN cut ELSE cut - 1
<1>1. /\ s \in Seq(Messages)
      /\ k \in Nat /\ k >= 1 /\ k < Len(buf) /\ Len(s) = Len(buf) - k
      /\ \A i \in 2 .. Len(s) : s[i] = buf[k + i]
      /\ s[1].role = (IF Merged THEN buf[k + 1].role ELSE "user")
      /\ Summarized \subseteq s[1].covers
      /\ Merged => buf[k + 1].covers \subseteq s[1].covers
  BY CompactedIs DEF SessionInv
<1>2. /\ start = cut /\ cut \in Nat /\ cut >= 1 /\ cut < Len(buf) /\ Len(buf) \in Nat
  BY StartIsCut DEF SessionInv
<1>3. /\ \A i \in 1 .. (Len(buf) - 1) : buf[i].role # buf[i + 1].role
      /\ buf[Len(buf)].role = "assistant"
  BY <1>2 DEF SessionInv, ShapeInv, Followable, Alternates
<1>4. k = IF Merged THEN cut ELSE cut - 1
  OBVIOUS
<1>5. ~Merged => buf[cut + 1].role # "user"
  BY <1>2 DEF Merged
<1> HIDE DEF s, k
<1>6. Len(s) \in Nat /\ Len(s) >= 1 /\ Len(s) < Len(buf)
  BY <1>1, <1>2
<1>7. Alternates(s)
  <2> SUFFICES ASSUME NEW i \in 1 .. (Len(s) - 1) PROVE s[i].role # s[i + 1].role
    BY DEF Alternates
  <2>1. i + 1 \in 2 .. Len(s) /\ s[i + 1] = buf[k + (i + 1)]
    BY <1>1, <1>6
  <2>2. k + i \in 1 .. (Len(buf) - 1) /\ k + (i + 1) = (k + i) + 1
    BY <1>1, <1>2, <1>6
  <2>3. buf[k + i].role # buf[k + (i + 1)].role
    BY <1>3, <2>2
  <2>4. CASE i # 1
    <3>1. s[i] = buf[k + i]
      BY <1>1, <1>6, <2>4
    <3> QED
      BY <2>1, <2>3, <3>1
  <2>5. CASE i = 1 /\ Merged
    BY <1>1, <2>1, <2>3, <2>5
  <2>6. CASE i = 1 /\ ~Merged
    <3>1. k + (i + 1) = cut + 1
      BY <1>2, <1>4, <2>6
    <3> QED
      BY <1>1, <1>5, <2>1, <2>6, <3>1
  <2> QED
    BY <2>4, <2>5, <2>6
<1>8. s[Len(s)].role = "assistant"
  <2>1. CASE Len(s) # 1
    <3>1. s[Len(s)] = buf[k + Len(s)] /\ k + Len(s) = Len(buf)
      BY <1>1, <1>2, <1>6, <2>1
    <3> QED
      BY <1>3, <3>1
  <2>2. CASE Len(s) = 1
    <3>1. k + 1 = Len(buf)
      <4>1. k \in Nat /\ Len(buf) - k = 1
        BY <1>1, <2>2
      <4>2. Len(buf) \in Nat
        BY <1>2
      <4> QED
        BY <4>1, <4>2
    <3>2. Merged
      BY <1>2, <1>4, <3>1
    <3> QED
      BY <1>1, <1>3, <2>2, <3>1, <3>2
  <2> QED
    BY <2>1, <2>2
<1>9. ASSUME NEW x, x \in Covered(buf) PROVE x \in Covered(s)
  <2>1. PICK i \in 1 .. Len(buf) : x \in buf[i].covers
    BY <1>9, CoveredIs
  <2>2. CASE i <= cut
    <3>1. x \in Summarized
      BY <1>2, <2>1, <2>2 DEF Summarized
    <3>2. x \in s[1].covers /\ 1 \in 1 .. Len(s)
      BY <1>1, <1>6, <3>1
    <3> QED
      BY <3>2, CoveredIs
  <2>3. CASE i > cut /\ i > k + 1
    <3>1. i - k \in 2 .. Len(s) /\ k + (i - k) = i
      BY <1>1, <1>2, <2>3
    <3>2. s[i - k] = buf[i] /\ i - k \in 1 .. Len(s)
      BY <1>1, <1>6, <3>1
    <3> QED
      BY <2>1, <3>2, CoveredIs
  <2>4. CASE i > cut /\ ~(i > k + 1)
    <3>1. Merged /\ i = k + 1
      BY <1>1, <1>2, <1>4, <2>4
    <3>2. x \in s[1].covers /\ 1 \in 1 .. Len(s)
      BY <1>1, <1>6, <2>1, <3>1
    <3> QED
      BY <3>2, CoveredIs
  <2> QED
    BY <1>2, <2>2, <2>3, <2>4
<1>10. Covered(buf) \subseteq Covered(s)
  BY <1>9
<1>11. Followable(s)
  BY <1>7, <1>8 DEF Followable
<1> QED
  BY <1>1, <1>6, <1>10, <1>11 DEF s

\* An exchange behind a followable transcript.
LEMMA ExchangeKeeps ==
    ASSUME SessionInv, NEW len \in Nat
    PROVE  /\ Exchange(len) \in Seq(Messages)
           /\ Followable(Exchange(len))
           /\ Covered(buf) \cup {2 * turns - 1, 2 * turns} \subseteq Covered(Exchange(len))
<1> DEFINE u == Message("user", userLen, {2 * turns - 1})
           a == Message("assistant", len, {2 * turns})
           s == buf \o <<u, a>>
<1>1. turns \in Nat /\ userLen \in Nat /\ buf \in Seq(Messages)
  BY DEF SessionInv, TypeInv
<1>2. {2 * turns - 1} \in SUBSET Int /\ {2 * turns} \in SUBSET Int
  BY <1>1
<1>3. u \in Messages /\ u.role = "user" /\ u.covers = {2 * turns - 1}
  BY <1>1, <1>2, MessageIs
<1>4. a \in Messages /\ a.role = "assistant" /\ a.covers = {2 * turns}
  BY <1>1, <1>2, MessageIs
<1>5. s = Exchange(len)
  BY DEF Exchange
<1> HIDE DEF u, a
<1>6. /\ s \in Seq(Messages) /\ Len(s) = Len(buf) + 2
      /\ s[Len(buf) + 1] = u /\ s[Len(buf) + 2] = a
      /\ \A i \in 1 .. Len(buf) : s[i] = buf[i]
  BY <1>1, <1>3, <1>4, BackTwo
<1>7. Len(buf) \in Nat
  BY <1>1
<1> HIDE DEF s
<1>8. /\ \A i \in 1 .. (Len(buf) - 1) : buf[i].role # buf[i + 1].role
      /\ Len(buf) > 0 => buf[Len(buf)].role = "assistant"
  BY DEF SessionInv, ShapeInv, Followable, Alternates
<1>9. Alternates(s)
  <2> SUFFICES ASSUME NEW i \in 1 .. (Len(s) - 1) PROVE s[i].role # s[i + 1].role
    BY DEF Alternates
  <2>1. CASE i < Len(buf)
    <3>1. i \in 1 .. Len(buf) /\ i + 1 \in 1 .. Len(buf) /\ i \in 1 .. (Len(buf) - 1)
      BY <1>7, <2>1
    <3> QED
      BY <1>6, <1>8, <3>1
  <2>2. CASE i = Len(buf)
    <3>1. i \in 1 .. Len(buf) /\ Len(buf) > 0
      BY <1>7, <2>2
    <3> QED
      BY <1>3, <1>6, <1>8, <2>2, <3>1
  <2>3. CASE i = Len(buf) + 1
    <3>1. i + 1 = Len(buf) + 2
      BY <1>7, <2>3
    <3> QED
      BY <1>3, <1>4, <1>6, <2>3, <3>1
  <2> QED
    BY <1>6, <1>7, <2>1, <2>2, <2>3
<1>10. Followable(s)
  BY <1>4, <1>6, <1>9 DEF Followable
<1>11. ASSUME NEW x \in Covered(buf) PROVE x \in Covered(s)
  <2>1. PICK i \in 1 .. Len(buf) : x \in buf[i].covers
    BY CoveredIs
  <2>2. i \in 1 .. Len(s) /\ s[i] = buf[i]
    BY <1>6, <1>7
  <2> QED
    BY <2>1, <2>2, CoveredIs
<1>12. 2 * turns - 1 \in Covered(s)
  <2>1. Len(buf) + 1 \in 1 .. Len(s) /\ 2 * turns - 1 \in s[Len(buf) + 1].covers
    BY <1>3, <1>6, <1>7
  <2> QED
    BY <2>1, CoveredIs
<1>13. 2 * turns \in Covered(s)
  <2>1. Len(buf) + 2 \in 1 .. Len(s) /\ 2 * turns \in s[Len(buf) + 2].covers
    BY <1>4, <1>6, <1>7
  <2> QED
    BY <2>1, CoveredIs
<1> QED
  BY <1>5, <1>6, <1>10, <1>11, <1>12, <1>13

\* The request: the last messages of a followable transcript and a user turn.
LEMMA RequestFollows == SessionInv /\ pc = "chat" => Alternates(Request)
<1> SUFFICES ASSUME SessionInv PROVE Alternates(Request)
  OBVIOUS
<1> DEFINE k == IF Len(buf) > MaxCtx THEN Len(buf) - MaxCtx ELSE 0
           w == SubSeq(buf, k + 1, Len(buf))
           u == Message("user", userLen, {2 * turns - 1})
           r == Append(w, u)
<1>1. buf \in Seq(Messages) /\ Len(buf) \in Nat /\ MaxCtx \in Nat /\ MaxCtx >= 1
  BY ContextAssumption DEF SessionInv, TypeInv
<1>2. k \in Nat /\ k <= Len(buf) /\ (Len(buf) > 0 => k < Len(buf))
  BY <1>1
<1>3. u.role = "user"
  BY DEF Message
<1>4. r = Request
  BY DEF Request, Window
<1> HIDE DEF k, u
<1>5. /\ w \in Seq(Messages) /\ Len(w) = Len(buf) - k
      /\ \A i \in 1 .. Len(buf) - k : w[i] = buf[k + i]
  <2>1. \A i \in 1 .. Len(buf) : buf[i] \in Messages
    BY <1>1
  <2>2. k + 1 \in 1 .. Len(buf) + 1
    BY <1>1, <1>2
  <2> QED
    BY <1>1, <1>2, <2>1, <2>2, SubSeqProperties
<1> HIDE DEF w
<1>6. /\ Len(r) = Len(w) + 1 /\ r[Len(w) + 1] = u
      /\ \A i \in 1 .. Len(w) : r[i] = w[i]
  BY <1>5, AppendProperties
<1> HIDE DEF r
<1>7. /\ \A i \in 1 .. (Len(buf) - 1) : buf[i].role # buf[i + 1].role
      /\ Len(buf) > 0 => buf[Len(buf)].role = "assistant"
  BY DEF SessionInv, ShapeInv, Followable, Alternates
<1>8. Alternates(r)
  <2> SUFFICES ASSUME NEW i \in 1 .. (Len(r) - 1) PROVE r[i].role # r[i + 1].role
    BY DEF Alternates
  <2>1. i \in 1 .. Len(w) /\ r[i] = buf[k + i] /\ k + i \in 1 .. Len(buf)
    BY <1>1, <1>2, <1>5, <1>6
  <2>2. CASE i < Len(w)
    <3>1. /\ i + 1 \in 1 .. Len(w) /\ k + (i + 1) = (k + i) + 1
          /\ k + i \in 1 .. (Len(buf) - 1)
      BY <1>1, <1>2, <1>5, <2>1, <2>2
    <3>2. r[i + 1] = buf[(k + i) + 1]
      BY <1>5, <1>6, <3>1
    <3> QED
      BY <1>7, <2>1, <3>1, <3>2
  <2>3. CASE i = Len(w)
    <3>1. k + i = Len(buf) /\ Len(buf) > 0
      BY <1>1, <1>2, <1>5, <2>1, <2>3
    <3> QED
      BY <1>3, <1>6, <1>7, <2>1, <2>3, <3>1
  <2> QED
    <3>1. Len(w) \in Nat
      BY <1>5
    <3> QED
      BY <2>1, <2>2, <2>3, <3>1
<1> QED
  BY <1>4, <1>8

-----------------------------------------------------------------------------
(* The steps. *)

\* The empty transcript and the row of an older version are followable.
LEMMA RowsFollowable ==
    ASSUME NEW s \in {<<>>, LegacyRow}
    PROVE  s \in Seq(Messages) /\ Followable(s)
<1>1. <<>> \in Seq(Messages) /\ Len(<<>>) = 0
  OBVIOUS
<1>2. Followable(<<>>)
  BY <1>1 DEF Followable, Alternates
<1> DEFINE u == Message("user", JsonMax, {})
           a == Message("assistant", 1, {})
<1>3. u \in Messages /\ u.role = "user"
  BY CapsAssumption, MessageIs
<1>4. a \in Messages /\ a.role = "assistant"
  BY MessageIs
<1>5. LegacyRow = <<u, a>>
  BY DEF LegacyRow
<1> HIDE DEF u, a
<1>6. <<u, a>> \in Seq(Messages) /\ Len(<<u, a>>) = 2 /\ <<u, a>>[1] = u /\ <<u, a>>[2] = a
  BY <1>3, <1>4
<1>7. Followable(LegacyRow)
  BY <1>3, <1>4, <1>5, <1>6 DEF Followable, Alternates
<1> QED
  BY <1>1, <1>2, <1>5, <1>6, <1>7

\* SessionInv holds at first, when nothing was stored yet.
LEMMA SessionInvInit == Init => SessionInv
<1> SUFFICES ASSUME Init PROVE SessionInv
  OBVIOUS
<1>1. stored \in {<<>>, LegacyRow} /\ buf \in {<<>>, LegacyRow}
  BY DEF Init, NoRow
<1>2. /\ stored \in Seq(Messages) /\ Followable(stored)
      /\ buf \in Seq(Messages) /\ Followable(buf)
  BY <1>1, RowsFollowable
<1>3. /\ pc = "idle" /\ skip = FALSE /\ misread = FALSE /\ userLen = 0 /\ turns = 0
      /\ cut = 0 /\ saved = {}
  BY DEF Init
<1>4. TypeInv
  BY <1>2, <1>3 DEF TypeInv
<1>5. ScanInv /\ CoverInv /\ NothingForgotten
  BY <1>3 DEF ScanInv, CoverInv, NothingForgotten, Running
<1> QED
  BY <1>2, <1>4, <1>5 DEF SessionInv, ShapeInv

\* The empty transcript, where a run ends.
LEMMA EndOfRun ==
    ASSUME SessionInv, buf' = <<>>, pc' = "idle",
           UNCHANGED <<skip, userLen, cut, turns, misread>>,
           stored' \in Seq(Messages), Followable(stored'), NothingForgotten'
    PROVE  SessionInv'
<1>1. <<>> \in {<<>>, LegacyRow}
  OBVIOUS
<1>2. buf' \in Seq(Messages) /\ Followable(buf')
  BY <1>1, RowsFollowable
<1>3. TypeInv'
  BY <1>2 DEF SessionInv, TypeInv
<1>4. ShapeInv'
  BY <1>2 DEF ShapeInv, Followable, Alternates
<1>5. ScanInv' /\ CoverInv'
  BY DEF ScanInv, CoverInv, Running
<1> QED
  BY <1>3, <1>4, <1>5 DEF SessionInv

\* The steps that touch neither row nor transcript.
LEMMA QuietKeeps ==
    ASSUME SessionInv, UNCHANGED <<stored, buf, skip, hist>>,
           TypeInv', ScanInv', pc' \in Running => pc \in Running
    PROVE  SessionInv'
<1>1. ShapeInv'
  BY DEF SessionInv, ShapeInv, Followable, Alternates
<1>2. NothingForgotten'
  BY DEF SessionInv, NothingForgotten, Covered, hist
<1>3. CoverInv'
  <2>1. JsonLen(stored)' = JsonLen(stored) /\ Covered(buf)' = Covered(buf)
    BY DEF JsonLen, Covered
  <2> QED
    BY <2>1 DEF SessionInv, CoverInv, hist
<1> QED
  BY <1>1, <1>2, <1>3 DEF SessionInv

\* A run begins.
LEMMA BeginKeeps == ASSUME SessionInv, NEW len \in UserLens, Begin(len) PROVE SessionInv'
<1>1. len \in Nat
  BY LensAssumption
<1>2. TypeInv'
  BY <1>1 DEF SessionInv, TypeInv, Begin, hist
<1>3. ScanInv'
  BY DEF Begin, ScanInv
<1> QED
  BY <1>2, <1>3, QuietKeeps DEF Begin, Running

\* The row is loaded, with everything it tells, or left alone.
LEMMA LoadKeeps == ASSUME SessionInv, session_load PROVE SessionInv'
<1>1. /\ skip' = TooLarge(stored)
      /\ buf' = IF JsonLen(stored) >= JsonMax THEN <<>> ELSE stored
      /\ cut' = 0 /\ pc' = AfterLoad(buf')
      /\ UNCHANGED <<stored, userLen, turns, saved, misread>>
  BY DEF session_load, hist
<1>2. stored \in Seq(Messages) /\ Followable(stored) /\ buf' \in {<<>>, stored}
  BY <1>1 DEF SessionInv, TypeInv, ShapeInv
<1>3. buf' \in Seq(Messages) /\ Followable(buf')
  BY <1>2, RowsFollowable
<1>4. skip' \in BOOLEAN
  BY <1>1 DEF TooLarge
<1>5. pc' \in Running /\ (pc' # "chat" => pc' = "scan" /\ Len(buf') > MaxCtx /\ MaxCtx >= 2)
  BY <1>1 DEF AfterLoad, Running
<1>6. TypeInv'
  BY <1>1, <1>2, <1>3, <1>4, <1>5 DEF SessionInv, TypeInv
<1>7. ScanInv'
  <2>1. Len(buf') \in Nat /\ MaxCtx \in Nat
    BY <1>3, ContextAssumption
  <2> QED
    BY <1>1, <1>5, <2>1 DEF ScanInv, to_summarize_n
<1>8. ShapeInv'
  BY <1>1, <1>2, <1>3 DEF ShapeInv, Followable, Alternates
<1>9. NothingForgotten'
  BY <1>1 DEF SessionInv, NothingForgotten, Covered
<1>10. CoverInv'
  <2>1. CASE JsonLen(stored) >= JsonMax
    BY <1>1, <2>1 DEF CoverInv, TooLarge
  <2>2. CASE ~(JsonLen(stored) >= JsonMax)
    <3>1. buf' = stored
      BY <1>1, <2>2
    <3>2. Covered(buf)' = Covered(stored) /\ JsonLen(stored)' = JsonLen(stored)
      BY <1>1, <3>1, ZenonT(30) DEF Covered, JsonLen
    <3>3. misread \/ saved \subseteq Covered(stored)
      BY DEF SessionInv, NothingForgotten
    <3> QED
      BY <1>1, <2>2, <3>2, <3>3 DEF CoverInv
  <2> QED
    BY <2>1, <2>2
<1> QED
  BY <1>6, <1>7, <1>8, <1>9, <1>10 DEF SessionInv

\* A read that failed is remembered as such.
LEMMA LoadErrorKeeps == ASSUME SessionInv, LoadError PROVE SessionInv'
<1>1. /\ misread' = TRUE /\ skip' = FALSE /\ buf' = <<>> /\ pc' = "chat"
      /\ UNCHANGED <<stored, userLen, cut, turns, saved>>
  BY DEF LoadError
<1>2. <<>> \in {<<>>, LegacyRow}
  OBVIOUS
<1>3. buf' \in Seq(Messages) /\ Followable(buf')
  BY <1>1, <1>2, RowsFollowable
<1>4. TypeInv'
  BY <1>1, <1>3 DEF SessionInv, TypeInv, Running
<1>5. ShapeInv'
  BY <1>1, <1>3 DEF SessionInv, ShapeInv, Followable, Alternates
<1>6. ScanInv' /\ CoverInv' /\ NothingForgotten'
  BY <1>1 DEF ScanInv, CoverInv, NothingForgotten
<1> QED
  BY <1>4, <1>5, <1>6 DEF SessionInv

\* The summary source takes the lines up to the kept tail.
LEMMA ScanKeeps == ASSUME SessionInv, ScanLine \/ ScanStop PROVE SessionInv'
<1>1. /\ UNCHANGED <<stored, buf, skip, userLen, turns, saved, misread>> /\ pc = "scan"
      /\ cut \in Nat /\ Len(buf) \in Nat /\ MaxCtx \in Nat
  BY ContextAssumption DEF ScanLine, ScanStop, hist, SessionInv, TypeInv
<1>2. Len(buf) > MaxCtx /\ MaxCtx >= 2 /\ cut <= Len(buf) - MaxCtx + 1
  BY <1>1 DEF SessionInv, ScanInv, to_summarize_n
<1>3. CASE ScanLine
  <2>1. cut' = cut + 1 /\ pc' = "scan" /\ cut < Len(buf) - MaxCtx + 1
    BY <1>1, <1>3 DEF ScanLine, to_summarize_n
  <2>2. TypeInv'
    BY <1>1, <2>1 DEF SessionInv, TypeInv
  <2>3. ScanInv'
    BY <1>1, <1>2, <2>1 DEF ScanInv, to_summarize_n
  <2> QED
    BY <1>1, <2>1, <2>2, <2>3, QuietKeeps DEF Running, hist
<1>4. CASE ScanStop
  <2>1. cut' = cut /\ pc' = IF cut = 0 THEN "chat" ELSE "summarize"
    BY <1>4 DEF ScanStop
  <2>2. pc' \in {"chat", "summarize"}
    BY <2>1
  <2>3. TypeInv'
    BY <1>1, <2>1, <2>2 DEF SessionInv, TypeInv, Running
  <2>4. ScanInv'
    BY <1>1, <1>2, <2>1 DEF ScanInv, to_summarize_n
  <2> QED
    BY <1>1, <2>3, <2>4, QuietKeeps DEF Running, hist
<1> QED
  BY <1>3, <1>4

\* The compacted transcript tells what the transcript told.
LEMMA CompactKeeps ==
    ASSUME SessionInv, NEW len \in SummaryLens, compact_session_via_llm(len)
    PROVE  SessionInv'
<1>1. /\ pc = "summarize" /\ pc' = "chat" /\ buf' \in {buf, Compacted(len)}
      /\ UNCHANGED <<stored, skip, userLen, cut, turns, saved, misread>>
  BY DEF compact_session_via_llm, SavedByCompaction, hist
<1>2. len \in Nat
  BY LensAssumption
<1>3. /\ Compacted(len) \in Seq(Messages) /\ Followable(Compacted(len))
      /\ Covered(buf) \subseteq Covered(Compacted(len))
  BY <1>1, <1>2, CompactedKeeps
<1>4. /\ buf' \in Seq(Messages) /\ Followable(buf')
      /\ Covered(buf) \subseteq Covered(buf')
  BY <1>1, <1>3 DEF SessionInv, TypeInv, ShapeInv
<1>5. TypeInv'
  BY <1>1, <1>4 DEF SessionInv, TypeInv, Running
<1>6. ShapeInv'
  BY <1>1, <1>4 DEF SessionInv, ShapeInv, Followable, Alternates
<1>7. ScanInv'
  BY <1>1 DEF ScanInv
<1>8. NothingForgotten'
  BY <1>1 DEF SessionInv, NothingForgotten, Covered
<1>9. CoverInv'
  <2>1. misread \/ skip \/ (saved \subseteq Covered(buf) /\ ~(JsonLen(stored) >= JsonMax))
    BY <1>1 DEF SessionInv, CoverInv, Running
  <2>2. Covered(buf)' = Covered(buf') /\ JsonLen(stored)' = JsonLen(stored)
    BY <1>1 DEF Covered, JsonLen
  <2> QED
    BY <1>1, <1>4, <2>1, <2>2 DEF CoverInv
<1> QED
  BY <1>5, <1>6, <1>7, <1>8, <1>9 DEF SessionInv

\* The run goes on with the transcript it has.
LEMMA GoOnKeeps == ASSUME SessionInv, CompactionFails \/ ToolRound PROVE SessionInv'
<1>1. /\ UNCHANGED <<stored, buf, skip, userLen, cut, turns, hist>>
      /\ pc \in Running /\ pc' = "chat"
  BY DEF CompactionFails, ToolRound, Running
<1>2. TypeInv'
  BY <1>1 DEF SessionInv, TypeInv, hist, Running
<1>3. ScanInv'
  BY <1>1 DEF ScanInv
<1> QED
  BY <1>1, <1>2, <1>3, QuietKeeps

\* A run ends without storing anything.
LEMMA EndKeeps == ASSUME SessionInv, ChatFails \/ SaveFails \/ Crash PROVE SessionInv'
<1>1. /\ UNCHANGED <<stored, skip, userLen, cut, turns, saved, misread>>
      /\ buf' = <<>> /\ pc' = "idle"
  BY DEF ChatFails, SaveFails, Crash, hist
<1>2. stored' \in Seq(Messages) /\ Followable(stored') /\ NothingForgotten'
  BY <1>1 DEF SessionInv, TypeInv, ShapeInv, NothingForgotten, Covered, Followable, Alternates
<1> QED
  BY <1>1, <1>2, EndOfRun

\* A whole exchange is stored behind a transcript that tells all that was saved.
LEMMA AnswerKeeps == ASSUME SessionInv, NEW len \in AnswerLens, Answer(len) PROVE SessionInv'
<1>1. /\ UNCHANGED <<skip, userLen, cut, turns, misread>>
      /\ pc = "chat" /\ buf' = <<>> /\ pc' = "idle"
  BY DEF Answer
<1>2. len \in Nat
  BY LensAssumption
<1>3. CASE UNCHANGED <<stored, saved>>
  <2>1. stored' \in Seq(Messages) /\ Followable(stored') /\ NothingForgotten'
    BY <1>1, <1>3 DEF SessionInv, TypeInv, ShapeInv, NothingForgotten, Covered, Followable,
                      Alternates
  <2> QED
    BY <1>1, <2>1, EndOfRun
<1>4. CASE ~skip /\ stored' = Exchange(len) /\ saved' = saved \cup {2 * turns - 1, 2 * turns}
  <2>1. /\ Exchange(len) \in Seq(Messages) /\ Followable(Exchange(len))
        /\ Covered(buf) \cup {2 * turns - 1, 2 * turns} \subseteq Covered(Exchange(len))
    BY <1>1, <1>2, ExchangeKeeps DEF SessionInv, TypeInv
  <2>2. misread \/ saved \subseteq Covered(buf)
    BY <1>1, <1>4 DEF SessionInv, CoverInv, Running
  <2>3. misread \/ saved' \subseteq Covered(stored')
    BY <1>4, <2>1, <2>2
  <2>4. NothingForgotten'
    BY <1>1, <2>3 DEF NothingForgotten, Covered
  <2>5. stored' \in Seq(Messages) /\ Followable(stored')
    BY <1>4, <2>1
  <2> QED
    BY <1>1, <2>4, <2>5, EndOfRun
<1> QED
  BY <1>3, <1>4 DEF Answer

\* After a reset there is nothing to be forgotten.
LEMMA DeleteKeeps == ASSUME SessionInv, session_delete PROVE SessionInv'
<1>1. /\ UNCHANGED <<buf, skip, pc, userLen, cut, turns>>
      /\ pc = "idle" /\ stored' = <<>> /\ saved' = {} /\ misread' = FALSE
  BY DEF session_delete, NoRow
<1>2. <<>> \in {<<>>, LegacyRow}
  OBVIOUS
<1>3. stored' \in Seq(Messages) /\ Followable(stored')
  BY <1>1, <1>2, RowsFollowable
<1>4. TypeInv'
  BY <1>1, <1>3 DEF SessionInv, TypeInv
<1>5. ShapeInv'
  BY <1>1, <1>3 DEF SessionInv, ShapeInv, Followable, Alternates
<1>6. ScanInv' /\ CoverInv' /\ NothingForgotten'
  BY <1>1 DEF ScanInv, CoverInv, NothingForgotten, Running
<1> QED
  BY <1>4, <1>5, <1>6 DEF SessionInv

\* Every step keeps the invariant.
LEMMA SessionInvNext == SessionInv /\ [Next]_vars => SessionInv'
<1>1. ASSUME SessionInv, UNCHANGED vars PROVE SessionInv'
  <2>1. UNCHANGED <<stored, buf, skip, pc, userLen, cut, turns, saved, misread>>
    BY <1>1 DEF vars
  <2>2. TypeInv'
    BY <1>1, <2>1 DEF SessionInv, TypeInv
  <2>3. ScanInv'
    BY <1>1, <2>1 DEF SessionInv, ScanInv, to_summarize_n
  <2> QED
    BY <1>1, <2>1, <2>2, <2>3, QuietKeeps DEF hist
<1> QED
  BY <1>1, BeginKeeps, LoadKeeps, LoadErrorKeeps, ScanKeeps, CompactKeeps, GoOnKeeps,
     EndKeeps, AnswerKeeps, DeleteKeeps DEF Next, Quiet

\* The provider never gets two turns of the same role in a row, whatever was
\* summarized, folded into a kept turn or cut by the window (agent.c:300-420).
THEOREM RequestsAlternate == Spec => []RequestAlternates
<1>1. SessionInv => RequestAlternates
  BY RequestFollows DEF RequestAlternates
<1> QED
  BY SessionInvInit, SessionInvNext, <1>1, PTL DEF Spec

\* An exchange that was stored stays in the row, verbatim or in a summary, until
\* the session is reset, unless SQLite fails to read the row.
THEOREM ExchangesRemembered == Spec => []NothingForgotten
<1>1. SessionInv => NothingForgotten
  BY DEF SessionInv
<1> QED
  BY SessionInvInit, SessionInvNext, <1>1, PTL DEF Spec

\* The row changes by a reset or by a whole exchange behind what was loaded, and
\* a compaction makes the transcript shorter.
THEOREM WholeExchanges == Spec => OnlyWholeExchanges
<1> DEFINE A == /\ stored' # stored =>
                      \/ stored' = NoRow
                      \/ /\ pc = "chat" /\ {2 * turns - 1, 2 * turns} \subseteq saved'
                         /\ ~(JsonLen(stored) >= JsonMax) \/ misread
                /\ pc = "summarize" /\ buf' # buf => Len(buf') < Len(buf) \/ buf' = <<>>
<1>1. SessionInv /\ [Next]_vars => [A]_vars
  <2> SUFFICES ASSUME SessionInv, Next PROVE A
    OBVIOUS
  <2>1. ASSUME NEW len \in AnswerLens, Answer(len) PROVE A
    <3>1. pc = "chat" /\ buf' = <<>>
      BY <2>1 DEF Answer
    <3>2. CASE UNCHANGED <<stored, saved>>
      BY <3>1, <3>2
    <3>3. CASE ~skip /\ saved' = saved \cup {2 * turns - 1, 2 * turns}
      <4>1. ~(JsonLen(stored) >= JsonMax) \/ misread
        BY <3>1, <3>3 DEF SessionInv, CoverInv, Running
      <4> QED
        BY <3>1, <3>3, <4>1
    <3> QED
      BY <2>1, <3>2, <3>3 DEF Answer
  <2>2. ASSUME NEW len \in SummaryLens, compact_session_via_llm(len) PROVE A
    <3>1. pc = "summarize" /\ buf' \in {buf, Compacted(len)} /\ stored' = stored
      BY <2>2 DEF compact_session_via_llm, SavedByCompaction
    <3>2. Len(Compacted(len)) < Len(buf)
      BY <3>1, CompactedKeeps, LensAssumption
    <3> QED
      BY <3>1, <3>2
  <2>3. ASSUME session_delete PROVE A
    BY <2>3 DEF session_delete
  <2>4. ASSUME NEW len \in UserLens, Begin(len) PROVE A
    BY <2>4 DEF Begin
  <2>5. ASSUME \/ session_load \/ LoadError \/ ScanLine \/ ScanStop \/ CompactionFails
               \/ ToolRound \/ ChatFails \/ SaveFails \/ Crash \/ Quiet
        PROVE  A
    BY <2>5 DEF session_load, LoadError, ScanLine, ScanStop, CompactionFails, ToolRound,
                ChatFails, SaveFails, Crash, Quiet, vars
  <2> QED
    BY <2>1, <2>2, <2>3, <2>4, <2>5 DEF Next
<1> QED
  BY SessionInvInit, SessionInvNext, <1>1, PTL DEF Spec, OnlyWholeExchanges
=============================================================================
