--------------------------- MODULE GatewayProofs ---------------------------
(***************************************************************************)
(* The gateway: OneWholeDispatch of HttpExchange, for requests of any      *)
(* length, buffers of any size and any number of fragments; TokensKept and *)
(* ThrottleHolds of GatewayAccess, for any number of tokens, addresses and *)
(* crashes and any caps, tables and windows; and OwnSession of AsapPeers,  *)
(* for any daemons, outsiders and number of requests.                      *)
(***************************************************************************)
EXTENDS HttpExchange, GatewayAccess, AsapPeers, SequenceTheorems, TLAPS

-----------------------------------------------------------------------------
(* Requests: HttpExchange. *)

\* The values of http_conn_t.
Conns ==
    [kind : {"route", "static"}, hasBody : BOOLEAN, dyn : BOOLEAN, cap : Nat, len : Nat,
     tooLarge : BOOLEAN, answer : Int, sent : Int]

\* Until the body is dispatched, what was kept and what is to come is the body,
\* unless something of it was dropped; a body is then marked.
BodyInv ==
    /\ req \in Requests \cup {NoReq}
    /\ conn \in Conns \cup {NoConn}
    /\ toCome \in Nat
    /\ conn # NoConn => req # NoReq
    /\ conn # NoConn /\ conn.hasBody =>
          /\ conn.kind = "route" /\ HasBody(req)
          /\ calls = <<>>
          /\ conn.len <= conn.cap
          /\ conn.tooLarge \/ conn.len + toCome = req.len

HttpInv == BodyInv /\ OneWholeDispatch

\* What the updates of a connection leave of it.
LEMMA AnswerReady ==
    ASSUME NEW c \in Conns, NEW n \in Int
    PROVE  /\ [c EXCEPT !.hasBody = FALSE, !.answer = n] \in Conns
           /\ [c EXCEPT !.hasBody = FALSE, !.answer = n].hasBody = FALSE
           /\ [c EXCEPT !.kind = "static", !.answer = n] \in Conns
           /\ [c EXCEPT !.kind = "static", !.answer = n].hasBody = c.hasBody
<1>1. FALSE \in BOOLEAN /\ "static" \in {"route", "static"}
  OBVIOUS
<1> QED
  BY <1>1 DEF Conns

\* What a fragment acts of it.
LEMMA PieceKept ==
    ASSUME NEW c \in Conns, NEW l \in Nat, NEW b \in BOOLEAN,
           NEW d, d = [c EXCEPT !.len = l, !.tooLarge = b]
    PROVE  /\ d \in Conns
           /\ d.kind = c.kind /\ d.hasBody = c.hasBody /\ d.cap = c.cap
           /\ d.len = l /\ d.tooLarge = b
  BY DEF Conns

\* HttpInv holds of a new connection.
LEMMA HttpInvInit == HttpInit => HttpInv
  BY DEF HttpInit, HttpInv, BodyInv, OneWholeDispatch

\* The headers of a request: only one that has no body, or one that is too long,
\* is dispatched at once.
LEMMA OnHttpKeeps ==
    ASSUME HttpInv, NEW r \in Requests, OnHttp(r)
    PROVE  HttpInv'
<1> DEFINE body == asap_http_body_init_from_request(r)
           c == [kind |-> "route", hasBody |-> HasBody(r), dyn |-> body.dyn, cap |-> body.cap,
                 len |-> 0, tooLarge |-> HasBody(r) /\ asap_http_body_exceeds_static_cap(body, r),
                 answer |-> 0, sent |-> 0]
<1>1. /\ req' = r /\ r # NoReq /\ ~TooLong(r)
      /\ toCome' = IF HasBody(r) THEN r.len ELSE 0
      /\ r.len \in Nat /\ r.cl \in Int
  BY RequestsAssumption DEF OnHttp
<1>2. body.cap \in Nat
  BY <1>1, RequestsAssumption DEF asap_http_body_init_from_request
<1>3. body.dyn \in BOOLEAN
  BY DEF asap_http_body_init_from_request
<1>4. HasBody(r) \in BOOLEAN /\ asap_http_body_exceeds_static_cap(body, r) \in BOOLEAN
  BY DEF HasBody, asap_http_body_exceeds_static_cap
<1>5. c \in Conns
  BY <1>2, <1>4, <1>3 DEF Conns
<1> HIDE DEF body
<1>6. CASE is_static_path(r) /\ static_lookup(r)
  <2>1. ~HasBody(r)
    BY <1>6 DEF is_static_path, HasBody
  <2>2. conn' = [c EXCEPT !.kind = "static", !.answer = FileLen] /\ calls' = <<>>
    BY <1>6, SMTT(30) DEF OnHttp, body
  <2>3. conn' \in Conns /\ ~conn'.hasBody
    <3>1. FileLen \in Int
      BY RequestsAssumption
    <3>2. c.hasBody = HasBody(r)
      OBVIOUS
    <3> HIDE DEF c
    <3> QED
      BY <2>1, <2>2, <1>5, <3>1, <3>2, AnswerReady
  <2> QED
    BY <1>1, <2>2, <2>3 DEF HttpInv, BodyInv, OneWholeDispatch
<1>7. CASE ~(is_static_path(r) /\ static_lookup(r)) /\ (~HasBody(r) \/ c.tooLarge)
  <2>1. /\ \E n \in AnswerLens : conn' = [c EXCEPT !.hasBody = FALSE, !.answer = n]
        /\ calls' = <<[body |-> 0, code |-> IF c.tooLarge THEN 413 ELSE 200]>>
    BY <1>7, ZenonT(30) DEF OnHttp, body
  <2>2. conn' \in Conns /\ ~conn'.hasBody
    <3>1. \A n \in AnswerLens : n \in Int
      BY RequestsAssumption
    <3> HIDE DEF c
    <3> QED
      BY <2>1, <1>5, <3>1, AnswerReady, ZenonT(30)
  <2>3. Len(calls') = 1 /\ DOMAIN calls' = {1}
    BY <2>1
  <2>4. calls'[1].code = 200 => ~HasBody(r)
    BY <2>1, <1>7
  <2> QED
    BY <1>1, <2>2, <2>3, <2>4 DEF HttpInv, BodyInv, OneWholeDispatch
<1>8. CASE ~(is_static_path(r) /\ static_lookup(r)) /\ HasBody(r) /\ ~c.tooLarge
  <2>1. conn' = c /\ calls' = <<>>
    BY <1>8 DEF OnHttp, body
  <2> QED
    BY <1>1, <1>2, <1>4, <1>5, <1>8, <2>1 DEF HttpInv, BodyInv, OneWholeDispatch, HasBody
<1> QED
  BY <1>4, <1>6, <1>7, <1>8

\* A dispatch of a whole body, or of one that is marked.
LEMMA DispatchKeeps ==
    ASSUME NEW c \in Conns, Dispatched(c),
           req \in Requests, UNCHANGED req, toCome' \in Nat,
           calls = <<>>, c.tooLarge \/ c.len = req.len
    PROVE  HttpInv'
<1>1. PICK n \in AnswerLens : conn' = [c EXCEPT !.hasBody = FALSE, !.answer = n]
  BY DEF Dispatched
<1>2. conn' \in Conns /\ ~conn'.hasBody
  <2>1. n \in Int
    BY RequestsAssumption
  <2> QED
    BY <1>1, <2>1, AnswerReady
<1>3. calls' = <<[body |-> c.len, code |-> IF c.tooLarge THEN 413 ELSE 200]>>
  BY DEF Dispatched
<1>4. Len(calls') = 1 /\ DOMAIN calls' = {1} /\ (calls'[1].code = 200 => calls'[1].body = req.len)
  BY <1>3
<1>5. req' \in Requests /\ req' # NoReq
  BY RequestsAssumption
<1> QED
  BY <1>2, <1>4, <1>5 DEF HttpInv, BodyInv, OneWholeDispatch

\* A fragment: the body is dispatched when Content-Length was received, and then
\* nothing of it is to come.
LEMMA OnBodyKeeps ==
    ASSUME HttpInv, NEW n \in 1 .. toCome, OnBody(n)
    PROVE  HttpInv'
<1>1. n \in Nat /\ n <= toCome /\ toCome' = toCome - n /\ toCome \in Nat /\ UNCHANGED req
  BY DEF OnBody, HttpInv, BodyInv
<1>2. CASE conn.kind = "none" \/ ~conn.hasBody
  <2>1. UNCHANGED <<conn, calls>>
    BY <1>2 DEF OnBody
  <2> QED
    BY <1>1, <1>2, <2>1 DEF HttpInv, BodyInv, OneWholeDispatch, NoConn
<1>3. CASE ~(conn.kind = "none" \/ ~conn.hasBody)
  <2> DEFINE c == asap_http_body_append(conn, n)
  <2>1. /\ conn # NoConn /\ req \in Requests /\ conn \in Conns
        /\ conn.kind = "route" /\ conn.hasBody /\ HasBody(req)
        /\ calls = <<>>
        /\ conn.len \in Nat /\ conn.cap \in Nat /\ conn.len <= conn.cap
        /\ conn.tooLarge \/ conn.len + toCome = req.len
    BY <1>3 DEF HttpInv, BodyInv, NoConn, Conns
  <2>2. /\ c \in Conns /\ c.kind = "route" /\ c.hasBody
        /\ c.len <= c.cap
        /\ c.tooLarge \/ c.len + toCome' = req.len
    <3>1. CASE n > conn.cap - conn.len
      <4>1. c = [conn EXCEPT !.len = conn.cap, !.tooLarge = TRUE]
        <5>1. conn.len + (IF n > conn.cap - conn.len THEN conn.cap - conn.len ELSE n) = conn.cap
          BY <1>1, <2>1, <3>1
        <5>2. (conn.tooLarge \/ n > conn.cap - conn.len) = TRUE
          BY <3>1, Zenon
        <5> QED
          BY <5>1, <5>2, Zenon DEF asap_http_body_append
      <4> HIDE DEF c
      <4>2. /\ c \in Conns /\ c.kind = conn.kind /\ c.hasBody = conn.hasBody
            /\ c.cap = conn.cap /\ c.len = conn.cap /\ c.tooLarge = TRUE
        <5>1. conn.cap \in Nat /\ TRUE \in BOOLEAN /\ conn \in Conns
          BY <2>1
        <5> QED
          BY <4>1, <5>1 DEF Conns
      <4> QED
        BY <2>1, <4>2
    <3>2. CASE ~(n > conn.cap - conn.len)
      <4>1. c = [conn EXCEPT !.len = conn.len + n, !.tooLarge = conn.tooLarge]
        BY <1>1, <2>1, <3>2 DEF asap_http_body_append, Conns
      <4> HIDE DEF c
      <4>2. conn.len + n \in Nat /\ conn.len + n <= conn.cap
        BY <1>1, <2>1, <3>2
      <4>3. /\ c \in Conns /\ c.kind = conn.kind /\ c.hasBody = conn.hasBody
            /\ c.cap = conn.cap /\ c.len = conn.len + n /\ c.tooLarge = conn.tooLarge
        BY <2>1, <4>1, <4>2, PieceKept DEF Conns
      <4> QED
        BY <1>1, <2>1, <4>2, <4>3
    <3> QED
      BY <3>1, <3>2
  <2> HIDE DEF c
  <2>3. CASE http_body_content_length(req) > 0 /\ c.len >= req.cl /\ ~c.tooLarge
    <3>1. Dispatched(c)
      BY <1>3, <2>3 DEF OnBody, c
    <3>2. req.cl \in Int /\ req.len \in Nat /\ (req.cl >= 0 => req.len <= req.cl)
      BY <2>1, RequestsAssumption
    <3>3. c.len = req.len
      BY <1>1, <2>2, <2>3, <3>2 DEF http_body_content_length, BadLength, Conns
    <3> QED
      BY <1>1, <2>1, <2>2, <3>1, <3>3, DispatchKeeps
  <2>4. CASE ~(http_body_content_length(req) > 0 /\ c.len >= req.cl /\ ~c.tooLarge)
    <3>1. conn' = c /\ UNCHANGED calls
      BY <1>3, <2>4 DEF OnBody, c
    <3> QED
      BY <1>1, <2>1, <2>2, <3>1 DEF HttpInv, BodyInv, OneWholeDispatch, HasBody
  <2> QED
    BY <2>3, <2>4
<1> QED
  BY <1>2, <1>3

\* The completion callback: nothing is to come.
LEMMA CompletionKeeps ==
    ASSUME HttpInv, OnBodyCompletion
    PROVE  HttpInv'
<1>1. /\ conn # NoConn /\ conn \in Conns /\ conn.hasBody /\ req \in Requests
      /\ toCome = 0 /\ UNCHANGED <<req, toCome>>
      /\ Dispatched(conn)
  BY DEF OnBodyCompletion, MayDispatch, HttpInv, BodyInv, NoConn
<1>2. calls = <<>> /\ (conn.tooLarge \/ conn.len = req.len)
  BY <1>1, RequestsAssumption DEF HttpInv, BodyInv, Conns
<1> QED
  BY <1>1, <1>2, DispatchKeeps

\* A chunk of the answer, the next request, a close and a refused request leave
\* no body behind that was not dispatched.
LEMMA OthersKeep ==
    ASSUME HttpInv, Refused \/ OnWriteable \/ NextRequest \/ OnClosed
    PROVE  HttpInv'
<1>1. CASE Refused
  BY <1>1 DEF Refused, HttpInv, BodyInv, OneWholeDispatch, HasBody
<1>2. CASE OnWriteable
  <2>1. UNCHANGED <<req, toCome, calls>> /\ conn \in Conns
    BY <1>2 DEF OnWriteable, HttpInv, BodyInv, NoConn
  <2> DEFINE left == conn.answer - conn.sent
             chunk == IF left > ChunkSize THEN ChunkSize ELSE left
  <2>2. conn' = NoConn \/ conn' = [conn EXCEPT !.sent = @ + chunk]
    BY <1>2 DEF OnWriteable
  <2>3. chunk \in Int
    BY <2>1, RequestsAssumption DEF Conns
  <2> HIDE DEF chunk
  <2>4. CASE conn' = NoConn
    BY <2>1, <2>4 DEF HttpInv, BodyInv, OneWholeDispatch, HasBody
  <2>5. CASE conn' = [conn EXCEPT !.sent = @ + chunk]
    <3>1. /\ conn' \in Conns
          /\ conn'.hasBody = conn.hasBody /\ conn'.kind = conn.kind /\ conn'.len = conn.len
          /\ conn'.cap = conn.cap /\ conn'.tooLarge = conn.tooLarge
      BY <2>1, <2>3, <2>5 DEF Conns
    <3>2. conn # NoConn
      BY <1>2 DEF OnWriteable, NoConn
    <3> QED
      BY <2>1, <3>1, <3>2 DEF HttpInv, BodyInv, OneWholeDispatch, HasBody
  <2> QED
    BY <2>2, <2>4, <2>5
<1>3. CASE NextRequest
  BY <1>3 DEF NextRequest, HttpInv, BodyInv, OneWholeDispatch
<1>4. CASE OnClosed
  BY <1>4 DEF OnClosed, HttpInv, BodyInv, OneWholeDispatch
<1> QED
  BY <1>1, <1>2, <1>3, <1>4

\* A route is given the whole body of a request, and once, however libwebsockets
\* cuts the body and whichever of its callbacks come (http_lws.c:99-125, 260-290).
THEOREM WholeBodies == HttpSpec => []OneWholeDispatch
<1>1. HttpInv /\ [HttpNext]_httpVars => HttpInv'
  <2> SUFFICES ASSUME HttpInv, [HttpNext]_httpVars PROVE HttpInv'
    OBVIOUS
  <2>1. CASE UNCHANGED httpVars
    BY <2>1 DEF httpVars, HttpInv, BodyInv, OneWholeDispatch, HasBody
  <2> QED
    BY <2>1, OnHttpKeeps, OnBodyKeeps, CompletionKeeps, OthersKeep DEF HttpNext
<1>2. HttpInv => OneWholeDispatch
  BY DEF HttpInv
<1> QED
  BY HttpInvInit, <1>1, <1>2, PTL DEF HttpSpec

-----------------------------------------------------------------------------
(* Pairing and tokens: GatewayAccess. *)

\* The pairings in progress.
Pairs ==
    [pc : {"write", "rename", "answer"}, ip : Ips, token : Nat, json : Seq(Nat),
     dropped : SUBSET Nat]

TypeInv ==
    /\ running \in BOOLEAN
    /\ file \in Seq(Nat)
    /\ form \in Forms
    /\ code \in Nat /\ codes \in Nat /\ tokens \in Nat
    /\ pair \in Pairs \cup {NoPair}
    /\ given \subseteq [token : Nat, code : Nat]

\* Codes are handed out in order, and the one that is pending has given no
\* token; a pairing runs with a code pending.
CodeInv ==
    /\ code <= codes
    /\ \A g \in given : g.code <= codes /\ (code # 0 => g.code # code)
    /\ pair # NoPair => running /\ code # 0

\* What a pairing is about to write, with what the cap removes, is all that was
\* given and not removed; a token whose file was renamed into place is in it,
\* unless the owner has edited the file since.
PendingInv ==
    /\ pair.pc \in {"write", "rename"} =>
          /\ pair.token \in Range(pair.json)
          /\ \A g \in given : g.token \in Range(pair.json) \cup pair.dropped \cup gone
    /\ pair.pc = "answer" => pair.token \in Range(file) \cup gone

\* What was given is in the file or was removed, also while the file cannot be
\* opened; the other forms hold no token.
KeptInv ==
    /\ \A g \in given : g.token \in Range(file) \cup gone
    /\ form \in {"none", "other"} => file = <<>>

\* A code gives one token.
OnceInv == \A g, h \in given : g.code = h.code => g = h

AccessInv == TypeInv /\ CodeInv /\ PendingInv /\ KeptInv /\ OnceInv

\* What a reader finds.
LEMMA ReadIs ==
    /\ form = "array" => Read = file
    /\ form # "array" => Read = <<>>
  BY DEF Read

\* The invariant is about what is stored, the property about what is found.
LEMMA KeptIsValid == AccessInv => TokensKept
<1> SUFFICES ASSUME AccessInv PROVE TokensKept
  OBVIOUS
<1>1. ASSUME NEW g \in given, g.token \notin gone, form # "closed"
      PROVE  auth_validate_token(g.token)
  <2>1. g.token \in Range(file)
    BY <1>1 DEF AccessInv, KeptInv
  <2>2. Range(<<>>) = {}
    BY DEF Range
  <2>3. form = "array"
    BY <1>1, <2>1, <2>2 DEF AccessInv, KeptInv, TypeInv, Forms
  <2> QED
    BY <2>1, <2>3, ReadIs DEF auth_validate_token
<1> QED
  BY <1>1 DEF TokensKept, AccessInv, OnceInv

\* AccessInv holds before the first start.
LEMMA AccessInvInit == AccessInit => AccessInv
<1> SUFFICES ASSUME AccessInit PROVE AccessInv
  OBVIOUS
<1>1. NoPair.pc \notin {"write", "rename", "answer"} /\ <<>> \in Seq(Nat)
  BY DEF NoPair
<1>2. /\ running = FALSE /\ file = <<>> /\ form = "none" /\ code = 0 /\ codes = 0 /\ tokens = 0
      /\ pair = NoPair /\ given = {}
  BY DEF AccessInit
<1>3. running \in BOOLEAN
  BY <1>2
<1> QED
  BY <1>1, <1>2, <1>3 DEF AccessInv, TypeInv, CodeInv, PendingInv, KeptInv, OnceInv, Forms

\* The variables that AccessInv is about.
LEMMA Untouched ==
    ASSUME AccessInv, UNCHANGED pairVars
    PROVE  AccessInv'
  BY DEF AccessInv, TypeInv, CodeInv, PendingInv, KeptInv, OnceInv, pairVars

\* A start hands out a code that is greater than all before it.
LEMMA StartKeeps == AccessInv /\ GatewayStart => AccessInv'
<1> SUFFICES ASSUME AccessInv, GatewayStart PROVE AccessInv'
  OBVIOUS
<1>1. pair = NoPair /\ running' = TRUE /\ UNCHANGED <<file, form, pair, tokens, given, gone>>
  BY DEF GatewayStart, AccessInv, CodeInv
<1>2. /\ code' \in Nat /\ codes' \in Nat /\ code' <= codes'
      /\ code' = 0 \/ code' > codes
      /\ codes' >= codes
  BY DEF GatewayStart, auth_get_or_create_pairing_code, AccessInv, TypeInv
<1>3. TypeInv' /\ PendingInv' /\ KeptInv' /\ OnceInv'
  BY <1>1, <1>2 DEF AccessInv, TypeInv, PendingInv, KeptInv, OnceInv
<1>4. \A g \in given : g.code \in Nat /\ g.code <= codes
  BY DEF AccessInv, TypeInv, CodeInv
<1>5. codes \in Nat
  BY DEF AccessInv, TypeInv
<1>6. CodeInv'
  BY <1>1, <1>2, <1>4, <1>5 DEF CodeInv
<1> QED
  BY <1>3, <1>6 DEF AccessInv

\* A crash forgets the code and the pairing, whatever step it was at.
LEMMA CrashKeeps == AccessInv /\ Crash => AccessInv'
<1> SUFFICES ASSUME AccessInv, Crash PROVE AccessInv'
  OBVIOUS
<1>1. /\ running' = FALSE /\ pair' = NoPair /\ code' = 0
      /\ UNCHANGED <<file, form, tokens, codes, given, gone>>
  BY DEF Crash
<1>2. NoPair.pc \notin {"write", "rename", "answer"} /\ 0 \in Nat
  BY DEF NoPair
<1>3. TypeInv'
  <2>1. running' \in BOOLEAN
    BY <1>1
  <2> QED
    BY <2>1, <1>1, <1>2 DEF AccessInv, TypeInv
<1>4. CodeInv' /\ PendingInv' /\ KeptInv' /\ OnceInv'
  BY <1>1, <1>2 DEF AccessInv, TypeInv, CodeInv, PendingInv, KeptInv, OnceInv
<1> QED
  BY <1>3, <1>4 DEF AccessInv

\* The owner removes tokens from the file only.
LEMMA OwnerKeeps ==
    ASSUME AccessInv, OwnerEdits
    PROVE  AccessInv'
<1>1. gone' = gone \cup Range(file) /\ UNCHANGED <<running, code, pair, codes, given>>
  BY DEF OwnerEdits
<1>2. /\ file' \in Seq(Nat) /\ tokens' \in Nat /\ form' \in Forms
      /\ form' \in {"none", "other"} => file' = <<>>
  <2>1. CASE form' \in {"none", "other"} /\ file' = <<>> /\ UNCHANGED tokens
    BY <2>1 DEF AccessInv, TypeInv, Forms
  <2>2. CASE /\ form' = "array"
             /\ file' = [i \in 1 .. TokenCap |-> tokens + i]
             /\ tokens' = tokens + TokenCap
    BY <2>2, CapAssumption DEF AccessInv, TypeInv, Forms
  <2> QED
    BY <2>1, <2>2 DEF OwnerEdits
<1>3. \A g \in given : g.token \in gone'
  BY <1>1 DEF AccessInv, KeptInv
<1>4. TypeInv' /\ CodeInv' /\ OnceInv'
  BY <1>1, <1>2 DEF AccessInv, TypeInv, CodeInv, OnceInv
<1>5. KeptInv'
  BY <1>1, <1>2, <1>3 DEF KeptInv
<1>6. PendingInv'
  BY <1>1, <1>3 DEF AccessInv, PendingInv
<1> QED
  BY <1>4, <1>5, <1>6 DEF AccessInv

\* Access to the file acts nothing of what it holds.
LEMMA AccessKeeps ==
    ASSUME AccessInv, AccessChanges
    PROVE  AccessInv'
<1>1. /\ UNCHANGED <<running, file, code, pair, tokens, codes, given, gone>>
      /\ form' \in {"array", "closed"}
  BY DEF AccessChanges
<1> QED
  BY <1>1 DEF AccessInv, TypeInv, CodeInv, PendingInv, KeptInv, OnceInv, Forms

\* A pairing begins with the tokens that it finds; the cap drops the others, or all
\* of them are dropped when it finds none.
LEMMA PairKeeps ==
    ASSUME AccessInv, NEW ip \in Ips, auth_pair(ip)
    PROVE  AccessInv'
<1> DEFINE over == Len(Read) - (TokenCap - 1)
           kept == IF over > 0 THEN SubSeq(Read, over + 1, Len(Read)) ELSE Read
<1>1. /\ UNCHANGED <<running, file, form, code, codes, given, gone>>
      /\ running /\ code # 0
      /\ tokens' = tokens + 1
      /\ pair' = [pc |-> "write", ip |-> ip, token |-> tokens', json |-> Append(kept, tokens'),
                  dropped |-> Range(file) \ Range(kept)]
  BY DEF auth_pair
<1>2. file \in Seq(Nat) /\ tokens' \in Nat
  BY <1>1 DEF AccessInv, TypeInv
<1>3. kept \in Seq(Nat)
  <2>1. Read \in Seq(Nat)
    <3>1. <<>> \in Seq(Nat)
      OBVIOUS
    <3> QED
      BY <1>2, <3>1, ReadIs
  <2> QED
    BY <2>1, CapAssumption
<1>4. Range(file) \subseteq Nat
  BY <1>2 DEF Range
<1> HIDE DEF kept
<1>5. Append(kept, tokens') \in Seq(Nat)
  BY <1>2, <1>3
<1>6. tokens' \in Range(Append(kept, tokens')) /\ Range(kept) \subseteq Range(Append(kept, tokens'))
  <2> DEFINE json == Append(kept, tokens')
  <2>1. /\ DOMAIN kept = 1 .. Len(kept) /\ DOMAIN json = 1 .. Len(kept) + 1 /\ Len(kept) \in Nat
        /\ json[Len(kept) + 1] = tokens'
        /\ \A i \in 1 .. Len(kept) : json[i] = kept[i]
    BY <1>2, <1>3
  <2> HIDE DEF json
  <2>2. tokens' \in Range(json) /\ Range(kept) \subseteq Range(json)
    BY <2>1 DEF Range
  <2> QED
    BY <2>2 DEF json
<1>7. pair' \in Pairs
  BY <1>1, <1>2, <1>4, <1>5 DEF Pairs
<1>8. \A g \in given : g.token \in Range(file) \cup gone
  BY DEF AccessInv, KeptInv
<1>9. PendingInv'
  BY <1>1, <1>6, <1>8 DEF PendingInv
<1>10. pair' # NoPair
  BY <1>1 DEF NoPair
<1>11. TypeInv' /\ CodeInv' /\ KeptInv' /\ OnceInv'
  BY <1>1, <1>2, <1>7 DEF AccessInv, TypeInv, CodeInv, KeptInv, OnceInv
<1> QED
  BY <1>9, <1>11 DEF AccessInv

\* The temporary file acts nothing that counts.
LEMMA TempKeeps == AccessInv /\ TempWritten => AccessInv'
<1> SUFFICES ASSUME AccessInv, TempWritten PROVE AccessInv'
  OBVIOUS
<1>1. /\ pair.pc = "write" /\ pair \in Pairs
      /\ pair' = [pair EXCEPT !.pc = "rename"]
      /\ UNCHANGED <<running, file, form, code, codes, tokens, given, gone>>
  BY DEF TempWritten, AccessInv, TypeInv, NoPair
<1>2. /\ pair' \in Pairs /\ pair' # NoPair /\ pair # NoPair
      /\ pair'.pc = "rename" /\ pair'.token = pair.token /\ pair'.json = pair.json
      /\ pair'.dropped = pair.dropped
  BY <1>1 DEF Pairs, NoPair
<1> QED
  BY <1>1, <1>2 DEF AccessInv, TypeInv, CodeInv, PendingInv, KeptInv, OnceInv

\* A pairing that fails leaves the file as it was.
LEMMA WriteFailsKeeps == AccessInv /\ WriteFails => AccessInv'
<1> SUFFICES ASSUME AccessInv, WriteFails PROVE AccessInv'
  OBVIOUS
<1>1. pair' = NoPair /\ UNCHANGED <<running, file, form, code, codes, tokens, given, gone>>
  BY DEF WriteFails
<1>2. NoPair.pc \notin {"write", "rename", "answer"}
  BY DEF NoPair
<1> QED
  BY <1>1, <1>2 DEF AccessInv, TypeInv, CodeInv, PendingInv, KeptInv, OnceInv

\* The rename puts the new file in the place of the old one.
LEMMA RenamedKeeps == AccessInv /\ Renamed => AccessInv'
<1> SUFFICES ASSUME AccessInv, Renamed PROVE AccessInv'
  OBVIOUS
<1>1. /\ pair.pc = "rename" /\ pair \in Pairs
      /\ file' = pair.json /\ form' = "array" /\ gone' = gone \cup pair.dropped
      /\ pair' = [pair EXCEPT !.pc = "answer"]
      /\ UNCHANGED <<running, code, codes, tokens, given>>
  BY DEF Renamed, AccessInv, TypeInv, NoPair
<1>2. /\ pair' \in Pairs /\ pair' # NoPair /\ pair # NoPair
      /\ pair'.pc = "answer" /\ pair'.token = pair.token
      /\ file' \in Seq(Nat)
  BY <1>1, SMTT(30) DEF Pairs, NoPair
<1>3. /\ pair.token \in Range(file')
      /\ \A g \in given : g.token \in Range(file') \cup gone'
  BY <1>1 DEF AccessInv, PendingInv
<1> QED
  BY <1>1, <1>2, <1>3 DEF AccessInv, TypeInv, CodeInv, PendingInv, KeptInv, OnceInv, Forms

\* The answer gives the token and uses the code up.
LEMMA AnsweredKeeps == AccessInv /\ PairAnswered => AccessInv'
<1> SUFFICES ASSUME AccessInv, PairAnswered PROVE AccessInv'
  OBVIOUS
<1>1. /\ pair.pc = "answer" /\ pair \in Pairs
      /\ code' = 0 /\ pair' = NoPair
      /\ given' = given \cup {[token |-> pair.token, code |-> code]}
      /\ UNCHANGED <<running, file, form, codes, tokens, gone>>
  BY DEF PairAnswered, used, AccessInv, TypeInv, NoPair
<1>2. /\ pair # NoPair /\ code # 0 /\ pair.token \in Nat
      /\ pair.token \in Range(file) \cup gone
  BY <1>1 DEF AccessInv, CodeInv, PendingInv, Pairs, NoPair
<1>3. NoPair.pc \notin {"write", "rename", "answer"}
  BY DEF NoPair
<1>4. TypeInv' /\ PendingInv'
  BY <1>1, <1>2, <1>3 DEF AccessInv, TypeInv, PendingInv
<1>5. \A g \in given : g.code <= codes /\ g.code # code
  BY <1>2 DEF AccessInv, CodeInv
<1>6. CodeInv'
  BY <1>1, <1>5 DEF AccessInv, TypeInv, CodeInv
<1>7. KeptInv' /\ OnceInv'
  BY <1>1, <1>2, <1>5 DEF AccessInv, KeptInv, OnceInv
<1> QED
  BY <1>4, <1>6, <1>7 DEF AccessInv

\* Every step keeps AccessInv.
LEMMA AccessInvNext == AccessInv /\ [AccessNext]_accessVars => AccessInv'
<1> SUFFICES ASSUME AccessInv, [AccessNext]_accessVars PROVE AccessInv'
  OBVIOUS
<1>1. CASE Process
  <2>1. CASE SecondPasses
    BY <2>1, Untouched DEF SecondPasses
  <2> QED
    BY <1>1, <2>1, StartKeeps, CrashKeeps DEF Process
<1>2. CASE Pairing
  <2>1. ASSUME NEW ip \in Ips, PairRefused(ip) \/ PairWrong(ip) PROVE AccessInv'
    BY <2>1, Untouched DEF PairRefused, PairWrong
  <2> QED
    BY <1>2, <2>1, PairKeeps, TempKeeps, WriteFailsKeeps, RenamedKeeps, AnsweredKeeps
    DEF Pairing
<1>3. CASE Asap
  BY <1>3, Untouched DEF Asap, rate_limit_asap
<1>4. CASE UNCHANGED accessVars
  BY <1>4, Untouched DEF accessVars
<1>5. CASE Owner
  BY <1>5, OwnerKeeps, AccessKeeps DEF Owner
<1> QED
  BY <1>1, <1>2, <1>3, <1>4, <1>5 DEF AccessNext

\* A token that was given is valid whenever the file can be opened, until the cap,
\* the owner or a pairing that could not read the file removes it, through crashes
\* and failed writes at any step of the pairings after it; and a code gives one
\* token (auth.c:44-51, 199-319).
THEOREM TokensSafe == AccessSpec => []TokensKept
  BY AccessInvInit, AccessInvNext, KeptIsValid, PTL DEF AccessSpec

-----------------------------------------------------------------------------
(* The two throttles: ThrottleHolds. *)

LockEntries == [ip : Ips, fails : Nat, until : Nat]

\* The times h at which wrong codes were examined, seen at t.
TriesOk(h, t) ==
    /\ h \in Seq(Nat)
    /\ \A k \in 1 .. Len(h) : h[k] <= t
    /\ AtMost(MaxFails, h)

\* What an entry of the lockout table knows of them: while it is not locked, those
\* it does not count are over; when it is locked, all are over at its end.
Counted(e, h, t) ==
    /\ e.until = 0 =>
          /\ e.fails < MaxFails
          /\ \A k \in 1 .. Len(h) : k <= Len(h) - e.fails => h[k] + Window <= t
    /\ e.until > 0 => \A k \in 1 .. Len(h) : h[k] + Window <= e.until

\* A table has one entry for an address, and an address without one has no past.
TableOk(table, h, t) ==
    /\ table \in Seq(LockEntries) /\ Len(table) <= LockSlots
    /\ \A i, j \in 1 .. Len(table) : table[i].ip = table[j].ip => i = j
    /\ \A i \in 1 .. Len(table) : Counted(table[i], h[table[i].ip], t)
    /\ \A ip \in Ips : (\A i \in 1 .. Len(table) : table[i].ip # ip) => h[ip] = <<>>

Has(table, ip) == \E i \in 1 .. Len(table) : table[i].ip = ip

TriesInv ==
    /\ now \in Nat
    /\ tries \in [Ips -> Seq(Nat)]
    /\ \A ip \in Ips : TriesOk(tries[ip], now)
    /\ TableOk(lockout, tries, now)
    /\ pair.pc \in {"write", "rename", "answer"} => pair.ip \in Ips /\ Has(lockout, pair.ip)

\* The place that Entry finds.
LEMMA EntryIs ==
    ASSUME NEW table \in Seq(LockEntries), NEW ip, Has(table, ip)
    PROVE  Entry(table, ip) \in 1 .. Len(table) /\ table[Entry(table, ip)].ip = ip
<1>1. DOMAIN table = 1 .. Len(table)
  OBVIOUS
<1> QED
  BY <1>1 DEF Entry, Has

\* The parts of an entry.
LEMMA EntryParts ==
    ASSUME NEW table \in Seq(LockEntries), NEW i \in 1 .. Len(table)
    PROVE  table[i].ip \in Ips /\ table[i].fails \in Nat /\ table[i].until \in Nat
<1>1. table[i] \in LockEntries
  OBVIOUS
<1> QED
  BY <1>1 DEF LockEntries

LEMMA NewEntryIs ==
    ASSUME NEW ip \in Ips
    PROVE  /\ NewEntry(ip) \in LockEntries /\ NewEntry(ip).ip = ip
           /\ NewEntry(ip).fails = 0 /\ NewEntry(ip).until = 0
  BY DEF NewEntry, LockEntries

\* One entry of a table is replaced by another of the same address.
LEMMA EntryReplaced ==
    ASSUME NEW table, NEW h, NEW g, NEW t \in Nat, NEW i \in 1 .. Len(table), NEW e \in LockEntries,
           TableOk(table, h, t), e.ip = table[i].ip, Counted(e, g[e.ip], t),
           \A ip \in Ips : ip # e.ip => g[ip] = h[ip]
    PROVE  TableOk([table EXCEPT ![i] = e], g, t) /\ Has([table EXCEPT ![i] = e], e.ip)
<1> DEFINE new == [table EXCEPT ![i] = e]
<1>1. table \in Seq(LockEntries) /\ Len(table) \in Nat
  BY DEF TableOk
<1>2. /\ new \in Seq(LockEntries) /\ Len(new) = Len(table) /\ new[i] = e
      /\ \A j \in 1 .. Len(table) : j # i => new[j] = table[j]
  <2>1. table \in [1 .. Len(table) -> LockEntries] /\ DOMAIN table = 1 .. Len(table)
    BY <1>1
  <2>2. new \in [1 .. Len(table) -> LockEntries]
    BY <2>1
  <2>3. new \in Seq(LockEntries) /\ Len(new) = Len(table)
    BY <1>1, <2>2
  <2> QED
    BY <2>1, <2>3
<1> HIDE DEF new
<1>3. \A j \in 1 .. Len(table) : new[j].ip = table[j].ip
  BY <1>2
<1>4. \A j \in 1 .. Len(table) : table[j].ip \in Ips
  BY <1>1, EntryParts
<1>5. ASSUME NEW j \in 1 .. Len(new) PROVE Counted(new[j], g[new[j].ip], t)
  <2>1. CASE j = i
    BY <1>2, <2>1
  <2>2. CASE j # i
    <3>1. j \in 1 .. Len(table) /\ new[j] = table[j] /\ table[j].ip # table[i].ip
      BY <1>2, <2>2 DEF TableOk
    <3>2. g[table[j].ip] = h[table[j].ip]
      BY <1>4, <3>1
    <3> QED
      BY <3>1, <3>2 DEF TableOk
  <2> QED
    BY <2>1, <2>2
<1>6. ASSUME NEW ip \in Ips, \A j \in 1 .. Len(new) : new[j].ip # ip PROVE g[ip] = <<>>
  <2>1. (\A j \in 1 .. Len(table) : table[j].ip # ip) /\ ip # e.ip
    BY <1>2, <1>3, <1>6
  <2> QED
    BY <2>1 DEF TableOk
<1>7. \A j, k \in 1 .. Len(new) : new[j].ip = new[k].ip => j = k
  BY <1>2, <1>3 DEF TableOk
<1>8. Len(new) <= LockSlots
  BY <1>2 DEF TableOk
<1>9. TableOk(new, g, t)
  BY <1>2, <1>5, <1>6, <1>7, <1>8 DEF TableOk
<1>10. Has(new, e.ip)
  BY <1>2 DEF Has
<1> QED
  BY <1>9, <1>10 DEF new

\* An entry without a past counts nothing.
LEMMA NoPastCounted ==
    ASSUME NEW ip \in Ips, NEW t \in Nat
    PROVE  Counted(NewEntry(ip), <<>>, t)
<1>1. 0 < MaxFails
  BY ThrottleAssumption
<1> QED
  BY <1>1, NewEntryIs DEF Counted

\* The table gets an entry of the address, and forgets another one's past with
\* the entry it gives up.
LEMMA TableFindOrCreate ==
    ASSUME TriesInv, NEW ip \in Ips
    PROVE  LET h == Forget(tries, Evicted(ip))
               table == lockout_find_or_create(ip)
           IN  /\ h \in [Ips -> Seq(Nat)]
               /\ \A x \in Ips : TriesOk(h[x], now)
               /\ TableOk(table, h, now) /\ Has(table, ip)
<1> DEFINE h == Forget(tries, Evicted(ip))
<1>1. /\ now \in Nat /\ tries \in [Ips -> Seq(Nat)] /\ TableOk(lockout, tries, now)
      /\ lockout \in Seq(LockEntries) /\ Len(lockout) \in Nat /\ DOMAIN lockout = 1 .. Len(lockout)
      /\ Len(lockout) <= LockSlots /\ LockSlots \in Nat \ {0}
  <2>1. now \in Nat /\ tries \in [Ips -> Seq(Nat)] /\ TableOk(lockout, tries, now)
    BY DEF TriesInv
  <2>2. lockout \in Seq(LockEntries) /\ Len(lockout) <= LockSlots
    BY <2>1 DEF TableOk
  <2>3. Len(lockout) \in Nat /\ DOMAIN lockout = 1 .. Len(lockout)
    BY <2>2
  <2> QED
    BY <2>1, <2>2, <2>3, ThrottleAssumption
<1>2. \A x \in Ips : h[x] = IF x \in Evicted(ip) THEN <<>> ELSE tries[x]
  BY DEF Forget, NoTries
<1>3. h \in [Ips -> Seq(Nat)]
  BY <1>1 DEF Forget, NoTries
<1>4. TriesOk(<<>>, now)
  BY DEF TriesOk, AtMost
<1>5. \A x \in Ips : TriesOk(h[x], now)
  BY <1>2, <1>4 DEF TriesInv
<1> HIDE DEF h
<1>6. CASE Slot(ip) # {}
  <2>1. \A x \in Ips : h[x] = tries[x]
    BY <1>2, <1>6 DEF Evicted
  <2>2. h = tries
    BY <1>1, <1>3, <2>1
  <2>3. Has(lockout, ip)
    BY <1>1, <1>6 DEF Slot, Has
  <2> QED
    BY <1>1, <1>3, <1>5, <1>6, <2>2, <2>3 DEF lockout_find_or_create, h
<1>7. CASE Slot(ip) = {} /\ Len(lockout) < LockSlots
  <2> DEFINE table == Append(lockout, NewEntry(ip))
  <2>1. \A x \in Ips : h[x] = tries[x]
    BY <1>1, <1>2, <1>7 DEF Evicted
  <2>2. h = tries
    BY <1>1, <1>3, <2>1
  <2>3. /\ table \in Seq(LockEntries) /\ Len(table) = Len(lockout) + 1
        /\ table[Len(lockout) + 1] = NewEntry(ip)
        /\ \A i \in 1 .. Len(lockout) : table[i] = lockout[i]
    BY <1>1, NewEntryIs, AppendProperties
  <2>4. \A i \in 1 .. Len(lockout) : lockout[i].ip # ip
    BY <1>1, <1>7 DEF Slot
  <2>5. lockout_find_or_create(ip) = table
    BY <1>7 DEF lockout_find_or_create
  <2> HIDE DEF table
  <2>6. tries[ip] = <<>>
    BY <1>1, <2>4 DEF TableOk
  <2>7. ASSUME NEW i \in 1 .. Len(table) PROVE Counted(table[i], tries[table[i].ip], now)
    <3>1. CASE i = Len(lockout) + 1
      BY <1>1, <2>3, <2>6, <3>1, NoPastCounted, NewEntryIs
    <3>2. CASE i # Len(lockout) + 1
      <4>1. i \in 1 .. Len(lockout)
        BY <1>1, <2>3, <3>2
      <4> QED
        BY <1>1, <2>3, <4>1 DEF TableOk
    <3> QED
      BY <3>1, <3>2
  <2>8. ASSUME NEW i \in 1 .. Len(table), NEW j \in 1 .. Len(table), table[i].ip = table[j].ip
        PROVE  i = j
    <3>1. table[Len(lockout) + 1].ip = ip
      BY <2>3, NewEntryIs
    <3>2. \A k \in 1 .. Len(table) : k = Len(lockout) + 1 \/ (k \in 1 .. Len(lockout) /\ table[k].ip # ip)
      BY <1>1, <2>3, <2>4
    <3>3. CASE i \in 1 .. Len(lockout) /\ j \in 1 .. Len(lockout)
      BY <1>1, <2>3, <2>8, <3>3 DEF TableOk
    <3> QED
      BY <2>8, <3>1, <3>2, <3>3
  <2>9. ASSUME NEW x \in Ips, \A i \in 1 .. Len(table) : table[i].ip # x PROVE tries[x] = <<>>
    <3>1. \A i \in 1 .. Len(lockout) : i \in 1 .. Len(table)
      BY <1>1, <2>3
    <3>2. \A i \in 1 .. Len(lockout) : lockout[i].ip # x
      BY <2>3, <2>9, <3>1
    <3> QED
      BY <1>1, <3>2 DEF TableOk
  <2>10. Has(table, ip)
    <3>1. Len(lockout) + 1 \in 1 .. Len(table) /\ table[Len(lockout) + 1].ip = ip
      BY <1>1, <2>3, NewEntryIs
    <3> QED
      BY <3>1 DEF Has
  <2>11. Len(table) <= LockSlots
    BY <1>1, <1>7, <2>3
  <2>12. TableOk(table, tries, now)
    BY <2>3, <2>7, <2>8, <2>9, <2>11 DEF TableOk
  <2> QED
    BY <1>3, <1>5, <2>2, <2>5, <2>10, <2>12 DEF h
<1>8. CASE Slot(ip) = {} /\ ~(Len(lockout) < LockSlots)
  <2> DEFINE table == [lockout EXCEPT ![1] = NewEntry(ip)]
             out == lockout[1].ip
  <2>1. Len(lockout) = LockSlots /\ 1 \in 1 .. Len(lockout) /\ Evicted(ip) = {out}
    <3>1. Len(lockout) = LockSlots /\ 1 \in 1 .. Len(lockout)
      <4>1. Len(lockout) \in Nat /\ Len(lockout) <= LockSlots /\ LockSlots \in Nat \ {0}
        BY <1>1
      <4> QED
        BY <1>8, <4>1
    <3> QED
      BY <1>8, <3>1 DEF Evicted
  <2>2. lockout_find_or_create(ip) = table
    BY <1>8 DEF lockout_find_or_create
  <2>3. /\ table \in Seq(LockEntries) /\ Len(table) = Len(lockout) /\ table[1] = NewEntry(ip)
        /\ \A i \in 1 .. Len(lockout) : i # 1 => table[i] = lockout[i]
    <3>1. lockout \in [1 .. Len(lockout) -> LockEntries]
      BY <1>1
    <3>2. table \in [1 .. Len(lockout) -> LockEntries]
      BY <3>1, NewEntryIs
    <3>3. table \in Seq(LockEntries) /\ Len(table) = Len(lockout)
      BY <1>1, <3>2
    <3> QED
      BY <1>1, <2>1, <3>3
  <2> HIDE DEF table
  <2>4. \A i \in 1 .. Len(lockout) : lockout[i].ip # ip /\ lockout[i].ip \in Ips
    BY <1>1, <1>8, EntryParts DEF Slot
  <2>5. tries[ip] = <<>>
    BY <1>1, <2>4 DEF TableOk
  <2>6. h[ip] = <<>> /\ h[out] = <<>>
    BY <1>2, <2>1, <2>4, <2>5
  <2>7. ASSUME NEW i \in 1 .. Len(table) PROVE Counted(table[i], h[table[i].ip], now)
    <3>1. CASE i = 1
      BY <1>1, <2>3, <2>6, <3>1, NoPastCounted, NewEntryIs
    <3>2. CASE i # 1
      <4>1. i \in 1 .. Len(lockout) /\ table[i] = lockout[i] /\ lockout[i].ip # out
        BY <1>1, <2>1, <2>3, <3>2 DEF TableOk
      <4>2. h[lockout[i].ip] = tries[lockout[i].ip]
        BY <1>2, <2>1, <2>4, <4>1
      <4> QED
        BY <1>1, <4>1, <4>2 DEF TableOk
    <3> QED
      BY <3>1, <3>2
  <2>8. ASSUME NEW i \in 1 .. Len(table), NEW j \in 1 .. Len(table), table[i].ip = table[j].ip
        PROVE  i = j
    <3>1. table[1].ip = ip /\ \A k \in 1 .. Len(table) : k # 1 => table[k].ip # ip
      BY <2>3, <2>4, NewEntryIs
    <3>2. CASE i # 1 /\ j # 1
      BY <1>1, <2>3, <2>8, <3>2 DEF TableOk
    <3> QED
      BY <2>8, <3>1, <3>2
  <2>9. ASSUME NEW x \in Ips, \A i \in 1 .. Len(table) : table[i].ip # x PROVE h[x] = <<>>
    <3>1. CASE x = out
      BY <2>6, <3>1
    <3>2. CASE x # out
      <4>1. \A i \in 1 .. Len(lockout) : lockout[i].ip # x
        BY <2>3, <2>9, <3>2
      <4>2. h[x] = tries[x]
        BY <1>2, <2>1, <3>2
      <4> QED
        BY <1>1, <4>1, <4>2 DEF TableOk
    <3> QED
      BY <3>1, <3>2
  <2>10. Has(table, ip)
    BY <2>1, <2>3, NewEntryIs DEF Has
  <2>11. TableOk(table, h, now)
    BY <1>1, <2>3, <2>7, <2>8, <2>9 DEF TableOk
  <2> QED
    BY <1>3, <1>5, <2>2, <2>10, <2>11 DEF h
<1> QED
  BY <1>6, <1>7, <1>8

\* A check leaves a table that counts, and an entry of the address that is not
\* locked when the check lets it through.
LEMMA TableChecked ==
    ASSUME TriesInv, NEW ip \in Ips
    PROVE  LET h == Forget(tries, Evicted(ip))
               table == AfterCheck(ip)
           IN  /\ TableOk(table, h, now) /\ Has(table, ip)
               /\ ~auth_pair_check_lockout(ip) => table[Entry(table, ip)].until = 0
<1> DEFINE h == Forget(tries, Evicted(ip))
           t == lockout_find_or_create(ip)
           i == Entry(t, ip)
           table == AfterCheck(ip)
<1>1. /\ TableOk(t, h, now) /\ Has(t, ip) /\ \A x \in Ips : TriesOk(h[x], now)
  BY TableFindOrCreate
<1>2. t \in Seq(LockEntries) /\ now \in Nat
  BY <1>1 DEF TableOk, TriesInv
<1>3. table = IF t[i].until > 0 /\ now >= t[i].until THEN [t EXCEPT ![i] = NewEntry(ip)] ELSE t
  BY DEF AfterCheck
<1>4. ~auth_pair_check_lockout(ip) => ~(t[i].until > 0 /\ now < t[i].until)
  BY DEF auth_pair_check_lockout
<1> HIDE DEF t, h, table
<1>5. i \in 1 .. Len(t) /\ t[i].ip = ip
  BY <1>1, <1>2, EntryIs
<1>6. t[i].until \in Nat
  BY <1>2, <1>5, EntryParts
<1>7. CASE t[i].until > 0 /\ now >= t[i].until
  <2>1. table = [t EXCEPT ![i] = NewEntry(ip)]
    BY <1>3, <1>7
  <2>2. h[ip] \in Seq(Nat) /\ \A k \in 1 .. Len(h[ip]) : h[ip][k] + Window <= t[i].until
    BY <1>1, <1>5, <1>7 DEF TableOk, Counted, TriesOk
  <2>3. \A k \in 1 .. Len(h[ip]) : h[ip][k] \in Nat
    BY <2>2
  <2>4. \A k \in 1 .. Len(h[ip]) : h[ip][k] + Window <= now
    BY <1>2, <1>6, <1>7, <2>2, <2>3, ThrottleAssumption, SMTT(30)
  <2>5. Counted(NewEntry(ip), h[ip], now)
    BY <2>4, NewEntryIs, ThrottleAssumption DEF Counted
  <2> DEFINE e == NewEntry(ip)
  <2>6. e \in LockEntries /\ e.ip = ip /\ e.until = 0
    BY NewEntryIs
  <2> HIDE DEF e, i
  <2>7. TableOk([t EXCEPT ![i] = e], h, now) /\ Has([t EXCEPT ![i] = e], e.ip)
    BY <1>1, <1>2, <1>5, <2>5, <2>6, EntryReplaced DEF e
  <2>8. TableOk(table, h, now) /\ Has(table, ip)
    BY <2>1, <2>6, <2>7 DEF e
  <2>9. table \in Seq(LockEntries)
    BY <2>8 DEF TableOk
  <2>10. Entry(table, ip) \in 1 .. Len(table) /\ table[Entry(table, ip)].ip = ip
    BY <2>8, <2>9, EntryIs
  <2>11. DOMAIN t = 1 .. Len(t)
    BY <1>2
  <2>12. i \in 1 .. Len(table) /\ table[i] = e
    <3>1. DOMAIN table = DOMAIN t /\ DOMAIN table = 1 .. Len(table)
      BY <2>1, <2>9
    <3> QED
      BY <1>5, <2>1, <2>11, <3>1 DEF e
  <2>13. Entry(table, ip) = i
    BY <2>6, <2>8, <2>10, <2>12 DEF TableOk
  <2> QED
    BY <2>6, <2>8, <2>12, <2>13 DEF h, table
<1>8. CASE ~(t[i].until > 0 /\ now >= t[i].until)
  <2>1. table = t
    BY <1>3, <1>8
  <2>2. ~auth_pair_check_lockout(ip) => t[i].until = 0
    BY <1>2, <1>4, <1>6, <1>8
  <2> QED
    BY <1>1, <2>1, <2>2 DEF h, table
<1> QED
  BY <1>7, <1>8

\* A failure is recorded; with it may come one more time of a wrong code.
LEMMA TableRecorded ==
    ASSUME NEW table, NEW h, NEW g, NEW ip \in Ips, now \in Nat,
           TableOk(table, h, now), Has(table, ip), TriesOk(h[ip], now),
           \/ g[ip] = h[ip]
           \/ g[ip] = Append(h[ip], now) /\ table[Entry(table, ip)].until = 0,
           \A x \in Ips : x # ip => g[x] = h[x]
    PROVE  /\ TableOk(auth_pair_record_failure(ip, table), g, now)
           /\ TriesOk(g[ip], now)
<1> DEFINE i == Entry(table, ip)
           f == table[i].fails + 1
           u == IF Reached(f, MaxFails) THEN now + Window ELSE table[i].until
           e == [ip |-> ip, fails |-> f, until |-> u]
           old == h[ip]
<1>1. table \in Seq(LockEntries) /\ Window \in Nat \ {0} /\ MaxFails \in Nat \ {0}
  BY ThrottleAssumption DEF TableOk
<1>2. i \in 1 .. Len(table) /\ table[i].ip = ip
  BY <1>1, EntryIs
<1>3. table[i].fails \in Nat /\ table[i].until \in Nat /\ table[i] \in LockEntries
  BY <1>1, <1>2, EntryParts
<1>4. f \in Nat /\ u \in Nat
  BY <1>1, <1>3
<1>5. e \in LockEntries /\ e.ip = ip /\ e.fails = f /\ e.until = u
  BY <1>4 DEF LockEntries
<1>6. auth_pair_record_failure(ip, table) = [table EXCEPT ![i] = e]
  BY DEF auth_pair_record_failure
<1>7. /\ old \in Seq(Nat) /\ Len(old) \in Nat
      /\ \A k \in 1 .. Len(old) : old[k] \in Nat /\ old[k] <= now
      /\ AtMost(MaxFails, old)
  BY DEF TriesOk
<1>8. /\ table[i].until = 0 =>
            /\ table[i].fails < MaxFails
            /\ \A k \in 1 .. Len(old) : k <= Len(old) - table[i].fails => old[k] + Window <= now
      /\ table[i].until > 0 => \A k \in 1 .. Len(old) : old[k] + Window <= table[i].until
  BY <1>2 DEF TableOk, Counted
<1>9. Reached(f, MaxFails) <=> f >= MaxFails
  BY DEF Reached
<1>10. (f >= MaxFails => u = now + Window) /\ (~(f >= MaxFails) => u = table[i].until)
  BY <1>9
<1>11. f = table[i].fails + 1
  OBVIOUS
<1> HIDE DEF e, f, u, i, old
<1>12. Counted(e, g[ip], now) /\ TriesOk(g[ip], now)
  <2>1. CASE g[ip] = old
    <3>1. TriesOk(g[ip], now)
      BY <2>1 DEF old
    <3>2. ASSUME u = 0, NEW k \in 1 .. Len(old), k <= Len(old) - f
          PROVE  old[k] + Window <= now
      <4>1. table[i].until = 0
        BY <1>1, <1>10, <3>2
      <4>2. k <= Len(old) - table[i].fails
        <5>1. Len(old) \in Nat /\ k <= Len(old) - (table[i].fails + 1) /\ k \in Int
          BY <1>7, <1>11, <3>2
        <5> QED
          BY <1>3, <5>1
      <4> QED
        BY <1>8, <4>1, <4>2
    <3>3. u = 0 => f < MaxFails
      BY <1>1, <1>4, <1>10
    <3>4. ASSUME u > 0, NEW k \in 1 .. Len(old) PROVE old[k] + Window <= u
      <4>1. CASE f >= MaxFails
        BY <1>1, <1>7, <1>10, <4>1
      <4>2. CASE ~(f >= MaxFails)
        BY <1>8, <1>10, <3>4, <4>2
      <4> QED
        BY <4>1, <4>2
    <3>5. Counted(e, old, now)
      BY <1>5, <3>2, <3>3, <3>4 DEF Counted
    <3> QED
      BY <2>1, <3>1, <3>5
  <2>2. CASE g[ip] = Append(old, now) /\ table[i].until = 0
    <3> DEFINE new == Append(old, now)
    <3>1. /\ new \in Seq(Nat) /\ Len(new) = Len(old) + 1 /\ new[Len(old) + 1] = now
          /\ \A k \in 1 .. Len(old) : new[k] = old[k]
          /\ DOMAIN new = 1 .. Len(new)
      BY <1>7, AppendProperties
    <3> HIDE DEF new
    <3>2. /\ table[i].fails < MaxFails
          /\ \A k \in 1 .. Len(old) : k <= Len(old) - table[i].fails => old[k] + Window <= now
      BY <1>8, <2>2
    <3>3. ASSUME NEW k \in 1 .. Len(new) PROVE new[k] <= now
      <4>1. CASE k = Len(old) + 1
        BY <3>1, <4>1
      <4>2. CASE k # Len(old) + 1
        <5>1. k \in 1 .. Len(old)
          BY <1>7, <3>1, <4>2
        <5> QED
          BY <1>7, <3>1, <5>1
      <4> QED
        BY <4>1, <4>2
    <3>4. ASSUME NEW k \in 1 .. Len(new), k > MaxFails PROVE new[k] - new[k - MaxFails] >= Window
      <4>1. k - MaxFails \in 1 .. Len(old) /\ new[k - MaxFails] = old[k - MaxFails]
        <5>1. Len(old) \in Nat /\ k \in 1 .. Len(old) + 1
          BY <1>7, <3>1, <3>4
        <5>2. k - MaxFails \in 1 .. Len(old)
          BY <1>1, <3>4, <5>1
        <5> QED
          BY <3>1, <5>2
      <4>2. CASE k = Len(old) + 1
        <5>1. k - MaxFails <= Len(old) - table[i].fails
          BY <1>1, <1>3, <1>7, <3>2, <4>2
        <5>2. old[k - MaxFails] + Window <= now /\ old[k - MaxFails] \in Nat
          BY <1>7, <3>2, <4>1, <5>1
        <5> QED
          BY <1>1, <3>1, <4>1, <4>2, <5>2, SMTT(30)
      <4>3. CASE k # Len(old) + 1
        <5>1. k \in 1 .. Len(old) /\ DOMAIN old = 1 .. Len(old)
          BY <1>7, <3>1, <4>3
        <5>2. old[k] - old[k - MaxFails] >= Window
          BY <1>7, <3>4, <5>1 DEF AtMost
        <5> QED
          BY <3>1, <4>1, <5>1, <5>2
      <4> QED
        BY <4>2, <4>3
    <3>5. TriesOk(new, now)
      BY <3>1, <3>3, <3>4 DEF TriesOk, AtMost
    <3>6. ASSUME u = 0 PROVE f < MaxFails
      BY <1>1, <1>4, <1>10, <3>6
    <3>7. ASSUME u = 0, NEW k \in 1 .. Len(new), k <= Len(new) - f
          PROVE  new[k] + Window <= now
      <4>1. k \in 1 .. Len(old) /\ k <= Len(old) - table[i].fails
        <5>1. /\ Len(old) \in Nat /\ k \in 1 .. Len(old) + 1
              /\ k <= Len(old) + 1 - (table[i].fails + 1)
          BY <1>7, <1>11, <3>1, <3>7
        <5> QED
          BY <1>3, <5>1, SMTT(30)
      <4> QED
        BY <3>1, <3>2, <4>1
    <3>8. ASSUME u > 0, NEW k \in 1 .. Len(new) PROVE new[k] + Window <= u
      <4>1. u = now + Window
        BY <1>10, <2>2, <3>8
      <4>2. new[k] <= now /\ new[k] \in Nat
        BY <3>1, <3>3
      <4> QED
        BY <1>1, <4>1, <4>2
    <3>9. Counted(e, new, now)
      BY <1>5, <3>6, <3>7, <3>8 DEF Counted
    <3> QED
      BY <2>2, <3>5, <3>9 DEF new
  <2> QED
    BY <2>1, <2>2 DEF old, i
<1>13. TableOk([table EXCEPT ![i] = e], g, now)
  BY <1>2, <1>5, <1>12, EntryReplaced
<1> QED
  BY <1>6, <1>12, <1>13

\* TriesInv holds at first, when no table has an entry.
LEMMA NoTable ==
    ASSUME NEW h, \A ip \in Ips : h[ip] = <<>>, NEW t \in Nat
    PROVE  TableOk(<<>>, h, t) /\ \A ip \in Ips : TriesOk(h[ip], t)
<1>1. <<>> \in Seq(LockEntries) /\ <<>> \in Seq(Nat) /\ Len(<<>>) = 0 /\ DOMAIN <<>> = {}
  OBVIOUS
<1>2. TriesOk(<<>>, t)
  BY <1>1 DEF TriesOk, AtMost
<1>3. 0 <= LockSlots
  BY ThrottleAssumption
<1>4. TableOk(<<>>, h, t)
  BY <1>1, <1>3 DEF TableOk
<1> QED
  BY <1>2, <1>4

LEMMA NoPairing ==
    ASSUME NEW p, p = NoPair
    PROVE  p.pc \notin {"write", "rename", "answer"}
  BY DEF NoPair

LEMMA TriesInvInit == AccessInit => TriesInv
<1> SUFFICES ASSUME AccessInit PROVE TriesInv
  OBVIOUS
<1>1. /\ now = 0 /\ lockout = <<>> /\ pair = NoPair
      /\ tries = [ip \in Ips |-> <<>>]
  BY DEF AccessInit, NoTries
<1>2. now \in Nat /\ tries \in [Ips -> Seq(Nat)] /\ \A ip \in Ips : tries[ip] = <<>>
  BY <1>1
<1> QED
  BY <1>1, <1>2, NoTable, NoPairing DEF TriesInv

\* A table that counts now counts later.
LEMMA TriesLater ==
    ASSUME TriesInv, now' \in Nat, now' >= now, UNCHANGED <<lockout, tries>>,
           pair'.pc \in {"write", "rename", "answer"} => pair'.ip \in Ips /\ Has(lockout, pair'.ip)
    PROVE  TriesInv'
<1>1. now \in Nat /\ tries \in [Ips -> Seq(Nat)] /\ TableOk(lockout, tries, now)
  BY DEF TriesInv
<1>2. ASSUME NEW ip \in Ips PROVE TriesOk(tries[ip], now')
  <2>1. TriesOk(tries[ip], now) /\ tries[ip] \in Seq(Nat)
    BY <1>1 DEF TriesInv
  <2>2. \A k \in 1 .. Len(tries[ip]) : tries[ip][k] \in Nat /\ tries[ip][k] <= now
    BY <2>1 DEF TriesOk
  <2>3. \A k \in 1 .. Len(tries[ip]) : tries[ip][k] <= now'
    BY <1>1, <2>2
  <2> QED
    BY <2>1, <2>3 DEF TriesOk
<1>3. ASSUME NEW i \in 1 .. Len(lockout)
      PROVE  Counted(lockout[i], tries[lockout[i].ip], now')
  <2> DEFINE h == tries[lockout[i].ip]
  <2>1. lockout \in Seq(LockEntries)
    BY <1>1 DEF TableOk
  <2>2. lockout[i].ip \in Ips
    BY <2>1, EntryParts
  <2>3. h \in Seq(Nat)
    BY <1>1, <2>2
  <2>4. Counted(lockout[i], h, now)
    BY <1>1 DEF TableOk
  <2> HIDE DEF h
  <2>5. \A k \in 1 .. Len(h) : h[k] \in Nat
    BY <2>3
  <2>6. \A k \in 1 .. Len(h) : h[k] + Window <= now => h[k] + Window <= now'
    BY <1>1, <2>5, ThrottleAssumption
  <2>7. Counted(lockout[i], h, now')
    BY <2>4, <2>6 DEF Counted
  <2> QED
    BY <2>7 DEF h
<1>4. TableOk(lockout, tries, now')
  BY <1>1, <1>3 DEF TableOk
<1> QED
  BY <1>1, <1>2, <1>4 DEF TriesInv, Has

\* A request with a code keeps the count, whether it is refused, wrong or right.
LEMMA PairTries ==
    ASSUME TriesInv, NEW ip \in Ips, PairRefused(ip) \/ PairWrong(ip) \/ auth_pair(ip)
    PROVE  TriesInv'
<1> DEFINE h == Forget(tries, Evicted(ip))
           table == AfterCheck(ip)
<1>1. /\ h \in [Ips -> Seq(Nat)] /\ \A x \in Ips : TriesOk(h[x], now)
  BY TableFindOrCreate
<1>2. /\ TableOk(table, h, now) /\ Has(table, ip)
      /\ ~auth_pair_check_lockout(ip) => table[Entry(table, ip)].until = 0
  BY TableChecked
<1>3. now \in Nat /\ now' = now
  BY DEF TriesInv, PairRefused, PairWrong, auth_pair
<1>4. CASE PairRefused(ip) \/ auth_pair(ip)
  <2>1. lockout' = table /\ tries' = h
    BY <1>4 DEF PairRefused, auth_pair
  <2>2. pair'.pc \in {"write", "rename", "answer"} => pair'.ip = ip
    <3>1. CASE PairRefused(ip)
      BY <3>1, NoPairing DEF PairRefused, pairVars
    <3>2. CASE auth_pair(ip)
      BY <3>2 DEF auth_pair
    <3> QED
      BY <1>4, <3>1, <3>2
  <2> HIDE DEF h, table
  <2>3. /\ tries' \in [Ips -> Seq(Nat)] /\ \A x \in Ips : TriesOk(tries'[x], now')
        /\ TableOk(lockout', tries', now') /\ Has(lockout', ip)
    BY <1>1, <1>2, <1>3, <2>1
  <2> QED
    BY <1>3, <2>2, <2>3 DEF TriesInv
<1>5. CASE PairWrong(ip)
  <2> DEFINE g == Once(ip, h)
  <2>1. lockout' = auth_pair_record_failure(ip, table) /\ tries' = g /\ UNCHANGED pair
    BY <1>5 DEF PairWrong, pairVars
  <2>2. table[Entry(table, ip)].until = 0 /\ pair' = NoPair
    BY <1>2, <1>5 DEF PairWrong, pairVars
  <2>3. g = [h EXCEPT ![ip] = Append(@, now)]
    BY DEF Once
  <2> HIDE DEF h, table, g
  <2>4. g[ip] = Append(h[ip], now) /\ \A x \in Ips : x # ip => g[x] = h[x]
    BY <1>1, <2>3
  <2>5. g \in [Ips -> Seq(Nat)]
    <3>1. Append(h[ip], now) \in Seq(Nat)
      BY <1>1, <1>3
    <3> QED
      BY <1>1, <2>3, <3>1
  <2>6. TriesOk(h[ip], now)
    BY <1>1
  <2>7. TableOk(auth_pair_record_failure(ip, table), g, now) /\ TriesOk(g[ip], now)
    BY <1>2, <1>3, <2>2, <2>4, <2>6, TableRecorded
  <2>8. \A x \in Ips : TriesOk(g[x], now)
    BY <1>1, <2>4, <2>7
  <2>9. pair'.pc \notin {"write", "rename", "answer"}
    BY <2>2, NoPairing
  <2>10. /\ tries' \in [Ips -> Seq(Nat)] /\ \A x \in Ips : TriesOk(tries'[x], now')
         /\ TableOk(lockout', tries', now') /\ now' \in Nat
    BY <1>3, <2>1, <2>5, <2>7, <2>8
  <2> QED
    BY <2>9, <2>10 DEF TriesInv
<1> QED
  BY <1>4, <1>5

\* The address of a pairing has its entry, so a check acts no other.
LEMMA FailTries == ASSUME TriesInv, WriteFails PROVE TriesInv'
<1> DEFINE ip == pair.ip
           table == AfterCheck(ip)
<1>1. /\ pair.pc \in {"write", "rename"} /\ pair' = NoPair /\ UNCHANGED <<now, tries>>
      /\ lockout' = auth_pair_record_failure(ip, table)
  BY DEF WriteFails
<1>2. ip \in Ips /\ Has(lockout, ip) /\ now \in Nat /\ tries \in [Ips -> Seq(Nat)]
  BY <1>1 DEF TriesInv
<1>3. Forget(tries, Evicted(ip)) = tries
  <2>1. lockout \in Seq(LockEntries)
    BY DEF TriesInv, TableOk
  <2>2. DOMAIN lockout = 1 .. Len(lockout)
    BY <2>1
  <2>3. Evicted(ip) = {}
    BY <1>2, <2>2 DEF Has, Evicted, Slot
  <2> QED
    BY <1>2, <2>3 DEF Forget
<1>4. TableOk(table, tries, now) /\ Has(table, ip)
  BY <1>2, <1>3, TableChecked
<1> HIDE DEF table, ip
<1>5. TriesOk(tries[ip], now)
  BY <1>2 DEF TriesInv
<1>6. TableOk(auth_pair_record_failure(ip, table), tries, now)
  BY <1>2, <1>4, <1>5, TableRecorded
<1>7. pair'.pc \notin {"write", "rename", "answer"}
  BY <1>1, NoPairing
<1>8. /\ tries' \in [Ips -> Seq(Nat)] /\ \A x \in Ips : TriesOk(tries'[x], now')
      /\ TableOk(lockout', tries', now') /\ now' \in Nat
  BY <1>1, <1>2, <1>6 DEF TriesInv
<1> QED
  BY <1>7, <1>8 DEF TriesInv

\* The address that has paired starts afresh.
LEMMA AnswerTries == ASSUME TriesInv, PairAnswered PROVE TriesInv'
<1> DEFINE ip == pair.ip
           i == Entry(lockout, ip)
           e == NewEntry(ip)
           g == Forget(tries, {ip})
<1>1. /\ pair.pc = "answer" /\ pair' = NoPair /\ UNCHANGED now
      /\ lockout' = [lockout EXCEPT ![i] = e] /\ tries' = g
  BY DEF PairAnswered
<1>2. /\ ip \in Ips /\ Has(lockout, ip) /\ now \in Nat /\ tries \in [Ips -> Seq(Nat)]
      /\ TableOk(lockout, tries, now)
  BY <1>1 DEF TriesInv
<1>3. lockout \in Seq(LockEntries)
  BY <1>2 DEF TableOk
<1>4. i \in 1 .. Len(lockout) /\ lockout[i].ip = ip
  BY <1>2, <1>3, EntryIs
<1>5. e \in LockEntries /\ e.ip = ip
  BY <1>2, NewEntryIs
<1>6. /\ g \in [Ips -> Seq(Nat)] /\ g[ip] = <<>>
      /\ \A x \in Ips : x # ip => g[x] = tries[x]
  BY <1>2 DEF Forget, NoTries
<1>7. Counted(e, g[ip], now)
  BY <1>2, <1>6, NoPastCounted
<1> HIDE DEF ip, i, e, g
<1>8. TableOk([lockout EXCEPT ![i] = e], g, now)
  BY <1>2, <1>4, <1>5, <1>6, <1>7, EntryReplaced
<1>9. TriesOk(<<>>, now)
  BY DEF TriesOk, AtMost
<1>10. \A x \in Ips : TriesOk(g[x], now)
  BY <1>6, <1>9 DEF TriesInv
<1>11. pair'.pc \notin {"write", "rename", "answer"}
  BY <1>1, NoPairing
<1>12. /\ tries' \in [Ips -> Seq(Nat)] /\ \A x \in Ips : TriesOk(tries'[x], now')
       /\ TableOk(lockout', tries', now') /\ now' \in Nat
  BY <1>1, <1>2, <1>6, <1>8, <1>10
<1> QED
  BY <1>11, <1>12 DEF TriesInv

\* Every step keeps the count of wrong codes.
LEMMA TriesInvNext == AccessInv /\ TriesInv /\ [AccessNext]_accessVars => TriesInv'
<1> SUFFICES ASSUME AccessInv, TriesInv, [AccessNext]_accessVars PROVE TriesInv'
  OBVIOUS
<1>1. CASE \/ GatewayStart \/ Owner \/ UNCHANGED accessVars \/ Asap
  <2>1. UNCHANGED <<now, lockout, tries, pair>>
    BY <1>1 DEF GatewayStart, Owner, OwnerEdits, AccessChanges, accessVars, Asap, rate_limit_asap,
                pairVars
  <2>2. now' \in Nat /\ now' >= now
    BY <2>1 DEF TriesInv
  <2>3. pair'.pc \in {"write", "rename", "answer"} => pair'.ip \in Ips /\ Has(lockout, pair'.ip)
    BY <2>1 DEF TriesInv
  <2> QED
    BY <2>1, <2>2, <2>3, TriesLater
<1>2. CASE SecondPasses
  <2>1. now' = now + 1 /\ UNCHANGED <<lockout, tries, pair>> /\ now \in Nat
    BY <1>2 DEF SecondPasses, pairVars, TriesInv
  <2>2. now' \in Nat /\ now' >= now
    BY <2>1
  <2>3. pair'.pc \in {"write", "rename", "answer"} => pair'.ip \in Ips /\ Has(lockout, pair'.ip)
    BY <2>1 DEF TriesInv
  <2> QED
    BY <2>1, <2>2, <2>3, TriesLater
<1>3. CASE TempWritten \/ Renamed
  <2>1. UNCHANGED <<now, lockout, tries>> /\ pair.pc \in {"write", "rename", "answer"}
    BY <1>3 DEF TempWritten, Renamed
  <2>2. pair'.ip = pair.ip
    <3>1. pair \in Pairs
      BY <2>1, NoPairing DEF AccessInv, TypeInv
    <3> QED
      BY <1>3, <3>1 DEF TempWritten, Renamed, Pairs
  <2>3. now' \in Nat /\ now' >= now /\ pair.ip \in Ips /\ Has(lockout, pair.ip)
    BY <2>1 DEF TriesInv
  <2> QED
    BY <2>1, <2>2, <2>3, TriesLater
<1>4. CASE Crash
  <2>1. /\ lockout' = <<>> /\ pair' = NoPair /\ now' = now /\ now \in Nat
        /\ tries' = [ip \in Ips |-> <<>>]
    BY <1>4 DEF Crash, NoTries, TriesInv
  <2>2. tries' \in [Ips -> Seq(Nat)] /\ \A ip \in Ips : tries'[ip] = <<>>
    BY <2>1
  <2>3. TableOk(lockout', tries', now') /\ \A ip \in Ips : TriesOk(tries'[ip], now')
    BY <2>1, <2>2, NoTable
  <2>4. pair'.pc \notin {"write", "rename", "answer"}
    BY <2>1, NoPairing
  <2> QED
    BY <2>1, <2>2, <2>3, <2>4 DEF TriesInv
<1> QED
  BY <1>1, <1>2, <1>3, <1>4, PairTries, FailTries, AnswerTries DEF AccessNext, Process, Pairing

\* What an entry of the rate table knows of the times h at which requests were let
\* through: those it does not count, and the first that it counts, are not after
\* its start, and those before the last Rpm - 1 of the window before it are a whole
\* window older than its start.  An entry that counts nothing begins now.
Windowed(e, h, t) ==
    /\ e.start \in Nat /\ e.start <= t /\ e.count \in Nat /\ e.count <= Rpm
    /\ e.count = 0 => e.start = t
    /\ \A k \in 1 .. Len(h) :
          /\ k <= Len(h) - e.count + 1 => h[k] <= e.start
          /\ k <= Len(h) - e.count - (Rpm - 1) => h[k] + Window <= e.start

\* Of an address without an entry, all but the last Rpm - 1 are over.
Over(h, t) == \A k \in 1 .. Len(h) : k <= Len(h) - (Rpm - 1) => h[k] + Window <= t

TakenOk(h, t) ==
    /\ h \in Seq(Nat)
    /\ \A k \in 1 .. Len(h) : h[k] <= t
    /\ AtMost(2 * Rpm - 1, h)

TakenInv ==
    /\ now \in Nat
    /\ taken \in [Ips -> Seq(Nat)]
    /\ \A ip \in Ips : TakenOk(taken[ip], now)
    /\ \A ip \in Ips : IF ip \in DOMAIN rate THEN Windowed(rate[ip], taken[ip], now)
                       ELSE Over(taken[ip], now)
    /\ \A ip \in Ips : ip \in DOMAIN rate => rate[ip].count # 0

\* A window that is over leaves its requests behind.
LEMMA WindowOver ==
    ASSUME NEW e, NEW h \in Seq(Nat), NEW t \in Nat, Windowed(e, h, t),
           t - e.start >= Window
    PROVE  Over(h, t)
<1> SUFFICES ASSUME NEW k \in 1 .. Len(h), k <= Len(h) - (Rpm - 1) PROVE h[k] + Window <= t
  BY DEF Over
<1>1. Rpm \in Nat /\ Window \in Nat /\ Len(h) \in Nat /\ h[k] \in Nat
  BY ThrottleAssumption
<1>2. e.start \in Nat /\ e.count \in Nat /\ e.count <= Rpm
  BY DEF Windowed
<1>3. k <= Len(h) - e.count + 1
  BY <1>1, <1>2
<1>4. h[k] <= e.start
  BY <1>3 DEF Windowed
<1> QED
  BY <1>1, <1>2, <1>4, SMTT(30)

\* A window that begins now, with nothing counted.
LEMMA WindowBegins ==
    ASSUME NEW h \in Seq(Nat), now \in Nat, TakenOk(h, now), Over(h, now)
    PROVE  Windowed(Fresh, h, now)
<1>1. Fresh.start = now /\ Fresh.count = 0
  BY DEF Fresh
<1>2. Rpm \in Nat /\ Len(h) \in Nat
  BY ThrottleAssumption
<1>3. 0 \in Nat /\ 0 <= Rpm /\ now <= now
  BY <1>2
<1>4. \A k \in 1 .. Len(h) : k <= Len(h) - 0 - (Rpm - 1) => k <= Len(h) - (Rpm - 1)
  BY <1>2
<1> QED
  BY <1>1, <1>3, <1>4 DEF Windowed, TakenOk, Over

\* One more request is let through in a window that has room for it.
LEMMA OneMore ==
    ASSUME NEW e, NEW h \in Seq(Nat), now \in Nat, TakenOk(h, now), Windowed(e, h, now),
           ~Reached(e.count, Rpm), NEW f, f.start = e.start, f.count = e.count + 1
    PROVE  TakenOk(Append(h, now), now) /\ Windowed(f, Append(h, now), now)
<1> DEFINE g == Append(h, now)
<1>1. /\ g \in Seq(Nat) /\ Len(g) = Len(h) + 1 /\ g[Len(h) + 1] = now
      /\ \A k \in 1 .. Len(h) : g[k] = h[k]
      /\ DOMAIN g = 1 .. Len(g) /\ DOMAIN h = 1 .. Len(h)
  BY AppendProperties
<1>2. /\ Rpm \in Nat \ {0} /\ Window \in Nat /\ Len(h) \in Nat
      /\ \A k \in 1 .. Len(h) : h[k] \in Nat /\ h[k] <= now
  BY ThrottleAssumption DEF TakenOk
<1>3. e.start \in Nat /\ e.start <= now /\ e.count \in Nat /\ e.count < Rpm
  BY <1>2 DEF Windowed, Reached
<1> HIDE DEF g
<1>4. ASSUME NEW k \in 1 .. Len(g)
      PROVE  k = Len(h) + 1 \/ (k \in 1 .. Len(h) /\ g[k] = h[k])
  BY <1>1, <1>2
<1>5. \A k \in 1 .. Len(g) : g[k] <= now
  BY <1>1, <1>2, <1>4, SMTT(30)
<1>6. ASSUME NEW k \in 1 .. Len(g), k > 2 * Rpm - 1
      PROVE  g[k] - g[k - (2 * Rpm - 1)] >= Window
  <2> DEFINE j == k - (2 * Rpm - 1)
  <2>1. j \in 1 .. Len(h)
    <3>1. Len(h) \in Nat /\ k \in 1 .. Len(h) + 1
      BY <1>1, <1>2
    <3> QED
      BY <1>2, <1>6, <3>1, SMTT(30)
  <2>2. CASE k = Len(h) + 1
    <3>1. j <= Len(h) - e.count - (Rpm - 1)
      BY <1>2, <1>3, <2>2
    <3> HIDE DEF j
    <3>2. h[j] + Window <= e.start /\ h[j] \in Nat /\ g[j] = h[j] /\ g[k] = now
      BY <1>1, <1>2, <2>1, <2>2, <3>1 DEF Windowed
    <3>3. g[k] - g[j] >= Window
      BY <1>2, <1>3, <3>2, SMTT(30)
    <3> QED
      BY <3>3 DEF j
  <2>3. CASE k # Len(h) + 1
    <3>1. k \in 1 .. Len(h) /\ g[k] = h[k]
      BY <1>4, <2>3
    <3>2. h[k] - h[k - (2 * Rpm - 1)] >= Window
      BY <1>1, <1>6, <3>1 DEF TakenOk, AtMost
    <3> QED
      BY <1>1, <2>1, <3>1, <3>2
  <2> QED
    BY <2>2, <2>3
<1>7. TakenOk(g, now)
  BY <1>1, <1>5, <1>6 DEF TakenOk, AtMost
<1>8. ASSUME NEW k \in 1 .. Len(g)
      PROVE  /\ k <= Len(g) - f.count + 1 => g[k] <= f.start
             /\ k <= Len(g) - f.count - (Rpm - 1) => g[k] + Window <= f.start
  <2>1. Len(g) - f.count = Len(h) - e.count
    <3>1. Len(g) = Len(h) + 1 /\ f.count = e.count + 1
      BY <1>1
    <3>2. Len(h) \in Nat /\ e.count \in Nat
      BY <1>2, <1>3
    <3>3. ASSUME NEW x \in Nat, NEW y \in Nat PROVE (x + 1) - (y + 1) = x - y
      OBVIOUS
    <3> QED
      BY <3>1, <3>2, <3>3
  <2>2. CASE k = Len(h) + 1
    <3>1. /\ k <= Len(h) - e.count + 1 => e.count = 0
          /\ ~(k <= Len(h) - e.count - (Rpm - 1))
      BY <1>2, <1>3, <2>2
    <3>2. e.count = 0 => g[k] <= e.start
      BY <1>1, <1>3, <2>2 DEF Windowed
    <3> QED
      BY <2>1, <3>1, <3>2
  <2>3. CASE k # Len(h) + 1
    <3>1. k \in 1 .. Len(h) /\ g[k] = h[k]
      BY <1>4, <2>3
    <3>2. /\ k <= Len(h) - e.count + 1 => h[k] <= e.start
          /\ k <= Len(h) - e.count - (Rpm - 1) => h[k] + Window <= e.start
      BY <3>1 DEF Windowed
    <3> QED
      BY <2>1, <3>1, <3>2
  <2> QED
    BY <2>2, <2>3
<1>9. f.count \in Nat /\ f.count <= Rpm /\ f.count # 0
  BY <1>2, <1>3
<1>10. Windowed(f, g, now)
  BY <1>3, <1>8, <1>9 DEF Windowed
<1> QED
  BY <1>7, <1>10 DEF g

\* A table with an entry of the address, in which what is given up was over.
LEMMA RateFindOrCreate ==
    ASSUME TakenInv, NEW ip \in Ips, NEW t \in find_or_create(ip)
    PROVE  /\ ip \in DOMAIN t
           /\ \A a \in Ips : IF a \in DOMAIN t THEN Windowed(t[a], taken[a], now)
                             ELSE Over(taken[a], now)
           /\ \A a \in Ips : a \in DOMAIN t /\ a # ip => t[a].count # 0
<1>1. /\ now \in Nat /\ \A a \in Ips : taken[a] \in Seq(Nat) /\ TakenOk(taken[a], now)
      /\ \A a \in Ips : IF a \in DOMAIN rate THEN Windowed(rate[a], taken[a], now)
                        ELSE Over(taken[a], now)
      /\ \A a \in Ips : a \in DOMAIN rate => rate[a].count # 0
  BY DEF TakenInv
<1>2. CASE ip \in DOMAIN rate
  <2>1. t = rate
    BY <1>2 DEF find_or_create
  <2> QED
    BY <1>1, <1>2, <2>1
<1>3. CASE ip \notin DOMAIN rate
  <2>1. Windowed(Fresh, taken[ip], now)
    BY <1>1, <1>3, WindowBegins
  <2>2. CASE t = [a \in DOMAIN rate \cup {ip} |-> IF a = ip THEN Fresh ELSE rate[a]]
    <3> DEFINE fresh == Fresh
    <3>0. Windowed(fresh, taken[ip], now)
      BY <2>1
    <3> HIDE DEF fresh
    <3>1. /\ DOMAIN t = DOMAIN rate \cup {ip} /\ t[ip] = fresh
          /\ \A a \in DOMAIN rate : a # ip => t[a] = rate[a]
      BY <2>2 DEF fresh
    <3> QED
      BY <1>1, <3>0, <3>1
  <2>3. CASE \E x \in Expired(rate) :
                t = [a \in (DOMAIN rate \ {x}) \cup {ip} |-> IF a = ip THEN Fresh ELSE rate[a]]
    <3> DEFINE fresh == Fresh
    <3>0. Windowed(fresh, taken[ip], now)
      BY <2>1
    <3>1. PICK x \in Expired(rate) :
             t = [a \in (DOMAIN rate \ {x}) \cup {ip} |-> IF a = ip THEN fresh ELSE rate[a]]
      BY <2>3
    <3> HIDE DEF fresh
    <3>2. /\ DOMAIN t = (DOMAIN rate \ {x}) \cup {ip} /\ t[ip] = fresh
          /\ \A a \in DOMAIN rate : a # ip /\ a # x => t[a] = rate[a]
      BY <3>1
    <3>3. x \in Ips => Over(taken[x], now)
      BY <1>1, WindowOver DEF Expired
    <3> QED
      BY <1>1, <3>0, <3>2, <3>3
  <2> QED
    BY <1>3, <2>2, <2>3 DEF find_or_create
<1> QED
  BY <1>2, <1>3

\* A request is counted or refused.
LEMMA RateTaken == ASSUME TakenInv, NEW ip \in Ips, rate_limit_asap(ip) PROVE TakenInv'
<1>1. /\ now \in Nat /\ now' = now /\ taken \in [Ips -> Seq(Nat)]
      /\ \A a \in Ips : TakenOk(taken[a], now) /\ taken[a] \in Seq(Nat)
  BY DEF TakenInv, rate_limit_asap
<1>2. CASE UNCHANGED <<rate, taken>>
  BY <1>1, <1>2 DEF TakenInv
<1>3. ASSUME NEW t \in find_or_create(ip), NEW e, e = IF ip \in Expired(t) THEN Fresh ELSE t[ip],
             IF Reached(e.count, Rpm) THEN rate' = [t EXCEPT ![ip] = e] /\ UNCHANGED taken
             ELSE /\ rate' = [t EXCEPT ![ip] = [start |-> e.start, count |-> e.count + 1]]
                  /\ taken' = Once(ip, taken)
      PROVE  TakenInv'
  <2>1. /\ ip \in DOMAIN t
        /\ \A a \in Ips : IF a \in DOMAIN t THEN Windowed(t[a], taken[a], now)
                          ELSE Over(taken[a], now)
        /\ \A a \in Ips : a \in DOMAIN t /\ a # ip => t[a].count # 0
    BY RateFindOrCreate
  <2>2. Windowed(e, taken[ip], now)
    <3>1. CASE ip \in Expired(t)
      <4>1. Over(taken[ip], now)
        BY <1>1, <2>1, <3>1, WindowOver DEF Expired
      <4> QED
        BY <1>1, <1>3, <3>1, <4>1, WindowBegins
    <3>2. CASE ip \notin Expired(t)
      BY <1>3, <2>1, <3>2
    <3> QED
      BY <3>1, <3>2
  <2>3. CASE Reached(e.count, Rpm)
    <3>1. rate' = [t EXCEPT ![ip] = e] /\ UNCHANGED taken
      BY <1>3, <2>3
    <3>2. /\ DOMAIN rate' = DOMAIN t /\ rate'[ip] = e
          /\ \A a \in DOMAIN t : a # ip => rate'[a] = t[a]
      BY <2>1, <3>1
    <3>3. \A a \in Ips : IF a \in DOMAIN rate' THEN Windowed(rate'[a], taken[a], now)
                         ELSE Over(taken[a], now)
      BY <2>1, <2>2, <3>2
    <3>4. e.count # 0
      BY <2>3, ThrottleAssumption DEF Reached
    <3>5. \A a \in Ips : a \in DOMAIN rate' => rate'[a].count # 0
      BY <2>1, <3>2, <3>4
    <3> QED
      BY <1>1, <3>1, <3>3, <3>5 DEF TakenInv
  <2>4. CASE ~Reached(e.count, Rpm)
    <3> DEFINE f == [start |-> e.start, count |-> e.count + 1]
               g == Append(taken[ip], now)
    <3>1. rate' = [t EXCEPT ![ip] = f] /\ taken' = [taken EXCEPT ![ip] = g]
      BY <1>3, <2>4 DEF Once
    <3>2. f.start = e.start /\ f.count = e.count + 1
      OBVIOUS
    <3> HIDE DEF f
    <3>3. TakenOk(g, now) /\ Windowed(f, g, now)
      BY <1>1, <2>2, <2>4, <3>2, OneMore
    <3> HIDE DEF g
    <3>4. /\ DOMAIN rate' = DOMAIN t /\ rate'[ip] = f
          /\ \A a \in DOMAIN t : a # ip => rate'[a] = t[a]
      BY <2>1, <3>1
    <3>5. taken'[ip] = g /\ \A a \in Ips : a # ip => taken'[a] = taken[a]
      BY <1>1, <3>1
    <3>6. taken' \in [Ips -> Seq(Nat)]
      BY <1>1, <3>1, <3>3 DEF TakenOk
    <3>7. \A a \in Ips : IF a \in DOMAIN rate' THEN Windowed(rate'[a], taken'[a], now)
                         ELSE Over(taken'[a], now)
      BY <2>1, <3>3, <3>4, <3>5
    <3>8. \A a \in Ips : TakenOk(taken'[a], now)
      BY <1>1, <3>3, <3>5
    <3>9. f.count # 0
      BY <2>2, <3>2 DEF Windowed
    <3>10. \A a \in Ips : a \in DOMAIN rate' => rate'[a].count # 0
      BY <2>1, <3>4, <3>9
    <3> QED
      BY <1>1, <3>6, <3>7, <3>8, <3>10 DEF TakenInv
  <2> QED
    BY <2>3, <2>4
<1>4. CASE ~(find_or_create(ip) = {})
  <2>1. PICK t \in find_or_create(ip) :
          LET e == IF ip \in Expired(t) THEN Fresh ELSE t[ip]
          IN  IF Reached(e.count, Rpm) THEN rate' = [t EXCEPT ![ip] = e] /\ UNCHANGED taken
              ELSE /\ rate' = [t EXCEPT ![ip] = [start |-> e.start, count |-> e.count + 1]]
                   /\ taken' = Once(ip, taken)
    BY <1>4 DEF rate_limit_asap
  <2> DEFINE e == IF ip \in Expired(t) THEN Fresh ELSE t[ip]
  <2>2. IF Reached(e.count, Rpm) THEN rate' = [t EXCEPT ![ip] = e] /\ UNCHANGED taken
        ELSE /\ rate' = [t EXCEPT ![ip] = [start |-> e.start, count |-> e.count + 1]]
             /\ taken' = Once(ip, taken)
    BY <2>1
  <2> QED
    BY <1>3, <2>2
<1> QED
  BY <1>2, <1>4 DEF rate_limit_asap

\* TakenInv holds at first, and when the table is gone.
LEMMA NoRate ==
    ASSUME NEW h, \A ip \in Ips : h[ip] = <<>>, NEW t \in Nat
    PROVE  \A ip \in Ips : TakenOk(h[ip], t) /\ Over(h[ip], t)
<1>1. <<>> \in Seq(Nat) /\ Len(<<>>) = 0 /\ DOMAIN <<>> = {}
  OBVIOUS
<1>2. TakenOk(<<>>, t) /\ Over(<<>>, t)
  BY <1>1 DEF TakenOk, AtMost, Over
<1> QED
  BY <1>2

LEMMA TakenInvInit == AccessInit => TakenInv
<1> SUFFICES ASSUME AccessInit PROVE TakenInv
  OBVIOUS
<1>1. now = 0 /\ DOMAIN rate = {} /\ taken = [ip \in Ips |-> <<>>]
  BY DEF AccessInit, NoTries
<1>2. now \in Nat /\ taken \in [Ips -> Seq(Nat)] /\ \A ip \in Ips : taken[ip] = <<>>
  BY <1>1
<1> QED
  BY <1>1, <1>2, NoRate DEF TakenInv

\* Every step keeps the windows.
LEMMA TakenInvNext == TakenInv /\ [AccessNext]_accessVars => TakenInv'
<1> SUFFICES ASSUME TakenInv, [AccessNext]_accessVars PROVE TakenInv'
  OBVIOUS
<1>1. CASE Asap
  BY <1>1, RateTaken DEF Asap
<1>2. CASE Crash
  <2>1. now' = now /\ now \in Nat /\ DOMAIN rate' = {} /\ taken' = [ip \in Ips |-> <<>>]
    BY <1>2 DEF Crash, NoTries, TakenInv
  <2>2. taken' \in [Ips -> Seq(Nat)] /\ \A ip \in Ips : taken'[ip] = <<>>
    BY <2>1
  <2>3. \A ip \in Ips : TakenOk(taken'[ip], now') /\ Over(taken'[ip], now')
    BY <2>1, <2>2, NoRate
  <2> QED
    BY <2>1, <2>2, <2>3 DEF TakenInv
<1>3. CASE SecondPasses
  <2>1. now' = now + 1 /\ now \in Nat /\ UNCHANGED <<rate, taken>> /\ taken \in [Ips -> Seq(Nat)]
    BY <1>3 DEF SecondPasses, TakenInv
  <2>2. ASSUME NEW ip \in Ips
        PROVE  /\ TakenOk(taken[ip], now')
               /\ IF ip \in DOMAIN rate THEN Windowed(rate[ip], taken[ip], now')
                  ELSE Over(taken[ip], now')
    <3> DEFINE h == taken[ip]
    <3>1. /\ TakenOk(h, now)
          /\ IF ip \in DOMAIN rate THEN Windowed(rate[ip], h, now) ELSE Over(h, now)
          /\ ip \in DOMAIN rate => rate[ip].count # 0
      BY DEF TakenInv
    <3>2. h \in Seq(Nat)
      BY <2>1
    <3> HIDE DEF h
    <3>3. \A k \in 1 .. Len(h) : h[k] \in Nat
      BY <3>2
    <3>4. \A x \in Nat : x <= now => x <= now'
      BY <2>1
    <3>5. \A k \in 1 .. Len(h) : h[k] + Window \in Nat
      BY <3>3, ThrottleAssumption
    <3>6. TakenOk(h, now')
      BY <3>1, <3>3, <3>4 DEF TakenOk
    <3>7. Over(h, now) => Over(h, now')
      BY <3>4, <3>5 DEF Over
    <3>8. ip \in DOMAIN rate => Windowed(rate[ip], h, now')
      BY <3>1, <3>4 DEF Windowed
    <3> QED
      BY <3>1, <3>6, <3>7, <3>8 DEF h
  <2> QED
    BY <2>1, <2>2 DEF TakenInv
<1>4. ASSUME NEW ip \in Ips, PairRefused(ip) \/ PairWrong(ip) \/ auth_pair(ip)
      PROVE  UNCHANGED <<now, rate, taken>>
  BY <1>4 DEF PairRefused, PairWrong, auth_pair
<1>5. CASE \/ GatewayStart \/ Owner \/ TempWritten \/ WriteFails \/ Renamed \/ PairAnswered
           \/ UNCHANGED accessVars
  BY <1>5 DEF GatewayStart, Owner, OwnerEdits, AccessChanges, TempWritten, WriteFails, Renamed,
              PairAnswered, accessVars, TakenInv
<1>6. CASE \E ip \in Ips : PairRefused(ip) \/ PairWrong(ip) \/ auth_pair(ip)
  BY <1>4, <1>6 DEF TakenInv
<1> QED
  BY <1>1, <1>2, <1>3, <1>5, <1>6 DEF AccessNext, Process, Pairing

\* No stretch of a window's length has more than MaxFails wrong codes of an address
\* examined, or two windows' worth of its requests let through, whatever entries the
\* two tables give up (auth.c:350-375, rate_limit.c:86-106).
THEOREM Throttled == AccessSpec => []ThrottleHolds
<1>1. TriesInv /\ TakenInv => ThrottleHolds
  BY DEF TriesInv, TriesOk, TakenInv, TakenOk, ThrottleHolds
<1> QED
  BY AccessInvInit, AccessInvNext, TriesInvInit, TriesInvNext, TakenInvInit, TakenInvNext, <1>1,
     PTL DEF AccessSpec

-----------------------------------------------------------------------------
(* Requests of peers: AsapPeers. *)

\* The requests that may be posted.
Envelopes ==
    [id : 1 .. MaxPosts, valid : {TRUE} \cup {o.valid : o \in Outsiders}, sender : Senders,
     type : {"task.request"} \cup {o.type : o \in Outsiders},
     field : {TRUE} \cup {o.field : o \in Outsiders}]

\* What a client may be answered, or find in the end.
Answers == {"none", "timeout", "ok", "400", "429", "500"}

\* A request that was posted; a tool posts tasks with a text only.
Posted(r) == r.id <= posts /\ (r.id \in asked => Prompt(r))

\* The session of a run is that of its sender.
RunsOf == {<<asap_resolve_task_session_id(s), s>> : s \in Senders}

PostsInv ==
    /\ posts \in 0 .. MaxPosts
    /\ asked \subseteq 1 .. posts
    /\ answer \in [1 .. MaxPosts -> Answers]
    /\ ran \in [1 .. MaxPosts -> {<<>>} \cup RunsOf]
    /\ inbox \in [Nodes -> Seq(Envelopes)]
    /\ \A n \in Nodes : \A k \in 1 .. Len(inbox[n]) : Posted(inbox[n][k])

\* What a service thread has in hand; past the lock it has run the agent for it if
\* a tool of a peer waits for it.
InHand(s) ==
    \/ s = Idle
    \/ /\ s.pc \in {"lock", "run", "wait", "answer"}
       /\ s.req \in Envelopes /\ Posted(s.req)
       /\ s.pc # "lock" /\ s.req.id \in asked => ran[s.req.id] # <<>>

ServiceInv ==
    /\ \E S : thread \in [Nodes -> [PeerThreads -> S]]
    /\ \A n \in Nodes : InHand(thread[n]["service"])

\* Only what was posted is answered, and what a tool waits for with a run.
AnsweredInv ==
    \A i \in 1 .. MaxPosts :
        answer[i] = "ok" => i <= posts /\ (i \in asked => ran[i] # <<>>)

PeersInv == PostsInv /\ ServiceInv /\ AnsweredInv

\* A request has a number and a sender.
LEMMA EnvelopeFacts ==
    ASSUME NEW r \in Envelopes
    PROVE  r.id \in 1 .. MaxPosts /\ r.id \in Nat /\ r.id >= 1 /\ r.sender \in Senders
<1>1. r.id \in 1 .. MaxPosts /\ r.sender \in Senders
  BY Zenon DEF Envelopes
<1> QED
  BY <1>1, PostsAssumption

\* Nothing is posted at first.
LEMMA PeersInvInit == PeersInit => PeersInv
<1> SUFFICES ASSUME PeersInit PROVE PeersInv
  OBVIOUS
<1>1. PostsInv
  <2>1. posts = 0 /\ asked = {} /\ posts \in 0 .. MaxPosts
    BY PostsAssumption DEF PeersInit
  <2>2. <<>> \in {<<>>} \cup RunsOf
    OBVIOUS
  <2>3. answer \in [1 .. MaxPosts -> Answers]
    BY DEF PeersInit, Answers
  <2>4. ran \in [1 .. MaxPosts -> {<<>>} \cup RunsOf]
    BY <2>2 DEF PeersInit
  <2>5. inbox \in [Nodes -> Seq(Envelopes)] /\ \A n \in Nodes : Len(inbox[n]) = 0
    BY DEF PeersInit
  <2> QED
    BY <2>1, <2>3, <2>4, <2>5 DEF PostsInv
<1>2. thread \in [Nodes -> [PeerThreads -> {Idle}]]
  BY DEF PeersInit
<1>3. \A n \in Nodes : thread[n]["service"] = Idle
  BY DEF PeersInit, PeerThreads
<1> QED
  BY <1>1, <1>2, <1>3 DEF PeersInit, PeersInv, ServiceInv, InHand, AnsweredInv

\* A thread goes on and the others stay where they are.
LEMMA BecomeFacts ==
    ASSUME ServiceInv, NEW n \in Nodes, NEW t \in PeerThreads, NEW s, Become(n, t, s)
    PROVE  /\ \E S : thread' \in [Nodes -> [PeerThreads -> S]]
           /\ thread'[n][t] = s
           /\ \A m \in Nodes, u \in PeerThreads : m # n \/ u # t => thread'[m][u] = thread[m][u]
<1>1. PICK S : thread \in [Nodes -> [PeerThreads -> S]]
  BY DEF ServiceInv
<1>2. thread' = [thread EXCEPT ![n][t] = s]
  BY DEF Become
<1>3. thread' \in [Nodes -> [PeerThreads -> S \cup {s}]]
  BY <1>1, <1>2
<1> QED
  BY <1>1, <1>2, <1>3

\* What is in hand stays so while requests are posted and agents run.
LEMMA InHandStays ==
    ASSUME PostsInv, NEW s, InHand(s), posts' \in Nat, posts <= posts',
           \A i \in asked' : i \in asked \/ i > posts,
           \A i \in 1 .. MaxPosts : ran[i] # <<>> => ran'[i] # <<>>
    PROVE  InHand(s)'
<1>1. CASE s = Idle
  BY <1>1 DEF InHand
<1>2. CASE s # Idle
  <2>1. /\ s.pc \in {"lock", "run", "wait", "answer"}
        /\ s.req \in Envelopes /\ Posted(s.req)
        /\ s.pc # "lock" /\ s.req.id \in asked => ran[s.req.id] # <<>>
    BY <1>2 DEF InHand
  <2>2. s.req.id \in 1 .. MaxPosts /\ s.req.id \in Nat /\ posts \in Nat
    BY <2>1, EnvelopeFacts, PostsAssumption DEF PostsInv
  <2>3. s.req.id <= posts' /\ (s.req.id \in asked' => s.req.id \in asked)
    BY <2>1, <2>2 DEF Posted
  <2>4. s.req.id \in asked => Prompt(s.req)
    BY <2>1 DEF Posted
  <2> QED
    BY <2>1, <2>2, <2>3, <2>4 DEF InHand, Posted, Prompt
<1> QED
  BY <1>1, <1>2

\* A step that posts nothing keeps what waits in the inboxes.
LEMMA PostsStay ==
    ASSUME PostsInv, UNCHANGED <<inbox, posts, asked>>,
           answer' \in [1 .. MaxPosts -> Answers],
           ran' \in [1 .. MaxPosts -> {<<>>} \cup RunsOf]
    PROVE  PostsInv'
  BY DEF PostsInv, Posted, Prompt

\* A new request is put behind the others, under a number of its own.
LEMMA PostFacts ==
    ASSUME PostsInv, NEW n \in Nodes, NEW e \in Envelopes,
           posts < MaxPosts, posts' = posts + 1, e.id = posts',
           asked' = asked \/ (asked' = asked \cup {posts'} /\ Prompt(e)),
           inbox' = [inbox EXCEPT ![n] = Append(@, e)], UNCHANGED <<answer, ran>>
    PROVE  /\ PostsInv'
           /\ posts' \in Nat /\ posts <= posts'
           /\ \A i \in asked' : i \in asked \/ i > posts
<1>1. posts \in Nat /\ MaxPosts \in Nat /\ posts' \in 0 .. MaxPosts /\ posts <= posts'
  BY PostsAssumption DEF PostsInv
<1>2. asked \subseteq 1 .. posts /\ asked' \subseteq 1 .. posts' /\ posts' \notin asked
  <2>1. asked \subseteq 1 .. posts
    BY DEF PostsInv
  <2>2. \A i \in 1 .. posts : i \in 1 .. posts' /\ i # posts'
    BY <1>1
  <2>3. posts' \in 1 .. posts'
    BY <1>1
  <2> QED
    BY <2>1, <2>2, <2>3
<1>3. \A i \in asked' : i \in asked \/ i > posts
  BY <1>1
<1>4. inbox \in [Nodes -> Seq(Envelopes)] /\ inbox' \in [Nodes -> Seq(Envelopes)]
  BY DEF PostsInv
<1>5. ASSUME NEW m \in Nodes, NEW k \in 1 .. Len(inbox'[m]) PROVE Posted(inbox[m][k])'
  <2>1. CASE m # n \/ k <= Len(inbox[m])
    <3>1. k \in 1 .. Len(inbox[m]) /\ inbox'[m][k] = inbox[m][k]
      BY <1>4, <2>1
    <3>2. Posted(inbox[m][k]) /\ inbox[m][k] \in Envelopes
      BY <1>4, <3>1 DEF PostsInv
    <3>3. inbox[m][k].id \in Nat
      BY <3>2, EnvelopeFacts
    <3> QED
      BY <1>1, <1>3, <3>1, <3>2, <3>3 DEF Posted, Prompt
  <2>2. CASE m = n /\ k > Len(inbox[m])
    <3>1. inbox'[m][k] = e
      BY <1>4, <2>2
    <3> QED
      BY <1>1, <1>2, <3>1 DEF Posted, Prompt
  <2> QED
    BY <1>4, <2>1, <2>2
<1> QED
  BY <1>1, <1>2, <1>3, <1>4, <1>5 DEF PostsInv

\* A thread gets another state, and everything else of ServiceInv stays.
LEMMA ServiceStays ==
    ASSUME PeersInv, NEW n \in Nodes, NEW t \in PeerThreads, NEW s, Become(n, t, s),
           posts' \in Nat, posts <= posts',
           \A i \in asked' : i \in asked \/ i > posts,
           \A i \in 1 .. MaxPosts : ran[i] # <<>> => ran'[i] # <<>>,
           t = "service" => InHand(s)'
    PROVE  ServiceInv'
<1>1. ServiceInv /\ PostsInv
  BY DEF PeersInv
<1>2. /\ \E S : thread' \in [Nodes -> [PeerThreads -> S]]
      /\ thread'[n][t] = s
      /\ \A m \in Nodes, u \in PeerThreads : m # n \/ u # t => thread'[m][u] = thread[m][u]
  BY <1>1, BecomeFacts
<1>3. ASSUME NEW m \in Nodes PROVE InHand(thread[m]["service"])'
  <2>1. CASE m = n /\ t = "service"
    <3>1. thread'[m]["service"] = s
      BY <1>2, <2>1
    <3> QED
      BY <2>1, <3>1 DEF InHand, Posted, Prompt
  <2>2. CASE ~(m = n /\ t = "service")
    <3>1. thread'[m]["service"] = thread[m]["service"]
      BY <1>2, <2>2 DEF PeerThreads
    <3> DEFINE h == thread[m]["service"]
    <3>2. InHand(h)
      BY <1>1 DEF ServiceInv
    <3> QED
      BY <1>1, <3>1, <3>2, InHandStays DEF InHand, Posted, Prompt
  <2> QED
    BY <2>1, <2>2
<1> QED
  BY <1>2, <1>3 DEF ServiceInv

\* A thread of either kind posts a task for a tool and waits.
LEMMA TaskPosted ==
    ASSUME PeersInv, NEW n \in Nodes, NEW t \in PeerThreads, NEW m \in Nodes,
           asap_client_send_task(n, t, m)
    PROVE  PeersInv'
<1> PICK h : h = thread[n][t]
  OBVIOUS
<1> PICK e : e = [id |-> posts', valid |-> TRUE, sender |-> n, type |-> "task.request",
                  field |-> TRUE]
  OBVIOUS
<1> PICK s : s = [pc |-> "wait", req |-> h.req, for |-> posts']
  OBVIOUS
<1>1. /\ h.pc = "run" /\ posts < MaxPosts /\ posts' = posts + 1
      /\ inbox' = [inbox EXCEPT ![m] = Append(@, e)]
      /\ Become(n, t, s)
      /\ asked' = asked \cup {posts'} /\ UNCHANGED <<lock, answer, ran>>
  BY DEF asap_client_send_task
<1>2. posts' \in 1 .. MaxPosts
  BY <1>1, PostsAssumption DEF PeersInv, PostsInv
<1>3. e \in Envelopes /\ e.id = posts' /\ Prompt(e)
  BY <1>2 DEF Envelopes, Senders, Prompt
<1>4. /\ PostsInv' /\ posts' \in Nat /\ posts <= posts'
      /\ \A i \in asked' : i \in asked \/ i > posts
  BY <1>1, <1>3, PostFacts DEF PeersInv
<1>5. t = "service" => InHand(s)'
  <2> SUFFICES ASSUME t = "service" PROVE InHand(s)'
    OBVIOUS
  <2>1. InHand(h) /\ h.pc = "run" /\ PostsInv
    BY <1>1 DEF PeersInv, ServiceInv
  <2>2. s.pc = "wait" /\ s.req = h.req
    OBVIOUS
  <2>3. /\ h.req \in Envelopes /\ Posted(h.req) /\ h.req.id \in 1 .. posts
        /\ h.req.id \in asked => ran[h.req.id] # <<>>
    BY <2>1, EnvelopeFacts, PostsAssumption DEF InHand, Idle, Posted, PostsInv
  <2> QED
    BY <1>1, <1>2, <1>4, <2>1, <2>2, <2>3 DEF InHand, Posted, Prompt, PostsInv
<1>6. ServiceInv'
  BY <1>1, <1>4, <1>5, ServiceStays
<1>7. AnsweredInv'
  BY <1>1, <1>4 DEF PeersInv, AnsweredInv, PostsInv
<1> QED
  BY <1>4, <1>6, <1>7 DEF PeersInv

\* A step of a thread that posts nothing.
LEMMA QuietStep ==
    ASSUME PeersInv, NEW n \in Nodes, NEW t \in PeerThreads, NEW s, Become(n, t, s),
           UNCHANGED <<posts, asked>>, PostsInv',
           \A i \in 1 .. MaxPosts : ran[i] # <<>> => ran'[i] # <<>>,
           t = "service" => InHand(s)', AnsweredInv'
    PROVE  PeersInv'
<1>2. posts' \in Nat /\ posts <= posts' /\ \A i \in asked' : i \in asked \/ i > posts
  BY PostsAssumption DEF PeersInv, PostsInv
<1>3. ServiceInv'
  BY <1>2, ServiceStays
<1> QED
  BY <1>3 DEF PeersInv

\* The main thread has nothing in hand that counts here.
LEMMA MainKeeps ==
    ASSUME PeersInv, NEW n \in Nodes, StartTurn(n) \/ EndTurn(n)
    PROVE  PeersInv'
<1>1. PICK s : Become(n, "main", s)
  BY DEF StartTurn, EndTurn
<1>2. UNCHANGED <<inbox, answer, posts, ran, asked>>
  BY DEF StartTurn, EndTurn
<1>3. /\ answer' \in [1 .. MaxPosts -> Answers] /\ ran' \in [1 .. MaxPosts -> {<<>>} \cup RunsOf]
      /\ \A i \in 1 .. MaxPosts : ran[i] # <<>> => ran'[i] # <<>>
  BY <1>2 DEF PeersInv, PostsInv
<1>4. AnsweredInv' /\ "main" \in PeerThreads /\ "main" # "service"
  BY <1>2 DEF PeersInv, AnsweredInv, PeerThreads
<1> QED
  BY <1>1, <1>2, <1>3, <1>4, PostsStay, QuietStep DEF PeersInv

\* A wait ends, by an answer or without one.
LEMMA WaitEnds ==
    ASSUME PeersInv, NEW n \in Nodes, NEW t \in PeerThreads,
           AnswerArrives(n, t) \/ TimedOut(n, t)
    PROVE  PeersInv'
<1> PICK h : h = thread[n][t]
  OBVIOUS
<1> PICK s : s = [pc |-> "run", req |-> h.req]
  OBVIOUS
<1>1. /\ h.pc = "wait" /\ Become(n, t, s)
      /\ UNCHANGED <<inbox, posts, ran, asked>>
      /\ UNCHANGED answer \/ answer' = [answer EXCEPT ![h.for] = "timeout"]
  BY DEF AnswerArrives, TimedOut
<1>2. answer' \in [1 .. MaxPosts -> Answers] /\ AnsweredInv'
  BY <1>1 DEF PeersInv, PostsInv, AnsweredInv, Answers
<1>3. t = "service" => InHand(s)'
  <2> SUFFICES ASSUME t = "service" PROVE InHand(s)'
    OBVIOUS
  <2>1. InHand(h)
    BY DEF PeersInv, ServiceInv
  <2>2. s.pc = "run" /\ s.req = h.req
    OBVIOUS
  <2> QED
    BY <1>1, <2>1, <2>2 DEF InHand, Idle, Posted, Prompt
<1>4. /\ ran' \in [1 .. MaxPosts -> {<<>>} \cup RunsOf]
      /\ \A i \in 1 .. MaxPosts : ran[i] # <<>> => ran'[i] # <<>>
  BY <1>1 DEF PeersInv, PostsInv
<1> QED
  BY <1>1, <1>2, <1>3, <1>4, PostsStay, QuietStep DEF PeersInv

\* Somebody else posts.
LEMMA OutsiderKeeps ==
    ASSUME PeersInv, NEW n \in Nodes, OutsiderPosts(n)
    PROVE  PeersInv'
<1>1. PICK o \in Outsiders :
         inbox' = [inbox EXCEPT ![n] =
                      Append(@, [id |-> posts', valid |-> o.valid, sender |-> o.sender,
                                 type |-> o.type, field |-> o.field])]
  BY DEF OutsiderPosts
<1> PICK e : e = [id |-> posts', valid |-> o.valid, sender |-> o.sender, type |-> o.type,
                  field |-> o.field]
  OBVIOUS
<1>2. /\ posts < MaxPosts /\ posts' = posts + 1
      /\ UNCHANGED <<thread, answer, ran, asked>>
  BY DEF OutsiderPosts
<1>3. posts' \in 1 .. MaxPosts
  BY <1>2, PostsAssumption DEF PeersInv, PostsInv
<1>4. e \in Envelopes /\ e.id = posts'
  BY <1>3 DEF Envelopes, Senders
<1>5. /\ PostsInv' /\ posts' \in Nat /\ posts <= posts'
      /\ \A i \in asked' : i \in asked \/ i > posts
  BY <1>1, <1>2, <1>4, PostFacts DEF PeersInv
<1>6. ServiceInv'
  <2>1. \E S : thread' \in [Nodes -> [PeerThreads -> S]]
    BY <1>2 DEF PeersInv, ServiceInv
  <2>2. ASSUME NEW m \in Nodes PROVE InHand(thread[m]["service"])'
    <3> PICK h : h = thread[m]["service"]
      OBVIOUS
    <3>1. InHand(h) /\ PostsInv
      BY DEF PeersInv, ServiceInv
    <3>2. InHand(h)'
      BY <1>2, <1>5, <3>1, InHandStays
    <3> QED
      BY <1>2, <3>2 DEF InHand, Posted, Prompt
  <2> QED
    BY <2>1, <2>2 DEF ServiceInv
<1>7. AnsweredInv'
  BY <1>2, <1>5 DEF PeersInv, AnsweredInv, PostsInv
<1> QED
  BY <1>5, <1>6, <1>7 DEF PeersInv

\* An answer other than "ok" needs no run, and one that was given stays.
LEMMA ReplyFacts ==
    ASSUME PeersInv, NEW r \in Envelopes, NEW what \in Answers, Reply(r.id, what),
           UNCHANGED <<posts, asked, ran>>, Posted(r),
           what = "ok" /\ r.id \in asked => ran[r.id] # <<>>
    PROVE  answer' \in [1 .. MaxPosts -> Answers] /\ AnsweredInv'
<1>1. answer \in [1 .. MaxPosts -> Answers] /\ r.id \in 1 .. MaxPosts /\ r.id <= posts
  BY EnvelopeFacts DEF PeersInv, PostsInv, Posted
<1>2. answer' = [answer EXCEPT ![r.id] = IF @ = "none" THEN what ELSE @]
  BY DEF Reply
<1>3. /\ answer' \in [1 .. MaxPosts -> Answers]
      /\ \A i \in 1 .. MaxPosts : answer'[i] = answer[i] \/ (i = r.id /\ answer'[i] = what)
  BY <1>1, <1>2
<1> QED
  BY <1>1, <1>3 DEF PeersInv, AnsweredInv

\* The first request leaves the inbox, answered at once or taken in hand.
LEMMA HandleKeeps ==
    ASSUME PeersInv, NEW n \in Nodes, handle_asap(n)
    PROVE  PeersInv'
<1> PICK r : r = Head(inbox[n])
  OBVIOUS
<1>1. /\ inbox[n] # <<>> /\ inbox' = [inbox EXCEPT ![n] = Tail(@)]
      /\ UNCHANGED <<lock, posts, ran, asked>>
      /\ \/ \E what \in {"429", "400"} : Reply(r.id, what) /\ UNCHANGED thread
         \/ \E pc \in {"answer", "lock"} :
               /\ Become(n, "service", [pc |-> pc, req |-> r]) /\ UNCHANGED answer
               /\ pc = "answer" => Cancel(r)
  BY DEF handle_asap
<1>2. inbox \in [Nodes -> Seq(Envelopes)]
  BY DEF PeersInv, PostsInv
<1>3. r \in Envelopes /\ Posted(r)
  <2>1. r = inbox[n][1] /\ 1 \in 1 .. Len(inbox[n]) /\ inbox[n][1] \in Envelopes
    BY <1>1, <1>2
  <2> QED
    BY <2>1 DEF PeersInv, PostsInv
<1>4. inbox' \in [Nodes -> Seq(Envelopes)]
  BY <1>1, <1>2
<1>5. ASSUME NEW m \in Nodes, NEW k \in 1 .. Len(inbox'[m]) PROVE Posted(inbox[m][k])'
  <2>1. \E j \in 1 .. Len(inbox[m]) : inbox'[m][k] = inbox[m][j]
    <3>1. CASE m = n
      <4>1. inbox'[m] = Tail(inbox[m]) /\ inbox[m] # <<>> /\ inbox[m] \in Seq(Envelopes)
        BY <1>1, <1>2, <3>1
      <4>2. k + 1 \in 1 .. Len(inbox[m]) /\ inbox'[m][k] = inbox[m][k + 1]
        BY <4>1
      <4> QED
        BY <4>2
    <3>2. CASE m # n
      BY <1>1, <1>2, <3>2
    <3> QED
      BY <3>1, <3>2
  <2> QED
    BY <1>1, <2>1 DEF PeersInv, PostsInv, Posted, Prompt
<1>6. ASSUME answer' \in [1 .. MaxPosts -> Answers] PROVE PostsInv'
  BY <1>1, <1>4, <1>5, <1>6 DEF PeersInv, PostsInv
<1>7. ASSUME NEW what \in {"429", "400"}, Reply(r.id, what), UNCHANGED thread
      PROVE  PeersInv'
  <2>1. what \in Answers /\ what # "ok"
    BY DEF Answers
  <2>2. answer' \in [1 .. MaxPosts -> Answers] /\ AnsweredInv'
    BY <1>1, <1>3, <1>7, <2>1, ReplyFacts
  <2>3. ServiceInv'
    BY <1>1, <1>7 DEF PeersInv, ServiceInv, InHand, Posted, Prompt
  <2> QED
    BY <1>6, <2>2, <2>3 DEF PeersInv
<1>8. ASSUME NEW pc \in {"answer", "lock"}, UNCHANGED answer,
             Become(n, "service", [pc |-> pc, req |-> r]), pc = "answer" => Cancel(r)
      PROVE  PeersInv'
  <2> PICK s : s = [pc |-> pc, req |-> r]
    OBVIOUS
  <2>1. s.pc = pc /\ s.req = r /\ "service" \in PeerThreads /\ Become(n, "service", s)
    BY <1>8 DEF PeerThreads
  <2>2. r.id \in asked => pc = "lock"
    BY <1>3, <1>8 DEF Posted, Prompt, Cancel
  <2>3. InHand(s)'
    BY <1>1, <1>3, <2>1, <2>2 DEF InHand, Posted, Prompt
  <2>4. PostsInv' /\ AnsweredInv'
    BY <1>1, <1>6, <1>8 DEF PeersInv, PostsInv, AnsweredInv
  <2> QED
    BY <1>1, <2>1, <2>3, <2>4, QuietStep
<1> QED
  BY <1>1, <1>7, <1>8

\* The lock is taken, and the agent is run for a task with a text.
LEMMA LockedKeeps ==
    ASSUME PeersInv, NEW n \in Nodes, Locked(n)
    PROVE  PeersInv'
<1> PICK h : h = thread[n]["service"]
  OBVIOUS
<1> PICK r : r = h.req
  OBVIOUS
<1>1. /\ h.pc = "lock" /\ UNCHANGED <<inbox, answer, posts, asked>>
      /\ \/ /\ r.type = "state.query" /\ UNCHANGED ran
            /\ Become(n, "service", [pc |-> "answer", req |-> r])
         \/ /\ Become(n, "service", [pc |-> "run", req |-> r])
            /\ ran' = IF Prompt(r)
                      THEN [ran EXCEPT ![r.id] = <<asap_resolve_task_session_id(r.sender), r.sender>>]
                      ELSE ran
  BY DEF Locked, StateQuery
<1>2. r \in Envelopes /\ Posted(r) /\ r.id \in 1 .. MaxPosts /\ r.sender \in Senders
  <2>1. InHand(h)
    BY DEF PeersInv, ServiceInv
  <2> QED
    BY <1>1, <2>1, EnvelopeFacts DEF InHand, Idle
<1>3. ran \in [1 .. MaxPosts -> {<<>>} \cup RunsOf]
  BY DEF PeersInv, PostsInv
<1>4. /\ ran' \in [1 .. MaxPosts -> {<<>>} \cup RunsOf]
      /\ \A i \in 1 .. MaxPosts : ran[i] # <<>> => ran'[i] # <<>>
  <2> PICK e : e = <<asap_resolve_task_session_id(r.sender), r.sender>>
    OBVIOUS
  <2>1. e \in RunsOf /\ e # <<>>
    BY <1>2 DEF RunsOf
  <2>2. UNCHANGED ran \/ ran' = [ran EXCEPT ![r.id] = e]
    BY <1>1
  <2> QED
    BY <1>2, <1>3, <2>1, <2>2, ZenonT(30)
<1>5. PostsInv' /\ AnsweredInv' /\ "service" \in PeerThreads
  <2>1. PostsInv'
    BY <1>1, <1>4, PostsStay DEF PeersInv, PostsInv
  <2> QED
    BY <1>1, <1>4, <2>1 DEF PeersInv, AnsweredInv, PeerThreads
<1>6. CASE r.type = "state.query" /\ Become(n, "service", [pc |-> "answer", req |-> r])
  <2> PICK s : s = [pc |-> "answer", req |-> r]
    OBVIOUS
  <2>1. s.pc = "answer" /\ s.req = r /\ Become(n, "service", s)
    BY <1>6
  <2>2. r.id \notin asked
    BY <1>2, <1>6 DEF Posted, Prompt
  <2>3. InHand(s)'
    BY <1>1, <1>2, <2>1, <2>2 DEF InHand, Posted, Prompt
  <2> QED
    BY <1>1, <1>4, <1>5, <2>1, <2>3, QuietStep
<1>7. CASE /\ Become(n, "service", [pc |-> "run", req |-> r])
           /\ ran' = IF Prompt(r)
                     THEN [ran EXCEPT ![r.id] = <<asap_resolve_task_session_id(r.sender), r.sender>>]
                     ELSE ran
  <2> PICK s : s = [pc |-> "run", req |-> r]
    OBVIOUS
  <2>1. s.pc = "run" /\ s.req = r /\ Become(n, "service", s)
    BY <1>7
  <2>2. r.id \in asked => ran'[r.id] # <<>>
    BY <1>2, <1>3, <1>7 DEF Posted
  <2>3. InHand(s)'
    BY <1>1, <1>2, <2>1, <2>2 DEF InHand, Posted, Prompt
  <2> QED
    BY <1>1, <1>4, <1>5, <2>1, <2>3, QuietStep
<1> QED
  BY <1>1, <1>6, <1>7

\* A request in hand is answered after its run, with an error or its result.
LEMMA AnswerKeeps ==
    ASSUME PeersInv, NEW n \in Nodes, Unlocked(n) \/ write_asap_jsonrpc(n)
    PROVE  PeersInv'
<1> PICK h : h = thread[n]["service"]
  OBVIOUS
<1> PICK r : r = h.req
  OBVIOUS
<1>1. /\ h.pc \in {"run", "answer"} /\ UNCHANGED <<inbox, posts, asked, ran>>
      /\ \/ Become(n, "service", [pc |-> "answer", req |-> r]) /\ UNCHANGED answer
         \/ /\ Become(n, "service", Idle)
            /\ \E what \in {"400", "ok", "500"} : Reply(r.id, what)
  BY DEF Unlocked, write_asap_jsonrpc
<1>2. /\ r \in Envelopes /\ Posted(r)
      /\ r.id \in asked => ran[r.id] # <<>>
  <2>1. InHand(h)
    BY DEF PeersInv, ServiceInv
  <2> QED
    BY <1>1, <2>1 DEF InHand, Idle
<1>3. answer' \in [1 .. MaxPosts -> Answers] /\ AnsweredInv'
  <2>1. CASE UNCHANGED answer
    BY <1>1, <2>1 DEF PeersInv, PostsInv, AnsweredInv
  <2>2. ASSUME NEW what \in {"400", "ok", "500"}, Reply(r.id, what)
        PROVE  answer' \in [1 .. MaxPosts -> Answers] /\ AnsweredInv'
    <3>1. what \in Answers
      BY DEF Answers
    <3> QED
      BY <1>1, <1>2, <2>2, <3>1, ReplyFacts
  <2> QED
    BY <1>1, <2>1, <2>2
<1>4. PostsInv' /\ "service" \in PeerThreads /\ \A i \in 1 .. MaxPosts : ran[i] # <<>> => ran'[i] # <<>>
  BY <1>1, <1>3, PostsStay DEF PeersInv, PostsInv, PeerThreads
<1>5. PICK s : Become(n, "service", s) /\ (s = Idle \/ s = [pc |-> "answer", req |-> r])
  BY <1>1
<1>6. InHand(s)'
  BY <1>1, <1>2, <1>5 DEF InHand, Posted, Prompt
<1> QED
  BY <1>1, <1>3, <1>4, <1>5, <1>6, QuietStep

\* Every step keeps the invariant.
LEMMA PeersInvNext == PeersInv /\ [PeersNext]_peerVars => PeersInv'
<1> SUFFICES ASSUME PeersInv, [PeersNext]_peerVars PROVE PeersInv'
  OBVIOUS
<1>1. CASE UNCHANGED peerVars
  BY <1>1 DEF peerVars, PeersInv, PostsInv, ServiceInv, AnsweredInv, InHand, Posted, Prompt
<1>2. ASSUME NEW n \in Nodes, Client(n) PROVE PeersInv'
  BY <1>2, MainKeeps, WaitEnds, TaskPosted DEF Client
<1>3. ASSUME NEW n \in Nodes, Server(n) PROVE PeersInv'
  BY <1>3, HandleKeeps, LockedKeeps, AnswerKeeps DEF Server
<1> QED
  BY <1>1, <1>2, <1>3, OutsiderKeeps DEF PeersNext

\* For any daemons, outsiders and number of requests, a peer that is told "ok" had
\* the agent run for its request, and no session is shared by two senders
\* (server.c:114-130, 155-160).
THEOREM SessionsOwned == PeersSpec => []OwnSession
<1>1. PeersInv => OwnSession
  <2> SUFFICES ASSUME PeersInv PROVE OwnSession
    OBVIOUS
  <2>1. \A i \in asked : answer[i] = "ok" => ran[i] # <<>>
    BY PostsAssumption DEF PeersInv, PostsInv, AnsweredInv
  <2>2. ASSUME NEW i \in 1 .. MaxPosts, NEW j \in 1 .. MaxPosts,
               ran[i] # <<>>, ran[j] # <<>>, ran[i][1] = ran[j][1]
        PROVE  ran[i][2] = ran[j][2]
    <3>1. ran[i] \in RunsOf /\ ran[j] \in RunsOf
      BY <2>2 DEF PeersInv, PostsInv
    <3>2. PICK a \in Senders, b \in Senders :
             /\ ran[i] = <<asap_resolve_task_session_id(a), a>>
             /\ ran[j] = <<asap_resolve_task_session_id(b), b>>
      BY <3>1 DEF RunsOf
    <3>3. ~(a = "" /\ b = "inbound") /\ ~(a = "inbound" /\ b = "")
      BY SendersAssumption
    <3>4. /\ ran[i][1] = asap_resolve_task_session_id(a) /\ ran[i][2] = a
          /\ ran[j][1] = asap_resolve_task_session_id(b) /\ ran[j][2] = b
      BY <3>2
    <3>5. asap_resolve_task_session_id(a)[2] = asap_resolve_task_session_id(b)[2]
      BY <2>2, <3>4
    <3>6. (IF a = "" THEN "inbound" ELSE a) = (IF b = "" THEN "inbound" ELSE b)
      BY <3>5 DEF asap_resolve_task_session_id
    <3> QED
      BY <3>3, <3>4, <3>6
  <2> QED
    BY <2>1, <2>2 DEF OwnSession
<1> QED
  BY PeersInvInit, PeersInvNext, <1>1, PTL DEF PeersSpec
=============================================================================
