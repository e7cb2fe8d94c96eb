--------------------------- MODULE GatewayAccess ---------------------------
(***************************************************************************)
(* Who gets through to the gateway: pairing and its tokens                 *)
(* (gateway/auth.c), the lockout after wrong codes, and the rate limit of  *)
(* POST /asap (gateway/rate_limit.c), as POST /pair and POST /asap use     *)
(* them in gateway/routes.c.  All of it runs on the service thread; the    *)
(* process may crash between any two steps of a pairing, and the owner may *)
(* edit the token file or make it unreadable for a while.  A token or a    *)
(* code is a number that nobody guesses.                                   *)
(***************************************************************************)
EXTENDS Integers, Sequences, FiniteSets, SequencesExt

CONSTANTS
    Ips,          \* addresses of clients
    LockSlots,    \* LOCKOUT_TABLE_SIZE
    MaxFails,     \* PAIR_LOCKOUT_MAX_FAILS
    RateSlots,    \* RATE_LIMIT_TABLE_SIZE
    Rpm,          \* ASAP_RATE_LIMIT_RPM
    Window,       \* PAIR_LOCKOUT_WINDOW_SECS and ASAP_RATE_WINDOW_SECS
    TokenCap,     \* the 16 of auth_pair
    MaxNow,       \* bound on the clock
    MaxTokens,    \* bound on the tokens there are
    MaxCrashes,   \* bound on the crashes
    MaxOwner      \* bound on what the owner does to the file

ASSUME CapAssumption == TokenCap \in Nat
ASSUME ThrottleAssumption ==
    /\ LockSlots \in Nat \ {0} /\ MaxFails \in Nat \ {0}
    /\ Rpm \in Nat \ {0} /\ Window \in Nat \ {0}

NoPair == [pc |-> "idle"]

VARIABLES
    now,       \* time(NULL)
    running,   \* the process is up
    file,      \* the tokens in auth_tokens.json
    form,      \* what a reader of it meets, one of Forms
    code,      \* pending_pairing_code, 0 for NULL
    pair,      \* the pairing in progress, or NoPair
    lockout,   \* ctx->lockout, in the order the slots were taken
    rate,      \* s_table: address -> [start, count]
    tokens,    \* how many tokens were generated
    codes,     \* how many codes were generated
    crashes,   \* how many crashes there were
    acts,      \* how often the owner changed the file or the access to it
    given,     \* history: [token, code] of every answer 200 to POST /pair
    gone,      \* history: the tokens that the cap, the owner or a pairing that
               \* could not read the file removed
    tries,     \* history: when wrong codes of an address were examined
    taken      \* history: when requests of an address were let through

pairVars == <<running, file, form, code, pair, tokens, codes, crashes, acts, given, gone>>
accessVars == <<now, pairVars, lockout, rate, tries, taken>>

NoTries == <<>>
Once(ip, h) == [h EXCEPT ![ip] = Append(@, now)]

\* The file is empty or missing, holds an array of tokens, can be opened but does
\* not parse as an array (or not in the 8191 bytes that are read), or cannot be
\* opened: its mode, its directory not mounted, no descriptor left.
Forms == {"none", "array", "other", "closed"}

\* A file that cannot be opened counts as missing, whatever it holds.
is_file_empty_or_missing == form \in {"none", "closed"}

auth_get_or_create_pairing_code ==
    IF is_file_empty_or_missing THEN code' = codes + 1 /\ codes' = codes + 1
    ELSE code' = 0 /\ UNCHANGED codes

\* What auth_pair and auth_validate_token find in the file.
Read == IF form = "array" THEN file ELSE <<>>

AccessInit ==
    /\ now = 0
    /\ running = FALSE
    /\ file = <<>> /\ form = "none" /\ code = 0 /\ pair = NoPair
    /\ lockout = <<>> /\ rate = [ip \in {} |-> 0]
    /\ tokens = 0 /\ codes = 0 /\ crashes = 0 /\ acts = 0
    /\ given = {} /\ gone = {}
    /\ tries = [ip \in Ips |-> NoTries] /\ taken = [ip \in Ips |-> NoTries]

GatewayStart ==
    /\ ~running
    /\ running' = TRUE
    /\ codes < MaxTokens
    /\ auth_get_or_create_pairing_code
    /\ UNCHANGED <<now, file, form, pair, lockout, rate, tokens, crashes, acts, given, gone,
                   tries, taken>>

\* The tables live in memory, and what they held is forgotten with them.
Crash ==
    /\ running /\ crashes < MaxCrashes
    /\ crashes' = crashes + 1
    /\ running' = FALSE
    /\ pair' = NoPair /\ code' = 0
    /\ lockout' = <<>> /\ rate' = [ip \in {} |-> 0]
    /\ tries' = [ip \in Ips |-> NoTries] /\ taken' = [ip \in Ips |-> NoTries]
    /\ UNCHANGED <<now, file, form, tokens, codes, acts, given, gone>>

SecondPasses ==
    /\ now < MaxNow /\ pair = NoPair
    /\ now' = now + 1
    /\ UNCHANGED <<pairVars, lockout, rate, tries, taken>>

\* The owner removes the file, or puts one of older tokens or one that is not an
\* array in its place.
OwnerEdits ==
    /\ acts < MaxOwner
    /\ acts' = acts + 1
    /\ \/ form' \in {"none", "other"} /\ file' = <<>> /\ UNCHANGED tokens
       \/ /\ tokens + TokenCap <= MaxTokens
          /\ form' = "array"
          /\ file' = [i \in 1 .. TokenCap |-> tokens + i]
          /\ tokens' = tokens + TokenCap
    /\ gone' = gone \cup Range(file)
    /\ UNCHANGED <<now, running, code, pair, lockout, rate, codes, crashes, given, tries, taken>>

\* The file becomes unreadable, or readable again with what it held.
AccessChanges ==
    /\ acts < MaxOwner
    /\ acts' = acts + 1
    /\ \/ form = "array" /\ form' = "closed"
       \/ form = "closed" /\ form' = "array"
    /\ UNCHANGED <<now, running, file, code, pair, lockout, rate, tokens, codes, crashes, given,
                   gone, tries, taken>>

-----------------------------------------------------------------------------
(* The lockout of POST /pair. *)

Slot(ip) == {i \in DOMAIN lockout : lockout[i].ip = ip}

NewEntry(ip) == [ip |-> ip, fails |-> 0, until |-> 0]

\* The table with an entry of the address in it; a full table gives up slot 0.
lockout_find_or_create(ip) ==
    IF Slot(ip) # {} THEN lockout
    ELSE IF Len(lockout) < LockSlots THEN Append(lockout, NewEntry(ip))
    ELSE [lockout EXCEPT ![1] = NewEntry(ip)]

\* The address whose entry is given up, for the history.
Evicted(ip) ==
    IF Slot(ip) = {} /\ Len(lockout) = LockSlots THEN {lockout[1].ip} ELSE {}

Forget(h, ips) == [ip \in Ips |-> IF ip \in ips THEN NoTries ELSE h[ip]]

Entry(table, ip) == CHOOSE i \in DOMAIN table : table[i].ip = ip

auth_pair_check_lockout(ip) ==
    LET e == lockout_find_or_create(ip)[Entry(lockout_find_or_create(ip), ip)]
    IN  e.until > 0 /\ now < e.until

\* What a check leaves of the entry: a lockout that is over starts afresh.
AfterCheck(ip) ==
    LET t == lockout_find_or_create(ip)
        i == Entry(t, ip)
    IN  IF t[i].until > 0 /\ now >= t[i].until THEN [t EXCEPT ![i] = NewEntry(ip)] ELSE t

\* Mutant: one more than the limit.
Mut_Reached(count, limit) == count > limit

\* The comparison of both throttles.
Reached(count, limit) == count >= limit

auth_pair_record_failure(ip, table) ==
    LET i == Entry(table, ip)
        fails == table[i].fails + 1
    IN  [table EXCEPT ![i] =
            [ip |-> ip, fails |-> fails,
             until |-> IF Reached(fails, MaxFails) THEN now + Window ELSE table[i].until]]

\* POST /pair of an address that is locked out.
PairRefused(ip) ==
    /\ running /\ pair = NoPair
    /\ auth_pair_check_lockout(ip)
    /\ lockout' = AfterCheck(ip)
    /\ tries' = Forget(tries, Evicted(ip))
    /\ UNCHANGED <<now, pairVars, rate, taken>>

\* POST /pair with a wrong code, or with none pending.
PairWrong(ip) ==
    /\ running /\ pair = NoPair
    /\ ~auth_pair_check_lockout(ip)
    /\ lockout' = auth_pair_record_failure(ip, AfterCheck(ip))
    /\ tries' = Once(ip, Forget(tries, Evicted(ip)))
    /\ UNCHANGED <<now, pairVars, rate, taken>>

-----------------------------------------------------------------------------
(* Pairing. *)

\* The code is right: a token is generated and the stored ones are read; the
\* oldest make room for it.  A file that cannot be read is taken for an empty one.
auth_pair(ip) ==
    /\ running /\ pair = NoPair
    /\ ~auth_pair_check_lockout(ip)
    /\ code # 0
    /\ tokens < MaxTokens
    /\ tokens' = tokens + 1
    /\ lockout' = AfterCheck(ip)
    /\ tries' = Forget(tries, Evicted(ip))
    /\ LET over == Len(Read) - (TokenCap - 1)
           kept == IF over > 0 THEN SubSeq(Read, over + 1, Len(Read)) ELSE Read
       IN  pair' = [pc |-> "write", ip |-> ip, token |-> tokens', json |-> Append(kept, tokens'),
                    dropped |-> Range(file) \ Range(kept)]
    /\ UNCHANGED <<now, running, file, form, code, rate, codes, crashes, acts, given, gone,
                   taken>>

\* Mutant: the token file itself is opened with O_TRUNC.
Mut_TempWritten ==
    /\ pair.pc = "write"
    /\ pair' = [pair EXCEPT !.pc = "rename"]
    /\ file' = <<>> /\ form' = "none"
    /\ UNCHANGED <<now, running, code, lockout, rate, tokens, codes, crashes, acts, given,
                   gone, tries, taken>>

\* The JSON goes to a temporary file; the token file stays as it is.
TempWritten ==
    /\ pair.pc = "write"
    /\ pair' = [pair EXCEPT !.pc = "rename"]
    /\ UNCHANGED <<now, running, file, form, code, lockout, rate, tokens, codes, crashes, acts,
                   given, gone, tries, taken>>

\* The write, the fsync or the rename fails: the answer is 400 and counts as a
\* failure of this address.
WriteFails ==
    /\ pair.pc \in {"write", "rename"}
    /\ pair' = NoPair
    /\ lockout' = auth_pair_record_failure(pair.ip, AfterCheck(pair.ip))
    /\ UNCHANGED <<now, running, file, form, code, rate, tokens, codes, crashes, acts, given,
                   gone, tries, taken>>

\* The new file, which belongs to the process, takes the place of the old one.
Renamed ==
    /\ pair.pc = "rename"
    /\ file' = pair.json /\ form' = "array"
    /\ gone' = gone \cup pair.dropped
    /\ pair' = [pair EXCEPT !.pc = "answer"]
    /\ UNCHANGED <<now, running, code, lockout, rate, tokens, codes, crashes, acts, given,
                   tries, taken>>

\* The code that is pending after a pairing.
used == 0

\* The code is used up, the address cleared and the token given.
PairAnswered ==
    /\ pair.pc = "answer"
    /\ code' = used
    /\ given' = given \cup {[token |-> pair.token, code |-> code]}
    /\ lockout' = [lockout EXCEPT ![Entry(lockout, pair.ip)] = NewEntry(pair.ip)]
    /\ tries' = Forget(tries, {pair.ip})
    /\ pair' = NoPair
    /\ UNCHANGED <<now, running, file, form, rate, tokens, codes, crashes, acts, gone, taken>>

\* GET /api/...: the file is read for every request.
auth_validate_token(token) == token \in Range(Read)

-----------------------------------------------------------------------------
(* The rate limit of POST /asap. *)

Expired(table) == {ip \in DOMAIN table : now - table[ip].start >= Window}

Fresh == [start |-> now, count |-> 0]

\* The possible tables with an entry of the address in it: a full table gives up
\* an entry whose window is over, or else the address finds no place.
find_or_create(ip) ==
    IF ip \in DOMAIN rate THEN {rate}
    ELSE IF Cardinality(DOMAIN rate) < RateSlots
    THEN {[a \in DOMAIN rate \cup {ip} |-> IF a = ip THEN Fresh ELSE rate[a]]}
    ELSE {[a \in (DOMAIN rate \ {x}) \cup {ip} |-> IF a = ip THEN Fresh ELSE rate[a]]
            : x \in Expired(rate)}

rate_limit_asap(ip) ==
    /\ running /\ pair = NoPair
    /\ IF find_or_create(ip) = {} THEN UNCHANGED <<rate, taken>>
       ELSE \E t \in find_or_create(ip) :
              LET e == IF ip \in Expired(t) THEN Fresh ELSE t[ip]
              IN  IF Reached(e.count, Rpm) THEN rate' = [t EXCEPT ![ip] = e] /\ UNCHANGED taken
                  ELSE /\ rate' = [t EXCEPT ![ip] = [start |-> e.start, count |-> e.count + 1]]
                       /\ taken' = Once(ip, taken)
    /\ UNCHANGED <<now, pairVars, lockout, tries>>

-----------------------------------------------------------------------------
Process == GatewayStart \/ Crash \/ SecondPasses

Owner == OwnerEdits \/ AccessChanges

Pairing ==
    \/ \E ip \in Ips : PairRefused(ip) \/ PairWrong(ip) \/ auth_pair(ip)
    \/ TempWritten \/ WriteFails \/ Renamed \/ PairAnswered

Asap == \E ip \in Ips : rate_limit_asap(ip)

AccessNext == Process \/ Owner \/ Pairing \/ Asap

AccessSpec == AccessInit /\ [][AccessNext]_accessVars

-----------------------------------------------------------------------------
(* Properties. *)

\* No stretch of the window's length has more than n of the times in it.
AtMost(n, times) == \A i \in DOMAIN times : i > n => times[i] - times[i - n] >= Window

\* In any stretch as long as the window an address has at most MaxFails wrong
\* codes examined, and fewer than two windows' worth of requests let through
\* although a burst may lie across the end of a window, for as long as the table
\* remembers it (auth.c:350-375, rate_limit.c:86-106).
ThrottleHolds ==
    \A ip \in Ips : AtMost(MaxFails, tries[ip]) /\ AtMost(2 * Rpm - 1, taken[ip])

\* A token that was given is valid whenever the file can be opened, through crashes
\* and failed writes of later pairings and times in which it cannot, until the
\* cap, the owner or a pairing that could not read the file removes it; and no
\* code was good for two tokens (auth.c:44-51, 199-319).
TokensKept ==
    /\ \A g \in given : g.token \notin gone /\ form # "closed" => auth_validate_token(g.token)
    /\ \A g, h \in given : g.code = h.code => g = h
=============================================================================
