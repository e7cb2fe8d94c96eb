----------------------------- MODULE ToolProofs -----------------------------
(***************************************************************************)
(* The tools and the skills of the agent: NeverToRevoked and               *)
(* AddressCurrent of AsapDelegation, for any documents, caches and clocks; *)
(* NothingLeft of CommandExec, for any number of commands; ContextRight of *)
(* ContextTool, for any calendars, lengths of days and ages of caches; and *)
(* NeverCut and CacheFresh of SkillStore, for any files and limits.        *)
(***************************************************************************)
EXTENDS AsapDelegation, CommandExec, ContextTool, SkillStore, FiniteSetTheorems,
        SequenceTheorems, WellFoundedInduction, TLAPS

-----------------------------------------------------------------------------
(* Delegation: AsapDelegation. *)

\* What a check found allows a task to be posted.
Allows(check, urn) == check.asked => check.read /\ urn \notin Revoked(check.list)

\* An invocation that is past the check was allowed by it, and an URN is never
\* empty, as an entry without "urn" is.
CallInv ==
    /\ list \in Lists
    /\ call.pc \in {"revocation", "cache", "send"} => call.urn # ""
    /\ call.pc \in {"cache", "send"} => Allows(call.check, call.urn)

DelegationInv == CallInv /\ NeverToRevoked

\* A list that is read and does not name an URN by any form of its entries does
\* not revoke it.
LEMMA NotNamed ==
    ASSUME NEW doc \in Lists, NEW urn, urn # "",
           ~revocation_json_contains_urn(doc, urn)
    PROVE  urn \notin Revoked(doc)
<1>1. ASSUME NEW i \in DOMAIN doc.items PROVE doc.items[i].urn # urn
  BY <1>1, ListsAssumption DEF revocation_json_contains_urn, EntryNames
<1>2. ASSUME NEW i \in DOMAIN doc.items, doc.items[i].form = "object", doc.items[i].urn = ""
      PROVE  doc.items[i].id # urn
  BY <1>2 DEF revocation_json_contains_urn, EntryNames
<1> QED
  BY <1>1, <1>2 DEF Revoked

\* Without an invocation there is nothing to be said of one.
LEMMA Nothing ==
    ASSUME NEW c, c = NoCall
    PROVE  c.pc \notin {"revocation", "cache", "send"}
  BY DEF NoCall

\* DelegationInv holds before the first invocation.
LEMMA DelegationInvInit == DelegationInit => DelegationInv
<1> SUFFICES ASSUME DelegationInit PROVE DelegationInv
  OBVIOUS
<1>1. call = NoCall /\ sent = NotSent /\ list \in Lists
  BY DEF DelegationInit
<1>2. call.pc \notin {"revocation", "cache", "send"}
  BY <1>1, Nothing, SMTT(30)
<1> QED
  BY <1>1, <1>2 DEF DelegationInv, CallInv, NeverToRevoked

\* The environment changes no invocation.
LEMMA EnvironmentKeeps ==
    ASSUME DelegationInv, Tick \/ Publish \/ Revoke \/ tool_asap_invoke_set_config \/ UNCHANGED delegationVars
    PROVE  DelegationInv'
<1>1. UNCHANGED <<call, sent>> /\ list' \in Lists
  BY DEF Tick, Publish, Revoke, tool_asap_invoke_set_config, delegationVars, DelegationInv, CallInv
<1> QED
  BY <1>1 DEF DelegationInv, CallInv, NeverToRevoked, Allows, Revoked

\* An invocation begins with an URN.
LEMMA ExecuteKeeps == DelegationInv /\ asap_invoke_execute => DelegationInv'
<1> SUFFICES ASSUME DelegationInv, asap_invoke_execute PROVE DelegationInv'
  OBVIOUS
<1>1. sent' = NotSent /\ UNCHANGED list
  BY DEF asap_invoke_execute, world
<1>2. PICK a \in Arguments : call' = NoCall \/ (a.urn # "" /\ call' = [pc |-> "revocation", urn |-> a.urn])
  BY DEF asap_invoke_execute, Fail
<1>3. call'.pc \notin {"cache", "send"} /\ (call'.pc = "revocation" => call'.urn # "")
  <2>1. CASE call' = NoCall
    BY <2>1, Nothing
  <2>2. CASE a.urn # "" /\ call' = [pc |-> "revocation", urn |-> a.urn]
    BY <2>2
  <2> QED
    BY <1>2, <2>1, <2>2
<1>4. CallInv'
  BY <1>1, <1>3 DEF DelegationInv, CallInv
<1> QED
  BY <1>1, <1>4 DEF DelegationInv, NeverToRevoked

\* The check lets through only what the list it read does not name.
LEMMA CheckKeeps ==
    ASSUME DelegationInv, registry_revocation_list_contains
    PROVE  DelegationInv'
<1>1. UNCHANGED <<list, sent, cfg>> /\ call.pc = "revocation" /\ call.urn # "" /\ list \in Lists
  BY DEF registry_revocation_list_contains, world, DelegationInv, CallInv
<1>2. PICK reachable \in BOOLEAN :
        IF NotRevoked(reachable)
        THEN call' = [pc |-> "cache", urn |-> call.urn,
                      check |-> Checked(reachable /\ revocation_pick_array(list))]
        ELSE call' = NoCall
  BY DEF registry_revocation_list_contains, Fail
<1>3. NeverToRevoked'
  BY <1>1 DEF DelegationInv, NeverToRevoked, Revoked
<1>4. CASE ~NotRevoked(reachable)
  <2>1. call'.pc \notin {"revocation", "cache", "send"}
    BY <1>2, <1>4, Nothing
  <2>2. CallInv'
    BY <1>1, <2>1 DEF DelegationInv, CallInv
  <2> QED
    BY <1>3, <2>2 DEF DelegationInv
<1>5. CASE NotRevoked(reachable)
  <2> DEFINE check == Checked(reachable /\ revocation_pick_array(list))
  <2>1. call'.pc = "cache" /\ call'.urn = call.urn /\ call'.check = check
    BY <1>2, <1>5
  <2>2. Allows(check, call.urn)
    <3>1. SUFFICES ASSUME cfg.revocation
                   PROVE  /\ reachable /\ revocation_pick_array(list)
                          /\ call.urn \notin Revoked(list)
      BY DEF Allows, Checked
    <3>2. /\ reachable /\ revocation_pick_array(list)
          /\ ~revocation_json_contains_urn(list, call.urn)
      BY <1>5, <3>1 DEF NotRevoked
    <3> QED
      BY <1>1, <3>2, NotNamed
  <2> HIDE DEF check
  <2>3. CallInv'
    BY <1>1, <2>1, <2>2 DEF CallInv, Allows, Revoked
  <2> QED
    BY <1>3, <2>3 DEF DelegationInv
<1> QED
  BY <1>4, <1>5

\* The registry and its cache decide the address, never whether.
LEMMA ResolveKeeps ==
    ASSUME DelegationInv, CacheHit \/ registry_fetch \/ FetchFails
    PROVE  DelegationInv'
<1>1. call.pc = "cache" /\ UNCHANGED <<list, sent>>
  BY DEF CacheHit, registry_fetch, FetchFails, world
<1>2. \/ call' = NoCall
      \/ \E base, failed :
            call' = [pc |-> "send", urn |-> call.urn, check |-> call.check,
                     base |-> base, at |-> mono, failed |-> failed]
  BY DEF CacheHit, registry_fetch, FetchFails, registry_resolve, Fail
<1>3. \/ call'.pc \notin {"revocation", "cache", "send"}
      \/ call'.pc = "send" /\ call'.urn = call.urn /\ call'.check = call.check
  BY <1>2, Nothing
<1>4. CallInv'
  <2>1. call.urn # "" /\ Allows(call.check, call.urn) /\ list \in Lists
    BY <1>1 DEF DelegationInv, CallInv
  <2> QED
    BY <1>1, <1>3, <2>1, ZenonT(30) DEF CallInv, Allows, Revoked
<1> QED
  BY <1>1, <1>4 DEF DelegationInv, NeverToRevoked, Revoked

\* A task carries what the check of its invocation found.
LEMMA SendKeeps == DelegationInv /\ asap_client_send_task => DelegationInv'
<1> SUFFICES ASSUME DelegationInv, asap_client_send_task PROVE DelegationInv'
  OBVIOUS
<1>1. call.pc = "send" /\ call' = NoCall /\ UNCHANGED list
  BY DEF asap_client_send_task, world
<1>2. sent'.check = call.check /\ sent'.urn = call.urn
  BY DEF asap_client_send_task
<1>3. Allows(call.check, call.urn)
  BY <1>1 DEF DelegationInv, CallInv
<1> QED
  BY <1>1, <1>2, <1>3, ZenonT(30) DEF DelegationInv, CallInv, NeverToRevoked, Allows, NoCall, Revoked

\* With a revocation list configured, no task is posted to an agent that the list
\* names, whatever fails, changes or is cached meanwhile (registry.c:651).
THEOREM RevokedNeverCalled == DelegationSpec => []NeverToRevoked
<1>1. DelegationInv /\ [DelegationNext]_delegationVars => DelegationInv'
  BY EnvironmentKeeps, ExecuteKeeps, CheckKeeps, ResolveKeeps, SendKeeps DEF DelegationNext
<1>2. DelegationInv => NeverToRevoked
  BY DEF DelegationInv
<1> QED
  BY DelegationInvInit, <1>1, <1>2, PTL DEF DelegationSpec

-----------------------------------------------------------------------------
(* Where a task goes: AddressCurrent. *)

\* A registry that gives an address gives it now, and none gave one later than now.
PastInv ==
    /\ mono \in Nat
    /\ served \in [Urls -> Documents]
    /\ past \in [Urls \X Urns \X Bases -> Int]
    /\ \A u \in Urls, urn \in Urns, b \in Bases :
          /\ past[<<u, urn, b>>] <= mono
          /\ Gives(served[u], urn, b) => past[<<u, urn, b>>] = mono

\* Whatever the cached index leads to was given by the registry it is cached for,
\* when it was fetched or later.
CacheInv ==
    /\ cache.at \in Nat /\ cache.at <= mono
    /\ cache.url \in Urls =>
          \A urn \in Urns : \A a \in registry_index_find_urn(cache.index, urn) :
              a.base \in Bases /\ past[<<cache.url, urn, a.base>>] >= cache.at

\* An address that was resolved is current, and stays what it was resolved from:
\* the configuration does not change below an invocation.
RouteInv ==
    /\ cfg.url \in Urls \cup {""}
    /\ call.pc \in {"revocation", "cache", "send"} => cfg.url \in Urls /\ call.urn \in Urns
    /\ call.pc = "send" =>
          /\ call.base \in Bases /\ call.at \in Nat
          /\ past[<<cfg.url, call.urn, call.base>>] >= 0
          /\ call.failed \/ past[<<cfg.url, call.urn, call.base>>] > call.at - Ttl

\* The same of a task that was posted, whatever became of the registry since.
SentInv ==
    sent # NotSent =>
        /\ sent.url \in Urls /\ sent.urn \in Urns /\ sent.base \in Bases /\ sent.at \in Nat
        /\ past[<<sent.url, sent.urn, sent.base>>] >= 0
        /\ sent.failed \/ past[<<sent.url, sent.urn, sent.base>>] > sent.at - Ttl

AddressInv == PastInv /\ CacheInv /\ RouteInv /\ SentInv

\* What a sequence is.
LEMMA SeqIs ==
    ASSUME NEW S, NEW s \in Seq(S)
    PROVE  /\ DOMAIN s = 1 .. Len(s) /\ Len(s) \in Nat
           /\ \A i \in DOMAIN s : s[i] \in S
  OBVIOUS

\* The first agent that the index of a readable document has for an URN is what
\* the document gives for it.
LEMMA FoundGiven ==
    ASSUME NEW doc \in Documents, ~Unreadable(doc), NEW urn \in Urns,
           NEW a \in registry_index_find_urn(registry_index_from_json(doc), urn)
    PROVE  a.base \in Bases /\ Gives(doc, urn, a.base)
<1> DEFINE index == registry_index_from_json(doc)
           items == doc.items
<1>1. PICK j \in DOMAIN index :
        /\ a = index[j] /\ index[j].urn = urn
        /\ \A k \in DOMAIN index : k < j => index[k].urn # urn
  BY DEF registry_index_find_urn
<1>2. /\ DOMAIN index = {i \in DOMAIN items : Complete(items[i])}
      /\ \A i \in DOMAIN index : index[i] = items[i]
  BY DEF registry_index_from_json
<1>3. items \in Seq([urn : STRING, base : Bases \cup {""}, caps : BOOLEAN])
  BY DocumentsAssumption
<1>4. PICK n \in Nat : DOMAIN items = 1 .. n
  <2> HIDE DEF items
  <2> QED
    BY <1>3, SeqIs
<1>5. j \in DOMAIN items /\ a = items[j] /\ Complete(items[j])
  BY <1>1, <1>2
<1>6. a.base \in Bases
  <2>1. items[j] \in [urn : STRING, base : Bases \cup {""}, caps : BOOLEAN]
    <3> HIDE DEF items
    <3> QED
      BY <1>3, <1>5, SeqIs
  <2> QED
    BY <1>5, <2>1 DEF Complete
<1>7. ASSUME NEW k \in 1 .. j - 1, Complete(items[k]) PROVE items[k].urn # urn
  <2>1. k \in DOMAIN items /\ k < j
    <3>1. j \in 1 .. n
      BY <1>4, <1>5
    <3>2. k \in 1 .. n /\ k < j
      BY <1>7, <3>1
    <3> QED
      BY <1>4, <3>2
  <2>2. k \in DOMAIN index
    BY <1>2, <1>7, <2>1
  <2> QED
    BY <1>1, <1>2, <2>1, <2>2
<1>8. items[j].urn = urn /\ items[j].base = a.base
  BY <1>1, <1>5
<1> QED
  BY <1>5, <1>6, <1>7, <1>8 DEF Gives

\* An address that is current is current when it was given later.
LEMMA LaterGiven ==
    ASSUME NEW p \in Int, NEW q \in Int, q >= p, NEW at \in Nat, NEW failed,
           p >= 0, failed \/ p > at - Ttl
    PROVE  q >= 0 /\ (failed \/ q > at - Ttl)
<1>1. q >= 0 /\ (p > at - Ttl => q > at - Ttl)
  BY TtlAssumption
<1> QED
  BY <1>1

\* What was given stays given, or is given again later.
LEMMA StillGiven ==
    ASSUME AddressInv, PastInv',
           \A u \in Urls, urn \in Urns, b \in Bases :
               past'[<<u, urn, b>>] >= past[<<u, urn, b>>],
           mono' >= mono, UNCHANGED <<cfg, cache, call, sent>>
    PROVE  AddressInv'
<1>1. \A u \in Urls, urn \in Urns, b \in Bases :
        past[<<u, urn, b>>] \in Int /\ past'[<<u, urn, b>>] \in Int
  BY DEF AddressInv, PastInv
<1>2. CacheInv'
  <2>1. cache'.at \in Nat /\ cache'.at <= mono'
    BY DEF AddressInv, CacheInv, PastInv
  <2>2. ASSUME cache.url \in Urls, NEW urn \in Urns,
               NEW a \in registry_index_find_urn(cache.index, urn)
        PROVE  a.base \in Bases /\ past'[<<cache.url, urn, a.base>>] >= cache.at
    <3>1. a.base \in Bases /\ past[<<cache.url, urn, a.base>>] >= cache.at /\ cache.at \in Nat
      BY <2>2 DEF AddressInv, CacheInv
    <3> QED
      BY <1>1, <2>2, <3>1
  <2> QED
    BY <2>1, <2>2 DEF CacheInv, registry_index_find_urn
<1>3. RouteInv'
  <2>1. ASSUME call.pc = "send"
        PROVE  /\ call.base \in Bases /\ call.at \in Nat
               /\ past'[<<cfg.url, call.urn, call.base>>] >= 0
               /\ call.failed \/ past'[<<cfg.url, call.urn, call.base>>] > call.at - Ttl
    <3>1. cfg.url \in Urls /\ call.urn \in Urns /\ call.base \in Bases /\ call.at \in Nat
      BY <2>1 DEF AddressInv, RouteInv
    <3>2. past'[<<cfg.url, call.urn, call.base>>] >= past[<<cfg.url, call.urn, call.base>>]
      BY <3>1
    <3>3. /\ past[<<cfg.url, call.urn, call.base>>] >= 0
          /\ call.failed \/ past[<<cfg.url, call.urn, call.base>>] > call.at - Ttl
      BY <2>1 DEF AddressInv, RouteInv
    <3>4. /\ past[<<cfg.url, call.urn, call.base>>] \in Int
          /\ past'[<<cfg.url, call.urn, call.base>>] \in Int
      BY <1>1, <3>1
    <3>5. /\ past'[<<cfg.url, call.urn, call.base>>] >= 0
          /\ call.failed \/ past'[<<cfg.url, call.urn, call.base>>] > call.at - Ttl
      BY <3>1, <3>2, <3>3, <3>4, LaterGiven
    <3> QED
      BY <3>1, <3>5
  <2> QED
    BY <2>1 DEF AddressInv, RouteInv
<1>4. SentInv'
  <2>1. ASSUME sent # NotSent
        PROVE  /\ past'[<<sent.url, sent.urn, sent.base>>] >= 0
               /\ sent.failed \/ past'[<<sent.url, sent.urn, sent.base>>] > sent.at - Ttl
    <3>1. sent.url \in Urls /\ sent.urn \in Urns /\ sent.base \in Bases /\ sent.at \in Nat
      BY <2>1 DEF AddressInv, SentInv
    <3>2. past'[<<sent.url, sent.urn, sent.base>>] >= past[<<sent.url, sent.urn, sent.base>>]
      BY <3>1
    <3>3. /\ past[<<sent.url, sent.urn, sent.base>>] >= 0
          /\ sent.failed \/ past[<<sent.url, sent.urn, sent.base>>] > sent.at - Ttl
      BY <2>1 DEF AddressInv, SentInv
    <3>4. /\ past[<<sent.url, sent.urn, sent.base>>] \in Int
          /\ past'[<<sent.url, sent.urn, sent.base>>] \in Int
      BY <1>1, <3>1
    <3> QED
      BY <3>1, <3>2, <3>3, <3>4, LaterGiven
  <2> QED
    BY <2>1 DEF AddressInv, SentInv
<1> QED
  BY <1>2, <1>3, <1>4 DEF AddressInv

\* Nothing is cached or resolved at first.
LEMMA AddressInvInit == DelegationInit => AddressInv
<1> SUFFICES ASSUME DelegationInit PROVE AddressInv
  OBVIOUS
<1>1. PastInv
  <2>1. mono = 0 /\ served \in [Urls -> Documents]
    BY DEF DelegationInit
  <2>2. past = [p \in Urls \X Urns \X Bases |-> IF Gives(served[p[1]], p[2], p[3]) THEN 0 ELSE -1]
    BY DEF DelegationInit
  <2>3. past \in [Urls \X Urns \X Bases -> Int]
    BY <2>2
  <2>4. ASSUME NEW u \in Urls, NEW urn \in Urns, NEW b \in Bases
        PROVE  past[<<u, urn, b>>] = IF Gives(served[u], urn, b) THEN 0 ELSE -1
    BY <2>2
  <2> QED
    BY <2>1, <2>3, <2>4 DEF PastInv
<1>2. CacheInv
  <2>1. cache = [url |-> "", index |-> <<>>, at |-> 0] /\ mono = 0
    BY DEF DelegationInit
  <2>2. cache.index = <<>> /\ cache.at = 0
    BY <2>1
  <2>3. DOMAIN cache.index = {}
    BY <2>2
  <2>4. \A urn \in Urns : registry_index_find_urn(cache.index, urn) = {}
    BY <2>3 DEF registry_index_find_urn
  <2>5. cache.at \in Nat /\ cache.at <= mono
    <3>1. cache.at = 0 /\ mono = 0
      BY <2>1, Zenon
    <3> QED
      BY <3>1
  <2>6. \A urn \in Urns : \A a \in registry_index_find_urn(cache.index, urn) : FALSE
    BY <2>4
  <2> QED
    BY <2>5, <2>6 DEF CacheInv
<1>3. RouteInv
  BY DEF DelegationInit, RouteInv, NoCall
<1>4. SentInv
  BY DEF DelegationInit, SentInv
<1> QED
  BY <1>1, <1>2, <1>3, <1>4 DEF AddressInv

\* Time passes: what is still served is given now.
LEMMA TickAddress == ASSUME AddressInv, Tick PROVE AddressInv'
<1>1. /\ mono' = mono + 1 /\ UNCHANGED <<cfg, served, cache, call, sent>>
      /\ past' = [p \in DOMAIN past |->
                    IF Gives(served[p[1]], p[2], p[3]) THEN mono' ELSE past[p]]
  BY DEF Tick
<1>2. PastInv
  BY DEF AddressInv
<1>3. \A u \in Urls, urn \in Urns, b \in Bases :
        past'[<<u, urn, b>>] = IF Gives(served[u], urn, b) THEN mono + 1 ELSE past[<<u, urn, b>>]
  BY <1>1, <1>2 DEF PastInv
<1>4. past' \in [Urls \X Urns \X Bases -> Int]
  BY <1>1, <1>2 DEF PastInv
<1>5. ASSUME NEW u \in Urls, NEW urn \in Urns, NEW b \in Bases
      PROVE  past'[<<u, urn, b>>] >= past[<<u, urn, b>>] /\ past'[<<u, urn, b>>] <= mono + 1
  <2>1. past[<<u, urn, b>>] \in Int /\ past[<<u, urn, b>>] <= mono /\ mono \in Nat
    BY <1>2 DEF PastInv
  <2>2. past'[<<u, urn, b>>] \in {mono + 1, past[<<u, urn, b>>]}
    BY <1>3
  <2> QED
    BY <2>1, <2>2
<1>6. PastInv'
  <2>1. \A u \in Urls, urn \in Urns, b \in Bases :
          Gives(served'[u], urn, b) => past'[<<u, urn, b>>] = mono'
    BY <1>1, <1>3
  <2>2. mono' \in Nat /\ served' \in [Urls -> Documents]
    BY <1>1, <1>2 DEF PastInv
  <2>3. \A u \in Urls, urn \in Urns, b \in Bases : past'[<<u, urn, b>>] <= mono'
    BY <1>1, <1>5
  <2> QED
    BY <1>4, <2>1, <2>2, <2>3 DEF PastInv, Gives, Unreadable
<1> QED
  BY <1>1, <1>2, <1>5, <1>6, StillGiven DEF PastInv

\* A registry publishes another document, which gives its addresses now.
LEMMA PublishAddress == ASSUME AddressInv, Publish PROVE AddressInv'
<1>1. PICK v \in Urls, d \in Documents :
        /\ served' = [served EXCEPT ![v] = d]
        /\ past' = [p \in DOMAIN past |->
                      IF p[1] = v /\ Gives(d, p[2], p[3]) THEN mono ELSE past[p]]
  BY DEF Publish
<1>2. UNCHANGED <<mono, cfg, cache, call, sent>>
  BY DEF Publish
<1>3. PastInv
  BY DEF AddressInv
<1>4. \A u \in Urls, urn \in Urns, b \in Bases :
        past'[<<u, urn, b>>] = IF u = v /\ Gives(d, urn, b) THEN mono ELSE past[<<u, urn, b>>]
  BY <1>1, <1>3 DEF PastInv
<1>5. past' \in [Urls \X Urns \X Bases -> Int]
  BY <1>1, <1>3 DEF PastInv
<1>6. ASSUME NEW u \in Urls, NEW urn \in Urns, NEW b \in Bases
      PROVE  past'[<<u, urn, b>>] >= past[<<u, urn, b>>] /\ past'[<<u, urn, b>>] <= mono
  <2>1. past[<<u, urn, b>>] \in Int /\ past[<<u, urn, b>>] <= mono /\ mono \in Nat
    BY <1>3 DEF PastInv
  <2>2. past'[<<u, urn, b>>] \in {mono, past[<<u, urn, b>>]}
    BY <1>4
  <2> QED
    BY <2>1, <2>2
<1>7. served' \in [Urls -> Documents]
  BY <1>1, <1>3 DEF PastInv
<1>8. ASSUME NEW u \in Urls, NEW urn \in Urns, NEW b \in Bases, Gives(served'[u], urn, b)
      PROVE  past'[<<u, urn, b>>] = mono
  <2>1. CASE u = v
    <3>1. served'[u] = d
      BY <1>1, <1>3, <2>1 DEF PastInv
    <3> QED
      BY <1>4, <1>8, <2>1, <3>1
  <2>2. CASE u # v
    <3>1. served'[u] = served[u]
      BY <1>1, <1>3, <2>2 DEF PastInv
    <3> QED
      BY <1>3, <1>4, <1>8, <2>2, <3>1 DEF PastInv
  <2> QED
    BY <2>1, <2>2
<1>9. PastInv'
  <2>1. mono' \in Nat
    BY <1>2, <1>3 DEF PastInv
  <2>2. \A u \in Urls, urn \in Urns, b \in Bases :
          /\ past'[<<u, urn, b>>] <= mono'
          /\ Gives(served'[u], urn, b) => past'[<<u, urn, b>>] = mono'
    BY <1>2, <1>6, <1>8
  <2> QED
    BY <1>5, <1>7, <2>1, <2>2 DEF PastInv, Gives, Unreadable
<1> QED
  BY <1>2, <1>3, <1>6, <1>9, StillGiven DEF PastInv

\* A change of the list or of the configuration touches no address.
LEMMA ConfigureAddress ==
    ASSUME AddressInv, Revoke \/ tool_asap_invoke_set_config \/ UNCHANGED delegationVars
    PROVE  AddressInv'
<1>1. UNCHANGED <<mono, served, cache, call, sent, past>>
  BY DEF Revoke, tool_asap_invoke_set_config, delegationVars
<1>2. PastInv' /\ CacheInv' /\ SentInv'
  BY <1>1 DEF AddressInv, PastInv, CacheInv, SentInv, Gives, Unreadable, registry_index_find_urn
<1>3. RouteInv'
  <2>1. CASE UNCHANGED cfg
    BY <1>1, <2>1 DEF AddressInv, RouteInv
  <2>2. CASE tool_asap_invoke_set_config
    <3>1. call' = NoCall /\ cfg'.url \in Urls \cup {""}
      BY <1>1, <2>2 DEF tool_asap_invoke_set_config
    <3>2. call'.pc \notin {"revocation", "cache", "send"}
      BY <3>1, Nothing
    <3> QED
      BY <3>1, <3>2 DEF RouteInv
  <2> QED
    BY <2>1, <2>2 DEF Revoke, delegationVars
<1> QED
  BY <1>2, <1>3 DEF AddressInv

\* The world and the cache stay as they are.
LEMMA WorldStays ==
    ASSUME AddressInv, UNCHANGED <<world, cache>>
    PROVE  PastInv' /\ CacheInv' /\ (UNCHANGED sent => SentInv')
<1>1. UNCHANGED <<mono, served, cache, past>>
  BY DEF world
<1>2. PastInv'
  BY <1>1 DEF AddressInv, PastInv, Gives, Unreadable
<1>3. CacheInv'
  BY <1>1 DEF AddressInv, CacheInv, registry_index_find_urn
<1>4. UNCHANGED sent => SentInv'
  BY <1>1 DEF AddressInv, SentInv
<1> QED
  BY <1>2, <1>3, <1>4

\* An invocation begins for an agent, with a registry configured.
LEMMA ExecuteAddress == ASSUME AddressInv, asap_invoke_execute PROVE AddressInv'
<1>1. UNCHANGED <<world, cache>> /\ sent' = NotSent /\ UNCHANGED cfg
  BY DEF asap_invoke_execute, world
<1>2. PICK a \in Arguments :
        \/ call' = NoCall
        \/ a.urn # "" /\ cfg.url # "" /\ call' = [pc |-> "revocation", urn |-> a.urn]
  BY DEF asap_invoke_execute, Fail
<1>3. cfg.url \in Urls \cup {""}
  BY DEF AddressInv, RouteInv
<1>4. RouteInv'
  <2>1. CASE call' = NoCall
    <3>1. call'.pc \notin {"revocation", "cache", "send"}
      BY <2>1, Nothing
    <3> QED
      BY <1>1, <1>3, <3>1 DEF RouteInv
  <2>2. CASE a.urn # "" /\ cfg.url # "" /\ call' = [pc |-> "revocation", urn |-> a.urn]
    <3>1. call'.pc = "revocation" /\ call'.urn \in Urns
      BY <2>2, ArgumentsAssumption
    <3> QED
      BY <1>1, <1>3, <2>2, <3>1 DEF RouteInv
  <2> QED
    BY <1>2, <2>1, <2>2
<1> QED
  BY <1>1, <1>4, WorldStays DEF AddressInv, SentInv

\* The check of the list decides nothing about the address.
LEMMA CheckAddress == ASSUME AddressInv, registry_revocation_list_contains PROVE AddressInv'
<1>1. UNCHANGED <<world, cache>> /\ UNCHANGED sent /\ UNCHANGED cfg /\ call.pc = "revocation"
  BY DEF registry_revocation_list_contains, world
<1>2. \/ call' = NoCall
      \/ call'.pc = "cache" /\ call'.urn = call.urn
  BY DEF registry_revocation_list_contains, Fail
<1>3. call'.pc # "send" /\ (call'.pc \in {"revocation", "cache"} => call'.urn = call.urn)
  BY <1>2, Nothing
<1>4. cfg.url \in Urls /\ call.urn \in Urns
  BY <1>1 DEF AddressInv, RouteInv
<1>5. RouteInv'
  BY <1>1, <1>3, <1>4 DEF RouteInv
<1> QED
  BY <1>1, <1>5, WorldStays DEF AddressInv

\* What registry_resolve gets from an index whose addresses are current is a
\* current address.
LEMMA ResolveAddress ==
    ASSUME AddressInv, call.pc = "cache", UNCHANGED <<cfg, past, mono>>,
           NEW index, NEW failed, registry_resolve(index, failed),
           \A a \in registry_index_find_urn(index, call.urn) :
               /\ a.base \in Bases
               /\ past[<<cfg.url, call.urn, a.base>>] >= 0
               /\ failed \/ past[<<cfg.url, call.urn, a.base>>] > mono - Ttl
    PROVE  RouteInv'
<1>1. cfg.url \in Urls /\ call.urn \in Urns /\ mono \in Nat
  BY DEF AddressInv, RouteInv, PastInv
<1>2. CASE call' = NoCall
  <2>1. call'.pc \notin {"revocation", "cache", "send"}
    BY <1>2, Nothing
  <2> QED
    BY <1>1, <2>1 DEF RouteInv
<1>3. CASE \E a \in registry_index_find_urn(index, call.urn) :
              call' = [pc |-> "send", urn |-> call.urn, check |-> call.check,
                       base |-> a.base, at |-> mono, failed |-> failed]
  <2>1. PICK a \in registry_index_find_urn(index, call.urn) :
          call' = [pc |-> "send", urn |-> call.urn, check |-> call.check,
                   base |-> a.base, at |-> mono, failed |-> failed]
    BY <1>3
  <2>2. /\ call'.pc = "send" /\ call'.urn = call.urn /\ call'.base = a.base
        /\ call'.at = mono /\ call'.failed = failed
    BY <2>1
  <2> QED
    BY <1>1, <2>2 DEF RouteInv
<1> QED
  BY <1>2, <1>3 DEF registry_resolve, Fail

\* A fresh cache of this registry leads to what was given less than Ttl ago.
LEMMA HitAddress == ASSUME AddressInv, CacheHit PROVE AddressInv'
<1>1. /\ call.pc = "cache" /\ UNCHANGED <<world, cache>> /\ UNCHANGED sent
      /\ UNCHANGED <<cfg, past, mono>>
      /\ cache.url = cfg.url /\ ~(mono - cache.at >= Ttl)
      /\ registry_resolve(cache.index, FALSE)
  BY DEF CacheHit, world, SameUrl, cache_stale
<1>2. cfg.url \in Urls /\ call.urn \in Urns
  BY <1>1 DEF AddressInv, RouteInv
<1>3. ASSUME NEW a \in registry_index_find_urn(cache.index, call.urn)
      PROVE  /\ a.base \in Bases
             /\ past[<<cfg.url, call.urn, a.base>>] >= 0
             /\ FALSE \/ past[<<cfg.url, call.urn, a.base>>] > mono - Ttl
  <2>1. /\ a.base \in Bases /\ past[<<cfg.url, call.urn, a.base>>] >= cache.at
        /\ cache.at \in Nat
    BY <1>1, <1>2, <1>3 DEF AddressInv, CacheInv
  <2>2. past[<<cfg.url, call.urn, a.base>>] \in Int /\ mono \in Nat
    BY <1>2, <2>1 DEF AddressInv, PastInv
  <2> QED
    BY <1>1, <2>1, <2>2, TtlAssumption
<1>4. RouteInv'
  BY <1>1, <1>3, ResolveAddress
<1> QED
  BY <1>1, <1>4, WorldStays DEF AddressInv

\* When the registry fails, the cache of this registry is used, and of no other.
LEMMA FailAddress == ASSUME AddressInv, FetchFails PROVE AddressInv'
<1>1. /\ call.pc = "cache" /\ UNCHANGED <<world, cache>> /\ UNCHANGED sent
      /\ UNCHANGED <<cfg, past, mono>>
      /\ \/ cache.url = cfg.url /\ registry_resolve(cache.index, TRUE)
         \/ call' = NoCall
  BY DEF FetchFails, world, SameUrl, Fail
<1>2. cfg.url \in Urls /\ call.urn \in Urns
  BY <1>1 DEF AddressInv, RouteInv
<1>3. CASE cache.url = cfg.url /\ registry_resolve(cache.index, TRUE)
  <2>1. ASSUME NEW a \in registry_index_find_urn(cache.index, call.urn)
        PROVE  /\ a.base \in Bases
               /\ past[<<cfg.url, call.urn, a.base>>] >= 0
               /\ TRUE \/ past[<<cfg.url, call.urn, a.base>>] > mono - Ttl
    <3>1. /\ a.base \in Bases /\ past[<<cfg.url, call.urn, a.base>>] >= cache.at
          /\ cache.at \in Nat
      BY <1>2, <1>3, <2>1 DEF AddressInv, CacheInv
    <3>2. past[<<cfg.url, call.urn, a.base>>] \in Int
      BY <1>2, <3>1 DEF AddressInv, PastInv
    <3> QED
      BY <3>1, <3>2
  <2>2. RouteInv'
    BY <1>1, <1>3, <2>1, ResolveAddress
  <2> QED
    BY <1>1, <2>2, WorldStays DEF AddressInv
<1>4. CASE call' = NoCall
  <2>1. call'.pc \notin {"revocation", "cache", "send"}
    BY <1>4, Nothing
  <2>2. RouteInv'
    BY <1>1, <1>2, <2>1 DEF RouteInv
  <2> QED
    BY <1>1, <2>2, WorldStays DEF AddressInv
<1> QED
  BY <1>1, <1>3, <1>4

\* A fetched index leads to what the registry gives now.
LEMMA FetchAddress == ASSUME AddressInv, registry_fetch PROVE AddressInv'
<1> DEFINE doc == served[cfg.url]
           fetched == registry_index_from_json(doc)
<1>1. /\ call.pc = "cache" /\ UNCHANGED world /\ UNCHANGED sent
      /\ UNCHANGED <<cfg, past, mono, served>>
      /\ ~Unreadable(doc)
      /\ cache' = [url |-> cfg.url, index |-> fetched, at |-> mono]
      /\ registry_resolve(cache'.index, FALSE)
  BY DEF registry_fetch, world
<1>2. cfg.url \in Urls /\ call.urn \in Urns /\ mono \in Nat
  BY <1>1 DEF AddressInv, RouteInv, PastInv
<1>3. doc \in Documents
  BY <1>2 DEF AddressInv, PastInv
<1>4. cache'.url = cfg.url /\ cache'.index = fetched /\ cache'.at = mono
  BY <1>1
<1> HIDE DEF fetched
<1>5. ASSUME NEW urn \in Urns, NEW a \in registry_index_find_urn(fetched, urn)
      PROVE  a.base \in Bases /\ past[<<cfg.url, urn, a.base>>] = mono
  <2>1. a.base \in Bases /\ Gives(doc, urn, a.base)
    BY <1>1, <1>3, <1>5, FoundGiven DEF fetched
  <2> QED
    BY <1>2, <2>1 DEF AddressInv, PastInv
<1>6. PastInv' /\ SentInv'
  BY <1>1 DEF AddressInv, PastInv, SentInv, Gives, Unreadable
<1>7. CacheInv'
  <2>1. cache'.at \in Nat /\ cache'.at <= mono'
    BY <1>1, <1>2, <1>4
  <2>2. ASSUME NEW urn \in Urns, NEW a \in registry_index_find_urn(cache'.index, urn)
        PROVE  a.base \in Bases /\ past'[<<cache'.url, urn, a.base>>] >= cache'.at
    BY <1>1, <1>2, <1>4, <1>5, <2>2
  <2> QED
    BY <2>1, <2>2 DEF CacheInv, registry_index_find_urn
<1>8. RouteInv'
  <2>1. ASSUME NEW a \in registry_index_find_urn(fetched, call.urn)
        PROVE  /\ a.base \in Bases
               /\ past[<<cfg.url, call.urn, a.base>>] >= 0
               /\ FALSE \/ past[<<cfg.url, call.urn, a.base>>] > mono - Ttl
    <3>1. a.base \in Bases /\ past[<<cfg.url, call.urn, a.base>>] = mono
      BY <1>2, <1>5, <2>1
    <3> QED
      BY <1>2, <3>1, TtlAssumption
  <2>2. registry_resolve(fetched, FALSE)
    BY <1>1, <1>4
  <2> QED
    BY <1>1, <2>1, <2>2, ResolveAddress
<1> QED
  BY <1>6, <1>7, <1>8 DEF AddressInv

\* A task goes where its invocation was led.
LEMMA SendAddress == ASSUME AddressInv, asap_client_send_task PROVE AddressInv'
<1>1. /\ call.pc = "send" /\ call' = NoCall /\ UNCHANGED <<world, cache>>
      /\ UNCHANGED <<cfg, past, mono>>
      /\ sent'.url = cfg.url /\ sent'.urn = call.urn /\ sent'.base = call.base
      /\ sent'.at = call.at /\ sent'.failed = call.failed
  BY DEF asap_client_send_task, world
<1>2. /\ cfg.url \in Urls /\ call.urn \in Urns /\ call.base \in Bases /\ call.at \in Nat
      /\ past[<<cfg.url, call.urn, call.base>>] >= 0
      /\ call.failed \/ past[<<cfg.url, call.urn, call.base>>] > call.at - Ttl
  BY <1>1 DEF AddressInv, RouteInv
<1>3. SentInv'
  BY <1>1, <1>2 DEF SentInv
<1>4. call'.pc \notin {"revocation", "cache", "send"}
  BY <1>1, Nothing
<1>5. RouteInv'
  BY <1>1, <1>2, <1>4 DEF RouteInv
<1> QED
  BY <1>1, <1>3, <1>5, WorldStays DEF AddressInv

\* A task is posted to an address that the configured registry served for the URN,
\* less than Ttl before it was looked up unless the registry failed just then,
\* whatever the registries publish and however the configuration moves between
\* them (registry.c:555-581).
THEOREM AddressesCurrent == DelegationSpec => []AddressCurrent
<1>1. AddressInv /\ [DelegationNext]_delegationVars => AddressInv'
  BY TickAddress, PublishAddress, ConfigureAddress, ExecuteAddress, CheckAddress,
     HitAddress, FetchAddress, FailAddress, SendAddress DEF DelegationNext
<1>2. AddressInv => AddressCurrent
  BY DEF AddressInv, SentInv, AddressCurrent
<1> QED
  BY AddressInvInit, <1>1, <1>2, PTL DEF DelegationSpec

-----------------------------------------------------------------------------
(* Commands: CommandExec. *)

\* A process as the kernel sees it.
Process == [state : {"none", "setup", "restrict", "wait", "run", "dead"}, group : BOOLEAN,
            out : BOOLEAN, err : BOOLEAN, dies : BOOLEAN, killed : BOOLEAN]

\* Which states each process goes through, and in which order they are forked.
ForksInv ==
    /\ mode \in {"sandbox", "plain"}
    /\ proc \in [Procs -> Process]
    /\ proc["wrapper"].state \in {"none", "setup", "wait", "dead"}
    /\ proc["cmd"].state \in {"none", "setup", "restrict", "run", "dead"}
    /\ proc["bg"].state \in {"none", "run", "dead"}
    /\ Alive("cmd") => proc["cmd"].group
    /\ proc["cmd"].state = "none" => proc["bg"].state = "none"
    /\ mode = "plain" => proc["wrapper"].state = "none"
    /\ mode = "sandbox" /\ proc["wrapper"].state \in {"none", "setup"} =>
          proc["cmd"].state = "none"

\* A wrapper does not die before the command: only the parent kills it, and it
\* kills the group that both are in.
WrapperInv == mode = "sandbox" /\ Ending("wrapper") => Ending("cmd")

\* Once the parent has killed what there was, nothing can be started any more.
KilledInv ==
    parent \in {"wait", "done", "idle"} =>
        /\ Ending("wrapper") /\ Ending("cmd")
        /\ mode = "plain" => Ending("bg") \/ ~proc["bg"].group

ExecInv == ForksInv /\ WrapperInv /\ KilledInv

\* Nothing is running at first.
LEMMA ExecInvInit == ExecInit => ExecInv
  BY DEF ExecInit, ExecInv, ForksInv, WrapperInv, KilledInv, Procs, NoProc, Process, Alive, Ending

\* kill_command_tree leaves everything as it is but for the pending signals.
LEMMA KillFacts ==
    ASSUME ForksInv, proc' = kill_command_tree
    PROVE  /\ proc' \in [Procs -> Process]
           /\ \A p \in Procs : /\ proc'[p].state = proc[p].state
                               /\ proc'[p].group = proc[p].group
                               /\ proc[p].killed => proc'[p].killed
                               /\ proc'[p].killed => proc[p].killed \/ Alive(p)
                               /\ Alive(p) /\ (proc[p].group \/ p = Tracked) => proc'[p].killed
<1> DEFINE ps == {p \in Procs : proc[p].group} \cup {Tracked}
<1>1. proc' = [p \in Procs |-> [proc[p] EXCEPT !.killed = @ \/ (p \in ps /\ Alive(p))]]
  BY DEF kill_command_tree, Killed
<1> SUFFICES ASSUME NEW p \in Procs
             PROVE  /\ proc'[p] \in Process
                    /\ proc'[p].state = proc[p].state
                    /\ proc'[p].group = proc[p].group
                    /\ proc[p].killed => proc'[p].killed
                    /\ proc'[p].killed => proc[p].killed \/ Alive(p)
                    /\ Alive(p) /\ (proc[p].group \/ p = Tracked) => proc'[p].killed
  BY <1>1
<1>2. proc[p] \in Process /\ (Alive(p) \in BOOLEAN)
  BY DEF ForksInv, Alive
<1>3. proc'[p] = [proc[p] EXCEPT !.killed = @ \/ (p \in ps /\ Alive(p))]
  BY <1>1
<1>4. proc[p].group \/ p = Tracked => p \in ps
  OBVIOUS
<1> HIDE DEF ps
<1> QED
  BY <1>2, <1>3, <1>4 DEF Process

\* A process that dies changes its own state and the pending signals of others.
LEMMA DeathFacts ==
    ASSUME ForksInv, NEW p \in Procs, Dead(p)
    PROVE  /\ proc' \in [Procs -> Process]
           /\ proc'[p].state = "dead" /\ proc'[p].group = proc[p].group
           /\ \A q \in Procs \ {p} : /\ proc'[q].state = proc[q].state
                                     /\ proc'[q].group = proc[q].group
                                     /\ proc[q].killed => proc'[q].killed
           /\ proc'["wrapper"].killed = proc["wrapper"].killed
<1>1. ASSUME NEW q \in Procs
      PROVE  /\ proc'[q] \in Process
             /\ proc'[q].group = proc[q].group
             /\ proc[q].killed => proc'[q].killed
             /\ q = p => proc'[q].state = "dead"
             /\ q # p => proc'[q].state = proc[q].state
             /\ q = "wrapper" => proc'[q].killed = proc[q].killed
  BY ZenonT(30) DEF Dead, ForksInv, Process
<1> QED
  BY <1>1 DEF Dead, Procs

\* Every step keeps the invariant.
LEMMA ExecInvNext == ExecInv /\ [ExecNext]_execVars => ExecInv'
<1> SUFFICES ASSUME ExecInv, [ExecNext]_execVars PROVE ExecInv'
  OBVIOUS
<1> USE DEF ExecInv, ForksInv, WrapperInv, KilledInv, Procs, Alive, Ending
<1>1. CASE Blocked
  BY <1>1 DEF Blocked
<1>2. CASE shell_execute
  <2>1. NoProc \in Process /\ Forked \in Process /\ [Forked EXCEPT !.err = FALSE] \in Process
    BY DEF Forked, NoProc, Process
  <2>2. CASE /\ mode' = "sandbox" /\ parent' = "iso"
             /\ proc' = [[p \in Procs |-> NoProc] EXCEPT !["wrapper"] = Forked]
    <3>1. proc' \in [Procs -> Process]
      BY <2>1, <2>2
    <3>2. proc'["wrapper"] = Forked /\ proc'["cmd"] = NoProc /\ proc'["bg"] = NoProc
      BY <2>2
    <3> QED
      BY <2>2, <3>1, <3>2 DEF Forked, NoProc
  <2>3. CASE /\ mode' = "plain" /\ parent' = "drain"
             /\ proc' = [[p \in Procs |-> NoProc] EXCEPT !["cmd"] = [Forked EXCEPT !.err = FALSE]]
    <3>1. proc' \in [Procs -> Process]
      BY <2>1, <2>3
    <3>2. /\ proc'["cmd"] = [Forked EXCEPT !.err = FALSE]
          /\ proc'["wrapper"] = NoProc /\ proc'["bg"] = NoProc
      BY <2>3
    <3> QED
      BY <2>3, <3>1, <3>2 DEF Forked, NoProc
  <2> QED
    BY <1>2, <2>2, <2>3 DEF shell_execute
<1>3. CASE read_isolation_byte
  BY <1>3 DEF read_isolation_byte
<1>4. CASE drain_pipe
  BY <1>4 DEF drain_pipe
<1>5. CASE reap_child
  <2>1. CASE ~Alive(Tracked) /\ parent' = "done" /\ UNCHANGED proc
    BY <1>5, <2>1 DEF reap_child, Tracked
  <2>2. CASE Alive(Tracked) /\ proc' = kill_command_tree /\ parent' = "wait"
    BY <1>5, <2>2, KillFacts DEF reap_child, Tracked
  <2> QED
    BY <1>5, <2>1, <2>2 DEF reap_child
<1>6. CASE reap_running_child
  BY <1>6, KillFacts DEF reap_running_child, Tracked
<1>7. CASE Reaped
  BY <1>7 DEF Reaped
<1>8. CASE Return
  BY <1>8 DEF Return
<1>9. CASE IsolationFails
  BY <1>9, DeathFacts DEF IsolationFails, Runs
<1>10. CASE setup_child_process
  BY <1>10, ZenonT(30) DEF setup_child_process, Runs, Forked, NoProc, Process
<1>11. CASE AsksToDie
  BY <1>11 DEF AsksToDie, Runs, Process
<1>12. CASE setup_command_process
  <2>1. CASE Dead("cmd")
    BY <1>12, <2>1, DeathFacts DEF setup_command_process, Runs
  <2>2. CASE proc' = [proc EXCEPT !["cmd"].state = "run", !["cmd"].err = FALSE]
    BY <1>12, <2>2, ZenonT(30) DEF setup_command_process, Runs, Process
  <2> QED
    BY <1>12, <2>1, <2>2 DEF setup_command_process
<1>13. CASE PlainExec
  BY <1>13 DEF PlainExec, Runs, Process
<1>14. CASE StartsBackground
  BY <1>14, ZenonT(30) DEF StartsBackground, Runs, Process
<1>15. CASE LeavesGroup
  BY <1>15, ZenonT(30) DEF LeavesGroup, Runs, Process
<1>16. CASE wait_and_exit_with_child
  BY <1>16, DeathFacts DEF wait_and_exit_with_child, Runs
<1>17. ASSUME NEW p \in {"cmd", "bg"}, ClosesOutput(p) PROVE ExecInv'
  BY <1>17, ZenonT(30) DEF ClosesOutput, Runs, Process
<1>18. ASSUME NEW p \in {"cmd", "bg"}, Exits(p) PROVE ExecInv'
  BY <1>18, DeathFacts DEF Exits, Runs
<1>19. ASSUME NEW p \in Procs, KillTakesEffect(p) PROVE ExecInv'
  BY <1>19, DeathFacts DEF KillTakesEffect
<1>20. CASE UNCHANGED execVars
  BY <1>20 DEF execVars
<1> QED
  BY <1>1, <1>2, <1>3, <1>4, <1>5, <1>6, <1>7, <1>8, <1>9, <1>10, <1>11, <1>12, <1>13,
     <1>14, <1>15, <1>16, <1>17, <1>18, <1>19, <1>20 DEF ExecNext

\* For any number of commands, when the shell tool has returned, every process of
\* the command is dead, has a SIGKILL pending or dies with its process 1; outside
\* the sandbox only what left the group is excepted (sandbox.c:383-404,
\* shell.c:63-94).
THEOREM CommandsEnd == ExecSpec => []NothingLeft
<1>1. ExecInv => NothingLeft
  BY DEF ExecInv, ForksInv, KilledInv, NothingLeft, Procs, Ending, Alive
<1> QED
  BY ExecInvInit, ExecInvNext, <1>1, PTL DEF ExecSpec

-----------------------------------------------------------------------------
(* The context: ContextTool. *)

Places == [src : {"", "ip-api", "agent_fallback", "none"}, cc : Codes]
Forecasts == [ok : BOOLEAN, days : SUBSET Int]
Marks == [ok : {TRUE}, whole : BOOLEAN, today : BOOLEAN, tomorrow : BOOLEAN,
          next : SUBSET Int] \cup {NoHolidays}

\* An invocation before and after it has taken the date.
Begun == [pc : {"date"}, geo : Places, began : Nat]
Dated == [pc : {"weather", "holidays", "answer"}, day : Nat, ya : Int, yb : Int,
          wx : Forecasts, hy : Marks, geo : Places, cc : Codes, began : Nat]

TypesInv ==
    /\ hostTime \in Nat
    /\ agentCfg \in [coords : BOOLEAN, cc : Codes]
    /\ geo \in Places
    /\ wx \in [exp : Nat, days : SUBSET Int]
    /\ hy \in [exp : Nat, cc : Codes, ya : Int, yb : Int, days : SUBSET Int, whole : BOOLEAN]
    /\ query \in {NoQuery} \cup Begun \cup Dated
    /\ last \in {NoQuery} \cup Dated

\* An invocation takes less than a day, and its date was taken during it.
TimeInv ==
    /\ query # NoQuery => query.began <= hostTime /\ hostTime < query.began + DayLen
    /\ query \in Dated =>
          \E t \in 0 .. hostTime : query.began <= t /\ query.day = Day(t)

\* What a cache serves was fetched for what it is asked for.
CachesInv ==
    /\ hostTime < wx.exp =>
          \E t \in 0 .. hostTime : wx.exp = t + WxTtl /\ wx.days = Day(t) .. Day(t) + 2
    /\ hostTime < hy.exp =>
          hy.days = Of(hy.cc, hy.ya) \cup (IF hy.whole THEN Of(hy.cc, hy.yb) ELSE {})

\* The parts of an answer fit together.
Fits(c) ==
    /\ c.ya = Year(c.day) /\ c.yb = Year(c.day + 1)
    /\ c.wx.ok => c.day \in c.wx.days \/ c.day + 1 \in c.wx.days
    /\ c.hy.ok =>
          LET days == Of(c.cc, c.ya) \cup Of(c.cc, c.yb)
              ahead == {d \in days : d >= c.day}
          IN  /\ c.hy.today = (c.day \in Holidays[c.cc])
              /\ c.hy.whole =>
                    /\ c.hy.tomorrow = (c.day + 1 \in Holidays[c.cc])
                    /\ c.hy.next = {d \in ahead : \A e \in ahead : d <= e}

ContextInv ==
    /\ TypesInv /\ TimeInv /\ CachesInv
    /\ query \in Dated => Fits(query)
    /\ last \in Dated => last.pc = "answer" /\ Fits(last)
-----------------------------------------------------------------------------
\* What division by the length of a day gives.
LEMMA DivFacts ==
    ASSUME NEW L \in Nat \ {0}, NEW t \in Nat
    PROVE  /\ t \div L \in Nat
           /\ L * (t \div L) <= t /\ t < L * (t \div L) + L
  OBVIOUS

\* Less than a day later it is the same day or the next.
LEMMA NextDay ==
    ASSUME NEW L \in Nat \ {0}, NEW t \in Nat, NEW c \in Nat, t <= c, c < t + L
    PROVE  (c \div L) \in {t \div L, t \div L + 1}
<1> DEFINE p == t \div L
           q == c \div L
<1>1. /\ p \in Nat /\ q \in Nat
      /\ L * p <= t /\ t < L * p + L
      /\ L * q <= c /\ c < L * q + L
  BY DivFacts
<1> HIDE DEF p, q
<1>2. ~(q < p)
  <2> SUFFICES ASSUME q + 1 <= p PROVE FALSE
    BY <1>1
  <2>1. L * (q + 1) <= L * p
    BY <1>1
  <2>2. L * (q + 1) = L * q + L
    BY <1>1
  <2> QED
    BY <1>1, <2>1, <2>2
<1>3. ~(q > p + 1)
  <2> SUFFICES ASSUME p + 2 <= q PROVE FALSE
    BY <1>1
  <2>1. L * (p + 2) <= L * q
    BY <1>1
  <2>2. L * (p + 2) = L * p + L + L
    BY <1>1
  <2> QED
    BY <1>1, <2>1, <2>2
<1> QED
  BY <1>1, <1>2, <1>3 DEF p, q

\* Which state an invocation is in is told by its step.
LEMMA CallKinds ==
    ASSUME TypesInv
    PROVE  /\ query.pc = "date" => query \in Begun /\ query \notin Dated /\ query # NoQuery
           /\ query.pc \in {"weather", "holidays", "answer"} =>
                 query \in Dated /\ query # NoQuery
           /\ NoQuery \notin Dated /\ NoQuery \notin Begun
           /\ \A c \in Begun : c \notin Dated
<1>1. /\ \A c \in Begun : c.pc = "date"
      /\ \A c \in Dated : c.pc \in {"weather", "holidays", "answer"}
      /\ NoQuery.pc = "none"
  BY DEF Begun, Dated, NoQuery
<1> QED
  BY <1>1 DEF TypesInv

\* The caches are empty at first.
LEMMA ContextInvInit == ContextInit => ContextInv
<1> SUFFICES ASSUME ContextInit PROVE ContextInv
  OBVIOUS
<1>1. TypesInv
  <2>1. /\ hostTime \in Nat /\ agentCfg \in [coords : BOOLEAN, cc : Codes] /\ query = NoQuery
        /\ last = NoQuery
    BY DEF ContextInit
  <2>2. geo \in Places
    BY DEF ContextInit, Places, Codes
  <2>3. wx \in [exp : Nat, days : SUBSET Int]
    BY DEF ContextInit
  <2>4. hy \in [exp : Nat, cc : Codes, ya : Int, yb : Int, days : SUBSET Int, whole : BOOLEAN]
    <3>1. "" \in Codes /\ {} \in SUBSET Int /\ 0 \in Nat /\ 0 \in Int
      BY DEF Codes
    <3> QED
      BY <3>1, Zenon DEF ContextInit
  <2> QED
    BY <2>1, <2>2, <2>3, <2>4 DEF TypesInv
<1>2. TimeInv
  BY <1>1, CallKinds DEF ContextInit, TimeInv
<1>3. CachesInv
  <2>1. hostTime = 0 /\ wx.exp = 0 /\ hy.exp = 0
    BY DEF ContextInit
  <2> QED
    BY <2>1 DEF CachesInv
<1> QED
  BY <1>1, <1>2, <1>3, CallKinds DEF ContextInit, ContextInv

\* The clock goes on, or the configuration changes.
LEMMA ClockKeeps == ContextInv /\ TimePasses => ContextInv'
<1> SUFFICES ASSUME ContextInv, TimePasses PROVE ContextInv'
  OBVIOUS
<1>1. /\ hostTime' = hostTime + 1 /\ hostTime \in Nat
      /\ UNCHANGED <<agentCfg, geo, wx, hy, query, last>>
      /\ query # NoQuery => hostTime + 1 < query.began + DayLen
  BY DEF TimePasses, ContextInv, TypesInv
<1>2. TypesInv'
  BY <1>1 DEF ContextInv, TypesInv
<1>3. \A t \in 0 .. hostTime : t \in 0 .. hostTime'
  BY <1>1
<1>4. query # NoQuery => query.began \in Nat
  BY DEF ContextInv, TypesInv, Begun, Dated
<1>5. TimeInv'
  BY <1>1, <1>3, <1>4 DEF ContextInv, TimeInv
<1>6. CachesInv'
  <2>1. wx.exp \in Nat /\ hy.exp \in Nat
    BY DEF ContextInv, TypesInv
  <2>2. (hostTime' < wx.exp => hostTime < wx.exp) /\ (hostTime' < hy.exp => hostTime < hy.exp)
    BY <1>1, <2>1
  <2> QED
    BY <1>1, <1>3, <2>2 DEF ContextInv, CachesInv, Of
<1> QED
  BY <1>1, <1>2, <1>5, <1>6 DEF ContextInv, Fits, Of

\* A reload brings another configured place.
LEMMA ConfigKeeps == ContextInv /\ tool_context_set_config => ContextInv'
<1> SUFFICES ASSUME ContextInv, tool_context_set_config PROVE ContextInv'
  OBVIOUS
<1>1. /\ UNCHANGED <<hostTime, geo, wx, hy, query, last>>
      /\ agentCfg' \in [coords : BOOLEAN, cc : Codes]
  BY DEF tool_context_set_config
<1> QED
  BY <1>1 DEF ContextInv, TypesInv, TimeInv, CachesInv, Fits, Of

\* An invocation begins and finds its place.
LEMMA PlaceKeeps == ContextInv /\ ctx_geo_resolve => ContextInv'
<1> SUFFICES ASSUME ContextInv, ctx_geo_resolve PROVE ContextInv'
  OBVIOUS
<1>1. /\ query' = [pc |-> "date", geo |-> geo', began |-> hostTime]
      /\ UNCHANGED <<hostTime, agentCfg, wx, hy, last>>
  BY DEF ctx_geo_resolve
<1>2. geo' \in Places
  <2>1. geo \in Places /\ agentCfg.cc \in Codes /\ "" \in Codes
    BY DEF ContextInv, TypesInv, Codes
  <2>2. geo_cfg_fb \in Places /\ [src |-> "none", cc |-> ""] \in Places
    BY <2>1 DEF geo_cfg_fb, Places
  <2>3. \A cc \in Codes : [src |-> "ip-api", cc |-> cc] \in Places
    BY DEF Places
  <2> QED
    BY <2>1, <2>2, <2>3 DEF ctx_geo_resolve
<1>3. query' \in Begun /\ query'.began = hostTime /\ hostTime \in Nat
  BY <1>1, <1>2 DEF Begun, ContextInv, TypesInv
<1>4. TypesInv'
  BY <1>1, <1>2, <1>3 DEF ContextInv, TypesInv
<1>5. query' \notin Dated
  BY <1>3, CallKinds DEF ContextInv
<1>6. TimeInv' /\ CachesInv'
  BY <1>1, <1>3, <1>5, ContextAssumption DEF ContextInv, TimeInv, CachesInv, Of
<1> QED
  BY <1>1, <1>4, <1>5, <1>6 DEF ContextInv, Fits, Of

\* The date is taken.
LEMMA DateKeeps == ContextInv /\ exec_tool => ContextInv'
<1> SUFFICES ASSUME ContextInv, exec_tool PROVE ContextInv'
  OBVIOUS
<1>1. /\ query \in Begun /\ UNCHANGED <<hostTime, agentCfg, geo, wx, hy, last>>
      /\ hostTime \in Nat
      /\ query # NoQuery
  BY CallKinds DEF exec_tool, ContextInv, TypesInv
<1> PICK day : day = Day(hostTime)
  OBVIOUS
<1>2. day \in Nat /\ Year(day) \in Int /\ Year(day + 1) \in Int
  BY <1>1, DivFacts, ContextAssumption DEF Day, Year
<1>3. query' = [pc |-> IF query.geo.src = "none" THEN "answer" ELSE "weather",
               day |-> day, ya |-> Year(day), yb |-> Year(day + 1),
               wx |-> NoWeather, hy |-> NoHolidays, geo |-> query.geo, cc |-> "",
               began |-> query.began]
  BY DEF exec_tool
<1>4. /\ query'.day = day /\ query'.ya = Year(day) /\ query'.yb = Year(day + 1)
      /\ query'.wx = NoWeather /\ query'.hy = NoHolidays /\ query'.began = query.began
  BY <1>3
<1>5. query' \in Dated
  <2>1. NoWeather \in Forecasts /\ NoHolidays \in Marks /\ "" \in Codes
    BY DEF NoWeather, Forecasts, Marks, Codes
  <2>2. query.geo \in Places /\ query.began \in Nat
    BY <1>1 DEF Begun
  <2> QED
    BY <1>2, <1>3, <2>1, <2>2 DEF Dated
<1>6. TypesInv' /\ query' # NoQuery
  BY <1>1, <1>5, CallKinds DEF ContextInv, TypesInv
<1>7. TimeInv'
  <2>1. /\ query.began <= hostTime /\ hostTime < query.began + DayLen
        /\ hostTime \in 0 .. hostTime
    BY <1>1 DEF ContextInv, TimeInv
  <2> QED
    BY <1>1, <1>4, <2>1 DEF TimeInv
<1>8. CachesInv'
  BY <1>1 DEF ContextInv, CachesInv, Of
<1>9. Fits(query)'
  BY <1>4 DEF Fits, NoWeather, NoHolidays
<1> QED
  BY <1>1, <1>6, <1>7, <1>8, <1>9 DEF ContextInv, Fits, Of

\* The answer is kept.
LEMMA ShownKeeps == ContextInv /\ ctx_dashboard_fill => ContextInv'
<1> SUFFICES ASSUME ContextInv, ctx_dashboard_fill PROVE ContextInv'
  OBVIOUS
<1>1. /\ query.pc = "answer" /\ last' = query /\ query' = NoQuery
      /\ UNCHANGED <<hostTime, agentCfg, geo, wx, hy>>
  BY DEF ctx_dashboard_fill, Kept
<1>2. query \in Dated /\ Fits(query) /\ query' \notin Dated
  BY <1>1, CallKinds DEF ContextInv
<1>3. TypesInv'
  BY <1>1, <1>2 DEF ContextInv, TypesInv
<1>4. TimeInv' /\ CachesInv'
  BY <1>1, <1>2 DEF ContextInv, TimeInv, CachesInv, Of
<1> QED
  BY <1>1, <1>2, <1>3, <1>4 DEF ContextInv, Fits, Of

\* A step of an invocation that has its date keeps the date and the time.
LEMMA DatedStep ==
    ASSUME ContextInv, query \in Dated, query' \in Dated,
           UNCHANGED <<hostTime, agentCfg, geo, last>>,
           query'.day = query.day /\ query'.began = query.began
    PROVE  /\ TimeInv'
           /\ TypesInv' <=> /\ wx' \in [exp : Nat, days : SUBSET Int]
                            /\ hy' \in [exp : Nat, cc : Codes, ya : Int, yb : Int,
                                        days : SUBSET Int, whole : BOOLEAN]
           /\ last' \in Dated => last'.pc = "answer" /\ Fits(last)'
<1>1. query # NoQuery
  BY CallKinds DEF ContextInv
<1>2. TimeInv'
  BY <1>1 DEF ContextInv, TimeInv
<1> QED
  BY <1>2 DEF ContextInv, TypesInv, Fits, Of

\* Today is the day of the answer or the one after it.
LEMMA TodayFacts ==
    ASSUME ContextInv, query \in Dated
    PROVE  /\ hostTime \in Nat /\ query.day \in Nat /\ Day(hostTime) \in Nat
           /\ Day(hostTime) \in {query.day, query.day + 1}
<1>1. query # NoQuery /\ query.began \in Nat /\ query.day \in Nat /\ hostTime \in Nat
  BY CallKinds DEF ContextInv, TypesInv, Dated
<1>2. PICK t \in 0 .. hostTime : query.began <= t /\ query.day = Day(t)
  BY DEF ContextInv, TimeInv
<1>3. t \in Nat /\ t <= hostTime /\ hostTime < t + DayLen
  BY <1>1, <1>2, ContextAssumption DEF ContextInv, TimeInv
<1>4. (hostTime \div DayLen) \in {t \div DayLen, t \div DayLen + 1}
  BY <1>1, <1>3, ContextAssumption, NextDay
<1> QED
  BY <1>1, <1>2, <1>4, DivFacts, ContextAssumption DEF Day

\* The forecast: from the cache, which is less than a day old, or new, or none.
LEMMA WeatherKeeps == ContextInv /\ ctx_wx_fill => ContextInv'
<1> SUFFICES ASSUME ContextInv, ctx_wx_fill PROVE ContextInv'
  OBVIOUS
<1>1. /\ query \in Dated /\ query.pc = "weather"
      /\ UNCHANGED <<hostTime, agentCfg, geo, hy, last>>
  BY CallKinds DEF ctx_wx_fill, ContextInv
<1>2. /\ hostTime \in Nat /\ query.day \in Nat /\ Day(hostTime) \in Nat
      /\ Day(hostTime) \in {query.day, query.day + 1}
  BY <1>1, TodayFacts
<1>3. /\ wx \in [exp : Nat, days : SUBSET Int]
      /\ hy' \in [exp : Nat, cc : Codes, ya : Int, yb : Int, days : SUBSET Int,
                  whole : BOOLEAN]
  BY <1>1 DEF ContextInv, TypesInv
<1>4. ASSUME NEW f \in Forecasts, query' = [query EXCEPT !.pc = "holidays", !.wx = f],
             f.ok => query.day \in f.days \/ query.day + 1 \in f.days
      PROVE  /\ query' \in Dated /\ query'.day = query.day /\ query'.began = query.began
             /\ Fits(query)'
  <2>1. /\ query' \in Dated /\ query'.day = query.day /\ query'.began = query.began
        /\ query'.ya = query.ya /\ query'.yb = query.yb /\ query'.wx = f
        /\ query'.hy = query.hy
        /\ query'.cc = query.cc
    BY <1>1, <1>4 DEF Dated
  <2> QED
    BY <1>1, <1>4, <2>1 DEF ContextInv, Fits, Of
<1>5. CASE WeatherCached /\ WeatherGiven(wx.days) /\ UNCHANGED wx
  <2>1. hostTime < wx.exp
    BY <1>5 DEF WeatherCached
  <2>2. PICK t \in 0 .. hostTime : wx.exp = t + WxTtl /\ wx.days = Day(t) .. Day(t) + 2
    BY <2>1 DEF ContextInv, CachesInv
  <2>3. t \in Nat /\ t <= hostTime /\ hostTime < t + DayLen
    BY <1>2, <2>1, <2>2, ContextAssumption
  <2>4. Day(hostTime) \in {Day(t), Day(t) + 1} /\ Day(t) \in Nat
    BY <1>2, <2>3, ContextAssumption, NextDay, DivFacts DEF Day
  <2>5. query.day \in wx.days \/ query.day + 1 \in wx.days
    BY <1>2, <2>2, <2>4
  <2> PICK f : f = [ok |-> TRUE, days |-> wx.days]
    OBVIOUS
  <2>6. f \in Forecasts /\ f.ok = TRUE /\ f.days = wx.days
    BY <1>3 DEF Forecasts
  <2>7. query' = [query EXCEPT !.pc = "holidays", !.wx = f]
    BY <1>5 DEF WeatherGiven
  <2>8. /\ query' \in Dated /\ query'.day = query.day /\ query'.began = query.began
        /\ Fits(query)'
    BY <1>4, <2>5, <2>6, <2>7
  <2>9. CachesInv'
    BY <1>1, <1>5 DEF ContextInv, CachesInv, Of
  <2> QED
    BY <1>1, <1>3, <1>5, <2>8, <2>9, DatedStep DEF ContextInv
<1>6. CASE /\ wx' = [exp |-> hostTime + WxTtl, days |-> Day(hostTime) .. Day(hostTime) + 2]
           /\ WeatherGiven(wx'.days)
  <2>1. /\ wx' \in [exp : Nat, days : SUBSET Int] /\ wx'.exp = hostTime + WxTtl
        /\ wx'.days = Day(hostTime) .. Day(hostTime) + 2
    BY <1>2, <1>6, ContextAssumption
  <2>2. query.day \in wx'.days \/ query.day + 1 \in wx'.days
    BY <1>2, <2>1
  <2> PICK f : f = [ok |-> TRUE, days |-> wx'.days]
    OBVIOUS
  <2>3. f \in Forecasts /\ f.ok = TRUE /\ f.days = wx'.days
    BY <2>1 DEF Forecasts
  <2>4. query' = [query EXCEPT !.pc = "holidays", !.wx = f]
    BY <1>6 DEF WeatherGiven
  <2>5. /\ query' \in Dated /\ query'.day = query.day /\ query'.began = query.began
        /\ Fits(query)'
    BY <1>4, <2>2, <2>3, <2>4
  <2>6. CachesInv'
    <3>1. hostTime' \in 0 .. hostTime'
      BY <1>1, <1>2
    <3> QED
      BY <1>1, <2>1, <3>1 DEF ContextInv, CachesInv, Of
  <2> QED
    BY <1>1, <1>3, <2>1, <2>5, <2>6, DatedStep DEF ContextInv
<1>7. CASE query' = [query EXCEPT !.pc = "holidays"] /\ UNCHANGED wx
  <2>1. /\ query' \in Dated /\ query'.day = query.day /\ query'.began = query.began
        /\ query'.ya = query.ya /\ query'.yb = query.yb /\ query'.wx = query.wx
        /\ query'.hy = query.hy
        /\ query'.cc = query.cc
    BY <1>1, <1>7 DEF Dated
  <2>2. Fits(query)'
    BY <1>1, <2>1 DEF ContextInv, Fits, Of
  <2>3. CachesInv'
    BY <1>1, <1>7 DEF ContextInv, CachesInv, Of
  <2> QED
    BY <1>1, <1>3, <1>7, <2>1, <2>2, <2>3, DatedStep DEF ContextInv
<1> QED
  BY <1>5, <1>6, <1>7 DEF ctx_wx_fill

\* A flag that says whether a day is in a calendar is a Boolean.
LEMMA Membership == ASSUME NEW x, NEW d, NEW S, x = (d \in S) PROVE x \in BOOLEAN
  BY SMT

\* Marks of Boolean flags are marks.
LEMMA MarkTypes ==
    ASSUME NEW w \in BOOLEAN, NEW a \in BOOLEAN, NEW b \in BOOLEAN, NEW n, n \subseteq Int
    PROVE  [ok |-> TRUE, whole |-> w, today |-> a, tomorrow |-> b, next |-> n] \in Marks
  BY DEF Marks

\* Marks made from the calendar of the answer's years fit the answer.
LEMMA MarksFit ==
    ASSUME ContextInv, query \in Dated, NEW cc \in Countries, cc \in Codes,
           NEW days, NEW whole \in BOOLEAN,
           days = Of(cc, query.ya) \cup (IF whole THEN Of(cc, query.yb) ELSE {}),
           query' = [query EXCEPT !.pc = "answer", !.cc = cc, !.hy = hol_mark(days, whole)]
    PROVE  /\ query' \in Dated /\ query'.day = query.day /\ query'.began = query.began
           /\ Fits(query)'
<1> PICK h : h = hol_mark(days, whole)
  OBVIOUS
<1> PICK day : day = query.day
  OBVIOUS
<1> DEFINE ahead == {d \in days : d >= day}
<1>1. /\ h.ok = TRUE /\ h.whole = whole
      /\ h.today = (day \in days) /\ h.tomorrow = (day + 1 \in days)
      /\ h.next = {d \in ahead : \A e \in ahead : d <= e}
  BY DEF hol_mark
<1>2. /\ query.ya = Year(day) /\ query.yb = Year(day + 1) /\ day \in Nat
      /\ query.wx.ok => day \in query.wx.days \/ day + 1 \in query.wx.days
  BY DEF ContextInv, Fits, Dated
<1>3. days \subseteq Int
  BY ContextAssumption DEF Of
<1>4. h \in Marks
  <2>1. h.next \subseteq Int
    BY <1>1, <1>3
  <2>2. h = [ok |-> TRUE, whole |-> whole, today |-> h.today, tomorrow |-> h.tomorrow,
             next |-> h.next]
    BY DEF hol_mark
  <2>3. h.today \in BOOLEAN /\ h.tomorrow \in BOOLEAN
    BY <1>1, Membership, Zenon
  <2>4. [ok |-> TRUE, whole |-> whole, today |-> h.today, tomorrow |-> h.tomorrow,
         next |-> h.next] \in Marks
    BY <2>1, <2>3, MarkTypes, ZenonT(30)
  <2> QED
    BY <2>2, <2>4
<1>5. /\ query' \in Dated /\ query'.day = day /\ query'.began = query.began
      /\ query'.ya = query.ya /\ query'.yb = query.yb /\ query'.wx = query.wx /\ query'.hy = h
      /\ query'.cc = cc
  BY <1>4 DEF Dated
<1>6. day \in days <=> day \in Holidays[cc]
  BY <1>2 DEF Of
<1>7. whole => (day + 1 \in days <=> day + 1 \in Holidays[cc])
  BY <1>2 DEF Of
<1>8. whole => days = Of(cc, query.ya) \cup Of(cc, query.yb)
  OBVIOUS
<1>9. /\ h.today = (day \in Holidays[cc])
      /\ h.whole => /\ h.tomorrow = (day + 1 \in Holidays[cc])
                    /\ LET ds == Of(cc, query.ya) \cup Of(cc, query.yb)
                           ah == {d \in ds : d >= day}
                       IN  h.next = {d \in ah : \A e \in ah : d <= e}
  <2>1. h.today = (day \in Holidays[cc])
    BY <1>1, <1>6
  <2>2. ASSUME whole PROVE h.tomorrow = (day + 1 \in Holidays[cc])
    <3> PICK d : d = day + 1
      OBVIOUS
    <3>1. h.tomorrow = (d \in days)
      BY <1>1
    <3>2. d \in days <=> d \in Holidays[cc]
      BY <1>7, <2>2
    <3> QED
      BY <3>1, <3>2
  <2>3. ASSUME whole
        PROVE  LET ds == Of(cc, query.ya) \cup Of(cc, query.yb)
                   ah == {d \in ds : d >= day}
               IN  h.next = {d \in ah : \A e \in ah : d <= e}
    BY <1>1, <1>8, <2>3
  <2> QED
    BY <1>1, <2>1, <2>2, <2>3
<1>10. Fits(query)'
  BY <1>2, <1>5, <1>9 DEF Fits, Of
<1> QED
  BY <1>5, <1>10

\* The holidays: from the cache of the same country and years, new, or none.
LEMMA HolidaysKeep == ContextInv /\ ctx_holidays_fill => ContextInv'
<1> SUFFICES ASSUME ContextInv, ctx_holidays_fill PROVE ContextInv'
  OBVIOUS
<1>1. /\ query \in Dated /\ query.pc = "holidays"
      /\ UNCHANGED <<hostTime, agentCfg, geo, wx, last>>
  BY CallKinds DEF ctx_holidays_fill, ContextInv
<1> PICK cc : cc = hcode
  OBVIOUS
<1>2. cc \in Codes /\ (cc # "" => cc \in Countries)
  BY DEF hcode, ContextInv, TypesInv, Places, Codes
<1>3. /\ wx' \in [exp : Nat, days : SUBSET Int] /\ hostTime \in Nat
      /\ hy \in [exp : Nat, cc : Codes, ya : Int, yb : Int, days : SUBSET Int, whole : BOOLEAN]
      /\ query.ya \in Int /\ query.yb \in Int
  BY <1>1 DEF ContextInv, TypesInv, Dated
<1>4. CASE cc # "" /\ HolidaysCached /\ HolidaysGiven(cc, hy.days, hy.whole) /\ UNCHANGED hy
  <2>1. hostTime < hy.exp /\ hy.cc = cc /\ hy.ya = query.ya /\ hy.yb = query.yb
    BY <1>4 DEF HolidaysCached
  <2>2. hy.days = Of(cc, query.ya) \cup (IF hy.whole THEN Of(cc, query.yb) ELSE {})
    BY <2>1 DEF ContextInv, CachesInv
  <2>3. query' = [query EXCEPT !.pc = "answer", !.cc = cc, !.hy = hol_mark(hy.days, hy.whole)]
    BY <1>4 DEF HolidaysGiven
  <2>4. /\ query' \in Dated /\ query'.day = query.day /\ query'.began = query.began
        /\ Fits(query)'
    <3>1. hy.whole \in BOOLEAN
      BY <1>3
    <3> QED
      BY <1>1, <1>2, <1>4, <2>2, <2>3, <3>1, MarksFit
  <2>5. CachesInv'
    BY <1>1, <1>4 DEF ContextInv, CachesInv, Of
  <2> QED
    BY <1>1, <1>3, <1>4, <2>4, <2>5, DatedStep DEF ContextInv
<1>5. ASSUME cc # "", NEW m \in hol_merge_arrays,
             hy' = [exp |-> hostTime + HyTtl, cc |-> cc, ya |-> query.ya, yb |-> query.yb,
                    days |-> m.days, whole |-> m.whole],
             HolidaysGiven(cc, m.days, m.whole)
      PROVE  ContextInv'
  <2>1. /\ m.whole \in BOOLEAN
        /\ m.days = Of(cc, query.ya) \cup (IF m.whole THEN Of(cc, query.yb) ELSE {})
    <3>1. CASE m = [days |-> Of(cc, query.ya) \cup Of(cc, query.yb), whole |-> TRUE]
      BY <3>1
    <3>2. CASE m = [days |-> Of(cc, query.ya), whole |-> FALSE]
      <4>1. m.whole = FALSE /\ m.days = Of(cc, query.ya)
        BY <3>2
      <4> QED
        BY <4>1
    <3> QED
      BY <1>5, <3>1, <3>2 DEF hol_merge_arrays
  <2>2. m.days \subseteq Int
    <3>0. cc \in Countries
      BY <1>2, <1>5
    <3>1. Holidays[cc] \subseteq Int
      <4>1. Holidays[cc] \subseteq Nat
        BY <3>0, ContextAssumption, Zenon
      <4> QED
        BY <4>1
    <3>2. Of(cc, query.ya) \subseteq Int /\ Of(cc, query.yb) \subseteq Int
      BY <3>1 DEF Of
    <3> QED
      BY <2>1, <3>2
  <2>3. /\ hy' \in [exp : Nat, cc : Codes, ya : Int, yb : Int, days : SUBSET Int,
                    whole : BOOLEAN]
        /\ hy'.cc = cc /\ hy'.ya = query.ya /\ hy'.yb = query.yb /\ hy'.days = m.days
        /\ hy'.whole = m.whole
    <3>1. hostTime + HyTtl \in Nat /\ m.days \in SUBSET Int
      BY <1>3, <2>2, ContextAssumption
    <3>2. hy' \in [exp : Nat, cc : Codes, ya : Int, yb : Int, days : SUBSET Int,
                   whole : BOOLEAN]
      BY <1>2, <1>3, <1>5, <2>1, <3>1, Zenon
    <3> QED
      BY <1>5, <3>2
  <2>4. query' = [query EXCEPT !.pc = "answer", !.cc = cc, !.hy = hol_mark(m.days, m.whole)]
    BY <1>5 DEF HolidaysGiven
  <2>5. /\ query' \in Dated /\ query'.day = query.day /\ query'.began = query.began
        /\ Fits(query)'
    BY <1>1, <1>2, <1>5, <2>1, <2>4, MarksFit
  <2>6. CachesInv'
    BY <1>1, <2>1, <2>3 DEF ContextInv, CachesInv, Of
  <2> QED
    BY <1>1, <1>3, <2>3, <2>5, <2>6, DatedStep DEF ContextInv
<1>6. CASE query' = [query EXCEPT !.pc = "answer"] /\ UNCHANGED hy
  <2>1. /\ query' \in Dated /\ query'.day = query.day /\ query'.began = query.began
        /\ query'.ya = query.ya /\ query'.yb = query.yb /\ query'.wx = query.wx
        /\ query'.hy = query.hy
        /\ query'.cc = query.cc
    BY <1>1, <1>6 DEF Dated
  <2>2. Fits(query)'
    BY <1>1, <2>1 DEF ContextInv, Fits, Of
  <2>3. CachesInv'
    BY <1>1, <1>6 DEF ContextInv, CachesInv, Of
  <2> QED
    BY <1>1, <1>3, <1>6, <2>1, <2>2, <2>3, DatedStep DEF ContextInv
<1> QED
  BY <1>4, <1>5, <1>6 DEF ctx_holidays_fill

\* Every step keeps the invariant.
LEMMA ContextInvNext == ContextInv /\ [ContextNext]_contextVars => ContextInv'
<1>1. ContextInv /\ UNCHANGED contextVars => ContextInv'
  BY DEF contextVars, ContextInv, TypesInv, TimeInv, CachesInv, Fits, Of
<1> QED
  BY <1>1, ClockKeeps, ConfigKeeps, PlaceKeeps, DateKeeps, WeatherKeeps, HolidaysKeep,
     ShownKeeps DEF ContextNext

\* For any calendar, any length of days and years and caches of any age, forecast,
\* flags and next holiday of an answer belong to its day and its country
\* (context_cache.c:182-204, 270-335).
THEOREM AnswersFit == ContextSpec => []ContextRight
<1>1. ContextInv => ContextRight
  <2> SUFFICES ASSUME ContextInv, tool_context_snapshot_json.pc = "answer"
               PROVE  ContextRight
    BY DEF ContextRight
  <2>1. last # NoQuery /\ tool_context_snapshot_json = last
    BY DEF tool_context_snapshot_json, ctx_minimal_snapshot
  <2>2. last \in Dated /\ Fits(last)
    BY <2>1 DEF ContextInv, TypesInv
  <2>3. last.wx.ok => wx_day_line(last) = {last.day} \/ last.day + 1 \in last.wx.days
    BY <2>2 DEF Fits, wx_day_line
  <2> QED
    BY <2>1, <2>2, <2>3 DEF ContextRight, Fits
<1> QED
  BY ContextInvInit, ContextInvNext, <1>1, PTL DEF ContextSpec

-----------------------------------------------------------------------------
(* Skills: SkillStore. *)

\* The contents that are not cut short.
Contents == {Whole(v) : v \in Versions}

\* Except for what the owner is writing, or wrote while it was read: what is on
\* disk, on its way there or in the editor is whole, and the file that is being read
\* is the one that was measured, since the service thread does not write meanwhile.
SkillInv ==
    /\ owner = None \/ (owner.name \in Names /\ owner.v \in Versions)
    /\ DOMAIN disk = Names
    /\ \A s \in Names : Editing(s) \/ s \in raced \/ disk[s] \in {Absent} \cup Contents
    /\ write = None \/ (write.name \in Names /\ (write.raced \/ write.c \in Contents))
    /\ editor = None \/ (editor.name \in Names /\ (editor.raced \/ editor.c \in Contents))
    /\ write = None \/ get = None
    /\ get = None \/
          /\ get.name \in Names
          /\ \/ get.raced
             \/ /\ disk[get.name] \in Contents /\ get.sz = disk[get.name].n
                /\ ~Editing(get.name)

\* A content has its version and its length.
LEMMA ContentIs ==
    ASSUME NEW c \in Contents
    PROVE  c.n = Size[c.v] /\ [c EXCEPT !.n = c.n] = c
<1>1. PICK v \in Versions : c = [v |-> v, n |-> Size[v]]
  BY DEF Contents, Whole
<1> QED
  BY <1>1

\* Every file is whole at first.
LEMMA SkillInvInit == SkillInit => SkillInv
  BY DEF SkillInit, SkillInv, Contents

\* What is read into the editor is the whole file, or nothing.
LEMMA GetKeeps == SkillInv /\ skill_get_send => SkillInv'
<1> SUFFICES ASSUME SkillInv, skill_get_send PROVE SkillInv'
  OBVIOUS
<1>1. get # None /\ get' = None /\ UNCHANGED <<disk, owner, write, raced>>
  BY DEF skill_get_send
<1> PICK c, used : /\ c = disk[get.name] /\ used = IF c.n < EditMax THEN c.n ELSE EditMax
  OBVIOUS
<1>2. editor' = IF used = get.sz /\ FitsAnswer(c.v)
                THEN AsShown(get.name, [c EXCEPT !.n = used], get.raced) ELSE editor
  BY DEF skill_get_send
<1>3. get.name \in Names /\ (get.raced \/ (c \in Contents /\ get.sz = c.n))
  BY <1>1 DEF SkillInv
<1>4. CASE editor' # editor
  <2>1. /\ editor' = AsShown(get.name, [c EXCEPT !.n = used], get.raced)
        /\ used = get.sz /\ FitsAnswer(c.v)
    BY <1>2, <1>4
  <2>2. editor'.name = get.name /\ editor'.raced = get.raced
    BY <2>1 DEF AsShown
  <2>3. CASE c \in Contents /\ get.sz = c.n
    <3>1. [c EXCEPT !.n = used] = c
      BY <2>1, <2>3, ContentIs
    <3>2. editor'.c = c
      BY <2>1, <3>1 DEF AsShown, FitsAnswer
    <3> QED
      BY <1>1, <1>3, <2>2, <2>3, <3>2 DEF SkillInv, Editing
  <2>4. CASE get.raced
    BY <1>1, <1>3, <2>2, <2>4 DEF SkillInv, Editing
  <2> QED
    BY <1>3, <2>3, <2>4
<1>5. CASE editor' = editor
  BY <1>1, <1>5 DEF SkillInv, Editing
<1> QED
  BY <1>4, <1>5

\* The owner's edits in place: while one lasts, and for whoever reads meanwhile,
\* nothing is promised.
LEMMA OwnerKeeps == ASSUME SkillInv, OwnerBegins \/ OwnerEnds PROVE SkillInv'
<1>1. /\ write' = write /\ editor' = editor
      /\ write = None \/ (write.name \in Names /\ (write.raced \/ write.c \in Contents))
      /\ editor = None \/ (editor.name \in Names /\ (editor.raced \/ editor.c \in Contents))
      /\ write = None \/ get = None
      /\ DOMAIN disk = Names
  BY DEF OwnerBegins, OwnerEnds, SkillInv
<1>2. ASSUME NEW s \in Names, NEW d, disk' = [disk EXCEPT ![s] = d], get' = Touched(s),
             owner' = None \/ owner'.name = s, owner = None \/ owner.name = s
      PROVE  /\ DOMAIN disk' = Names
             /\ write = None \/ get' = None
             /\ get' = None \/
                   /\ get'.name \in Names
                   /\ \/ get'.raced
                      \/ /\ disk'[get'.name] \in Contents /\ get'.sz = disk'[get'.name].n
                         /\ owner' = None \/ owner'.name # get'.name
  <2>1. DOMAIN disk' = Names /\ \A t \in Names : t # s => disk'[t] = disk[t]
    BY <1>1, <1>2
  <2>2. CASE get = None
    BY <1>2, <2>1, <2>2 DEF Touched
  <2>3. CASE get # None /\ get.name = s
    <3>1. get' = [get EXCEPT !.raced = TRUE]
      BY <1>2, <2>3 DEF Touched
    <3>2. write = None
      BY <1>1, <2>3
    <3>3. get = [pc |-> get.pc, name |-> get.name, sz |-> get.sz, raced |-> get.raced]
          => get'.raced /\ get'.name = s
      BY <2>3, <3>1
    <3>4. get'.raced /\ get'.name = s
      BY <2>3, <3>1, <3>3 DEF SkillInv
    <3> QED
      BY <2>1, <3>2, <3>4
  <2>4. CASE get # None /\ get.name # s
    <3>1. get' = get
      BY <1>2, <2>4 DEF Touched
    <3>2. get.name \in Names /\ disk'[get.name] = disk[get.name]
      BY <2>1, <2>4 DEF SkillInv
    <3>3. owner' = None \/ owner'.name # get'.name
      BY <1>2, <2>4, <3>1
    <3>4. get.raced \/ (disk[get.name] \in Contents /\ get.sz = disk[get.name].n)
      BY <2>4 DEF SkillInv
    <3> QED
      BY <1>1, <2>1, <2>4, <3>1, <3>2, <3>3, <3>4
  <2> QED
    BY <2>2, <2>3, <2>4
<1>3. CASE OwnerBegins
  <2>1. PICK s \in Names, v \in Versions, n \in Int :
           /\ n \in 0 .. Size[v] - 1
           /\ disk' = [disk EXCEPT ![s] = [v |-> v, n |-> n]]
           /\ owner' = [pc |-> "edit", name |-> s, v |-> v]
           /\ get' = Touched(s) /\ raced' = raced \ {s}
    <3>1. \A v \in Versions : Size[v] \in Nat
      BY SkillsAssumption DEF Versions
    <3>2. \A v \in Versions : \A n \in 0 .. Size[v] - 1 : n \in Int
      BY <3>1
    <3> QED
      BY <1>3, <3>2 DEF OwnerBegins, Put
  <2>2. owner = None /\ owner' # None /\ owner'.name = s /\ owner'.v = v
    BY <1>3, <2>1 DEF OwnerBegins, None
  <2>3. \A t \in Names : Editing(t)' \/ t \in raced' \/ disk'[t] \in {Absent} \cup Contents
    BY <1>1, <2>1, <2>2 DEF SkillInv, Editing
  <2>4. /\ DOMAIN disk' = Names
        /\ write = None \/ get' = None
        /\ get' = None \/
              /\ get'.name \in Names
              /\ \/ get'.raced
                 \/ /\ disk'[get'.name] \in Contents /\ get'.sz = disk'[get'.name].n
                    /\ owner' = None \/ owner'.name # get'.name
    BY <1>2, <2>1, <2>2
  <2> QED
    BY <1>1, <2>2, <2>3, <2>4 DEF SkillInv, Editing
<1>4. CASE OwnerEnds
  <2>1. /\ owner # None /\ owner.name \in Names /\ owner.v \in Versions
        /\ disk' = [disk EXCEPT ![owner.name] = Whole(owner.v)]
        /\ get' = Touched(owner.name) /\ owner' = None /\ raced' = raced
    BY <1>4 DEF OwnerEnds, Put, SkillInv
  <2>2. Whole(owner.v) \in Contents
    BY <2>1 DEF Contents
  <2>3. \A t \in Names : t \in raced' \/ disk'[t] \in {Absent} \cup Contents
    BY <1>1, <2>1, <2>2 DEF SkillInv, Editing
  <2> QED
    BY <1>1, <1>2, <2>1, <2>3 DEF SkillInv, Editing
<1> QED
  BY <1>3, <1>4

\* Every step keeps the invariant.
LEMMA SkillInvNext == SkillInv /\ [SkillNext]_skillVars => SkillInv'
<1> SUFFICES ASSUME SkillInv, [SkillNext]_skillVars PROVE SkillInv'
  OBVIOUS
<1>1. ASSUME UNCHANGED <<disk, owner, write, get, editor, raced>> PROVE SkillInv'
  BY <1>1 DEF SkillInv, Editing
<1>2. CASE Watcher
  BY <1>1, <1>2 DEF Watcher, load_skills_from_disk, do_reload_cache, skill_watch_start,
     StartFails, inotify_add_watch, watch_thread_fn, skill_watch_stop, Joined
<1>3. CASE OwnerBegins \/ OwnerEnds
  BY <1>3, OwnerKeeps
<1>4. CASE Save
  <2>1. write = None /\ get = None /\ UNCHANGED <<disk, owner, get, raced>>
    BY <1>4 DEF Save
  <2>2. CASE \E s \in Names, v \in Versions : skill_create(s, v) /\ UNCHANGED editor
    <3>1. PICK s \in Names, v \in Versions :
             /\ write' = [pc |-> "temp", name |-> s, c |-> Whole(v), raced |-> FALSE]
             /\ UNCHANGED editor
      BY <2>2 DEF skill_create
    <3>2. write'.name \in Names /\ write'.c \in Contents
      BY <3>1 DEF Contents
    <3> QED
      BY <2>1, <3>1, <3>2 DEF SkillInv, Editing
  <2>3. CASE /\ editor # None /\ skill_update(editor.name, editor.c, editor.raced)
             /\ editor' = None
    <3>1. write'.name = editor.name /\ write'.c = editor.c /\ write'.raced = editor.raced
      BY <2>3 DEF skill_update
    <3> QED
      BY <2>1, <2>3, <3>1 DEF SkillInv, Editing
  <2>4. CASE \E v \in Versions :
                editor # None /\ skill_update(editor.name, Whole(v), FALSE) /\ editor' = None
    <3>1. PICK v \in Versions :
             write' = [pc |-> "temp", name |-> editor.name, c |-> Whole(v), raced |-> FALSE]
      BY <2>4 DEF skill_update
    <3>2. write'.name = editor.name /\ write'.c \in Contents
      BY <3>1 DEF Contents
    <3> QED
      BY <2>1, <2>4, <3>2 DEF SkillInv, Editing
  <2> QED
    BY <1>4, <2>2, <2>3, <2>4 DEF Save
<1>5. CASE TempSkillWritten
  <2>1. write # None
    BY <1>5 DEF TempSkillWritten, None
  <2>2. CASE write' = [write EXCEPT !.pc = "rename"]
    <3>1. write'.name = write.name /\ write'.c = write.c /\ write'.raced = write.raced
      BY <2>1, <2>2 DEF SkillInv
    <3> QED
      BY <1>5, <2>1, <3>1 DEF TempSkillWritten, SkillInv, Editing
  <2>3. CASE write' = None
    BY <1>5, <2>3 DEF TempSkillWritten, SkillInv, Editing
  <2> QED
    BY <1>5, <2>2, <2>3 DEF TempSkillWritten
<1>6. CASE write_skill_atomic
  <2>1. write # None
    BY <1>6 DEF write_skill_atomic, None
  <2>2. /\ disk' = [disk EXCEPT ![write.name] = write.c] /\ write' = None
        /\ owner' = IF Editing(write.name) THEN None ELSE owner
        /\ raced' = IF write.raced THEN raced \cup {write.name} ELSE raced \ {write.name}
        /\ get = None /\ write.name \in Names /\ UNCHANGED <<get, editor>>
    BY <1>6, <2>1 DEF write_skill_atomic, Put, Replaced, SkillInv
  <2>3. \A t \in Names : Editing(t)' \/ t \in raced' \/ disk'[t] \in {Absent} \cup Contents
    BY <2>1, <2>2 DEF SkillInv, Editing
  <2> QED
    BY <2>2, <2>3 DEF SkillInv
<1>7. CASE skill_delete
  <2>1. PICK s \in Names :
           /\ disk' = [disk EXCEPT ![s] = Absent]
           /\ owner' = IF Editing(s) THEN None ELSE owner
           /\ raced' = raced \ {s}
    BY <1>7 DEF skill_delete, Put, Replaced
  <2>2. get = None /\ UNCHANGED <<write, get, editor>>
    BY <1>7 DEF skill_delete
  <2>3. \A t \in Names : Editing(t)' \/ t \in raced' \/ disk'[t] \in {Absent} \cup Contents
    BY <2>1, <2>2 DEF SkillInv, Editing
  <2> QED
    BY <2>1, <2>2, <2>3 DEF SkillInv
<1>8. CASE skill_get_content
  <2>1. PICK s \in Names :
           /\ disk[s] # Absent
           /\ get' = [pc |-> "read", name |-> s, sz |-> disk[s].n,
                      raced |-> Editing(s) \/ s \in raced]
    BY <1>8 DEF skill_get_content
  <2>2. get'.name = s /\ get'.sz = disk[s].n /\ (get'.raced <=> Editing(s) \/ s \in raced)
    BY <2>1
  <2>3. get'.raced \/ (disk[s] \in Contents /\ ~Editing(s))
    BY <2>1, <2>2 DEF SkillInv
  <2>4. write = None /\ UNCHANGED <<disk, owner, write, editor, raced>>
    BY <1>8 DEF skill_get_content
  <2> QED
    BY <2>2, <2>3, <2>4 DEF SkillInv, Editing
<1>9. CASE skill_get_send
  BY <1>9, GetKeeps
<1>10. CASE ProcessDies
  BY <1>10 DEF ProcessDies, SkillInv, Editing
<1>11. CASE UNCHANGED skillVars
  BY <1>1, <1>11 DEF skillVars
<1> QED
  BY <1>2, <1>3, <1>4, <1>5, <1>6, <1>7, <1>8, <1>9, <1>10, <1>11
     DEF SkillNext, Changes, Dashboard

\* For any files, lengths and limits, a skill that is opened in the editor and saved
\* is whole, unless the owner was writing it in place while it was measured and read
\* (skill.c:340-360, routes.c:396-424).
THEOREM SkillsWhole == SkillSpec => []NeverCut
<1>1. SkillInv => NeverCut
  BY ContentIs DEF SkillInv, NeverCut
<1> QED
  BY SkillInvInit, SkillInvNext, <1>1, PTL DEF SkillSpec

-----------------------------------------------------------------------------
(* What the cache holds: CacheFresh. *)

Texts == [v : Versions \cup {0}, n : Nat]
Pieces == Names \X (Versions \cup {0}) \X Nat

Present == {s \in Names : disk[s] # Absent}

\* fill[i] is the buffer after the first i files of an order.
Fills(fill, order) ==
    fill = [i \in 0 .. Len(order) |->
              IF i = 0 THEN <<>>
              ELSE append_file_content(fill[i - 1], order[i], disk[order[i]])]

\* An order of the files in S, each once.
Orders(order, S) ==
    /\ order \in Seq(Names)
    /\ \A i, j \in 1 .. Len(order) : order[i] = order[j] => i = j
    /\ \A s \in Names : s \in S <=> \E i \in 1 .. Len(order) : order[i] = s

\* The buffer of the scan has the files it has come to as they are on disk now.
Scanned ==
    \E order, fill :
        /\ Orders(order, Present \ scan.todo) /\ Fills(fill, order)
        /\ scan.buf = fill[Len(order)]

\* Contents and buffers.
FilesInv ==
    /\ events \in Nat
    /\ disk \in [Names -> Texts]
    /\ owner = None \/ (owner.name \in Names /\ owner.v \in Versions)
    /\ write = None \/ (write.name \in Names /\ write.c \in Texts)
    /\ editor = None \/ (editor.name \in Names /\ editor.c \in Texts)
    /\ get = None \/ get.name \in Names
    /\ scan \in [todo : SUBSET Names, buf : Seq(Pieces)] /\ Len(scan.buf) <= CacheMax

\* A scan is current unless there is a change to come back for or one that was
\* missed, and so is the cache that it becomes.
FreshInv ==
    /\ watch = "load" /\ ~missed => Scanned
    /\ watch = "scan" /\ events = 0 /\ ~missed => Scanned
    /\ watch = "arm" /\ ~missed => skillCache \in Loads
    /\ watch = "idle" /\ events = 0 /\ ~missed => skillCache \in Loads

SkillCacheInv == FilesInv /\ FreshInv

\* Every set of natural numbers has a least one.
LEMMA LeastNumber ==
    ASSUME NEW S, S \subseteq Nat, S # {}
    PROVE  \E j \in S : \A k \in S : j <= k
<1>1. PICK j \in S : \A k \in S : <<k, j>> \notin OpToRel(<, Nat)
  BY NatLessThanWellFounded, WFMin
<1>2. \A k \in S : ~(k < j)
  BY <1>1 DEF OpToRel
<1> QED
  BY <1>2

\* An order has one filling: two would differ first where they cannot.
LEMMA OneFilling ==
    ASSUME NEW order \in Seq(Names), NEW f, NEW g, Fills(f, order), Fills(g, order)
    PROVE  f = g
<1> DEFINE n == Len(order)
           T == {i \in 0 .. n : f[i] # g[i]}
<1>1. n \in Nat
  OBVIOUS
<1> HIDE DEF n
<1>2. /\ f[0] = <<>> /\ g[0] = <<>>
      /\ \A i \in 1 .. n :
            /\ f[i] = append_file_content(f[i - 1], order[i], disk[order[i]])
            /\ g[i] = append_file_content(g[i - 1], order[i], disk[order[i]])
  <2>1. f = [i \in 0 .. n |->
              IF i = 0 THEN <<>>
              ELSE append_file_content(f[i - 1], order[i], disk[order[i]])]
    BY DEF Fills, n
  <2>2. g = [i \in 0 .. n |->
              IF i = 0 THEN <<>>
              ELSE append_file_content(g[i - 1], order[i], disk[order[i]])]
    BY DEF Fills, n
  <2>3. 0 \in 0 .. n /\ \A i \in 1 .. n : i \in 0 .. n /\ i # 0
    BY <1>1
  <2> QED
    BY <2>1, <2>2, <2>3
<1>3. T = {}
  <2> SUFFICES ASSUME T # {} PROVE FALSE
    OBVIOUS
  <2>1. T \subseteq Nat
    BY <1>1
  <2>2. PICK i \in T : \A k \in T : i <= k
    BY <2>1, LeastNumber
  <2>3. i \in 1 .. n /\ i - 1 \in 0 .. n /\ ~(i <= i - 1)
    BY <1>1, <1>2, <2>2
  <2>4. f[i - 1] = g[i - 1]
    BY <2>2, <2>3
  <2> QED
    BY <1>2, <2>2, <2>3, <2>4
<1>4. f = [i \in 0 .. n |-> f[i]] /\ g = [i \in 0 .. n |-> g[i]]
  BY DEF Fills, n
<1>5. \A i \in 0 .. n : f[i] = g[i]
  BY <1>3
<1> QED
  BY <1>4, <1>5

\* So a filling of an order is what the scan in this order gives.
LEMMA FilledIs ==
    ASSUME NEW order \in Seq(Names), NEW f, Fills(f, order)
    PROVE  Filled(order) = f[Len(order)]
<1> DEFINE g == CHOOSE fill : fill = [i \in 0 .. Len(order) |->
                   IF i = 0 THEN <<>>
                   ELSE append_file_content(fill[i - 1], order[i], disk[order[i]])]
<1>1. Filled(order) = g[Len(order)]
  BY DEF Filled
<1>2. Fills(g, order)
  BY DEF Fills
<1> QED
  BY <1>1, <1>2, OneFilling

\* One more file.
LEMMA FillsNext ==
    ASSUME NEW order \in Seq(Names), NEW s \in Names, NEW f, Fills(f, order)
    PROVE  \E g : /\ Fills(g, Append(order, s))
                  /\ g[Len(order) + 1] = append_file_content(f[Len(order)], s, disk[s])
<1> DEFINE n == Len(order)
           o == Append(order, s)
           full == append_file_content(f[n], s, disk[s])
           g == [i \in 0 .. n + 1 |-> IF i <= n THEN f[i] ELSE full]
<1>1. n \in Nat /\ Len(o) = n + 1 /\ o[n + 1] = s /\ \A i \in 1 .. n : o[i] = order[i]
  OBVIOUS
<1> HIDE DEF n, o
<1>2. f[0] = <<>> /\ \A i \in 1 .. n :
         f[i] = append_file_content(f[i - 1], order[i], disk[order[i]])
  <2>1. f = [i \in 0 .. n |->
              IF i = 0 THEN <<>>
              ELSE append_file_content(f[i - 1], order[i], disk[order[i]])]
    BY DEF Fills, n
  <2>2. 0 \in 0 .. n /\ \A i \in 1 .. n : i \in 0 .. n /\ i # 0
    BY <1>1
  <2> QED
    BY <2>1, <2>2
<1> DEFINE h == [i \in 0 .. n + 1 |->
              IF i = 0 THEN <<>> ELSE append_file_content(g[i - 1], o[i], disk[o[i]])]
<1>3. ASSUME NEW i \in 0 .. n + 1 PROVE g[i] = h[i]
  <2>1. CASE i = 0
    BY <1>1, <1>2, <2>1
  <2>2. CASE i \in 1 .. n
    <3>1. i - 1 \in 0 .. n + 1 /\ i - 1 <= n /\ i # 0 /\ i <= n
      BY <1>1, <2>2
    <3>2. g[i - 1] = f[i - 1] /\ g[i] = f[i] /\ o[i] = order[i]
      BY <1>1, <2>2, <3>1
    <3>3. h[i] = append_file_content(g[i - 1], o[i], disk[o[i]])
      BY <3>1
    <3> QED
      BY <1>2, <2>2, <3>2, <3>3
  <2>3. CASE i = n + 1
    <3>1. i - 1 = n /\ n \in 0 .. n + 1 /\ i # 0 /\ ~(i <= n)
      BY <1>1, <2>3
    <3>2. g[i - 1] = f[n] /\ g[i] = full /\ o[i] = s
      BY <1>1, <2>3, <3>1
    <3>3. h[i] = append_file_content(g[i - 1], o[i], disk[o[i]])
      BY <3>1
    <3> QED
      BY <3>2, <3>3
  <2> QED
    BY <1>1, <2>1, <2>2, <2>3
<1>4. g = h
  BY <1>3
<1>5. Fills(g, o)
  BY <1>1, <1>4 DEF Fills
<1>6. g[n + 1] = full
  BY <1>1
<1> QED
  BY <1>5, <1>6 DEF n, o

\* What append_file_content gives is a buffer, and a file without text adds none.
LEMMA Appended ==
    ASSUME NEW buf \in Seq(Pieces), Len(buf) <= CacheMax, NEW s \in Names, NEW c \in Texts
    PROVE  /\ append_file_content(buf, s, c) \in Seq(Pieces)
           /\ Len(append_file_content(buf, s, c)) <= CacheMax
           /\ c.n = 0 => append_file_content(buf, s, c) = buf
<1> DEFINE more == [i \in 1 .. c.n |-> <<s, c.v, i>>]
           all == buf \o more
           len == IF Len(all) < CacheMax THEN Len(all) ELSE CacheMax
<1>1. c.n \in Nat /\ c.v \in Versions \cup {0} /\ CacheMax \in Nat
  BY SkillsAssumption DEF Texts
<1>2. more \in [1 .. c.n -> Pieces]
  BY <1>1 DEF Pieces
<1>3. more \in Seq(Pieces) /\ Len(more) = c.n
  BY <1>1, <1>2, IsASeq
<1> HIDE DEF more
<1>4. all \in Seq(Pieces) /\ Len(all) = Len(buf) + c.n
  BY <1>3
<1>5. c.n = 0 => all = buf
  <2> SUFFICES ASSUME c.n = 0 PROVE all = buf
    OBVIOUS
  <2>1. more = <<>>
    BY <1>3
  <2> QED
    BY <2>1
<1>6. append_file_content(buf, s, c) = SubSeq(all, 1, len)
  BY DEF append_file_content, more
<1> HIDE DEF all
<1>7. Len(all) \in Nat /\ len \in Nat /\ len <= Len(all) /\ len <= CacheMax
  BY <1>1, <1>4
<1> HIDE DEF len
<1>8. SubSeq(all, 1, len) \in Seq(Pieces) /\ Len(SubSeq(all, 1, len)) = len
  BY <1>4, <1>7
<1>9. c.n = 0 => SubSeq(all, 1, len) = buf
  <2> SUFFICES ASSUME c.n = 0 PROVE SubSeq(all, 1, len) = buf
    OBVIOUS
  <2>1. all = buf /\ len = Len(buf)
    BY <1>1, <1>5, <1>7 DEF len
  <2> QED
    BY <2>1
<1> QED
  BY <1>6, <1>7, <1>8, <1>9

\* A scan that begins has come to nothing.
LEMMA NothingScanned ==
    ASSUME Present' \ scan'.todo = {}, scan'.buf = <<>>
    PROVE  Scanned'
<1> DEFINE f == [i \in 0 .. 0 |-> <<>>]
<1>1. Orders(<<>>, Present \ scan.todo)'
  BY DEF Orders
<1>2. f[0] = <<>> /\ Len(<<>>) = 0 /\ \A i \in 0 .. 0 : i = 0
  OBVIOUS
<1>3. Fills(f, <<>>)'
  BY <1>2 DEF Fills
<1> QED
  BY <1>1, <1>2, <1>3 DEF Scanned

\* One more file, or one that is gone by now.
LEMMA OneMore ==
    ASSUME FilesInv, Scanned, NEW s \in Names, s \in scan.todo, UNCHANGED disk,
           scan' = [todo |-> scan.todo \ {s},
                    buf |-> append_file_content(scan.buf, s, disk[s])]
    PROVE  Scanned'
<1>1. PICK order, fill :
         /\ Orders(order, Present \ scan.todo) /\ Fills(fill, order)
         /\ scan.buf = fill[Len(order)]
  BY DEF Scanned
<1>2. order \in Seq(Names) /\ Len(order) \in Nat
  BY <1>1 DEF Orders
<1>3. /\ scan'.todo = scan.todo \ {s} /\ scan'.buf = append_file_content(scan.buf, s, disk[s])
      /\ Present' = Present
  BY DEF Present
<1>4. CASE disk[s] = Absent
  <2>1. scan'.buf = scan.buf
    <3>1. disk[s] \in Texts /\ disk[s].n = 0
      BY <1>4 DEF FilesInv, Absent
    <3> QED
      BY <1>3, <3>1, Appended DEF FilesInv
  <2>2. Present' \ scan'.todo = Present \ scan.todo
    BY <1>3, <1>4 DEF Present
  <2>3. Fills(fill, order)'
    BY <1>1 DEF Fills
  <2> QED
    BY <1>1, <2>1, <2>2, <2>3 DEF Scanned, Orders
<1>5. CASE disk[s] # Absent
  <2> DEFINE o == Append(order, s)
  <2>1. Len(o) = Len(order) + 1 /\ o \in Seq(Names) /\ o[Len(order) + 1] = s
        /\ \A i \in 1 .. Len(order) : o[i] = order[i]
    BY <1>2
  <2>2. PICK g : Fills(g, o) /\ g[Len(order) + 1] = append_file_content(fill[Len(order)], s, disk[s])
    BY <1>1, <1>2, FillsNext
  <2> HIDE DEF o
  <2>3. scan'.buf = g[Len(o)]
    BY <1>1, <1>3, <2>1, <2>2
  <2>4. Fills(g, o)'
    BY <2>2 DEF Fills
  <2>5. \A i \in 1 .. Len(order) : order[i] # s
    BY <1>1, <1>2 DEF Orders
  <2>6. \A i, j \in 1 .. Len(o) : o[i] = o[j] => i = j
    <3>1. \A i \in 1 .. Len(o) : i \in 1 .. Len(order) \/ i = Len(order) + 1
      BY <1>2, <2>1
    <3> QED
      BY <1>1, <2>1, <2>5, <3>1 DEF Orders
  <2>7. \A t \in Names : t \in Present' \ scan'.todo <=> \E i \in 1 .. Len(o) : o[i] = t
    <3> SUFFICES ASSUME NEW t \in Names
                 PROVE  t \in Present' \ scan'.todo <=> \E i \in 1 .. Len(o) : o[i] = t
      OBVIOUS
    <3>1. (\E i \in 1 .. Len(o) : o[i] = t) <=> (t = s \/ \E i \in 1 .. Len(order) : order[i] = t)
      <4>1. 1 .. Len(o) = 1 .. Len(order) \cup {Len(order) + 1}
        BY <1>2, <2>1
      <4> QED
        BY <2>1, <4>1
    <3>2. t \in Present \ scan.todo <=> \E i \in 1 .. Len(order) : order[i] = t
      BY <1>1 DEF Orders
    <3>3. s \in Present
      BY <1>5 DEF Present
    <3> QED
      BY <1>3, <3>1, <3>2, <3>3
  <2>8. Orders(o, Present' \ scan'.todo)
    BY <2>1, <2>6, <2>7 DEF Orders
  <2>9. Orders(o, Present \ scan.todo)'
    BY <2>8 DEF Orders
  <2> QED
    BY <2>3, <2>4, <2>9 DEF Scanned
<1> QED
  BY <1>4, <1>5

\* A file that the scan has not come to may change below it.
LEMMA ChangeAhead ==
    ASSUME FilesInv, Scanned, NEW s \in Names, NEW c, disk' = [disk EXCEPT ![s] = c],
           s \in scan'.todo, scan'.buf = scan.buf,
           \/ scan' = scan
           \/ disk[s] = Absent /\ scan'.todo = scan.todo \cup {s}
    PROVE  Scanned'
<1>1. PICK order, fill :
         /\ Orders(order, Present \ scan.todo) /\ Fills(fill, order)
         /\ scan.buf = fill[Len(order)]
  BY DEF Scanned
<1>2. Present' \ scan'.todo = Present \ scan.todo
  BY DEF Present, FilesInv
<1>3. \A i \in 1 .. Len(order) : disk'[order[i]] = disk[order[i]]
  <2>1. \A i \in 1 .. Len(order) : order[i] \in Names /\ order[i] \in Present \ scan.todo
    BY <1>1 DEF Orders
  <2>2. \A i \in 1 .. Len(order) : order[i] # s
    BY <1>2, <2>1, SMTT(30)
  <2> QED
    BY <2>1, <2>2 DEF FilesInv
<1>4. Fills(fill, order)'
  <2>1. order \in Seq(Names) /\ Len(order) \in Nat
    BY <1>1 DEF Orders
  <2>2. \A i \in 0 .. Len(order) : i # 0 => i \in 1 .. Len(order)
    BY <2>1
  <2>3. fill = [i \in 0 .. Len(order) |->
              IF i = 0 THEN <<>>
              ELSE append_file_content(fill[i - 1], order[i], disk[order[i]])]
    BY <1>1 DEF Fills
  <2>4. \A i \in 0 .. Len(order) :
          (IF i = 0 THEN <<>> ELSE append_file_content(fill[i - 1], order[i], disk[order[i]]))
        = (IF i = 0 THEN <<>> ELSE append_file_content(fill[i - 1], order[i], disk'[order[i]]))
    BY <1>3, <2>2
  <2>5. fill = [i \in 0 .. Len(order) |->
              IF i = 0 THEN <<>>
              ELSE append_file_content(fill[i - 1], order[i], disk'[order[i]])]
    BY <2>3, <2>4
  <2> QED
    BY <2>5 DEF Fills, append_file_content
<1> QED
  BY <1>1, <1>2, <1>4 DEF Scanned, Orders

\* A scan that is done has what a scan of the agent would have.
LEMMA ScanDone ==
    ASSUME FilesInv, Scanned, scan.todo = {}
    PROVE  scan.buf \in Loads
<1>1. PICK order, fill :
         /\ Orders(order, Present \ scan.todo) /\ Fills(fill, order)
         /\ scan.buf = fill[Len(order)]
  BY DEF Scanned
<1>2. order \in Seq(Names) /\ Len(order) \in Nat
  BY <1>1 DEF Orders
<1>3. Filled(order) = scan.buf
  BY <1>1, <1>2, FilledIs
<1>4. /\ \A i \in 1 .. Len(order) : order[i] \in Present
      /\ \A s \in Present : \E i \in 1 .. Len(order) : order[i] = s
      /\ \A i, j \in 1 .. Len(order) : order[i] = order[j] => i = j
  <2>1. Present \subseteq Names /\ \A i \in 1 .. Len(order) : order[i] \in Names
    BY <1>2 DEF Present
  <2> QED
    BY <1>1, <2>1 DEF Orders
<1>5. order \in [1 .. Len(order) -> Present]
  BY <1>2, <1>4
<1>6. order \in Bijection(1 .. Len(order), Present)
  BY <1>4, <1>5 DEF Bijection, Injection, IsInjective, Surjection
<1>7. Cardinality(Present) = Len(order)
  <2>1. IsFiniteSet(1 .. Len(order)) /\ Cardinality(1 .. Len(order)) = Len(order)
    <3>1. 1 \in Int /\ Len(order) \in Int /\ (1 > Len(order) => Len(order) = 0)
      BY <1>2
    <3>2. /\ IsFiniteSet(1 .. Len(order))
          /\ Cardinality(1 .. Len(order)) =
                IF 1 > Len(order) THEN 0 ELSE Len(order) - 1 + 1
      BY <3>1, FS_Interval
    <3> QED
      BY <1>2, <3>1, <3>2
  <2> QED
    BY <1>6, <2>1, FS_Bijection DEF ExistsBijection
<1>8. opendir.todo = Present
  BY DEF opendir, Present
<1>9. order \in SetToSeqs(opendir.todo)
  BY <1>4, <1>5, <1>7, <1>8 DEF SetToSeqs
<1> QED
  BY <1>3, <1>9 DEF Loads

\* The cache is what a scan would give as long as the files stay.
LEMMA LoadsStay == UNCHANGED disk => Loads' = Loads
  BY DEF Loads, Filled, opendir, append_file_content

\* What a scan has stays what it was as long as the files do.
LEMMA ScannedStays == Scanned /\ UNCHANGED <<disk, scan>> => Scanned'
<1> SUFFICES ASSUME Scanned, UNCHANGED <<disk, scan>> PROVE Scanned'
  OBVIOUS
<1>1. PICK order, fill :
         /\ Orders(order, Present \ scan.todo) /\ Fills(fill, order)
         /\ scan.buf = fill[Len(order)]
  BY DEF Scanned
<1>2. Orders(order, Present \ scan.todo)'
  BY <1>1 DEF Orders, Present
<1>3. Fills(fill, order)'
  BY <1>1 DEF Fills
<1> QED
  BY <1>1, <1>2, <1>3 DEF Scanned

\* At the start there is no scan, and nothing to be fresh.
LEMMA SkillCacheInvInit == SkillInit => SkillCacheInv
<1> SUFFICES ASSUME SkillInit PROVE SkillCacheInv
  OBVIOUS
<1>1. disk \in [Names -> Texts]
  <2>1. Absent \in Texts /\ \A v \in Versions : Whole(v) \in Texts
    BY SkillsAssumption DEF Absent, Whole, Texts, Versions
  <2> QED
    BY <2>1 DEF SkillInit
<1>2. scan = [todo |-> {}, buf |-> <<>>]
  BY DEF SkillInit, NoScan
<1>3. FilesInv
  BY <1>1, <1>2, SkillsAssumption DEF SkillInit, FilesInv
<1> QED
  BY <1>3 DEF SkillInit, SkillCacheInv, FreshInv

\* A file gets another content.
LEMMA PutKeeps ==
    ASSUME SkillCacheInv, NEW s \in Names, NEW c \in Texts, Put(s, c),
           UNCHANGED <<watch, skillCache, editor>>, write' \in {write, None},
           owner' = None \/ (owner'.name \in Names /\ owner'.v \in Versions),
           get' = None \/ get'.name \in Names
    PROVE  SkillCacheInv'
<1>1. /\ disk' = [disk EXCEPT ![s] = c]
      /\ events' = IF Watched THEN events + 1 ELSE events
      /\ \/ scan' = scan
         \/ disk[s] = Absent /\ scan' = [scan EXCEPT !.todo = @ \cup {s}]
      /\ missed' = (missed \/ watch = "arm" \/ (watch = "load" /\ s \notin scan'.todo))
  BY DEF Put, Reported
<1>2. events \in Nat /\ disk \in [Names -> Texts]
  BY DEF SkillCacheInv, FilesInv
<1>3. /\ scan' \in [todo : SUBSET Names, buf : Seq(Pieces)] /\ scan'.buf = scan.buf
      /\ scan' = scan \/ (disk[s] = Absent /\ scan'.todo = scan.todo \cup {s})
  BY <1>1 DEF SkillCacheInv, FilesInv
<1>4. FilesInv'
  BY <1>1, <1>2, <1>3 DEF SkillCacheInv, FilesInv
<1>5. CASE watch = "load" /\ ~missed'
  <2>1. Scanned /\ s \in scan'.todo
    BY <1>1, <1>5 DEF SkillCacheInv, FreshInv
  <2>2. Scanned'
    BY <1>1, <1>3, <2>1, ChangeAhead DEF SkillCacheInv
  <2> QED
    BY <1>4, <1>5, <2>2 DEF SkillCacheInv, FreshInv
<1>6. CASE watch \in {"idle", "scan"}
  <2>1. events' # 0
    BY <1>1, <1>2, <1>6 DEF Watched
  <2> QED
    BY <1>4, <1>6, <2>1 DEF SkillCacheInv, FreshInv
<1>7. CASE watch \notin {"idle", "scan"} /\ ~(watch = "load" /\ ~missed')
  BY <1>1, <1>4, <1>7 DEF SkillCacheInv, FreshInv
<1> QED
  BY <1>5, <1>6, <1>7

\* The steps of the scan and the thread around it.
LEMMA WatchKeeps ==
    ASSUME SkillCacheInv,
           \/ load_skills_from_disk \/ do_reload_cache \/ skill_watch_start \/ StartFails
           \/ inotify_add_watch \/ watch_thread_fn \/ skill_watch_stop \/ Joined
    PROVE  SkillCacheInv'
<1>1. FilesInv /\ FreshInv /\ UNCHANGED <<disk, owner, write, get, editor>>
  BY DEF SkillCacheInv, load_skills_from_disk, do_reload_cache, skill_watch_start, StartFails,
     inotify_add_watch, watch_thread_fn, skill_watch_stop, Joined
<1>2. Loads' = Loads /\ CacheMax \in Nat /\ NoScan.buf = <<>> /\ opendir.buf = <<>>
  BY <1>1, LoadsStay, SkillsAssumption DEF NoScan, opendir
<1>3. ASSUME events' \in Nat, scan' \in [todo : SUBSET Names, buf : Seq(Pieces)],
             Len(scan'.buf) <= CacheMax
      PROVE  FilesInv'
  BY <1>1, <1>3 DEF FilesInv
<1>4. /\ events \in Nat /\ scan \in [todo : SUBSET Names, buf : Seq(Pieces)]
      /\ Len(scan.buf) <= CacheMax
  BY <1>1 DEF FilesInv
<1>5. CASE load_skills_from_disk
  <2>1. PICK s \in scan.todo :
           scan' = [todo |-> scan.todo \ {s},
                    buf |-> append_file_content(scan.buf, s, disk[s])]
    BY <1>5 DEF load_skills_from_disk
  <2>2. s \in Names /\ disk[s] \in Texts
    BY <1>1, <1>4 DEF FilesInv
  <2>3. /\ append_file_content(scan.buf, s, disk[s]) \in Seq(Pieces)
        /\ Len(append_file_content(scan.buf, s, disk[s])) <= CacheMax
    BY <1>4, <2>2, Appended
  <2>4. FilesInv'
    BY <1>3, <1>4, <1>5, <2>1, <2>3 DEF load_skills_from_disk
  <2>5. Scanned => Scanned'
    BY <1>1, <2>1, <2>2, OneMore
  <2> QED
    BY <1>1, <1>5, <2>4, <2>5 DEF load_skills_from_disk, SkillCacheInv, FreshInv
<1>6. CASE do_reload_cache
  <2>1. Scanned => skillCache' \in Loads'
    BY <1>1, <1>2, <1>6, ScanDone DEF do_reload_cache
  <2>2. FilesInv'
    BY <1>2, <1>3, <1>4, <1>6 DEF do_reload_cache, NoScan
  <2>3. FreshInv'
    BY <1>1, <1>6, <2>1 DEF do_reload_cache, FreshInv
  <2> QED
    BY <2>2, <2>3 DEF SkillCacheInv
<1>7. CASE skill_watch_start \/ watch_thread_fn
  <2>1. scan' = opendir /\ events' \in Nat /\ watch' \in {"load", "scan"}
    BY <1>4, <1>7 DEF skill_watch_start, watch_thread_fn
  <2>2. opendir \in [todo : SUBSET Names, buf : Seq(Pieces)]
    BY DEF opendir
  <2>3. FilesInv'
    BY <1>2, <1>3, <2>1, <2>2
  <2>4. Present' \ scan'.todo = {} /\ scan'.buf = <<>>
    BY <1>1, <2>1 DEF opendir, Present
  <2>5. Scanned'
    BY <2>4, NothingScanned
  <2> QED
    BY <2>1, <2>3, <2>5 DEF SkillCacheInv, FreshInv
<1>8. CASE StartFails \/ inotify_add_watch \/ skill_watch_stop \/ Joined
  <2>1. UNCHANGED scan /\ events' \in Nat
    BY <1>4, <1>8 DEF StartFails, inotify_add_watch, skill_watch_stop, Joined
  <2>2. FilesInv'
    BY <1>3, <1>4, <2>1
  <2>3. Scanned => Scanned'
    BY <1>1, <2>1, ScannedStays
  <2>4. FreshInv'
    BY <1>1, <1>2, <1>8, <2>3
       DEF StartFails, inotify_add_watch, skill_watch_stop, Joined, FreshInv
  <2> QED
    BY <2>2, <2>4 DEF SkillCacheInv
<1> QED
  BY <1>5, <1>6, <1>7, <1>8

\* Steps that leave the files and the watcher alone.
LEMMA ServiceKeeps ==
    ASSUME SkillCacheInv, UNCHANGED <<disk, owner, watch, scan, skillCache, missed>>,
           events' \in Nat, events' # events => events' # 0 /\ watch # "arm",
           write' = None \/ (write'.name \in Names /\ write'.c \in Texts),
           editor' = None \/ (editor'.name \in Names /\ editor'.c \in Texts),
           get' = None \/ get'.name \in Names
    PROVE  SkillCacheInv'
<1>1. Loads' = Loads /\ (Scanned => Scanned')
  BY LoadsStay, ScannedStays
<1>2. FilesInv'
  BY DEF SkillCacheInv, FilesInv
<1> QED
  BY <1>1, <1>2 DEF SkillCacheInv, FreshInv

\* Every step keeps the invariant.
LEMMA SkillCacheInvNext == SkillCacheInv /\ [SkillNext]_skillVars => SkillCacheInv'
<1> SUFFICES ASSUME SkillCacheInv, [SkillNext]_skillVars PROVE SkillCacheInv'
  OBVIOUS
<1>1. /\ Absent \in Texts /\ \A v \in Versions : Whole(v) \in Texts
      /\ EditMax \in Nat
  BY SkillsAssumption DEF Absent, Whole, Texts, Versions
<1>2. /\ events \in Nat /\ disk \in [Names -> Texts]
      /\ owner = None \/ (owner.name \in Names /\ owner.v \in Versions)
      /\ write = None \/ (write.name \in Names /\ write.c \in Texts)
      /\ editor = None \/ (editor.name \in Names /\ editor.c \in Texts)
      /\ get = None \/ get.name \in Names
  BY DEF SkillCacheInv, FilesInv
<1>3. CASE Watcher
  BY <1>3, WatchKeeps DEF Watcher
<1>4. CASE OwnerBegins \/ OwnerEnds
  <2>1. ASSUME NEW s \in Names PROVE Touched(s) = None \/ Touched(s).name \in Names
    <3>1. CASE get # None /\ get.name = s
      BY <1>2, <3>1 DEF Touched
    <3>2. CASE ~(get # None /\ get.name = s)
      BY <1>2, <3>2 DEF Touched
    <3> QED
      BY <3>1, <3>2
  <2>2. CASE OwnerBegins
    <3>1. PICK s \in Names, v \in Versions, n \in Int :
             /\ n \in 0 .. Size[v] - 1
             /\ Put(s, [v |-> v, n |-> n])
             /\ owner' = [pc |-> "edit", name |-> s, v |-> v] /\ get' = Touched(s)
      BY <2>2 DEF OwnerBegins
    <3>2. [v |-> v, n |-> n] \in Texts /\ owner'.name = s /\ owner'.v = v
      <4>1. Size[v] \in Nat
        BY SkillsAssumption DEF Versions
      <4>2. n \in Nat
        BY <3>1, <4>1
      <4> QED
        BY <3>1, <4>2 DEF Texts
    <3> QED
      BY <2>1, <2>2, <3>1, <3>2, PutKeeps DEF OwnerBegins
  <2>3. CASE OwnerEnds
    <3>1. owner.name \in Names /\ Whole(owner.v) \in Texts
      BY <1>1, <1>2, <2>3 DEF OwnerEnds
    <3> QED
      BY <2>1, <2>3, <3>1, PutKeeps DEF OwnerEnds
  <2> QED
    BY <1>4, <2>2, <2>3
<1>5. CASE Save
  <2>1. write' = None \/ (write'.name \in Names /\ write'.c \in Texts)
    <3>1. CASE \E s \in Names, v \in Versions : skill_create(s, v)
      BY <1>1, <3>1 DEF skill_create
    <3>2. CASE editor # None /\ skill_update(editor.name, editor.c, editor.raced)
      BY <1>2, <3>2 DEF skill_update
    <3>3. CASE \E v \in Versions : editor # None /\ skill_update(editor.name, Whole(v), FALSE)
      BY <1>1, <1>2, <3>3 DEF skill_update
    <3> QED
      BY <1>5, <3>1, <3>2, <3>3 DEF Save
  <2>2. (editor' = editor \/ editor' = None) /\ UNCHANGED get
    BY <1>5 DEF Save
  <2> QED
    BY <1>2, <1>5, <2>1, <2>2, ServiceKeeps DEF Save
<1>6. CASE TempSkillWritten
  <2>1. write # None
    BY <1>6 DEF TempSkillWritten, None
  <2>2. write' = None \/ (write'.name \in Names /\ write'.c \in Texts)
    <3>1. CASE write' = [write EXCEPT !.pc = "rename"]
      BY <1>2, <2>1, <3>1
    <3> QED
      BY <1>6, <3>1 DEF TempSkillWritten
  <2>3. /\ events' \in Nat /\ (events' # events => events' # 0 /\ watch # "arm")
        /\ UNCHANGED <<disk, owner, get, editor, watch, scan, skillCache, missed>>
    BY <1>2, <1>6 DEF TempSkillWritten, Reported, Watched
  <2> QED
    BY <1>2, <2>2, <2>3, ServiceKeeps
<1>7. CASE write_skill_atomic
  <2>1. write # None
    BY <1>7 DEF write_skill_atomic, None
  <2>2. owner' \in {owner, None}
    BY <1>7 DEF write_skill_atomic, Replaced
  <2> QED
    BY <1>2, <1>7, <2>1, <2>2, PutKeeps DEF write_skill_atomic
<1>8. CASE skill_delete
  <2>1. PICK s \in Names : Put(s, Absent) /\ Replaced(s)
    BY <1>8 DEF skill_delete
  <2>2. owner' \in {owner, None}
    BY <2>1 DEF Replaced
  <2> QED
    BY <1>1, <1>2, <1>8, <2>1, <2>2, PutKeeps DEF skill_delete
<1>9. CASE skill_get_content
  <2>1. get'.name \in Names
    BY <1>9 DEF skill_get_content
  <2> QED
    BY <1>2, <1>9, <2>1, ServiceKeeps DEF skill_get_content, watchVars
<1>10. CASE skill_get_send
  <2> DEFINE c == disk[get.name]
             used == IF c.n < EditMax THEN c.n ELSE EditMax
  <2>1. get # None /\ get.name \in Names /\ c \in Texts
    BY <1>2, <1>10 DEF skill_get_send
  <2>2. [c EXCEPT !.n = used] \in Texts
    BY <1>1, <2>1 DEF Texts
  <2> DEFINE shown(d) == AsShown(get.name, d, get.raced)
  <2>3. ASSUME NEW d \in Texts
        PROVE  shown(d).name = get.name /\ shown(d).c \in Texts
    <3>1. [d EXCEPT !.n = 0] \in Texts
      BY DEF Texts
    <3> QED
      BY <3>1 DEF AsShown
  <2>4. editor' = editor \/ editor' = shown([c EXCEPT !.n = used])
    BY <1>10 DEF skill_get_send
  <2> HIDE DEF shown
  <2>5. editor' = None \/ (editor'.name \in Names /\ editor'.c \in Texts)
    BY <1>2, <2>1, <2>2, <2>3, <2>4
  <2> QED
    BY <1>2, <1>10, <2>5, ServiceKeeps DEF skill_get_send, watchVars
<1>11. CASE ProcessDies
  <2>1. /\ watch' = "off" /\ events' = 0 /\ write' = None /\ get' = None
        /\ scan' = [todo |-> {}, buf |-> <<>>] /\ UNCHANGED <<disk, owner, editor>>
    BY <1>11 DEF ProcessDies, NoScan
  <2>2. FilesInv'
    BY <1>2, <2>1, SkillsAssumption DEF FilesInv
  <2> QED
    BY <2>1, <2>2 DEF SkillCacheInv, FreshInv
<1>12. CASE UNCHANGED skillVars
  BY <1>2, <1>12, ServiceKeeps DEF skillVars
<1> QED
  BY <1>3, <1>4, <1>5, <1>6, <1>7, <1>8, <1>9, <1>10, <1>11, <1>12
     DEF SkillNext, Changes, Dashboard

\* For any files, lengths and number of changes, a watcher that has nothing to do
\* serves the agent what a scan of the directory would, whenever the changes fell
\* between its reads of events and the files of its scans, unless a change was
\* missed before the watch was set (skill.c:73-97, 510-520).
THEOREM SkillsFresh == SkillSpec => []CacheFresh
<1>1. SkillCacheInv => CacheFresh
  BY DEF SkillCacheInv, FreshInv, CacheFresh, skill_load_all
<1> QED
  BY SkillCacheInvInit, SkillCacheInvNext, <1>1, PTL DEF SkillSpec
=============================================================================
