--------------------------- MODULE AsapDelegation ---------------------------
(***************************************************************************)
(* The tool asap_invoke (tools/asap_invoke.c): a task is delegated to a    *)
(* remote agent.  An invocation asks the revocation list, looks the URN up *)
(* in the registry (asap/registry.c) through a cache with a time to live,  *)
(* posts the request (asap/client.c) and reads the answer                  *)
(* (asap/envelope.c).  Invocations follow each other: the agent lock is    *)
(* held around a turn, and a reload takes it too.  The registries and the  *)
(* list are other people's documents and change at any time.  Memory       *)
(* exhaustion is left out, and a transfer takes no time on the clock.      *)
(***************************************************************************)
EXTENDS Integers, Sequences, FiniteSets

CONSTANTS
    Urns, Bases,  \* agents and their addresses
    Urls,         \* the registry URLs a configuration can name
    Documents,    \* what a registry can serve: [json, items]
    Lists,        \* what the revocation server can serve: [root, items]
    Arguments,    \* arguments of the tool: [urn, input]
    Responses,    \* what a post ends in: [code, version, error, result], code 0 for a failed transfer
    Ttl,          \* the ttl_sec of the cache
    MaxClock,     \* bound on the clock
    MaxChanges    \* bound on the changes of the documents and of the configuration

NoCall == [pc |-> "idle"]
NotSent == [ok |-> FALSE]

VARIABLES
    mono,       \* CLOCK_MONOTONIC
    cfg,        \* [url, revocation]: "" is no registry, FALSE is no list
    served,     \* the document every registry serves now
    list,       \* the revocation list now
    cache,      \* s_registry_cache: [url, index, at], url "" when has_data is 0
    call,       \* the invocation in progress, or NoCall
    sent,       \* the task this invocation posted, with what was true of it
    changes,    \* how often the environment changed something
    past        \* history: when each registry last gave an address for an URN

delegationVars == <<mono, cfg, served, list, cache, call, sent, changes, past>>
world == <<mono, cfg, served, list, changes, past>>

-----------------------------------------------------------------------------
(* The documents. *)

\* The entries of a revocation list are strings or objects.
ASSUME ListsAssumption ==
    \A doc \in Lists : \A i \in DOMAIN doc.items : doc.items[i].form \in {"string", "object"}

\* The items of a registry are an array; an address that is there is one of Bases.
ASSUME DocumentsAssumption ==
    \A doc \in Documents :
        doc.items \in Seq([urn : STRING, base : Bases \cup {""}, caps : BOOLEAN])

\* The tool is asked for agents of Urns, or for none.
ASSUME ArgumentsAssumption == \A a \in Arguments : a.urn \in Urns \cup {""}

\* A time to live that is not positive is replaced by the default one.
ASSUME TtlAssumption == Ttl \in Nat \ {0}

\* An item counts when it has an URN ("urn" or "id") and an address.
Complete(item) == item.urn # "" /\ item.base # ""

\* No array of agents, or capabilities that are no strings.
Unreadable(doc) ==
    \/ ~doc.json
    \/ \E i \in DOMAIN doc.items : Complete(doc.items[i]) /\ ~doc.items[i].caps

\* The agents of a document, each at its place; the items that do not count are
\* passed over.
registry_index_from_json(doc) ==
    [i \in {j \in DOMAIN doc.items : Complete(doc.items[j])} |-> doc.items[i]]

\* The first agent of that URN, as a set of at most one.
registry_index_find_urn(index, urn) ==
    {index[i] : i \in {j \in DOMAIN index :
        index[j].urn = urn /\ \A k \in DOMAIN index : k < j => index[k].urn # urn}}

\* The document leads from the URN to the address (used by the history only).
Gives(doc, urn, base) ==
    /\ ~Unreadable(doc)
    /\ \E i \in DOMAIN doc.items :
          /\ doc.items[i].urn = urn /\ doc.items[i].base = base
          /\ \A j \in 1 .. i - 1 : Complete(doc.items[j]) => doc.items[j].urn # urn

\* A list is an array, or an object that holds one under a known key.
revocation_pick_array(doc) == doc.root \in {"array", "revoked", "revoked_agents", "revokedAgents"}

\* An entry is a string, or an object with "urn", or else with "id".
EntryNames(item, urn) ==
    \/ item.form = "string" /\ item.urn = urn
    \/ item.form = "object" /\ (IF item.urn # "" THEN item.urn ELSE item.id) = urn

revocation_json_contains_urn(doc, urn) ==
    \E i \in DOMAIN doc.items : EntryNames(doc.items[i], urn)

\* The answer is a JSON-RPC 2.0 result that holds a whole envelope.
asap_envelope_parse_jsonrpc_response(r) ==
    r.version = "2.0" /\ ~r.error /\ r.result = "envelope"

-----------------------------------------------------------------------------
DelegationInit ==
    /\ mono = 0
    /\ cfg \in [url : Urls, revocation : {TRUE}]
    /\ served \in [Urls -> Documents]
    /\ list \in Lists
    /\ cache = [url |-> "", index |-> <<>>, at |-> 0]
    /\ call = NoCall /\ sent = NotSent
    /\ changes = 0
    /\ past = [p \in Urls \X Urns \X Bases |-> IF Gives(served[p[1]], p[2], p[3]) THEN 0 ELSE -1]

-----------------------------------------------------------------------------
(* The environment. *)

Tick ==
    /\ mono < MaxClock
    /\ mono' = mono + 1
    /\ past' = [p \in DOMAIN past |-> IF Gives(served[p[1]], p[2], p[3]) THEN mono' ELSE past[p]]
    /\ UNCHANGED <<cfg, served, list, cache, call, sent, changes>>

Changed == changes < MaxChanges /\ changes' = changes + 1

Publish ==
    /\ Changed
    /\ \E u \in Urls, d \in Documents :
          /\ served' = [served EXCEPT ![u] = d]
          /\ past' = [p \in DOMAIN past |->
                        IF p[1] = u /\ Gives(d, p[2], p[3]) THEN mono ELSE past[p]]
    /\ UNCHANGED <<mono, cfg, list, cache, call, sent>>

Revoke ==
    /\ Changed
    /\ list' \in Lists
    /\ UNCHANGED <<mono, cfg, served, cache, call, sent, past>>

\* A reload, which takes the agent lock: tool_asap_invoke_set_config.
tool_asap_invoke_set_config ==
    /\ call = NoCall
    /\ Changed
    /\ cfg' \in [url : Urls \cup {""}, revocation : BOOLEAN]
    /\ UNCHANGED <<mono, served, list, cache, call, sent, past>>

-----------------------------------------------------------------------------
(* The invocation. *)

Fail == call' = NoCall

\* The arguments are read and the request envelope is built.
asap_invoke_execute ==
    /\ call = NoCall
    /\ \E a \in Arguments :
          IF a.urn = "" \/ a.input # "object" \/ cfg.url = "" THEN Fail
          ELSE call' = [pc |-> "revocation", urn |-> a.urn]
    /\ sent' = NotSent
    /\ UNCHANGED <<world, cache>>

\* What the check found, kept for the property: whether it read a list, and the
\* list it read.
Checked(read) == [asked |-> cfg.revocation, read |-> read, list |-> list]

\* Mutant: a list that cannot be read revokes nobody.
Mut_NotRevoked(reachable) ==
    \/ ~cfg.revocation
    \/ ~(reachable /\ revocation_pick_array(list))
    \/ ~revocation_json_contains_urn(list, call.urn)

\* No list is configured, or the list is fetched and does not name the URN.
NotRevoked(reachable) ==
    \/ ~cfg.revocation
    \/ /\ reachable /\ revocation_pick_array(list)
       /\ ~revocation_json_contains_urn(list, call.urn)

\* registry_resolve asks the list first; an error counts as a refusal.
registry_revocation_list_contains ==
    /\ call.pc = "revocation"
    /\ \E reachable \in BOOLEAN :
          IF NotRevoked(reachable)
          THEN call' = [pc |-> "cache", urn |-> call.urn,
                        check |-> Checked(reachable /\ revocation_pick_array(list))]
          ELSE Fail
    /\ UNCHANGED <<world, cache, sent>>

cache_stale == mono - cache.at >= Ttl

\* Mutant: the cache is used whatever registry it came from.
Mut_SameUrl == cache.url # ""

SameUrl == cache.url = cfg.url

\* registry_resolve finds the agent in the index it got, or gives up.
registry_resolve(index, failed) ==
    LET agent == registry_index_find_urn(index, call.urn)
    IN  \/ agent = {} /\ Fail
        \/ \E a \in agent :
              call' = [pc |-> "send", urn |-> call.urn, check |-> call.check,
                       base |-> a.base, at |-> mono, failed |-> failed]

CacheHit ==
    /\ call.pc = "cache"
    /\ SameUrl /\ ~cache_stale
    /\ registry_resolve(cache.index, FALSE)
    /\ UNCHANGED <<world, cache, sent>>

\* The fetch succeeds and its index replaces the cached one.
registry_fetch ==
    /\ call.pc = "cache"
    /\ ~(SameUrl /\ ~cache_stale)
    /\ ~Unreadable(served[cfg.url])
    /\ cache' = [url |-> cfg.url, index |-> registry_index_from_json(served[cfg.url]),
                 at |-> mono]
    /\ registry_resolve(cache'.index, FALSE)
    /\ UNCHANGED <<world, sent>>

\* The registry cannot be reached, or serves what cannot be read: the index
\* that is cached for this URL is used, however old it is.
FetchFails ==
    /\ call.pc = "cache"
    /\ ~(SameUrl /\ ~cache_stale)
    /\ IF SameUrl THEN registry_resolve(cache.index, TRUE) ELSE Fail
    /\ UNCHANGED <<world, cache, sent>>

\* The request is posted; whatever is no whole answer is an error.
asap_client_send_task ==
    /\ call.pc = "send"
    /\ \E r \in Responses :
          sent' = [urn |-> call.urn, base |-> call.base, url |-> cfg.url,
                   check |-> call.check, at |-> call.at, failed |-> call.failed,
                   ok |-> r.code = 200 /\ asap_envelope_parse_jsonrpc_response(r)]
    /\ call' = NoCall
    /\ UNCHANGED <<world, cache>>

DelegationNext ==
    \/ Tick \/ Publish \/ Revoke \/ tool_asap_invoke_set_config
    \/ asap_invoke_execute \/ registry_revocation_list_contains
    \/ CacheHit \/ registry_fetch \/ FetchFails \/ asap_client_send_task

DelegationSpec == DelegationInit /\ [][DelegationNext]_delegationVars

-----------------------------------------------------------------------------
(* Properties. *)

\* The URNs a revocation list means, by any of the forms an entry may have.
Revoked(doc) ==
    {doc.items[i].urn : i \in DOMAIN doc.items} \cup
    {doc.items[i].id : i \in {j \in DOMAIN doc.items :
                                  doc.items[j].form = "object" /\ doc.items[j].urn = ""}}

\* With a revocation list configured, a task is posted only to an agent that the
\* list, read whole in this very invocation, did not name: a list that cannot be
\* fetched or read stops the delegation (registry.c:651).
NeverToRevoked ==
    sent # NotSent /\ sent.check.asked =>
        sent.check.read /\ sent.urn \notin Revoked(sent.check.list)

\* The address a task is posted to is one that the registry configured for this
\* invocation served for the URN, less than Ttl ago unless the registry failed
\* just now: an index never passes from one registry to another, and an old one
\* is used only for want of a new one (registry.c:555-581).
AddressCurrent ==
    sent # NotSent =>
        LET given == past[sent.url, sent.urn, sent.base]
        IN  given >= 0 /\ (sent.failed \/ given > sent.at - Ttl)
=============================================================================
