----------------------------- MODULE MCServices -----------------------------
(***************************************************************************)
(* The services around the conversation, for TLC: the keys of the manifest *)
(* (ManifestKeys), delegation, access to the gateway, HTTP requests, shell *)
(* commands, outgoing replies, the context tool, skills and saves of the   *)
(* configuration.  They share no state, so a run of them side by side is   *)
(* the product of their graphs and shows nothing that the sum does not:    *)
(* focus picks the one that runs, and the others rest in one initial state.*)
(***************************************************************************)
EXTENDS ManifestKeys, AsapDelegation, GatewayAccess, HttpExchange, CommandExec, ContextTool,
        ChunkedSend, SkillStore, ConfigPatch, TLC

VARIABLE focus

allVars == <<focus, vars, delegationVars, accessVars, httpVars, execVars, sendVars,
             contextVars, skillVars, patchVars>>

-----------------------------------------------------------------------------
\* Registries that list an agent twice, without an address, or with one they
\* cannot describe; revocation lists in each of the forms that are read.
Agent(urn, base, caps) == [urn |-> urn, base |-> base, caps |-> caps]
MCDocuments ==
    { [json |-> TRUE, items |-> <<Agent("", "b2", TRUE), Agent("u", "b1", TRUE),
                                  Agent("u", "b2", TRUE)>>],
      [json |-> TRUE, items |-> <<Agent("u", "", TRUE), Agent("u", "b2", TRUE)>>],
      [json |-> TRUE, items |-> <<Agent("u", "b1", TRUE), Agent("v", "b2", FALSE)>>] }
Named(kind, urn, id) == [form |-> kind, urn |-> urn, id |-> id]
MCLists ==
    { [root |-> "array", items |-> <<>>],
      [root |-> "revoked",
       items |-> <<Named("object", "v", "u"), Named("string", "u", "")>>],
      [root |-> "revokedAgents", items |-> <<Named("object", "", "u")>>],
      [root |-> "other", items |-> <<>>] }
MCArguments ==
    { [urn |-> "u", input |-> "object"], [urn |-> "", input |-> "object"],
      [urn |-> "u", input |-> "text"] }
Answer(c, version, error, res) ==
    [code |-> c, version |-> version, error |-> error, result |-> res]
MCResponses ==
    { Answer(0, "none", FALSE, "none"), Answer(200, "2.0", FALSE, "envelope"),
      Answer(200, "2.0", TRUE, "none") }

\* Requests without a body, with one below, at and above the buffer and the limit,
\* with and without a Content-Length.
Request(uri, method, token, cl, len) ==
    [uri |-> uri, method |-> method, token |-> token, cl |-> cl, len |-> len]
MCRequests ==
    { Request("/", "GET", FALSE, -1, 0), Request("/missing", "GET", FALSE, -1, 0),
      Request("/api", "GET", TRUE, -1, 0), Request("/api", "GET", FALSE, -1, 0),
      Request("/api", "POST", TRUE, 0, 0), Request("/api", "POST", TRUE, 6, 6) }
    \cup {Request("/api", "PUT", TRUE, n, n) : n \in 2 .. 4}
    \cup {Request("/api", "PUT", TRUE, -1, 3)}
    \cup {Request("/asap", "POST", FALSE, n, n) : n \in {4, 6}}
    \cup {Request("/asap", "POST", FALSE, -1, n) : n \in {3, 6}}

\* Two countries, each with a holiday in either of the first two years.
MCHolidays == [cc \in Countries |-> IF cc = "A" THEN {0, 2} ELSE {1, 3}]

\* Version 2 fits the editor and not the answer; version 3 fits neither.
MCSize == <<1, 2, 3>>
MCJson == <<1, 4, 3>>

\* Tables with their keys, some with a comment behind them; "hardware" has a key
\* with the name of a key of "agent", and "enabled" has the wrong type.
Sections ==
    {<<Header("agent", in)>> \o ks \o nt : in \in BOOLEAN, nt \in {<<>>, <<Note>>},
        ks \in {<<>>, <<Key("model", Str("a"))>>,
                <<Key("model", Str("a")), Key("max_tokens", Num(4))>>}}
    \cup {<<Header("gateway", in)>> \o ks \o nt : in \in BOOLEAN, nt \in {<<>>, <<Note>>},
        ks \in {<<>>, <<Key("port", Num(4))>>, <<Key("enabled", Str("a"))>>}}
    \cup {<<Header("hardware", in), Key("model", Str("h"))>> : in \in BOOLEAN}
\* The last line with a comment behind it.
Trailing(lines) == [lines EXCEPT ![Len(lines)] = Noted(@)]
MCFiles ==
    [lines : {s \o t : s \in Sections \cup {<<>>, <<Note>>},
                       t \in Sections \cup {Trailing(u) : u \in Sections}},
     nl : BOOLEAN]

\* A string that is empty, too long or has a control character; numbers that are
\* whole, not whole, and finer than %g prints; two fields in one save.
MCSaves ==
    {("model" :> Str(x)) : x \in {"b", "", "long"}}
    \cup {("max_tokens" :> v) : v \in {Num(8), Num(9), Str("b")}}
    \cup {("temperature" :> Num(7)), ("gateway_host" :> Str("ctrl"))}
    \cup {("gateway_port" :> Num(8)) @@ ("max_tokens" :> Num(12)),
          ("gateway_port" :> Num(0)) @@ ("gateway_host" :> Str("b"))}

-----------------------------------------------------------------------------
Parts == {"keys", "delegation", "pairing", "lockout", "rate", "http", "command", "send",
          "context", "skills", "editor", "config"}

\* What is left of MaxEdits and MaxNow for the parts with the largest graphs: the
\* skills with their watcher, and the lockout.
WatchedEdits == 3
LockoutNow == 3

\* A part with several initial states starts in one of them when it does not run.
MCInit ==
    /\ focus \in Parts
    /\ Init /\ AccessInit /\ HttpInit /\ ExecInit /\ SendInit
    /\ DelegationInit
    /\ focus # "delegation" =>
          /\ \A u \in Urls : Len(served[u].items) = 3
          /\ list.root = "array" /\ cfg.url = "r1"
    /\ ContextInit
    /\ focus # "context" => agentCfg = [coords |-> FALSE, cc |-> ""]
    /\ SkillInit
    /\ focus \notin {"skills", "editor"} => disk = [s \in Names |-> Absent]
    /\ PatchInit
    /\ focus # "config" =>
          env = {} /\ toml = [lines |-> <<Header("agent", FALSE), Key("model", Str("a"))>>,
                              nl |-> TRUE]

OnKeys == /\ focus = "keys" /\ Next
          /\ UNCHANGED <<focus, delegationVars, accessVars, httpVars, execVars, sendVars,
                         contextVars, skillVars, patchVars>>
OnAccess(part, A) ==
    /\ focus = part /\ A
    /\ UNCHANGED <<focus, vars, delegationVars, httpVars, execVars, sendVars, contextVars,
                   skillVars, patchVars>>
OnDelegation == /\ focus = "delegation" /\ DelegationNext
                /\ UNCHANGED <<focus, vars, accessVars, httpVars, execVars, sendVars,
                               contextVars, skillVars, patchVars>>
OnConnection == /\ focus = "http" /\ HttpNext
                /\ UNCHANGED <<focus, vars, delegationVars, accessVars, execVars, sendVars,
                               contextVars, skillVars, patchVars>>
OnCommand == /\ focus = "command" /\ ExecNext
             /\ UNCHANGED <<focus, vars, delegationVars, accessVars, httpVars, sendVars,
                            contextVars, skillVars, patchVars>>
OnSend == /\ focus = "send" /\ SendNext
          /\ UNCHANGED <<focus, vars, delegationVars, accessVars, httpVars, execVars,
                         contextVars, skillVars, patchVars>>
OnContext == /\ focus = "context" /\ ContextNext
             /\ UNCHANGED <<focus, vars, delegationVars, accessVars, httpVars, execVars,
                            sendVars, skillVars, patchVars>>
OnSkills(part, A) ==
    /\ focus = part /\ A
    /\ UNCHANGED <<focus, vars, delegationVars, accessVars, httpVars, execVars, sendVars,
                   contextVars, patchVars>>
OnConfig == /\ focus = "config" /\ PatchNext
            /\ UNCHANGED <<focus, vars, delegationVars, accessVars, httpVars, execVars,
                           sendVars, contextVars, skillVars>>

\* What pairing does to the tokens does not depend on the clock, the lockout not on
\* the file, and the rate limit shares only the process and the clock with both.
\* The dashboard reads the files and not the cache.
MCNext ==
    \/ OnKeys
    \/ OnDelegation
    \/ OnAccess("pairing", GatewayStart \/ Crash \/ Owner \/ Pairing)
    \/ OnAccess("lockout", (GatewayStart \/ SecondPasses \/ Pairing) /\ now' <= LockoutNow)
    \/ OnAccess("rate", Process \/ Asap)
    \/ OnSkills("skills", (Watcher \/ Changes \/ ProcessDies) /\ edits' <= WatchedEdits)
    \/ OnSkills("editor", Changes \/ Dashboard)
    \/ OnConnection \/ OnCommand \/ OnSend \/ OnContext \/ OnConfig

MCSpec == MCInit /\ [][MCNext]_allVars
=============================================================================
