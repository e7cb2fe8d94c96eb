------------------------ MODULE ConfigReloadProofs ------------------------
(***************************************************************************)
(* The configuration.  Who owns one, for any number of SIGHUPs, saves and  *)
(* edits, when no save overlaps the start or the stop of the process (with *)
(* one that does, a configuration is freed twice: the run reload_at_stop); *)
(* and what a save writes: PatchRight of ConfigPatch, for any files and    *)
(* any saves.                                                              *)
(***************************************************************************)
EXTENDS ConfigReload, ConfigPatch, FiniteSetTheorems, SequenceTheorems,
        WellFoundedInduction, TLAPS

Loops == {"loop", "poll", "agent"}
Down == {"skills", "stale", "free", "done"}
MainPcs == {"tools", "failed"} \cup Loops \cup {"stop", "join", "channels"} \cup Down
HttpPcs == {"idle", "request", "locked", "put", "exited"}
Busy == {"load", "enqueue", "publish", "set", "unlock"}
Stages == {"off", "lock"} \cup Busy

TypeInv ==
    /\ file \in [ver : Nat, ok : BOOLEAN]
    /\ loads \in Nat \ {0}
    /\ version \in [Cfgs -> Nat]
    /\ freed \in [Cfgs -> Nat]
    /\ cfg \in 0 .. loads /\ toFree \in 0 .. loads
    /\ live \in [Consumers -> 0 .. loads]
    /\ held \in [Readers -> 0 .. loads]
    /\ stale \in Seq(1 .. loads)
    /\ lock \in Threads \cup {"none"}
    /\ rl \in [Threads -> Stages]
    /\ old \in [Threads -> 0 .. loads]
    /\ new \in [Threads -> 0 .. loads]
    /\ mainPc \in MainPcs /\ httpPc \in HttpPcs
    /\ putVer \in Nat
    /\ hups \in 0 .. MaxHups /\ puts \in 0 .. MaxPuts

\* Every load was asked for by a signal or a save of its own.
Asked(t) == IF rl[t] \in {"lock", "load"} THEN 1 ELSE 0
Flagged == IF reload THEN 1 ELSE 0
CountInv == loads + Asked("main") + Asked("http") + Flagged <= 1 + hups + puts

\* Where a thread may be in a reload, and that it has the mutex.
LockInv ==
    /\ \A t \in Threads : rl[t] \in Busy => lock = t
    /\ mainPc = "agent" => lock = "main"
    /\ httpPc = "locked" => lock = "http"
    /\ rl["main"] # "off" => mainPc = "poll"
    /\ rl["http"] # "off" => httpPc = "put" /\ mainPc \in Loops

\* Who reads at which stage of the way down.
HeldInv ==
    /\ held["main"] # NoCfg => mainPc = "agent"
    /\ held["http"] # NoCfg => httpPc \in {"request", "locked"}
    /\ held["discord"] # NoCfg => cfg # NoCfg
    /\ held["watch"] # NoCfg => mainPc \notin {"stale", "free", "done"}
    /\ mainPc \in {"channels"} \cup Down => httpPc = "exited"
    /\ cfg = NoCfg <=> mainPc \in Down
    /\ mainPc \in {"stop", "join", "channels"} => toFree = cfg

\* The configuration in force, also when main() alone still knows it.
Root == IF cfg # NoCfg THEN cfg ELSE toFree
Queue == {stale[i] : i \in 1 .. Len(stale)}
\* Thread t has a new configuration that is not in force yet.
Fresh(t) == rl[t] \in {"enqueue", "publish", "set"}
\* The configurations that nobody has freed, and those a reader may have been given.
Kept == Queue \cup {Root} \cup {new[t] : t \in {u \in Threads : Fresh(u)}}
Given == Queue \cup {Root} \cup {new[t] : t \in {u \in Threads : rl[u] = "set"}}

\* Every configuration is freed or has one owner: the queue, bootstrap.c or a
\* reload.
OwnInv ==
    mainPc \notin {"free", "done"} =>
        /\ Root \in 1 .. loads
        /\ \A i, j \in 1 .. Len(stale) : stale[i] = stale[j] => i = j
        /\ Root \in Queue => \E t \in Threads : rl[t] \in {"publish", "set"}
        /\ \A t \in Threads : Fresh(t) =>
              /\ new[t] \in 1 .. loads /\ new[t] \notin Queue /\ new[t] # Root
              /\ old[t] = cfg
        /\ \A t \in Threads : rl[t] \in {"publish", "set"} => cfg \in Queue
        /\ \A c \in Cfgs : freed[c] = IF c > loads \/ c \in Kept THEN 0 ELSE 1
        /\ \A k \in Consumers : live[k] # NoCfg => live[k] \in Given
        /\ \A r \in Readers : held[r] # NoCfg => held[r] \in Given

\* A start that fails has loaded one configuration.
StartInv ==
    mainPc \in {"tools", "failed"} =>
        /\ loads = 1 /\ stale = <<>> /\ cfg = 1
        /\ \A k \in Consumers \ {"tools"} : live[k] = 1

\* The last two steps.
EndInv ==
    /\ mainPc = "free" =>
          toFree \in 1 .. loads /\ \A c \in Cfgs : freed[c] = IF c > loads \/ c = toFree THEN 0 ELSE 1
    /\ mainPc = "done" => \A c \in Cfgs : freed[c] = IF c > loads THEN 0 ELSE 1

\* What the consumers have while the main loop runs.
LiveInv ==
    mainPc \in Loops => \A k \in Consumers :
        IF \E t \in Threads : rl[t] = "set" THEN \A t \in Threads : rl[t] = "set" => live[k] = new[t]
        ELSE live[k] = cfg

\* What a save wrote is in the configuration that its reload has read.
PutInv ==
    /\ file.ver >= putVer
    /\ Fresh("http") => version[new["http"]] >= putVer
    /\ rl["http"] = "unlock" /\ new["http"] # NoCfg =>
          new["http"] = cfg /\ version[cfg] >= putVer

ReloadInv ==
    TypeInv /\ CountInv /\ LockInv /\ HeldInv /\ OwnInv /\ StartInv /\ EndInv /\ LiveInv /\ PutInv

-----------------------------------------------------------------------------
(* Sequences and numbers. *)

\* A queue of elements of a set is one of any larger set.
LEMMA SeqWider ==
    ASSUME NEW S, NEW T, S \subseteq T, NEW s \in Seq(S)
    PROVE  s \in Seq(T)
  OBVIOUS

\* What the head of a queue pushes back.
LEMMA Prepended ==
    ASSUME NEW S, NEW e \in S, NEW s \in Seq(S)
    PROVE  /\ <<e>> \o s \in Seq(S)
           /\ Len(<<e>> \o s) = Len(s) + 1
           /\ (<<e>> \o s)[1] = e
           /\ \A i \in 1 .. Len(s) : (<<e>> \o s)[i + 1] = s[i]
           /\ \A i \in 2 .. Len(s) + 1 : (<<e>> \o s)[i] = s[i - 1]
  OBVIOUS

\* There is room in the bounds for every configuration that was loaded.
LEMMA LoadsFit ==
    ASSUME TypeInv, CountInv
    PROVE  1 .. loads \subseteq Cfgs
  BY BoundsAssumption DEF TypeInv, CountInv, Cfgs, Asked, Flagged

\* There is room for one more when a thread is about to load.
LEMMA LoadFits ==
    ASSUME TypeInv, CountInv, NEW t \in Threads, rl[t] = "load"
    PROVE  loads + 1 \in Cfgs
  BY BoundsAssumption, SMTT(30) DEF TypeInv, CountInv, Cfgs, Asked, Flagged, Threads

\* A queue without repetitions holds a configuration once or not at all.
LEMMA QueuedOnce ==
    ASSUME TypeInv, NEW c,
           \A i, j \in 1 .. Len(stale) : stale[i] = stale[j] => i = j
    PROVE  Queued(c) = IF c \in Queue THEN 1 ELSE 0
<1> DEFINE P == {i \in 1 .. Len(stale) : stale[i] = c}
<1>1. CASE c \in Queue
  <2>1. PICK i \in 1 .. Len(stale) : stale[i] = c
    BY <1>1 DEF Queue
  <2>2. P = {i}
    BY <2>1
  <2> QED
    BY <1>1, <2>2, FS_Singleton DEF Queued
<1>2. CASE c \notin Queue
  <2>1. P = {}
    BY <1>2 DEF Queue
  <2> QED
    BY <1>2, <2>1, FS_EmptySet DEF Queued
<1> QED
  BY <1>1, <1>2

\* Only configurations that were loaded are retired.
LEMMA QueueLoaded ==
    ASSUME TypeInv
    PROVE  Queue \subseteq 1 .. loads
<1>1. stale \in Seq(1 .. loads)
  BY DEF TypeInv
<1>2. \A i \in 1 .. Len(stale) : stale[i] \in 1 .. loads
  BY <1>1, ElementOfSeq
<1> QED
  BY <1>2 DEF Queue

-----------------------------------------------------------------------------
(* The start, and the steps that leave the configurations with their owners. *)

\* main() has parsed one configuration and every consumer but the tools has it.
LEMMA ReloadInit == Init => ReloadInv
<1> SUFFICES ASSUME Init PROVE ReloadInv
  OBVIOUS
<1>1. TypeInv
  <2>1. TRUE \in BOOLEAN
    OBVIOUS
  <2>2. file \in [ver : Nat, ok : BOOLEAN]
    BY <2>1 DEF Init
  <2> QED
    BY <2>2, BoundsAssumption DEF Init, TypeInv, Threads, Stages, MainPcs, HttpPcs, NoCfg
<1>2. CountInv /\ LockInv /\ HeldInv /\ StartInv /\ EndInv /\ LiveInv
  BY DEF Init, CountInv, Asked, Flagged, LockInv, HeldInv, StartInv, EndInv, LiveInv,
         Threads, Busy, Loops, Down, Readers, NoCfg
<1>3. OwnInv
  BY DEF Init, OwnInv, Root, Queue, Fresh, Given, Kept, Threads, Consumers, Readers, NoCfg, Cfgs
<1>4. PutInv
  BY DEF Init, PutInv, Fresh, Threads
<1> QED
  BY <1>1, <1>2, <1>3, <1>4 DEF ReloadInv

\* Steps after which everybody owns what it owned, and reads what it read, what a
\* consumer keeps, or nothing.
LEMMA OwnersKept ==
    ASSUME TypeInv, OwnInv, UNCHANGED <<loads, freed, cfg, live, stale, old, new, toFree>>,
           mainPc' \notin {"free", "done"} => mainPc \notin {"free", "done"},
           \A t \in Threads : rl'[t] = rl[t] \/ (~Fresh(t) /\ rl'[t] \in {"off", "lock", "load", "unlock"}),
           \A r \in Readers : held'[r] \in {NoCfg, held[r]} \cup {live[k] : k \in Consumers}
    PROVE  OwnInv'
<1> SUFFICES ASSUME mainPc' \notin {"free", "done"} PROVE OwnInv'
  BY DEF OwnInv
<1>1. Root' = Root /\ Queue' = Queue
  BY DEF Root, Queue
<1>2. \A t \in Threads : Fresh(t)' <=> Fresh(t)
  BY DEF Fresh
<1>3. \A t \in Threads : rl'[t] = "set" <=> rl[t] = "set"
  BY DEF Fresh
<1>4. \A t \in Threads : rl'[t] \in {"publish", "set"} <=> rl[t] \in {"publish", "set"}
  BY DEF Fresh
<1>5. Given' = Given /\ Kept' = Kept
  BY <1>1, <1>2, <1>3 DEF Given, Kept
<1>6. \A r \in Readers : held'[r] # NoCfg => held'[r] \in Given'
  BY <1>5 DEF OwnInv
<1>7. \A k \in Consumers : live'[k] # NoCfg => live'[k] \in Given'
  BY <1>5 DEF OwnInv
<1>8. \A c \in Cfgs : freed'[c] = IF c > loads' \/ c \in Kept' THEN 0 ELSE 1
  BY <1>5 DEF OwnInv
<1> QED
  BY <1>1, <1>2, <1>4, <1>6, <1>7, <1>8 DEF OwnInv

\* Steps of others leave the versions that PUT /api/config waits for.
LEMMA PutKept ==
    ASSUME PutInv, UNCHANGED <<cfg, version, new, putVer>>, file'.ver >= file.ver,
           file.ver \in Nat, file'.ver \in Nat, putVer \in Nat,
           rl'["http"] = rl["http"] \/ rl'["http"] \in {"off", "lock", "load"}
    PROVE  PutInv'
  BY DEF PutInv, Fresh

-----------------------------------------------------------------------------
(* The steps of the threads outside a reload. *)

\* The steps of the main thread that change the owner of nothing.
LEMMA MainQuiet ==
    ASSUME ReloadInv,
           \/ LoopReload \/ LoopNoReload \/ PollNothing \/ AgentBegin \/ AgentEnd
           \/ StopGateway \/ Join \/ skills_cleanup \/ ToolsInitFails
    PROVE  ReloadInv'
<1> USE DEF Threads, Consumers, Readers, Stages, Busy, MainPcs, HttpPcs, Loops, Down, NoCfg
<1>1. CASE LoopReload
  <2>1. TypeInv' /\ CountInv' /\ LockInv'
    <3>1. TypeInv'
      BY <1>1, BoundsAssumption DEF LoopReload, ReloadInv, TypeInv, CountInv, Asked,
           Flagged, LockInv, HeldInv, cfgVars, rlVars, counts
    <3>2. CountInv'
      BY <1>1, BoundsAssumption, SMTT(30) DEF LoopReload, ReloadInv, TypeInv, CountInv, Asked,
           Flagged, LockInv, HeldInv, cfgVars, rlVars, counts
    <3>3. LockInv'
      BY <1>1, BoundsAssumption DEF LoopReload, ReloadInv, TypeInv, CountInv, Asked,
           Flagged, LockInv, HeldInv, cfgVars, rlVars, counts
    <3> QED
      BY <3>1, <3>2, <3>3
  <2>2. HeldInv' /\ StartInv' /\ EndInv' /\ LiveInv'
    BY <1>1 DEF LoopReload, ReloadInv, TypeInv, LockInv, HeldInv, StartInv,
         EndInv, LiveInv, cfgVars, rlVars, counts
  <2>3. OwnInv'
    BY <1>1, OwnersKept DEF LoopReload, ReloadInv, TypeInv, LockInv, cfgVars, rlVars, counts, Fresh
  <2>4. PutInv'
    BY <1>1, PutKept DEF LoopReload, ReloadInv, TypeInv, cfgVars, rlVars, counts
  <2> QED
    BY <2>1, <2>2, <2>3, <2>4 DEF ReloadInv
<1>2. CASE LoopNoReload
  <2>1. TypeInv' /\ CountInv' /\ LockInv'
    BY <1>2, BoundsAssumption DEF LoopNoReload, ReloadInv, TypeInv, CountInv, Asked,
         Flagged, LockInv, HeldInv, cfgVars, rlVars, counts
  <2>2. HeldInv' /\ StartInv' /\ EndInv' /\ LiveInv'
    BY <1>2 DEF LoopNoReload, ReloadInv, TypeInv, LockInv, HeldInv, StartInv,
         EndInv, LiveInv, cfgVars, rlVars, counts
  <2>3. OwnInv'
    BY <1>2, OwnersKept DEF LoopNoReload, ReloadInv, TypeInv, cfgVars, rlVars, counts, Fresh
  <2>4. PutInv'
    BY <1>2, PutKept DEF LoopNoReload, ReloadInv, TypeInv, cfgVars, rlVars, counts
  <2> QED
    BY <2>1, <2>2, <2>3, <2>4 DEF ReloadInv
<1>3. CASE PollNothing
  <2>1. TypeInv' /\ CountInv' /\ LockInv'
    BY <1>3, BoundsAssumption DEF PollNothing, ReloadInv, TypeInv, CountInv, Asked,
         Flagged, LockInv, HeldInv, cfgVars, rlVars, counts
  <2>2. HeldInv' /\ StartInv' /\ EndInv' /\ LiveInv'
    BY <1>3 DEF PollNothing, ReloadInv, TypeInv, LockInv, HeldInv, StartInv,
         EndInv, LiveInv, cfgVars, rlVars, counts
  <2>3. OwnInv'
    BY <1>3, OwnersKept DEF PollNothing, ReloadInv, TypeInv, cfgVars, rlVars, counts, Fresh
  <2>4. PutInv'
    BY <1>3, PutKept DEF PollNothing, ReloadInv, TypeInv, cfgVars, rlVars, counts
  <2> QED
    BY <2>1, <2>2, <2>3, <2>4 DEF ReloadInv
<1>4. CASE AgentBegin
  <2>1. TypeInv' /\ CountInv' /\ LockInv'
    <3>1. TypeInv'
      BY <1>4, BoundsAssumption, SMTT(30) DEF AgentBegin, ReloadInv, TypeInv, CountInv, Asked,
           Flagged, LockInv, HeldInv, cfgVars, rlVars, counts
    <3>2. CountInv'
      BY <1>4, BoundsAssumption DEF AgentBegin, ReloadInv, TypeInv, CountInv, Asked,
           Flagged, LockInv, HeldInv, cfgVars, rlVars, counts
    <3>3. LockInv'
      BY <1>4, BoundsAssumption DEF AgentBegin, ReloadInv, TypeInv, CountInv, Asked,
           Flagged, LockInv, HeldInv, cfgVars, rlVars, counts
    <3> QED
      BY <3>1, <3>2, <3>3
  <2>2. HeldInv' /\ StartInv' /\ EndInv' /\ LiveInv'
    BY <1>4 DEF AgentBegin, ReloadInv, TypeInv, LockInv, HeldInv, StartInv,
         EndInv, LiveInv, cfgVars, rlVars, counts
  <2>3. OwnInv'
    BY <1>4, OwnersKept, ZenonT(30) DEF AgentBegin, ReloadInv, TypeInv, cfgVars, rlVars, counts, Fresh
  <2>4. PutInv'
    BY <1>4, PutKept DEF AgentBegin, ReloadInv, TypeInv, cfgVars, rlVars, counts
  <2> QED
    BY <2>1, <2>2, <2>3, <2>4 DEF ReloadInv
<1>5. CASE AgentEnd
  <2>1. TypeInv' /\ CountInv' /\ LockInv'
    <3>1. TypeInv'
      BY <1>5, BoundsAssumption, SMTT(30) DEF AgentEnd, ReloadInv, TypeInv, CountInv, Asked,
           Flagged, LockInv, HeldInv, cfgVars, rlVars, counts
    <3>2. CountInv'
      BY <1>5, BoundsAssumption DEF AgentEnd, ReloadInv, TypeInv, CountInv, Asked,
           Flagged, LockInv, HeldInv, cfgVars, rlVars, counts
    <3>3. LockInv'
      BY <1>5, BoundsAssumption DEF AgentEnd, ReloadInv, TypeInv, CountInv, Asked,
           Flagged, LockInv, HeldInv, cfgVars, rlVars, counts
    <3> QED
      BY <3>1, <3>2, <3>3
  <2>2. HeldInv' /\ StartInv' /\ EndInv' /\ LiveInv'
    BY <1>5 DEF AgentEnd, ReloadInv, TypeInv, LockInv, HeldInv, StartInv,
         EndInv, LiveInv, cfgVars, rlVars, counts
  <2>3. OwnInv'
    BY <1>5, OwnersKept DEF AgentEnd, ReloadInv, TypeInv, cfgVars, rlVars, counts, Fresh
  <2>4. PutInv'
    BY <1>5, PutKept DEF AgentEnd, ReloadInv, TypeInv, cfgVars, rlVars, counts
  <2> QED
    BY <2>1, <2>2, <2>3, <2>4 DEF ReloadInv
<1>6. CASE StopGateway
  <2>1. TypeInv' /\ CountInv' /\ LockInv'
    BY <1>6, BoundsAssumption DEF StopGateway, ReloadInv, TypeInv, CountInv, Asked,
         Flagged, LockInv, HeldInv, cfgVars, rlVars, counts
  <2>2. HeldInv' /\ StartInv' /\ EndInv' /\ LiveInv'
    BY <1>6 DEF StopGateway, ReloadInv, TypeInv, LockInv, HeldInv, StartInv,
         EndInv, LiveInv, cfgVars, rlVars, counts
  <2>3. OwnInv'
    BY <1>6, OwnersKept DEF StopGateway, ReloadInv, TypeInv, cfgVars, rlVars, counts, Fresh
  <2>4. PutInv'
    BY <1>6, PutKept DEF StopGateway, ReloadInv, TypeInv, cfgVars, rlVars, counts
  <2> QED
    BY <2>1, <2>2, <2>3, <2>4 DEF ReloadInv
<1>7. CASE Join
  <2>1. TypeInv' /\ CountInv' /\ LockInv'
    BY <1>7, BoundsAssumption DEF Join, ReloadInv, TypeInv, CountInv, Asked,
         Flagged, LockInv, HeldInv, cfgVars, rlVars, counts
  <2>2. HeldInv' /\ StartInv' /\ EndInv' /\ LiveInv'
    BY <1>7 DEF Join, ReloadInv, TypeInv, LockInv, HeldInv, StartInv,
         EndInv, LiveInv, cfgVars, rlVars, counts
  <2>3. OwnInv'
    BY <1>7, OwnersKept DEF Join, ReloadInv, TypeInv, cfgVars, rlVars, counts, Fresh
  <2>4. PutInv'
    BY <1>7, PutKept DEF Join, ReloadInv, TypeInv, cfgVars, rlVars, counts
  <2> QED
    BY <2>1, <2>2, <2>3, <2>4 DEF ReloadInv
<1>8. CASE skills_cleanup
  <2>1. TypeInv' /\ CountInv' /\ LockInv'
    BY <1>8, BoundsAssumption DEF skills_cleanup, ReloadInv, TypeInv, CountInv, Asked,
         Flagged, LockInv, HeldInv, cfgVars, rlVars, counts
  <2>2. HeldInv' /\ StartInv' /\ EndInv' /\ LiveInv'
    BY <1>8 DEF skills_cleanup, ReloadInv, TypeInv, LockInv, HeldInv, StartInv,
         EndInv, LiveInv, cfgVars, rlVars, counts
  <2>3. OwnInv'
    BY <1>8, OwnersKept DEF skills_cleanup, ReloadInv, TypeInv, cfgVars, rlVars, counts, Fresh
  <2>4. PutInv'
    BY <1>8, PutKept DEF skills_cleanup, ReloadInv, TypeInv, cfgVars, rlVars, counts
  <2> QED
    BY <2>1, <2>2, <2>3, <2>4 DEF ReloadInv
<1>9. CASE ToolsInitFails
  <2>1. TypeInv' /\ CountInv' /\ LockInv'
    BY <1>9, BoundsAssumption DEF ToolsInitFails, ReloadInv, TypeInv, CountInv, Asked,
         Flagged, LockInv, HeldInv, cfgVars, rlVars, counts
  <2>2. HeldInv' /\ StartInv' /\ EndInv' /\ LiveInv'
    BY <1>9 DEF ToolsInitFails, ReloadInv, TypeInv, LockInv, HeldInv, StartInv,
         EndInv, LiveInv, cfgVars, rlVars, counts
  <2>3. OwnInv'
    BY <1>9, OwnersKept DEF ToolsInitFails, ReloadInv, TypeInv, cfgVars, rlVars, counts, Fresh
  <2>4. PutInv'
    BY <1>9, PutKept DEF ToolsInitFails, ReloadInv, TypeInv, cfgVars, rlVars, counts
  <2> QED
    BY <2>1, <2>2, <2>3, <2>4 DEF ReloadInv
<1> QED
  BY <1>1, <1>2, <1>3, <1>4, <1>5, <1>6, <1>7, <1>8, <1>9

\* The steps of the gateway thread that save nothing.
LEMMA HttpQuiet ==
    ASSUME ReloadInv,
           \/ RequestBegin \/ RequestEnd \/ LockedRequestBegin \/ LockedRequestEnd
           \/ PutReply \/ HttpExit
    PROVE  ReloadInv'
<1> USE DEF Threads, Consumers, Readers, Stages, Busy, MainPcs, HttpPcs, Loops, Down, NoCfg
<1>1. CASE RequestBegin
  <2>1. TypeInv' /\ CountInv' /\ LockInv'
    BY <1>1, BoundsAssumption DEF RequestBegin, ReloadInv, TypeInv, CountInv, Asked,
         Flagged, LockInv, HeldInv, cfgVars, rlVars, counts
  <2>2. HeldInv' /\ StartInv' /\ EndInv' /\ LiveInv'
    BY <1>1 DEF RequestBegin, ReloadInv, TypeInv, LockInv, HeldInv, StartInv,
         EndInv, LiveInv, cfgVars, rlVars, counts
  <2>3. OwnInv'
    BY <1>1, OwnersKept DEF RequestBegin, ReloadInv, TypeInv, cfgVars, rlVars, counts, Fresh
  <2>4. PutInv'
    BY <1>1, PutKept DEF RequestBegin, ReloadInv, TypeInv, cfgVars, rlVars, counts
  <2> QED
    BY <2>1, <2>2, <2>3, <2>4 DEF ReloadInv
<1>2. CASE RequestEnd
  <2>1. TypeInv' /\ CountInv' /\ LockInv'
    BY <1>2, BoundsAssumption, SMTT(30) DEF RequestEnd, ReloadInv, TypeInv, CountInv, Asked,
         Flagged, LockInv, HeldInv, cfgVars, rlVars, counts
  <2>2. HeldInv' /\ StartInv' /\ EndInv' /\ LiveInv'
    BY <1>2 DEF RequestEnd, ReloadInv, TypeInv, LockInv, HeldInv, StartInv,
         EndInv, LiveInv, cfgVars, rlVars, counts
  <2>3. OwnInv'
    BY <1>2, OwnersKept DEF RequestEnd, ReloadInv, TypeInv, cfgVars, rlVars, counts, Fresh
  <2>4. PutInv'
    BY <1>2, PutKept DEF RequestEnd, ReloadInv, TypeInv, cfgVars, rlVars, counts
  <2> QED
    BY <2>1, <2>2, <2>3, <2>4 DEF ReloadInv
<1>3. CASE LockedRequestBegin
  <2>1. TypeInv' /\ CountInv' /\ LockInv'
    BY <1>3, BoundsAssumption DEF LockedRequestBegin, ReloadInv, TypeInv, CountInv, Asked,
         Flagged, LockInv, HeldInv, cfgVars, rlVars, counts
  <2>2. HeldInv' /\ StartInv' /\ EndInv' /\ LiveInv'
    BY <1>3 DEF LockedRequestBegin, ReloadInv, TypeInv, LockInv, HeldInv, StartInv,
         EndInv, LiveInv, cfgVars, rlVars, counts
  <2>3. OwnInv'
    BY <1>3, OwnersKept DEF LockedRequestBegin, ReloadInv, TypeInv, cfgVars, rlVars, counts, Fresh
  <2>4. PutInv'
    BY <1>3, PutKept DEF LockedRequestBegin, ReloadInv, TypeInv, cfgVars, rlVars, counts
  <2> QED
    BY <2>1, <2>2, <2>3, <2>4 DEF ReloadInv
<1>4. CASE LockedRequestEnd
  <2>1. TypeInv' /\ CountInv' /\ LockInv'
    BY <1>4, BoundsAssumption DEF LockedRequestEnd, ReloadInv, TypeInv, CountInv, Asked,
         Flagged, LockInv, HeldInv, cfgVars, rlVars, counts
  <2>2. HeldInv' /\ StartInv' /\ EndInv' /\ LiveInv'
    BY <1>4 DEF LockedRequestEnd, ReloadInv, TypeInv, LockInv, HeldInv, StartInv,
         EndInv, LiveInv, cfgVars, rlVars, counts
  <2>3. OwnInv'
    BY <1>4, OwnersKept DEF LockedRequestEnd, ReloadInv, TypeInv, cfgVars, rlVars, counts, Fresh
  <2>4. PutInv'
    BY <1>4, PutKept DEF LockedRequestEnd, ReloadInv, TypeInv, cfgVars, rlVars, counts
  <2> QED
    BY <2>1, <2>2, <2>3, <2>4 DEF ReloadInv
<1>5. CASE PutReply
  <2>1. TypeInv' /\ CountInv' /\ LockInv'
    BY <1>5, BoundsAssumption DEF PutReply, ReloadInv, TypeInv, CountInv, Asked,
         Flagged, LockInv, HeldInv, cfgVars, rlVars, counts
  <2>2. HeldInv' /\ StartInv' /\ EndInv' /\ LiveInv'
    BY <1>5 DEF PutReply, ReloadInv, TypeInv, LockInv, HeldInv, StartInv,
         EndInv, LiveInv, cfgVars, rlVars, counts
  <2>3. OwnInv'
    BY <1>5, OwnersKept DEF PutReply, ReloadInv, TypeInv, cfgVars, rlVars, counts, Fresh
  <2>4. PutInv'
    BY <1>5, PutKept DEF PutReply, ReloadInv, TypeInv, cfgVars, rlVars, counts
  <2> QED
    BY <2>1, <2>2, <2>3, <2>4 DEF ReloadInv
<1>6. CASE HttpExit
  <2>1. TypeInv' /\ CountInv' /\ LockInv'
    BY <1>6, BoundsAssumption DEF HttpExit, ReloadInv, TypeInv, CountInv, Asked,
         Flagged, LockInv, HeldInv, cfgVars, rlVars, counts
  <2>2. HeldInv' /\ StartInv' /\ EndInv' /\ LiveInv'
    BY <1>6 DEF HttpExit, ReloadInv, TypeInv, LockInv, HeldInv, StartInv,
         EndInv, LiveInv, cfgVars, rlVars, counts
  <2>3. OwnInv'
    BY <1>6, OwnersKept DEF HttpExit, ReloadInv, TypeInv, cfgVars, rlVars, counts, Fresh
  <2>4. PutInv'
    BY <1>6, PutKept DEF HttpExit, ReloadInv, TypeInv, cfgVars, rlVars, counts
  <2> QED
    BY <2>1, <2>2, <2>3, <2>4 DEF ReloadInv
<1> QED
  BY <1>1, <1>2, <1>3, <1>4, <1>5, <1>6

\* The discord thread and the signals.
LEMMA OtherQuiet ==
    ASSUME ReloadInv, DiscordRead \/ on_hup \/ on_signal
    PROVE  ReloadInv'
<1> USE DEF Threads, Consumers, Readers, Stages, Busy, MainPcs, HttpPcs, Loops, Down, NoCfg
<1>1. CASE DiscordRead
  <2>1. TypeInv' /\ CountInv' /\ LockInv'
    <3>1. TypeInv'
      BY <1>1, BoundsAssumption, SMTT(30) DEF DiscordRead, ReloadInv, TypeInv, CountInv, Asked,
           Flagged, LockInv, HeldInv, cfgVars, rlVars, counts
    <3>2. CountInv'
      BY <1>1, BoundsAssumption DEF DiscordRead, ReloadInv, TypeInv, CountInv, Asked,
           Flagged, LockInv, HeldInv, cfgVars, rlVars, counts
    <3>3. LockInv'
      BY <1>1, BoundsAssumption DEF DiscordRead, ReloadInv, TypeInv, CountInv, Asked,
           Flagged, LockInv, HeldInv, cfgVars, rlVars, counts
    <3> QED
      BY <3>1, <3>2, <3>3
  <2>2. HeldInv' /\ StartInv' /\ EndInv' /\ LiveInv'
    BY <1>1 DEF DiscordRead, ReloadInv, TypeInv, LockInv, HeldInv, StartInv,
         EndInv, LiveInv, cfgVars, rlVars, counts
  <2>3. OwnInv'
    BY <1>1, OwnersKept DEF DiscordRead, ReloadInv, TypeInv, cfgVars, rlVars, counts, Fresh
  <2>4. PutInv'
    BY <1>1, PutKept DEF DiscordRead, ReloadInv, TypeInv, cfgVars, rlVars, counts
  <2> QED
    BY <2>1, <2>2, <2>3, <2>4 DEF ReloadInv
<1>2. CASE on_hup
  <2>1. TypeInv' /\ CountInv' /\ LockInv'
    BY <1>2, BoundsAssumption, SMTT(30) DEF on_hup, ReloadInv, TypeInv, CountInv, Asked,
         Flagged, LockInv, HeldInv, cfgVars, rlVars, counts
  <2>2. HeldInv' /\ StartInv' /\ EndInv' /\ LiveInv'
    BY <1>2 DEF on_hup, ReloadInv, TypeInv, LockInv, HeldInv, StartInv,
         EndInv, LiveInv, cfgVars, rlVars, counts
  <2>3. OwnInv'
    BY <1>2, OwnersKept DEF on_hup, ReloadInv, TypeInv, cfgVars, rlVars, counts, Fresh
  <2>4. PutInv'
    BY <1>2, PutKept DEF on_hup, ReloadInv, TypeInv, cfgVars, rlVars, counts
  <2> QED
    BY <2>1, <2>2, <2>3, <2>4 DEF ReloadInv
<1>3. CASE on_signal
  <2>1. TypeInv' /\ CountInv' /\ LockInv'
    BY <1>3, BoundsAssumption, SMTT(30) DEF on_signal, ReloadInv, TypeInv, CountInv, Asked,
         Flagged, LockInv, HeldInv, cfgVars, rlVars, counts
  <2>2. HeldInv' /\ StartInv' /\ EndInv' /\ LiveInv'
    BY <1>3 DEF on_signal, ReloadInv, TypeInv, LockInv, HeldInv, StartInv,
         EndInv, LiveInv, cfgVars, rlVars, counts
  <2>3. OwnInv'
    BY <1>3, OwnersKept DEF on_signal, ReloadInv, TypeInv, cfgVars, rlVars, counts, Fresh
  <2>4. PutInv'
    BY <1>3, PutKept DEF on_signal, ReloadInv, TypeInv, cfgVars, rlVars, counts
  <2> QED
    BY <2>1, <2>2, <2>3, <2>4 DEF ReloadInv
<1> QED
  BY <1>1, <1>2, <1>3

\* config.toml after it was written once more.
LEMMA NewVersion ==
    ASSUME NEW f \in [ver : Nat, ok : BOOLEAN], NEW ok \in BOOLEAN, NEW g,
           g = [ver |-> f.ver + 1, ok |-> ok]
    PROVE  f.ver \in Nat /\ g \in [ver : Nat, ok : BOOLEAN] /\ g.ver = f.ver + 1
<1>1. f.ver \in Nat
  OBVIOUS
<1>2. f.ver + 1 \in Nat
  BY <1>1
<1> QED
  BY <1>1, <1>2

\* Anybody may edit the file: it only gets newer.
LEMMA EditKeeps ==
    ASSUME ReloadInv, NEW ok \in BOOLEAN, EditFile(ok)
    PROVE  ReloadInv'
<1> USE DEF Threads, Consumers, Readers, Stages, Busy, MainPcs, HttpPcs, Loops, Down, NoCfg
<1>1. file.ver \in Nat /\ file' \in [ver : Nat, ok : BOOLEAN] /\ file'.ver = file.ver + 1
  <2>1. file \in [ver : Nat, ok : BOOLEAN]
    BY DEF ReloadInv, TypeInv
  <2>2. file' = [ver |-> file.ver + 1, ok |-> ok]
    BY DEF EditFile
  <2> QED
    BY <2>1, <2>2, NewVersion
<1>2. TypeInv' /\ CountInv' /\ LockInv'
  BY <1>1, ZenonT(30) DEF EditFile, ReloadInv, TypeInv, CountInv, Asked, Flagged, LockInv, cfgVars, rlVars
<1>3. HeldInv' /\ StartInv' /\ EndInv' /\ LiveInv'
  BY DEF EditFile, ReloadInv, HeldInv, StartInv, EndInv, LiveInv, cfgVars, rlVars
<1>4. OwnInv'
  BY OwnersKept DEF EditFile, ReloadInv, cfgVars, rlVars
<1>5. PutInv'
  BY <1>1, PutKept, SMTT(30) DEF EditFile, ReloadInv, TypeInv, cfgVars, rlVars
<1> QED
  BY <1>2, <1>3, <1>4, <1>5 DEF ReloadInv

\* A save is the newest version, and is made while the main loop runs.
LEMMA PutSaveKeeps ==
    ASSUME ReloadInv, SavesOverlap = FALSE, PutSave
    PROVE  ReloadInv'
<1> USE DEF Threads, Consumers, Readers, Stages, Busy, MainPcs, HttpPcs, Loops, Down, NoCfg
<1>1. file.ver \in Nat /\ file' \in [ver : Nat, ok : BOOLEAN] /\ file'.ver = file.ver + 1
  <2>1. file \in [ver : Nat, ok : BOOLEAN]
    BY DEF ReloadInv, TypeInv
  <2>2. file' = [ver |-> file.ver + 1, ok |-> TRUE] /\ TRUE \in BOOLEAN
    BY DEF PutSave
  <2> QED
    BY <2>1, <2>2, NewVersion
<1>2. rl["http"] = "off" /\ rl' = [rl EXCEPT !["http"] = "lock"]
  BY DEF PutSave, ReloadInv, LockInv, TypeInv
<1>3. TypeInv' /\ CountInv' /\ LockInv'
  <2>1. TypeInv'
    BY <1>1, <1>2, BoundsAssumption, SMTT(30)
       DEF PutSave, ReloadInv, TypeInv, CountInv, Asked, Flagged, LockInv, cfgVars
  <2>2. CountInv'
    BY <1>1, <1>2, BoundsAssumption, SMTT(30)
       DEF PutSave, ReloadInv, TypeInv, CountInv, Asked, Flagged, LockInv, cfgVars
  <2>3. LockInv'
    BY <1>1, <1>2, BoundsAssumption
       DEF PutSave, ReloadInv, TypeInv, CountInv, Asked, Flagged, LockInv, cfgVars
  <2> QED
    BY <2>1, <2>2, <2>3
<1>4. HeldInv' /\ StartInv' /\ EndInv' /\ LiveInv'
  BY <1>2 DEF PutSave, ReloadInv, TypeInv, HeldInv, StartInv, EndInv, LiveInv, cfgVars
<1>5. OwnInv'
  BY <1>2, OwnersKept DEF PutSave, ReloadInv, TypeInv, Fresh, cfgVars
<1>6. PutInv'
  BY <1>1, <1>2 DEF PutSave, ReloadInv, PutInv, TypeInv, Fresh, cfgVars
<1> QED
  BY <1>3, <1>4, <1>5, <1>6 DEF ReloadInv

\* tools_init hands out the pointer main() parsed, which no save has replaced yet.
LEMMA ToolsKeeps ==
    ASSUME ReloadInv, tools_init
    PROVE  ReloadInv'
<1> USE DEF Threads, Consumers, Readers, Stages, Busy, MainPcs, HttpPcs, Loops, Down, NoCfg
<1>1. cfg = 1 /\ Root = 1 /\ \A t \in Threads : rl[t] = "off"
  BY DEF tools_init, ReloadInv, TypeInv, LockInv, StartInv, Root
<1>2. TypeInv' /\ CountInv' /\ LockInv'
  <2>1. TypeInv'
    BY SMTT(30) DEF tools_init, ReloadInv, TypeInv, CountInv, Asked, Flagged, LockInv, rlVars, counts
  <2>2. CountInv'
    BY DEF tools_init, ReloadInv, TypeInv, CountInv, Asked, Flagged, LockInv, rlVars, counts
  <2>3. LockInv'
    BY DEF tools_init, ReloadInv, TypeInv, CountInv, Asked, Flagged, LockInv, rlVars, counts
  <2> QED
    BY <2>1, <2>2, <2>3
<1>3. HeldInv' /\ StartInv' /\ EndInv'
  BY DEF tools_init, ReloadInv, HeldInv, StartInv, EndInv, rlVars
<1>4. Root' = Root /\ Queue' = Queue /\ Given' = Given /\ Kept' = Kept /\ 1 \in Given
  BY <1>1 DEF tools_init, Root, Queue, Given, Kept, Fresh, rlVars
<1>5. OwnInv'
  BY <1>1, <1>4 DEF tools_init, ReloadInv, TypeInv, OwnInv, Fresh, rlVars
<1>6. \A k \in Consumers : live'[k] = 1
  BY <1>1 DEF tools_init, ReloadInv, TypeInv, StartInv
<1>7. LiveInv'
  BY <1>1, <1>6 DEF tools_init, LiveInv, rlVars
<1>8. PutInv'
  BY PutKept DEF tools_init, ReloadInv, TypeInv, rlVars
<1> QED
  BY <1>2, <1>3, <1>5, <1>7, <1>8 DEF ReloadInv

\* main() reads the live pointer: no reload is under way.
LEMMA LoopExitKeeps ==
    ASSUME ReloadInv, SavesOverlap = FALSE, LoopExit
    PROVE  ReloadInv'
<1> USE DEF Threads, Consumers, Readers, Stages, Busy, MainPcs, HttpPcs, Loops, Down, NoCfg
<1>1. cfg # NoCfg /\ \A t \in Threads : rl[t] = "off"
  BY DEF LoopExit, ReloadInv, TypeInv, LockInv, HeldInv
<1>2. TypeInv' /\ CountInv' /\ LockInv'
  BY <1>1 DEF LoopExit, ReloadInv, TypeInv, CountInv, Asked, Flagged, LockInv, cfgVars, rlVars, counts
<1>3. HeldInv' /\ StartInv' /\ EndInv' /\ LiveInv'
  BY <1>1 DEF LoopExit, ReloadInv, HeldInv, StartInv, EndInv, LiveInv, cfgVars, rlVars
<1>4. Root' = Root /\ Queue' = Queue /\ Given' = Given /\ Kept' = Kept
  BY <1>1 DEF LoopExit, Root, Queue, Given, Kept, Fresh, cfgVars, rlVars
<1>5. OwnInv'
  BY <1>1, <1>4 DEF LoopExit, ReloadInv, OwnInv, Fresh, cfgVars, rlVars
<1>6. PutInv'
  BY PutKept DEF LoopExit, ReloadInv, TypeInv, cfgVars, rlVars
<1> QED
  BY <1>2, <1>3, <1>5, <1>6 DEF ReloadInv

\* g_cfg is forgotten while main() still knows the configuration.
LEMMA ChannelsKeeps ==
    ASSUME ReloadInv, channels_cleanup
    PROVE  ReloadInv'
<1> USE DEF Threads, Consumers, Readers, Stages, Busy, MainPcs, HttpPcs, Loops, Down, NoCfg
<1>1. cfg # NoCfg /\ toFree = cfg /\ httpPc = "exited" /\ \A t \in Threads : rl[t] = "off"
  BY DEF channels_cleanup, ReloadInv, TypeInv, LockInv, HeldInv
<1>2. TypeInv' /\ CountInv' /\ LockInv'
  <2>1. TypeInv'
    BY <1>1, SMTT(30) DEF channels_cleanup, ReloadInv, TypeInv, CountInv, Asked, Flagged, LockInv, rlVars, counts
  <2>2. CountInv'
    BY <1>1 DEF channels_cleanup, ReloadInv, TypeInv, CountInv, Asked, Flagged, LockInv, rlVars, counts
  <2>3. LockInv'
    BY <1>1 DEF channels_cleanup, ReloadInv, TypeInv, CountInv, Asked, Flagged, LockInv, rlVars, counts
  <2> QED
    BY <2>1, <2>2, <2>3
<1>3. HeldInv' /\ StartInv' /\ EndInv' /\ LiveInv'
  BY <1>1 DEF channels_cleanup, ReloadInv, TypeInv, HeldInv, StartInv, EndInv, LiveInv, rlVars
<1>4. Root' = Root /\ Queue' = Queue /\ Given' = Given /\ Kept' = Kept
  BY <1>1 DEF channels_cleanup, Root, Queue, Given, Kept, Fresh, rlVars
<1>5. OwnInv'
  BY <1>1, <1>4 DEF channels_cleanup, ReloadInv, TypeInv, OwnInv, Fresh, rlVars
<1>6. PutInv'
  BY <1>1 DEF channels_cleanup, ReloadInv, PutInv, Fresh, rlVars
<1> QED
  BY <1>2, <1>3, <1>5, <1>6 DEF ReloadInv

\* A failed start: what main() parsed is the only configuration there is.
LEMMA FailedKeeps ==
    ASSUME ReloadInv, FailedJoin
    PROVE  ReloadInv'
<1> USE DEF Threads, Consumers, Readers, Stages, Busy, MainPcs, HttpPcs, Loops, Down, NoCfg
<1>1. loads = 1 /\ stale = <<>> /\ cfg = 1 /\ \A t \in Threads : rl[t] = "off"
  BY DEF FailedJoin, ReloadInv, TypeInv, LockInv, StartInv
<1>2. Root = 1 /\ Kept = {1}
  BY <1>1 DEF Root, Kept, Queue, Fresh
<1>3. \A c \in Cfgs : freed[c] = IF c > loads \/ c = 1 THEN 0 ELSE 1
  BY <1>2 DEF FailedJoin, ReloadInv, OwnInv
<1>4. TypeInv' /\ CountInv' /\ LockInv'
  BY <1>1 DEF FailedJoin, ReloadInv, TypeInv, CountInv, Asked, Flagged, LockInv, rlVars, counts
<1>5. HeldInv' /\ StartInv' /\ OwnInv' /\ LiveInv'
  BY <1>1 DEF FailedJoin, ReloadInv, TypeInv, HeldInv, StartInv, OwnInv, LiveInv, rlVars
<1>6. EndInv'
  BY <1>1, <1>3 DEF FailedJoin, EndInv
<1>7. PutInv'
  BY <1>1 DEF FailedJoin, ReloadInv, PutInv, Fresh, rlVars
<1> QED
  BY <1>4, <1>5, <1>6, <1>7 DEF ReloadInv

\* The queue is freed: every configuration in it once, and the one in force is not
\* in it.
LEMMA StaleKeeps ==
    ASSUME ReloadInv, stale_free_all
    PROVE  ReloadInv'
<1> USE DEF Threads, Consumers, Readers, Stages, Busy, MainPcs, HttpPcs, Loops, Down, NoCfg
<1>1. cfg = NoCfg /\ httpPc = "exited" /\ \A t \in Threads : rl[t] = "off"
  BY DEF stale_free_all, ReloadInv, TypeInv, LockInv, HeldInv
<1>2. Root = toFree /\ Kept = Queue \cup {toFree}
  BY <1>1 DEF Root, Kept, Fresh
<1>3. toFree \in 1 .. loads /\ toFree \notin Queue
  BY <1>1, <1>2 DEF stale_free_all, ReloadInv, OwnInv
<1>4. \A c \in Cfgs : Queued(c) = IF c \in Queue THEN 1 ELSE 0
  BY QueuedOnce DEF stale_free_all, ReloadInv, OwnInv
<1>5. loads \in Nat /\ Cfgs \subseteq Int /\ Queue \subseteq 1 .. loads
  BY QueueLoaded, SMTT(30) DEF ReloadInv, TypeInv, Cfgs
<1>6. \A c \in Cfgs : freed'[c] = IF c > loads \/ c = toFree THEN 0 ELSE 1
  <2> SUFFICES ASSUME NEW c \in Cfgs PROVE freed'[c] = IF c > loads \/ c = toFree THEN 0 ELSE 1
    OBVIOUS
  <2>1. freed'[c] = freed[c] + Queued(c) /\ freed[c] = IF c > loads \/ c \in Kept THEN 0 ELSE 1
    BY DEF stale_free_all, ReloadInv, OwnInv
  <2> QED
    BY <1>2, <1>3, <1>4, <1>5, <2>1
<1>7. freed' \in [Cfgs -> Nat]
  BY <1>6 DEF stale_free_all
<1>8. TypeInv'
  <2>1. stale' \in Seq(1 .. loads')
    BY DEF stale_free_all
  <2> QED
    BY <1>7, <2>1 DEF stale_free_all, ReloadInv, TypeInv, rlVars, counts
<1>9. CountInv' /\ LockInv' /\ HeldInv' /\ StartInv' /\ OwnInv' /\ LiveInv'
  BY <1>1 DEF stale_free_all, ReloadInv, TypeInv, CountInv, Asked, Flagged, LockInv, HeldInv,
       StartInv, OwnInv, LiveInv, rlVars, counts
<1>10. EndInv'
  BY <1>3, <1>6 DEF stale_free_all, EndInv
<1>11. PutInv'
  BY PutKept DEF stale_free_all, ReloadInv, TypeInv, rlVars
<1> QED
  BY <1>8, <1>9, <1>10, <1>11 DEF ReloadInv

\* main() frees the configuration it read, the last one.
LEMMA FreeLiveKeeps ==
    ASSUME ReloadInv, FreeLive
    PROVE  ReloadInv'
<1> USE DEF Threads, Consumers, Readers, Stages, Busy, MainPcs, HttpPcs, Loops, Down, NoCfg
<1>1. toFree \in Cfgs
  BY LoadsFit DEF FreeLive, ReloadInv, EndInv
<1>2. \A c \in Cfgs : freed'[c] = IF c > loads THEN 0 ELSE 1
  <2>1. freed \in [Cfgs -> Nat] /\ freed' = [freed EXCEPT ![toFree] = @ + 1]
    BY DEF FreeLive, ReloadInv, TypeInv
  <2>2. \A c \in Cfgs : freed[c] = IF c > loads \/ c = toFree THEN 0 ELSE 1
    BY DEF FreeLive, ReloadInv, EndInv
  <2>3. loads \in Nat /\ toFree \in 1 .. loads
    BY DEF FreeLive, ReloadInv, EndInv, TypeInv
  <2>4. \A c \in Cfgs : freed'[c] = IF c = toFree THEN freed[c] + 1 ELSE freed[c]
    BY <1>1, <2>1
  <2> QED
    BY <1>1, <2>2, <2>3, <2>4 DEF Cfgs
<1>3. TypeInv' /\ CountInv' /\ LockInv'
  <2>1. freed \in [Cfgs -> Nat] /\ freed' = [freed EXCEPT ![toFree] = @ + 1]
    BY DEF FreeLive, ReloadInv, TypeInv
  <2>2. freed' \in [Cfgs -> Nat]
    BY <1>1, <2>1
  <2> QED
    BY <1>1, <2>2 DEF FreeLive, ReloadInv, TypeInv, CountInv, Asked, Flagged, LockInv, rlVars, counts
<1>4. HeldInv' /\ StartInv' /\ OwnInv' /\ LiveInv'
  BY DEF FreeLive, ReloadInv, TypeInv, HeldInv, StartInv, OwnInv, LiveInv, rlVars
<1>5. EndInv'
  BY <1>2 DEF FreeLive, EndInv
<1>6. PutInv'
  BY PutKept DEF FreeLive, ReloadInv, TypeInv, rlVars
<1> QED
  BY <1>3, <1>4, <1>5, <1>6 DEF ReloadInv

-----------------------------------------------------------------------------
(* The steps of a reload. *)

\* Only one thread is past the mutex.
LEMMA Alone ==
    ASSUME TypeInv, LockInv, NEW t \in Threads, rl[t] \in Busy
    PROVE  /\ lock = t
           /\ \A u \in Threads \ {t} : rl[u] \in {"off", "lock"}
           /\ mainPc \in Loops /\ mainPc # "agent" /\ httpPc # "locked"
           /\ t = "main" => mainPc = "poll"
           /\ t = "http" => httpPc = "put"
  BY DEF TypeInv, LockInv, Threads, Stages, Busy, Loops

\* The mutex is taken and given back: no pointer changes.
LEMMA MutexKeeps ==
    ASSUME ReloadInv, NEW t \in Threads, agent_lock(t) \/ agent_unlock(t)
    PROVE  ReloadInv'
<1>1. /\ rl' = [rl EXCEPT ![t] = IF rl[t] = "lock" THEN "load" ELSE "off"]
      /\ rl[t] \in {"lock", "unlock"}
      /\ lock' = IF rl[t] = "lock" THEN t ELSE "none"
      /\ rl[t] = "lock" => lock = "none"
  BY DEF agent_lock, agent_unlock
<1>2. UNCHANGED <<file, cfgVars, held, old, new, reload, shutdown, running, mainPc, httpPc,
                  toFree, putVer, counts, seen>>
  BY DEF agent_lock, agent_unlock
<1>3. TypeInv'
  BY <1>1, <1>2 DEF ReloadInv, TypeInv, Stages, Busy, cfgVars, counts
<1>4. CountInv'
  BY <1>1, <1>2 DEF ReloadInv, TypeInv, CountInv, Asked, Flagged, Threads, cfgVars, counts
<1>5. LockInv'
  BY <1>1, <1>2 DEF ReloadInv, TypeInv, LockInv, Threads, Busy
<1>6. HeldInv' /\ StartInv' /\ EndInv' /\ LiveInv'
  BY <1>1, <1>2 DEF ReloadInv, TypeInv, HeldInv, StartInv, EndInv, LiveInv, Threads, cfgVars
<1>7. OwnInv'
  BY <1>1, <1>2, OwnersKept DEF ReloadInv, TypeInv, Fresh, cfgVars
<1>8. PutInv'
  BY <1>1, <1>2, PutKept DEF ReloadInv, TypeInv, Threads, cfgVars
<1> QED
  BY <1>3, <1>4, <1>5, <1>6, <1>7, <1>8 DEF ReloadInv

\* config_load fails: the caller gives up, and the configurations are as before.
LEMMA LoadFailKeeps ==
    ASSUME ReloadInv, NEW t \in Threads, Load(t), ~file.ok
    PROVE  ReloadInv'
<1>1. /\ rl[t] = "load" /\ rl' = [rl EXCEPT ![t] = "unlock"]
      /\ old' = [old EXCEPT ![t] = cfg] /\ new' = [new EXCEPT ![t] = NoCfg]
      /\ UNCHANGED <<loads, version, file, freed, cfg, live, stale, held, lock, reload, shutdown,
                     running, mainPc, httpPc, toFree, putVer, counts>>
  BY DEF Load, RetiredBy
<1>2. /\ lock = t /\ \A u \in Threads \ {t} : rl[u] \in {"off", "lock"}
      /\ mainPc \in Loops
  BY <1>1, Alone DEF ReloadInv, Busy
<1>3. TypeInv'
  BY <1>1 DEF ReloadInv, TypeInv, Stages, Busy, NoCfg, counts
<1>4. CountInv'
  BY <1>1 DEF ReloadInv, TypeInv, CountInv, Asked, Flagged, Threads, counts
<1>5. LockInv'
  BY <1>1 DEF ReloadInv, TypeInv, LockInv, Threads, Busy
<1>6. HeldInv' /\ StartInv' /\ EndInv' /\ LiveInv'
  BY <1>1, <1>2 DEF ReloadInv, TypeInv, HeldInv, StartInv, EndInv, LiveInv, Threads
<1>7. (\A u \in Threads : ~Fresh(u) /\ ~Fresh(u)')
  BY <1>1, <1>2 DEF ReloadInv, TypeInv, Fresh
<1>8. Root' = Root /\ Queue' = Queue /\ Kept' = Kept /\ Given' = Given
  BY <1>1, <1>7 DEF Root, Queue, Kept, Given, Fresh
<1>9. OwnInv'
  BY <1>1, <1>7, <1>8 DEF ReloadInv, OwnInv, Fresh
<1>10. PutInv'
  BY <1>1, <1>7 DEF ReloadInv, TypeInv, PutInv, Threads
<1> QED
  BY <1>3, <1>4, <1>5, <1>6, <1>9, <1>10 DEF ReloadInv

\* config_load gives a configuration that nobody else knows.
LEMMA LoadKeeps ==
    ASSUME ReloadInv, NEW t \in Threads, Load(t), file.ok
    PROVE  ReloadInv'
<1>1. /\ rl[t] = "load" /\ rl' = [rl EXCEPT ![t] = "enqueue"]
      /\ old' = [old EXCEPT ![t] = cfg] /\ new' = [new EXCEPT ![t] = loads + 1]
      /\ loads' = loads + 1 /\ version' = [version EXCEPT ![loads + 1] = file.ver]
      /\ UNCHANGED <<file, freed, cfg, live, stale, held, lock, reload, shutdown, running, mainPc,
                     httpPc, toFree, putVer, counts>>
  BY DEF Load, RetiredBy
<1>2. /\ lock = t /\ \A u \in Threads \ {t} : rl[u] \in {"off", "lock"}
      /\ mainPc \in Loops
  BY <1>1, Alone DEF ReloadInv, Busy
<1>3. loads \in Nat /\ loads + 1 \in Cfgs /\ 0 .. loads \subseteq 0 .. loads' /\ 1 .. loads \subseteq 1 .. loads'
  BY <1>1, LoadFits DEF ReloadInv, TypeInv
<1>4. TypeInv'
  <2>1. stale' \in Seq(1 .. loads')
    BY <1>1, <1>3, SeqWider DEF ReloadInv, TypeInv
  <2>2. live' \in [Consumers -> 0 .. loads'] /\ held' \in [Readers -> 0 .. loads']
    BY <1>1, <1>3 DEF ReloadInv, TypeInv
  <2>3. old' \in [Threads -> 0 .. loads'] /\ new' \in [Threads -> 0 .. loads']
    BY <1>1, <1>3, SMTT(30) DEF ReloadInv, TypeInv
  <2>4. rl' \in [Threads -> Stages] /\ version' \in [Cfgs -> Nat]
    BY <1>1, <1>3 DEF ReloadInv, TypeInv, Stages, Busy
  <2>5. loads' \in Nat \ {0} /\ cfg' \in 0 .. loads' /\ toFree' \in 0 .. loads'
    BY <1>1, <1>3 DEF ReloadInv, TypeInv
  <2> QED
    BY <1>1, <2>1, <2>2, <2>3, <2>4, <2>5 DEF ReloadInv, TypeInv, counts
<1>5. CountInv'
  BY <1>1 DEF ReloadInv, TypeInv, CountInv, Asked, Flagged, Threads, counts
<1>6. LockInv'
  BY <1>1 DEF ReloadInv, TypeInv, LockInv, Threads, Busy
<1>7. HeldInv' /\ StartInv' /\ EndInv' /\ LiveInv'
  BY <1>1, <1>2 DEF ReloadInv, TypeInv, HeldInv, StartInv, EndInv, LiveInv, Threads, Loops
<1>8. \A u \in Threads : ~Fresh(u) /\ (Fresh(u)' <=> u = t) /\ rl'[u] # "set" /\ rl'[u] # "publish"
  BY <1>1, <1>2 DEF ReloadInv, TypeInv, Fresh
<1>9. Root' = Root /\ Queue' = Queue /\ Given' = Given /\ Kept' = Kept \cup {loads + 1}
  <2>1. Root' = Root /\ Queue' = Queue
    BY <1>1 DEF Root, Queue
  <2>2. new'[t] = loads + 1
    BY <1>1 DEF ReloadInv, TypeInv
  <2>3. {new'[u] : u \in {w \in Threads : Fresh(w)'}} = {loads + 1}
    BY <1>8, <2>2
  <2> QED
    BY <1>8, <2>1, <2>3 DEF Kept, Given, Fresh
<1>10. cfg \in 1 .. loads /\ Root = cfg /\ mainPc \notin {"free", "done"}
  BY <1>2 DEF ReloadInv, TypeInv, HeldInv, Root, Loops, Down, NoCfg
<1>11. OwnInv'
  <2>1. loads + 1 \notin Queue /\ loads + 1 # Root
    BY <1>3, <1>10, QueueLoaded DEF ReloadInv
  <2>2. \A u \in Threads : Fresh(u)' => new'[u] \in 1 .. loads' /\ new'[u] \notin Queue'
                                         /\ new'[u] # Root' /\ old'[u] = cfg'
    BY <1>1, <1>3, <1>8, <1>9, <2>1 DEF ReloadInv, TypeInv
  <2>3. \A c \in Cfgs : freed'[c] = IF c > loads' \/ c \in Kept' THEN 0 ELSE 1
    <3>1. \A c \in Cfgs : freed[c] = IF c > loads \/ c \in Kept THEN 0 ELSE 1
      BY <1>10 DEF ReloadInv, OwnInv
    <3>2. \A c \in Cfgs : c > loads <=> c > loads' \/ c = loads + 1
      BY <1>1, <1>3 DEF Cfgs
    <3> QED
      BY <1>1, <1>9, <3>1, <3>2
  <2>4. Root' \in 1 .. loads' /\ (Root' \in Queue' => \E u \in Threads : rl'[u] \in {"publish", "set"})
    BY <1>1, <1>3, <1>8, <1>9, <1>10 DEF ReloadInv, OwnInv, Fresh
  <2>5. \A i, j \in 1 .. Len(stale') : stale'[i] = stale'[j] => i = j
    BY <1>1, <1>10 DEF ReloadInv, OwnInv
  <2>6. \A k \in Consumers : live'[k] # NoCfg => live'[k] \in Given'
    BY <1>1, <1>9, <1>10 DEF ReloadInv, OwnInv
  <2>7. \A r \in Readers : held'[r] # NoCfg => held'[r] \in Given'
    BY <1>1, <1>9, <1>10 DEF ReloadInv, OwnInv
  <2> QED
    BY <1>8, <2>2, <2>3, <2>4, <2>5, <2>6, <2>7 DEF OwnInv
<1>12. PutInv'
  <2>1. version'[loads + 1] = file.ver /\ \A u \in Threads : Fresh(u)' => new'[u] = loads + 1
    BY <1>1, <1>3, <1>8 DEF ReloadInv, TypeInv
  <2>2. rl'["http"] # "unlock"
    BY <1>1, <1>2 DEF ReloadInv, TypeInv, Threads
  <2> QED
    BY <1>1, <2>1, <2>2 DEF ReloadInv, TypeInv, PutInv, Threads
<1> QED
  BY <1>4, <1>5, <1>6, <1>7, <1>11, <1>12 DEF ReloadInv

\* The configuration in force, which no queue holds yet, is queued.
LEMMA EnqueueKeeps ==
    ASSUME ReloadInv, NEW t \in Threads, stale_enqueue(t)
    PROVE  ReloadInv'
<1>1. /\ rl[t] = "enqueue" /\ rl' = [rl EXCEPT ![t] = "publish"]
      /\ stale' = <<old[t]>> \o stale
      /\ UNCHANGED <<file, loads, version, freed, cfg, live, held, lock, old, new, reload, shutdown,
                     running, mainPc, httpPc, toFree, putVer, counts, seen>>
  BY DEF stale_enqueue
<1>2. /\ lock = t /\ \A u \in Threads \ {t} : rl[u] \in {"off", "lock"}
      /\ mainPc \in Loops
  BY <1>1, Alone DEF ReloadInv, Busy
<1>3. cfg \in 1 .. loads /\ Root = cfg /\ mainPc \notin {"free", "done"} /\ old[t] = cfg
  BY <1>1, <1>2 DEF ReloadInv, TypeInv, OwnInv, HeldInv, Root, Loops, Down, NoCfg, Fresh
<1>4. cfg \notin Queue
  BY <1>1, <1>2, <1>3 DEF ReloadInv, OwnInv
<1>5. stale \in Seq(1 .. loads) /\ Len(stale) \in Nat
  BY DEF ReloadInv, TypeInv
<1>6. /\ stale' \in Seq(1 .. loads) /\ Len(stale') = Len(stale) + 1 /\ stale'[1] = cfg
      /\ \A i \in 1 .. Len(stale) : stale'[i + 1] = stale[i]
      /\ \A i \in 2 .. Len(stale) + 1 : stale'[i] = stale[i - 1]
  BY <1>1, <1>3, <1>5, Prepended
<1>7. \A u \in Threads : (Fresh(u)' <=> Fresh(u)) /\ rl[u] # "set" /\ rl'[u] # "set" /\ rl[u] # "publish"
  BY <1>1, <1>2 DEF ReloadInv, TypeInv, Fresh
<1>8. Queue' = Queue \cup {cfg}
  <2>1. \A i \in 1 .. Len(stale) : i + 1 \in 1 .. Len(stale')
    BY <1>5, <1>6
  <2>2. \A i \in 1 .. Len(stale') : i = 1 \/ i \in 2 .. Len(stale) + 1
    BY <1>5, <1>6
  <2>3. 1 \in 1 .. Len(stale') /\ \A i \in 2 .. Len(stale) + 1 : i - 1 \in 1 .. Len(stale)
    BY <1>5, <1>6
  <2>4. Queue \subseteq Queue'
    BY <1>6, <2>1 DEF Queue
  <2>5. cfg \in Queue'
    BY <1>6, <2>3 DEF Queue
  <2>6. Queue' \subseteq Queue \cup {cfg}
    <3> SUFFICES ASSUME NEW i \in 1 .. Len(stale') PROVE stale'[i] \in Queue \cup {cfg}
      BY DEF Queue
    <3>1. CASE i = 1
      BY <1>6, <3>1
    <3>2. CASE i \in 2 .. Len(stale) + 1
      <4>1. i - 1 \in 1 .. Len(stale) /\ stale'[i] = stale[i - 1]
        BY <1>6, <2>3, <3>2
      <4> QED
        BY <4>1 DEF Queue
    <3> QED
      BY <2>2, <3>1, <3>2
  <2> QED
    BY <2>4, <2>5, <2>6
<1>9. Root' = Root /\ Given' = Given /\ Kept' = Kept
  BY <1>1, <1>3, <1>7, <1>8 DEF Root, Given, Kept
<1>10. TypeInv'
  BY <1>1, <1>6 DEF ReloadInv, TypeInv, Stages, Busy, counts
<1>11. CountInv'
  BY <1>1 DEF ReloadInv, TypeInv, CountInv, Asked, Flagged, Threads, counts
<1>12. LockInv'
  BY <1>1 DEF ReloadInv, TypeInv, LockInv, Threads, Busy
<1>13. HeldInv' /\ StartInv' /\ EndInv' /\ LiveInv'
  BY <1>1, <1>2, <1>7 DEF ReloadInv, TypeInv, HeldInv, StartInv, EndInv, LiveInv, Threads, Loops
<1>14. OwnInv'
  <2>1. \A i, j \in 1 .. Len(stale') : stale'[i] = stale'[j] => i = j
    <3>1. \A i, j \in 1 .. Len(stale) : stale[i] = stale[j] => i = j
      BY <1>3 DEF ReloadInv, OwnInv
    <3>2. \A i \in 2 .. Len(stale) + 1 : stale'[i] # cfg
      <4>1. \A i \in 2 .. Len(stale) + 1 : i - 1 \in 1 .. Len(stale)
        BY <1>5
      <4> QED
        BY <1>4, <1>6, <4>1 DEF Queue
    <3>3. ASSUME NEW i \in 1 .. Len(stale'), NEW j \in 1 .. Len(stale'), stale'[i] = stale'[j], i < j
          PROVE  FALSE
      <4>1. j \in 2 .. Len(stale) + 1
        BY <1>5, <1>6, <3>3
      <4>2. CASE i = 1
        BY <1>6, <3>2, <3>3, <4>1, <4>2
      <4>3. CASE i # 1
        <5>1. i \in 2 .. Len(stale) + 1
          BY <1>5, <1>6, <4>3
        <5>2. i - 1 \in 1 .. Len(stale) /\ j - 1 \in 1 .. Len(stale) /\ i - 1 # j - 1
          BY <1>5, <3>3, <4>1, <5>1
        <5>3. stale[i - 1] = stale[j - 1]
          BY <1>6, <3>3, <4>1, <5>1
        <5> QED
          BY <3>1, <5>2, <5>3
      <4> QED
        BY <4>2, <4>3
    <3>4. \A i, j \in 1 .. Len(stale') : i = j \/ i < j \/ j < i
      BY <1>5, <1>6
    <3> QED
      BY <3>3, <3>4
  <2>2. \A u \in Threads : Fresh(u)' => new'[u] \in 1 .. loads' /\ new'[u] \notin Queue'
                                         /\ new'[u] # Root' /\ old'[u] = cfg'
    BY <1>1, <1>3, <1>7, <1>8, <1>9 DEF ReloadInv, OwnInv
  <2>3. \E u \in Threads : rl'[u] \in {"publish", "set"}
    BY <1>1 DEF ReloadInv, TypeInv
  <2>4. cfg' \in Queue' /\ Root' \in 1 .. loads'
    BY <1>1, <1>3, <1>8, <1>9
  <2>5. \A c \in Cfgs : freed'[c] = IF c > loads' \/ c \in Kept' THEN 0 ELSE 1
    BY <1>1, <1>3, <1>9 DEF ReloadInv, OwnInv
  <2>6. \A k \in Consumers : live'[k] # NoCfg => live'[k] \in Given'
    BY <1>1, <1>3, <1>9 DEF ReloadInv, OwnInv
  <2>7. \A r \in Readers : held'[r] # NoCfg => held'[r] \in Given'
    BY <1>1, <1>3, <1>9 DEF ReloadInv, OwnInv
  <2> QED
    BY <2>1, <2>2, <2>3, <2>4, <2>5, <2>6, <2>7 DEF OwnInv
<1>15. PutInv'
  BY <1>1, <1>2, <1>7 DEF ReloadInv, TypeInv, PutInv, Threads
<1> QED
  BY <1>10, <1>11, <1>12, <1>13, <1>14, <1>15 DEF ReloadInv

\* A reload that runs out of memory frees the configuration that only it knows.
LEMMA EnqueueFailsKeeps ==
    ASSUME ReloadInv, NEW t \in Threads, EnqueueFails(t)
    PROVE  ReloadInv'
<1>1. /\ rl[t] = "enqueue" /\ rl' = [rl EXCEPT ![t] = "unlock"]
      /\ freed' = [freed EXCEPT ![new[t]] = @ + 1] /\ new' = [new EXCEPT ![t] = NoCfg]
      /\ UNCHANGED <<file, loads, version, cfg, live, stale, held, lock, old, reload, shutdown,
                     running, mainPc, httpPc, toFree, putVer, counts, seen>>
  BY DEF EnqueueFails
<1>2. /\ lock = t /\ \A u \in Threads \ {t} : rl[u] \in {"off", "lock"}
      /\ mainPc \in Loops
  BY <1>1, Alone DEF ReloadInv, Busy
<1>3. mainPc \notin {"free", "done"}
  BY <1>2 DEF Loops
<1>4. new[t] \in 1 .. loads /\ new[t] \notin Queue /\ new[t] # Root /\ new[t] \in Cfgs
  BY <1>1, <1>3, LoadsFit DEF ReloadInv, OwnInv, Fresh
<1>5. freed \in [Cfgs -> Nat] /\ freed' \in [Cfgs -> Nat]
  <2>1. freed \in [Cfgs -> Nat]
    BY DEF ReloadInv, TypeInv
  <2> QED
    BY <1>1, <1>4, <2>1
<1>6. TypeInv'
  BY <1>1, <1>5, SMTT(30) DEF ReloadInv, TypeInv, Stages, Busy, NoCfg, counts
<1>7. CountInv'
  BY <1>1 DEF ReloadInv, TypeInv, CountInv, Asked, Flagged, Threads, counts
<1>8. LockInv'
  BY <1>1 DEF ReloadInv, TypeInv, LockInv, Threads, Busy
<1>9. HeldInv' /\ StartInv' /\ EndInv' /\ LiveInv'
  BY <1>1, <1>2 DEF ReloadInv, TypeInv, HeldInv, StartInv, EndInv, LiveInv, Threads, Loops
<1>10. \A u \in Threads : (Fresh(u) <=> u = t) /\ ~Fresh(u)' /\ rl[u] # "set" /\ rl[u] # "publish"
  BY <1>1, <1>2 DEF ReloadInv, TypeInv, Fresh
<1>11. /\ Root' = Root /\ Queue' = Queue /\ Given' = Given
       /\ Kept = Queue \cup {Root, new[t]} /\ Kept' = Queue \cup {Root}
  <2>1. Root' = Root /\ Queue' = Queue
    BY <1>1 DEF Root, Queue
  <2>2. {new[u] : u \in {w \in Threads : Fresh(w)}} = {new[t]}
    BY <1>10
  <2> QED
    BY <1>10, <2>1, <2>2 DEF Given, Kept, Fresh
<1>12. OwnInv'
  <2>1. \A c \in Cfgs : freed[c] = IF c > loads \/ c \in Kept THEN 0 ELSE 1
    BY <1>3 DEF ReloadInv, OwnInv
  <2>2. \A c \in Cfgs : freed'[c] = IF c = new[t] THEN freed[c] + 1 ELSE freed[c]
    BY <1>1, <1>4, <1>5
  <2>3. ~(new[t] > loads)
    BY <1>4 DEF ReloadInv, TypeInv
  <2>4. \A c \in Cfgs : freed'[c] = IF c > loads' \/ c \in Kept' THEN 0 ELSE 1
    BY <1>1, <1>4, <1>11, <2>1, <2>2, <2>3
  <2> QED
    BY <1>1, <1>3, <1>10, <1>11, <2>4 DEF ReloadInv, OwnInv, Fresh
<1>13. PutInv'
  BY <1>1, <1>2, <1>10 DEF ReloadInv, TypeInv, PutInv, Threads
<1> QED
  BY <1>6, <1>7, <1>8, <1>9, <1>12, <1>13 DEF ReloadInv

\* Every consumer is given the new configuration.
LEMMA SetLiveKeeps ==
    ASSUME ReloadInv, NEW t \in Threads, SetLive(t)
    PROVE  ReloadInv'
<1>1. /\ rl[t] = "publish" /\ rl' = [rl EXCEPT ![t] = "set"]
      /\ live' = [k \in Consumers |-> new[t]]
      /\ UNCHANGED <<file, loads, version, freed, cfg, stale, held, lock, old, new, reload, shutdown,
                     running, mainPc, httpPc, toFree, putVer, counts, seen>>
  BY DEF SetLive, Published
<1>2. /\ lock = t /\ \A u \in Threads \ {t} : rl[u] \in {"off", "lock"}
      /\ mainPc \in Loops
  BY <1>1, Alone DEF ReloadInv, Busy
<1>3. mainPc \notin {"free", "done"}
  BY <1>2 DEF Loops
<1>4. TypeInv'
  BY <1>1 DEF ReloadInv, TypeInv, Stages, Busy, counts
<1>5. CountInv'
  BY <1>1 DEF ReloadInv, TypeInv, CountInv, Asked, Flagged, Threads, counts
<1>6. LockInv'
  BY <1>1 DEF ReloadInv, TypeInv, LockInv, Threads, Busy
<1>7. \A u \in Threads : (Fresh(u)' <=> Fresh(u)) /\ (rl'[u] = "set" <=> u = t) /\ rl[u] # "set"
  BY <1>1, <1>2 DEF ReloadInv, TypeInv, Fresh
<1>8. HeldInv' /\ StartInv' /\ EndInv' /\ LiveInv'
  BY <1>1, <1>2, <1>7 DEF ReloadInv, HeldInv, StartInv, EndInv, LiveInv, Loops
<1>9. Root' = Root /\ Queue' = Queue /\ Kept' = Kept /\ Given \subseteq Given' /\ new[t] \in Given'
  BY <1>1, <1>7 DEF Root, Queue, Kept, Given
<1>10. OwnInv'
  <2>1. \A r \in Readers : held'[r] # NoCfg => held'[r] \in Given'
    BY <1>1, <1>3, <1>9 DEF ReloadInv, OwnInv
  <2>2. \A k \in Consumers : live'[k] # NoCfg => live'[k] \in Given'
    BY <1>1, <1>9
  <2>3. \E u \in Threads : rl'[u] \in {"publish", "set"}
    BY <1>7
  <2>4. cfg \in Queue
    BY <1>1, <1>3 DEF ReloadInv, OwnInv
  <2> QED
    BY <1>1, <1>3, <1>7, <1>9, <2>1, <2>2, <2>3, <2>4 DEF ReloadInv, OwnInv
<1>11. PutInv'
  BY <1>1, <1>2, <1>7 DEF ReloadInv, TypeInv, PutInv, Threads
<1> QED
  BY <1>4, <1>5, <1>6, <1>8, <1>10, <1>11 DEF ReloadInv

\* The new configuration is in force; the one it replaces is in the queue.
LEMMA SetCfgKeeps ==
    ASSUME ReloadInv, NEW t \in Threads, bootstrap_set_cfg(t)
    PROVE  ReloadInv'
<1>1. /\ rl[t] = "set" /\ rl' = [rl EXCEPT ![t] = "unlock"] /\ cfg' = new[t]
      /\ UNCHANGED <<file, loads, version, freed, live, stale, held, lock, old, new, reload, shutdown,
                     running, mainPc, httpPc, toFree, putVer, counts, seen>>
  BY DEF bootstrap_set_cfg
<1>2. /\ lock = t /\ \A u \in Threads \ {t} : rl[u] \in {"off", "lock"}
      /\ mainPc \in Loops
  BY <1>1, Alone DEF ReloadInv, Busy
<1>3. mainPc \notin {"free", "done"} /\ cfg # NoCfg
  BY <1>2 DEF ReloadInv, HeldInv, Loops, Down
<1>4. new[t] \in 1 .. loads /\ new[t] \notin Queue /\ new[t] # NoCfg /\ cfg \in Queue
  BY <1>1, <1>3 DEF ReloadInv, OwnInv, Fresh, NoCfg
<1>5. TypeInv'
  BY <1>1, <1>4 DEF ReloadInv, TypeInv, Stages, Busy, counts
<1>6. CountInv'
  BY <1>1 DEF ReloadInv, TypeInv, CountInv, Asked, Flagged, Threads, counts
<1>7. LockInv'
  BY <1>1 DEF ReloadInv, TypeInv, LockInv, Threads, Busy
<1>8. \A u \in Threads : (Fresh(u) <=> u = t) /\ ~Fresh(u)' /\ (rl[u] = "set" <=> u = t)
  BY <1>1, <1>2 DEF ReloadInv, TypeInv, Fresh
<1>9. HeldInv' /\ StartInv' /\ EndInv' /\ LiveInv'
  BY <1>1, <1>2, <1>3, <1>4, <1>8 DEF ReloadInv, HeldInv, StartInv, EndInv, LiveInv, Loops, Down, Fresh
<1>10. Root = cfg /\ Root' = new[t] /\ Queue' = Queue
  BY <1>1, <1>3, <1>4 DEF Root, Queue
<1>11. Kept' = Kept /\ Given' = Given
  <2>1. {new[u] : u \in {w \in Threads : Fresh(w)}} = {new[t]}
    BY <1>8
  <2>2. {new[u] : u \in {w \in Threads : rl[w] = "set"}} = {new[t]}
    BY <1>8
  <2> QED
    BY <1>1, <1>4, <1>8, <1>10, <2>1, <2>2 DEF Kept, Given, Fresh
<1>12. OwnInv'
  BY <1>1, <1>3, <1>4, <1>8, <1>10, <1>11 DEF ReloadInv, OwnInv, Fresh
<1>13. PutInv'
  BY <1>1, <1>2, <1>8 DEF ReloadInv, TypeInv, PutInv, Threads
<1> QED
  BY <1>5, <1>6, <1>7, <1>9, <1>12, <1>13 DEF ReloadInv

-----------------------------------------------------------------------------
(* The theorems. *)

\* Every step keeps the invariant.
LEMMA ReloadStep == SavesOverlap = FALSE /\ ReloadInv /\ [Next]_vars => ReloadInv'
<1> SUFFICES ASSUME SavesOverlap = FALSE, ReloadInv, [Next]_vars PROVE ReloadInv'
  OBVIOUS
<1>1. CASE MainNext
  BY <1>1, MainQuiet, ToolsKeeps, FailedKeeps, LoopExitKeeps, ChannelsKeeps, StaleKeeps, FreeLiveKeeps
     DEF MainNext
<1>2. CASE HttpNext
  BY <1>2, HttpQuiet, PutSaveKeeps DEF HttpNext
<1>3. ASSUME NEW t \in Threads, Reloading(t) PROVE ReloadInv'
  <2>1. CASE Load(t)
    BY <2>1, LoadKeeps, LoadFailKeeps
  <2> QED
    BY <1>3, <2>1, MutexKeeps, EnqueueKeeps, EnqueueFailsKeeps, SetLiveKeeps, SetCfgKeeps DEF Reloading
<1>4. CASE UNCHANGED vars
  <2>1. /\ TypeInv' /\ CountInv' /\ LockInv' /\ HeldInv' /\ StartInv' /\ EndInv' /\ LiveInv'
    BY <1>4, SMTT(30) DEF vars, ReloadInv, TypeInv, CountInv, Asked, Flagged, LockInv, HeldInv, StartInv, EndInv, LiveInv
  <2>2. OwnInv' /\ PutInv'
    BY <1>4 DEF vars, ReloadInv, OwnInv, PutInv, Root, Queue, Fresh, Kept, Given
  <2> QED
    BY <2>1, <2>2 DEF ReloadInv
<1> QED
  BY <1>1, <1>2, <1>3, <1>4, OtherQuiet, EditKeeps DEF Next, Done

\* What the invariant says of the properties.
LEMMA ReloadImplies ==
    ASSUME ReloadInv
    PROVE  NoUseAfterFree /\ LiveAgree /\ PutApplied
<1>1. FreedOnce
  <2>1. CASE mainPc = "free"
    BY <2>1 DEF ReloadInv, EndInv, FreedOnce
  <2>2. CASE mainPc = "done"
    BY <2>2 DEF ReloadInv, EndInv, FreedOnce
  <2>3. CASE mainPc \notin {"free", "done"}
    BY <2>3 DEF ReloadInv, OwnInv, FreedOnce
  <2> QED
    BY <2>1, <2>2, <2>3
<1>2. \A r \in Readers : held[r] # NoCfg => freed[held[r]] = 0
  <2> SUFFICES ASSUME NEW r \in Readers, held[r] # NoCfg PROVE freed[held[r]] = 0
    OBVIOUS
  <2>1. mainPc \notin {"free", "done"}
    BY DEF ReloadInv, HeldInv, Readers, Down, NoCfg
  <2>2. held[r] \in 1 .. loads /\ held[r] \in Cfgs
    BY LoadsFit DEF ReloadInv, TypeInv, NoCfg
  <2>3. held[r] \in Given /\ Given \subseteq Kept
    BY <2>1 DEF ReloadInv, OwnInv, Given, Kept, Fresh
  <2> QED
    BY <2>1, <2>2, <2>3 DEF ReloadInv, OwnInv
<1>3. mainPc = "done" => \A c \in 1 .. loads : freed[c] = 1
  BY LoadsFit DEF ReloadInv, TypeInv, EndInv
<1>4. LiveAgree
  BY DEF ReloadInv, LiveInv, LiveAgree, Loops
<1>5. PutApplied
  BY DEF ReloadInv, PutInv, PutApplied
<1> QED
  BY <1>1, <1>2, <1>3, <1>4, <1>5 DEF NoUseAfterFree

\* However the reloads of the two threads interleave, no thread works with a
\* configuration that was freed, none is freed twice, and none is lost, as long as
\* no save overlaps the start or the stop (try_config_reload, main).
THEOREM ConfigSafe ==
    ASSUME SavesOverlap = FALSE
    PROVE  Spec => []NoUseAfterFree
  BY ReloadInit, ReloadStep, ReloadImplies, PTL DEF Spec

\* While the main loop runs and nobody reloads, every consumer has the
\* configuration that the next reload retires (the *_set_live_config calls).
THEOREM ConsumersAgree ==
    ASSUME SavesOverlap = FALSE
    PROVE  Spec => []LiveAgree
  BY ReloadInit, ReloadStep, ReloadImplies, PTL DEF Spec

\* PUT /api/config answers 200 only when what it saved, or something newer, is in
\* force (handle_config_put).
THEOREM SavesApply ==
    ASSUME SavesOverlap = FALSE
    PROVE  Spec => []PutApplied
  BY ReloadInit, ReloadStep, ReloadImplies, PTL DEF Spec

-----------------------------------------------------------------------------
(* What a save writes: ConfigPatch. *)

IsFile(f) == \E S : f \in [lines : Seq(S), nl : BOOLEAN]

Parses(f) == Lines(f) # {} /\ toml_parse_file(f)

\* Table t has key k with value v.
Holds(f, t, k, v) ==
    \E i \in Lines(f) : /\ f.lines[i].kind = "key" /\ TableAt(f, i) = t
                        /\ f.lines[i].name = k /\ f.lines[i].v = v

\* A file that the scan reads as the parser does.
Plain(f) == IsFile(f) /\ Parses(f) /\ ~Blind(f)

Broke(f) == \E i \in Lines(f) : f.lines[i].kind = "broken"

\* Every set of natural numbers has a least one.
LEMMA LeastNumber ==
    ASSUME NEW S, S \subseteq Nat, S # {}
    PROVE  \E j \in S : \A k \in S : j <= k
<1>1. PICK j \in S : \A k \in S : <<k, j>> \notin OpToRel(<, Nat)
  BY NatLessThanWellFounded, WFMin
<1>2. \A k \in S : ~(k < j)
  BY <1>1 DEF OpToRel
<1> QED
  BY <1>2

\* First gives the least line of a set.
LEMMA FirstIs ==
    ASSUME NEW S, S \subseteq Nat, S # {}
    PROVE  First(S) \in S /\ \A j \in S : First(S) <= j
<1>1. \E i \in S : \A j \in S : i <= j
  BY LeastNumber
<1> QED
  BY <1>1 DEF First

\* A file has numbered lines and is the record of its two parts.
LEMMA FileIs ==
    ASSUME NEW f, IsFile(f)
    PROVE  /\ Len(f.lines) \in Nat /\ Lines(f) = 1 .. Len(f.lines)
           /\ f.nl \in BOOLEAN /\ f = [lines |-> f.lines, nl |-> f.nl]
           /\ \E S : f.lines \in Seq(S)
<1>1. PICK S : f \in [lines : Seq(S), nl : BOOLEAN]
  BY DEF IsFile
<1> QED
  BY <1>1 DEF Lines

\* A line lies in the table that it opens, or that the line before it lies in.
LEMMA TableStep ==
    ASSUME NEW f, NEW i \in Nat \ {0}
    PROVE  TableAt(f, i) =
             IF f.lines[i].kind = "table" THEN f.lines[i].name
             ELSE IF i = 1 THEN NoText ELSE TableAt(f, i - 1)
<1> DEFINE heads(n) == {j \in 1 .. n : f.lines[j].kind = "table"}
<1>1. CASE f.lines[i].kind = "table"
  <2>1. i \in heads(i) /\ \A k \in heads(i) : k <= i /\ k \in Nat
    BY <1>1
  <2>2. \A j \in heads(i) : (\A k \in heads(i) : k <= j) => j = i
    BY <2>1
  <2>3. (CHOOSE j \in heads(i) : \A k \in heads(i) : k <= j) = i
    BY <2>1, <2>2
  <2> QED
    BY <1>1, <2>1, <2>3 DEF TableAt
<1>2. CASE f.lines[i].kind # "table" /\ i = 1
  <2>1. heads(i) = {}
    BY <1>2
  <2> QED
    BY <1>2, <2>1 DEF TableAt
<1>3. CASE f.lines[i].kind # "table" /\ i # 1
  <2>1. heads(i) = heads(i - 1)
    BY <1>3
  <2> DEFINE At(H) == IF H = {} THEN NoText
                      ELSE f.lines[CHOOSE j \in H : \A k \in H : k <= j].name
  <2>2. TableAt(f, i) = At(heads(i)) /\ TableAt(f, i - 1) = At(heads(i - 1))
    BY DEF TableAt
  <2> HIDE DEF At, heads
  <2> QED
    BY <1>3, <2>1, <2>2
<1> QED
  BY <1>1, <1>2, <1>3

\* The lines from a header to the next one lie in its table.
LEMMA TableOf ==
    ASSUME NEW f, NEW j \in Nat \ {0}, NEW n \in Nat, f.lines[j].kind = "table",
           \A k \in j + 1 .. n : f.lines[k].kind # "table"
    PROVE  \A i \in j .. n : TableAt(f, i) = f.lines[j].name
<1> DEFINE S == {i \in j .. n : TableAt(f, i) # f.lines[j].name}
<1>1. SUFFICES ASSUME S # {} PROVE FALSE
  OBVIOUS
<1>2. PICK i \in S : \A k \in S : i <= k
  <2>1. S \subseteq Nat
    OBVIOUS
  <2> HIDE DEF S
  <2> QED
    BY <1>1, <2>1, LeastNumber
<1>3. i \in j .. n /\ i \in Nat \ {0} /\ TableAt(f, i) # f.lines[j].name
  OBVIOUS
<1>4. i # j
  BY <1>3, TableStep
<1>5. i - 1 \in j .. n /\ ~(i <= i - 1) /\ i \in j + 1 .. n /\ i # 1
  BY <1>3, <1>4
<1>6. TableAt(f, i - 1) = f.lines[j].name
  BY <1>2, <1>5
<1> QED
  BY <1>3, <1>5, <1>6, TableStep

\* A line of a table lies behind its header, with no other between them.
LEMMA HeadOf ==
    ASSUME NEW f, NEW i \in Nat \ {0}, TableAt(f, i) # NoText
    PROVE  \E j \in 1 .. i : /\ f.lines[j].kind = "table" /\ f.lines[j].name = TableAt(f, i)
                             /\ \A k \in j + 1 .. i : f.lines[k].kind # "table"
<1> DEFINE P(n) == \E j \in 1 .. n :
                      /\ f.lines[j].kind = "table" /\ f.lines[j].name = TableAt(f, n)
                      /\ \A k \in j + 1 .. n : f.lines[k].kind # "table"
           S == {n \in 1 .. i : TableAt(f, n) # NoText /\ ~P(n)}
<1>1. SUFFICES ASSUME S # {} PROVE FALSE
  OBVIOUS
<1>2. PICK n \in S : \A k \in S : n <= k
  <2>1. S \subseteq Nat
    OBVIOUS
  <2> HIDE DEF S
  <2> QED
    BY <1>1, <2>1, LeastNumber
<1>3. n \in Nat \ {0} /\ n <= i /\ TableAt(f, n) # NoText /\ ~P(n)
  OBVIOUS
<1>4. f.lines[n].kind # "table"
  <2>1. SUFFICES ASSUME f.lines[n].kind = "table" PROVE P(n)
    BY <1>3
  <2>2. f.lines[n].name = TableAt(f, n)
    BY <1>3, <2>1, TableStep
  <2> QED
    BY <1>3, <2>1, <2>2
<1>5. n # 1 /\ TableAt(f, n) = TableAt(f, n - 1)
  BY <1>3, <1>4, TableStep
<1>6. n - 1 \in 1 .. i /\ n - 1 \notin S
  BY <1>2, <1>3, <1>5
<1>7. P(n - 1)
  BY <1>3, <1>5, <1>6
<1> QED
  BY <1>3, <1>4, <1>5, <1>7

\* A header is in g, at h, and another line still follows the one it followed.
Follows(f, g, n, h) ==
    \A i \in 1 .. n :
        /\ f.lines[i].kind = "table" => g.lines[h[i]] = f.lines[i]
        /\ f.lines[i].kind # "table" =>
              /\ g.lines[h[i]].kind # "table"
              /\ i = 1 => h[i] = 1
              /\ i # 1 => h[i] = h[i - 1] + 1

\* Lines that keep their order and their headers keep their tables.
LEMMA TablesKept ==
    ASSUME NEW f, NEW g, NEW n \in Nat, NEW h \in [1 .. n -> Nat \ {0}], Follows(f, g, n, h)
    PROVE  \A i \in 1 .. n : TableAt(g, h[i]) = TableAt(f, i)
<1> DEFINE S == {i \in 1 .. n : TableAt(g, h[i]) # TableAt(f, i)}
<1>1. SUFFICES ASSUME S # {} PROVE FALSE
  OBVIOUS
<1>2. PICK i \in S : \A k \in S : i <= k
  <2>1. S \subseteq Nat
    OBVIOUS
  <2> HIDE DEF S
  <2> QED
    BY <1>1, <2>1, LeastNumber
<1>3. i \in 1 .. n /\ i \in Nat \ {0} /\ h[i] \in Nat \ {0} /\ TableAt(g, h[i]) # TableAt(f, i)
  OBVIOUS
<1>4. f.lines[i].kind # "table"
  BY <1>3, TableStep DEF Follows
<1>5. i # 1
  BY <1>3, <1>4, TableStep DEF Follows
<1>6. i - 1 \in 1 .. n /\ ~(i <= i - 1)
  BY <1>3, <1>5
<1>7. TableAt(g, h[i - 1]) = TableAt(f, i - 1)
  BY <1>2, <1>6
<1>8. h[i - 1] \in Nat \ {0} /\ h[i] = h[i - 1] + 1 /\ h[i] # 1 /\ h[i] - 1 = h[i - 1]
      /\ g.lines[h[i]].kind # "table"
  BY <1>3, <1>4, <1>5, <1>6 DEF Follows
<1>9. TableAt(g, h[i]) = TableAt(g, h[i - 1])
  BY <1>3, <1>8, TableStep
<1> QED
  BY <1>3, <1>4, <1>5, <1>7, <1>9, TableStep

\* Where find_section and section_end stop.
LEMMA Section ==
    ASSUME NEW f, IsFile(f), NEW t, find_section(f, t) # 0
    PROVE  LET sec == find_section(f, t)
               end == section_end(f, sec)
           IN  /\ sec \in 1 .. Len(f.lines) /\ Seen(f.lines[sec]) /\ f.lines[sec].name = t
               /\ end \in sec + 1 .. Len(f.lines) + 1
               /\ end <= Len(f.lines) => Seen(f.lines[end])
               /\ \A i \in sec + 1 .. end - 1 : ~Seen(f.lines[i])
<1> DEFINE n == Len(f.lines)
           sec == find_section(f, t)
           end == section_end(f, sec)
           at == {i \in Lines(f) : Seen(f.lines[i]) /\ f.lines[i].name = t}
           after == {i \in sec + 1 .. n : Seen(f.lines[i])}
<1>1. n \in Nat /\ Lines(f) = 1 .. n
  BY FileIs
<1>2. at \subseteq Nat /\ at # {}
  BY <1>1 DEF find_section, First
<1>3. sec \in at
  <2>1. sec = First(at)
    BY DEF find_section
  <2> HIDE DEF at, sec
  <2> QED
    BY <1>2, <2>1, FirstIs
<1>4. sec \in 1 .. n /\ Seen(f.lines[sec]) /\ f.lines[sec].name = t
  BY <1>1, <1>3
<1> HIDE DEF n, sec
<1>5. CASE after = {}
  <2>1. end = n + 1
    BY <1>5 DEF section_end, n
  <2>2. \A i \in sec + 1 .. n : ~Seen(f.lines[i])
    BY <1>5
  <2>3. n + 1 \in sec + 1 .. n + 1 /\ ~(n + 1 <= n) /\ n + 1 - 1 = n
    BY <1>1, <1>4
  <2> QED
    BY <1>4, <2>1, <2>2, <2>3 DEF n, sec
<1>6. CASE after # {}
  <2>1. end = First(after)
    BY <1>6 DEF section_end, n
  <2>2. after \subseteq Nat
    BY <1>1, <1>4
  <2>3. end \in after /\ \A j \in after : end <= j
    <3> HIDE DEF after, end
    <3> QED
      BY <1>6, <2>1, <2>2, FirstIs
  <2>4. end \in sec + 1 .. n /\ Seen(f.lines[end])
    BY <2>3
  <2> HIDE DEF end
  <2>5. ASSUME NEW i \in sec + 1 .. end - 1 PROVE ~Seen(f.lines[i])
    <3>1. i \in sec + 1 .. n /\ ~(end <= i)
      BY <1>1, <1>4, <2>4
    <3> QED
      BY <2>3, <3>1
  <2>6. end \in sec + 1 .. n + 1
    BY <1>1, <1>4, <2>4
  <2> QED
    BY <1>4, <2>4, <2>5, <2>6 DEF n, sec, end
<1> QED
  BY <1>5, <1>6

\* In a file without an indented header they find the lines of the table.
LEMMA SectionLines ==
    ASSUME NEW f, Plain(f), NEW t, t # NoText, find_section(f, t) # 0
    PROVE  LET sec == find_section(f, t)
               end == section_end(f, sec)
           IN  /\ sec \in 1 .. Len(f.lines) /\ f.lines[sec].kind = "table"
               /\ end \in sec + 1 .. Len(f.lines) + 1
               /\ end <= Len(f.lines) => f.lines[end].kind = "table"
               /\ \A i \in sec + 1 .. end - 1 : f.lines[i].kind # "table"
               /\ \A i \in sec .. end - 1 : TableAt(f, i) = t
               /\ \A i \in Lines(f) : TableAt(f, i) = t => i \in sec .. end - 1
<1> DEFINE n == Len(f.lines)
           sec == find_section(f, t)
           end == section_end(f, sec)
<1>1. IsFile(f) /\ toml_parse_file(f) /\ n \in Nat /\ Lines(f) = 1 .. n
  BY FileIs DEF Plain, Parses
<1>2. /\ sec \in 1 .. n /\ Seen(f.lines[sec]) /\ f.lines[sec].name = t
      /\ end \in sec + 1 .. n + 1
      /\ end <= n => Seen(f.lines[end])
      /\ \A i \in sec + 1 .. end - 1 : ~Seen(f.lines[i])
  BY <1>1, Section
<1> HIDE DEF n, sec, end
<1>3. \A i \in 1 .. n : Seen(f.lines[i]) <=> f.lines[i].kind = "table"
  BY <1>1 DEF Plain, Blind, Seen
<1>4. \A i \in sec + 1 .. end - 1 : f.lines[i].kind # "table"
  BY <1>1, <1>2, <1>3
<1>5. f.lines[sec].kind = "table" /\ (end <= n => f.lines[end].kind = "table")
  BY <1>1, <1>2, <1>3
<1>6. \A i \in sec .. end - 1 : TableAt(f, i) = t
  <2>1. end - 1 \in Nat /\ sec \in Nat \ {0}
    BY <1>1, <1>2
  <2> QED
    BY <1>2, <1>4, <1>5, <2>1, TableOf
<1>7. ASSUME NEW i \in 1 .. n, TableAt(f, i) = t PROVE i \in sec .. end - 1
  <2>1. i \in Nat \ {0}
    BY <1>1
  <2>2. PICK j \in 1 .. i : /\ f.lines[j].kind = "table" /\ f.lines[j].name = t
                            /\ \A k \in j + 1 .. i : f.lines[k].kind # "table"
    BY <1>7, <2>1, HeadOf
  <2>3. j \in 1 .. n
    BY <1>1
  <2>4. j = sec
    BY <1>1, <1>2, <1>5, <2>2, <2>3 DEF toml_parse_file
  <2>5. ~(end <= i)
    <3>1. SUFFICES ASSUME end <= i PROVE FALSE
      OBVIOUS
    <3>2. end \in j + 1 .. i /\ end <= n
      BY <1>1, <1>2, <2>4, <3>1
    <3> QED
      BY <1>5, <2>2, <3>2
  <2> QED
    BY <1>1, <1>2, <2>1, <2>2, <2>4, <2>5
<1> QED
  BY <1>1, <1>2, <1>4, <1>5, <1>6, <1>7 DEF n, sec, end

\* Without a section there is no such table.
LEMMA NoSection ==
    ASSUME NEW f, Plain(f), NEW t, t # NoText, find_section(f, t) = 0
    PROVE  /\ \A i \in Lines(f) : ~(f.lines[i].kind = "table" /\ f.lines[i].name = t)
           /\ \A i \in Lines(f) : TableAt(f, i) # t
<1> DEFINE n == Len(f.lines)
           at == {i \in Lines(f) : Seen(f.lines[i]) /\ f.lines[i].name = t}
<1>1. n \in Nat /\ Lines(f) = 1 .. n
  BY FileIs DEF Plain
<1>2. at = {}
  <2>1. SUFFICES ASSUME at # {} PROVE FALSE
    OBVIOUS
  <2>2. at \subseteq Nat /\ 0 \notin at
    BY <1>1
  <2>3. First(at) = 0
    BY DEF find_section
  <2> HIDE DEF at
  <2> QED
    BY <2>1, <2>2, <2>3, FirstIs
<1>3. \A i \in Lines(f) : ~(f.lines[i].kind = "table" /\ f.lines[i].name = t)
  BY <1>2 DEF Seen, Plain, Blind
<1>4. ASSUME NEW i \in Lines(f), TableAt(f, i) = t PROVE FALSE
  <2>1. i \in Nat \ {0} /\ 1 .. i \subseteq Lines(f)
    BY <1>1
  <2>2. PICK j \in 1 .. i : f.lines[j].kind = "table" /\ f.lines[j].name = t
    BY <1>4, <2>1, HeadOf
  <2> QED
    BY <1>3, <2>1, <2>2
<1> QED
  BY <1>3, <1>4

\* Line `at` has key k, or no line from sec to end does.
KeyAt(f, sec, end, k, at) ==
    /\ at # 0 => at \in sec .. end - 1 /\ f.lines[at].kind = "key" /\ f.lines[at].name = k
    /\ at = 0 => \A i \in sec .. end - 1 : ~(f.lines[i].kind = "key" /\ f.lines[i].name = k)

\* Where find_key_line stops.
LEMMA KeyLine ==
    ASSUME NEW f, NEW sec \in Nat \ {0}, NEW end \in Nat, NEW k
    PROVE  KeyAt(f, sec, end, k, find_key_line(f, sec, end, k))
<1> DEFINE S == {i \in sec .. end - 1 : f.lines[i].kind = "key" /\ f.lines[i].name = k}
           at == find_key_line(f, sec, end, k)
<1>1. at = First(S)
  BY DEF find_key_line
<1>2. S \subseteq Nat /\ 0 \notin S
  OBVIOUS
<1>3. CASE S = {}
  <2>1. at = 0
    BY <1>1, <1>3 DEF First
  <2>2. \A i \in sec .. end - 1 : ~(f.lines[i].kind = "key" /\ f.lines[i].name = k)
    BY <1>3
  <2> QED
    BY <2>1, <2>2 DEF KeyAt
<1>4. CASE S # {}
  <2>1. at \in S
    <3> HIDE DEF S, at
    <3> QED
      BY <1>1, <1>2, <1>4, FirstIs
  <2> QED
    BY <2>1, <1>2 DEF KeyAt
<1> QED
  BY <1>3, <1>4

\* File g is f with table t's key k set to v: nothing else is lost, changed or new.
Sets(f, g, t, k, v) ==
    \A t1, k1, v1 :
        Holds(g, t1, k1, v1) <=> IF t1 = t /\ k1 = k THEN v1 = v ELSE Holds(f, t1, k1, v1)

\* The lines of f are in g at h, but one at p, which is where the key now is.
Moved(f, g, h, p) ==
    /\ h \in [Lines(f) -> Lines(g)]
    /\ \A i, j \in Lines(f) : h[i] = h[j] => i = j
    /\ \A i \in Lines(f) :
          h[i] # p => g.lines[h[i]] = f.lines[i] /\ TableAt(g, h[i]) = TableAt(f, i)

\* What is new in g besides the key: an empty line, and at e the header of a table
\* that f does not have.
Added(f, g, h, p, e, t) ==
    \A j \in Lines(g) :
        \/ j = p
        \/ \E i \in Lines(f) : h[i] = j
        \/ g.lines[j].kind = "blank"
        \/ /\ j = e /\ g.lines[j] = Header(t, FALSE)
           /\ \A i \in Lines(f) : ~(f.lines[i].kind = "table" /\ f.lines[i].name = t)

\* Whatever is moved and added so, the new file is read by the scan as the parser reads
\* it, and differs by one key.
LEMMA Patched ==
    ASSUME NEW f, Plain(f), NEW g, IsFile(g), NEW t, NEW k, NEW v, NEW h, NEW e,
           NEW p \in Lines(g), g.lines[p] = Key(k, v), TableAt(g, p) = t,
           Moved(f, g, h, p), Added(f, g, h, p, e, t),
           \A i \in Lines(f) :
              /\ h[i] = p => \/ f.lines[i].kind = "blank"
                             \/ f.lines[i].kind = "key" /\ TableAt(f, i) = t /\ f.lines[i].name = k
              /\ f.lines[i].kind = "key" /\ TableAt(f, i) = t /\ f.lines[i].name = k => h[i] = p,
           g.nl \/ (~f.nl /\ Last(g.lines) = Last(f.lines))
    PROVE  Plain(g) /\ Sets(f, g, t, k, v)
<1>1. /\ g.lines[p].kind = "key" /\ g.lines[p].name = k /\ g.lines[p].v = v
      /\ Header(t, FALSE).kind = "table" /\ Header(t, FALSE).name = t /\ ~Header(t, FALSE).in
  BY DEF Key, Header
<1>2. ASSUME NEW j \in Lines(g), j # p, g.lines[j].kind \in {"key", "broken"}
      PROVE  \E i \in Lines(f) : /\ h[i] = j /\ g.lines[j] = f.lines[i]
                                 /\ TableAt(g, j) = TableAt(f, i)
  <2>1. ~(g.lines[j].kind = "blank") /\ ~(g.lines[j].kind = "table")
    BY <1>2
  <2>2. g.lines[j] # Header(t, FALSE)
    BY <1>1, <2>1
  <2>3. PICK i \in Lines(f) : h[i] = j
    BY <1>2, <2>1, <2>2 DEF Added
  <2> QED
    BY <1>2, <2>3 DEF Moved
<1>3. ASSUME NEW j \in Lines(g), g.lines[j].kind = "table"
      PROVE  \/ \E i \in Lines(f) : h[i] = j /\ g.lines[j] = f.lines[i]
             \/ /\ j = e /\ g.lines[j].name = t /\ ~g.lines[j].in
                /\ \A i \in Lines(f) : ~(f.lines[i].kind = "table" /\ f.lines[i].name = t)
  <2>1. j # p /\ ~(g.lines[j].kind = "blank")
    BY <1>1, <1>3
  <2>2. CASE \E i \in Lines(f) : h[i] = j
    BY <2>1, <2>2 DEF Moved
  <2>3. CASE ~\E i \in Lines(f) : h[i] = j
    <3>1. /\ j = e /\ g.lines[j] = Header(t, FALSE)
          /\ \A i \in Lines(f) : ~(f.lines[i].kind = "table" /\ f.lines[i].name = t)
      BY <2>1, <2>3 DEF Added
    <3> QED
      BY <1>1, <3>1
  <2> QED
    BY <2>2, <2>3
<1>4. toml_parse_file(f) /\ \A i \in Lines(f) : f.lines[i].kind = "table" => ~f.lines[i].in
  BY DEF Plain, Parses, Blind
<1>5. \A j \in Lines(g) : g.lines[j].kind # "broken"
  <2>1. SUFFICES ASSUME NEW j \in Lines(g), g.lines[j].kind = "broken" PROVE FALSE
    OBVIOUS
  <2>2. j # p
    BY <1>1, <2>1
  <2>3. PICK i \in Lines(f) : g.lines[j] = f.lines[i]
    BY <1>2, <2>1, <2>2
  <2> QED
    BY <1>4, <2>1, <2>3 DEF toml_parse_file
<1>6. ASSUME NEW i \in Lines(g), NEW j \in Lines(g),
             g.lines[i].kind = "table", g.lines[j].kind = "table", g.lines[i].name = g.lines[j].name
      PROVE  i = j
  <2>1. CASE \E a \in Lines(f) : h[a] = i /\ g.lines[i] = f.lines[a]
    <3>1. PICK a \in Lines(f) : h[a] = i /\ g.lines[i] = f.lines[a]
      BY <2>1
    <3>2. PICK b \in Lines(f) : h[b] = j /\ g.lines[j] = f.lines[b]
      BY <1>3, <1>6, <3>1
    <3>3. a = b
      BY <1>4, <1>6, <3>1, <3>2 DEF toml_parse_file
    <3> QED
      BY <3>1, <3>2, <3>3
  <2>2. CASE ~\E a \in Lines(f) : h[a] = i /\ g.lines[i] = f.lines[a]
    <3>1. /\ i = e /\ g.lines[i].name = t
          /\ \A a \in Lines(f) : ~(f.lines[a].kind = "table" /\ f.lines[a].name = t)
      BY <1>3, <1>6, <2>2
    <3>2. ~\E b \in Lines(f) : h[b] = j /\ g.lines[j] = f.lines[b]
      BY <1>6, <3>1
    <3>3. j = e
      BY <1>3, <1>6, <3>2
    <3> QED
      BY <3>1, <3>3
  <2> QED
    BY <2>1, <2>2
<1>7. ASSUME NEW j \in Lines(g), j # p, g.lines[j].kind = "key"
      PROVE  \E i \in Lines(f) : /\ h[i] = j /\ g.lines[j] = f.lines[i] /\ f.lines[i].kind = "key"
                                 /\ TableAt(g, j) = TableAt(f, i)
                                 /\ ~(TableAt(f, i) = t /\ f.lines[i].name = k)
  <2>1. PICK i \in Lines(f) : /\ h[i] = j /\ g.lines[j] = f.lines[i]
                              /\ TableAt(g, j) = TableAt(f, i)
    BY <1>2, <1>7
  <2>2. f.lines[i].kind = "key" /\ h[i] # p
    BY <1>7, <2>1
  <2> QED
    BY <2>1, <2>2
<1>8. ASSUME NEW i \in Lines(g), NEW j \in Lines(g),
             g.lines[i].kind = "key", g.lines[j].kind = "key",
             g.lines[i].name = g.lines[j].name, TableAt(g, i) = TableAt(g, j)
      PROVE  i = j
  <2>1. CASE i = p
    <3>1. SUFFICES ASSUME j # p PROVE FALSE
      BY <2>1
    <3> QED
      BY <1>1, <1>7, <1>8, <2>1, <3>1
  <2>2. CASE j = p
    <3>1. SUFFICES ASSUME i # p PROVE FALSE
      BY <2>2
    <3> QED
      BY <1>1, <1>7, <1>8, <2>2, <3>1
  <2>3. CASE i # p /\ j # p
    <3>1. PICK a \in Lines(f) : /\ h[a] = i /\ g.lines[i] = f.lines[a] /\ f.lines[a].kind = "key"
                                /\ TableAt(g, i) = TableAt(f, a)
      BY <1>7, <1>8, <2>3
    <3>2. PICK b \in Lines(f) : /\ h[b] = j /\ g.lines[j] = f.lines[b] /\ f.lines[b].kind = "key"
                                /\ TableAt(g, j) = TableAt(f, b)
      BY <1>7, <1>8, <2>3
    <3>3. a = b
      BY <1>4, <1>8, <3>1, <3>2 DEF toml_parse_file
    <3> QED
      BY <3>1, <3>2, <3>3
  <2> QED
    BY <2>1, <2>2, <2>3
<1>9. toml_parse_file(g)
  BY <1>5, <1>6, <1>8 DEF toml_parse_file
<1>10. ~Blind(g)
  <2>1. \A j \in Lines(g) : ~(g.lines[j].kind = "table" /\ g.lines[j].in)
    BY <1>3, <1>4
  <2>2. ~(~g.nl /\ Last(g.lines).note)
    BY DEF Plain, Blind
  <2> QED
    BY <2>1, <2>2 DEF Blind
<1>11. Plain(g)
  BY <1>9, <1>10 DEF Plain, Parses
<1>12. ASSUME NEW t1, NEW k1, NEW v1, t1 = t /\ k1 = k
       PROVE  Holds(g, t1, k1, v1) <=> v1 = v
  <2>1. ASSUME v1 = v PROVE Holds(g, t1, k1, v1)
    BY <1>1, <1>12, <2>1 DEF Holds
  <2>2. ASSUME Holds(g, t1, k1, v1) PROVE v1 = v
    <3>1. PICK j \in Lines(g) : /\ g.lines[j].kind = "key" /\ TableAt(g, j) = t1
                                /\ g.lines[j].name = k1 /\ g.lines[j].v = v1
      BY <2>2 DEF Holds
    <3>2. j = p
      BY <1>1, <1>8, <1>12, <3>1
    <3> QED
      BY <1>1, <3>1, <3>2
  <2> QED
    BY <2>1, <2>2
<1>13. ASSUME NEW t1, NEW k1, NEW v1, ~(t1 = t /\ k1 = k), Holds(g, t1, k1, v1)
       PROVE  Holds(f, t1, k1, v1)
  <2>1. PICK j \in Lines(g) : /\ g.lines[j].kind = "key" /\ TableAt(g, j) = t1
                              /\ g.lines[j].name = k1 /\ g.lines[j].v = v1
    BY <1>13 DEF Holds
  <2>2. j # p
    BY <1>1, <1>13, <2>1
  <2>3. PICK i \in Lines(f) : /\ g.lines[j] = f.lines[i] /\ f.lines[i].kind = "key"
                              /\ TableAt(g, j) = TableAt(f, i)
    BY <1>7, <2>1, <2>2
  <2> QED
    BY <2>1, <2>3 DEF Holds
<1>14. ASSUME NEW t1, NEW k1, NEW v1, ~(t1 = t /\ k1 = k), Holds(f, t1, k1, v1)
       PROVE  Holds(g, t1, k1, v1)
  <2>1. PICK i \in Lines(f) : /\ f.lines[i].kind = "key" /\ TableAt(f, i) = t1
                              /\ f.lines[i].name = k1 /\ f.lines[i].v = v1
    BY <1>14 DEF Holds
  <2>2. h[i] # p
    BY <1>14, <2>1
  <2>3. h[i] \in Lines(g) /\ g.lines[h[i]] = f.lines[i] /\ TableAt(g, h[i]) = TableAt(f, i)
    BY <2>2 DEF Moved
  <2> QED
    BY <2>1, <2>3 DEF Holds
<1> QED
  BY <1>11, <1>12, <1>13, <1>14 DEF Sets

\* Sequence c is a and then b.
Joins(R, a, b, c) ==
    /\ c \in Seq(R) /\ Len(c) = Len(a) + Len(b)
    /\ \A i \in 1 .. Len(a) : c[i] = a[i]
    /\ \A i \in 1 .. Len(b) : c[Len(a) + i] = b[i]

\* What concatenation gives.
LEMMA Joined ==
    ASSUME NEW R, NEW a \in Seq(R), NEW b \in Seq(R)
    PROVE  Joins(R, a, b, a \o b)
<1>1. Len(a) \in Nat /\ Len(b) \in Nat
  OBVIOUS
<1>2. a \o b \in Seq(R) /\ Len(a \o b) = Len(a) + Len(b)
  OBVIOUS
<1>3. \A i \in 1 .. Len(a) : (a \o b)[i] = a[i]
  BY <1>1
<1>4. ASSUME NEW i \in 1 .. Len(b) PROVE (a \o b)[Len(a) + i] = b[i]
  <2>1. Len(a) + i \in 1 .. Len(a) + Len(b) /\ ~(Len(a) + i <= Len(a)) /\ Len(a) + i - Len(a) = i
    BY <1>1
  <2> QED
    BY <1>1, <2>1
<1> QED
  BY <1>2, <1>3, <1>4 DEF Joins

\* Where the new header goes: behind an empty line, or behind the last one.
HeaderAt(f) == IF f.nl THEN Len(f.lines) + 2 ELSE Len(f.lines) + 1

\* File g is f and a new section with one line.
WithSection(f, g, t, line) ==
    /\ IsFile(g) /\ Len(g.lines) = HeaderAt(f) + 1 /\ g.nl
    /\ \A i \in 1 .. Len(f.lines) : g.lines[i] = f.lines[i]
    /\ f.nl => g.lines[Len(f.lines) + 1] = Blank
    /\ g.lines[HeaderAt(f)] = Header(t, FALSE) /\ g.lines[HeaderAt(f) + 1] = line

\* What append_section_key leaves.
LEMMA AppendsSection ==
    ASSUME NEW f, IsFile(f), NEW t, NEW line
    PROVE  WithSection(f, append_section_key(f, t, line), t, line)
<1>1. PICK S : f \in [lines : Seq(S), nl : BOOLEAN]
  BY DEF IsFile
<1> DEFINE n == Len(f.lines)
           q == IF f.nl THEN n + 1 ELSE n
           g == append_section_key(f, t, line)
           head == Header(t, FALSE)
           R == S \cup {Blank, head, line}
           a == IF f.nl THEN <<Blank>> ELSE <<>>
           b == <<head, line>>
           c == f.lines \o a
<1> HIDE DEF head
<1>2. f.lines \in Seq(R) /\ n \in Nat
  <2>1. S \subseteq R
    OBVIOUS
  <2> HIDE DEF R
  <2> QED
    BY <1>1, <2>1
<1>3. Blank \in R /\ head \in R /\ line \in R
  OBVIOUS
<1> HIDE DEF R, n
<1>4. a \in Seq(R) /\ Len(a) = (IF f.nl THEN 1 ELSE 0) /\ (f.nl => a[1] = Blank)
  <2>1. CASE f.nl
    BY <1>3, <2>1
  <2>2. CASE ~f.nl
    BY <1>3, <2>2
  <2> QED
    BY <2>1, <2>2
<1>5. b \in Seq(R) /\ Len(b) = 2 /\ b[1] = head /\ b[2] = line
  BY <1>3
<1>6. g = [lines |-> c \o b, nl |-> TRUE]
  BY DEF append_section_key, head
<1> HIDE DEF a, b
<1>7. /\ c \in Seq(R) /\ Len(c) = q /\ \A i \in 1 .. n : c[i] = f.lines[i]
      /\ f.nl => c[n + 1] = Blank
  <2>1. /\ c \in Seq(R) /\ Len(c) = n + Len(a) /\ \A i \in 1 .. n : c[i] = f.lines[i]
        /\ \A i \in 1 .. Len(a) : c[n + i] = a[i]
    <3>1. Joins(R, f.lines, a, c)
      BY <1>2, <1>4, Joined
    <3> HIDE DEF c
    <3> QED
      BY <3>1 DEF Joins, n
  <2> HIDE DEF c
  <2>2. f.nl => c[n + 1] = a[1]
    BY <1>4, <2>1
  <2> QED
    BY <1>2, <1>4, <2>1, <2>2
<1> HIDE DEF c
<1>8. q \in Nat /\ n <= q /\ (f.nl => q = n + 1)
  BY <1>2
<1> HIDE DEF q
<1> DEFINE d == c \o b
<1>9. /\ d \in Seq(R) /\ Len(d) = q + 2 /\ \A i \in 1 .. q : d[i] = c[i]
      /\ \A i \in 1 .. 2 : d[q + i] = b[i]
  <2>1. Joins(R, c, b, d)
    BY <1>5, <1>7, Joined
  <2> HIDE DEF d
  <2> QED
    BY <1>5, <1>7, <2>1 DEF Joins
<1> HIDE DEF d
<1>10. g.lines = d /\ g.nl /\ g = [lines |-> d, nl |-> TRUE]
  BY <1>6 DEF d
<1>11. IsFile(g)
  <2>1. g \in [lines : Seq(R), nl : BOOLEAN]
    BY <1>9, <1>10 DEF d
  <2> QED
    BY <2>1 DEF IsFile
<1>12. Len(g.lines) = q + 2 /\ g.lines[q + 1] = head /\ g.lines[q + 2] = line
  <2>1. 1 \in 1 .. 2 /\ 2 \in 1 .. 2
    OBVIOUS
  <2>2. d[q + 1] = b[1] /\ d[q + 2] = b[2] /\ Len(d) = q + 2
    BY <1>9, <2>1, Zenon DEF d
  <2> QED
    BY <1>5, <1>10, <2>2
<1>13. \A i \in 1 .. n : g.lines[i] = f.lines[i]
  BY <1>2, <1>7, <1>8, <1>9, <1>10 DEF d
<1>14. f.nl => g.lines[n + 1] = Blank
  BY <1>2, <1>7, <1>8, <1>9, <1>10 DEF d
<1>15. HeaderAt(f) = q + 1 /\ HeaderAt(f) + 1 = q + 2
  BY <1>2 DEF HeaderAt, q, n
<1> QED
  BY <1>10, <1>11, <1>12, <1>13, <1>14, <1>15 DEF n, head, WithSection

\* File g is f with a line more, before line `at` or behind the last one.
WithLine(f, g, at, line) ==
    /\ IsFile(g) /\ Len(g.lines) = Len(f.lines) + 1 /\ g.nl = f.nl
    /\ \A i \in 1 .. at - 1 : g.lines[i] = f.lines[i]
    /\ g.lines[at] = line
    /\ \A i \in at .. Len(f.lines) : g.lines[i + 1] = f.lines[i]

\* What splice_text leaves when it inserts before a line.
LEMMA Inserts ==
    ASSUME NEW f, IsFile(f), NEW line, NEW at \in 1 .. Len(f.lines)
    PROVE  WithLine(f, splice_text(f, at, 0, line), at, line)
<1>1. PICK S : f \in [lines : Seq(S), nl : BOOLEAN]
  BY DEF IsFile
<1> DEFINE g == splice_text(f, at, 0, line)
           R == S \cup {line}
           n == Len(f.lines)
           a == SubSeq(f.lines, 1, at - 1)
           b == SubSeq(f.lines, at, n)
<1>2. f.lines \in Seq(R) /\ line \in R /\ n \in Nat
  <2>1. S \subseteq R
    OBVIOUS
  <2> QED
    BY <1>1, <2>1
<1> HIDE DEF R
<1>3. g = [f EXCEPT !.lines = InsertAt(f.lines, at, line)]
  BY DEF splice_text
<1>4. g.lines = (a \o <<line>>) \o b /\ g.nl = f.nl /\ g = [lines |-> g.lines, nl |-> g.nl]
  BY <1>1, <1>3 DEF InsertAt
<1>5. /\ a \in Seq(R) /\ Len(a) = at - 1 /\ \A i \in 1 .. at - 1 : a[i] = f.lines[i]
      /\ b \in Seq(R) /\ Len(b) = n - at + 1 /\ \A i \in 1 .. n - at + 1 : b[i] = f.lines[at + i - 1]
  BY <1>2
<1> HIDE DEF a, b, g, n
<1>6. a \o <<line>> \in Seq(R) /\ Len(a \o <<line>>) = at
      /\ (a \o <<line>>)[at] = line /\ \A i \in 1 .. at - 1 : (a \o <<line>>)[i] = a[i]
  BY <1>2, <1>5, SMTT(30)
<1> DEFINE c == a \o <<line>>
<1> HIDE DEF c
<1>7. c \in Seq(R) /\ Len(c) = at /\ c[at] = line /\ \A i \in 1 .. at - 1 : c[i] = f.lines[i]
  BY <1>5, <1>6 DEF c
<1>8. g.lines = c \o b
  BY <1>4 DEF c
<1>9. g.lines \in Seq(R) /\ Len(g.lines) = n + 1
  <2>1. Joins(R, c, b, g.lines)
    BY <1>5, <1>7, <1>8, Joined
  <2> QED
    BY <1>2, <1>5, <1>7, <2>1 DEF Joins
<1>10. \A i \in 1 .. at : g.lines[i] = c[i]
  BY <1>2, <1>5, <1>7, <1>8
<1>11. ASSUME NEW i \in at .. n PROVE g.lines[i + 1] = f.lines[i]
  <2>1. i + 1 - at \in 1 .. n - at + 1 /\ at + (i + 1 - at) - 1 = i /\ i + 1 \in at + 1 .. n + 1
    BY <1>2
  <2>2. g.lines[i + 1] = b[i + 1 - at]
    BY <1>2, <1>5, <1>7, <1>8, <2>1
  <2> QED
    BY <1>5, <2>1, <2>2
<1>12. IsFile(g)
  <2>1. g.nl \in BOOLEAN
    BY <1>1, <1>4
  <2>2. g \in [lines : Seq(R), nl : BOOLEAN]
    BY <1>4, <1>9, <2>1
  <2> QED
    BY <2>2 DEF IsFile
<1> QED
  BY <1>4, <1>7, <1>9, <1>10, <1>11, <1>12 DEF g, n, WithLine

\* What splice_text leaves when it inserts behind the last line.
LEMMA Appends ==
    ASSUME NEW f, IsFile(f), NEW line, f.nl
    PROVE  WithLine(f, splice_text(f, Len(f.lines) + 1, 0, line), Len(f.lines) + 1, line)
<1>1. PICK S : f \in [lines : Seq(S), nl : BOOLEAN]
  BY DEF IsFile
<1> DEFINE n == Len(f.lines)
           g == splice_text(f, n + 1, 0, line)
           R == S \cup {line}
<1>2. f.lines \in Seq(R) /\ line \in R /\ n \in Nat
  <2>1. S \subseteq R
    OBVIOUS
  <2> QED
    BY <1>1, <2>1
<1>3. g = [lines |-> Append(f.lines, line), nl |-> TRUE]
  BY <1>2 DEF splice_text
<1> HIDE DEF R, g, n
<1>4. g.lines \in Seq(R) /\ g \in [lines : Seq(R), nl : BOOLEAN]
  BY <1>2, <1>3
<1>5. IsFile(g)
  BY <1>4 DEF IsFile
<1>6. g.nl = f.nl
  BY <1>1, <1>3
<1>7. Len(g.lines) = n + 1 /\ g.lines[n + 1] = line /\ \A i \in 1 .. n : g.lines[i] = f.lines[i]
  BY <1>2, <1>3 DEF n
<1>8. \A i \in 1 .. n + 1 - 1 : g.lines[i] = f.lines[i]
  BY <1>2, <1>7
<1>9. \A i \in n + 1 .. n : g.lines[i + 1] = f.lines[i]
  BY <1>2
<1>10. WithLine(f, g, n + 1, line)
  BY <1>5, <1>6, <1>7, <1>8, <1>9 DEF n, WithLine
<1> QED
  BY <1>10 DEF g, n

\* File g is f with another line at `at`.
Instead(f, g, at, line, nl) ==
    /\ IsFile(g) /\ Len(g.lines) = Len(f.lines) /\ g.nl = nl
    /\ \A i \in 1 .. Len(f.lines) : i # at => g.lines[i] = f.lines[i]
    /\ g.lines[at] = line

\* What a changed line leaves.
LEMMA Replaces ==
    ASSUME NEW f, IsFile(f), NEW line, NEW at \in 1 .. Len(f.lines), NEW nl \in BOOLEAN
    PROVE  Instead(f, [lines |-> [f.lines EXCEPT ![at] = line], nl |-> nl], at, line, nl)
<1>1. PICK S : f \in [lines : Seq(S), nl : BOOLEAN]
  BY DEF IsFile
<1> DEFINE n == Len(f.lines)
           s == [f.lines EXCEPT ![at] = line]
           g == [lines |-> s, nl |-> nl]
           R == S \cup {line}
<1>2. f.lines \in Seq(R) /\ line \in R /\ n \in Nat
  <2>1. S \subseteq R
    OBVIOUS
  <2> QED
    BY <1>1, <2>1
<1> HIDE DEF R
<1>3. s \in Seq(R) /\ Len(s) = n /\ s[at] = line /\ \A i \in 1 .. n : i # at => s[i] = f.lines[i]
  BY <1>2
<1> HIDE DEF s, n
<1>4. g \in [lines : Seq(R), nl : BOOLEAN]
  BY <1>3
<1>5. IsFile(g)
  BY <1>4 DEF IsFile
<1> QED
  BY <1>3, <1>5 DEF s, n, Instead

\* The places a patch can be at.
LEMMA Places ==
    ASSUME NEW f, IsFile(f), NEW t, NEW k, NEW v
    PROVE  LET n == Len(f.lines)
               sec == find_section(f, t)
               end == section_end(f, sec)
               at == find_key_line(f, sec, end, k)
               g == patch_key_line(f, t, Key(k, v))
           IN  \/ sec = 0 /\ g = append_section_key(f, t, Key(k, v))
               \/ sec # 0 /\ at = 0 /\ end \in 1 .. n /\ g = splice_text(f, end, 0, Key(k, v))
               \/ sec # 0 /\ at = 0 /\ end = n + 1 /\ f.nl /\ g = splice_text(f, n + 1, 0, Key(k, v))
               \/ /\ sec # 0 /\ at = 0 /\ end = n + 1 /\ ~f.nl /\ n \in 1 .. n
                  /\ g = [lines |-> [f.lines EXCEPT ![n] = Glued(f.lines[n], Key(k, v))], nl |-> TRUE]
               \/ /\ sec # 0 /\ at \in 1 .. n /\ f.lines[at].kind = "key"
                  /\ g = [lines |-> [f.lines EXCEPT ![at] = Key(k, v)], nl |-> f.nl \/ at = n]
<1> DEFINE n == Len(f.lines)
           sec == find_section(f, t)
           end == section_end(f, sec)
           at == find_key_line(f, sec, end, k)
           line == Key(k, v)
           g == patch_key_line(f, t, line)
<1>1. n \in Nat /\ line.name = k
  BY FileIs DEF Key
<1> HIDE DEF line
<1>2. g = IF sec = 0 THEN append_section_key(f, t, line)
          ELSE IF at = 0 THEN splice_text(f, end, 0, line)
          ELSE splice_text(f, at, 1, line)
  BY <1>1 DEF patch_key_line
<1>3. sec # 0 => sec \in 1 .. n /\ end \in sec + 1 .. n + 1
  BY Section
<1>4. sec # 0 /\ at # 0 => at \in sec .. end - 1 /\ f.lines[at].kind = "key"
  <2>1. SUFFICES ASSUME sec # 0 PROVE at # 0 => at \in sec .. end - 1 /\ f.lines[at].kind = "key"
    OBVIOUS
  <2>2. sec \in Nat \ {0} /\ end \in Nat
    BY <1>1, <1>3, <2>1
  <2> HIDE DEF sec, end
  <2>3. KeyAt(f, sec, end, k, at)
    BY <2>2, KeyLine
  <2> HIDE DEF at
  <2> QED
    BY <2>3 DEF KeyAt
<1> HIDE DEF n, sec, end, at, g
<1>5. CASE sec = 0
  BY <1>2, <1>5 DEF n, sec, end, at, g, line
<1>6. CASE sec # 0 /\ at = 0 /\ end \in 1 .. n
  BY <1>2, <1>6 DEF n, sec, end, at, g, line
<1>7. CASE sec # 0 /\ at = 0 /\ end \notin 1 .. n
  <2>1. end = n + 1 /\ n \in 1 .. n /\ ~(n + 1 <= n) /\ n # 0
    BY <1>1, <1>3, <1>7
  <2>2. g = splice_text(f, n + 1, 0, line)
    BY <1>2, <1>7, <2>1
  <2>3. CASE f.nl
    BY <1>7, <2>1, <2>2, <2>3 DEF n, sec, end, at, g, line
  <2>4. CASE ~f.nl
    <3>1. g = [lines |-> [f.lines EXCEPT ![n] = Glued(f.lines[n], line)], nl |-> TRUE]
      BY <2>1, <2>2, <2>4 DEF splice_text, n
    <3> QED
      BY <1>7, <2>1, <2>4, <3>1 DEF n, sec, end, at, g, line
  <2> QED
    BY <2>3, <2>4
<1>8. CASE sec # 0 /\ at # 0
  <2>1. at \in 1 .. n /\ f.lines[at].kind = "key"
    BY <1>1, <1>3, <1>4, <1>8
  <2>2. g = [lines |-> [f.lines EXCEPT ![at] = line], nl |-> f.nl \/ at = n]
    BY <1>2, <1>8 DEF splice_text, n
  <2> QED
    BY <1>8, <2>1, <2>2 DEF n, sec, end, at, g, line
<1> QED
  BY <1>5, <1>6, <1>7, <1>8

\* A patch leaves a sequence of lines, and a broken line is never mended.
LEMMA BrokenStays ==
    ASSUME NEW f, IsFile(f), NEW t, NEW k, NEW v
    PROVE  LET g == patch_key_line(f, t, Key(k, v))
           IN  IsFile(g) /\ (Broke(f) => Broke(g))
<1> DEFINE n == Len(f.lines)
           sec == find_section(f, t)
           end == section_end(f, sec)
           at == find_key_line(f, sec, end, k)
           line == Key(k, v)
           g == patch_key_line(f, t, line)
<1>1. n \in Nat /\ Lines(f) = 1 .. n /\ f.nl \in BOOLEAN
  BY FileIs
<1>2. \/ sec = 0 /\ g = append_section_key(f, t, line)
      \/ sec # 0 /\ at = 0 /\ end \in 1 .. n /\ g = splice_text(f, end, 0, line)
      \/ sec # 0 /\ at = 0 /\ end = n + 1 /\ f.nl /\ g = splice_text(f, n + 1, 0, line)
      \/ /\ sec # 0 /\ at = 0 /\ end = n + 1 /\ ~f.nl /\ n \in 1 .. n
         /\ g = [lines |-> [f.lines EXCEPT ![n] = Glued(f.lines[n], line)], nl |-> TRUE]
      \/ /\ sec # 0 /\ at \in 1 .. n /\ f.lines[at].kind = "key"
         /\ g = [lines |-> [f.lines EXCEPT ![at] = line], nl |-> f.nl \/ at = n]
  BY Places
<1> HIDE DEF n, sec, end, at, line, g
<1>3. SUFFICES IsFile(g) /\ (Broke(f) => Broke(g))
  BY DEF g, line
<1>4. ASSUME IsFile(g), \A i \in 1 .. n : f.lines[i].kind = "broken" =>
                           \E j \in 1 .. Len(g.lines) : g.lines[j].kind = "broken"
      PROVE  Broke(f) => Broke(g)
  BY <1>1, <1>4, FileIs DEF Broke
<1>5. CASE sec = 0 /\ g = append_section_key(f, t, line)
  <2>1. WithSection(f, g, t, line)
    BY <1>5, AppendsSection
  <2>2. 1 .. n \subseteq 1 .. HeaderAt(f) + 1
    BY <1>1 DEF HeaderAt, n
  <2> QED
    BY <1>4, <2>1, <2>2 DEF WithSection, n
<1>6. CASE end \in 1 .. n /\ g = splice_text(f, end, 0, line)
  <2>1. /\ IsFile(g) /\ Len(g.lines) = n + 1 /\ \A i \in 1 .. end - 1 : g.lines[i] = f.lines[i]
        /\ \A i \in end .. n : g.lines[i + 1] = f.lines[i]
    BY <1>6, Inserts DEF n, WithLine
  <2>2. ASSUME NEW i \in 1 .. n PROVE \E j \in 1 .. n + 1 : g.lines[j] = f.lines[i]
    <3>1. CASE i < end
      <4>1. i \in 1 .. end - 1 /\ i \in 1 .. n + 1
        BY <1>1, <1>6, <3>1
      <4> QED
        BY <2>1, <4>1
    <3>2. CASE ~(i < end)
      <4>1. i \in end .. n /\ i + 1 \in 1 .. n + 1
        BY <1>1, <1>6, <3>2
      <4> QED
        BY <2>1, <4>1
    <3> QED
      BY <3>1, <3>2
  <2> QED
    BY <1>4, <2>1, <2>2
<1>7. CASE f.nl /\ g = splice_text(f, n + 1, 0, line)
  <2>1. WithLine(f, g, n + 1, line)
    BY <1>7, Appends DEF n
  <2>2. 1 .. n \subseteq 1 .. n + 1 /\ n + 1 - 1 = n
    BY <1>1
  <2> QED
    BY <1>4, <2>1, <2>2 DEF WithLine, n
<1>8. CASE n \in 1 .. n /\ g = [lines |-> [f.lines EXCEPT ![n] = Glued(f.lines[n], line)], nl |-> TRUE]
  <2>1. /\ IsFile(g) /\ Len(g.lines) = n /\ g.lines[n] = Glued(f.lines[n], line)
        /\ \A i \in 1 .. n : i # n => g.lines[i] = f.lines[i]
    <3>1. Instead(f, g, n, Glued(f.lines[n], line), TRUE)
      BY <1>8, Replaces DEF n
    <3> QED
      BY <3>1 DEF Instead, n
  <2>2. f.lines[n].kind = "broken" => g.lines[n].kind = "broken"
    BY <2>1 DEF Glued, Broken
  <2> QED
    BY <1>4, <1>8, <2>1, <2>2
<1>9. CASE /\ at \in 1 .. n /\ f.lines[at].kind = "key"
           /\ g = [lines |-> [f.lines EXCEPT ![at] = line], nl |-> f.nl \/ at = n]
  <2>1. (f.nl \/ at = n) \in BOOLEAN
    OBVIOUS
  <2>2. IsFile(g) /\ Len(g.lines) = n /\ \A i \in 1 .. n : i # at => g.lines[i] = f.lines[i]
    <3>1. Instead(f, g, at, line, f.nl \/ at = n)
      BY <1>9, <2>1, Replaces DEF n
    <3> QED
      BY <3>1 DEF Instead, n
  <2> QED
    BY <1>4, <1>9, <2>2
<1> QED
  BY <1>2, <1>5, <1>6, <1>7, <1>8, <1>9

\* Lines that stay where they are, with their headers, stay in their tables.
LEMMA TablesStay ==
    ASSUME NEW f, NEW g, NEW n \in Nat,
           \A i \in 1 .. n : /\ f.lines[i].kind = "table" => g.lines[i] = f.lines[i]
                             /\ f.lines[i].kind # "table" => g.lines[i].kind # "table"
    PROVE  \A i \in 1 .. n : TableAt(g, i) = TableAt(f, i)
<1> DEFINE h == [i \in 1 .. n |-> i]
<1>1. h \in [1 .. n -> Nat \ {0}] /\ \A i \in 1 .. n : h[i] = i
  OBVIOUS
<1> HIDE DEF h
<1>2. Follows(f, g, n, h)
  <2>1. ASSUME NEW i \in 1 .. n, i # 1 PROVE h[i - 1] = i - 1 /\ h[i] = i - 1 + 1
    <3>1. i - 1 \in 1 .. n
      BY <2>1
    <3> QED
      BY <1>1, <3>1
  <2> QED
    BY <1>1, <2>1 DEF Follows
<1>3. \A i \in 1 .. n : TableAt(g, h[i]) = TableAt(f, i)
  BY <1>1, <1>2, TablesKept
<1> QED
  BY <1>1, <1>3

\* The key in the place of its old value, or of an empty last line of its table.
LEMMA InPlace ==
    ASSUME NEW f, Plain(f), NEW g, NEW t, NEW k, NEW v, NEW nl, NEW p \in Lines(f),
           Instead(f, g, p, Key(k, v), nl), nl \/ (~f.nl /\ p # Len(f.lines)),
           TableAt(f, p) = t,
           f.lines[p].kind = "blank" \/ (f.lines[p].kind = "key" /\ f.lines[p].name = k),
           \A i \in Lines(f) : f.lines[i].kind = "key" /\ TableAt(f, i) = t /\ f.lines[i].name = k
                                 => i = p
    PROVE  Plain(g) /\ Sets(f, g, t, k, v)
<1> DEFINE n == Len(f.lines)
           h == [i \in 1 .. n |-> i]
<1>1. n \in Nat /\ Lines(f) = 1 .. n /\ Lines(f) # {}
  BY FileIs DEF Plain, Parses
<1>2. /\ IsFile(g) /\ Len(g.lines) = n /\ g.nl = nl /\ g.lines[p] = Key(k, v)
      /\ \A i \in 1 .. n : i # p => g.lines[i] = f.lines[i]
  BY DEF Instead
<1>3. Lines(g) = 1 .. n /\ g.lines[p].kind = "key"
  BY <1>2, FileIs DEF Key
<1> HIDE DEF n
<1>4. \A i \in 1 .. n : TableAt(g, i) = TableAt(f, i)
  <2>1. ASSUME NEW i \in 1 .. n
        PROVE  /\ f.lines[i].kind = "table" => g.lines[i] = f.lines[i]
               /\ f.lines[i].kind # "table" => g.lines[i].kind # "table"
    <3>1. CASE i = p
      BY <1>3, <3>1
    <3>2. CASE i # p
      BY <1>2, <3>2
    <3> QED
      BY <3>1, <3>2
  <2> QED
    BY <1>1, <2>1, TablesStay
<1>5. h \in [1 .. n -> 1 .. n] /\ \A i \in 1 .. n : h[i] = i
  OBVIOUS
<1> HIDE DEF h
<1>6. Moved(f, g, h, p)
  BY <1>1, <1>2, <1>3, <1>4, <1>5 DEF Moved
<1>7. Added(f, g, h, p, 0, t)
  BY <1>1, <1>3, <1>5 DEF Added
<1>8. g.nl \/ (~f.nl /\ Last(g.lines) = Last(f.lines))
  <2>1. n \in 1 .. n
    BY <1>1
  <2> QED
    BY <1>2, <2>1 DEF Last, n
<1>9. p \in Lines(g) /\ TableAt(g, p) = t
  BY <1>1, <1>3, <1>4
<1>10. \A i \in Lines(f) :
          /\ h[i] = p => \/ f.lines[i].kind = "blank"
                         \/ f.lines[i].kind = "key" /\ TableAt(f, i) = t /\ f.lines[i].name = k
          /\ f.lines[i].kind = "key" /\ TableAt(f, i) = t /\ f.lines[i].name = k => h[i] = p
  BY <1>1, <1>5
<1> QED
  BY <1>2, <1>6, <1>7, <1>8, <1>9, <1>10, Patched

\* The key before the header that ends its table, or behind the last line.
LEMMA AtTheEnd ==
    ASSUME NEW f, Plain(f), NEW g, NEW t, NEW k, NEW v, NEW p \in 2 .. Len(f.lines) + 1,
           WithLine(f, g, p, Key(k, v)), f.nl \/ p <= Len(f.lines),
           TableAt(f, p - 1) = t,
           p <= Len(f.lines) => f.lines[p].kind = "table",
           \A i \in Lines(f) : ~(f.lines[i].kind = "key" /\ TableAt(f, i) = t /\ f.lines[i].name = k)
    PROVE  Plain(g) /\ Sets(f, g, t, k, v)
<1> DEFINE n == Len(f.lines)
           h == [i \in 1 .. n |-> IF i < p THEN i ELSE i + 1]
<1>1. n \in Nat /\ Lines(f) = 1 .. n /\ Lines(f) # {} /\ f.nl \in BOOLEAN
  BY FileIs DEF Plain, Parses
<1>2. /\ IsFile(g) /\ Len(g.lines) = n + 1 /\ g.nl = f.nl /\ g.lines[p] = Key(k, v)
      /\ \A i \in 1 .. p - 1 : g.lines[i] = f.lines[i]
      /\ \A i \in p .. n : g.lines[i + 1] = f.lines[i]
  BY DEF WithLine
<1>3. Lines(g) = 1 .. n + 1 /\ g.lines[p].kind = "key"
  BY <1>2, FileIs DEF Key
<1>4. p \in 2 .. n + 1
  OBVIOUS
<1>5. \A i \in 1 .. n : h[i] = IF i < p THEN i ELSE i + 1
  OBVIOUS
<1>6. h \in [1 .. n -> 1 .. n + 1] /\ h \in [1 .. n -> Nat \ {0}]
  BY <1>1, SMTT(30)
<1> HIDE DEF n, h
<1>7. \A i \in 1 .. n : g.lines[h[i]] = f.lines[i] /\ h[i] # p
  <2>1. ASSUME NEW i \in 1 .. n PROVE g.lines[h[i]] = f.lines[i] /\ h[i] # p
    <3>1. CASE i < p
      <4>1. i \in 1 .. p - 1 /\ h[i] = i
        BY <1>1, <1>4, <1>5, <3>1
      <4> QED
        BY <1>2, <3>1, <4>1
    <3>2. CASE ~(i < p)
      <4>1. i \in p .. n /\ h[i] = i + 1 /\ h[i] # p
        BY <1>1, <1>4, <1>5, <3>2
      <4> QED
        BY <1>2, <4>1
    <3> QED
      BY <3>1, <3>2
  <2> QED
    BY <2>1
<1>8. \A i \in 1 .. n : TableAt(g, h[i]) = TableAt(f, i)
  <2>1. ASSUME NEW i \in 1 .. n, f.lines[i].kind # "table"
        PROVE  (i = 1 => h[i] = 1) /\ (i # 1 => h[i] = h[i - 1] + 1)
    <3>1. i # p
      BY <1>1, <2>1 DEF n
    <3>2. CASE i = 1
      BY <1>4, <1>5, <3>2
    <3>3. CASE i # 1
      <4>1. i - 1 \in 1 .. n
        BY <1>1, <3>3
      <4> QED
        BY <1>1, <1>4, <1>5, <3>1, <3>3, <4>1
    <3> QED
      BY <3>2, <3>3
  <2>2. Follows(f, g, n, h)
    BY <1>7, <2>1 DEF Follows
  <2>3. n \in Nat /\ h \in [1 .. n -> Nat \ {0}]
    BY <1>1, <1>6
  <2> QED
    BY <2>2, <2>3, TablesKept, SMTT(30)
<1>9. TableAt(g, p) = t /\ p \in Lines(g)
  <2>1. p \in Nat \ {0} /\ p # 1 /\ p - 1 \in 1 .. n /\ h[p - 1] = p - 1
    BY <1>1, <1>4, <1>5
  <2>2. TableAt(g, p) = TableAt(g, p - 1)
    BY <1>3, <2>1, TableStep
  <2> QED
    BY <1>3, <1>4, <1>8, <2>1, <2>2
<1>10. \A i, j \in 1 .. n : h[i] = h[j] => i = j
  BY <1>1, <1>4, <1>5
<1>11. Moved(f, g, h, p)
  BY <1>1, <1>3, <1>6, <1>7, <1>8, <1>10 DEF Moved
<1>12. Added(f, g, h, p, 0, t)
  <2>1. ASSUME NEW j \in 1 .. n + 1, j # p PROVE \E i \in 1 .. n : h[i] = j
    <3>1. CASE j < p
      <4>1. j \in 1 .. n /\ h[j] = j
        BY <1>1, <1>4, <1>5, <3>1
      <4> QED
        BY <4>1
    <3>2. CASE ~(j < p)
      <4>1. j - 1 \in 1 .. n /\ h[j - 1] = j
        BY <1>1, <1>4, <1>5, <2>1, <3>2
      <4> QED
        BY <4>1
    <3> QED
      BY <3>1, <3>2
  <2> QED
    BY <1>1, <1>3, <2>1 DEF Added
<1>13. g.nl \/ (~f.nl /\ Last(g.lines) = Last(f.lines))
  <2>1. CASE f.nl
    BY <1>2, <2>1
  <2>2. CASE ~f.nl
    <3>1. n \in p .. n
      BY <1>1, <1>4, <2>2 DEF n
    <3> QED
      BY <1>2, <2>2, <3>1 DEF Last, n
  <2> QED
    BY <2>1, <2>2
<1>14. \A i \in Lines(f) :
          /\ h[i] = p => \/ f.lines[i].kind = "blank"
                         \/ f.lines[i].kind = "key" /\ TableAt(f, i) = t /\ f.lines[i].name = k
          /\ f.lines[i].kind = "key" /\ TableAt(f, i) = t /\ f.lines[i].name = k => h[i] = p
  BY <1>1, <1>7
<1> QED
  BY <1>2, <1>9, <1>11, <1>12, <1>13, <1>14, Patched

\* The key in a new section.
LEMMA InNewSection ==
    ASSUME NEW f, Plain(f), NEW g, NEW t, NEW k, NEW v, WithSection(f, g, t, Key(k, v)),
           \A i \in Lines(f) : ~(f.lines[i].kind = "table" /\ f.lines[i].name = t),
           \A i \in Lines(f) : TableAt(f, i) # t
    PROVE  Plain(g) /\ Sets(f, g, t, k, v)
<1> DEFINE n == Len(f.lines)
           e == HeaderAt(f)
           p == e + 1
           h == [i \in 1 .. n |-> i]
<1>1. n \in Nat /\ Lines(f) = 1 .. n /\ f.nl \in BOOLEAN
  BY FileIs DEF Plain
<1>2. /\ IsFile(g) /\ Len(g.lines) = p /\ g.nl
      /\ \A i \in 1 .. n : g.lines[i] = f.lines[i]
      /\ f.nl => g.lines[n + 1] = Blank
      /\ g.lines[e] = Header(t, FALSE) /\ g.lines[p] = Key(k, v)
  BY DEF WithSection
<1>3. /\ Lines(g) = 1 .. p /\ g.lines[p].kind = "key"
      /\ g.lines[e].kind = "table" /\ g.lines[e].name = t
  BY <1>2, FileIs DEF Key, Header
<1>4. /\ e \in Nat \ {0} /\ n < e /\ e <= n + 2 /\ (~f.nl => e = n + 1)
      /\ p \in Nat \ {0} /\ p # 1 /\ p - 1 = e
  BY <1>1 DEF HeaderAt
<1>5. h \in [1 .. n -> 1 .. n] /\ \A i \in 1 .. n : h[i] = i
  OBVIOUS
<1> HIDE DEF n, e, h, p
<1>6. \A i \in 1 .. n : TableAt(g, i) = TableAt(f, i)
  BY <1>1, <1>2, TablesStay, ZenonT(30)
<1>7. TableAt(g, p) = t
  <2>1. TableAt(g, e) = t
    BY <1>3, <1>4, TableStep
  <2>2. TableAt(g, p) = TableAt(g, p - 1)
    BY <1>3, <1>4, TableStep
  <2> QED
    BY <1>4, <2>1, <2>2
<1>8. 1 .. n \subseteq 1 .. p /\ p \in 1 .. p /\ \A i \in 1 .. n : i # p
  BY <1>1, <1>4
<1>9. Moved(f, g, h, p)
  BY <1>1, <1>2, <1>3, <1>5, <1>6, <1>8 DEF Moved
<1>10. Added(f, g, h, p, e, t)
  <2>1. ASSUME NEW j \in 1 .. p, j # p, j \notin 1 .. n, j # e
        PROVE  g.lines[j].kind = "blank"
    <3>1. j = n + 1 /\ f.nl
      BY <1>1, <1>4, <2>1
    <3> QED
      BY <1>2, <3>1 DEF Blank
  <2> QED
    BY <1>1, <1>2, <1>3, <1>5, <2>1 DEF Added
<1>11. \A i \in Lines(f) :
          /\ h[i] = p => \/ f.lines[i].kind = "blank"
                         \/ f.lines[i].kind = "key" /\ TableAt(f, i) = t /\ f.lines[i].name = k
          /\ f.lines[i].kind = "key" /\ TableAt(f, i) = t /\ f.lines[i].name = k => h[i] = p
  BY <1>1, <1>5, <1>8
<1>12. p \in Lines(g) /\ g.lines[p] = Key(k, v) /\ IsFile(g)
  BY <1>2, <1>3, <1>8
<1> QED
  BY <1>2, <1>7, <1>9, <1>10, <1>11, <1>12, Patched

\* A patch that breaks no line sets its key and nothing else.
LEMMA PatchSets ==
    ASSUME NEW f, Plain(f), NEW t, t # NoText, NEW k, NEW v,
           ~Broke(patch_key_line(f, t, Key(k, v)))
    PROVE  LET g == patch_key_line(f, t, Key(k, v))
           IN  Plain(g) /\ Sets(f, g, t, k, v)
<1> DEFINE n == Len(f.lines)
           sec == find_section(f, t)
           end == section_end(f, sec)
           at == find_key_line(f, sec, end, k)
           line == Key(k, v)
           g == patch_key_line(f, t, line)
<1>1. IsFile(f) /\ toml_parse_file(f) /\ n \in Nat /\ Lines(f) = 1 .. n /\ f.nl \in BOOLEAN
  BY FileIs DEF Plain, Parses
<1>2. \/ sec = 0 /\ g = append_section_key(f, t, line)
      \/ sec # 0 /\ at = 0 /\ end \in 1 .. n /\ g = splice_text(f, end, 0, line)
      \/ sec # 0 /\ at = 0 /\ end = n + 1 /\ f.nl /\ g = splice_text(f, n + 1, 0, line)
      \/ /\ sec # 0 /\ at = 0 /\ end = n + 1 /\ ~f.nl /\ n \in 1 .. n
         /\ g = [lines |-> [f.lines EXCEPT ![n] = Glued(f.lines[n], line)], nl |-> TRUE]
      \/ /\ sec # 0 /\ at \in 1 .. n /\ f.lines[at].kind = "key"
         /\ g = [lines |-> [f.lines EXCEPT ![at] = line], nl |-> f.nl \/ at = n]
  BY <1>1, Places
<1>3. sec # 0 =>
        /\ sec \in 1 .. n /\ f.lines[sec].kind = "table"
        /\ end \in sec + 1 .. n + 1
        /\ end <= n => f.lines[end].kind = "table"
        /\ \A i \in sec .. end - 1 : TableAt(f, i) = t
        /\ \A i \in 1 .. n : TableAt(f, i) = t => i \in sec .. end - 1
  BY <1>1, SectionLines
<1>4. sec # 0 => KeyAt(f, sec, end, k, at)
  <2>1. SUFFICES ASSUME sec # 0 PROVE KeyAt(f, sec, end, k, at)
    OBVIOUS
  <2>2. sec \in Nat \ {0} /\ end \in Nat
    BY <1>1, <1>3, <2>1
  <2> HIDE DEF sec, end
  <2> QED
    BY <2>2, KeyLine
<1>5. ASSUME sec = 0
      PROVE  /\ \A i \in Lines(f) : ~(f.lines[i].kind = "table" /\ f.lines[i].name = t)
             /\ \A i \in Lines(f) : TableAt(f, i) # t
  BY <1>5, NoSection
<1>6. ~Broke(g)
  OBVIOUS
<1> HIDE DEF n, sec, end, at, line, g
<1>7. SUFFICES Plain(g) /\ Sets(f, g, t, k, v)
  BY DEF g, line
<1>8. ASSUME sec # 0, at = 0, NEW i \in Lines(f)
      PROVE  ~(f.lines[i].kind = "key" /\ TableAt(f, i) = t /\ f.lines[i].name = k)
  BY <1>1, <1>3, <1>4, <1>8 DEF KeyAt
<1>9. CASE sec = 0 /\ g = append_section_key(f, t, line)
  <2>1. WithSection(f, g, t, Key(k, v))
    BY <1>1, <1>9, AppendsSection DEF line
  <2> QED
    BY <1>5, <1>9, <2>1, InNewSection
<1>10. CASE sec # 0 /\ at = 0 /\ end \in 1 .. n /\ g = splice_text(f, end, 0, line)
  <2>1. WithLine(f, g, end, Key(k, v))
    BY <1>1, <1>10, Inserts DEF line, n
  <2>2. end \in 2 .. Len(f.lines) + 1 /\ end <= Len(f.lines) /\ end - 1 \in sec .. end - 1
    BY <1>1, <1>3, <1>10 DEF n
  <2>3. TableAt(f, end - 1) = t /\ f.lines[end].kind = "table"
    BY <1>3, <1>10, <2>2 DEF n
  <2> QED
    BY <1>8, <1>10, <2>1, <2>2, <2>3, AtTheEnd
<1>11. CASE sec # 0 /\ at = 0 /\ end = n + 1 /\ f.nl /\ g = splice_text(f, n + 1, 0, line)
  <2>1. WithLine(f, g, end, Key(k, v))
    BY <1>1, <1>11, Appends DEF line, n
  <2>2. end \in 2 .. Len(f.lines) + 1 /\ ~(end <= Len(f.lines)) /\ end - 1 \in sec .. end - 1
    BY <1>1, <1>3, <1>11 DEF n
  <2>3. TableAt(f, end - 1) = t
    BY <1>3, <1>11, <2>2
  <2> QED
    BY <1>8, <1>11, <2>1, <2>2, <2>3, AtTheEnd
<1>12. CASE /\ sec # 0 /\ at = 0 /\ end = n + 1 /\ ~f.nl /\ n \in 1 .. n
            /\ g = [lines |-> [f.lines EXCEPT ![n] = Glued(f.lines[n], line)], nl |-> TRUE]
  <2>1. Instead(f, g, n, Glued(f.lines[n], line), TRUE)
    BY <1>1, <1>12, Replaces DEF n
  <2>2. g.lines[n] = Glued(f.lines[n], line) /\ IsFile(g) /\ Len(g.lines) = n
    BY <2>1 DEF Instead, n
  <2>3. g.lines[n].kind # "broken"
    BY <1>6, <1>12, <2>2, FileIs DEF Broke
  <2>4. ~f.lines[n].note
    BY <1>12 DEF Plain, Blind, Last, n
  <2>5. f.lines[n].kind = "blank" /\ Glued(f.lines[n], line) = line
    BY <2>2, <2>3, <2>4 DEF Glued, Broken
  <2> DEFINE nl == TRUE
  <2>6. Instead(f, g, n, Key(k, v), nl) /\ (nl \/ (~f.nl /\ n # Len(f.lines)))
    BY <2>1, <2>5 DEF line
  <2> HIDE DEF nl
  <2>7. n \in sec .. end - 1
    BY <1>1, <1>3, <1>12
  <2>8. TableAt(f, n) = t /\ n \in Lines(f)
    BY <1>1, <1>3, <1>12, <2>7
  <2>9. \A i \in Lines(f) : f.lines[i].kind = "key" /\ TableAt(f, i) = t /\ f.lines[i].name = k
                              => i = n
    BY <1>8, <1>12
  <2> QED
    BY <2>5, <2>6, <2>8, <2>9, InPlace
<1>13. CASE /\ sec # 0 /\ at \in 1 .. n /\ f.lines[at].kind = "key"
            /\ g = [lines |-> [f.lines EXCEPT ![at] = line], nl |-> f.nl \/ at = n]
  <2> DEFINE nl == f.nl \/ at = n
  <2>1. nl \in BOOLEAN /\ (nl \/ (~f.nl /\ at # Len(f.lines)))
    BY DEF n
  <2> HIDE DEF nl
  <2>2. g = [lines |-> [f.lines EXCEPT ![at] = line], nl |-> nl]
    BY <1>13 DEF nl
  <2>3. Instead(f, g, at, Key(k, v), nl)
    BY <1>1, <1>13, <2>1, <2>2, Replaces DEF n, line
  <2>4. at # 0
    BY <1>1, <1>13
  <2>5. at \in sec .. end - 1 /\ f.lines[at].kind = "key" /\ f.lines[at].name = k
    BY <1>4, <1>13, <2>4 DEF KeyAt
  <2>6. TableAt(f, at) = t /\ at \in Lines(f)
    BY <1>1, <1>3, <1>13, <2>5
  <2>7. \A i \in Lines(f) : f.lines[i].kind = "key" /\ TableAt(f, i) = t /\ f.lines[i].name = k
                              => i = at
    BY <1>1, <2>5, <2>6 DEF toml_parse_file
  <2> QED
    BY <2>1, <2>3, <2>5, <2>6, <2>7, InPlace
<1> QED
  BY <1>2, <1>9, <1>10, <1>11, <1>12, <1>13

-----------------------------------------------------------------------------
(* The five fields. *)

\* Field j of f has value v.
Has(f, j, v) == Holds(f, Fields[j].table, Fields[j].key, v)

\* The key stands for no field.
Other(t, k) == \A j \in 1 .. 5 : ~(t = Fields[j].table /\ k = Fields[j].key)

\* No two fields stand for one key.
LEMMA FieldsDiffer ==
    /\ DOMAIN Fields = 1 .. 5
    /\ \A i, j \in 1 .. 5 : Fields[i].table = Fields[j].table /\ Fields[i].key = Fields[j].key => i = j
  BY DEF Fields

\* The fields lie in tables, not before the first header.
LEMMA TablesNamed ==
    ASSUME NEW j \in 1 .. 5 PROVE Fields[j].table # NoText
<1>1. "agent" # NoText /\ "gateway" # NoText
  BY Zenon DEF NoText
<1>2. Fields[j].table \in {"agent", "gateway"}
  BY DEF Fields
<1> QED
  BY <1>1, <1>2

\* What one of the fields does when the save is applied in order.
LEMMA FieldSets ==
    ASSUME NEW f, IsFile(f), NEW req, NEW j \in 1 .. 5
    PROVE  LET g == apply_field(f, req, j)
               fd == Fields[j]
           IN  /\ IsFile(g)
               /\ ~Broke(g) => ~Broke(f)
               /\ Plain(f) /\ ~Broke(g) =>
                    /\ Plain(g)
                    /\ \A i \in 1 .. 5 : \A v :
                          Has(g, i, v) <=> IF i = j /\ fd.field \in DOMAIN req
                                           THEN v = Printed(fd, req[fd.field]) ELSE Has(f, i, v)
                    /\ \A t, k, v : Other(t, k) => (Holds(g, t, k, v) <=> Holds(f, t, k, v))
<1> DEFINE g == apply_field(f, req, j)
           fd == Fields[j]
           x == Printed(fd, req[fd.field])
<1>1. CASE fd.field \notin DOMAIN req
  <2>1. g = f
    BY <1>1 DEF apply_field
  <2> HIDE DEF g
  <2> QED
    BY <1>1, <2>1 DEF g
<1>2. CASE fd.field \in DOMAIN req
  <2>1. g = patch_key_line(f, fd.table, Key(fd.key, x))
    BY <1>2 DEF apply_field, patch_field
  <2>2. IsFile(g) /\ (Broke(f) => Broke(g))
    BY <2>1, BrokenStays
  <2>3. ASSUME Plain(f), ~Broke(g) PROVE Plain(g) /\ Sets(f, g, fd.table, fd.key, x)
    BY <2>1, <2>3, TablesNamed, PatchSets
  <2> HIDE DEF g, x
  <2>4. ASSUME Plain(f), ~Broke(g), NEW i \in 1 .. 5, NEW v
        PROVE  Has(g, i, v) <=> IF i = j THEN v = x ELSE Has(f, i, v)
    BY <2>3, <2>4, FieldsDiffer DEF Sets, Has
  <2>5. ASSUME Plain(f), ~Broke(g), NEW t, NEW k, NEW v, Other(t, k)
        PROVE  Holds(g, t, k, v) <=> Holds(f, t, k, v)
    BY <2>3, <2>5 DEF Sets, Other
  <2> QED
    BY <1>2, <2>2, <2>3, <2>4, <2>5 DEF g, x
<1> QED
  BY <1>1, <1>2

\* What is loaded depends on the keys and their values alone.
LEMMA FieldIs ==
    ASSUME NEW f, Plain(f), NEW j \in 1 .. 5
    PROVE  /\ \A v : Has(f, j, v) => toml_in(f, Fields[j]) = Taken(Fields[j], v)
           /\ (\A v : ~Has(f, j, v)) => toml_in(f, Fields[j]) = Default
<1> DEFINE fd == Fields[j]
           at == {i \in KeysOf(f, fd.table) : f.lines[i].name = fd.key}
<1> HIDE DEF fd
<1>1. toml_in(f, fd) = IF at = {} THEN Default ELSE Taken(fd, f.lines[CHOOSE i \in at : TRUE].v)
  BY DEF toml_in
<1>2. ASSUME NEW v, Has(f, j, v) PROVE toml_in(f, fd) = Taken(fd, v)
  <2>1. PICK i \in Lines(f) : /\ f.lines[i].kind = "key" /\ TableAt(f, i) = fd.table
                              /\ f.lines[i].name = fd.key /\ f.lines[i].v = v
    BY <1>2 DEF Has, Holds, fd
  <2>2. i \in at
    BY <2>1 DEF KeysOf
  <2>3. \A a \in at : a = i
    BY <2>1 DEF KeysOf, Plain, Parses, toml_parse_file
  <2> HIDE DEF at
  <2>4. (CHOOSE a \in at : TRUE) = i
    BY <2>2, <2>3
  <2> QED
    BY <1>1, <2>1, <2>2, <2>4
<1>3. ASSUME \A v : ~Has(f, j, v) PROVE toml_in(f, fd) = Default
  <2>1. at = {}
    BY <1>3 DEF KeysOf, Has, Holds, fd
  <2> QED
    BY <1>1, <2>1
<1> QED
  BY <1>2, <1>3 DEF fd

\* A field with the same values is loaded alike.
LEMMA FieldSame ==
    ASSUME NEW f, Plain(f), NEW g, Plain(g), NEW j \in 1 .. 5,
           \A v : Has(g, j, v) <=> Has(f, j, v)
    PROVE  toml_in(g, Fields[j]) = toml_in(f, Fields[j])
<1>1. CASE \E v : Has(f, j, v)
  <2>1. PICK v : Has(f, j, v)
    BY <1>1
  <2> QED
    BY <2>1, FieldIs
<1>2. CASE ~\E v : Has(f, j, v)
  BY <1>2, FieldIs
<1> QED
  BY <1>1, <1>2

\* What is loaded, field by field.
LEMMA ParsedIs ==
    ASSUME NEW f, NEW j \in 1 .. 5 PROVE Parsed(f)[j] = toml_in(f, Fields[j])
<1>1. Parsed(f)[j] = IF j \in 1 .. 3 THEN parse_agent(f)[j] ELSE parse_gateway(f)[j]
  BY DEF Parsed
<1>2. CASE j \in 1 .. 3
  BY <1>1, <1>2 DEF parse_agent
<1>3. CASE j \notin 1 .. 3
  <2>1. j \in 4 .. 5
    BY <1>3
  <2> QED
    BY <1>1, <1>3, <2>1 DEF parse_gateway
<1> QED
  BY <1>2, <1>3

\* The other keys of a file.
LEMMA OthersAre ==
    ASSUME NEW f
    PROVE  \A x : x \in Others(f) <=>
                    \E t, k, v : x = <<t, k, v>> /\ Other(t, k) /\ Holds(f, t, k, v)
<1> DEFINE Key0 == {j \in Lines(f) : f.lines[j].kind = "key" /\
                      \A k \in DOMAIN Fields :
                         <<TableAt(f, j), f.lines[j].name>> # <<Fields[k].table, Fields[k].key>>}
<1>1. \A j : j \in Key0 <=> /\ j \in Lines(f) /\ f.lines[j].kind = "key"
                            /\ Other(TableAt(f, j), f.lines[j].name)
  BY FieldsDiffer DEF Other
<1>2. Others(f) = {<<TableAt(f, i), f.lines[i].name, f.lines[i].v>> : i \in Key0}
  BY DEF Others
<1> HIDE DEF Key0
<1>3. ASSUME NEW x, x \in Others(f)
      PROVE  \E t, k, v : x = <<t, k, v>> /\ Other(t, k) /\ Holds(f, t, k, v)
  <2>1. PICK i \in Key0 : x = <<TableAt(f, i), f.lines[i].name, f.lines[i].v>>
    BY <1>2, <1>3
  <2>2. Other(TableAt(f, i), f.lines[i].name) /\ Holds(f, TableAt(f, i), f.lines[i].name, f.lines[i].v)
    BY <1>1 DEF Holds
  <2> QED
    BY <2>1, <2>2
<1>4. ASSUME NEW t, NEW k, NEW v, Other(t, k), Holds(f, t, k, v)
      PROVE  <<t, k, v>> \in Others(f)
  <2>1. PICK i \in Lines(f) : /\ f.lines[i].kind = "key" /\ TableAt(f, i) = t
                              /\ f.lines[i].name = k /\ f.lines[i].v = v
    BY <1>4 DEF Holds
  <2>2. i \in Key0
    BY <1>1, <1>4, <2>1
  <2> QED
    BY <1>2, <2>1, <2>2
<1> QED
  BY <1>3, <1>4

\* A save that breaks no line, on a file that the scan reads as the parser does.
LEMMA SaveSets ==
    ASSUME NEW f, Plain(f), NEW req, ~Broke(apply_dashboard_fields(f, req))
    PROVE  LET g == apply_dashboard_fields(f, req)
           IN  /\ Others(g) = Others(f)
               /\ \A j \in 1 .. 5 :
                     Parsed(g)[j] =
                       IF Fields[j].field \in DOMAIN req
                       THEN Taken(Fields[j], Printed(Fields[j], req[Fields[j].field]))
                       ELSE Parsed(f)[j]
<1> DEFINE g1 == apply_field(f, req, 1)
           g2 == apply_field(g1, req, 2)
           g3 == apply_field(g2, req, 3)
           g4 == apply_field(g3, req, 4)
           g5 == apply_field(g4, req, 5)
           g == apply_dashboard_fields(f, req)
           Named(i) == Fields[i].field \in DOMAIN req
           Text(i) == Printed(Fields[i], req[Fields[i].field])
           Step(a, b, j) ==
             /\ Plain(b)
             /\ \A i \in 1 .. 5 : \A v :
                   Has(b, i, v) <=> IF i = j /\ Named(j) THEN v = Text(j) ELSE Has(a, i, v)
             /\ \A t, k, v : Other(t, k) => (Holds(b, t, k, v) <=> Holds(a, t, k, v))
<1>1. g = g5
  BY DEF apply_dashboard_fields
<1>2. IsFile(f)
  BY DEF Plain
<1>3. ASSUME NEW a, IsFile(a), NEW j \in 1 .. 5
      PROVE  /\ IsFile(apply_field(a, req, j))
             /\ ~Broke(apply_field(a, req, j)) => ~Broke(a)
             /\ Plain(a) /\ ~Broke(apply_field(a, req, j)) => Step(a, apply_field(a, req, j), j)
  BY <1>3, FieldSets
<1> HIDE DEF Step
<1>4. IsFile(g1) /\ IsFile(g2) /\ IsFile(g3) /\ IsFile(g4)
  <2>1. IsFile(g1)
    BY <1>2, <1>3
  <2>2. IsFile(g2)
    BY <1>3, <2>1
  <2>3. IsFile(g3)
    BY <1>3, <2>2
  <2> QED
    BY <1>3, <2>1, <2>2, <2>3
<1>5. ~Broke(g5) /\ ~Broke(g4) /\ ~Broke(g3) /\ ~Broke(g2) /\ ~Broke(g1)
  <2>1. ~Broke(g4)
    BY <1>1, <1>3, <1>4
  <2>2. ~Broke(g3)
    BY <1>3, <1>4, <2>1
  <2>3. ~Broke(g2)
    BY <1>3, <1>4, <2>2
  <2> QED
    BY <1>1, <1>3, <1>4, <2>1, <2>2, <2>3
<1>6. Step(f, g1, 1)
  BY <1>2, <1>3, <1>5
<1>7. Step(g1, g2, 2)
  BY <1>3, <1>4, <1>5, <1>6 DEF Step
<1>8. Step(g2, g3, 3)
  BY <1>3, <1>4, <1>5, <1>7 DEF Step
<1>9. Step(g3, g4, 4)
  BY <1>3, <1>4, <1>5, <1>8 DEF Step
<1>10. Step(g4, g5, 5)
  BY <1>3, <1>4, <1>5, <1>9 DEF Step
<1> HIDE DEF g1, g2, g3, g4, g5, g, Named, Text
<1>11. Others(g) = Others(f)
  <2>1. ASSUME NEW t, NEW k, NEW v, Other(t, k) PROVE Holds(g5, t, k, v) <=> Holds(f, t, k, v)
    BY <1>6, <1>7, <1>8, <1>9, <1>10, <2>1 DEF Step
  <2> QED
    BY <1>1, <2>1, OthersAre
<1>12. ASSUME NEW j \in 1 .. 5
       PROVE  Parsed(g)[j] = IF Named(j) THEN Taken(Fields[j], Text(j)) ELSE Parsed(f)[j]
  <2>1. ASSUME NEW v PROVE Has(g5, j, v) <=> IF Named(j) THEN v = Text(j) ELSE Has(f, j, v)
    BY <1>6, <1>7, <1>8, <1>9, <1>10 DEF Step
  <2>2. Plain(g5)
    BY <1>10 DEF Step
  <2>3. CASE Named(j)
    BY <1>1, <2>1, <2>2, <2>3, FieldIs, ParsedIs
  <2>4. CASE ~Named(j)
    <3>1. toml_in(g5, Fields[j]) = toml_in(f, Fields[j])
      BY <2>1, <2>2, <2>4, FieldSame
    <3> QED
      BY <1>1, <2>4, <3>1, ParsedIs
  <2> QED
    BY <2>3, <2>4
<1> QED
  BY <1>11, <1>12 DEF g, Named, Text

\* The file stays a sequence of lines that the parser takes.
TomlInv == IsFile(toml) /\ Parses(toml)

\* A file that loads parses and has no broken line.
LEMMA LoadedParses ==
    ASSUME NEW f, config_load(f) PROVE Parses(f) /\ ~Broke(f)
  BY DEF config_load, Parses, Broke, toml_parse_file

\* A save leaves a sequence of lines.
LEMMA SaveIsFile ==
    ASSUME NEW f, IsFile(f), NEW req PROVE IsFile(apply_dashboard_fields(f, req))
<1> DEFINE g1 == apply_field(f, req, 1)
           g2 == apply_field(g1, req, 2)
           g3 == apply_field(g2, req, 3)
           g4 == apply_field(g3, req, 4)
<1>1. ASSUME NEW a, IsFile(a), NEW j \in 1 .. 5 PROVE IsFile(apply_field(a, req, j))
  BY <1>1, FieldSets
<1>2. IsFile(g1)
  BY <1>1
<1>3. IsFile(g2)
  BY <1>1, <1>2
<1>4. IsFile(g3)
  BY <1>1, <1>3
<1>5. IsFile(g4)
  BY <1>1, <1>4
<1>6. IsFile(apply_field(g4, req, 5))
  BY <1>1, <1>5
<1> QED
  BY <1>6 DEF apply_dashboard_fields

\* For any files, saves and precision of numbers, a save that is accepted sets the
\* fields it names, as their types print them, and leaves every other field and key
\* as it was, in tables of any order and number, unless a header is indented or a
\* comment ends the file without a newline (config_patch.c:173-310).
THEOREM SavesPatchRight == PatchSpec => PatchRight
<1>1. PatchInit => TomlInv
  <2>1. SUFFICES ASSUME PatchInit PROVE TomlInv
    OBVIOUS
  <2>2. IsFile(toml)
    BY <2>1, FilesAssumption DEF PatchInit, IsFile
  <2>3. Parses(toml)
    BY <2>1, LoadedParses DEF PatchInit
  <2> QED
    BY <2>2, <2>3 DEF TomlInv
<1>2. TomlInv /\ [PatchNext]_patchVars => TomlInv'
  <2>1. SUFFICES ASSUME TomlInv, [PatchNext]_patchVars PROVE TomlInv'
    OBVIOUS
  <2>2. CASE toml' = toml
    BY <2>1, <2>2 DEF TomlInv
  <2>3. CASE toml' # toml
    <3>1. PICK req : config_patch_dashboard_json(req)
      BY <2>1, <2>3 DEF PatchNext, patchVars
    <3>2. Accepted(req) /\ toml' = apply_dashboard_fields(toml, req)
      BY <2>3, <3>1 DEF config_patch_dashboard_json
    <3>3. IsFile(toml')
      BY <2>1, <3>2, SaveIsFile DEF TomlInv
    <3>4. Parses(toml')
      BY <3>2, LoadedParses DEF Accepted, validate_patched_toml
    <3> QED
      BY <3>3, <3>4 DEF TomlInv
  <2> QED
    BY <2>2, <2>3
<1> DEFINE Right ==
      put'.ok /\ ~Blind(toml) =>
        /\ config_load(toml')
        /\ Others(toml') = Others(toml)
        /\ \A k \in DOMAIN Fields :
              LET fd == Fields[k]
              IN  Parsed(toml')[k] =
                    IF fd.field \in DOMAIN put'.req THEN Taken(fd, Printed(fd, put'.req[fd.field]))
                    ELSE Parsed(toml)[k]
<1>3. TomlInv /\ [PatchNext]_patchVars => [Right]_patchVars
  <2>1. SUFFICES ASSUME TomlInv, PatchNext, put'.ok, ~Blind(toml) PROVE Right
    OBVIOUS
  <2>2. PICK req : config_patch_dashboard_json(req)
    BY <2>1 DEF PatchNext
  <2>3. put'.req = req /\ put'.ok = Accepted(req)
    BY <2>2 DEF config_patch_dashboard_json
  <2>4. Accepted(req) /\ toml' = apply_dashboard_fields(toml, req)
    BY <2>1, <2>2, <2>3 DEF config_patch_dashboard_json
  <2>5. config_load(toml')
    BY <2>4 DEF Accepted, validate_patched_toml
  <2>6. ~Broke(apply_dashboard_fields(toml, req)) /\ Plain(toml)
    BY <2>1, <2>4, <2>5, LoadedParses DEF TomlInv, Plain
  <2>7. /\ Others(toml') = Others(toml)
        /\ \A j \in 1 .. 5 :
              Parsed(toml')[j] =
                IF Fields[j].field \in DOMAIN req
                THEN Taken(Fields[j], Printed(Fields[j], req[Fields[j].field]))
                ELSE Parsed(toml)[j]
    BY <2>4, <2>6, SaveSets
  <2> QED
    BY <2>3, <2>5, <2>7, FieldsDiffer
<1> QED
  BY <1>1, <1>2, <1>3, PTL DEF PatchSpec, PatchRight
=============================================================================
