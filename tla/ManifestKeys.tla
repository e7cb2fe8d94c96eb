--------------------------- MODULE ManifestKeys ---------------------------
(***************************************************************************)
(* The Ed25519 key pair that signs the ASAP manifest: two files that are   *)
(* created at the first start, loaded at every later one, and replaced by  *)
(* `shellclaw --rotate-keys` (asap/manifest_keys.c).                       *)
(*                                                                         *)
(* Two processes work on the files: the daemon, which loads them at start  *)
(* and serves signed manifests, and a rotation.  Each may die between any  *)
(* two steps, and each write may fail.  A file is replaced by rename, so   *)
(* such a write is one step that succeeds or leaves the file alone.        *)
(*                                                                         *)
(* A key pair is a number, its private and its public half alike; larger   *)
(* numbers are younger.                                                    *)
(*                                                                         *)
(* Assumed of the operator: no rotation while the daemon creates its first *)
(* pair (Alone), and not two rotations in one second, which would share    *)
(* the name of their backup (OncePerSecond).                               *)
(***************************************************************************)
EXTENDS Integers, FiniteSets

CONSTANTS
    Keep,        \* MANIFEST_KEY_BACKUPS_KEEP
    CollectCap,  \* entries of priv_baks and pub_baks
    MaxKeys,     \* bound on the pairs ever generated
    MaxTime,     \* bound on the clock, in seconds
    MaxChmods    \* bound on the changes of the mode by a user

ASSUME KeepAssumption == Keep \in Nat \ {0} /\ CollectCap \in Nat /\ CollectCap >= Keep
ASSUME BoundsAssumption == MaxKeys \in Nat /\ MaxTime \in Nat /\ MaxChmods \in Nat

Times == 0 .. MaxTime
Keys == 1 .. MaxKeys
NoKey == 0
AnyKey == Keys \cup {NoKey}
Cut == MaxKeys + 1           \* a backup whose write a crash cut off

VARIABLES
    priv,      \* ed25519.priv, NoKey when there is no such file
    pub,       \* ed25519.pub
    loose,     \* the mode of ed25519.priv has group or other bits
    privBaks,  \* ed25519.priv.bak.<ts>
    pubBaks,   \* ed25519.pub.bak.<ts>
    clock,     \* time(NULL)
    made,      \* pairs generated so far
    chmods,    \* changes of the mode so far
    dPc,       \* where the daemon is, "off" when it does not run
    serving,   \* the gateway of the daemon has been started
    loaded,    \* g_manifest_keys_loaded
    dPriv,     \* g_manifest_privkey of the daemon
    dPub,      \* g_manifest_pubkey of the daemon
    rPc,       \* where the rotation is, "off" when none runs
    rNew,      \* the pair it generated
    rPriv,     \* old_priv, NoKey without had_old_keys
    rPub,      \* old_pub
    rTs,       \* ts
    signed,    \* history: <<private, public>> halves of the manifests served
    torn       \* history: a crash or a second failure hit between two writes

files == <<priv, pub, loose>>
baks == <<privBaks, pubBaks>>
daemon == <<dPc, serving, loaded, dPriv, dPub>>
rotation == <<rPc, rNew, rPriv, rPub, rTs>>
vars == <<priv, pub, loose, privBaks, pubBaks, clock, made, chmods, dPc,
          serving, loaded, dPriv, dPub, rPc, rNew, rPriv, rPub, rTs, signed,
          torn>>

Creating == dPc \in {"createPriv", "createPub"}

Init ==
    /\ priv = NoKey /\ pub = NoKey /\ loose = FALSE
    /\ privBaks = [t \in Times |-> NoKey]
    /\ pubBaks = [t \in Times |-> NoKey]
    /\ clock = 0 /\ made = 0 /\ chmods = 0
    /\ dPc = "off" /\ serving = FALSE /\ loaded = FALSE
    /\ dPriv = NoKey /\ dPub = NoKey
    /\ rPc = "off" /\ rNew = NoKey /\ rPriv = NoKey /\ rPub = NoKey /\ rTs = 0
    /\ signed = {}
    /\ torn = FALSE

-----------------------------------------------------------------------------
(* The daemon. *)

\* manifest_keys_load returns -1: the daemon does not start, or the request is
\* answered with 500.
LoadFails == dPc' = IF serving THEN "up" ELSE "off"

LoadDone ==
    /\ loaded' = TRUE
    /\ serving' = TRUE
    /\ dPc' = "up"

\* init_subsystems calls manifest_keys_ensure_loaded before http_start.
Start ==
    /\ dPc = "off"
    /\ dPc' = "access"
    /\ UNCHANGED <<files, baks, clock, made, chmods, serving, loaded, dPriv,
                   dPub, rotation, signed, torn>>

\* GET manifest.json: manifest_keys_ensure_loaded, then the signature.
Sign ==
    /\ dPc = "up"
    /\ loaded
    /\ ~ (priv # NoKey /\ loose)
    /\ signed' = signed \cup {<<dPriv, dPub>>}
    /\ UNCHANGED <<files, baks, clock, made, chmods, daemon, rotation, torn>>

\* The mode has been opened since: the keys are dropped and nothing is signed.
DropLoose ==
    /\ dPc = "up"
    /\ loaded
    /\ priv # NoKey /\ loose
    /\ loaded' = FALSE
    /\ dPriv' = NoKey
    /\ dPub' = NoKey
    /\ UNCHANGED <<files, baks, clock, made, chmods, dPc, serving, rotation,
                   signed, torn>>

\* A request after the keys were dropped loads them again.
Reload ==
    /\ dPc = "up"
    /\ ~loaded
    /\ dPc' = "access"
    /\ UNCHANGED <<files, baks, clock, made, chmods, serving, loaded, dPriv,
                   dPub, rotation, signed, torn>>

\* access(priv_path) and the check of the mode.
Access ==
    /\ dPc = "access"
    /\ priv # NoKey
    /\ IF loose THEN LoadFails ELSE dPc' = "readPriv"
    /\ UNCHANGED <<files, baks, clock, made, chmods, serving, loaded, dPriv,
                   dPub, rotation, signed, torn>>

ReadPriv ==
    /\ dPc = "readPriv"
    /\ \/ /\ priv # NoKey
          /\ dPriv' = priv
          /\ dPc' = "readPub"
       \/ /\ priv = NoKey
          /\ dPriv' = dPriv
          /\ LoadFails
    /\ UNCHANGED <<files, baks, clock, made, chmods, serving, loaded, dPub,
                   rotation, signed, torn>>

\* Mutant: any public key that can be read is taken.
Mut_pub_matches_priv == TRUE

\* The private key file also holds the public half, which must be the one in
\* ed25519.pub.
manifest_keys_pub_matches_priv == pub = dPriv

ReadPub ==
    /\ dPc = "readPub"
    /\ \/ /\ pub # NoKey
          /\ manifest_keys_pub_matches_priv
          /\ dPub' = pub
          /\ LoadDone
       \/ /\ pub # NoKey
          /\ ~manifest_keys_pub_matches_priv
          /\ dPub' = pub
          /\ LoadFails
          /\ UNCHANGED <<serving, loaded>>
       \/ /\ pub = NoKey
          /\ LoadFails
          /\ UNCHANGED <<serving, loaded, dPub>>
    /\ UNCHANGED <<files, baks, clock, made, chmods, dPriv, rotation, signed,
                   torn>>

\* No rotation runs while a pair is created.
Alone == rPc = "off"

\* manifest_keys_create_and_persist: generate, write the private file ...
Create ==
    /\ dPc = "access"
    /\ priv = NoKey
    /\ Alone
    /\ made < MaxKeys
    /\ made' = made + 1
    /\ dPriv' = made + 1
    /\ dPub' = made + 1
    /\ dPc' = "createPriv"
    /\ UNCHANGED <<files, baks, clock, chmods, serving, loaded, rotation,
                   signed, torn>>

CreatePriv ==
    /\ dPc = "createPriv"
    /\ \/ /\ priv' = dPriv
          /\ loose' = FALSE
          /\ dPc' = "createPub"
       \/ LoadFails /\ UNCHANGED <<priv, loose>>
    /\ UNCHANGED <<pub, baks, clock, made, chmods, serving, loaded, dPriv,
                   dPub, rotation, signed, torn>>

\* unlink(priv_path)
unlink_priv == priv' = NoKey

\* ... and the public one; when that fails the private file is removed.
CreatePub ==
    /\ dPc = "createPub"
    /\ \/ /\ pub' = dPub
          /\ priv' = priv
          /\ LoadDone
       \/ /\ unlink_priv
          /\ LoadFails
          /\ UNCHANGED <<pub, serving, loaded>>
    /\ UNCHANGED <<loose, baks, clock, made, chmods, dPriv, dPub, rotation,
                   signed, torn>>

\* The daemon dies or is stopped.
DaemonDies ==
    /\ dPc # "off"
    /\ dPc' = "off"
    /\ serving' = FALSE
    /\ loaded' = FALSE
    /\ dPriv' = NoKey
    /\ dPub' = NoKey
    /\ torn' = (torn \/ dPc = "createPub")
    /\ UNCHANGED <<files, baks, clock, made, chmods, rotation, signed>>

-----------------------------------------------------------------------------
(* manifest_keys_rotate in a process of its own. *)

\* Both files could be read.
had_old_keys == priv # NoKey /\ pub # NoKey

\* No other rotation has used the present second for its backup.
OncePerSecond == privBaks[clock] = NoKey /\ pubBaks[clock] = NoKey

\* Everything before the first write: a loose mode ends the rotation, and so
\* does a failure to make the directory or the keys.
RotateBegin ==
    /\ rPc = "off"
    /\ ~Creating
    /\ OncePerSecond
    /\ ~ (priv # NoKey /\ loose)
    /\ made < MaxKeys
    /\ made' = made + 1
    /\ rNew' = made + 1
    /\ rPriv' = IF had_old_keys THEN priv ELSE NoKey
    /\ rPub' = IF had_old_keys THEN pub ELSE NoKey
    /\ rTs' = clock
    /\ rPc' = IF had_old_keys THEN "bakPriv" ELSE "writePriv"
    /\ UNCHANGED <<files, baks, clock, chmods, daemon, signed, torn>>

\* manifest_write_key_file of the backups.  A failure may leave no file.
BackupPriv ==
    /\ rPc = "bakPriv"
    /\ \/ privBaks' = [privBaks EXCEPT ![rTs] = rPriv] /\ rPc' = "bakPub"
       \/ privBaks' = [privBaks EXCEPT ![rTs] = NoKey] /\ rPc' = "off"
    /\ UNCHANGED <<files, pubBaks, clock, made, chmods, daemon, rNew, rPriv,
                   rPub, rTs, signed, torn>>

BackupPub ==
    /\ rPc = "bakPub"
    /\ \/ pubBaks' = [pubBaks EXCEPT ![rTs] = rPub] /\ rPc' = "writePriv"
       \/ pubBaks' = [pubBaks EXCEPT ![rTs] = NoKey] /\ rPc' = "off"
    /\ UNCHANGED <<files, privBaks, clock, made, chmods, daemon, rNew, rPriv,
                   rPub, rTs, signed, torn>>

WritePriv ==
    /\ rPc = "writePriv"
    /\ \/ /\ priv' = rNew
          /\ loose' = FALSE
          /\ rPc' = "writePub"
       \/ rPc' = "off" /\ UNCHANGED <<priv, loose>>
    /\ UNCHANGED <<pub, baks, clock, made, chmods, daemon, rNew, rPriv, rPub,
                   rTs, signed, torn>>

\* The new pair is complete; old backups are pruned.
WritePub ==
    /\ rPc = "writePub"
    /\ pub' = rNew
    /\ torn' = FALSE
    /\ rPc' = IF rPriv # NoKey THEN "prunePriv" ELSE "off"
    /\ UNCHANGED <<priv, loose, baks, clock, made, chmods, daemon, rNew, rPriv,
                   rPub, rTs, signed>>

\* The public file cannot be written: back to the old private key, or to none.
WritePubFails ==
    /\ rPc = "writePub"
    /\ \/ /\ rPriv # NoKey
          /\ rPc' = "restore"
          /\ priv' = priv
       \/ /\ rPriv = NoKey
          /\ rPc' = "off"
          /\ unlink_priv
    /\ UNCHANGED <<pub, loose, baks, clock, made, chmods, daemon, rNew, rPriv,
                   rPub, rTs, signed, torn>>

\* Mutant: the rolled key stays on disk.
Mut_restored == priv

\* What ed25519.priv holds after the write of old_priv.
restored == rPriv

Restore ==
    /\ rPc = "restore"
    /\ \/ /\ priv' = restored
          /\ loose' = FALSE
          /\ torn' = torn
       \/ torn' = TRUE /\ UNCHANGED <<priv, loose>>
    /\ rPc' = "off"
    /\ UNCHANGED <<pub, baks, clock, made, chmods, daemon, rNew, rPriv, rPub,
                   rTs, signed>>

\* Mutant: the list is sorted with the oldest first.
Mut_Pruned(seen) == {t \in seen : Cardinality({u \in seen : u < t}) >= Keep}

\* manifest_keys_prune_prefix: of the backups collected, all but the Keep
\* newest.
Pruned(seen) == {t \in seen : Cardinality({u \in seen : u > t}) >= Keep}

\* manifest_keys_collect_baks: the backups readdir returned before the array
\* was full.
Collected(b) ==
    LET all == {t \in Times : b[t] # NoKey}
    IN  IF Cardinality(all) <= CollectCap
        THEN {all}
        ELSE {s \in SUBSET all : Cardinality(s) = CollectCap}

PrunePriv ==
    /\ rPc = "prunePriv"
    /\ \E seen \in Collected(privBaks) :
          privBaks' = [t \in Times |->
                          IF t \in Pruned(seen) THEN NoKey ELSE privBaks[t]]
    /\ rPc' = "prunePub"
    /\ UNCHANGED <<files, pubBaks, clock, made, chmods, daemon, rNew, rPriv,
                   rPub, rTs, signed, torn>>

PrunePub ==
    /\ rPc = "prunePub"
    /\ \E seen \in Collected(pubBaks) :
          pubBaks' = [t \in Times |->
                         IF t \in Pruned(seen) THEN NoKey ELSE pubBaks[t]]
    /\ rPc' = "off"
    /\ UNCHANGED <<files, privBaks, clock, made, chmods, daemon, rNew, rPriv,
                   rPub, rTs, signed, torn>>

\* A backup is written in place, so a crash may leave a part of it.
CutBackup ==
    \/ UNCHANGED baks
    \/ /\ rPc = "bakPriv"
       /\ privBaks' = [privBaks EXCEPT ![rTs] = Cut]
       /\ UNCHANGED pubBaks
    \/ /\ rPc = "bakPub"
       /\ pubBaks' = [pubBaks EXCEPT ![rTs] = Cut]
       /\ UNCHANGED privBaks

RotationDies ==
    /\ rPc # "off"
    /\ rPc' = "off"
    /\ torn' = (torn \/ rPc \in {"writePub", "restore"})
    /\ CutBackup
    /\ UNCHANGED <<files, clock, made, chmods, daemon, rNew, rPriv, rPub, rTs,
                   signed>>

-----------------------------------------------------------------------------
\* A user changes the mode of ed25519.priv.
Chmod ==
    /\ priv # NoKey
    /\ chmods < MaxChmods
    /\ chmods' = chmods + 1
    /\ loose' = ~loose
    /\ UNCHANGED <<priv, pub, baks, clock, made, daemon, rotation, signed, torn>>

Second ==
    /\ clock < MaxTime
    /\ clock' = clock + 1
    /\ UNCHANGED <<files, baks, made, chmods, daemon, rotation, signed, torn>>

Next ==
    \/ Start
    \/ Sign
    \/ DropLoose
    \/ Reload
    \/ Access
    \/ ReadPriv
    \/ ReadPub
    \/ Create
    \/ CreatePriv
    \/ CreatePub
    \/ DaemonDies
    \/ RotateBegin
    \/ BackupPriv
    \/ BackupPub
    \/ WritePriv
    \/ WritePub
    \/ WritePubFails
    \/ Restore
    \/ PrunePriv
    \/ PrunePub
    \/ RotationDies
    \/ Chmod
    \/ Second

Spec == Init /\ [][Next]_vars

-----------------------------------------------------------------------------
(* Properties. *)

\* The types of the flags.
FlagTypes ==
    /\ loose \in BOOLEAN
    /\ serving \in BOOLEAN
    /\ loaded \in BOOLEAN
    /\ torn \in BOOLEAN

\* The types of the rest of the state.
DataTypes ==
    /\ priv \in AnyKey /\ pub \in AnyKey
    /\ privBaks \in [Times -> AnyKey \cup {Cut}]
    /\ pubBaks \in [Times -> AnyKey \cup {Cut}]
    /\ clock \in Times /\ made \in 0 .. MaxKeys /\ chmods \in 0 .. MaxChmods
    /\ dPc \in {"off", "access", "readPriv", "readPub", "createPriv",
                "createPub", "up"}
    /\ dPriv \in AnyKey /\ dPub \in AnyKey
    /\ rPc \in {"off", "bakPriv", "bakPub", "writePriv", "writePub", "restore",
                "prunePriv", "prunePub"}
    /\ rNew \in AnyKey /\ rPriv \in AnyKey /\ rPub \in AnyKey /\ rTs \in Times
    /\ signed \subseteq AnyKey \X AnyKey

\* Every variable has its type.
TypeOK == FlagTypes /\ DataTypes

\* Every manifest is signed with the private half of the public key that is
\* sent along, also when a rotation replaces the files while the daemon reads
\* them, or died between the two.
SignsMatching == \A s \in signed : s[1] = s[2] /\ s[1] \in Keys

\* A private key that has signed a manifest is on disk, live or as a backup,
\* until Keep later backups have been begun: no failure and no crash of a
\* rotation loses it.
PublishedKept ==
    \A s \in signed :
        \/ s[1] = priv
        \/ \E t \in Times : privBaks[t] = s[1]
        \/ Cardinality({t \in Times : privBaks[t] > s[1]}) >= Keep

\* When nobody is writing, the two files belong together, unless a crash or a
\* second failure hit between the two writes; a failed rotation is rolled back,
\* a failed creation removed, and a rotation that ends repairs the pair.
PairIntact == rPc = "off" /\ ~Creating /\ ~torn => priv = pub
=============================================================================
