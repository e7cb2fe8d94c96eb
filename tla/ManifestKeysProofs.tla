------------------------ MODULE ManifestKeysProofs ------------------------
(***************************************************************************)
(* Proofs about ManifestKeys, for every number of backups kept, of keys    *)
(* generated and of seconds.                                               *)
(***************************************************************************)
EXTENDS ManifestKeys, FiniteSetTheorems, WellFoundedInduction, TLAPS

-----------------------------------------------------------------------------
(* The inductive invariant. *)

\* The keys in the memory of the daemon belong together once it has them all.
MemoryInv ==
    /\ loaded => dPc = "up" /\ dPriv = dPub /\ dPriv \in Keys
    /\ Creating => dPriv = dPub /\ dPriv \in Keys
    /\ dPc = "readPub" => dPriv \in Keys

\* What is on disk at each step of a creation, and that it runs alone.
CreationInv ==
    /\ rPc # "off" => ~Creating
    /\ dPc = "createPriv" /\ ~torn => priv = NoKey /\ pub = NoKey
    /\ dPc = "createPub" => priv = dPriv
    /\ dPc = "createPub" /\ ~torn => pub = NoKey

\* What is on disk at each step of a rotation.
RotationInv ==
    /\ rPc # "off" => rNew \in Keys
    /\ rPc \in {"bakPriv", "bakPub", "writePriv"} /\ ~torn =>
            /\ priv = pub
            /\ rPriv = priv
    /\ rPc \in {"writePub", "restore"} => priv = rNew
    /\ rPc \in {"writePub", "restore"} /\ ~torn => pub = rPriv
    /\ rPc = "restore" => rPriv # NoKey
    /\ rPc \in {"prunePriv", "prunePub"} => priv = pub

IInv ==
    /\ TypeOK
    /\ MemoryInv
    /\ CreationInv
    /\ RotationInv
    /\ SignsMatching
    /\ PairIntact

USE KeepAssumption, BoundsAssumption

-----------------------------------------------------------------------------
(* Each part is preserved by each action. *)

\* Flags stay flags.
LEMMA FlagStep ==
    FlagTypes /\ [Next]_vars => FlagTypes'
<1> SUFFICES ASSUME FlagTypes, [Next]_vars
             PROVE  FlagTypes'
  OBVIOUS
<1> USE DEF FlagTypes
<1>1. CASE Start
  BY <1>1 DEF Start, files, baks, daemon, rotation
<1>2. CASE Sign
  BY <1>2 DEF Sign, files, baks, daemon, rotation
<1>3. CASE DropLoose
  BY <1>3 DEF DropLoose, files, baks, daemon, rotation
<1>4. CASE Reload
  BY <1>4 DEF Reload, files, baks, daemon, rotation
<1>5. CASE Access
  BY <1>5 DEF Access, LoadFails, files, baks, daemon, rotation
<1>6. CASE ReadPriv
  BY <1>6 DEF ReadPriv, LoadFails, files, baks, daemon, rotation
<1>7. CASE ReadPub
  BY <1>7 DEF ReadPub, manifest_keys_pub_matches_priv, LoadDone, LoadFails,
     files, baks, daemon, rotation
<1>8. CASE Create
  BY <1>8 DEF Create, Alone, files, baks, daemon, rotation
<1>9. CASE CreatePriv
  BY <1>9 DEF CreatePriv, LoadFails, files, baks, daemon, rotation
<1>10. CASE CreatePub
  BY <1>10 DEF CreatePub, LoadDone, LoadFails, unlink_priv, files, baks,
     daemon, rotation
<1>11. CASE DaemonDies
  BY <1>11 DEF DaemonDies, files, baks, daemon, rotation
<1>12. CASE RotateBegin
  BY <1>12 DEF RotateBegin, had_old_keys, files, baks, daemon, rotation
<1>13. CASE BackupPriv
  BY <1>13 DEF BackupPriv, files, baks, daemon, rotation
<1>14. CASE BackupPub
  BY <1>14 DEF BackupPub, files, baks, daemon, rotation
<1>15. CASE WritePriv
  BY <1>15 DEF WritePriv, files, baks, daemon, rotation
<1>16. CASE WritePub
  BY <1>16 DEF WritePub, files, baks, daemon, rotation
<1>17. CASE WritePubFails
  BY <1>17 DEF WritePubFails, unlink_priv, files, baks, daemon, rotation
<1>18. CASE Restore
  BY <1>18 DEF Restore, restored, files, baks, daemon, rotation
<1>19. CASE PrunePriv
  BY <1>19 DEF PrunePriv, files, baks, daemon, rotation
<1>20. CASE PrunePub
  BY <1>20 DEF PrunePub, files, baks, daemon, rotation
<1>21. CASE RotationDies
  BY <1>21 DEF RotationDies, files, baks, daemon, rotation
<1>22. CASE Chmod
  BY <1>22 DEF Chmod, files, baks, daemon, rotation
<1>23. CASE Second
  BY <1>23 DEF Second, files, baks, daemon, rotation
<1>24. CASE UNCHANGED vars
  BY <1>24 DEF vars
<1> QED
  BY <1>1, <1>2, <1>3, <1>4, <1>5, <1>6, <1>7, <1>8, <1>9, <1>10, <1>11,
     <1>12, <1>13, <1>14, <1>15, <1>16, <1>17, <1>18, <1>19, <1>20, <1>21,
     <1>22, <1>23, <1>24 DEF Next

\* The other types are preserved.
LEMMA DataStep ==
    DataTypes /\ [Next]_vars => DataTypes'
<1> SUFFICES ASSUME DataTypes, [Next]_vars
             PROVE  DataTypes'
  OBVIOUS
<1> USE DEF DataTypes, AnyKey, Keys, NoKey, Times
<1>1. CASE Start
  BY <1>1 DEF Start, files, baks, daemon, rotation
<1>2. CASE Sign
  BY <1>2 DEF Sign, files, baks, daemon, rotation
<1>3. CASE DropLoose
  BY <1>3 DEF DropLoose, files, baks, daemon, rotation
<1>4. CASE Reload
  BY <1>4 DEF Reload, files, baks, daemon, rotation
<1>5. CASE Access
  BY <1>5 DEF Access, LoadFails, files, baks, daemon, rotation
<1>6. CASE ReadPriv
  BY <1>6 DEF ReadPriv, LoadFails, files, baks, daemon, rotation
<1>7. CASE ReadPub
  BY <1>7 DEF ReadPub, manifest_keys_pub_matches_priv, LoadDone, LoadFails,
     files, baks, daemon, rotation
<1>8. CASE Create
  BY <1>8 DEF Create, Alone, files, baks, daemon, rotation
<1>9. CASE CreatePriv
  BY <1>9 DEF CreatePriv, LoadFails, files, baks, daemon, rotation
<1>10. CASE CreatePub
  BY <1>10 DEF CreatePub, LoadDone, LoadFails, unlink_priv, files, baks,
     daemon, rotation
<1>11. CASE DaemonDies
  BY <1>11 DEF DaemonDies, files, baks, daemon, rotation
<1>12. CASE RotateBegin
  BY <1>12 DEF RotateBegin, had_old_keys, files, baks, daemon, rotation
<1>13. CASE BackupPriv
  BY <1>13 DEF BackupPriv, files, baks, daemon, rotation
<1>14. CASE BackupPub
  BY <1>14 DEF BackupPub, files, baks, daemon, rotation
<1>15. CASE WritePriv
  BY <1>15 DEF WritePriv, files, baks, daemon, rotation
<1>16. CASE WritePub
  BY <1>16 DEF WritePub, files, baks, daemon, rotation
<1>17. CASE WritePubFails
  BY <1>17 DEF WritePubFails, unlink_priv, files, baks, daemon, rotation
<1>18. CASE Restore
  BY <1>18 DEF Restore, restored, files, baks, daemon, rotation
<1>19. CASE PrunePriv
  BY <1>19 DEF PrunePriv, files, baks, daemon, rotation
<1>20. CASE PrunePub
  BY <1>20 DEF PrunePub, files, baks, daemon, rotation
<1>21. CASE RotationDies
  <2>1. (privBaks \in [Times -> AnyKey \cup {Cut}]
           /\ pubBaks \in [Times -> AnyKey \cup {Cut}])'
    BY <1>21 DEF RotationDies, CutBackup, baks, Cut
  <2> QED
    BY <1>21, <2>1 DEF RotationDies, files, daemon, rotation
<1>22. CASE Chmod
  BY <1>22 DEF Chmod, files, baks, daemon, rotation
<1>23. CASE Second
  BY <1>23 DEF Second, files, baks, daemon, rotation
<1>24. CASE UNCHANGED vars
  BY <1>24 DEF vars
<1> QED
  BY <1>1, <1>2, <1>3, <1>4, <1>5, <1>6, <1>7, <1>8, <1>9, <1>10, <1>11,
     <1>12, <1>13, <1>14, <1>15, <1>16, <1>17, <1>18, <1>19, <1>20, <1>21,
     <1>22, <1>23, <1>24 DEF Next

\* What the daemon holds stays a matching pair: the check in
\* manifest_keys_load_from_disk is what a load during a rotation needs.
LEMMA MemoryStep ==
    DataTypes /\ MemoryInv /\ [Next]_vars => MemoryInv'
<1> SUFFICES ASSUME DataTypes, MemoryInv, [Next]_vars
             PROVE  MemoryInv'
  OBVIOUS
<1> USE DEF DataTypes, AnyKey, MemoryInv, Creating, Keys, NoKey
<1>1. CASE Start
  BY <1>1 DEF Start, files, baks, daemon, rotation
<1>2. CASE Sign
  BY <1>2 DEF Sign, files, baks, daemon, rotation
<1>3. CASE DropLoose
  BY <1>3 DEF DropLoose, files, baks, daemon, rotation
<1>4. CASE Reload
  BY <1>4 DEF Reload, files, baks, daemon, rotation
<1>5. CASE Access
  BY <1>5 DEF Access, LoadFails, files, baks, daemon, rotation
<1>6. CASE ReadPriv
  BY <1>6 DEF ReadPriv, LoadFails, files, baks, daemon, rotation
<1>7. CASE ReadPub
  BY <1>7 DEF ReadPub, manifest_keys_pub_matches_priv, LoadDone, LoadFails,
     files, baks, daemon, rotation
<1>8. CASE Create
  BY <1>8 DEF Create, Alone, files, baks, daemon, rotation
<1>9. CASE CreatePriv
  BY <1>9 DEF CreatePriv, LoadFails, files, baks, daemon, rotation
<1>10. CASE CreatePub
  BY <1>10 DEF CreatePub, LoadDone, LoadFails, unlink_priv, files, baks,
     daemon, rotation
<1>11. CASE DaemonDies
  BY <1>11 DEF DaemonDies, files, baks, daemon, rotation
<1>12. CASE RotateBegin
  BY <1>12 DEF RotateBegin, had_old_keys, files, baks, daemon, rotation
<1>13. CASE BackupPriv
  BY <1>13 DEF BackupPriv, files, baks, daemon, rotation
<1>14. CASE BackupPub
  BY <1>14 DEF BackupPub, files, baks, daemon, rotation
<1>15. CASE WritePriv
  BY <1>15 DEF WritePriv, files, baks, daemon, rotation
<1>16. CASE WritePub
  BY <1>16 DEF WritePub, files, baks, daemon, rotation
<1>17. CASE WritePubFails
  BY <1>17 DEF WritePubFails, unlink_priv, files, baks, daemon, rotation
<1>18. CASE Restore
  BY <1>18 DEF Restore, restored, files, baks, daemon, rotation
<1>19. CASE PrunePriv
  BY <1>19 DEF PrunePriv, files, baks, daemon, rotation
<1>20. CASE PrunePub
  BY <1>20 DEF PrunePub, files, baks, daemon, rotation
<1>21. CASE RotationDies
  BY <1>21 DEF RotationDies, files, baks, daemon, rotation
<1>22. CASE Chmod
  BY <1>22 DEF Chmod, files, baks, daemon, rotation
<1>23. CASE Second
  BY <1>23 DEF Second, files, baks, daemon, rotation
<1>24. CASE UNCHANGED vars
  BY <1>24 DEF vars
<1> QED
  BY <1>1, <1>2, <1>3, <1>4, <1>5, <1>6, <1>7, <1>8, <1>9, <1>10, <1>11,
     <1>12, <1>13, <1>14, <1>15, <1>16, <1>17, <1>18, <1>19, <1>20, <1>21,
     <1>22, <1>23, <1>24 DEF Next

\* Only what the daemon holds as loaded is used to sign.
LEMMA SignsStep ==
    MemoryInv /\ SignsMatching /\ [Next]_vars => SignsMatching'
<1> SUFFICES ASSUME MemoryInv, SignsMatching, [Next]_vars
             PROVE  SignsMatching'
  OBVIOUS
<1> USE DEF MemoryInv, SignsMatching, Creating, Keys, NoKey
<1>1. CASE Start
  BY <1>1 DEF Start, files, baks, daemon, rotation
<1>2. CASE Sign
  BY <1>2 DEF Sign, files, baks, daemon, rotation
<1>3. CASE DropLoose
  BY <1>3 DEF DropLoose, files, baks, daemon, rotation
<1>4. CASE Reload
  BY <1>4 DEF Reload, files, baks, daemon, rotation
<1>5. CASE Access
  BY <1>5 DEF Access, LoadFails, files, baks, daemon, rotation
<1>6. CASE ReadPriv
  BY <1>6 DEF ReadPriv, LoadFails, files, baks, daemon, rotation
<1>7. CASE ReadPub
  BY <1>7 DEF ReadPub, manifest_keys_pub_matches_priv, LoadDone, LoadFails,
     files, baks, daemon, rotation
<1>8. CASE Create
  BY <1>8 DEF Create, Alone, files, baks, daemon, rotation
<1>9. CASE CreatePriv
  BY <1>9 DEF CreatePriv, LoadFails, files, baks, daemon, rotation
<1>10. CASE CreatePub
  BY <1>10 DEF CreatePub, LoadDone, LoadFails, unlink_priv, files, baks,
     daemon, rotation
<1>11. CASE DaemonDies
  BY <1>11 DEF DaemonDies, files, baks, daemon, rotation
<1>12. CASE RotateBegin
  BY <1>12 DEF RotateBegin, had_old_keys, files, baks, daemon, rotation
<1>13. CASE BackupPriv
  BY <1>13 DEF BackupPriv, files, baks, daemon, rotation
<1>14. CASE BackupPub
  BY <1>14 DEF BackupPub, files, baks, daemon, rotation
<1>15. CASE WritePriv
  BY <1>15 DEF WritePriv, files, baks, daemon, rotation
<1>16. CASE WritePub
  BY <1>16 DEF WritePub, files, baks, daemon, rotation
<1>17. CASE WritePubFails
  BY <1>17 DEF WritePubFails, unlink_priv, files, baks, daemon, rotation
<1>18. CASE Restore
  BY <1>18 DEF Restore, restored, files, baks, daemon, rotation
<1>19. CASE PrunePriv
  BY <1>19 DEF PrunePriv, files, baks, daemon, rotation
<1>20. CASE PrunePub
  BY <1>20 DEF PrunePub, files, baks, daemon, rotation
<1>21. CASE RotationDies
  BY <1>21 DEF RotationDies, files, baks, daemon, rotation
<1>22. CASE Chmod
  BY <1>22 DEF Chmod, files, baks, daemon, rotation
<1>23. CASE Second
  BY <1>23 DEF Second, files, baks, daemon, rotation
<1>24. CASE UNCHANGED vars
  BY <1>24 DEF vars
<1> QED
  BY <1>1, <1>2, <1>3, <1>4, <1>5, <1>6, <1>7, <1>8, <1>9, <1>10, <1>11,
     <1>12, <1>13, <1>14, <1>15, <1>16, <1>17, <1>18, <1>19, <1>20, <1>21,
     <1>22, <1>23, <1>24 DEF Next

\* The states of the files during a creation and a rotation, and after them.
LEMMA DiskStep ==
    DataTypes /\ MemoryInv /\ CreationInv /\ RotationInv /\ PairIntact /\
     [Next]_vars => (CreationInv /\ RotationInv /\ PairIntact)'
<1> SUFFICES ASSUME DataTypes, MemoryInv, CreationInv, RotationInv,
     PairIntact, [Next]_vars
             PROVE  (CreationInv /\ RotationInv /\ PairIntact)'
  OBVIOUS
<1> USE DEF DataTypes, AnyKey, Keys, NoKey, MemoryInv, CreationInv,
     RotationInv, PairIntact, Creating
<1>1. CASE Start
  BY <1>1 DEF Start, files, baks, daemon, rotation
<1>2. CASE Sign
  BY <1>2 DEF Sign, files, baks, daemon, rotation
<1>3. CASE DropLoose
  BY <1>3 DEF DropLoose, files, baks, daemon, rotation
<1>4. CASE Reload
  BY <1>4 DEF Reload, files, baks, daemon, rotation
<1>5. CASE Access
  BY <1>5 DEF Access, LoadFails, files, baks, daemon, rotation
<1>6. CASE ReadPriv
  BY <1>6 DEF ReadPriv, LoadFails, files, baks, daemon, rotation
<1>7. CASE ReadPub
  BY <1>7 DEF ReadPub, manifest_keys_pub_matches_priv, LoadDone, LoadFails,
     files, baks, daemon, rotation
<1>8. CASE Create
  BY <1>8 DEF Create, Alone, files, baks, daemon, rotation
<1>9. CASE CreatePriv
  BY <1>9 DEF CreatePriv, LoadFails, files, baks, daemon, rotation
<1>10. CASE CreatePub
  BY <1>10 DEF CreatePub, LoadDone, LoadFails, unlink_priv, files, baks,
     daemon, rotation
<1>11. CASE DaemonDies
  BY <1>11 DEF DaemonDies, files, baks, daemon, rotation
<1>12. CASE RotateBegin
  BY <1>12 DEF RotateBegin, had_old_keys, files, baks, daemon, rotation
<1>13. CASE BackupPriv
  BY <1>13 DEF BackupPriv, files, baks, daemon, rotation
<1>14. CASE BackupPub
  BY <1>14 DEF BackupPub, files, baks, daemon, rotation
<1>15. CASE WritePriv
  BY <1>15 DEF WritePriv, files, baks, daemon, rotation
<1>16. CASE WritePub
  BY <1>16 DEF WritePub, files, baks, daemon, rotation
<1>17. CASE WritePubFails
  BY <1>17 DEF WritePubFails, unlink_priv, files, baks, daemon, rotation
<1>18. CASE Restore
  BY <1>18 DEF Restore, restored, files, baks, daemon, rotation
<1>19. CASE PrunePriv
  BY <1>19 DEF PrunePriv, files, baks, daemon, rotation
<1>20. CASE PrunePub
  BY <1>20 DEF PrunePub, files, baks, daemon, rotation
<1>21. CASE RotationDies
  BY <1>21 DEF RotationDies, files, baks, daemon, rotation
<1>22. CASE Chmod
  BY <1>22 DEF Chmod, files, baks, daemon, rotation
<1>23. CASE Second
  BY <1>23 DEF Second, files, baks, daemon, rotation
<1>24. CASE UNCHANGED vars
  BY <1>24 DEF vars
<1> QED
  BY <1>1, <1>2, <1>3, <1>4, <1>5, <1>6, <1>7, <1>8, <1>9, <1>10, <1>11,
     <1>12, <1>13, <1>14, <1>15, <1>16, <1>17, <1>18, <1>19, <1>20, <1>21,
     <1>22, <1>23, <1>24 DEF Next

-----------------------------------------------------------------------------
(* Theorems. *)

\* The inductive invariant holds in every reachable state of the key files, the
\* daemon and the rotation.
THEOREM KeysInvariance == Spec => []IInv
<1>1. Init => IInv
  <2> SUFFICES ASSUME Init PROVE IInv
    OBVIOUS
  <2>1. FlagTypes
    BY DEF Init, FlagTypes
  <2>2. DataTypes
    BY DEF Init, DataTypes, AnyKey, Keys, NoKey, Times
  <2>3. MemoryInv /\ CreationInv /\ RotationInv
    BY DEF Init, MemoryInv, CreationInv, RotationInv, Creating
  <2>4. SignsMatching /\ PairIntact
    BY DEF Init, SignsMatching, PairIntact
  <2> QED
    BY <2>1, <2>2, <2>3, <2>4 DEF IInv, TypeOK
<1>2. IInv /\ [Next]_vars => IInv'
  BY FlagStep, DataStep, MemoryStep, SignsStep, DiskStep DEF IInv, TypeOK
<1> QED
  BY <1>1, <1>2, PTL DEF Spec

\* The type invariant of the key files and of the two processes.
THEOREM KeysTypeCorrect == Spec => []TypeOK
<1>1. IInv => TypeOK
  BY DEF IInv
<1> QED
  BY <1>1, KeysInvariance, PTL

\* A manifest is never signed with one pair and published with the public key
\* of another, whatever a rotation does meanwhile (manifest_keys_load).
THEOREM SignaturesMatch == Spec => []SignsMatching
<1>1. IInv => SignsMatching
  BY DEF IInv
<1> QED
  BY <1>1, KeysInvariance, PTL

\* Creation and rotation leave a matching pair on every path but a crash or a
\* second failure (manifest_keys_create_and_persist, manifest_keys_rotate).
THEOREM FilesMatch == Spec => []PairIntact
<1>1. IInv => PairIntact
  BY DEF IInv
<1> QED
  BY <1>1, KeysInvariance, PTL

-----------------------------------------------------------------------------
(* Where the keys that were published are. *)

\* The keys that signed a manifest or may sign the next one.
Used == {s[1] : s \in signed} \cup {k \in {dPriv} : loaded} \cup {k \in {pub} : pub # NoKey}

\* The steps of a rotation up to the pair on disk, and the private key that is
\* there before it or when it is rolled back.
Replacing == {"bakPriv", "bakPub", "writePriv", "writePub", "restore"}
Base == IF rPc \in {"writePub", "restore"} THEN rPriv ELSE priv

\* No key is used, and no backup written, before there is a public key.
EmptyInv ==
    /\ pub = NoKey => signed = {} /\ ~loaded /\ \A t \in Times : privBaks[t] = NoKey
    /\ pub # NoKey => priv # NoKey
    /\ dPc = "createPriv" => priv = NoKey
    /\ Creating => pub = NoKey
    /\ rPc \in Replacing => (rPriv = NoKey <=> pub = NoKey)
    /\ rPc \in {"bakPriv", "bakPub", "writePriv"} => rPriv \in {priv, NoKey}
    /\ rPc \in {"bakPriv", "bakPub"} => rPriv # NoKey

\* The key on disk is the youngest but for the one a rotation has generated.
NewestInv ==
    /\ \A k \in Used : k \in Keys /\ k <= Base
    /\ \A t \in Times : privBaks[t] \in Keys => privBaks[t] <= Base
    /\ rPc \in Replacing => Base < rNew
    /\ priv <= made
    /\ Creating => dPriv <= made
    /\ rPc \in Replacing => rNew <= made

\* Backups are in the order of their keys, and the running rotation has the last.
BackupInv ==
    /\ \A t \in Times : privBaks[t] # NoKey => t <= clock
    /\ rPc \in Replacing => rTs <= clock
    /\ rPc = "bakPriv" => \A t \in Times : privBaks[t] # NoKey => t < rTs
    /\ rPc \in Replacing \ {"bakPriv"} /\ rPriv # NoKey => privBaks[rTs] = rPriv
    /\ \A t, u \in Times :
          t < u /\ privBaks[t] \in Keys /\ privBaks[u] # NoKey => privBaks[t] <= privBaks[u]

\* Private key k is on disk, or was passed by Keep later backups.
Later(t) == {u \in Times : u > t /\ privBaks[u] # NoKey}
Passed(k) ==
    \E t \in Times : Cardinality(Later(t)) >= Keep /\ \A u \in Later(t) : privBaks[u] > k
OnDisk(k) == k = priv \/ \E t \in Times : privBaks[t] = k
HeldInv == \A k \in Used : OnDisk(k) \/ Passed(k)

HistoryInv == EmptyInv /\ NewestInv /\ BackupInv /\ HeldInv

\* Every nonempty set of seconds has a last one.
LEMMA LastTime ==
    ASSUME NEW S, S \subseteq Times, S # {}
    PROVE  \E t \in S : \A u \in S : u <= t
<1> DEFINE D == {MaxTime - t : t \in S}
<1>1. D \subseteq Nat /\ D # {}
  BY DEF Times
<1>2. PICK d \in D : \A e \in D : <<e, d>> \notin OpToRel(<, Nat)
  BY <1>1, NatLessThanWellFounded, WFMin
<1>3. \A e \in D : ~(e < d)
  BY <1>1, <1>2 DEF OpToRel
<1>4. PICK t \in S : d = MaxTime - t
  OBVIOUS
<1>5. ASSUME NEW u \in S PROVE u <= t
  <2>1. MaxTime - u \in D
    OBVIOUS
  <2>2. ~(MaxTime - u < MaxTime - t)
    BY <1>3, <1>4, <2>1
  <2> QED
    BY <2>2 DEF Times
<1> QED
  BY <1>5

\* There are finitely many backups, and with more backups there are not fewer later ones.
LEMMA TimesFinite ==
    ASSUME NEW S, NEW T, S \subseteq T, T \subseteq Times
    PROVE  IsFiniteSet(T) /\ Cardinality(S) \in Nat /\ Cardinality(T) \in Nat /\ Cardinality(S) <= Cardinality(T)
<1>1. IsFiniteSet(Times)
  BY FS_Interval DEF Times
<1>2. IsFiniteSet(T)
  BY <1>1, FS_Subset
<1> QED
  BY <1>2, FS_Subset, FS_CardinalityType

\* Whatever is pruned, Keep of the backups seen that are later are left.
LEMMA PruneLeaves ==
    ASSUME NEW seen, seen \subseteq Times, NEW t \in Pruned(seen)
    PROVE  Cardinality({u \in seen \ Pruned(seen) : u > t}) >= Keep
<1>1. Pruned(seen) \subseteq Times
  BY DEF Pruned
<1>2. PICK m \in Pruned(seen) : \A u \in Pruned(seen) : u <= m
  BY <1>1, LastTime
<1> DEFINE S == {u \in seen : u > m}
           T == {u \in seen \ Pruned(seen) : u > t}
<1>3. Cardinality(S) >= Keep
  BY <1>2 DEF Pruned
<1>4. S \subseteq T
  <2> SUFFICES ASSUME NEW u \in seen, u > m PROVE u \in T
    OBVIOUS
  <2>1. u \in Int /\ m \in Int /\ t \in Int /\ t <= m
    BY <1>1, <1>2 DEF Times
  <2>2. u \notin Pruned(seen)
    BY <1>2, <2>1
  <2> QED
    BY <2>1, <2>2
<1>5. Cardinality(S) \in Nat /\ Cardinality(T) \in Nat /\ Cardinality(S) <= Cardinality(T)
  <2> HIDE DEF S
  <2> QED
    BY <1>4, TimesFinite
<1> QED
  BY <1>3, <1>5

\* A key that is on disk or was passed stays so while the backups only grow.
LEMMA StaysHeld ==
    ASSUME DataTypes, NEW k \in Keys, OnDisk(k) \/ Passed(k), priv' = priv \/ k # priv,
           privBaks' \in [Times -> AnyKey \cup {Cut}],
           \A t \in Times : privBaks[t] # NoKey => privBaks'[t] = privBaks[t],
           \A t \in Times : privBaks[t] = NoKey => privBaks'[t] = NoKey \/ privBaks'[t] >= k
    PROVE  (k = priv /\ k = priv') \/ (\E t \in Times : privBaks'[t] = k) \/ Passed(k)'
<1>1. CASE k = priv
  BY <1>1
<1>2. CASE \E t \in Times : privBaks[t] = k
  BY <1>2 DEF Keys, NoKey
<1>3. CASE Passed(k) /\ ~\E t \in Times : privBaks'[t] = k
  <2>1. PICK t \in Times : Cardinality(Later(t)) >= Keep /\ \A u \in Later(t) : privBaks[u] > k
    BY <1>3 DEF Passed
  <2>2. Later(t) \subseteq Later(t)' /\ Later(t)' \subseteq Times
    BY DEF Later
  <2>3. Cardinality(Later(t)') >= Keep
    BY <2>1, <2>2, TimesFinite
  <2>4. \A u \in Later(t)' : privBaks'[u] > k
    <3> SUFFICES ASSUME NEW u \in Times, u > t, privBaks'[u] # NoKey PROVE privBaks'[u] > k
      BY DEF Later
    <3>1. privBaks'[u] \in Int /\ k \in Int /\ privBaks'[u] # k
      BY <1>3 DEF AnyKey, Keys, NoKey, Cut
    <3>2. CASE privBaks[u] # NoKey
      BY <2>1, <3>2 DEF Later
    <3>3. CASE privBaks[u] = NoKey
      BY <3>1, <3>3
    <3> QED
      BY <3>2, <3>3
  <2> QED
    BY <2>3, <2>4 DEF Passed
<1> QED
  BY <1>1, <1>2, <1>3 DEF OnDisk

\* Steps that leave the files and the rotation alone and use no other key.
LEMMA HistoryKept ==
    ASSUME HistoryInv, DataTypes, UNCHANGED <<priv, pub, privBaks, rPriv, rNew, rTs, rPc>>,
           made' \in Nat, made' >= made, clock' \in Nat, clock' >= clock,
           Used' \subseteq Used, pub = NoKey => signed' = {} /\ ~loaded',
           dPc' = "createPriv" => priv = NoKey, Creating' => pub = NoKey /\ dPriv' <= made'
    PROVE  HistoryInv'
<1>1. EmptyInv'
  BY DEF HistoryInv, EmptyInv
<1>2. Base' = Base
  BY DEF Base
<1>3. NewestInv'
  BY <1>2 DEF HistoryInv, NewestInv, DataTypes, AnyKey, Keys, NoKey
<1>4. BackupInv'
  BY DEF HistoryInv, BackupInv, DataTypes, Times
<1>5. HeldInv'
  BY DEF HistoryInv, HeldInv, OnDisk, Passed, Later
<1> QED
  BY <1>1, <1>3, <1>4, <1>5 DEF HistoryInv

\* The daemon uses a key only when it has read its public half from disk.
LEMMA DaemonHistory ==
    ASSUME HistoryInv, IInv,
           \/ Start \/ Sign \/ DropLoose \/ Reload \/ Access \/ ReadPriv \/ ReadPub \/ Create
           \/ DaemonDies \/ Chmod \/ Second \/ UNCHANGED vars
    PROVE  HistoryInv'
<1> USE DEF IInv, TypeOK, files, baks, daemon, rotation
<1>1. DataTypes /\ MemoryInv /\ EmptyInv /\ (Creating => dPriv <= made)
  BY DEF HistoryInv, NewestInv
<1>2. made \in Nat /\ clock \in Nat
  BY <1>1 DEF DataTypes, Times
<1>3. CASE Start \/ Reload
  BY <1>1, <1>2, <1>3, HistoryKept DEF Start, Reload, Used, EmptyInv, Creating, MemoryInv
<1>4. CASE Sign
  BY <1>1, <1>2, <1>4, HistoryKept DEF Sign, Used, EmptyInv, Creating
<1>5. CASE DropLoose
  BY <1>1, <1>2, <1>5, HistoryKept DEF DropLoose, Used, EmptyInv, Creating
<1>6. CASE Access
  BY <1>1, <1>2, <1>6, HistoryKept DEF Access, LoadFails, Used, EmptyInv, Creating
<1>7. CASE ReadPriv
  BY <1>1, <1>2, <1>7, HistoryKept DEF ReadPriv, LoadFails, Used, EmptyInv, Creating, MemoryInv
<1>8. CASE ReadPub
  BY <1>1, <1>2, <1>8, HistoryKept
     DEF ReadPub, manifest_keys_pub_matches_priv, LoadDone, LoadFails, Used, EmptyInv, Creating, MemoryInv
<1>9. CASE Create
  BY <1>1, <1>2, <1>9, HistoryKept DEF Create, Used, EmptyInv, Creating, MemoryInv
<1>10. CASE DaemonDies
  BY <1>1, <1>2, <1>10, HistoryKept DEF DaemonDies, Used, EmptyInv, Creating
<1>11. CASE Chmod
  BY <1>1, <1>2, <1>11, HistoryKept DEF Chmod, Used, EmptyInv, Creating
<1>12. CASE Second
  BY <1>1, <1>2, <1>12, HistoryKept DEF Second, Used, EmptyInv, Creating
<1>13. CASE UNCHANGED vars
  BY <1>1, <1>2, <1>13, HistoryKept DEF vars, Used, EmptyInv, Creating
<1> QED
  BY <1>3, <1>4, <1>5, <1>6, <1>7, <1>8, <1>9, <1>10, <1>11, <1>12, <1>13

\* A creation begins with no file and ends with both or none.
LEMMA CreationHistory ==
    ASSUME HistoryInv, IInv, CreatePriv \/ CreatePub
    PROVE  HistoryInv'
<1> USE DEF IInv, TypeOK, files, baks, daemon, rotation
<1>1. DataTypes /\ MemoryInv /\ CreationInv /\ EmptyInv /\ NewestInv /\ BackupInv /\ Creating
  BY DEF HistoryInv, CreatePriv, CreatePub, Creating
<1>2. rPc = "off" /\ pub = NoKey /\ ~loaded /\ signed = {} /\ \A t \in Times : privBaks[t] = NoKey
  BY <1>1 DEF CreationInv, EmptyInv
<1>3. /\ UNCHANGED <<privBaks, clock, made, rPc, rNew, rPriv, rTs, signed, dPriv, dPub>>
      /\ dPriv \in Keys /\ dPub = dPriv /\ priv' \in {priv, NoKey, dPriv}
      /\ pub' \in {NoKey, dPub} /\ (loaded' => pub' = dPub)
      /\ pub' # NoKey => priv' = dPriv
      /\ dPc' # "createPriv"
      /\ Creating' => pub' = NoKey
  BY <1>1, <1>2 DEF CreatePriv, CreatePub, LoadDone, LoadFails, unlink_priv, MemoryInv, CreationInv, Creating
<1>4. dPriv <= made
  BY <1>1 DEF NewestInv
<1>5. Used' \subseteq {dPriv} /\ (Used' # {} => priv' = dPriv)
  BY <1>2, <1>3 DEF Used, Keys, NoKey
<1>6. EmptyInv'
  BY <1>2, <1>3 DEF EmptyInv, Keys, NoKey, Replacing
<1>7. NewestInv'
  BY <1>1, <1>2, <1>3, <1>4, <1>5 DEF NewestInv, Creating, Base, Replacing, Keys, NoKey, DataTypes, AnyKey
<1>8. BackupInv'
  BY <1>1, <1>3 DEF BackupInv
<1>9. HeldInv'
  BY <1>3, <1>5 DEF HeldInv, OnDisk
<1> QED
  BY <1>6, <1>7, <1>8, <1>9 DEF HistoryInv

\* A rotation begins with what is on disk and a key younger than all.
LEMMA BeginHistory ==
    ASSUME HistoryInv, IInv, RotateBegin
    PROVE  HistoryInv'
<1> USE DEF IInv, TypeOK, files, baks, daemon, rotation
<1>1. DataTypes /\ EmptyInv /\ NewestInv /\ BackupInv
  BY DEF HistoryInv
<1>2. /\ rPc = "off" /\ ~Creating /\ rNew' = made + 1 /\ made' = made + 1 /\ rTs' = clock
      /\ rPriv' = IF had_old_keys THEN priv ELSE NoKey
      /\ rPc' = IF had_old_keys THEN "bakPriv" ELSE "writePriv"
      /\ privBaks[clock] = NoKey
      /\ UNCHANGED <<priv, pub, loose, privBaks, clock, dPc, loaded, dPriv, signed>>
  BY DEF RotateBegin, OncePerSecond
<1>3. had_old_keys <=> pub # NoKey
  BY <1>1 DEF had_old_keys, EmptyInv
<1>4. Used' = Used /\ Base' = Base /\ Base = priv
  BY <1>2 DEF Used, Base
<1>5. EmptyInv'
  BY <1>1, <1>2, <1>3 DEF EmptyInv, Creating, Replacing
<1>6. NewestInv'
  BY <1>1, <1>2, <1>4 DEF NewestInv, Creating, Replacing, DataTypes, AnyKey, Keys, NoKey
<1>7. BackupInv'
  <2>1. \A t \in Times : privBaks[t] # NoKey => t < clock
    BY <1>1, <1>2 DEF BackupInv, DataTypes, Times
  <2>2. ~had_old_keys => rPriv' = NoKey
    BY <1>2
  <2> QED
    BY <1>1, <1>2, <2>1, <2>2 DEF BackupInv, Replacing, DataTypes, Times
<1>8. HeldInv'
  BY <1>2, <1>4 DEF HistoryInv, HeldInv, OnDisk, Passed, Later
<1> QED
  BY <1>5, <1>6, <1>7, <1>8 DEF HistoryInv

\* Writing or cutting a backup of the private key in a second that has none.
LEMMA BackupHistory ==
    ASSUME HistoryInv, IInv, rPc = "bakPriv",
           UNCHANGED <<priv, pub, clock, made, loaded, dPriv, rNew, rPriv, rTs, signed, dPc>>,
           \/ privBaks' = [privBaks EXCEPT ![rTs] = rPriv] /\ rPc' = "bakPub"
           \/ privBaks' = [privBaks EXCEPT ![rTs] = NoKey] /\ rPc' = "off"
           \/ privBaks' = [privBaks EXCEPT ![rTs] = Cut] /\ rPc' = "off"
           \/ privBaks' = privBaks /\ rPc' = "off"
    PROVE  HistoryInv'
<1> USE DEF IInv, TypeOK
<1>1. DataTypes /\ EmptyInv /\ NewestInv /\ BackupInv /\ HeldInv
  BY DEF HistoryInv
<1>2. rTs \in Times /\ privBaks \in [Times -> AnyKey \cup {Cut}] /\ privBaks[rTs] = NoKey
  BY <1>1 DEF DataTypes, BackupInv, Times
<1>3. rPriv \in Keys /\ rPriv = priv /\ pub # NoKey
  BY <1>1 DEF DataTypes, EmptyInv, AnyKey, Keys, NoKey, Replacing
<1>4. /\ privBaks' \in [Times -> AnyKey \cup {Cut}]
      /\ \A t \in Times \ {rTs} : privBaks'[t] = privBaks[t]
      /\ privBaks'[rTs] \in {rPriv, NoKey, Cut}
      /\ rPc' = "bakPub" => privBaks'[rTs] = rPriv
      /\ rPc' \in {"bakPub", "off"}
  BY <1>2, <1>3 DEF AnyKey
<1>5. Used' = Used /\ Base' = Base /\ Base = priv
  BY <1>4 DEF Used, Base
<1>6. EmptyInv'
  BY <1>1, <1>3, <1>4 DEF EmptyInv, Creating, Replacing
<1>7. Cut \notin Keys /\ Cut > rPriv /\ Cut \in Int
  BY <1>3 DEF Cut, Keys
<1>8. NewestInv'
  BY <1>1, <1>3, <1>4, <1>5, <1>7 DEF NewestInv, Creating, Replacing, DataTypes, AnyKey, Keys, NoKey
<1>9. BackupInv'
  <2>1. \A t \in Times : privBaks'[t] # NoKey => t <= rTs
    BY <1>1, <1>2, <1>4 DEF BackupInv, Times
  <2>2. \A t \in Times : privBaks'[t] # NoKey => t <= clock'
    BY <1>1, <1>2, <2>1 DEF BackupInv, Times, DataTypes, Replacing
  <2>3. ASSUME NEW t \in Times, NEW u \in Times, t < u, privBaks'[t] \in Keys, privBaks'[u] # NoKey
        PROVE  privBaks'[t] <= privBaks'[u]
    <3>1. t # rTs
      BY <1>2, <2>1, <2>3 DEF Times
    <3>2. privBaks[t] \in Keys /\ privBaks'[t] = privBaks[t]
      BY <1>4, <2>3, <3>1
    <3>3. CASE u = rTs
      <4>1. privBaks[t] <= rPriv
        BY <1>1, <1>3, <1>5, <3>2 DEF NewestInv
      <4> QED
        BY <1>3, <1>4, <1>7, <2>3, <3>2, <3>3, <4>1 DEF Keys
    <3>4. CASE u # rTs
      BY <1>1, <1>4, <2>3, <3>2, <3>4 DEF BackupInv
    <3> QED
      BY <3>3, <3>4
  <2>4. rPc' \in Replacing => rTs' <= clock'
    BY <1>1 DEF BackupInv, Replacing
  <2> QED
    BY <1>4, <2>2, <2>3, <2>4 DEF BackupInv, Replacing
<1>10. HeldInv'
  <2> SUFFICES ASSUME NEW k \in Used PROVE (k = priv' \/ \E t \in Times : privBaks'[t] = k) \/ Passed(k)'
    BY <1>5 DEF HeldInv, OnDisk
  <2>1. k \in Keys /\ k <= rPriv
    BY <1>1, <1>3, <1>5 DEF NewestInv
  <2>2. \A t \in Times : privBaks[t] = NoKey => privBaks'[t] = NoKey \/ privBaks'[t] >= k
    BY <1>3, <1>4, <1>7, <2>1 DEF Keys
  <2>3. OnDisk(k) \/ Passed(k)
    BY <1>1 DEF HeldInv
  <2>4. \A t \in Times : privBaks[t] # NoKey => privBaks'[t] = privBaks[t]
    BY <1>2, <1>4
  <2> QED
    BY <1>1, <1>4, <2>1, <2>2, <2>3, <2>4, StaysHeld
<1> QED
  BY <1>6, <1>8, <1>9, <1>10 DEF HistoryInv

\* Steps of a rotation that leave the files of the private key alone.
LEMMA StageHistory ==
    ASSUME HistoryInv, IInv, UNCHANGED <<priv, pub, privBaks, clock, made, loaded, dPriv, rNew, rPriv,
                                          rTs, signed, dPc>>,
           Base' = Base, rPc' \in Replacing => rPc \in Replacing \ {"bakPriv"}, rPc' # "bakPriv",
           rPc' \in {"bakPub", "writePriv"} => rPc \in {"bakPub", "writePriv"},
           rPc' = "bakPub" => rPc = "bakPub"
    PROVE  HistoryInv'
<1>1. DataTypes /\ EmptyInv /\ NewestInv /\ BackupInv /\ HeldInv
  BY DEF HistoryInv, IInv, TypeOK
<1>2. Used' = Used
  BY DEF Used
<1>3. EmptyInv'
  BY <1>1 DEF EmptyInv, Creating, Replacing
<1>4. NewestInv'
  BY <1>1, <1>2 DEF NewestInv, Creating
<1>5. BackupInv'
  BY <1>1 DEF BackupInv
<1>6. HeldInv'
  BY <1>1, <1>2 DEF HeldInv, OnDisk, Passed, Later
<1> QED
  BY <1>3, <1>4, <1>5, <1>6 DEF HistoryInv

\* The new private key takes the place of the old one, which has its backup.
LEMMA WritePrivHistory ==
    ASSUME HistoryInv, IInv, WritePriv
    PROVE  HistoryInv'
<1> USE DEF IInv, TypeOK, files, baks, daemon, rotation
<1>1. DataTypes /\ EmptyInv /\ NewestInv /\ BackupInv /\ HeldInv /\ RotationInv /\ rPc = "writePriv"
  BY DEF HistoryInv, WritePriv
<1>2. CASE rPc' = "off" /\ UNCHANGED priv
  BY <1>1, <1>2, StageHistory DEF WritePriv, Base, Replacing
<1>3. CASE rPc' = "writePub" /\ priv' = rNew
  <2>1. UNCHANGED <<pub, privBaks, clock, made, dPc, loaded, dPriv, rNew, rPriv, rTs, signed>>
    BY <1>3 DEF WritePriv
  <2>2. rNew \in Keys /\ rNew <= made
    BY <1>1 DEF RotationInv, NewestInv, Replacing
  <2>3. Used' = Used /\ Base = priv /\ Base' = rPriv
    BY <1>1, <1>3, <2>1 DEF Used, Base
  <2>4. pub # NoKey => rPriv = priv /\ privBaks[rTs] = priv
    BY <1>1 DEF EmptyInv, BackupInv, Replacing
  <2>5. pub = NoKey => Used = {} /\ rPriv = NoKey /\ \A t \in Times : privBaks[t] = NoKey
    BY <1>1 DEF EmptyInv, Used, Replacing
  <2>6. EmptyInv'
    BY <1>1, <1>3, <2>1, <2>2 DEF EmptyInv, RotationInv, Keys, NoKey, Replacing, Creating, CreationInv
  <2>7. NewestInv'
    <3>1. Base' < rNew'
      BY <1>1, <2>1, <2>2, <2>3, <2>4, <2>5 DEF NewestInv, Creating, Replacing, Keys, NoKey
    <3> QED
      BY <1>1, <1>3, <2>1, <2>2, <2>3, <2>4, <2>5, <3>1 DEF NewestInv, Creating, Keys, NoKey
  <2>8. BackupInv'
    BY <1>1, <1>3, <2>1 DEF BackupInv, Replacing
  <2>9. HeldInv'
    <3>1. ASSUME NEW k \in Used, k = priv PROVE \E t \in Times : privBaks'[t] = k
      BY <1>1, <2>1, <2>4, <2>5, <3>1 DEF DataTypes
    <3> QED
      BY <1>1, <2>1, <2>3, <3>1 DEF HeldInv, OnDisk, Passed, Later
  <2> QED
    BY <2>6, <2>7, <2>8, <2>9 DEF HistoryInv
<1> QED
  BY <1>2, <1>3 DEF WritePriv

\* The public key follows: the new pair may be used from now on.
LEMMA WritePubHistory ==
    ASSUME HistoryInv, IInv, WritePub
    PROVE  HistoryInv'
<1> USE DEF IInv, TypeOK, files, baks, daemon, rotation
<1>1. /\ DataTypes /\ EmptyInv /\ NewestInv /\ BackupInv /\ HeldInv /\ RotationInv /\ CreationInv
      /\ rPc = "writePub" /\ rPc' \in {"prunePriv", "off"} /\ pub' = rNew
      /\ UNCHANGED <<priv, privBaks, clock, made, dPc, loaded, dPriv, rNew, rPriv, rTs, signed>>
  BY DEF HistoryInv, WritePub
<1>2. rNew \in Keys /\ priv = rNew /\ ~Creating
  BY <1>1 DEF RotationInv, CreationInv
<1>3. Used' \subseteq Used \cup {rNew} /\ Base = rPriv /\ Base' = rNew /\ Base < rNew
  BY <1>1, <1>2 DEF Used, Base, NewestInv, Replacing
<1>4. EmptyInv'
  BY <1>1, <1>2 DEF EmptyInv, Keys, NoKey, Replacing, Creating
<1>5. NewestInv'
  BY <1>1, <1>2, <1>3 DEF NewestInv, Creating, Keys, NoKey, Replacing, DataTypes, AnyKey
<1>6. BackupInv'
  BY <1>1 DEF BackupInv, Replacing
<1>7. HeldInv'
  BY <1>1, <1>2, <1>3 DEF HeldInv, OnDisk, Passed, Later
<1> QED
  BY <1>4, <1>5, <1>6, <1>7 DEF HistoryInv

\* A rotation is rolled back: the key that goes was never used.
LEMMA RollbackHistory ==
    ASSUME HistoryInv, IInv, WritePubFails \/ Restore
    PROVE  HistoryInv'
<1> USE DEF IInv, TypeOK, files, baks, daemon, rotation
<1>1. /\ DataTypes /\ EmptyInv /\ NewestInv /\ BackupInv /\ HeldInv /\ RotationInv /\ CreationInv
      /\ rPc \in {"writePub", "restore"} /\ rPc' \in {"restore", "off"}
      /\ UNCHANGED <<pub, privBaks, clock, made, dPc, loaded, dPriv, rNew, rPriv, rTs, signed>>
  BY DEF HistoryInv, WritePubFails, Restore
<1>2. rNew \in Keys /\ priv = rNew /\ ~Creating /\ Base = rPriv /\ Base < rNew /\ Used' = Used
  BY <1>1 DEF RotationInv, CreationInv, Base, Used, NewestInv, Replacing
<1>3. CASE rPc' = "restore"
  <2>1. priv' = priv
    BY <1>3 DEF WritePubFails, Restore
  <2> QED
    BY <1>1, <1>2, <1>3, <2>1, StageHistory DEF Base, Replacing
<1>4. CASE rPc' = "off" /\ priv' = rPriv
  <2>1. Base' = Base
    BY <1>2, <1>4 DEF Base
  <2>2. EmptyInv'
    BY <1>1, <1>2, <1>4 DEF EmptyInv, Replacing, Creating
  <2>3. NewestInv'
    BY <1>1, <1>2, <1>4, <2>1 DEF NewestInv, Creating, Replacing, DataTypes, AnyKey, Keys, NoKey
  <2>4. BackupInv'
    BY <1>1, <1>4 DEF BackupInv, Replacing
  <2>5. HeldInv'
    <3>1. \A k \in Used : k # priv
      BY <1>1, <1>2 DEF NewestInv, Creating, DataTypes, AnyKey, Keys, NoKey
    <3> QED
      BY <1>1, <1>2, <3>1 DEF HeldInv, OnDisk, Passed, Later
  <2> QED
    BY <2>2, <2>3, <2>4, <2>5 DEF HistoryInv
<1>5. CASE rPc' = "off" /\ UNCHANGED priv
  <2>1. Base' = rNew
    BY <1>2, <1>5 DEF Base
  <2>2. EmptyInv'
    BY <1>1, <1>2, <1>5 DEF EmptyInv, Replacing, Creating
  <2>3. NewestInv'
    BY <1>1, <1>2, <1>5, <2>1 DEF NewestInv, Creating, Replacing, DataTypes, AnyKey, Keys, NoKey
  <2>4. BackupInv'
    BY <1>1, <1>5 DEF BackupInv, Replacing
  <2>5. HeldInv'
    BY <1>1, <1>2, <1>5 DEF HeldInv, OnDisk, Passed, Later
  <2> QED
    BY <2>2, <2>3, <2>4, <2>5 DEF HistoryInv
<1> QED
  BY <1>3, <1>4, <1>5 DEF WritePubFails, Restore, restored, unlink_priv

\* Pruning removes the backup of a key only when it leaves Keep later ones.
LEMMA PruneHistory ==
    ASSUME HistoryInv, IInv, PrunePriv
    PROVE  HistoryInv'
<1> USE DEF IInv, TypeOK, files, baks, daemon, rotation
<1>1. /\ DataTypes /\ EmptyInv /\ NewestInv /\ BackupInv /\ HeldInv
      /\ rPc = "prunePriv" /\ rPc' = "prunePub"
      /\ UNCHANGED <<priv, pub, clock, made, dPc, loaded, dPriv, rNew, rPriv, rTs, signed>>
  BY DEF HistoryInv, PrunePriv
<1>2. PICK seen \in Collected(privBaks) :
         privBaks' = [t \in Times |-> IF t \in Pruned(seen) THEN NoKey ELSE privBaks[t]]
  BY DEF PrunePriv
<1>3. seen \subseteq Times /\ \A t \in seen : privBaks[t] # NoKey
  BY <1>2 DEF Collected
<1>4. \A t \in Times : privBaks'[t] \in {privBaks[t], NoKey} /\ (t \notin Pruned(seen) => privBaks'[t] = privBaks[t])
  BY <1>2
<1>5. Used' = Used /\ Base' = Base
  BY <1>1 DEF Used, Base
<1>6. EmptyInv' /\ NewestInv' /\ BackupInv'
  BY <1>1, <1>4, <1>5 DEF EmptyInv, NewestInv, BackupInv, Creating, Replacing, NoKey, Keys
<1>7. ASSUME NEW t \in Times, NEW p \in Pruned(seen), p >= t
      PROVE  Cardinality(Later(t)') >= Keep
  <2> DEFINE L == {u \in seen \ Pruned(seen) : u > p}
  <2>1. Cardinality(L) >= Keep
    BY <1>3, PruneLeaves
  <2>2. p \in Times
    BY <1>3 DEF Pruned
  <2>3. L \subseteq Later(t)' /\ Later(t)' \subseteq Times
    <3> SUFFICES ASSUME NEW u \in seen \ Pruned(seen), u > p PROVE u \in Later(t)'
      BY DEF Later
    <3>1. u \in Times /\ privBaks'[u] # NoKey
      BY <1>3, <1>4
    <3>2. u > t
      BY <1>7, <2>2, <3>1 DEF Times
    <3> QED
      BY <3>1, <3>2 DEF Later
  <2> HIDE DEF L
  <2> QED
    BY <2>1, <2>3, TimesFinite
<1>8. HeldInv'
  <2> SUFFICES ASSUME NEW k \in Used, k # priv, \A t \in Times : privBaks'[t] # k PROVE Passed(k)'
    BY <1>1, <1>5 DEF HeldInv, OnDisk
  <2>1. k \in Keys
    BY <1>1 DEF NewestInv
  <2>2. CASE \E t \in Times : privBaks[t] = k
    <3>1. PICK t \in Times : privBaks[t] = k
      BY <2>2
    <3>2. t \in Pruned(seen)
      BY <1>4, <3>1
    <3>3. Cardinality(Later(t)') >= Keep
      BY <1>7, <3>2 DEF Times
    <3>4. ASSUME NEW u \in Later(t)' PROVE privBaks'[u] > k
      <4>1. u \in Times /\ u > t /\ privBaks'[u] # NoKey
        BY DEF Later
      <4>2. privBaks'[u] = privBaks[u] /\ privBaks[u] # NoKey /\ privBaks[u] # k
        BY <1>4, <4>1
      <4>3. k <= privBaks[u]
        BY <1>1, <2>1, <3>1, <4>1, <4>2 DEF BackupInv, Times
      <4>4. privBaks[u] \in Int /\ k \in Int
        BY <1>1, <2>1, <4>1 DEF DataTypes, AnyKey, Keys, NoKey, Cut
      <4> QED
        BY <4>2, <4>3, <4>4
    <3> QED
      BY <3>3, <3>4 DEF Passed
  <2>3. CASE Passed(k)
    <3>1. PICK t \in Times : Cardinality(Later(t)) >= Keep /\ \A u \in Later(t) : privBaks[u] > k
      BY <2>3 DEF Passed
    <3>2. \A u \in Later(t)' : privBaks'[u] > k
      BY <1>4, <3>1 DEF Later
    <3>3. Cardinality(Later(t)') >= Keep
      <4>1. CASE \E p \in Pruned(seen) : p >= t
        BY <1>7, <4>1
      <4>2. CASE \A p \in Pruned(seen) : ~(p >= t)
        <5>1. Later(t)' = Later(t)
          BY <1>4, <4>2 DEF Later, Times
        <5> QED
          BY <3>1, <5>1
      <4> QED
        BY <4>1, <4>2
    <3> QED
      BY <3>2, <3>3 DEF Passed
  <2> QED
    BY <1>1, <2>2, <2>3 DEF HeldInv, OnDisk
<1> QED
  BY <1>6, <1>8 DEF HistoryInv

\* The other steps of a rotation, and its death at any of them.
LEMMA RotationHistory ==
    ASSUME HistoryInv, IInv, BackupPriv \/ BackupPub \/ PrunePub \/ RotationDies
    PROVE  HistoryInv'
<1> USE DEF IInv, TypeOK, files, baks, daemon, rotation
<1>1. CASE BackupPriv
  BY <1>1, BackupHistory DEF BackupPriv
<1>2. CASE BackupPub
  BY <1>2, StageHistory DEF BackupPub, Base, Replacing
<1>3. CASE PrunePub
  BY <1>3, StageHistory DEF PrunePub, Base, Replacing
<1>4. CASE RotationDies
  <2>1. /\ rPc' = "off" /\ UNCHANGED <<priv, pub, clock, made, dPc, loaded, dPriv, rNew, rPriv, rTs, signed>>
    BY <1>4 DEF RotationDies
  <2>2. CASE rPc = "bakPriv"
    BY <1>4, <2>1, <2>2, BackupHistory DEF RotationDies, CutBackup
  <2>3. CASE rPc \in {"writePub", "restore"}
    <3>1. UNCHANGED privBaks
      BY <1>4, <2>3 DEF RotationDies, CutBackup
    <3>2. DataTypes /\ EmptyInv /\ NewestInv /\ BackupInv /\ HeldInv /\ RotationInv
      BY DEF HistoryInv
    <3>3. rNew \in Keys /\ priv = rNew /\ Base = rPriv /\ Base < rNew /\ Used' = Used /\ Base' = rNew
      BY <2>1, <2>3, <3>2 DEF RotationInv, Base, Used, NewestInv, Replacing
    <3>4. EmptyInv'
      BY <2>1, <2>3, <3>1, <3>2 DEF EmptyInv, Replacing, Creating
    <3>5. NewestInv'
      BY <2>1, <3>1, <3>2, <3>3 DEF NewestInv, Creating, Replacing, DataTypes, AnyKey, Keys, NoKey
    <3>6. BackupInv'
      BY <2>1, <3>1, <3>2 DEF BackupInv, Replacing
    <3>7. HeldInv'
      BY <2>1, <3>1, <3>2, <3>3 DEF HeldInv, OnDisk, Passed, Later
    <3> QED
      BY <3>4, <3>5, <3>6, <3>7 DEF HistoryInv
  <2>4. CASE rPc \notin {"bakPriv", "writePub", "restore"}
    <3>1. UNCHANGED privBaks
      BY <1>4, <2>4 DEF RotationDies, CutBackup
    <3> QED
      BY <2>1, <2>4, <3>1, StageHistory DEF Base, Replacing
  <2> QED
    BY <2>2, <2>3, <2>4
<1> QED
  BY <1>1, <1>2, <1>3, <1>4

\* Keep later backups are Keep backups of younger keys.
LEMMA HeldIsKept == DataTypes /\ HeldInv => PublishedKept
<1> SUFFICES ASSUME DataTypes, HeldInv, NEW s \in signed, ~OnDisk(s[1])
             PROVE  Cardinality({t \in Times : privBaks[t] > s[1]}) >= Keep
  BY DEF PublishedKept, OnDisk
<1> DEFINE younger == {t \in Times : privBaks[t] > s[1]}
<1>1. Passed(s[1])
  BY DEF HeldInv, Used
<1>2. PICK t \in Times : Cardinality(Later(t)) >= Keep /\ \A u \in Later(t) : privBaks[u] > s[1]
  BY <1>1 DEF Passed
<1>3. Later(t) \subseteq younger /\ younger \subseteq Times
  BY <1>2 DEF Later
<1> HIDE DEF younger
<1>4. Cardinality(younger) >= Keep
  BY <1>2, <1>3, TimesFinite
<1> QED
  BY <1>4 DEF younger

\* No crash and no failure of a rotation loses a private key that has signed a
\* manifest: it is live or backed up until Keep later backups were begun
\* (manifest_keys_rotate, manifest_keys_prune_prefix).
THEOREM KeysKept == Spec => []PublishedKept
<1>1. Init => HistoryInv
  <2> SUFFICES ASSUME Init PROVE HistoryInv
    OBVIOUS
  <2>1. Used = {} /\ rPc = "off" /\ ~Creating /\ \A t \in Times : privBaks[t] = NoKey
    BY DEF Init, Used, Creating
  <2> QED
    BY <2>1 DEF Init, HistoryInv, EmptyInv, NewestInv, BackupInv, HeldInv, Replacing, Keys, NoKey
<1>2. IInv /\ HistoryInv /\ [Next]_vars => HistoryInv'
  BY DaemonHistory, CreationHistory, BeginHistory, WritePrivHistory, WritePubHistory, RollbackHistory,
     PruneHistory, RotationHistory DEF Next
<1>3. IInv /\ HistoryInv => PublishedKept
  BY HeldIsKept DEF IInv, TypeOK, HistoryInv
<1> QED
  BY <1>1, <1>2, <1>3, KeysInvariance, PTL DEF Spec
=============================================================================
