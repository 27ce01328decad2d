------------------------------- MODULE KeptProofs -------------------------------
(***************************************************************************)
(* What the program keeps is kept.                                         *)
(*                                                                         *)
(* The config file: no setting is lost, for any settings, values and       *)
(* number of overlapping calls.  The call that holds the lock is alone     *)
(* between its merge and its return: until then what it is about to write  *)
(* is what is in memory, and the paths on which memory, disk and what was  *)
(* settled may disagree are in doubt.                                      *)
(*                                                                         *)
(* The bookmarks: a list is filtered, put together and cut without an item *)
(* coming twice.                                                           *)
(*                                                                         *)
(* The audit log: entries ascend in memory and in the file, so that an     *)
(* entry that is not far behind survives every cut, and what a rewrite     *)
(* writes is what is in memory.                                            *)
(***************************************************************************)
EXTENDS ConfigStore, AuditLog, Favorites, Functions, FiniteSetTheorems, SequenceTheorems, TLAPS

Writing == {"write", "rename"}
Importing == {"importWrite", "importRename"}
LockedStates == Writing \cup Importing \cup {"return"}

\* The store's lock is held by one call.
OneWriter == \A u, v \in Setter :
  saving[u] \in LockedStates /\ saving[v] \in LockedStates => u = v

\* What is still to be merged are settings.
Mergeable ==
  /\ DOMAIN partial = Setter
  /\ \A u \in Setter : \A k \in DOMAIN partial[u] : partial[u][k] \in Setting

\* The call that holds the lock writes what is in memory, ...
WritesMemory == \A u \in Setter :
  saving[u] \in Writing \cup Importing => appUp /\ data[u] = cfg

\* ... where its own paths have its values, and nobody relies on them yet.
OwnPaths == \A u \in Setter :
  /\ saving[u] \in Writing \cup {"return"} =>
       appUp /\ \A k \in DOMAIN partial[u] : k \in doubt /\ cfg[k] = partial[u][k]
  /\ saving[u] \in Importing => doubt = Path

\* An import sets every path, a reset all of them to the defaults.
WholeConfigs == \A u \in Setter :
  /\ saving[u] = "reset" => partial[u] = Defaults
  /\ saving[u] \in Importing \cup {"import"} => DOMAIN partial[u] = Path

ConfigInv == /\ ConfigSafe
             /\ OneWriter /\ Mergeable /\ WritesMemory /\ OwnPaths /\ WholeConfigs

-------------------------------------------------------------------------------
LEMMA MergeIsConfig ==
  ASSUME NEW c \in Config, NEW o, \A k \in DOMAIN o : o[k] \in Setting
  PROVE  Merge(c, o) \in Config
BY DEF Merge, Config

LEMMA DefaultsAreConfig == Defaults \in Config /\ DOMAIN Defaults = Path
BY DEF Defaults, Config, Setting

\* An absent file is the defaults; a file is all that is read.
LEMMA SavedIsFile ==
  /\ configFile = None => Saved = Defaults
  /\ configFile \in Config => Saved = configFile
<1>1. ASSUME configFile = None PROVE Saved = Defaults
  <2>1. DOMAIN configFile = {}
    BY <1>1 DEF None
  <2>2. QED
    BY <2>1 DEF Saved, Merge, Defaults
<1>2. ASSUME configFile \in Config PROVE Saved = configFile
  BY <1>2 DEF Saved, Merge, Config
<1>3. QED
  BY <1>1, <1>2

LEMMA ConfigStarts == ConfigInit => ConfigInv
<1> SUFFICES ASSUME ConfigInit PROVE ConfigInv
  OBVIOUS
<1> USE ConfigAssumption DEF ConfigInit
<1>1. ConfigTypeOK
  BY DefaultsAreConfig DEF ConfigTypeOK, Nothing
<1>2. NoLostSetting /\ ReturnedIsSaved
  BY SavedIsFile DEF NoLostSetting, ReturnedIsSaved
<1>3. OneWriter /\ Mergeable /\ WritesMemory /\ OwnPaths /\ WholeConfigs
  BY DEF OneWriter, Mergeable, WritesMemory, OwnPaths, WholeConfigs, LockedStates, Writing,
         Importing, Nothing
<1>4. QED
  BY <1>1, <1>2, <1>3 DEF ConfigInv, ConfigSafe

-------------------------------------------------------------------------------
\* A call that has only been made.
LEMMA CallKeeps ==
  ASSUME ConfigInv, NEW u \in Setter, NEW s \in {"update", "reset", "import"}, NEW p,
         DOMAIN p \subseteq Path, \A k \in DOMAIN p : p[k] \in Setting,
         s = "reset" => p = Defaults, s = "import" => DOMAIN p = Path,
         Call(u, s, p)
  PROVE  ConfigInv'
<1> USE DEF ConfigInv, ConfigSafe, ConfigTypeOK, Call
<1>1. ConfigTypeOK'
  BY ConfigAssumption DEF Mergeable, ghosts
<1>2. NoLostSetting' /\ ReturnedIsSaved'
  BY DEF Mergeable, NoLostSetting, ReturnedIsSaved, Saved, ghosts
<1>3. OneWriter' /\ WritesMemory'
  BY DEF OneWriter, WritesMemory, LockedStates, Writing, Importing
<1>4. Mergeable' /\ WholeConfigs'
  BY DEF Mergeable, WholeConfigs, Importing
<1>5. OwnPaths'
  BY DEF Mergeable, OwnPaths, Writing, Importing, ghosts
<1>6. QED
  BY <1>1, <1>2, <1>3, <1>4, <1>5

\* What a merge under the lock leaves: the memory, the paths now in doubt.
LEMMA MergeKeeps ==
  ASSUME ConfigInv, NEW u \in Setter, NEW p,
         DOMAIN p \subseteq Path, \A k \in DOMAIN p : p[k] \in Setting, MergeFor(u, p)
  PROVE  /\ cfg' \in Config /\ data' \in [Setter -> Config] /\ data'[u] = cfg'
         /\ doubt' = doubt \cup DOMAIN p
         /\ \A k \in DOMAIN p : cfg'[k] = p[k]
         /\ \A k \in Path \ DOMAIN p : cfg'[k] = cfg[k]
         /\ NoLostSetting' /\ Saved' = Saved
<1> USE DEF ConfigInv, ConfigSafe, ConfigTypeOK, MergeFor
<1>1. cfg' \in Config
  BY MergeIsConfig
<1>2. /\ \A k \in DOMAIN p : cfg'[k] = p[k]
      /\ \A k \in Path \ DOMAIN p : cfg'[k] = cfg[k]
  BY DEF Merge
<1>3. Saved' = Saved
  BY DEF Saved
<1>4. NoLostSetting'
  BY <1>2, <1>3 DEF NoLostSetting
<1>5. QED
  BY <1>1, <1>2, <1>3, <1>4

LEMMA UpdateKeeps ==
  ASSUME ConfigInv, NEW u \in Setter, Update(u)
  PROVE  ConfigInv'
<1> USE DEF ConfigInv, ConfigSafe, ConfigTypeOK, Update
<1>1. MergeFor(u, partial[u]) /\ DOMAIN partial[u] \subseteq Path
      /\ \A k \in DOMAIN partial[u] : partial[u][k] \in Setting
  BY DEF Mergeable
<1>2. /\ cfg' \in Config /\ data' \in [Setter -> Config] /\ data'[u] = cfg'
      /\ doubt' = doubt \cup DOMAIN partial[u]
      /\ \A k \in DOMAIN partial[u] : cfg'[k] = partial[u][k]
      /\ NoLostSetting'
  BY <1>1, MergeKeeps
<1>3. \A v \in Setter \ {u} : saving'[v] \notin LockedStates
  BY DEF Locked, LockedStates, Writing, Importing
<1>4. ConfigTypeOK'
  BY <1>1, <1>2 DEF MergeFor
<1>5. ReturnedIsSaved' /\ OneWriter'
  BY <1>3 DEF ReturnedIsSaved, OneWriter, LockedStates
<1>6. Mergeable' /\ WholeConfigs'
  BY <1>1 DEF MergeFor, Mergeable, WholeConfigs, Importing
<1>7. WritesMemory' /\ OwnPaths'
  BY <1>1, <1>2, <1>3 DEF MergeFor, WritesMemory, OwnPaths, LockedStates, Writing, Importing
<1>8. QED
  BY <1>2, <1>4, <1>5, <1>6, <1>7

LEMMA UpdateRejectedKeeps ==
  ASSUME ConfigInv, NEW u \in Setter, UpdateRejected(u)
  PROVE  ConfigInv'
<1> USE DEF ConfigInv, ConfigSafe, ConfigTypeOK, UpdateRejected, Return
<1>1. PICK bad \in DOMAIN partial[u] :
        MergeFor(u, [k \in DOMAIN partial[u] \ {bad} |-> partial[u][k]])
  OBVIOUS
<1> DEFINE p == [k \in DOMAIN partial[u] \ {bad} |-> partial[u][k]]
<1>2. DOMAIN p \subseteq Path /\ \A k \in DOMAIN p : p[k] \in Setting
  BY DEF Mergeable
<1> HIDE DEF p
<1>3. MergeFor(u, p)
  BY <1>1 DEF p
<1>4. /\ cfg' \in Config /\ data' \in [Setter -> Config]
      /\ doubt' = doubt \cup DOMAIN p /\ NoLostSetting'
  BY <1>2, <1>3, MergeKeeps
<1>5. \A v \in Setter : saving'[v] \notin LockedStates
  BY DEF Locked, LockedStates, Writing, Importing
<1>6. ConfigTypeOK'
  BY <1>2, <1>3, <1>4 DEF MergeFor
<1>7. ReturnedIsSaved' /\ OneWriter' /\ WritesMemory' /\ OwnPaths'
  BY <1>5 DEF ReturnedIsSaved, OneWriter, WritesMemory, OwnPaths, LockedStates
<1>8. Mergeable' /\ WholeConfigs'
  BY <1>3 DEF MergeFor, Mergeable, WholeConfigs, Importing
<1>9. QED
  BY <1>4, <1>6, <1>7, <1>8

LEMMA ResetKeeps ==
  ASSUME ConfigInv, NEW u \in Setter, Reset(u)
  PROVE  ConfigInv'
<1> USE DEF ConfigInv, ConfigSafe, ConfigTypeOK, Reset
<1>1. DOMAIN Defaults = Path /\ \A k \in DOMAIN Defaults : Defaults[k] \in Setting
  BY DefaultsAreConfig DEF Config
<1>2. /\ cfg' \in Config /\ data' \in [Setter -> Config] /\ data'[u] = cfg'
      /\ doubt' = Path /\ \A k \in Path : cfg'[k] = Defaults[k]
      /\ NoLostSetting'
  <2>1. /\ cfg' \in Config /\ data' \in [Setter -> Config] /\ data'[u] = cfg'
        /\ doubt' = doubt \cup DOMAIN Defaults
        /\ \A k \in DOMAIN Defaults : cfg'[k] = Defaults[k]
        /\ NoLostSetting'
    BY <1>1, MergeKeeps
  <2>2. QED
    BY <1>1, <2>1
<1>3. \A v \in Setter \ {u} : saving'[v] \notin LockedStates
  BY DEF Locked, LockedStates, Writing, Importing
<1>4. ConfigTypeOK'
  BY <1>2 DEF MergeFor
<1>5. ReturnedIsSaved' /\ OneWriter'
  BY <1>3 DEF ReturnedIsSaved, OneWriter, LockedStates
<1>6. Mergeable' /\ WholeConfigs'
  BY DEF MergeFor, Mergeable, WholeConfigs, Importing
<1>7. WritesMemory'
  BY <1>2, <1>3 DEF MergeFor, WritesMemory, LockedStates
<1>8. OwnPaths'
  BY <1>1, <1>2, <1>3 DEF MergeFor, OwnPaths, WholeConfigs, LockedStates, Writing, Importing
<1>9. QED
  BY <1>2, <1>4, <1>5, <1>6, <1>7, <1>8

-------------------------------------------------------------------------------
\* The steps of a write.
LEMMA WriteKeeps ==
  ASSUME ConfigInv, NEW u \in Setter, WriteConfig(u)
  PROVE  ConfigInv'
<1> USE DEF ConfigInv, ConfigSafe, ConfigTypeOK, WriteConfig, ghosts
<1>1. ConfigTypeOK'
  OBVIOUS
<1>2. NoLostSetting' /\ ReturnedIsSaved'
  BY DEF NoLostSetting, ReturnedIsSaved, Saved
<1>3. OneWriter' /\ WritesMemory'
  BY DEF OneWriter, WritesMemory, LockedStates, Writing, Importing
<1>4. Mergeable' /\ OwnPaths' /\ WholeConfigs'
  BY DEF Mergeable, OwnPaths, WholeConfigs, Writing, Importing
<1>5. QED
  BY <1>1, <1>2, <1>3, <1>4

\* The rename: the disk is the memory now.
LEMMA RenameKeeps ==
  ASSUME ConfigInv, NEW u \in Setter, RenameConfig(u)
  PROVE  ConfigInv'
<1> USE DEF ConfigInv, ConfigSafe, ConfigTypeOK, RenameConfig, ghosts
<1>1. appUp /\ data[u] = cfg
  BY DEF WritesMemory, Writing, Importing
<1>2. configFile' = cfg /\ cfg' = cfg /\ cfg \in Config
  BY <1>1
<1>3. Saved' = cfg
  BY <1>2 DEF Saved, Merge, Config
<1>4. ConfigTypeOK'
  BY <1>2
<1>5. NoLostSetting'
  BY <1>1, <1>2, <1>3 DEF NoLostSetting
<1>6. \A v \in Setter \ {u} : saving'[v] = saving[v] /\ saving[v] \notin LockedStates
  BY DEF OneWriter, LockedStates, Writing, Importing
<1>7. ReturnedIsSaved'
  BY <1>2, <1>3, <1>6 DEF ReturnedIsSaved, OwnPaths, LockedStates, Writing
<1>8. OneWriter' /\ WritesMemory'
  BY <1>6 DEF OneWriter, WritesMemory, LockedStates, Writing, Importing
<1>9. Mergeable' /\ OwnPaths' /\ WholeConfigs'
  BY <1>6 DEF Mergeable, OwnPaths, WholeConfigs, LockedStates, Writing, Importing
<1>10. QED
  BY <1>4, <1>5, <1>7, <1>8, <1>9

\* What was in doubt is settled when the call returns.
LEMMA ReturnKeeps ==
  ASSUME ConfigInv, NEW u \in Setter, ReturnNil(u)
  PROVE  ConfigInv'
<1> USE DEF ConfigInv, ConfigSafe, ConfigTypeOK, ReturnNil, Return
<1>1. settled' \in Config
  BY MergeIsConfig DEF Mergeable
<1>2. ConfigTypeOK'
  BY <1>1
<1>3. \A k \in DOMAIN partial[u] : Saved[k] = partial[u][k] /\ cfg[k] = Saved[k]
  BY DEF ReturnedIsSaved
<1>4. Saved' = Saved
  BY DEF Saved
<1>5. NoLostSetting'
  BY <1>3, <1>4 DEF NoLostSetting, Merge
<1>6. \A v \in Setter : saving'[v] \notin LockedStates
  BY DEF OneWriter, LockedStates, Writing, Importing
<1>7. ReturnedIsSaved' /\ OneWriter' /\ WritesMemory' /\ OwnPaths'
  BY <1>6 DEF ReturnedIsSaved, OneWriter, WritesMemory, OwnPaths, LockedStates
<1>8. Mergeable' /\ WholeConfigs'
  BY DEF Mergeable, WholeConfigs, Importing
<1>9. QED
  BY <1>2, <1>5, <1>7, <1>8

LEMMA WriteFailsKeeps ==
  ASSUME ConfigInv, NEW u \in Setter, WriteFails(u)
  PROVE  ConfigInv'
<1> USE DEF ConfigInv, ConfigSafe, ConfigTypeOK, WriteFails, Return, ghosts
<1>1. ConfigTypeOK'
  OBVIOUS
<1>2. NoLostSetting' /\ ReturnedIsSaved'
  BY DEF NoLostSetting, ReturnedIsSaved, Saved
<1>3. OneWriter' /\ WritesMemory'
  BY DEF OneWriter, WritesMemory, LockedStates, Writing, Importing
<1>4. Mergeable' /\ OwnPaths' /\ WholeConfigs'
  BY DEF Mergeable, OwnPaths, WholeConfigs, Writing, Importing
<1>5. QED
  BY <1>1, <1>2, <1>3, <1>4

-------------------------------------------------------------------------------
\* The process dies, and reads what it has saved.
LEMMA CrashKeeps == ConfigInv /\ ConfigCrash => ConfigInv'
<1> SUFFICES ASSUME ConfigInv, ConfigCrash PROVE ConfigInv'
  OBVIOUS
<1> USE DEF ConfigInv, ConfigSafe, ConfigTypeOK, ConfigCrash, ghosts
<1>1. ConfigTypeOK'
  OBVIOUS
<1>2. NoLostSetting' /\ ReturnedIsSaved'
  BY DEF NoLostSetting, ReturnedIsSaved, Saved
<1>3. OneWriter' /\ WritesMemory' /\ Mergeable' /\ OwnPaths' /\ WholeConfigs'
  BY DEF OneWriter, WritesMemory, Mergeable, OwnPaths, WholeConfigs, LockedStates, Writing, Importing
<1>4. QED
  BY <1>1, <1>2, <1>3

LEMMA StartKeeps == ConfigInv /\ ConfigStart => ConfigInv'
<1> SUFFICES ASSUME ConfigInv, ConfigStart PROVE ConfigInv'
  OBVIOUS
<1> USE DEF ConfigInv, ConfigSafe, ConfigTypeOK, ConfigStart, setters, ghosts
<1>1. Saved \in Config /\ Saved' = Saved /\ cfg' = Saved
  BY SavedIsFile, DefaultsAreConfig DEF Saved
<1>2. \A u \in Setter : saving'[u] \notin LockedStates
  BY DEF WritesMemory, OwnPaths, LockedStates
<1>3. ConfigTypeOK' /\ NoLostSetting'
  BY <1>1 DEF NoLostSetting
<1>4. ReturnedIsSaved' /\ OneWriter' /\ WritesMemory' /\ OwnPaths'
  BY <1>2 DEF ReturnedIsSaved, OneWriter, WritesMemory, OwnPaths, LockedStates
<1>5. Mergeable' /\ WholeConfigs'
  BY DEF Mergeable, WholeConfigs
<1>6. QED
  BY <1>3, <1>4, <1>5

-------------------------------------------------------------------------------
LEMMA ConfigStepKeeps == ConfigInv /\ [ConfigNext]_configVars => ConfigInv'
<1> SUFFICES ASSUME ConfigInv, [ConfigNext]_configVars
             PROVE  ConfigInv'
  OBVIOUS
<1>1. CASE UNCHANGED configVars
  BY <1>1 DEF configVars, setters, ghosts, ConfigInv, ConfigSafe, ConfigTypeOK, NoLostSetting,
              ReturnedIsSaved, Saved, OneWriter, Mergeable, WritesMemory, OwnPaths, WholeConfigs
<1>2. ASSUME NEW u \in Setter, NEW p \in Partial, UpdateConfig(u, p) \/ ImportConfig(u, p)
      PROVE  ConfigInv'
  <2> DEFINE zero == [k \in Path |-> "zero"]
  <2>1. DOMAIN p \subseteq Path /\ \A k \in DOMAIN p : p[k] \in Setting
    BY DEF Partial, Setting
  <2>2. zero \in Config
    BY DEF Config, Setting
  <2>3. Merge(zero, p) \in Config
    BY <2>1, <2>2, MergeIsConfig
  <2>4. CASE UpdateConfig(u, p)
    BY <2>1, <2>4, CallKeeps DEF UpdateConfig
  <2>5. CASE ImportConfig(u, p)
    BY <2>3, <2>5, CallKeeps DEF ImportConfig, Config
  <2>6. QED
    BY <1>2, <2>4, <2>5
<1>3. ASSUME NEW u \in Setter, ResetConfig(u)
      PROVE  ConfigInv'
  BY <1>3, DefaultsAreConfig, CallKeeps DEF ResetConfig, Config
<1>4. ASSUME NEW u \in Setter, \/ Update(u) \/ UpdateRejected(u) \/ Reset(u)
                               \/ WriteConfig(u) \/ RenameConfig(u) \/ ReturnNil(u) \/ WriteFails(u)
      PROVE  ConfigInv'
  BY <1>4, UpdateKeeps, UpdateRejectedKeeps, ResetKeeps, WriteKeeps, RenameKeeps, ReturnKeeps,
     WriteFailsKeeps
<1>5. CASE ConfigCrash \/ ConfigStart
  BY <1>5, CrashKeeps, StartKeeps
<1>6. QED
  BY <1>1, <1>2, <1>3, <1>4, <1>5 DEF ConfigNext

\* The inductive invariant of the settings store (store.go:170-195, 254-282).
THEOREM ConfigInvariant == ConfigSpec => []ConfigInv
BY ConfigStarts, ConfigStepKeeps, PTL DEF ConfigSpec

\* However updates, resets and imports overlap, fail or die, a setting keeps the
\* value of the last call that returned without an error, in memory and on disk,
\* unless a later call has set it; and what a call returns on is saved.
THEOREM SettingsAreKept == ConfigSpec => []ConfigSafe
<1>1. ConfigInv => ConfigSafe
  BY DEF ConfigInv
<1>2. QED
  BY <1>1, ConfigInvariant, PTL

-----------------------------------------------------------------------------
\* What a filter keeps: nothing else, and in the same order.
LEMMA RankType ==
  ASSUME NEW n \in Nat, NEW S \in SUBSET (1..n)
  PROVE  /\ IsFiniteSet(S) /\ Cardinality(S) \in 0..n /\ (Cardinality(S) = n => S = 1..n)
         /\ \A i \in S : Rank(S, i) \in 1..Cardinality(S)
         /\ \A i, k \in S : i < k => Rank(S, i) < Rank(S, k)
<1>1. IsFiniteSet(1..n) /\ Cardinality(1..n) = n
  BY FS_Interval
<1>2. IsFiniteSet(S) /\ Cardinality(S) <= n /\ (Cardinality(S) = n => S = 1..n)
  BY <1>1, FS_Subset
<1>3. Cardinality(S) \in Nat
  BY <1>2, FS_CardinalityType
<1>4. ASSUME NEW i \in S PROVE Rank(S, i) \in 1..Cardinality(S)
  <2>1. PICK T \in SUBSET S : T = {j \in S : j <= i}
    OBVIOUS
  <2>2. IsFiniteSet(T) /\ Cardinality(T) <= Cardinality(S) /\ Cardinality(T) \in Nat
    BY <1>2, FS_Subset, FS_CardinalityType
  <2>3. T # {}
    BY <2>1
  <2>4. Cardinality(T) # 0
    BY <2>2, <2>3, FS_EmptySet
  <2>5. QED
    BY <1>3, <2>1, <2>2, <2>4 DEF Rank
<1>5. ASSUME NEW i \in S, NEW k \in S, i < k PROVE Rank(S, i) < Rank(S, k)
  <2>1. PICK T \in SUBSET S : T = {j \in S : j <= i}
    OBVIOUS
  <2>2. PICK U \in SUBSET S : U = {j \in S : j <= k}
    OBVIOUS
  <2>3. T \in SUBSET U /\ k \in U /\ k \notin T
    <3>1. i \in Nat /\ k \in Nat /\ \A j \in S : j \in Nat
      OBVIOUS
    <3>2. ~(k <= i) /\ \A j \in S : j <= i => j <= k
      BY <1>5, <3>1
    <3>3. k \in U /\ k \notin T
      BY <2>1, <2>2, <3>1, <3>2
    <3>4. \A j \in T : j \in U
      BY <2>1, <2>2, <3>2
    <3>5. QED
      BY <3>3, <3>4
  <2>4. IsFiniteSet(U)
    BY <1>2, FS_Subset
  <2>5. Cardinality(T) <= Cardinality(U) /\ Cardinality(T) # Cardinality(U) /\ IsFiniteSet(T)
    BY <2>3, <2>4, FS_Subset
  <2>6. Cardinality(T) \in Nat /\ Cardinality(U) \in Nat
    BY <2>4, <2>5, FS_CardinalityType
  <2>7. Cardinality(T) < Cardinality(U)
    BY <2>5, <2>6
  <2>8. QED
    BY <2>1, <2>2, <2>7 DEF Rank
<1>6. QED
  BY <1>2, <1>3, <1>4, <1>5

LEMMA RankOnto ==
  ASSUME NEW n \in Nat, NEW S \in SUBSET (1..n)
  PROVE  /\ \A r \in 1..Cardinality(S) : Nth(S, r) \in S /\ Rank(S, Nth(S, r)) = r
         /\ \A i \in S : Nth(S, Rank(S, i)) = i
<1>1. /\ IsFiniteSet(S) /\ Cardinality(S) \in Nat
      /\ \A i \in S : Rank(S, i) \in 1..Cardinality(S)
      /\ \A i, k \in S : i < k => Rank(S, i) < Rank(S, k)
  <2>1. IsFiniteSet(S) /\ Cardinality(S) \in 0..n
    BY RankType
  <2>2. QED
    BY <2>1, RankType
<1>2. \A i, k \in S : Rank(S, i) = Rank(S, k) => i = k
  <2>1. SUFFICES ASSUME NEW i \in S, NEW k \in S, Rank(S, i) = Rank(S, k), i # k PROVE FALSE
    OBVIOUS
  <2>2. i < k \/ k < i
    BY <2>1
  <2>3. Rank(S, i) \in Nat /\ Rank(S, k) \in Nat
    BY <1>1
  <2>4. QED
    BY <1>1, <2>1, <2>2, <2>3
<1>3. PICK T : T = 1..Cardinality(S)
  OBVIOUS
<1>4. PICK f : f = [i \in S |-> Rank(S, i)]
  OBVIOUS
<1>5. f \in [S -> T] /\ \A i \in S : f[i] = Rank(S, i)
  BY <1>1, <1>3, <1>4
<1>6. f \in Injection(S, T)
  BY <1>2, <1>5 DEF Injection, IsInjective
<1>7. IsFiniteSet(T) /\ Cardinality(T) = Cardinality(S)
  BY <1>1, <1>3, FS_Interval
<1>8. f \in Surjection(S, T)
  BY <1>6, <1>7, FS_Injection
<1>9. ASSUME NEW r \in T PROVE Nth(S, r) \in S /\ Rank(S, Nth(S, r)) = r
  <2>1. \E i \in S : Rank(S, i) = r
    BY <1>5, <1>8 DEF Surjection
  <2>2. QED
    BY <2>1 DEF Nth
<1>10. ASSUME NEW i \in S PROVE Nth(S, Rank(S, i)) = i
  BY <1>1, <1>2, <1>3, <1>9
<1>11. QED
  BY <1>3, <1>9, <1>10

LEMMA AtPlacesProperties ==
  ASSUME NEW E, NEW s \in Seq(E), NEW S \in SUBSET (1..Len(s))
  PROVE  /\ AtPlaces(s, S) \in Seq(E)
         /\ Len(AtPlaces(s, S)) = Cardinality(S) /\ Cardinality(S) \in 0..Len(s)
         /\ \A r \in 1..Cardinality(S) : Nth(S, r) \in S /\ AtPlaces(s, S)[r] = s[Nth(S, r)]
         /\ \A q, r \in 1..Cardinality(S) : q < r => Nth(S, q) < Nth(S, r)
         /\ \A i \in S : \E r \in 1..Cardinality(S) : AtPlaces(s, S)[r] = s[i]
<1>1. Len(s) \in Nat /\ \A i \in 1..Len(s) : s[i] \in E
  BY LenProperties, ElementOfSeq
<1>2. PICK n \in Nat : n = Len(s)
  BY <1>1
<1>3. S \in SUBSET (1..n)
  BY <1>2
<1>4. PICK m : m = Cardinality(S)
  OBVIOUS
<1>5. /\ m \in 0..n /\ \A i \in S : Rank(S, i) \in 1..m
      /\ \A i, k \in S : i < k => Rank(S, i) < Rank(S, k)
  BY <1>3, <1>4, RankType
<1>6. /\ \A r \in 1..m : Nth(S, r) \in S /\ Rank(S, Nth(S, r)) = r
      /\ \A i \in S : Nth(S, Rank(S, i)) = i
  BY <1>3, <1>4, RankOnto
<1>7. PICK t : t = AtPlaces(s, S)
  OBVIOUS
<1>8. t = [r \in 1..m |-> s[Nth(S, r)]]
  BY <1>4, <1>7 DEF AtPlaces
<1>9. t \in Seq(E) /\ Len(t) = m
  <2>1. m \in Nat /\ \A r \in 1..m : s[Nth(S, r)] \in E
    <3>1. m \in Nat
      BY <1>5
    <3>2. ASSUME NEW r \in 1..m PROVE s[Nth(S, r)] \in E
      <4>1. PICK i \in S : i = Nth(S, r)
        BY <1>6
      <4>2. QED
        BY <1>1, <4>1
    <3>3. QED
      BY <3>1, <3>2
  <2>2. t \in [1..m -> E]
    BY <1>8, <2>1
  <2>3. QED
    BY <1>8, <2>1, <2>2
<1>10. ASSUME NEW q \in 1..m, NEW r \in 1..m, q < r PROVE Nth(S, q) < Nth(S, r)
  <2>1. PICK i \in S : i = Nth(S, q) /\ Rank(S, i) = q
    BY <1>6
  <2>2. PICK k \in S : k = Nth(S, r) /\ Rank(S, k) = r
    BY <1>6
  <2>3. i \in Int /\ k \in Int
    BY <1>3
  <2>4. CASE k < i
    <3>1. r < q
      BY <1>5, <2>1, <2>2, <2>4
    <3>2. QED
      BY <1>10, <3>1
  <2>5. CASE k = i
    BY <1>10, <2>1, <2>2, <2>5
  <2>6. QED
    BY <2>1, <2>2, <2>3, <2>4, <2>5
<1>11. ASSUME NEW i \in S PROVE \E r \in 1..m : t[r] = s[i]
  BY <1>5, <1>6, <1>8
<1>12. \A r \in 1..m : Nth(S, r) \in S /\ t[r] = s[Nth(S, r)]
  BY <1>6, <1>8
<1>13. m \in 0..Len(s)
  BY <1>2, <1>5
<1>14. QED
  BY <1>4, <1>7, <1>9, <1>10, <1>11, <1>12, <1>13

\* A filter that keeps every place keeps the sequence; one that does not shortens it.
LEMMA AtAllPlaces ==
  ASSUME NEW E, NEW s \in Seq(E)
  PROVE  /\ AtPlaces(s, 1..Len(s)) = s
         /\ \A S \in SUBSET (1..Len(s)) : S # 1..Len(s) => Cardinality(S) < Len(s)
<1>1. PICK n \in Nat : n = Len(s)
  BY LenProperties
<1>2. PICK S : S = 1..n
  OBVIOUS
<1>3. IsFiniteSet(S) /\ Cardinality(S) = n
  BY <1>2, FS_Interval
<1>4. \A i \in S : Rank(S, i) = i
  <2>1. SUFFICES ASSUME NEW i \in S PROVE Rank(S, i) = i
    OBVIOUS
  <2>2. i \in Nat /\ {j \in S : j <= i} = 1..i
    BY <1>2
  <2>3. Cardinality(1..i) = i
    BY <1>2, FS_Interval
  <2>4. QED
    BY <2>2, <2>3 DEF Rank
<1>5. \A i \in S : Nth(S, i) = i
  <2>1. \A i \in S : Nth(S, Rank(S, i)) = i
    BY <1>2, RankOnto
  <2>2. QED
    BY <1>4, <2>1
<1>6. AtPlaces(s, S) \in Seq(E) /\ Len(AtPlaces(s, S)) = n /\ \A r \in 1..n : AtPlaces(s, S)[r] = s[r]
  BY <1>1, <1>2, <1>3, <1>5, AtPlacesProperties
<1>7. AtPlaces(s, S) = s
  BY <1>1, <1>6, SeqEqual
<1>8. ASSUME NEW U \in SUBSET (1..n), U # 1..n PROVE Cardinality(U) < n
  <2>1. Cardinality(U) \in 0..n /\ (Cardinality(U) = n => U = 1..n)
    BY RankType
  <2>2. QED
    BY <1>8, <2>1
<1>9. QED
  BY <1>1, <1>2, <1>7, <1>8

-----------------------------------------------------------------------------
\* Bookmarks: what the operations on a list without duplicates make of it.
USE FavoritesAssumption

LEMMA DistinctPlaces ==
  ASSUME NEW s \in Seq(Favorite), NEW n \in Nat, n = Len(s)
  PROVE  Distinct(s) <=> \A i, k \in 1..n : s[i] = s[k] => i = k
BY DEF Distinct

LEMMA AllButOne ==
  ASSUME NEW s \in Seq(Favorite), Distinct(s), NEW x
  PROVE  /\ AllBut(s, x) \in Seq(Favorite) /\ Distinct(AllBut(s, x)) /\ Len(AllBut(s, x)) \in 0..Len(s)
         /\ \A i \in 1..Len(AllBut(s, x)) : AllBut(s, x)[i] # x
<1>1. PICK S \in SUBSET (1..Len(s)) : S = {i \in 1..Len(s) : s[i] # x}
  OBVIOUS
<1>2. DOMAIN s = 1..Len(s)
  OBVIOUS
<1>3. PICK t : t = AtPlaces(s, S)
  OBVIOUS
<1>4. AllBut(s, x) = t
  BY <1>1, <1>2, <1>3 DEF AllBut
<1>5. PICK m : m = Cardinality(S)
  OBVIOUS
<1>6. /\ t \in Seq(Favorite) /\ Len(t) = m /\ m \in 0..Len(s)
      /\ \A r \in 1..m : Nth(S, r) \in S /\ t[r] = s[Nth(S, r)]
      /\ \A q, r \in 1..m : q < r => Nth(S, q) < Nth(S, r)
  BY <1>3, <1>5, AtPlacesProperties
<1>7. ASSUME NEW q \in 1..m, NEW r \in 1..m, t[q] = t[r] PROVE q = r
  <2>1. SUFFICES ASSUME q # r PROVE FALSE
    OBVIOUS
  <2>2. q < r \/ r < q
    BY <1>6, <2>1
  <2>3. PICK i \in 1..Len(s), k \in 1..Len(s) : i = Nth(S, q) /\ k = Nth(S, r)
    BY <1>6
  <2>4. i < k \/ k < i
    BY <1>6, <2>2, <2>3
  <2>5. s[i] = s[k]
    BY <1>6, <1>7, <2>3
  <2>6. i = k
    BY <1>2, <2>5 DEF Distinct
  <2>7. QED
    BY <2>4, <2>6
<1>8. DOMAIN t = 1..m
  BY <1>6
<1>9. Distinct(t)
  BY <1>7, <1>8 DEF Distinct
<1>10. \A i \in 1..m : t[i] # x
  BY <1>1, <1>6
<1>11. QED
  BY <1>4, <1>6, <1>9, <1>10

LEMMA PushedItem ==
  ASSUME NEW s \in Seq(Favorite), Distinct(s), NEW x \in Favorite, NEW max \in Nat \ {0}
  PROVE  Pushed(s, x, max) \in Seq(Favorite) /\ Distinct(Pushed(s, x, max)) /\ Len(Pushed(s, x, max)) <= max
<1>1. PICK r : r = AllBut(s, x)
  OBVIOUS
<1>2. r \in Seq(Favorite) /\ Distinct(r) /\ \A i \in 1..Len(r) : r[i] # x
  BY <1>1, AllButOne
<1>3. PICK m \in Nat : m = Len(r)
  BY <1>2, LenProperties
<1>4. PICK u : u = <<x>> \o r
  OBVIOUS
<1>5. u \in Seq(Favorite) /\ Len(u) = m + 1 /\ \A i \in 1..m + 1 : u[i] = IF i <= 1 THEN <<x>>[i] ELSE r[i - 1]
  <2>1. <<x>> \in Seq(Favorite) /\ Len(<<x>>) = 1
    OBVIOUS
  <2>2. QED
    BY <1>2, <1>3, <1>4, <2>1, ConcatProperties
<1>6. PICK l \in 1..m + 1 : l = IF m < max THEN m + 1 ELSE max
  <2>1. (IF m < max THEN m + 1 ELSE max) \in 1..m + 1
    OBVIOUS
  <2>2. QED
    BY <2>1
<1>7. l <= max
  BY <1>6
<1>8. PICK t : t = SubSeq(u, 1, l)
  OBVIOUS
<1>9. t \in Seq(Favorite) /\ Len(t) = l /\ \A i \in 1..l : t[i] = u[i]
  BY <1>5, <1>6, <1>8, SubSeqProperties
<1>10. Pushed(s, x, max) = t
  BY <1>1, <1>3, <1>4, <1>6, <1>8 DEF Pushed
<1>11. ASSUME NEW i \in 1..l, NEW k \in 1..l, t[i] = t[k] PROVE i = k
  <2>1. u[i] = u[k] /\ i \in 1..m + 1 /\ k \in 1..m + 1
    BY <1>6, <1>9, <1>11
  <2>2. \A j \in 1..m + 1 : (j = 1 /\ u[j] = x) \/ (j - 1 \in 1..m /\ u[j] = r[j - 1] /\ u[j] # x)
    <3>1. SUFFICES ASSUME NEW j \in 1..m + 1, j # 1 PROVE j - 1 \in 1..m /\ u[j] = r[j - 1] /\ u[j] # x
      BY <1>5
    <3>2. j - 1 \in 1..m /\ ~(j <= 1)
      BY <3>1
    <3>3. QED
      BY <1>2, <1>3, <1>5, <3>2
  <2>3. CASE i = 1 \/ k = 1
    BY <2>1, <2>2, <2>3
  <2>4. CASE i # 1 /\ k # 1
    <3>1. i - 1 \in 1..m /\ k - 1 \in 1..m /\ r[i - 1] = r[k - 1]
      BY <2>1, <2>2, <2>4
    <3>2. i - 1 = k - 1
      BY <1>2, <1>3, <3>1, DistinctPlaces
    <3>3. QED
      BY <2>1, <3>2
  <2>5. QED
    BY <2>3, <2>4
<1>12. Distinct(t)
  BY <1>9, <1>11 DEF Distinct
<1>13. QED
  BY <1>7, <1>9, <1>10, <1>12

LEMMA RemovedOne ==
  ASSUME NEW s \in Seq(Favorite), NEW n \in Nat, n = Len(s), NEW f \in 1..n
  PROVE  /\ RemoveAt(s, f) \in Seq(Favorite) /\ Len(RemoveAt(s, f)) = n - 1
         /\ \A i \in 1..n - 1 : RemoveAt(s, f)[i] = IF i < f THEN s[i] ELSE s[i + 1]
<1>1. PICK l, r : l = SubSeq(s, 1, f - 1) /\ r = SubSeq(s, f + 1, n)
  OBVIOUS
<1>2. l \in Seq(Favorite) /\ Len(l) = f - 1 /\ \A i \in 1..f - 1 : l[i] = s[i]
  <2>1. \A i \in 1..f - 1 : i \in 1..Len(s)
    OBVIOUS
  <2>2. QED
    BY <1>1, <2>1, SubSeqProperties
<1>3. r \in Seq(Favorite) /\ Len(r) = n - f /\ \A i \in 1..n - f : r[i] = s[f + i]
  <2>1. \A i \in f + 1..n : i \in 1..Len(s)
    OBVIOUS
  <2>2. QED
    BY <1>1, <2>1, SubSeqProperties
<1>4. /\ l \o r \in Seq(Favorite) /\ Len(l \o r) = n - 1
      /\ \A i \in 1..n - 1 : (l \o r)[i] = IF i <= f - 1 THEN l[i] ELSE r[i - (f - 1)]
  <2>1. Len(l) + Len(r) = n - 1
    BY <1>2, <1>3
  <2>2. /\ l \o r \in Seq(Favorite) /\ Len(l \o r) = Len(l) + Len(r)
        /\ \A i \in 1..Len(l) + Len(r) : (l \o r)[i] = IF i <= Len(l) THEN l[i] ELSE r[i - Len(l)]
    BY <1>2, <1>3, ConcatProperties
  <2>3. QED
    BY <1>2, <2>1, <2>2
<1>5. ASSUME NEW i \in 1..n - 1 PROVE (l \o r)[i] = IF i < f THEN s[i] ELSE s[i + 1]
  <2>1. CASE i < f
    BY <1>2, <1>4, <2>1
  <2>2. CASE ~(i < f)
    <3>1. i - (f - 1) \in 1..n - f /\ ~(i <= f - 1) /\ f + (i - (f - 1)) = i + 1
      BY <2>2
    <3>2. QED
      BY <1>3, <1>4, <2>2, <3>1
  <2>3. QED
    BY <2>1, <2>2
<1>6. RemoveAt(s, f) = l \o r
  BY <1>1 DEF RemoveAt
<1>7. QED
  BY <1>4, <1>5, <1>6

\* q is s, of length n, with x at place t.
Holds(q, s, n, t, x) ==
  /\ q \in Seq(Favorite) /\ Len(q) = n + 1
  /\ \A i \in 1..n + 1 : q[i] = IF i < t THEN s[i] ELSE IF i = t THEN x ELSE s[i - 1]

LEMMA InsertedOne ==
  ASSUME NEW s \in Seq(Favorite), NEW n \in Nat, n = Len(s), NEW t \in 1..n + 1, NEW x \in Favorite
  PROVE  Holds(InsertAt(s, t, x), s, n, t, x)
<1>1. PICK l, r : l = SubSeq(s, 1, t - 1) /\ r = SubSeq(s, t, n)
  OBVIOUS
<1>2. l \in Seq(Favorite) /\ Len(l) = t - 1 /\ \A i \in 1..t - 1 : l[i] = s[i]
  <2>1. \A i \in 1..t - 1 : i \in 1..Len(s)
    OBVIOUS
  <2>2. QED
    BY <1>1, <2>1, SubSeqProperties
<1>3. r \in Seq(Favorite) /\ Len(r) = n + 1 - t /\ \A i \in 1..n + 1 - t : r[i] = s[t + i - 1]
  <2>1. \A i \in t..n : i \in 1..Len(s)
    OBVIOUS
  <2>2. QED
    BY <1>1, <2>1, SubSeqProperties
<1>4. PICK c : c = Append(l, x)
  OBVIOUS
<1>5. c \in Seq(Favorite) /\ Len(c) = t /\ c[t] = x /\ \A i \in 1..t - 1 : c[i] = l[i]
  BY <1>2, <1>4, AppendProperties
<1>6. InsertAt(s, t, x) = c \o r
  <2>1. l \o <<x>> = c
    BY <1>2, <1>4, AppendIsConcat
  <2>2. QED
    BY <1>1, <2>1 DEF InsertAt
<1>7. /\ c \o r \in Seq(Favorite) /\ Len(c \o r) = n + 1
      /\ \A i \in 1..n + 1 : (c \o r)[i] = IF i <= t THEN c[i] ELSE r[i - t]
  <2>1. Len(c) + Len(r) = n + 1
    BY <1>3, <1>5
  <2>2. QED
    BY <1>3, <1>5, <2>1, ConcatProperties
<1>8. ASSUME NEW i \in 1..n + 1 PROVE (c \o r)[i] = IF i < t THEN s[i] ELSE IF i = t THEN x ELSE s[i - 1]
  <2>1. CASE i < t
    <3>1. i \in 1..t - 1 /\ i <= t
      BY <2>1
    <3>2. (c \o r)[i] = c[i] /\ c[i] = l[i] /\ l[i] = s[i]
      BY <1>2, <1>5, <1>7, <3>1
    <3>3. QED
      BY <2>1, <3>2
  <2>2. CASE i = t
    BY <1>5, <1>7, <2>2
  <2>3. CASE i > t
    <3>1. PICK k : k = i - t
      OBVIOUS
    <3>2. k \in 1..n + 1 - t /\ ~(i <= t) /\ t + k - 1 = i - 1
      BY <2>3, <3>1
    <3>3. (c \o r)[i] = r[k] /\ r[k] = s[i - 1]
      BY <1>3, <1>7, <3>1, <3>2
    <3>4. ~(i < t) /\ i # t
      BY <2>3
    <3>5. QED
      BY <3>3, <3>4
  <2>4. i < t \/ i = t \/ i > t
    OBVIOUS
  <2>5. QED
    BY <2>1, <2>2, <2>3, <2>4
<1>9. QED
  BY <1>6, <1>7, <1>8 DEF Holds

\* Where an element of a list is after the one at f was moved to t: before, at and after t.
LEMMA MovedItem ==
  ASSUME NEW s \in Seq(Favorite), Distinct(s), NEW f \in DOMAIN s, NEW t \in DOMAIN s
  PROVE  Moved(s, f, t) \in Seq(Favorite) /\ Distinct(Moved(s, f, t))
<1>1. PICK n \in Nat : n = Len(s)
  BY LenProperties
<1>2. f \in 1..n /\ t \in 1..n /\ s[f] \in Favorite /\ n - 1 \in Nat /\ n = n - 1 + 1
  BY <1>1
<1>3. PICK r : r = RemoveAt(s, f)
  OBVIOUS
<1>4. r \in Seq(Favorite) /\ Len(r) = n - 1 /\ \A i \in 1..n - 1 : r[i] = IF i < f THEN s[i] ELSE s[i + 1]
  <2>1. /\ RemoveAt(s, f) \in Seq(Favorite) /\ Len(RemoveAt(s, f)) = n - 1
        /\ \A i \in 1..n - 1 : RemoveAt(s, f)[i] = IF i < f THEN s[i] ELSE s[i + 1]
    BY <1>1, <1>2, RemovedOne
  <2>2. QED
    BY <1>3, <2>1
<1>5. PICK q : q = InsertAt(r, t, s[f])
  OBVIOUS
<1>6. /\ q \in Seq(Favorite) /\ Len(q) = n
      /\ \A i \in 1..n : q[i] = IF i < t THEN r[i] ELSE IF i = t THEN s[f] ELSE r[i - 1]
  <2>1. PICK m \in Nat : m = n - 1
    BY <1>2
  <2>2. t \in 1..m + 1 /\ m + 1 = n /\ m = Len(r)
    BY <1>2, <1>4, <2>1
  <2>3. /\ q \in Seq(Favorite) /\ Len(q) = m + 1
        /\ \A i \in 1..m + 1 : q[i] = IF i < t THEN r[i] ELSE IF i = t THEN s[f] ELSE r[i - 1]
    <3>1. PICK x \in Favorite : x = s[f]
      BY <1>2
    <3>2. Holds(InsertAt(r, t, x), r, m, t, x)
      <4>1. r \in Seq(Favorite) /\ m = Len(r) /\ t \in 1..m + 1
        BY <1>4, <2>2
      <4>2. QED
        BY <4>1, InsertedOne
    <3>3. QED
      BY <1>5, <3>1, <3>2 DEF Holds
  <2>4. QED
    BY <2>2, <2>3
<1>7. \A j \in 1..n - 1 : \E k \in 1..n : k # f /\ r[j] = s[k] /\ k = IF j < f THEN j ELSE j + 1
  BY <1>2, <1>4
<1>8. ASSUME NEW i \in 1..n - 1, NEW k \in 1..n - 1, r[i] = r[k] PROVE i = k
  <2>1. PICK v \in 1..n : v # f /\ r[i] = s[v] /\ v = IF i < f THEN i ELSE i + 1
    BY <1>7
  <2>2. PICK w \in 1..n : w # f /\ r[k] = s[w] /\ w = IF k < f THEN k ELSE k + 1
    BY <1>7
  <2>3. v = w
    <3>1. s[v] = s[w]
      BY <1>8, <2>1, <2>2
    <3>2. QED
      BY <1>1, <3>1, DistinctPlaces
  <2>4. QED
    BY <2>1, <2>2, <2>3
<1>9. \A j \in 1..n - 1 : r[j] # s[f]
  <2>1. \A k \in 1..n : s[k] = s[f] => k = f
    BY <1>1, <1>2, DistinctPlaces
  <2>2. QED
    BY <1>7, <2>1
<1>10. \A i \in 1..n : \/ i = t /\ q[i] = s[f]
                       \/ i < t /\ i \in 1..n - 1 /\ q[i] = r[i]
                       \/ i > t /\ i - 1 \in 1..n - 1 /\ q[i] = r[i - 1]
  <2>1. SUFFICES ASSUME NEW i \in 1..n
        PROVE  \/ i = t /\ q[i] = s[f]
               \/ i < t /\ i \in 1..n - 1 /\ q[i] = r[i]
               \/ i > t /\ i - 1 \in 1..n - 1 /\ q[i] = r[i - 1]
    OBVIOUS
  <2>2. \/ i = t /\ ~(i < t)
        \/ i < t /\ i \in 1..n - 1
        \/ i > t /\ ~(i < t) /\ i # t /\ i - 1 \in 1..n - 1
    BY <1>2
  <2>3. QED
    BY <1>6, <2>2
<1>11. ASSUME NEW i \in 1..n, NEW k \in 1..n, q[i] = q[k] PROVE i = k
  <2>1. CASE i = t \/ k = t
    BY <1>9, <1>10, <1>11, <2>1
  <2>2. CASE i < t /\ k < t
    BY <1>8, <1>10, <1>11, <2>2
  <2>3. CASE i > t /\ k > t
    <3>1. i - 1 = k - 1
      BY <1>8, <1>10, <1>11, <2>3
    <3>2. QED
      BY <3>1
  <2>4. CASE (i < t /\ k > t)
    <3>1. i = k - 1
      BY <1>8, <1>10, <1>11, <2>4
    <3>2. QED
      BY <1>2, <2>4, <3>1
  <2>5. CASE (i > t /\ k < t)
    <3>1. i - 1 = k
      BY <1>8, <1>10, <1>11, <2>5
    <3>2. QED
      BY <1>2, <2>5, <3>1
  <2>6. QED
    BY <1>2, <2>1, <2>2, <2>3, <2>4, <2>5
<1>12. Distinct(q)
  BY <1>6, <1>11 DEF Distinct
<1>13. QED
  BY <1>3, <1>5, <1>6, <1>12 DEF Moved

\* No list holds an item twice, for any items and lengths of the lists.
THEOREM BookmarksComeOnce == FavoritesSpec => []FavoritesSafe
<1> USE DEF FavoritesSafe, FavoritesTypeOK, EachOnce
<1>1. FavoritesInit => FavoritesSafe
  BY EmptySeq DEF FavoritesInit, Distinct
<1>2. FavoritesSafe /\ [FavoritesNext]_favoriteVars => FavoritesSafe'
  <2>1. SUFFICES ASSUME FavoritesSafe, [FavoritesNext]_favoriteVars PROVE FavoritesSafe'
    OBVIOUS
  <2>2. ASSUME NEW x \in Favorite, AddFavorite(x) PROVE FavoritesSafe'
    <3>1. CASE Contains(favorites, x)
      BY <2>1, <2>2, <3>1 DEF AddFavorite, Distinct
    <3>2. CASE ~Contains(favorites, x)
      <4>1. PICK n \in Nat : n = Len(favorites)
        BY <2>1, LenProperties
      <4>2. PICK t : t = Append(favorites, x)
        OBVIOUS
      <4>3. t \in Seq(Favorite) /\ Len(t) = n + 1 /\ t[n + 1] = x /\ \A i \in 1..n : t[i] = favorites[i]
        BY <2>1, <4>1, <4>2, AppendProperties
      <4>4. \A i \in 1..n : favorites[i] # x
        BY <3>2, <4>1 DEF Contains
      <4>5. \A i \in 1..n + 1 : i \in 1..n \/ i = n + 1
        BY <4>1
      <4>6. \A i, j \in 1..n : favorites[i] = favorites[j] => i = j
        BY <2>1, <4>1, DistinctPlaces
      <4>7. Distinct(t)
        BY <4>3, <4>4, <4>5, <4>6 DEF Distinct
      <4>8. favorites' = t /\ UNCHANGED <<recentItems, recentNamespaces>>
        BY <2>2, <3>2, <4>2 DEF AddFavorite
      <4>9. QED
        BY <2>1, <4>3, <4>7, <4>8 DEF Distinct
    <3>3. QED
      BY <3>1, <3>2
  <2>3. ASSUME NEW x \in Favorite, RemoveFavorite(x) PROVE FavoritesSafe'
    BY <2>1, <2>3, AllButOne DEF RemoveFavorite, Distinct
  <2>4. ASSUME NEW x \in Favorite, AddRecentItem(x) PROVE FavoritesSafe'
    BY <2>1, <2>4, PushedItem DEF AddRecentItem, Distinct
  <2>5. ASSUME NEW x \in Favorite, AddRecentNamespace(x) PROVE FavoritesSafe'
    BY <2>1, <2>5, PushedItem DEF AddRecentNamespace, Distinct
  <2>6. ASSUME NEW from \in Nat, NEW to \in Nat, ReorderFavorites(from, to) PROVE FavoritesSafe'
    BY <2>1, <2>6, MovedItem DEF ReorderFavorites, Distinct
  <2>7. CASE ClearRecent \/ UNCHANGED favoriteVars
    <3>1. <<>> \in Seq(Favorite) /\ Len(<<>>) = 0 /\ Distinct(<<>>)
      BY EmptySeq DEF Distinct
    <3>2. CASE ClearRecent
      BY <2>1, <3>1, <3>2 DEF ClearRecent, Distinct
    <3>3. CASE UNCHANGED favoriteVars
      BY <2>1, <3>3 DEF favoriteVars, Distinct
    <3>4. QED
      BY <2>7, <3>2, <3>3
  <2>8. QED
    BY <2>1, <2>2, <2>3, <2>4, <2>5, <2>6, <2>7 DEF FavoritesNext
<1>3. QED
  BY <1>1, <1>2, PTL DEF FavoritesSpec
HIDE FavoritesAssumption

-----------------------------------------------------------------------------
\* The audit log.
USE AuditAssumption

Now == Len(stamps)
\* A sequence of entries in the order of Log, of the n entries there were.
Ascends(s, n) == /\ \A i \in 1..Len(s) : s[i].n \in 1..n
                 /\ \A i, j \in 1..Len(s) : i < j => s[i].n < s[j].n
Shape == /\ nextID <= Now /\ Now <= MaxLog
         /\ phase \in {"write", "rename", "reopen"} => open
         /\ phase \in {"write", "rename"} => Len(entries) < Now
         /\ phase = "rename" => tmp = entries
Orders == Ascends(entries, Now) /\ Ascends(Parsed, Now)
\* As long as nothing was lost or left unread, an entry's ID is its number.
Whole == Len(Parsed) = Now /\ unread = {}
OwnIds(s) == \A i \in 1..Len(s) : s[i].id = s[i].n
Ids == Whole => OwnIds(Parsed) /\ OwnIds(entries) /\ (open => nextID = Now)

AuditInv == AuditTypeOK /\ Shape /\ Orders /\ Retained /\ Ids

\* Strictly ascending numbers leave no more places than there are numbers.
LEMMA RoomAbove ==
  ASSUME NEW s \in Seq(Entry), NEW n \in Nat, Ascends(s, n)
  PROVE  Len(s) <= n /\ \A p \in 1..Len(s) : Len(s) - p <= n - s[p].n
<1>1. PICK l \in Nat : l = Len(s)
  BY LenProperties
<1>2. ASSUME NEW p \in 1..l PROVE l - p <= n - s[p].n
  <2>1. PICK k \in 1..n : k = s[p].n
    BY <1>1 DEF Ascends
  <2>2. PICK f : f = [i \in p..l |-> s[i].n]
    OBVIOUS
  <2>3. PICK S, T : S = p..l /\ T = k..n
    OBVIOUS
  <2>4. \A i \in S : i \in 1..l /\ (p < i \/ i = p)
    BY <2>3
  <2>5. ASSUME NEW i \in S PROVE s[i].n \in T
    <3>1. s[i].n \in 1..n /\ (i = p \/ s[p].n < s[i].n)
      BY <1>1, <2>4 DEF Ascends
    <3>2. QED
      BY <2>1, <2>3, <3>1
  <2>6. ASSUME NEW i \in S, NEW j \in S, s[i].n = s[j].n PROVE i = j
    <3>1. i \in 1..l /\ j \in 1..l
      BY <2>4
    <3>2. s[i].n \in 1..n
      BY <1>1, <3>1 DEF Ascends
    <3>3. ~(i < j) /\ ~(j < i)
      BY <1>1, <2>6, <3>1, <3>2 DEF Ascends
    <3>4. QED
      BY <3>1, <3>3
  <2>7. f \in [S -> T] /\ \A i \in S : f[i] = s[i].n
    BY <2>2, <2>3, <2>5
  <2>8. f \in Injection(S, T)
    BY <2>6, <2>7 DEF Injection, IsInjective
  <2>9. IsFiniteSet(T) /\ Cardinality(T) = n - k + 1 /\ Cardinality(S) = l - p + 1
    BY <2>3, FS_Interval
  <2>10. Cardinality(S) <= Cardinality(T)
    BY <2>8, <2>9, FS_Injection
  <2>11. QED
    BY <2>1, <2>9, <2>10
<1>3. l <= n
  <2>1. SUFFICES ASSUME l # 0 PROVE l <= n
    OBVIOUS
  <2>2. 1 \in 1..l
    BY <2>1
  <2>3. PICK k \in 1..n : k = s[1].n
    BY <1>1, <2>2 DEF Ascends
  <2>4. l - 1 <= n - k
    BY <1>2, <2>2, <2>3
  <2>5. QED
    BY <2>4
<1>4. QED
  BY <1>1, <1>2, <1>3

\* Only the last MaxEntries are kept.
LEMMA Trimmed ==
  ASSUME NEW s \in Seq(Entry)
  PROVE  /\ Trim(s) \in Seq(Entry) /\ Len(Trim(s)) <= MaxEntries
         /\ \E d \in 0..Len(s) : /\ Len(Trim(s)) = Len(s) - d /\ (d = 0 \/ d = Len(s) - MaxEntries)
                                 /\ \A i \in 1..Len(s) - d : Trim(s)[i] = s[i + d]
<1>1. PICK l \in Nat : l = Len(s)
  BY LenProperties
<1>2. CASE l <= MaxEntries
  <2>1. Trim(s) = s
    BY <1>1, <1>2 DEF Trim
  <2>2. \A i \in 1..l - 0 : s[i] = s[i + 0]
    OBVIOUS
  <2>3. 0 \in 0..l /\ l = l - 0
    OBVIOUS
  <2>4. QED
    BY <1>1, <1>2, <2>1, <2>2, <2>3
<1>3. CASE l > MaxEntries
  <2>1. PICK d : d = l - MaxEntries
    OBVIOUS
  <2>2. d \in 1..l /\ l - d = MaxEntries
    BY <1>3, <2>1
  <2>3. PICK t : t = SubSeq(s, d + 1, l)
    OBVIOUS
  <2>4. Trim(s) = t
    BY <1>1, <1>3, <2>1, <2>3 DEF Trim
  <2>5. \A i \in d + 1..l : i \in 1..Len(s)
    BY <1>1, <2>2
  <2>6. t \in Seq(Entry) /\ Len(t) = l - d /\ \A i \in 1..l - d : t[i] = s[d + 1 + i - 1]
    <3>1. d + 1 \in Int /\ l \in Int /\ (IF d + 1 <= l THEN l - (d + 1) + 1 ELSE 0) = l - d
      BY <2>2
    <3>2. /\ t \in Seq(Entry) /\ Len(t) = IF d + 1 <= l THEN l - (d + 1) + 1 ELSE 0
          /\ \A i \in 1..l - (d + 1) + 1 : t[i] = s[d + 1 + i - 1]
      BY <2>3, <2>5, <3>1, SubSeqProperties
    <3>3. l - (d + 1) + 1 = l - d
      BY <2>2
    <3>4. QED
      BY <3>1, <3>2, <3>3
  <2>7. \A i \in 1..l - d : d + 1 + i - 1 = i + d
    BY <2>2
  <2>8. Len(t) <= MaxEntries
    BY <2>2, <2>6
  <2>9. \A i \in 1..l - d : t[i] = s[i + d]
    BY <2>6, <2>7
  <2>10. d \in 0..l
    BY <2>2
  <2>11. QED
    BY <1>1, <2>1, <2>4, <2>6, <2>8, <2>9, <2>10
<1>4. QED
  BY <1>2, <1>3

\* What a reader that stops early has got.
LEMMA BeginningKeeps ==
  ASSUME NEW s \in Seq(Entry), NEW n \in Nat, Ascends(s, n), NEW k \in 0..Len(s)
  PROVE  /\ SubSeq(s, 1, k) \in Seq(Entry) /\ Len(SubSeq(s, 1, k)) = k /\ Ascends(SubSeq(s, 1, k), n)
         /\ (OwnIds(s) => OwnIds(SubSeq(s, 1, k)))
         /\ Numbers(s) \subseteq Numbers(SubSeq(s, 1, k)) => k = Len(s)
<1>1. PICK l \in Nat : l = Len(s)
  BY LenProperties
<1>2. PICK t : t = SubSeq(s, 1, k)
  OBVIOUS
<1>3. k \in 0..l /\ \A i \in 1..k : i \in 1..l
  BY <1>1
<1>4. t \in Seq(Entry) /\ Len(t) = k /\ \A i \in 1..k : t[i] = s[i]
  <2>1. (IF 1 <= k THEN k - 1 + 1 ELSE 0) = k /\ k - 1 + 1 = k
    BY <1>3
  <2>2. \A i \in 1..k : 1 + i - 1 = i
    OBVIOUS
  <2>3. /\ t \in Seq(Entry) /\ Len(t) = IF 1 <= k THEN k - 1 + 1 ELSE 0
        /\ \A i \in 1..k - 1 + 1 : t[i] = s[1 + i - 1]
    BY <1>1, <1>2, <1>3, SubSeqProperties
  <2>4. QED
    BY <2>1, <2>2, <2>3
<1>5. Ascends(t, n)
  BY <1>1, <1>3, <1>4 DEF Ascends
<1>6. OwnIds(s) => OwnIds(t)
  BY <1>1, <1>3, <1>4 DEF OwnIds
<1>7. ASSUME k < l PROVE \E m \in Numbers(s) : m \notin Numbers(t)
  <2>1. k + 1 \in 1..l /\ \A i \in 1..k : i < k + 1
    BY <1>3, <1>7
  <2>2. \A i \in 1..k : s[i].n < s[k + 1].n /\ s[i].n \in 1..n
    BY <1>1, <1>3, <2>1 DEF Ascends
  <2>3. s[k + 1].n \in Numbers(s) /\ s[k + 1].n \in 1..n
    BY <1>1, <2>1 DEF Ascends, Numbers
  <2>4. DOMAIN t = 1..k
    BY <1>4
  <2>5. s[k + 1].n \notin Numbers(t)
    <3>1. PICK m \in 1..n : m = s[k + 1].n
      BY <2>3
    <3>2. \A i \in 1..k : t[i].n \in 1..n /\ t[i].n < m
      BY <1>4, <2>2, <3>1
    <3>3. \A i \in 1..k : t[i].n # m
      BY <3>2
    <3>4. QED
      BY <2>4, <3>1, <3>3 DEF Numbers
  <2>6. QED
    BY <2>3, <2>5
<1>8. QED
  BY <1>1, <1>2, <1>3, <1>4, <1>5, <1>6, <1>7

\* What is trimmed keeps its order, its IDs and the entries that are not far behind.
LEMMA TrimKeeps ==
  ASSUME NEW s \in Seq(Entry), NEW n \in Nat, Ascends(s, n)
  PROVE  /\ Ascends(Trim(s), n) /\ (OwnIds(s) => OwnIds(Trim(s)))
         /\ \A m \in Numbers(s) : n - m < MaxEntries => m \in Numbers(Trim(s))
<1>1. PICK l \in Nat : l = Len(s)
  BY LenProperties
<1>2. PICK t : t = Trim(s)
  OBVIOUS
<1>3. PICK d \in 0..l : /\ Len(t) = l - d /\ (d = 0 \/ d = l - MaxEntries)
                        /\ \A i \in 1..l - d : t[i] = s[i + d]
  BY <1>1, <1>2, Trimmed
<1>4. t \in Seq(Entry)
  BY <1>2, Trimmed
<1>5. \A i \in 1..l - d : i + d \in 1..l
  OBVIOUS
<1>6. Ascends(t, n)
  <2>1. \A i, j \in 1..l - d : i < j => i + d < j + d
    OBVIOUS
  <2>2. QED
    BY <1>1, <1>3, <1>5, <2>1 DEF Ascends
<1>7. OwnIds(s) => OwnIds(t)
  BY <1>1, <1>3, <1>5 DEF OwnIds
<1>8. ASSUME NEW m \in Numbers(s), n - m < MaxEntries PROVE m \in Numbers(t)
  <2>1. PICK p \in 1..l : s[p].n = m
    BY <1>1, <1>8 DEF Numbers
  <2>2. m \in 1..n /\ l - p <= n - m
    BY <1>1, <2>1, RoomAbove DEF Ascends
  <2>3. p - d \in 1..l - d /\ (p - d) + d = p
    BY <1>3, <1>8, <2>2
  <2>4. t[p - d].n = m /\ p - d \in DOMAIN t
    BY <1>3, <1>4, <2>1, <2>3
  <2>5. QED
    BY <2>4 DEF Numbers
<1>9. QED
  BY <1>2, <1>6, <1>7, <1>8

\* One more entry, at the end.
LEMMA OneMore ==
  ASSUME NEW s \in Seq(Entry), NEW n \in Nat, Ascends(s, n), NEW e \in Entry, e.n = n + 1
  PROVE  /\ Append(s, e) \in Seq(Entry) /\ Len(Append(s, e)) = Len(s) + 1 /\ Ascends(Append(s, e), n + 1)
         /\ (OwnIds(s) /\ e.id = e.n => OwnIds(Append(s, e)))
         /\ Numbers(Append(s, e)) = Numbers(s) \cup {n + 1}
<1>1. PICK l \in Nat : l = Len(s)
  BY LenProperties
<1>2. PICK t : t = Append(s, e)
  OBVIOUS
<1>3. t \in Seq(Entry) /\ Len(t) = l + 1 /\ t[l + 1] = e /\ \A i \in 1..l : t[i] = s[i]
  BY <1>1, <1>2, AppendProperties
<1>4. \A i \in 1..l + 1 : i \in 1..l \/ i = l + 1
  OBVIOUS
<1>5. Ascends(t, n + 1)
  <2>1. ASSUME NEW i \in 1..l + 1 PROVE t[i].n \in 1..n + 1
    <3>1. CASE i \in 1..l
      <4>1. s[i].n \in 1..n
        BY <1>1, <3>1 DEF Ascends
      <4>2. QED
        BY <1>3, <3>1, <4>1
    <3>2. CASE i = l + 1
      BY <1>3, <3>2
    <3>3. QED
      BY <1>4, <3>1, <3>2
  <2>2. ASSUME NEW i \in 1..l + 1, NEW j \in 1..l + 1, i < j PROVE t[i].n < t[j].n
    <3>1. i \in 1..l
      BY <2>2
    <3>2. s[i].n \in 1..n
      BY <1>1, <3>1 DEF Ascends
    <3>3. CASE j \in 1..l
      <4>1. s[i].n < s[j].n
        BY <1>1, <2>2, <3>1, <3>3 DEF Ascends
      <4>2. QED
        BY <1>3, <3>1, <3>3, <4>1
    <3>4. CASE j = l + 1
      BY <1>3, <3>1, <3>2, <3>4
    <3>5. QED
      BY <1>4, <3>3, <3>4
  <2>3. QED
    BY <1>3, <2>1, <2>2 DEF Ascends
<1>6. OwnIds(s) /\ e.id = e.n => OwnIds(t)
  BY <1>1, <1>3, <1>4 DEF OwnIds
<1>7. Numbers(t) = Numbers(s) \cup {n + 1}
  <2>1. DOMAIN s = 1..l /\ DOMAIN t = 1..l + 1
    BY <1>1, <1>3
  <2>2. \A m \in Numbers(t) : m \in Numbers(s) \/ m = n + 1
    BY <1>3, <1>4, <2>1 DEF Numbers
  <2>3. \A i \in 1..l : i \in 1..l + 1
    OBVIOUS
  <2>4. \A m \in Numbers(s) : m \in Numbers(t)
    BY <1>3, <2>1, <2>3 DEF Numbers
  <2>5. l + 1 \in 1..l + 1
    OBVIOUS
  <2>6. n + 1 \in Numbers(t)
    BY <1>3, <2>1, <2>5 DEF Numbers
  <2>7. QED
    BY <2>2, <2>4, <2>6
<1>8. QED
  BY <1>1, <1>2, <1>3, <1>5, <1>6, <1>7

\* What a filter keeps of entries.
LEMMA FilterKeeps ==
  ASSUME NEW s \in Seq(Entry), NEW n \in Nat, Ascends(s, n), NEW S \in SUBSET (1..Len(s))
  PROVE  /\ AtPlaces(s, S) \in Seq(Entry) /\ Len(AtPlaces(s, S)) <= Len(s) /\ Ascends(AtPlaces(s, S), n)
         /\ (OwnIds(s) => OwnIds(AtPlaces(s, S)))
         /\ \A i \in S : s[i].n \in Numbers(AtPlaces(s, S))
         /\ AtPlaces(s, S) # s => Len(AtPlaces(s, S)) < Len(s)
<1>1. PICK t, m : t = AtPlaces(s, S) /\ m = Cardinality(S)
  OBVIOUS
<1>2. PICK l \in Nat : l = Len(s)
  BY LenProperties
<1>3. /\ t \in Seq(Entry) /\ Len(t) = m /\ m \in 0..l
      /\ \A r \in 1..m : Nth(S, r) \in S /\ t[r] = s[Nth(S, r)]
      /\ \A q, r \in 1..m : q < r => Nth(S, q) < Nth(S, r)
      /\ \A i \in S : \E r \in 1..m : t[r] = s[i]
  BY <1>1, <1>2, AtPlacesProperties
<1>4. \A r \in 1..m : Nth(S, r) \in 1..l
  BY <1>2, <1>3
<1>5. Ascends(t, n)
  BY <1>2, <1>3, <1>4 DEF Ascends
<1>6. OwnIds(s) => OwnIds(t)
  <2>1. ASSUME OwnIds(s), NEW r \in 1..m PROVE t[r].id = t[r].n
    <3>1. PICK i \in 1..l : t[r] = s[i]
      BY <1>3, <1>4
    <3>2. QED
      BY <1>2, <2>1, <3>1 DEF OwnIds
  <2>2. QED
    BY <1>3, <2>1 DEF OwnIds
<1>7. ASSUME NEW i \in S PROVE s[i].n \in Numbers(t)
  <2>1. PICK r \in 1..m : t[r] = s[i]
    BY <1>3
  <2>2. r \in DOMAIN t
    BY <1>3, <2>1
  <2>3. QED
    BY <2>1, <2>2 DEF Numbers
<1>8. t # s => m < l
  <2>1. SUFFICES ASSUME t # s PROVE m < l
    OBVIOUS
  <2>2. S # 1..l
    BY <1>1, <1>2, <2>1, AtAllPlaces
  <2>3. QED
    BY <1>1, <1>2, <2>2, AtAllPlaces
<1>9. QED
  BY <1>1, <1>2, <1>3, <1>5, <1>6, <1>7, <1>8

\* What the loader makes of the end of the file.
LEMMA LinesOf ==
  ASSUME NEW s
  PROVE  /\ s = <<>> => Lines(s) = <<>>
         /\ s \in Seq(Entry) => Lines(s) = s /\ AtPlaces(s, {i \in DOMAIN s : s[i] = Torn}) = <<>>
         /\ s = <<Torn>> => Lines(s) = <<>>
<1>1. Torn \notin Entry
  BY DEF Torn, Entry
<1>2. ASSUME s \in Seq(Entry)
      PROVE  Lines(s) = s /\ AtPlaces(s, {i \in DOMAIN s : s[i] = Torn}) = <<>>
  <2>1. \A i \in DOMAIN s : s[i] # Torn
    BY <1>1, <1>2
  <2>2. DOMAIN s = 1..Len(s)
    BY <1>2
  <2>3. {i \in DOMAIN s : s[i] # Torn} = 1..Len(s) /\ {i \in DOMAIN s : s[i] = Torn} = {}
    BY <2>1, <2>2
  <2>4. Lines(s) = s
    BY <1>2, <2>3, AtAllPlaces DEF Lines
  <2>5. AtPlaces(s, {}) = <<>>
    <3>1. Cardinality({}) = 0
      BY FS_EmptySet
    <3>2. Len(AtPlaces(s, {})) = 0 /\ AtPlaces(s, {}) \in Seq(Entry)
      BY <1>2, <3>1, AtPlacesProperties
    <3>3. QED
      BY <3>2, EmptySeq
  <2>6. QED
    BY <2>3, <2>4, <2>5
<1>3. <<>> \in Seq(Entry)
  BY EmptySeq
<1>4. ASSUME s = <<Torn>> PROVE Lines(s) = <<>>
  <2>1. s \in Seq({Torn}) /\ Len(s) = 1 /\ s[1] = Torn /\ DOMAIN s = 1..1
    BY <1>4
  <2>2. {i \in DOMAIN s : s[i] # Torn} = {}
    BY <2>1
  <2>3. Cardinality({}) = 0
    BY FS_EmptySet
  <2>4. Len(AtPlaces(s, {})) = 0 /\ AtPlaces(s, {}) \in Seq({Torn})
    BY <2>1, <2>3, AtPlacesProperties
  <2>5. QED
    BY <2>2, <2>4, EmptySeq DEF Lines
<1>5. QED
  BY <1>2, <1>3, <1>4

LEMMA ParsedIs ==
  ASSUME NEW f \in Seq(Entry), NEW r
  PROVE  /\ r = <<>> \/ r = <<Torn>> => f \o Lines(r) = f
         /\ \A e \in Entry : r = <<e>> => f \o Lines(r) = Append(f, e)
<1>1. f \o <<>> = f
  OBVIOUS
<1>2. ASSUME NEW e \in Entry, r = <<e>> PROVE f \o Lines(r) = Append(f, e)
  <2>1. <<e>> \in Seq(Entry)
    OBVIOUS
  <2>2. Lines(r) = <<e>>
    BY <1>2, <2>1, LinesOf
  <2>3. QED
    BY <2>2, AppendIsConcat
<1>3. QED
  BY <1>1, <1>2, LinesOf

LEMMA RestKinds ==
  ASSUME AuditTypeOK
  PROVE  rest = <<>> \/ rest = <<Torn>> \/ \E e \in Entry : rest = <<e>>
<1>1. PICK E : E = Entry \cup {Torn}
  OBVIOUS
<1>2. rest \in Seq(E) /\ Len(rest) <= 1
  BY <1>1 DEF AuditTypeOK
<1>3. CASE Len(rest) = 0
  BY <1>2, <1>3, EmptySeq
<1>4. CASE Len(rest) = 1
  <2>1. rest[1] \in E
    BY <1>2, <1>4, ElementOfSeq
  <2>2. rest = <<rest[1]>>
    BY <1>2, <1>4
  <2>3. QED
    BY <1>1, <2>1, <2>2
<1>5. QED
  <2>1. Len(rest) \in Nat
    BY <1>2, LenProperties
  <2>2. Len(rest) = 0 \/ Len(rest) = 1
    <3>1. PICK l \in Nat : l = Len(rest) /\ l <= 1
      BY <1>2, <2>1
    <3>2. l = 0 \/ l = 1
      BY <3>1
    <3>3. QED
      BY <3>1, <3>2
  <2>3. QED
    BY <1>3, <1>4, <2>2

\* The file is a beginning of what is parsed.
LEMMA FileIsParsed ==
  ASSUME AuditTypeOK
  PROVE  /\ Parsed \in Seq(Entry) /\ Len(file) <= Len(Parsed)
         /\ \A n \in Nat : Ascends(Parsed, n) => Ascends(file, n)
         /\ OwnIds(Parsed) => OwnIds(file)
         /\ Numbers(file) \subseteq Numbers(Parsed)
<1>1. file \in Seq(Entry)
  BY DEF AuditTypeOK
<1>2. CASE Parsed = file
  BY <1>1, <1>2, LenProperties
<1>3. CASE \E e \in Entry : Parsed = Append(file, e)
  <2>1. PICK e \in Entry : Parsed = Append(file, e)
    BY <1>3
  <2>2. PICK l \in Nat : l = Len(file)
    BY <1>1, LenProperties
  <2>3. PICK t : t = Parsed
    OBVIOUS
  <2>4. t \in Seq(Entry) /\ Len(t) = l + 1 /\ \A i \in 1..l : t[i] = file[i]
    BY <1>1, <2>1, <2>2, <2>3, AppendProperties
  <2>5. \A i \in 1..l : i \in 1..l + 1
    OBVIOUS
  <2>6. \A n \in Nat : Ascends(t, n) => Ascends(file, n)
    BY <2>2, <2>4, <2>5 DEF Ascends
  <2>7. OwnIds(t) => OwnIds(file)
    BY <2>2, <2>4, <2>5 DEF OwnIds
  <2>8. DOMAIN file = 1..l /\ DOMAIN t = 1..l + 1
    BY <1>1, <2>2, <2>4
  <2>9. \A n \in Numbers(file) : n \in Numbers(t)
    BY <2>4, <2>5, <2>8 DEF Numbers
  <2>10. l <= l + 1
    OBVIOUS
  <2>11. QED
    BY <2>2, <2>3, <2>4, <2>6, <2>7, <2>9, <2>10
<1>4. QED
  BY <1>1, <1>2, <1>3, RestKinds, ParsedIs DEF Parsed

LEMMA AuditStarts == AuditInit => AuditInv
<1> SUFFICES ASSUME AuditInit PROVE AuditInv
  OBVIOUS
<1>1. <<>> \in Seq(Entry) /\ <<>> \in Seq(Entry \cup {Torn}) /\ <<>> \in Seq(0..MaxDay) /\ Len(<<>>) = 0
  BY EmptySeq
<1>2. AuditTypeOK
  <2>1. 0 \in 0..MaxLog /\ 0 \in 0..MaxDay /\ 0 <= MaxEntries /\ 0 <= 1
    OBVIOUS
  <2>2. QED
    BY <1>1, <2>1 DEF AuditInit, AuditTypeOK
<1>3. Parsed = <<>>
  BY <1>1, ParsedIs DEF AuditInit, Parsed
<1>4. QED
  BY <1>1, <1>2, <1>3 DEF AuditInit, AuditInv, Shape, Orders, Ascends, Retained, Ids, OwnIds, Now, Whole

LEMMA AuditStartKeeps ==
  ASSUME AuditInv, Start
  PROVE  AuditInv'
<1>1. PICK s : s = Parsed
  OBVIOUS
<1>2. PICK n \in Nat : n = Now
  BY LenProperties DEF AuditInv, AuditTypeOK, Now
<1>3. /\ phase = "down" /\ phase' = "prune"
      /\ UNCHANGED <<file, rest, tmp, today, stamps, stored>>
  BY DEF Start, disk
<1>4. s \in Seq(Entry) /\ Ascends(s, n) /\ Numbers(file) \subseteq Numbers(s)
  BY <1>1, <1>2, FileIsParsed DEF AuditInv, Orders
<1>5. Len(s) \in 0..n /\ n \in 0..MaxLog /\ Numbers(s) \subseteq 1..n
  <2>1. n \in 0..MaxLog
    BY <1>2 DEF AuditInv, Shape, Now
  <2>2. Numbers(s) \subseteq 1..n
    BY <1>4 DEF Ascends, Numbers
  <2>3. QED
    BY <1>4, <2>1, <2>2, RoomAbove, LenProperties
<1>6. PICK t \in Seq(Entry) :
        /\ entries' = t /\ Len(t) <= MaxEntries /\ Ascends(t, n)
        /\ nextID' \in 0..n /\ open' \in BOOLEAN /\ unread \subseteq unread' /\ unread' \subseteq unread \cup 1..n
        /\ \A m \in Numbers(s) \ unread' : open' /\ n - m < MaxEntries => m \in Numbers(t)
        /\ OwnIds(s) => OwnIds(t)
        /\ open' /\ unread' = {} => nextID' = Len(s)
  <2>1. CASE \E k \in Readable :
               LET read == SubSeq(s, 1, k) IN
               /\ entries' = Trim(read) /\ nextID' = Len(read) /\ open' = TRUE
               /\ unread' = unread \cup (Numbers(s) \ Numbers(read))
    <3>k. PICK k \in 0..Len(s) :
            /\ entries' = Trim(SubSeq(s, 1, k)) /\ nextID' = Len(SubSeq(s, 1, k)) /\ open' = TRUE
            /\ unread' = unread \cup (Numbers(s) \ Numbers(SubSeq(s, 1, k)))
      BY <1>1, <1>5, <2>1 DEF Readable
    <3>u. PICK u : u = SubSeq(s, 1, k)
      OBVIOUS
    <3>1. /\ entries' = Trim(u) /\ nextID' = Len(u) /\ open' = TRUE
          /\ unread' = unread \cup (Numbers(s) \ Numbers(u))
      BY <3>k, <3>u
    <3>2. /\ u \in Seq(Entry) /\ Len(u) = k /\ Ascends(u, n) /\ (OwnIds(s) => OwnIds(u))
          /\ Numbers(s) \subseteq Numbers(u) => k = Len(s)
      BY <1>4, <3>u, BeginningKeeps
    <3>3. Trim(u) \in Seq(Entry) /\ Len(Trim(u)) <= MaxEntries
      BY <3>2, Trimmed
    <3>4. /\ Ascends(Trim(u), n) /\ (OwnIds(u) => OwnIds(Trim(u)))
          /\ \A m \in Numbers(u) : n - m < MaxEntries => m \in Numbers(Trim(u))
      BY <3>2, TrimKeeps
    <3>5. nextID' \in 0..n
      BY <1>5, <3>1, <3>2
    <3>6. unread' = {} => Numbers(s) \subseteq Numbers(u)
      BY <3>1
    <3>7. \A m \in Numbers(s) \ unread' : m \in Numbers(u)
      BY <3>1
    <3>8. unread \subseteq unread' /\ unread' \subseteq unread \cup 1..n
      BY <1>5, <3>1
    <3>9. QED
      BY <3>1, <3>2, <3>3, <3>4, <3>5, <3>6, <3>7, <3>8
  <2>2. CASE entries' = <<>> /\ nextID' = 0 /\ open' = FALSE /\ UNCHANGED unread
    <3>1. <<>> \in Seq(Entry) /\ Len(<<>>) <= MaxEntries /\ Ascends(<<>>, n) /\ OwnIds(<<>>)
      BY EmptySeq DEF Ascends, OwnIds
    <3>2. 0 \in 0..n
      OBVIOUS
    <3>3. QED
      BY <2>2, <3>1, <3>2
  <2>3. QED
    BY <1>1, <2>1, <2>2 DEF Start, Counted
<1>7. nextID' \in 0..MaxLog /\ nextID' <= n
  BY <1>5, <1>6
<1>8. unread' \subseteq DOMAIN stamps
  <2>1. unread \subseteq DOMAIN stamps /\ DOMAIN stamps = 1..n
    BY <1>2 DEF AuditInv, AuditTypeOK, Now
  <2>2. QED
    BY <1>6, <2>1
<1>9. AuditTypeOK'
  BY <1>3, <1>6, <1>7, <1>8 DEF AuditInv, AuditTypeOK
<1>10. Shape'
  BY <1>2, <1>3, <1>5, <1>7 DEF Shape, Now
<1>11. Parsed' = s
  BY <1>1, <1>3 DEF Parsed
<1>12. Orders'
  BY <1>2, <1>3, <1>4, <1>6, <1>11 DEF Orders, Now
<1>13. Ids'
  <2>1. SUFFICES ASSUME Len(s) = n, unread' = {}
                 PROVE  OwnIds(s) /\ OwnIds(entries') /\ (open' => nextID' = n)
    BY <1>2, <1>3, <1>11 DEF Ids, Whole, Now
  <2>2. unread = {}
    BY <1>6, <2>1
  <2>3. OwnIds(s)
    BY <1>1, <1>2, <2>1, <2>2 DEF AuditInv, Ids, Whole
  <2>4. QED
    BY <1>6, <2>1, <2>3
<1>14. Retained'
  <2>1. SUFFICES ASSUME NEW m \in stored \ unread', Due(m)
                 PROVE  m \in Numbers(file) /\ (open' => m \in Numbers(entries'))
    BY <1>3 DEF Retained, Due
  <2>2. m \in stored \ unread
    BY <1>6, <2>1
  <2>3. m \in Numbers(file) /\ n - m < MaxEntries
    BY <1>2, <2>1, <2>2 DEF AuditInv, Retained, Due, Now
  <2>4. QED
    BY <1>4, <1>6, <2>1, <2>3
<1>15. QED
  BY <1>9, <1>10, <1>12, <1>13, <1>14 DEF AuditInv

LEMMA PruneKeeps ==
  ASSUME AuditInv, Prune
  PROVE  AuditInv'
<1>1. PICK S \in SUBSET (1..Len(entries)) :
        /\ S = {i \in 1..Len(entries) : stamps[entries[i].n] >= today - Keep}
        /\ S = {i \in DOMAIN entries : stamps[entries[i].n] >= today - Keep}
  <2>1. DOMAIN entries = 1..Len(entries)
    BY DEF AuditInv, AuditTypeOK
  <2>2. QED
    BY <2>1
<1>2. PICK kept : kept = AtPlaces(entries, S)
  OBVIOUS
<1>3. /\ phase = "prune" /\ entries' = kept
      /\ \/ kept # entries /\ open /\ phase' = "write"
         \/ phase' = "run"
      /\ UNCHANGED <<nextID, open, file, rest, tmp, today, stamps, stored, unread>>
  BY <1>1, <1>2 DEF Prune, disk
<1>4. PICK n \in Nat : n = Now
  BY LenProperties DEF AuditInv, AuditTypeOK, Now
<1>5. entries \in Seq(Entry) /\ Ascends(entries, n) /\ Len(entries) <= MaxEntries
  BY <1>4 DEF AuditInv, AuditTypeOK, Orders
<1>6. /\ kept \in Seq(Entry) /\ Len(kept) <= Len(entries) /\ Ascends(kept, n)
      /\ (OwnIds(entries) => OwnIds(kept))
      /\ \A i \in S : entries[i].n \in Numbers(kept)
      /\ kept # entries => Len(kept) < Len(entries)
  BY <1>2, <1>5, FilterKeeps
<1>7. Len(kept) \in Nat /\ Len(entries) \in Nat /\ Len(entries) <= n
  BY <1>5, <1>6, LenProperties, RoomAbove
<1>8. AuditTypeOK'
  <2>1. Len(kept) <= MaxEntries
    BY <1>5, <1>6, <1>7
  <2>2. QED
    BY <1>3, <1>6, <2>1 DEF AuditInv, AuditTypeOK
<1>9. Shape'
  <2>1. kept # entries => Len(kept) < n
    BY <1>6, <1>7
  <2>2. QED
    BY <1>3, <1>4, <2>1 DEF AuditInv, Shape, Now
<1>10. Orders'
  BY <1>3, <1>4, <1>6 DEF AuditInv, Orders, Parsed, Now
<1>11. Ids'
  BY <1>3, <1>6 DEF AuditInv, Ids, Whole, Parsed, Now
<1>12. Retained'
  <2>1. SUFFICES ASSUME NEW m \in stored \ unread, Due(m) PROVE m \in Numbers(file) /\ (open => m \in Numbers(kept))
    BY <1>3 DEF Retained, Due
  <2>2. m \in Numbers(file) /\ (open => m \in Numbers(entries))
    BY <2>1 DEF AuditInv, Retained
  <2>3. ASSUME m \in Numbers(entries) PROVE m \in Numbers(kept)
    <3>1. PICK i \in 1..Len(entries) : entries[i].n = m
      BY <1>5, <2>3 DEF Numbers
    <3>2. i \in S
      BY <1>1, <2>1, <3>1 DEF Due
    <3>3. QED
      BY <1>6, <3>1, <3>2
  <2>4. QED
    BY <2>2, <2>3
<1>13. QED
  BY <1>8, <1>9, <1>10, <1>11, <1>12 DEF AuditInv

\* The file is replaced by the whole of the memory, or not at all.
LEMMA RewriteKeeps ==
  ASSUME AuditInv, "flush" \notin Faults, WriteTemp \/ Rename \/ Reopen
  PROVE  AuditInv'
<1>1. CASE WriteTemp
  <2>1. /\ phase = "write" /\ phase' = "rename" /\ tmp' = entries
        /\ UNCHANGED <<entries, nextID, open, file, rest, today, stamps, stored, unread>>
    BY <1>1 DEF WriteTemp, memory
  <2>2. entries \in Seq(Entry \cup {Torn})
    <3>1. entries \in Seq(Entry)
      BY DEF AuditInv, AuditTypeOK
    <3>2. QED
      BY <3>1
  <2>3. AuditTypeOK'
    BY <2>1, <2>2 DEF AuditInv, AuditTypeOK
  <2>4. Shape'
    BY <2>1 DEF AuditInv, Shape, Now
  <2>5. QED
    BY <2>1, <2>3, <2>4 DEF AuditInv, Orders, Retained, Ids, Whole, Parsed, Now, Due
<1>2. CASE Rename
  <2>1. /\ phase = "rename" /\ phase' = "reopen"
        /\ UNCHANGED <<entries, nextID, open, tmp, today, stamps, stored, unread>>
    BY <1>2 DEF Rename, memory
  <2>2. open /\ tmp = entries /\ Len(entries) < Now /\ entries \in Seq(Entry)
    BY <2>1 DEF AuditInv, Shape, AuditTypeOK
  <2>3. CASE UNCHANGED <<file, rest>>
    <3>1. AuditTypeOK'
      BY <2>1, <2>3 DEF AuditInv, AuditTypeOK
    <3>2. Shape'
      BY <2>1, <2>2 DEF AuditInv, Shape, Now
    <3>3. QED
      BY <2>1, <2>3, <3>1, <3>2 DEF AuditInv, Orders, Retained, Ids, Whole, Parsed, Now, Due
  <2>4. CASE file' = Lines(tmp) /\ rest' = AtPlaces(tmp, {i \in DOMAIN tmp : tmp[i] = Torn})
    <3>1. file' = entries /\ rest' = <<>>
      BY <2>2, <2>4, LinesOf
    <3>2. Parsed' = entries
      BY <2>2, <3>1, ParsedIs DEF Parsed
    <3>3. AuditTypeOK'
      <4>1. <<>> \in Seq(Entry \cup {Torn}) /\ Len(<<>>) <= 1
        BY EmptySeq
      <4>2. QED
        BY <2>1, <2>2, <3>1, <4>1 DEF AuditInv, AuditTypeOK
    <3>4. Shape'
      BY <2>1, <2>2 DEF AuditInv, Shape, Now
    <3>5. Orders'
      BY <2>1, <3>2 DEF AuditInv, Orders, Now
    <3>6. Ids'
      <4>1. ~Whole'
        BY <2>1, <2>2, <3>2, LenProperties DEF Whole, Now, AuditInv, AuditTypeOK
      <4>2. QED
        BY <4>1 DEF Ids
    <3>7. Retained'
      BY <2>1, <2>2, <3>1 DEF AuditInv, Retained, Due
    <3>8. QED
      BY <3>3, <3>4, <3>5, <3>6, <3>7 DEF AuditInv
  <2>5. QED
    BY <1>2, <2>3, <2>4 DEF Rename
<1>3. CASE Reopen
  <2>1. /\ phase = "reopen" /\ phase' = "run" /\ open' \in BOOLEAN
        /\ UNCHANGED <<entries, nextID, file, rest, tmp, today, stamps, stored, unread>>
    BY <1>3 DEF Reopen, disk
  <2>2. open
    BY <2>1 DEF AuditInv, Shape
  <2>3. AuditTypeOK'
    BY <2>1 DEF AuditInv, AuditTypeOK
  <2>4. Shape'
    BY <2>1 DEF AuditInv, Shape, Now
  <2>5. Retained'
    BY <2>1, <2>2 DEF AuditInv, Retained, Due
  <2>6. Ids'
    BY <2>1, <2>2 DEF AuditInv, Ids, Whole, Parsed, Now
  <2>7. QED
    BY <2>1, <2>3, <2>4, <2>5, <2>6 DEF AuditInv, Orders, Parsed, Now
<1>4. QED
  BY <1>1, <1>2, <1>3

\* One more entry has a number, whether or not a line of it is left.
LEMMA StampsGrow ==
  ASSUME AuditTypeOK, Shape, stamps' = Append(stamps, today), UNCHANGED today, NEW n \in Nat, n = Now, n < MaxLog
  PROVE  /\ stamps' \in Seq(0..MaxDay) /\ Now' = n + 1 /\ DOMAIN stamps' = 1..n + 1
         /\ \A m \in stored : m \in 1..n /\ (Due(m)' => Due(m) /\ n + 1 - m < MaxEntries)
         /\ New.n = n + 1 /\ New.id = nextID + 1
         /\ (nextID \in Nat => New \in Entry)
         /\ \A s : Ascends(s, n) => Ascends(s, n + 1)
<1>1. stamps \in Seq(0..MaxDay) /\ today \in 0..MaxDay /\ DOMAIN stamps = 1..n /\ stored \subseteq 1..n
  BY DEF AuditTypeOK, Now
<1>2. PICK t : t = Append(stamps, today)
  OBVIOUS
<1>3. t \in Seq(0..MaxDay) /\ Len(t) = n + 1 /\ \A m \in 1..n : t[m] = stamps[m]
  BY <1>1, <1>2, AppendProperties DEF Now
<1>4. DOMAIN t = 1..n + 1
  BY <1>3
<1>5. ASSUME NEW m \in stored, Due(m)' PROVE Due(m) /\ n + 1 - m < MaxEntries
  <2>1. m \in 1..n /\ stamps'[m] = stamps[m] /\ Len(stamps') = n + 1 /\ Len(stamps) = n
    BY <1>1, <1>2, <1>3 DEF Now
  <2>2. stamps[m] >= today - Keep /\ n + 1 - m < MaxEntries
    BY <1>5, <2>1 DEF Due
  <2>3. n - m < MaxEntries
    BY <2>1, <2>2
  <2>4. QED
    BY <2>1, <2>2, <2>3 DEF Due
<1>6. New.n = n + 1 /\ New.id = nextID + 1
  BY DEF New, Now
<1>7. nextID \in Nat => New \in Entry
  BY DEF New, Now, Entry, Shape
<1>8. ASSUME NEW s, Ascends(s, n) PROVE Ascends(s, n + 1)
  BY <1>8 DEF Ascends
<1>9. QED
  BY <1>1, <1>2, <1>3, <1>4, <1>5, <1>6, <1>7, <1>8 DEF Now

LEMMA LogKeeps ==
  ASSUME AuditInv, Log
  PROVE  AuditInv'
<1>1. PICK n \in Nat : n = Now
  BY LenProperties DEF AuditInv, AuditTypeOK, Now
<1>2. PICK e : e = New
  OBVIOUS
<1>3. /\ phase = "run" /\ n < MaxLog /\ stamps' = Append(stamps, today)
      /\ nextID' = e.id /\ entries' = Trim(Append(entries, e))
      /\ UNCHANGED <<phase, open, tmp, today, unread>>
      /\ \/ open /\ rest = <<>> /\ file' = Append(file, e) /\ stored' = stored \cup {e.n} /\ UNCHANGED rest
         \/ rest # <<>> /\ rest' = <<>> /\ UNCHANGED <<file, stored>>
         \/ (UNCHANGED rest \/ rest' = <<Torn>>) /\ UNCHANGED <<file, stored>>
  BY <1>1, <1>2 DEF Log, AppendLine, Now
<1>4. nextID \in Nat /\ nextID <= n /\ entries \in Seq(Entry) /\ file \in Seq(Entry)
      /\ Ascends(entries, n) /\ Ascends(Parsed, n)
  BY <1>1 DEF AuditInv, AuditTypeOK, Shape, Orders
<1>5. /\ stamps' \in Seq(0..MaxDay) /\ Now' = n + 1 /\ DOMAIN stamps' = 1..n + 1
      /\ \A m \in stored : m \in 1..n /\ (Due(m)' => Due(m) /\ n + 1 - m < MaxEntries)
      /\ e.n = n + 1 /\ e.id = nextID + 1 /\ e \in Entry
      /\ \A s : Ascends(s, n) => Ascends(s, n + 1)
  BY <1>1, <1>2, <1>3, <1>4, StampsGrow DEF AuditInv
<1>6. PICK t : t = Append(entries, e)
  OBVIOUS
<1>7. /\ t \in Seq(Entry) /\ Ascends(t, n + 1) /\ Numbers(t) = Numbers(entries) \cup {n + 1}
      /\ (OwnIds(entries) /\ e.id = e.n => OwnIds(t))
  BY <1>1, <1>4, <1>5, <1>6, OneMore
<1>8. /\ entries' \in Seq(Entry) /\ Len(entries') <= MaxEntries /\ Ascends(entries', n + 1)
      /\ (OwnIds(t) => OwnIds(entries'))
      /\ \A m \in Numbers(t) : n + 1 - m < MaxEntries => m \in Numbers(entries')
  <2>1. Trim(t) \in Seq(Entry) /\ Len(Trim(t)) <= MaxEntries
    BY <1>7, Trimmed
  <2>2. PICK k \in Nat : k = n + 1
    OBVIOUS
  <2>3. Ascends(t, k)
    BY <1>7, <2>2
  <2>4. /\ Ascends(Trim(t), k) /\ (OwnIds(t) => OwnIds(Trim(t)))
        /\ \A m \in Numbers(t) : k - m < MaxEntries => m \in Numbers(Trim(t))
    BY <1>7, <2>3, TrimKeeps
  <2>5. entries' = Trim(t)
    BY <1>3, <1>6
  <2>6. /\ Ascends(entries', k) /\ (OwnIds(t) => OwnIds(entries'))
        /\ \A m \in Numbers(t) : k - m < MaxEntries => m \in Numbers(entries')
    BY <2>4, <2>5
  <2>7. entries' \in Seq(Entry) /\ Len(entries') <= MaxEntries
    BY <2>1, <2>5
  <2>8. ASSUME NEW m \in Numbers(t), n + 1 - m < MaxEntries PROVE m \in Numbers(entries')
    <3>1. PICK i \in DOMAIN t : m = t[i].n
      BY <2>8 DEF Numbers
    <3>2. t[i] \in Entry
      BY <1>7, <3>1
    <3>3. m \in Nat
      BY <3>1, <3>2 DEF Entry
    <3>4. k - m < MaxEntries
      BY <2>2, <2>8, <3>3, AuditAssumption
    <3>5. QED
      BY <2>6, <3>4
  <2>9. Ascends(entries', n + 1)
    BY <2>2, <2>6
  <2>10. QED
    BY <2>6, <2>7, <2>8, <2>9
<1>9. file' \in Seq(Entry) /\ rest' \in Seq(Entry \cup {Torn}) /\ Len(rest') <= 1
  <2>1. Append(file, e) \in Seq(Entry)
    BY <1>4, <1>5, AppendProperties
  <2>2. <<>> \in Seq(Entry \cup {Torn}) /\ Len(<<>>) <= 1
    BY EmptySeq
  <2>3. /\ rest \in Seq(Entry \cup {Torn}) /\ Len(rest) <= 1
        /\ <<Torn>> \in Seq(Entry \cup {Torn}) /\ Len(<<Torn>>) <= 1
    BY DEF AuditInv, AuditTypeOK
  <2>4. QED
    BY <1>3, <1>4, <2>1, <2>2, <2>3
<1>10. AuditTypeOK'
  <2>1. nextID' \in 0..MaxLog
    BY <1>3, <1>4, <1>5
  <2>2. stored' \subseteq DOMAIN stamps'
    <3>1. \A m \in stored : m \in 1..n + 1
      BY <1>5
    <3>2. e.n \in 1..n + 1
      BY <1>5
    <3>3. QED
      BY <1>3, <1>5, <3>1, <3>2
  <2>3. unread' \subseteq DOMAIN stamps'
    <3>1. unread \subseteq 1..n /\ \A m \in 1..n : m \in 1..n + 1
      BY <1>1 DEF AuditInv, AuditTypeOK, Now
    <3>2. QED
      BY <1>3, <1>5, <3>1
  <2>4. QED
    BY <1>3, <1>5, <1>8, <1>9, <2>1, <2>2, <2>3 DEF AuditInv, AuditTypeOK
<1>11. Shape'
  <2>1. nextID' <= n + 1 /\ n + 1 <= MaxLog
    BY <1>3, <1>4, <1>5
  <2>2. QED
    BY <1>3, <1>5, <2>1 DEF Shape
<1>12. Parsed' = file \/ Parsed' = Parsed \/ (open /\ Parsed = file /\ Parsed' = Append(file, e))
  BY <1>3, <1>4, <1>9, ParsedIs DEF Parsed
<1>13. /\ Ascends(file, n) /\ Len(file) <= n /\ Len(Parsed) <= n /\ Len(file) \in Nat /\ Len(Parsed) \in Nat
       /\ Parsed \in Seq(Entry)
  <2>1. Ascends(file, n) /\ Parsed \in Seq(Entry)
    BY <1>4, FileIsParsed DEF AuditInv
  <2>2. QED
    BY <1>4, <2>1, RoomAbove, LenProperties
<1>14. Orders'
  <2>1. Ascends(Append(file, e), n + 1)
    BY <1>4, <1>5, <1>13, OneMore
  <2>2. Ascends(Parsed', n + 1)
    BY <1>4, <1>5, <1>12, <1>13, <2>1
  <2>3. QED
    BY <1>5, <1>8, <2>2 DEF Orders
<1>15. Ids'
  <2>1. SUFFICES ASSUME Len(Parsed') = n + 1, unread = {} PROVE OwnIds(Parsed') /\ OwnIds(entries') /\ nextID' = n + 1
    BY <1>3, <1>5 DEF Ids, Whole
  <2>2. open /\ Parsed = file /\ Parsed' = Append(file, e)
    BY <1>12, <1>13, <2>1
  <2>3. Len(Append(file, e)) = Len(file) + 1 /\ (OwnIds(file) /\ e.id = e.n => OwnIds(Append(file, e)))
    BY <1>4, <1>5, <1>13, OneMore
  <2>4. Whole
    BY <1>1, <1>13, <2>1, <2>2, <2>3 DEF Whole
  <2>5. OwnIds(file) /\ OwnIds(entries) /\ nextID = n
    BY <1>1, <2>2, <2>4 DEF AuditInv, Ids
  <2>6. QED
    BY <1>3, <1>5, <1>7, <1>8, <2>2, <2>3, <2>5
<1>16. Retained'
  <2>1. SUFFICES ASSUME NEW m \in stored' \ unread', Due(m)' PROVE m \in Numbers(file') /\ (open => m \in Numbers(entries'))
    BY <1>3 DEF Retained
  <2>2. Numbers(file) \subseteq Numbers(file')
    <3>1. Numbers(file) \subseteq Numbers(Append(file, e))
      BY <1>4, <1>5, <1>13, OneMore
    <3>2. QED
      BY <1>3, <3>1
  <2>3. CASE m \in stored
    <3> m \in stored \ unread
      BY <1>3, <2>1, <2>3
    <3>1. Due(m) /\ n + 1 - m < MaxEntries
      BY <1>5, <2>1, <2>3
    <3>2. m \in Numbers(file) /\ (open => m \in Numbers(entries))
      BY <2>3, <3>1 DEF AuditInv, Retained
    <3>3. QED
      BY <1>7, <1>8, <2>2, <3>1, <3>2
  <2>4. CASE m \notin stored
    <3>1. m = n + 1 /\ file' = Append(file, e)
      BY <1>3, <1>5, <2>1, <2>4
    <3>2. Numbers(Append(file, e)) = Numbers(file) \cup {n + 1}
      BY <1>4, <1>5, <1>13, OneMore
    <3>3. n + 1 - m < MaxEntries
      BY <3>1
    <3>4. QED
      BY <1>7, <1>8, <3>1, <3>2, <3>3
  <2>5. QED
    BY <2>3, <2>4
<1>17. QED
  BY <1>10, <1>11, <1>14, <1>15, <1>16 DEF AuditInv

\* The process ends: the memory is gone, and in the middle of a line the rest of the
\* file is that line.
LEMMA AuditCrashKeeps ==
  ASSUME AuditInv, Crash
  PROVE  AuditInv'
<1>1. /\ phase' = "down" /\ entries' = <<>> /\ nextID' = 0 /\ open' = FALSE /\ tmp' = <<>>
      /\ UNCHANGED <<file, rest, today, stamps, stored, unread>>
  BY DEF Crash, Down
<1>2. /\ <<>> \in Seq(Entry) /\ <<>> \in Seq(Entry \cup {Torn}) /\ Len(<<>>) = 0
      /\ OwnIds(<<>>) /\ \A n : Ascends(<<>>, n)
  BY EmptySeq DEF OwnIds, Ascends
<1>3. 0 <= MaxEntries /\ 0 \in 0..MaxLog
  OBVIOUS
<1>4. AuditTypeOK'
  BY <1>1, <1>2, <1>3 DEF AuditInv, AuditTypeOK
<1>5. Now \in Nat
  BY LenProperties DEF AuditInv, AuditTypeOK, Now
<1>6. Shape'
  BY <1>1, <1>5 DEF AuditInv, Shape, Now
<1>7. QED
  BY <1>1, <1>2, <1>4, <1>6 DEF AuditInv, Orders, Retained, Due, Ids, Whole, Parsed, Now

LEMMA CrashInLogKeeps ==
  ASSUME AuditInv, CrashInLog
  PROVE  AuditInv'
<1>1. PICK n \in Nat : n = Now
  BY LenProperties DEF AuditInv, AuditTypeOK, Now
<1>2. PICK e : e = New
  OBVIOUS
<1>3. /\ open /\ n < MaxLog /\ stamps' = Append(stamps, today)
      /\ phase' = "down" /\ entries' = <<>> /\ nextID' = 0 /\ open' = FALSE /\ tmp' = <<>>
      /\ rest' = <<Torn>> \/ (rest = <<>> /\ rest' = <<e>>)
      /\ UNCHANGED <<file, today, stored, unread>>
  BY <1>1, <1>2 DEF CrashInLog, Down, Now
<1>4. nextID \in Nat /\ file \in Seq(Entry) /\ Ascends(Parsed, n)
  BY <1>1 DEF AuditInv, AuditTypeOK, Orders
<1>5. /\ stamps' \in Seq(0..MaxDay) /\ Now' = n + 1 /\ DOMAIN stamps' = 1..n + 1
      /\ \A m \in stored : m \in 1..n /\ (Due(m)' => Due(m) /\ n + 1 - m < MaxEntries)
      /\ e.n = n + 1 /\ e.id = nextID + 1 /\ e \in Entry
      /\ \A s : Ascends(s, n) => Ascends(s, n + 1)
  BY <1>1, <1>2, <1>3, <1>4, StampsGrow DEF AuditInv
<1>6. /\ <<>> \in Seq(Entry) /\ <<>> \in Seq(Entry \cup {Torn}) /\ Len(<<>>) = 0
      /\ OwnIds(<<>>) /\ \A m : Ascends(<<>>, m)
  BY EmptySeq DEF OwnIds, Ascends
<1>7. 0 <= MaxEntries /\ 0 \in 0..MaxLog /\ 0 <= n + 1 /\ n + 1 <= MaxLog
  BY <1>3
<1>8. rest' \in Seq(Entry \cup {Torn}) /\ Len(rest') = 1
  <2>1. <<e>> \in Seq(Entry \cup {Torn}) /\ Len(<<e>>) = 1 /\ <<Torn>> \in Seq(Entry \cup {Torn}) /\ Len(<<Torn>>) = 1
    BY <1>5
  <2>2. QED
    BY <1>3, <2>1
<1>9. AuditTypeOK'
  <2>1. \A m \in stored : m \in 1..n + 1
    BY <1>5
  <2>2. stored' \subseteq DOMAIN stamps'
    BY <1>3, <1>5, <2>1
  <2>3. Len(rest') <= 1 /\ Len(entries') <= MaxEntries
    BY <1>3, <1>6, <1>7, <1>8
  <2>4. entries' \in Seq(Entry) /\ nextID' \in 0..MaxLog /\ tmp' \in Seq(Entry \cup {Torn})
    BY <1>3, <1>6, <1>7
  <2>5. unread' \subseteq DOMAIN stamps'
    <3>1. unread \subseteq 1..n /\ \A m \in 1..n : m \in 1..n + 1
      BY <1>1 DEF AuditInv, AuditTypeOK, Now
    <3>2. QED
      BY <1>3, <1>5, <3>1
  <2>6. QED
    BY <1>3, <1>5, <1>8, <2>2, <2>3, <2>4, <2>5 DEF AuditInv, AuditTypeOK
<1>10. Shape'
  BY <1>3, <1>5, <1>7 DEF Shape
<1>11. Parsed' = file \/ (Parsed = file /\ Parsed' = Append(file, e))
  BY <1>3, <1>4, <1>5, ParsedIs DEF Parsed
<1>12. Ascends(file, n) /\ Len(file) <= n /\ Len(file) \in Nat
  <2>1. Ascends(file, n)
    BY <1>4, FileIsParsed DEF AuditInv
  <2>2. QED
    BY <1>4, <2>1, RoomAbove, LenProperties
<1>13. /\ Ascends(Append(file, e), n + 1) /\ Len(Append(file, e)) = Len(file) + 1
       /\ (OwnIds(file) /\ e.id = e.n => OwnIds(Append(file, e)))
  BY <1>4, <1>5, <1>12, OneMore
<1>14. Orders'
  BY <1>3, <1>5, <1>6, <1>11, <1>12, <1>13 DEF Orders
<1>15. Ids'
  <2>1. SUFFICES ASSUME Len(Parsed') = n + 1, unread = {} PROVE OwnIds(Parsed')
    BY <1>3, <1>5, <1>6 DEF Ids, Whole
  <2>2. Parsed = file /\ Parsed' = Append(file, e)
    BY <1>11, <1>12, <2>1
  <2>3. Whole
    BY <1>1, <1>12, <1>13, <2>1, <2>2 DEF Whole
  <2>4. OwnIds(file) /\ nextID = n
    BY <1>1, <1>3, <2>2, <2>3 DEF AuditInv, Ids
  <2>5. QED
    BY <1>5, <1>13, <2>2, <2>4
<1>16. Retained'
  BY <1>3, <1>5 DEF AuditInv, Retained
<1>17. QED
  BY <1>9, <1>10, <1>14, <1>15, <1>16 DEF AuditInv

LEMMA DayKeeps ==
  ASSUME AuditInv, Day
  PROVE  AuditInv'
<1>1. /\ today < MaxDay /\ today' = today + 1
      /\ UNCHANGED <<phase, entries, nextID, open, file, rest, tmp, stamps, stored, unread>>
  BY DEF Day, memory, disk
<1>2. today \in 0..MaxDay /\ today' \in 0..MaxDay
  BY <1>1 DEF AuditInv, AuditTypeOK
<1>3. AuditTypeOK'
  BY <1>1, <1>2 DEF AuditInv, AuditTypeOK
<1>4. Shape' /\ Orders' /\ Ids'
  BY <1>1 DEF AuditInv, Shape, Orders, Ids, Whole, Parsed, Now
<1>5. Retained'
  <2>1. ASSUME NEW m \in stored, Due(m)' PROVE Due(m)
    <3>1. m \in DOMAIN stamps /\ stamps \in Seq(0..MaxDay)
      BY DEF AuditInv, AuditTypeOK
    <3>2. stamps[m] \in 0..MaxDay
      BY <3>1
    <3>3. stamps[m] >= today + 1 - Keep /\ Len(stamps) - m < MaxEntries
      <4>1. stamps'[m] >= today' - Keep /\ Len(stamps') - m < MaxEntries
        BY <2>1 DEF Due
      <4>2. stamps' = stamps /\ today' = today + 1
        BY <1>1
      <4>3. stamps[m] >= today' - Keep /\ Len(stamps) - m < MaxEntries
        BY <4>1, <4>2
      <4>4. QED
        BY <1>2, <3>2, <4>2, <4>3, AuditAssumption
    <3>4. stamps[m] >= today - Keep
      BY <1>2, <3>2, <3>3
    <3>5. QED
      BY <3>3, <3>4 DEF Due
  <2>2. QED
    BY <1>1, <2>1 DEF AuditInv, Retained
<1>6. QED
  BY <1>3, <1>4, <1>5 DEF AuditInv

\* The inductive invariant.  It adds to AuditSafe the order of what the next process
\* will parse, that a rewrite writes what is in memory, which is then less than the
\* whole, and that, as long as nothing was lost or left unread, an entry's ID is its
\* number.
THEOREM AuditInvariant == ASSUME "flush" \notin Faults PROVE AuditSpec => []AuditInv
<1>1. AuditInv /\ [AuditNext]_auditVars => AuditInv'
  <2>1. SUFFICES ASSUME AuditInv, [AuditNext]_auditVars PROVE AuditInv'
    OBVIOUS
  <2>2. CASE UNCHANGED auditVars
    BY <2>1, <2>2 DEF auditVars, memory, disk, AuditInv, AuditTypeOK, Shape, Orders, Retained, Due, Ids, Whole, Parsed, Now
  <2>3. QED
    BY <2>1, <2>2, AuditStartKeeps, PruneKeeps, RewriteKeeps, LogKeeps, AuditCrashKeeps, CrashInLogKeeps, DayKeeps DEF AuditNext
<1>2. QED
  BY <1>1, AuditStarts, PTL DEF AuditSpec

\* The log of what was done is kept, in order, row by row, whenever a process ends and
\* for any size, age and number of entries: also where the file is read in part, of what
\* every process has read.  A flush that fails is the exception, which the run
\* audit_full_disk shows.
THEOREM AuditIsKept == ASSUME "flush" \notin Faults PROVE AuditSpec => []AuditSafe
<1>1. AuditInv => AuditSafe
  <2> SUFFICES ASSUME AuditInv PROVE AuditSafe
    OBVIOUS
  <2>1. PICK n \in Nat : n = Now
    BY LenProperties DEF AuditInv, AuditTypeOK, Now
  <2>2. entries \in Seq(Entry) /\ file \in Seq(Entry) /\ Ascends(entries, n) /\ Ascends(Parsed, n)
    BY <2>1 DEF AuditInv, AuditTypeOK, Orders
  <2>3. Ascends(file, n) /\ Parsed \in Seq(Entry) /\ Len(file) <= Len(Parsed) /\ Len(Parsed) <= n
    BY <2>2, FileIsParsed, RoomAbove DEF AuditInv
  <2>4. DOMAIN entries = 1..Len(entries) /\ DOMAIN file = 1..Len(file)
    BY <2>2
  <2>5. InOrder
    BY <2>2, <2>3, <2>4 DEF Ascends, InOrder
  <2>6. IdsUnique
    <3>1. SUFFICES ASSUME Len(file) = n, unread = {},
                          NEW i \in DOMAIN entries, NEW j \in DOMAIN entries, i # j
                   PROVE  entries[i].id # entries[j].id
      BY <2>1 DEF IdsUnique, Now
    <3>2. Whole
      BY <2>1, <2>2, <2>3, <3>1, LenProperties DEF Whole
    <3>3. entries[i].id = entries[i].n /\ entries[j].id = entries[j].n
      BY <2>4, <3>1, <3>2 DEF AuditInv, Ids, OwnIds
    <3>4. i < j \/ j < i
      BY <2>4, <3>1
    <3>5. entries[i].n \in 1..n /\ entries[j].n \in 1..n
      BY <2>2, <2>4 DEF Ascends
    <3>6. QED
      BY <2>2, <2>4, <3>3, <3>4, <3>5 DEF Ascends
  <2>7. QED
    BY <2>5, <2>6 DEF AuditInv, AuditSafe
<1>2. QED
  BY <1>1, AuditInvariant, PTL
HIDE AuditAssumption
================================================================================
