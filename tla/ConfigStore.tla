------------------------------ MODULE ConfigStore ------------------------------
(***************************************************************************)
(* The user's settings (internal/config/store.go) in memory and on disk,   *)
(* with the handler's UpdateConfig, ResetConfig and ImportConfig           *)
(* (handlers/config_handler.go) running concurrently.  A partial update is *)
(* a function on some of the settings' paths: deepMerge replaces those and *)
(* keeps the others, siblings within a nested object included.  Update and *)
(* Reset hold the store's lock to their end; ImportConfig is one after the *)
(* other.  The process may die in any step.                                *)
(***************************************************************************)
EXTENDS Naturals

CONSTANTS Setter,   \* concurrent calls of the handler
          Path,     \* paths of the settings, such as theme and windowState.x
          Value,    \* what a user may set them to
          MaxCalls  \* bound: calls in one behaviour

ASSUME ConfigAssumption == MaxCalls \in Nat

\* Two values have a meaning: that of DefaultConfig and Go's zero value.
Setting == Value \cup {"default", "zero"}
Config == [Path -> Setting]
Partial == UNION {[K -> Value] : K \in SUBSET Path}
Defaults == [p \in Path |-> "default"]

\* deepMerge, and the unmarshalling over defaults of NewStoreWithPath
Merge(base, over) == [p \in Path |-> IF p \in DOMAIN over THEN over[p] ELSE base[p]]

VARIABLES
  appUp,       \* the process runs
  cfg,         \* s.cfg
  configFile,  \* the config file: a config, or <<>> while it does not exist
  saving,      \* where a caller stands
  partial,     \* what it still is to merge
  data,        \* what it is about to write
  calls,       \* calls made so far
  settled,     \* what the calls that returned without an error have set last
  doubt        \* paths that another call has set since, or is setting

setters == <<saving, partial, data>>
ghosts == <<settled, doubt>>
configVars == <<appUp, cfg, configFile, setters, calls, ghosts>>

Nothing == [p \in {} |-> "zero"]
None == <<>>

ConfigInit == /\ appUp = TRUE
              /\ cfg = Defaults
              /\ configFile = None
              /\ saving = [u \in Setter |-> "idle"]
              /\ partial = [u \in Setter |-> Nothing]
              /\ data = [u \in Setter |-> Defaults]
              /\ calls = 0
              /\ settled = Defaults
              /\ doubt = {}

Locked == \E u \in Setter : saving[u] \in {"write", "rename", "importWrite", "importRename", "return"}

-------------------------------------------------------------------------------
\* UpdateConfig and ResetConfig ask for the lock; ImportConfig turns the imported
\* JSON into all of the settings first, those it does not mention being zero.
Call(u, s, p) == /\ appUp /\ saving[u] = "idle" /\ calls < MaxCalls
                 /\ calls' = calls + 1
                 /\ saving' = [saving EXCEPT ![u] = s]
                 /\ partial' = [partial EXCEPT ![u] = p]
                 /\ UNCHANGED <<appUp, cfg, configFile, data, ghosts>>

UpdateConfig(u, p) == Call(u, "update", p)
ResetConfig(u) == Call(u, "reset", Defaults)
ImportConfig(u, p) == Call(u, "import", Merge([q \in Path |-> "zero"], p))

Return(u) == saving' = [saving EXCEPT ![u] = "idle"]

\* Update merges into memory before it writes.
MergeFor(u, p) ==
  /\ cfg' = Merge(cfg, p)
  /\ data' = [data EXCEPT ![u] = cfg']
  /\ doubt' = doubt \cup DOMAIN p
  /\ UNCHANGED <<appUp, configFile, partial, calls, settled>>

UpdateUnlocked(u) ==  \* faulty: does not wait for the lock
  /\ appUp /\ saving[u] = "update"
  /\ saving' = [saving EXCEPT ![u] = "write"]
  /\ MergeFor(u, partial[u])

Update(u) ==
  /\ appUp /\ saving[u] = "update" /\ ~Locked
  /\ saving' = [saving EXCEPT ![u] = "write"]
  /\ MergeFor(u, partial[u])

\* A value of the wrong type ends it with an error; the others have been merged.
UpdateRejected(u) ==
  /\ appUp /\ saving[u] = "update" /\ ~Locked
  /\ Return(u)
  /\ \E bad \in DOMAIN partial[u] :
       MergeFor(u, [p \in DOMAIN partial[u] \ {bad} |-> partial[u][p]])

Reset(u) ==
  /\ appUp /\ saving[u] \in {"reset", "import"} /\ ~Locked
  /\ saving' = [saving EXCEPT ![u] = IF @ = "reset" THEN "write" ELSE "importWrite"]
  /\ MergeFor(u, Defaults)

\* atomicWrite: the file changes with the rename, which ends the call; an import
\* goes on with its update.
WriteConfig(u) ==
  /\ appUp
  /\ \/ saving[u] = "write" /\ saving' = [saving EXCEPT ![u] = "rename"]
     \/ saving[u] = "importWrite" /\ saving' = [saving EXCEPT ![u] = "importRename"]
  /\ UNCHANGED <<appUp, cfg, configFile, partial, data, calls, ghosts>>

RenameConfig(u) ==
  /\ appUp /\ saving[u] \in {"rename", "importRename"}
  /\ configFile' = data[u]
  /\ saving' = [saving EXCEPT ![u] = IF @ = "rename" THEN "return" ELSE "update"]
  /\ UNCHANGED <<appUp, cfg, partial, data, calls, ghosts>>

\* The call is over: what it has set is settled.
ReturnNil(u) ==
  /\ appUp /\ saving[u] = "return"
  /\ Return(u)
  /\ settled' = Merge(settled, partial[u])
  /\ doubt' = doubt \ DOMAIN partial[u]
  /\ UNCHANGED <<appUp, cfg, configFile, partial, data, calls>>

WriteFails(u) ==
  /\ appUp /\ saving[u] \in {"write", "rename", "importWrite", "importRename"}
  /\ Return(u)
  /\ UNCHANGED <<appUp, cfg, configFile, partial, data, calls, ghosts>>

\* The process dies; what its calls were about to do is gone.
ConfigCrash == /\ appUp
               /\ appUp' = FALSE
               /\ saving' = [u \in Setter |-> "idle"]
               /\ UNCHANGED <<cfg, configFile, partial, data, calls, ghosts>>

\* NewStoreWithPath reads the file over the defaults.
Saved == Merge(Defaults, configFile)

ConfigStart == /\ ~appUp
               /\ appUp' = TRUE
               /\ cfg' = Saved
               /\ UNCHANGED <<configFile, setters, calls, ghosts>>

ConfigNext == \/ \E u \in Setter :
                   \/ \E p \in Partial : UpdateConfig(u, p) \/ ImportConfig(u, p)
                   \/ ResetConfig(u)
                   \/ Update(u) \/ UpdateRejected(u) \/ Reset(u)
                   \/ WriteConfig(u) \/ RenameConfig(u) \/ ReturnNil(u) \/ WriteFails(u)
              \/ ConfigCrash \/ ConfigStart

ConfigSpec == ConfigInit /\ [][ConfigNext]_configVars

-------------------------------------------------------------------------------
ConfigTypeOK == /\ appUp \in BOOLEAN
                /\ cfg \in Config
                /\ configFile \in Config \cup {None}
                /\ saving \in [Setter -> {"idle", "update", "reset", "import", "write", "rename",
                                       "importWrite", "importRename", "return"}]
                /\ \A u \in Setter : DOMAIN partial[u] \subseteq Path
                /\ data \in [Setter -> Config]
                /\ calls \in 0..MaxCalls
                /\ settled \in Config /\ doubt \subseteq Path

\* Whatever the other calls set, fail to write or are killed at, a setting keeps
\* the value of the last call that returned without an error, in memory and on
\* disk, unless a later call has set this very setting (store.go:170-195, 254-282).
NoLostSetting == \A p \in Path \ doubt :
  Saved[p] = settled[p] /\ (appUp => cfg[p] = settled[p])

\* What a call has set reaches the disk no later than the call returns, and then
\* memory and disk agree on it (store.go:194).
ReturnedIsSaved == \A u \in Setter :
  saving[u] = "return" => \A p \in DOMAIN partial[u] : Saved[p] = partial[u][p] /\ cfg[p] = Saved[p]

\* Nothing a caller was told is saved gets lost.
ConfigSafe == ConfigTypeOK /\ NoLostSetting /\ ReturnedIsSaved
===============================================================================
