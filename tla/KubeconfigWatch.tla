---------------------------- MODULE KubeconfigWatch ----------------------------
(***************************************************************************)
(* The kubeconfig watcher (internal/cluster/kubeconfig_watcher.go): file   *)
(* events of the directories it was given at the start of the program      *)
(* arm a timer; when no event has come for a while it loads the files and, *)
(* if they load, has the window fetch the list of contexts again.  The     *)
(* Welcome screen may give the loader other files meanwhile.               *)
(***************************************************************************)
EXTENDS Naturals, FiniteSets

CONSTANTS File,        \* kubeconfig files, each in a directory of its own
          AtStart,     \* those the loader has when the watcher is made
          MaxWrites    \* bound: changes of the files

ASSUME WatcherAssumption == AtStart \subseteq File /\ MaxWrites \in Nat

VARIABLES
  form,      \* form[f]: "whole", "torn" (half written) or "gone"
  disk,      \* disk[f]: the number of its last change
  writes,    \* how many changes there were
  paths,     \* loader.paths
  pending,   \* the files with an event in watcher.Events
  debounce,  \* the timer is armed
  signalled, \* kubeconfig:changed is on its way to the window
  listing,   \* the window has asked for the list of contexts
  fetched    \* what the last list of contexts for the window was read from

watcherVars == <<form, disk, writes, paths, pending, debounce, signalled, listing, fetched>>

WatcherMade == /\ form = [f \in File |-> "whole"]
               /\ disk = [f \in File |-> 0]
               /\ writes = 0
               /\ paths = AtStart
               /\ pending = {}
               /\ debounce = FALSE
               /\ signalled = FALSE

\* The Welcome screen asks when it comes.
WatcherInit == WatcherMade /\ listing = TRUE /\ fetched = <<>>

-------------------------------------------------------------------------------
\* A program writes, replaces or removes a file.  fsnotify reports it when the
\* file's directory was there to be watched at the start (NewKubeconfigWatcher).
Change(f, to) == /\ writes < MaxWrites
                 /\ writes' = writes + 1
                 /\ form' = [form EXCEPT ![f] = to]
                 /\ disk' = [disk EXCEPT ![f] = writes + 1]
                 /\ pending' = IF f \in AtStart THEN pending \cup {f} ELSE pending
                 /\ UNCHANGED <<paths, debounce, signalled, listing, fetched>>

Replace(f) == form[f] # "torn" /\ Change(f, "whole")
RemoveFile(f) == form[f] = "whole" /\ Change(f, "gone")

\* A file that is written in place is torn until the write is over, ...
BeginWrite(f) == form[f] = "whole" /\ Change(f, "torn")

\* ... which it always is.
EndWrite(f) == /\ form[f] = "torn"
               /\ form' = [form EXCEPT ![f] = "whole"]
               /\ pending' = IF f \in AtStart THEN pending \cup {f} ELSE pending
               /\ UNCHANGED <<disk, writes, paths, debounce, signalled, listing, fetched>>

-------------------------------------------------------------------------------
\* isWatchedPath asks the loader's paths of now.
IsWatchedPath(f) == f \in paths

EventDisarms(f) ==  \* faulty: stops the timer for a file of others, too
  /\ f \in pending
  /\ pending' = pending \ {f}
  /\ debounce' = IsWatchedPath(f)
  /\ UNCHANGED <<form, disk, writes, paths, signalled, listing, fetched>>

Event(f) == /\ f \in pending
            /\ pending' = pending \ {f}
            /\ debounce' = (debounce \/ IsWatchedPath(f))
            /\ UNCHANGED <<form, disk, writes, paths, signalled, listing, fetched>>

\* Load: every path has to be there and to parse.
Loads == \A f \in paths : form[f] = "whole"

\* The timer fires: a load that fails is logged, the timer stays off.
Fire == /\ debounce
        /\ debounce' = FALSE
        /\ signalled' = (signalled \/ Loads)
        /\ UNCHANGED <<form, disk, writes, paths, pending, listing, fetched>>

-------------------------------------------------------------------------------
\* The window hears of it and lists the contexts again (Welcome.tsx:528-533).
Hear == /\ signalled
        /\ signalled' = FALSE
        /\ listing' = TRUE
        /\ UNCHANGED <<form, disk, writes, paths, pending, debounce, fetched>>

\* loadClusters of the Welcome screen first gives the loader the files of the
\* settings (SetKubeconfigPaths), for which the watcher may not have been made.
PathLists == SUBSET File \ {{}}

SetPaths(files) == /\ paths' = files
                   /\ listing' = TRUE
                   /\ UNCHANGED <<form, disk, writes, pending, debounce, signalled, fetched>>

\* ListContextDetails loads the files once more; an error empties the list.
ListContexts == /\ listing
                /\ listing' = FALSE
                /\ fetched' = IF Loads THEN [f \in paths |-> disk[f]] ELSE <<>>
                /\ UNCHANGED <<form, disk, writes, paths, pending, debounce, signalled>>

WatcherNext == \/ \E f \in File : Replace(f) \/ RemoveFile(f) \/ BeginWrite(f) \/ EndWrite(f) \/ Event(f)
               \/ Fire \/ Hear \/ ListContexts
               \/ \E files \in PathLists : SetPaths(files)

WatcherSpec == WatcherInit /\ [][WatcherNext]_watcherVars

\* The goroutine runs, the timer fires, the window listens and a write ends.
WatcherFairness == /\ \A f \in File : WF_watcherVars(Event(f)) /\ WF_watcherVars(EndWrite(f))
                   /\ WF_watcherVars(Fire)
                   /\ WF_watcherVars(Hear)
                   /\ WF_watcherVars(ListContexts)

-------------------------------------------------------------------------------
WatcherTypeOK == /\ form \in [File -> {"whole", "torn", "gone"}]
                 /\ disk \in [File -> 0..MaxWrites]
                 /\ writes \in 0..MaxWrites
                 /\ paths \subseteq File /\ paths # {}
                 /\ pending \subseteq AtStart
                 /\ debounce \in BOOLEAN /\ signalled \in BOOLEAN /\ listing \in BOOLEAN
                 /\ DOMAIN fetched \subseteq File

\* A change of a file is read for the window in the end, however it was written and
\* whatever was being loaded meanwhile, if the loader's files are those the watcher was made
\* for and all of them are there (kubeconfig_watcher.go:59-108).
ChangeIsShown ==
  <>[][paths' = paths]_watcherVars =>
    []<>(Loads /\ paths \subseteq AtStart => \A f \in paths : f \in DOMAIN fetched /\ fetched[f] = disk[f])

\* The same for the files that the settings name later: what the watcher promises
\* (kubeconfig_watcher.go:27 "calls onChange whenever any kubeconfig file").
AnyChangeIsShown ==
  <>[][paths' = paths]_watcherVars =>
    []<>(Loads => \A f \in paths : f \in DOMAIN fetched /\ fetched[f] = disk[f])

\* The window follows the files through the watcher, its debounce and its signal.
WatcherFollows == []WatcherTypeOK /\ ChangeIsShown
================================================================================
