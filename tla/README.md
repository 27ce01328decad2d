# Clusterfudge in TLA+

Clusterfudge is a desktop application for browsing and debugging Kubernetes
clusters: a Go backend with goroutines per connection, port forward, log stream,
terminal and watch, and a TypeScript window that calls it, awaits the answers and
listens to its events. This directory models the parts of both that keep state
and act concurrently, checks them with TLC and proves the invariants of the most
important ones with TLAPS. All paths are relative to `src/`; `PROJECT.json` maps
every definition to its lines.

    tlc -workers 2 -config Clusters.cfg MCClusters
    tlapm ClusterManagerProofs.tla

1. [Inventory](#1-inventory)
2. [Modules and how they follow the code](#2-modules-and-how-they-follow-the-code)
3. [Runs and bounds](#3-runs-and-bounds)
4. [Fairness](#4-fairness)
5. [Proofs](#5-proofs)
6. [Where the code and its words disagree](#6-where-the-code-and-its-words-disagree)
7. [What is not modelled](#7-what-is-not-modelled)
8. [Plan](#8-plan)

## 1. Inventory

How the parts interact: the window calls a *handler*; a handler asks the *cluster
manager* for the clients of the active context and passes them to a service;
what goes on for longer runs in goroutines of its own and reports through the
*event emitter*. Handlers are called concurrently: the framework runs every call
of the window in a goroutine, and two views, a retry or an unmounting component
overlap freely. Two kinds of hazard follow.

- *In the backend*, a table keyed by something (context, port, pod, session, watch
  key) holds an entry that stands for a goroutine, and the entry, the goroutine
  and a cancel function have to be kept in step across two or more critical
  sections.
- *In the window*, a component asks, and the answer comes when the component
  already shows something else, asks for something else, or is gone. What it
  does then depends on the guard it has, or has not.

| Part | State | What is hard | What makes it correct |
|---|---|---|---|
| Cluster connections (`internal/cluster/manager.go`) | map of connections, active context; per connection its state, clients, cancel function | `Connect` replaces a connection whose reconnect loop is inside `buildClients`; `DisconnectContext` cancels after it has released the lock; callbacks run after the locks | no connection escapes cancellation; the clients handed out are watched; a context's visible state moves only along documented edges |
| Port forwarding (`internal/stream/portforward.go`, `handlers/stream_handler.go`) | two tables by local port under two locks; per forward a goroutine, a tunnel, three signals | many ways out of the goroutine, each with its own clean-up; deletes go by port, not by forward | no zombie entries; a stop ends everything; a lost connection comes back |
| Log streams (`handlers/stream_handler.go`, `internal/stream/multilog.go`) | two tables of cancel functions | slot emptied and filled in two critical sections; stop during the start | the stream that emits can be stopped; a stopped one ends |
| Local terminals and AI sessions (`internal/ai/session.go`) | channel, batch, timer, process, table entry | batching against a timer; exit against output still queued | output complete, in order, timely; exit event last, and always |
| Exec sessions (`internal/stream/exec.go`, `handlers/stream_handler.go`) | entry, context, queue of one size | the exit callback against the registration; two resizes and the reader of the queue | the remote terminal gets the last size |
| Resource watches (`handlers/resource_handler.go`, `internal/resource/service.go`, `ui/src/hooks/useKubeResource.ts`) | table of watches, channels, the list each hook shows | list and watch are two calls; an unmount during them; a full channel | a watch that goes on can be stopped; the list shown converges |
| Permission checks (`internal/cluster/rbac.go`) | two caches | an answer in flight when the cache is cleared; a connection lost and rebuilt | what the window is told was said by the connected cluster |
| Node drain (`handlers/resource_handler.go`) | the books of one call | semaphore, cancellation by the first error, timeout | success means that every pod was evicted; an error stops the rest |
| Search (`app.go`) | pool of workers, two channels | the caller leaves at its limit | no worker is left; a short list is whole |
| Timeline (`internal/troubleshoot/timeline.go`) | a ring | wrapping | it is the list of the last changes |
| Kubeconfig watcher (`internal/cluster/kubeconfig_watcher.go`) | paths, debounce timer, list of contexts | files half written, removed, changed while they are read | a change is shown in the end |
| Audit log (`internal/audit/logger.go`) | ring in memory, append-only file | death of the process in any step of a rewrite; a torn line; a reading that breaks off unseen | what was stored, and read, stays stored; order; unique IDs |
| Settings file (`internal/config/store.go`) | settings in memory and in a file | failed writes after memory was changed; a crash in a write | no acknowledged setting is lost by what happens to others |
| Window: connection (`ui/src/stores/clusterStore.ts`, `views/Welcome.tsx`, banners) | status of every cluster, list of contexts, preflights | overlapping connects, health events of closed connections, lists that come late | "connected" is real; "connecting" is left |
| Window: pages with a panel (`ui/src/pages`) | selection, what was loaded, calls under way | loads of one page overlap; the selection store outlives the page | at rest the panel shows the last thing it asked for; the tray follows it |
| Window: forms (`ui/src/components/dialogs`, wizards, editors) | what was entered, the call that sends it | what a dialog holds outlives what it was opened for; it is opened again during its call | what is sent was entered for it, once; the form can be used again |
| Window: bottom tray (`TerminalTab`, `AITab`, `useAISession`) | tabs, sessions by tab | a session's identity is known only when its start was answered | every tab its session, every held session its tab |
| Window: logs (`LogsTab`) | what is picked, lines | one event name for all containers of a pod; stop and start in any order | lines of the picked pod; at most what is picked is streamed |
| Window: polls (18 components) | key, answer, timer | answers later than the timer or the user | what is shown is for the key of now; loading ends |
| Window: settings (`settingsStore`, `Settings.tsx`) | settings, verdicts of paths, theme | writes nobody waits for | the screen agrees with the file; a verdict is of the path beside it |
| Window: palette, shortcuts (`CommandPalette.tsx`, `useShortcuts.ts`) | query, results, commands, chord | late results, commands that end after the palette was closed | results answer the query; a chord ends |
| Window: favorites, recent items (`favoritesStore.ts`) | three lists | moving, pushing out | each once, none lost |
| Everything else | | single calls, pure functions, drawing | section 7 |

`PROJECT.json` lists all components and, under `hazards`, each place where
something can go wrong that a test would hardly reach, with the properties that
would notice it, or a note that says why none does.

## 2. Modules and how they follow the code

A step of every model is a critical section of the code's own lock, a remote
call returning, one arm of a `select`, or a file operation: exactly the places
where another goroutine (or the end of the process) can come in between. A
goroutine's position is a program counter (`pc`, `life`, `progress`, `loop`, `phase`). In the window a
step is a run of the event loop: an action of the user, an effect with its
clean-up, or the continuation of one `await`, whole; a call is *sent*, *served* by
the backend and *continued*, each a step. Definitions whose
comment says *faulty* or *Mutant* are the deliberately wrong variants against which
the properties are tried, one for each property of a run; no action uses them. The
properties of a component are stated one by one in its module; where a run asks for
several of them together, a conjunction gives them a name (`LogSafe`, `PagesCorrect`,
...).

### ClusterManager (and ClusterSessions, what it promises)

`connections` and `active` are the fields of `Manager`; `ctxOf`, `state`, `bundle`
and `cancelled` those of a `ClusterConnection`. A Connect call, its health loop
and its reconnect loop never run at the same time for one connection, so a
connection has one `pc`:

| Action | Code |
|---|---|
| `Connect` | `Connect` to its unlock: cancels what it replaces, registers, activates |
| `Built`, `ConnectFails`, `ConnectGivesUp` | `buildClients` answered; the failed call cancels its own context and leaves the entry |
| `Announce`, `Deliver` | `notify`: the snapshot, then the callback of `main.go:123` after the lock |
| `HealthDone`, `HealthTick`, `PingAnswered`, `PingFailed` | `healthLoop` |
| `BackoffDone`, `BackoffOver`, `Built`, `RebuildFails` | `reconnectWithBackoff` |
| `Disconnect`, `Shutdown`, `Remove`, `CancelClosed`, `MarkClosed`, `AnnounceClosed`, `DeliverClosed` | the two callers of `DisconnectContext`, which read names under the lock and go on without it; then `DisconnectContext` itself |
| `SwitchContext` | the same |
| `Flip` | external: an API server goes or comes |

`buildClients` does not look at the cancelled context before it writes its result:
`Built` is enabled on a cancelled connection as well, which is what makes the
late writes in the model. `helmContext` is what the callback has told the Helm
handler. The growing delay of the backoff is time and left out.

`ClusterSessions` is the promise without goroutines: each context is untracked,
connecting, connected, reconnecting or in error, and there is at most one active
context, which is always tracked. The refinement mapping is `view` (the state
of the *tracked* connection) and `active`.

### PortForward

`forwards` is the manager's table, `cancels` the handler's; `RegisterForward` and
`Publish` fill them in two critical sections, `TakeEntries` and `TakeCancels`
empty them in two. The lifecycle goroutine is at `select`, in one of the
steps of `reconnect` (`check`, `wait`, `recheck`, `redial`, `revive`), between the
closing of its stop channel and its delete (`stopped`), or `ended`. `SetStatus`
and `DeleteEntry` go by port as the code does, and so hit whichever entry is there.
`tunnel` is the listener and stream: `open`, `closing` (the stop channel is closed,
the listener not yet), `lost` or `none`. The SPDY dialer is external:
`Lose`, `Released`. `WaitOver` assumes that a backoff outlasts the closing of a
listener. A failed start of a forward changes no state and is left out.

### LogStreams

`table` is `logCancels` and `multiStreamers` in one, since they are handled
alike except that the second cancels inside its critical section. `Begin`
empties a slot, `Cancel` ends what was in it, `RegisterStream` makes the new context
and fills the slot, `StartOne` starts the goroutine of a container. A stream
ends because it was cancelled, because the log ended, or after its four hours.
The lines themselves are data.

### LocalSession

One PTY session from the process to the event: `Output`, `HangUp`, `Exit` are the
process; `Read`, `Send`, `ReadFails` the reading goroutine with `dataCh`;
`Receive`, `Tick`, `EndOfOutput`, `Report`, `Delete` the session's loop with its
batch, its timer and the flag `timerRunning`; `RegisterSession`, `Write`, `Written`,
`TakeEntry`, `Close` the handlers. Output is the sequence 1, 2, 3, ...; a chunk
stands for what one read returns. The Go version of `go.mod` is one whose
stopped timers leave no stale tick.

### AuditLog

The log over several lives of the process: `Start` loads, `Prune` with
`WriteTemp`, `Rename` and `Reopen` rewrites, `Log` appends, `Crash` and `CrashInLog`
end the process between any two steps or in the middle of a line. A line that
does not parse is skipped by the loader, so a file is its parseable lines and
what follows the last newline (`rest`). `Faults` says what the file system may
refuse, or do by halves. The file is opened twice at a start: an error of the first opening
(`logger.go:41`) or of the scanner (43) is not looked at, so `Start` may succeed with the first
lines only, or none (`Readable`); `unread` is history, the entries this happened to. A refused
second opening (59) makes `main.go` fall back to memory. `AtPlaces` (`Selection`) is a filter: what is kept of a sequence, in
its order.

### ResourceWatch

One key, several hooks, one object (an update touches its own object only). A
version is the number of the change that made it. `Mount`, `ListServed`,
`ListArrives`, `RegisterWatch`, `Open` are `fetchAndWatch` with its two calls;
`Unmount`, `StopWatch`, `CancelHeld` the clean-up, which does not wait for a
`fetchAndWatch` that is under way; `Forward`, `Emit` the two goroutines of the
backend with the channel between them; `Apply` what the hook does with an event.

### ConfigStore

`cfg` and `configFile`; a partial update is a function on some of the settings' paths,
which is what `deepMerge` makes of nested JSON. `Update` and `Reset` merge into
memory, then `WriteConfig` and `RenameConfig` write; an import is a reset and an update, of
values that are all given (those the JSON does not mention are Go's zero
values). `settled` and `doubt` are history: what the calls that returned without
an error have set, and which paths another call has touched since.

### Permissions

`verdicts` are the caches of the two checkers that exist, the one of the cluster
handler and the one of the resource handler; an answer stands for the context
that gave it. `ConnectTo` and `SwitchTo` clear and then change the active context
(`Leave`, `UnknownContext`, `Built`, `Switched`), `DisconnectActive`, `TakeAway` and `ClearLast`
do it the other way round, in the order of `handlers/cluster_handler.go`. `link` is the state
of the active connection: `HealthFails` and `Reconnected` are the manager's loops, and
a check begins only while it is "connected" (`ActiveClients` errs otherwise). `Ask`, `Hit`,
`Answered`, `Store` and `AskFails` are `CheckAccess` with its unlocks. `overlapped` is
history: a check met a change since the last clear; so is `earlier`: which cached answers
are from before the last reconnection.

### NodeDrain

The loop of `DrainNode` (`Consider`, `Break`, `Launch` with the semaphore), one goroutine
per pod (`Accepted`, `RefusedEviction`, then `EvictCancel`), the timeout and the return.
`onTheWay` is history: which evictions were under way when the context ended.

### Timeline and RecentChanges

`Record` and `Iterate` are the ring's methods; `RecentChanges` is its promise, the
list of the last changes, and `Iterate` the refinement mapping.

### KubeconfigWatch

Files are `whole`, `torn` or `gone`; `Event` and `Fire` are the watcher's loop and its
timer, `Hear`, `SetPaths` and `ListContexts` what the Welcome screen does with it.

### ResourceSearch

The pool of `SearchResources`: `Take`, `TypeListed`, `ListFails`, `SendResult`, `NoMore` are a
worker, `CloseResults` the goroutine that waits for them, `Collect` and `Exhausted` the
caller, which leaves at its limit.

### ExecSession

`StreamEnds` and `Forget` are the exit callback, `List` and `CloseExec` the handler,
`Drain` and `Offer` the two halves of `termSizeQueue.Send`, `NextSize` its reader.
`settled` is history: the last size whose call overlapped no other.

### Connection

`status`, `active` and what goes with them are `clusterStore`; `connects` are the calls
of `connectCluster` from the Welcome screen, the shell and the banner, each with its
`await`. `Health` is an event of the backend at any time, since the health loop of a
closed connection may have emitted one that is still queued. `Load`, `ListContexts` and
`Loaded` are `loadClusters`, `Preflight` and `Checked` the checks that follow,
`Startup`, `Restart` and `Route` the providers around the screen.

### DetailPages

Seven kinds of page differ in a record of switches (`PageOf`) and in their buttons.
`AppShell.tsx:32` gives the error boundary around the page the path as its key, so another
path is another page: `Mount` begins with fresh state and drops the calls of the page
before. What outlives a page is the selection store (`pick`), by which the tray knows its resource,
and the inputs of the lists (`input`). On one page calls do overlap: the loads of a
definition's instances (`SelectCRD`, `InstancesTab`, `Reload`), of a node whose pods or
metrics change, of a release after `Rollback`, and those of the buttons. `Serve` and `Continue`
are the backend and the continuation; a continuation that would find `cancelled` is
dropped when its effect is cleaned up (`Cleaned`).

### Forms

Every dialog, editor and wizard is a record of switches as well (`Dialog` and its
variations: whether it is mounted anew, resets its fields when opened, compares the
name, blocks while it waits). `OpenDialog` (also of the dialog for port forwards while it is
open, by the key F), `CloseDialog`, `LeavePage`, `Fill`, `Write`, `Submit`,
`AskPreview`, `Back` and `Apply` are the user; `SameName` is all that the dialog for deleting
compares, so it does not tell `Namesakes` of two namespaces apart; `Served`, `Submitted`, `Previewed` the calls.

### Tray

The three hosts of sessions: terminal tabs, AI tabs, and the drawer. `Imported`,
`Started`, `SessionAnswered` are `initTerminal` and `start` with their awaits;
`CloseSession`, `CloseAI`, `CloseTray`, `ShowDrawer` the ways a session is dropped while it
starts; `AutoCreate` opens a shell for the pod of a panel, once its containers are known (a
pick from a row's menu brings none). No page mounts the drawer (`AITerminalDrawer`) at this
commit: its part of the model is a parent that shows it, and what the run says of it is about code
that waits to be used.

### LogTab

`PickSource` and `OpenTab` with the clean-up of the effect send the calls, which the
handler may serve in any order (it runs each in a goroutine); `flying` are emitted
lines that have not been delivered. `LogStreams` is the inside of the handler.

### Polls

Eighteen components, each a record of switches (`KindOf`: is it keyed, does a change
cancel, is only the latest answer taken, does it tick, does it give up), all of them
one machine: `MountPoll`, `Change`, `Clear`, `Again`, `Tick`, `PollServed`, `Take`.

### Settings

The store's `load`, `update` and `reset`, every control of the page (`ChangeSetting` with
what its input accepts), the debounced validation of a path (`badge`, which a failed
search for a path turns red, too), the buttons
that wait (`spinning`), and the theme on its way from the file to the screen and back.
The run follows one setting, or two, at a time: a setting's control touches no other.

### Palette

`Type`, `Debounce`, `SearchServed`, `Found` are the search, `EnterMenu`, `Do`, `Select`,
`RunCommand` and `CommandEnds` the lists, `KeyG` and its like the chords, and
`MountShell`, `UnmountShell` the shell, which goes while the Welcome screen is shown.

### Favorites

The three lists of the store with their operations, as sequences. `AllBut` filters with `Selection`, too.

## 3. Runs and bounds

Modules that share no variable are checked in one run: a constant of the
behaviour (`service`, `what`, `screen`, `part`) says which of them moves, and the others
stand still. Nothing is lost by it, since no action of one reads a variable of
another; and since the others stand in a state in which no action they owe
fairness to is enabled, the fairness of all of them can be assumed together.
(`LogTab` and the modules of `MCKept` owe none.)

| Run | Parts and instances | Shows | States |
|---|---|---|---|
| `clusters` | *clusters*: two contexts, two Connects, two concurrent closers. *watches*: two hooks of one key, a channel of one, two changes. Symmetry | `IInv`, `NoOrphan`, `ServedClientsAreWatched`, `HelmWasConnected`: no connection escapes cancellation, served clients are watched, Helm points at what was connected; the refinement of `ClusterSessions` (`ImplementsSessions`); `WatchSafe` (no watch escapes those who could stop it); `Converges` (a lone hook shows what the server has) | 834 977 |
| `forwards` | two forwards and one caller, or one forward and two callers; one port, one retry | `ForwardIInv`, `ListedRuns`, `EndedReleases`, `SoleForwardListed`: no zombie in the list, an ended goroutine has released its port, a forward alone on its port stays listed until it is stopped; `StatusTrue`: its status is what its goroutine does | 1 142 440 |
| `recovery` | *clusters*: one context, two connections, one closer. *forwards*: one, two retries, one caller. *logs*: one pod, two containers, two callers, two streams. *sessions*: four chunks, channel and batch of two, two callers. *kubeconfig*: two files, two changes. *search*: three types, two workers, limit two. Fair | what has to end, ends (`CancelledStops`, `StopEnds`, `CancelledEnds`, `WorkersEnd`); what has to come back, comes back (`RecoversWhenUp`, `Recovers`); the youngest stream of a pod can be found and stopped (`LogSafe`); output in order and complete, exit last (`SessionSafe`), and both seen (`SessionEnds`); a changed kubeconfig is shown (`WatcherFollows`); a short list of results is whole (`SearchSafe`) | 29 573 |
| `kept` | *config*: two callers, two settings, two calls, crashes. *audit*: memory of two, four entries, three days, all faults but an incomplete flush. *drain*: four pods, two at a time. *permissions*: two contexts, one verb, two checks. *timeline*: ring of three. *settings*: one or two settings, two calls. *bookmarks*: three items, lists of two | no acknowledged setting (`ConfigSafe`) or audit entry (`AuditSafe`) is lost, the log keeps its order and its IDs; the books of a drain are right (`SuccessIsWhole`, `ErrorStops`); permissions are told by the connected cluster (`ToldByServing`); the ring is the list of the last changes (`ImplementsRecent`); the settings page agrees with the file, the theme with the settings and a verdict with its path (`SettingsSafe`); bookmarks come once (`FavoritesSafe`) | 2 040 451 |
| `screens` | *connection*: two clusters, two connects, one list. *forms*: three entries, two of one name, two calls. *palette*: three queries, two searches, two shells. *polls*: two keys, three calls, three misses. Fair | "connecting" and "connected" have a call or an answer behind them (`ConnectionSafe`), nothing stays waiting (`ConnectionComesBack`); what is sent was entered for it, once (`FormsCorrect`); results answer the query (`PaletteCorrect`); what is polled is what is shown, and loading ends (`PollsCorrect`) | 681 607 |
| `window` | *pages*: two resources, two keys, two calls. *tray*: two pods, two tabs, two mountings. *log*: two pods, two sources, three calls, one line on its way. *exec*: two callers, four sizes. Fair | a page at rest shows the last thing it asked for, and the tray follows the selection (`PagesCorrect`); tabs and sessions belong together (`TrayCorrect`); lines and stream are of the picked pod (`LogTabSafe`); the last size is drawn (`ExecCorrect`) | 610 693 |
| `port_forward_leak`, `log_streams_overlap`, `audit_full_disk`, `connection_gives_up`, `permissions_reconnect`, `tray_leak` | small | violations, section 6 | |

Why the bounds are enough for what they are meant to show:

- *ClusterManager.* Every hazard is between one connection and the one that
  replaces or outlives it, under one or another context, and between a
  Connect and a closer that holds the older connection: two connections, two
  contexts. Two closers race each other for one entry. The proof removes the
  bound for the invariants and the refinement.
- *PortForward.* Forwards interfere through the port, so two compete for one: the
  second takes it over while the first waits between two attempts, and both
  tables then hold the entries of one with the goroutine of the other. Forwards
  on different ports share nothing but the callers that stop or probe all of
  them; they are left to the proof, which has no bounds. One retry suffices to
  reach every step of the reconnect loop; the second, in the liveness run, adds a
  turn that follows a failed turn. Two callers meet at one forward in a scene of its
  own: all interleavings of two forwards with two callers are left to the proof.
- *LogStreams.* Two overlapping calls and two streams make each order of the
  four critical sections; two containers let a stop land between two starts.
- *LocalSession.* A channel of two fills, a batch of two flushes by size, and
  four chunks leave an odd one to the timer.
- *AuditLog.* A memory of two with four entries is trimmed twice; one day of
  three is kept, so entries age before, during and after a prune; a start may read any
  number of the lines there are; there is no bound on restarts.
- *ResourceWatch.* Two changes let an object appear before or after the list and then
  change or go, so that the event that repeats the list is followed by another; a
  channel of one is full as soon as two events wait.
- *ConfigStore.* Two calls overlap, with a crash at any step of them; on two settings a call
  can set one and leave the other.
- *Permissions, NodeDrain, Timeline.* Two checks and a switch are all who race, and they race
  for one verb, since every verb has its place in the cache; a bulk check of several verbs is
  left to the proof, which holds for any set of them. Four
  pods at two a time have some queued, waiting, asked and done at once; a ring of
  three goes round. The proofs remove the bounds.
- *KubeconfigWatch, ResourceSearch.* Two changes follow each other within one debounce
  or after it; three types leave one queued when both workers are at work, and a limit
  of two is met by one type or by two.
- *The window.* A late answer is an older call's against a newer one's, so two
  resources and two calls; a third call in `Polls` and `LogTab` lets a middle one be
  overtaken from both sides. Two mountings of a tray or shell make "gone and
  there again". `MaxCalls` and its like also bound what the user can pile up; the
  user can always wait.

`screens`, `window` and `clusters` do not check for deadlock: their users are
free to stop, and their calls, mountings and changes are used up. Symmetry is used in
runs without liveness only, over sets whose members the modules never compare or
choose from.

## 4. Fairness

A goroutine that can go on does (weak fairness of `Loop`, `Life`, `Call`,
`Reader` and the like), and remote calls return, since client-go bounds them with
timeouts. Go picks at random among the ready arms of a `select`; an arm that is
ready whenever the `select` comes round is therefore taken in the end: strong
fairness of `HealthDone`, `BackoffDone`, `SelectStop`, `SelectCtx`. Nothing obliges
the outside: API servers may stay away (`Flip`), a log need not end, a process need
not write, read or exit, and a user need not call anything. In
`LocalSession`, a write returns for certain only when the process has let its
terminal go. `RecoversWhenUp` and `Recovers` say what follows *if* the server
stays reachable, and exclude by name the cases in which the code gives up.

In the window the event loop runs what is due: a call that was made is answered in the
end, with a result or an error, and its continuation runs; timers fire (`Debounce`,
`ChordTimeout`, `Retry`). The fairness is that of *some* call under way, not of each:
where calls queue up the properties ask only that the component comes to rest, and
those for which a restless user matters say so (`SpinnerEnds`, `LoadingEnds`). In
`KubeconfigWatch` a program that has begun to write a file ends it.

## 5. Proofs

| Theorem | Module | Says |
|---|---|---|
| `ManagerInvariant` | `ClusterManagerProofs` | `Spec => []IInv` |
| `NoConnectionEscapes`, `ServedClients`, `HelmBacked` | | the three safety properties |
| `ManagerImplementsSessions` | | `Spec => ImplementsSessions`: every step is a step of `ClusterSessions` or none |
| `ForwardInvariant` | `PortForwardProofs` | `ForwardSpec => []ForwardIInv` |
| `NoZombies`, `Uncancelled`, `SoleListed`, `RetriesHoldNothing` | | `ListedRuns`, `EndedReleases`, `SoleForwardListed`, `RetriesUnbound` |
| `StatusIsTrue` | | `StatusTrue` |
| `WatchInvariant`, `NoWatchEscapes`, `LoneHookConverges` | `ResourceWatchProofs` | the invariant, `WatchSafe`, `Converges` |
| `PermissionsInvariant`, `PermissionTypes`, `ToldByTheConnected` | `ServicesProofs` | the invariant, `PermissionsTypeOK`, `ToldByServing` |
| `DrainInvariant`, `DrainTypeCorrect`, `SuccessEvictsAll`, `ErrorStopsDrain` | | the invariant, `DrainTypeOK`, `SuccessIsWhole`, `ErrorStops` |
| `TimelineTypes`, `RingKeepsTheLast` | | `TimelineTypeOK` and the refinement of `RecentChanges` |
| `SearchInvariant`, `SearchIsWhole` | | the invariant, `SearchSafe` |
| `LogInvariant`, `YoungestIsFound` | `LogStreamsProofs` | the invariant, `LogSafe` |
| `SessionInvariant`, `OutputIsWhole` | `LocalSessionProofs` | the invariant, `SessionSafe` |
| `ConfigInvariant`, `SettingsAreKept` | `KeptProofs` | the invariant, `ConfigSafe` |
| `AuditInvariant`, `AuditIsKept` | | the invariant, `AuditSafe`, while no flush fails |
| `BookmarksComeOnce` | | `FavoritesSafe`, which is inductive |
| `LogTabInvariant`, `TabAgreesWithHandler` | `WindowProofs` | the invariant, `LogTabSafe` |
| `ConnectionInvariant`, `ConnectionIsBacked` | | the invariant, `ConnectionSafe` |
| `SettingsInvariant`, `SettingsAgree` | | the invariant, `SettingsSafe` |

They hold for any values of the constants, from the named assumptions of each
module: `ClusterAssumption` (the empty name is no context), `ForwardAssumption`
(`NoPort` is no port, and there is at least one retry), `PermissionsAssumption` (no
cluster is no context, and something is asked), `DrainAssumption` (finitely many pods, room
for one eviction), `TimelineAssumption` (a ring of at least one place),
`StreamAssumption` (finitely many callers, a pod and a container), `ConfigAssumption` (any
number of calls), `SessionAssumption` (a channel and a batch of at least one),
`WatchAssumption` (finitely many hooks, a channel of at least one, any number of changes),
`SearchAssumption` (finitely many types, limits of at least one), `AuditAssumption` (a memory
of at least one entry, any number of entries and days), `FavoritesAssumption` (room for one
item), `LogTabAssumption` (no source is no source; at least one line, call and flying line),
`ConnectionAssumption` (no cluster is no context, at least one attempt) and
`SettingsAssumption` (at least one call; of the paths of the AI providers at most one is
followed in a behaviour, since the module keeps the state of one provider's row). Two
theorems have a hypothesis of their own: `AuditInvariant` and `AuditIsKept` suppose that no
flush fails (`"flush"` is not among `Faults`), and the run `audit_full_disk` shows why. The bounds on
the number of connections and of forwards are any natural numbers.

*The manager's invariant.* `NoOrphan` is not inductive: that a replaced
connection is cancelled needs to know that a mapped connection is the one of its
context. `Tracking` says so. `Lives` ties the tracked connection's
`state` to its goroutine's position (`StateAt`) and says that, while it is tracked,
only a goroutine that is through can be cancelled; this gives
`ServedClientsAreWatched`. It must not speak of connections out of the map, whose
state the late writes can set to anything. `Closers` says that what a caller is
closing is out of the map for good, so that its late `MarkClosed` cannot hit a
tracked connection. With these the refinement needs no history: a step of a
connection that is not tracked leaves `view` alone, and a step of a tracked one is
an edge of `ClusterSessions`.

*The forwards' invariant.* `Born` ties `dialled`, `starting` and `life` together.
`RetriesUnbound` needs that no goroutine enters the retries with an open tunnel,
which is `Closing`. `SoleForwardListed` rests on `DeleteSparesSole`: deleting by
port takes no entry from a forward that is alone on its port. Two lemmas carry
most steps: `LifeParts`, for a step of one goroutine, and `OutsideParts`, for the
steps that only take entries or set signals.

*Permissions.* The loss and return of the active connection change neither context nor cache,
and what `ToldByServing` says holds through them; `UsedSinceReconnected`, which speaks of what is
older than the return, does not (section 6). `ToldByServing` says nothing while the context changes, so the invariant
has to: from the clear at the beginning of a change to its end the cache stays empty
(`CacheServes`), unless a check was there to fill it, and as long as none was,
whoever asks has the clients that serve (`ClientServes`).

*Drain.* Pods leave the books only when the context has ended (`Accounted`), and without
a timeout it ends for an error only (`DoneForReason`), which an answer of `nil` denies.
`Limited` needs that finitely many evictions run.

*Timeline.* The places that `Iterate` reads are `count` consecutive ones modulo `RingSize`; a
record either extends them by one or moves the window on by one (`RingRead`).

*Log streams.* `YoungestFound` is not inductive: that whoever holds a stream is about to
cancel it, or is the one that made it and has it in the table, is `Holders` and `Findable`. A
call that registers overwrites the slot, but with a younger stream of that slot. `Running` says
that goroutines belong to streams that were made, so that an ending one stops no stream to come.

*Local sessions.* `Pieces` cuts what was read into the hand of the reader, the channel, the
batch and what was emitted, each numbered on from the one before, and every step moves a
chunk, or a batch, from one to the next. `ReaderOver` and `LoopOver` say that the pieces
run dry in that order, which makes the exit last; `TimerKnown` that the loop never takes a stopped
timer for a running one, which gives `BatchHasTimer`.

*The status of a forward.* The list's status is kept by port, and only the goroutine of a
forward that is alone on its port writes it there; what it wrote last is what it is doing,
step by step of its life (`StatusStep`). That is inductive next to `ForwardIInv`, which
says which steps write nothing.

*Resource watches.* `WatchSafe` follows from `Found`: a watch that goes on is in the table, or
held by a hook that stops it, or over. `Converges` needs to know what is on its way: for a
hook that is alone and was opened in the state it listed (`Whole`), the events on their way,
applied in their order to the list it shows, add up to what the server has (`AddsUp` of
`Pipe`). The stream may begin with an event that repeats the
list; a change adds one at the end, applying one takes it from the front, and a hook that
has lost an event to a full channel is not `Whole`.

*Search.* Every type is in one place: a job, in the hands of one worker, on the channel, or with
the caller (`Apart`, `Handful`, `IsInjective(resultsCh)`), so that no result comes twice; a
match is sent or being sent (`Matched`), and a closed channel has no worker left (`Finished`), so
that what the caller has when it is exhausted is the whole.

*Settings file.* `OneWriter` is the lock. Between its merge and its return the caller that
holds it is about to write what is in memory (`WritesMemory`), and its own paths are in
doubt (`OwnPaths`), so that a refused write or the end of the process leaves memory and disk
different on paths in doubt only. An import has all paths in doubt between its two halves.

*Audit log.* `Orders` says that what the next process will parse ascends, too, the unfinished
last line included. Ascending numbers need room (`RoomAbove`): an entry with `d` entries
after it is at least `d` behind, so what a trim to `MaxEntries` removes is not `Due`. A
rewrite writes what is in memory (`Shape`), where an entry that is due still is. `Ids` ties
an entry's ID to its number as long as nothing was lost or left unread. What a start reads is a
prefix of the file (`SubSeq`), of which all the rest follows; of entries that are `unread` nothing is
promised, and a rewrite is always of less than the
whole, after which nothing is promised any more. The filters of the code are modelled
by `AtPlaces` (`Selection`) instead of `SelectSeq`, whose recursion is out of the provers'
reach; `AtPlacesProperties` says that it keeps the chosen elements, all of them, in their order.

*Bookmarks.* A list in which everything comes once stays one when it is filtered (`AllBut`),
cut, put after an element it lacks (`PushedItem`), or when one element is moved (`RemovedOne`,
`InsertedOne`).

*Log tab.* The tab and the handler agree (`Agreed`) on every pod whose calls were not overtaken by
each other: the last call that waits for the pod asks for what the tab wants of it now, and if none
waits, the handler streams that or nothing. Effects send a stop before a stream, so each of
them leaves a last call that is right (`CallsSent`).

*Connection.* A "connecting" on the Welcome screen is that of one call, which the screen takes along
when it goes (`ShowsItsCall`); the shell has an active cluster (`RouteFits`); and a call
that is to continue with success has been told so by the backend (`AnswerReached`).

*Settings page.* A setting that is not in doubt is touched by at most one call under
way, and what this call will do to memory or file is what makes them agree (`Settled`,
`Promises`). The mark beside a path is accounted for by the timer that will ask, the
check under way, the answer that gave it, or the search that failed (`MarkFits`); each kind of step changes the
calls in one of a few ways, and a lemma for each (`StillBusy`, `Dim`) carries the rest.

What remains with TLC: all liveness properties, alone or inside `FormsCorrect`,
`PaletteCorrect`, `PollsCorrect`, `PagesCorrect`, `TrayCorrect` and `ExecCorrect` (they need fairness
and `ENABLED`), and with them the safety half of these six. Induction over data is out of reach as
well: no theorem says what a recursive definition computes, and no module that has a proof declares one.

## 6. Where the code and its words disagree

Six runs are expected to end in a violation:

- `port_forward_leak`: the `ctx.Done()` arm of the lifecycle goroutine
  (`internal/stream/portforward.go:287`) leaves without closing the current stop
  channel. When a forward's context ends while its tunnel is up, after its 24
  hours, the entry goes and the goroutine goes, but the listener goes on
  accepting, and nothing can stop it any more.
- `log_streams_overlap`: of two overlapping streaming calls for one pod both start,
  and the cancel function of one is overwritten
  (`handlers/stream_handler.go:77`).
- `audit_full_disk`: `rewriteFile` (`internal/audit/logger.go:167`) ignores whether
  the temporary file was written and renames it over the log.
- `connection_gives_up`: the banner that counts to five attempts gives up after one: the
  failed connect clears the active cluster, and with it goes the shell the banner is in
  (`ui/src/stores/clusterStore.ts:121`).
- `permissions_reconnect`: `rbac.go:109-110` wants the cache of permissions cleared "after a
  reconnection"; the reconnect loop (`internal/cluster/manager.go:300-316`) clears none, and a
  verdict from before the loss is used after it.
- `tray_leak`: a session whose tab is closed, or whose tray is shut, before its start was
  answered goes on with no tab (`ui/src/components/bottom-tray/tabs/TerminalTab.tsx:385`;
  "Cleanup removed sessions", `AITab.tsx:177`, closes what has been answered only).

One more property is stated in its module and in no run, because it does not hold:
`AnyChangeIsShown` (files that the settings name after the start are in no watched
directory).

Others were met while modelling and shape what the properties promise:

- *Backend.* Helm keeps its context when `SwitchContext` changes the active one (which
  the window of this commit never asks for); a
  forward that takes over the port of another has its entry overwritten by, and
  deleted with, the other's (which is why `SoleForwardListed` and `StatusTrue` speak
  of a forward alone on its port); a close of a terminal waits for a write that the
  process does not take; a process that exits before its session is registered
  leaves the entry behind, in `ai_handler.go` and in `stream_handler.go`; closing an exec
  session shuts its input only, and waits for a write that holds its lock; a hook that unmounts during its list call starts a
  watch that nobody stops; a change between list and watch may be missed
  (which is why `Converges` speaks of a watch opened in the state that was listed);
  an import is a reset and an update, and sets to zero what it does not mention;
  the permission checker of the resource handler is cleared by nobody, also when the
  context changes (`ToldByServing` is about the other one); an audit log that cannot be read to
  its end, for a line of more than 64 KiB or an error that nobody looks at, is used all
  the same: IDs come twice, and the next prune drops what was not read (which is why
  `Retained` and `IdsUnique` except `unread` entries);
  the drain reports success after its timeout.
- *Window.* `Welcome.loadClusters` and the list of the settings page put statuses of
  before over those of a connect; of two values of a secret that are revealed at once the first one's answer gives the button of
  the second free, so that an answer may show a value that was hidden meanwhile; two rollbacks of a
  release in a row may leave the older of the loads that follow them; the refresh after a change
  of a taint may be overtaken by an older load, or put old numbers over new ones; what was chosen
  in the menu of a row on the nodes page is overwritten by the next reload; the red mark of a
  search that failed stays beside a valid path (`VerdictOfPath` allows it by name); the dialog
  for port forwards, given another pod by F, can be sent while its call is under way, and the
  dialog for deleting takes a name entered for a namesake in another namespace; the pod a shell is opened for keeps the container chosen for the one before; the
  late success of a call closes the dialog that was opened since; the Helm
  dialogs can be submitted twice; a preview that is late comes back after "Back"; the palette's
  spinner stays when its query is emptied during a search, and a command that ends
  late closes the palette of a later opening in the same shell; lines of the container
  that was left appear among those of the next; `useMetricsHistory` shows an answer after
  it has given up; the pod picker goes on loading when its namespace is cleared; two quick
  changes of one setting may be saved in the other order. Where a property covers the
  neighbourhood it excludes the case by name.

## 7. What is not modelled

Time as a quantity (delays, intervals, timeouts are nondeterministic choices), the
Kubernetes API beyond *it answers or not*, the contents of objects, lines,
entries and settings, wording, rendering and layout. Calls that are one request
to the API server and one audit entry (secrets, most resource actions) have no
interleaving of their own. The analyses and generators (security scan, RBAC
graph, network policies, GitOps, templates, wizards) are pure functions of one
list of objects. Query, Get and List operations of the modelled components only
read. Further:

- *Alerts*: `Fire` appends, `Acknowledge` sets a flag, each under one lock; the list has no
  limit and no promise. Which status matches a rule reads one event.
- *Update checks*: the scheduler's callback writes a log line, so that what its timer,
  `CheckNow` and `SkipVersion` do to each other is seen by nobody.
- *Emitter's subscriptions, TTL cache*: nothing in the program calls them.
- *Pages without a name of their own*: the lists, what they read from the objects, and the list
  of port forwards in a panel.
- *Tables, sidebars, layout*: drawing, sorting and filtering of what a hook shows.
- *The order of late answers in `Welcome.loadClusters`* is in `Connection`, not in
  `KubeconfigWatch`; *overlapping changes of the active context* are in `ClusterManager`, not
  in `Permissions`.

## 8. Plan

Done: the services of the backend that keep state, the window's components that await
them, three refinements of abstract specifications, and the safety of fifteen of them proved.
Next, in this order:

1. The safety halves of `TrayCorrect`, `PollsCorrect`, `ExecCorrect`, `PagesCorrect`,
   `FormsCorrect` and `PaletteCorrect` as invariants with proofs, the tray first, since
   what it promises spans the most actors.
2. `Connection` composed with `ClusterManager` through the queue of events, and `LogTab` with
   `LogStreams`, so that the outcomes the window's modules leave open become those of
   the backend.
3. `Permissions` with overlapping changes of the context, as in `ClusterManager`.
4. `ResourceWatch` with liveness on a smaller instance, and the batch of the hook
   over several keys.
5. Pure algorithms over bounded inputs: comparing versions (`isNewer`),
   `backoffDuration`, `deepMerge` against `Merge`.
