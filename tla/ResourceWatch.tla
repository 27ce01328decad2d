----------------------------- MODULE ResourceWatch -----------------------------
(***************************************************************************)
(* The live lists of the UI: a mounted useKubeResources hook lists the     *)
(* objects of one key (ui/src/hooks/useKubeResource.ts), then asks         *)
(* WatchResources (handlers/resource_handler.go) to watch the key; the     *)
(* backend forwards what Service.Watch (internal/resource/service.go)      *)
(* reads from the API server to all hooks.  An update touches its own      *)
(* object only, so one object stands for all; its version is the number of *)
(* the change that made it, and 0 while it does not exist.                 *)
(***************************************************************************)
EXTENDS Naturals, Sequences, FiniteSets

CONSTANTS Hook,        \* hooks that mount in one behaviour
          ChanCap,     \* capacity of the watch channel (64)
          MaxChanges   \* bound: changes of the object

ASSUME WatchAssumption == IsFiniteSet(Hook) /\ ChanCap \in Nat \ {0} /\ MaxChanges \in Nat

Watch == 1..Cardinality(Hook)  \* every hook asks once
None == 0

VARIABLES
  changes,  \* the types of the changes so far
  table,    \* watchCancels of the key: a watch or None
  opened,   \* how many watches were made
  done,     \* watches whose context is cancelled
  stream,   \* watch -> "opening", "open" or "closed"
  since,    \* watch -> number of changes when it was opened
  result,   \* watch -> events of the server's stream, to be forwarded
  ch,       \* watch -> the channel of Service.Watch
  dropped,  \* watches that dropped an event
  hookStep, \* where a hook's fetchAndWatch stands
  mounted,  \* "not yet", "yes" or "gone"
  answer,   \* the list on its way to a hook
  listed,   \* number of changes when the server made it
  data,     \* what the hook shows
  mine,     \* the watch a hook's call made
  stop,     \* a hook's StopWatch call: "no", "called" or "over"
  held      \* the watch it has taken out and not cancelled yet

hooks == <<hookStep, mounted, answer, listed, data, mine>>
streams == <<stream, since, result, ch, dropped>>
stops == <<stop, held>>
watchVars == <<changes, table, opened, done, streams, hooks, stops>>

Event(type, v) == [type |-> type, version |-> v]
Version(n) == IF n = 0 \/ changes[n] = "DELETED" THEN 0 ELSE n
Now == Len(changes)

WatchInit == /\ changes = <<>>
             /\ table = None /\ opened = 0 /\ done = {} /\ dropped = {}
             /\ stream = [w \in Watch |-> "opening"]
             /\ since = [w \in Watch |-> 0]
             /\ result = [w \in Watch |-> <<>>]
             /\ ch = [w \in Watch |-> <<>>]
             /\ hookStep = [h \in Hook |-> "idle"]
             /\ mounted = [h \in Hook |-> "not yet"]
             /\ answer = [h \in Hook |-> 0]
             /\ listed = [h \in Hook |-> 0]
             /\ data = [h \in Hook |-> 0]
             /\ mine = [h \in Hook |-> None]
             /\ stop = [h \in Hook |-> "no"]
             /\ held = [h \in Hook |-> None]

-------------------------------------------------------------------------------
\* The API server.
Change(type) ==
  /\ Now < MaxChanges
  /\ (type = "ADDED") = (Version(Now) = 0)
  /\ changes' = Append(changes, type)
  /\ result' = [w \in Watch |-> IF stream[w] = "open"
                                THEN Append(result[w], Event(type, Now + 1))
                                ELSE result[w]]
  /\ UNCHANGED <<table, opened, done, stream, since, ch, dropped, hooks, stops>>

-------------------------------------------------------------------------------
\* The hook.  fetchAndWatch goes on after an unmount; only what it shows is guarded.
Move(h, from, to) == hookStep[h] = from /\ hookStep' = [hookStep EXCEPT ![h] = to]

Mount(h) == /\ mounted[h] = "not yet"
            /\ mounted' = [mounted EXCEPT ![h] = "yes"]
            /\ Move(h, "idle", "list")
            /\ UNCHANGED <<changes, table, opened, done, streams, answer, listed, data, mine, stops>>

ListServed(h) ==
  /\ Move(h, "list", "answer")
  /\ answer' = [answer EXCEPT ![h] = Version(Now)]
  /\ listed' = [listed EXCEPT ![h] = Now]
  /\ UNCHANGED <<changes, table, opened, done, streams, mounted, data, mine, stops>>

ListFails(h) ==
  /\ Move(h, "list", "over")
  /\ UNCHANGED <<changes, table, opened, done, streams, mounted, answer, listed, data, mine, stops>>

ListArrives(h) ==
  /\ Move(h, "answer", "watch")
  /\ data' = IF mounted[h] = "yes" THEN [data EXCEPT ![h] = answer[h]] ELSE data
  /\ UNCHANGED <<changes, table, opened, done, streams, mounted, answer, listed, mine, stops>>

Unmount(h) == /\ mounted[h] = "yes"
              /\ mounted' = [mounted EXCEPT ![h] = "gone"]
              /\ stop' = [stop EXCEPT ![h] = "called"]
              /\ UNCHANGED <<changes, table, opened, done, streams, hookStep, answer, listed, data, mine, held>>

\* setData on an event, by what is there.
ApplyKeepsDeleted(v, e) ==  \* faulty: a deleted object stays on the list
  CASE e.type = "ADDED"    -> IF v = 0 THEN e.version ELSE v
    [] e.type = "MODIFIED" -> IF v = 0 THEN 0 ELSE e.version
    [] e.type = "DELETED"  -> v
Apply(v, e) ==
  CASE e.type = "ADDED"    -> IF v = 0 THEN e.version ELSE v
    [] e.type = "MODIFIED" -> IF v = 0 THEN 0 ELSE e.version
    [] e.type = "DELETED"  -> 0

-------------------------------------------------------------------------------
\* WatchResources replaces the watch of the key in one critical section, ...
RegisterReplacing(h, old) ==
  /\ Move(h, "watch", "open")
  /\ opened' = opened + 1
  /\ table' = opened + 1
  /\ done' = done \cup old
  /\ mine' = [mine EXCEPT ![h] = opened + 1]
  /\ UNCHANGED <<changes, streams, mounted, answer, listed, data, stops>>

RegisterOver(h) == RegisterReplacing(h, {})  \* faulty: the old watch goes on
RegisterWatch(h) == RegisterReplacing(h, {table} \ {None})

\* ... then opens the stream, which starts with what exists.
Open(h) ==
  LET w == mine[h] IN
  /\ Move(h, "open", "over")
  /\ stream' = [stream EXCEPT ![w] = "open"]
  /\ since' = [since EXCEPT ![w] = Now]
  /\ result' = [result EXCEPT ![w] = IF Version(Now) = 0 THEN <<>>
                                     ELSE <<Event("ADDED", Version(Now))>>]
  /\ UNCHANGED <<changes, table, opened, done, ch, dropped, mounted, answer, listed, data, mine, stops>>

OpenFails(h) ==
  LET w == mine[h] IN
  /\ Move(h, "open", "over")
  /\ stream' = [stream EXCEPT ![w] = "closed"]
  /\ done' = done \cup {w}
  /\ UNCHANGED <<changes, table, opened, since, result, ch, dropped, mounted, answer, listed, data, mine, stops>>

-------------------------------------------------------------------------------
\* Service.Watch forwards an event, or drops it when the channel is full.
Forward(w) ==
  /\ stream[w] = "open" /\ result[w] # <<>>
  /\ result' = [result EXCEPT ![w] = Tail(@)]
  /\ IF Len(ch[w]) < ChanCap
     THEN ch' = [ch EXCEPT ![w] = Append(@, Head(result[w]))] /\ UNCHANGED dropped
     ELSE dropped' = dropped \cup {w} /\ UNCHANGED ch
  /\ UNCHANGED <<changes, table, opened, done, stream, since, hooks, stops>>

\* It ends on a cancelled context or when the server closes the stream.
Close(w, ends) ==
  /\ stream[w] = "open" /\ ends
  /\ stream' = [stream EXCEPT ![w] = "closed"]
  /\ result' = [result EXCEPT ![w] = <<>>]
  /\ UNCHANGED <<changes, table, opened, done, since, ch, dropped, hooks, stops>>

CloseCancelled(w) == Close(w, w \in done)
ServerCloses(w) == Close(w, TRUE)

\* The handler's goroutine empties the channel, also of a cancelled watch; every
\* mounted hook hears what it emits.  (That the UI hears it later is left out: what
\* waits, waits in the channel.)
Emit(w) ==
  /\ ch[w] # <<>>
  /\ ch' = [ch EXCEPT ![w] = Tail(@)]
  /\ data' = [h \in Hook |-> IF mounted[h] = "yes" THEN Apply(data[h], Head(ch[w])) ELSE data[h]]
  /\ UNCHANGED <<changes, table, opened, done, stream, since, result, dropped,
                 hookStep, mounted, answer, listed, mine, stops>>

\* StopWatch takes the watch out under the lock and cancels it after.
StopWatch(h) ==
  /\ stop[h] = "called" /\ held[h] = None
  /\ IF table = None
     THEN stop' = [stop EXCEPT ![h] = "over"] /\ UNCHANGED <<table, held>>
     ELSE /\ held' = [held EXCEPT ![h] = table]
          /\ table' = None
          /\ UNCHANGED stop
  /\ UNCHANGED <<changes, opened, done, streams, hooks>>

CancelHeld(h) ==
  /\ held[h] # None
  /\ done' = done \cup {held[h]}
  /\ held' = [held EXCEPT ![h] = None]
  /\ stop' = [stop EXCEPT ![h] = "over"]
  /\ UNCHANGED <<changes, table, opened, streams, hooks>>

Backend(w) == Forward(w) \/ CloseCancelled(w) \/ Emit(w)
Call(h) == \/ ListServed(h) \/ ListArrives(h) \/ RegisterWatch(h)
           \/ Open(h) \/ OpenFails(h) \/ StopWatch(h) \/ CancelHeld(h)

WatchNext == \/ \E type \in {"ADDED", "MODIFIED", "DELETED"} : Change(type)
             \/ \E h \in Hook : Mount(h) \/ ListFails(h) \/ Unmount(h) \/ Call(h)
             \/ \E w \in Watch : Backend(w) \/ ServerCloses(w)

WatchSpec == WatchInit /\ [][WatchNext]_watchVars

-------------------------------------------------------------------------------
WatchTypeOK == /\ changes \in Seq({"ADDED", "MODIFIED", "DELETED"}) /\ Now <= MaxChanges
               /\ opened \in {None} \cup Watch /\ table \in {None} \cup 1..opened
               /\ done \subseteq 1..opened /\ dropped \subseteq 1..opened
               /\ \A w \in Watch : /\ stream[w] \in {"opening", "open", "closed"}
                                   /\ since[w] \in 0..Now
                                   /\ Len(ch[w]) <= ChanCap
               /\ \A h \in Hook : /\ hookStep[h] \in {"idle", "list", "answer", "watch", "open", "over"}
                                  /\ mounted[h] \in {"not yet", "yes", "gone"}
                                  /\ {answer[h], listed[h], data[h]} \subseteq 0..Now
                                  /\ {mine[h], held[h]} \subseteq {None} \cup 1..opened
                                  /\ stop[h] \in {"no", "called", "over"}

\* A watch that goes on can be stopped: it is in the table, or a StopWatch that has
\* taken it out is about to cancel it (resource_handler.go:415-423, 469-480).
WatchFound == \A w \in 1..opened :
  w \in done \/ table = w \/ \E h \in Hook : held[h] = w

\* A hook that is the only one, whose watch was opened in the state that it had
\* listed, whose stream is whole and has been emitted to the end, shows what
\* the server has: the events ADDED that repeat the list and the changes that
\* follow add up (useKubeResource.ts:30-102, service.go:127-163).
Settled(h) == /\ mounted[h] = "yes" /\ hookStep[h] = "over" /\ opened = 1 /\ mine[h] = 1
              /\ stream[1] = "open" /\ dropped = {}
              /\ result[1] = <<>> /\ ch[1] = <<>>
Converges == \A h \in Hook :
  Settled(h) /\ since[1] = listed[h] => data[h] = Version(Now)

\* No watch is lost to those who could stop it.
WatchSafe == WatchTypeOK /\ WatchFound
===============================================================================
