------------------------------ MODULE LogStreams ------------------------------
(***************************************************************************)
(* The log streams of handlers/stream_handler.go: one container at a time  *)
(* (StreamLogs, logCancels) or all containers of a pod at once             *)
(* (StreamAllContainerLogs, multiStreamers, internal/stream/multilog.go).  *)
(* Both tables are keyed by pod; a call empties its slot in one critical   *)
(* section and fills it in another.  The context of a container's stream   *)
(* is a child of its call's, so cancelling the call's ends them all.       *)
(***************************************************************************)
EXTENDS Naturals, FiniteSets, Sequences

CONSTANTS Pod,        \* "namespace/name"
          Container,  \* the containers of a pod
          LogCaller,     \* concurrent calls of the handler
          MaxStreams  \* bound: streaming calls in one behaviour

ASSUME StreamAssumption ==
  MaxStreams \in Nat /\ IsFiniteSet(LogCaller) /\ Pod # {} /\ Container # {}

Slot   == {"single", "all"} \X Pod   \* a key of logCancels or of multiStreamers
Stream == 1..MaxStreams              \* a call's context and its goroutines
None   == 0

VARIABLES
  table,      \* slot -> stream or None: its cancel function
  slotOf,     \* the slot of every stream made
  stopped,    \* streams whose context is done
  running,    \* stream -> containers whose goroutine runs
  stage,      \* where a caller stands
  slot,       \* the slot it works on
  held,       \* the stream it has taken out, or made
  unstarted,  \* containers it is still to start
  goal        \* "replace" or "stop"

callers == <<stage, slot, held, unstarted, goal>>
logVars == <<table, slotOf, stopped, running, callers>>

Made == DOMAIN slotOf
AnySlot == CHOOSE s \in Slot : TRUE

\* Which container StreamLogs is asked for is data.
Wanted(s) == IF s[1] = "all" THEN Container ELSE {CHOOSE c \in Container : TRUE}

LogInit == /\ table = [s \in Slot |-> None]
           /\ slotOf = <<>>
           /\ stopped = {}
           /\ running = [e \in Stream |-> {}]
           /\ stage = [u \in LogCaller |-> "idle"]
           /\ slot = [u \in LogCaller |-> AnySlot]
           /\ held = [u \in LogCaller |-> None]
           /\ unstarted = [u \in LogCaller |-> {}]
           /\ goal = [u \in LogCaller |-> "stop"]

Move(u, from, to) == stage[u] = from /\ stage' = [stage EXCEPT ![u] = to]
Pending(v) == goal[v] = "replace" /\ stage[v] \in {"cancel", "register"}
After(g) == IF g = "replace" THEN "register" ELSE "idle"

-------------------------------------------------------------------------------
\* The first critical section of a streaming call, and the one of a stop.
\* multiStreamers cancels inside it; cancelLogStream after it.
Begin(u, s, g) ==
  /\ g = "replace" => Len(slotOf) + Cardinality({v \in LogCaller : Pending(v)}) < MaxStreams
  /\ Move(u, "idle", IF s[1] = "single" /\ table[s] # None THEN "cancel" ELSE After(g))
  /\ slot' = [slot EXCEPT ![u] = s]
  /\ goal' = [goal EXCEPT ![u] = g]
  /\ held' = [held EXCEPT ![u] = IF s[1] = "single" THEN table[s] ELSE None]
  /\ table' = [table EXCEPT ![s] = None]
  /\ stopped' = IF s[1] = "all" /\ table[s] # None
                THEN stopped \cup {table[s]} ELSE stopped
  /\ UNCHANGED <<slotOf, running, unstarted>>

CancelForgotten(u) ==  \* faulty: taken out of the table, not cancelled
  /\ Move(u, "cancel", After(goal[u]))
  /\ held' = [held EXCEPT ![u] = None]
  /\ UNCHANGED <<table, slotOf, stopped, running, slot, unstarted, goal>>

Cancel(u) ==
  /\ Move(u, "cancel", After(goal[u]))
  /\ held' = [held EXCEPT ![u] = None]
  /\ stopped' = stopped \cup {held[u]}
  /\ UNCHANGED <<table, slotOf, running, slot, unstarted, goal>>

\* StreamAllContainerLogs asks for the client only now: the old one is gone.
NoClient(u) ==
  /\ slot[u][1] = "all"
  /\ Move(u, "register", "idle")
  /\ UNCHANGED <<table, slotOf, stopped, running, slot, held, unstarted, goal>>

\* The second critical section writes the slot, whatever is there by now.
RegisterStream(u) ==
  LET e == Len(slotOf) + 1 IN
  /\ Move(u, "register", "start")
  /\ slotOf' = Append(slotOf, slot[u])
  /\ table' = [table EXCEPT ![slot[u]] = e]
  /\ held' = [held EXCEPT ![u] = e]
  /\ unstarted' = [unstarted EXCEPT ![u] = Wanted(slot[u])]
  /\ UNCHANGED <<stopped, running, slot, goal>>

\* StartAll starts a goroutine per container, also on a context that a stop has
\* cancelled since.
StartOne(u, c) ==
  /\ stage[u] = "start"
  /\ c \in unstarted[u]
  /\ unstarted' = [unstarted EXCEPT ![u] = @ \ {c}]
  /\ running' = [running EXCEPT ![held[u]] = @ \cup {c}]
  /\ IF unstarted[u] = {c}
     THEN /\ stage' = [stage EXCEPT ![u] = "idle"]
          /\ held' = [held EXCEPT ![u] = None]
     ELSE UNCHANGED <<stage, held>>
  /\ UNCHANGED <<table, slotOf, stopped, slot, goal>>

-------------------------------------------------------------------------------
\* A goroutine's Stream returns on a cancelled context, or when the log ends; a
\* single stream then cancels its context itself.
End(e, c, ends) ==
  /\ c \in running[e]
  /\ ends
  /\ running' = [running EXCEPT ![e] = @ \ {c}]
  /\ stopped' = IF slotOf[e][1] = "single" THEN stopped \cup {e} ELSE stopped
  /\ UNCHANGED <<table, slotOf, callers>>

StreamDeaf(e, c) == End(e, c, FALSE)  \* faulty: the context is not looked at
StreamReturns(e, c) == End(e, c, e \in stopped)
LogEnds(e, c) == End(e, c, TRUE)

\* The four hours of the context are over.
Expire(e) ==
  /\ e \in Made \ stopped
  /\ stopped' = stopped \cup {e}
  /\ UNCHANGED <<table, slotOf, running, callers>>

LogCall(u) == Cancel(u) \/ NoClient(u) \/ RegisterStream(u) \/ \E c \in Container : StartOne(u, c)

LogNext == \/ \E u \in LogCaller : \/ \E s \in Slot, g \in {"replace", "stop"} : Begin(u, s, g)
                                   \/ LogCall(u)
           \/ \E e \in Stream, c \in Container : StreamReturns(e, c) \/ LogEnds(e, c)
           \/ \E e \in Stream : Expire(e)

LogSpec == LogInit /\ [][LogNext]_logVars

\* Goroutines and calls are scheduled; a log need not end by itself.
LogFairness ==
  /\ \A u \in LogCaller : WF_logVars(LogCall(u))
  /\ \A e \in Stream, c \in Container : WF_logVars(StreamReturns(e, c))

-------------------------------------------------------------------------------
LogTypeOK == /\ table \in [Slot -> Stream \cup {None}]
             /\ slotOf \in Seq(Slot) /\ Len(slotOf) <= MaxStreams
             /\ stopped \subseteq Made
             /\ running \in [Stream -> SUBSET Container]
             /\ stage \in [LogCaller -> {"idle", "cancel", "register", "start"}]
             /\ slot \in [LogCaller -> Slot]
             /\ held \in [LogCaller -> Stream \cup {None}]
             /\ unstarted \in [LogCaller -> SUBSET Container]
             /\ goal \in [LogCaller -> {"replace", "stop"}]

\* However the calls overlap, the youngest stream of a pod can be found and
\* stopped as long as it may emit lines: it is in its slot, or a call that has it
\* in hand is about to cancel it (stream_handler.go:65-117, 393-444).
YoungestFound == \A e \in Made :
  \/ e \in stopped
  \/ table[slotOf[e]] = e
  \/ \E u \in LogCaller : held[u] = e
  \/ \E f \in Made : f > e /\ slotOf[f] = slotOf[e]

\* Every goroutine of a stopped or replaced stream ends for good, also those
\* that a call which was overtaken by the stop starts after it (413-430).
CancelledEnds == \A e \in Stream : <>[](e \in stopped => running[e] = {})

\* stream_handler.go:71 "Cancel any existing stream for this pod
\* (namespace-scoped key)": no two streams of one slot emit lines.
OneStreamPerSlot == \A e, f \in Made :
  e # f /\ slotOf[e] = slotOf[f] /\ running[e] # {} /\ running[f] # {}
    => e \in stopped \/ f \in stopped

\* What the handler keeps of its streams, whatever overlaps.
LogSafe == LogTypeOK /\ YoungestFound
===============================================================================
