---------------------------- MODULE ClusterManager ----------------------------
(***************************************************************************)
(* internal/cluster/manager.go: the multi-cluster connection manager, the  *)
(* goroutines it starts and the callback that main.go hangs on it.         *)
(*                                                                         *)
(* A Connect call creates one ClusterConnection; the call, its health loop *)
(* and its reconnect loop run one after the other, so each connection has  *)
(* one program counter.  A step is a critical section of Manager.mu or of  *)
(* ClusterConnection.mu, a remote call returning, or one arm of a select.  *)
(***************************************************************************)
EXTENDS Naturals, FiniteSets

CONSTANTS Context,    \* contexts that ValidateContext accepts
          NoContext,  \* ""
          Caller,     \* concurrent callers of Disconnect and Shutdown
          MaxConns    \* bound: Connect calls in one behaviour

ASSUME ClusterAssumption ==
  /\ NoContext \notin Context
  /\ MaxConns \in Nat

Conn   == 1..MaxConns
NoConn == 0

VARIABLES
  connections,  \* Manager.connections: context -> connection or NoConn
  active,       \* Manager.active
  made,         \* connections created so far
  ctxOf,        \* ClusterConnection.Info.Context
  state,        \* ClusterConnection.State
  bundle,       \* ClusterConnection.clients # nil
  cancelled,    \* connCtx is done
  pc,           \* where Connect / healthLoop / reconnectWithBackoff stands
  todo,         \* contexts a caller is still to disconnect
  closing,      \* connection a caller has taken out of the map
  step,         \* where that caller stands in DisconnectContext
  helmContext,  \* HelmHandler.contextName
  up            \* external: which API servers answer

managerVars == <<connections, active>>
connVars    == <<made, ctxOf, state, bundle, cancelled, pc>>
callerVars  == <<todo, closing, step>>
vars == <<managerVars, connVars, callerVars, helmContext, up>>

State == {"disconnected", "connecting", "connected", "reconnecting", "error"}
Watching == {"announce", "deliver", "health", "ping", "backoff", "rebuild"}
PC == {"unborn", "build", "failed", "done"} \cup Watching
Step == {"idle", "cancel", "mark", "announce", "deliver"}

Mapped(c) == \E x \in Context : connections[x] = c

-------------------------------------------------------------------------------
Init == /\ connections = [x \in Context |-> NoConn]
        /\ active = NoContext
        /\ made = 0
        /\ ctxOf = [c \in Conn |-> NoContext]
        /\ state = [c \in Conn |-> "disconnected"]
        /\ bundle = [c \in Conn |-> FALSE]
        /\ cancelled = [c \in Conn |-> FALSE]
        /\ pc = [c \in Conn |-> "unborn"]
        /\ todo = [u \in Caller |-> {}]
        /\ closing = [u \in Caller |-> NoConn]
        /\ step = [u \in Caller |-> "idle"]
        /\ helmContext = NoContext
        /\ up \in [Context -> BOOLEAN]

Goto(c, from, to) == /\ pc[c] = from
                     /\ pc' = [pc EXCEPT ![c] = to]

SetState(c, s) == state' = [state EXCEPT ![c] = s]

\* Connect up to its unlock: cancel the connection it replaces, register the
\* new one, make it active.  The notifications of a state other than connected
\* reach a callback that ignores them, so they are no step of their own.
Register(x, replaced) ==
  LET c == made + 1 IN
  /\ c \in Conn
  /\ made' = c
  /\ connections' = [connections EXCEPT ![x] = c]
  /\ active' = x
  /\ cancelled' = [d \in Conn |-> cancelled[d] \/ d \in replaced]
  /\ ctxOf' = [ctxOf EXCEPT ![c] = x]
  /\ SetState(c, "connecting")
  /\ Goto(c, "unborn", "build")
  /\ UNCHANGED <<bundle, callerVars, helmContext, up>>

ConnectLeavesOld(x) == Register(x, {})  \* faulty: the replaced one runs on

Connect(x) == Register(x, {connections[x]})

\* buildClients answered: fields set under conn.mu.  Neither Connect nor the
\* reconnect loop looks at connCtx again before it does so.
Build(c, next) ==
  /\ pc[c] \in {"build", "rebuild"}
  /\ up[ctxOf[c]]
  /\ bundle' = [bundle EXCEPT ![c] = TRUE]
  /\ SetState(c, "connected")
  /\ pc' = [pc EXCEPT ![c] = next]
  /\ UNCHANGED <<managerVars, made, ctxOf, cancelled, callerVars, helmContext, up>>

\* faulty: the reconnect loop returns without starting a health loop
BuiltUnwatched(c) == Build(c, IF pc[c] = "build" THEN "announce" ELSE "done")

Built(c) == Build(c, "announce")

\* faulty: the callback does not look at the snapshot's state
ConnectFailsLoudly(c) ==
  /\ Goto(c, "build", "failed")
  /\ ~up[ctxOf[c]]
  /\ SetState(c, "error")
  /\ helmContext' = ctxOf[c]
  /\ UNCHANGED <<managerVars, made, ctxOf, bundle, cancelled, callerVars, up>>

ConnectFails(c) ==
  /\ Goto(c, "build", "failed")
  /\ ~up[ctxOf[c]]
  /\ SetState(c, "error")
  /\ UNCHANGED <<managerVars, made, ctxOf, bundle, cancelled, callerVars, helmContext, up>>

\* The failed Connect cancels its context and returns; the entry stays mapped.
ConnectGivesUp(c) ==
  /\ Goto(c, "failed", "done")
  /\ cancelled' = [cancelled EXCEPT ![c] = TRUE]
  /\ UNCHANGED <<managerVars, made, ctxOf, state, bundle, callerVars, helmContext, up>>

-------------------------------------------------------------------------------
\* notify: the snapshot is taken under conn.mu, the callback runs after it.
\* The callback acts only on a connected snapshot.
Announce(c) ==
  /\ Goto(c, "announce", IF state[c] = "connected" THEN "deliver" ELSE "health")
  /\ UNCHANGED <<managerVars, made, ctxOf, state, bundle, cancelled, callerVars, helmContext, up>>

Deliver(c) ==
  /\ Goto(c, "deliver", "health")
  /\ helmContext' = ctxOf[c]
  /\ UNCHANGED <<managerVars, made, ctxOf, state, bundle, cancelled, callerVars, up>>

-------------------------------------------------------------------------------
\* healthLoop's select: with both arms ready Go takes either.
HealthDone(c) ==
  /\ cancelled[c]
  /\ Goto(c, "health", "done")
  /\ UNCHANGED <<managerVars, made, ctxOf, state, bundle, cancelled, callerVars, helmContext, up>>

HealthTick(c) ==
  /\ bundle[c]
  /\ Goto(c, "health", "ping")
  /\ UNCHANGED <<managerVars, made, ctxOf, state, bundle, cancelled, callerVars, helmContext, up>>

PingAnswered(c) ==
  /\ Goto(c, "ping", "health")
  /\ up[ctxOf[c]]
  /\ UNCHANGED <<managerVars, made, ctxOf, state, bundle, cancelled, callerVars, helmContext, up>>

PingFailed(c) ==
  /\ Goto(c, "ping", "backoff")
  /\ ~up[ctxOf[c]]
  /\ SetState(c, "reconnecting")
  /\ UNCHANGED <<managerVars, made, ctxOf, bundle, cancelled, callerVars, helmContext, up>>

\* reconnectWithBackoff's select, then buildClients.
BackoffDeaf(c) == FALSE  \* faulty: the select has no arm for connCtx

BackoffDone(c) ==
  /\ cancelled[c]
  /\ Goto(c, "backoff", "done")
  /\ SetState(c, "disconnected")
  /\ UNCHANGED <<managerVars, made, ctxOf, bundle, cancelled, callerVars, helmContext, up>>

BackoffOver(c) ==
  /\ Goto(c, "backoff", "rebuild")
  /\ UNCHANGED <<managerVars, made, ctxOf, state, bundle, cancelled, callerVars, helmContext, up>>

Retry(c, next) ==
  /\ Goto(c, "rebuild", next)
  /\ ~up[ctxOf[c]]
  /\ SetState(c, "reconnecting")
  /\ UNCHANGED <<managerVars, made, ctxOf, bundle, cancelled, callerVars, helmContext, up>>

RebuildGivesUp(c) == Retry(c, "done")  \* faulty: return instead of continue

RebuildFails(c) == Retry(c, "backoff")

-------------------------------------------------------------------------------
\* Disconnect reads the active context and releases the lock before it
\* disconnects it; Shutdown does so with all the names of the map.
Idle(u) == step[u] = "idle" /\ todo[u] = {}

Disconnect(u) ==
  /\ Idle(u)
  /\ active # NoContext
  /\ todo' = [todo EXCEPT ![u] = {active}]
  /\ UNCHANGED <<managerVars, connVars, closing, step, helmContext, up>>

Shutdown(u) ==
  /\ Idle(u)
  /\ todo' = [todo EXCEPT ![u] = {x \in Context : connections[x] # NoConn}]
  /\ UNCHANGED <<managerVars, connVars, closing, step, helmContext, up>>

\* DisconnectContext: the locked part, then cancelFn, setState and notify.
TakeOut(u, x, activeLeft) ==
  /\ step[u] = "idle"
  /\ x \in todo[u]
  /\ todo' = [todo EXCEPT ![u] = @ \ {x}]
  /\ IF connections[x] = NoConn
     THEN UNCHANGED <<managerVars, closing, step>>
     ELSE /\ connections' = [connections EXCEPT ![x] = NoConn]
          /\ active' = activeLeft
          /\ closing' = [closing EXCEPT ![u] = connections[x]]
          /\ step' = [step EXCEPT ![u] = "cancel"]
  /\ UNCHANGED <<connVars, helmContext, up>>

RemoveKeepsActive(u, x) == TakeOut(u, x, active)  \* faulty: m.active stays

Remove(u, x) == TakeOut(u, x, IF active = x THEN NoContext ELSE active)

CancelClosed(u) ==
  /\ step[u] = "cancel"
  /\ step' = [step EXCEPT ![u] = "mark"]
  /\ cancelled' = [cancelled EXCEPT ![closing[u]] = TRUE]
  /\ UNCHANGED <<managerVars, made, ctxOf, state, bundle, pc, todo, closing, helmContext, up>>

MarkClosed(u) ==
  /\ step[u] = "mark"
  /\ step' = [step EXCEPT ![u] = "announce"]
  /\ SetState(closing[u], "disconnected")
  /\ UNCHANGED <<managerVars, made, ctxOf, bundle, cancelled, pc, todo, closing, helmContext, up>>

AnnounceClosed(u) ==
  /\ step[u] = "announce"
  /\ IF state[closing[u]] = "connected"
     THEN /\ step' = [step EXCEPT ![u] = "deliver"]
          /\ UNCHANGED closing
     ELSE /\ step' = [step EXCEPT ![u] = "idle"]
          /\ closing' = [closing EXCEPT ![u] = NoConn]
  /\ UNCHANGED <<managerVars, connVars, todo, helmContext, up>>

DeliverClosed(u) ==
  /\ step[u] = "deliver"
  /\ step' = [step EXCEPT ![u] = "idle"]
  /\ closing' = [closing EXCEPT ![u] = NoConn]
  /\ helmContext' = ctxOf[closing[u]]
  /\ UNCHANGED <<managerVars, connVars, todo, up>>

SwitchContext(x) ==
  /\ connections[x] # NoConn
  /\ active' = x
  /\ UNCHANGED <<connections, connVars, callerVars, helmContext, up>>

\* External: an API server becomes reachable or unreachable.
Flip(x) ==
  /\ up' = [up EXCEPT ![x] = ~@]
  /\ UNCHANGED <<managerVars, connVars, callerVars, helmContext>>

-------------------------------------------------------------------------------
Loop(c) == \/ Built(c) \/ ConnectFails(c) \/ ConnectGivesUp(c)
           \/ Announce(c) \/ Deliver(c)
           \/ HealthDone(c) \/ HealthTick(c) \/ PingAnswered(c) \/ PingFailed(c)
           \/ BackoffDone(c) \/ BackoffOver(c) \/ RebuildFails(c)

Finish(u) == \/ \E x \in Context : Remove(u, x)
             \/ CancelClosed(u) \/ MarkClosed(u)
             \/ AnnounceClosed(u) \/ DeliverClosed(u)

Request == \/ \E x \in Context : Connect(x) \/ SwitchContext(x)
           \/ \E u \in Caller : Disconnect(u) \/ Shutdown(u)

Next == \/ Request
        \/ \E c \in Conn : Loop(c)
        \/ \E u \in Caller : Finish(u)
        \/ \E x \in Context : Flip(x)

Spec == Init /\ [][Next]_vars

\* Goroutines are scheduled and client-go bounds every remote call; a select
\* that keeps finding connCtx done takes that arm in the end, since Go picks
\* among the ready arms at random.  Callers owe nothing but to finish.
Fairness == /\ \A c \in Conn : /\ WF_vars(Loop(c))
                               /\ SF_vars(HealthDone(c))
                               /\ SF_vars(BackoffDone(c))
            /\ \A u \in Caller : WF_vars(Finish(u))

-------------------------------------------------------------------------------
\* The variables hold values of the code's types.
TypeOK == /\ connections \in [Context -> Conn \cup {NoConn}]
          /\ active \in Context \cup {NoContext}
          /\ made \in 0..MaxConns
          /\ ctxOf \in [Conn -> Context \cup {NoContext}]
          /\ state \in [Conn -> State]
          /\ bundle \in [Conn -> BOOLEAN]
          /\ cancelled \in [Conn -> BOOLEAN]
          /\ pc \in [Conn -> PC]
          /\ todo \in [Caller -> SUBSET Context]
          /\ closing \in [Caller -> Conn \cup {NoConn}]
          /\ step \in [Caller -> Step]
          /\ helmContext \in Context \cup {NoContext}
          /\ up \in [Context -> BOOLEAN]

\* The connection whose clients ActiveClients returns, or NoConn (an error).
ActiveClients ==
  IF active = NoContext THEN NoConn
  ELSE LET c == connections[active] IN
       IF c # NoConn /\ state[c] = "connected" /\ bundle[c] THEN c ELSE NoConn

\* No connection escapes cancellation: whoever was created and is not yet
\* cancelled can still be found in the map, or a caller that took it out of the
\* map holds it and is about to cancel it (manager.go:107-114, 321-333).
NoOrphan == \A c \in 1..made :
  ~cancelled[c] => \/ Mapped(c)
                   \/ \E u \in Caller : closing[u] = c /\ step[u] = "cancel"

\* The clients a request gets belong to the active context, and a goroutine
\* that has not been told to stop watches over them (manager.go:93, 362-380).
ServedClientsAreWatched ==
  ActiveClients # NoConn => /\ ctxOf[ActiveClients] = active
                            /\ pc[ActiveClients] \in Watching
                            /\ ~cancelled[ActiveClients]

\* Helm is only ever pointed at a context for which clients have been built
\* (main.go:123-127): never at one that merely failed or is connecting.
HelmWasConnected ==
  helmContext # NoContext => \E c \in Conn : ctxOf[c] = helmContext /\ bundle[c]

\* The strengthening under which the properties above are inductive: a tracked
\* connection's state is the one its goroutine last wrote, it is not cancelled
\* while that goroutine runs, and a connection a caller is closing is out of
\* the map for good.
StateAt(p) == CASE p = "build" -> "connecting"
                [] p \in {"announce", "deliver", "health", "ping"} -> "connected"
                [] p \in {"backoff", "rebuild"} -> "reconnecting"
                [] OTHER -> "error"

Tracking == /\ \A x \in Context : connections[x] # NoConn =>
                 connections[x] <= made /\ ctxOf[connections[x]] = x
            /\ active # NoContext => connections[active] # NoConn

Lives == \A c \in Conn :
  /\ pc[c] = "unborn" <=> c > made
  /\ IF c <= made THEN ctxOf[c] \in Context ELSE ~bundle[c] /\ ~cancelled[c]
  /\ pc[c] \in Watching \/ state[c] = "connected" => bundle[c]
  /\ pc[c] = "done" => cancelled[c]
  /\ Mapped(c) => state[c] = StateAt(pc[c]) /\ (cancelled[c] => pc[c] = "done")

Closers == \A u \in Caller :
  IF step[u] = "idle" THEN closing[u] = NoConn
  ELSE /\ closing[u] \in 1..made
       /\ ~Mapped(closing[u])
       /\ step[u] = "deliver" => bundle[closing[u]]

IInv == TypeOK /\ Tracking /\ Lives /\ Closers /\ NoOrphan /\ HelmWasConnected

\* What a caller sees of each context: the state of the tracked connection.
shownState == [x \in Context |-> IF connections[x] = NoConn THEN "untracked"
                                 ELSE state[connections[x]]]

Sessions == INSTANCE ClusterSessions WITH view <- shownState

\* The manager implements the promised sessions: the visible state of a context
\* never goes from one state to another that the promise does not connect,
\* whatever late goroutines of replaced or closed connections still write, and
\* the active context is always a tracked one.
ImplementsSessions == Sessions!SessionSpec

\* Every goroutine of a cancelled connection ends (manager.go:230, 284).
CancelledStops == \A c \in Conn : []<>(cancelled[c] => pc[c] = "done")

\* A connection that stays tracked while its server stays reachable ends up
\* connected, however often it was lost before, unless its first attempt had
\* failed, after which nothing retries it (manager.go:93, 119-124, 266-318).
RecoversWhenUp == \A c \in Conn :
  <>[](Mapped(c) /\ up[ctxOf[c]]) => <>[](state[c] \in {"connected", "error"})
===============================================================================
