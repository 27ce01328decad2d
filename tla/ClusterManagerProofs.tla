------------------------- MODULE ClusterManagerProofs -------------------------
(***************************************************************************)
(* The connection manager's invariants for every set of contexts, every    *)
(* set of callers and every number of Connect calls, and its refinement of *)
(* ClusterSessions.  IInv is inductive: each step of a goroutine writes    *)
(* only its own connection, so the proof of a step is about the one        *)
(* connection it names and the map entries that can point to it.           *)
(***************************************************************************)
EXTENDS ClusterManager, TLAPS

\* Helm's context stays backed by built clients as long as contexts and client
\* bundles of existing connections are not taken back.
LEMMA HelmKept ==
  ASSUME IInv, helmContext' = helmContext,
         \A c \in 1..made : ctxOf'[c] = ctxOf[c] /\ (bundle[c] => bundle'[c])
  PROVE  HelmWasConnected'
<1> SUFFICES ASSUME helmContext # NoContext
             PROVE  \E c \in Conn : ctxOf'[c] = helmContext /\ bundle'[c]
  BY DEF HelmWasConnected
<1>1. PICK c \in Conn : ctxOf[c] = helmContext /\ bundle[c]
  BY DEF IInv, HelmWasConnected
<1>2. c \in 1..made
  BY <1>1 DEF IInv, Lives, TypeOK, Conn
<1>3. QED
  BY <1>1, <1>2

\* A new connection takes its context's place in the map and cancels the one it
\* displaces in the same critical section, so no connection is orphaned.
LEMMA ConnectStep ==
  ASSUME NEW x \in Context, IInv, Connect(x)
  PROVE  IInv'
<1> DEFINE n == made + 1
<1> USE ClusterAssumption DEF IInv, TypeOK, Conn, NoConn
<1>1. /\ n \in Conn /\ pc[n] = "unborn" /\ made' = n
      /\ connections' = [connections EXCEPT ![x] = n]
      /\ ctxOf' = [ctxOf EXCEPT ![n] = x]
      /\ state' = [state EXCEPT ![n] = "connecting"]
      /\ pc' = [pc EXCEPT ![n] = "build"]
      /\ cancelled' = [d \in Conn |-> cancelled[d] \/ d = connections[x]]
      /\ active' = x
      /\ UNCHANGED <<bundle, todo, closing, step, helmContext, up>>
  BY DEF Connect, Register, Goto, SetState, callerVars
<1>2. /\ \A y \in Context : connections[y] \in 0..made
      /\ ~cancelled[n] /\ ~bundle[n]
      /\ \A c \in Conn : c <= n => c = n \/ c \in 1..made
  <2>1. \A y \in Context : connections[y] \in 0..made
    BY DEF Tracking
  <2>2. ~cancelled[n] /\ ~bundle[n]
    BY <1>1 DEF Lives
  <2>3. QED
    BY <2>1, <2>2
<1>3. \A d \in 1..made : /\ d \in Conn /\ d # n
                         /\ pc'[d] = pc[d] /\ state'[d] = state[d] /\ ctxOf'[d] = ctxOf[d]
  BY <1>1
<1>4. TypeOK'
  BY <1>1 DEF State, Watching, PC
<1>5. Tracking'
  BY <1>1, <1>3 DEF Tracking
<1>6. Lives'
  <2> SUFFICES ASSUME NEW c \in Conn
               PROVE  /\ pc'[c] = "unborn" <=> c > made'
                      /\ IF c <= made' THEN ctxOf'[c] \in Context
                                       ELSE ~bundle'[c] /\ ~cancelled'[c]
                      /\ pc'[c] \in Watching \/ state'[c] = "connected" => bundle'[c]
                      /\ pc'[c] = "done" => cancelled'[c]
                      /\ Mapped(c)' => state'[c] = StateAt(pc'[c]) /\ (cancelled'[c] => pc'[c] = "done")
    BY DEF Lives
  <2>1. CASE c = n
    <3>1. ~cancelled'[n]
      <4>1. connections[x] # n
        BY <1>1, <1>2
      <4>2. QED
        BY <1>1, <1>2, <4>1
    <3>2. pc'[n] = "build" /\ state'[n] = "connecting" /\ ctxOf'[n] = x
      BY <1>1
    <3>3. QED
      BY <1>1, <2>1, <3>1, <3>2 DEF StateAt, Watching
  <2>2. CASE c # n
    <3>1. Mapped(c)' => Mapped(c) /\ c # connections[x]
      BY <1>1, <2>2 DEF Mapped, Tracking
    <3>2. c > n => c # connections[x]
      BY <1>1, <1>2
    <3>3. QED
      BY <1>1, <2>2, <3>1, <3>2 DEF Lives
  <2>3. QED
    BY <2>1, <2>2
<1>7. Closers'
  BY <1>1, <1>3 DEF Closers, Mapped
<1>8. NoOrphan'
  <2> SUFFICES ASSUME NEW c \in 1..n, ~cancelled'[c]
               PROVE  \/ \E y \in Context : connections'[y] = c
                      \/ \E u \in Caller : closing'[u] = c /\ step'[u] = "cancel"
    BY <1>1 DEF NoOrphan, Mapped
  <2>1. CASE c = n
    BY <1>1, <2>1
  <2>2. CASE c # n
    <3>1. c \in 1..made /\ c \in Conn
      BY <1>1, <2>2
    <3>2. ~cancelled[c] /\ c # connections[x]
      BY <1>1, <3>1
    <3>3. CASE Mapped(c)
      BY <1>1, <3>2, <3>3 DEF Mapped
    <3>4. CASE \E u \in Caller : closing[u] = c /\ step[u] = "cancel"
      BY <1>1, <3>4
    <3>5. QED
      BY <3>1, <3>2, <3>3, <3>4 DEF NoOrphan
  <2>3. QED
    BY <2>1, <2>2
<1>9. HelmWasConnected'
  BY <1>1, <1>3, HelmKept
<1>10. QED
  BY <1>4, <1>5, <1>6, <1>7, <1>8, <1>9

\* Success of buildClients, on first connecting or on reconnecting.
LEMMA BuiltStep ==
  ASSUME NEW c \in Conn, IInv, Built(c)
  PROVE  IInv'
<1> USE ClusterAssumption DEF IInv, TypeOK, Conn, NoConn, State, Watching, PC, Step,
        connVars, managerVars, callerVars, Goto, SetState
<1>1. TypeOK'
  BY DEF Built, Build
<1>2. Tracking'
  BY DEF Built, Build, Tracking, Lives
<1>3. Lives'
  BY DEF Built, Build, Tracking, Lives, Mapped, StateAt
<1>4. Closers'
  BY DEF Built, Build, Tracking, Closers, Lives, Mapped
<1>5. NoOrphan'
  BY DEF Built, Build, NoOrphan, Closers, Lives, Mapped
<1>6. HelmWasConnected'
  BY HelmKept DEF Built, Build
<1>7. QED
  BY <1>1, <1>2, <1>3, <1>4, <1>5, <1>6

\* The failures: a failed first attempt leaves an errored entry in the map, a
\* lost or unrecovered connection keeps its loop.
LEMMA FailStep ==
  ASSUME NEW c \in Conn, IInv,
         ConnectFails(c) \/ PingFailed(c) \/ RebuildFails(c)
  PROVE  IInv'
<1> USE ClusterAssumption DEF IInv, TypeOK, Conn, NoConn, State, Watching, PC, Step,
        connVars, managerVars, callerVars, Goto, SetState
<1>1. TypeOK'
  <2>1. CASE ConnectFails(c)
    BY <2>1 DEF ConnectFails
  <2>2. CASE PingFailed(c)
    BY <2>2 DEF PingFailed
  <2>3. CASE RebuildFails(c)
    BY <2>3 DEF RebuildFails, Retry
  <2>4. QED
    BY <2>1, <2>2, <2>3
<1>2. Tracking'
  <2>1. CASE ConnectFails(c)
    BY <2>1 DEF ConnectFails, Tracking, Lives
  <2>2. CASE PingFailed(c)
    BY <2>2 DEF PingFailed, Tracking, Lives
  <2>3. CASE RebuildFails(c)
    BY <2>3 DEF RebuildFails, Retry, Tracking, Lives
  <2>4. QED
    BY <2>1, <2>2, <2>3
<1>3. Lives'
  <2>1. CASE ConnectFails(c)
    BY <2>1 DEF ConnectFails, Tracking, Lives, Mapped, StateAt
  <2>2. CASE PingFailed(c)
    BY <2>2 DEF PingFailed, Tracking, Lives, Mapped, StateAt
  <2>3. CASE RebuildFails(c)
    BY <2>3 DEF RebuildFails, Retry, Tracking, Lives, Mapped, StateAt
  <2>4. QED
    BY <2>1, <2>2, <2>3
<1>4. Closers'
  <2>1. CASE ConnectFails(c)
    BY <2>1 DEF ConnectFails, Tracking, Closers, Lives, Mapped
  <2>2. CASE PingFailed(c)
    BY <2>2 DEF PingFailed, Tracking, Closers, Lives, Mapped
  <2>3. CASE RebuildFails(c)
    BY <2>3 DEF RebuildFails, Retry, Tracking, Closers, Lives, Mapped
  <2>4. QED
    BY <2>1, <2>2, <2>3
<1>5. NoOrphan'
  <2>1. CASE ConnectFails(c)
    BY <2>1 DEF ConnectFails, NoOrphan, Closers, Lives, Mapped
  <2>2. CASE PingFailed(c)
    BY <2>2 DEF PingFailed, NoOrphan, Closers, Lives, Mapped
  <2>3. CASE RebuildFails(c)
    BY <2>3 DEF RebuildFails, Retry, NoOrphan, Closers, Lives, Mapped
  <2>4. QED
    BY <2>1, <2>2, <2>3
<1>6. HelmWasConnected'
  <2>1. CASE ConnectFails(c)
    BY HelmKept, <2>1 DEF ConnectFails
  <2>2. CASE PingFailed(c)
    BY HelmKept, <2>2 DEF PingFailed
  <2>3. CASE RebuildFails(c)
    BY HelmKept, <2>3 DEF RebuildFails, Retry
  <2>4. QED
    BY <2>1, <2>2, <2>3
<1>7. QED
  BY <1>1, <1>2, <1>3, <1>4, <1>5, <1>6

\* The ends of a goroutine.
LEMMA StopStep ==
  ASSUME NEW c \in Conn, IInv,
         ConnectGivesUp(c) \/ HealthDone(c) \/ BackoffDone(c)
  PROVE  IInv'
<1> USE ClusterAssumption DEF IInv, TypeOK, Conn, NoConn, State, Watching, PC, Step,
        connVars, managerVars, callerVars, Goto, SetState
<1>1. TypeOK'
  <2>1. CASE ConnectGivesUp(c)
    BY <2>1 DEF ConnectGivesUp
  <2>2. CASE HealthDone(c)
    BY <2>2 DEF HealthDone
  <2>3. CASE BackoffDone(c)
    BY <2>3 DEF BackoffDone
  <2>4. QED
    BY <2>1, <2>2, <2>3
<1>2. Tracking'
  <2>1. CASE ConnectGivesUp(c)
    BY <2>1 DEF ConnectGivesUp, Tracking, Lives
  <2>2. CASE HealthDone(c)
    BY <2>2 DEF HealthDone, Tracking, Lives
  <2>3. CASE BackoffDone(c)
    BY <2>3 DEF BackoffDone, Tracking, Lives
  <2>4. QED
    BY <2>1, <2>2, <2>3
<1>3. Lives'
  <2>1. CASE ConnectGivesUp(c)
    BY <2>1 DEF ConnectGivesUp, Tracking, Lives, Mapped, StateAt
  <2>2. CASE HealthDone(c)
    BY <2>2 DEF HealthDone, Tracking, Lives, Mapped, StateAt
  <2>3. CASE BackoffDone(c)
    BY <2>3 DEF BackoffDone, Tracking, Lives, Mapped, StateAt
  <2>4. QED
    BY <2>1, <2>2, <2>3
<1>4. Closers'
  <2>1. CASE ConnectGivesUp(c)
    BY <2>1 DEF ConnectGivesUp, Tracking, Closers, Lives, Mapped
  <2>2. CASE HealthDone(c)
    BY <2>2 DEF HealthDone, Tracking, Closers, Lives, Mapped
  <2>3. CASE BackoffDone(c)
    BY <2>3 DEF BackoffDone, Tracking, Closers, Lives, Mapped
  <2>4. QED
    BY <2>1, <2>2, <2>3
<1>5. NoOrphan'
  <2>1. CASE ConnectGivesUp(c)
    <3>1. \A d \in Conn : ~cancelled'[d] => ~cancelled[d]
      BY <2>1 DEF ConnectGivesUp
    <3>2. UNCHANGED <<made, connections, closing, step>>
      BY <2>1 DEF ConnectGivesUp
    <3>3. \A d \in 1..made : d \in Conn
      OBVIOUS
    <3>4. \A d \in 1..made : ~cancelled'[d] =>
            Mapped(d) \/ \E u \in Caller : closing[u] = d /\ step[u] = "cancel"
      BY <3>1, <3>3 DEF NoOrphan
    <3>5. QED
      BY <3>2, <3>4 DEF NoOrphan, Mapped
  <2>2. CASE HealthDone(c)
    BY <2>2 DEF HealthDone, NoOrphan, Closers, Lives, Mapped
  <2>3. CASE BackoffDone(c)
    BY <2>3 DEF BackoffDone, NoOrphan, Closers, Lives, Mapped
  <2>4. QED
    BY <2>1, <2>2, <2>3
<1>6. HelmWasConnected'
  <2>1. CASE ConnectGivesUp(c)
    BY HelmKept, <2>1 DEF ConnectGivesUp
  <2>2. CASE HealthDone(c)
    BY HelmKept, <2>2 DEF HealthDone
  <2>3. CASE BackoffDone(c)
    BY HelmKept, <2>3 DEF BackoffDone
  <2>4. QED
    BY <2>1, <2>2, <2>3
<1>7. QED
  BY <1>1, <1>2, <1>3, <1>4, <1>5, <1>6

\* Steps of a goroutine that change nothing but where it stands, among the
\* places that go with the same visible state.
LEMMA PassStep ==
  ASSUME NEW c \in Conn, IInv,
         Announce(c) \/ HealthTick(c) \/ PingAnswered(c) \/ BackoffOver(c)
  PROVE  IInv'
<1> USE ClusterAssumption DEF IInv, TypeOK, Conn, NoConn
<1>1. /\ UNCHANGED <<managerVars, made, ctxOf, state, bundle, cancelled, callerVars, helmContext, up>>
      /\ \/ pc[c] \in {"announce", "health", "ping"} /\ pc' = [pc EXCEPT ![c] = "health"]
         \/ pc[c] = "announce" /\ pc' = [pc EXCEPT ![c] = "deliver"]
         \/ pc[c] = "health" /\ pc' = [pc EXCEPT ![c] = "ping"]
         \/ pc[c] = "backoff" /\ pc' = [pc EXCEPT ![c] = "rebuild"]
  BY DEF Announce, HealthTick, PingAnswered, BackoffOver, Goto
<1>2. TypeOK' /\ Tracking'
  BY <1>1 DEF Tracking, managerVars, callerVars, PC, Watching
<1>3. Lives'
  BY <1>1 DEF Lives, Mapped, StateAt, managerVars, PC, Watching
<1>4. Closers' /\ NoOrphan' /\ HelmWasConnected'
  BY <1>1 DEF Closers, NoOrphan, HelmWasConnected, Mapped, managerVars, callerVars
<1>5. QED
  BY <1>2, <1>3, <1>4

\* The callback points Helm at a context whose clients exist.
LEMMA DeliverStep ==
  ASSUME NEW c \in Conn, IInv, Deliver(c)
  PROVE  IInv'
<1> USE ClusterAssumption DEF IInv, TypeOK, Conn, NoConn, State, Watching, PC, Step,
        connVars, managerVars, callerVars, Goto, SetState
<1>1. TypeOK'
  BY DEF Deliver
<1>2. Tracking'
  BY DEF Deliver, Tracking, Lives
<1>3. Lives'
  BY DEF Deliver, Tracking, Lives, Mapped, StateAt
<1>4. Closers'
  BY DEF Deliver, Tracking, Closers, Lives, Mapped
<1>5. NoOrphan'
  BY DEF Deliver, NoOrphan, Closers, Lives, Mapped
<1>6. HelmWasConnected'
  BY DEF HelmWasConnected, Deliver, Lives
<1>7. QED
  BY <1>1, <1>2, <1>3, <1>4, <1>5, <1>6

\* Taking a connection out of the map hands it, still uncancelled, to the caller
\* that closes it.
LEMMA RemoveStep ==
  ASSUME NEW u \in Caller, NEW x \in Context, IInv, Remove(u, x)
  PROVE  IInv'
<1> USE ClusterAssumption DEF IInv, TypeOK, Conn, NoConn
<1>1. CASE connections[x] = NoConn
  <2>1. /\ todo' = [todo EXCEPT ![u] = @ \ {x}]
        /\ UNCHANGED <<connections, active, closing, step, made, ctxOf, state,
                       bundle, cancelled, pc, helmContext, up>>
    BY <1>1 DEF Remove, TakeOut, managerVars, connVars
  <2>2. QED
    BY <2>1 DEF Tracking, Lives, Closers, NoOrphan, HelmWasConnected, Mapped
<1>2. CASE connections[x] # NoConn
  <2> DEFINE r == connections[x]
  <2>1. /\ step[u] = "idle" /\ r \in Conn /\ r <= made
        /\ connections' = [connections EXCEPT ![x] = NoConn]
        /\ active' = IF active = x THEN NoContext ELSE active
        /\ closing' = [closing EXCEPT ![u] = r]
        /\ step' = [step EXCEPT ![u] = "cancel"]
        /\ todo' = [todo EXCEPT ![u] = @ \ {x}]
        /\ UNCHANGED <<made, ctxOf, state, bundle, cancelled, pc, helmContext, up>>
    BY <1>2 DEF Remove, TakeOut, connVars, Tracking
  <2>2. \A d \in Conn : Mapped(d)' <=> Mapped(d) /\ d # r
    BY <2>1 DEF Mapped, Tracking
  <2>3. TypeOK'
    BY <2>1 DEF Step
  <2>4. Tracking'
    BY <2>1 DEF Tracking
  <2>5. Lives'
    BY <2>1, <2>2 DEF Lives
  <2>6. Closers'
    <3> SUFFICES ASSUME NEW v \in Caller
                 PROVE  IF step'[v] = "idle" THEN closing'[v] = NoConn
                        ELSE /\ closing'[v] \in 1..made'
                             /\ \A y \in Context : connections'[y] # closing'[v]
                             /\ step'[v] = "deliver" => bundle'[closing'[v]]
      BY DEF Closers, Mapped
    <3>1. CASE v = u
      BY <2>1, <2>2, <3>1 DEF Mapped
    <3>2. CASE v # u
      BY <2>1, <2>2, <3>2 DEF Closers, Mapped
    <3>3. QED
      BY <3>1, <3>2
  <2>7. NoOrphan'
    <3> SUFFICES ASSUME NEW d \in 1..made, ~cancelled[d]
                 PROVE  Mapped(d)' \/ \E v \in Caller : closing'[v] = d /\ step'[v] = "cancel"
      BY <2>1 DEF NoOrphan, Mapped
    <3>1. CASE d = r
      BY <2>1, <3>1
    <3>2. CASE d # r /\ Mapped(d)
      BY <2>2, <3>2
    <3>3. CASE \E v \in Caller : closing[v] = d /\ step[v] = "cancel"
      BY <2>1, <3>3
    <3>4. QED
      BY <3>1, <3>2, <3>3 DEF NoOrphan
  <2>8. HelmWasConnected'
    BY <2>1, HelmKept
  <2>9. QED
    BY <2>3, <2>4, <2>5, <2>6, <2>7, <2>8
<1>3. QED
  BY <1>1, <1>2

\* The rest of DisconnectContext works on a connection that is out of the map.
LEMMA CloseStep ==
  ASSUME NEW u \in Caller, IInv, CancelClosed(u) \/ MarkClosed(u) \/ AnnounceClosed(u)
  PROVE  IInv'
<1> USE ClusterAssumption DEF IInv, TypeOK, Conn, NoConn, State, Watching, PC, Step,
        connVars, managerVars, callerVars, Goto, SetState
<1>1. TypeOK'
  <2>1. CASE CancelClosed(u)
    BY <2>1 DEF CancelClosed
  <2>2. CASE MarkClosed(u)
    BY <2>2 DEF MarkClosed
  <2>3. CASE AnnounceClosed(u)
    BY <2>3 DEF AnnounceClosed
  <2>4. QED
    BY <2>1, <2>2, <2>3
<1>2. Tracking'
  <2>1. CASE CancelClosed(u)
    BY <2>1 DEF CancelClosed, Tracking, Lives
  <2>2. CASE MarkClosed(u)
    BY <2>2 DEF MarkClosed, Tracking, Lives
  <2>3. CASE AnnounceClosed(u)
    BY <2>3 DEF AnnounceClosed, Tracking, Lives
  <2>4. QED
    BY <2>1, <2>2, <2>3
<1>3. Lives'
  <2>1. CASE CancelClosed(u)
    <3>1. closing[u] \in 1..made /\ ~Mapped(closing[u])
      BY <2>1 DEF CancelClosed, Closers
    <3>2. /\ cancelled' = [cancelled EXCEPT ![closing[u]] = TRUE]
          /\ UNCHANGED <<connections, made, ctxOf, state, bundle, pc>>
      BY <2>1 DEF CancelClosed
    <3>3. QED
      BY <3>1, <3>2 DEF Lives, Mapped
  <2>2. CASE MarkClosed(u)
    <3>1. closing[u] \in 1..made /\ ~Mapped(closing[u])
      BY <2>2 DEF MarkClosed, Closers
    <3>2. /\ state' = [state EXCEPT ![closing[u]] = "disconnected"]
          /\ UNCHANGED <<connections, made, ctxOf, bundle, cancelled, pc>>
      BY <2>2 DEF MarkClosed
    <3>3. QED
      BY <3>1, <3>2 DEF Lives, Mapped
  <2>3. CASE AnnounceClosed(u)
    BY <2>3 DEF AnnounceClosed, Tracking, Lives, Mapped, StateAt
  <2>4. QED
    BY <2>1, <2>2, <2>3
<1>4. Closers'
  <2>1. CASE CancelClosed(u)
    BY <2>1 DEF CancelClosed, Tracking, Closers, Lives, Mapped
  <2>2. CASE MarkClosed(u)
    BY <2>2 DEF MarkClosed, Tracking, Closers, Lives, Mapped
  <2>3. CASE AnnounceClosed(u)
    BY <2>3 DEF AnnounceClosed, Tracking, Closers, Lives, Mapped
  <2>4. QED
    BY <2>1, <2>2, <2>3
<1>5. NoOrphan'
  <2>1. CASE CancelClosed(u)
    <3>1. /\ cancelled' = [cancelled EXCEPT ![closing[u]] = TRUE]
          /\ UNCHANGED <<connections, made, closing>>
          /\ step[u] = "cancel" /\ step' = [step EXCEPT ![u] = "mark"]
          /\ closing[u] \in Conn
      BY <2>1 DEF CancelClosed, Closers
    <3> SUFFICES ASSUME NEW d \in 1..made, ~cancelled'[d], ~Mapped(d)
                 PROVE  \E v \in Caller : closing[v] = d /\ step'[v] = "cancel"
      BY <3>1 DEF NoOrphan, Mapped
    <3>2. d \in Conn /\ ~cancelled[d] /\ d # closing[u]
      BY <3>1
    <3>3. PICK v \in Caller : closing[v] = d /\ step[v] = "cancel"
      BY <3>2 DEF NoOrphan
    <3>4. v # u
      BY <3>2, <3>3
    <3>5. QED
      BY <3>1, <3>3, <3>4
  <2>2. CASE MarkClosed(u)
    BY <2>2 DEF MarkClosed, NoOrphan, Closers, Lives, Mapped
  <2>3. CASE AnnounceClosed(u)
    <3>1. /\ UNCHANGED <<connections, made, cancelled>>
          /\ step[u] = "announce" /\ closing[u] \in Conn
          /\ \A v \in Caller \ {u} : closing'[v] = closing[v] /\ step'[v] = step[v]
      BY <2>3 DEF AnnounceClosed, Closers
    <3>2. \A d \in 1..made : Mapped(d)' = Mapped(d)
      BY <3>1 DEF Mapped
    <3> SUFFICES ASSUME NEW d \in 1..made, ~cancelled[d], ~Mapped(d)
                 PROVE  \E v \in Caller : closing'[v] = d /\ step'[v] = "cancel"
      BY <3>1, <3>2 DEF NoOrphan
    <3>3. PICK v \in Caller : closing[v] = d /\ step[v] = "cancel"
      BY DEF NoOrphan
    <3>4. v # u
      BY <3>1, <3>3
    <3>5. QED
      BY <3>1, <3>3, <3>4
  <2>4. QED
    BY <2>1, <2>2, <2>3
<1>6. HelmWasConnected'
  <2>1. CASE CancelClosed(u)
    BY HelmKept, <2>1 DEF CancelClosed
  <2>2. CASE MarkClosed(u)
    BY HelmKept, <2>2 DEF MarkClosed
  <2>3. CASE AnnounceClosed(u)
    BY HelmKept, <2>3 DEF AnnounceClosed
  <2>4. QED
    BY <2>1, <2>2, <2>3
<1>7. QED
  BY <1>1, <1>2, <1>3, <1>4, <1>5, <1>6

\* The closing notification may still carry a connected snapshot.
LEMMA DeliverClosedStep ==
  ASSUME NEW u \in Caller, IInv, DeliverClosed(u)
  PROVE  IInv'
<1> USE ClusterAssumption DEF IInv, TypeOK, Conn, NoConn, State, Watching, PC, Step,
        connVars, managerVars, callerVars, Goto, SetState
<1>1. TypeOK'
  <2>1. closing[u] \in Conn
    BY DEF DeliverClosed, Closers
  <2>2. QED
    BY <2>1 DEF DeliverClosed
<1>2. Tracking'
  BY DEF DeliverClosed, Tracking, Lives
<1>3. Lives'
  BY DEF DeliverClosed, Tracking, Lives, Mapped, StateAt
<1>4. Closers'
  BY DEF DeliverClosed, Tracking, Closers, Lives, Mapped
<1>5. NoOrphan'
  BY DEF DeliverClosed, NoOrphan, Closers, Lives, Mapped
<1>6. HelmWasConnected'
  <2>1. closing[u] \in Conn /\ bundle[closing[u]]
    BY DEF DeliverClosed, Closers
  <2>2. QED
    BY <2>1 DEF HelmWasConnected, DeliverClosed
<1>7. QED
  BY <1>1, <1>2, <1>3, <1>4, <1>5, <1>6

\* Requests that only read or switch, and the environment, leave connections alone.
LEMMA RequestStep ==
  ASSUME IInv,
         \/ \E x \in Context : SwitchContext(x) \/ Flip(x)
         \/ \E u \in Caller : Disconnect(u) \/ Shutdown(u)
         \/ UNCHANGED vars
  PROVE  IInv'
<1> USE ClusterAssumption DEF IInv, TypeOK, Conn, NoConn
<1>1. UNCHANGED <<connections, connVars, closing, step, helmContext>>
  BY DEF SwitchContext, Flip, Disconnect, Shutdown, vars, managerVars, callerVars
<1>2. /\ TypeOK'
      /\ active' # active => connections[active'] # NoConn
  <2>1. CASE \E x \in Context : SwitchContext(x)
    BY <2>1, <1>1 DEF SwitchContext, connVars, callerVars
  <2>2. CASE \E x \in Context : Flip(x)
    BY <2>2, <1>1 DEF Flip, managerVars, connVars, callerVars
  <2>3. CASE \E u \in Caller : Disconnect(u) \/ Shutdown(u)
    <3>1. PICK u \in Caller : Disconnect(u) \/ Shutdown(u)
      BY <2>3
    <3>2. UNCHANGED <<managerVars, step, up>>
      BY <3>1 DEF Disconnect, Shutdown
    <3>3. todo' \in [Caller -> SUBSET Context]
      <4>1. CASE Disconnect(u)
        BY <4>1 DEF Disconnect
      <4>2. CASE Shutdown(u)
        BY <4>2 DEF Shutdown
      <4>3. QED
        BY <3>1, <4>1, <4>2
    <3>4. QED
      BY <1>1, <3>2, <3>3 DEF managerVars, connVars
  <2>4. CASE UNCHANGED vars
    BY <2>4, <1>1 DEF vars, managerVars, connVars, callerVars
  <2>5. QED
    BY <2>1, <2>2, <2>3, <2>4
<1>3. Tracking'
  BY <1>1, <1>2 DEF Tracking, connVars
<1>4. Lives' /\ Closers'
  BY <1>1 DEF Lives, Closers, Mapped, connVars
<1>5. NoOrphan' /\ HelmWasConnected'
  BY <1>1 DEF NoOrphan, HelmWasConnected, Mapped, connVars
<1>6. QED
  BY <1>2, <1>3, <1>4, <1>5

\* No connection escapes cancellation and no visible state contradicts the
\* goroutine that is behind it, in any execution.
THEOREM ManagerInvariant == Spec => []IInv
<1>1. Init => IInv
  BY ClusterAssumption
  DEF Init, IInv, TypeOK, Tracking, Lives, Closers, NoOrphan, HelmWasConnected,
      Mapped, Conn, NoConn, State, PC, Watching, Step
<1>2. IInv /\ [Next]_vars => IInv'
  <2> SUFFICES ASSUME IInv, [Next]_vars PROVE IInv'
    OBVIOUS
  <2>1. CASE Request
    BY <2>1, ConnectStep, RequestStep DEF Request
  <2>2. CASE \E c \in Conn : Loop(c)
    BY <2>2, BuiltStep, FailStep, StopStep, PassStep, DeliverStep DEF Loop
  <2>3. CASE \E u \in Caller : Finish(u)
    BY <2>3, RemoveStep, CloseStep, DeliverClosedStep DEF Finish
  <2>4. CASE \E x \in Context : Flip(x)
    BY <2>4, RequestStep
  <2>5. CASE UNCHANGED vars
    BY <2>5, RequestStep
  <2>6. QED
    BY <2>1, <2>2, <2>3, <2>4, <2>5 DEF Next
<1>3. QED
  BY <1>1, <1>2, PTL DEF Spec

\* Every created connection is cancelled, tracked, or about to be cancelled.
THEOREM NoConnectionEscapes == Spec => []NoOrphan
<1>1. IInv => NoOrphan
  BY DEF IInv
<1>2. QED
  BY <1>1, ManagerInvariant, PTL

\* The clients handed to a request are those of the active context, and a live
\* goroutine monitors them.
THEOREM ServedClients == Spec => []ServedClientsAreWatched
<1>1. IInv => ServedClientsAreWatched
  BY ClusterAssumption
  DEF IInv, TypeOK, Tracking, Lives, ServedClientsAreWatched, ActiveClients, Mapped,
      Conn, NoConn, StateAt, PC, Watching
<1>2. QED
  BY <1>1, ManagerInvariant, PTL

\* Helm never points at a context whose clients were never built.
THEOREM HelmBacked == Spec => []HelmWasConnected
<1>1. IInv => HelmWasConnected
  BY DEF IInv
<1>2. QED
  BY <1>1, ManagerInvariant, PTL

-------------------------------------------------------------------------------
\* A tracked context never shows as disconnected.
LEMMA VisibleView ==
  ASSUME IInv, NEW x \in Context
  PROVE  shownState[x] \in Sessions!Visible
<1>1. CASE connections[x] = NoConn
  BY <1>1 DEF shownState, Sessions!Visible
<1>2. CASE connections[x] # NoConn
  <2>1. connections[x] \in Conn /\ Mapped(connections[x])
    BY <1>2 DEF IInv, TypeOK, Mapped
  <2>2. state[connections[x]] = StateAt(pc[connections[x]])
    BY <2>1 DEF IInv, Lives
  <2>3. QED
    BY <1>2, <2>2 DEF shownState, StateAt, Sessions!Visible
<1>3. QED
  BY <1>1, <1>2

\* A step of a goroutine shows only if its connection is still tracked, and then
\* it shows as the move its place in the code stands for.
LEMMA LoopShows ==
  ASSUME NEW c \in Conn, IInv, Loop(c)
  PROVE  [Sessions!SessionNext]_(Sessions!sessionVars)
<1> USE ClusterAssumption DEF IInv, TypeOK, Conn, NoConn, Sessions!sessionVars
<1>1. /\ UNCHANGED managerVars
      /\ \A d \in Conn \ {c} : state'[d] = state[d]
      /\ \/ state'[c] = state[c]
         \/ pc[c] = "build" /\ state'[c] \in {"connected", "error"}
         \/ pc[c] = "ping" /\ state'[c] = "reconnecting"
         \/ pc[c] = "rebuild" /\ state'[c] \in {"connected", "reconnecting"}
         \/ pc[c] = "backoff" /\ cancelled[c]
  BY DEF Loop, Built, Build, ConnectFails, ConnectGivesUp, Announce, Deliver, HealthDone,
         HealthTick, PingAnswered, PingFailed, BackoffDone, BackoffOver, RebuildFails, Retry,
         Goto, SetState
<1>2. CASE ~Mapped(c) \/ state'[c] = state[c]
  <2>1. \A x \in Context : connections[x] # NoConn =>
          state'[connections[x]] = state[connections[x]]
    BY <1>1, <1>2 DEF Mapped
  <2>2. QED
    BY <1>1, <2>1 DEF shownState, managerVars
<1>3. CASE Mapped(c) /\ state'[c] # state[c]
  <2>1. PICK x \in Context : connections[x] = c
    BY <1>3 DEF Mapped
  <2>2. \A y \in Context : connections[y] = c => y = x
    <3>1. c # NoConn
      OBVIOUS
    <3>2. \A y \in Context : connections[y] = c => ctxOf[c] = y
      BY <3>1 DEF Tracking
    <3>3. QED
      BY <2>1, <3>2
  <2>3. /\ shownState[x] = state[c] /\ active' = active
        /\ shownState' = [shownState EXCEPT ![x] = state'[c]]
    <3>1. connections' = connections /\ active' = active
      BY <1>1 DEF managerVars
    <3>2. \A y \in Context \ {x} : connections[y] # NoConn =>
            state'[connections[y]] = state[connections[y]]
      BY <1>1, <2>2
    <3>3. shownState[x] = state[c]
      BY <2>1 DEF shownState
    <3>4. shownState' = [y \in Context |-> IF y = x THEN state'[c] ELSE shownState[y]]
      BY <2>1, <3>1, <3>2 DEF shownState
    <3>5. QED
      BY <3>1, <3>3, <3>4 DEF shownState
  <2>4. state[c] = StateAt(pc[c]) /\ (cancelled[c] => pc[c] = "done")
    BY <1>3 DEF Lives
  <2>5. \/ shownState[x] = "connecting" /\ state'[c] \in {"connected", "error"}
        \/ shownState[x] = "connected" /\ state'[c] = "reconnecting"
        \/ shownState[x] = "reconnecting" /\ state'[c] = "connected"
    BY <1>1, <1>3, <2>3, <2>4 DEF StateAt
  <2>6. Sessions!Settle(x) \/ Sessions!Lose(x) \/ Sessions!Regain(x)
    BY <2>3, <2>5 DEF Sessions!Settle, Sessions!Lose, Sessions!Regain, Sessions!Move
  <2>7. QED
    BY <2>6 DEF Sessions!SessionNext
<1>4. QED
  BY <1>2, <1>3

\* Of a call of DisconnectContext only the removal shows: what follows is about a
\* connection that is out of the map.
LEMMA FinishShows ==
  ASSUME NEW u \in Caller, IInv, Finish(u)
  PROVE  [Sessions!SessionNext]_(Sessions!sessionVars)
<1> USE ClusterAssumption DEF IInv, TypeOK, Conn, NoConn, Sessions!sessionVars
<1>1. ASSUME NEW x \in Context, Remove(u, x)
      PROVE  [Sessions!SessionNext]_(Sessions!sessionVars)
  <2>1. CASE connections[x] = NoConn
    BY <1>1, <2>1 DEF Remove, TakeOut, managerVars, connVars, shownState
  <2>2. CASE connections[x] # NoConn
    <3>1. /\ connections' = [connections EXCEPT ![x] = NoConn]
          /\ active' = IF active = x THEN NoContext ELSE active
          /\ state' = state
      BY <1>1, <2>2 DEF Remove, TakeOut, connVars
    <3>2. shownState[x] \in State /\ shownState' = [shownState EXCEPT ![x] = "untracked"]
      BY <2>2, <3>1 DEF shownState
    <3>3. Sessions!Close(x)
      <4>1. shownState[x] \in Sessions!Visible \ {"untracked"}
        BY <2>2, VisibleView DEF shownState, State
      <4>2. QED
        BY <3>1, <3>2, <4>1 DEF Sessions!Close, Sessions!Move
    <3>4. QED
      BY <3>3 DEF Sessions!SessionNext
  <2>3. QED
    BY <2>1, <2>2
<1>2. CASE CancelClosed(u) \/ AnnounceClosed(u) \/ DeliverClosed(u)
  BY <1>2 DEF CancelClosed, AnnounceClosed, DeliverClosed, managerVars, connVars, shownState
<1>3. CASE MarkClosed(u)
  <2>1. closing[u] \in Conn /\ ~Mapped(closing[u])
    BY <1>3 DEF MarkClosed, Closers
  <2>2. /\ UNCHANGED managerVars
        /\ \A x \in Context : connections[x] # NoConn =>
             state'[connections[x]] = state[connections[x]]
    BY <1>3, <2>1 DEF MarkClosed, SetState, Mapped
  <2>3. QED
    BY <2>2 DEF shownState, managerVars
<1>4. QED
  BY <1>1, <1>2, <1>3 DEF Finish

\* A request shows as the opening or selection of a context, or not at all.
LEMMA RequestShows ==
  ASSUME IInv, Request
  PROVE  [Sessions!SessionNext]_(Sessions!sessionVars)
<1> USE ClusterAssumption DEF IInv, TypeOK, Conn, NoConn, Sessions!sessionVars
<1>1. ASSUME NEW x \in Context, Connect(x)
      PROVE  [Sessions!SessionNext]_(Sessions!sessionVars)
  <2> DEFINE n == made + 1
  <2>1. /\ n \in Conn /\ pc[n] = "unborn"
        /\ connections' = [connections EXCEPT ![x] = n]
        /\ state' = [state EXCEPT ![n] = "connecting"]
        /\ active' = x
    BY <1>1 DEF Connect, Register, Goto, SetState
  <2>2. \A y \in Context : connections[y] # n
    <3>1. \A y \in Context : connections[y] \in 0..made
      BY DEF Tracking
    <3>2. QED
      BY <3>1
  <2>3. shownState' = [shownState EXCEPT ![x] = "connecting"]
    <3>1. shownState'[x] = "connecting" /\ \A y \in Context \ {x} : shownState'[y] = shownState[y]
      BY <2>1, <2>2 DEF shownState
    <3>2. QED
      BY <3>1 DEF shownState
  <2>4. QED
    BY <2>1, <2>3, VisibleView DEF Sessions!SessionNext, Sessions!Open, Sessions!Move
<1>2. ASSUME NEW x \in Context, SwitchContext(x)
      PROVE  [Sessions!SessionNext]_(Sessions!sessionVars)
  <2>1. shownState' = shownState /\ active' = x /\ shownState[x] # "untracked"
    BY <1>2 DEF SwitchContext, connVars, shownState, State
  <2>2. QED
    BY <2>1 DEF Sessions!SessionNext, Sessions!Select
<1>3. ASSUME NEW u \in Caller, Disconnect(u) \/ Shutdown(u)
      PROVE  [Sessions!SessionNext]_(Sessions!sessionVars)
  BY <1>3 DEF Disconnect, Shutdown, managerVars, connVars, shownState
<1>4. QED
  BY <1>1, <1>2, <1>3 DEF Request

\* The manager with all its goroutines implements ClusterSessions: late writers
\* of replaced and closed connections never show.
THEOREM ManagerImplementsSessions == Spec => ImplementsSessions
<1>1. Init => Sessions!SessionInit
  BY DEF Init, Sessions!SessionInit, shownState
<1>2. IInv /\ [Next]_vars => [Sessions!SessionNext]_(Sessions!sessionVars)
  <2> SUFFICES ASSUME IInv, [Next]_vars
               PROVE  [Sessions!SessionNext]_(Sessions!sessionVars)
    OBVIOUS
  <2>1. CASE \E x \in Context : Flip(x)
    BY <2>1 DEF Flip, managerVars, connVars, shownState, Sessions!sessionVars
  <2>2. CASE UNCHANGED vars
    BY <2>2 DEF vars, managerVars, connVars, shownState, Sessions!sessionVars
  <2>3. QED
    BY <2>1, <2>2, LoopShows, FinishShows, RequestShows DEF Next
<1>3. QED
  BY <1>1, <1>2, ManagerInvariant, PTL DEF Spec, ImplementsSessions, Sessions!SessionSpec
===============================================================================
