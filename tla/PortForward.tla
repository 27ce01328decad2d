------------------------------ MODULE PortForward ------------------------------
(***************************************************************************)
(* internal/stream/portforward.go and its only caller,                     *)
(* handlers/stream_handler.go.  Two tables are keyed by local port:        *)
(* PortForwardManager.forwards and StreamHandler.pfCancels, each behind a  *)
(* lock of its own.  Every forward has a lifecycle goroutine that watches  *)
(* its tunnel, its masterStop channel, its context and forced reconnects.  *)
(***************************************************************************)
EXTENDS Naturals, FiniteSets

CONSTANTS Port,         \* local ports
          NoPort,       \* of a forward not dialled yet
          Client,       \* concurrent callers of Stop, StopAll and OnSystemWake
          MaxForwards,  \* bound: StartPortForward calls in one behaviour
          MaxRetries    \* pfMaxRetries

ASSUME ForwardAssumption ==
  /\ NoPort \notin Port
  /\ MaxForwards \in Nat
  /\ MaxRetries \in Nat \ {0}

Forward   == 1..MaxForwards
NoForward == 0

VARIABLES
  forwards,                \* PortForwardManager.forwards: port -> forward or NoForward
  cancels,                 \* StreamHandler.pfCancels: port -> forward whose context it ends
  dialled,                 \* forwards dialled so far
  portOf,                  \* actualLocalPort
  starting,                \* where the forward's StartPortForward call stands
  life,                    \* where its lifecycle goroutine stands
  tunnel,                  \* its listener and stream
  status,                  \* port -> .status and .reconnectNum of the entry listed there
  attempt,                 \* the reconnect loop's counter
  masterStop,              \* masterStop is closed
  ctxDone,                 \* its context is cancelled or its 24 hours are over
  force,                   \* a signal waits in forceReconnect
  progress, scope, taken,  \* where a caller stands; its ports; its forwards
  alive                    \* external: the API server answers and the pods exist

tables  == <<forwards, cancels>>
clients == <<progress, scope, taken>>
signals == <<masterStop, ctxDone, force>>
forwardVars == <<tables, dialled, portOf, starting, life, tunnel, status, attempt, signals,
                 clients, alive>>

LifePC == {"unborn", "select", "check", "wait", "recheck", "redial", "revive",
           "stopped", "ended"}
Reconnecting == {"wait", "recheck", "redial"}
Active == 0  \* status "active"; a higher reconnectNum goes with "reconnecting"

Bound(p) == \E f \in Forward : portOf[f] = p /\ tunnel[f] \in {"open", "closing"}
Listed(f) == \E p \in Port : forwards[p] = f

-------------------------------------------------------------------------------
ForwardInit == /\ forwards = [p \in Port |-> NoForward]
               /\ cancels = [p \in Port |-> NoForward]
               /\ dialled = 0
               /\ portOf = [f \in Forward |-> NoPort]
               /\ starting = [f \in Forward |-> "no"]
               /\ life = [f \in Forward |-> "unborn"]
               /\ tunnel = [f \in Forward |-> "none"]
               /\ status = [p \in Port |-> Active]
               /\ attempt = [f \in Forward |-> 0]
               /\ masterStop = [f \in Forward |-> FALSE]
               /\ ctxDone = [f \in Forward |-> FALSE]
               /\ force = [f \in Forward |-> FALSE]
               /\ progress = [u \in Client |-> "idle"]
               /\ scope = [u \in Client |-> {}]
               /\ taken = [u \in Client |-> {}]
               /\ alive = TRUE

Jump(f, from, to) == life[f] = from /\ life' = [life EXCEPT ![f] = to]

\* setForwardStatus goes by port: it marks whichever entry is there now.
SetStatus(f, s) ==
  status' = IF forwards[portOf[f]] = NoForward THEN status
            ELSE [status EXCEPT ![portOf[f]] = s]

\* delete(m.forwards, actualLocalPort): whichever entry is there now.
DeleteEntry(f) == /\ forwards' = [forwards EXCEPT ![portOf[f]] = NoForward]
                  /\ status' = [status EXCEPT ![portOf[f]] = Active]

Stop(f) == masterStop' = [masterStop EXCEPT ![f] = TRUE]

\* close(currentStopChan), unless it is closed: an open tunnel starts to close.
CloseTunnel(f) ==
  tunnel' = [tunnel EXCEPT ![f] = IF @ = "open" THEN "closing"
                                  ELSE IF @ = "lost" THEN "none" ELSE @]

-------------------------------------------------------------------------------
\* StartPortForward: the pod is there and startSingleForward has bound a port,
\* the one asked for or, for 0, any free one.  A failed start changes nothing.
Dial(p) ==
  LET f == dialled + 1 IN
  /\ f \in Forward
  /\ alive
  /\ ~Bound(p)
  /\ dialled' = f
  /\ portOf' = [portOf EXCEPT ![f] = p]
  /\ tunnel' = [tunnel EXCEPT ![f] = "open"]
  /\ starting' = [starting EXCEPT ![f] = "register"]
  /\ UNCHANGED <<tables, life, status, attempt, signals, clients, alive>>

RegisterForward(f) ==
  /\ starting[f] = "register"
  /\ starting' = [starting EXCEPT ![f] = "publish"]
  /\ forwards' = [forwards EXCEPT ![portOf[f]] = f]
  /\ status' = [status EXCEPT ![portOf[f]] = Active]
  /\ Jump(f, "unborn", "select")
  /\ UNCHANGED <<cancels, dialled, portOf, tunnel, attempt, signals, clients, alive>>

\* The handler keeps the context's cancel function, in a second critical section.
Publish(f) ==
  /\ starting[f] = "publish"
  /\ starting' = [starting EXCEPT ![f] = "done"]
  /\ cancels' = [cancels EXCEPT ![portOf[f]] = f]
  /\ UNCHANGED <<forwards, dialled, portOf, life, tunnel, status, attempt, signals, clients, alive>>

-------------------------------------------------------------------------------
\* The lifecycle goroutine's select.  The arm for ctx leaves the tunnel alone.
SelectCtx(f) ==
  /\ ctxDone[f]
  /\ Jump(f, "select", "ended")
  /\ DeleteEntry(f)
  /\ Stop(f)
  /\ UNCHANGED <<cancels, dialled, portOf, starting, tunnel, attempt, ctxDone, force,
                 clients, alive>>

\* faulty: the arm for masterStop forgets the stop channel
SelectStopLeaks(f) ==
  /\ masterStop[f]
  /\ Jump(f, "select", "stopped")
  /\ UNCHANGED <<tables, dialled, portOf, starting, tunnel, status, attempt, signals, clients, alive>>

SelectStopDeaf(f) == FALSE  \* faulty: no arm for masterStop

SelectStop(f) ==
  /\ masterStop[f]
  /\ Jump(f, "select", "stopped")
  /\ CloseTunnel(f)
  /\ UNCHANGED <<tables, dialled, portOf, starting, status, attempt, signals, clients, alive>>

Stopped(f) ==
  /\ Jump(f, "stopped", "ended")
  /\ DeleteEntry(f)
  /\ UNCHANGED <<cancels, dialled, portOf, starting, tunnel, attempt, signals, clients, alive>>

\* forceReconnect or errChan: reconnect first frees the port.
ReconnectKeeps(f) ==  \* faulty: the old stop channel stays open
  /\ force[f] \/ tunnel[f] = "lost"
  /\ force' = [force EXCEPT ![f] = FALSE]
  /\ Jump(f, "select", "check")
  /\ UNCHANGED <<tables, dialled, portOf, starting, tunnel, status, attempt, masterStop,
                 ctxDone, clients, alive>>

Reconnect(f) ==
  /\ \/ force[f] /\ force' = [force EXCEPT ![f] = FALSE]
     \/ tunnel[f] = "lost" /\ UNCHANGED force
  /\ Jump(f, "select", "check")
  /\ CloseTunnel(f)
  /\ UNCHANGED <<tables, dialled, portOf, starting, status, attempt, masterStop,
                 ctxDone, clients, alive>>

\* podExists on the forward's own context: false once that is done.
PodExists(f) == alive /\ ~ctxDone[f]

\* Every way out of reconnect without success: the entry goes, masterStop closes.
GiveUp(f) == /\ life' = [life EXCEPT ![f] = "ended"]
             /\ DeleteEntry(f)
             /\ Stop(f)
             /\ attempt' = [attempt EXCEPT ![f] = 0]
             /\ UNCHANGED tunnel

\* The next turn of the retry loop, or the end of it.
Turn(f, n) ==
  IF n < MaxRetries
  THEN /\ life' = [life EXCEPT ![f] = "wait"]
       /\ attempt' = [attempt EXCEPT ![f] = n]
       /\ SetStatus(f, n + 1)
       /\ UNCHANGED <<forwards, masterStop, tunnel>>
  ELSE GiveUp(f)

Check(f) ==
  /\ life[f] = "check"
  /\ IF PodExists(f) THEN Turn(f, 0) ELSE GiveUp(f)
  /\ UNCHANGED <<cancels, dialled, portOf, starting, ctxDone, force, clients, alive>>

\* The backoff.  Assumed of time: it outlasts the closing of the old listener.
WaitOver(f) ==
  /\ tunnel[f] # "closing"
  /\ Jump(f, "wait", "recheck")
  /\ UNCHANGED <<tables, dialled, portOf, starting, tunnel, status, attempt, signals, clients, alive>>

WaitInterruptedKeepsEntry(f) ==  \* faulty: returns without the delete
  /\ masterStop[f] \/ ctxDone[f]
  /\ Jump(f, "wait", "ended")
  /\ Stop(f)
  /\ UNCHANGED <<tables, dialled, portOf, starting, tunnel, status, attempt, ctxDone,
                 force, clients, alive>>

WaitInterrupted(f) ==
  /\ masterStop[f] \/ ctxDone[f]
  /\ life[f] = "wait"
  /\ GiveUp(f)
  /\ UNCHANGED <<cancels, dialled, portOf, starting, ctxDone, force, clients, alive>>

Recheck(f) ==
  /\ life[f] = "recheck"
  /\ IF PodExists(f)
     THEN /\ life' = [life EXCEPT ![f] = "redial"]
          /\ UNCHANGED <<forwards, masterStop, status, attempt, tunnel>>
     ELSE GiveUp(f)
  /\ UNCHANGED <<cancels, dialled, portOf, starting, ctxDone, force, clients, alive>>

Redialled(f) ==
  /\ alive
  /\ ~Bound(portOf[f])
  /\ Jump(f, "redial", "revive")
  /\ tunnel' = [tunnel EXCEPT ![f] = "open"]
  /\ attempt' = [attempt EXCEPT ![f] = 0]
  /\ UNCHANGED <<tables, dialled, portOf, starting, status, signals, clients, alive>>

RedialFailed(f) ==
  /\ life[f] = "redial"
  /\ ~alive \/ Bound(portOf[f]) \/ ctxDone[f]
  /\ Turn(f, attempt[f] + 1)
  /\ UNCHANGED <<cancels, dialled, portOf, starting, ctxDone, force, clients, alive>>

ReviveSilently(f) ==  \* faulty: the entry's status is not reset
  /\ Jump(f, "revive", "select")
  /\ UNCHANGED <<tables, dialled, portOf, starting, tunnel, status, attempt, signals, clients, alive>>

Revive(f) ==
  /\ Jump(f, "revive", "select")
  /\ SetStatus(f, Active)
  /\ UNCHANGED <<tables, dialled, portOf, starting, tunnel, attempt, signals, clients, alive>>

-------------------------------------------------------------------------------
\* The handler's StopPortForward and StopAllPortForwards: take the entries,
\* close their masterStop, take the cancel functions, call them.
TakeEntries(u, ports) ==
  /\ progress[u] = "idle"
  /\ progress' = [progress EXCEPT ![u] = "close"]
  /\ scope' = [scope EXCEPT ![u] = ports]
  /\ taken' = [taken EXCEPT ![u] = {forwards[p] : p \in ports} \ {NoForward}]
  /\ forwards' = [p \in Port |-> IF p \in ports THEN NoForward ELSE forwards[p]]
  /\ status' = [p \in Port |-> IF p \in ports THEN Active ELSE status[p]]
  /\ UNCHANGED <<cancels, dialled, portOf, starting, life, tunnel, attempt, signals, alive>>

StopPortForward(u, p) == TakeEntries(u, {p})
StopAllPortForwards(u) == TakeEntries(u, Port)

CloseEntryForgets(u, f) ==  \* faulty: the entry's cancel is not called
  /\ progress[u] = "close"
  /\ f \in taken[u]
  /\ taken' = [taken EXCEPT ![u] = @ \ {f}]
  /\ UNCHANGED <<tables, dialled, portOf, starting, life, tunnel, status, attempt,
                 signals, progress, scope, alive>>

CloseEntry(u, f) ==
  /\ progress[u] = "close"
  /\ f \in taken[u]
  /\ taken' = [taken EXCEPT ![u] = @ \ {f}]
  /\ Stop(f)
  /\ UNCHANGED <<tables, dialled, portOf, starting, life, tunnel, status, attempt,
                 ctxDone, force, progress, scope, alive>>

TakeCancels(u) ==
  /\ progress[u] = "close" /\ taken[u] = {}
  /\ progress' = [progress EXCEPT ![u] = "cancel"]
  /\ taken' = [taken EXCEPT ![u] = {cancels[p] : p \in scope[u]} \ {NoForward}]
  /\ cancels' = [p \in Port |-> IF p \in scope[u] THEN NoForward ELSE cancels[p]]
  /\ scope' = [scope EXCEPT ![u] = {}]
  /\ UNCHANGED <<forwards, dialled, portOf, starting, life, tunnel, status, attempt,
                 signals, alive>>

CancelContext(u, f) ==
  /\ progress[u] = "cancel"
  /\ f \in taken[u]
  /\ taken' = [taken EXCEPT ![u] = @ \ {f}]
  /\ ctxDone' = [ctxDone EXCEPT ![f] = TRUE]
  /\ UNCHANGED <<tables, dialled, portOf, starting, life, tunnel, status, attempt,
                 masterStop, force, progress, scope, alive>>

\* OnSystemWake: ProbeAll snapshots the entries, then asks for one pod at a time.
ProbeAll(u) ==
  /\ progress[u] = "idle"
  /\ progress' = [progress EXCEPT ![u] = "probe"]
  /\ taken' = [taken EXCEPT ![u] = {forwards[p] : p \in Port} \ {NoForward}]
  /\ UNCHANGED <<tables, dialled, portOf, starting, life, tunnel, status, attempt,
                 signals, scope, alive>>

Probe(u, f) ==
  /\ progress[u] = "probe"
  /\ f \in taken[u]
  /\ taken' = [taken EXCEPT ![u] = @ \ {f}]
  /\ IF alive
     THEN force' = [force EXCEPT ![f] = TRUE] /\ UNCHANGED masterStop
     ELSE Stop(f) /\ UNCHANGED force
  /\ UNCHANGED <<tables, dialled, portOf, starting, life, tunnel, status, attempt,
                 ctxDone, progress, scope, alive>>

CallReturns(u) ==
  /\ progress[u] \in {"cancel", "probe"} /\ taken[u] = {}
  /\ progress' = [progress EXCEPT ![u] = "idle"]
  /\ UNCHANGED <<tables, dialled, portOf, starting, life, tunnel, status, attempt,
                 signals, scope, taken, alive>>

-------------------------------------------------------------------------------
\* External: the stream breaks and ForwardPorts returns, its listener closed; a
\* closing forwarder has closed its listener; 24 hours pass; the pod or the API
\* server goes or comes.
Lose(f) ==
  /\ tunnel[f] = "open"
  /\ tunnel' = [tunnel EXCEPT ![f] = "lost"]
  /\ UNCHANGED <<tables, dialled, portOf, starting, life, status, attempt, signals, clients, alive>>

Released(f) ==
  /\ tunnel[f] = "closing"
  /\ tunnel' = [tunnel EXCEPT ![f] = "none"]
  /\ UNCHANGED <<tables, dialled, portOf, starting, life, status, attempt, signals, clients, alive>>

ForwardExpires(f) ==
  /\ starting[f] = "done" /\ ~ctxDone[f]
  /\ ctxDone' = [ctxDone EXCEPT ![f] = TRUE]
  /\ UNCHANGED <<tables, dialled, portOf, starting, life, tunnel, status, attempt,
                 masterStop, force, clients, alive>>

Outage ==
  /\ alive' = ~alive
  /\ UNCHANGED <<tables, dialled, portOf, starting, life, tunnel, status, attempt, signals, clients>>

-------------------------------------------------------------------------------
StartForward(f) == RegisterForward(f) \/ Publish(f)

Life(f) == \/ SelectCtx(f) \/ SelectStop(f) \/ Stopped(f) \/ Reconnect(f)
           \/ Check(f) \/ WaitOver(f) \/ WaitInterrupted(f) \/ Recheck(f)
           \/ Redialled(f) \/ RedialFailed(f) \/ Revive(f)

ForwardCall(u) == \/ \E f \in Forward : CloseEntry(u, f) \/ CancelContext(u, f) \/ Probe(u, f)
                  \/ TakeCancels(u) \/ CallReturns(u)

ForwardRequest == \/ \E p \in Port : Dial(p)
                  \/ \E u \in Client : \/ \E p \in Port : StopPortForward(u, p)
                                       \/ StopAllPortForwards(u) \/ ProbeAll(u)

External(f) == Lose(f) \/ Released(f) \/ ForwardExpires(f)

ForwardNext == \/ ForwardRequest
               \/ \E f \in Forward : StartForward(f) \/ Life(f) \/ External(f)
               \/ \E u \in Client : ForwardCall(u)
               \/ Outage

ForwardSpec == ForwardInit /\ [][ForwardNext]_forwardVars

\* Goroutines are scheduled, remote calls return, a listener told to close does;
\* a select that keeps finding a closed channel takes that arm in the end.
ForwardFairness ==
  /\ \A f \in Forward : /\ WF_forwardVars(StartForward(f))
                        /\ WF_forwardVars(Life(f))
                        /\ WF_forwardVars(Released(f))
                        /\ SF_forwardVars(SelectStop(f))
                        /\ SF_forwardVars(SelectCtx(f))
  /\ \A u \in Client : WF_forwardVars(ForwardCall(u))

-------------------------------------------------------------------------------
\* The variables hold values of the code's types.
ForwardTypeOK == /\ forwards \in [Port -> Forward \cup {NoForward}]
                 /\ cancels \in [Port -> Forward \cup {NoForward}]
                 /\ dialled \in 0..MaxForwards
                 /\ portOf \in [Forward -> Port \cup {NoPort}]
                 /\ starting \in [Forward -> {"no", "register", "publish", "done"}]
                 /\ life \in [Forward -> LifePC]
                 /\ tunnel \in [Forward -> {"none", "open", "closing", "lost"}]
                 /\ status \in [Port -> 0..MaxRetries]
                 /\ attempt \in [Forward -> 0..(MaxRetries - 1)]
                 /\ masterStop \in [Forward -> BOOLEAN]
                 /\ ctxDone \in [Forward -> BOOLEAN]
                 /\ force \in [Forward -> BOOLEAN]
                 /\ progress \in [Client -> {"idle", "close", "cancel", "probe"}]
                 /\ scope \in [Client -> SUBSET Port]
                 /\ taken \in [Client -> SUBSET Forward]
                 /\ alive \in BOOLEAN

\* A listed forward has a goroutine that still runs: none of the many ways out
\* of it leaves a zombie in the list (portforward.go:192-310).
ListedRuns == \A p \in Port : forwards[p] # NoForward =>
  /\ portOf[forwards[p]] = p
  /\ life[forwards[p]] \notin {"unborn", "ended"}

\* A goroutine that retries holds no tunnel, so its own old listener is never
\* what keeps it from the port (portforward.go:188-193).
RetriesUnbound == \A f \in Forward : life[f] \in Reconnecting => tunnel[f] # "open"

\* A goroutine that ended with its context still good has closed its tunnel:
\* masterStop alone frees the port, whichever state finds it (294-305).
EndedReleases == \A f \in Forward :
  life[f] = "ended" /\ ~ctxDone[f] => tunnel[f] # "open"

\* A forward alone on its port is in the list as long as nobody stopped it.
Sole(f) == \A g \in Forward : portOf[g] = portOf[f] => g = f
Claimed(f) == \E u \in Client : progress[u] = "close" /\ f \in taken[u]
Unlisted(f) == /\ life[f] \notin {"unborn", "ended"}
               /\ ~Listed(f) /\ ~masterStop[f] /\ ~ctxDone[f] /\ ~Claimed(f)
SoleForwardListed == \A f \in Forward : Sole(f) => ~Unlisted(f)

\* The strengthening under which the properties above are inductive.
Born == \A f \in Forward :
  /\ f > dialled <=> starting[f] = "no"
  /\ life[f] = "unborn" <=> starting[f] \in {"no", "register"}
  /\ IF f > dialled THEN portOf[f] = NoPort ELSE portOf[f] \in Port

Closing == \A f \in Forward : life[f] \in {"check", "stopped"} => tunnel[f] # "open"

ForwardIInv == /\ ForwardTypeOK /\ Born /\ ListedRuns
               /\ RetriesUnbound /\ Closing /\ EndedReleases /\ SoleForwardListed

\* The status that ListPortForwards shows of a forward alone on its port is
\* what its goroutine is doing (portforward.go:54-61).
StatusTrue == \A f \in Forward : Sole(f) /\ Listed(f) =>
  /\ life[f] \in Reconnecting => status[portOf[f]] = attempt[f] + 1
  /\ life[f] \in {"select", "check"} => status[portOf[f]] = Active

\* Whoever is told to stop ends, wherever its goroutine stands.
StopEnds == \A f \in Forward : []<>(masterStop[f] \/ ctxDone[f] => life[f] = "ended")

\* A forward that lost its connection gets it back if its pod stays, its port is
\* its own and nobody stops it: the retries are enough (207-268).
Recovers == \A f \in Forward :
  life[f] = "check" ~> \/ life[f] = "select"
                       \/ ~alive \/ ~Sole(f) \/ ctxDone[f]
                       \/ masterStop[f] /\ life[f] # "ended"

\* portforward.go:26 calls cancel what "stops the port forward and reconnect
\* loop"; stream_handler.go:354 "stops all active port forwards": a forward
\* whose goroutine has ended serves no connection any more.
EndedServesNothing == \A f \in Forward : life[f] = "ended" => tunnel[f] # "open"
===============================================================================
