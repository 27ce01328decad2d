--------------------------- MODULE PortForwardProofs ---------------------------
(***************************************************************************)
(* The port-forward tables, for every set of ports and callers, any number *)
(* of forwards and of retries.  A step belongs to one goroutine (LifeParts *)
(* says what it has to respect), to a starting call, or to a caller or the *)
(* environment, which move no goroutine (OutsideParts).                    *)
(***************************************************************************)
EXTENDS PortForward, TLAPS

Parts == Born /\ ListedRuns /\ RetriesUnbound /\ Closing /\ EndedReleases /\ SoleForwardListed

LEMMA InvIsParts == ForwardIInv <=> ForwardTypeOK /\ Parts
BY DEF ForwardIInv, Parts

LEMMA ResetStatus ==
  ASSUME NEW T, NEW r \in [Port -> T], Active \in T, NEW p
  PROVE  [r EXCEPT ![p] = Active] \in [Port -> T]
OBVIOUS

LEMMA ActiveIsStatus == Active \in 0..MaxRetries
BY ForwardAssumption DEF Active

\* Deleting by port takes no entry from a forward that is alone on its port.
LEMMA DeleteSparesSole ==
  ASSUME NEW f \in Forward, NEW g \in Forward, ForwardIInv, Sole(g), f # g, Listed(g),
         forwards' = [forwards EXCEPT ![portOf[f]] = NoForward]
  PROVE  Listed(g)'
<1>1. PICK p \in Port : forwards[p] = g
  BY DEF Listed
<1>2. portOf[g] = p /\ portOf[f] # p
  BY <1>1 DEF ForwardIInv, ListedRuns, Sole, Forward, NoForward
<1>3. forwards'[p] = g
  BY <1>1, <1>2 DEF ForwardIInv, ForwardTypeOK
<1>4. QED
  BY <1>3 DEF Listed

\* A goroutine moves from one place to another: it deletes its port's entry
\* exactly when it ends, and it is at no tunnel where it must not be.
LEMMA LifeParts ==
  ASSUME ForwardIInv, NEW f \in Forward, NEW q \in LifePC \ {"unborn"},
         life[f] \notin {"unborn", "ended"},
         life' = [life EXCEPT ![f] = q],
         UNCHANGED <<dialled, portOf, starting, ctxDone, progress, taken>>,
         \A g \in Forward \ {f} : tunnel'[g] = tunnel[g],
         \A g \in Forward : masterStop[g] => masterStop'[g],
         IF q = "ended"
         THEN /\ forwards' = [forwards EXCEPT ![portOf[f]] = NoForward]
              /\ ctxDone[f] \/ tunnel'[f] # "open"
         ELSE forwards' = forwards,
         q \in Reconnecting \cup {"check", "stopped"} => tunnel'[f] # "open"
  PROVE  Parts'
<1> USE DEF ForwardIInv, ForwardTypeOK
<1>1. Born'
  BY DEF Born, Forward
<1>2. ListedRuns'
  <2> SUFFICES ASSUME NEW p \in Port, forwards'[p] # NoForward
               PROVE  /\ portOf[forwards'[p]] = p
                      /\ life'[forwards'[p]] \notin {"unborn", "ended"}
    BY DEF ListedRuns
  <2>1. forwards'[p] = forwards[p] /\ forwards[p] \in Forward
    OBVIOUS
  <2>2. forwards[p] = f => q # "ended"
    <3>1. forwards[p] = f => portOf[f] = p
      BY <2>1 DEF ListedRuns
    <3>2. QED
      BY <3>1, <2>1
  <2>3. QED
    BY <2>1, <2>2 DEF ListedRuns
<1>3. RetriesUnbound' /\ Closing' /\ EndedReleases'
  BY DEF RetriesUnbound, Closing, EndedReleases
<1>4. SoleForwardListed'
  <2> SUFFICES ASSUME NEW g \in Forward, Sole(g), life'[g] \notin {"unborn", "ended"},
                      ~masterStop'[g], ~ctxDone[g], ~Claimed(g)
               PROVE  Listed(g)'
    BY DEF SoleForwardListed, Sole, Unlisted, Claimed
  <2>1. life[g] \notin {"unborn", "ended"} /\ ~masterStop[g]
    OBVIOUS
  <2>2. Listed(g)
    BY <2>1 DEF SoleForwardListed, Unlisted
  <2>3. CASE q = "ended"
    BY <2>2, <2>3, DeleteSparesSole
  <2>4. CASE q # "ended"
    BY <2>2, <2>4 DEF Listed
  <2>5. QED
    BY <2>3, <2>4
<1>5. QED
  BY <1>1, <1>2, <1>3, <1>4 DEF Parts

\* A step that moves no goroutine opens no tunnel and unlists nobody unnoticed.
LEMMA OutsideParts ==
  ASSUME ForwardIInv, UNCHANGED <<dialled, portOf, starting, life>>,
         \A g \in Forward : tunnel'[g] = "open" => tunnel[g] = "open",
         \A g \in Forward : ctxDone[g] => ctxDone'[g],
         \A p \in Port : forwards'[p] \in {forwards[p], NoForward},
         \A g \in Forward : Unlisted(g)' => Unlisted(g)
  PROVE  Parts'
<1> USE DEF ForwardIInv, ForwardTypeOK
<1>1. Born'
  BY DEF Born
<1>2. ListedRuns'
  BY DEF ListedRuns
<1>3. RetriesUnbound' /\ Closing' /\ EndedReleases'
  BY DEF RetriesUnbound, Closing, EndedReleases
<1>4. SoleForwardListed'
  BY DEF SoleForwardListed, Sole
<1>5. QED
  BY <1>1, <1>2, <1>3, <1>4 DEF Parts

-------------------------------------------------------------------------------
LEMMA DialStep ==
  ASSUME ForwardIInv, NEW p \in Port, Dial(p)
  PROVE  ForwardIInv'
<1> DEFINE n == dialled + 1
<1> USE ForwardAssumption DEF ForwardIInv, ForwardTypeOK, Forward, tables, signals, clients
<1>1. /\ n \in Forward /\ dialled' = n /\ portOf' = [portOf EXCEPT ![n] = p]
      /\ tunnel' = [tunnel EXCEPT ![n] = "open"]
      /\ starting' = [starting EXCEPT ![n] = "register"]
      /\ UNCHANGED <<tables, life, status, attempt, signals, clients, alive>>
  BY DEF Dial
<1>2. life[n] = "unborn" /\ portOf[n] = NoPort
  BY <1>1 DEF Born
<1>3. ForwardTypeOK'
  BY <1>1
<1>4. Born'
  BY <1>1, <1>2 DEF Born
<1>5. ListedRuns'
  BY <1>1, <1>2 DEF ListedRuns, NoForward
<1>6. RetriesUnbound' /\ Closing' /\ EndedReleases'
  BY <1>1, <1>2 DEF RetriesUnbound, Closing, EndedReleases, Reconnecting
<1>7. SoleForwardListed'
  <2> SUFFICES ASSUME NEW g \in Forward, Sole(g)', Unlisted(g)
               PROVE  FALSE
    BY <1>1 DEF SoleForwardListed, Unlisted, Listed, Claimed
  <2>1. g <= dialled /\ portOf[g] \in Port
    BY DEF Unlisted, Born
  <2>2. Sole(g)
    BY <1>1, <1>2, <2>1 DEF Sole
  <2>3. QED
    BY <2>2 DEF SoleForwardListed
<1>8. QED
  BY <1>3, <1>4, <1>5, <1>6, <1>7

\* The new entry may displace another, but none that was alone on its port.
LEMMA RegisterStep ==
  ASSUME ForwardIInv, NEW f \in Forward, RegisterForward(f)
  PROVE  ForwardIInv'
<1> USE ForwardAssumption DEF ForwardIInv, ForwardTypeOK, tables, signals, clients
<1>1. /\ starting[f] = "register" /\ life[f] = "unborn"
      /\ starting' = [starting EXCEPT ![f] = "publish"]
      /\ forwards' = [forwards EXCEPT ![portOf[f]] = f]
      /\ life' = [life EXCEPT ![f] = "select"]
      /\ status' = [status EXCEPT ![portOf[f]] = Active]
      /\ UNCHANGED <<cancels, dialled, portOf, tunnel, attempt, signals, clients, alive>>
  BY DEF RegisterForward, Jump
<1>2. portOf[f] \in Port /\ f <= dialled
  BY <1>1 DEF Born, Forward
<1>3. ForwardTypeOK'
  BY <1>1, <1>2 DEF LifePC, Active
<1>4. Born'
  BY <1>1, <1>2 DEF Born, Forward
<1>5. ListedRuns'
  BY <1>1, <1>2 DEF ListedRuns, Forward, NoForward
<1>6. RetriesUnbound' /\ Closing' /\ EndedReleases'
  BY <1>1 DEF RetriesUnbound, Closing, EndedReleases, Reconnecting
<1>7. SoleForwardListed'
  <2> SUFFICES ASSUME NEW g \in Forward, Sole(g), life'[g] \notin {"unborn", "ended"},
                      ~masterStop[g], ~ctxDone[g], ~Claimed(g)
               PROVE  \E p \in Port : forwards'[p] = g
    BY <1>1 DEF SoleForwardListed, Sole, Unlisted, Claimed, Listed
  <2>1. CASE g = f
    BY <1>1, <1>2, <2>1
  <2>2. CASE g # f
    <3>1. Listed(g)
      BY <1>1, <2>2 DEF SoleForwardListed, Unlisted
    <3>2. PICK p \in Port : forwards[p] = g
      BY <3>1 DEF Listed
    <3>3. portOf[g] # portOf[f]
      BY <2>2 DEF Sole
    <3>4. portOf[g] = p
      <4>1. forwards[p] # NoForward
        BY <3>2 DEF Forward, NoForward
      <4>2. QED
        BY <3>2, <4>1 DEF ListedRuns
    <3>5. QED
      BY <1>1, <3>2, <3>3, <3>4
  <2>3. QED
    BY <2>1, <2>2
<1>8. QED
  BY <1>3, <1>4, <1>5, <1>6, <1>7

LEMMA PublishStep ==
  ASSUME ForwardIInv, NEW f \in Forward, Publish(f)
  PROVE  ForwardIInv'
<1> USE ForwardAssumption DEF ForwardIInv, ForwardTypeOK, tables, signals, clients
<1>1. /\ starting[f] = "publish"
      /\ starting' = [starting EXCEPT ![f] = "done"]
      /\ cancels' = [cancels EXCEPT ![portOf[f]] = f]
      /\ UNCHANGED <<forwards, dialled, portOf, life, tunnel, status, attempt, signals, clients, alive>>
  BY DEF Publish
<1>2. ForwardTypeOK'
  BY <1>1
<1>3. Born'
  BY <1>1 DEF Born
<1>4. ListedRuns' /\ RetriesUnbound' /\ Closing' /\ EndedReleases'
  BY <1>1 DEF ListedRuns, RetriesUnbound, Closing, EndedReleases
<1>5. SoleForwardListed'
  BY <1>1 DEF SoleForwardListed, Sole, Unlisted, Listed, Claimed
<1>6. QED
  BY <1>2, <1>3, <1>4, <1>5

-------------------------------------------------------------------------------
\* The arms of the lifecycle select, and what follows the one for masterStop.
LEMMA SelectStep ==
  ASSUME ForwardIInv, NEW f \in Forward,
         SelectCtx(f) \/ SelectStop(f) \/ Stopped(f) \/ Reconnect(f)
  PROVE  ForwardIInv'
<1> USE DEF ForwardIInv, ForwardTypeOK, LifePC, tables, signals, clients, Jump, DeleteEntry, Stop, CloseTunnel
<1>1. CASE SelectCtx(f)
  <2>1. ForwardTypeOK'
    <3>1. status' \in [Port -> 0..MaxRetries]
      BY <1>1, ResetStatus, ActiveIsStatus DEF SelectCtx
    <3>2. QED
      BY <1>1, <3>1 DEF SelectCtx
  <2>2. Parts'
    BY <1>1, LifeParts DEF SelectCtx, Reconnecting
  <2>3. QED
    BY <2>1, <2>2 DEF Parts
<1>2. CASE SelectStop(f)
  <2>1. ForwardTypeOK'
    BY <1>2 DEF SelectStop
  <2>2. Parts'
    BY <1>2, LifeParts DEF SelectStop, Reconnecting
  <2>3. QED
    BY <2>1, <2>2 DEF Parts
<1>3. CASE Stopped(f)
  <2>1. ForwardTypeOK'
    <3>1. status' \in [Port -> 0..MaxRetries]
      BY <1>3, ResetStatus, ActiveIsStatus DEF Stopped
    <3>2. QED
      BY <1>3, <3>1 DEF Stopped
  <2>2. Parts'
    BY <1>3, LifeParts DEF Stopped, Reconnecting, Closing
  <2>3. QED
    BY <2>1, <2>2 DEF Parts
<1>4. CASE Reconnect(f)
  <2>1. ForwardTypeOK'
    BY <1>4 DEF Reconnect
  <2>2. Parts'
    BY <1>4, LifeParts DEF Reconnect, Reconnecting
  <2>3. QED
    BY <2>1, <2>2 DEF Parts
<1>5. QED
  BY <1>1, <1>2, <1>3, <1>4

\* Giving up, from any place where the goroutine holds no open tunnel.
LEMMA GiveUpStep ==
  ASSUME ForwardIInv, NEW f \in Forward, life[f] \in Reconnecting \cup {"check"}, GiveUp(f),
         UNCHANGED <<cancels, dialled, portOf, starting, ctxDone, force, clients, alive>>
  PROVE  ForwardIInv'
<1> USE ForwardAssumption DEF ForwardIInv, ForwardTypeOK, LifePC, clients, DeleteEntry, Stop
<1>1. ForwardTypeOK'
  <2>1. forwards' \in [Port -> Forward \cup {NoForward}]
    BY DEF GiveUp
  <2>2. status' \in [Port -> 0..MaxRetries]
    BY ResetStatus, ActiveIsStatus DEF GiveUp
  <2>3. attempt' \in [Forward -> 0..(MaxRetries - 1)]
    BY DEF GiveUp
  <2>4. life' \in [Forward -> LifePC] /\ masterStop' \in [Forward -> BOOLEAN]
    BY DEF GiveUp
  <2>5. QED
    BY <2>1, <2>2, <2>3, <2>4 DEF GiveUp
<1>2. Parts'
  <2>1. tunnel[f] # "open"
    BY DEF RetriesUnbound, Closing
  <2>2. QED
    BY <2>1, LifeParts DEF GiveUp, Reconnecting
<1>3. QED
  BY <1>1, <1>2 DEF Parts

\* The next turn of the retry loop starts a wait or gives up.
LEMMA TurnStep ==
  ASSUME ForwardIInv, NEW f \in Forward, life[f] \in Reconnecting \cup {"check"},
         NEW n \in Nat, Turn(f, n),
         UNCHANGED <<cancels, dialled, portOf, starting, ctxDone, force, clients, alive>>
  PROVE  ForwardIInv'
<1> USE ForwardAssumption DEF ForwardIInv, ForwardTypeOK, LifePC, clients, SetStatus
<1>1. CASE n < MaxRetries
  <2>1. /\ life' = [life EXCEPT ![f] = "wait"]
        /\ attempt' = [attempt EXCEPT ![f] = n]
        /\ UNCHANGED <<forwards, masterStop, tunnel>>
    BY <1>1 DEF Turn
  <2>2. status' \in [Port -> 0..MaxRetries]
    BY <1>1 DEF Turn
  <2>3. ForwardTypeOK'
    BY <1>1, <2>1, <2>2
  <2>4. Parts'
    <3>1. tunnel[f] # "open"
      BY DEF RetriesUnbound, Closing
    <3>2. QED
      BY <2>1, <3>1, LifeParts DEF Reconnecting
  <2>5. QED
    BY <2>3, <2>4 DEF Parts
<1>2. CASE ~(n < MaxRetries)
  BY <1>2, GiveUpStep DEF Turn
<1>3. QED
  BY <1>1, <1>2

LEMMA RetryStep ==
  ASSUME ForwardIInv, NEW f \in Forward,
         \/ Check(f) \/ WaitOver(f) \/ WaitInterrupted(f) \/ Recheck(f)
         \/ Redialled(f) \/ RedialFailed(f) \/ Revive(f)
  PROVE  ForwardIInv'
<1> USE ForwardAssumption DEF Jump, Reconnecting
<1>1. CASE Check(f)
  BY <1>1, TurnStep, GiveUpStep DEF Check
<1>2. CASE WaitOver(f)
  <2>1. ForwardTypeOK'
    BY <1>2 DEF WaitOver, ForwardIInv, ForwardTypeOK, LifePC, tables, signals, clients
  <2>2. Parts'
    BY <1>2, LifeParts DEF WaitOver, ForwardIInv, ForwardTypeOK, LifePC, tables, signals, clients, RetriesUnbound
  <2>3. QED
    BY <2>1, <2>2, InvIsParts DEF ForwardIInv, Parts
<1>3. CASE WaitInterrupted(f)
  BY <1>3, GiveUpStep DEF WaitInterrupted
<1>4. CASE Recheck(f)
  <2>1. CASE PodExists(f)
    <3>1. ForwardTypeOK'
      BY <1>4, <2>1 DEF Recheck, ForwardIInv, ForwardTypeOK, LifePC, clients
    <3>2. Parts'
      BY <1>4, <2>1, LifeParts DEF Recheck, ForwardIInv, ForwardTypeOK, LifePC, clients, RetriesUnbound
    <3>3. QED
      BY <3>1, <3>2 DEF ForwardIInv, Parts
  <2>2. CASE ~PodExists(f)
    BY <1>4, <2>2, GiveUpStep DEF Recheck
  <2>3. QED
    BY <2>1, <2>2
<1>5. CASE Redialled(f)
  <2>1. ForwardTypeOK'
    BY <1>5 DEF Redialled, ForwardIInv, ForwardTypeOK, LifePC, tables, signals, clients
  <2>2. Parts'
    BY <1>5, LifeParts DEF Redialled, ForwardIInv, ForwardTypeOK, LifePC, tables, signals, clients
  <2>3. QED
    BY <2>1, <2>2 DEF ForwardIInv, Parts
<1>6. CASE RedialFailed(f)
  <2>1. attempt[f] + 1 \in Nat
    BY DEF ForwardIInv, ForwardTypeOK
  <2>2. QED
    BY <1>6, <2>1, TurnStep DEF RedialFailed
<1>7. CASE Revive(f)
  <2>1. ForwardTypeOK'
    <3>1. status' \in [Port -> 0..MaxRetries]
      BY <1>7, ResetStatus, ActiveIsStatus DEF Revive, SetStatus, ForwardIInv, ForwardTypeOK
    <3>2. QED
      BY <1>7, <3>1 DEF Revive, ForwardIInv, ForwardTypeOK, LifePC, tables, signals, clients
  <2>2. Parts'
    BY <1>7, LifeParts DEF Revive, ForwardIInv, ForwardTypeOK, LifePC, tables, signals, clients
  <2>3. QED
    BY <2>1, <2>2 DEF ForwardIInv, Parts
<1>8. QED
  BY <1>1, <1>2, <1>3, <1>4, <1>5, <1>6, <1>7

-------------------------------------------------------------------------------
\* A caller that takes entries out claims each of them until its stop is closed.
LEMMA TakeStep ==
  ASSUME ForwardIInv, NEW u \in Client, NEW ports \in SUBSET Port, TakeEntries(u, ports)
  PROVE  ForwardIInv'
<1> USE DEF ForwardIInv, ForwardTypeOK, signals
<1>1. /\ progress[u] = "idle"
      /\ progress' = [progress EXCEPT ![u] = "close"]
      /\ scope' = [scope EXCEPT ![u] = ports]
      /\ taken' = [taken EXCEPT ![u] = {forwards[p] : p \in ports} \ {NoForward}]
      /\ forwards' = [p \in Port |-> IF p \in ports THEN NoForward ELSE forwards[p]]
      /\ status' = [p \in Port |-> IF p \in ports THEN Active ELSE status[p]]
      /\ UNCHANGED <<cancels, dialled, portOf, starting, life, tunnel, attempt, signals, alive>>
  BY DEF TakeEntries
<1>2. ForwardTypeOK'
  BY <1>1, ForwardAssumption DEF Active
<1>3. ASSUME NEW g \in Forward, Unlisted(g)'
      PROVE  Unlisted(g)
  <2>1. ASSUME NEW p \in Port, forwards[p] = g
        PROVE  FALSE
    <3>1. CASE p \in ports
      <4>1. g \in taken'[u] /\ progress'[u] = "close"
        BY <1>1, <2>1, <3>1 DEF Forward, NoForward
      <4>2. QED
        BY <1>3, <4>1 DEF Unlisted, Claimed
    <3>2. CASE p \notin ports
      BY <1>1, <1>3, <2>1, <3>2 DEF Unlisted, Listed
    <3>3. QED
      BY <3>1, <3>2
  <2>2. ~Claimed(g)
    BY <1>1, <1>3 DEF Unlisted, Claimed
  <2>3. QED
    BY <1>1, <1>3, <2>1, <2>2 DEF Unlisted, Listed
<1>4. Parts'
  BY <1>1, <1>3, OutsideParts
<1>5. QED
  BY <1>2, <1>4 DEF Parts

LEMMA CallStep ==
  ASSUME ForwardIInv, NEW u \in Client, ForwardCall(u) \/ ProbeAll(u)
  PROVE  ForwardIInv'
<1> USE DEF ForwardIInv, ForwardTypeOK, tables, signals, clients, Stop
<1>1. ASSUME NEW f \in Forward, CloseEntry(u, f)
      PROVE  ForwardIInv'
  <2>1. ForwardTypeOK'
    BY <1>1 DEF CloseEntry
  <2>2. \A g \in Forward : Unlisted(g)' => Unlisted(g)
    BY <1>1 DEF CloseEntry, Unlisted, Listed, Claimed
  <2>3. Parts'
    BY <1>1, <2>2, OutsideParts DEF CloseEntry
  <2>4. QED
    BY <2>1, <2>3 DEF Parts
<1>2. ASSUME NEW f \in Forward, CancelContext(u, f)
      PROVE  ForwardIInv'
  <2>1. ForwardTypeOK'
    BY <1>2 DEF CancelContext
  <2>2. \A g \in Forward : Unlisted(g)' => Unlisted(g)
    BY <1>2 DEF CancelContext, Unlisted, Listed, Claimed
  <2>3. Parts'
    BY <1>2, <2>2, OutsideParts DEF CancelContext
  <2>4. QED
    BY <2>1, <2>3 DEF Parts
<1>3. ASSUME NEW f \in Forward, Probe(u, f)
      PROVE  ForwardIInv'
  <2>1. ForwardTypeOK'
    BY <1>3 DEF Probe
  <2>2. \A g \in Forward : Unlisted(g)' => Unlisted(g)
    BY <1>3 DEF Probe, Unlisted, Listed, Claimed
  <2>3. Parts'
    BY <1>3, <2>2, OutsideParts DEF Probe
  <2>4. QED
    BY <2>1, <2>3 DEF Parts
<1>4. CASE TakeCancels(u)
  <2>1. ForwardTypeOK'
    BY <1>4 DEF TakeCancels
  <2>2. \A g \in Forward : Unlisted(g)' => Unlisted(g)
    BY <1>4 DEF TakeCancels, Unlisted, Listed, Claimed
  <2>3. Parts'
    BY <1>4, <2>2, OutsideParts DEF TakeCancels
  <2>4. QED
    BY <2>1, <2>3 DEF Parts
<1>5. CASE CallReturns(u)
  <2>1. ForwardTypeOK'
    BY <1>5 DEF CallReturns
  <2>2. \A g \in Forward : Unlisted(g)' => Unlisted(g)
    BY <1>5 DEF CallReturns, Unlisted, Listed, Claimed
  <2>3. Parts'
    BY <1>5, <2>2, OutsideParts DEF CallReturns
  <2>4. QED
    BY <2>1, <2>3 DEF Parts
<1>6. CASE ProbeAll(u)
  <2>1. ForwardTypeOK'
    BY <1>6 DEF ProbeAll
  <2>2. \A g \in Forward : Unlisted(g)' => Unlisted(g)
    BY <1>6 DEF ProbeAll, Unlisted, Listed, Claimed
  <2>3. Parts'
    BY <1>6, <2>2, OutsideParts DEF ProbeAll
  <2>4. QED
    BY <2>1, <2>3 DEF Parts
<1>7. QED
  BY <1>1, <1>2, <1>3, <1>4, <1>5, <1>6 DEF ForwardCall

LEMMA ExternalStep ==
  ASSUME ForwardIInv, (\E f \in Forward : External(f)) \/ Outage \/ UNCHANGED forwardVars
  PROVE  ForwardIInv'
<1> USE DEF ForwardIInv, ForwardTypeOK, tables, signals, clients
<1>1. \A g \in Forward : Unlisted(g)' => Unlisted(g)
  BY DEF External, Lose, Released, ForwardExpires, Outage, forwardVars, Unlisted, Listed, Claimed
<1>2. ASSUME NEW f \in Forward, External(f)
      PROVE  ForwardIInv'
  <2>1. ForwardTypeOK'
    BY <1>2 DEF External, Lose, Released, ForwardExpires
  <2>2. Parts'
    BY <1>1, <1>2, OutsideParts DEF External, Lose, Released, ForwardExpires
  <2>3. QED
    BY <2>1, <2>2 DEF Parts
<1>3. CASE Outage \/ UNCHANGED forwardVars
  <2>1. ForwardTypeOK'
    BY <1>3 DEF Outage, forwardVars
  <2>2. Parts'
    BY <1>1, <1>3, OutsideParts DEF Outage, forwardVars
  <2>3. QED
    BY <2>1, <2>2 DEF Parts
<1>4. QED
  BY <1>2, <1>3

-------------------------------------------------------------------------------
LEMMA InvInit == ForwardInit => ForwardIInv
<1> SUFFICES ASSUME ForwardInit PROVE ForwardIInv
  OBVIOUS
<1> USE ForwardAssumption DEF ForwardInit, Forward
<1>1. ForwardTypeOK
  BY DEF ForwardTypeOK, LifePC, NoForward, Active
<1>2. Born /\ ListedRuns
  BY DEF Born, ListedRuns
<1>3. RetriesUnbound /\ Closing /\ EndedReleases
  BY DEF RetriesUnbound, Closing, EndedReleases
<1>4. SoleForwardListed
  BY DEF SoleForwardListed, Unlisted
<1>5. QED
  BY <1>1, <1>2, <1>3, <1>4 DEF ForwardIInv

\* The tables, the goroutines and the tunnels agree in every reachable state.
THEOREM ForwardInvariant == ForwardSpec => []ForwardIInv
<1>1. ForwardInit => ForwardIInv
  BY InvInit
<1>2. ForwardIInv /\ [ForwardNext]_forwardVars => ForwardIInv'
  <2> SUFFICES ASSUME ForwardIInv, [ForwardNext]_forwardVars PROVE ForwardIInv'
    OBVIOUS
  <2>1. CASE \E f \in Forward : StartForward(f)
    BY <2>1, RegisterStep, PublishStep DEF StartForward
  <2>2. CASE \E f \in Forward : Life(f)
    BY <2>2, SelectStep, RetryStep DEF Life
  <2>3. CASE ForwardRequest
    BY <2>3, DialStep, TakeStep, CallStep DEF ForwardRequest, StopPortForward, StopAllPortForwards
  <2>4. CASE \E u \in Client : ForwardCall(u)
    BY <2>4, CallStep
  <2>5. CASE (\E f \in Forward : External(f)) \/ Outage \/ UNCHANGED forwardVars
    BY <2>5, ExternalStep
  <2>6. QED
    BY <2>1, <2>2, <2>3, <2>4, <2>5 DEF ForwardNext
<1>3. QED
  BY <1>1, <1>2, PTL DEF ForwardSpec

\* No listed entry belongs to a goroutine that has ended.
THEOREM NoZombies == ForwardSpec => []ListedRuns
<1>1. ForwardIInv => ListedRuns
  BY DEF ForwardIInv
<1>2. QED
  BY <1>1, ForwardInvariant, PTL

\* A goroutine that ends with its context still good has closed its tunnel.
THEOREM Uncancelled == ForwardSpec => []EndedReleases
<1>1. ForwardIInv => EndedReleases
  BY DEF ForwardIInv
<1>2. QED
  BY <1>1, ForwardInvariant, PTL

\* A forward alone on its port stays listed until someone stops it.
THEOREM SoleListed == ForwardSpec => []SoleForwardListed
<1>1. ForwardIInv => SoleForwardListed
  BY DEF ForwardIInv
<1>2. QED
  BY <1>1, ForwardInvariant, PTL

\* A goroutine that retries never meets its own old listener on the port.
THEOREM RetriesHoldNothing == ForwardSpec => []RetriesUnbound
<1>1. ForwardIInv => RetriesUnbound
  BY DEF ForwardIInv
<1>2. QED
  BY <1>1, ForwardInvariant, PTL

-------------------------------------------------------------------------------
\* The status is kept by port: only the goroutine of the one forward there may say what
\* it is.
ShowsLife(f) == /\ life[f] \in Reconnecting => status[portOf[f]] = attempt[f] + 1
                /\ life[f] \in {"select", "check"} => status[portOf[f]] = Active

LEMMA OwnPort ==
  ASSUME ForwardIInv, NEW f \in Forward, Listed(f)
  PROVE  portOf[f] \in Port /\ forwards[portOf[f]] = f /\ life[f] \notin {"unborn", "ended"}
BY DEF ForwardIInv, ListedRuns, Listed, Forward, NoForward

LEMMA TurnStatus ==
  ASSUME ForwardIInv, NEW f \in Forward, NEW n \in 0..MaxRetries, Turn(f, n), UNCHANGED portOf, Listed(f)'
  PROVE  ShowsLife(f)'
<1>1. f # NoForward
  BY DEF Forward, NoForward
<1>2. n < MaxRetries
  <2>1. SUFFICES ASSUME GiveUp(f) PROVE FALSE
    BY DEF Turn
  <2>2. PICK p \in Port : forwards'[p] = f
    BY DEF Listed
  <2>3. p # portOf[f] /\ forwards[p] = f
    BY <1>1, <2>1, <2>2 DEF GiveUp, DeleteEntry, ForwardIInv, ForwardTypeOK
  <2>4. QED
    BY <1>1, <2>3 DEF ForwardIInv, ListedRuns
<1>3. /\ life' = [life EXCEPT ![f] = "wait"] /\ attempt' = [attempt EXCEPT ![f] = n]
      /\ SetStatus(f, n + 1) /\ UNCHANGED forwards
  BY <1>2 DEF Turn
<1>4. portOf[f] \in Port /\ forwards[portOf[f]] = f
  BY <1>3, OwnPort DEF Listed
<1>5. status' = [status EXCEPT ![portOf[f]] = n + 1]
  BY <1>1, <1>3, <1>4 DEF SetStatus
<1>6. status'[portOf[f]] = n + 1 /\ attempt'[f] = n /\ life'[f] = "wait"
  BY <1>3, <1>4, <1>5 DEF ForwardIInv, ForwardTypeOK
<1>7. QED
  BY <1>6 DEF ShowsLife

\* What a goroutine does to the tables, it does on its own port.
LEMMA LifeStaysOnPort ==
  ASSUME ForwardIInv, NEW f \in Forward, Life(f)
  PROVE  /\ UNCHANGED portOf
         /\ \A g \in Forward \ {f} : life'[g] = life[g] /\ attempt'[g] = attempt[g]
         /\ \A p \in Port : forwards'[p] \in {forwards[p], NoForward}
         /\ \A p \in Port : p # portOf[f] => status'[p] = status[p]
<1> USE DEF ForwardIInv, ForwardTypeOK, tables, signals
<1>1. CASE SelectCtx(f) \/ Stopped(f)
  BY <1>1 DEF SelectCtx, Stopped, DeleteEntry, Jump
<1>2. CASE SelectStop(f) \/ Reconnect(f) \/ WaitOver(f) \/ Redialled(f)
  BY <1>2 DEF SelectStop, Reconnect, WaitOver, Redialled, Jump
<1>3. ASSUME GiveUp(f)
      PROVE  /\ \A g \in Forward \ {f} : life'[g] = life[g] /\ attempt'[g] = attempt[g]
             /\ \A p \in Port : forwards'[p] \in {forwards[p], NoForward}
             /\ \A p \in Port : p # portOf[f] => status'[p] = status[p]
  BY <1>3 DEF GiveUp, DeleteEntry
<1>4. ASSUME NEW n, Turn(f, n)
      PROVE  /\ \A g \in Forward \ {f} : life'[g] = life[g] /\ attempt'[g] = attempt[g]
             /\ \A p \in Port : forwards'[p] \in {forwards[p], NoForward}
             /\ \A p \in Port : p # portOf[f] => status'[p] = status[p]
  BY <1>3, <1>4 DEF Turn, SetStatus
<1>5. CASE Check(f) \/ RedialFailed(f)
  BY <1>3, <1>4, <1>5 DEF Check, RedialFailed
<1>6. CASE WaitInterrupted(f) \/ Recheck(f)
  BY <1>3, <1>6 DEF WaitInterrupted, Recheck
<1>7. CASE Revive(f)
  BY <1>7 DEF Revive, Jump, SetStatus
<1>8. QED
  BY <1>1, <1>2, <1>5, <1>6, <1>7 DEF Life

LEMMA LifeShown ==
  ASSUME ForwardIInv, NEW f \in Forward, Life(f), Listed(f) => ShowsLife(f), Listed(f)'
  PROVE  ShowsLife(f)'
<1> USE ForwardAssumption
<1>1. f # NoForward
  BY DEF Forward, NoForward
<1>2. Listed(f) /\ forwards[portOf[f]] = f /\ portOf[f] \in Port /\ ShowsLife(f) /\ UNCHANGED portOf
  <2>1. Listed(f)
    BY <1>1, LifeStaysOnPort DEF Listed
  <2>2. QED
    BY <2>1, OwnPort, LifeStaysOnPort
<1>3. forwards'[portOf[f]] = f
  <2>1. PICK p \in Port : forwards'[p] = f
    BY DEF Listed
  <2>2. forwards[p] = f
    BY <1>1, <2>1, LifeStaysOnPort
  <2>3. QED
    BY <1>1, <2>1, <2>2 DEF ForwardIInv, ListedRuns
<1>4. ~DeleteEntry(f)
  BY <1>1, <1>2, <1>3 DEF DeleteEntry, ForwardIInv, ForwardTypeOK
<1>5. ~SelectCtx(f) /\ ~Stopped(f) /\ ~WaitInterrupted(f) /\ ~GiveUp(f)
  BY <1>4 DEF SelectCtx, Stopped, WaitInterrupted, GiveUp
<1>6. life \in [Forward -> LifePC] /\ attempt \in [Forward -> 0..(MaxRetries - 1)] /\ status \in [Port -> 0..MaxRetries]
  BY DEF ForwardIInv, ForwardTypeOK
<1>7. CASE SelectStop(f)
  BY <1>6, <1>7 DEF SelectStop, Jump, ShowsLife, Reconnecting
<1>8. CASE Reconnect(f)
  BY <1>2, <1>6, <1>8 DEF Reconnect, Jump, ShowsLife, Reconnecting
<1>9. CASE Check(f)
  <2>1. Turn(f, 0)
    BY <1>5, <1>9 DEF Check
  <2>2. QED
    BY <1>2, <2>1, TurnStatus
<1>10. CASE RedialFailed(f)
  <2>1. attempt[f] + 1 \in 0..MaxRetries /\ Turn(f, attempt[f] + 1)
    BY <1>6, <1>10 DEF RedialFailed
  <2>2. QED
    BY <1>2, <2>1, TurnStatus
<1>11. CASE WaitOver(f)
  BY <1>2, <1>6, <1>11 DEF WaitOver, Jump, ShowsLife, Reconnecting
<1>12. CASE Recheck(f)
  BY <1>2, <1>5, <1>6, <1>12 DEF Recheck, ShowsLife, Reconnecting
<1>13. CASE Redialled(f)
  BY <1>6, <1>13 DEF Redialled, Jump, ShowsLife, Reconnecting
<1>14. CASE Revive(f)
  <2>1. status' = [status EXCEPT ![portOf[f]] = Active] /\ life'[f] = "select"
    BY <1>1, <1>2, <1>6, <1>14 DEF Revive, SetStatus, Jump
  <2>2. QED
    BY <1>2, <1>6, <2>1 DEF ShowsLife, Reconnecting
<1>15. QED
  BY <1>5, <1>7, <1>8, <1>9, <1>10, <1>11, <1>12, <1>13, <1>14 DEF Life

LEMMA StatusStep ==
  ASSUME ForwardIInv, StatusTrue, [ForwardNext]_forwardVars
  PROVE  StatusTrue'
<1> SUFFICES ASSUME NEW g \in Forward, Sole(g)', Listed(g)' PROVE ShowsLife(g)'
  BY DEF StatusTrue, ShowsLife
<1>1. Sole(g) /\ Listed(g) => ShowsLife(g)
  BY DEF StatusTrue, ShowsLife
<1>2. ASSUME NEW f \in Forward, Life(f) PROVE ShowsLife(g)'
  <2>1. UNCHANGED portOf /\ Sole(g)
    BY <1>2, LifeStaysOnPort DEF Sole
  <2>2. CASE g = f
    BY <1>1, <1>2, <2>1, <2>2, LifeShown
  <2>3. CASE g # f
    <3>1. Listed(g)
      BY <1>2, LifeStaysOnPort DEF Listed, Forward, NoForward
    <3>2. portOf[g] \in Port /\ portOf[g] # portOf[f]
      BY <2>1, <2>3, <3>1, OwnPort DEF Sole
    <3>3. life'[g] = life[g] /\ attempt'[g] = attempt[g] /\ status'[portOf[g]] = status[portOf[g]]
      BY <1>2, <2>3, <3>2, LifeStaysOnPort
    <3>4. QED
      BY <1>1, <2>1, <3>1, <3>3 DEF ShowsLife
  <2>4. QED
    BY <2>2, <2>3
<1>3. ASSUME NEW p \in Port, Dial(p) PROVE ShowsLife(g)'
  <2>1. /\ UNCHANGED <<forwards, life, status, attempt>> /\ dialled + 1 \in Forward
        /\ portOf' = [portOf EXCEPT ![dialled + 1] = p]
    BY <1>3 DEF Dial, tables
  <2>2. Listed(g)
    BY <2>1 DEF Listed
  <2>3. g <= dialled
    BY <2>2, OwnPort DEF ForwardIInv, ForwardTypeOK, Born, Forward
  <2>4. g # dialled + 1 /\ portOf[dialled + 1] = NoPort /\ portOf[g] \in Port
    BY <2>1, <2>2, <2>3, OwnPort DEF ForwardIInv, ForwardTypeOK, Born, Forward
  <2>5. portOf'[g] = portOf[g]
    BY <2>1, <2>4 DEF ForwardIInv, ForwardTypeOK
  <2>6. Sole(g)
    <3>1. ASSUME NEW f \in Forward, portOf[f] = portOf[g] PROVE f = g
      <4>1. f # dialled + 1
        BY <2>4, <3>1, ForwardAssumption
      <4>2. portOf'[f] = portOf[f]
        BY <2>1, <4>1 DEF ForwardIInv, ForwardTypeOK
      <4>3. QED
        BY <2>5, <3>1, <4>2 DEF Sole
    <3>2. QED
      BY <3>1 DEF Sole
  <2>7. QED
    BY <1>1, <2>1, <2>2, <2>5, <2>6 DEF ShowsLife
<1>4. ASSUME NEW f \in Forward, RegisterForward(f) PROVE ShowsLife(g)'
  <2>1. /\ portOf' = portOf /\ attempt' = attempt /\ starting[f] = "register"
        /\ forwards' = [forwards EXCEPT ![portOf[f]] = f]
        /\ status' = [status EXCEPT ![portOf[f]] = Active]
        /\ life' = [life EXCEPT ![f] = "select"]
    BY <1>4 DEF RegisterForward, Jump
  <2>2. portOf[f] \in Port /\ Sole(g)
    BY <2>1 DEF ForwardIInv, ForwardTypeOK, Born, Forward, Sole
  <2>3. CASE g = f
    <3>1. life'[f] = "select" /\ status'[portOf[f]] = Active
      BY <2>1, <2>2 DEF ForwardIInv, ForwardTypeOK
    <3>2. QED
      BY <2>1, <2>3, <3>1 DEF ShowsLife, Reconnecting
  <2>4. CASE g # f
    <3>1. PICK p \in Port : forwards'[p] = g
      BY DEF Listed
    <3>2. forwards[p] = g
      BY <2>1, <2>2, <2>4, <3>1 DEF ForwardIInv, ForwardTypeOK
    <3>3. Listed(g) /\ portOf[g] \in Port /\ portOf[g] # portOf[f]
      BY <2>2, <2>4, <3>2, OwnPort DEF Listed, Sole
    <3>4. life'[g] = life[g] /\ status'[portOf[g]] = status[portOf[g]]
      BY <2>1, <2>4, <3>3 DEF ForwardIInv, ForwardTypeOK
    <3>5. QED
      BY <1>1, <2>1, <2>2, <3>3, <3>4 DEF ShowsLife
  <2>5. QED
    BY <2>3, <2>4
<1>5. ASSUME NEW u \in Client, NEW ports \in SUBSET Port, TakeEntries(u, ports) PROVE ShowsLife(g)'
  <2>1. /\ UNCHANGED <<portOf, life, attempt>>
        /\ forwards' = [p \in Port |-> IF p \in ports THEN NoForward ELSE forwards[p]]
        /\ status' = [p \in Port |-> IF p \in ports THEN Active ELSE status[p]]
    BY <1>5 DEF TakeEntries
  <2>2. PICK p \in Port : p \notin ports /\ forwards[p] = g
    BY <2>1 DEF Listed, Forward, NoForward
  <2>3. Listed(g) /\ portOf[g] = p /\ status'[p] = status[p] /\ Sole(g)
    BY <2>1, <2>2 DEF Listed, ForwardIInv, ListedRuns, Forward, NoForward, Sole
  <2>4. QED
    BY <1>1, <2>1, <2>3 DEF ShowsLife
<1>6. CASE UNCHANGED <<forwards, portOf, life, status, attempt>>
  BY <1>1, <1>6 DEF ShowsLife, Sole, Listed
<1>7. ASSUME NEW u \in Client, ProbeAll(u) PROVE ShowsLife(g)'
  BY <1>6, <1>7 DEF ProbeAll, tables
<1>8. ASSUME NEW f \in Forward, Publish(f) \/ External(f) PROVE ShowsLife(g)'
  BY <1>6, <1>8 DEF Publish, External, Lose, Released, ForwardExpires, tables
<1>9. ASSUME NEW u \in Client, ForwardCall(u) PROVE ShowsLife(g)'
  BY <1>6, <1>9 DEF ForwardCall, CloseEntry, CancelContext, Probe, TakeCancels, CallReturns, tables
<1>10. CASE Outage \/ UNCHANGED forwardVars
  BY <1>6, <1>10 DEF Outage, forwardVars, tables
<1>11. QED
  BY <1>2, <1>3, <1>4, <1>5, <1>7, <1>8, <1>9, <1>10
     DEF ForwardNext, ForwardRequest, StartForward, StopPortForward, StopAllPortForwards

\* The status that is shown of a forward alone on its port is what its goroutine does,
\* although every write of it goes by the port (portforward.go:54-61).
THEOREM StatusIsTrue == ForwardSpec => []StatusTrue
<1>1. ForwardInit => StatusTrue
  BY DEF ForwardInit, StatusTrue, Listed, Forward, NoForward
<1>2. QED
  BY <1>1, StatusStep, ForwardInvariant, PTL DEF ForwardSpec
===============================================================================
