--------------------------- MODULE LogStreamsProofs ---------------------------
(***************************************************************************)
(* The youngest stream of a pod can be found as long as it may emit lines, *)
(* for any pods, containers and number of overlapping calls.  Between the  *)
(* two critical sections of a call the table says nothing of the stream    *)
(* that was in the slot: either the caller holds it, on its way to cancel  *)
(* it, or a younger one has taken its place.                               *)
(***************************************************************************)
EXTENDS LogStreams, FiniteSetTheorems, TLAPS

USE StreamAssumption DEF None, Made, Stream

\* Whoever is to register a stream has a number for it.
PendingCalls == {v \in LogCaller : Pending(v)}
RoomLeft == Len(slotOf) + Cardinality(PendingCalls) <= MaxStreams

\* The table names streams by their own slot.
Slots == \A s \in Slot : table[s] # None => table[s] \in Made /\ slotOf[table[s]] = s

\* Only a stop skips the second critical section; who cancels has what to cancel.
Holders == \A u \in LogCaller :
  /\ stage[u] = "register" => goal[u] = "replace"
  /\ stage[u] \in {"idle", "register"} => held[u] = None
  /\ stage[u] \in {"cancel", "start"} => held[u] \in Made

\* Goroutines are started by the call that made their stream.
Running == \A e \in Stream : running[e] # {} => e \in Made

CancelledBy(e) == \E u \in LogCaller : stage[u] = "cancel" /\ held[u] = e
Younger(e) == \E f \in Made : f > e /\ slotOf[f] = slotOf[e]
Findable == \A e \in Made :
  e \in stopped \/ table[slotOf[e]] = e \/ CancelledBy(e) \/ Younger(e)

LogInv == LogTypeOK /\ RoomLeft /\ Slots /\ Holders /\ Running /\ Findable

-------------------------------------------------------------------------------
LEMMA SlotKind == \A s \in Slot : s[1] \in {"single", "all"}
BY DEF Slot

LEMMA SomeSlot == AnySlot \in Slot
<1>1. PICK p \in Pod : TRUE
  OBVIOUS
<1>2. <<"single", p>> \in Slot
  BY DEF Slot
<1>3. QED
  BY <1>2 DEF AnySlot

LEMMA SomeContainers == \A s \in Slot : Wanted(s) \in SUBSET Container
BY DEF Wanted

\* Only calls between Begin and RegisterStream are pending.
LEMMA PendingFinite ==
  /\ IsFiniteSet(PendingCalls) /\ Cardinality(PendingCalls) \in Nat
  /\ IsFiniteSet(PendingCalls') /\ Cardinality(PendingCalls') \in Nat
<1>1. PendingCalls \in SUBSET LogCaller /\ PendingCalls' \in SUBSET LogCaller
  BY DEF PendingCalls
<1>2. IsFiniteSet(PendingCalls) /\ IsFiniteSet(PendingCalls')
  BY <1>1, FS_Subset
<1>3. QED
  BY <1>2, FS_CardinalityType

\* A caller that is pending no more leaves room for one stream.
LEMMA PendingLess ==
  ASSUME NEW u \in LogCaller, u \in PendingCalls, PendingCalls' = PendingCalls \ {u}
  PROVE  Cardinality(PendingCalls') = Cardinality(PendingCalls) - 1
BY PendingFinite, FS_RemoveElement

LEMMA LogStarts == LogInit => LogInv
<1> SUFFICES ASSUME LogInit PROVE LogInv
  OBVIOUS
<1> USE DEF LogInit
<1>1. LogTypeOK
  BY SomeSlot DEF LogTypeOK
<1>2. PendingCalls = {}
  BY DEF PendingCalls, Pending
<1>3. Cardinality(PendingCalls) = 0 /\ Len(slotOf) = 0
  BY <1>2, FS_EmptySet
<1>4. RoomLeft
  BY <1>3 DEF RoomLeft
<1>5. Slots /\ Holders /\ Running /\ Findable
  BY DEF Slots, Holders, Running, Findable
<1>6. QED
  BY <1>1, <1>4, <1>5 DEF LogInv

-------------------------------------------------------------------------------
\* The room for the streams to come.
LEMMA BeginKeepsRoom ==
  ASSUME LogInv, NEW u \in LogCaller, NEW s \in Slot, NEW g \in {"replace", "stop"}, Begin(u, s, g)
  PROVE  RoomLeft'
<1> USE DEF LogInv, LogTypeOK, RoomLeft
<1>1. slotOf' = slotOf /\ Len(slotOf) \in Nat
  BY DEF Begin
<1>2. CASE g = "replace"
  <2>1. PendingCalls' = PendingCalls \cup {u}
    BY <1>2 DEF Begin, Move, After, PendingCalls, Pending
  <2>2. Cardinality(PendingCalls \cup {u}) <= Cardinality(PendingCalls) + 1
    <3>1. \/ Cardinality(PendingCalls \cup {u}) = Cardinality(PendingCalls)
          \/ Cardinality(PendingCalls \cup {u}) = Cardinality(PendingCalls) + 1
      BY PendingFinite, FS_AddElement
    <3>2. QED
      BY <3>1, PendingFinite
  <2>3. Len(slotOf) + Cardinality(PendingCalls) < MaxStreams
    BY <1>2 DEF Begin, PendingCalls
  <2>4. QED
    BY <1>1, <2>1, <2>2, <2>3, PendingFinite
<1>3. CASE g = "stop"
  <2>1. PendingCalls' = PendingCalls
    BY <1>3 DEF Begin, Move, After, PendingCalls, Pending
  <2>2. QED
    BY <1>1, <2>1
<1>4. QED
  BY <1>2, <1>3

LEMMA CallKeepsRoom ==
  ASSUME LogInv, NEW u \in LogCaller, LogCall(u)
  PROVE  RoomLeft'
<1> USE DEF LogInv, LogTypeOK, RoomLeft
<1>1. Len(slotOf) \in Nat
  OBVIOUS
<1>2. CASE Cancel(u)
  <2>1. PendingCalls' = PendingCalls
    BY <1>2 DEF Cancel, Move, After, PendingCalls, Pending
  <2>2. QED
    BY <1>2, <2>1 DEF Cancel
<1>3. CASE NoClient(u) \/ RegisterStream(u)
  <2>1. u \in PendingCalls
    BY <1>3 DEF NoClient, RegisterStream, Move, Holders, PendingCalls, Pending
  <2>2. PendingCalls' = PendingCalls \ {u}
    BY <1>3 DEF NoClient, RegisterStream, Move, PendingCalls, Pending
  <2>3. Cardinality(PendingCalls') = Cardinality(PendingCalls) - 1
    BY <2>1, <2>2, PendingLess
  <2>4. Len(slotOf') <= Len(slotOf) + 1 /\ Len(slotOf') \in Nat
    BY <1>3 DEF NoClient, RegisterStream
  <2>5. QED
    BY <1>1, <2>3, <2>4, PendingFinite
<1>4. ASSUME NEW c \in Container, StartOne(u, c)
      PROVE  RoomLeft'
  <2>1. PendingCalls' = PendingCalls
    BY <1>4 DEF StartOne, PendingCalls, Pending
  <2>2. QED
    BY <1>4, <2>1 DEF StartOne
<1>5. QED
  BY <1>2, <1>3, <1>4 DEF LogCall

LEMMA OthersKeepRoom ==
  ASSUME LogInv, UNCHANGED <<slotOf, callers>>
  PROVE  RoomLeft'
<1>1. PendingCalls' = PendingCalls
  BY DEF callers, PendingCalls, Pending
<1>2. QED
  BY <1>1 DEF LogInv, RoomLeft

\* Who registers a stream finds a number for it.
LEMMA RegisterInRange ==
  ASSUME LogInv, NEW u \in LogCaller, RegisterStream(u)
  PROVE  Len(slotOf) + 1 \in Stream /\ Len(slotOf) \in Nat
<1>1. u \in PendingCalls
  BY DEF LogInv, RegisterStream, Move, Holders, PendingCalls, Pending
<1>2. Cardinality(PendingCalls) # 0
  BY <1>1, PendingFinite, FS_EmptySet
<1>3. QED
  BY <1>2, PendingFinite DEF LogInv, LogTypeOK, RoomLeft

-------------------------------------------------------------------------------
\* The steps of a caller, ...
LEMMA BeginKeeps ==
  ASSUME LogInv, NEW u \in LogCaller, NEW s \in Slot, NEW g \in {"replace", "stop"}, Begin(u, s, g)
  PROVE  LogInv'
<1> USE DEF LogInv, LogTypeOK, Move, After
<1>1. LogTypeOK'
  BY DEF Begin, Slots
<1>2. Slots' /\ Holders' /\ Running'
  BY DEF Begin, Slots, Holders, Running
<1>3. ASSUME NEW e \in Made
      PROVE  e \in stopped' \/ table'[slotOf[e]] = e \/ CancelledBy(e)' \/ Younger(e)'
  <2>1. CASE Younger(e)
    BY <2>1 DEF Begin, Younger
  <2>2. CASE CancelledBy(e)
    BY <2>2 DEF Begin, CancelledBy
  <2>3. CASE table[slotOf[e]] = e /\ slotOf[e] = s
    <3>1. CASE s[1] = "single"
      <4>1. stage'[u] = "cancel" /\ held'[u] = e
        BY <2>3, <3>1 DEF Begin
      <4>2. QED
        BY <4>1 DEF CancelledBy
    <3>2. CASE s[1] = "all"
      BY <2>3, <3>2 DEF Begin
    <3>3. QED
      BY <3>1, <3>2, SlotKind
  <2>4. CASE table[slotOf[e]] = e /\ slotOf[e] # s
    BY <2>4 DEF Begin
  <2>5. CASE e \in stopped
    BY <2>5 DEF Begin
  <2>6. QED
    BY <2>1, <2>2, <2>3, <2>4, <2>5 DEF Findable
<1>4. Findable'
  BY <1>3 DEF Begin, Findable
<1>5. QED
  BY <1>1, <1>2, <1>4, BeginKeepsRoom

LEMMA CancelKeeps ==
  ASSUME LogInv, NEW u \in LogCaller, Cancel(u)
  PROVE  LogInv'
<1> USE DEF LogInv, LogTypeOK, Move, After
<1>1. LogTypeOK' /\ Slots' /\ Holders' /\ Running'
  BY DEF Cancel, Slots, Holders, Running
<1>2. ASSUME NEW e \in Made
      PROVE  e \in stopped' \/ table'[slotOf[e]] = e \/ CancelledBy(e)' \/ Younger(e)'
  <2>1. CASE CancelledBy(e)
    BY <2>1 DEF Cancel, CancelledBy
  <2>2. CASE ~CancelledBy(e)
    BY <2>2 DEF Cancel, Findable, Younger
  <2>3. QED
    BY <2>1, <2>2
<1>3. Findable'
  BY <1>2 DEF Cancel, Findable
<1>4. QED
  BY <1>1, <1>3, CallKeepsRoom DEF LogCall

LEMMA RegisterKeeps ==
  ASSUME LogInv, NEW u \in LogCaller, RegisterStream(u)
  PROVE  LogInv'
<1> DEFINE e == Len(slotOf) + 1
<1> USE DEF LogInv, LogTypeOK, Move
<1>1. e \in Stream /\ Len(slotOf) \in Nat
  BY RegisterInRange
<1>2. /\ slotOf' \in Seq(Slot) /\ Len(slotOf') = e
      /\ slotOf'[e] = slot[u] /\ \A f \in Made : slotOf'[f] = slotOf[f]
      /\ Made' = Made \cup {e}
  BY <1>1 DEF RegisterStream
<1>3. LogTypeOK'
  BY <1>1, <1>2, SomeContainers DEF RegisterStream
<1>4. Slots' /\ Holders' /\ Running'
  BY <1>1, <1>2 DEF RegisterStream, Slots, Holders, Running
<1>5. ASSUME NEW f \in Made
      PROVE  f \in stopped' \/ table'[slotOf'[f]] = f \/ CancelledBy(f)' \/ Younger(f)'
  <2>1. CASE slotOf[f] = slot[u]
    <3>1. e \in Made' /\ e > f /\ slotOf'[e] = slotOf'[f]
      BY <1>1, <1>2, <2>1
    <3>2. QED
      BY <3>1 DEF Younger
  <2>2. CASE slotOf[f] # slot[u]
    <3>1. f \in stopped \/ table[slotOf[f]] = f \/ CancelledBy(f) \/ Younger(f)
      BY DEF Findable
    <3>2. CancelledBy(f) => CancelledBy(f)'
      BY DEF RegisterStream, CancelledBy
    <3>3. Younger(f) => Younger(f)'
      BY <1>2 DEF Younger
    <3>4. table[slotOf[f]] = f => table'[slotOf'[f]] = f
      BY <1>2, <2>2 DEF RegisterStream
    <3>5. QED
      BY <3>1, <3>2, <3>3, <3>4 DEF RegisterStream
  <2>3. QED
    BY <2>1, <2>2
<1>6. table'[slotOf'[e]] = e
  BY <1>2 DEF RegisterStream
<1>7. Findable'
  BY <1>2, <1>5, <1>6 DEF Findable
<1>8. QED
  BY <1>3, <1>4, <1>7, CallKeepsRoom DEF LogCall

LEMMA StartKeeps ==
  ASSUME LogInv, NEW u \in LogCaller, NEW c \in Container, StartOne(u, c)
  PROVE  LogInv'
<1> USE DEF LogInv, LogTypeOK
<1>1. LogTypeOK'
  BY DEF StartOne
<1>2. Slots' /\ Holders' /\ Running'
  BY DEF StartOne, Slots, Holders, Running
<1>3. \A e : CancelledBy(e) => CancelledBy(e)'
  BY DEF StartOne, CancelledBy
<1>4. Findable'
  BY <1>3 DEF StartOne, Findable, Younger
<1>5. RoomLeft'
  BY CallKeepsRoom DEF LogCall
<1>6. QED
  BY <1>1, <1>2, <1>4, <1>5

LEMMA NoClientKeeps ==
  ASSUME LogInv, NEW u \in LogCaller, NoClient(u)
  PROVE  LogInv'
<1> USE DEF LogInv, LogTypeOK, Move
<1>1. LogTypeOK' /\ Slots' /\ Holders' /\ Running'
  BY DEF NoClient, Slots, Holders, Running
<1>2. \A e : CancelledBy(e) => CancelledBy(e)'
  BY DEF NoClient, CancelledBy
<1>3. Findable'
  BY <1>2 DEF NoClient, Findable, Younger
<1>4. QED
  BY <1>1, <1>3, CallKeepsRoom DEF LogCall

\* ... and those of the goroutines and of time, which only ever stop streams.
LEMMA StreamsKeep ==
  ASSUME LogInv, NEW e \in Stream,
         Expire(e) \/ \E c \in Container : StreamReturns(e, c) \/ LogEnds(e, c)
  PROVE  LogInv'
<1> USE DEF LogInv, LogTypeOK
<1>1. /\ UNCHANGED <<table, slotOf, callers>>
      /\ stopped \subseteq stopped' /\ stopped' \subseteq Made
      /\ running' \in [Stream -> SUBSET Container]
      /\ \A f \in Stream : running'[f] \subseteq running[f]
  BY DEF Running, Expire, StreamReturns, LogEnds, End
<1>2. LogTypeOK' /\ Slots' /\ Holders' /\ Running'
  BY <1>1 DEF callers, Slots, Holders, Running
<1>3. Findable'
  BY <1>1 DEF callers, Findable, CancelledBy, Younger
<1>4. QED
  BY <1>1, <1>2, <1>3, OthersKeepRoom

-------------------------------------------------------------------------------
LEMMA LogStepKeeps == LogInv /\ [LogNext]_logVars => LogInv'
<1> SUFFICES ASSUME LogInv, [LogNext]_logVars
             PROVE  LogInv'
  OBVIOUS
<1>1. CASE UNCHANGED logVars
  <2>1. RoomLeft'
    BY <1>1, OthersKeepRoom DEF logVars
  <2>2. QED
    BY <1>1, <2>1 DEF logVars, callers, LogInv, LogTypeOK, Slots, Holders, Running, Findable,
                      CancelledBy, Younger
<1>2. ASSUME NEW u \in LogCaller, NEW s \in Slot, NEW g \in {"replace", "stop"}, Begin(u, s, g)
      PROVE  LogInv'
  BY <1>2, BeginKeeps
<1>3. ASSUME NEW u \in LogCaller, LogCall(u)
      PROVE  LogInv'
  BY <1>3, CancelKeeps, NoClientKeeps, RegisterKeeps, StartKeeps DEF LogCall
<1>4. ASSUME NEW e \in Stream,
             Expire(e) \/ \E c \in Container : StreamReturns(e, c) \/ LogEnds(e, c)
      PROVE  LogInv'
  BY <1>4, StreamsKeep
<1>5. QED
  BY <1>1, <1>2, <1>3, <1>4 DEF LogNext

\* The inductive invariant of the log streams (stream_handler.go:65-117, 393-444).
THEOREM LogInvariant == LogSpec => []LogInv
BY LogStarts, LogStepKeeps, PTL DEF LogSpec

\* However calls, stops and ends overlap, the youngest stream of a pod is stopped,
\* or in its slot, or held by a call that is about to cancel it.
THEOREM YoungestIsFound == LogSpec => []LogSafe
<1>1. LogInv => LogSafe
  <2> SUFFICES ASSUME LogInv PROVE YoungestFound
    BY DEF LogInv, LogSafe
  <2>1. QED
    BY DEF LogInv, Findable, CancelledBy, Younger, YoungestFound
<1>2. QED
  BY <1>1, LogInvariant, PTL
===============================================================================
