----------------------------- MODULE ServicesProofs -----------------------------
(***************************************************************************)
(* The services that keep no lasting state of their own, for every value   *)
(* of their constants.                                                     *)
(*   - Timeline: the ring keeps the last RingSize changes in their order.  *)
(*   - NodeDrain: a drain that reports success and met no timeout evicted  *)
(*     every pod, and without force an error stops it.  Pods leave the     *)
(*     books only once the context has ended, and without a timeout only   *)
(*     an error ends it.                                                   *)
(*   - Permissions: what the cluster handler's checker has cached was said *)
(*     by the connected cluster.  Every call that changes the cluster      *)
(*     clears, so an old answer can only come from a check that met the    *)
(*     change, and `overlapped' remembers that.                            *)
(*   - ResourceSearch: the search answers with every type it did not give  *)
(*     up on, once.  Each type is a job, with one worker, on the channel   *)
(*     or with the caller, and in no two of these places.                  *)
(***************************************************************************)
EXTENDS Timeline, NodeDrain, Permissions, ResourceSearch,
        Integers, FiniteSetTheorems, SequenceTheorems, TLAPS

USE TimelineAssumption

\* The places of a ring that has gone round at most once.
LEMMA Rounding ==
  ASSUME NEW i \in 0..2 * RingSize - 1
  PROVE  i % RingSize = IF i < RingSize THEN i ELSE i - RingSize
<1>1. RingSize \in Int /\ i \in Int /\ RingSize > 0
  OBVIOUS
<1>2. CASE i < RingSize
  BY <1>1, <1>2, Z3
<1>3. CASE i >= RingSize
  <2>1. i = RingSize * 1 + (i - RingSize) /\ i - RingSize \in 0..RingSize - 1
    BY <1>1, <1>3
  <2>2. QED
    BY <1>1, <2>1, <1>3, Z3
<1>4. QED
  BY <1>1, <1>2, <1>3

\* The type invariant is inductive.
THEOREM TimelineTypes == TimelineSpec => []TimelineTypeOK
<1>1. TimelineInit => TimelineTypeOK
  BY DEF TimelineInit, TimelineTypeOK
<1>2. TimelineTypeOK /\ [TimelineNext]_timelineVars => TimelineTypeOK'
  <2> SUFFICES ASSUME TimelineTypeOK, [TimelineNext]_timelineVars
               PROVE  TimelineTypeOK'
    OBVIOUS
  <2>1. CASE UNCHANGED timelineVars
    BY <2>1 DEF TimelineTypeOK, timelineVars
  <2>2. ASSUME NEW r \in ChangeRecord, Record(r) PROVE TimelineTypeOK'
    <3>1. (head + 1) % RingSize = IF head + 1 < RingSize THEN head + 1 ELSE 0
      <4> DEFINE j == head + 1
      <4>1. j \in 0..2 * RingSize - 1 /\ j <= RingSize
        BY DEF TimelineTypeOK
      <4> HIDE DEF j
      <4>2. j % RingSize = IF j < RingSize THEN j ELSE j - RingSize
        BY <4>1, Rounding
      <4>3. j % RingSize = IF j < RingSize THEN j ELSE 0
        BY <4>1, <4>2
      <4>4. QED
        BY <4>3 DEF j
    <3>2. head' \in 0..RingSize - 1 /\ count' \in 0..RingSize
      BY <2>2, <3>1 DEF TimelineTypeOK, Record
    <3>3. count' < RingSize => head' = count'
      BY <2>2, <3>1 DEF TimelineTypeOK, Record
    <3>4. ring' \in [0..RingSize - 1 -> ChangeRecord \cup {NoRecord}]
      BY <2>2 DEF TimelineTypeOK, Record
    <3>5. \A i \in 0..RingSize - 1 : i < count' => ring'[i] # NoRecord
      BY <2>2 DEF TimelineTypeOK, Record
    <3>6. QED
      BY <3>2, <3>3, <3>4, <3>5 DEF TimelineTypeOK
  <2>3. QED
    BY <2>1, <2>2 DEF TimelineNext
<1>3. QED
  BY <1>1, <1>2, PTL DEF TimelineSpec

-------------------------------------------------------------------------------
RingFrom(rg, o, c) == [i \in 1..c |-> rg[(o + i - 1) % RingSize]]
Place(o, i) == IF o + i - 1 < RingSize THEN o + i - 1 ELSE o + i - 1 - RingSize
Kept == ChangeRecord \cup {NoRecord}

\* What is read from a ring: its places one after the other.
LEMMA RingRead ==
  ASSUME NEW rg \in [0..RingSize - 1 -> Kept], NEW o \in 0..RingSize - 1, NEW c \in 0..RingSize
  PROVE  /\ RingFrom(rg, o, c) \in Seq(Kept) /\ Len(RingFrom(rg, o, c)) = c
         /\ \A i \in 1..c : RingFrom(rg, o, c)[i] = rg[Place(o, i)]
<1>1. ASSUME NEW i \in 1..c PROVE (o + i - 1) % RingSize = Place(o, i)
  <2> DEFINE j == o + i - 1
  <2>1. j \in 0..2 * RingSize - 1
    OBVIOUS
  <2> HIDE DEF j
  <2>2. j % RingSize = IF j < RingSize THEN j ELSE j - RingSize
    BY <2>1, Rounding
  <2>3. QED
    BY <2>2 DEF j, Place
<1>2. ASSUME NEW i \in 1..c PROVE Place(o, i) \in 0..RingSize - 1
  BY DEF Place
<1>3. RingFrom(rg, o, c) = [i \in 1..c |-> rg[Place(o, i)]]
  BY <1>1 DEF RingFrom
<1>4. RingFrom(rg, o, c) \in [1..c -> Kept]
  BY <1>2, <1>3
<1>5. QED
  BY <1>3, <1>4

\* A change that finds room goes to the end.
LEMMA RoomLeft ==
  ASSUME TimelineTypeOK, NEW r \in ChangeRecord, Record(r), TimelineTypeOK', count < RingSize
  PROVE  Iterate' = Append(Iterate, r)
<1>1. /\ Oldest = 0 /\ head = count /\ count' = count + 1 /\ ring' = [ring EXCEPT ![head] = r]
  BY DEF TimelineTypeOK, Record, Oldest
<1>2. Oldest' = 0
  <2>1. CASE count' < RingSize
    BY <2>1, <1>1 DEF Oldest
  <2>2. CASE count' = RingSize
    <3>1. head + 1 = RingSize /\ RingSize \in 0..2 * RingSize - 1
      BY <2>2, <1>1
    <3>2. RingSize % RingSize = 0
      BY <3>1, Rounding
    <3>3. QED
      BY <3>1, <3>2, <2>2 DEF Oldest, Record
  <2>3. QED
    BY <2>1, <2>2 DEF TimelineTypeOK
<1>3. /\ Iterate \in Seq(Kept) /\ Len(Iterate) = count
      /\ \A i \in 1..count : Iterate[i] = ring[i - 1]
  <2>1. Iterate = RingFrom(ring, 0, count)
    BY <1>1 DEF Iterate, RingFrom
  <2>2. ring \in [0..RingSize - 1 -> Kept] /\ count \in 0..RingSize /\ 0 \in 0..RingSize - 1
    BY DEF TimelineTypeOK, Kept
  <2>3. \A i \in 1..count : Place(0, i) = i - 1
    BY <2>2 DEF Place
  <2>4. /\ RingFrom(ring, 0, count) \in Seq(Kept) /\ Len(RingFrom(ring, 0, count)) = count
        /\ \A i \in 1..count : RingFrom(ring, 0, count)[i] = ring[Place(0, i)]
    BY <2>2, RingRead
  <2>5. QED
    BY <2>1, <2>3, <2>4
<1>4. /\ Iterate' \in Seq(Kept) /\ Len(Iterate') = count + 1
      /\ \A i \in 1..count + 1 : Iterate'[i] = ring'[i - 1]
  <2>1. Iterate' = RingFrom(ring', 0, count')
    BY <1>2 DEF Iterate, RingFrom
  <2>2. ring' \in [0..RingSize - 1 -> Kept] /\ count' \in 0..RingSize /\ 0 \in 0..RingSize - 1
    BY DEF TimelineTypeOK, Kept
  <2>3. \A i \in 1..count' : Place(0, i) = i - 1
    BY <2>2 DEF Place
  <2>4. /\ Iterate' \in Seq(Kept) /\ Len(Iterate') = count'
        /\ \A i \in 1..count' : Iterate'[i] = ring'[Place(0, i)]
    <3> DEFINE rg == ring'
               c == count'
    <3>1. rg \in [0..RingSize - 1 -> Kept] /\ c \in 0..RingSize /\ 0 \in 0..RingSize - 1
      BY <2>2
    <3> HIDE DEF rg, c
    <3>2. /\ RingFrom(rg, 0, c) \in Seq(Kept) /\ Len(RingFrom(rg, 0, c)) = c
          /\ \A i \in 1..c : RingFrom(rg, 0, c)[i] = rg[Place(0, i)]
      BY <3>1, RingRead
    <3>3. QED
      BY <2>1, <3>2 DEF rg, c
  <2>5. QED
    BY <2>3, <2>4, <1>1
<1>5. \A i \in 1..count + 1 : Iterate'[i] = IF i = count + 1 THEN r ELSE Iterate[i]
  BY <1>1, <1>3, <1>4 DEF TimelineTypeOK
<1>6. QED
  BY <1>3, <1>4, <1>5, SeqEqual, AppendProperties DEF TimelineTypeOK, Kept

\* A change that finds none takes the place of the oldest.
LEMMA GoneRound ==
  ASSUME TimelineTypeOK, NEW r \in ChangeRecord, Record(r), TimelineTypeOK', count = RingSize
  PROVE  Iterate' = Append(Tail(Iterate), r)
<1>1. /\ Oldest = head /\ Oldest' = head' /\ count' = RingSize
      /\ ring' = [ring EXCEPT ![head] = r] /\ head' = (head + 1) % RingSize
  BY DEF TimelineTypeOK, Record, Oldest
<1>2. head' = IF head + 1 = RingSize THEN 0 ELSE head + 1
  <2> DEFINE j == head + 1
  <2>1. j \in 0..2 * RingSize - 1 /\ j <= RingSize
    BY DEF TimelineTypeOK
  <2> HIDE DEF j
  <2>2. j % RingSize = IF j < RingSize THEN j ELSE j - RingSize
    BY <2>1, Rounding
  <2>3. j % RingSize = IF j = RingSize THEN 0 ELSE j
    BY <2>1, <2>2
  <2>4. QED
    BY <1>1, <2>3 DEF j
<1>3. /\ Iterate \in Seq(Kept) /\ Len(Iterate) = RingSize
      /\ \A i \in 1..RingSize : Iterate[i] = ring[Place(head, i)]
  <2>1. Iterate = RingFrom(ring, head, count)
    BY <1>1 DEF Iterate, RingFrom
  <2>2. ring \in [0..RingSize - 1 -> Kept] /\ count \in 0..RingSize /\ head \in 0..RingSize - 1
    BY DEF TimelineTypeOK, Kept
  <2>3. QED
    BY <2>1, <2>2, RingRead
<1>4. /\ Iterate' \in Seq(Kept) /\ Len(Iterate') = RingSize
      /\ \A i \in 1..RingSize : Iterate'[i] = ring'[Place(head', i)]
  <2>1. Iterate' = RingFrom(ring', head', count')
    BY <1>1 DEF Iterate, RingFrom
  <2>2. ring' \in [0..RingSize - 1 -> Kept] /\ count' \in 0..RingSize /\ head' \in 0..RingSize - 1
    BY DEF TimelineTypeOK, Kept
  <2>3. /\ Iterate' \in Seq(Kept) /\ Len(Iterate') = count'
        /\ \A i \in 1..count' : Iterate'[i] = ring'[Place(head', i)]
    <3> DEFINE rg == ring'
               c == count'
               o == head'
    <3>1. rg \in [0..RingSize - 1 -> Kept] /\ c \in 0..RingSize /\ o \in 0..RingSize - 1
      BY <2>2
    <3> HIDE DEF rg, c, o
    <3>2. /\ RingFrom(rg, o, c) \in Seq(Kept) /\ Len(RingFrom(rg, o, c)) = c
          /\ \A i \in 1..c : RingFrom(rg, o, c)[i] = rg[Place(o, i)]
      BY <3>1, RingRead
    <3>3. QED
      BY <2>1, <3>2 DEF rg, c, o
  <2>4. QED
    BY <2>3, <1>1
<1>5. /\ Tail(Iterate) \in Seq(Kept) /\ Len(Tail(Iterate)) = RingSize - 1
      /\ \A i \in 1..RingSize - 1 : Tail(Iterate)[i] = Iterate[i + 1]
  BY <1>3, HeadTailProperties
<1>6. \A i \in 1..RingSize : Iterate'[i] = IF i = RingSize THEN r ELSE Iterate[i + 1]
  <2>1. \A i \in 1..RingSize - 1 : Place(head', i) = Place(head, i + 1) /\ Place(head', i) # head
    BY <1>2 DEF Place, TimelineTypeOK
  <2>2. Place(head', RingSize) = head
    BY <1>2 DEF Place, TimelineTypeOK
  <2>3. \A i \in 1..RingSize : Place(head', i) \in 0..RingSize - 1
    BY <1>2 DEF Place, TimelineTypeOK
  <2>4. QED
    BY <1>1, <1>3, <1>4, <2>1, <2>2, <2>3 DEF TimelineTypeOK
<1>7. QED
  BY <1>4, <1>5, <1>6, SeqEqual, AppendProperties DEF Kept

\* The ring is a list that forgets its oldest entries.
THEOREM RingKeepsTheLast == TimelineSpec => ImplementsRecent
<1>1. TimelineInit => Recent!RecentInit
  <2> SUFFICES ASSUME TimelineInit PROVE Iterate = <<>>
    BY DEF Recent!RecentInit
  <2>1. Iterate = RingFrom(ring, 0, 0)
    BY DEF TimelineInit, Iterate, Oldest, RingFrom
  <2>2. ring \in [0..RingSize - 1 -> Kept]
    BY DEF TimelineInit, Kept
  <2>3. Iterate \in Seq(Kept) /\ Len(Iterate) = 0
    BY <2>1, <2>2, RingRead
  <2>4. QED
    BY <2>3, EmptySeq
<1>2. TimelineTypeOK /\ TimelineTypeOK' /\ [TimelineNext]_timelineVars => [Recent!RecentNext]_Iterate
  <2> SUFFICES ASSUME TimelineTypeOK, TimelineTypeOK', [TimelineNext]_timelineVars
               PROVE  [Recent!RecentNext]_Iterate
    OBVIOUS
  <2>1. CASE UNCHANGED timelineVars
    BY <2>1 DEF timelineVars, Iterate, Oldest
  <2>2. ASSUME NEW r \in ChangeRecord, Record(r) PROVE Recent!RecentNext
    <3>1. Len(Iterate) = count
      <4>1. Iterate = RingFrom(ring, Oldest, count)
        BY DEF Iterate, RingFrom
      <4>2. ring \in [0..RingSize - 1 -> Kept] /\ count \in 0..RingSize /\ Oldest \in 0..RingSize - 1
        BY DEF TimelineTypeOK, Kept, Oldest
      <4>3. QED
        BY <4>1, <4>2, RingRead
    <3>2. CASE count < RingSize
      BY <2>2, <3>1, <3>2, RoomLeft DEF Recent!RecentNext, Recent!Recorded
    <3>3. CASE count = RingSize
      BY <2>2, <3>1, <3>3, GoneRound DEF Recent!RecentNext, Recent!Recorded
    <3>4. QED
      BY <3>2, <3>3 DEF TimelineTypeOK
  <2>3. QED
    BY <2>1, <2>2 DEF TimelineNext
<1>3. QED
  BY <1>1, <1>2, TimelineTypes, PTL DEF TimelineSpec, ImplementsRecent, Recent!RecentSpec

HIDE TimelineAssumption

-----------------------------------------------------------------------------
USE DrainAssumption

DrainTypes == /\ force \in BOOLEAN /\ ctxDone \in BOOLEAN /\ timedOut \in BOOLEAN
              /\ drained \in {"none", "nil", "error"}
              /\ queued \in SUBSET Pod /\ atSem \in SUBSET Pod /\ evicting \in SUBSET Pod
              /\ evicted \in SUBSET Pod /\ errs \in SUBSET Pod /\ onTheWay \in SUBSET Pod

\* A pod is queued, at the semaphore, on its way, evicted or in errs.
Accounted == Pod = UNION {queued, atSem, evicting, evicted, errs} \/ ctxDone

\* The context ends at the timeout or for an error, ...
DoneForReason == ctxDone => timedOut \/ errs # {}

\* ... and without force for every error whose goroutine is over.
ErrorEndsContext == ~force /\ errs \ evicting # {} => ctxDone

OverIsOver == /\ drained # "none" => queued = {} /\ atSem = {} /\ evicting = {}
              /\ drained = "nil" => errs = {}

Limited == Cardinality(atSem) <= 1 /\ Cardinality(evicting) <= MaxEvicts

DrainInv == DrainTypes /\ Accounted /\ DoneForReason /\ ErrorEndsContext /\ OverIsOver /\ Limited

-------------------------------------------------------------------------------
LEMMA DrainTypesKept ==
  ASSUME DrainTypes, [DrainNext]_drainVars
  PROVE  DrainTypes'
<1> USE DEF DrainTypes
<1>1. CASE UNCHANGED drainVars
  BY <1>1 DEF drainVars
<1>2. CASE Consider \/ Break \/ Launch
  BY <1>2 DEF Consider, Break, Launch
<1>3. CASE DrainReturns \/ Timeout
  BY <1>3 DEF DrainReturns, Timeout, EndContext
<1>4. ASSUME NEW p \in Pod, Accepted(p) \/ RefusedEviction(p) \/ EvictCancel(p)
      PROVE  DrainTypes'
  BY <1>4 DEF Accepted, RefusedEviction, EvictCancel, EndContext
<1>5. QED
  BY <1>1, <1>2, <1>3, <1>4 DEF DrainNext, Drained

\* Every step keeps the books, as long as the context is good.
LEMMA AccountedKept ==
  ASSUME DrainTypes, Accounted, [DrainNext]_drainVars
  PROVE  Accounted'
<1> USE DEF DrainTypes, Accounted
<1>1. CASE UNCHANGED drainVars
  BY <1>1 DEF drainVars
<1>2. CASE Consider
  BY <1>2 DEF Consider
<1>3. CASE Break \/ DrainReturns \/ Timeout
  BY <1>3 DEF Break, DrainReturns, Timeout, EndContext
<1>4. CASE Launch
  BY <1>4 DEF Launch
<1>5. ASSUME NEW p \in Pod, Accepted(p) PROVE Accounted'
  BY <1>5 DEF Accepted
<1>6. ASSUME NEW p \in Pod, RefusedEviction(p) \/ EvictCancel(p) PROVE Accounted'
  BY <1>6 DEF RefusedEviction, EvictCancel, EndContext
<1>7. QED
  BY <1>1, <1>2, <1>3, <1>4, <1>5, <1>6 DEF DrainNext, Drained

LEMMA ReasonsKept ==
  ASSUME DrainTypes, DoneForReason, ErrorEndsContext, OverIsOver, [DrainNext]_drainVars
  PROVE  DoneForReason' /\ ErrorEndsContext' /\ OverIsOver'
<1> USE DEF DrainTypes, DoneForReason, ErrorEndsContext, OverIsOver
<1>1. CASE UNCHANGED drainVars
  BY <1>1 DEF drainVars
<1>2. CASE Consider \/ Break \/ Launch
  BY <1>2 DEF Consider, Break, Launch
<1>3. CASE DrainReturns \/ Timeout
  BY <1>3 DEF DrainReturns, Timeout, EndContext
<1>4. ASSUME NEW p \in Pod, Accepted(p) \/ EvictCancel(p)
      PROVE  DoneForReason' /\ ErrorEndsContext' /\ OverIsOver'
  BY <1>4 DEF Accepted, EvictCancel, EndContext
<1>5. ASSUME NEW p \in Pod, RefusedEviction(p)
      PROVE  DoneForReason' /\ ErrorEndsContext' /\ OverIsOver'
  BY <1>5 DEF RefusedEviction
<1>6. QED
  BY <1>1, <1>2, <1>3, <1>4, <1>5 DEF DrainNext, Drained

\* A goroutine starts only when its pod found a place, and one pod waits for it.
LEMMA LimitedKept ==
  ASSUME DrainTypes, Limited, [DrainNext]_drainVars
  PROVE  Limited'
<1>1. /\ IsFiniteSet(atSem) /\ IsFiniteSet(evicting)
      /\ Cardinality(atSem) \in Nat /\ Cardinality(evicting) \in Nat
  BY FS_Subset, FS_CardinalityType DEF DrainTypes
<1>2. CASE UNCHANGED <<atSem, evicting>>
  BY <1>2 DEF Limited
<1>3. CASE Consider
  <2>1. PICK p \in queued : atSem' = {p}
    BY <1>3 DEF Consider
  <2>2. Cardinality(atSem') = 1 /\ evicting' = evicting
    BY <2>1, <1>3, FS_Singleton DEF Consider
  <2>3. QED
    BY <2>2 DEF Limited
<1>4. CASE Launch
  <2>1. PICK p \in atSem : TRUE
    BY <1>4 DEF Launch
  <2>2. atSem = {p}
    <3>1. /\ Cardinality(atSem \ {p}) = Cardinality(atSem) - 1
          /\ IsFiniteSet(atSem \ {p}) /\ Cardinality(atSem \ {p}) \in Nat
      BY <1>1, <2>1, FS_RemoveElement, FS_CardinalityType
    <3>2. Cardinality(atSem \ {p}) = 0
      BY <1>1, <3>1 DEF Limited
    <3>3. QED
      BY <2>1, <3>1, <3>2, FS_EmptySet
  <2>3. evicting' = evicting \cup {p} /\ atSem' = {}
    BY <2>2, <1>4 DEF Launch
  <2>4. Cardinality(evicting') \in Nat /\ Cardinality(evicting') <= Cardinality(evicting) + 1
    <3>1. Cardinality(evicting \cup {p}) = IF p \in evicting THEN Cardinality(evicting)
                                           ELSE Cardinality(evicting) + 1
      BY <1>1, FS_AddElement
    <3>2. QED
      BY <1>1, <2>3, <3>1
  <2>5. Cardinality(atSem') = 0
    BY <2>3, FS_EmptySet
  <2>6. Cardinality(evicting) < MaxEvicts
    BY <1>4 DEF Launch
  <2>7. QED
    BY <1>1, <2>4, <2>5, <2>6 DEF Limited
<1>5. ASSUME NEW p \in Pod, evicting' = evicting \ {p}, UNCHANGED atSem PROVE Limited'
  <2>1. Cardinality(evicting') \in Nat /\ Cardinality(evicting') <= Cardinality(evicting)
    BY <1>1, <1>5, FS_Subset, FS_CardinalityType
  <2>2. QED
    BY <1>1, <1>5, <2>1 DEF Limited
<1>6. QED
  BY <1>2, <1>3, <1>4, <1>5 DEF DrainNext, drainVars, Break, DrainReturns, Timeout, Accepted,
     RefusedEviction, EvictCancel, Drained

-------------------------------------------------------------------------------
\* What a drain keeps true at every step.
THEOREM DrainInvariant == DrainSpec => []DrainInv
<1>1. DrainInit => DrainInv
  <2>1. Cardinality({}) = 0
    BY FS_EmptySet
  <2>2. DrainInit => DrainTypes /\ Accounted /\ DoneForReason /\ ErrorEndsContext /\ OverIsOver
    BY DEF DrainInit, DrainTypes, Accounted, DoneForReason, ErrorEndsContext, OverIsOver
  <2>3. DrainInit => Limited
    BY <2>1 DEF DrainInit, Limited
  <2>4. QED
    BY <2>2, <2>3 DEF DrainInv
<1>2. DrainInv /\ [DrainNext]_drainVars => DrainInv'
  BY DrainTypesKept, AccountedKept, ReasonsKept, LimitedKept DEF DrainInv
<1>3. QED
  BY <1>1, <1>2, PTL DEF DrainSpec

\* The types, the two limits and the books of DrainNode.
THEOREM DrainTypeCorrect == DrainSpec => []DrainTypeOK
<1>1. DrainInv => DrainTypeOK
  BY DEF DrainInv, DrainTypes, Accounted, Limited, DrainTypeOK
<1>2. QED
  BY <1>1, DrainInvariant, PTL

\* DrainNode returns nil before its timeout only when every pod was evicted.
THEOREM SuccessEvictsAll == DrainSpec => []SuccessIsWhole
<1>1. DrainInv => SuccessIsWhole
  BY DEF DrainInv, DrainTypes, Accounted, DoneForReason, OverIsOver, SuccessIsWhole
<1>2. QED
  BY <1>1, DrainInvariant, PTL

\* Without force no eviction is accepted after an error but those that were on
\* their way when it ended the context.
THEOREM ErrorStopsDrain == DrainSpec => ErrorStops
<1>1. ASSUME DrainInv, [DrainNext]_drainVars
      PROVE  [~force /\ errs \ evicting # {} => evicted' \ evicted \subseteq onTheWay]_drainVars
  <2>1. SUFFICES ASSUME ~force, errs \ evicting # {}, DrainNext
                 PROVE  evicted' \ evicted \subseteq onTheWay
    BY <1>1
  <2>2. ctxDone
    BY <1>1, <2>1 DEF DrainInv, ErrorEndsContext
  <2>3. ASSUME NEW p \in Pod, Accepted(p) PROVE evicted' \ evicted \subseteq onTheWay
    BY <2>2, <2>3 DEF Accepted
  <2>4. CASE UNCHANGED evicted
    BY <2>4
  <2>5. QED
    BY <2>1, <2>3, <2>4 DEF DrainNext, Consider, Break, Launch, DrainReturns, Timeout,
       RefusedEviction, EvictCancel, Drained, drainVars
<1>2. QED
  BY <1>1, DrainInvariant, PTL DEF DrainSpec, ErrorStops

HIDE DrainAssumption

-----------------------------------------------------------------------------
USE PermissionsAssumption

\* A connect and a switch have a target; the clients that are built are for it.
Targets == /\ switch.op = "none" => switch = NoSwitch
           /\ switch.op \in {"leave", "build", "switch"} => switch.to \in Cluster
           /\ switch.op = "build" => active = switch.to

\* A check that met no switch asks the connected cluster.
ClientServes == ~overlapped["cluster"] =>
  \A a \in Asker : check[a].of = "cluster" => check[a].client = active /\ ~Switching

\* Until the first check after a clear there is nothing in the cache.
CacheServes == ~overlapped["cluster"] =>
  \A v \in Verb : /\ ~Switching => verdicts["cluster"][v] \in {NoCluster, active}
                  /\ switch.op \in {"leave", "build", "switch"} => verdicts["cluster"][v] = NoCluster

ToldInv == PermissionsTypeOK /\ Targets /\ ClientServes /\ CacheServes

-------------------------------------------------------------------------------
CheckRecord == [of : Handler \cup {"nobody"}, client : Cluster \cup {NoCluster},
                left : SUBSET Verb, got : SUBSET Verb]
GoodCheck(k) == /\ k \in CheckRecord
                /\ k # Resting => k.left # {}
                /\ k.got \subseteq k.left
                /\ \A v, w \in k.got : v = w

LEMMA TypesOfParts ==
  PermissionsTypeOK <=> /\ tracked \subseteq Cluster /\ active \in Cluster \cup {NoCluster}
                        /\ link \in {"none", "connecting", "connected", "reconnecting", "error"}
                        /\ (link = "none" <=> active = NoCluster)
                        /\ switch \in [op : {"none", "leave", "build", "switch", "clear"},
                                       to : Cluster \cup {NoCluster}]
                        /\ verdicts \in [Handler -> [Verb -> Cluster \cup {NoCluster}]]
                        /\ check \in [Asker -> CheckRecord] /\ \A a \in Asker : GoodCheck(check[a])
                        /\ overlapped \in [Handler -> BOOLEAN] /\ earlier \subseteq Handler \X Verb
BY DEF PermissionsTypeOK, GoodCheck, CheckRecord

\* What a clear does to the checker of the cluster handler.
LEMMA Cleared ==
  ASSUME PermissionsTypeOK, ClearCache
  PROVE  /\ verdicts' \in [Handler -> [Verb -> Cluster \cup {NoCluster}]]
         /\ overlapped' \in [Handler -> BOOLEAN]
         /\ earlier' \subseteq Handler \X Verb
         /\ \A v \in Verb : verdicts'["cluster"][v] = NoCluster
         /\ ~overlapped'["cluster"] => \A a \in Asker : check[a].of # "cluster"
<1>1. "cluster" \in Handler /\ \A h \in Handler : Checking(h) \in BOOLEAN
  BY DEF Handler, Checking
<1>2. Uncached \in [Verb -> Cluster \cup {NoCluster}] /\ \A v \in Verb : Uncached[v] = NoCluster
  BY DEF Uncached
<1>3. \A h \in Handler : verdicts[h] \in [Verb -> Cluster \cup {NoCluster}] /\ overlapped[h] \in BOOLEAN
  BY DEF PermissionsTypeOK
<1>4. verdicts' = [h \in Handler |-> IF h = "cluster" THEN Uncached ELSE verdicts[h]]
  BY DEF ClearCache, ClearOf
<1>5. overlapped' = [h \in Handler |-> IF h = "cluster" THEN Checking(h) ELSE overlapped[h] \/ Checking(h)]
  BY DEF ClearCache, ClearOf
<1>6. overlapped' \in [Handler -> BOOLEAN]
  <2>1. \A h \in Handler :
          (IF h = "cluster" THEN Checking(h) ELSE overlapped[h] \/ Checking(h)) \in BOOLEAN
    BY <1>1
  <2>2. QED
    BY <1>5, <2>1
<1>7. overlapped'["cluster"] = Checking("cluster")
  BY <1>1, <1>5
<1>8. earlier' \subseteq Handler \X Verb
  BY DEF ClearCache, ClearOf, PermissionsTypeOK
<1>9. QED
  BY <1>1, <1>2, <1>3, <1>4, <1>6, <1>7, <1>8 DEF Checking

\* A disconnect that begins meets the checks that are under way.
LEMMA Met ==
  ASSUME PermissionsTypeOK, Meet
  PROVE  /\ overlapped' \in [Handler -> BOOLEAN]
         /\ ~overlapped'["cluster"] => \A a \in Asker : check[a].of # "cluster"
<1>1. "cluster" \in Handler /\ \A h \in Handler : (overlapped[h] \/ Checking(h)) \in BOOLEAN
  BY DEF Handler
<1>2. overlapped' = [h \in Handler |-> overlapped[h] \/ Checking(h)]
  BY DEF Meet
<1>3. overlapped'["cluster"] = (overlapped["cluster"] \/ Checking("cluster"))
  BY <1>1, <1>2
<1>4. QED
  BY <1>1, <1>2, <1>3 DEF Checking

\* A step of a check that changes its own record only.
LEMMA StepOfCheck ==
  ASSUME PermissionsTypeOK, Targets, NEW a \in Asker, NEW k, GoodCheck(k),
         check' = [check EXCEPT ![a] = k], UNCHANGED <<connectionVars, switch>>,
         verdicts' \in [Handler -> [Verb -> Cluster \cup {NoCluster}]],
         overlapped' \in [Handler -> BOOLEAN], earlier' \subseteq Handler \X Verb
  PROVE  PermissionsTypeOK' /\ Targets'
<1>1. check' \in [Asker -> CheckRecord] /\ \A b \in Asker : GoodCheck(check'[b])
  BY TypesOfParts DEF GoodCheck
<1>2. QED
  BY <1>1, TypesOfParts DEF connectionVars, Targets, PermissionsTypeOK, GoodCheck, CheckRecord

LEMMA GoodRecords ==
  ASSUME PermissionsTypeOK, NEW a \in Asker
  PROVE  /\ GoodCheck(check[a]) /\ GoodCheck(Resting)
         /\ \A v \in check[a].left : v \in Verb
         /\ \A v \in check[a].left : GoodCheck(Without(a, v))
         /\ \A v \in check[a].left : GoodCheck([check[a] EXCEPT !.got = {v}])
<1>1. GoodCheck(check[a]) /\ check[a] \in CheckRecord
  BY TypesOfParts DEF GoodCheck
<1>2. GoodCheck(Resting)
  BY DEF GoodCheck, Resting, CheckRecord
<1>3. ASSUME NEW v \in check[a].left
      PROVE  GoodCheck(Without(a, v)) /\ GoodCheck([check[a] EXCEPT !.got = {v}]) /\ v \in Verb
  <2>1. v \in Verb /\ check[a].left \in SUBSET Verb
    BY <1>1 DEF CheckRecord
  <2>2. CASE check[a].left = {v}
    BY <1>1, <1>2, <2>1, <2>2 DEF GoodCheck, CheckRecord, Without, Resting
  <2>3. CASE check[a].left # {v}
    <3>1. check[a].left \ {v} # {}
      BY <2>3
    <3>2. QED
      BY <1>1, <2>1, <2>3, <3>1 DEF GoodCheck, CheckRecord, Without, Resting
  <2>4. QED
    BY <2>2, <2>3
<1>4. QED
  BY <1>1, <1>2, <1>3

LEMMA Types ==
  ASSUME PermissionsTypeOK, Targets, [PermissionsNext]_permissionVars
  PROVE  PermissionsTypeOK' /\ Targets'
<1>1. CASE UNCHANGED permissionVars
  BY <1>1 DEF permissionVars, connectionVars, cacheVars, PermissionsTypeOK, Targets
<1>2. ASSUME NEW c \in Cluster, ConnectTo(c) \/ SwitchTo(c) PROVE PermissionsTypeOK' /\ Targets'
  <2>1. ClearCache /\ UNCHANGED <<tracked, active, link, check>>
    BY <1>2 DEF ConnectTo, SwitchTo, Enter, connectionVars
  <2>2. \/ switch' = [op |-> "leave", to |-> c]
        \/ switch' = [op |-> "switch", to |-> c]
    BY <1>2 DEF ConnectTo, SwitchTo, Enter
  <2>3. QED
    BY <2>1, <2>2, Cleared DEF PermissionsTypeOK, Targets
<1>3. CASE Leave \/ UnknownContext \/ Built \/ Switched
  <2>1. UNCHANGED <<verdicts, check, overlapped, earlier>>
    BY <1>3 DEF Leave, UnknownContext, Built, Switched, cacheVars
  <2>2. switch.to \in Cluster
    BY <1>3 DEF Leave, UnknownContext, Built, Switched, Targets, NoSwitch, PermissionsTypeOK
  <2>3. /\ tracked' \subseteq Cluster /\ active' \in Cluster \cup {NoCluster}
        /\ link' \in {"none", "connecting", "connected", "reconnecting", "error"}
        /\ (link' = "none" <=> active' = NoCluster)
    <3>1. CASE Leave
      BY <2>2, <3>1 DEF Leave, PermissionsTypeOK
    <3>2. CASE UnknownContext
      BY <3>2 DEF UnknownContext, connectionVars, PermissionsTypeOK
    <3>3. CASE Built
      BY <2>2, <3>3 DEF Built, PermissionsTypeOK, Targets
    <3>4. CASE Switched
      <4>1. CASE UNCHANGED connectionVars
        BY <4>1 DEF connectionVars, PermissionsTypeOK
      <4>2. CASE active' = switch.to /\ link' \in {"connected", "reconnecting", "error"} /\ UNCHANGED tracked
        BY <2>2, <4>2 DEF PermissionsTypeOK
      <4>3. QED
        BY <3>4, <4>1, <4>2 DEF Switched
    <3>5. QED
      BY <1>3, <3>1, <3>2, <3>3, <3>4
  <2>4. /\ switch' \in [op : {"none", "leave", "build", "switch", "clear"}, to : Cluster \cup {NoCluster}]
        /\ Targets'
    BY <1>3, <2>2 DEF Leave, UnknownContext, Built, Switched, PermissionsTypeOK, Targets, NoSwitch
  <2>5. QED
    BY <2>1, <2>3, <2>4 DEF PermissionsTypeOK
<1>4. CASE DisconnectActive
  BY <1>4, Met DEF DisconnectActive, Enter, Meet, connectionVars, PermissionsTypeOK, Targets
<1>5. CASE TakeAway \/ HealthFails \/ Reconnected
  BY <1>5 DEF TakeAway, HealthFails, Reconnected, cacheVars, PermissionsTypeOK, Targets
<1>6. CASE ClearLast
  BY <1>6, Cleared DEF ClearLast, connectionVars, PermissionsTypeOK, Targets, NoSwitch
<1>7. ASSUME NEW a \in Asker, CheckAccess(a) PROVE PermissionsTypeOK' /\ Targets'
  <2>1. ASSUME NEW h \in Handler, NEW verbs \in SUBSET Verb, verbs # {}, Ask(a, h, verbs)
        PROVE  PermissionsTypeOK' /\ Targets'
    <3> DEFINE k == [of |-> h, client |-> active, left |-> verbs, got |-> {}]
    <3>1. GoodCheck(k)
      BY <2>1 DEF GoodCheck, CheckRecord, PermissionsTypeOK
    <3>2. overlapped' \in [Handler -> BOOLEAN] /\ earlier' \subseteq Handler \X Verb
      BY <2>1 DEF Ask, PermissionsTypeOK
    <3>3. QED
      BY <2>1, <3>1, <3>2, StepOfCheck DEF Ask, PermissionsTypeOK
  <2>2. ASSUME NEW v \in Verb, Hit(a, v) \/ Answered(a, v) PROVE PermissionsTypeOK' /\ Targets'
    <3>1. /\ UNCHANGED <<connectionVars, switch>>
          /\ UNCHANGED <<verdicts, overlapped, earlier>>
      BY <2>2 DEF Hit, Answered, cacheVars
    <3>2. /\ verdicts' \in [Handler -> [Verb -> Cluster \cup {NoCluster}]]
          /\ overlapped' \in [Handler -> BOOLEAN] /\ earlier' \subseteq Handler \X Verb
      BY <3>1 DEF PermissionsTypeOK
    <3>3. \E k : GoodCheck(k) /\ check' = [check EXCEPT ![a] = k]
      BY <2>2, GoodRecords DEF Hit, Answered
    <3>4. QED
      BY <3>1, <3>2, <3>3, StepOfCheck
  <2>3. ASSUME NEW v \in Verb, Store(a, v) PROVE PermissionsTypeOK' /\ Targets'
    <3>1. v \in check[a].left /\ check[a].of \in Handler \cup {"nobody"}
          /\ check[a].client \in Cluster \cup {NoCluster}
      BY <2>3, GoodRecords DEF Store, GoodCheck, CheckRecord
    <3>2. verdicts' \in [Handler -> [Verb -> Cluster \cup {NoCluster}]]
      BY <2>3, <3>1 DEF Store, PermissionsTypeOK
    <3>3. QED
      BY <2>3, <3>1, <3>2, GoodRecords, StepOfCheck DEF Store, PermissionsTypeOK
  <2>4. CASE AskFails(a)
    BY <2>4, GoodRecords, StepOfCheck DEF AskFails, cacheVars, PermissionsTypeOK
  <2>5. QED
    BY <1>7, <2>1, <2>2, <2>3, <2>4 DEF CheckAccess, Handler
<1>8. QED
  BY <1>1, <1>2, <1>3, <1>4, <1>5, <1>6, <1>7 DEF PermissionsNext

-------------------------------------------------------------------------------
\* A switch clears as it begins, a disconnect as it ends.
LEMMA SwitchSteps ==
  ASSUME ToldInv,
         \/ \E c \in Cluster : ConnectTo(c) \/ SwitchTo(c)
         \/ Leave \/ UnknownContext \/ Built \/ Switched
         \/ HealthFails \/ Reconnected
         \/ DisconnectActive \/ TakeAway \/ ClearLast
  PROVE  ClientServes' /\ CacheServes'
<1> USE DEF ToldInv
<1>1. ASSUME NEW c \in Cluster, ConnectTo(c) \/ SwitchTo(c) PROVE ClientServes' /\ CacheServes'
  BY <1>1, Cleared DEF ConnectTo, SwitchTo, Enter, ClientServes, CacheServes, Switching, NoSwitch
<1>2. CASE Leave \/ UnknownContext \/ Built \/ Switched
  <2>1. switch.op \in {"leave", "build", "switch"} /\ Switching
    BY <1>2 DEF Leave, UnknownContext, Built, Switched, Switching, NoSwitch
  <2>2. UNCHANGED <<verdicts, check, overlapped>>
    BY <1>2 DEF Leave, UnknownContext, Built, Switched, cacheVars
  <2>3. switch' = NoSwitch \/ switch'.op \in {"leave", "build", "switch"}
    BY <1>2 DEF Leave, UnknownContext, Built, Switched, PermissionsTypeOK
  <2>4. QED
    BY <2>1, <2>2, <2>3 DEF ClientServes, CacheServes, Switching, NoSwitch
<1>3. CASE DisconnectActive
  BY <1>3, Met DEF DisconnectActive, Enter, ClientServes, CacheServes, Switching, NoSwitch
<1>4. CASE TakeAway
  BY <1>4 DEF TakeAway, cacheVars, ClientServes, CacheServes, Switching, NoSwitch
<1>5. CASE ClearLast
  BY <1>5, Cleared DEF ClearLast, connectionVars, ClientServes, CacheServes, Switching, NoSwitch
<1>6. CASE HealthFails \/ Reconnected
  <2>1. UNCHANGED <<active, switch, verdicts, check, overlapped>>
    BY <1>6 DEF HealthFails, Reconnected, cacheVars
  <2>2. QED
    BY <2>1 DEF ClientServes, CacheServes, Switching
<1>7. QED
  BY <1>1, <1>2, <1>3, <1>4, <1>5, <1>6

\* A check stores what its own cluster said.
LEMMA CheckSteps ==
  ASSUME ToldInv, NEW a \in Asker, CheckAccess(a)
  PROVE  ClientServes' /\ CacheServes'
<1> USE DEF ToldInv
<1>1. "cluster" \in Handler /\ check \in [Asker -> CheckRecord]
  BY TypesOfParts DEF Handler
<1>2. ASSUME NEW h \in Handler, NEW verbs \in SUBSET Verb, Ask(a, h, verbs)
      PROVE  ClientServes' /\ CacheServes'
  <2>1. ~overlapped'["cluster"] => ~overlapped["cluster"] /\ (h = "cluster" => ~Switching)
    BY <1>1, <1>2 DEF Ask, PermissionsTypeOK
  <2>2. \A b \in Asker : check'[b].of = "cluster" =>
          \/ b = a /\ h = "cluster" /\ check'[b].client = active
          \/ check[b].of = "cluster" /\ check'[b].client = check[b].client
    BY <1>1, <1>2 DEF Ask
  <2>3. UNCHANGED <<active, switch, verdicts>>
    BY <1>2 DEF Ask, connectionVars
  <2>4. QED
    BY <2>1, <2>2, <2>3 DEF ClientServes, CacheServes, Switching
<1>3. ASSUME NEW k, check' = [check EXCEPT ![a] = k], k = Resting \/ (k.of = check[a].of /\ k.client = check[a].client),
             UNCHANGED <<active, switch, overlapped>>
      PROVE  ClientServes'
  BY <1>1, <1>3 DEF ClientServes, Switching, Resting
<1>4. ASSUME NEW v \in Verb
      PROVE  Without(a, v) = Resting \/ (Without(a, v).of = check[a].of /\ Without(a, v).client = check[a].client)
  BY <1>1 DEF Without, CheckRecord
<1>5. ASSUME NEW v \in Verb, Hit(a, v) \/ Answered(a, v) PROVE ClientServes' /\ CacheServes'
  <2>1. CacheServes'
    BY <1>5 DEF Hit, Answered, connectionVars, cacheVars, CacheServes, Switching
  <2>2. CASE Hit(a, v)
    BY <2>1, <2>2, <1>3, <1>4 DEF Hit, connectionVars, cacheVars
  <2>3. CASE Answered(a, v)
    BY <1>1, <2>1, <2>3, <1>3 DEF Answered, connectionVars, cacheVars, CheckRecord
  <2>4. QED
    BY <1>5, <2>2, <2>3
<1>6. ASSUME NEW v \in Verb, Store(a, v) PROVE ClientServes' /\ CacheServes'
  <2>1. ClientServes'
    BY <1>6, <1>3, <1>4 DEF Store, connectionVars
  <2>2. \A w \in Verb : \/ verdicts'["cluster"][w] = verdicts["cluster"][w]
                        \/ check[a].of = "cluster" /\ verdicts'["cluster"][w] = check[a].client
    BY <1>1, <1>6 DEF Store, PermissionsTypeOK
  <2>3. QED
    BY <1>6, <2>1, <2>2 DEF Store, connectionVars, ClientServes, CacheServes, Switching, NoSwitch
<1>7. CASE AskFails(a)
  <2>1. CacheServes'
    BY <1>7 DEF AskFails, connectionVars, cacheVars, CacheServes, Switching
  <2>2. QED
    BY <1>7, <2>1, <1>3 DEF AskFails, connectionVars, cacheVars
<1>8. QED
  BY <1>2, <1>5, <1>6, <1>7 DEF CheckAccess, Handler

-------------------------------------------------------------------------------
\* Types, and what is known of checks that met no switch.
THEOREM PermissionsInvariant == PermissionsSpec => []ToldInv
<1>1. PermissionsInit => ToldInv
  BY DEF PermissionsInit, ToldInv, PermissionsTypeOK, Targets, ClientServes, CacheServes,
         Handler, NoSwitch, Switching, Resting, Uncached
<1>2. ToldInv /\ [PermissionsNext]_permissionVars => ToldInv'
  <2> SUFFICES ASSUME ToldInv, [PermissionsNext]_permissionVars PROVE ToldInv'
    OBVIOUS
  <2>1. PermissionsTypeOK' /\ Targets'
    BY Types DEF ToldInv
  <2>2. ClientServes' /\ CacheServes'
    <3>1. CASE UNCHANGED permissionVars
      BY <3>1 DEF permissionVars, connectionVars, cacheVars, ToldInv, ClientServes, CacheServes, Switching
    <3>2. CASE PermissionsNext
      BY <3>2, SwitchSteps, CheckSteps DEF PermissionsNext
    <3>3. QED
      BY <3>1, <3>2
  <2>3. QED
    BY <2>1, <2>2 DEF ToldInv
<1>3. QED
  BY <1>1, <1>2, PTL DEF PermissionsSpec

\* The types of the caches and of the checks under way.
THEOREM PermissionTypes == PermissionsSpec => []PermissionsTypeOK
<1>1. ToldInv => PermissionsTypeOK
  BY DEF ToldInv
<1>2. QED
  BY <1>1, PermissionsInvariant, PTL

\* The window is told what the connected cluster allows, over every connect, switch,
\* disconnect, loss and reconnection.
THEOREM ToldByTheConnected == PermissionsSpec => []ToldByServing
<1>1. ToldInv => ToldByServing
  BY DEF ToldInv, CacheServes, ToldByServing, OfServing
<1>2. QED
  BY <1>1, PermissionsInvariant, PTL

HIDE PermissionsAssumption

-----------------------------------------------------------------------------
USE SearchAssumption

SearchTypes == /\ jobs \subseteq Type /\ results \subseteq Type
               /\ worker \in [Worker -> [step : {"take", "list", "send", "done"}, types : SUBSET Type]]
               /\ matches \in [Type -> 0..MaxMatches] /\ resultsCh \in Seq(Type)
               /\ resultsClosed \in BOOLEAN /\ gathered \in BOOLEAN /\ expired \in BOOLEAN

\* Every type is in one place: a job, with one worker, on the channel or with the caller.
Elements(s) == {s[i] : i \in 1..Len(s)}
Sent == Elements(resultsCh)
Apart == /\ jobs \cap Sent = {} /\ jobs \cap results = {} /\ Sent \cap results = {}
         /\ \A w \in Worker : /\ worker[w].types \cap jobs = {}
                              /\ worker[w].types \cap Sent = {}
                              /\ worker[w].types \cap results = {}
         /\ \A w, v \in Worker : \A t \in worker[w].types : t \in worker[v].types => w = v
Handful == \A w \in Worker : /\ worker[w].step \in {"take", "done"} => worker[w].types = {}
                             /\ worker[w].step \in {"list", "send"} => \E t \in Type : worker[w].types = {t}

\* What matched is with the caller, on the channel, or with a worker that will send it.
Sending(t) == \E w \in Worker : worker[w].step = "send" /\ t \in worker[w].types
Matched == \A t \in Type : matches[t] > 0 <=> (t \in results \/ t \in Sent \/ Sending(t))

Finished == /\ resultsClosed => \A w \in Worker : worker[w].step = "done"
            /\ gathered => expired

SearchInv == /\ SearchTypes /\ IsInjective(resultsCh) /\ Apart /\ Handful /\ Matched /\ Finished
             /\ ResultsAreWhole

\* The channel at its two ends.
LEMMA SentOneMore ==
  ASSUME NEW s \in Seq(Type), IsInjective(s), NEW t \in Type, t \notin Elements(s)
  PROVE  /\ Append(s, t) \in Seq(Type) /\ IsInjective(Append(s, t))
         /\ Elements(Append(s, t)) = Elements(s) \cup {t}
<1>1. PICK l \in Nat : l = Len(s)
  BY LenProperties
<1>2. PICK q \in Seq(Type) : q = Append(s, t)
  BY AppendProperties
<1>3. Len(q) = l + 1 /\ q[l + 1] = t /\ \A i \in 1..l : q[i] = s[i]
  BY <1>1, <1>2, AppendProperties
<1>4. \A i \in 1..l + 1 : i \in 1..l \/ i = l + 1
  OBVIOUS
<1>5. Elements(q) = Elements(s) \cup {t}
  BY <1>1, <1>3, <1>4 DEF Elements
<1>6. IsInjective(q)
  <2>1. DOMAIN q = 1..l + 1 /\ DOMAIN s = 1..l
    BY <1>1, <1>3
  <2>2. \A i \in 1..l : s[i] # t
    BY <1>1 DEF Elements
  <2>3. \A i, j \in 1..l : s[i] = s[j] => i = j
    BY <2>1 DEF IsInjective
  <2>4. \A i, j \in 1..l + 1 : q[i] = q[j] => i = j
    BY <1>3, <1>4, <2>2, <2>3
  <2>5. QED
    BY <2>1, <2>4 DEF IsInjective
<1>7. QED
  BY <1>2, <1>5, <1>6

LEMMA SentOneLess ==
  ASSUME NEW s \in Seq(Type), IsInjective(s), s # <<>>
  PROVE  /\ Head(s) \in Type /\ Tail(s) \in Seq(Type) /\ IsInjective(Tail(s))
         /\ Elements(s) = Elements(Tail(s)) \cup {Head(s)} /\ Head(s) \notin Elements(Tail(s))
<1>1. PICK l \in Nat : l + 1 = Len(s)
  <2>1. Len(s) \in Nat \ {0}
    BY LenProperties, EmptySeq
  <2>2. Len(s) - 1 \in Nat
    BY <2>1
  <2>3. QED
    BY <2>1, <2>2
<1>2. PICK q \in Seq(Type) : q = Tail(s)
  BY HeadTailProperties
<1>3. Len(q) = l /\ (\A i \in 1..l : q[i] = s[i + 1]) /\ Head(s) = s[1] /\ Head(s) \in Type
  BY <1>1, <1>2, HeadTailProperties
<1>4. \A i, j \in 1..l + 1 : s[i] = s[j] => i = j
  <2>1. DOMAIN s = 1..l + 1
    BY <1>1
  <2>2. QED
    BY <2>1 DEF IsInjective
<1>5. \A i \in 1..l : i + 1 \in 1..l + 1 /\ i + 1 # 1
  OBVIOUS
<1>6. \A i \in 1..l + 1 : i = 1 \/ (i - 1 \in 1..l /\ i = (i - 1) + 1)
  OBVIOUS
<1>7. Elements(s) = Elements(q) \cup {s[1]}
  <2>1. ASSUME NEW i \in 1..l + 1 PROVE s[i] \in Elements(q) \cup {s[1]}
    <3>1. CASE i = 1
      BY <3>1
    <3>2. CASE i # 1
      <4>1. i - 1 \in 1..l /\ q[i - 1] = s[i]
        BY <1>3, <1>6, <3>2
      <4>2. QED
        BY <1>3, <4>1 DEF Elements
    <3>3. QED
      BY <3>1, <3>2
  <2>2. ASSUME NEW i \in 1..l PROVE q[i] \in Elements(s)
    BY <1>1, <1>3, <1>5 DEF Elements
  <2>3. s[1] \in Elements(s)
    BY <1>1 DEF Elements
  <2>4. QED
    BY <1>1, <1>3, <2>1, <2>2, <2>3 DEF Elements
<1>8. s[1] \notin Elements(q)
  <2>1. \A i \in 1..l : q[i] # s[1]
    BY <1>3, <1>4, <1>5
  <2>2. QED
    BY <1>3, <2>1 DEF Elements
<1>9. IsInjective(q)
  <2>1. DOMAIN q = 1..l
    BY <1>3
  <2>2. \A i, j \in 1..l : q[i] = q[j] => i = j
    BY <1>3, <1>4, <1>5
  <2>3. QED
    BY <2>1, <2>2 DEF IsInjective
<1>10. QED
  BY <1>2, <1>3, <1>7, <1>8, <1>9

LEMMA SearchStarts == SearchInit => SearchInv
<1> SUFFICES ASSUME SearchInit PROVE SearchInv
  OBVIOUS
<1>1. /\ jobs = Type /\ worker = [w \in Worker |-> At("take", {})] /\ matches = [t \in Type |-> 0]
      /\ resultsCh = <<>> /\ resultsClosed = FALSE /\ results = {} /\ gathered = FALSE /\ expired = FALSE
  BY DEF SearchInit
<1>2. <<>> \in Seq(Type) /\ Len(<<>>) = 0 /\ Elements(<<>>) = {} /\ IsInjective(<<>>)
  BY EmptySeq DEF Elements, IsInjective
<1>3. \A w \in Worker : worker[w] = At("take", {}) /\ worker[w].step = "take" /\ worker[w].types = {}
  BY <1>1 DEF At
<1>4. SearchTypes
  <2>1. At("take", {}) \in [step : {"take", "list", "send", "done"}, types : SUBSET Type]
    BY DEF At
  <2>2. worker \in [Worker -> [step : {"take", "list", "send", "done"}, types : SUBSET Type]]
    BY <1>1, <2>1
  <2>3. matches \in [Type -> 0..MaxMatches]
    BY <1>1
  <2>4. QED
    BY <1>1, <1>2, <2>2, <2>3 DEF SearchTypes
<1>5. Apart /\ Handful /\ Matched
  BY <1>1, <1>2, <1>3 DEF Apart, Sent, Handful, Matched, Sending
<1>6. QED
  BY <1>1, <1>2, <1>4, <1>5 DEF SearchInv, Finished, ResultsAreWhole

LEMMA WorkerTypes ==
  ASSUME SearchInv, NEW w \in Worker
  PROVE  worker[w].step \in {"take", "list", "send", "done"} /\ worker[w].types \subseteq Type
BY DEF SearchInv, SearchTypes

\* A worker steps: it takes a type, gives it up, or keeps it.
LEMMA TakeKeeps ==
  ASSUME SearchInv, NEW w \in Worker, Take(w)
  PROVE  SearchInv'
<1>1. PICK t \in jobs : jobs' = jobs \ {t} /\ worker' = [worker EXCEPT ![w] = At("list", {t})]
  BY DEF Take
<1>2. /\ worker[w].step = "take"
      /\ UNCHANGED <<matches, resultsCh, resultsClosed, results, gathered, expired>>
  BY DEF Take
<1>3. t \in Type
  BY <1>1 DEF SearchInv, SearchTypes
<1>4. SearchTypes'
  <2>1. At("list", {t}) \in [step : {"take", "list", "send", "done"}, types : SUBSET Type]
    BY <1>3 DEF At
  <2>2. QED
    BY <1>1, <1>2, <2>1 DEF SearchInv, SearchTypes
<1>5. \A v \in Worker : worker'[v] = IF v = w THEN At("list", {t}) ELSE worker[v]
  BY <1>1 DEF SearchInv, SearchTypes
<1>6. At("list", {t}).step = "list" /\ At("list", {t}).types = {t}
  BY DEF At
<1>7. Sent' = Sent
  BY <1>2 DEF Sent
<1>8. Apart'
  <2>1. jobs' \cap Sent = {} /\ jobs' \cap results = {} /\ Sent \cap results = {} /\ t \notin Sent \cup results
    BY <1>1 DEF SearchInv, Apart
  <2>2. \A v \in Worker : /\ t \notin worker[v].types
                         /\ worker[v].types \cap jobs' = {}
                         /\ worker[v].types \cap Sent = {} /\ worker[v].types \cap results = {}
    BY <1>1 DEF SearchInv, Apart
  <2>3. \A v \in Worker : /\ worker'[v].types \cap jobs' = {}
                         /\ worker'[v].types \cap Sent = {} /\ worker'[v].types \cap results = {}
    <3>1. t \notin jobs'
      BY <1>1
    <3>2. worker'[w].types = {t}
      BY <1>5, <1>6
    <3>3. {t} \cap jobs' = {} /\ {t} \cap Sent = {} /\ {t} \cap results = {}
      BY <2>1, <3>1
    <3>4. QED
      BY <1>5, <2>2, <3>2, <3>3
  <2>4. \A u, v \in Worker : \A s \in worker'[u].types : s \in worker'[v].types => u = v
    BY <1>5, <1>6, <2>2 DEF SearchInv, Apart
  <2>5. QED
    BY <1>2, <1>7, <2>1, <2>3, <2>4 DEF Apart
<1>9. Handful'
  BY <1>3, <1>5, <1>6 DEF SearchInv, Handful
<1>10. \A s \in Type : Sending(s)' <=> Sending(s)
  BY <1>2, <1>5, <1>6 DEF Sending
<1>11. Matched' /\ IsInjective(resultsCh)' /\ Finished' /\ ResultsAreWhole'
  <2>1. Matched'
    BY <1>2, <1>7, <1>10 DEF SearchInv, Matched
  <2>2. Finished'
    BY <1>2 DEF SearchInv, Finished
  <2>3. ResultsAreWhole'
    BY <1>2 DEF SearchInv, ResultsAreWhole, Count
  <2>4. QED
    BY <1>2, <2>1, <2>2, <2>3 DEF SearchInv
<1>12. QED
  BY <1>4, <1>8, <1>9, <1>11 DEF SearchInv

LEMMA GiveUpKeeps ==
  ASSUME SearchInv, NEW w \in Worker, NoMore(w) \/ ListFails(w)
  PROVE  SearchInv'
<1>1. PICK k \in {"take", "done"} : worker' = [worker EXCEPT ![w] = At(k, {})]
  BY DEF NoMore, ListFails
<1>2. /\ UNCHANGED <<jobs, matches, resultsCh, resultsClosed, results, gathered, expired>>
      /\ worker[w].step \in {"take", "list"}
  BY DEF NoMore, ListFails
<1>3. \A v \in Worker : worker'[v] = IF v = w THEN At(k, {}) ELSE worker[v]
  BY <1>1 DEF SearchInv, SearchTypes
<1>4. At(k, {}).step = k /\ At(k, {}).types = {}
      /\ At(k, {}) \in [step : {"take", "list", "send", "done"}, types : SUBSET Type]
  BY DEF At
<1>5. SearchTypes'
  BY <1>1, <1>2, <1>4 DEF SearchInv, SearchTypes
<1>6. Sent' = Sent
  BY <1>2 DEF Sent
<1>7. \A v \in Worker : worker'[v].types \subseteq worker[v].types
  BY <1>3, <1>4
<1>8. Apart'
  BY <1>2, <1>6, <1>7 DEF SearchInv, Apart
<1>9. Handful'
  BY <1>3, <1>4 DEF SearchInv, Handful
<1>10. \A s \in Type : Sending(s)' <=> Sending(s)
  BY <1>2, <1>3, <1>4 DEF Sending
<1>11. Matched'
  BY <1>2, <1>6, <1>10 DEF SearchInv, Matched
<1>12. Finished'
  BY <1>2, <1>3, <1>4 DEF SearchInv, Finished
<1>13. ResultsAreWhole'
  BY <1>2 DEF SearchInv, ResultsAreWhole, Count
<1>14. QED
  BY <1>2, <1>5, <1>8, <1>9, <1>11, <1>12, <1>13 DEF SearchInv

LEMMA ListedKeeps ==
  ASSUME SearchInv, NEW w \in Worker, TypeListed(w)
  PROVE  SearchInv'
<1>1. PICK t \in worker[w].types, n \in 0..MaxMatches :
        /\ matches' = [matches EXCEPT ![t] = n]
        /\ worker' = [worker EXCEPT ![w] = IF n > 0 THEN At("send", {t}) ELSE At("take", {})]
  BY DEF TypeListed
<1>2. /\ worker[w].step = "list" /\ ~expired
      /\ UNCHANGED <<jobs, resultsCh, resultsClosed, results, gathered, expired>>
  BY DEF TypeListed
<1>3. t \in Type /\ worker[w].types = {t}
  BY <1>2 DEF SearchInv, Handful
<1>4. PICK k : k = IF n > 0 THEN At("send", {t}) ELSE At("take", {})
  OBVIOUS
<1>5. /\ k \in [step : {"take", "list", "send", "done"}, types : SUBSET Type] /\ k.types \subseteq {t}
      /\ n > 0 => k.step = "send" /\ k.types = {t}
      /\ ~(n > 0) => k.step = "take" /\ k.types = {}
  BY <1>3, <1>4 DEF At
<1>6. \A v \in Worker : worker'[v] = IF v = w THEN k ELSE worker[v]
  BY <1>1, <1>4 DEF SearchInv, SearchTypes
<1>7. SearchTypes'
  <2>1. worker' = [worker EXCEPT ![w] = k]
    BY <1>1, <1>4
  <2>2. worker' \in [Worker -> [step : {"take", "list", "send", "done"}, types : SUBSET Type]]
    BY <1>5, <2>1 DEF SearchInv, SearchTypes
  <2>3. matches' \in [Type -> 0..MaxMatches]
    BY <1>1 DEF SearchInv, SearchTypes
  <2>4. QED
    BY <1>2, <2>2, <2>3 DEF SearchInv, SearchTypes
<1>8. Sent' = Sent
  BY <1>2 DEF Sent
<1>9. \A v \in Worker : worker'[v].types \subseteq worker[v].types
  BY <1>3, <1>5, <1>6
<1>10. Apart'
  BY <1>2, <1>8, <1>9 DEF SearchInv, Apart
<1>11. Handful'
  BY <1>3, <1>5, <1>6 DEF SearchInv, Handful
<1>12. \A s \in Type : matches'[s] = IF s = t THEN n ELSE matches[s]
  BY <1>1 DEF SearchInv, SearchTypes
<1>13. \A s \in Type \ {t} : Sending(s)' <=> Sending(s)
  BY <1>2, <1>3, <1>5, <1>6 DEF Sending
<1>14. t \notin results /\ t \notin Sent /\ \A v \in Worker \ {w} : t \notin worker[v].types
  BY <1>3 DEF SearchInv, Apart
<1>15. Sending(t)' <=> n > 0
  BY <1>5, <1>6, <1>14 DEF Sending
<1>16. Matched'
  <2>1. ASSUME NEW s \in Type
        PROVE  matches'[s] > 0 <=> (s \in results \/ s \in Sent \/ Sending(s)')
    <3>1. CASE s = t
      BY <1>12, <1>14, <1>15, <3>1
    <3>2. CASE s # t
      BY <1>12, <1>13, <3>2 DEF SearchInv, Matched
    <3>3. QED
      BY <3>1, <3>2
  <2>2. QED
    BY <1>2, <1>8, <2>1 DEF Matched
<1>17. ~gathered /\ ~resultsClosed
  BY <1>2 DEF SearchInv, Finished
<1>18. QED
  BY <1>2, <1>7, <1>10, <1>11, <1>16, <1>17 DEF SearchInv, Finished, ResultsAreWhole

LEMMA SendKeeps ==
  ASSUME SearchInv, NEW w \in Worker, SendResult(w)
  PROVE  SearchInv'
<1>1. PICK t \in worker[w].types : resultsCh' = Append(resultsCh, t)
  BY DEF SendResult
<1>2. /\ worker[w].step = "send" /\ worker' = [worker EXCEPT ![w] = At("take", {})]
      /\ UNCHANGED <<jobs, matches, resultsClosed, results, gathered, expired>>
  BY DEF SendResult
<1>3. t \in Type /\ worker[w].types = {t}
  BY <1>2 DEF SearchInv, Handful
<1>4. /\ t \notin jobs /\ t \notin results /\ t \notin Sent
      /\ \A v \in Worker \ {w} : t \notin worker[v].types
  BY <1>3 DEF SearchInv, Apart
<1>5. At("take", {}).step = "take" /\ At("take", {}).types = {}
      /\ At("take", {}) \in [step : {"take", "list", "send", "done"}, types : SUBSET Type]
  BY DEF At
<1>6. \A v \in Worker : worker'[v] = IF v = w THEN At("take", {}) ELSE worker[v]
  BY <1>2 DEF SearchInv, SearchTypes
<1>7. resultsCh' \in Seq(Type) /\ IsInjective(resultsCh)' /\ Sent' = Sent \cup {t}
  BY <1>1, <1>3, <1>4, SentOneMore DEF SearchInv, SearchTypes, Sent
<1>8. SearchTypes'
  BY <1>2, <1>5, <1>7 DEF SearchInv, SearchTypes
<1>9. Apart'
  <2>1. \A v \in Worker : /\ worker'[v].types \subseteq worker[v].types /\ t \notin worker'[v].types
    BY <1>4, <1>5, <1>6
  <2>2. QED
    BY <1>2, <1>4, <1>7, <2>1 DEF SearchInv, Apart
<1>10. Handful'
  BY <1>5, <1>6 DEF SearchInv, Handful
<1>11. \A s \in Type \ {t} : Sending(s)' <=> Sending(s)
  BY <1>2, <1>3, <1>5, <1>6 DEF Sending
<1>12. Sending(t)
  BY <1>2 DEF Sending
<1>13. Matched'
  BY <1>2, <1>3, <1>7, <1>11, <1>12 DEF SearchInv, Matched
<1>14. Finished'
  BY <1>2, <1>5, <1>6 DEF SearchInv, Finished
<1>15. ResultsAreWhole'
  BY <1>2 DEF SearchInv, ResultsAreWhole, Count
<1>16. QED
  BY <1>7, <1>8, <1>9, <1>10, <1>13, <1>14, <1>15 DEF SearchInv

-------------------------------------------------------------------------------
\* The caller collects, and returns with what it has.
LEMMA CollectKeeps == ASSUME SearchInv, Collect PROVE SearchInv'
<1>1. /\ ~gathered /\ resultsCh # <<>> /\ resultsCh' = Tail(resultsCh)
      /\ results' = results \cup {Head(resultsCh)}
      /\ gathered' = (Count(results') >= Enough)
      /\ expired' = (expired \/ gathered')
      /\ UNCHANGED <<jobs, worker, matches, resultsClosed>>
  BY DEF Collect
<1>2. PICK t \in Type : t = Head(resultsCh) /\ Sent = Sent' \cup {t} /\ t \notin Sent'
  BY <1>1, SentOneLess DEF SearchInv, SearchTypes, Sent
<1>3. resultsCh' \in Seq(Type) /\ IsInjective(resultsCh)'
  BY <1>1, SentOneLess DEF SearchInv, SearchTypes
<1>4. SearchTypes'
  BY <1>1, <1>2, <1>3 DEF SearchInv, SearchTypes
<1>5. Apart'
  BY <1>1, <1>2 DEF SearchInv, Apart
<1>6. Handful'
  BY <1>1 DEF SearchInv, Handful
<1>7. Matched'
  BY <1>1, <1>2 DEF SearchInv, Matched, Sending
<1>8. Finished'
  BY <1>1 DEF SearchInv, Finished
<1>9. ResultsAreWhole'
  BY <1>1 DEF ResultsAreWhole, Count
<1>10. QED
  BY <1>3, <1>4, <1>5, <1>6, <1>7, <1>8, <1>9 DEF SearchInv

LEMMA OthersKeep ==
  ASSUME SearchInv, CloseResults \/ Exhausted \/ SearchExpires \/ UNCHANGED searchVars
  PROVE  SearchInv'
<1>1. UNCHANGED <<jobs, worker, matches, resultsCh, results>>
  BY DEF CloseResults, Exhausted, SearchExpires, searchVars
<1>2. Sent' = Sent /\ \A t \in Type : Sending(t)' <=> Sending(t)
  BY <1>1 DEF Sent, Sending
<1>3. SearchTypes'
  BY <1>1 DEF SearchInv, SearchTypes, CloseResults, Exhausted, SearchExpires, searchVars
<1>4. IsInjective(resultsCh)' /\ Apart' /\ Handful' /\ Matched'
  BY <1>1, <1>2 DEF SearchInv, Apart, Handful, Matched
<1>5. Finished'
  BY <1>1 DEF SearchInv, Finished, CloseResults, Exhausted, SearchExpires, searchVars
<1>6. ResultsAreWhole'
  <2>1. CASE Exhausted
    <3>1. \A w \in Worker : worker[w].step = "done"
      BY <2>1 DEF SearchInv, Finished, Exhausted
    <3>2. Sent = {}
      <4>1. resultsCh = <<>> /\ Len(<<>>) = 0
        BY <2>1 DEF Exhausted
      <4>2. QED
        BY <4>1 DEF Sent, Elements
    <3>3. results = {t \in Type : matches[t] > 0}
      BY <3>1, <3>2 DEF SearchInv, SearchTypes, Matched, Sending
    <3>4. QED
      BY <1>1, <3>3 DEF ResultsAreWhole
  <2>2. CASE UNCHANGED gathered
    BY <1>1, <2>2 DEF SearchInv, ResultsAreWhole, Count
  <2>3. QED
    BY <2>1, <2>2 DEF CloseResults, SearchExpires, searchVars
<1>7. QED
  BY <1>3, <1>4, <1>5, <1>6 DEF SearchInv

\* The invariant, of every behaviour.
THEOREM SearchInvariant == SearchSpec => []SearchInv
<1>1. SearchInv /\ [SearchNext]_searchVars => SearchInv'
  <2> SUFFICES ASSUME SearchInv, [SearchNext]_searchVars PROVE SearchInv'
    OBVIOUS
  <2>1. ASSUME NEW w \in Worker, Work(w) PROVE SearchInv'
    BY <2>1, TakeKeeps, GiveUpKeeps, ListedKeeps, SendKeeps DEF Work
  <2>2. QED
    BY <2>1, CollectKeeps, OthersKeep DEF SearchNext, Searched
<1>2. QED
  BY <1>1, SearchStarts, PTL DEF SearchSpec

\* A search that returns below its limit has every type with a match, and no result is
\* told twice (app.go:270-346).
THEOREM SearchIsWhole == SearchSpec => []SearchSafe
<1>1. SearchInv => SearchSafe
  <2> SUFFICES ASSUME SearchInv PROVE SearchSafe
    OBVIOUS
  <2>1. \A w \in Worker : /\ worker[w].step \in {"take", "list", "send", "done"}
                          /\ worker[w].types \subseteq Type
    BY WorkerTypes
  <2>2. QED
    BY <2>1 DEF SearchSafe, SearchTypeOK, SearchInv, SearchTypes
<1>2. QED
  BY <1>1, SearchInvariant, PTL
=================================================================================
