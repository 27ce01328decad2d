------------------------------- MODULE Timeline --------------------------------
(***************************************************************************)
(* The change timeline (internal/troubleshoot/timeline.go): a ring of      *)
(* RingSize records, written by every watch (resource_handler.go) and      *)
(* read by investigations, under one lock.                                 *)
(***************************************************************************)
EXTENDS Naturals, Sequences

CONSTANTS RingSize,      \* maxEntries
          ChangeRecord,  \* what a watch records
          NoRecord       \* a place that was never written

ASSUME TimelineAssumption == RingSize \in Nat \ {0} /\ NoRecord \notin ChangeRecord

VARIABLES ring,   \* entries
          head,   \* the place of the next record
          count   \* how many places are filled

timelineVars == <<ring, head, count>>

TimelineInit == /\ ring = [i \in 0..RingSize - 1 |-> NoRecord]
                /\ head = 0
                /\ count = 0

Record(r) == /\ ring' = [ring EXCEPT ![head] = r]
             /\ head' = (head + 1) % RingSize
             /\ count' = IF count < RingSize THEN count + 1 ELSE count

\* iterate: from the oldest to the newest.
StartAtHead == head  \* faulty: a ring that is not full begins at 0
Oldest == IF count = RingSize THEN head ELSE 0

Iterate == [i \in 1..count |-> ring[(Oldest + i - 1) % RingSize]]

TimelineNext == \E r \in ChangeRecord : Record(r)

TimelineSpec == TimelineInit /\ [][TimelineNext]_timelineVars

-------------------------------------------------------------------------------
TimelineTypeOK == /\ ring \in [0..RingSize - 1 -> ChangeRecord \cup {NoRecord}]
                  /\ head \in 0..RingSize - 1
                  /\ count \in 0..RingSize
                  /\ count < RingSize => head = count
                  /\ \A i \in 0..RingSize - 1 : i < count => ring[i] # NoRecord

\* A reader gets the last RingSize changes in their order, also after the ring
\* has gone round (timeline.go:27-36, 64-73).
Recent == INSTANCE RecentChanges WITH kept <- Iterate, MaxEntries <- RingSize
ImplementsRecent == Recent!RecentSpec
================================================================================
