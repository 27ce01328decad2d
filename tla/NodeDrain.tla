------------------------------- MODULE NodeDrain -------------------------------
(***************************************************************************)
(* DrainNode (handlers/resource_handler.go) after the node is cordoned and *)
(* its pods are listed and filtered: one goroutine per pod asks for its    *)
(* eviction, a semaphore bounds them, and without force the first error    *)
(* ends the rest.                                                          *)
(***************************************************************************)
EXTENDS Naturals, FiniteSets

CONSTANTS Pod,       \* toEvict
          MaxEvicts  \* capacity of the semaphore (maxConcurrentEvictions)

ASSUME DrainAssumption == IsFiniteSet(Pod) /\ MaxEvicts \in Nat \ {0}

VARIABLES
  force,     \* the user's choice
  queued,    \* pods the loop has not come to
  atSem,     \* the pod it is at, past the check of the context
  evicting,  \* goroutines that ask the API server
  evicted,   \* pods whose eviction was accepted
  errs,      \* pods whose eviction was refused or not made
  onTheWay,  \* goroutines that had asked when evictCtx ended
  ctxDone,   \* evictCtx has ended: an error without force, or the timeout
  timedOut,  \* the five minutes are over
  drained    \* what DrainNode returned: "none" yet, "nil" or "error"

drainVars == <<force, queued, atSem, evicting, evicted, errs, onTheWay, ctxDone, timedOut, drained>>

DrainInit == /\ force \in BOOLEAN
             /\ queued = Pod /\ atSem = {}
             /\ evicting = {} /\ evicted = {} /\ errs = {} /\ onTheWay = {}
             /\ ctxDone = FALSE /\ timedOut = FALSE /\ drained = "none"

-------------------------------------------------------------------------------
\* The loop looks whether it should stop, ...
Consider == /\ queued # {} /\ atSem = {} /\ ~ctxDone
            /\ \E p \in queued : /\ atSem' = {p}
                                 /\ queued' = queued \ {p}
            /\ UNCHANGED <<force, evicting, evicted, errs, onTheWay, ctxDone, timedOut, drained>>

Break == /\ queued # {} /\ atSem = {} /\ ctxDone
         /\ queued' = {}
         /\ UNCHANGED <<force, atSem, evicting, evicted, errs, onTheWay, ctxDone, timedOut, drained>>

\* ... waits for a place in the semaphore, and starts the goroutine without another look.
Launch == /\ atSem # {} /\ Cardinality(evicting) < MaxEvicts
          /\ evicting' = evicting \cup atSem
          /\ atSem' = {}
          /\ UNCHANGED <<force, queued, evicted, errs, onTheWay, ctxDone, timedOut, drained>>

\* The server accepts an eviction whose context is good; it may do so when the
\* context ends while the request is on its way.
Accepted(p) == /\ p \in evicting \ errs
               /\ ~ctxDone \/ p \in onTheWay
               /\ evicted' = evicted \cup {p}
               /\ evicting' = evicting \ {p}
               /\ UNCHANGED <<force, queued, atSem, errs, onTheWay, ctxDone, timedOut, drained>>

EndContext == /\ ctxDone' = TRUE
              /\ onTheWay' = IF ctxDone THEN onTheWay ELSE evicting'

RefusedUnnoted(p) ==  \* faulty: without force, only cancels
  /\ p \in evicting \ errs
  /\ errs' = IF force THEN errs \cup {p} ELSE errs
  /\ evicting' = evicting \ {p}
  /\ IF force THEN UNCHANGED <<ctxDone, onTheWay>> ELSE EndContext
  /\ UNCHANGED <<force, queued, atSem, evicted, timedOut, drained>>

RefusedGoesOn(p) ==  \* faulty: never cancels
  /\ p \in evicting \ errs
  /\ errs' = errs \cup {p}
  /\ evicting' = evicting \ {p}
  /\ UNCHANGED <<force, queued, atSem, evicted, onTheWay, ctxDone, timedOut, drained>>

\* An error is noted under the lock ...
RefusedEviction(p) ==
  /\ p \in evicting \ errs
  /\ errs' = errs \cup {p}
  /\ evicting' = IF force THEN evicting \ {p} ELSE evicting
  /\ UNCHANGED <<force, queued, atSem, evicted, onTheWay, ctxDone, timedOut, drained>>

\* ... and, without force, ends the context of all after it.
EvictCancel(p) ==
  /\ p \in evicting \cap errs
  /\ evicting' = evicting \ {p}
  /\ EndContext
  /\ UNCHANGED <<force, queued, atSem, evicted, errs, timedOut, drained>>

Timeout == /\ ~timedOut /\ drained = "none"
           /\ timedOut' = TRUE
           /\ UNCHANGED <<force, queued, atSem, evicting, evicted, errs, drained>>
           /\ EndContext

\* The loop is over and wg.Wait returns.
DrainReturns == /\ queued = {} /\ atSem = {} /\ evicting = {} /\ drained = "none"
                /\ drained' = IF errs = {} THEN "nil" ELSE "error"
                /\ UNCHANGED <<force, queued, atSem, evicting, evicted, errs, onTheWay, ctxDone, timedOut>>

Drained == drained # "none" /\ UNCHANGED drainVars

DrainNext == \/ Consider \/ Break \/ Launch \/ DrainReturns \/ Timeout
             \/ \E p \in Pod : Accepted(p) \/ RefusedEviction(p) \/ EvictCancel(p)
             \/ Drained

DrainSpec == DrainInit /\ [][DrainNext]_drainVars

-------------------------------------------------------------------------------
DrainTypeOK == /\ force \in BOOLEAN /\ ctxDone \in BOOLEAN /\ timedOut \in BOOLEAN
               /\ Cardinality(atSem) <= 1 /\ Cardinality(evicting) <= MaxEvicts
               /\ drained \in {"none", "nil", "error"}
               /\ Pod = UNION {queued, atSem, evicting, evicted, errs} \/ ctxDone
               /\ onTheWay \subseteq Pod

\* A drain that reports success and was not cut off by its timeout has evicted every
\* pod it set out to evict (resource_handler.go:787-806).
SuccessIsWhole == drained = "nil" /\ ~timedOut => evicted = Pod

\* Without force, an error stops the drain: once the goroutine that had it is over, no
\* pod is evicted but those whose eviction was on its way (resource_handler.go:758-800).
ErrorStops == [][~force /\ errs \ evicting # {} => evicted' \ evicted \subseteq onTheWay]_drainVars
================================================================================
