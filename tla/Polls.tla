---------------------------------- MODULE Polls ----------------------------------
(***************************************************************************)
(* The pages, panels and hooks that ask the backend for something and show *)
(* the answer, once, whenever what they show changes, or again and again.  *)
(*                                                                         *)
(* They are one small machine with a few switches: calls overlap when an   *)
(* answer takes longer than the user or the timer, and what happens to a   *)
(* late answer depends on the guard the component has, or has not.  One    *)
(* component is taken at a time; they share nothing.                       *)
(***************************************************************************)
EXTENDS Naturals, Sequences, SequencesExt

CONSTANTS Key,        \* namespaces, pods, clusters, filters: what is asked for
          NoKey,      \* none is chosen
          MaxPolls,   \* bound: calls under way
          MaxMisses   \* MAX_CONSECUTIVE_ERRORS

ASSUME PollsAssumption == NoKey \notin Key /\ Key # {} /\ {MaxPolls, MaxMisses} \subseteq Nat \ {0}

VARIABLES
  widget,      \* the component
  mounted,
  key,         \* what it is to show
  polled,      \* what its data was read for, and whether by its last call
  pollFailed,  \* the last answer it took was an error
  pollLoading,
  misses,      \* consecutiveErrors
  ticking,     \* its interval timer is set
  polls        \* its calls under way, in the order they were made

pollVars == <<widget, mounted, key, polled, pollFailed, pollLoading, misses, ticking, polls>>

-----------------------------------------------------------------------------
\* keyed: what it asks for can be changed while it is mounted (a pod that is
\* named by the path cannot: its page is mounted anew).
\* auto: it asks when it is mounted and when that changes; else only when told.
\* guard: an answer counts unless its call was "cancelled" by a change, only when
\* it is to the "latest" call, or always.
\* clears: a change empties what is shown.   manual: it can be told to ask again.
\* ticks: it asks again from a timer.        gives: it gives up after MaxMisses.
\* spins: when "loading" is set: by each call, only at first, never.
\* blank: what it does with no key: that cannot be, it stops loading, it empties
\* itself, or both, or neither.
Once == [keyed |-> FALSE, auto |-> TRUE, guard |-> "none", clears |-> FALSE, manual |-> FALSE,
         ticks |-> FALSE, gives |-> FALSE, spins |-> "call", blank |-> "never"]
Cancels == [Once EXCEPT !.keyed = TRUE, !.guard = "cancelled"]

GitOps          == Once
SecurityPage    == Once
RBACGraph       == Once
NetworkGraph    == Once
TemplateList    == [Once EXCEPT !.spins = "never"]
Alerts          == [Once EXCEPT !.guard = "cancelled"]
AuditPage       == Cancels
PodMetrics      == [Cancels EXCEPT !.ticks = TRUE, !.gives = TRUE, !.spins = "first"]
MetricsHistory  == [PodMetrics EXCEPT !.keyed = FALSE]
ResourceCounts  == [Cancels EXCEPT !.spins = "never", !.blank = "neither"]
TroubleNames    == [Cancels EXCEPT !.blank = "both"]
PodChoice       == [Cancels EXCEPT !.blank = "empties"]
ClusterSummary  == [Once EXCEPT !.keyed = TRUE, !.manual = TRUE, !.blank = "stops",
                                !.guard = "latest"]
EventsTab       == [Once EXCEPT !.keyed = TRUE, !.ticks = TRUE, !.manual = TRUE]
HelmReleases    == [Once EXCEPT !.keyed = TRUE, !.manual = TRUE]
Investigation   == [Once EXCEPT !.keyed = TRUE, !.manual = TRUE, !.auto = FALSE]
TemplateRender  == [Investigation EXCEPT !.clears = TRUE]
ChartSearch     == Investigation

KindOf == [gitops |-> GitOps, security |-> SecurityPage, rbac |-> RBACGraph, network |-> NetworkGraph,
           templates |-> TemplateList, alerts |-> Alerts, audit |-> AuditPage,
           history |-> MetricsHistory, metrics |-> PodMetrics, counts |-> ResourceCounts,
           names |-> TroubleNames, pods |-> PodChoice, summary |-> ClusterSummary, events |-> EventsTab,
           helm |-> HelmReleases, investigation |-> Investigation, render |-> TemplateRender,
           charts |-> ChartSearch]
P == KindOf[widget]

NoData == [key |-> NoKey, last |-> FALSE]
PollCall(k) == [key |-> k, live |-> TRUE, last |-> TRUE, stage |-> "asked"]

PollsTypeOK ==
  /\ widget \in DOMAIN KindOf /\ {mounted, pollFailed, pollLoading, ticking} \subseteq BOOLEAN
  /\ key \in Key \cup {NoKey} /\ polled \in [key : Key \cup {NoKey}, last : BOOLEAN]
  /\ misses \in 0..MaxMisses + MaxPolls
  /\ Len(polls) <= MaxPolls
  /\ \A i \in DOMAIN polls :
       polls[i] \in [key : Key, live : BOOLEAN, last : BOOLEAN, stage : {"asked", "done", "failed"}]

PollsInit ==
  /\ widget \in DOMAIN KindOf
  /\ mounted = FALSE /\ key = NoKey /\ polled = NoData
  /\ pollFailed = FALSE /\ pollLoading = FALSE /\ misses = 0 /\ ticking = FALSE
  /\ polls = <<>>

-----------------------------------------------------------------------------
Each(s, Op(_)) == [i \in DOMAIN s |-> Op(s[i])]
Overtaken(s) == Each(s, LAMBDA c : [c EXCEPT !.last = FALSE])

\* Cleanup of an effect: its calls count no more, if it has a flag for that.
Forgotten(s) == Each(s, LAMBDA c : [c EXCEPT !.live = FALSE])

Asked(s, k) == Append(Overtaken(s), PollCall(k))

\* The effect that reads: on mount and after a change of what is asked for.
Read(k) ==
  /\ Len(polls) < MaxPolls
  /\ polls' = Asked(Forgotten(polls), k)
  /\ pollLoading' = (pollLoading \/ P.spins = "call")
  /\ misses' = 0
  /\ ticking' = P.ticks

MountPoll(k) ==
  /\ ~mounted
  /\ mounted' = TRUE /\ key' = k
  /\ polled' = NoData /\ pollFailed' = FALSE
  /\ IF P.auto
     THEN /\ Len(polls) < MaxPolls
          /\ polls' = Asked(Forgotten(polls), k)
          /\ pollLoading' = (P.spins # "never") /\ misses' = 0 /\ ticking' = P.ticks
     ELSE pollLoading' = FALSE /\ misses' = 0 /\ UNCHANGED <<polls, ticking>>
  /\ UNCHANGED widget

\* The summary asks again when its cluster becomes connected: another cluster
\* is "connecting" before it is that.
Change(k) ==
  /\ mounted /\ P.keyed /\ k # key
  /\ widget = "summary" => key = NoKey
  /\ key' = k
  /\ polled' = IF P.clears THEN NoData ELSE [polled EXCEPT !.last = FALSE]
  /\ pollFailed' = (pollFailed /\ ~P.auto)
  /\ IF P.auto THEN Read(k) ELSE UNCHANGED <<polls, pollLoading, misses, ticking>>
  /\ UNCHANGED <<widget, mounted>>

\* Mutant: with nothing to ask for, the effect returns at once.
StopsLoadingNever == FALSE
StopsLoading == P.blank \in {"stops", "both"}

\* Nothing is chosen any more, the cluster is not connected.
Clear ==
  /\ mounted /\ P.blank # "never" /\ key # NoKey
  /\ key' = NoKey
  /\ polled' = IF P.blank \in {"empties", "both"} THEN NoData ELSE polled
  /\ pollLoading' = (pollLoading /\ ~StopsLoading)
  /\ polls' = Forgotten(polls)
  /\ UNCHANGED <<widget, mounted, pollFailed, misses, ticking>>

TimerCleared == FALSE

Unmount ==
  /\ mounted
  /\ mounted' = FALSE
  /\ polls' = Forgotten(polls)
  /\ ticking' = TimerCleared
  /\ UNCHANGED <<widget, key, polled, pollFailed, pollLoading, misses>>

\* The button, which is disabled while it loads, or an operation that succeeded.
Again ==
  /\ mounted /\ P.manual /\ key # NoKey /\ Len(polls) < MaxPolls
  /\ (P.auto \/ ~pollLoading)
  /\ polls' = Asked(polls, key)
  /\ pollLoading' = TRUE /\ pollFailed' = FALSE
  /\ polled' = [polled EXCEPT !.last = FALSE]
  /\ UNCHANGED <<widget, mounted, key, misses, ticking>>

Tick ==
  /\ ticking /\ Len(polls) < MaxPolls
  /\ polls' = Asked(polls, key)
  /\ pollLoading' = (pollLoading \/ P.spins = "call")
  /\ polled' = [polled EXCEPT !.last = FALSE]
  /\ UNCHANGED <<widget, mounted, key, pollFailed, misses, ticking>>

-----------------------------------------------------------------------------
\* The backend answers a call, or it fails; a count that fails is zero.
PollServed(i) ==
  /\ polls[i].stage = "asked"
  /\ \E st \in {"done", "failed"} :
       /\ widget = "counts" => st = "done"
       /\ polls' = [polls EXCEPT ![i].stage = st]
  /\ UNCHANGED <<widget, mounted, key, polled, pollFailed, pollLoading, misses, ticking>>

CallCounts(c) ==
  CASE P.guard = "cancelled" -> c.live
    [] P.guard = "latest"    -> c.last
    [] OTHER                 -> TRUE

Enough == P.gives /\ misses' >= MaxMisses

\* The continuation of a call.  One of a component that is gone changes nothing.
Take(i) ==
  LET c == polls[i] IN
  /\ c.stage # "asked"
  /\ polls' = RemoveAt(polls, i)
  /\ IF mounted /\ CallCounts(c)
     THEN /\ pollFailed' = (c.stage = "failed")
          /\ polled' = IF c.stage = "done" THEN [key |-> c.key, last |-> c.last] ELSE polled
          /\ pollLoading' = FALSE
          /\ misses' = IF c.stage = "done" \/ ~P.gives THEN 0 ELSE misses + 1
          /\ ticking' = (ticking /\ ~Enough)
     ELSE UNCHANGED <<pollFailed, polled, pollLoading, misses, ticking>>
  /\ UNCHANGED <<widget, mounted, key>>

-----------------------------------------------------------------------------
PollsNext ==
  \/ \E k \in Key : MountPoll(k) \/ Change(k)
  \/ Clear \/ Unmount \/ Again \/ Tick
  \/ \E i \in DOMAIN polls : PollServed(i) \/ Take(i)

PollsSpec == PollsInit /\ [][PollsNext]_pollVars

\* Calls are answered, the oldest at the latest, and their continuations run.
PollsFairness == WF_pollVars(polls # <<>> /\ (PollServed(1) \/ Take(1)))

-----------------------------------------------------------------------------
Settled == mounted /\ key # NoKey /\ ~pollFailed /\ \A i \in DOMAIN polls : ~polls[i].live

\* A component that guards its answers shows, when none is under way, what was
\* read for the namespace, pod or filter of now: not what came last.
SettledIsKey == Settled /\ P.auto /\ P.guard # "none" => polled.key = key

\* The summary that is shown when the spinner stops is by the last refresh.
SummaryIsNewest ==
  widget = "summary" /\ mounted /\ key # NoKey /\ ~pollLoading /\ ~pollFailed => polled.last

\* No timer outlives its component, or the errors after which it gives up.
TimerIsWanted == ticking => mounted /\ (P.gives => misses < MaxMisses)

\* Every component comes to rest when the user does, except the pod picker, which a namespace that
\* is cleared while its pods load leaves loading.
LoadingEnds ==
  <>[][key' = key /\ ~Again]_pollVars => []<>(~pollLoading \/ ~mounted \/ widget = "pods")

\* What is polled is what is shown, for as long as it is wanted.
PollsCorrect ==
  [](PollsTypeOK /\ SettledIsKey /\ SummaryIsNewest /\ TimerIsWanted) /\ LoadingEnds
==================================================================================
