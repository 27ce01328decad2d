------------------------------ MODULE DetailPages ------------------------------
(***************************************************************************)
(* The pages of the window that show one resource: ui/src/pages, the list  *)
(* pages with a detail panel (deployments, pods, services, nodes), custom  *)
(* resource definitions, a secret and a Helm release.                      *)
(*                                                                         *)
(* A page belongs to one path: AppShell.tsx:32 mounts another one whenever *)
(* the path changes, and what the page before waits for changes nothing    *)
(* any more, so that its calls are dropped here.  What outlives it is the  *)
(* selection store, by which the bottom tray knows its resource, and the   *)
(* selected namespace.  While a page stays, its calls overlap: a call is   *)
(* sent, the cluster serves it, and its continuation runs later.  The      *)
(* cleanup of an effect sets "cancelled", at which a continuation looks    *)
(* or does not; one that does nothing any more is dropped as well.         *)
(***************************************************************************)
EXTENDS FiniteSets, Naturals

CONSTANTS Item,      \* resources (or releases) a path can name
          Key,       \* keys of a secret
          None,      \* no resource, no button
          MaxCalls   \* bound: calls under way

ASSUME PageAssumption == None \notin Item \cup Key /\ MaxCalls \in Nat \ {0}

VARIABLES
  page,      \* the mounted page
  route,     \* the resource its path names
  sel,       \* the resource its panel is for; of crds: the selected definition
  input,     \* what a load depends on but the resource: the namespace, nodeAggregates
  shown,     \* detail, secret, release, instances: whose data, for which input, by which call
  loading,   \* detailLoading, loading, instancesLoading
  failed,    \* detailError, error, instancesError
  tab,       \* the tab of the panel
  busy,      \* pauseLoading, taintLoading, revealingKey
  mark,      \* what the data says: the deployment is paused, the node has a taint
  revealed,  \* revealedKeys
  diff,      \* diffView
  pick,      \* selectionStore: the resource the bottom tray works on, and who chose it
  calls      \* calls under way

place == <<page, route, sel, input>>
panel == <<shown, loading, failed, mark>>
extra == <<revealed, diff>>
pageVars == <<place, panel, extra, tab, busy, pick, calls>>

NoData == [item |-> None, input |-> 0, by |-> "load"]
NoPick == [of |-> "none", name |-> None]

-----------------------------------------------------------------------------
\* The pages.  waits: loading = TRUE when it is mounted; whole: while it loads it
\* shows nothing; picks: it writes the selection store; reloads: its load has
\* inputs other than the resource.  The continuation of a load looks at
\* "cancelled", except on the page of a release.
DeploymentPage == [waits |-> FALSE, whole |-> FALSE, picks |-> TRUE, reloads |-> FALSE]
PodPage        == DeploymentPage
ServicePage    == DeploymentPage
NodePage       == [DeploymentPage EXCEPT !.reloads = TRUE]
CRDPage        == [NodePage EXCEPT !.whole = TRUE, !.picks = FALSE]
SecretPage     == [DeploymentPage EXCEPT !.waits = TRUE, !.whole = TRUE, !.picks = FALSE]
ReleasePage    == SecretPage

PageOf == [deployments |-> DeploymentPage, pods |-> PodPage, services |-> ServicePage,
           nodes |-> NodePage, crds |-> CRDPage, secret |-> SecretPage, release |-> ReleasePage]
Pages  == DOMAIN PageOf

\* A secret and a release have a page of their own: their path names one.
AlwaysNamed == {"secret", "release"}

Tabs == {"Overview", "History", "YAML", "Instances"}

Call == [id : 1..MaxCalls,
         op : {"load", "history", "pause", "resume", "apply", "diff", "addTaint",
               "removeTaint", "refresh", "reveal", "rollback", "upgrade"},
         of : Item \cup Key,   \* what it names
         input : 0..1,         \* what its continuation knows of the input
         stage : {"sent", "done", "refused"},
         val : BOOLEAN]        \* of a load that is answered: the mark

\* The calls kept, and a new one.
Room(kept) == Cardinality(kept) < MaxCalls
Send(kept, op, of) ==
  kept \cup {[id |-> CHOOSE i \in 1..MaxCalls : \A c \in kept : c.id # i, op |-> op, of |-> of,
              input |-> input, stage |-> "sent", val |-> FALSE]}

PagesTypeOK ==
  /\ page \in Pages
  /\ {route, sel} \subseteq Item \cup {None}
  /\ input \in 0..1
  /\ shown \in [item : Item \cup {None}, input : 0..1, by : {"load", "refresh"}]
  /\ loading \in BOOLEAN /\ failed \in BOOLEAN /\ mark \in BOOLEAN /\ diff \in BOOLEAN
  /\ tab \in Tabs
  /\ busy \in Key \cup {None, "rollout", "taint"}
  /\ revealed \subseteq Key
  /\ pick \in [of : Pages \cup {"row", "none"}, name : Item \cup {None}]
  /\ calls \subseteq Call

PagesInit ==
  /\ page = "pods" /\ route = None /\ sel = None /\ input = 0
  /\ shown = NoData /\ loading = FALSE /\ failed = FALSE /\ mark = FALSE
  /\ tab = "Overview" /\ busy = None /\ revealed = {} /\ diff = FALSE
  /\ pick = NoPick /\ calls = {}

-----------------------------------------------------------------------------
\* A panel is drawn, not "Loading...", an error, or none: the list pages keep
\* the detail they have while the next load runs (detailLoading && !detail).
ListPanel   == shown.item # None /\ ~failed
SecretView  == shown.item # None /\ ~failed /\ ~loading
ReleaseView == shown.item # None /\ ~loading

Drawn == CASE page = "secret"  -> SecretView
           [] page = "release" -> ReleaseView
           [] page = "crds"    -> sel # None
           [] OTHER            -> ListPanel

\* The effect that writes the selection store, when there is data, or no name.
Picked(p, i, hasData) ==
  IF ~PageOf[p].picks THEN pick
  ELSE IF i = None THEN NoPick
  ELSE IF hasData THEN [of |-> p, name |-> i] ELSE pick

\* Mutant: a load whose effect was cleaned up goes on as the others do.
CleanedNot == calls

\* What is left of the calls when the effect that loads is cleaned up.
Cleaned == {c \in calls : c.op # "load"}

-----------------------------------------------------------------------------
\* Another path: its page is mounted with fresh state, and loads what is named.
\* The instances of a definition are loaded when their tab is opened.
Mount(p, i) ==
  /\ <<p, i>> # <<page, route>>
  /\ p \in AlwaysNamed => i # None
  /\ page' = p /\ route' = i /\ sel' = i
  /\ shown' = NoData /\ failed' = FALSE /\ mark' = FALSE /\ tab' = "Overview"
  /\ busy' = None /\ revealed' = {} /\ diff' = FALSE
  /\ LET loads == i # None /\ p # "crds"
     IN  /\ loading' = (PageOf[p].waits \/ loads)
         /\ calls' = IF loads THEN Send({}, "load", i) ELSE {}
  /\ pick' = Picked(p, i, FALSE)
  /\ UNCHANGED input

\* A row of the list of definitions is clicked, or the panel is closed; where the
\* path names a definition an effect selects that one again.  The panel stays
\* mounted for another definition: the tab goes back to the overview and the
\* instances go, but the load that the effect of the open tab starts for the new
\* one is cancelled at once and leaves instancesLoading.
SelectCRD(i) ==
  /\ page = "crds" /\ i # sel
  /\ sel' = IF route = None THEN i ELSE route
  /\ tab' = "Overview" /\ shown' = NoData
  /\ calls' = Cleaned
  /\ LET stays == sel # None /\ i # None
     IN  /\ loading' = (stays /\ (loading \/ tab = "Instances"))
         /\ failed' = (stays /\ failed /\ tab # "Instances")
  /\ UNCHANGED <<page, route, input, mark, extra, busy, pick>>

\* The tab of a definition's instances is opened, which loads them, or left.
InstancesTab ==
  /\ page = "crds" /\ sel # None
  /\ IF tab = "Overview"
     THEN /\ Room(calls)
          /\ tab' = "Instances" /\ loading' = TRUE /\ failed' = FALSE
          /\ calls' = Send(calls, "load", sel)
     ELSE /\ tab' = "Overview"
          /\ calls' = Cleaned /\ UNCHANGED <<loading, failed>>
  /\ UNCHANGED <<place, shown, mark, extra, busy, pick>>

\* A tab of a deployment's panel; the rollout history is loaded each time.
SelectTab(t) ==
  /\ page = "deployments" /\ Drawn /\ t # tab
  /\ tab' = t
  /\ IF t = "History"
     THEN Room(calls) /\ calls' = Send(calls, "history", sel)
     ELSE UNCHANGED calls
  /\ UNCHANGED <<place, panel, extra, busy, pick>>

\* The selected namespace changes, or the pods and their metrics: a load that
\* depends on them is cancelled and started anew.
Reload ==
  /\ input' = 1 - input
  /\ IF PageOf[page].reloads /\ sel # None /\ (page = "crds" => tab = "Instances")
     THEN /\ Room(Cleaned)
          /\ calls' = {[c EXCEPT !.input = IF c.op = "load" THEN input' ELSE @] :
                         c \in Send(Cleaned, "load", sel)}
          /\ loading' = TRUE /\ failed' = FALSE
     ELSE UNCHANGED <<calls, loading, failed>>
  /\ UNCHANGED <<page, route, sel, shown, mark, extra, tab, busy, pick>>

\* "View logs", "Open shell" in the menu of a row: the store names that row's pod.
PickRow(i) ==
  /\ page \in {"pods", "nodes"}
  /\ pick' = [of |-> "row", name |-> i]
  /\ UNCHANGED <<place, panel, extra, tab, busy, calls>>

-----------------------------------------------------------------------------
\* What the user does in a panel.
Act(op, of) ==
  /\ Drawn /\ Room(calls)
  /\ calls' = Send(calls, op, of)
  /\ UNCHANGED <<place, panel, extra, tab, pick>>

\* Pause and resume: the panel offers the one its own copy of the flag calls for.
Pause  == page = "deployments" /\ busy = None /\ ~mark /\ busy' = "rollout" /\ Act("pause", sel)
Resume == page = "deployments" /\ busy = None /\ mark /\ busy' = "rollout" /\ Act("resume", sel)

\* Apply and preview in the editor of the YAML tab.
ApplyYAML   == page = "deployments" /\ tab = "YAML" /\ ~diff /\ UNCHANGED busy /\ Act("apply", sel)
PreviewYAML == page = "deployments" /\ tab = "YAML" /\ ~diff /\ UNCHANGED busy /\ Act("diff", sel)
CloseDiff ==
  /\ page = "deployments" /\ Drawn /\ tab = "YAML" /\ diff
  /\ diff' = FALSE
  /\ UNCHANGED <<place, panel, revealed, tab, busy, pick, calls>>

AddTaint    == page = "nodes" /\ busy = None /\ busy' = "taint" /\ Act("addTaint", sel)
RemoveTaint == page = "nodes" /\ busy = None /\ mark /\ busy' = "taint" /\ Act("removeTaint", sel)

\* The values of a secret are shown and hidden.  One key is remembered as being
\* revealed: only its button is disabled, and another key takes its place.
Reveal(k) == page = "secret" /\ k \notin revealed /\ busy # k /\ busy' = k /\ Act("reveal", k)
Hide(k) ==
  /\ page = "secret" /\ Drawn /\ k \in revealed /\ busy # k
  /\ revealed' = revealed \ {k}
  /\ UNCHANGED <<place, panel, diff, tab, busy, pick, calls>>

Rollback == page = "release" /\ UNCHANGED busy /\ Act("rollback", sel)
Upgrade  == page = "release" /\ UNCHANGED busy /\ Act("upgrade", sel)

-----------------------------------------------------------------------------
\* The cluster serves a call, or refuses it; others change the cluster too, so
\* that a load may find any mark.
Serve(c) ==
  /\ c.stage = "sent"
  /\ \E stage \in {"done", "refused"}, v \in BOOLEAN :
       /\ v => stage = "done" /\ c.op \in {"load", "refresh"} /\ page \in {"deployments", "nodes"}
       /\ calls' = (calls \ {c}) \cup {[c EXCEPT !.stage = stage, !.val = v]}
  /\ UNCHANGED <<place, panel, extra, tab, busy, pick>>

\* The continuations.  Of a load, and of the load by which a node's page
\* refreshes itself after a taint has been added or removed:
Loaded(c) ==
  /\ c.op \in {"load", "refresh"}
  /\ calls' = calls \ {c}
  /\ loading' = (loading /\ c.op # "load")
  /\ busy' = IF c.op = "refresh" THEN None ELSE busy
  /\ IF c.stage = "done"
     THEN /\ shown' = [item |-> c.of, input |-> c.input, by |-> c.op] /\ mark' = c.val
          /\ pick' = Picked(page, sel, TRUE)
          /\ UNCHANGED failed
     ELSE /\ failed' = (failed \/ (c.op = "load" /\ page # "release"))
          /\ UNCHANGED <<shown, mark, pick>>
  /\ UNCHANGED extra

\* A pause that went well is noted in the detail.
Paused(c) ==
  /\ c.op \in {"pause", "resume"}
  /\ calls' = calls \ {c}
  /\ busy' = None
  /\ IF c.stage = "done"
     THEN mark' = (c.op = "pause") /\ pick' = Picked(page, sel, TRUE)
     ELSE UNCHANGED <<mark, pick>>
  /\ UNCHANGED <<shown, loading, failed, extra>>

\* A taint that went well is followed by a load, with the pods and metrics that
\* its button knew.
Tainted(c) ==
  /\ c.op \in {"addTaint", "removeTaint"}
  /\ calls' = (calls \ {c}) \cup
              (IF c.stage = "done" THEN {[c EXCEPT !.op = "refresh", !.stage = "sent"]} ELSE {})
  /\ busy' = IF c.stage = "done" THEN busy ELSE None
  /\ UNCHANGED <<panel, extra, pick>>

\* The two sides of a diff, the value of a key; of the rollout history and of a
\* manifest that was applied the panel keeps nothing that matters here.
Extra(c) ==
  /\ c.op \in {"history", "apply", "diff", "reveal"}
  /\ calls' = calls \ {c}
  /\ busy' = IF c.op = "reveal" THEN None ELSE busy
  /\ diff' = (diff \/ (c.op = "diff" /\ c.stage = "done"))
  /\ revealed' = revealed \cup (IF c.op = "reveal" /\ c.stage = "done" THEN {c.of} ELSE {})
  /\ UNCHANGED <<panel, pick>>

\* After a rollback or an upgrade the release is loaded again.
ReleaseChanged(c) ==
  /\ c.op \in {"rollback", "upgrade"}
  /\ IF c.stage = "done"
     THEN calls' = Send(calls \ {c}, "load", c.of) /\ loading' = TRUE
     ELSE calls' = calls \ {c} /\ UNCHANGED loading
  /\ UNCHANGED <<shown, failed, mark, busy, extra, pick>>

Continue(c) ==
  /\ c.stage # "sent"
  /\ Loaded(c) \/ Paused(c) \/ Tainted(c) \/ Extra(c) \/ ReleaseChanged(c)
  /\ UNCHANGED <<place, tab>>

-----------------------------------------------------------------------------
UserStep ==
  \/ \E p \in Pages, i \in Item \cup {None} : Mount(p, i)
  \/ \E i \in Item \cup {None} : SelectCRD(i)
  \/ \E t \in {"Overview", "History", "YAML"} : SelectTab(t)
  \/ InstancesTab
  \/ \E i \in Item : PickRow(i)
  \/ Pause \/ Resume \/ ApplyYAML \/ PreviewYAML \/ CloseDiff \/ AddTaint \/ RemoveTaint
  \/ \E k \in Key : Reveal(k) \/ Hide(k)
  \/ Rollback \/ Upgrade

PagesNext == UserStep \/ Reload \/ \E c \in calls : Serve(c) \/ Continue(c)

PagesSpec == PagesInit /\ [][PagesNext]_pageVars

\* Every call is answered (the handlers give each request a deadline) and the
\* event loop runs its continuation: the loads, and whatever a button waits for.
Answered(ops) == \E c \in calls : c.op \in ops /\ (Serve(c) \/ Continue(c))
PagesFairness ==
  /\ WF_pageVars(Answered({"load"}))
  /\ WF_pageVars(Answered({"pause", "resume", "addTaint", "removeTaint", "refresh", "reveal"}))

-----------------------------------------------------------------------------
\* The user sees that the panel loads.
Spinner == loading /\ sel # None /\ (page = "crds" => tab = "Instances")

\* When nothing loads and nothing failed, the instances on the screen are those
\* of the selected definition in the selected namespace, and a node's numbers
\* are of the pods the page knows, whatever the order in which the loads are
\* answered (CRDList 143-168, NodeList 527-560); unless the last word was that of
\* a refresh after a taint, which knows only the pods of the moment it was asked.
FreshAtRest ==
  PageOf[page].reloads /\ sel # None /\ ~loading /\ ~failed /\ (page = "crds" => tab = "Instances")
    => shown.item = sel /\ (shown.by = "load" => shown.input = input)

\* A panel that has its data is what the bottom tray works on, whatever pages were
\* left before, unless a row's menu chose otherwise on the page itself.
TrayFollows ==
  PageOf[page].picks /\ shown.item # None
    => \/ pick = [of |-> page, name |-> sel]
       \/ page \in {"pods", "nodes"} /\ pick.of = "row"

\* "Loading..." ends unless the user keeps moving on or the inputs keep changing.
SpinnerEnds == []<>~Spinner \/ []<><<place' # place>>_pageVars

\* A button that is disabled while its call is under way is enabled again,
\* however the call ends and whatever else was opened meanwhile.
ButtonsComeBack == []<>(busy = None)

\* A page shows what was selected and last loaded, tells the tray, and comes to rest.
PagesCorrect == [](PagesTypeOK /\ FreshAtRest /\ TrayFollows) /\ SpinnerEnds /\ ButtonsComeBack
================================================================================
