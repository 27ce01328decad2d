---------------------------------- MODULE Tray ----------------------------------
(***************************************************************************)
(* The sessions shown in the bottom tray (TerminalTab, AITab) and in the   *)
(* drawer of an AI session (useAISession).                                 *)
(*                                                                         *)
(* A session is started by an asynchronous call, and its identity is known *)
(* to the window only when that call has been answered; by then its tab    *)
(* may be closed, the tray shut (which unmounts every tab in it) or the    *)
(* drawer turned to another pod.  The three hosts handle the late answer   *)
(* in three ways.  They share nothing but the tray, so one is taken at a   *)
(* time.  No page mounts the drawer yet: its model is a parent that shows  *)
(* it for a pod, turns it to another and closes it.                        *)
(***************************************************************************)
EXTENDS Naturals, Sequences, FiniteSets, SequencesExt

CONSTANTS Pod,         \* pods; each has containers of its own names
          Local,       \* what a terminal on this machine is opened for
          Nobody,      \* no pod, no container
          MaxTabs,     \* bound: tabs ever opened
          MaxMounts    \* bound: times the tray is opened, the drawer shown anew

ASSUME TrayAssumption ==
  /\ Nobody \notin Pod /\ Local \notin Pod /\ Local # Nobody
  /\ {MaxTabs, MaxMounts} \subseteq Nat

VARIABLES
  host,       \* the component: "terminal", "ai" or "drawer"
  trayOpen,   \* bottomTrayOpen; of the drawer: it is mounted
  mount,      \* which mounting this is
  selection,  \* the pod in the selection store
  pickedPod,  \* picked of the terminal tab; the pod of the drawer
  withRaw,    \* which of the two come with the pod's object, and so its containers
  lastPod,    \* prevPodRef: the pod the auto-create effect ran for
  container,  \* selectedContainer: the pod whose container it names
  tabs,       \* sessions, aiSessions: <<[id, pod]>>
  activeTab,  \* activeSessionId, activeAISessionId: 0 when there is none
  due,        \* the tabs, or none, that timers are about to show
  opened,     \* tabs opened so far
  starts      \* sessions being started or running

chosen   == <<selection, pickedPod, withRaw, lastPod, container>>
trayVars == <<host, trayOpen, mount, chosen, tabs, activeTab, due, opened, starts>>

-----------------------------------------------------------------------------
\* A session.  held: a component refers to it.  stage: the terminal's code is
\* being imported; the backend is asked; it answered; the answer is acted upon:
\* the session is wired to the screen, or its error shown.
Session == [tab : 0..MaxTabs, mount : 0..MaxMounts, pod : Pod \cup {Local}, container : Pod \cup {Nobody},
            stage : {"loading", "asked", "runs", "refused", "wired", "failed"}, held : BOOLEAN]

Starting(id, p, c, stage) ==
  [tab |-> id, mount |-> mount, pod |-> p, container |-> c, stage |-> stage, held |-> TRUE]

TrayTypeOK ==
  /\ host \in {"terminal", "ai", "drawer"}
  /\ trayOpen \in BOOLEAN /\ mount \in 0..MaxMounts
  /\ {selection, pickedPod, lastPod, container} \subseteq Pod \cup {Nobody}
  /\ withRaw \in [selection : BOOLEAN, picked : BOOLEAN]
  /\ tabs \in Seq([id : 1..MaxTabs, pod : Pod \cup {Local}])
  /\ {activeTab, opened} \subseteq 0..MaxTabs /\ due \in Seq(0..MaxTabs)
  /\ starts \subseteq Session

TrayInit ==
  /\ host \in {"terminal", "ai", "drawer"}
  /\ trayOpen = FALSE /\ mount = 0
  /\ selection = Nobody /\ pickedPod = Nobody /\ lastPod = Nobody /\ container = Nobody
  /\ withRaw = [selection |-> FALSE, picked |-> FALSE]
  /\ tabs = <<>> /\ activeTab = 0 /\ due = <<>> /\ opened = 0
  /\ starts = {}

TabIds == {tabs[i].id : i \in DOMAIN tabs}
LastId(s) == IF s = <<>> THEN 0 ELSE Last(s).id
Without(id) == SelectSeq(tabs, LAMBDA t : t.id # id)

\* cleanupSession, cleanupInstance and the cleanup of useAISession close a
\* session they know the identity of.
Known == {"wired", "failed"}
Dropped(S) ==
  (starts \ S) \cup {[s EXCEPT !.held = FALSE] : s \in {t \in S : t.stage \notin Known}}

-----------------------------------------------------------------------------
\* The terminal tab.

\* startSession: the record first, then the terminal and the backend session.
StartSession(p, c) ==
  /\ opened < MaxTabs
  /\ opened' = opened + 1
  /\ tabs' = Append(tabs, [id |-> opened', pod |-> p])
  /\ activeTab' = opened'
  /\ starts' = starts \cup {Starting(opened', p, c, "loading")}

NewContainer == IF container = Nobody /\ withRaw.picked THEN pickedPod ELSE container

\* The selected container is kept when another pod is picked.
FirstContainer(p) == IF container = Nobody THEN p ELSE container

\* The auto-create effect: a session for a pod that has none, the first session
\* of one that has.
AutoCreate(p) ==
  /\ lastPod' = p
  /\ LET own == SelectSeq(tabs, LAMBDA t : t.pod = p)
     IN IF own = <<>>
        THEN StartSession(p, FirstContainer(p))
        ELSE /\ activeTab' = IF p # lastPod THEN Head(own).id ELSE activeTab
             /\ UNCHANGED <<tabs, opened, starts>>

\* The effects of a picked pod: the first container of the first pod, and a
\* session, unless the pod and the number of its containers are as before.  The
\* menu of a row gives a pod without its object: it has no container yet, and
\* nothing is started for it.
Pick(p, raw) ==
  /\ pickedPod' = p
  /\ container' = IF raw THEN FirstContainer(p) ELSE container
  /\ \/ raw /\ AutoCreate(p)
     \/ /\ raw => p = pickedPod /\ withRaw.picked
        /\ UNCHANGED <<lastPod, tabs, activeTab, opened, starts>>

\* A pod is selected on a page, or the selected one changes in the cluster.
SelectPod(p, raw) ==
  /\ host = "terminal"
  /\ selection' = p
  /\ IF trayOpen
     THEN Pick(p, raw) /\ withRaw' = [selection |-> raw, picked |-> raw]
     ELSE /\ withRaw' = [withRaw EXCEPT !.selection = raw]
          /\ UNCHANGED <<pickedPod, lastPod, container, tabs, activeTab, opened, starts>>
  /\ UNCHANGED <<host, trayOpen, mount, due>>

\* The pod picker of the tab.
PickPod(p) ==
  /\ host = "terminal" /\ trayOpen /\ p # pickedPod
  /\ Pick(p, TRUE) /\ withRaw' = [withRaw EXCEPT !.picked = TRUE]
  /\ UNCHANGED <<host, trayOpen, mount, selection, due>>

PickContainer ==
  /\ host = "terminal" /\ trayOpen /\ withRaw.picked
  /\ container' = pickedPod
  /\ UNCHANGED <<host, trayOpen, mount, selection, pickedPod, withRaw, lastPod, tabs, activeTab, due, opened, starts>>

NewSession ==
  /\ host = "terminal" /\ trayOpen
  /\ \/ pickedPod # Nobody /\ StartSession(pickedPod, NewContainer)
     \/ StartSession(Local, Nobody)
  /\ UNCHANGED <<host, trayOpen, mount, chosen, due>>

\* The next tab is shown from a timer.
CloseSession(id) ==
  /\ host = "terminal" /\ trayOpen
  /\ starts' = Dropped({s \in starts : s.tab = id})
  /\ tabs' = Without(id)
  /\ due' = IF activeTab = id THEN Append(due, LastId(tabs')) ELSE due
  /\ UNCHANGED <<host, trayOpen, mount, chosen, activeTab, opened>>

ShowNext ==
  /\ due # <<>>
  /\ activeTab' = Head(due) /\ due' = Tail(due)
  /\ UNCHANGED <<host, trayOpen, mount, chosen, tabs, opened, starts>>

\* A click on a tab, of the terminals or of the AI sessions.
ShowTab(id) ==
  /\ trayOpen
  /\ activeTab' = id
  /\ UNCHANGED <<host, trayOpen, mount, chosen, tabs, due, opened, starts>>

-----------------------------------------------------------------------------
\* The AI tab: the sessions are in a store that outlives it; the effect of
\* aiSessions starts one wherever the tab holds no instance.
Instances(S) == {s.tab : s \in {t \in S : t.held}}

\* Mutant: the effect does not look for the instance a session has.
MissingAll(ts, S) == Range(ts)

Missing(ts, S) == {t \in Range(ts) : t.id \notin Instances(S)}

StartMissing(ts, S) == S \cup {[Starting(t.id, t.pod, Nobody, "loading") EXCEPT !.mount = mount'] : t \in Missing(ts, S)}

\* addAISession, which opens the tray.
Diagnose(p) ==
  /\ host = "ai" /\ opened < MaxTabs /\ (trayOpen \/ mount < MaxMounts)
  /\ opened' = opened + 1
  /\ tabs' = Append(tabs, [id |-> opened', pod |-> p])
  /\ activeTab' = opened'
  /\ trayOpen' = TRUE
  /\ mount' = IF trayOpen THEN mount ELSE mount + 1
  /\ starts' = StartMissing(tabs', starts)
  /\ UNCHANGED <<host, chosen, due>>

NextActive(id) == IF activeTab = id THEN LastId(Without(id)) ELSE activeTab

\* handleClose: removeAISession, and the instance is closed.
CloseAI(id) ==
  /\ host = "ai" /\ trayOpen
  /\ activeTab' = NextActive(id)
  /\ tabs' = Without(id)
  /\ starts' = Dropped({s \in starts : s.tab = id})
  /\ UNCHANGED <<host, trayOpen, mount, chosen, due, opened>>

-----------------------------------------------------------------------------
\* The tray is opened: all its tabs are mounted.
OpenTray ==
  /\ host # "drawer" /\ ~trayOpen /\ mount < MaxMounts
  /\ trayOpen' = TRUE /\ mount' = mount + 1
  /\ IF host = "ai"
     THEN /\ starts' = StartMissing(tabs, starts)
          /\ UNCHANGED <<pickedPod, withRaw, lastPod, container, tabs, activeTab, opened>>
     ELSE IF selection # Nobody
     THEN /\ Pick(selection, withRaw.selection)
          /\ withRaw' = [withRaw EXCEPT !.picked = withRaw.selection]
     ELSE UNCHANGED <<pickedPod, withRaw, lastPod, container, tabs, activeTab, opened, starts>>
  /\ UNCHANGED <<host, selection, due>>

\* It is shut, or the drawer closed: what was in it is unmounted.
CloseTray ==
  /\ trayOpen
  /\ trayOpen' = FALSE
  /\ starts' = Dropped({s \in starts : s.held})
  /\ IF host = "ai"
     THEN UNCHANGED <<pickedPod, withRaw, lastPod, container, tabs, activeTab, due>>
     ELSE /\ pickedPod' = Nobody /\ lastPod' = Nobody /\ container' = Nobody
          /\ withRaw' = [withRaw EXCEPT !.picked = FALSE]
          /\ tabs' = <<>> /\ activeTab' = 0 /\ due' = <<>>
  /\ UNCHANGED <<host, mount, selection, opened>>

\* The drawer is shown for a pod, or turned to another one.
ShowDrawer(p) ==
  /\ host = "drawer" /\ mount < MaxMounts /\ pickedPod # p
  /\ trayOpen' = TRUE /\ mount' = mount + 1
  /\ pickedPod' = p
  /\ starts' = Dropped({s \in starts : s.held}) \cup {[Starting(0, p, Nobody, "asked") EXCEPT !.mount = mount']}
  /\ UNCHANGED <<host, selection, withRaw, lastPod, container, tabs, activeTab, due, opened>>

-----------------------------------------------------------------------------
Become(s, t) == starts' = (starts \ {s}) \cup {t}
Steady == UNCHANGED <<host, trayOpen, mount, chosen, tabs, activeTab, due, opened>>

\* The terminal's code is there.  The AI tab checks that the session still is.
Imported(s) ==
  /\ s.stage = "loading"
  /\ IF host = "ai" /\ ~s.held THEN starts' = starts \ {s} ELSE Become(s, [s EXCEPT !.stage = "asked"])
  /\ Steady

\* StartExec, StartLocalTerminal, StartAISession: a container of another pod
\* is refused; which one it was is of no use any more.
Started(s) ==
  /\ s.stage = "asked"
  /\ \E to \in {"runs", "refused"} :
       /\ to = "runs" => s.container \in {s.pod, Nobody}
       /\ Become(s, [s EXCEPT !.stage = to, !.container = Nobody])
  /\ Steady

\* The hook closes a session that comes when it is cancelled, and ignores an error.
LateClosed(s) == host = "drawer" /\ ~s.held

\* An error of a session nobody holds is written to a screen that is gone.
SessionAnswered(s) ==
  /\ s.stage \in {"runs", "refused"}
  /\ IF LateClosed(s) \/ (s.stage = "refused" /\ ~s.held) THEN starts' = starts \ {s}
     ELSE Become(s, [s EXCEPT !.stage = IF s.stage = "runs" THEN "wired" ELSE "failed"])
  /\ Steady

-----------------------------------------------------------------------------
TrayNext ==
  \/ \E p \in Pod, raw \in BOOLEAN : SelectPod(p, raw)
  \/ \E p \in Pod : PickPod(p) \/ Diagnose(p) \/ ShowDrawer(p)
  \/ \E id \in TabIds : CloseSession(id) \/ CloseAI(id) \/ ShowTab(id)
  \/ PickContainer \/ NewSession \/ ShowNext \/ OpenTray \/ CloseTray
  \/ \E s \in starts : Imported(s) \/ Started(s) \/ SessionAnswered(s)

TraySpec == TrayInit /\ [][TrayNext]_trayVars

\* Imports resolve, calls are answered and their continuations run.
TrayFairness ==
  WF_trayVars(\E s \in starts : Imported(s) \/ Started(s) \/ SessionAnswered(s))

-----------------------------------------------------------------------------
\* While the tray is open every tab has one session, held by it, and every held
\* session a tab: however tabs are closed and the tray is shut and opened again
\* while sessions are still starting.
InstanceOfTab ==
  host # "drawer" /\ trayOpen =>
    /\ Instances(starts) = TabIds
    /\ \A s, t \in starts : s.held /\ t.held /\ s.tab = t.tab => s = t

\* The AI session shown is one of the sessions, and there is one unless none is left.
ActiveIsTab ==
  host = "ai" => IF tabs = <<>> THEN activeTab = 0 ELSE activeTab \in TabIds

\* The drawer is wired to one session, of the pod it shows, however often it is
\* turned while sessions start.
DrawerShowsItsPod ==
  host = "drawer" => \A s \in starts : s.held => trayOpen /\ s.pod = pickedPod /\ s.mount = mount

\* A session that starts when the drawer is gone is closed (useAISession.ts:33).
LateIsClosed ==
  \A m \in 1..MaxMounts :
    []<>(\A s \in starts : host = "drawer" /\ s.mount = m => s.held)

\* "Clean up all sessions on unmount" (TerminalTab.tsx:293, AITab.tsx:188): what
\* runs in the backend is held by a tab.
RunningIsHeld == \A s \in starts : s.stage = "wired" => s.held

\* Tabs and sessions belong together, and late ones are closed.
TrayCorrect == [](TrayTypeOK /\ InstanceOfTab /\ ActiveIsTab /\ DrawerShowsItsPod) /\ LateIsClosed
=============================================================================
