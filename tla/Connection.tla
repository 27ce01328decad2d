------------------------------- MODULE Connection -------------------------------
(***************************************************************************)
(* What the window knows of the clusters and shows of the connection: the  *)
(* cluster store, the health events, the banner that reconnects, the       *)
(* Welcome screen with its list of contexts, the startup and the route     *)
(* that is restored (ui/src: clusterStore, useClusterHealth,               *)
(* ConnectionBanners, Welcome, SettingsProvider, App).  The backend is     *)
(* what answers a connect, a list of contexts and a preflight check.       *)
(*                                                                         *)
(* Not modelled: the lists of namespaces, versions and custom resources    *)
(* the store also holds, the text of an error, favorites and paths.        *)
(***************************************************************************)
EXTENDS FiniteSets, Naturals

CONSTANTS Cluster,       \* names of kubeconfig contexts
          None,          \* no cluster
          MaxConnects,   \* bound: connectCluster calls under way
          MaxLoads,      \* bound: loads of the contexts under way, and preflights
          MaxAttempts    \* MAX_RECONNECT_ATTEMPTS

ASSUME ConnectionAssumption == None \notin Cluster /\ MaxLoads \in Nat /\ MaxAttempts \in Nat \ {0}

VARIABLES
  active,      \* clusterStore.activeCluster
  status,      \* status of each cluster of the store's list, "absent" of the others
  connects,    \* connectCluster calls under way
  attempt,     \* the banner's count of its retries
  path,        \* the route of the window
  saved,       \* _savedRoute
  restored,    \* RouteRestorer has had its turn
  booted,      \* the startup effect of SettingsProvider has the config
  connecting,  \* Welcome's own flag: the cluster whose button spins
  loads,       \* loadClusters calls under way
  checks,      \* preflights under way
  checking,    \* preflightRunning
  reached      \* backend: contexts connected since the program started

storeVars == <<active, status>>
routeVars == <<path, saved, restored>>
welcomeVars == <<connecting, loads, checks, checking>>
connectionVars == <<active, status, connects, attempt, path, saved, restored, booted,
                    connecting, loads, checks, checking, reached>>

Status == {"absent", "disconnected", "connecting", "connected", "error"}
Route  == {"welcome", "page"}

\* One connectCluster(name): where it was called, whether the Welcome screen
\* that called it is still there, and how far it is: ConnectCluster asked,
\* answered well or badly, then ListNamespaces asked.  Two calls
\* that agree in all of this are one: their continuations do the same.
Connect == [name : Cluster, by : {"welcome", "shell", "banner"}, live : BOOLEAN,
            stage : {"asked", "ok", "refused", "listing"}]
\* One loadClusters(): asked, or answered with the contexts there were.
Load == [live : BOOLEAN, got : SUBSET Cluster, stage : {"asked", "answered"}]

ConnectionTypeOK ==
  /\ active \in Cluster \cup {None}
  /\ status \in [Cluster -> Status]
  /\ connects \subseteq Connect
  /\ attempt \in 0..MaxAttempts
  /\ path \in Route /\ saved \in Route \cup {"none"}
  /\ restored \in BOOLEAN /\ booted \in BOOLEAN /\ checking \in BOOLEAN
  /\ connecting \in Cluster \cup {None}
  /\ loads \subseteq Load
  /\ checks \in 0..MaxLoads
  /\ reached \subseteq Cluster

-----------------------------------------------------------------------------
Listed(st) == {c \in Cluster : st[c] # "absent"}
Set(st, c, s) == [st EXCEPT ![c] = IF @ = "absent" THEN @ ELSE s]

\* App: the shell needs an active cluster, the Welcome screen has a route of its own.
InShell   == path # "welcome"
InWelcome == path = "welcome"

\* ConnectionLostBanner: isDisconnected.
Lost == InShell /\ active # None /\ status[active] \in {"disconnected", "error"}

\* The effects that follow every change of the active cluster or of the route.
\* RequireCluster sends a shell without cluster to /welcome; the first time
\* there is a cluster RouteRestorer goes to the saved route, if there is one by
\* then.
Goto(p, a) ==
  LET back == ~restored /\ a # None /\ saved # p /\ saved # "none"
  IN /\ path' = IF a = None THEN "welcome" ELSE IF back THEN saved ELSE p
     /\ saved' = IF back THEN "none" ELSE saved
     /\ restored' = (restored \/ a # None)

LoadRoom == Cardinality(loads) < MaxLoads
NewLoad  == [live |-> TRUE, got |-> {}, stage |-> "asked"]

\* What a change of the route does to the Welcome screen: it loads the contexts
\* when it is mounted, and loses its own state when it is not mounted any more.
\* The continuations of its loads still write the cluster store.
Screen(p, cs) ==
  IF InShell /\ p = "welcome"
  THEN /\ LoadRoom
       /\ loads' = loads \cup {NewLoad}
       /\ connecting' = None /\ checks' = 0 /\ checking' = FALSE
       /\ connects' = cs
  ELSE IF InWelcome /\ p # "welcome"
  THEN /\ loads' = {[l EXCEPT !.live = FALSE] : l \in loads}
       /\ connecting' = None /\ checks' = 0 /\ checking' = FALSE
       /\ connects' = {[c EXCEPT !.live = c.live /\ c.by # "welcome"] : c \in cs}
  ELSE connects' = cs /\ UNCHANGED welcomeVars

\* The banner's count goes back to 0 whenever the cluster is not lost, and is
\* the banner's own: it is 0 again when the shell is mounted.
Counted(n) == attempt' = IF Lost' THEN n ELSE 0

Room == Cardinality(connects) < MaxConnects
New(c, by) == [name |-> c, by |-> by, live |-> TRUE, stage |-> "asked"]

\* connectCluster up to its first await.
Optimistic(c) == active' = c /\ status' = Set(status, c, "connecting")

-----------------------------------------------------------------------------
\* A fresh install: nothing persisted but the contexts of the last session.
ConnectionInit ==
  /\ active = None
  /\ status = [c \in Cluster |-> "disconnected"]
  /\ connects = {} /\ attempt = 0
  /\ path = "welcome" /\ saved = "none" /\ restored = FALSE
  /\ booted = FALSE
  /\ connecting = None /\ loads = {} /\ checks = 0 /\ checking = FALSE
  /\ reached = {}

\* partialize: what the store keeps in localStorage.
Persisted(st) == [c \in Cluster |-> IF st[c] = "absent" THEN "absent" ELSE "disconnected"]

\* The program is started again.  The store is read back, the first route is
\* /welcome or, with a cluster, the overview; RouteRestorer sees that cluster
\* before anything has been loaded.
Restart ==
  /\ active' = active /\ status' = Persisted(status)
  /\ connects' = {} /\ attempt' = 0 /\ reached' = {}
  /\ path' = IF active = None THEN "welcome" ELSE "page"
  /\ saved' = "none" /\ restored' = (active # None) /\ booted' = FALSE
  /\ loads' = IF active = None
              THEN {NewLoad} ELSE {}
  /\ connecting' = None /\ checks' = 0 /\ checking' = FALSE

\* The config is there: "last_cluster" connects to the cluster that was
\* persisted, "welcome" drops it, anything else leaves it as it is; then the
\* saved route is noted (which nobody reads after RouteRestorer's turn).
Startup ==
  /\ ~booted
  /\ booted' = TRUE
  /\ \/ /\ active # None /\ Room
        /\ Optimistic(active)
        /\ connects' = connects \cup {New(active, "shell")}
        /\ UNCHANGED <<path, welcomeVars>>
     \/ /\ active' = None /\ UNCHANGED status
        /\ path' = "welcome" /\ Screen("welcome", connects)
     \/ UNCHANGED <<storeVars, connects, path, welcomeVars>>
  /\ saved' \in IF restored THEN {"none"} ELSE {"none", "page"}
  /\ UNCHANGED <<restored, reached>>
  /\ Counted(attempt)

\* GetConfig fails: nothing of this happens.
StartupFails == ~booted /\ booted' = TRUE
                /\ UNCHANGED <<storeVars, connects, attempt, routeVars, welcomeVars, reached>>

\* "Home" and "Add cluster" of the sidebar keep the active cluster.
GoHome ==
  /\ InShell
  /\ Goto("welcome", active)
  /\ Screen("welcome", connects)
  /\ UNCHANGED <<storeVars, booted, reached>>
  /\ Counted(attempt)

-----------------------------------------------------------------------------
\* A cluster is chosen in the sidebar, the command palette or the settings, or
\* "Reconnect now" is pressed.
ConnectInShell(c) ==
  /\ InShell /\ Room /\ c \in Listed(status)
  /\ Optimistic(c)
  /\ connects' = connects \cup {New(c, "shell")}
  /\ Goto(path, c)
  /\ UNCHANGED <<booted, welcomeVars, reached>>
  /\ Counted(attempt)

\* Mutant: only a cluster that is "disconnected" is retried.
WaitsDisconnected == Lost /\ status[active] = "disconnected" /\ attempt < MaxAttempts

\* The timer of the banner is set, and it fires.
Waits == Lost /\ attempt < MaxAttempts
Retry ==
  /\ Waits /\ Room
  /\ Optimistic(active)
  /\ connects' = connects \cup {New(active, "banner")}
  /\ UNCHANGED <<routeVars, booted, welcomeVars, reached>>
  /\ Counted(attempt + 1)

\* disabled={connecting !== null}
Idle == connecting = None

\* handleConnect of a card of the Welcome screen.  The active cluster is set at
\* once, so that the route may be restored while the connect is under way.
ConnectInWelcome(c) ==
  /\ InWelcome /\ Idle /\ Room /\ c \in Listed(status)
  /\ Optimistic(c)
  /\ Goto("welcome", c)
  /\ LET cs == connects \cup {New(c, "welcome")}
     IN IF path' = "welcome"
        THEN connects' = cs /\ connecting' = c /\ UNCHANGED <<loads, checks, checking>>
        ELSE Screen(path', cs)
  /\ UNCHANGED <<booted, reached>>
  /\ Counted(attempt)

\* The backend answers a connect.
Answer(k) ==
  /\ k.stage = "asked"
  /\ \/ /\ connects' = (connects \ {k}) \cup {[k EXCEPT !.stage = "ok"]}
        /\ reached' = reached \cup {k.name}
     \/ /\ connects' = (connects \ {k}) \cup {[k EXCEPT !.stage = "refused"]}
        /\ UNCHANGED reached
  /\ UNCHANGED <<storeVars, attempt, routeVars, booted, welcomeVars>>

\* It is connected; the namespaces are asked for.
Connected(k) ==
  /\ k.stage = "ok"
  /\ status' = Set(status, k.name, "connected")
  /\ connects' = (connects \ {k}) \cup {[k EXCEPT !.stage = "listing"]}
  /\ UNCHANGED <<active, routeVars, booted, welcomeVars, reached>>
  /\ Counted(attempt)

\* The end of handleConnect, on the Welcome screen that called it.
Spins(k, p) == IF k.live /\ p = "welcome" THEN None ELSE connecting

\* ListNamespaces is answered, well or badly; connectCluster returns, and
\* handleConnect goes to the overview if there is any active cluster, also where
\* the screen that called it has been left.
Returned(k) ==
  /\ k.stage = "listing"
  /\ LET next == IF k.by = "welcome" /\ active # None THEN "page" ELSE path
     IN /\ Goto(next, active)
        /\ IF next = path /\ k.by = "welcome"
           THEN connects' = connects \ {k} /\ connecting' = Spins(k, next)
                /\ UNCHANGED <<loads, checks, checking>>
           ELSE Screen(next, connects \ {k})
  /\ UNCHANGED <<storeVars, booted, reached>>
  /\ Counted(attempt)

\* Mutant: a failure is only noted of the cluster that is active.
RefusedIfActive(k) ==
  /\ k.stage = "refused"
  /\ active' = IF active = k.name THEN None ELSE active
  /\ status' = IF active = k.name THEN Set(status, k.name, "error") ELSE status
  /\ Goto(path, active')
  /\ Screen(path', connects \ {k})
  /\ UNCHANGED <<booted, reached>>
  /\ Counted(attempt)

\* The connect failed: no cluster is active any more, whichever was.
Refused(k) ==
  /\ k.stage = "refused"
  /\ active' = None
  /\ status' = Set(status, k.name, "error")
  /\ Goto(path, None)
  /\ IF InWelcome
     THEN connects' = connects \ {k} /\ UNCHANGED <<loads, checks, checking>>
          /\ connecting' = IF k.by = "welcome" THEN Spins(k, "welcome") ELSE connecting
     ELSE Screen("welcome", connects \ {k})
  /\ UNCHANGED <<booted, reached>>
  /\ Counted(attempt)

\* A health event, of any cluster the backend has connected to; the shell
\* listens.  Yellow only shows a toast.
Health(c, s) ==
  /\ InShell /\ c \in reached
  /\ status' = Set(status, c, s)
  /\ UNCHANGED <<active, connects, routeVars, booted, welcomeVars, reached>>
  /\ Counted(attempt)

-----------------------------------------------------------------------------
\* The kubeconfig changed, and Welcome hears of it.
KubeconfigChanged ==
  /\ InWelcome /\ LoadRoom
  /\ loads' = loads \cup {NewLoad}
  /\ UNCHANGED <<storeVars, connects, attempt, routeVars, booted, connecting, checks,
                 checking, reached>>

\* The backend lists the contexts there are, or refuses: no contexts.
ListContexts(l) ==
  /\ l.stage = "asked"
  /\ \E got \in SUBSET Cluster :
       loads' = (loads \ {l}) \cup {[l EXCEPT !.stage = "answered", !.got = got]}
  /\ UNCHANGED <<storeVars, connects, attempt, routeVars, booted, connecting, checks,
                 checking, reached>>

\* The list replaces the store's, with every cluster "disconnected"; then the
\* preflight starts.
Relisted(l) == [c \in Cluster |-> IF c \in l.got THEN "disconnected" ELSE "absent"]
Loaded(l) ==
  /\ l.stage = "answered"
  /\ (l.live /\ l.got # {}) => checks < MaxLoads
  /\ status' = Relisted(l)
  /\ loads' = loads \ {l}
  /\ IF l.live /\ l.got # {}
     THEN checks' = checks + 1 /\ checking' = TRUE
     ELSE UNCHANGED <<checks, checking>>
  /\ UNCHANGED <<active, connects, routeVars, booted, connecting, reached>>
  /\ Counted(attempt)

\* Every context has been checked, reachable or not.
Checked == checks' = checks - 1 /\ checking' = FALSE
Preflight ==
  /\ checks > 0
  /\ Checked
  /\ UNCHANGED <<storeVars, connects, attempt, routeVars, booted, connecting, loads, reached>>

-----------------------------------------------------------------------------
Continue(k) == Connected(k) \/ Returned(k) \/ Refused(k)

ConnectionNext ==
  \/ Restart \/ Startup \/ StartupFails
  \/ GoHome
  \/ \E c \in Cluster : \/ ConnectInShell(c) \/ ConnectInWelcome(c)
                        \/ \E s \in {"connected", "error"} : Health(c, s)
  \/ Retry
  \/ \E k \in connects : Answer(k) \/ Continue(k)
  \/ KubeconfigChanged
  \/ \E l \in loads : ListContexts(l) \/ Loaded(l)
  \/ Preflight

ConnectionSpec == ConnectionInit /\ [][ConnectionNext]_connectionVars

\* Every call is answered, its continuation runs, and the banner's timer fires if
\* it is not stopped.
ConnectionFairness ==
  /\ \A c \in Cluster, b \in {"welcome", "shell", "banner"} :
       /\ WF_connectionVars(\E k \in connects : k.name = c /\ k.by = b /\ Answer(k))
       /\ WF_connectionVars(\E k \in connects : k.name = c /\ k.by = b /\ Continue(k))
  /\ WF_connectionVars(\E l \in loads : ListContexts(l) \/ Loaded(l))
  /\ WF_connectionVars(Retry)
  /\ WF_connectionVars(Preflight)

ConnectionFair == ConnectionSpec /\ ConnectionFairness

-----------------------------------------------------------------------------
\* A cluster that is shown as "connecting" is being connected to: nothing, not
\* even a restart or a list of contexts that arrives late, leaves it like that.
ConnectingHasCall ==
  \A c \in Cluster : status[c] = "connecting" =>
    \E k \in connects : k.name = c /\ k.stage \in {"asked", "ok", "refused"}

\* A cluster that is shown as "connected" is one the backend has connected to
\* since the program started; the persisted list and late answers never say so.
ConnectedIsReal == \A c \in Cluster : status[c] = "connected" => c \in reached

\* The Welcome screen connects to one cluster at a time, the one whose card
\* spins, however the list of contexts changes meanwhile.
WelcomeShowsItsCall ==
  \A k \in connects : k.by = "welcome" /\ k.live => k.name = connecting

\* The card stops spinning: handleConnect's "finally".
WelcomeComesBack == []<>(connecting = None)

\* "connecting" is left again.
ConnectingEnds == \A c \in Cluster : []<>(status[c] # "connecting")

\* A lost connection on the screen does not stay like that: the banner's timer
\* tries again.
LostIsRetried == []<>~Lost

\* The preflight's spinner ends, also when its checks overlap.
PreflightEnds == []<>~checking

\* The banner gives up on a cluster only after its last attempt
\* (ConnectionBanners 65, "Exponential backoff: 10s, 20s, 40s, 80s, 160s", and
\* 102, "Auto-reconnect stopped after ... attempts").
GivesUpAfterMax ==
  [][\A k \in connects : k.by = "banner" /\ k.name = active /\ k.stage = "refused"
        /\ active' = None /\ booted' => attempt >= MaxAttempts]_connectionVars

\* What the window shows of its clusters has a call or an answer behind it.
ConnectionSafe ==
  ConnectionTypeOK /\ ConnectingHasCall /\ ConnectedIsReal /\ WelcomeShowsItsCall

\* Nothing the window waits for keeps it waiting.
ConnectionComesBack == WelcomeComesBack /\ ConnectingEnds /\ LostIsRetried /\ PreflightEnds
=================================================================================
