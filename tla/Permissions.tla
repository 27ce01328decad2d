------------------------------ MODULE Permissions ------------------------------
(***************************************************************************)
(* The permission checks (internal/cluster/rbac.go) and their two caches.  *)
(* ClusterHandler has a checker that its Connect, Disconnect and           *)
(* SwitchContext clear; ResourceHandler has one that asks before it        *)
(* changes a resource.  An answer is the context whose server gave it:     *)
(* that is what tells a right one from a wrong one.  Clients are handed    *)
(* out only while the active connection is up; when it is lost the manager *)
(* builds new ones, from the kubeconfig as it is then.                     *)
(***************************************************************************)
CONSTANTS Cluster,    \* contexts of the kubeconfig
          NoCluster,  \* no active context
          Verb,       \* what is asked about one resource
          Asker       \* concurrent calls

ASSUME PermissionsAssumption == NoCluster \notin Cluster /\ Verb # {}

Handler == {"cluster", "resource"}

VARIABLES tracked,    \* the contexts that have a connection
          active,     \* the context whose connection is the active one
          link,       \* the state of this connection
          switch,     \* the call that changes it: one at a time (ClusterManager overlaps them)
          verdicts,   \* verdicts[h][v]: the cached answer, NoCluster when none
          check,      \* check[a]: a call of CheckAccess or BulkCheck
          overlapped, \* overlapped[h]: a check met a switch since h's last clear
          earlier     \* the handlers and verbs whose cached answer is from before the
                      \* active connection was last lost and rebuilt

connectionVars == <<tracked, active, link>>
cacheVars == <<verdicts, overlapped, earlier>>
permissionVars == <<connectionVars, switch, cacheVars, check>>

NoSwitch == [op |-> "none", to |-> NoCluster]
Resting == [of |-> "nobody", client |-> NoCluster, left |-> {}, got |-> {}]
Uncached == [v \in Verb |-> NoCluster]

Checking(h) == \E a \in Asker : check[a].of = h
Switching == switch # NoSwitch

PermissionsInit == /\ tracked = {} /\ active = NoCluster /\ link = "none"
                   /\ switch = NoSwitch
                   /\ verdicts = [h \in Handler |-> Uncached]
                   /\ check = [a \in Asker |-> Resting]
                   /\ overlapped = [h \in Handler |-> FALSE]
                   /\ earlier = {}

-------------------------------------------------------------------------------
\* ClearCache of the cluster handler's checker; a check under way goes on.
ClearOf(handlers) ==
  /\ verdicts' = [h \in Handler |-> IF h \in handlers THEN Uncached ELSE verdicts[h]]
  /\ overlapped' = [h \in Handler |-> IF h \in handlers THEN Checking(h)
                                      ELSE overlapped[h] \/ Checking(h)]
  /\ earlier' = {e \in earlier : e[1] \notin handlers}

ClearCache == ClearOf({"cluster"})

\* Disconnect does not clear yet, but a check that is under way meets it.
Meet == /\ overlapped' = [h \in Handler |-> overlapped[h] \/ Checking(h)]
        /\ UNCHANGED <<verdicts, earlier>>

\* Connect and SwitchContext clear first, ...
Enter(op, to) == /\ ~Switching
                 /\ switch' = [op |-> op, to |-> to]
                 /\ UNCHANGED <<connectionVars, check>>

ConnectTo(c) == Enter("leave", c) /\ ClearCache
SwitchUncleared(c) == Enter("switch", c) /\ Meet  \* faulty: keeps the answers
SwitchTo(c) == Enter("switch", c) /\ ClearCache

\* ... then the manager makes a new connection the active one, which has no clients
\* yet, or finds that the context is unknown, ...
Leave == /\ switch.op = "leave"
         /\ tracked' = tracked \cup {switch.to}
         /\ active' = switch.to /\ link' = "connecting"
         /\ switch' = [switch EXCEPT !.op = "build"]
         /\ UNCHANGED <<cacheVars, check>>

UnknownContext == /\ switch.op = "leave"
                  /\ switch' = NoSwitch
                  /\ UNCHANGED <<connectionVars, cacheVars, check>>

\* ... and builds them, or fails.
Built == /\ switch.op = "build"
         /\ link' \in {"connected", "error"}
         /\ switch' = NoSwitch
         /\ UNCHANGED <<tracked, active, cacheVars, check>>

\* SwitchContext finds a connection, in the state it is in, or changes nothing.
Switched == /\ switch.op = "switch"
            /\ \/ /\ switch.to \in tracked \ {active}
                  /\ active' = switch.to /\ link' \in {"connected", "reconnecting", "error"}
                  /\ UNCHANGED tracked
               \/ switch.to \notin tracked \ {active} /\ UNCHANGED connectionVars
            /\ switch' = NoSwitch
            /\ UNCHANGED <<cacheVars, check>>

\* Disconnect takes the connection away, then clears.
DisconnectActive == /\ Enter("clear", NoCluster) /\ Meet

TakeAway == /\ switch.op = "clear" /\ active # NoCluster
            /\ tracked' = tracked \ {active}
            /\ active' = NoCluster /\ link' = "none"
            /\ UNCHANGED <<switch, cacheVars, check>>

ClearLast == /\ switch.op = "clear" /\ active = NoCluster
             /\ switch' = NoSwitch
             /\ ClearCache
             /\ UNCHANGED <<connectionVars, check>>

\* The health loop of the active connection fails; the reconnection that follows
\* succeeds some time, and tells no checker.
HealthFails == /\ link = "connected"
               /\ link' = "reconnecting"
               /\ UNCHANGED <<tracked, active, switch, cacheVars, check>>

Reconnected == /\ link = "reconnecting"
               /\ link' = "connected"
               /\ earlier' = {e \in Handler \X Verb : verdicts[e[1]][e[2]] # NoCluster}
               /\ UNCHANGED <<tracked, active, switch, verdicts, check, overlapped>>

-------------------------------------------------------------------------------
\* A check takes the clients of the active connection once, for all its verbs.
Ask(a, h, verbs) ==
  /\ check[a] = Resting /\ link = "connected"
  /\ check' = [check EXCEPT ![a] = [of |-> h, client |-> active, left |-> verbs, got |-> {}]]
  /\ overlapped' = [overlapped EXCEPT ![h] = @ \/ Switching]
  /\ UNCHANGED <<connectionVars, switch, verdicts, earlier>>

\* What is left of a's check when v has its answer; the last one ends it.
Without(a, v) == IF check[a].left = {v} THEN Resting
                 ELSE [check[a] EXCEPT !.left = @ \ {v}, !.got = {}]

\* The cache is read under the lock: a cached answer is used, ...
Hit(a, v) == /\ v \in check[a].left /\ check[a].got = {}
             /\ verdicts[check[a].of][v] # NoCluster
             /\ check' = [check EXCEPT ![a] = Without(a, v)]
             /\ UNCHANGED <<connectionVars, switch, cacheVars>>

\* ... otherwise the server of the clients is asked, and whoever asked meanwhile, too.
Answered(a, v) == /\ v \in check[a].left /\ check[a].got = {}
                  /\ verdicts[check[a].of][v] = NoCluster
                  /\ check' = [check EXCEPT ![a].got = {v}]
                  /\ UNCHANGED <<connectionVars, switch, cacheVars>>

\* The answer goes into the cache, also when that was cleared or filled meanwhile.
Store(a, v) == /\ v \in check[a].got
               /\ verdicts' = [verdicts EXCEPT ![check[a].of][v] = check[a].client]
               /\ check' = [check EXCEPT ![a] = Without(a, v)]
               /\ earlier' = earlier \ {<<check[a].of, v>>}
               /\ UNCHANGED <<connectionVars, switch, overlapped>>

\* An error ends the whole check.
AskFails(a) == /\ check[a].got # {}
               /\ check' = [check EXCEPT ![a] = Resting]
               /\ UNCHANGED <<connectionVars, switch, cacheVars>>

CheckAccess(a) == \/ \E h \in Handler, v \in Verb : Ask(a, h, {v})
                  \/ Ask(a, "cluster", Verb)  \* BulkCheck
                  \/ \E v \in Verb : Hit(a, v) \/ Answered(a, v) \/ Store(a, v)
                  \/ AskFails(a)

PermissionsNext == \/ \E c \in Cluster : ConnectTo(c) \/ SwitchTo(c)
                   \/ Leave \/ UnknownContext \/ Built \/ Switched
                   \/ HealthFails \/ Reconnected
                   \/ DisconnectActive \/ TakeAway \/ ClearLast
                   \/ \E a \in Asker : CheckAccess(a)

PermissionsSpec == PermissionsInit /\ [][PermissionsNext]_permissionVars

-------------------------------------------------------------------------------
PermissionsTypeOK ==
  /\ active \in Cluster \cup {NoCluster}
  /\ link \in {"none", "connecting", "connected", "reconnecting", "error"}
  /\ tracked \subseteq Cluster
  /\ link = "none" <=> active = NoCluster
  /\ switch \in [op : {"none", "leave", "build", "switch", "clear"}, to : Cluster \cup {NoCluster}]
  /\ verdicts \in [Handler -> [Verb -> Cluster \cup {NoCluster}]]
  /\ check \in [Asker -> [of : Handler \cup {"nobody"}, client : Cluster \cup {NoCluster},
                          left : SUBSET Verb, got : SUBSET Verb]]
  /\ \A a \in Asker : /\ check[a] # Resting => check[a].left # {}
                      /\ check[a].got \subseteq check[a].left
                      /\ \A v, w \in check[a].got : v = w
  /\ overlapped \in [Handler -> BOOLEAN]
  /\ earlier \subseteq Handler \X Verb

OfServing(h) == ~overlapped[h] /\ ~Switching =>
                  \A v \in Verb : verdicts[h][v] \in {NoCluster, active}

\* What the window is told about permissions is said by the connected cluster,
\* unless a check ran into the switch: its answer may be stored after the clear
\* and stay (rbac.go:44-76, cluster_handler.go:65-79).  The connection may be lost
\* and rebuilt any number of times: the answers stay those of its context.
ToldByServing == OfServing("cluster")

\* "ClearCache removes all cached RBAC results. Call this when the user switches
\* contexts or after a reconnection." (rbac.go:109-110): no answer is used that was
\* cached before the active connection was last rebuilt.
UsedSinceReconnected ==
  [][\A a \in Asker, v \in Verb : Hit(a, v) => <<check[a].of, v>> \notin earlier]_permissionVars
================================================================================
