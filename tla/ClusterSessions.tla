--------------------------- MODULE ClusterSessions ---------------------------
(***************************************************************************)
(* What the cluster manager promises its callers, without goroutines,      *)
(* cancel functions or connection objects: every kubeconfig context is     *)
(* either untracked or in one visible state, and at most one tracked       *)
(* context is the active one.  ClusterManager implements it.               *)
(***************************************************************************)
CONSTANTS Context,      \* the kubeconfig contexts
          NoContext     \* the empty context name ""

VARIABLES view,         \* view[x]: the state of x that ListConnections reports
          active        \* the context that requests without a context use

sessionVars == <<view, active>>

Visible == {"untracked", "connecting", "connected", "reconnecting", "error"}

SessionInit == /\ view = [x \in Context |-> "untracked"]
               /\ active = NoContext

Move(x, from, to) == /\ view[x] \in from
                     /\ view' = [view EXCEPT ![x] = to]

Open(x) == /\ Move(x, Visible, "connecting")
           /\ active' = x

Settle(x) == /\ \/ Move(x, {"connecting"}, "connected")
                \/ Move(x, {"connecting"}, "error")
             /\ UNCHANGED active

Lose(x) == Move(x, {"connected"}, "reconnecting") /\ UNCHANGED active

Regain(x) == Move(x, {"reconnecting"}, "connected") /\ UNCHANGED active

\* Forgetting the active context leaves no context active.
Close(x) == /\ Move(x, Visible \ {"untracked"}, "untracked")
            /\ active' = IF active = x THEN NoContext ELSE active

Select(x) == /\ view[x] # "untracked"
             /\ active' = x
             /\ UNCHANGED view

SessionNext == \E x \in Context : \/ Open(x) \/ Settle(x) \/ Lose(x)
                                  \/ Regain(x) \/ Close(x) \/ Select(x)

SessionSpec == SessionInit /\ [][SessionNext]_sessionVars
==============================================================================
