------------------------------ MODULE MCRecovery ------------------------------
(***************************************************************************)
(* The services of the backend that must come to an end, or back, by       *)
(* themselves.  They share no variable, so one behaviour runs one of them, *)
(* and no interleaving is lost; the others stand where nothing that owes   *)
(* fairness is enabled, so that it asks nothing of them.                   *)
(***************************************************************************)
EXTENDS ClusterManager, PortForward, LogStreams, LocalSession, KubeconfigWatch, ResourceSearch

CONSTANTS dev,                 \* the context of both connections
          p1,                  \* the local port of a forward
          pod, app, sidecar,   \* a pod of two containers
          ui,                  \* stops forwards and wakes the system
          retry, u1, u2,       \* calls of one handler that overlap
          home, work,          \* kubeconfig files
          nodes, jobs1, pods   \* types of resources that are searched

VARIABLE service

\* A search that is over.
NoSearch == /\ jobs = {} /\ worker = [w \in Worker |-> At("done", {})]
            /\ matches = [t \in Type |-> 0] /\ resultsCh = <<>> /\ results = {}
            /\ resultsClosed = TRUE /\ gathered = TRUE /\ expired = TRUE

MCInit == /\ service \in {"clusters", "forwards", "logs", "sessions", "kubeconfig", "search"}
          /\ Init /\ ForwardInit /\ LogInit /\ Spawned /\ WatcherMade
          /\ service # "clusters" => \A x \in Context : up[x]
          /\ returned = (service # "sessions")
          /\ entry = IF returned THEN "listed" ELSE "none"
          /\ listing = (service = "kubeconfig")
          /\ fetched = IF listing THEN <<>> ELSE [f \in File |-> 0]
          /\ IF service = "search" THEN SearchInit ELSE NoSearch

backendVars == <<vars, forwardVars, logVars, sessionVars>>

MCNext ==
  /\ UNCHANGED service
  /\ \/ /\ \/ service = "clusters" /\ Next /\ UNCHANGED <<forwardVars, logVars, sessionVars>>
           \/ service = "forwards" /\ ForwardNext /\ UNCHANGED <<vars, logVars, sessionVars>>
           \/ service = "logs" /\ LogNext /\ UNCHANGED <<vars, forwardVars, sessionVars>>
           \/ service = "sessions" /\ SessionNext /\ UNCHANGED <<vars, forwardVars, logVars>>
        /\ UNCHANGED <<watcherVars, searchVars>>
     \/ service = "kubeconfig" /\ WatcherNext /\ UNCHANGED <<backendVars, searchVars>>
     \/ service = "search" /\ SearchNext /\ UNCHANGED <<backendVars, watcherVars>>

MCSpec == /\ MCInit /\ [][MCNext]_<<service, backendVars, watcherVars, searchVars>>
          /\ Fairness /\ ForwardFairness /\ LogFairness /\ SessionFairness
          /\ WatcherFairness /\ SearchFairness
===============================================================================
