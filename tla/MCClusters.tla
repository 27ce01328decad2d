------------------------------ MODULE MCClusters ------------------------------
(***************************************************************************)
(* The connections of the backend, on a larger instance than MCRecovery's, *)
(* and the watches that two hooks open.  They share no variable, so one    *)
(* behaviour runs one of them while the other stands still.                *)
(***************************************************************************)
EXTENDS ClusterManager, ResourceWatch, TLC

CONSTANTS dev, prod,   \* one context active while another is tracked
          ui, quit,    \* the UI's Disconnect and that of app.shutdown
          list, panel  \* two hooks of one key: one replaces the other, or both are mounted

VARIABLE service

ClusterSymmetry == Permutations(Context) \cup Permutations(Caller) \cup Permutations(Hook)

MCInit == /\ service \in {"clusters", "watches"}
          /\ Init /\ WatchInit
          /\ service # "clusters" => \A x \in Context : up[x]

MCNext ==
  /\ UNCHANGED service
  /\ \/ service = "clusters" /\ Next /\ UNCHANGED watchVars
     \/ service = "watches" /\ WatchNext /\ UNCHANGED vars

MCSpec == MCInit /\ [][MCNext]_<<service, vars, watchVars>>
===============================================================================
