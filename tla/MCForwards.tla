------------------------------ MODULE MCForwards ------------------------------
(***************************************************************************)
(* Port forwards in two scenes: two forwards compete for a port while one  *)
(* caller stops or probes them, and two callers meet at one forward.       *)
(***************************************************************************)
EXTENDS PortForward

CONSTANTS p1,         \* the port
          stop, wake  \* the callers

VARIABLE scene

MCInit == scene \in {"rivals", "callers"} /\ ForwardInit

MCNext == /\ UNCHANGED scene
          /\ ForwardNext
          /\ IF scene = "rivals" THEN progress'[wake] = "idle" ELSE dialled' <= 1

MCSpec == MCInit /\ [][MCNext]_<<scene, forwardVars>>
===============================================================================
