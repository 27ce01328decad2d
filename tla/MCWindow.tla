------------------------------- MODULE MCWindow -------------------------------
(***************************************************************************)
(* The pages of the window, the sessions and the logs of its bottom tray   *)
(* and the exec session behind one of its terminals.  They share no        *)
(* variable, so one behaviour runs one of them and no interleaving is      *)
(* lost; the others stand where fairness asks nothing of them.             *)
(***************************************************************************)
EXTENDS DetailPages, Tray, LogTab, ExecSession

CONSTANTS a, b,       \* two resources, two pods
          main, side  \* the containers of a pod, the keys of a secret

VARIABLE part

MCInit ==
  /\ part \in {"pages", "tray", "log", "exec"}
  /\ PagesInit /\ TrayInit /\ LogTabInit /\ Streaming
  /\ part # "tray" => host = "ai"
  /\ started = (part # "exec")
  /\ entryOf = IF started THEN "listed" ELSE "none"

MCNext ==
  /\ UNCHANGED part
  /\ \/ part = "pages" /\ PagesNext /\ UNCHANGED <<trayVars, logTabVars, execVars>>
     \/ part = "tray" /\ TrayNext /\ UNCHANGED <<pageVars, logTabVars, execVars>>
     \/ part = "log" /\ LogTabNext /\ UNCHANGED <<pageVars, trayVars, execVars>>
     \/ part = "exec" /\ ExecNext /\ UNCHANGED <<pageVars, trayVars, logTabVars>>

MCSpec == /\ MCInit /\ [][MCNext]_<<part, pageVars, trayVars, logTabVars, execVars>>
          /\ PagesFairness /\ TrayFairness /\ ExecFairness
================================================================================
