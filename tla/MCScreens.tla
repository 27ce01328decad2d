------------------------------- MODULE MCScreens -------------------------------
(***************************************************************************)
(* Connecting to a cluster, the dialogs and wizards, the command palette   *)
(* and everything that polls.  They share no variable, so one behaviour    *)
(* runs one of them and no interleaving is lost; the others stand at a     *)
(* first state of theirs, in which fairness asks nothing of them.          *)
(***************************************************************************)
EXTENDS Connection, Forms, Palette, Polls

CONSTANTS a, b,    \* two clusters; entries of a form; two keys that are polled
          pod, po, p  \* what is typed into the palette; p alone is too short

VARIABLE screen

MCInit ==
  /\ screen \in {"connection", "forms", "palette", "polls"}
  /\ ConnectionInit /\ FormsInit /\ PaletteInit /\ PollsInit
  /\ screen # "forms" => form = "delete"
  /\ screen # "polls" => widget = "summary"

MCNext ==
  /\ UNCHANGED screen
  /\ \/ screen = "connection" /\ ConnectionNext /\ UNCHANGED <<formVars, paletteVars, pollVars>>
     \/ screen = "forms" /\ FormsNext /\ UNCHANGED <<connectionVars, paletteVars, pollVars>>
     \/ screen = "palette" /\ PaletteNext /\ UNCHANGED <<connectionVars, formVars, pollVars>>
     \/ screen = "polls" /\ PollsNext /\ UNCHANGED <<connectionVars, formVars, paletteVars>>

MCSpec ==
  /\ MCInit /\ [][MCNext]_<<screen, connectionVars, formVars, paletteVars, pollVars>>
  /\ ConnectionFairness /\ FormsFairness /\ PaletteFairness /\ PollsFairness
================================================================================
