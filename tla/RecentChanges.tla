----------------------------- MODULE RecentChanges -----------------------------
(***************************************************************************)
(* What the change timeline promises (internal/troubleshoot/timeline.go):  *)
(* it keeps the last MaxEntries changes, oldest first.                     *)
(***************************************************************************)
EXTENDS Naturals, Sequences

CONSTANTS MaxEntries, ChangeRecord

VARIABLE kept

RecentInit == kept = <<>>

Recorded(r) == IF Len(kept) < MaxEntries THEN Append(kept, r)
               ELSE Append(Tail(kept), r)

RecentNext == \E r \in ChangeRecord : kept' = Recorded(r)

RecentSpec == RecentInit /\ [][RecentNext]_kept
================================================================================
