------------------------------ MODULE ExecSession ------------------------------
(***************************************************************************)
(* One exec session (internal/stream/exec.go, stream_handler.go): the      *)
(* goroutine of the SPDY stream with its exit callback, the pipe to the    *)
(* remote command's input, the queue of terminal sizes, which holds one,   *)
(* and the entry in StreamHandler.execSessions.                            *)
(***************************************************************************)
EXTENDS Naturals, Sequences, FiniteSets

CONSTANTS Resizer,   \* concurrent ResizeExec calls
          MaxSizes   \* bound: sizes the terminal takes

ASSUME ExecAssumption == MaxSizes \in Nat

VARIABLES
  remote,     \* the remote command: "runs" or "ended"
  streamCtx,  \* the context of the stream is good
  onExit,     \* the callback: "waits", "emit", "delete" or "over"
  shut,       \* session.closed, and its pipe
  entryOf,    \* the session's entry: "none" (not yet), "listed" or "gone"
  started,    \* StartExec of the handler has returned
  sizeQueue,  \* sizeQueue.ch
  drawn,      \* the last size that reached the remote terminal, 0 at first
  sent,       \* the last size that the window asked for
  resizer,    \* resizer[r]: what a call is at, and with which size
  settled     \* the last size whose call overlapped no other one

streamVars == <<remote, streamCtx, onExit, shut, entryOf, started>>
sizeVars == <<sizeQueue, drawn, sent, resizer, settled>>
execVars == <<streamVars, sizeVars>>

IdleResizer == [step |-> "idle", size |-> 0, alone |-> TRUE]

\* The stream is open and its goroutine runs.
Streaming == /\ remote = "runs" /\ streamCtx = TRUE /\ onExit = "waits"
             /\ shut = FALSE
             /\ sizeQueue = <<>> /\ drawn = 0 /\ sent = 0 /\ settled = 0
             /\ resizer = [r \in Resizer |-> IdleResizer]

ExecInit == Streaming /\ entryOf = "none" /\ started = FALSE

-------------------------------------------------------------------------------
\* The remote command ends, at the end of its input or by itself; the context
\* ends after a day.
RemoteEnds == /\ remote = "runs"
              /\ remote' = "ended"
              /\ UNCHANGED <<streamCtx, onExit, shut, entryOf, started, sizeVars>>

DayOver == /\ streamCtx
           /\ streamCtx' = FALSE
           /\ UNCHANGED <<remote, onExit, shut, entryOf, started, sizeVars>>

\* StreamWithContext returns, onExit emits exec:exit and cancels, ...
StreamEnds == /\ onExit = "waits" /\ (remote = "ended" \/ ~streamCtx)
              /\ onExit' = "delete"
              /\ streamCtx' = FALSE
              /\ UNCHANGED <<remote, shut, entryOf, started, sizeVars>>

\* ... then deletes the entry, which StartExec may still be about to write.
Forget == /\ onExit = "delete"
          /\ onExit' = "over"
          /\ entryOf' = IF entryOf = "listed" THEN "gone" ELSE entryOf
          /\ UNCHANGED <<remote, streamCtx, shut, started, sizeVars>>

List == /\ ~started
        /\ started' = TRUE
        /\ entryOf' = "listed"
        /\ UNCHANGED <<remote, streamCtx, onExit, shut, sizeVars>>

\* CloseExec takes the entry and shuts the input, nothing else: the command may go
\* on.  (The input is shut once no Write, which is not modelled, holds its lock.)
CloseExec == /\ entryOf = "listed"
             /\ entryOf' = "gone"
             /\ shut' = TRUE
             /\ UNCHANGED <<remote, streamCtx, onExit, started, sizeVars>>

-------------------------------------------------------------------------------
\* The window's terminal takes a new size: ResizeExec finds the session, ...
Resize(r) ==
  /\ resizer[r].step = "idle"
  /\ entryOf = "listed" /\ sent < MaxSizes
  /\ sent' = sent + 1
  /\ LET busy == {q \in Resizer : resizer[q].step # "idle"} IN
     resizer' = [q \in Resizer |->
                   IF q = r THEN [step |-> "drain", size |-> sent + 1, alone |-> busy = {}]
                   ELSE [resizer[q] EXCEPT !.alone = @ /\ q \notin busy]]
  /\ UNCHANGED <<streamVars, sizeQueue, drawn, settled>>

DrainNot(r) ==  \* faulty: leaves the size that is still pending
  /\ resizer[r].step = "drain"
  /\ resizer' = [resizer EXCEPT ![r].step = "offer"]
  /\ UNCHANGED <<streamVars, sizeQueue, drawn, sent, settled>>

\* ... takes out a size that is still pending, ...
Drain(r) == /\ resizer[r].step = "drain"
            /\ sizeQueue' = <<>>
            /\ resizer' = [resizer EXCEPT ![r].step = "offer"]
            /\ UNCHANGED <<streamVars, drawn, sent, settled>>

\* ... and puts its own in, unless another call was faster.
Offer(r) == /\ resizer[r].step = "offer"
            /\ sizeQueue' = IF sizeQueue = <<>> THEN <<resizer[r].size>> ELSE sizeQueue
            /\ settled' = IF resizer[r].alone THEN resizer[r].size ELSE settled
            /\ resizer' = [resizer EXCEPT ![r] = IdleResizer]
            /\ UNCHANGED <<streamVars, drawn, sent>>

\* The stream asks for the next size, as long as it is there.
NextSize == /\ sizeQueue # <<>> /\ onExit = "waits"
            /\ drawn' = Head(sizeQueue)
            /\ sizeQueue' = Tail(sizeQueue)
            /\ UNCHANGED <<streamVars, sent, resizer, settled>>

\* The session is over.
ExecOver == onExit = "over" /\ started /\ UNCHANGED execVars

ExecNext == \/ RemoteEnds \/ DayOver \/ StreamEnds \/ Forget
            \/ List \/ CloseExec \/ NextSize
            \/ \E r \in Resizer : Resize(r) \/ Drain(r) \/ Offer(r)
            \/ ExecOver

ExecSpec == ExecInit /\ [][ExecNext]_execVars

\* Goroutines and calls run; nothing makes the remote command end.
ExecFairness == /\ WF_execVars(StreamEnds) /\ WF_execVars(Forget)
                /\ WF_execVars(List) /\ WF_execVars(NextSize)
                /\ \A r \in Resizer : WF_execVars(Drain(r) \/ Offer(r))

-------------------------------------------------------------------------------
ExecTypeOK == /\ remote \in {"runs", "ended"} /\ streamCtx \in BOOLEAN
              /\ onExit \in {"waits", "delete", "over"}
              /\ shut \in BOOLEAN /\ started \in BOOLEAN
              /\ entryOf \in {"none", "listed", "gone"}
              /\ sizeQueue \in Seq(1..MaxSizes) /\ Len(sizeQueue) <= 1
              /\ drawn \in 0..MaxSizes /\ sent \in 0..MaxSizes /\ settled \in 0..sent
              /\ resizer \in [Resizer -> [step : {"idle", "drain", "offer"}, size : 0..MaxSizes, alone : BOOLEAN]]

\* The remote terminal gets the last size it was given, or a later one, when calls
\* do not overlap: two that do may leave the older size (exec.go:45-59).
LastSizeDrawn == []<>(onExit = "waits" => drawn >= settled)

\* A shell in a container keeps its queue of sizes, and draws the last one.
ExecCorrect == []ExecTypeOK /\ LastSizeDrawn
================================================================================
