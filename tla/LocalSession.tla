----------------------------- MODULE LocalSession -----------------------------
(***************************************************************************)
(* One local PTY session (internal/ai/session.go) and its entry in the     *)
(* handler's table (StreamHandler.localTerminals, AIHandler.sessions).     *)
(* A goroutine reads the PTY into dataCh; the session's loop batches what  *)
(* arrives and emits it when the batch is large, when the flush timer      *)
(* fires, or at the end; then it waits for the process and reports its     *)
(* exit.  The process's output is 1, 2, 3, ... in the order of writing.    *)
(***************************************************************************)
EXTENDS Naturals, Sequences

CONSTANTS User,     \* concurrent calls for the session's ID
          MaxOutput,  \* bound: chunks the process writes
          ChanCap,    \* capacity of dataCh (64)
          MaxBatch    \* chunks that make a batch large (maxBatchSize)

ASSUME SessionAssumption == /\ MaxOutput \in Nat
                            /\ ChanCap \in Nat \ {0}
                            /\ MaxBatch \in Nat \ {0}

VARIABLES
  process,     \* "runs", "hungup" (it has closed the terminal) or "exited"
  written,     \* how many chunks it has written
  closed,      \* s.closed: the PTY master is closed and the process killed
  hand,        \* the chunk the reading goroutine holds, if any
  read,        \* how many chunks it has read
  readerDone,  \* it has returned
  dataCh,
  dataClosed,  \* dataCh is closed
  accum,
  timer,       \* the timer is armed (Go 1.23+: Stop leaves no stale tick)
  timerRunning,
  loop,        \* the session's loop: "select", "wait", "delete" or "done"
  emitted,     \* output events, in order
  reported,    \* the exit event is out
  entry,       \* the table: "none" (not yet), "listed" or "deleted"
  call,        \* what each caller is at
  returned     \* the start call has registered the session and returned

proc == <<process, written>>
pipe == <<hand, read, readerDone, dataCh, dataClosed>>
batch == <<accum, timer, timerRunning, emitted>>
entryVars == <<entry, returned, call>>
sessionVars == <<proc, closed, pipe, batch, loop, reported, entryVars>>

\* The process is started, and the goroutines.
Spawned == /\ process = "runs" /\ written = 0 /\ closed = FALSE
           /\ hand = <<>> /\ read = 0 /\ readerDone = FALSE
           /\ dataCh = <<>> /\ dataClosed = FALSE
           /\ accum = <<>> /\ timer = FALSE /\ timerRunning = FALSE /\ emitted = <<>>
           /\ loop = "select" /\ reported = FALSE
           /\ call = [u \in User |-> "idle"]

SessionInit == Spawned /\ entry = "none" /\ returned = FALSE

-------------------------------------------------------------------------------
\* The process.
Output == /\ process = "runs" /\ ~closed
          /\ written < MaxOutput
          /\ written' = written + 1
          /\ UNCHANGED <<process, closed, pipe, batch, loop, reported, entryVars>>

HangUp == /\ process = "runs"
          /\ process' = "hungup"
          /\ UNCHANGED <<written, closed, pipe, batch, loop, reported, entryVars>>

Exit == /\ process # "exited"
        /\ process' = "exited"
        /\ UNCHANGED <<written, closed, pipe, batch, loop, reported, entryVars>>

-------------------------------------------------------------------------------
\* The reading goroutine.  What the process wrote before it closed the terminal
\* can still be read; a closed master gives nothing more.
Read == /\ hand = <<>> /\ ~readerDone /\ ~closed
        /\ read < written
        /\ hand' = <<read + 1>>
        /\ read' = read + 1
        /\ UNCHANGED <<proc, closed, readerDone, dataCh, dataClosed, batch, loop, reported, entryVars>>

Send == /\ hand # <<>> /\ Len(dataCh) < ChanCap
        /\ dataCh' = dataCh \o hand
        /\ hand' = <<>>
        /\ UNCHANGED <<proc, closed, read, readerDone, dataClosed, batch, loop, reported, entryVars>>

NoMoreToRead == closed \/ (process # "runs" /\ read = written)

ReadFails == /\ hand = <<>> /\ ~readerDone
             /\ NoMoreToRead
             /\ readerDone' = TRUE
             /\ dataClosed' = TRUE
             /\ UNCHANGED <<proc, closed, hand, read, dataCh, batch, loop, reported, entryVars>>

FlushKeepsFlag(b) ==  \* faulty: stops the timer and still takes it for running
  /\ emitted' = emitted \o b
  /\ accum' = <<>>
  /\ timer' = FALSE
  /\ UNCHANGED timerRunning

-------------------------------------------------------------------------------
\* flush, on a batch b
Flush(b) == /\ emitted' = emitted \o b
            /\ accum' = <<>>
            /\ timer' = FALSE
            /\ timerRunning' = FALSE

Receive ==
  /\ loop = "select" /\ dataCh # <<>>
  /\ dataCh' = Tail(dataCh)
  /\ LET b == Append(accum, Head(dataCh)) IN
     IF Len(b) >= MaxBatch
     THEN Flush(b)
     ELSE /\ accum' = b
          /\ timer' = (timer \/ ~timerRunning)
          /\ timerRunning' = TRUE
          /\ UNCHANGED emitted
  /\ UNCHANGED <<proc, closed, hand, read, readerDone, dataClosed, loop, reported, entryVars>>

\* The timer's channel delivers once: it is not armed any more.
Tick == /\ loop = "select" /\ timer
        /\ Flush(accum)
        /\ UNCHANGED <<proc, closed, pipe, loop, reported, entryVars>>

EndOfOutputEarly ==  \* faulty: leaves as soon as the terminal is closed
  /\ loop = "select" /\ dataClosed
  /\ loop' = "wait"
  /\ Flush(accum)
  /\ UNCHANGED <<proc, closed, pipe, reported, entryVars>>

EndOfOutput == /\ loop = "select" /\ dataCh = <<>> /\ dataClosed
               /\ loop' = "wait"
               /\ Flush(accum)
               /\ UNCHANGED <<proc, closed, pipe, reported, entryVars>>

\* cmd.Wait returns and onExit emits the event, ...
Report == /\ loop = "wait" /\ process = "exited"
          /\ loop' = "delete"
          /\ reported' = TRUE
          /\ UNCHANGED <<proc, closed, pipe, batch, entryVars>>

\* ... then drops the entry, which the start call may still be about to write.
Delete == /\ loop = "delete"
          /\ loop' = "done"
          /\ entry' = IF entry = "none" THEN "none" ELSE "deleted"
          /\ UNCHANGED <<proc, closed, pipe, batch, reported, returned, call>>

-------------------------------------------------------------------------------
\* The handler's calls.
RegisterSession == /\ ~returned
                   /\ returned' = TRUE
                   /\ entry' = "listed"
                   /\ UNCHANGED <<proc, closed, pipe, batch, loop, reported, call>>

\* WriteLocalTerminal finds the session and takes its lock, ...
Locked == \E u \in User : call[u] = "writing"

Write(u) == /\ call[u] = "idle" /\ entry = "listed"
            /\ ~closed /\ ~Locked
            /\ call' = [call EXCEPT ![u] = "writing"]
            /\ UNCHANGED <<proc, closed, pipe, batch, loop, reported, entry, returned>>

\* ... and keeps it as long as the process does not take its input.
Written(u) == /\ call[u] = "writing"
              /\ call' = [call EXCEPT ![u] = "idle"]
              /\ UNCHANGED <<proc, closed, pipe, batch, loop, reported, entry, returned>>

\* CloseLocalTerminal, CloseAISession and CloseAll take the entry first, ...
TakeEntry(u) == /\ call[u] = "idle" /\ entry = "listed"
                /\ entry' = "deleted"
                /\ call' = [call EXCEPT ![u] = "closing"]
                /\ UNCHANGED <<proc, closed, pipe, batch, loop, reported, returned>>

\* ... then close the master and kill the process under the session's lock.
Close(u) == /\ call[u] = "closing" /\ ~Locked
            /\ call' = [call EXCEPT ![u] = "closed"]
            /\ closed' = TRUE
            /\ process' = "exited"
            /\ UNCHANGED <<written, pipe, batch, loop, reported, entry, returned>>

Reader == Read \/ Send \/ ReadFails
SessionLoop == Receive \/ Tick \/ EndOfOutput \/ Report \/ Delete

\* Nothing more happens to a session that is over and that nobody calls.
Over == loop = "done" /\ UNCHANGED sessionVars

SessionNext == \/ Output \/ HangUp \/ Exit
               \/ Reader \/ SessionLoop
               \/ RegisterSession
               \/ \E u \in User : Write(u) \/ Written(u) \/ TakeEntry(u) \/ Close(u)
               \/ Over

SessionSpec == SessionInit /\ [][SessionNext]_sessionVars

\* Goroutines and calls are scheduled.  The process need not end, nor write, nor
\* read: a write to it returns for certain only when it has let the terminal go.
SessionFairness ==
  /\ WF_sessionVars(Reader)
  /\ WF_sessionVars(SessionLoop)
  /\ WF_sessionVars(RegisterSession)
  /\ \A u \in User : /\ WF_sessionVars(Close(u))
                     /\ WF_sessionVars(process # "runs" /\ Written(u))

-------------------------------------------------------------------------------
SessionTypeOK == /\ process \in {"runs", "hungup", "exited"}
                 /\ written \in 0..MaxOutput /\ read \in 0..written
                 /\ closed \in BOOLEAN /\ returned \in BOOLEAN /\ reported \in BOOLEAN
                 /\ hand \in Seq(1..MaxOutput) /\ Len(hand) <= 1
                 /\ readerDone \in BOOLEAN /\ dataClosed \in BOOLEAN
                 /\ dataCh \in Seq(1..MaxOutput) /\ Len(dataCh) <= ChanCap
                 /\ accum \in Seq(1..MaxOutput) /\ Len(accum) < MaxBatch
                 /\ timer \in BOOLEAN /\ timerRunning \in BOOLEAN
                 /\ emitted \in Seq(1..MaxOutput)
                 /\ loop \in {"select", "wait", "delete", "done"}
                 /\ entry \in {"none", "listed", "deleted"}
                 /\ call \in [User -> {"idle", "writing", "closing", "closed"}]

\* Nothing read from the terminal is lost, doubled or out of order on its way
\* through the goroutine, the channel and the batch (session.go:59-118).
OutputInOrder == emitted \o accum \o dataCh \o hand = [i \in 1..read |-> i]

\* The exit event comes last, and a process that was not closed has had all it
\* wrote emitted before it (session.go:99-104).
ExitLast == reported => /\ Len(emitted) = read
                        /\ ~closed => read = written

\* A batch that waits has a timer that will flush it (session.go:106-117).
BatchHasTimer == accum # <<>> => timer

\* What was read from the terminal reaches the screen when the process then
\* falls silent (session.go:15 "maximum time to buffer PTY output").
OutputSeen == <>[][read' = read]_sessionVars => []<>(Len(emitted) = read)

\* The exit of the process is always reported, also while its output is still
\* queued and whoever closes the session (session.go:103).
ExitSeen == []<>(process = "exited" => reported)

\* The whole way of a terminal's output, in every interleaving of the reader, the
\* loop, the timer and the calls of the window (session.go:59-118).
SessionSafe == SessionTypeOK /\ OutputInOrder /\ ExitLast /\ BatchHasTimer

\* Output and exit both reach the window.
SessionEnds == OutputSeen /\ ExitSeen
===============================================================================
