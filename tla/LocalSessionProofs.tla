-------------------------- MODULE LocalSessionProofs --------------------------
(***************************************************************************)
(* A terminal's output reaches the window whole and in order, for any      *)
(* amount of it, any capacity of the channel and size of a batch.  The     *)
(* chunks read so far are cut into four pieces, one behind the other: the  *)
(* reading goroutine's hand, the channel, the batch and what was emitted;  *)
(* a step moves a piece's first chunk to the end of the next, and the      *)
(* pieces run dry from the terminal on when it has been closed.            *)
(***************************************************************************)
EXTENDS LocalSession, SequenceTheorems, TLAPS

USE SessionAssumption

\* The type invariant, in parts of one kind.
Kinds == /\ process \in {"runs", "hungup", "exited"}
         /\ loop \in {"select", "wait", "delete", "done"}
         /\ entry \in {"none", "listed", "deleted"}
         /\ call \in [User -> {"idle", "writing", "closing", "closed"}]
Flags == /\ closed \in BOOLEAN /\ returned \in BOOLEAN /\ reported \in BOOLEAN
         /\ readerDone \in BOOLEAN /\ dataClosed \in BOOLEAN
         /\ timer \in BOOLEAN /\ timerRunning \in BOOLEAN
Counts == written \in 0..MaxOutput /\ read \in 0..written
Queues == /\ hand \in Seq(1..MaxOutput) /\ Len(hand) <= 1
          /\ dataCh \in Seq(1..MaxOutput) /\ Len(dataCh) <= ChanCap
          /\ accum \in Seq(1..MaxOutput) /\ Len(accum) < MaxBatch
          /\ emitted \in Seq(1..MaxOutput)

LEMMA TypeParts == SessionTypeOK <=> Kinds /\ Flags /\ Counts /\ Queues
BY DEF SessionTypeOK, Kinds, Flags, Counts, Queues

\* s holds the chunks that follow the first n.
RunsFrom(s, n) == \A i \in 1..Len(s) : s[i] = n + i

\* The four pieces, in order, are what was read.
Pieces ==
  /\ RunsFrom(emitted, 0)
  /\ RunsFrom(accum, Len(emitted))
  /\ RunsFrom(dataCh, Len(emitted) + Len(accum))
  /\ RunsFrom(hand, Len(emitted) + Len(accum) + Len(dataCh))
  /\ Len(emitted) + Len(accum) + Len(dataCh) + Len(hand) = read

\* The reader closes the channel when it has nothing more to read or to send.
ReaderOver ==
  /\ dataClosed = readerDone
  /\ readerDone => hand = <<>> /\ NoMoreToRead

\* The loop leaves a channel that is closed and empty, and reports once it is out.
LoopOver ==
  /\ loop # "select" => readerDone /\ dataCh = <<>> /\ accum = <<>>
  /\ reported => loop \in {"delete", "done"}

TimerKnown == timerRunning => timer

SessionInv == /\ Kinds /\ Flags /\ Counts /\ Queues
              /\ Pieces /\ ReaderOver /\ LoopOver /\ TimerKnown /\ BatchHasTimer

-------------------------------------------------------------------------------
LEMMA SessionStarts == SessionInit => SessionInv
<1> SUFFICES ASSUME SessionInit PROVE SessionInv
  OBVIOUS
<1> USE DEF SessionInit, Spawned
<1>1. Kinds /\ Flags
  BY DEF Kinds, Flags
<1>2. Counts /\ Queues
  <2>1. \A S : <<>> \in Seq(S)
    OBVIOUS
  <2>2. Len(<<>>) = 0
    OBVIOUS
  <2>3. QED
    BY <2>1, <2>2 DEF Counts, Queues
<1>3. RunsFrom(<<>>, 0)
  BY DEF RunsFrom
<1>4. Pieces
  BY <1>3 DEF Pieces
<1>5. ReaderOver /\ LoopOver /\ TimerKnown /\ BatchHasTimer
  BY DEF ReaderOver, LoopOver, TimerKnown, BatchHasTimer
<1>6. QED
  BY <1>1, <1>2, <1>4, <1>5 DEF SessionInv

\* Whoever touches none of the pieces leaves them in order.
LEMMA PiecesKept ==
  ASSUME Pieces, UNCHANGED <<emitted, accum, dataCh, hand, read>>
  PROVE  Pieces'
BY DEF Pieces, RunsFrom

\* The process.
LEMMA ProcessKeeps ==
  ASSUME SessionInv, Output \/ HangUp \/ Exit
  PROVE  SessionInv'
<1> USE DEF SessionInv, pipe, batch, entryVars
<1>1. Kinds' /\ Flags' /\ Counts' /\ Queues'
  BY DEF Output, HangUp, Exit, Kinds, Flags, Counts, Queues
<1>2. Pieces'
  BY PiecesKept DEF Output, HangUp, Exit
<1>3. TimerKnown' /\ BatchHasTimer' /\ LoopOver'
  BY DEF Output, HangUp, Exit, TimerKnown, BatchHasTimer, LoopOver
<1>4. ReaderOver'
  BY DEF Output, HangUp, Exit, Kinds, ReaderOver, NoMoreToRead
<1>5. QED
  BY <1>1, <1>2, <1>3, <1>4

\* The reading goroutine.
LEMMA ReadKeeps ==
  ASSUME SessionInv, Read
  PROVE  SessionInv'
<1> USE DEF SessionInv, Read, proc, batch, entryVars
<1>1. read + 1 \in 1..MaxOutput /\ hand' = <<read + 1>> /\ Len(hand) = 0
  BY DEF Counts
<1>2. Kinds' /\ Flags'
  BY DEF Kinds, Flags
<1>3. Counts' /\ Queues'
  BY <1>1 DEF Counts, Queues
<1>4. Len(hand') = 1 /\ hand'[1] = read + 1
  BY <1>1
<1>5. Pieces'
  BY <1>1, <1>4 DEF Queues, Counts, Pieces, RunsFrom
<1>6. ReaderOver' /\ LoopOver' /\ TimerKnown' /\ BatchHasTimer'
  BY DEF ReaderOver, LoopOver, TimerKnown, BatchHasTimer
<1>7. QED
  BY <1>2, <1>3, <1>5, <1>6

LEMMA OneElement ==
  ASSUME NEW S, NEW s \in Seq(S), Len(s) <= 1, s # <<>>
  PROVE  Len(s) = 1
<1> DEFINE n == Len(s)
<1>1. n \in Nat \ {0}
  BY EmptySeq
<1>2. n <= 1
  OBVIOUS
<1> HIDE DEF n
<1>3. n = 1
  BY <1>1, <1>2
<1>4. QED
  BY <1>3 DEF n

LEMMA SendKeeps ==
  ASSUME SessionInv, Send
  PROVE  SessionInv'
<1> USE DEF SessionInv, Send, proc, batch, entryVars
<1>1. Len(hand) = 1 /\ hand' = <<>> /\ Len(hand') = 0
  <2>1. hand \in Seq(1..MaxOutput) /\ Len(hand) <= 1 /\ hand # <<>>
    BY DEF Queues
  <2>2. Len(hand) = 1
    BY <2>1, OneElement
  <2>3. hand' = <<>> /\ Len(hand') = 0
    OBVIOUS
  <2>4. QED
    BY <2>2, <2>3
<1>2. /\ dataCh' \in Seq(1..MaxOutput) /\ Len(dataCh') = Len(dataCh) + 1
      /\ \A i \in 1..Len(dataCh) : dataCh'[i] = dataCh[i]
      /\ dataCh'[Len(dataCh) + 1] = hand[1]
  <2>1. dataCh' = dataCh \o hand /\ dataCh \in Seq(1..MaxOutput) /\ hand \in Seq(1..MaxOutput)
    BY DEF Queues
  <2>2. /\ dataCh' \in Seq(1..MaxOutput) /\ Len(dataCh') = Len(dataCh) + Len(hand)
        /\ \A i \in 1..(Len(dataCh) + Len(hand)) : dataCh'[i] =
             IF i <= Len(dataCh) THEN dataCh[i] ELSE hand[i - Len(dataCh)]
    BY <2>1, ConcatProperties
  <2>3. Len(dataCh) \in Nat
    BY <2>1
  <2>4. Len(dataCh) + 1 \in 1..(Len(dataCh) + Len(hand)) /\ Len(dataCh) + 1 - Len(dataCh) = 1
    BY <1>1, <2>3
  <2>5. dataCh'[Len(dataCh) + 1] = hand[1]
    BY <2>2, <2>3, <2>4
  <2>6. \A i \in 1..Len(dataCh) : dataCh'[i] = dataCh[i]
    BY <1>1, <2>2, <2>3
  <2>7. QED
    BY <1>1, <2>2, <2>5, <2>6
<1>3. Kinds' /\ Flags' /\ Counts' /\ Queues'
  <2>1. Kinds' /\ Flags'
    BY DEF Kinds, Flags
  <2>2. Counts' /\ Queues'
    BY <1>1, <1>2 DEF Counts, Queues
  <2>3. QED
    BY <2>1, <2>2
<1>4. Pieces'
  <2> DEFINE n == Len(emitted) + Len(accum)
  <2>1. n \in Nat /\ Len(dataCh) \in Nat /\ UNCHANGED <<emitted, accum, read>>
    BY DEF Queues
  <2>2. /\ \A i \in 1..Len(dataCh) : dataCh[i] = n + i
        /\ hand[1] = n + Len(dataCh) + 1 /\ n + Len(dataCh) + 1 = read
    BY <1>1, <2>1 DEF Pieces, RunsFrom
  <2> HIDE DEF n
  <2>3. \A i \in 1..(Len(dataCh) + 1) : dataCh'[i] = n + i
    <3>1. ASSUME NEW i \in 1..(Len(dataCh) + 1) PROVE dataCh'[i] = n + i
      <4>1. CASE i \in 1..Len(dataCh)
        BY <1>2, <2>2, <4>1
      <4>2. CASE i = Len(dataCh) + 1
        <5>1. dataCh'[i] = hand[1]
          BY <1>2, <4>2
        <5>2. n + i = n + Len(dataCh) + 1
          BY <2>1, <4>2
        <5>3. QED
          BY <2>2, <5>1, <5>2
      <4>3. QED
        BY <2>1, <4>1, <4>2
    <3>2. QED
      BY <3>1
  <2>4. RunsFrom(dataCh', n) /\ n + Len(dataCh') + Len(hand') = read
    BY <1>1, <1>2, <2>1, <2>2, <2>3 DEF RunsFrom
  <2>5. RunsFrom(hand', n + Len(dataCh'))
    BY <1>1 DEF RunsFrom
  <2>6. QED
    BY <2>1, <2>4, <2>5 DEF n, Pieces, RunsFrom
<1>5. ReaderOver' /\ LoopOver' /\ TimerKnown' /\ BatchHasTimer'
  BY DEF ReaderOver, LoopOver, TimerKnown, BatchHasTimer
<1>6. QED
  BY <1>3, <1>4, <1>5

LEMMA ReadFailsKeeps ==
  ASSUME SessionInv, ReadFails
  PROVE  SessionInv'
<1> USE DEF SessionInv, ReadFails, proc, batch, entryVars
<1>1. Kinds' /\ Flags' /\ Counts' /\ Queues' /\ Pieces'
  BY DEF Kinds, Flags, Counts, Queues, Pieces, RunsFrom
<1>2. ReaderOver' /\ LoopOver' /\ TimerKnown' /\ BatchHasTimer'
  BY DEF ReaderOver, NoMoreToRead, LoopOver, TimerKnown, BatchHasTimer
<1>3. QED
  BY <1>1, <1>2

-------------------------------------------------------------------------------
\* A batch goes out behind what is out already.
LEMMA FlushMoves ==
  ASSUME Queues, NEW b \in Seq(1..MaxOutput), Flush(b),
         RunsFrom(emitted, 0), RunsFrom(b, Len(emitted))
  PROVE  /\ emitted' \in Seq(1..MaxOutput) /\ Len(emitted') = Len(emitted) + Len(b)
         /\ RunsFrom(emitted, 0)' /\ accum' = <<>> /\ ~timer' /\ ~timerRunning'
<1> USE DEF Queues, Flush
<1>1. /\ emitted' \in Seq(1..MaxOutput) /\ Len(emitted') = Len(emitted) + Len(b)
      /\ \A i \in 1..Len(emitted) : emitted'[i] = emitted[i]
      /\ \A i \in 1..Len(b) : emitted'[Len(emitted) + i] = b[i]
  <2>1. emitted' = emitted \o b /\ emitted \in Seq(1..MaxOutput)
    OBVIOUS
  <2> HIDE DEF Queues, Flush
  <2>2. QED
    BY <2>1, ConcatProperties
<1>2. ASSUME NEW i \in 1..Len(emitted') PROVE emitted'[i] = i
  <2>1. CASE i <= Len(emitted)
    BY <1>1, <2>1 DEF RunsFrom
  <2>2. CASE i > Len(emitted)
    <3> DEFINE k == i - Len(emitted)
    <3>1. k \in 1..Len(b) /\ i = Len(emitted) + k
      BY <1>1, <2>2
    <3>2. emitted'[i] = b[k] /\ b[k] = Len(emitted) + k
      BY <1>1, <3>1 DEF RunsFrom
    <3>3. QED
      BY <3>1, <3>2
  <2>3. QED
    BY <1>1, <2>1, <2>2
<1>3. QED
  BY <1>1, <1>2 DEF RunsFrom

LEMMA ReceiveKeeps ==
  ASSUME SessionInv, Receive
  PROVE  SessionInv'
<1> DEFINE b == Append(accum, Head(dataCh))
<1> USE DEF SessionInv, proc, entryVars
<1>1. /\ Len(dataCh) > 0 /\ Head(dataCh) = dataCh[1]
      /\ dataCh' \in Seq(1..MaxOutput) /\ Len(dataCh') = Len(dataCh) - 1
      /\ \A i \in 1..Len(dataCh') : dataCh'[i] = dataCh[i + 1]
  BY DEF Receive, Queues
<1>2. /\ b \in Seq(1..MaxOutput) /\ Len(b) = Len(accum) + 1
      /\ b[Len(b)] = dataCh[1] /\ \A i \in 1..Len(accum) : b[i] = accum[i]
  BY <1>1 DEF Queues
<1> HIDE DEF b
<1>3. RunsFrom(b, Len(emitted))
  <2>1. /\ Len(emitted) \in Nat /\ Len(accum) \in Nat
        /\ \A i \in 1..Len(accum) : accum[i] = Len(emitted) + i
        /\ dataCh[1] = Len(emitted) + Len(accum) + 1
    BY <1>1 DEF Queues, Pieces, RunsFrom
  <2>2. ASSUME NEW i \in 1..Len(b) PROVE b[i] = Len(emitted) + i
    <3>1. i \in 1..Len(accum) \/ i = Len(accum) + 1
      BY <1>2, <2>1
    <3>2. QED
      BY <1>2, <2>1, <3>1
  <2>3. QED
    BY <2>2 DEF RunsFrom
<1>4. RunsFrom(dataCh', Len(emitted) + Len(b))
  <2>1. /\ Len(emitted) \in Nat /\ Len(accum) \in Nat /\ Len(dataCh) \in Nat
        /\ \A i \in 1..Len(dataCh) : dataCh[i] = Len(emitted) + Len(accum) + i
    BY DEF Queues, Pieces, RunsFrom
  <2>2. ASSUME NEW i \in 1..Len(dataCh') PROVE dataCh'[i] = Len(emitted) + Len(b) + i
    <3>1. i + 1 \in 1..Len(dataCh) /\ dataCh'[i] = dataCh[i + 1]
      BY <1>1, <2>1
    <3>2. QED
      BY <1>2, <2>1, <3>1
  <2>3. QED
    BY <2>2 DEF RunsFrom
<1>5. RunsFrom(hand, Len(emitted) + Len(b) + Len(dataCh'))
      /\ Len(emitted) + Len(b) + Len(dataCh') + Len(hand) = read
  BY <1>1, <1>2 DEF Queues, Pieces, RunsFrom
<1>6. UNCHANGED <<process, written, closed, hand, read, readerDone, dataClosed, loop, reported,
                  entry, returned, call>>
  BY DEF Receive
<1>7. loop = "select" /\ Len(dataCh') <= ChanCap
  BY <1>1 DEF Receive, Queues
<1>8. ReaderOver' /\ LoopOver'
  BY <1>6, <1>7 DEF ReaderOver, NoMoreToRead, LoopOver
<1>9. CASE Len(b) >= MaxBatch
  <2>1. Flush(b)
    BY <1>9 DEF Receive, b
  <2>2. /\ emitted' \in Seq(1..MaxOutput) /\ Len(emitted') = Len(emitted) + Len(b)
        /\ RunsFrom(emitted, 0)' /\ accum' = <<>> /\ ~timer' /\ ~timerRunning'
    BY <1>2, <1>3, <2>1, FlushMoves DEF Pieces
  <2>3. timer' \in BOOLEAN /\ timerRunning' \in BOOLEAN
    BY <2>1 DEF Flush
  <2>4. Kinds' /\ Flags'
    BY <1>6, <2>3 DEF Kinds, Flags
  <2>5. /\ Len(accum') = 0 /\ Len(emitted') + Len(accum') = Len(emitted) + Len(b)
        /\ accum' \in Seq(1..MaxOutput)
    BY <1>2, <2>2 DEF Queues
  <2>6. RunsFrom(accum', Len(emitted'))
    BY <2>5 DEF RunsFrom
  <2>7. Pieces'
    BY <1>4, <1>5, <1>6, <2>2, <2>5, <2>6 DEF Pieces, RunsFrom
  <2>8. Counts' /\ Queues'
    BY <1>1, <1>6, <1>7, <2>2, <2>5 DEF Counts, Queues
  <2>9. QED
    BY <1>8, <2>2, <2>4, <2>7, <2>8 DEF TimerKnown, BatchHasTimer
<1>10. CASE ~(Len(b) >= MaxBatch)
  <2>1. accum' = b /\ timer' = (timer \/ ~timerRunning) /\ timerRunning' = TRUE /\ emitted' = emitted
    BY <1>10 DEF Receive, b
  <2>2. Kinds' /\ Flags'
    BY <1>6, <2>1 DEF Kinds, Flags
  <2>3. Counts' /\ Queues'
    BY <1>1, <1>2, <1>6, <1>7, <1>10, <2>1 DEF Counts, Queues
  <2>4. Pieces'
    BY <1>3, <1>4, <1>5, <1>6, <2>1 DEF Pieces, RunsFrom
  <2>5. TimerKnown' /\ BatchHasTimer'
    BY <2>1 DEF TimerKnown, BatchHasTimer
  <2>6. QED
    BY <1>8, <2>2, <2>3, <2>4, <2>5
<1>11. QED
  BY <1>9, <1>10

\* The timer and the end of the output flush what the loop has.
LEMMA FlushKeeps ==
  ASSUME SessionInv, Tick \/ EndOfOutput
  PROVE  SessionInv'
<1> USE DEF SessionInv, proc, pipe, entryVars
<1>1. Flush(accum) /\ UNCHANGED <<process, written, closed, hand, read, readerDone, dataCh,
                                  dataClosed, reported, entry, returned, call>>
  BY DEF Tick, EndOfOutput
<1>2. /\ emitted' \in Seq(1..MaxOutput) /\ Len(emitted') = Len(emitted) + Len(accum)
      /\ RunsFrom(emitted, 0)' /\ accum' = <<>> /\ ~timer' /\ ~timerRunning'
  BY <1>1, FlushMoves DEF Pieces, Queues
<1>3. timer' \in BOOLEAN /\ timerRunning' \in BOOLEAN /\ loop' \in {"select", "wait"}
  BY <1>1 DEF Flush, Tick, EndOfOutput
<1>4. Kinds' /\ Flags'
  BY <1>1, <1>3 DEF Kinds, Flags
<1>5. /\ Len(accum') = 0 /\ Len(emitted') + Len(accum') = Len(emitted) + Len(accum)
      /\ accum' \in Seq(1..MaxOutput)
  BY <1>2 DEF Queues
<1>6. RunsFrom(accum', Len(emitted'))
  BY <1>5 DEF RunsFrom
<1>7. Pieces'
  BY <1>1, <1>2, <1>5, <1>6 DEF Pieces, RunsFrom
<1>8. ReaderOver' /\ LoopOver'
  BY <1>1, <1>2 DEF Tick, EndOfOutput, ReaderOver, NoMoreToRead, LoopOver
<1>9. Counts' /\ Queues'
  BY <1>1, <1>2, <1>5 DEF Counts, Queues
<1>10. QED
  BY <1>2, <1>4, <1>7, <1>8, <1>9 DEF TimerKnown, BatchHasTimer

LEMMA LoopEndKeeps ==
  ASSUME SessionInv, Report \/ Delete
  PROVE  SessionInv'
<1> USE DEF SessionInv, proc, pipe, batch, entryVars
<1>1. Kinds' /\ Flags' /\ Counts' /\ Queues'
  <2>1. CASE Report
    BY <2>1 DEF Report, Kinds, Flags, Counts, Queues
  <2>2. CASE Delete
    BY <2>2 DEF Delete, Kinds, Flags, Counts, Queues
  <2>3. QED
    BY <2>1, <2>2
<1>2. Pieces'
  BY PiecesKept DEF Report, Delete
<1>3. TimerKnown' /\ BatchHasTimer'
  BY DEF Report, Delete, TimerKnown, BatchHasTimer
<1>4. ReaderOver' /\ LoopOver'
  BY DEF Report, Delete, ReaderOver, NoMoreToRead, LoopOver
<1>5. QED
  BY <1>1, <1>2, <1>3, <1>4

-------------------------------------------------------------------------------
\* The calls of the window touch nothing of the output but its source.
LEMMA CallsKeep ==
  ASSUME SessionInv,
         \/ RegisterSession
         \/ \E u \in User : Write(u) \/ Written(u) \/ TakeEntry(u) \/ Close(u)
  PROVE  SessionInv'
<1> USE DEF SessionInv, proc, pipe, batch, entryVars
<1>1. Kinds' /\ Flags'
  <2>1. CASE RegisterSession
    BY <2>1 DEF RegisterSession, Kinds, Flags
  <2>2. ASSUME NEW u \in User, Write(u) \/ Written(u) \/ TakeEntry(u)
        PROVE  Kinds' /\ Flags'
    BY <2>2 DEF Write, Written, TakeEntry, Kinds, Flags
  <2>3. ASSUME NEW u \in User, Close(u)
        PROVE  Kinds' /\ Flags'
    BY <2>3 DEF Close, Kinds, Flags
  <2>4. QED
    BY <2>1, <2>2, <2>3
<1>2. /\ UNCHANGED <<pipe, batch, loop, reported, written>>
      /\ closed => closed'
      /\ process' \in {process, "exited"}
  BY DEF RegisterSession, Write, Written, TakeEntry, Close
<1>3. Pieces' /\ TimerKnown' /\ BatchHasTimer' /\ LoopOver' /\ Counts' /\ Queues'
  BY <1>2, PiecesKept DEF TimerKnown, BatchHasTimer, LoopOver, Counts, Queues
<1>4. ReaderOver'
  BY <1>2 DEF ReaderOver, NoMoreToRead
<1>5. QED
  BY <1>1, <1>3, <1>4

LEMMA SessionStepKeeps == SessionInv /\ [SessionNext]_sessionVars => SessionInv'
<1> SUFFICES ASSUME SessionInv, [SessionNext]_sessionVars
             PROVE  SessionInv'
  OBVIOUS
<1>1. CASE UNCHANGED sessionVars
  BY <1>1 DEF sessionVars, proc, pipe, batch, entryVars, SessionInv, Kinds, Flags, Counts,
              Queues, Pieces, RunsFrom, ReaderOver, NoMoreToRead, LoopOver, TimerKnown, BatchHasTimer
<1>2. CASE Output \/ HangUp \/ Exit
  BY <1>2, ProcessKeeps
<1>3. CASE Reader
  BY <1>3, ReadKeeps, SendKeeps, ReadFailsKeeps DEF Reader
<1>4. CASE SessionLoop
  BY <1>4, ReceiveKeeps, FlushKeeps, LoopEndKeeps DEF SessionLoop
<1>5. CASE RegisterSession \/ \E u \in User : Write(u) \/ Written(u) \/ TakeEntry(u) \/ Close(u)
  BY <1>5, CallsKeep
<1>6. QED
  BY <1>1, <1>2, <1>3, <1>4, <1>5 DEF SessionNext, Over

-------------------------------------------------------------------------------
\* Two pieces that follow one another are one.
LEMMA Joined ==
  ASSUME NEW S, NEW s \in Seq(S), NEW t \in Seq(S), RunsFrom(s, 0), RunsFrom(t, Len(s))
  PROVE  s \o t \in Seq(S) /\ Len(s \o t) = Len(s) + Len(t) /\ RunsFrom(s \o t, 0)
<1>1. /\ s \o t \in Seq(S) /\ Len(s \o t) = Len(s) + Len(t)
      /\ \A i \in 1..Len(s) : (s \o t)[i] = s[i]
      /\ \A i \in 1..Len(t) : (s \o t)[Len(s) + i] = t[i]
  OBVIOUS
<1>2. ASSUME NEW i \in 1..Len(s \o t) PROVE (s \o t)[i] = i
  <2>1. CASE i <= Len(s)
    BY <1>1, <2>1 DEF RunsFrom
  <2>2. CASE i > Len(s)
    <3> DEFINE k == i - Len(s)
    <3>1. k \in 1..Len(t) /\ i = Len(s) + k
      BY <1>1, <2>2
    <3>2. (s \o t)[i] = t[k] /\ t[k] = Len(s) + k
      BY <1>1, <3>1 DEF RunsFrom
    <3>3. QED
      BY <3>1, <3>2
  <2>3. QED
    BY <1>1, <2>1, <2>2
<1>3. QED
  BY <1>1, <1>2 DEF RunsFrom

LEMMA PiecesInOrder == SessionInv => OutputInOrder
<1> SUFFICES ASSUME SessionInv PROVE OutputInOrder
  OBVIOUS
<1> USE DEF SessionInv, Queues
<1> DEFINE S == 1..MaxOutput
           ea == emitted \o accum
           ead == ea \o dataCh
           all == ead \o hand
<1>1. ea \in Seq(S) /\ Len(ea) = Len(emitted) + Len(accum) /\ RunsFrom(ea, 0)
  <2>1. /\ emitted \in Seq(S) /\ accum \in Seq(S)
        /\ RunsFrom(emitted, 0) /\ RunsFrom(accum, Len(emitted))
    BY DEF Pieces
  <2>2. QED
    BY <2>1, Joined
<1> HIDE DEF ea
<1>2. ead \in Seq(S) /\ Len(ead) = Len(ea) + Len(dataCh) /\ RunsFrom(ead, 0)
  BY <1>1, Joined DEF Pieces
<1> HIDE DEF ead
<1>3. all \in Seq(S) /\ Len(all) = Len(ead) + Len(hand) /\ RunsFrom(all, 0)
  <2>1. hand \in Seq(S) /\ Len(ead) = Len(emitted) + Len(accum) + Len(dataCh)
        /\ RunsFrom(hand, Len(emitted) + Len(accum) + Len(dataCh))
    BY <1>1, <1>2 DEF Pieces
  <2>2. RunsFrom(hand, Len(ead))
    BY <2>1
  <2>3. QED
    BY <1>2, <2>1, <2>2, Joined
<1> HIDE DEF all
<1>4. Len(all) = read /\ \A i \in 1..read : all[i] = i
  BY <1>1, <1>2, <1>3 DEF Pieces, RunsFrom
<1>5. all = [i \in 1..read |-> i]
  BY <1>3, <1>4
<1>6. QED
  BY <1>5 DEF OutputInOrder, all, ead, ea

LEMMA ExitIsLast == SessionInv => ExitLast
BY DEF SessionInv, Kinds, Counts, Queues, Pieces, ReaderOver, LoopOver, NoMoreToRead, ExitLast

\* The inductive invariant of a local session (session.go:59-118).
THEOREM SessionInvariant == SessionSpec => []SessionInv
BY SessionStarts, SessionStepKeeps, PTL DEF SessionSpec

\* Nothing of a terminal's output is lost, doubled or out of order, a batch that
\* waits has a timer, and the exit is reported after everything that was read.
THEOREM OutputIsWhole == SessionSpec => []SessionSafe
<1>1. SessionInv => SessionSafe
  BY TypeParts, PiecesInOrder, ExitIsLast DEF SessionInv, SessionSafe
<1>2. QED
  BY <1>1, SessionInvariant, PTL
===============================================================================
