---------------------------------- MODULE LogTab ----------------------------------
(***************************************************************************)
(* The window's side of a log (components/bottom-tray/tabs/LogsTab.tsx):   *)
(* what is picked, the stream it asks for and the lines it shows.          *)
(*                                                                         *)
(* A change of what is picked stops the old stream and asks for the new    *)
(* one; nobody waits for either call, and the handler may serve the later  *)
(* one first.  The handler is taken as one step (LogStreams has what goes  *)
(* on inside); it holds one stream for a pod, whatever container it is of, *)
(* and all of them speak on the pod's one channel.                         *)
(***************************************************************************)
EXTENDS Naturals, Sequences, SequencesExt

CONSTANTS LogPod,
          Source,        \* a container, of now or its previous instance
          NoSource,
          MaxLines,      \* MAX_LINES
          MaxLogged,     \* bound: calls under way
          MaxFlying      \* bound: lines emitted and not delivered

ASSUME LogTabAssumption == /\ NoSource \notin Source /\ MaxLines \in Nat \ {0}
                           /\ MaxLogged \in Nat \ {0} /\ MaxFlying \in Nat \ {0}

VARIABLES
  tabUp,      \* the tab is mounted
  picked,     \* <<pod, source>>, or <<>>
  lines,      \* what each line on the screen came from
  sentCalls,  \* calls not served yet, in the order they were made
  live,       \* the stream the handler holds for a pod
  flying,     \* lines on their way, in order
  raced       \* ghost: pods whose last calls were served out of order, or failed over a stream

logTabVars == <<tabUp, picked, lines, sentCalls, live, flying, raced>>

Line == LogPod \X Source
NothingPicked == <<>>
Stop(p) == [op |-> "stop", pod |-> p, source |-> NoSource]
Stream(p, s) == [op |-> "stream", pod |-> p, source |-> s]

LogTabTypeOK ==
  /\ tabUp \in BOOLEAN /\ picked \in Line \cup {NothingPicked}
  /\ lines \in Seq(Line) /\ Len(lines) <= MaxLines
  /\ sentCalls \in Seq([op : {"stop", "stream"}, pod : LogPod, source : Source \cup {NoSource}])
  /\ live \in [LogPod -> Source \cup {NoSource}]
  /\ flying \in Seq(Line) /\ Len(flying) <= MaxFlying
  /\ raced \subseteq LogPod

LogTabInit ==
  /\ tabUp = FALSE /\ picked = NothingPicked /\ lines = <<>> /\ sentCalls = <<>>
  /\ live = [p \in LogPod |-> NoSource] /\ flying = <<>> /\ raced = {}

Waiting(p) == \E i \in DOMAIN sentCalls : sentCalls[i].pod = p

SendCalls(calls) ==
  /\ Len(sentCalls) + Len(calls) <= MaxLogged
  /\ sentCalls' = sentCalls \o calls
  /\ raced' = raced \ {p \in {calls[i].pod : i \in DOMAIN calls} : ~Waiting(p)}

-----------------------------------------------------------------------------
\* The cleanup of the effect that streams.  Mutant: it only stops listening.
CleanupDeaf == <<>>
Cleanup == IF picked = NothingPicked THEN <<>> ELSE <<Stop(picked[1])>>

\* The tab is mounted with the tray; a pod may be selected already.
OpenTab(pick) ==
  /\ ~tabUp /\ tabUp' = TRUE
  /\ picked' = pick /\ lines' = <<>>
  /\ SendCalls(IF pick = NothingPicked THEN <<>> ELSE <<Stream(pick[1], pick[2])>>)
  /\ UNCHANGED <<live, flying>>

\* A pod is selected on a page or picked, or another container, or "Previous".
PickSource(pick) ==
  /\ tabUp /\ pick # picked
  /\ picked' = pick /\ lines' = <<>>
  /\ SendCalls(Append(Cleanup, Stream(pick[1], pick[2])))
  /\ UNCHANGED <<tabUp, live, flying>>

CloseTab ==
  /\ tabUp /\ tabUp' = FALSE
  /\ picked' = NothingPicked /\ lines' = <<>>
  /\ SendCalls(Cleanup)
  /\ UNCHANGED <<live, flying>>

ClearLines ==
  /\ tabUp /\ lines' = <<>>
  /\ UNCHANGED <<tabUp, picked, sentCalls, live, flying, raced>>

\* EventsOn: the channel is that of the picked pod.
Listens(p) == tabUp /\ picked # NothingPicked /\ picked[1] = p

Trimmed(s) == IF Len(s) > MaxLines THEN SubSeq(s, Len(s) - MaxLines + 1, Len(s)) ELSE s

Deliver ==
  /\ flying # <<>> /\ flying' = Tail(flying)
  /\ lines' = IF Listens(Head(flying)[1]) THEN Trimmed(Append(lines, Head(flying))) ELSE lines
  /\ UNCHANGED <<tabUp, picked, sentCalls, live, raced>>

-----------------------------------------------------------------------------
\* The handler.  A call for a stream ends the pod's other one first, but fails
\* before that without a client.
ServeCall(i) ==
  LET c == sentCalls[i] IN
  /\ sentCalls' = RemoveAt(sentCalls, i)
  /\ \/ live' = [live EXCEPT ![c.pod] = c.source]
     \/ c.op = "stream" /\ live' = live
  /\ raced' = IF \/ \E j \in 1..i - 1 : sentCalls[j].pod = c.pod
                 \/ live'[c.pod] \notin {c.source, NoSource}
              THEN raced \cup {c.pod} ELSE raced
  /\ UNCHANGED <<tabUp, picked, lines, flying>>

Emit(p) ==
  /\ live[p] # NoSource /\ Len(flying) < MaxFlying
  /\ flying' = Append(flying, <<p, live[p]>>)
  /\ UNCHANGED <<tabUp, picked, lines, sentCalls, live, raced>>

\* The container is gone, or four hours are over.
LogEnds(p) ==
  /\ live[p] # NoSource /\ live' = [live EXCEPT ![p] = NoSource]
  /\ UNCHANGED <<tabUp, picked, lines, sentCalls, flying, raced>>

LogTabNext ==
  \/ \E pick \in Line \cup {NothingPicked} : OpenTab(pick)
  \/ \E pick \in Line : PickSource(pick)
  \/ CloseTab \/ ClearLines \/ Deliver
  \/ \E i \in DOMAIN sentCalls : ServeCall(i)
  \/ \E p \in LogPod : Emit(p) \/ LogEnds(p)

LogTabSpec == LogTabInit /\ [][LogTabNext]_logTabVars

-----------------------------------------------------------------------------
\* Lines on the screen are of the picked pod, however late they come.
LinesOfPod == \A i \in DOMAIN lines : tabUp /\ picked # NothingPicked /\ lines[i][1] = picked[1]

\* When its calls were served, in the order they were made, the handler streams
\* what is picked, or nothing: a pod that was left costs nothing any more.
StreamIsPicked ==
  \A p \in LogPod \ raced :
    ~Waiting(p) /\ live[p] # NoSource => tabUp /\ picked = <<p, live[p]>>

\* The tab and the handler agree on what is streamed.
LogTabSafe == LogTabTypeOK /\ LinesOfPod /\ StreamIsPicked
==============================================================================
