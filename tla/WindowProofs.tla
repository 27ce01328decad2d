------------------------------ MODULE WindowProofs ------------------------------
(***************************************************************************)
(* What the window shows, for any constants.                               *)
(*   - LogTab: the tab and the handler agree on what is streamed.  What    *)
(*     waits for the handler decides: as long as the calls of a pod are    *)
(*     served in their order, the last one is what the tab wants now.      *)
(*   - Connection: what the window shows of its clusters has a call or an  *)
(*     answer behind it.  The Welcome screen has one call at most, and it  *)
(*     takes it along when it goes.                                        *)
(*   - Settings: the page agrees with the file and with the calls under    *)
(*     way.  A setting that is not in doubt is touched by one call, which  *)
(*     says what memory or file will have; the calls that validate a path  *)
(*     and its timer account for the mark beside it.                       *)
(***************************************************************************)
EXTENDS LogTab, Connection, Settings, Integers, FiniteSetTheorems, SequenceTheorems, TLAPS

Call == [op : {"stop", "stream"}, pod : LogPod, source : Source \cup {NoSource}]

TabTypes == /\ tabUp \in BOOLEAN /\ picked \in Line \cup {NothingPicked}
            /\ lines \in Seq(Line) /\ Len(lines) <= MaxLines
            /\ sentCalls \in Seq(Call)
            /\ live \in [LogPod -> Source \cup {NoSource}]
            /\ flying \in Seq(Line) /\ Len(flying) <= MaxFlying
            /\ raced \subseteq LogPod
ClosedPicksNothing == ~tabUp => picked = NothingPicked

\* What the tab wants of a pod: the last call that waits for it asks for that, and when
\* none waits the handler streams it, or nothing.
IsPicked(p) == picked # NothingPicked /\ picked[1] = p
Wanted(p) == IF IsPicked(p) THEN Stream(p, picked[2]) ELSE Stop(p)
LastIsWanted(p) == \A k \in 1..Len(sentCalls) :
  /\ sentCalls[k].pod = p
  /\ \A j \in k + 1..Len(sentCalls) : sentCalls[j].pod # p
  => sentCalls[k] = Wanted(p)
Served(p) == live[p] = NoSource \/ (IsPicked(p) /\ live[p] = picked[2])
Agreed == \A p \in LogPod \ raced : LastIsWanted(p) /\ (Waiting(p) \/ Served(p))

LogTabInv == TabTypes /\ ClosedPicksNothing /\ LinesOfPod /\ Agreed

LEMMA WaitingIsNumbered ==
  ASSUME TabTypes, NEW p
  PROVE  Waiting(p) <=> \E i \in 1..Len(sentCalls) : sentCalls[i].pod = p
BY DEF TabTypes, Waiting

\* The last of m calls for a pod asks for what is wanted of it, and a pod without a
\* call is picked as before.
LastAsksForIt(calls, m) == \A p \in LogPod : \A k \in 1..m :
  /\ calls[k].pod = p
  /\ \A j \in k + 1..m : calls[j].pod # p
  => calls[k] = Wanted(p)'
OthersAsBefore(calls, m) == \A p \in LogPod :
  (\A k \in 1..m : calls[k].pod # p) =>
    (IsPicked(p)' <=> IsPicked(p)) /\ (IsPicked(p) => picked'[2] = picked[2])

\* Calls that end with what is wanted leave the tab and the handler agreed.
LEMMA CallsSent ==
  ASSUME TabTypes, Agreed, NEW calls \in Seq(Call), NEW m \in Nat, m = Len(calls), SendCalls(calls),
         UNCHANGED live, LastAsksForIt(calls, m), OthersAsBefore(calls, m)
  PROVE  Agreed' /\ sentCalls' \in Seq(Call) /\ raced' \subseteq LogPod
<1> USE DEF LastAsksForIt, OthersAsBefore
<1>1. /\ sentCalls \in Seq(Call) /\ sentCalls' = sentCalls \o calls
      /\ raced' = raced \ {p \in {calls[i].pod : i \in 1..m} : ~Waiting(p)}
  BY DEF SendCalls, TabTypes
<1>2. PICK n \in Nat : n = Len(sentCalls)
  BY <1>1, LenProperties
<1>3. /\ sentCalls' \in Seq(Call) /\ Len(sentCalls') = n + m
      /\ \A i \in 1..n + m : sentCalls'[i] = IF i <= n THEN sentCalls[i] ELSE calls[i - n]
  BY <1>1, <1>2, ConcatProperties
<1>4. \A i \in 1..n : sentCalls'[i] = sentCalls[i]
  BY <1>3
<1>5. \A i \in 1..m : sentCalls'[n + i] = calls[i]
  BY <1>3
<1>6. \A i \in 1..n + m : i \in 1..n \/ (i - n \in 1..m /\ i = n + (i - n))
  OBVIOUS
<1>7. ASSUME NEW p \in LogPod \ raced'
      PROVE  LastIsWanted(p)' /\ (Waiting(p)' \/ Served(p)')
  <2>1. CASE \E i \in 1..m : calls[i].pod = p
    <3>1. PICK i \in 1..m : calls[i].pod = p
      BY <2>1
    <3>2. Waiting(p)'
      <4>1. n + i \in 1..n + m /\ sentCalls'[n + i].pod = p
        BY <1>5, <3>1
      <4>2. DOMAIN sentCalls' = 1..n + m
        BY <1>3
      <4>3. QED
        BY <4>1, <4>2 DEF Waiting
    <3>3. ASSUME NEW k \in 1..n + m, sentCalls'[k].pod = p,
                 \A j \in k + 1..n + m : sentCalls'[j].pod # p
          PROVE  sentCalls'[k] = Wanted(p)'
      <4>1. k \notin 1..n
        <5>1. SUFFICES ASSUME k \in 1..n PROVE FALSE
          OBVIOUS
        <5>2. n + i \in k + 1..n + m
          BY <5>1
        <5>3. QED
          BY <1>5, <3>1, <3>3, <5>2
      <4>2. PICK l \in 1..m : l = k - n /\ k = n + l
        BY <1>6, <4>1
      <4>3. calls[l].pod = p /\ sentCalls'[k] = calls[l]
        <5>1. sentCalls'[n + l] = calls[l]
          BY <1>5
        <5>2. QED
          BY <3>3, <4>2, <5>1
      <4>5. ASSUME NEW j \in l + 1..m PROVE calls[j].pod # p
        <5>1. n + j \in k + 1..n + m /\ j \in 1..m
          BY <4>2
        <5>2. sentCalls'[n + j] = calls[j]
          BY <1>5, <5>1
        <5>3. QED
          BY <3>3, <5>1, <5>2
      <4>6. QED
        BY <4>3, <4>5
    <3>4. QED
      BY <1>3, <3>2, <3>3 DEF LastIsWanted
  <2>2. CASE \A i \in 1..m : calls[i].pod # p
    <3>1. p \notin raced
      BY <1>1, <2>2
    <3>2. LastIsWanted(p) /\ (Waiting(p) \/ Served(p))
      BY <3>1 DEF Agreed
    <3>3. (IsPicked(p)' <=> IsPicked(p)) /\ (IsPicked(p) => picked'[2] = picked[2])
      BY <2>2
    <3>4. Wanted(p)' = Wanted(p) /\ Served(p)' = Served(p)
      BY <3>3 DEF Wanted, Served
    <3>5. ASSUME NEW k \in 1..n + m, sentCalls'[k].pod = p,
                 \A j \in k + 1..n + m : sentCalls'[j].pod # p
          PROVE  sentCalls'[k] = Wanted(p)'
      <4>1. k \in 1..n
        <5>1. SUFFICES ASSUME k \notin 1..n PROVE FALSE
          OBVIOUS
        <5>2. PICK l \in 1..m : k = n + l
          BY <1>6, <3>5, <5>1
        <5>3. sentCalls'[k] = calls[l]
          BY <1>5, <5>2
        <5>4. QED
          BY <2>2, <3>5, <5>2, <5>3
      <4>2. \A j \in k + 1..n : j \in k + 1..n + m /\ j \in 1..n
        BY <4>1
      <4>3. sentCalls[k].pod = p /\ \A j \in k + 1..n : sentCalls[j].pod # p
        BY <1>4, <3>5, <4>1, <4>2
      <4>4. sentCalls[k] = Wanted(p)
        BY <1>2, <3>2, <4>1, <4>3 DEF LastIsWanted
      <4>5. QED
        BY <1>4, <3>4, <4>1, <4>4
    <3>6. Waiting(p) => Waiting(p)'
      <4>1. DOMAIN sentCalls' = 1..n + m /\ DOMAIN sentCalls = 1..n
        BY <1>1, <1>2, <1>3
      <4>2. \A i \in 1..n : i \in 1..n + m
        OBVIOUS
      <4>3. QED
        BY <1>4, <4>1, <4>2 DEF Waiting
    <3>7. QED
      BY <1>3, <3>2, <3>4, <3>5, <3>6 DEF LastIsWanted
  <2>3. QED
    BY <2>1, <2>2
<1>8. QED
  BY <1>1, <1>3, <1>7 DEF Agreed, TabTypes

\* The tab makes at most two calls at a time.
LEMMA OneCallSent ==
  ASSUME TabTypes, Agreed, NEW calls \in Seq(Call), SendCalls(calls), UNCHANGED live,
         \/ /\ Len(calls) = 0
            /\ \A p \in LogPod : ~IsPicked(p) /\ ~IsPicked(p)'
         \/ \E q \in LogPod :
              /\ Len(calls) = 1 /\ calls[1].pod = q /\ calls[1] = Wanted(q)'
              /\ \A p \in LogPod \ {q} : ~IsPicked(p) /\ ~IsPicked(p)'
  PROVE  Agreed' /\ sentCalls' \in Seq(Call) /\ raced' \subseteq LogPod
<1>1. PICK m \in Nat : m = Len(calls) /\ m <= 1
  <2>1. Len(calls) \in Nat /\ (Len(calls) = 0 \/ Len(calls) = 1)
    BY LenProperties
  <2>2. QED
    BY <2>1
<1>2. \A p \in LogPod : \A k \in 1..m :
        /\ calls[k].pod = p
        /\ \A j \in k + 1..m : calls[j].pod # p
        => calls[k] = Wanted(p)'
  <2>1. \A k \in 1..m : k = 1 /\ m = 1
    BY <1>1
  <2>2. QED
    BY <1>1, <2>1
<1>3. \A p \in LogPod : (\A k \in 1..m : calls[k].pod # p) =>
        (IsPicked(p)' <=> IsPicked(p)) /\ (IsPicked(p) => picked'[2] = picked[2])
  BY <1>1
<1>4. LastAsksForIt(calls, m) /\ OthersAsBefore(calls, m)
  BY <1>2, <1>3 DEF LastAsksForIt, OthersAsBefore
<1>5. QED
  BY <1>1, <1>4, CallsSent

\* The two calls of a change from pod o to pod q.
FromTo(calls, o, q) ==
  /\ Len(calls) = 2 /\ calls[1].pod = o /\ calls[2].pod = q
  /\ calls[2] = Wanted(q)' /\ (o # q => calls[1] = Wanted(o)')
  /\ \A p \in LogPod \ {o, q} : ~IsPicked(p) /\ ~IsPicked(p)'

LEMMA TwoCallsSent ==
  ASSUME TabTypes, Agreed, NEW calls \in Seq(Call), SendCalls(calls), UNCHANGED live,
         NEW o \in LogPod, NEW q \in LogPod, FromTo(calls, o, q)
  PROVE  Agreed' /\ sentCalls' \in Seq(Call) /\ raced' \subseteq LogPod
<1> USE DEF FromTo
<1>1. PICK m \in Nat : m = Len(calls) /\ m = 2
  OBVIOUS
<1>2. \A k \in 1..m : k = 1 \/ k = 2
  BY <1>1
<1>3. ASSUME NEW p \in LogPod, NEW k \in 1..m, calls[k].pod = p, \A j \in k + 1..m : calls[j].pod # p
      PROVE  calls[k] = Wanted(p)'
  <2>1. CASE k = 2
    BY <1>3, <2>1
  <2>2. CASE k = 1
    <3>1. 2 \in k + 1..m
      BY <1>1, <2>2
    <3>2. p = o /\ p # q
      BY <1>3, <2>2, <3>1
    <3>3. QED
      BY <2>2, <3>2
  <2>3. QED
    BY <1>2, <2>1, <2>2
<1>4. ASSUME NEW p \in LogPod, \A k \in 1..m : calls[k].pod # p
      PROVE  (IsPicked(p)' <=> IsPicked(p)) /\ (IsPicked(p) => picked'[2] = picked[2])
  <2>1. 1 \in 1..m /\ 2 \in 1..m
    BY <1>1
  <2>2. p # o /\ p # q
    BY <1>4, <2>1
  <2>3. QED
    BY <2>2
<1>5. LastAsksForIt(calls, m) /\ OthersAsBefore(calls, m)
  BY <1>3, <1>4 DEF LastAsksForIt, OthersAsBefore
<1>6. QED
  BY <1>1, <1>5, CallsSent

-------------------------------------------------------------------------------
\* The calls of the tab.
LEMMA CallsAreCalls ==
  ASSUME NEW p \in LogPod, NEW s \in Source
  PROVE  /\ Stop(p) \in Call /\ Stream(p, s) \in Call /\ Stop(p).pod = p /\ Stream(p, s).pod = p
         /\ <<>> \in Seq(Call) /\ <<Stop(p)>> \in Seq(Call) /\ <<Stream(p, s)>> \in Seq(Call)
         /\ <<p, s>> # NothingPicked
BY DEF Call, Stop, Stream, NothingPicked

\* What is picked goes from one to another; the calls say so.
LEMMA PickChanges ==
  ASSUME LogTabInv, NEW calls, NEW pick, UNCHANGED live,
         SendCalls(calls), picked' = pick, pick \in Line \cup {NothingPicked}, pick # picked \/ pick = NothingPicked,
         calls = IF pick = NothingPicked THEN Cleanup ELSE Append(Cleanup, Stream(pick[1], pick[2]))
  PROVE  Agreed' /\ sentCalls' \in Seq(Call) /\ raced' \subseteq LogPod
<1>1. CASE picked = NothingPicked /\ pick = NothingPicked
  <2>1. calls = <<>> /\ Len(calls) = 0 /\ <<>> \in Seq(Call)
    BY <1>1, EmptySeq DEF Cleanup
  <2>2. \A p \in LogPod : ~IsPicked(p) /\ ~IsPicked(p)'
    BY <1>1 DEF IsPicked
  <2>3. QED
    BY <2>1, <2>2, OneCallSent DEF LogTabInv
<1>2. CASE picked = NothingPicked /\ pick # NothingPicked
  <2>1. PICK q \in LogPod, s \in Source : pick = <<q, s>>
    BY <1>2 DEF Line
  <2>2. calls = <<Stream(q, s)>> /\ calls \in Seq(Call) /\ Len(calls) = 1 /\ calls[1] = Stream(q, s)
    BY <1>2, <2>1, CallsAreCalls DEF Cleanup
  <2>3. Wanted(q)' = Stream(q, s) /\ \A p \in LogPod \ {q} : ~IsPicked(p) /\ ~IsPicked(p)'
    BY <1>2, <2>1 DEF Wanted, IsPicked
  <2>4. calls[1] = Wanted(q)' /\ calls[1].pod = q
    BY <2>2, <2>3, CallsAreCalls
  <2>5. QED
    BY <2>2, <2>3, <2>4, OneCallSent DEF LogTabInv
<1>3. CASE picked # NothingPicked /\ pick = NothingPicked
  <2>1. PICK q \in LogPod, s \in Source : picked = <<q, s>>
    BY <1>3 DEF LogTabInv, TabTypes, Line
  <2>2. calls = <<Stop(q)>> /\ calls \in Seq(Call) /\ Len(calls) = 1 /\ calls[1] = Stop(q)
    BY <1>3, <2>1, CallsAreCalls DEF Cleanup
  <2>3. \A p \in LogPod : ~IsPicked(p)' /\ Wanted(p)' = Stop(p)
    BY <1>3 DEF Wanted, IsPicked
  <2>4. calls[1] = Wanted(q)' /\ calls[1].pod = q
    BY <2>2, <2>3, CallsAreCalls
  <2>5. \A p \in LogPod \ {q} : ~IsPicked(p) /\ ~IsPicked(p)'
    BY <2>1, <2>3 DEF IsPicked
  <2>6. QED
    BY <2>2, <2>4, <2>5, OneCallSent DEF LogTabInv
<1>4. CASE picked # NothingPicked /\ pick # NothingPicked
  <2>1. PICK o \in LogPod, r \in Source : picked = <<o, r>>
    BY <1>4 DEF LogTabInv, TabTypes, Line
  <2>2. PICK q \in LogPod, s \in Source : pick = <<q, s>>
    BY <1>4 DEF Line
  <2>3. /\ calls = Append(<<Stop(o)>>, Stream(q, s)) /\ <<Stop(o)>> \in Seq(Call) /\ Stream(q, s) \in Call
        /\ Len(<<Stop(o)>>) = 1
    BY <1>4, <2>1, <2>2, CallsAreCalls DEF Cleanup
  <2>4. calls \in Seq(Call) /\ Len(calls) = 2 /\ calls[1] = Stop(o) /\ calls[2] = Stream(q, s)
    <3>1. PICK c \in Seq(Call), e \in Call : c = <<Stop(o)>> /\ e = Stream(q, s) /\ Len(c) = 1 /\ c[1] = Stop(o)
      BY <2>3
    <3>2. calls = Append(c, e)
      BY <2>3, <3>1
    <3>3. /\ Append(c, e) \in Seq(Call) /\ Len(Append(c, e)) = Len(c) + 1
          /\ Append(c, e)[Len(c) + 1] = e /\ \A i \in 1..Len(c) : Append(c, e)[i] = c[i]
      BY AppendProperties
    <3>4. PICK d : d = Append(c, e)
      OBVIOUS
    <3>5. d[1] = c[1] /\ d[2] = e /\ Len(d) = 2
      BY <3>1, <3>3, <3>4
    <3>6. QED
      BY <3>1, <3>2, <3>3, <3>4, <3>5
  <2>5. Wanted(q)' = Stream(q, s) /\ \A p \in LogPod \ {q} : ~IsPicked(p)' /\ Wanted(p)' = Stop(p)
    BY <1>4, <2>2 DEF Wanted, IsPicked
  <2>6. \A p \in LogPod \ {o} : ~IsPicked(p)
    BY <2>1 DEF IsPicked
  <2>7. /\ calls[1].pod = o /\ calls[2].pod = q /\ calls[2] = Wanted(q)' /\ (o # q => calls[1] = Wanted(o)')
        /\ \A p \in LogPod \ {o, q} : ~IsPicked(p) /\ ~IsPicked(p)'
    BY <2>4, <2>5, <2>6, CallsAreCalls
  <2>8. TabTypes /\ Agreed
    BY DEF LogTabInv
  <2>9. FromTo(calls, o, q)
    BY <2>4, <2>7 DEF FromTo
  <2>10. QED
    BY <2>4, <2>8, <2>9, TwoCallsSent
<1>5. QED
  BY <1>1, <1>2, <1>3, <1>4

LEMMA TabKeeps ==
  ASSUME LogTabInv,
         \/ \E pick \in Line \cup {NothingPicked} : OpenTab(pick)
         \/ \E pick \in Line : PickSource(pick)
         \/ CloseTab
  PROVE  LogTabInv'
<1>1. UNCHANGED <<live, flying>> /\ lines' = <<>>
  BY DEF OpenTab, PickSource, CloseTab
<1>2. PICK pick \in Line \cup {NothingPicked} :
        /\ picked' = pick /\ (pick # picked \/ pick = NothingPicked)
        /\ SendCalls(IF pick = NothingPicked THEN Cleanup ELSE Append(Cleanup, Stream(pick[1], pick[2])))
        /\ tabUp' \in BOOLEAN /\ (~tabUp' => pick = NothingPicked)
  <2>1. ASSUME NEW k \in Line PROVE k # NothingPicked
    <3>1. PICK q \in LogPod, r \in Source : k = <<q, r>>
      BY DEF Line
    <3>2. QED
      BY <3>1, CallsAreCalls
  <2>2. CASE \E pick \in Line \cup {NothingPicked} : OpenTab(pick)
    <3>1. PICK pick \in Line \cup {NothingPicked} : OpenTab(pick)
      BY <2>2
    <3>2. picked = NothingPicked /\ Cleanup = <<>>
      BY <3>1 DEF OpenTab, LogTabInv, ClosedPicksNothing, Cleanup
    <3>3. Append(Cleanup, Stream(pick[1], pick[2])) = <<Stream(pick[1], pick[2])>>
      BY <3>2
    <3>4. QED
      BY <3>1, <3>2, <3>3 DEF OpenTab
  <2>3. CASE \E pick \in Line : PickSource(pick)
    BY <2>1, <2>3 DEF PickSource, LogTabInv, TabTypes
  <2>4. CASE CloseTab
    BY <2>4 DEF CloseTab
  <2>5. QED
    BY <2>2, <2>3, <2>4
<1>3. PICK calls : calls = IF pick = NothingPicked THEN Cleanup ELSE Append(Cleanup, Stream(pick[1], pick[2]))
  OBVIOUS
<1>4. Agreed' /\ sentCalls' \in Seq(Call) /\ raced' \subseteq LogPod
  BY <1>1, <1>2, <1>3, PickChanges
<1>5. lines' \in Seq(Line) /\ Len(lines') = 0
  BY <1>1, EmptySeq
<1>6. TabTypes'
  BY LogTabAssumption, <1>1, <1>2, <1>4, <1>5 DEF LogTabInv, TabTypes
<1>7. LinesOfPod'
  <2>1. DOMAIN lines' = {}
    BY <1>1
  <2>2. QED
    BY <2>1 DEF LinesOfPod
<1>8. QED
  BY <1>2, <1>4, <1>6, <1>7 DEF LogTabInv, ClosedPicksNothing

-------------------------------------------------------------------------------
\* A call that is served in its order.
LEMMA RemoveOne ==
  ASSUME NEW s \in Seq(Call), NEW n \in Nat, n = Len(s), NEW i \in 1..n
  PROVE  /\ RemoveAt(s, i) \in Seq(Call) /\ Len(RemoveAt(s, i)) = n - 1
         /\ \A k \in 1..n - 1 : RemoveAt(s, i)[k] = IF k < i THEN s[k] ELSE s[k + 1]
<1>1. PICK a : a = SubSeq(s, 1, i - 1)
  OBVIOUS
<1>2. PICK b : b = SubSeq(s, i + 1, n)
  OBVIOUS
<1>3. a \in Seq(Call) /\ Len(a) = i - 1 /\ \A k \in 1..i - 1 : a[k] = s[k]
  <2>1. \A k \in 1..i - 1 : s[k] \in Call
    OBVIOUS
  <2>2. i - 1 \in Int /\ 1 \in Int
    OBVIOUS
  <2>3. /\ SubSeq(s, 1, i - 1) \in Seq(Call)
        /\ Len(SubSeq(s, 1, i - 1)) = IF 1 <= i - 1 THEN i - 1 - 1 + 1 ELSE 0
        /\ \A k \in 1..i - 1 - 1 + 1 : SubSeq(s, 1, i - 1)[k] = s[1 + k - 1]
    BY <2>1, <2>2, SubSeqProperties
  <2>4. \A k \in 1..i - 1 : k \in 1..i - 1 - 1 + 1 /\ 1 + k - 1 = k
    OBVIOUS
  <2>5. QED
    BY <1>1, <2>3, <2>4
<1>4. b \in Seq(Call) /\ Len(b) = n - i /\ \A k \in 1..n - i : b[k] = s[i + k]
  <2>1. \A k \in i + 1..n : s[k] \in Call
    OBVIOUS
  <2>2. i + 1 \in Int /\ n \in Int
    OBVIOUS
  <2>3. /\ SubSeq(s, i + 1, n) \in Seq(Call)
        /\ Len(SubSeq(s, i + 1, n)) = IF i + 1 <= n THEN n - (i + 1) + 1 ELSE 0
        /\ \A k \in 1..n - (i + 1) + 1 : SubSeq(s, i + 1, n)[k] = s[i + 1 + k - 1]
    BY <2>1, <2>2, SubSeqProperties
  <2>4. \A k \in 1..n - i : k \in 1..n - (i + 1) + 1 /\ i + 1 + k - 1 = i + k
    OBVIOUS
  <2>5. QED
    BY <1>2, <2>3, <2>4
<1>5. /\ a \o b \in Seq(Call) /\ Len(a \o b) = n - 1
      /\ \A k \in 1..n - 1 : (a \o b)[k] = IF k <= i - 1 THEN a[k] ELSE b[k - (i - 1)]
  <2>1. /\ a \o b \in Seq(Call) /\ Len(a \o b) = Len(a) + Len(b)
        /\ \A k \in 1..Len(a) + Len(b) : (a \o b)[k] = IF k <= Len(a) THEN a[k] ELSE b[k - Len(a)]
    BY <1>3, <1>4, ConcatProperties
  <2>2. Len(a) + Len(b) = n - 1
    BY <1>3, <1>4
  <2>3. QED
    BY <1>3, <2>1, <2>2
<1>6. \A k \in 1..n - 1 : (a \o b)[k] = IF k < i THEN s[k] ELSE s[k + 1]
  <2>1. ASSUME NEW k \in 1..n - 1, k < i PROVE (a \o b)[k] = s[k]
    BY <1>3, <1>5, <2>1
  <2>2. ASSUME NEW k \in 1..n - 1, ~(k < i) PROVE (a \o b)[k] = s[k + 1]
    <3>1. k - (i - 1) \in 1..n - i /\ i + (k - (i - 1)) = k + 1 /\ ~(k <= i - 1)
      BY <2>2
    <3>2. QED
      BY <1>4, <1>5, <3>1
  <2>3. QED
    BY <2>1, <2>2
<1>7. RemoveAt(s, i) = a \o b
  BY <1>1, <1>2 DEF RemoveAt
<1>8. QED
  BY <1>5, <1>6, <1>7

LEMMA ServeKeeps ==
  ASSUME LogTabInv, NEW i \in DOMAIN sentCalls, ServeCall(i)
  PROVE  LogTabInv'
<1>1. PICK n \in Nat : n = Len(sentCalls) /\ i \in 1..n /\ sentCalls \in Seq(Call)
  BY LenProperties DEF LogTabInv, TabTypes
<1>2. PICK c \in Call : c = sentCalls[i]
  BY <1>1
<1>3. /\ sentCalls' = RemoveAt(sentCalls, i)
      /\ \/ live' = [live EXCEPT ![c.pod] = c.source]
         \/ c.op = "stream" /\ live' = live
      /\ raced' = IF \/ \E j \in 1..i - 1 : sentCalls[j].pod = c.pod
                     \/ live'[c.pod] \notin {c.source, NoSource}
                  THEN raced \cup {c.pod} ELSE raced
      /\ UNCHANGED <<tabUp, picked, lines, flying>>
  BY <1>2 DEF ServeCall
<1>4. /\ sentCalls' \in Seq(Call) /\ Len(sentCalls') = n - 1
      /\ \A k \in 1..n - 1 : sentCalls'[k] = IF k < i THEN sentCalls[k] ELSE sentCalls[k + 1]
  <2>1. PICK q \in Seq(Call) : q = sentCalls /\ n = Len(q)
    BY <1>1
  <2>2. /\ RemoveAt(q, i) \in Seq(Call) /\ Len(RemoveAt(q, i)) = n - 1
        /\ \A k \in 1..n - 1 : RemoveAt(q, i)[k] = IF k < i THEN q[k] ELSE q[k + 1]
    <3>1. PICK j \in 1..n : j = i
      BY <1>1
    <3>2. /\ RemoveAt(q, j) \in Seq(Call) /\ Len(RemoveAt(q, j)) = n - 1
          /\ \A k \in 1..n - 1 : RemoveAt(q, j)[k] = IF k < j THEN q[k] ELSE q[k + 1]
      BY <2>1, RemoveOne
    <3>3. QED
      BY <3>1, <3>2
  <2>3. QED
    BY <1>3, <2>1, <2>2
<1>5. c.pod \in LogPod /\ c.source \in Source \cup {NoSource}
  BY DEF Call
<1>6. live' \in [LogPod -> Source \cup {NoSource}] /\ \A p \in LogPod \ {c.pod} : live'[p] = live[p]
  BY <1>3, <1>5 DEF LogTabInv, TabTypes
<1>7. TabTypes'
  BY <1>3, <1>4, <1>5, <1>6 DEF LogTabInv, TabTypes
<1>8. \A p : Wanted(p)' = Wanted(p) /\ (IsPicked(p)' <=> IsPicked(p))
  BY <1>3 DEF Wanted, IsPicked
<1>9. ASSUME NEW p \in LogPod \ raced'
      PROVE  LastIsWanted(p)' /\ (Waiting(p)' \/ Served(p)')
  <2>1. p \notin raced /\ LastIsWanted(p) /\ (Waiting(p) \/ Served(p))
    BY <1>3 DEF LogTabInv, Agreed
  <2>2. c.pod = p => live'[p] \in {c.source, NoSource} /\ \A j \in 1..i - 1 : sentCalls[j].pod # p
    BY <1>3
  <2>3. ASSUME NEW k \in 1..n - 1, sentCalls'[k].pod = p,
               \A j \in k + 1..n - 1 : sentCalls'[j].pod # p
        PROVE  sentCalls'[k] = Wanted(p)
    <3>1. CASE k < i
      <4>1. sentCalls[k].pod = p /\ k \in 1..n /\ k \in 1..i - 1 /\ sentCalls'[k] = sentCalls[k]
        BY <1>1, <1>4, <2>3, <3>1
      <4>2. c.pod # p
        BY <2>2, <4>1
      <4>3. ASSUME NEW j \in k + 1..n PROVE sentCalls[j].pod # p
        <5>1. CASE j < i
          <6>1. j \in 1..n - 1 /\ j \in k + 1..n - 1
            BY <1>1, <5>1
          <6>2. sentCalls'[j] = sentCalls[j]
            BY <1>4, <5>1, <6>1
          <6>3. QED
            BY <2>3, <6>1, <6>2
        <5>2. CASE j = i
          BY <1>2, <4>2, <5>2
        <5>3. CASE j > i
          <6>1. j - 1 \in k + 1..n - 1 /\ ~(j - 1 < i) /\ (j - 1) + 1 = j /\ j - 1 \in 1..n - 1
            BY <1>1, <3>1, <5>3
          <6>2. QED
            BY <1>4, <2>3, <6>1
        <5>4. QED
          BY <1>1, <5>1, <5>2, <5>3
      <4>4. QED
        BY <1>1, <2>1, <4>1, <4>3 DEF LastIsWanted
    <3>2. CASE ~(k < i)
      <4>1. sentCalls'[k] = sentCalls[k + 1] /\ k + 1 \in 1..n
        BY <1>4, <3>2
      <4>2. ASSUME NEW j \in k + 1 + 1..n PROVE sentCalls[j].pod # p
        <5>1. j - 1 \in k + 1..n - 1 /\ ~(j - 1 < i) /\ (j - 1) + 1 = j /\ j - 1 \in 1..n - 1
          BY <1>1, <3>2
        <5>2. QED
          BY <1>4, <2>3, <5>1
      <4>3. QED
        BY <1>1, <2>1, <2>3, <4>1, <4>2 DEF LastIsWanted
    <3>3. QED
      BY <3>1, <3>2
  <2>4. ASSUME ~Waiting(p)' PROVE Served(p)'
    <3>1. \A k \in 1..n - 1 : sentCalls'[k].pod # p
      BY <1>4, <2>4 DEF Waiting
    <3>2. ASSUME NEW j \in 1..n, j # i PROVE sentCalls[j].pod # p
      <4>1. CASE j < i
        <5>1. j \in 1..n - 1
          BY <1>1, <4>1
        <5>2. sentCalls'[j] = sentCalls[j]
          BY <1>4, <4>1, <5>1
        <5>3. QED
          BY <3>1, <5>1, <5>2
      <4>2. CASE j > i
        <5>1. j - 1 \in 1..n - 1 /\ ~(j - 1 < i) /\ (j - 1) + 1 = j
          BY <1>1, <4>2
        <5>2. QED
          BY <1>4, <3>1, <5>1
      <4>3. QED
        BY <1>1, <3>2, <4>1, <4>2
    <3>3. CASE c.pod = p
      <4>1. \A j \in i + 1..n : j \in 1..n /\ j # i
        BY <1>1
      <4>2. c = Wanted(p)
        BY <1>1, <1>2, <2>1, <3>2, <3>3, <4>1 DEF LastIsWanted
      <4>3. IsPicked(p) => c.source = picked[2]
        BY <4>2 DEF Wanted, Stream
      <4>4. ~IsPicked(p) => c.source = NoSource
        BY <4>2 DEF Wanted, Stop
      <4>5. QED
        BY <1>3, <1>8, <2>2, <3>3, <4>3, <4>4 DEF Served
    <3>4. CASE c.pod # p
      <4>1. ~Waiting(p)
        BY <1>1, <1>2, <3>2, <3>4 DEF Waiting
      <4>2. QED
        BY <1>3, <1>6, <1>8, <2>1, <3>4, <4>1 DEF Served
    <3>5. QED
      BY <3>3, <3>4
  <2>5. QED
    BY <1>4, <1>8, <2>3, <2>4 DEF LastIsWanted
<1>10. QED
  BY <1>3, <1>7, <1>9 DEF LogTabInv, ClosedPicksNothing, LinesOfPod, Agreed

-------------------------------------------------------------------------------
\* The lines.
LEMMA TrimmedKeeps ==
  ASSUME NEW s \in Seq(Line), Len(s) <= MaxLines, NEW l \in Line
  PROVE  /\ Trimmed(Append(s, l)) \in Seq(Line) /\ Len(Trimmed(Append(s, l))) <= MaxLines
         /\ \A k \in 1..Len(Trimmed(Append(s, l))) :
              Trimmed(Append(s, l))[k] = l \/ \E j \in 1..Len(s) : Trimmed(Append(s, l))[k] = s[j]
<1>0. MaxLines \in Nat \ {0}
  BY LogTabAssumption
<1>1. PICK n \in Nat : n = Len(s)
  BY LenProperties
<1>2. PICK q \in Seq(Line) : q = Append(s, l)
  BY AppendProperties
<1>3. Len(q) = n + 1 /\ q[n + 1] = l /\ \A j \in 1..n : q[j] = s[j]
  BY <1>1, <1>2, AppendProperties
<1>4. \A j \in 1..n + 1 : q[j] = l \/ \E k \in 1..n : q[j] = s[k]
  <2>1. \A j \in 1..n + 1 : j \in 1..n \/ j = n + 1
    OBVIOUS
  <2>2. QED
    BY <1>3, <2>1
<1>5. CASE n + 1 > MaxLines
  <2>1. PICK m \in 1..n + 1 : m = n + 1 - MaxLines + 1
    <3>1. n + 1 - MaxLines + 1 \in 1..n + 1
      BY <1>0, <1>1, <1>5
    <3>2. QED
      BY <3>1
  <2>2. /\ SubSeq(q, m, n + 1) \in Seq(Line)
        /\ Len(SubSeq(q, m, n + 1)) = IF m <= n + 1 THEN n + 1 - m + 1 ELSE 0
        /\ \A k \in 1..n + 1 - m + 1 : SubSeq(q, m, n + 1)[k] = q[m + k - 1]
    <3>1. \A k \in m..n + 1 : q[k] \in Line
      BY <1>3, <2>1
    <3>2. QED
      BY <3>1, SubSeqProperties
  <2>3. \A k \in 1..n + 1 - m + 1 : m + k - 1 \in 1..n + 1
    OBVIOUS
  <2>4. Trimmed(q) = SubSeq(q, m, n + 1) /\ n + 1 - m + 1 = MaxLines /\ m <= n + 1
    BY <1>0, <1>3, <1>5, <2>1 DEF Trimmed
  <2>5. QED
    BY <1>1, <1>2, <1>4, <2>2, <2>3, <2>4
<1>6. CASE ~(n + 1 > MaxLines)
  BY <1>0, <1>1, <1>2, <1>3, <1>4, <1>6 DEF Trimmed
<1>7. QED
  BY <1>5, <1>6

LEMMA DeliverKeeps == ASSUME LogTabInv, Deliver PROVE LogTabInv'
<1>1. /\ flying \in Seq(Line) /\ flying # <<>> /\ flying' = Tail(flying)
      /\ lines' = IF Listens(Head(flying)[1]) THEN Trimmed(Append(lines, Head(flying))) ELSE lines
      /\ UNCHANGED <<tabUp, picked, sentCalls, live, raced>>
  BY DEF Deliver, LogTabInv, TabTypes
<1>2. /\ Head(flying) \in Line /\ flying' \in Seq(Line) /\ Len(flying') <= Len(flying)
      /\ Len(flying) \in Nat /\ Len(flying') \in Nat
  BY <1>1, HeadTailProperties, LenProperties
<1>3. PICK l \in Line : l = Head(flying)
  BY <1>2
<1>4. lines \in Seq(Line) /\ Len(lines) <= MaxLines
  BY DEF LogTabInv, TabTypes
<1>5. \A k \in 1..Len(lines) : tabUp /\ picked # NothingPicked /\ lines[k][1] = picked[1]
  BY <1>4 DEF LogTabInv, LinesOfPod
<1>6. CASE Listens(l[1])
  <2>1. PICK q : q = Trimmed(Append(lines, l))
    OBVIOUS
  <2>2. /\ q \in Seq(Line) /\ Len(q) <= MaxLines
        /\ \A k \in 1..Len(q) : q[k] = l \/ \E j \in 1..Len(lines) : q[k] = lines[j]
    BY <1>4, <2>1, TrimmedKeeps
  <2>3. tabUp /\ picked # NothingPicked /\ l[1] = picked[1]
    BY <1>6 DEF Listens
  <2>4. \A k \in 1..Len(q) : q[k][1] = picked[1]
    BY <1>5, <2>2, <2>3
  <2>5. lines' = q
    BY <1>1, <1>3, <1>6, <2>1
  <2>6. LinesOfPod'
    <3>1. DOMAIN lines' = 1..Len(q)
      BY <2>2, <2>5
    <3>2. QED
      BY <1>1, <2>3, <2>4, <2>5, <3>1 DEF LinesOfPod
  <2>7. TabTypes'
    BY LogTabAssumption, <1>1, <1>2, <2>2, <2>5 DEF LogTabInv, TabTypes
  <2>8. QED
    BY <1>1, <2>6, <2>7 DEF LogTabInv, ClosedPicksNothing, Agreed, LastIsWanted, Wanted, IsPicked, Served, Waiting
<1>7. CASE ~Listens(l[1])
  <2>1. lines' = lines
    BY <1>1, <1>3, <1>7
  <2>2. TabTypes'
    BY LogTabAssumption, <1>1, <1>2, <2>1 DEF LogTabInv, TabTypes
  <2>3. QED
    BY <1>1, <2>1, <2>2 DEF LogTabInv, LinesOfPod, ClosedPicksNothing, Agreed, LastIsWanted, Wanted, IsPicked,
                            Served, Waiting
<1>8. QED
  BY <1>6, <1>7

LEMMA LogsFlow ==
  ASSUME LogTabInv, ClearLines \/ (\E p \in LogPod : Emit(p) \/ LogEnds(p)) \/ UNCHANGED logTabVars
  PROVE  LogTabInv'
<1>1. UNCHANGED <<tabUp, picked, sentCalls, raced>>
  BY DEF ClearLines, Emit, LogEnds, logTabVars
<1>2. TabTypes'
  <2>1. CASE ClearLines
    BY LogTabAssumption, <2>1, EmptySeq DEF ClearLines, LogTabInv, TabTypes
  <2>2. CASE \E p \in LogPod : Emit(p)
    <3>1. PICK p \in LogPod : Emit(p)
      BY <2>2
    <3>2. <<p, live[p]>> \in Line
      BY <3>1 DEF Emit, LogTabInv, TabTypes, Line
    <3>3. flying' \in Seq(Line) /\ Len(flying') = Len(flying) + 1 /\ Len(flying) \in Nat
      BY <3>1, <3>2, AppendProperties, LenProperties DEF Emit, LogTabInv, TabTypes
    <3>4. QED
      BY LogTabAssumption, <3>1, <3>3 DEF Emit, LogTabInv, TabTypes
  <2>3. CASE \E p \in LogPod : LogEnds(p)
    BY <2>3 DEF LogEnds, LogTabInv, TabTypes
  <2>4. CASE UNCHANGED logTabVars
    BY <2>4 DEF logTabVars, LogTabInv, TabTypes
  <2>5. QED
    BY <2>1, <2>2, <2>3, <2>4
<1>3. LinesOfPod'
  <2>1. lines' = <<>> \/ lines' = lines
    BY DEF ClearLines, Emit, LogEnds, logTabVars
  <2>2. DOMAIN <<>> = {}
    OBVIOUS
  <2>3. QED
    BY <1>1, <2>1, <2>2 DEF LogTabInv, LinesOfPod
<1>4. \A p \in LogPod : live'[p] = live[p] \/ live'[p] = NoSource
  BY DEF ClearLines, Emit, LogEnds, logTabVars, LogTabInv, TabTypes
<1>5. Agreed'
  BY <1>1, <1>4 DEF LogTabInv, Agreed, LastIsWanted, Wanted, IsPicked, Served, Waiting
<1>6. QED
  BY <1>1, <1>2, <1>3, <1>5 DEF LogTabInv, ClosedPicksNothing

LEMMA LogTabStarts == LogTabInit => LogTabInv
<1> SUFFICES ASSUME LogTabInit PROVE LogTabInv
  OBVIOUS
<1>1. /\ tabUp = FALSE /\ picked = NothingPicked /\ lines = <<>> /\ sentCalls = <<>>
      /\ live = [p \in LogPod |-> NoSource] /\ flying = <<>> /\ raced = {}
  BY DEF LogTabInit
<1>2. \A S : <<>> \in Seq(S) /\ Len(<<>>) = 0 /\ DOMAIN <<>> = {}
  BY EmptySeq
<1>3. TabTypes
  <2>1. live \in [LogPod -> Source \cup {NoSource}]
    BY <1>1
  <2>2. 0 <= MaxLines /\ 0 <= MaxFlying
    BY LogTabAssumption
  <2>3. QED
    BY <1>1, <1>2, <2>1, <2>2 DEF TabTypes
<1>4. LinesOfPod /\ ClosedPicksNothing /\ Agreed
  BY <1>1, <1>2 DEF LinesOfPod, ClosedPicksNothing, Agreed, LastIsWanted, Served
<1>5. QED
  BY <1>3, <1>4 DEF LogTabInv

\* The invariant, of every behaviour.
THEOREM LogTabInvariant == LogTabSpec => []LogTabInv
<1>1. LogTabInv /\ [LogTabNext]_logTabVars => LogTabInv'
  BY TabKeeps, ServeKeeps, DeliverKeeps, LogsFlow DEF LogTabNext
<1>2. QED
  BY <1>1, LogTabStarts, PTL DEF LogTabSpec

\* Lines on the screen are of the picked pod, and when the calls of a pod were served in
\* their order the handler streams what is picked of it, or nothing (LogsTab.tsx).
THEOREM TabAgreesWithHandler == LogTabSpec => []LogTabSafe
<1>1. LogTabInv => LogTabSafe
  <2> SUFFICES ASSUME LogTabInv PROVE LogTabSafe
    OBVIOUS
  <2>1. ASSUME NEW p \in LogPod \ raced, ~Waiting(p), live[p] # NoSource
        PROVE  tabUp /\ picked = <<p, live[p]>>
    <3>1. IsPicked(p) /\ live[p] = picked[2]
      BY <2>1 DEF LogTabInv, Agreed, Served
    <3>2. picked \in Line /\ tabUp
      BY <3>1 DEF LogTabInv, TabTypes, ClosedPicksNothing, IsPicked
    <3>3. PICK q \in LogPod, s \in Source : picked = <<q, s>>
      BY <3>2 DEF Line
    <3>4. QED
      BY <3>1, <3>2, <3>3 DEF IsPicked
  <2>2. LogTabTypeOK /\ LinesOfPod
    BY DEF LogTabInv, TabTypes, Call, LogTabTypeOK
  <2>3. QED
    BY <2>1, <2>2 DEF LogTabSafe, StreamIsPicked
<1>2. QED
  BY <1>1, LogTabInvariant, PTL

-----------------------------------------------------------------------------

\* A call of a Welcome screen that is still there.
OfScreen(k) == k.by = "welcome" /\ k.live
\* There is at most one, it spins, and the shell has none.
ShowsItsCall ==
  \A k \in connects : OfScreen(k) => /\ InWelcome /\ k.name = connecting
                                     /\ \A j \in connects : OfScreen(j) => j = k
\* The shell has a cluster, and RouteRestorer had its turn when there was one.
RouteFits == (InShell => active # None) /\ (active # None => restored) /\ saved # "welcome"
\* A call that was answered well has reached its cluster.
AnswerReached == \A k \in connects : k.stage = "ok" => k.name \in reached

ConnectionInv == /\ ConnectionTypeOK /\ ShowsItsCall /\ RouteFits /\ AnswerReached
                 /\ ConnectingHasCall /\ ConnectedIsReal

\* What a change of the route does to the Welcome screen takes no call away.
LEMMA ScreenTypes ==
  ASSUME ConnectionTypeOK, NEW p \in Route, NEW cs \in SUBSET Connect, Screen(p, cs)
  PROVE  /\ connects' \in SUBSET Connect /\ connecting' \in Cluster \cup {None}
         /\ loads' \in SUBSET Load /\ checks' \in 0..MaxLoads /\ checking' \in BOOLEAN
         /\ \A k \in connects' : \E j \in cs : k.name = j.name /\ k.stage = j.stage
         /\ \A j \in cs : \E k \in connects' : k.name = j.name /\ k.stage = j.stage
<1>1. CASE InShell /\ p = "welcome"
  <2>1. connects' = cs /\ loads' = loads \cup {NewLoad} /\ connecting' = None /\ checks' = 0 /\ checking' = FALSE
    BY <1>1 DEF Screen
  <2>2. NewLoad \in Load
    BY DEF NewLoad, Load
  <2>3. 0 \in 0..MaxLoads
    BY ConnectionAssumption
  <2>4. QED
    BY <2>1, <2>2, <2>3 DEF ConnectionTypeOK
<1>2. CASE InWelcome /\ p # "welcome"
  <2>1. connects' = {[c EXCEPT !.live = c.live /\ c.by # "welcome"] : c \in cs}
    BY <1>2 DEF Screen, InWelcome, InShell
  <2>2. \A c \in cs : /\ [c EXCEPT !.live = c.live /\ c.by # "welcome"] \in Connect
                      /\ [c EXCEPT !.live = c.live /\ c.by # "welcome"].name = c.name
                      /\ [c EXCEPT !.live = c.live /\ c.by # "welcome"].stage = c.stage
    BY DEF Connect
  <2>3. ASSUME NEW k \in connects' PROVE k \in Connect
    <3>1. PICK c \in cs : k = [c EXCEPT !.live = c.live /\ c.by # "welcome"]
      BY <2>1
    <3>2. QED
      BY <2>2, <3>1
  <2>4. /\ \A k \in connects' : \E j \in cs : k.name = j.name /\ k.stage = j.stage
        /\ \A j \in cs : \E k \in connects' : k.name = j.name /\ k.stage = j.stage
    <3>1. ASSUME NEW k \in connects' PROVE \E j \in cs : k.name = j.name /\ k.stage = j.stage
      <4>1. PICK c \in cs : k = [c EXCEPT !.live = c.live /\ c.by # "welcome"]
        BY <2>1
      <4>2. QED
        BY <2>2, <4>1
    <3>2. ASSUME NEW j \in cs PROVE \E k \in connects' : k.name = j.name /\ k.stage = j.stage
      <4>1. [j EXCEPT !.live = j.live /\ j.by # "welcome"] \in connects'
        BY <2>1
      <4>2. QED
        BY <2>2, <4>1
    <3>3. QED
      BY <3>1, <3>2
  <2>5. loads' = {[l EXCEPT !.live = FALSE] : l \in loads} /\ connecting' = None /\ checks' = 0 /\ checking' = FALSE
    BY <1>2 DEF Screen, InWelcome, InShell
  <2>6. loads' \in SUBSET Load
    BY <2>5 DEF ConnectionTypeOK, Load
  <2>7. QED
    <3>1. 0 \in 0..MaxLoads
      BY ConnectionAssumption
    <3>2. connects' \in SUBSET Connect
      BY <2>3
    <3>3. QED
      BY <3>1, <3>2, <2>4, <2>5, <2>6
<1>3. CASE ~(InShell /\ p = "welcome") /\ ~(InWelcome /\ p # "welcome")
  BY <1>3 DEF Screen, ConnectionTypeOK, welcomeVars
<1>4. QED
  BY <1>1, <1>2, <1>3

\* ... and it leaves no call of the screen behind when the screen goes.
LEMMA ScreenShows ==
  ASSUME ConnectionTypeOK, NEW p \in Route, NEW cs \in SUBSET Connect, Screen(p, cs), path' = p,
         \A k \in cs : OfScreen(k) => /\ InWelcome /\ k.name = connecting
                                      /\ \A j \in cs : OfScreen(j) => j = k
  PROVE  ShowsItsCall'
<1>1. CASE InShell /\ p = "welcome"
  BY <1>1 DEF Screen, ShowsItsCall, OfScreen, InShell, InWelcome
<1>2. CASE InWelcome /\ p # "welcome"
  <2>1. connects' = {[c EXCEPT !.live = c.live /\ c.by # "welcome"] : c \in cs}
    BY <1>2 DEF Screen, InWelcome, InShell
  <2>2. \A c \in cs : ~OfScreen([c EXCEPT !.live = c.live /\ c.by # "welcome"])
    BY DEF OfScreen, Connect
  <2>3. QED
    BY <2>1, <2>2 DEF ShowsItsCall
<1>3. CASE ~(InShell /\ p = "welcome") /\ ~(InWelcome /\ p # "welcome")
  BY <1>3 DEF Screen, ShowsItsCall, OfScreen, InShell, InWelcome, welcomeVars
<1>4. QED
  BY <1>1, <1>2, <1>3

\* A screen that has no calls, or goes.
LEMMA ScreenGoes ==
  ASSUME ConnectionTypeOK, NEW cs \in SUBSET Connect, InWelcome, Screen("page", cs)
  PROVE  ShowsItsCall'
<1>1. connects' = {[c EXCEPT !.live = c.live /\ c.by # "welcome"] : c \in cs}
  BY DEF Screen, InWelcome, InShell
<1>2. \A c \in cs : ~OfScreen([c EXCEPT !.live = c.live /\ c.by # "welcome"])
  BY DEF OfScreen, Connect
<1>3. QED
  BY <1>1, <1>2 DEF ShowsItsCall

\* Where the window goes, and what it remembers of it.
LEMMA GotoFits ==
  ASSUME ConnectionTypeOK, RouteFits, NEW p \in Route, NEW a \in Cluster \cup {None}, Goto(p, a), active' = a
  PROVE  /\ path' \in Route /\ saved' \in Route \cup {"none"} /\ restored' \in BOOLEAN /\ RouteFits'
         /\ a = None => path' = "welcome"
         /\ a # None /\ active # None => path' = p
         /\ a # None /\ p = "page" => path' = "page"
  BY DEF Goto, ConnectionTypeOK, RouteFits, Route, InShell

LEMMA ConnectionStarts == ASSUME ConnectionInit PROVE ConnectionInv
<1>1. 0 \in 0..MaxLoads /\ 0 \in 0..MaxAttempts
  BY ConnectionAssumption
<1>2. status \in [Cluster -> Status] /\ \A c \in Cluster : status[c] = "disconnected"
  BY DEF ConnectionInit, Status
<1>3. ConnectionTypeOK
  BY <1>1, <1>2 DEF ConnectionInit, ConnectionTypeOK, Route
<1>4. ShowsItsCall /\ RouteFits /\ AnswerReached
  BY DEF ConnectionInit, ShowsItsCall, RouteFits, AnswerReached, InShell
<1>5. ConnectingHasCall /\ ConnectedIsReal
  BY <1>2 DEF ConnectingHasCall, ConnectedIsReal
<1>6. QED
  BY <1>3, <1>4, <1>5 DEF ConnectionInv

LEMMA RestartKeeps == ASSUME ConnectionInv, Restart PROVE ConnectionInv'
<1>1. status' \in [Cluster -> Status] /\ \A c \in Cluster : status'[c] \in {"absent", "disconnected"}
  BY DEF Restart, Persisted, ConnectionInv, ConnectionTypeOK, Status
<1>2. loads' \in SUBSET Load /\ 0 \in 0..MaxLoads /\ 0 \in 0..MaxAttempts
  BY ConnectionAssumption DEF Restart, NewLoad, Load
<1>3. ConnectionTypeOK'
  BY <1>1, <1>2 DEF Restart, ConnectionInv, ConnectionTypeOK, Route
<1>4. ShowsItsCall' /\ RouteFits' /\ AnswerReached'
  BY DEF Restart, ShowsItsCall, RouteFits, AnswerReached, InShell
<1>5. ConnectingHasCall' /\ ConnectedIsReal'
  BY <1>1 DEF ConnectingHasCall, ConnectedIsReal
<1>6. QED
  BY <1>3, <1>4, <1>5 DEF ConnectionInv

LEMMA CountedTypes ==
  ASSUME NEW n \in 0..MaxAttempts, Counted(n)
  PROVE  attempt' \in 0..MaxAttempts
  BY ConnectionAssumption DEF Counted

\* A call that is made shows its cluster as "connecting".
LEMMA CallMade ==
  ASSUME ConnectionInv, NEW c \in Cluster, NEW by \in {"welcome", "shell", "banner"}, Optimistic(c),
         \E k \in connects' : k.name = c /\ k.stage = "asked",
         \A j \in connects : \E k \in connects' : k.name = j.name /\ k.stage = j.stage,
         \A k \in connects' : \E j \in connects \cup {New(c, by)} : k.name = j.name /\ k.stage = j.stage,
         UNCHANGED reached
  PROVE  status' \in [Cluster -> Status] /\ active' \in Cluster /\ AnswerReached' /\ ConnectingHasCall' /\ ConnectedIsReal'
<1>1. status' \in [Cluster -> Status] /\ active' = c
  BY DEF ConnectionInv, ConnectionTypeOK, Optimistic, Set, Status
<1>2. \A d \in Cluster : status'[d] = IF d = c /\ status[d] # "absent" THEN "connecting" ELSE status[d]
  BY DEF ConnectionInv, ConnectionTypeOK, Optimistic, Set
<1>3. ConnectingHasCall'
  <2>1. SUFFICES ASSUME NEW d \in Cluster, status'[d] = "connecting"
                 PROVE  \E k \in connects' : k.name = d /\ k.stage \in {"asked", "ok", "refused"}
    BY DEF ConnectingHasCall
  <2>2. CASE d = c
    BY <2>2
  <2>3. CASE d # c
    <3>1. PICK j \in connects : j.name = d /\ j.stage \in {"asked", "ok", "refused"}
      BY <2>1, <2>3, <1>2 DEF ConnectionInv, ConnectingHasCall
    <3>2. QED
      BY <3>1
  <2>4. QED
    BY <2>2, <2>3
<1>4. AnswerReached'
  BY DEF AnswerReached, ConnectionInv, New
<1>5. ConnectedIsReal'
  BY <1>2 DEF ConnectedIsReal, ConnectionInv
<1>6. QED
  BY <1>1, <1>3, <1>4, <1>5

\* Neither the clusters nor the stages of the calls change.
LEMMA CallsStay ==
  ASSUME ConnectionInv, UNCHANGED <<status, reached>>,
         \A j \in connects : \E k \in connects' : k.name = j.name /\ k.stage = j.stage,
         \A k \in connects' : \E j \in connects : k.name = j.name /\ k.stage = j.stage
  PROVE  AnswerReached' /\ ConnectingHasCall' /\ ConnectedIsReal'
<1>1. ConnectingHasCall'
  <2>1. SUFFICES ASSUME NEW d \in Cluster, status[d] = "connecting"
                 PROVE  \E k \in connects' : k.name = d /\ k.stage \in {"asked", "ok", "refused"}
    BY DEF ConnectingHasCall
  <2>2. PICK j \in connects : j.name = d /\ j.stage \in {"asked", "ok", "refused"}
    BY <2>1 DEF ConnectionInv, ConnectingHasCall
  <2>3. QED
    BY <2>2
<1>2. AnswerReached' /\ ConnectedIsReal'
  BY DEF AnswerReached, ConnectedIsReal, ConnectionInv
<1>3. QED
  BY <1>1, <1>2

LEMMA StartupKeeps == ASSUME ConnectionInv, Startup PROVE ConnectionInv'
<1>1. attempt' \in 0..MaxAttempts
  BY CountedTypes, ConnectionAssumption DEF Startup, Counted, ConnectionInv, ConnectionTypeOK
<1>2. /\ saved' \in {"none", "page"} /\ restored' = restored /\ reached' = reached /\ booted' = TRUE
      /\ active' # None => active # None
  BY DEF Startup, Optimistic, storeVars
<1>3. CASE /\ active # None /\ Room /\ Optimistic(active)
           /\ connects' = connects \cup {New(active, "shell")} /\ UNCHANGED <<path, welcomeVars>>
  <2>1. New(active, "shell") \in Connect /\ ~OfScreen(New(active, "shell")) /\ active \in Cluster
        /\ New(active, "shell").name = active /\ New(active, "shell").stage = "asked"
    BY <1>3 DEF New, Connect, OfScreen, ConnectionInv, ConnectionTypeOK
  <2>2. PICK c \in Cluster : c = active
    BY <2>1
  <2>3. Optimistic(c) /\ connects' = connects \cup {New(c, "shell")}
    BY <1>3, <2>2
  <2>4. status' \in [Cluster -> Status] /\ active' \in Cluster /\ AnswerReached' /\ ConnectingHasCall' /\ ConnectedIsReal'
    BY <1>2, <2>1, <2>2, <2>3, CallMade
  <2>5. ShowsItsCall'
    BY <1>3, <2>1 DEF ShowsItsCall, ConnectionInv, OfScreen, InWelcome, welcomeVars
  <2>6. RouteFits'
    BY <1>2, <1>3, <2>1, <2>2, <2>3 DEF RouteFits, ConnectionInv, InShell, Optimistic
  <2>7. ConnectionTypeOK'
    BY <1>1, <1>2, <1>3, <2>1, <2>4 DEF ConnectionTypeOK, ConnectionInv, welcomeVars, Route
  <2>8. QED
    BY <2>4, <2>5, <2>6, <2>7 DEF ConnectionInv
<1>4. CASE active' = None /\ UNCHANGED status /\ path' = "welcome" /\ Screen("welcome", connects)
  <2>0. connects \in SUBSET Connect /\ "welcome" \in Route
    BY DEF ConnectionInv, ConnectionTypeOK, Route
  <2>1. PICK cs \in SUBSET Connect : cs = connects
    BY <2>0
  <2>2. ShowsItsCall'
    BY <1>4, <2>0, <2>1, ScreenShows DEF ConnectionInv, ShowsItsCall
  <2>3. /\ connects' \in SUBSET Connect /\ connecting' \in Cluster \cup {None}
        /\ loads' \in SUBSET Load /\ checks' \in 0..MaxLoads /\ checking' \in BOOLEAN
        /\ \A k \in connects' : \E j \in cs : k.name = j.name /\ k.stage = j.stage
        /\ \A j \in cs : \E k \in connects' : k.name = j.name /\ k.stage = j.stage
    BY <1>4, <2>0, <2>1, ScreenTypes DEF ConnectionInv
  <2>4. AnswerReached' /\ ConnectingHasCall' /\ ConnectedIsReal'
    BY <1>2, <1>4, <2>1, <2>3, CallsStay
  <2>5. RouteFits'
    BY <1>2, <1>4 DEF RouteFits, InShell
  <2>6. ConnectionTypeOK'
    BY <1>1, <1>2, <1>4, <2>3 DEF ConnectionTypeOK, ConnectionInv, Route
  <2>7. QED
    BY <2>2, <2>4, <2>5, <2>6 DEF ConnectionInv
<1>5. CASE UNCHANGED <<storeVars, connects, path, welcomeVars>>
  BY <1>1, <1>2, <1>5 DEF ConnectionInv, ConnectionTypeOK, ShowsItsCall, RouteFits, AnswerReached, ConnectingHasCall,
     ConnectedIsReal, OfScreen, InWelcome, InShell, storeVars, welcomeVars, Route
<1>6. QED
  BY <1>3, <1>4, <1>5 DEF Startup

LEMMA GoHomeKeeps == ASSUME ConnectionInv, GoHome PROVE ConnectionInv'
<1>0. /\ connects \in SUBSET Connect /\ "welcome" \in Route /\ attempt \in 0..MaxAttempts
      /\ active \in Cluster \cup {None} /\ ConnectionTypeOK /\ RouteFits
  BY DEF ConnectionInv, ConnectionTypeOK, Route
<1>1. PICK cs \in SUBSET Connect : cs = connects
  BY <1>0
<1>2. PICK a \in Cluster \cup {None} : a = active
  BY <1>0
<1>3. /\ active' = a /\ Goto("welcome", a) /\ Screen("welcome", cs) /\ InShell
      /\ UNCHANGED <<active, status, booted, reached>> /\ Counted(attempt)
  BY <1>1, <1>2 DEF GoHome, storeVars
<1>4. attempt' \in 0..MaxAttempts
  BY <1>0, <1>3, ConnectionAssumption DEF Counted
<1>5. /\ path' \in Route /\ saved' \in Route \cup {"none"} /\ restored' \in BOOLEAN /\ RouteFits'
      /\ (a = None => path' = "welcome") /\ (a # None /\ active # None => path' = "welcome")
  BY <1>0, <1>3, GotoFits
<1>6. path' = "welcome"
  BY <1>2, <1>5
<1>7. ShowsItsCall'
  BY <1>0, <1>1, <1>3, <1>6, ScreenShows DEF ConnectionInv, ShowsItsCall
<1>8. /\ connects' \in SUBSET Connect /\ connecting' \in Cluster \cup {None}
      /\ loads' \in SUBSET Load /\ checks' \in 0..MaxLoads /\ checking' \in BOOLEAN
      /\ \A k \in connects' : \E j \in cs : k.name = j.name /\ k.stage = j.stage
      /\ \A j \in cs : \E k \in connects' : k.name = j.name /\ k.stage = j.stage
  BY <1>0, <1>3, ScreenTypes
<1>9. AnswerReached' /\ ConnectingHasCall' /\ ConnectedIsReal'
  BY <1>1, <1>3, <1>8, CallsStay
<1>10. ConnectionTypeOK'
  BY <1>3, <1>4, <1>5, <1>8 DEF ConnectionTypeOK, ConnectionInv
<1>11. QED
  BY <1>5, <1>7, <1>9, <1>10 DEF ConnectionInv

LEMMA ConnectInShellKeeps ==
  ASSUME ConnectionInv, NEW c \in Cluster, ConnectInShell(c) PROVE ConnectionInv'
<1>0. /\ path \in Route /\ attempt \in 0..MaxAttempts /\ ConnectionTypeOK /\ RouteFits /\ path = "page" /\ active # None
  BY DEF ConnectionInv, ConnectionTypeOK, RouteFits, ConnectInShell, InShell, Route
<1>1. /\ New(c, "shell") \in Connect /\ ~OfScreen(New(c, "shell"))
      /\ New(c, "shell").name = c /\ New(c, "shell").stage = "asked"
  BY DEF New, Connect, OfScreen
<1>2. /\ InShell /\ Optimistic(c) /\ connects' = connects \cup {New(c, "shell")} /\ Goto("page", c)
      /\ UNCHANGED <<booted, reached, connecting, loads, checks, checking>> /\ Counted(attempt)
  BY <1>0 DEF ConnectInShell, welcomeVars
<1>3. active' = c /\ c # None
  BY <1>2, ConnectionAssumption DEF Optimistic
<1>4. attempt' \in 0..MaxAttempts
  BY <1>0, <1>2, ConnectionAssumption DEF Counted
<1>5. /\ path' \in Route /\ saved' \in Route \cup {"none"} /\ restored' \in BOOLEAN /\ RouteFits' /\ path' = "page"
  BY <1>0, <1>2, <1>3, GotoFits
<1>6. status' \in [Cluster -> Status] /\ active' \in Cluster /\ AnswerReached' /\ ConnectingHasCall' /\ ConnectedIsReal'
  BY <1>1, <1>2, CallMade
<1>7. ShowsItsCall'
  BY <1>0, <1>1, <1>2, <1>5 DEF ShowsItsCall, ConnectionInv, InWelcome
<1>8. ConnectionTypeOK'
  BY <1>1, <1>2, <1>4, <1>5, <1>6 DEF ConnectionTypeOK, ConnectionInv
<1>9. QED
  BY <1>5, <1>6, <1>7, <1>8 DEF ConnectionInv

LEMMA RetryKeeps == ASSUME ConnectionInv, Retry PROVE ConnectionInv'
<1>0. /\ active \in Cluster /\ attempt + 1 \in 0..MaxAttempts /\ InShell
  BY ConnectionAssumption DEF ConnectionInv, ConnectionTypeOK, Retry, Waits, Lost
<1>1. PICK c \in Cluster : c = active
  BY <1>0
<1>2. /\ New(c, "banner") \in Connect /\ ~OfScreen(New(c, "banner"))
      /\ New(c, "banner").name = c /\ New(c, "banner").stage = "asked"
  BY DEF New, Connect, OfScreen
<1>3. /\ Optimistic(c) /\ connects' = connects \cup {New(c, "banner")}
      /\ UNCHANGED <<path, saved, restored, booted, reached, connecting, loads, checks, checking>> /\ Counted(attempt + 1)
      /\ active' = active
  BY <1>1 DEF Retry, welcomeVars, routeVars, Optimistic
<1>4. attempt' \in 0..MaxAttempts
  BY <1>0, <1>3, ConnectionAssumption DEF Counted
<1>5. status' \in [Cluster -> Status] /\ active' \in Cluster /\ AnswerReached' /\ ConnectingHasCall' /\ ConnectedIsReal'
  BY <1>2, <1>3, CallMade
<1>6. ShowsItsCall' /\ RouteFits'
  BY <1>2, <1>3 DEF ShowsItsCall, RouteFits, ConnectionInv, InWelcome, InShell
<1>7. ConnectionTypeOK'
  BY <1>2, <1>3, <1>4, <1>5 DEF ConnectionTypeOK, ConnectionInv
<1>8. QED
  BY <1>5, <1>6, <1>7 DEF ConnectionInv

LEMMA ConnectInWelcomeKeeps ==
  ASSUME ConnectionInv, NEW c \in Cluster, ConnectInWelcome(c) PROVE ConnectionInv'
<1>0. /\ connects \in SUBSET Connect /\ "welcome" \in Route /\ attempt \in 0..MaxAttempts
      /\ ConnectionTypeOK /\ RouteFits /\ connecting = None /\ InWelcome /\ c # None
  BY ConnectionAssumption DEF ConnectionInv, ConnectionTypeOK, Route, ConnectInWelcome, Idle
<1>1. \A k \in connects : ~OfScreen(k)
  BY <1>0, ConnectionAssumption DEF ConnectionInv, ShowsItsCall, Connect
<1>2. /\ New(c, "welcome") \in Connect /\ OfScreen(New(c, "welcome"))
      /\ New(c, "welcome").name = c /\ New(c, "welcome").stage = "asked"
  BY DEF New, Connect, OfScreen
<1>3. PICK cs \in SUBSET Connect : cs = connects \cup {New(c, "welcome")}
  BY <1>0, <1>2
<1>4. /\ Optimistic(c) /\ Goto("welcome", c) /\ UNCHANGED <<booted, reached>> /\ Counted(attempt) /\ active' = c
      /\ IF path' = "welcome"
         THEN connects' = cs /\ connecting' = c /\ UNCHANGED <<loads, checks, checking>>
         ELSE Screen(path', cs)
  BY <1>3 DEF ConnectInWelcome, Optimistic
<1>5. attempt' \in 0..MaxAttempts
  BY <1>0, <1>4, ConnectionAssumption DEF Counted
<1>6. path' \in Route /\ saved' \in Route \cup {"none"} /\ restored' \in BOOLEAN /\ RouteFits'
  BY <1>0, <1>4, GotoFits
<1>7. CASE path' = "welcome"
  <2>1. connects' = cs /\ connecting' = c /\ UNCHANGED <<loads, checks, checking>>
    BY <1>4, <1>7
  <2>2. status' \in [Cluster -> Status] /\ active' \in Cluster /\ AnswerReached' /\ ConnectingHasCall' /\ ConnectedIsReal'
    BY <1>2, <1>3, <1>4, <2>1, CallMade
  <2>3. ShowsItsCall'
    BY <1>1, <1>2, <1>3, <1>7, <2>1 DEF ShowsItsCall, InWelcome
  <2>4. ConnectionTypeOK'
    BY <1>4, <1>5, <1>6, <2>1, <2>2 DEF ConnectionTypeOK, ConnectionInv
  <2>5. QED
    BY <1>6, <2>2, <2>3, <2>4 DEF ConnectionInv
<1>8. CASE path' = "page"
  <2>1. Screen("page", cs)
    BY <1>4, <1>8
  <2>2. /\ connects' \in SUBSET Connect /\ connecting' \in Cluster \cup {None}
        /\ loads' \in SUBSET Load /\ checks' \in 0..MaxLoads /\ checking' \in BOOLEAN
        /\ \A k \in connects' : \E j \in cs : k.name = j.name /\ k.stage = j.stage
        /\ \A j \in cs : \E k \in connects' : k.name = j.name /\ k.stage = j.stage
    BY <1>0, <2>1, ScreenTypes DEF Route
  <2>3. status' \in [Cluster -> Status] /\ active' \in Cluster /\ AnswerReached' /\ ConnectingHasCall' /\ ConnectedIsReal'
    <3>1. \E k \in connects' : k.name = c /\ k.stage = "asked"
      BY <1>2, <1>3, <2>2
    <3>2. \A j \in connects : \E k \in connects' : k.name = j.name /\ k.stage = j.stage
      BY <1>3, <2>2
    <3>3. \A k \in connects' : \E j \in connects \cup {New(c, "welcome")} : k.name = j.name /\ k.stage = j.stage
      BY <1>3, <2>2
    <3>4. QED
      BY <3>1, <3>2, <3>3, <1>4, CallMade
  <2>4. ShowsItsCall'
    BY <1>0, <2>1, ScreenGoes
  <2>5. ConnectionTypeOK'
    BY <1>4, <1>5, <1>6, <2>2, <2>3 DEF ConnectionTypeOK, ConnectionInv
  <2>6. QED
    BY <1>6, <2>3, <2>4, <2>5 DEF ConnectionInv
<1>9. QED
  BY <1>6, <1>7, <1>8 DEF Route

LEMMA AnswerKeeps ==
  ASSUME ConnectionInv, NEW k \in connects, Answer(k) PROVE ConnectionInv'
<1>0. k \in Connect /\ connects \in SUBSET Connect
  BY DEF ConnectionInv, ConnectionTypeOK
<1>1. /\ k.stage = "asked"
      /\ UNCHANGED <<active, status, attempt, path, saved, restored, booted, connecting, loads, checks, checking>>
  BY DEF Answer, storeVars, routeVars, welcomeVars
<1>2. PICK s \in {"ok", "refused"} : /\ connects' = (connects \ {k}) \cup {[k EXCEPT !.stage = s]}
                                     /\ reached' = IF s = "ok" THEN reached \cup {k.name} ELSE reached
  BY DEF Answer
<1>3. PICK n \in Connect : n = [k EXCEPT !.stage = s]
  BY <1>0 DEF Connect
<1>4. n.name = k.name /\ n.stage = s /\ n.by = k.by /\ n.live = k.live
  BY <1>0, <1>3 DEF Connect
<1>5. connects' = (connects \ {k}) \cup {n}
  BY <1>2, <1>3
<1>6. ConnectionTypeOK'
  BY <1>0, <1>1, <1>2, <1>5, <1>4 DEF ConnectionTypeOK, ConnectionInv, Connect
<1>7. ShowsItsCall'
  BY <1>1, <1>4, <1>5 DEF ShowsItsCall, ConnectionInv, OfScreen, InWelcome
<1>8. RouteFits'
  BY <1>1 DEF RouteFits, ConnectionInv, InShell
<1>9. AnswerReached'
  BY <1>2, <1>4, <1>5 DEF AnswerReached, ConnectionInv
<1>10. ConnectingHasCall'
  <2>1. SUFFICES ASSUME NEW d \in Cluster, status[d] = "connecting"
                 PROVE  \E j \in connects' : j.name = d /\ j.stage \in {"asked", "ok", "refused"}
    BY <1>1 DEF ConnectingHasCall
  <2>2. PICK j \in connects : j.name = d /\ j.stage \in {"asked", "ok", "refused"}
    BY <2>1 DEF ConnectionInv, ConnectingHasCall
  <2>3. CASE j = k
    BY <2>2, <2>3, <1>2, <1>4, <1>5
  <2>4. CASE j # k
    BY <2>2, <2>4, <1>5
  <2>5. QED
    BY <2>3, <2>4
<1>11. ConnectedIsReal'
  BY <1>1, <1>2 DEF ConnectedIsReal, ConnectionInv
<1>12. QED
  BY <1>6, <1>7, <1>8, <1>9, <1>10, <1>11 DEF ConnectionInv

\* A cluster that was "connecting" is not any more, so the call may go on or go.
LEMMA CallEnds ==
  ASSUME ConnectionInv, NEW k \in connects, NEW s \in {"connected", "error"},
         status' = Set(status, k.name, s), UNCHANGED reached, s = "connected" => k.name \in reached,
         \A j \in connects \ {k} : \E i \in connects' : i.name = j.name /\ i.stage = j.stage,
         \A i \in connects' : i.stage = "ok" => \E j \in connects : i.name = j.name /\ i.stage = j.stage
  PROVE  status' \in [Cluster -> Status] /\ AnswerReached' /\ ConnectingHasCall' /\ ConnectedIsReal'
<1>0. k.name \in Cluster
  BY DEF ConnectionInv, ConnectionTypeOK, Connect
<1>1. status' \in [Cluster -> Status]
  BY <1>0 DEF ConnectionInv, ConnectionTypeOK, Set, Status
<1>2. \A d \in Cluster : status'[d] = IF d = k.name /\ status[d] # "absent" THEN s ELSE status[d]
  BY <1>0 DEF ConnectionInv, ConnectionTypeOK, Set
<1>3. ConnectingHasCall'
  <2>1. SUFFICES ASSUME NEW d \in Cluster, status'[d] = "connecting"
                 PROVE  \E j \in connects' : j.name = d /\ j.stage \in {"asked", "ok", "refused"}
    BY DEF ConnectingHasCall
  <2>2. d # k.name /\ status[d] = "connecting"
    BY <2>1, <1>2
  <2>3. PICK j \in connects : j.name = d /\ j.stage \in {"asked", "ok", "refused"}
    BY <2>2 DEF ConnectionInv, ConnectingHasCall
  <2>4. QED
    BY <2>2, <2>3
<1>4. AnswerReached'
  BY DEF AnswerReached, ConnectionInv
<1>5. ConnectedIsReal'
  BY <1>2 DEF ConnectedIsReal, ConnectionInv
<1>6. QED
  BY <1>1, <1>3, <1>4, <1>5

LEMMA ConnectedKeeps ==
  ASSUME ConnectionInv, NEW k \in connects, Connected(k) PROVE ConnectionInv'
<1>0. k \in Connect /\ connects \in SUBSET Connect /\ attempt \in 0..MaxAttempts
  BY DEF ConnectionInv, ConnectionTypeOK
<1>1. /\ k.stage = "ok" /\ status' = Set(status, k.name, "connected") /\ Counted(attempt)
      /\ UNCHANGED <<active, path, saved, restored, booted, connecting, loads, checks, checking, reached>>
  BY DEF Connected, routeVars, welcomeVars
<1>2. PICK n \in Connect : n = [k EXCEPT !.stage = "listing"]
  BY <1>0 DEF Connect
<1>3. n.name = k.name /\ n.stage = "listing" /\ n.by = k.by /\ n.live = k.live
  BY <1>0, <1>2 DEF Connect
<1>4. connects' = (connects \ {k}) \cup {n}
  BY <1>2 DEF Connected
<1>5. k.name \in reached
  BY <1>1 DEF ConnectionInv, AnswerReached
<1>6. status' \in [Cluster -> Status] /\ AnswerReached' /\ ConnectingHasCall' /\ ConnectedIsReal'
  BY <1>1, <1>3, <1>4, <1>5, CallEnds
<1>7. attempt' \in 0..MaxAttempts
  BY <1>0, <1>1, ConnectionAssumption DEF Counted
<1>8. ConnectionTypeOK'
  BY <1>0, <1>1, <1>4, <1>6, <1>7 DEF ConnectionTypeOK, ConnectionInv
<1>9. ShowsItsCall' /\ RouteFits'
  BY <1>1, <1>3, <1>4 DEF ShowsItsCall, RouteFits, ConnectionInv, OfScreen, InWelcome, InShell
<1>10. QED
  BY <1>6, <1>8, <1>9 DEF ConnectionInv

LEMMA ReturnedKeeps ==
  ASSUME ConnectionInv, NEW k \in connects, Returned(k) PROVE ConnectionInv'
<1>0. /\ k \in Connect /\ connects \in SUBSET Connect /\ attempt \in 0..MaxAttempts /\ path \in Route
      /\ active \in Cluster \cup {None} /\ ConnectionTypeOK /\ RouteFits /\ k.stage = "listing"
  BY DEF ConnectionInv, ConnectionTypeOK, Returned
<1>1. PICK next \in Route : next = IF k.by = "welcome" /\ active # None THEN "page" ELSE path
  BY <1>0 DEF Route
<1>2. PICK a \in Cluster \cup {None} : a = active
  BY <1>0
<1>3. PICK cs \in SUBSET Connect : cs = connects \ {k}
  BY <1>0
<1>4. /\ Goto(next, a) /\ active' = a /\ UNCHANGED <<active, status, booted, reached>> /\ Counted(attempt)
      /\ IF next = path /\ k.by = "welcome"
         THEN connects' = cs /\ connecting' = Spins(k, next) /\ UNCHANGED <<loads, checks, checking>>
         ELSE Screen(next, cs)
  BY <1>1, <1>2, <1>3 DEF Returned, storeVars
<1>5. attempt' \in 0..MaxAttempts
  BY <1>0, <1>4, ConnectionAssumption DEF Counted
<1>6. /\ path' \in Route /\ saved' \in Route \cup {"none"} /\ restored' \in BOOLEAN /\ RouteFits'
      /\ (a = None => path' = "welcome") /\ (a # None /\ active # None => path' = next)
  BY <1>0, <1>4, GotoFits
<1>7. path' = next
  BY <1>0, <1>1, <1>2, <1>6 DEF RouteFits, InShell
<1>8. \A j \in cs : OfScreen(j) => /\ InWelcome /\ j.name = connecting
                                   /\ (\A i \in cs : OfScreen(i) => i = j) /\ ~OfScreen(k)
  BY <1>3 DEF ConnectionInv, ShowsItsCall
<1>9. CASE next = path /\ k.by = "welcome"
  <2>1. connects' = cs /\ connecting' = Spins(k, next) /\ UNCHANGED <<loads, checks, checking>>
    BY <1>4, <1>9
  <2>2. connecting' \in Cluster \cup {None} /\ (~OfScreen(k) => connecting' = connecting)
    BY <1>0, <1>9, <2>1 DEF Spins, OfScreen, ConnectionTypeOK
  <2>3. ShowsItsCall'
    BY <1>7, <1>8, <1>9, <2>1, <2>2 DEF ShowsItsCall, InWelcome
  <2>4. ConnectionTypeOK'
    BY <1>0, <1>4, <1>5, <1>6, <2>1, <2>2 DEF ConnectionTypeOK
  <2>5. AnswerReached' /\ ConnectedIsReal'
    BY <1>3, <1>4, <2>1 DEF AnswerReached, ConnectedIsReal, ConnectionInv
  <2>6. ConnectingHasCall'
    BY <1>0, <1>3, <1>4, <2>1 DEF ConnectingHasCall, ConnectionInv
  <2>7. QED
    BY <1>6, <2>3, <2>4, <2>5, <2>6 DEF ConnectionInv
<1>10. CASE ~(next = path /\ k.by = "welcome")
  <2>1. Screen(next, cs)
    BY <1>4, <1>10
  <2>2. /\ connects' \in SUBSET Connect /\ connecting' \in Cluster \cup {None}
        /\ loads' \in SUBSET Load /\ checks' \in 0..MaxLoads /\ checking' \in BOOLEAN
        /\ \A i \in connects' : \E j \in cs : i.name = j.name /\ i.stage = j.stage
        /\ \A j \in cs : \E i \in connects' : i.name = j.name /\ i.stage = j.stage
    BY <1>0, <2>1, ScreenTypes
  <2>3. ShowsItsCall'
    BY <1>0, <1>7, <1>8, <2>1, ScreenShows
  <2>4. ConnectionTypeOK'
    BY <1>0, <1>4, <1>5, <1>6, <2>2 DEF ConnectionTypeOK
  <2>5. AnswerReached' /\ ConnectedIsReal'
    <3>1. ASSUME NEW i \in connects', i.stage = "ok" PROVE i.name \in reached'
      <4>1. PICK j \in cs : i.name = j.name /\ i.stage = j.stage
        BY <2>2
      <4>2. QED
        BY <1>3, <1>4, <3>1, <4>1 DEF AnswerReached, ConnectionInv
    <3>2. ConnectedIsReal'
      BY <1>4 DEF ConnectedIsReal, ConnectionInv
    <3>3. QED
      BY <3>1, <3>2 DEF AnswerReached
  <2>6. ConnectingHasCall'
    <3>1. SUFFICES ASSUME NEW d \in Cluster, status[d] = "connecting"
                   PROVE  \E j \in connects' : j.name = d /\ j.stage \in {"asked", "ok", "refused"}
      BY <1>4 DEF ConnectingHasCall
    <3>2. PICK j \in connects : j.name = d /\ j.stage \in {"asked", "ok", "refused"}
      BY <3>1 DEF ConnectionInv, ConnectingHasCall
    <3>3. j \in cs
      BY <1>0, <1>3, <3>2
    <3>4. QED
      BY <2>2, <3>2, <3>3
  <2>7. QED
    BY <1>6, <2>3, <2>4, <2>5, <2>6 DEF ConnectionInv
<1>11. QED
  BY <1>9, <1>10

LEMMA RefusedKeeps ==
  ASSUME ConnectionInv, NEW k \in connects, Refused(k) PROVE ConnectionInv'
<1>0. /\ k \in Connect /\ connects \in SUBSET Connect /\ attempt \in 0..MaxAttempts /\ path \in Route
      /\ ConnectionTypeOK /\ RouteFits
  BY DEF ConnectionInv, ConnectionTypeOK
<1>1. PICK cs \in SUBSET Connect : cs = connects \ {k}
  BY <1>0
<1>2. PICK p \in Route : p = path
  BY <1>0
<1>3. /\ k.stage = "refused" /\ active' = None /\ status' = Set(status, k.name, "error") /\ Goto(p, None)
      /\ UNCHANGED <<booted, reached>> /\ Counted(attempt)
      /\ IF InWelcome
         THEN /\ connects' = cs /\ UNCHANGED <<loads, checks, checking>>
              /\ connecting' = IF k.by = "welcome" THEN Spins(k, "welcome") ELSE connecting
         ELSE Screen("welcome", cs)
  BY <1>1, <1>2 DEF Refused
<1>4. attempt' \in 0..MaxAttempts
  BY <1>0, <1>3, ConnectionAssumption DEF Counted
<1>5. /\ path' \in Route /\ saved' \in Route \cup {"none"} /\ restored' \in BOOLEAN /\ RouteFits'
      /\ path' = "welcome"
  BY <1>0, <1>3, GotoFits
<1>6. \A j \in cs : OfScreen(j) => /\ InWelcome /\ j.name = connecting
                                   /\ (\A i \in cs : OfScreen(i) => i = j) /\ ~OfScreen(k)
  BY <1>1 DEF ConnectionInv, ShowsItsCall
<1>7. /\ connects' \in SUBSET Connect /\ connecting' \in Cluster \cup {None}
      /\ loads' \in SUBSET Load /\ checks' \in 0..MaxLoads /\ checking' \in BOOLEAN
      /\ (\A i \in connects' : \E j \in cs : i.name = j.name /\ i.stage = j.stage)
      /\ (\A j \in cs : \E i \in connects' : i.name = j.name /\ i.stage = j.stage)
      /\ ShowsItsCall'
  <2>1. CASE InWelcome
    <3>1. /\ connects' = cs /\ UNCHANGED <<loads, checks, checking>>
          /\ connecting' = IF k.by = "welcome" THEN Spins(k, "welcome") ELSE connecting
      BY <1>3, <2>1
    <3>2. connecting' \in Cluster \cup {None} /\ (~OfScreen(k) => connecting' = connecting)
      BY <1>0, <3>1 DEF Spins, OfScreen, ConnectionTypeOK
    <3>3. ShowsItsCall'
      BY <1>5, <1>6, <3>1, <3>2 DEF ShowsItsCall, InWelcome
    <3>4. loads' \in SUBSET Load /\ checks' \in 0..MaxLoads /\ checking' \in BOOLEAN
      BY <1>0, <3>1 DEF ConnectionTypeOK
    <3>5. QED
      BY <3>1, <3>2, <3>3, <3>4
  <2>2. CASE ~InWelcome
    <3>1. Screen("welcome", cs) /\ "welcome" \in Route
      BY <1>3, <2>2 DEF Route
    <3>2. ShowsItsCall'
      BY <1>0, <1>5, <1>6, <3>1, ScreenShows
    <3>3. QED
      BY <1>0, <3>1, <3>2, ScreenTypes
  <2>3. QED
    BY <2>1, <2>2
<1>8. status' \in [Cluster -> Status] /\ AnswerReached' /\ ConnectingHasCall' /\ ConnectedIsReal'
  <2>1. \A j \in connects \ {k} : \E i \in connects' : i.name = j.name /\ i.stage = j.stage
    BY <1>1, <1>7
  <2>2. \A i \in connects' : i.stage = "ok" => \E j \in connects : i.name = j.name /\ i.stage = j.stage
    <3>1. SUFFICES ASSUME NEW i \in connects' PROVE \E j \in connects : i.name = j.name /\ i.stage = j.stage
      OBVIOUS
    <3>2. PICK j \in cs : i.name = j.name /\ i.stage = j.stage
      BY <1>7
    <3>3. QED
      BY <1>1, <3>2
  <2>3. QED
    BY <1>3, <2>1, <2>2, CallEnds
<1>9. ConnectionTypeOK'
  BY <1>0, <1>3, <1>4, <1>5, <1>7, <1>8 DEF ConnectionTypeOK
<1>10. QED
  BY <1>5, <1>7, <1>8, <1>9 DEF ConnectionInv

LEMMA HealthKeeps ==
  ASSUME ConnectionInv, NEW c \in Cluster, NEW s \in {"connected", "error"}, Health(c, s) PROVE ConnectionInv'
<1>1. /\ c \in reached /\ status' = Set(status, c, s) /\ Counted(attempt)
      /\ UNCHANGED <<active, connects, path, saved, restored, booted, connecting, loads, checks, checking, reached>>
  BY DEF Health, routeVars, welcomeVars
<1>2. attempt' \in 0..MaxAttempts
  BY <1>1, ConnectionAssumption DEF Counted, ConnectionInv, ConnectionTypeOK
<1>3. /\ status' \in [Cluster -> Status]
      /\ \A d \in Cluster : status'[d] = IF d = c /\ status[d] # "absent" THEN s ELSE status[d]
  BY <1>1 DEF ConnectionInv, ConnectionTypeOK, Set, Status
<1>4. ConnectionTypeOK'
  BY <1>1, <1>2, <1>3 DEF ConnectionTypeOK, ConnectionInv
<1>5. ShowsItsCall' /\ RouteFits' /\ AnswerReached'
  BY <1>1 DEF ShowsItsCall, RouteFits, AnswerReached, ConnectionInv, InWelcome, InShell
<1>6. ConnectingHasCall' /\ ConnectedIsReal'
  BY <1>1, <1>3 DEF ConnectingHasCall, ConnectedIsReal, ConnectionInv
<1>7. QED
  BY <1>4, <1>5, <1>6 DEF ConnectionInv

\* Only the lists of the Welcome screen move.
LEMMA ListsKeep ==
  ASSUME ConnectionInv, UNCHANGED <<active, connects, path, saved, restored, booted, connecting, reached>>,
         attempt' \in 0..MaxAttempts, loads' \in SUBSET Load, checks' \in 0..MaxLoads, checking' \in BOOLEAN,
         status' \in [Cluster -> Status],
         \A c \in Cluster : status'[c] \in {status[c], "absent", "disconnected"}
  PROVE  ConnectionInv'
<1>1. ConnectionTypeOK'
  BY DEF ConnectionTypeOK, ConnectionInv
<1>2. ShowsItsCall' /\ RouteFits' /\ AnswerReached'
  BY DEF ShowsItsCall, RouteFits, AnswerReached, ConnectionInv, InWelcome, InShell
<1>3. ConnectingHasCall' /\ ConnectedIsReal'
  BY DEF ConnectingHasCall, ConnectedIsReal, ConnectionInv
<1>4. QED
  BY <1>1, <1>2, <1>3 DEF ConnectionInv

LEMMA ListSteps ==
  ASSUME ConnectionInv, KubeconfigChanged \/ (\E l \in loads : ListContexts(l) \/ Loaded(l)) \/ Preflight
  PROVE  ConnectionInv'
<1>0. /\ attempt \in 0..MaxAttempts /\ loads \in SUBSET Load /\ checks \in 0..MaxLoads /\ checking \in BOOLEAN
      /\ status \in [Cluster -> Status]
  BY DEF ConnectionInv, ConnectionTypeOK
<1>1. CASE KubeconfigChanged
  <2>1. loads' \in SUBSET Load
    <3>1. loads' = loads \cup {NewLoad} /\ NewLoad \in Load
      BY <1>1 DEF KubeconfigChanged, NewLoad, Load
    <3>2. QED
      BY <1>0, <3>1
  <2>2. QED
    BY <1>0, <1>1, <2>1, ListsKeep DEF KubeconfigChanged, storeVars, routeVars
<1>2. ASSUME NEW l \in loads, ListContexts(l) PROVE ConnectionInv'
  <2>1. PICK got \in SUBSET Cluster : loads' = (loads \ {l}) \cup {[l EXCEPT !.stage = "answered", !.got = got]}
    BY <1>2 DEF ListContexts
  <2>2. [l EXCEPT !.stage = "answered", !.got = got] \in Load
    BY <1>0 DEF Load
  <2>3. loads' \in SUBSET Load
    BY <1>0, <2>1, <2>2
  <2>4. QED
    BY <1>0, <1>2, <2>3, ListsKeep DEF ListContexts, storeVars, routeVars
<1>3. ASSUME NEW l \in loads, Loaded(l) PROVE ConnectionInv'
  <2>1. attempt' \in 0..MaxAttempts
    BY <1>0, <1>3, ConnectionAssumption DEF Loaded, Counted
  <2>2. status' \in [Cluster -> Status] /\ \A c \in Cluster : status'[c] \in {"absent", "disconnected"}
    BY <1>3 DEF Loaded, Relisted, Status
  <2>3. checks' \in 0..MaxLoads /\ checking' \in BOOLEAN
    <3>1. CASE l.live /\ l.got # {}
      <4>1. checks' = checks + 1 /\ checks < MaxLoads /\ checking' = TRUE
        BY <1>3, <3>1 DEF Loaded
      <4>2. QED
        BY <1>0, <4>1, ConnectionAssumption
    <3>2. CASE ~(l.live /\ l.got # {})
      <4>1. checks' = checks /\ checking' = checking
        BY <1>3, <3>2 DEF Loaded
      <4>2. QED
        BY <1>0, <4>1
    <3>3. QED
      BY <3>1, <3>2
  <2>4. loads' \in SUBSET Load
    BY <1>0, <1>3 DEF Loaded
  <2>5. UNCHANGED <<active, connects, path, saved, restored, booted, connecting, reached>>
    BY <1>3 DEF Loaded, routeVars
  <2>6. QED
    BY <2>1, <2>2, <2>3, <2>4, <2>5, ListsKeep
<1>4. CASE Preflight
  <2>1. checks' \in 0..MaxLoads /\ checking' \in BOOLEAN
    <3>1. checks' = checks - 1 /\ checks > 0 /\ checking' = FALSE
      BY <1>4 DEF Preflight, Checked
    <3>2. checks \in 0..MaxLoads /\ MaxLoads \in Nat
      BY <1>0, ConnectionAssumption
    <3>3. checks' \in 0..MaxLoads
      BY <3>1, <3>2
    <3>4. QED
      BY <3>1, <3>3
  <2>2. QED
    BY <1>0, <1>4, <2>1, ListsKeep DEF Preflight, storeVars, routeVars
<1>5. QED
  BY <1>1, <1>2, <1>3, <1>4

\* The inductive invariant.  It adds to ConnectionSafe that the Welcome screen has one
\* call at most and none when it has gone, that the shell has a cluster, and that a
\* call answered well has reached its cluster.
THEOREM ConnectionInvariant == ConnectionSpec => []ConnectionInv
<1>1. ConnectionInit => ConnectionInv
  BY ConnectionStarts
<1>2. ConnectionInv /\ [ConnectionNext]_connectionVars => ConnectionInv'
  <2>1. SUFFICES ASSUME ConnectionInv, [ConnectionNext]_connectionVars PROVE ConnectionInv'
    OBVIOUS
  <2>2. CASE Restart
    BY <2>1, <2>2, RestartKeeps
  <2>3. CASE Startup
    BY <2>1, <2>3, StartupKeeps
  <2>4. CASE StartupFails \/ UNCHANGED connectionVars
    <3>1. /\ UNCHANGED <<active, status, connects, attempt, path, saved, restored, connecting, loads, checks, checking, reached>>
          /\ booted' \in BOOLEAN
      BY <2>1, <2>4 DEF StartupFails, connectionVars, storeVars, routeVars, welcomeVars, ConnectionInv, ConnectionTypeOK
    <3>2. QED
      BY <2>1, <3>1 DEF ConnectionInv, ConnectionTypeOK, ShowsItsCall, RouteFits, AnswerReached, ConnectingHasCall,
         ConnectedIsReal, InWelcome, InShell
  <2>5. CASE GoHome
    BY <2>1, <2>5, GoHomeKeeps
  <2>6. ASSUME NEW c \in Cluster, ConnectInShell(c) \/ ConnectInWelcome(c) \/ \E s \in {"connected", "error"} : Health(c, s)
        PROVE  ConnectionInv'
    BY <2>1, <2>6, ConnectInShellKeeps, ConnectInWelcomeKeeps, HealthKeeps
  <2>7. CASE Retry
    BY <2>1, <2>7, RetryKeeps
  <2>8. ASSUME NEW k \in connects, Answer(k) \/ Continue(k) PROVE ConnectionInv'
    BY <2>1, <2>8, AnswerKeeps, ConnectedKeeps, ReturnedKeeps, RefusedKeeps DEF Continue
  <2>9. CASE KubeconfigChanged \/ (\E l \in loads : ListContexts(l) \/ Loaded(l)) \/ Preflight
    BY <2>1, <2>9, ListSteps
  <2>10. QED
    BY <2>1, <2>2, <2>3, <2>4, <2>5, <2>6, <2>7, <2>8, <2>9 DEF ConnectionNext
<1>3. QED
  BY <1>1, <1>2, PTL DEF ConnectionSpec

\* What the window shows of its clusters has a call or an answer behind it, for any
\* contexts and any number of calls, loads and attempts.
THEOREM ConnectionIsBacked == ConnectionSpec => []ConnectionSafe
<1>1. ConnectionInv => ConnectionSafe
  BY DEF ConnectionInv, ConnectionSafe, ShowsItsCall, WelcomeShowsItsCall, OfScreen
<1>2. QED
  BY <1>1, ConnectionInvariant, PTL

-----------------------------------------------------------------------------

\* A call under way, whose number does not matter, and what it may carry.
IsAsk(a) == a = [n |-> a.n, op |-> a.op, key |-> a.key, value |-> a.value, live |-> a.live,
                 stage |-> a.stage, got |-> a.got]
Carries(a) ==
  /\ a.op \in Ops /\ a.live \in BOOLEAN /\ a.stage \in {"asked", "done", "refused"}
  /\ a.key \in K \cup {"-"} /\ a.got \in Configs(K)
  /\ a.op = "update" => a.key \in K /\ a.value \in Choice(a.key)
  /\ a.op = "find" => a.key \in K \cap AIPaths
  /\ a.op = "validate" => a.value \in {"default", "other"}

AsksWellFormed == /\ IsFiniteSet(asks) /\ Cardinality(asks) <= MaxAsks
                  /\ \A a \in asks : IsAsk(a) /\ Carries(a)

Types ==
  /\ K \in Tracked /\ store \in Configs(K) /\ onDisk \in Configs(K) /\ unsure \in SUBSET K
  /\ section \in DOMAIN KeysOf /\ spinning \in SUBSET Busy
  /\ badge \in [validated : BOOLEAN, of : {"nothing", "default", "other", "blank", "search"}, timer : BOOLEAN]
  /\ uiTheme \in Choice("theme") /\ loaded \in BOOLEAN /\ listed \in BOOLEAN
  /\ mixed \in BOOLEAN /\ cycled \in BOOLEAN

\* A setting that is not in doubt is touched by one call at most.  Until that call is
\* served, or its answer is read, it says what memory or file will have.
TouchedBy(op, key, k) == (op = "update" /\ key = k) \/ op \in {"load", "reset", "reread", "import"}
Touches(a, k) == TouchedBy(a.op, a.key, k)
Agrees(k) == store[k] = onDisk[k] \/ store[k] = ConfigToState(onDisk)[k]
Promises(a, k) ==
  /\ a.stage # "refused"
  /\ a.op = "update" /\ a.stage = "asked" => store[k] = a.value
  /\ a.op = "update" /\ a.stage = "done" => Agrees(k)
  /\ a.op \in {"load", "reread"} /\ a.stage = "done" => a.got[k] = onDisk[k]
Settled(k) ==
  /\ \A a, b \in asks : Touches(a, k) /\ Touches(b, k) => a = b
  /\ \A a \in asks : Touches(a, k) => Promises(a, k)
  /\ (\A a \in asks : ~Touches(a, k)) => Agrees(k)
Agreement == \A k \in K \ unsure : Settled(k)

\* What the mark beside a path, its timer and the calls that validate it have in common.
Check(a) == a.op = "validate" /\ a.live
Checks == {a \in asks : Check(a)}
MarkFits(k) ==
  /\ \A a \in Checks : store[k] # "none"
  /\ badge.timer => store[k] # "none"
  /\ ~mixed => /\ \A a, b \in Checks : a = b
               /\ ~badge.timer => \A a \in Checks : a.value = store[k]
               /\ ~badge.timer /\ badge.validated /\ store[k] # "none" /\ Checks = {}
                    => badge.of \in {store[k], "search"}
  /\ store[k] # "none" /\ ~badge.validated
       => badge.timer \/ \E a \in Checks : a.value = store[k]
MarksFit == \A k \in InputOf(section) : MarkFits(k)

SettingsInv == Types /\ AsksWellFormed /\ Agreement /\ ThemeShown /\ MarksFit /\ BusyHasCall

-----------------------------------------------------------------------------
\* What a step does to the calls: some go, some are not the screen's any more, some are made.
Dimmed(a, ops) == [a EXCEPT !.live = a.live /\ a.op \notin ops]
Dim(S, ops) == {Dimmed(a, ops) : a \in S}
Same(x, a) == x.op = a.op /\ x.key = a.key /\ x.value = a.value /\ x.stage = a.stage /\ x.got = a.got

LEMMA DimmedFields ==
  ASSUME NEW a, IsAsk(a), a.live \in BOOLEAN, NEW ops
  PROVE  /\ IsAsk(Dimmed(a, ops)) /\ Same(Dimmed(a, ops), a)
         /\ Dimmed(a, ops).live \in BOOLEAN /\ (Dimmed(a, ops).live <=> a.live /\ a.op \notin ops)
         /\ a.op \notin ops => Dimmed(a, ops) = a
<1>1. Dimmed(a, ops) = [n |-> a.n, op |-> a.op, key |-> a.key, value |-> a.value,
                        live |-> (a.live /\ a.op \notin ops), stage |-> a.stage, got |-> a.got]
  BY DEF Dimmed, IsAsk
<1>2. IsAsk(Dimmed(a, ops)) /\ Same(Dimmed(a, ops), a)
      /\ Dimmed(a, ops).live \in BOOLEAN /\ (Dimmed(a, ops).live <=> a.live /\ a.op \notin ops)
  <2>1. PICK l \in BOOLEAN : l = (a.live /\ a.op \notin ops)
    OBVIOUS
  <2>2. Dimmed(a, ops) = [n |-> a.n, op |-> a.op, key |-> a.key, value |-> a.value,
                          live |-> l, stage |-> a.stage, got |-> a.got]
    BY <1>1, <2>1
  <2>3. Dimmed(a, ops).live = l /\ IsAsk(Dimmed(a, ops)) /\ Same(Dimmed(a, ops), a)
    BY <2>2 DEF IsAsk, Same
  <2>4. QED
    BY <2>1, <2>3
<1>3. ASSUME a.op \notin ops PROVE Dimmed(a, ops) = a
  <2>1. (a.live /\ a.op \notin ops) = a.live
    BY <1>3
  <2>2. QED
    BY <1>1, <2>1 DEF IsAsk
<1>4. QED
  BY <1>2, <1>3

LEMMA DimSet ==
  ASSUME NEW S, \A a \in S : IsAsk(a) /\ a.live \in BOOLEAN, NEW ops
  PROVE  /\ \A x \in Dim(S, ops) : \E a \in S : /\ x = Dimmed(a, ops) /\ IsAsk(x) /\ Same(x, a) /\ x.live \in BOOLEAN
                                                /\ (x.live <=> a.live /\ a.op \notin ops)
         /\ \A a \in S : \E x \in Dim(S, ops) : Same(x, a) /\ (x.live <=> a.live /\ a.op \notin ops)
<1>1. ASSUME NEW x \in Dim(S, ops)
      PROVE  \E a \in S : /\ x = Dimmed(a, ops) /\ IsAsk(x) /\ Same(x, a) /\ x.live \in BOOLEAN
                          /\ (x.live <=> a.live /\ a.op \notin ops)
  <2>1. PICK a \in S : x = Dimmed(a, ops)
    BY DEF Dim
  <2>2. QED
    BY <2>1, DimmedFields
<1>2. ASSUME NEW a \in S
      PROVE  \E x \in Dim(S, ops) : Same(x, a) /\ (x.live <=> a.live /\ a.op \notin ops)
  <2>1. Dimmed(a, ops) \in Dim(S, ops)
    BY DEF Dim
  <2>2. QED
    BY <2>1, DimmedFields
<1>3. QED
  BY <1>1, <1>2

LEMMA DimSize ==
  ASSUME NEW S, IsFiniteSet(S), NEW ops
  PROVE  IsFiniteSet(Dim(S, ops)) /\ Cardinality(Dim(S, ops)) <= Cardinality(S)
<1> DEFINE f == [a \in S |-> Dimmed(a, ops)]
<1>1. f \in Surjection(S, Dim(S, ops))
  BY DEF Surjection, Dim
<1>2. QED
  BY <1>1, FS_Surjection

\* Nobody's spinner stops that was called for by others.
LEMMA DimNothing ==
  ASSUME NEW S, \A a \in S : IsAsk(a) /\ a.live \in BOOLEAN
  PROVE  Dim(S, {}) = S
<1>1. \A a \in S : Dimmed(a, {}) = a
  BY DimmedFields
<1>2. QED
  BY <1>1 DEF Dim

LEMMA RemainingIsDim ==
  ASSUME NEW rest, NEW new, \A a \in rest : IsAsk(a) /\ a.live \in BOOLEAN
  PROVE  Remaining(rest, new) = Dim(rest, IF Removed(new) THEN {"validate"} ELSE {})
<1>1. PICK ops : ops = IF Removed(new) THEN {"validate"} ELSE {}
  OBVIOUS
<1>2. \A a \in rest : (a.live /\ ~(Removed(new) /\ a.op = "validate")) = (a.live /\ a.op \notin ops)
  BY <1>1
<1>3. \A a \in rest : [a EXCEPT !.live = a.live /\ ~(Removed(new) /\ a.op = "validate")] = Dimmed(a, ops)
  BY <1>2 DEF Dimmed
<1>4. Dim(rest, ops) = {[a EXCEPT !.live = a.live /\ ~(Removed(new) /\ a.op = "validate")] : a \in rest}
  <2>1. ASSUME NEW x \in Dim(rest, ops)
        PROVE  x \in {[a EXCEPT !.live = a.live /\ ~(Removed(new) /\ a.op = "validate")] : a \in rest}
    BY <1>3, Zenon DEF Dim
  <2>2. ASSUME NEW x \in {[a EXCEPT !.live = a.live /\ ~(Removed(new) /\ a.op = "validate")] : a \in rest}
        PROVE  x \in Dim(rest, ops)
    BY <1>3, Zenon DEF Dim
  <2>3. QED
    BY <2>1, <2>2
<1>5. QED
  BY <1>1, <1>4, Zenon DEF Remaining

-----------------------------------------------------------------------------
LEMMA WellFormedKept ==
  ASSUME AsksWellFormed, K' = K, NEW drop, NEW ops, NEW new, asks' = Dim(asks \ drop, ops) \cup new,
         IsFiniteSet(new), Cardinality(asks') <= MaxAsks,
         \A b \in new : IsAsk(b) /\ Carries(b)
  PROVE  AsksWellFormed'
<1>1. IsFiniteSet(asks')
  <2>1. IsFiniteSet(asks \ drop)
    BY FS_Subset DEF AsksWellFormed
  <2>2. IsFiniteSet(Dim(asks \ drop, ops))
    BY <2>1, DimSize
  <2>3. QED
    BY <2>2, FS_Union
<1>2. ASSUME NEW x \in asks' PROVE IsAsk(x) /\ Carries(x)
  <2>1. CASE x \in new
    BY <2>1
  <2>2. CASE x \in Dim(asks \ drop, ops)
    <3>0. PICK S : S = asks \ drop
      OBVIOUS
    <3>1. PICK a \in S : IsAsk(x) /\ Same(x, a) /\ x.live \in BOOLEAN
      BY <2>2, <3>0, DimSet DEF AsksWellFormed, Carries
    <3>2. QED
      BY <3>0, <3>1 DEF AsksWellFormed, Carries, Same
  <2>3. QED
    BY <2>1, <2>2
<1>3. \A x : Carries(x) => Carries(x)'
  BY DEF Carries
<1>4. QED
  BY <1>1, <1>2, <1>3 DEF AsksWellFormed

\* f spins for a call that was made, or for one that is still the screen's.
StillBusy(f, drop, ops, new) ==
  (\E b \in new : b.op = f /\ b.live) \/ (f \in spinning /\ f \notin ops /\ \A a \in drop : a.op = f => ~a.live)

LEMMA BusyKept ==
  ASSUME AsksWellFormed, BusyHasCall, NEW drop, NEW ops, NEW new, asks' = Dim(asks \ drop, ops) \cup new,
         \A f \in spinning' : StillBusy(f, drop, ops, new)
  PROVE  BusyHasCall'
<1>1. SUFFICES ASSUME NEW f \in spinning', ~ \E b \in new : b.op = f /\ b.live
               PROVE  \E x \in asks' : x.op = f /\ x.live
  BY DEF BusyHasCall
<1>2. PICK a \in asks : a.op = f /\ a.live
  BY <1>1 DEF BusyHasCall, StillBusy
<1>3. PICK S : S = asks \ drop
  OBVIOUS
<1>4. a \in S /\ f \notin ops
  BY <1>1, <1>2, <1>3 DEF StillBusy
<1>5. PICK x \in Dim(S, ops) : Same(x, a) /\ (x.live <=> a.live /\ a.op \notin ops)
  <2>1. \A b \in S : IsAsk(b) /\ b.live \in BOOLEAN
    BY <1>3 DEF AsksWellFormed, Carries
  <2>2. QED
    BY <1>4, <2>1, DimSet
<1>6. QED
  BY <1>2, <1>3, <1>4, <1>5 DEF Same

LEMMA ChecksKept ==
  ASSUME AsksWellFormed, NEW drop, NEW ops, NEW new, asks' = Dim(asks \ drop, ops) \cup new,
         \A a \in drop \cup new : ~Check(a), "validate" \notin ops
  PROVE  Checks' = Checks
<1>0. PICK S : S = asks \ drop
  OBVIOUS
<1>1. ASSUME NEW a \in Checks PROVE a \in Checks'
  <2>1. a \in S /\ Check(a) /\ IsAsk(a) /\ a.live \in BOOLEAN
    BY <1>0 DEF Checks, AsksWellFormed, Carries
  <2>2. Dimmed(a, ops) = a
    BY <2>1, DimmedFields DEF Check
  <2>3. a \in Dim(S, ops)
    BY <2>1, <2>2 DEF Dim
  <2>4. QED
    BY <1>0, <2>1, <2>3 DEF Checks
<1>2. ASSUME NEW x \in Checks' PROVE x \in Checks
  <2>1. x \in Dim(S, ops) /\ Check(x)
    BY <1>0 DEF Checks
  <2>2. PICK a \in S : x = Dimmed(a, ops) /\ Same(x, a) /\ (x.live <=> a.live /\ a.op \notin ops)
    <3>1. \A b \in S : IsAsk(b) /\ b.live \in BOOLEAN
      BY <1>0 DEF AsksWellFormed, Carries
    <3>2. QED
      BY <2>1, <3>1, DimSet
  <2>3. IsAsk(a) /\ a.live \in BOOLEAN /\ a.op \notin ops
    BY <1>0, <2>1, <2>2 DEF AsksWellFormed, Carries, Same, Check
  <2>4. x = a
    BY <2>2, <2>3, DimmedFields
  <2>5. QED
    BY <1>0, <2>1, <2>4 DEF Checks
<1>3. QED
  BY <1>1, <1>2

\* When the calls of the screen go, no path is being validated.
LEMMA ChecksGone ==
  ASSUME AsksWellFormed, NEW drop, NEW ops, NEW new, asks' = Dim(asks \ drop, ops) \cup new,
         \A a \in new : ~Check(a), "validate" \in ops
  PROVE  Checks' = {}
<1>0. PICK S : S = asks \ drop
  OBVIOUS
<1>1. SUFFICES ASSUME NEW x \in Checks' PROVE FALSE
  OBVIOUS
<1>2. x \in Dim(S, ops) /\ Check(x)
  BY <1>0 DEF Checks
<1>3. PICK a \in S : Same(x, a) /\ (x.live <=> a.live /\ a.op \notin ops)
  BY <1>0, <1>2, DimSet DEF AsksWellFormed, Carries
<1>4. QED
  BY <1>2, <1>3 DEF Check, Same

-----------------------------------------------------------------------------
\* A setting that no call touches anew stays in agreement, ...
LEMMA StaysSettled ==
  ASSUME AsksWellFormed, NEW k, Settled(k), NEW drop \in SUBSET asks, NEW ops, NEW new,
         asks' = Dim(asks \ drop, ops) \cup new,
         store'[k] = store[k], onDisk'[k] = onDisk[k], Agrees(k) => Agrees(k)',
         \A b \in new : ~Touches(b, k),
         \A a \in drop : Touches(a, k) => Agrees(k)
  PROVE  Settled(k)'
<1>0. PICK S : S = asks \ drop
  OBVIOUS
<1>1. \A a \in S : IsAsk(a) /\ a.live \in BOOLEAN
  BY <1>0 DEF AsksWellFormed, Carries
<1>2. ASSUME NEW x \in asks', Touches(x, k) PROVE \E a \in S : x = Dimmed(a, ops) /\ Same(x, a) /\ Touches(a, k)
  <2>1. x \in Dim(S, ops)
    BY <1>0, <1>2
  <2>2. PICK a \in S : x = Dimmed(a, ops) /\ Same(x, a)
    BY <1>1, <2>1, DimSet
  <2>3. QED
    BY <1>2, <2>2 DEF Touches, Same
<1>3. ASSUME NEW x \in asks', NEW y \in asks', Touches(x, k), Touches(y, k) PROVE x = y
  <2>1. PICK a \in S : x = Dimmed(a, ops) /\ Touches(a, k)
    BY <1>2, <1>3
  <2>2. PICK b \in S : y = Dimmed(b, ops) /\ Touches(b, k)
    BY <1>2, <1>3
  <2>3. a = b
    BY <1>0, <2>1, <2>2 DEF Settled
  <2>4. QED
    BY <2>1, <2>2, <2>3
<1>4. ASSUME NEW x \in asks', Touches(x, k) PROVE Promises(x, k)'
  <2>1. PICK a \in S : Same(x, a) /\ Touches(a, k)
    BY <1>2, <1>4
  <2>2. Promises(a, k)
    BY <1>0, <2>1 DEF Settled
  <2>3. QED
    BY <2>1, <2>2 DEF Promises, Same
<1>5. ASSUME \A x \in asks' : ~Touches(x, k) PROVE Agrees(k)'
  <2>1. \A a \in S : ~Touches(a, k)
    <3>1. SUFFICES ASSUME NEW a \in S PROVE ~Touches(a, k)
      OBVIOUS
    <3>2. PICK x \in Dim(S, ops) : Same(x, a)
      BY <1>1, DimSet
    <3>3. x \in asks'
      BY <1>0, <3>2
    <3>4. QED
      BY <1>5, <3>2, <3>3 DEF Touches, Same
  <2>2. CASE \E a \in drop : Touches(a, k)
    BY <2>2
  <2>3. CASE \A a \in drop : ~Touches(a, k)
    BY <1>0, <2>1, <2>3 DEF Settled
  <2>4. QED
    BY <2>2, <2>3
<1>6. QED
  BY <1>3, <1>4, <1>5 DEF Settled

\* ... and one that only a new call touches is as good as the promise of that call.
LEMMA BecomesSettled ==
  ASSUME AsksWellFormed, NEW k, NEW drop \in SUBSET asks, NEW ops, NEW new,
         asks' = Dim(asks \ drop, ops) \cup new,
         \A a \in asks \ drop : ~Touches(a, k),
         \A a, b \in new : a = b,
         \A b \in new : Touches(b, k) => Promises(b, k)',
         (\A b \in new : ~Touches(b, k)) => Agrees(k)'
  PROVE  Settled(k)'
<1>0. PICK S : S = asks \ drop
  OBVIOUS
<1>1. \A a \in S : IsAsk(a) /\ a.live \in BOOLEAN
  BY <1>0 DEF AsksWellFormed, Carries
<1>2. ASSUME NEW x \in asks', Touches(x, k) PROVE x \in new
  <2>1. SUFFICES ASSUME x \in Dim(S, ops) PROVE FALSE
    BY <1>0
  <2>2. PICK a \in S : Same(x, a)
    BY <1>1, <2>1, DimSet
  <2>3. QED
    BY <1>0, <1>2, <2>2 DEF Touches, Same
<1>3. ASSUME NEW x \in asks', NEW y \in asks', Touches(x, k), Touches(y, k) PROVE x = y
  BY <1>2, <1>3
<1>4. ASSUME NEW x \in asks', Touches(x, k) PROVE Promises(x, k)'
  BY <1>2, <1>4
<1>5. ASSUME \A x \in asks' : ~Touches(x, k) PROVE Agrees(k)'
  BY <1>5
<1>6. QED
  BY <1>3, <1>4, <1>5 DEF Settled

\* A call is made.
LEMMA BeginStep ==
  ASSUME NEW others, NEW op, NEW k, NEW v, NEW l, Begin(others, op, k, v, l), l \in BOOLEAN
  PROVE  /\ Cardinality(others) < MaxAsks
         /\ \E b : /\ asks' = others \cup {b} /\ IsAsk(b) /\ b.op = op /\ b.key = k /\ b.value = v
                   /\ b.live = l /\ b.stage = "asked" /\ b.got = DefaultConfig
         /\ unsure' = (unsure \ Touched(op, k)) \cup UNION {Touched(a.op, a.key) \cap Touched(op, k) : a \in others}
<1>1. PICK n : n = CHOOSE m \in 1..MaxAsks : \A a \in others : a.n # m
  OBVIOUS
<1>2. PICK b : b = [n |-> n, op |-> op, key |-> k, value |-> v, live |-> l, stage |-> "asked", got |-> DefaultConfig]
  OBVIOUS
<1>3. asks' = others \cup {b}
  BY <1>1, <1>2 DEF Begin
<1>4. IsAsk(b) /\ b.op = op /\ b.key = k /\ b.value = v /\ b.live = l /\ b.stage = "asked" /\ b.got = DefaultConfig
  BY <1>2 DEF IsAsk
<1>5. QED
  BY <1>3, <1>4 DEF Begin

LEMMA TouchedIs ==
  ASSUME NEW op, NEW key, NEW j \in K, op = "update" => key \in K
  PROVE  j \in Touched(op, key) <=> TouchedBy(op, key, j)
  BY DEF Touched, TouchedBy

\* Which settings are in doubt when a call is made.
LEMMA InDoubt ==
  ASSUME NEW others, NEW op, NEW key, NEW j \in K, op = "update" => key \in K,
         \A a \in others : a.op = "update" => a.key \in K,
         unsure' = (unsure \ Touched(op, key)) \cup UNION {Touched(a.op, a.key) \cap Touched(op, key) : a \in others},
         j \notin unsure'
  PROVE  /\ TouchedBy(op, key, j) => \A a \in others : ~Touches(a, j)
         /\ ~TouchedBy(op, key, j) => j \notin unsure
<1>1. ASSUME TouchedBy(op, key, j), NEW a \in others PROVE ~Touches(a, j)
  <2>1. j \in Touched(op, key)
    BY <1>1, TouchedIs
  <2>2. j \notin Touched(a.op, a.key)
    BY <2>1
  <2>3. QED
    BY <2>2, TouchedIs DEF Touches
<1>2. ASSUME ~TouchedBy(op, key, j) PROVE j \notin unsure
  BY <1>2, TouchedIs
<1>3. QED
  BY <1>1, <1>2

LEMMA UnsureTyped ==
  ASSUME NEW others, NEW op, NEW key, op = "update" => key \in K, unsure \subseteq K,
         unsure' = (unsure \ Touched(op, key)) \cup UNION {Touched(a.op, a.key) \cap Touched(op, key) : a \in others}
  PROVE  unsure' \in SUBSET K
<1>1. Touched(op, key) \subseteq K
  BY DEF Touched
<1>2. QED
  BY <1>1

-----------------------------------------------------------------------------
LEMMA MarksStay ==
  ASSUME MarksFit, K' = K, UNCHANGED <<section, badge, mixed>>, Checks' = Checks,
         \A k \in InputOf(section) : store'[k] = store[k]
  PROVE  MarksFit'
<1>1. InputOf(section)' = InputOf(section)
  BY DEF InputOf
<1>2. SUFFICES ASSUME NEW k \in InputOf(section) PROVE MarkFits(k)'
  BY <1>1 DEF MarksFit
<1>3. QED
  BY DEF MarksFit, MarkFits

\* The section on the screen has the input of one path at most.
LEMMA OneInput ==
  ASSUME K \in Tracked, section \in DOMAIN KeysOf, NEW i \in InputOf(section), NEW j \in InputOf(section)
  PROVE  i = j
<1>1. CASE section = "kubeconfig"
  BY <1>1 DEF InputOf, KeysOf, Kubeconfig, PathInput, AIPaths
<1>2. CASE section = "ai"
  <2>1. i \in K \cap AIPaths /\ j \in K \cap AIPaths
    BY <1>2 DEF InputOf, KeysOf, Providers, PathInput, AIPaths
  <2>2. QED
    BY <2>1, SettingsAssumption DEF AIPaths
<1>3. QED
  BY <1>1, <1>2 DEF InputOf

LEMMA ThemeSettles ==
  ASSUME ThemeShown, K' = K, NEW new, NEW isLoaded \in BOOLEAN, NEW drawn, loaded \in BOOLEAN, cycled \in BOOLEAN,
         store' = new, loaded' = isLoaded,
         uiTheme' = IF Syncs(new, isLoaded) THEN ThemeOf(new) ELSE drawn,
         cycled' = (cycled /\ ~Syncs(new, isLoaded)),
         drawn = uiTheme \/ drawn = ThemeOf(new)
  PROVE  ThemeShown'
<1>1. ThemeOf(store)' = ThemeOf(new)
  BY DEF ThemeOf
<1>2. SUFFICES ASSUME isLoaded, ~cycled', ThemeOf(new) \in Synced PROVE uiTheme' = ThemeOf(new)
  BY <1>1 DEF ThemeShown
<1>3. CASE Syncs(new, isLoaded)
  BY <1>3
<1>4. CASE ~Syncs(new, isLoaded)
  <2>1. loaded /\ ThemeOf(new) = ThemeOf(store) /\ ~cycled
    BY <1>2, <1>4 DEF Syncs
  <2>2. uiTheme = ThemeOf(store)
    BY <1>2, <2>1 DEF ThemeShown
  <2>3. QED
    BY <1>4, <2>1, <2>2
<1>5. QED
  BY <1>3, <1>4

BadgeType == [validated : BOOLEAN, of : {"nothing", "default", "other", "blank", "search"}, timer : BOOLEAN]

LEMMA Themed == Synced \subseteq Choice("theme") /\ "system" \in Choice("theme") /\ NoBadge \in BadgeType
<1>1. DOMAIN Themes = 1..5 /\ Themes[1] = "default" /\ Themes[2] = "light" /\ Themes[5] = "system"
  BY DEF Themes
<1>2. Choice("theme") = {Themes[i] : i \in DOMAIN Themes}
  BY DEF Choice, AIPaths, Tuning
<1>3. QED
  BY <1>1, <1>2 DEF Synced, NoBadge, BadgeType

LEMMA SetConfig ==
  ASSUME NEW keys, NEW c \in Configs(keys)
  PROVE  /\ DOMAIN c = keys /\ c = [k \in keys |-> c[k]] /\ \A k \in keys : c[k] \in Choice(k)
         /\ \A k \in keys : \A v \in Choice(k) : [c EXCEPT ![k] = v] \in Configs(keys)
<1>1. DOMAIN c = keys /\ c = [k \in keys |-> c[k]] /\ \A k \in keys : c[k] \in Choice(k)
  BY DEF Configs
<1>2. ASSUME NEW k \in keys, NEW v \in Choice(k) PROVE [c EXCEPT ![k] = v] \in Configs(keys)
  <2>1. \A j \in keys : [c EXCEPT ![k] = v][j] \in Choice(j)
    BY <1>1
  <2>2. DOMAIN [c EXCEPT ![k] = v] = keys /\ [c EXCEPT ![k] = v] = [j \in keys |-> [c EXCEPT ![k] = v][j]]
    BY <1>1
  <2>3. \A j \in keys : [c EXCEPT ![k] = v][j] \in UNION {Choice(i) : i \in keys}
    BY <2>1
  <2>4. [c EXCEPT ![k] = v] \in [keys -> UNION {Choice(i) : i \in keys}]
    BY <2>2, <2>3
  <2>5. QED
    BY <2>1, <2>4 DEF Configs
<1>3. QED
  BY <1>1, <1>2

LEMMA MakeConfig ==
  ASSUME NEW keys, NEW c, c = [k \in keys |-> c[k]], \A k \in keys : c[k] \in Choice(k)
  PROVE  c \in Configs(keys)
<1>1. \A k \in keys : c[k] \in UNION {Choice(i) : i \in keys}
  OBVIOUS
<1>2. c \in [keys -> UNION {Choice(i) : i \in keys}]
  BY <1>1
<1>3. QED
  BY <1>2 DEF Configs

LEMMA DefaultOfAll == \A k : {"default"} \subseteq Choice(k)
<1>1. SUFFICES ASSUME NEW k PROVE "default" \in Choice(k)
  OBVIOUS
<1>2. CASE k = "theme"
  BY <1>2, Themed DEF Synced
<1>3. CASE k # "theme"
  BY <1>3 DEF Choice
<1>4. QED
  BY <1>2, <1>3

LEMMA ShownConfigs ==
  ASSUME NEW c \in Configs(K)
  PROVE  DefaultConfig \in Configs(K) /\ ConfigToState(c) \in Configs(K)
<1>1. PICK keys : keys = K
  OBVIOUS
<1>2. DefaultConfig \in Configs(keys)
  <2>1. PICK d : d = [k \in keys |-> "default"]
    OBVIOUS
  <2>2. d = [k \in keys |-> d[k]] /\ \A k \in keys : d[k] \in Choice(k)
    BY <2>1, DefaultOfAll
  <2>3. QED
    BY <1>1, <2>1, <2>2, MakeConfig DEF DefaultConfig
<1>3. ConfigToState(c) \in Configs(keys)
  <2>1. PICK d : d = ConfigToState(c)
    OBVIOUS
  <2>2. c \in Configs(keys)
    BY <1>1
  <2>3. \A k \in keys : c[k] \in Choice(k)
    BY <2>2, SetConfig
  <2>4. d = [k \in keys |-> d[k]] /\ \A k \in keys : d[k] \in {c[k], "default"}
    BY <1>1, <2>1 DEF ConfigToState
  <2>5. \A k \in keys : d[k] \in Choice(k)
    BY <2>3, <2>4, DefaultOfAll
  <2>6. d \in Configs(keys)
    BY <2>4, <2>5, MakeConfig
  <2>7. QED
    BY <2>1, <2>6
<1>4. QED
  BY <1>1, <1>2, <1>3

\* The settings change under the section that is on the screen.
LEMMA SettleParts ==
  ASSUME SettingsInv, NEW new \in Configs(K), NEW isLoaded \in BOOLEAN, NEW drawn \in Choice("theme"),
         NEW b \in SUBSET Busy, Settle(new, isLoaded, drawn, b), drawn = uiTheme \/ drawn = ThemeOf(new),
         section' = section, NEW drop \in SUBSET asks, \A a \in drop : ~Check(a),
         NEW made, \A a \in made : ~Check(a),
         asks' = Dim(asks \ drop, IF Removed(new) THEN {"validate"} ELSE {}) \cup made
  PROVE  /\ K' = K /\ store' = new /\ loaded' = isLoaded /\ uiTheme' \in Choice("theme")
         /\ cycled' \in BOOLEAN /\ mixed' \in BOOLEAN /\ badge' \in BadgeType
         /\ spinning' \in SUBSET Busy /\ spinning' = IF Removed(new) THEN b \ {"validate"} ELSE b
         /\ ThemeShown' /\ MarksFit'
<1>0. /\ store' = new /\ loaded' = isLoaded /\ cycled' = (cycled /\ ~Syncs(new, isLoaded))
      /\ uiTheme' = IF Syncs(new, isLoaded) THEN ThemeOf(new) ELSE drawn
      /\ spinning' = IF Removed(new) THEN b \ {"validate"} ELSE b
  BY DEF Settle
<1>1. K' = K
  BY <1>0, SetConfig DEF K
<1>2. uiTheme' \in Choice("theme")
  BY <1>0, Themed DEF Syncs
<1>3. cycled' \in BOOLEAN /\ spinning' \in SUBSET Busy
  BY <1>0
<1>4. ThemeShown'
  BY <1>0, <1>1, ThemeSettles DEF SettingsInv, Types
<1>5. InputOf(section)' = InputOf(section)
  BY <1>1 DEF InputOf
<1>6. badge \in BadgeType /\ mixed \in BOOLEAN /\ Removed(new) \in BOOLEAN /\ MarksFit /\ AsksWellFormed
      /\ K \in Tracked /\ section \in DOMAIN KeysOf
  BY DEF SettingsInv, Types, BadgeType, Removed
<1>7. CASE ~ \E k \in InputOf(section) : new[k] # store[k]
  <2>1. ~Removed(new) /\ UNCHANGED <<badge, mixed>>
    BY <1>7 DEF Removed, Settle
  <2>2. asks' = Dim(asks \ drop, {}) \cup made
    BY <2>1
  <2>3. Checks' = Checks
    BY <1>6, <2>2, ChecksKept
  <2>4. MarksFit'
    BY <1>0, <1>1, <1>6, <1>7, <2>1, <2>3, MarksStay
  <2>5. QED
    BY <1>0, <1>1, <1>2, <1>3, <1>4, <1>6, <2>1, <2>4
<1>8. CASE \E k \in InputOf(section) : new[k] # store[k]
  <2>1. PICK k \in InputOf(section) : new[k] # store[k]
    BY <1>8
  <2>2. \A i \in InputOf(section) : i = k
    BY <1>6, OneInput
  <2>3. (CHOOSE i \in InputOf(section) : TRUE) = k
    BY <2>2
  <2>4. PICK v : v = new[k]
    OBVIOUS
  <2>5. badge' = Badge(k, v) /\ mixed' = (~Removed(new) /\ IF badge'.validated THEN Validating ELSE mixed)
    BY <1>8, <2>3, <2>4 DEF Settle
  <2>6. Removed(new) <=> store[k] # "none" /\ v = "none"
    BY <2>2, <2>4 DEF Removed
  <2>7. MarkFits(k)
    BY <1>6 DEF MarksFit
  <2>8. Validating <=> Checks # {}
    BY DEF Validating, Checks, Check
  <2>9. store'[k] = v
    BY <1>0, <2>4
  <2>10. CASE v = "none"
    <3>1. Removed(new) /\ badge' = NoBadge
      BY <2>1, <2>4, <2>5, <2>6, <2>10 DEF Badge
    <3>2. asks' = Dim(asks \ drop, {"validate"}) \cup made
      BY <3>1
    <3>3. Checks' = {}
      BY <1>6, <3>2, ChecksGone
    <3>4. badge'.timer = FALSE /\ badge' \in BadgeType /\ mixed' \in BOOLEAN
      BY <2>5, <3>1, Themed DEF NoBadge, BadgeType
    <3>5. MarkFits(k)'
      BY <2>9, <2>10, <3>3, <3>4 DEF MarkFits
    <3>6. QED
      BY <3>4, <3>5, <2>2, <1>0, <1>1, <1>2, <1>3, <1>4, <1>5 DEF MarksFit
  <2>11. CASE v # "none"
    <3>1. ~Removed(new)
      BY <2>6, <2>11
    <3>2. asks' = Dim(asks \ drop, {}) \cup made
      BY <3>1
    <3>3. Checks' = Checks
      BY <1>6, <3>2, ChecksKept
    <3>4. CASE v = "blank" /\ k = "kubeconfigPaths"
      <4>1. badge' = [validated |-> TRUE, of |-> "blank", timer |-> FALSE]
        BY <2>5, <3>4 DEF Badge
      <4>2. mixed' \in BOOLEAN /\ (mixed' <=> Checks # {})
        <5>1. badge'.validated = TRUE
          BY <4>1
        <5>2. Validating \in BOOLEAN
          BY DEF Validating
        <5>3. mixed' = Validating
          BY <2>5, <3>1, <5>1, <5>2
        <5>4. QED
          BY <2>8, <5>2, <5>3
      <4>3. badge' \in BadgeType /\ badge'.validated = TRUE /\ badge'.of = "blank" /\ badge'.timer = FALSE
        BY <4>1 DEF BadgeType
      <4>4. MarkFits(k)'
        BY <2>7, <2>9, <3>3, <3>4, <4>2, <4>3 DEF MarkFits
      <4>5. QED
        BY <4>2, <4>3, <4>4, <2>2, <1>0, <1>1, <1>2, <1>3, <1>4, <1>5 DEF MarksFit
    <3>5. CASE ~(v = "blank" /\ k = "kubeconfigPaths")
      <4>1. badge' = [validated |-> FALSE, of |-> "nothing", timer |-> TRUE]
        BY <2>5, <2>11, <3>5 DEF Badge
      <4>2. badge' \in BadgeType /\ badge'.validated = FALSE /\ badge'.timer = TRUE
        BY <4>1 DEF BadgeType
      <4>3. mixed' = mixed
        BY <1>6, <2>5, <3>1, <4>2
      <4>4. MarkFits(k)'
        BY <2>7, <2>9, <2>11, <3>3, <4>2, <4>3 DEF MarkFits
      <4>5. QED
        BY <4>2, <4>3, <4>4, <2>2, <1>0, <1>1, <1>2, <1>3, <1>4, <1>5, <1>6 DEF MarksFit
    <3>6. QED
      BY <3>4, <3>5
  <2>12. QED
    BY <2>10, <2>11
<1>9. QED
  BY <1>7, <1>8

-----------------------------------------------------------------------------
\* A call is made, besides those that stay.
Made(drop, ops, op, k, v, l) ==
  /\ unsure' \in SUBSET K
  /\ \E made : /\ asks' = Dim(asks \ drop, ops) \cup {made} /\ IsAsk(made) /\ made.op = op /\ made.key = k
               /\ made.value = v /\ made.live = l /\ made.stage = "asked"
  /\ \A j \in K \ unsure' : (TouchedBy(op, k, j) => \A a \in asks \ drop : ~Touches(a, j)) /\ (~TouchedBy(op, k, j) => j \notin unsure)

LEMMA AskMade ==
  ASSUME AsksWellFormed, K' = K, unsure \subseteq K, store \in Configs(K), NEW drop \in SUBSET asks, NEW ops,
         NEW op, op \in Ops, NEW k, k \in K \cup {"-"}, NEW v, NEW l, l \in BOOLEAN,
         op = "update" => k \in K /\ v \in Choice(k), op = "find" => k \in K \cap AIPaths,
         op = "validate" => v \in {"default", "other"},
         Begin(Dim(asks \ drop, ops), op, k, v, l)
  PROVE  AsksWellFormed' /\ Made(drop, ops, op, k, v, l)
<1>1. \A a \in asks \ drop : IsAsk(a) /\ Carries(a) /\ a.live \in BOOLEAN
  BY DEF AsksWellFormed, Carries
<1>0. PICK others : others = Dim(asks \ drop, ops)
  OBVIOUS
<1>2. /\ Cardinality(others) < MaxAsks
      /\ \E b : /\ asks' = others \cup {b} /\ IsAsk(b) /\ b.op = op /\ b.key = k /\ b.value = v
                /\ b.live = l /\ b.stage = "asked" /\ b.got = DefaultConfig
      /\ unsure' = (unsure \ Touched(op, k)) \cup UNION {Touched(a.op, a.key) \cap Touched(op, k) : a \in others}
  <2>1. Begin(others, op, k, v, l) /\ l \in BOOLEAN
    BY <1>0
  <2>2. QED
    BY <2>1, BeginStep
<1>3. PICK made : /\ asks' = others \cup {made} /\ IsAsk(made) /\ made.op = op /\ made.key = k /\ made.value = v
                  /\ made.live = l /\ made.stage = "asked" /\ made.got = DefaultConfig
  BY <1>2
<1>4. PICK new : new = {made}
  OBVIOUS
<1>5. asks' = Dim(asks \ drop, ops) \cup new
  BY <1>0, <1>3, <1>4
<1>6. PICK S : S = asks \ drop
  OBVIOUS
<1>7. \A x \in others : x.op = "update" => x.key \in K
  <2>1. SUFFICES ASSUME NEW x \in others PROVE x.op = "update" => x.key \in K
    OBVIOUS
  <2>2. PICK a \in S : Same(x, a)
    BY <1>0, <1>1, <1>6, <2>1, DimSet
  <2>3. QED
    BY <1>1, <1>6, <2>2 DEF Same, Carries
<1>8. unsure' \in SUBSET K
  BY <1>2, UnsureTyped
<1>9. AsksWellFormed'
  <2>1. IsFiniteSet(others)
    <3>1. IsFiniteSet(S)
      BY <1>6, FS_Subset DEF AsksWellFormed
    <3>2. QED
      BY <1>0, <1>6, <3>1, DimSize
  <2>2. Cardinality(asks') <= MaxAsks
    <3>1. Cardinality(others \cup {made}) = IF made \in others THEN Cardinality(others) ELSE Cardinality(others) + 1
      BY <2>1, FS_AddElement
    <3>2. Cardinality(others) \in Nat /\ MaxAsks \in Nat
      BY <2>1, FS_CardinalityType, SettingsAssumption
    <3>3. QED
      <4>1. asks' = others \cup {made} /\ Cardinality(others) < MaxAsks
        BY <1>2, <1>3
      <4>2. Cardinality(others \cup {made}) <= MaxAsks
        BY <3>1, <3>2, <4>1
      <4>3. QED
        BY <4>1, <4>2
  <2>3. IsFiniteSet(new)
    BY <1>4, FS_Singleton
  <2>4. DefaultConfig \in Configs(K)
    BY ShownConfigs
  <2>5. \A x \in new : IsAsk(x) /\ Carries(x)
    BY <1>3, <1>4, <2>4 DEF Carries
  <2>6. QED
    BY <1>5, <2>2, <2>3, <2>5, WellFormedKept
<1>10. ASSUME NEW j \in K, j \notin unsure'
       PROVE  /\ TouchedBy(op, k, j) => \A a \in asks \ drop : ~Touches(a, j)
              /\ ~TouchedBy(op, k, j) => j \notin unsure
  <2>1. /\ TouchedBy(op, k, j) => \A x \in others : ~Touches(x, j)
        /\ ~TouchedBy(op, k, j) => j \notin unsure
    BY <1>2, <1>7, <1>10, InDoubt
  <2>2. ASSUME TouchedBy(op, k, j), NEW a \in S PROVE ~Touches(a, j)
    <3>0. \A b \in S : IsAsk(b) /\ b.live \in BOOLEAN
      BY <1>1, <1>6
    <3>1. PICK x \in others : Same(x, a)
      BY <1>0, <1>6, <2>2, <3>0, DimSet
    <3>2. QED
      BY <2>1, <2>2, <3>1 DEF Touches, Same
  <2>3. QED
    BY <1>6, <2>1, <2>2
<1>11. QED
  BY <1>0, <1>3, <1>8, <1>9, <1>10 DEF Made

\* A control changes a setting, and a call saves it.
LEMMA ChangeKeeps ==
  ASSUME SettingsInv, NEW k \in K, NEW v \in Choice(k), NEW drawn \in Choice("theme"), NEW b \in SUBSET Busy,
         NEW drop \in SUBSET asks, ChangeSetting(k, v, drawn, asks \ drop, b), UNCHANGED <<onDisk, section, listed>>,
         drawn = uiTheme \/ (k = "theme" /\ drawn = v),
         \A a \in drop : a.op = "find",
         \A f \in b : f \in spinning /\ \A a \in drop : a.op = f => ~a.live
  PROVE  SettingsInv'
<1>1. PICK new : new = [store EXCEPT ![k] = v]
  OBVIOUS
<1>2. Settle(new, loaded, drawn, b) /\ Begin(Remaining(asks \ drop, new), "update", k, v, TRUE)
  BY <1>1 DEF ChangeSetting
<1>3. /\ new \in Configs(K) /\ new[k] = v /\ (\A j \in K : j # k => new[j] = store[j]) /\ loaded \in BOOLEAN
      /\ AsksWellFormed /\ store \in Configs(K) /\ onDisk \in Configs(K) /\ unsure \subseteq K
  BY <1>1, SetConfig DEF SettingsInv, Types
<1>4. PICK ops : ops = IF Removed(new) THEN {"validate"} ELSE {}
  OBVIOUS
<1>5. PICK others : others = Dim(asks \ drop, ops)
  OBVIOUS
<1>6. Remaining(asks \ drop, new) = others
  <2>1. \A a \in asks \ drop : IsAsk(a) /\ a.live \in BOOLEAN
    BY <1>3 DEF AsksWellFormed, Carries
  <2>2. QED
    BY <1>4, <1>5, <2>1, RemainingIsDim
<1>7. PICK op \in Ops : op = "update"
  BY DEF Ops
<1>8. PICK yes \in BOOLEAN : yes = TRUE
  OBVIOUS
<1>9. Begin(Dim(asks \ drop, ops), op, k, v, yes)
  BY <1>2, <1>5, <1>6, <1>7, <1>8
<1>10. store' = new /\ K' = K
  BY <1>2, <1>3, SetConfig DEF Settle, K
<1>11. AsksWellFormed' /\ Made(drop, ops, op, k, v, yes)
  <2>1. /\ k \in K \cup {"-"} /\ (op = "update" => k \in K /\ v \in Choice(k)) /\ (op = "find" => k \in K \cap AIPaths)
         /\ (op = "validate" => v \in {"default", "other"})
    BY <1>7
  <2>2. AsksWellFormed /\ K' = K /\ unsure \subseteq K /\ store \in Configs(K) /\ op \in Ops /\ yes \in BOOLEAN
    BY <1>3, <1>10
  <2>3. QED
    BY <1>9, <2>1, <2>2, AskMade
<1>12. PICK made : /\ asks' = Dim(asks \ drop, ops) \cup {made} /\ made.op = "update" /\ made.key = k
                   /\ made.value = v /\ made.stage = "asked"
  BY <1>7, <1>11 DEF Made
<1>13. PICK new1 : new1 = {made}
  OBVIOUS
<1>14. asks' = Dim(asks \ drop, ops) \cup new1
  BY <1>12, <1>13
<1>15. /\ loaded' = loaded /\ uiTheme' \in Choice("theme")
       /\ cycled' \in BOOLEAN /\ mixed' \in BOOLEAN /\ badge' \in BadgeType
       /\ spinning' \in SUBSET Busy /\ spinning' = IF Removed(new) THEN b \ {"validate"} ELSE b
       /\ ThemeShown' /\ MarksFit'
  <2>1. \A a \in drop \cup new1 : ~Check(a)
    BY <1>12, <1>13 DEF Check
  <2>2. drawn = uiTheme \/ drawn = ThemeOf(new)
    BY <1>3 DEF ThemeOf
  <2>3. asks' = Dim(asks \ drop, IF Removed(new) THEN {"validate"} ELSE {}) \cup new1
    BY <1>4, <1>14
  <2>4. section' = section
    OBVIOUS
  <2>5. QED
    <3>1. new \in Configs(K) /\ loaded \in BOOLEAN /\ Settle(new, loaded, drawn, b)
      BY <1>2, <1>3
    <3>2. PICK isLoaded \in BOOLEAN : isLoaded = loaded
      BY <3>1
    <3>3. Settle(new, isLoaded, drawn, b)
      BY <3>1, <3>2
    <3>4. QED
      BY <3>1, <3>2, <3>3, <2>1, <2>2, <2>3, <2>4, SettleParts
<1>16. Types'
  BY <1>3, <1>10, <1>11, <1>15 DEF Types, SettingsInv, BadgeType, Made
<1>17. Agreement'
  <2>1. SUFFICES ASSUME NEW j \in K, j \notin unsure' PROVE Settled(j)'
    BY <1>10 DEF Agreement
  <2>2. CASE j = k
    <3>1. \A a \in asks \ drop : ~Touches(a, k)
      BY <1>7, <1>11, <2>1, <2>2 DEF TouchedBy, Made
    <3>2. Touches(made, k) /\ Promises(made, k)'
      BY <1>3, <1>10, <1>12 DEF Touches, TouchedBy, Promises
    <3>3. (\A x, y \in new1 : x = y) /\ (\A x \in new1 : Touches(x, k) /\ Promises(x, k)') /\ made \in new1
      BY <1>13, <3>2
    <3>4. Settled(k)'
      BY <1>3, <1>14, <3>1, <3>3, BecomesSettled
    <3>5. QED
      BY <2>2, <3>4
  <2>3. CASE j # k
    <3>1. ~TouchedBy(op, k, j)
      BY <1>7, <2>3 DEF TouchedBy
    <3>2. j \notin unsure
      BY <1>11, <2>1, <3>1 DEF Made
    <3>3. Settled(j) /\ ~Touches(made, j) /\ \A a \in drop : ~Touches(a, j)
      BY <1>7, <1>12, <3>1, <3>2 DEF Touches, TouchedBy, SettingsInv, Agreement
    <3>4. Agrees(j) => Agrees(j)'
      BY <1>3, <1>10, <2>3 DEF Agrees, ConfigToState
    <3>5. store'[j] = store[j] /\ onDisk'[j] = onDisk[j] /\ \A x \in new1 : ~Touches(x, j)
      BY <1>3, <1>10, <1>13, <2>3, <3>3
    <3>6. QED
      BY <1>3, <1>14, <3>3, <3>4, <3>5, StaysSettled
  <2>4. QED
    BY <2>2, <2>3
<1>18. BusyHasCall'
  <2>1. \A f \in spinning' : StillBusy(f, drop, ops, new1)
    BY <1>4, <1>15 DEF StillBusy
  <2>2. QED
    BY <1>14, <2>1, BusyKept DEF SettingsInv
<1>19. QED
  BY <1>11, <1>15, <1>16, <1>17, <1>18 DEF SettingsInv

\* Besides the calls, only spinners move: the settings and the mark stand.
LEMMA StandStill ==
  ASSUME SettingsInv, UNCHANGED <<store, loaded, onDisk, uiTheme, cycled>>
  PROVE  K' = K /\ ThemeShown'
  BY DEF SettingsInv, ThemeShown, ThemeOf, K

\* A call is made that changes nothing yet; one that has been answered may go for it.
Asking(op, k, l, drop) ==
  /\ op \in Ops \ {"update", "validate"} /\ k \in K \cup {"-"} /\ l \in BOOLEAN
  /\ op = "find" => k \in K \cap AIPaths
  /\ \A a \in drop : a.op = "contexts" \/ (a.op \in {"reset", "import"} /\ op \in {"load", "reread"})
  /\ UNCHANGED <<store, loaded, onDisk, section, badge, uiTheme, mixed, cycled>> /\ listed' \in BOOLEAN
  /\ spinning' \in SUBSET Busy /\ \A f \in spinning' : f \in spinning \/ (f = op /\ l)

LEMMA AskKeeps ==
  ASSUME SettingsInv, NEW op, NEW k, NEW v, NEW l, NEW drop \in SUBSET asks,
         Asking(op, k, l, drop), Begin(asks \ drop, op, k, v, l)
  PROVE  SettingsInv'
<1> USE DEF Asking
<1>1. /\ AsksWellFormed /\ store \in Configs(K) /\ unsure \subseteq K
      /\ \A a \in asks : IsAsk(a) /\ a.live \in BOOLEAN
  BY DEF SettingsInv, Types, AsksWellFormed, Carries
<1>2. K' = K /\ ThemeShown'
  BY StandStill
<1>3. Dim(asks \ drop, {}) = asks \ drop
  <2>1. \A a \in asks \ drop : IsAsk(a) /\ a.live \in BOOLEAN
    BY <1>1
  <2>2. QED
    BY <2>1, DimNothing
<1>4. Begin(Dim(asks \ drop, {}), op, k, v, l)
  BY <1>3
<1>5. AsksWellFormed' /\ Made(drop, {}, op, k, v, l)
  <2>1. op \in Ops /\ (op = "update" => k \in K /\ v \in Choice(k))
    OBVIOUS
  <2>2. QED
    BY <1>1, <1>2, <1>4, <2>1, AskMade
<1>6. PICK made : /\ asks' = Dim(asks \ drop, {}) \cup {made} /\ made.op = op /\ made.key = k
                  /\ made.live = l /\ made.stage = "asked"
  BY <1>5 DEF Made
<1>7. PICK new : new = {made}
  OBVIOUS
<1>8. asks' = Dim(asks \ drop, {}) \cup new
  BY <1>6, <1>7
<1>9. Types'
  BY <1>2, <1>5 DEF Types, SettingsInv, Made
<1>10. Agreement'
  <2>1. SUFFICES ASSUME NEW j \in K, j \notin unsure' PROVE Settled(j)'
    BY <1>2 DEF Agreement
  <2>2. CASE TouchedBy(op, k, j)
    <3>1. \A a \in asks \ drop : ~Touches(a, j)
      BY <1>5, <2>1, <2>2 DEF Made
    <3>2. Touches(made, j) /\ Promises(made, j)'
      BY <1>6, <2>2 DEF Touches, Promises
    <3>3. (\A x, y \in new : x = y) /\ (\A x \in new : Touches(x, j) /\ Promises(x, j)') /\ made \in new
      BY <1>7, <3>2
    <3>4. QED
      BY <1>1, <1>8, <3>1, <3>3, BecomesSettled
  <2>3. CASE ~TouchedBy(op, k, j)
    <3>1. j \notin unsure
      BY <1>5, <2>1, <2>3 DEF Made
    <3>2. Settled(j) /\ (\A x \in new : ~Touches(x, j)) /\ \A a \in drop : ~Touches(a, j)
      BY <1>6, <1>7, <2>3, <3>1 DEF Touches, TouchedBy, SettingsInv, Agreement
    <3>3. store'[j] = store[j] /\ onDisk'[j] = onDisk[j] /\ (Agrees(j) => Agrees(j)')
      BY <1>2 DEF Agrees, ConfigToState
    <3>4. QED
      BY <1>1, <1>8, <3>2, <3>3, StaysSettled
  <2>4. QED
    BY <2>2, <2>3
<1>11. MarksFit'
  <2>1. \A a \in drop \cup new : ~Check(a)
    BY <1>6, <1>7 DEF Check
  <2>2. Checks' = Checks
    BY <1>1, <1>8, <2>1, ChecksKept
  <2>3. QED
    BY <1>2, <2>2, MarksStay DEF SettingsInv
<1>12. BusyHasCall'
  <2>1. \A a \in drop : a.op \notin spinning
    BY DEF SettingsInv, Types, Busy
  <2>2. \A f \in spinning' : StillBusy(f, drop, {}, new)
    BY <1>6, <1>7, <2>1 DEF StillBusy
  <2>3. QED
    BY <1>1, <1>8, <2>2, BusyKept DEF SettingsInv
<1>13. QED
  BY <1>2, <1>5, <1>9, <1>10, <1>11, <1>12 DEF SettingsInv

\* An answer that changes no setting; it may mark a path as one whose search failed.
LEMMA EndKeeps ==
  ASSUME SettingsInv, NEW a \in asks, ~Check(a), asks' = asks \ {a},
         UNCHANGED <<store, loaded, onDisk, section, uiTheme, unsure, mixed, cycled>>, listed' \in BOOLEAN,
         UNCHANGED badge \/ badge' = [badge EXCEPT !.validated = TRUE, !.of = "search"],
         \A k \in K \ unsure : Touches(a, k) => Agrees(k),
         spinning' \in SUBSET Busy, \A f \in spinning' : f \in spinning /\ (a.op = f => ~a.live)
  PROVE  SettingsInv'
<1>1. AsksWellFormed /\ \A x \in asks : IsAsk(x) /\ x.live \in BOOLEAN
  BY DEF SettingsInv, AsksWellFormed, Carries
<1>2. K' = K /\ ThemeShown'
  BY StandStill
<1>3. PICK drop \in SUBSET asks : drop = {a}
  OBVIOUS
<1>4. Dim(asks \ drop, {}) = asks \ drop
  <2>1. \A x \in asks \ drop : IsAsk(x) /\ x.live \in BOOLEAN
    BY <1>1
  <2>2. QED
    BY <2>1, DimNothing
<1>5. PICK new : new = {}
  OBVIOUS
<1>6. asks' = Dim(asks \ drop, {}) \cup new
  BY <1>3, <1>4, <1>5
<1>7. Types'
  BY <1>2 DEF Types, SettingsInv
<1>8. AsksWellFormed'
  <2>1. IsFiniteSet(asks \ {a}) /\ Cardinality(asks \ {a}) <= Cardinality(asks)
    BY <1>1, FS_Subset DEF AsksWellFormed
  <2>2. Cardinality(asks \ {a}) \in Nat /\ Cardinality(asks) \in Nat /\ MaxAsks \in Nat
    BY <1>1, <2>1, FS_CardinalityType, SettingsAssumption DEF AsksWellFormed
  <2>3. Cardinality(asks \ {a}) <= MaxAsks
    BY <1>1, <2>1, <2>2 DEF AsksWellFormed
  <2>4. Cardinality(asks') <= MaxAsks
    BY <2>3
  <2>5. IsFiniteSet(new) /\ \A x \in new : IsAsk(x) /\ Carries(x)
    BY <1>5, FS_EmptySet
  <2>6. QED
    BY <1>1, <1>2, <1>6, <2>4, <2>5, WellFormedKept
<1>9. Agreement'
  <2>1. SUFFICES ASSUME NEW j \in K, j \notin unsure PROVE Settled(j)'
    BY <1>2 DEF Agreement
  <2>2. Settled(j) /\ (\A x \in new : ~Touches(x, j)) /\ \A x \in drop : Touches(x, j) => Agrees(j)
    BY <1>3, <1>5, <2>1 DEF SettingsInv, Agreement
  <2>3. store'[j] = store[j] /\ onDisk'[j] = onDisk[j] /\ (Agrees(j) => Agrees(j)')
    BY <1>2 DEF Agrees, ConfigToState
  <2>4. QED
    BY <1>1, <1>6, <2>2, <2>3, StaysSettled
<1>10. MarksFit'
  <2>1. \A x \in drop \cup new : ~Check(x)
    BY <1>3, <1>5
  <2>2. Checks' = Checks
    BY <1>1, <1>6, <2>1, ChecksKept
  <2>3. CASE UNCHANGED badge
    BY <1>2, <2>2, <2>3, MarksStay DEF SettingsInv
  <2>4. CASE badge' = [badge EXCEPT !.validated = TRUE, !.of = "search"]
    <3>1. badge'.validated = TRUE /\ badge'.of = "search" /\ badge'.timer = badge.timer
      BY <2>4 DEF SettingsInv, Types
    <3>2. InputOf(section)' = InputOf(section)
      BY <1>2 DEF InputOf
    <3>3. SUFFICES ASSUME NEW k \in InputOf(section) PROVE MarkFits(k)'
      BY <3>2 DEF MarksFit
    <3>4. MarkFits(k) /\ UNCHANGED <<store, mixed>>
      BY DEF SettingsInv, MarksFit
    <3>5. QED
      BY <2>2, <3>1, <3>4 DEF MarkFits
  <2>5. QED
    BY <2>3, <2>4
<1>11. BusyHasCall'
  <2>1. \A f \in spinning' : StillBusy(f, drop, {}, new)
    BY <1>3 DEF StillBusy
  <2>2. QED
    BY <1>1, <1>6, <2>1, BusyKept DEF SettingsInv
<1>12. QED
  BY <1>2, <1>7, <1>8, <1>9, <1>10, <1>11 DEF SettingsInv

\* The settings are read.
LEMMA ReadKeeps ==
  ASSUME SettingsInv, NEW a \in asks, a.op \in {"load", "reread"}, NEW new, NEW isLoaded, isLoaded \in BOOLEAN,
         \/ a.stage = "done" /\ new = ConfigToState(a.got)
         \/ a.stage = "refused" /\ new = store,
         Settle(new, isLoaded, uiTheme, spinning), asks' = Remaining(asks \ {a}, new),
         UNCHANGED <<onDisk, section, listed, unsure>>
  PROVE  SettingsInv'
<1>1. /\ AsksWellFormed /\ store \in Configs(K) /\ onDisk \in Configs(K) /\ unsure \subseteq K
      /\ a.got \in Configs(K) /\ uiTheme \in Choice("theme") /\ spinning \in SUBSET Busy
      /\ \A x \in asks : IsAsk(x) /\ x.live \in BOOLEAN
  BY DEF SettingsInv, Types, AsksWellFormed, Carries
<1>2. new \in Configs(K)
  BY <1>1, ShownConfigs
<1>3. PICK ops : ops = IF Removed(new) THEN {"validate"} ELSE {}
  OBVIOUS
<1>4. PICK drop \in SUBSET asks : drop = {a}
  OBVIOUS
<1>5. PICK none : none = {}
  OBVIOUS
<1>6. asks' = Dim(asks \ drop, ops) \cup none
  <2>1. \A x \in asks \ drop : IsAsk(x) /\ x.live \in BOOLEAN
    BY <1>1
  <2>2. Remaining(asks \ drop, new) = Dim(asks \ drop, IF Removed(new) THEN {"validate"} ELSE {})
    BY <2>1, RemainingIsDim
  <2>3. QED
    BY <1>3, <1>4, <1>5, <2>2
<1>7. /\ K' = K /\ store' = new /\ loaded' = isLoaded /\ uiTheme' \in Choice("theme")
      /\ cycled' \in BOOLEAN /\ mixed' \in BOOLEAN /\ badge' \in BadgeType
      /\ spinning' \in SUBSET Busy /\ spinning' = IF Removed(new) THEN spinning \ {"validate"} ELSE spinning
      /\ ThemeShown' /\ MarksFit'
  <2>1. PICK drawn \in Choice("theme") : drawn = uiTheme
    BY <1>1
  <2>2. PICK b \in SUBSET Busy : b = spinning
    BY <1>1
  <2>3. Settle(new, isLoaded, drawn, b)
    BY <2>1, <2>2
  <2>4. \A x \in drop \cup none : ~Check(x)
    BY <1>4, <1>5 DEF Check
  <2>5. asks' = Dim(asks \ drop, IF Removed(new) THEN {"validate"} ELSE {}) \cup none
    BY <1>3, <1>6
  <2>6. section' = section
    OBVIOUS
  <2>7. QED
    BY <1>2, <2>1, <2>2, <2>3, <2>4, <2>5, <2>6, SettleParts
<1>8. Types'
  BY <1>2, <1>7 DEF Types, SettingsInv, BadgeType
<1>9. AsksWellFormed'
  <2>1. IsFiniteSet(asks \ drop) /\ Cardinality(asks \ drop) <= Cardinality(asks)
    BY <1>1, FS_Subset DEF AsksWellFormed
  <2>2. IsFiniteSet(Dim(asks \ drop, ops)) /\ Cardinality(Dim(asks \ drop, ops)) <= Cardinality(asks \ drop)
    BY <2>1, DimSize
  <2>3. asks' = Dim(asks \ drop, ops)
    BY <1>5, <1>6
  <2>4. /\ Cardinality(asks \ drop) \in Nat /\ Cardinality(asks) \in Nat /\ MaxAsks \in Nat
        /\ Cardinality(Dim(asks \ drop, ops)) \in Nat
    BY <1>1, <2>1, <2>2, FS_CardinalityType, SettingsAssumption DEF AsksWellFormed
  <2>5. Cardinality(Dim(asks \ drop, ops)) <= MaxAsks
    BY <1>1, <2>1, <2>2, <2>4 DEF AsksWellFormed
  <2>6. Cardinality(asks') <= MaxAsks
    BY <2>3, <2>5
  <2>7. IsFiniteSet(none) /\ \A x \in none : IsAsk(x) /\ Carries(x)
    BY <1>5, FS_EmptySet
  <2>8. QED
    BY <1>1, <1>6, <1>7, <2>6, <2>7, WellFormedKept
<1>10. Agreement'
  <2>1. SUFFICES ASSUME NEW j \in K, j \notin unsure PROVE Settled(j)'
    BY <1>7 DEF Agreement
  <2>2. Touches(a, j)
    BY DEF Touches, TouchedBy
  <2>3. Settled(j)
    BY <2>1 DEF SettingsInv, Agreement
  <2>4. a.stage = "done" /\ a.got[j] = onDisk[j]
    BY <2>2, <2>3 DEF Settled, Promises
  <2>5. store'[j] = ConfigToState(onDisk)[j]
    BY <1>7, <2>4 DEF ConfigToState
  <2>6. Agrees(j)'
    BY <1>7, <2>5 DEF Agrees, ConfigToState
  <2>7. \A x \in asks \ drop : ~Touches(x, j)
    BY <1>4, <2>2, <2>3 DEF Settled
  <2>8. (\A x, y \in none : x = y) /\ (\A x \in none : Touches(x, j) => Promises(x, j)')
    BY <1>5
  <2>9. QED
    BY <1>1, <1>6, <2>6, <2>7, <2>8, BecomesSettled
<1>11. BusyHasCall'
  <2>1. \A f \in spinning' : StillBusy(f, drop, ops, none)
    BY <1>3, <1>4, <1>7 DEF StillBusy, Busy
  <2>2. QED
    BY <1>1, <1>6, <2>1, BusyKept DEF SettingsInv
<1>12. QED
  BY <1>7, <1>8, <1>9, <1>10, <1>11 DEF SettingsInv

-----------------------------------------------------------------------------
LEMMA EditKeeps ==
  ASSUME SettingsInv, NEW k \in K, NEW v \in Choice(k), NEW drawn \in Choice("theme"),
         ChangeSetting(k, v, drawn, asks, spinning), UNCHANGED <<onDisk, section, listed>>,
         drawn = uiTheme \/ (k = "theme" /\ drawn = v)
  PROVE  SettingsInv'
<1>1. PICK drop \in SUBSET asks : drop = {}
  OBVIOUS
<1>2. PICK b \in SUBSET Busy : b = spinning
  BY DEF SettingsInv, Types
<1>3. ChangeSetting(k, v, drawn, asks \ drop, b)
  <2>1. asks \ drop = asks
    BY <1>1
  <2>2. QED
    BY <1>2, <2>1
<1>4. (\A a \in drop : a.op = "find") /\ \A f \in b : f \in spinning /\ \A a \in drop : a.op = f => ~a.live
  BY <1>1, <1>2
<1>5. QED
  BY <1>3, <1>4, ChangeKeeps

LEMMA NextThemeIs == ASSUME uiTheme \in Choice("theme") PROVE NextTheme \in Choice("theme")
<1>1. Choice("theme") = {Themes[i] : i \in DOMAIN Themes}
  BY DEF Choice, AIPaths, Tuning
<1>2. DOMAIN Themes = 1..5 /\ Len(Themes) = 5
  BY DEF Themes
<1>3. PICK i : i = CHOOSE j \in DOMAIN Themes : Themes[j] = uiTheme
  OBVIOUS
<1>4. i \in 1..5
  BY <1>1, <1>2, <1>3
<1>5. (i % 5) + 1 \in 1..5
  BY <1>4
<1>6. NextTheme = Themes[(i % 5) + 1]
  BY <1>2, <1>3 DEF NextTheme
<1>7. QED
  BY <1>1, <1>2, <1>5, <1>6

LEMMA ControlsKeep ==
  ASSUME SettingsInv,
         \/ \E k \in K : \E v \in Choice(k) : Edit(k, v)
         \/ \E v \in Choice("theme") : HandleThemeChange(v)
         \/ HandleToggle
  PROVE  SettingsInv'
<1>1. ASSUME NEW k \in K, NEW v \in Choice(k), Edit(k, v) PROVE SettingsInv'
  <2>1. PICK drawn \in Choice("theme") : drawn = uiTheme
    BY DEF SettingsInv, Types
  <2>2. ChangeSetting(k, v, drawn, asks, spinning) /\ UNCHANGED <<onDisk, section, listed>>
    BY <1>1, <2>1 DEF Edit
  <2>3. QED
    BY <2>1, <2>2, EditKeeps
<1>2. ASSUME NEW v \in Choice("theme"), HandleThemeChange(v) PROVE SettingsInv'
  <2>1. PICK drawn \in Choice("theme") : drawn = IF v # "system" THEN v ELSE uiTheme
    BY DEF SettingsInv, Types
  <2>2. PICK k \in K : k = "theme"
    BY <1>2 DEF HandleThemeChange
  <2>3. ChangeSetting(k, v, drawn, asks, spinning) /\ UNCHANGED <<onDisk, section, listed>> /\ v \in Choice(k)
    BY <1>2, <2>1, <2>2 DEF HandleThemeChange
  <2>4. drawn = uiTheme \/ (k = "theme" /\ drawn = v)
    BY <2>1, <2>2
  <2>5. QED
    BY <2>3, <2>4, EditKeeps
<1>3. ASSUME HandleToggle PROVE SettingsInv'
  <2>1. PICK v \in Choice("theme") : v = NextTheme
    BY NextThemeIs DEF SettingsInv, Types
  <2>2. PICK k \in K : k = "theme"
    BY <1>3 DEF HandleToggle
  <2>3. ChangeSetting(k, v, v, asks, spinning) /\ UNCHANGED <<onDisk, section, listed>> /\ v \in Choice(k)
    BY <1>3, <2>1, <2>2 DEF HandleToggle
  <2>4. QED
    BY <2>2, <2>3, EditKeeps
<1>4. QED
  BY <1>1, <1>2, <1>3

LEMMA DetectedKeeps == ASSUME SettingsInv, NEW a \in asks, Detected(a) PROVE SettingsInv'
<1>1. AsksWellFormed /\ a.op = "find" /\ IsAsk(a) /\ Carries(a) /\ ~Check(a) /\ spinning \in SUBSET Busy
  BY DEF SettingsInv, Types, AsksWellFormed, Check, Detected
<1>2. PICK b \in SUBSET Busy : b = IF a.live THEN spinning \ {"find"} ELSE spinning
  BY <1>1
<1>3. ASSUME NEW v \in {"default", "other"}, ChangeSetting(a.key, v, uiTheme, Rest(a), b), UNCHANGED <<onDisk, section, listed>>
      PROVE  SettingsInv'
  <2>1. PICK drop \in SUBSET asks : drop = {a}
    OBVIOUS
  <2>2. PICK drawn \in Choice("theme") : drawn = uiTheme
    BY DEF SettingsInv, Types
  <2>3. PICK k \in K : k = a.key /\ k \in AIPaths
    BY <1>1 DEF Carries
  <2>4. v \in Choice(k)
    BY <2>3 DEF Choice, AIPaths
  <2>5. ChangeSetting(k, v, drawn, asks \ drop, b)
    <3>1. Rest(a) = asks \ drop
      BY <2>1 DEF Rest
    <3>2. QED
      BY <1>3, <2>2, <2>3, <3>1
  <2>6. (\A x \in drop : x.op = "find") /\ \A f \in b : f \in spinning /\ \A x \in drop : x.op = f => ~x.live
    BY <1>1, <1>2, <2>1
  <2>7. QED
    BY <1>3, <2>2, <2>4, <2>5, <2>6, ChangeKeeps
<1>4. ASSUME asks' = Rest(a), spinning' = b,
             UNCHANGED badge \/ badge' = [badge EXCEPT !.validated = TRUE, !.of = "search"],
             UNCHANGED <<store, loaded, onDisk, section, uiTheme, listed, unsure, mixed, cycled>>
      PROVE  SettingsInv'
  <2>1. asks' = asks \ {a} /\ \A k \in K \ unsure : ~Touches(a, k)
    BY <1>1, <1>4 DEF Rest, Touches, TouchedBy
  <2>2. spinning' \in SUBSET Busy /\ \A f \in spinning' : f \in spinning /\ (a.op = f => ~a.live)
    BY <1>1, <1>2, <1>4
  <2>3. listed' \in BOOLEAN
    BY <1>4 DEF SettingsInv, Types
  <2>4. QED
    BY <1>1, <1>4, <2>1, <2>2, <2>3, EndKeeps
<1>5. QED
  BY <1>2, <1>3, <1>4 DEF Detected

LEMMA CycleKeeps == ASSUME SettingsInv, CycleTheme PROVE SettingsInv'
<1>1. NextTheme \in Choice("theme") /\ uiTheme' = NextTheme /\ cycled' = TRUE
  BY NextThemeIs DEF SettingsInv, Types, CycleTheme
<1>2. UNCHANGED <<store, loaded, onDisk, section, badge, spinning, listed, asks, unsure, mixed>> /\ K' = K
  BY DEF CycleTheme, K
<1>3. Types' /\ ThemeShown' /\ BusyHasCall'
  BY <1>1, <1>2 DEF SettingsInv, Types, ThemeShown, BusyHasCall
<1>4. AsksWellFormed'
  BY <1>2 DEF SettingsInv, AsksWellFormed, Carries
<1>5. Agreement'
  <2>1. SUFFICES ASSUME NEW j \in K, j \notin unsure PROVE Settled(j)'
    BY <1>2 DEF Agreement
  <2>2. Settled(j)
    BY <2>1 DEF SettingsInv, Agreement
  <2>3. QED
    BY <1>2, <2>2 DEF Settled, Promises, Agrees, ConfigToState
<1>6. Checks' = Checks
  BY <1>2 DEF Checks
<1>7. MarksFit'
  BY <1>2, <1>6, MarksStay DEF SettingsInv
<1>8. QED
  BY <1>3, <1>4, <1>5, <1>7 DEF SettingsInv

LEMMA CallsFit ==
  ASSUME SettingsInv, NEW drop, drop \in SUBSET asks, NEW ops, asks' = Dim(asks \ drop, ops), K' = K
  PROVE  AsksWellFormed'
<1>1. IsFiniteSet(asks) /\ Cardinality(asks) <= MaxAsks /\ AsksWellFormed
  BY DEF SettingsInv, AsksWellFormed
<1>2. IsFiniteSet(asks \ drop) /\ Cardinality(asks \ drop) <= Cardinality(asks)
  BY <1>1, FS_Subset
<1>3. IsFiniteSet(Dim(asks \ drop, ops)) /\ Cardinality(Dim(asks \ drop, ops)) <= Cardinality(asks \ drop)
  BY <1>2, DimSize
<1>4. /\ Cardinality(asks \ drop) \in Nat /\ Cardinality(asks) \in Nat /\ MaxAsks \in Nat
      /\ Cardinality(Dim(asks \ drop, ops)) \in Nat
  BY <1>1, <1>2, <1>3, FS_CardinalityType, SettingsAssumption
<1>5. Cardinality(asks') <= MaxAsks
  <2>1. Cardinality(Dim(asks \ drop, ops)) <= MaxAsks
    BY <1>1, <1>2, <1>3, <1>4
  <2>2. QED
    BY <2>1
<1>6. PICK none : none = {}
  OBVIOUS
<1>7. asks' = Dim(asks \ drop, ops) \cup none /\ IsFiniteSet(none) /\ \A x \in none : IsAsk(x) /\ Carries(x)
  BY <1>6, FS_EmptySet
<1>8. QED
  BY <1>1, <1>5, <1>7, WellFormedKept

\* Another section is shown, or another page.
LEMMA ShowKeeps == ASSUME SettingsInv, NEW s \in DOMAIN KeysOf, Show(s) PROVE SettingsInv'
<1>1. /\ AsksWellFormed /\ store \in Configs(K) /\ unsure \subseteq K
      /\ \A a \in asks : IsAsk(a) /\ a.live \in BOOLEAN /\ a.op \in Ops
  BY DEF SettingsInv, Types, AsksWellFormed, Carries
<1>2. /\ section' = s /\ spinning' = {} /\ mixed' = FALSE /\ UNCHANGED <<store, loaded, onDisk, uiTheme, listed, cycled>>
      /\ badge' = IF InputOf(s) = {} THEN NoBadge ELSE LET k == CHOOSE i \in InputOf(s) : TRUE IN Badge(k, store[k])
  BY DEF Show
<1>3. K' = K /\ ThemeShown'
  BY <1>2, StandStill
<1>4. PICK drop \in SUBSET asks : drop = {}
  OBVIOUS
<1>5. PICK rest : rest = {[a EXCEPT !.live = FALSE] : a \in asks}
  OBVIOUS
<1>6. rest = Dim(asks \ drop, Ops)
  <2>1. \A a \in asks : [a EXCEPT !.live = FALSE] = Dimmed(a, Ops)
    <3>1. SUFFICES ASSUME NEW a \in asks PROVE [a EXCEPT !.live = FALSE] = Dimmed(a, Ops)
      OBVIOUS
    <3>2. (a.live /\ a.op \notin Ops) = FALSE
      BY <1>1
    <3>3. QED
      BY <3>2 DEF Dimmed
  <2>2. \A x : x \in rest <=> x \in Dim(asks, Ops)
    BY <1>5, <2>1, Zenon DEF Dim
  <2>3. asks \ drop = asks
    BY <1>4
  <2>4. QED
    BY <2>2, <2>3
<1>7. \E new : /\ asks' = Dim(asks \ drop, Ops) \cup new /\ AsksWellFormed' /\ unsure' \in SUBSET K
               /\ \A b \in new : b.op = "contexts"
               /\ \A j \in K : j \notin unsure' => j \notin unsure
  <2>1. CASE s = "clusters"
    <3>1. Begin(rest, "contexts", "-", "-", TRUE)
      BY <1>5, <2>1 DEF Show
    <3>2. PICK op \in Ops : op = "contexts"
      BY DEF Ops
    <3>3. PICK none \in K \cup {"-"} : none = "-"
      OBVIOUS
    <3>4. PICK yes \in BOOLEAN : yes = TRUE
      OBVIOUS
    <3>5. Begin(Dim(asks \ drop, Ops), op, none, none, yes)
      BY <1>6, <3>1, <3>2, <3>3, <3>4
    <3>6. op # "update" /\ op # "find" /\ op # "validate"
      BY <3>2
    <3>7. AsksWellFormed' /\ Made(drop, Ops, op, none, none, yes)
      BY <1>1, <1>3, <3>5, <3>6, AskMade
    <3>8. PICK made : asks' = Dim(asks \ drop, Ops) \cup {made} /\ made.op = "contexts"
      BY <3>2, <3>7 DEF Made
    <3>9. \A j \in K : ~TouchedBy(op, none, j)
      BY <3>2 DEF TouchedBy
    <3>10. unsure' \in SUBSET K /\ \A j \in K : j \notin unsure' => j \notin unsure
      BY <3>7, <3>9 DEF Made
    <3>11. PICK new : new = {made}
      OBVIOUS
    <3>12. asks' = Dim(asks \ drop, Ops) \cup new /\ \A b \in new : b.op = "contexts"
      BY <3>8, <3>11
    <3>13. QED
      BY <3>7, <3>10, <3>12
  <2>2. CASE s # "clusters"
    <3>1. asks' = Dim(asks \ drop, Ops) /\ unsure' = unsure
      BY <1>5, <1>6, <2>2 DEF Show
    <3>2. AsksWellFormed'
      BY <1>3, <3>1, CallsFit
    <3>3. PICK new : new = {}
      OBVIOUS
    <3>4. asks' = Dim(asks \ drop, Ops) \cup new /\ \A b \in new : b.op = "contexts"
      BY <3>1, <3>3
    <3>5. QED
      BY <1>1, <3>1, <3>2, <3>4
  <2>3. QED
    BY <2>1, <2>2
<1>8. PICK new : /\ asks' = Dim(asks \ drop, Ops) \cup new /\ AsksWellFormed' /\ unsure' \in SUBSET K
                 /\ \A b \in new : b.op = "contexts"
                 /\ \A j \in K : j \notin unsure' => j \notin unsure
  BY <1>7
<1>9. Checks' = {}
  <2>1. (\A a \in new : ~Check(a)) /\ "validate" \in Ops
    BY <1>8 DEF Check, Ops
  <2>2. QED
    BY <1>1, <1>8, <2>1, ChecksGone
<1>10. InputOf(section)' = InputOf(s)
  BY <1>2, <1>3 DEF InputOf
<1>11. badge' \in BadgeType /\ MarksFit'
  <2>1. CASE InputOf(s) = {}
    BY <1>2, <1>10, <2>1, Themed DEF MarksFit
  <2>2. CASE InputOf(s) # {}
    <3>1. PICK k \in InputOf(s) : k = CHOOSE i \in InputOf(s) : TRUE
      BY <2>2
    <3>2. badge' = Badge(k, store[k])
      BY <1>2, <2>2, <3>1
    <3>3. \A i \in InputOf(s) : i = k
      <4>1. K' \in Tracked /\ section' \in DOMAIN KeysOf /\ InputOf(s) = InputOf(section)'
        BY <1>2, <1>3, <1>10 DEF SettingsInv, Types
      <4>2. CASE s = "kubeconfig"
        BY <4>2 DEF InputOf, KeysOf, Kubeconfig, PathInput, AIPaths
      <4>3. CASE s = "ai"
        <5>1. \A i \in InputOf(s) : i \in K \cap AIPaths
          BY <4>3 DEF InputOf, KeysOf, Providers, PathInput, AIPaths
        <5>2. QED
          BY <1>3, <4>1, <5>1, SettingsAssumption DEF AIPaths
      <4>4. QED
        BY <4>2, <4>3 DEF InputOf
    <3>4. CASE store[k] = "none"
      <4>1. badge' = NoBadge
        BY <3>2, <3>4 DEF Badge
      <4>2. badge' \in BadgeType /\ badge'.timer = FALSE
        BY <4>1, Themed DEF NoBadge
      <4>3. MarkFits(k)'
        BY <1>2, <1>9, <3>4, <4>2 DEF MarkFits
      <4>4. QED
        BY <1>10, <3>3, <4>2, <4>3 DEF MarksFit
    <3>5. CASE store[k] = "blank" /\ k = "kubeconfigPaths"
      <4>1. badge' = [validated |-> TRUE, of |-> "blank", timer |-> FALSE]
        BY <3>2, <3>5 DEF Badge
      <4>2. badge' \in BadgeType /\ badge'.validated = TRUE /\ badge'.of = "blank" /\ badge'.timer = FALSE
        BY <4>1 DEF BadgeType
      <4>3. MarkFits(k)'
        BY <1>2, <1>9, <3>5, <4>2 DEF MarkFits
      <4>4. QED
        BY <1>10, <3>3, <4>2, <4>3 DEF MarksFit
    <3>6. CASE store[k] # "none" /\ ~(store[k] = "blank" /\ k = "kubeconfigPaths")
      <4>1. badge' = [validated |-> FALSE, of |-> "nothing", timer |-> TRUE]
        BY <3>2, <3>6 DEF Badge
      <4>2. badge' \in BadgeType /\ badge'.validated = FALSE /\ badge'.timer = TRUE
        BY <4>1 DEF BadgeType
      <4>3. MarkFits(k)'
        BY <1>2, <1>9, <3>6, <4>2 DEF MarkFits
      <4>4. QED
        BY <1>10, <3>3, <4>2, <4>3 DEF MarksFit
    <3>7. QED
      BY <3>4, <3>5, <3>6
  <2>3. QED
    BY <2>1, <2>2
<1>12. Types'
  BY <1>2, <1>3, <1>8, <1>11 DEF Types, SettingsInv, BadgeType
<1>13. Agreement'
  <2>1. SUFFICES ASSUME NEW j \in K, j \notin unsure' PROVE Settled(j)'
    BY <1>3 DEF Agreement
  <2>2. Settled(j) /\ (\A x \in new : ~Touches(x, j)) /\ \A a \in drop : ~Touches(a, j)
    BY <1>4, <1>8, <2>1 DEF Touches, TouchedBy, SettingsInv, Agreement
  <2>3. store'[j] = store[j] /\ onDisk'[j] = onDisk[j] /\ (Agrees(j) => Agrees(j)')
    BY <1>2, <1>3 DEF Agrees, ConfigToState
  <2>4. QED
    BY <1>1, <1>8, <2>2, <2>3, StaysSettled
<1>14. BusyHasCall'
  BY <1>2 DEF BusyHasCall
<1>15. QED
  BY <1>3, <1>8, <1>11, <1>12, <1>13, <1>14 DEF SettingsInv

LEMMA ButtonsKeep ==
  ASSUME SettingsInv,
         \/ HandleCheckUpdate \/ HandleAutoDetect \/ HandleConnect \/ HandleImport \/ Recheck \/ ResetAll
  PROVE  SettingsInv'
<1>1. ASSUME NEW flag, NEW op, op \in Ops \ {"update", "validate"}, NEW k, k \in K \cup {"-"},
             op = "find" => k \in K \cap AIPaths, PressButton(flag, op, k)
      PROVE  SettingsInv'
  <2>1. PICK drop \in SUBSET asks : drop = {}
    OBVIOUS
  <2>2. PICK yes \in BOOLEAN : yes = TRUE
    OBVIOUS
  <2>3. PICK v : v = "-"
    OBVIOUS
  <2>4. Begin(asks \ drop, op, k, v, yes)
    <3>1. asks \ drop = asks
      BY <2>1
    <3>2. QED
      BY <1>1, <2>2, <2>3, <3>1 DEF PressButton
  <2>5. /\ UNCHANGED <<store, loaded, onDisk, section, badge, uiTheme, mixed, cycled>> /\ listed' \in BOOLEAN
        /\ spinning' \in SUBSET Busy /\ \A f \in spinning' : f \in spinning \/ (f = op /\ yes)
    BY <1>1, <2>2 DEF PressButton, SettingsInv, Types
  <2>6. \A a \in drop : a.op = "contexts" \/ (a.op \in {"reset", "import"} /\ op \in {"load", "reread"})
    BY <2>1
  <2>7. Asking(op, k, yes, drop)
    BY <1>1, <2>5, <2>6 DEF Asking
  <2>8. QED
    BY <2>4, <2>7, AskKeeps
<1>2. CASE HandleCheckUpdate
  BY <1>1, <1>2 DEF HandleCheckUpdate, Ops
<1>3. CASE HandleAutoDetect
  <2>1. PICK k \in K \cap AIPaths : PressButton("find", "find", k)
    BY <1>3 DEF HandleAutoDetect
  <2>2. QED
    BY <1>1, <2>1 DEF Ops
<1>4. CASE HandleConnect
  BY <1>1, <1>4 DEF HandleConnect, Ops
<1>5. CASE HandleImport
  BY <1>1, <1>5 DEF HandleImport, Ops
<1>6. CASE Recheck
  <2>1. CASE listed
    BY <1>1, <1>6, <2>1 DEF Recheck, Ops
  <2>2. CASE ~listed
    BY <1>1, <1>6, <2>2 DEF Recheck, Ops
  <2>3. QED
    BY <2>1, <2>2
<1>7. CASE ResetAll
  BY <1>1, <1>7 DEF ResetAll, Ops
<1>8. QED
  BY <1>2, <1>3, <1>4, <1>5, <1>6, <1>7

\* The timer of a path has run out.
LEMMA ValidateKeeps == ASSUME SettingsInv, Validate PROVE SettingsInv'
<1>1. /\ AsksWellFormed /\ store \in Configs(K) /\ unsure \subseteq K /\ badge \in BadgeType
      /\ \A a \in asks : IsAsk(a) /\ a.live \in BOOLEAN
  BY DEF SettingsInv, Types, AsksWellFormed, Carries, BadgeType
<1>2. /\ badge.timer /\ mixed' = Validating
      /\ UNCHANGED <<store, loaded, onDisk, section, uiTheme, listed, cycled>>
  BY DEF Validate
<1>3. K' = K /\ ThemeShown' /\ InputOf(section)' = InputOf(section)
  BY <1>2, StandStill DEF InputOf
<1>4. PICK k \in InputOf(section) :
       IF store[k] = "blank"
       THEN /\ badge' = [validated |-> TRUE, of |-> "blank", timer |-> FALSE]
            /\ UNCHANGED <<asks, unsure, spinning>>
       ELSE /\ badge' = [badge EXCEPT !.timer = FALSE]
            /\ spinning' = spinning \cup {"validate"}
            /\ Begin(asks, "validate", k, store[k], TRUE)
  BY DEF Validate
<1>5. \A i \in InputOf(section) : i = k
  BY OneInput DEF SettingsInv, Types
<1>6. MarkFits(k) /\ store[k] # "none" /\ k \in K /\ k \in PathInput
  BY <1>2 DEF SettingsInv, MarksFit, MarkFits, InputOf
<1>7. mixed' \in BOOLEAN /\ (mixed' <=> Checks # {})
  <2>1. Validating \in BOOLEAN /\ (Validating <=> Checks # {})
    BY DEF Validating, Checks, Check
  <2>2. QED
    BY <1>2, <2>1
<1>8. CASE store[k] = "blank"
  <2>1. badge' = [validated |-> TRUE, of |-> "blank", timer |-> FALSE] /\ UNCHANGED <<asks, unsure, spinning>>
    BY <1>4, <1>8
  <2>2. badge' \in BadgeType /\ badge'.validated = TRUE /\ badge'.of = "blank" /\ badge'.timer = FALSE
    BY <2>1 DEF BadgeType
  <2>3. Types' /\ BusyHasCall'
    BY <1>2, <1>3, <1>7, <2>1, <2>2 DEF SettingsInv, Types, BadgeType, BusyHasCall
  <2>4. AsksWellFormed'
    BY <1>1, <1>3, <2>1 DEF AsksWellFormed, Carries
  <2>5. Agreement'
    <3>1. SUFFICES ASSUME NEW j \in K, j \notin unsure PROVE Settled(j)'
      BY <1>3, <2>1 DEF Agreement
    <3>2. Settled(j)
      BY <3>1 DEF SettingsInv, Agreement
    <3>3. QED
      BY <1>2, <1>3, <2>1, <3>2 DEF Settled, Promises, Agrees, ConfigToState
  <2>6. Checks' = Checks
    BY <2>1 DEF Checks
  <2>7. MarkFits(k)'
    BY <1>2, <1>6, <1>7, <1>8, <2>2, <2>6 DEF MarkFits
  <2>8. QED
    BY <1>3, <1>5, <2>3, <2>4, <2>5, <2>7 DEF SettingsInv, MarksFit
<1>9. CASE store[k] # "blank"
  <2>1. /\ badge' = [badge EXCEPT !.timer = FALSE] /\ spinning' = spinning \cup {"validate"}
        /\ Begin(asks, "validate", k, store[k], TRUE)
    BY <1>4, <1>9
  <2>2. badge' \in BadgeType /\ badge'.validated = badge.validated /\ badge'.timer = FALSE
    BY <1>1, <2>1 DEF BadgeType
  <2>3. PICK v : v = store[k]
    OBVIOUS
  <2>4. v \in {"default", "other"}
    <3>1. store[k] \in Choice(k)
      BY <1>1, <1>6, SetConfig
    <3>2. k \in AIPaths \/ k = "kubeconfigPaths"
      BY <1>6 DEF PathInput
    <3>3. k # "theme" /\ (k # "kubeconfigPaths" => k \in AIPaths \cup {"terminalTheme"})
      BY <3>2 DEF AIPaths
    <3>4. v \in Choice(k) => v \in {"default", "other", "blank", "none"}
      BY <3>3 DEF Choice, AIPaths, Tuning
    <3>5. QED
      BY <1>6, <1>9, <2>3, <3>1, <3>4
  <2>5. PICK drop \in SUBSET asks : drop = {}
    OBVIOUS
  <2>6. PICK op \in Ops : op = "validate"
    BY DEF Ops
  <2>7. PICK yes \in BOOLEAN : yes = TRUE
    OBVIOUS
  <2>8. Dim(asks \ drop, {}) = asks
    <3>1. asks \ drop = asks
      BY <2>5
    <3>2. QED
      BY <1>1, <3>1, DimNothing
  <2>9. AsksWellFormed' /\ Made(drop, {}, op, k, v, yes)
    <3>1. Begin(Dim(asks \ drop, {}), op, k, v, yes)
      BY <2>1, <2>3, <2>6, <2>7, <2>8
    <3>2. op # "update" /\ op # "find" /\ k \in K \cup {"-"}
      BY <1>6, <2>6
    <3>3. QED
      BY <1>1, <1>3, <2>4, <3>1, <3>2, AskMade
  <2>10. PICK made : /\ asks' = Dim(asks \ drop, {}) \cup {made} /\ made.op = "validate" /\ made.value = v
                     /\ made.live = TRUE
    BY <2>6, <2>7, <2>9 DEF Made
  <2>11. PICK new : new = {made}
    OBVIOUS
  <2>12. asks' = Dim(asks \ drop, {}) \cup new /\ asks' = asks \cup {made}
    BY <2>8, <2>10, <2>11
  <2>13. Checks' = Checks \cup {made}
    BY <2>10, <2>12 DEF Checks, Check
  <2>14. Types'
    BY <1>2, <1>3, <1>7, <2>1, <2>2, <2>9 DEF SettingsInv, Types, BadgeType, Made, Busy
  <2>15. Agreement'
    <3>1. SUFFICES ASSUME NEW j \in K, j \notin unsure' PROVE Settled(j)'
      BY <1>3 DEF Agreement
    <3>2. j \notin unsure
      BY <2>6, <2>9, <3>1 DEF Made, TouchedBy
    <3>3. Settled(j) /\ (\A x \in new : ~Touches(x, j)) /\ \A a \in drop : ~Touches(a, j)
      BY <2>5, <2>10, <2>11, <3>1, <3>2 DEF Touches, TouchedBy, SettingsInv, Agreement
    <3>4. store'[j] = store[j] /\ onDisk'[j] = onDisk[j] /\ (Agrees(j) => Agrees(j)')
      BY <1>2, <1>3 DEF Agrees, ConfigToState
    <3>5. QED
      BY <1>1, <2>12, <3>3, <3>4, StaysSettled
  <2>16. MarkFits(k)'
    BY <1>2, <1>6, <1>7, <2>2, <2>3, <2>4, <2>10, <2>13 DEF MarkFits
  <2>17. BusyHasCall'
    <3>1. \A f \in spinning' : StillBusy(f, drop, {}, new)
      BY <2>1, <2>5, <2>10, <2>11 DEF StillBusy
    <3>2. QED
      BY <1>1, <2>12, <3>1, BusyKept DEF SettingsInv
  <2>18. QED
    BY <1>3, <1>5, <2>9, <2>14, <2>15, <2>16, <2>17 DEF SettingsInv, MarksFit
<1>10. QED
  BY <1>8, <1>9

\* The handler serves a call.
LEMMA AskServed == ASSUME SettingsInv, NEW a \in asks, ServeAsk(a) PROVE SettingsInv'
<1>1. /\ AsksWellFormed /\ store \in Configs(K) /\ onDisk \in Configs(K) /\ unsure \subseteq K /\ a.stage = "asked"
      /\ IsAsk(a) /\ Carries(a) /\ \A x \in asks : IsAsk(x) /\ x.live \in BOOLEAN
  BY DEF SettingsInv, Types, AsksWellFormed, Carries, ServeAsk
<1>2. UNCHANGED <<store, loaded, section, badge, spinning, uiTheme, listed, mixed, cycled>>
  BY DEF ServeAsk
<1>3. K' = K /\ ThemeShown'
  BY <1>2 DEF SettingsInv, ThemeShown, ThemeOf, K
<1>4. PICK ok \in BOOLEAN, c \in Configs(K) :
       /\ onDisk' = CASE ok /\ a.op = "update" -> [onDisk EXCEPT ![a.key] = a.value]
                      [] ok /\ a.op = "import" -> c
                      [] ok /\ a.op = "reset"  -> DefaultConfig
                      [] OTHER -> IF ~ok /\ a.op = "import" /\ c = DefaultConfig THEN c ELSE onDisk
       /\ asks' = (asks \ {a}) \cup
            {[a EXCEPT !.stage = IF ok THEN "done" ELSE "refused", !.got = IF a.op \in {"load", "reread"} THEN onDisk ELSE @]}
       /\ unsure' = IF ok THEN unsure ELSE unsure \cup Touched(a.op, a.key)
  BY DEF ServeAsk
<1>5. PICK got : got = IF a.op \in {"load", "reread"} THEN onDisk ELSE a.got
  OBVIOUS
<1>6. PICK stage : stage = IF ok THEN "done" ELSE "refused"
  OBVIOUS
<1>7. PICK served : served = [a EXCEPT !.stage = stage, !.got = got]
  OBVIOUS
<1>8. /\ IsAsk(served) /\ served.op = a.op /\ served.key = a.key /\ served.value = a.value /\ served.live = a.live
      /\ served.stage = stage /\ served.got = got
  BY <1>1, <1>7 DEF IsAsk
<1>9. Carries(served)
  BY <1>1, <1>5, <1>6, <1>8 DEF Carries
<1>10. PICK drop \in SUBSET asks : drop = {a}
  OBVIOUS
<1>11. PICK new : new = {served}
  OBVIOUS
<1>12. asks' = (asks \ {a}) \cup {served}
  BY <1>4, <1>5, <1>6, <1>7
<1>13. asks' = Dim(asks \ drop, {}) \cup new
  <2>1. \A x \in asks \ drop : IsAsk(x) /\ x.live \in BOOLEAN
    BY <1>1
  <2>2. Dim(asks \ drop, {}) = asks \ drop
    BY <2>1, DimNothing
  <2>3. QED
    BY <1>10, <1>11, <1>12, <2>2
<1>14. AsksWellFormed'
  <2>1. IsFiniteSet(asks) /\ Cardinality(asks) <= MaxAsks
    BY <1>1 DEF AsksWellFormed
  <2>2. IsFiniteSet(asks \ {a}) /\ Cardinality(asks \ {a}) = Cardinality(asks) - 1
    BY <2>1, FS_RemoveElement
  <2>3. Cardinality((asks \ {a}) \cup {served})
          = IF served \in asks \ {a} THEN Cardinality(asks \ {a}) ELSE Cardinality(asks \ {a}) + 1
    BY <2>2, FS_AddElement
  <2>4. Cardinality(asks \ {a}) \in Nat /\ Cardinality(asks) \in Nat /\ MaxAsks \in Nat
    BY <2>1, <2>2, FS_CardinalityType, SettingsAssumption
  <2>5. Cardinality((asks \ {a}) \cup {served}) <= MaxAsks
    BY <2>1, <2>2, <2>3, <2>4
  <2>6. Cardinality(asks') <= MaxAsks
    BY <1>12, <2>5
  <2>7. IsFiniteSet(new) /\ \A x \in new : IsAsk(x) /\ Carries(x)
    BY <1>8, <1>9, <1>11, FS_Singleton
  <2>8. QED
    BY <1>1, <1>3, <1>13, <2>6, <2>7, WellFormedKept
<1>15. onDisk' \in Configs(K)
  <2>1. DefaultConfig \in Configs(K)
    BY ShownConfigs, <1>1
  <2>2. a.op = "update" => [onDisk EXCEPT ![a.key] = a.value] \in Configs(K)
    BY <1>1, SetConfig DEF Carries
  <2>3. QED
    BY <1>1, <1>4, <2>1, <2>2
<1>16. unsure' \in SUBSET K
  <2>1. Touched(a.op, a.key) \subseteq K
    BY <1>1 DEF Touched, Carries
  <2>2. QED
    BY <1>1, <1>4, <2>1
<1>17. Types'
  BY <1>2, <1>3, <1>15, <1>16 DEF SettingsInv, Types
<1>18. Agreement'
  <2>1. SUFFICES ASSUME NEW j \in K, j \notin unsure' PROVE Settled(j)'
    BY <1>3 DEF Agreement
  <2>2. Settled(j)
    BY <1>4, <2>1 DEF SettingsInv, Agreement
  <2>3. Touches(a, j) => ok
    <3>1. SUFFICES ASSUME Touches(a, j), ~ok PROVE FALSE
      OBVIOUS
    <3>2. j \notin Touched(a.op, a.key)
      BY <1>4, <2>1, <3>1
    <3>3. a.op = "update" => a.key \in K
      BY <1>1 DEF Carries
    <3>4. QED
      BY <3>1, <3>2, <3>3, TouchedIs DEF Touches
  <2>4. CASE Touches(a, j)
    <3>1. \A x \in asks \ drop : ~Touches(x, j)
      BY <1>10, <2>2, <2>4 DEF Settled
    <3>2. Promises(a, j) /\ stage = "done"
      BY <1>6, <2>2, <2>3, <2>4 DEF Settled
    <3>3. Promises(served, j)'
      <4>1. a.op = "update" => onDisk'[j] = store'[j]
        <5>1. SUFFICES ASSUME a.op = "update" PROVE onDisk'[j] = store'[j]
          OBVIOUS
        <5>2. a.key = j /\ store[j] = a.value
          BY <1>1, <2>4, <3>2, <5>1 DEF Touches, TouchedBy, Promises
        <5>3. onDisk' = [onDisk EXCEPT ![j] = a.value]
          BY <1>4, <2>3, <2>4, <5>1, <5>2
        <5>4. onDisk'[j] = a.value
          BY <1>1, <5>3, SetConfig
        <5>5. QED
          BY <1>2, <5>2, <5>4
      <4>2. a.op \in {"load", "reread"} => onDisk' = onDisk
        BY <1>4
      <4>3. QED
        BY <1>5, <1>8, <3>2, <4>1, <4>2 DEF Promises, Agrees
    <3>4. (\A x, y \in new : x = y) /\ (\A x \in new : Touches(x, j) /\ Promises(x, j)') /\ served \in new
      BY <1>8, <1>11, <2>4, <3>3 DEF Touches
    <3>5. QED
      BY <1>1, <1>13, <3>1, <3>4, BecomesSettled
  <2>5. CASE ~Touches(a, j)
    <3>1. onDisk'[j] = onDisk[j]
      <4>1. a.op \notin {"import", "reset"} /\ (a.op = "update" => a.key # j)
        BY <2>5 DEF Touches, TouchedBy
      <4>2. CASE ok /\ a.op = "update"
        <5>1. onDisk' = [onDisk EXCEPT ![a.key] = a.value]
          BY <1>4, <4>2
        <5>2. a.key # j
          BY <4>1, <4>2
        <5>3. QED
          BY <1>1, <5>1, <5>2, SetConfig
      <4>3. CASE ~(ok /\ a.op = "update")
        BY <1>4, <4>1, <4>3
      <4>4. QED
        BY <4>2, <4>3
    <3>2. store'[j] = store[j] /\ (Agrees(j) => Agrees(j)')
      BY <1>2, <1>3, <3>1 DEF Agrees, ConfigToState
    <3>3. (\A x \in new : ~Touches(x, j)) /\ \A x \in drop : ~Touches(x, j)
      BY <1>8, <1>10, <1>11, <2>5 DEF Touches
    <3>4. QED
      BY <1>1, <1>13, <2>2, <3>1, <3>2, <3>3, StaysSettled
  <2>6. QED
    BY <2>4, <2>5
<1>19. MarksFit'
  <2>1. CASE ~Check(a)
    <3>1. \A x \in drop \cup new : ~Check(x)
      BY <1>8, <1>10, <1>11, <2>1 DEF Check
    <3>2. Checks' = Checks
      BY <1>1, <1>13, <3>1, ChecksKept
    <3>3. QED
      BY <1>2, <1>3, <3>2, MarksStay DEF SettingsInv
  <2>2. CASE Check(a)
    <3>1. Checks' = (Checks \ {a}) \cup {served} /\ a \in Checks
      BY <1>8, <1>12, <2>2 DEF Checks, Check
    <3>2. SUFFICES ASSUME NEW k \in InputOf(section) PROVE MarkFits(k)'
      BY <1>2, <1>3 DEF MarksFit, InputOf
    <3>3. MarkFits(k)
      BY DEF SettingsInv, MarksFit
    <3>4. QED
      BY <1>2, <1>8, <3>1, <3>3 DEF MarkFits
  <2>3. QED
    BY <2>1, <2>2
<1>20. BusyHasCall'
  <2>1. \A f \in spinning' : StillBusy(f, drop, {}, new)
    BY <1>2, <1>8, <1>10, <1>11 DEF StillBusy
  <2>2. QED
    BY <1>1, <1>13, <2>1, BusyKept DEF SettingsInv
<1>21. QED
  BY <1>3, <1>14, <1>17, <1>18, <1>19, <1>20 DEF SettingsInv

\* An answer of the handler reaches the window.
LEMMA ReplyKeeps == ASSUME SettingsInv, NEW a \in asks, Reply(a) PROVE SettingsInv'
<1>1. /\ AsksWellFormed /\ unsure \subseteq K /\ IsAsk(a) /\ Carries(a) /\ spinning \in SUBSET Busy
      /\ listed \in BOOLEAN /\ badge \in BadgeType /\ loaded \in BOOLEAN
      /\ a.stage # "asked" /\ a.stage \in {"done", "refused"}
      /\ \A x \in asks : IsAsk(x) /\ x.live \in BOOLEAN
  BY DEF SettingsInv, Types, AsksWellFormed, Carries, Reply, BadgeType
<1>2. \A k \in K \ unsure : Touches(a, k) => a.stage = "done" /\ (a.op = "update" => Agrees(k))
  <2>1. SUFFICES ASSUME NEW k \in K, k \notin unsure, Touches(a, k) PROVE a.stage = "done" /\ (a.op = "update" => Agrees(k))
    BY <1>1
  <2>2. Promises(a, k)
    BY <2>1 DEF SettingsInv, Agreement, Settled
  <2>3. QED
    BY <1>1, <2>2 DEF Promises
<1>3. ASSUME Replied(a) PROVE SettingsInv'
  <2>1. asks' = asks \ {a} /\ listed' \in BOOLEAN /\ ~Check(a)
        /\ UNCHANGED <<store, loaded, onDisk, section, badge, uiTheme, unsure, mixed, cycled>>
    BY <1>1, <1>3 DEF Replied, Rest, Check
  <2>2. \A k \in K \ unsure : Touches(a, k) => Agrees(k)
    BY <1>2, <1>3 DEF Replied, Touches, TouchedBy
  <2>3. spinning' \in SUBSET Busy /\ \A f \in spinning' : f \in spinning /\ (a.op = f => ~a.live)
    BY <1>1, <1>3 DEF Replied
  <2>4. QED
    BY <2>1, <2>2, <2>3, EndKeeps
<1>4. ASSUME LoadSettings(a) PROVE SettingsInv'
  <2>1. PICK new : new = IF a.stage = "done" THEN ConfigToState(a.got) ELSE store
    OBVIOUS
  <2>2. PICK yes \in BOOLEAN : yes = TRUE
    OBVIOUS
  <2>3. Settle(new, yes, uiTheme, spinning)
    BY <1>4, <2>1, <2>2 DEF LoadSettings
  <2>4. asks' = Remaining(asks \ {a}, new) /\ UNCHANGED <<onDisk, section, listed, unsure>> /\ a.op \in {"load", "reread"}
    BY <1>4, <2>1 DEF LoadSettings, Rest
  <2>5. \/ a.stage = "done" /\ new = ConfigToState(a.got)
        \/ a.stage = "refused" /\ new = store
    BY <1>1, <2>1
  <2>6. QED
    BY <2>3, <2>4, <2>5, ReadKeeps
<1>5. ASSUME HasReset(a) PROVE SettingsInv'
  <2>1. PICK new : new = ConfigToState(a.got)
    OBVIOUS
  <2>2. PICK isLoaded \in BOOLEAN : isLoaded = loaded
    BY <1>1
  <2>3. Settle(new, isLoaded, uiTheme, spinning)
    BY <1>5, <2>1, <2>2 DEF HasReset
  <2>4. asks' = Remaining(asks \ {a}, new) /\ UNCHANGED <<onDisk, section, listed, unsure>> /\ a.op \in {"load", "reread"}
    BY <1>5, <2>1 DEF HasReset, Rest
  <2>5. a.stage = "done" /\ new = ConfigToState(a.got)
    BY <1>5, <2>1 DEF HasReset
  <2>6. QED
    BY <2>3, <2>4, <2>5, ReadKeeps
<1>6. ASSUME NEW op, op \in Ops \ {"update", "validate", "find"}, NEW l, l \in BOOLEAN,
             \/ a.op = "contexts"
             \/ a.op \in {"reset", "import"} /\ op \in {"load", "reread"},
             Begin(Rest(a), op, "-", "-", l), listed' \in BOOLEAN,
             UNCHANGED <<store, loaded, onDisk, section, badge, uiTheme, mixed, cycled>>,
             spinning' \in SUBSET Busy, \A f \in spinning' : f \in spinning \/ (f = op /\ l)
      PROVE  SettingsInv'
  <2>1. PICK drop \in SUBSET asks : drop = {a}
    OBVIOUS
  <2>2. PICK none \in K \cup {"-"} : none = "-"
    OBVIOUS
  <2>3. PICK v : v = "-"
    OBVIOUS
  <2>0. PICK yes \in BOOLEAN : yes = l
    BY <1>6
  <2>4. Begin(asks \ drop, op, none, v, yes)
    BY <1>6, <2>0, <2>1, <2>2, <2>3 DEF Rest
  <2>5. op \in Ops \ {"update", "validate"} /\ (op = "find" => none \in K \cap AIPaths) /\ none \in K \cup {"-"}
    BY <1>6, <2>2
  <2>6. \A x \in drop : x.op = "contexts" \/ (x.op \in {"reset", "import"} /\ op \in {"load", "reread"})
    BY <1>6, <2>1
  <2>7. /\ UNCHANGED <<store, loaded, onDisk, section, badge, uiTheme, mixed, cycled>> /\ listed' \in BOOLEAN
        /\ spinning' \in SUBSET Busy /\ \A f \in spinning' : f \in spinning \/ (f = op /\ yes)
    BY <1>6, <2>0
  <2>8. Asking(op, none, yes, drop)
    BY <2>5, <2>6, <2>7 DEF Asking
  <2>9. QED
    BY <2>4, <2>8, AskKeeps
<1>7. ASSUME Reread(a) PROVE SettingsInv'
  <2>1. PICK op : op = IF a.op = "reset" THEN "reread" ELSE "load"
    OBVIOUS
  <2>2. PICK yes \in BOOLEAN : yes = TRUE
    OBVIOUS
  <2>3. Begin(Rest(a), op, "-", "-", yes)
    BY <1>7, <2>1, <2>2 DEF Reread
  <2>4. /\ op \in Ops \ {"update", "validate", "find"} /\ a.op \in {"reset", "import"} /\ op \in {"load", "reread"}
        /\ UNCHANGED <<store, loaded, onDisk, section, badge, uiTheme, mixed, cycled>> /\ listed' \in BOOLEAN
        /\ spinning' \in SUBSET Busy /\ \A f \in spinning' : f \in spinning \/ (f = op /\ yes)
    BY <1>1, <1>7, <2>1 DEF Reread, Ops
  <2>5. QED
    BY <1>6, <2>3, <2>4
<1>8. ASSUME Contexts(a) PROVE SettingsInv'
  <2>1. /\ a.op = "contexts" /\ listed' \in BOOLEAN /\ a.live \in BOOLEAN
        /\ UNCHANGED <<store, loaded, onDisk, section, badge, uiTheme, mixed, cycled>>
    BY <1>1, <1>8 DEF Contexts
  <2>2. CASE listed'
    <3>1. Begin(Rest(a), "preflight", "-", "-", a.live) /\ spinning' = IF a.live THEN spinning \cup {"preflight"} ELSE spinning
      BY <1>8, <2>2 DEF Contexts
    <3>2. PICK op \in Ops \ {"update", "validate", "find"} : op = "preflight"
      BY DEF Ops
    <3>3. PICK l \in BOOLEAN : l = a.live
      BY <2>1
    <3>4. Begin(Rest(a), op, "-", "-", l)
      BY <3>1, <3>2, <3>3
    <3>5. spinning' \in SUBSET Busy /\ \A f \in spinning' : f \in spinning \/ (f = op /\ l)
      BY <1>1, <3>1, <3>2, <3>3 DEF Busy
    <3>6. QED
      BY <1>6, <2>1, <3>4, <3>5
  <2>3. CASE ~listed'
    <3>1. asks' = asks \ {a} /\ UNCHANGED <<unsure, spinning>>
      BY <1>8, <2>3 DEF Contexts, Rest
    <3>2. ~Check(a) /\ \A k \in K \ unsure : ~Touches(a, k)
      BY <2>1 DEF Check, Touches, TouchedBy
    <3>3. spinning' \in SUBSET Busy /\ \A f \in spinning' : f \in spinning /\ (a.op = f => ~a.live)
      BY <1>1, <2>1, <3>1 DEF Busy
    <3>4. QED
      BY <2>1, <3>1, <3>2, <3>3, EndKeeps
  <2>4. QED
    BY <2>2, <2>3
<1>9. ASSUME Verdict(a) PROVE SettingsInv'
  <2>1. /\ a.op = "validate" /\ asks' = asks \ {a}
        /\ badge' = IF a.live THEN [badge EXCEPT !.validated = TRUE, !.of = a.value] ELSE badge
        /\ spinning' = IF a.live THEN spinning \ {"validate"} ELSE spinning
        /\ UNCHANGED <<store, loaded, onDisk, section, uiTheme, listed, unsure, mixed, cycled>>
    BY <1>9 DEF Verdict, Rest
  <2>2. \A k \in K \ unsure : ~Touches(a, k)
    BY <2>1 DEF Touches, TouchedBy
  <2>3. CASE ~a.live
    <3>1. ~Check(a) /\ badge' = badge /\ spinning' = spinning /\ listed' \in BOOLEAN
      BY <1>1, <2>1, <2>3 DEF Check
    <3>2. spinning' \in SUBSET Busy /\ \A f \in spinning' : f \in spinning /\ (a.op = f => ~a.live)
      BY <1>1, <2>3, <3>1
    <3>3. QED
      BY <2>1, <2>2, <3>1, <3>2, EndKeeps
  <2>4. CASE a.live
    <3>1. badge' = [badge EXCEPT !.validated = TRUE, !.of = a.value] /\ spinning' = spinning \ {"validate"}
      BY <2>1, <2>4
    <3>2. badge' \in BadgeType /\ badge'.validated = TRUE /\ badge'.of = a.value /\ badge'.timer = badge.timer
      BY <1>1, <2>1, <3>1 DEF BadgeType, Carries
    <3>3. K' = K /\ ThemeShown'
      BY <2>1, StandStill
    <3>4. PICK drop \in SUBSET asks : drop = {a}
      OBVIOUS
    <3>5. PICK new : new = {}
      OBVIOUS
    <3>6. asks' = Dim(asks \ drop, {}) /\ asks' = Dim(asks \ drop, {}) \cup new
      <4>1. \A x \in asks \ drop : IsAsk(x) /\ x.live \in BOOLEAN
        BY <1>1
      <4>2. Dim(asks \ drop, {}) = asks \ drop
        BY <4>1, DimNothing
      <4>3. QED
        BY <2>1, <3>4, <3>5, <4>2
    <3>7. AsksWellFormed'
      BY <3>3, <3>6, CallsFit
    <3>8. Types'
      BY <1>1, <2>1, <3>1, <3>2, <3>3 DEF SettingsInv, Types, BadgeType
    <3>9. Agreement'
      <4>1. SUFFICES ASSUME NEW j \in K, j \notin unsure PROVE Settled(j)'
        BY <2>1, <3>3 DEF Agreement
      <4>2. Settled(j) /\ (\A x \in new : ~Touches(x, j)) /\ \A x \in drop : ~Touches(x, j)
        BY <2>2, <3>4, <3>5, <4>1 DEF SettingsInv, Agreement
      <4>3. store'[j] = store[j] /\ onDisk'[j] = onDisk[j] /\ (Agrees(j) => Agrees(j)')
        BY <2>1, <3>3 DEF Agrees, ConfigToState
      <4>4. QED
        BY <1>1, <3>6, <4>2, <4>3, StaysSettled
    <3>10. MarksFit'
      <4>1. Checks' = Checks \ {a} /\ a \in Checks
        BY <2>1, <2>4 DEF Checks, Check
      <4>2. SUFFICES ASSUME NEW k \in InputOf(section) PROVE MarkFits(k)'
        BY <2>1, <3>3 DEF MarksFit, InputOf
      <4>3. MarkFits(k)
        BY DEF SettingsInv, MarksFit
      <4>4. QED
        BY <2>1, <3>2, <4>1, <4>3 DEF MarkFits
    <3>11. BusyHasCall'
      <4>1. \A f \in spinning' : StillBusy(f, drop, {}, new)
        BY <2>1, <3>1, <3>4 DEF StillBusy
      <4>2. QED
        BY <1>1, <3>6, <4>1, BusyKept DEF SettingsInv
    <3>12. QED
      BY <3>3, <3>7, <3>8, <3>9, <3>10, <3>11 DEF SettingsInv
  <2>5. QED
    BY <2>3, <2>4
<1>10. ASSUME Detected(a) PROVE SettingsInv'
  BY <1>10, DetectedKeeps
<1>11. QED
  BY <1>3, <1>4, <1>5, <1>7, <1>8, <1>9, <1>10 DEF Reply

LEMMA OpensAgain == ASSUME SettingsInv, OpenAgain PROVE SettingsInv'
<1>1. AsksWellFormed /\ store \in Configs(K) /\ unsure \subseteq K /\ DefaultConfig \in Configs(K)
  BY ShownConfigs DEF SettingsInv, Types
<1>2. /\ store' = DefaultConfig /\ loaded' = FALSE /\ section' = "away" /\ badge' = NoBadge
      /\ spinning' = {} /\ listed' = FALSE /\ mixed' = FALSE /\ cycled' = FALSE
      /\ UNCHANGED <<onDisk, uiTheme>> /\ Begin({}, "load", "-", "-", TRUE)
  BY DEF OpenAgain
<1>3. K' = K
  BY <1>1, <1>2, SetConfig DEF K
<1>4. PICK drop \in SUBSET asks : drop = asks
  OBVIOUS
<1>5. PICK op \in Ops : op = "load"
  BY DEF Ops
<1>6. PICK none \in K \cup {"-"} : none = "-"
  OBVIOUS
<1>7. PICK yes \in BOOLEAN : yes = TRUE
  OBVIOUS
<1>8. AsksWellFormed' /\ Made(drop, {}, op, none, none, yes)
  <2>1. Dim(asks \ drop, {}) = {}
    BY <1>4 DEF Dim
  <2>2. Begin(Dim(asks \ drop, {}), op, none, none, yes)
    BY <1>2, <1>5, <1>6, <1>7, <2>1
  <2>3. op # "update" /\ op # "find" /\ op # "validate"
    BY <1>5
  <2>4. QED
    BY <1>1, <1>3, <2>2, <2>3, AskMade
<1>9. PICK made : asks' = Dim(asks \ drop, {}) \cup {made} /\ made.op = "load" /\ made.stage = "asked"
  BY <1>5, <1>8 DEF Made
<1>10. PICK new : new = {made}
  OBVIOUS
<1>11. Types'
  <2>1. section' \in DOMAIN KeysOf /\ badge' \in BadgeType
    BY <1>2, Themed DEF KeysOf
  <2>2. QED
    BY <1>1, <1>2, <1>3, <1>8, <2>1 DEF SettingsInv, Types, BadgeType, Made
<1>12. Agreement'
  <2>1. SUFFICES ASSUME NEW j \in K PROVE Settled(j)'
    BY <1>3 DEF Agreement
  <2>2. \A x \in new : Touches(x, j) /\ Promises(x, j)'
    BY <1>9, <1>10 DEF Touches, TouchedBy, Promises
  <2>3. (\A x, y \in new : x = y) /\ made \in new /\ asks' = Dim(asks \ drop, {}) \cup new
    BY <1>9, <1>10
  <2>4. \A x \in asks \ drop : ~Touches(x, j)
    BY <1>4
  <2>5. QED
    BY <1>1, <2>2, <2>3, <2>4, BecomesSettled
<1>13. ThemeShown' /\ BusyHasCall'
  BY <1>2 DEF ThemeShown, BusyHasCall
<1>14. MarksFit'
  BY <1>2 DEF MarksFit, InputOf
<1>15. QED
  BY <1>8, <1>11, <1>12, <1>13, <1>14 DEF SettingsInv

LEMMA OpensWell == SettingsInit => SettingsInv
<1>1. SUFFICES ASSUME SettingsInit PROVE SettingsInv
  OBVIOUS
<1>2. PICK keys \in Tracked :
        /\ store = [k \in keys |-> "default"] /\ onDisk \in Configs(keys)
        /\ loaded = FALSE /\ section = "away" /\ badge = NoBadge /\ spinning = {}
        /\ uiTheme \in {"default", "light"} /\ listed = FALSE
        /\ asks = {[n |-> 1, op |-> "load", key |-> "-", value |-> "-", live |-> TRUE, stage |-> "asked",
                    got |-> [k \in keys |-> "default"]]}
        /\ unsure = {} /\ mixed = FALSE /\ cycled = FALSE
  BY <1>1 DEF SettingsInit
<1>3. K = keys /\ store \in Configs(K)
  <2>1. K = keys
    BY <1>2 DEF K
  <2>2. store = [k \in keys |-> store[k]] /\ \A k \in keys : store[k] \in Choice(k)
    BY <1>2, DefaultOfAll
  <2>3. QED
    BY <2>1, <2>2, MakeConfig
<1>4. Types
  <2>1. uiTheme \in Choice("theme") /\ section \in DOMAIN KeysOf /\ badge \in BadgeType
    BY <1>2, Themed DEF Synced, KeysOf
  <2>2. QED
    BY <1>2, <1>3, <2>1 DEF Types, BadgeType
<1>5. PICK a : a = [n |-> 1, op |-> "load", key |-> "-", value |-> "-", live |-> TRUE, stage |-> "asked", got |-> store]
  OBVIOUS
<1>6. asks = {a} /\ IsAsk(a) /\ a.op = "load" /\ a.key = "-" /\ a.live = TRUE /\ a.stage = "asked" /\ a.got = store
  BY <1>2, <1>5 DEF IsAsk
<1>7. AsksWellFormed
  <2>1. IsFiniteSet(asks) /\ Cardinality(asks) = 1
    BY <1>6, FS_Singleton
  <2>2. Cardinality(asks) <= MaxAsks
    BY <2>1, SettingsAssumption
  <2>3. Carries(a)
    BY <1>3, <1>6 DEF Carries, Ops
  <2>4. QED
    BY <1>6, <2>1, <2>2, <2>3 DEF AsksWellFormed
<1>8. Agreement
  <2>1. SUFFICES ASSUME NEW k \in K PROVE Settled(k)
    BY DEF Agreement
  <2>2. Touches(a, k) /\ Promises(a, k)
    BY <1>6 DEF Touches, TouchedBy, Promises
  <2>3. QED
    BY <1>6, <2>2 DEF Settled
<1>9. ThemeShown /\ MarksFit /\ BusyHasCall
  BY <1>2 DEF ThemeShown, MarksFit, InputOf, BusyHasCall
<1>10. QED
  BY <1>4, <1>7, <1>8, <1>9 DEF SettingsInv

\* In every reachable state the calls under way and the file account for what the
\* window shows, and for what it waits for (settingsStore.ts, pages/Settings.tsx).
THEOREM SettingsInvariant == SettingsSpec => []SettingsInv
<1>1. SettingsInv /\ [SettingsNext]_settingsVars => SettingsInv'
  <2>1. SUFFICES ASSUME SettingsInv, [SettingsNext]_settingsVars PROVE SettingsInv'
    OBVIOUS
  <2>2. CASE UNCHANGED settingsVars
    <3>1. UNCHANGED <<store, loaded, onDisk, section, badge, spinning, uiTheme, listed, asks, unsure, mixed, cycled>> /\ K' = K
      BY <2>2 DEF settingsVars, K
    <3>2. Types' /\ ThemeShown' /\ BusyHasCall'
      BY <2>1, <3>1 DEF SettingsInv, Types, ThemeShown, ThemeOf, BusyHasCall
    <3>3. AsksWellFormed'
      BY <2>1, <3>1 DEF SettingsInv, AsksWellFormed, Carries
    <3>4. Agreement'
      <4>1. SUFFICES ASSUME NEW j \in K, j \notin unsure PROVE Settled(j)'
        BY <3>1 DEF Agreement
      <4>2. Settled(j)
        BY <2>1, <4>1 DEF SettingsInv, Agreement
      <4>3. QED
        BY <3>1, <4>2 DEF Settled, Promises, Agrees, ConfigToState
    <3>5. Checks' = Checks
      BY <3>1 DEF Checks
    <3>6. MarksFit'
      BY <2>1, <3>1, <3>5, MarksStay DEF SettingsInv
    <3>7. QED
      BY <3>2, <3>3, <3>4, <3>6 DEF SettingsInv
  <2>3. CASE SettingsNext
    <3>1. CASE (\E k \in K : \E v \in Choice(k) : Edit(k, v)) \/ (\E v \in Choice("theme") : HandleThemeChange(v)) \/ HandleToggle
      BY <2>1, <3>1, ControlsKeep
    <3>2. CASE CycleTheme
      BY <2>1, <3>2, CycleKeeps
    <3>3. CASE Validate
      BY <2>1, <3>3, ValidateKeeps
    <3>4. CASE HandleCheckUpdate \/ HandleAutoDetect \/ HandleConnect \/ HandleImport \/ Recheck \/ ResetAll
      BY <2>1, <3>4, ButtonsKeep
    <3>5. CASE OpenAgain
      BY <2>1, <3>5, OpensAgain
    <3>6. CASE \E s \in DOMAIN KeysOf : Show(s)
      BY <2>1, <3>6, ShowKeeps
    <3>7. CASE \E a \in asks : ServeAsk(a) \/ Reply(a)
      BY <2>1, <3>7, AskServed, ReplyKeeps
    <3>8. QED
      BY <2>3, <3>1, <3>2, <3>3, <3>4, <3>5, <3>6, <3>7 DEF SettingsNext
  <2>4. QED
    BY <2>1, <2>2, <2>3
<1>2. QED
  BY <1>1, OpensWell, PTL DEF SettingsSpec

\* When the calls have ended the window shows what is saved, the mark beside a path
\* is of this path or of a search that failed, and what spins waits for an answer (settingsStore.update,
\* KubeconfigSettings, AIProviderRow).
THEOREM SettingsAgree == SettingsSpec => []SettingsSafe
<1>1. SettingsInv => SettingsSafe
  <2>1. SUFFICES ASSUME SettingsInv PROVE SettingsSafe
    OBVIOUS
  <2>2. SettingsTypeOK
    BY <2>1 DEF SettingsInv, Types, AsksWellFormed, Carries, SettingsTypeOK
  <2>3. SettledAgrees
    <3>1. SUFFICES ASSUME asks = {}, NEW k \in K, k \notin unsure PROVE Agrees(k)
      BY DEF SettledAgrees, Agrees
    <3>2. Settled(k)
      BY <2>1, <3>1 DEF SettingsInv, Agreement
    <3>3. QED
      BY <3>1, <3>2 DEF Settled
  <2>4. VerdictOfPath /\ MarkComes
    <3>1. SUFFICES ASSUME NEW k \in InputOf(section), store[k] # "none"
                   PROVE  /\ badge.validated /\ ~badge.timer /\ ~Validating /\ ~mixed
                               => badge.of \in {store[k], "search"}
                          /\ ~badge.validated
                               => badge.timer \/ \E a \in asks : a.op = "validate" /\ a.live /\ a.value = store[k]
      BY DEF VerdictOfPath, MarkComes, PathOnScreen
    <3>2. MarkFits(k)
      BY <2>1 DEF SettingsInv, MarksFit
    <3>3. ~Validating => Checks = {}
      BY DEF Validating, Checks, Check
    <3>4. QED
      BY <3>1, <3>2, <3>3 DEF MarkFits, Checks, Check
  <2>5. QED
    BY <2>1, <2>2, <2>3, <2>4 DEF SettingsInv, SettingsSafe
<1>2. QED
  BY <1>1, SettingsInvariant, PTL
=================================================================================
