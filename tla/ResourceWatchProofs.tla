-------------------------- MODULE ResourceWatchProofs --------------------------
(***************************************************************************)
(* No watch escapes those who could stop it, and a lone hook shows what    *)
(* the server has, for any number of hooks and changes and any capacity of *)
(* the channel.  The second needs what is in the pipeline from the API     *)
(* server to the hook: the events of the last changes, one after the       *)
(* other, and before them, as long as none was emitted, the event that     *)
(* repeats the list.                                                       *)
(***************************************************************************)
EXTENDS ResourceWatch, FiniteSetTheorems, SequenceTheorems, TLAPS

USE WatchAssumption DEF None

ChangeType == {"ADDED", "MODIFIED", "DELETED"}
AnyEvent == [type : ChangeType, version : Nat]

Counts == /\ changes \in Seq(ChangeType) /\ Now <= MaxChanges
          /\ opened \in Nat /\ table \in 0..opened
          /\ done \subseteq 1..opened /\ dropped \subseteq 1..opened
          /\ answer \in [Hook -> 0..Now] /\ listed \in [Hook -> 0..Now] /\ data \in [Hook -> 0..Now]
          /\ mine \in [Hook -> 0..opened] /\ held \in [Hook -> 0..opened]
Phases == /\ hookStep \in [Hook -> {"idle", "list", "answer", "watch", "open", "over"}]
          /\ mounted \in [Hook -> {"not yet", "yes", "gone"}]
          /\ stop \in [Hook -> {"no", "called", "over"}]
Queues == /\ stream \in [Watch -> {"opening", "open", "closed"}]
          /\ since \in [Watch -> 0..Now]
          /\ result \in [Watch -> Seq(AnyEvent)] /\ ch \in [Watch -> Seq(AnyEvent)]
          /\ \A w \in Watch : Len(ch[w]) <= ChanCap
Told(s) == \A i \in 1..Len(s) : s[i].version <= Now
Versions == \A w \in Watch : Told(ch[w]) /\ Told(result[w])

\* Every watch was made by one call of one hook.
Registered == {h \in Hook : mine[h] # None}
Owners == /\ opened = Cardinality(Registered)
          /\ \A h, g \in Registered : mine[h] = mine[g] => h = g
          /\ \A h \in Hook : hookStep[h] \in {"idle", "list", "answer", "watch"} => mine[h] = None

\* A stream opens in the call that made its watch, and nothing comes before.
Unopened == \A w \in Watch :
  /\ stream[w] = "opening" => ch[w] = <<>>
  /\ stream[w] # "open" => result[w] = <<>>
  /\ w > opened => stream[w] = "opening"
Opening == \A h \in Hook : hookStep[h] = "open" =>
  mine[h] \in Watch /\ stream[mine[h]] = "opening"

\* An object is added when it is not there, and changed or deleted when it is.
Lawful == \A n \in 1..Now : (changes[n] = "ADDED") = (Version(n - 1) = 0)

\* What a hook has on its way to its own watch, as long as nobody else has one.
AnswerIsList == \A h \in Hook : hookStep[h] = "answer" => answer[h] = Version(listed[h])
Alone(h) == /\ mounted[h] = "yes"
            /\ \/ hookStep[h] = "watch" /\ opened = 0
               \/ hookStep[h] = "open" /\ opened = 1
ShowsList == \A h \in Hook : Alone(h) => data[h] = Version(listed[h])

\* Whole(h): nothing is missing between the list of h and what the server has.
Whole(h) == /\ mounted[h] = "yes" /\ hookStep[h] = "over" /\ opened = 1 /\ mine[h] = 1
            /\ stream[1] = "open" /\ dropped = {} /\ since[1] = listed[h]

\* What is shown, v, and the k events on their way, p, add up to what the server has
\* after n changes, for a stream that was opened after m.
EventOf(n) == Event(changes[n], n)
AddsUp(v, p, k, m, n) ==
  \/ k <= n - m /\ v = Version(n - k) /\ \A i \in 1..k : p[i] = EventOf(n - k + i)
  \/ /\ k = n - m + 1 /\ v = Version(m) /\ v # 0 /\ p[1] = Event("ADDED", m)
     /\ \A i \in 2..k : p[i] = EventOf(n - k + i)
Pipe == ch[1] \o result[1]
Pipeline == \A h \in Hook : Whole(h) => AddsUp(data[h], Pipe, Len(Pipe), since[1], Now)

Found == \A w \in 1..opened : w \in done \/ table = w \/ \E h \in Hook : held[h] = w

WatchInv == /\ Counts /\ Phases /\ Queues /\ Versions /\ Owners /\ Unopened /\ Opening /\ Found
            /\ Lawful /\ AnswerIsList /\ ShowsList /\ Pipeline

-------------------------------------------------------------------------------
LEMMA Numbers == /\ Cardinality(Hook) \in Nat /\ Watch \subseteq Nat
                 /\ IsFiniteSet(Registered) /\ Cardinality(Registered) \in Nat
                 /\ Cardinality(Registered) <= Cardinality(Hook)
<1>1. Registered \subseteq Hook
  BY DEF Registered
<1>2. QED
  BY <1>1, FS_CardinalityType, FS_Subset DEF Watch

LEMMA OpenedAreWatches ==
  ASSUME Counts, Owners
  PROVE  opened <= Cardinality(Hook) /\ \A w \in 1..opened : w \in Watch
BY Numbers DEF Counts, Owners, Watch

LEMMA VersionRange ==
  ASSUME Counts, NEW n \in 0..Now
  PROVE  Version(n) \in 0..n
BY DEF Counts, Version, Now

\* What the server had stays what it had.
LEMMA VersionStays ==
  ASSUME Counts, NEW n \in 0..Now,
         \/ UNCHANGED changes
         \/ \E t \in ChangeType : changes' = Append(changes, t)
  PROVE  Version(n)' = Version(n)
<1>1. changes \in Seq(ChangeType) /\ Len(changes) \in Nat
  BY DEF Counts
<1>2. n # 0 => changes'[n] = changes[n]
  BY <1>1 DEF Now
<1>3. QED
  BY <1>2 DEF Version

LEMMA WatchStarts == WatchInit => WatchInv
<1> SUFFICES ASSUME WatchInit PROVE WatchInv
  OBVIOUS
<1>1. Now = 0 /\ changes = <<>> /\ changes \in Seq(ChangeType)
  BY EmptySeq DEF WatchInit, Now
<1>2. /\ table = 0 /\ opened = 0 /\ done = {} /\ dropped = {}
      /\ answer = [h \in Hook |-> 0] /\ listed = [h \in Hook |-> 0] /\ data = [h \in Hook |-> 0]
      /\ mine = [h \in Hook |-> 0] /\ held = [h \in Hook |-> 0]
  BY DEF WatchInit
<1>3. /\ stream = [w \in Watch |-> "opening"] /\ since = [w \in Watch |-> 0]
      /\ result = [w \in Watch |-> <<>>] /\ ch = [w \in Watch |-> <<>>]
  BY DEF WatchInit
<1>4. /\ hookStep = [h \in Hook |-> "idle"] /\ mounted = [h \in Hook |-> "not yet"]
      /\ stop = [h \in Hook |-> "no"]
  BY DEF WatchInit
<1>5. Counts
  BY <1>1, <1>2 DEF Counts
<1>6. Phases
  BY <1>4 DEF Phases
<1>7. \A w \in Watch : ch[w] = <<>> /\ result[w] = <<>> /\ since[w] = 0 /\ stream[w] = "opening"
  BY <1>3
<1>8. Queues
  <2>1. /\ stream \in [Watch -> {"opening", "open", "closed"}] /\ since \in [Watch -> 0..Now]
        /\ result \in [Watch -> Seq(AnyEvent)] /\ ch \in [Watch -> Seq(AnyEvent)]
    BY <1>1, <1>3, EmptySeq
  <2>2. \A w \in Watch : Len(ch[w]) <= ChanCap
    BY <1>7
  <2>3. QED
    BY <2>1, <2>2 DEF Queues
<1>9. Versions
  BY <1>7 DEF Versions, Told
<1>10. Owners
  <2>1. Registered = {}
    BY <1>2 DEF Registered
  <2>2. QED
    BY <1>2, <2>1, FS_EmptySet DEF Owners
<1>11. Unopened
  BY <1>7 DEF Unopened
<1>12. Opening /\ Found
  <2>1. 1..opened = {}
    BY <1>2
  <2>2. QED
    BY <1>4, <2>1 DEF Opening, Found
<1>13. Lawful
  BY <1>1 DEF Lawful
<1>14. AnswerIsList /\ ShowsList /\ Pipeline
  BY <1>2, <1>4 DEF AnswerIsList, ShowsList, Alone, Pipeline, Whole
<1>15. QED
  BY <1>5, <1>6, <1>8, <1>9, <1>10, <1>11, <1>12, <1>13, <1>14 DEF WatchInv

-------------------------------------------------------------------------------
\* The API server.
LEMMA Appended ==
  ASSUME Counts, NEW t \in ChangeType, Change(t)
  PROVE  /\ changes' \in Seq(ChangeType) /\ Now' = Now + 1 /\ Now' <= MaxChanges
         /\ changes'[Now + 1] = t /\ \A n \in 1..Now : changes'[n] = changes[n]
         /\ Now \in Nat
BY DEF Counts, Change, Now

LEMMA ChangeTypes ==
  ASSUME Counts, Phases, Queues, Versions, NEW t \in ChangeType, Change(t)
  PROVE  Counts' /\ Phases' /\ Queues' /\ Versions'
<1>1. UNCHANGED <<table, opened, done, stream, since, ch, dropped, hooks, stops>>
  BY DEF Change
<1>2. Counts'
  <2>1. UNCHANGED <<table, opened, done, dropped, answer, listed, data, mine, held>>
    BY <1>1 DEF hooks, stops
  <2>2. \A n \in 0..Now : n \in 0..Now'
    BY Appended
  <2>3. changes' \in Seq(ChangeType) /\ Now' <= MaxChanges
    BY Appended
  <2>4. answer \in [Hook -> 0..Now'] /\ listed \in [Hook -> 0..Now'] /\ data \in [Hook -> 0..Now']
    BY <2>2 DEF Counts
  <2>5. QED
    BY <2>1, <2>3, <2>4 DEF Counts
<1>3. Phases'
  BY <1>1 DEF Phases, hooks, stops
<1>4. ASSUME NEW w \in Watch
      PROVE  /\ result'[w] \in Seq(AnyEvent)
             /\ Told(ch[w])' /\ Told(result[w])'
  <2>1. result'[w] = result[w] \/ result'[w] = Append(result[w], Event(t, Now + 1))
    BY DEF Change
  <2>2. Event(t, Now + 1) \in AnyEvent /\ Event(t, Now + 1).version = Now + 1
    BY Appended DEF AnyEvent, Event
  <2>3. result[w] \in Seq(AnyEvent) /\ ch[w] \in Seq(AnyEvent)
    BY DEF Queues
  <2>4. \A i \in 1..Len(ch[w]) : ch[w][i].version <= Now
    BY DEF Versions, Told
  <2>5. \A i \in 1..Len(result[w]) : result[w][i].version <= Now
    BY DEF Versions, Told
  <2>6. Told(ch[w])'
    <3>1. \A i \in 1..Len(ch[w]) : ch[w][i] \in AnyEvent
      BY <2>3
    <3>2. QED
      BY <1>1, <2>4, <3>1, Appended DEF Told, AnyEvent
  <2>7. Told(result[w])'
    <3>1. \A i \in 1..Len(result[w]) : result[w][i] \in AnyEvent
      BY <2>3
    <3>2. ASSUME NEW i \in 1..Len(result[w]) PROVE result[w][i].version <= Now + 1
      <4>1. result[w][i].version \in Nat
        BY <3>1 DEF AnyEvent
      <4>2. result[w][i].version <= Now
        BY <2>5
      <4>3. Now \in Nat
        BY Appended
      <4>4. QED
        BY <4>1, <4>2, <4>3
    <3>3. CASE result'[w] = result[w]
      BY <3>2, <3>3, Appended DEF Told
    <3>4. CASE result'[w] = Append(result[w], Event(t, Now + 1))
      <4>1. PICK l \in Nat : l = Len(result[w])
        BY <2>3, LenProperties
      <4>2. /\ Len(result'[w]) = l + 1 /\ result'[w][l + 1] = Event(t, Now + 1)
            /\ \A i \in 1..l : result'[w][i] = result[w][i]
        BY <2>2, <2>3, <3>4, <4>1, AppendProperties
      <4>3. \A i \in 1..l + 1 : i \in 1..l \/ i = l + 1
        OBVIOUS
      <4>4. result'[w][l + 1].version <= Now + 1
        BY <2>2, <4>2, Appended
      <4>5. \A i \in 1..l : result'[w][i].version <= Now + 1
        BY <3>2, <4>1, <4>2
      <4>6. \A i \in 1..l + 1 : result'[w][i].version <= Now + 1
        BY <4>3, <4>4, <4>5
      <4>7. QED
        BY <4>2, <4>6, Appended DEF Told
    <3>5. QED
      BY <2>1, <3>3, <3>4
  <2>8. QED
    BY <2>1, <2>2, <2>3, <2>6, <2>7
<1>5. result' = [w \in Watch |-> result'[w]]
  BY DEF Change
<1>6. Queues' /\ Versions'
  <2>1. \A n \in 0..Now : n \in 0..Now'
    BY Appended
  <2>2. since' \in [Watch -> 0..Now']
    BY <1>1, <2>1 DEF Queues
  <2>3. Queues'
    BY <1>1, <1>4, <1>5, <2>2 DEF Queues
  <2>4. QED
    BY <1>4, <2>3 DEF Versions
<1>7. QED
  BY <1>2, <1>3, <1>6

\* The pipe as a sequence: fed at one end, emptied at the other.
LEMMA PipeGrows ==
  ASSUME NEW c \in Seq(AnyEvent), NEW r \in Seq(AnyEvent), NEW e \in AnyEvent
  PROVE  c \o r \in Seq(AnyEvent) /\ c \o Append(r, e) = Append(c \o r, e)
<1>1. <<e>> \in Seq(AnyEvent)
  OBVIOUS
<1>2. c \o r \in Seq(AnyEvent)
  BY ConcatProperties
<1>3. c \o (r \o <<e>>) = (c \o r) \o <<e>>
  BY <1>1, ConcatAssociative
<1>4. QED
  BY <1>2, <1>3, AppendIsConcat

LEMMA PipeMoves ==
  ASSUME NEW c \in Seq(AnyEvent), NEW r \in Seq(AnyEvent), r # <<>>
  PROVE  Append(c, Head(r)) \o Tail(r) = c \o r
<1>1. /\ Head(r) \in AnyEvent /\ Tail(r) \in Seq(AnyEvent) /\ <<Head(r)>> \in Seq(AnyEvent)
      /\ Len(Tail(r)) = Len(r) - 1 /\ \A i \in 1..Len(Tail(r)) : Tail(r)[i] = r[i + 1]
      /\ Len(r) \in Nat \ {0} /\ Head(r) = r[1]
  BY HeadTailProperties, EmptySeq
<1>2. <<Head(r)>> \o Tail(r) = r
  <2>1. /\ <<Head(r)>> \o Tail(r) \in Seq(AnyEvent) /\ Len(<<Head(r)>> \o Tail(r)) = Len(r)
        /\ \A i \in 1..Len(r) : (<<Head(r)>> \o Tail(r))[i] = r[i]
    BY <1>1, ConcatProperties
  <2>2. QED
    BY <2>1, SeqEqual
<1>3. Append(c, Head(r)) = c \o <<Head(r)>>
  BY <1>1, AppendIsConcat
<1>4. (c \o <<Head(r)>>) \o Tail(r) = c \o (<<Head(r)>> \o Tail(r))
  BY <1>1, ConcatAssociative
<1>5. QED
  BY <1>2, <1>3, <1>4

LEMMA PipeEmpties ==
  ASSUME NEW c \in Seq(AnyEvent), NEW r \in Seq(AnyEvent), c # <<>>
  PROVE  /\ c \o r \in Seq(AnyEvent) /\ c \o r # <<>>
         /\ Tail(c) \o r = Tail(c \o r) /\ Head(c) = Head(c \o r)
<1>1. /\ Tail(c) \in Seq(AnyEvent) /\ Len(c) \in Nat \ {0} /\ Len(r) \in Nat
      /\ Len(Tail(c)) = Len(c) - 1 /\ \A i \in 1..Len(Tail(c)) : Tail(c)[i] = c[i + 1]
  BY HeadTailProperties, EmptySeq, LenProperties
<1>2. /\ c \o r \in Seq(AnyEvent) /\ Len(c \o r) = Len(c) + Len(r)
      /\ \A i \in 1..Len(c) + Len(r) : (c \o r)[i] = IF i <= Len(c) THEN c[i] ELSE r[i - Len(c)]
  BY ConcatProperties
<1>3. /\ Tail(c) \o r \in Seq(AnyEvent) /\ Len(Tail(c) \o r) = Len(c) - 1 + Len(r)
      /\ \A i \in 1..Len(c) - 1 + Len(r) :
           (Tail(c) \o r)[i] = IF i <= Len(c) - 1 THEN c[i + 1] ELSE r[i - (Len(c) - 1)]
  BY <1>1, ConcatProperties
<1>4. c \o r # <<>>
  BY <1>1, <1>2, EmptySeq
<1>5. /\ Tail(c \o r) \in Seq(AnyEvent) /\ Len(Tail(c \o r)) = Len(c) + Len(r) - 1
      /\ \A i \in 1..Len(c) + Len(r) - 1 : Tail(c \o r)[i] = (c \o r)[i + 1]
  BY <1>2, <1>4, HeadTailProperties
<1>6. \A i \in 1..Len(c) + Len(r) - 1 : Tail(c \o r)[i] = (Tail(c) \o r)[i]
  BY <1>1, <1>2, <1>3, <1>5
<1>7. Tail(c) \o r = Tail(c \o r)
  BY <1>1, <1>3, <1>5, <1>6, SeqEqual
<1>8. Head(c) = Head(c \o r)
  BY <1>1, <1>2, <1>4
<1>9. QED
  BY <1>2, <1>4, <1>7, <1>8

\* A change puts its event at the end.
LEMMA AddsUpOneMore ==
  ASSUME Counts, NEW t \in ChangeType, Change(t), NEW n \in Nat, n = Now,
         NEW p \in Seq(AnyEvent), NEW k \in Nat, k = Len(p), NEW v, NEW m \in 0..n, AddsUp(v, p, k, m, n)
  PROVE  AddsUp(v, Append(p, Event(t, n + 1)), k + 1, m, n + 1)'
<1>1. Now' = n + 1
  BY Appended
<1>2. PICK q : q = Append(p, Event(t, n + 1))
  OBVIOUS
<1>3. PICK e \in AnyEvent : e = Event(t, n + 1)
  <2>1. Event(t, n + 1) \in AnyEvent
    BY DEF AnyEvent, Event
  <2>2. QED
    BY <2>1
<1>4. q[k + 1] = e /\ \A i \in 1..k : q[i] = p[i]
  BY <1>1, <1>2, <1>3, AppendProperties
<1>5. EventOf(n + 1)' = e /\ \A i \in 1..n : EventOf(i)' = EventOf(i)
  BY <1>1, <1>3, Appended DEF EventOf, Event
<1>6. \A i \in 0..n : Version(i)' = Version(i)
  BY <1>1, VersionStays DEF Change
<1>7. CASE /\ k <= n - m /\ v = Version(n - k)
           /\ \A i \in 1..k : p[i] = EventOf(n - k + i)
  <2>1. n - k \in 0..n /\ n + 1 - (k + 1) = n - k /\ k + 1 <= n + 1 - m
    BY <1>1, <1>7
  <2>2. \A i \in 1..k + 1 : /\ n + 1 - (k + 1) + i = n - k + i
                            /\ i # k + 1 => n - k + i \in 1..n /\ i \in 1..k
                            /\ i = k + 1 => n - k + i = n + 1
    BY <2>1
  <2>3. \A i \in 1..k + 1 : q[i] = EventOf(n + 1 - (k + 1) + i)'
    BY <1>4, <1>5, <1>7, <2>2
  <2>4. v = Version(n + 1 - (k + 1))'
    BY <1>6, <1>7, <2>1
  <2>5. (/\ k + 1 <= n + 1 - m /\ v = Version(n + 1 - (k + 1))
         /\ \A i \in 1..k + 1 : q[i] = EventOf(n + 1 - (k + 1) + i))'
    BY <2>1, <2>3, <2>4
  <2>6. AddsUp(v, q, k + 1, m, n + 1)'
    BY <2>5 DEF AddsUp
  <2>7. QED
    BY <1>2, <2>6
<1>8. CASE /\ k = n - m + 1 /\ v = Version(m) /\ v # 0 /\ p[1] = Event("ADDED", m)
           /\ \A i \in 2..k : p[i] = EventOf(n - k + i)
  <2>1. k \in 1..n + 1 /\ k + 1 = n + 1 - m + 1 /\ q[1] = Event("ADDED", m)
    BY <1>1, <1>4, <1>8
  <2>2. \A i \in 2..k + 1 : /\ n + 1 - (k + 1) + i = n - k + i
                            /\ i # k + 1 => n - k + i \in 1..n /\ i \in 2..k /\ i \in 1..k
                            /\ i = k + 1 => n - k + i = n + 1
    BY <1>1, <1>8, <2>1
  <2>3. \A i \in 2..k + 1 : q[i] = EventOf(n + 1 - (k + 1) + i)'
    BY <1>4, <1>5, <1>8, <2>2
  <2>4. v = Version(m)'
    BY <1>1, <1>6, <1>8
  <2>5. k + 1 = n + 1 - m + 1 /\ v # 0 /\ q[1] = Event("ADDED", m)
    BY <1>8, <2>1
  <2>6. (/\ k + 1 = n + 1 - m + 1 /\ v = Version(m) /\ v # 0 /\ q[1] = Event("ADDED", m)
         /\ \A i \in 2..k + 1 : q[i] = EventOf(n + 1 - (k + 1) + i))'
    BY <2>3, <2>4, <2>5
  <2>7. AddsUp(v, q, k + 1, m, n + 1)'
    BY <2>6 DEF AddsUp
  <2>8. QED
    BY <1>2, <2>7
<1>9. QED
  BY <1>7, <1>8 DEF AddsUp

LEMMA ChangeHistory ==
  ASSUME Counts, Queues, Lawful, AnswerIsList, ShowsList, Pipeline, Owners, NEW t \in ChangeType, Change(t)
  PROVE  Lawful' /\ AnswerIsList' /\ ShowsList' /\ Pipeline'
<1>1. UNCHANGED <<table, opened, done, stream, since, ch, dropped, hooks, stops>>
  BY DEF Change
<1>2. \A n \in 0..Now : Version(n)' = Version(n)
  BY VersionStays DEF Change
<1>3. Lawful'
  <2>1. (t = "ADDED") = (Version(Now) = 0)
    BY DEF Change
  <2>2. \A n \in 1..Now : n - 1 \in 0..Now
    BY Appended
  <2>3. QED
    BY <1>2, <2>1, <2>2, Appended DEF Lawful
<1>4. AnswerIsList' /\ ShowsList'
  BY <1>1, <1>2 DEF AnswerIsList, ShowsList, Alone, Counts, hooks
<1>5. ASSUME NEW h \in Hook, Whole(h)'
      PROVE  AddsUp(data[h], Pipe, Len(Pipe), since[1], Now)'
  <2>1. Whole(h) /\ AddsUp(data[h], Pipe, Len(Pipe), since[1], Now)
    BY <1>1, <1>5 DEF Whole, Pipeline, hooks
  <2>2. 1 \in Watch /\ stream[1] = "open"
    BY <2>1, OpenedAreWatches DEF Whole
  <2>3. /\ ch'[1] = ch[1] /\ result'[1] = Append(result[1], Event(t, Now + 1))
        /\ since'[1] = since[1] /\ data'[h] = data[h]
    BY <1>1, <2>2 DEF Change, hooks
  <2>4. result[1] \in Seq(AnyEvent) /\ ch[1] \in Seq(AnyEvent) /\ since[1] \in 0..Now
    BY <2>2 DEF Queues
  <2>5. PICK n \in Nat : n = Now /\ Now' = n + 1
    BY Appended
  <2>6. PICK p \in Seq(AnyEvent), e \in AnyEvent :
          p = Pipe /\ e = Event(t, n + 1) /\ Pipe' = Append(p, e)
    <3>1. Event(t, n + 1) \in AnyEvent
      BY Appended DEF Event, AnyEvent
    <3>2. PICK c \in Seq(AnyEvent), r \in Seq(AnyEvent), e \in AnyEvent :
            c = ch[1] /\ r = result[1] /\ e = Event(t, n + 1)
      BY <2>4, <2>5, <3>1
    <3>3. Pipe = c \o r /\ Pipe' = c \o Append(r, e)
      BY <2>3, <2>5, <3>2 DEF Pipe
    <3>4. c \o r \in Seq(AnyEvent) /\ c \o Append(r, e) = Append(c \o r, e)
      BY PipeGrows
    <3>5. QED
      BY <3>2, <3>3, <3>4
  <2>7. PICK k \in Nat : k = Len(p) /\ Len(Append(p, e)) = k + 1
    BY AppendProperties, LenProperties
  <2>12. PICK v : v = data[h]
    OBVIOUS
  <2>8. PICK m \in 0..n : m = since[1]
    BY <2>4, <2>5
  <2>9. AddsUp(v, Append(p, e), k + 1, m, n + 1)'
    BY <2>1, <2>5, <2>6, <2>7, <2>8, <2>12, AddsUpOneMore
  <2>10. /\ data'[h] = v /\ Pipe' = Append(p, e) /\ Len(Pipe') = k + 1
         /\ since'[1] = m /\ Now' = n + 1
    BY <2>3, <2>5, <2>6, <2>7, <2>8, <2>12
  <2>11. QED
    BY <2>9, <2>10
<1>6. QED
  BY <1>3, <1>4, <1>5 DEF Pipeline

LEMMA ChangeKeeps ==
  ASSUME WatchInv, NEW t \in ChangeType, Change(t)
  PROVE  WatchInv'
<1>1. Counts' /\ Phases' /\ Queues' /\ Versions'
  BY ChangeTypes DEF WatchInv
<1>2. Lawful' /\ AnswerIsList' /\ ShowsList' /\ Pipeline'
  BY ChangeHistory DEF WatchInv
<1>3. UNCHANGED <<table, opened, done, stream, since, ch, dropped, hooks, stops>>
  BY DEF Change
<1>4. Registered' = Registered
  BY <1>3 DEF Registered, hooks
<1>5. Owners' /\ Opening' /\ Found'
  BY <1>3, <1>4 DEF WatchInv, Owners, Opening, Found, hooks, stops
<1>6. Unopened'
  BY <1>3 DEF WatchInv, Unopened, Change
<1>7. QED
  BY <1>1, <1>2, <1>5, <1>6 DEF WatchInv

-------------------------------------------------------------------------------
\* What the hook does for itself.
LEMMA HookTypes ==
  ASSUME WatchInv, NEW h \in Hook,
         Mount(h) \/ ListServed(h) \/ ListFails(h) \/ ListArrives(h) \/ Unmount(h)
  PROVE  Counts' /\ Phases' /\ Queues' /\ Versions' /\ Unopened' /\ Found' /\ Lawful'
<1>1. UNCHANGED <<changes, table, opened, done, stream, since, result, ch, dropped, mine, held>>
  BY DEF Mount, ListServed, ListFails, ListArrives, Unmount, streams, stops
<1>2. Now' = Now /\ Now \in Nat
  BY <1>1 DEF Now, WatchInv, Counts
<1>3. /\ answer' \in [Hook -> 0..Now] /\ listed' \in [Hook -> 0..Now] /\ data' \in [Hook -> 0..Now]
  <2>1. answer \in [Hook -> 0..Now] /\ listed \in [Hook -> 0..Now] /\ data \in [Hook -> 0..Now]
    BY DEF WatchInv, Counts
  <2>2. Version(Now) \in 0..Now /\ Now \in 0..Now
    BY <1>2, VersionRange DEF WatchInv
  <2>3. CASE ListServed(h)
    BY <2>1, <2>2, <2>3 DEF ListServed
  <2>4. CASE ListArrives(h)
    BY <2>1, <2>4 DEF ListArrives
  <2>5. CASE Mount(h) \/ ListFails(h) \/ Unmount(h)
    BY <2>1, <2>5 DEF Mount, ListFails, Unmount
  <2>6. QED
    BY <2>3, <2>4, <2>5
<1>4. Counts'
  BY <1>1, <1>2, <1>3 DEF WatchInv, Counts
<1>5. Phases'
  BY DEF WatchInv, Phases, Mount, ListServed, ListFails, ListArrives, Unmount, Move, stops
<1>6. Queues' /\ Versions' /\ Unopened' /\ Found'
  BY <1>1, <1>2 DEF WatchInv, Queues, Versions, Told, Unopened, Found
<1>7. Lawful'
  BY <1>1, <1>2 DEF WatchInv, Lawful, Version
<1>8. QED
  BY <1>4, <1>5, <1>6, <1>7

LEMMA HookKeeps ==
  ASSUME WatchInv, NEW h \in Hook,
         Mount(h) \/ ListServed(h) \/ ListFails(h) \/ ListArrives(h) \/ Unmount(h)
  PROVE  WatchInv'
<1>1. UNCHANGED <<changes, table, opened, done, stream, since, result, ch, dropped, mine, held>>
  BY DEF Mount, ListServed, ListFails, ListArrives, Unmount, streams, stops
<1>2. Now' = Now /\ \A n \in Nat : Version(n)' = Version(n)
  BY <1>1 DEF Now, Version
<1>3. hookStep \in [Hook -> {"idle", "list", "answer", "watch", "open", "over"}]
  BY DEF WatchInv, Phases
<1>4. \A g \in Hook \ {h} : /\ hookStep'[g] = hookStep[g] /\ mounted'[g] = mounted[g]
                            /\ answer'[g] = answer[g] /\ listed'[g] = listed[g] /\ data'[g] = data[g]
  BY DEF WatchInv, Phases, Counts, Mount, ListServed, ListFails, ListArrives, Unmount, Move
<1>5. \/ hookStep'[h] = hookStep[h] /\ mounted'[h] = "gone"
      \/ hookStep[h] \in {"idle", "list", "answer"} /\ hookStep'[h] \in {"list", "answer", "watch", "over"}
  BY DEF WatchInv, Phases, Mount, ListServed, ListFails, ListArrives, Unmount, Move
<1>6. Registered' = Registered
  BY <1>1 DEF Registered
<1>7. Owners'
  BY <1>1, <1>4, <1>5, <1>6 DEF WatchInv, Owners
<1>8. Opening'
  BY <1>1, <1>4, <1>5 DEF WatchInv, Opening
<1>9. listed \in [Hook -> Nat] /\ answer \in [Hook -> Nat] /\ Now \in Nat
  BY DEF WatchInv, Counts, Now
<1>10. ASSUME NEW g \in Hook, hookStep'[g] = "answer" PROVE answer'[g] = Version(listed[g])'
  <2>1. CASE g = h /\ ListServed(h)
    BY <1>2, <1>9, <2>1 DEF ListServed, Version
  <2>2. CASE g = h /\ Unmount(h)
    BY <1>2, <1>9, <1>10, <2>2 DEF Unmount, WatchInv, AnswerIsList, Version
  <2>3. CASE g # h
    BY <1>1, <1>4, <1>10, <2>3 DEF WatchInv, AnswerIsList, Version
  <2>4. QED
    BY <1>3, <1>10, <2>1, <2>2, <2>3 DEF Mount, ListFails, ListArrives, Move
<1>11. ASSUME NEW g \in Hook, Alone(g)' PROVE data'[g] = Version(listed[g])'
  <2>1. CASE g = h
    <3>1. ListArrives(h) /\ mounted[h] = "yes"
      <4>1. hookStep'[h] = "watch" /\ mounted'[h] = "yes"
        BY <1>5, <1>11, <2>1 DEF Alone
      <4>2. ~Mount(h) /\ ~ListServed(h) /\ ~ListFails(h)
        BY <1>3, <4>1 DEF Mount, ListServed, ListFails, Move
      <4>3. ~Unmount(h)
        BY <4>1 DEF Unmount, WatchInv, Phases
      <4>4. QED
        BY <4>1, <4>2, <4>3 DEF ListArrives
    <3>2. data'[h] = answer[h] /\ answer[h] = Version(listed[h]) /\ listed'[h] = listed[h]
      BY <3>1 DEF ListArrives, Move, WatchInv, Counts, AnswerIsList
    <3>3. QED
      BY <1>1, <2>1, <3>2 DEF Version
  <2>2. CASE g # h
    BY <1>1, <1>4, <1>11, <2>2 DEF Alone, WatchInv, ShowsList, Version
  <2>3. QED
    BY <2>1, <2>2
<1>12. ASSUME NEW g \in Hook, Whole(g)' PROVE AddsUp(data[g], Pipe, Len(Pipe), since[1], Now)'
  <2>1. g # h
    BY <1>1, <1>5, <1>12 DEF Whole, WatchInv, Owners
  <2>2. Whole(g) /\ data'[g] = data[g]
    BY <1>1, <1>4, <1>12, <2>1 DEF Whole
  <2>3. AddsUp(data[g], Pipe, Len(Pipe), since[1], Now)
    BY <2>2 DEF WatchInv, Pipeline
  <2>4. Pipe' = Pipe /\ since'[1] = since[1]
    BY <1>1 DEF Pipe
  <2>5. QED
    BY <1>1, <1>2, <2>2, <2>3, <2>4 DEF AddsUp, EventOf, Version
<1>13. QED
  BY <1>7, <1>8, <1>10, <1>11, <1>12, HookTypes DEF WatchInv, AnswerIsList, ShowsList, Pipeline

-------------------------------------------------------------------------------
\* A call that registers makes the next watch and cancels the one before.
LEMMA RegisterTypes ==
  ASSUME WatchInv, NEW h \in Hook, RegisterWatch(h)
  PROVE  Counts' /\ Phases' /\ Owners' /\ opened + 1 \in Watch
<1>0. /\ opened \in Nat /\ table \in 0..opened /\ mine \in [Hook -> 0..opened]
      /\ done \subseteq 1..opened
  BY DEF WatchInv, Counts
<1>1. /\ opened \in Nat /\ opened' = opened + 1 /\ table' = opened + 1 /\ table \in 0..opened
      /\ done' = done \cup ({table} \ {None})
      /\ UNCHANGED <<changes, dropped, mounted, answer, listed, data, stop, held>>
      /\ mine' = [mine EXCEPT ![h] = opened + 1] /\ mine \in [Hook -> 0..opened]
  BY <1>0 DEF RegisterWatch, RegisterReplacing, streams, stops
<1>2. hookStep[h] = "watch" /\ hookStep' = [hookStep EXCEPT ![h] = "open"]
  BY DEF RegisterWatch, RegisterReplacing, Move
<1>3. Counts'
  <2>1. mine' \in [Hook -> 0..opened'] /\ held' \in [Hook -> 0..opened']
    <3>1. \A n \in 0..opened : n \in 0..opened'
      BY <1>1
    <3>2. held \in [Hook -> 0..opened] /\ opened + 1 \in 0..opened'
      BY <1>1 DEF WatchInv, Counts
    <3>3. QED
      BY <1>1, <3>1, <3>2
  <2>2. done' \subseteq 1..opened' /\ dropped' \subseteq 1..opened'
    BY <1>1 DEF WatchInv, Counts
  <2>3. Now' = Now
    BY <1>1 DEF Now
  <2>4. QED
    BY <1>1, <2>1, <2>2, <2>3 DEF WatchInv, Counts
<1>4. Phases'
  BY <1>1, <1>2 DEF WatchInv, Phases
<1>5. mine[h] = None
  BY <1>2 DEF WatchInv, Owners
<1>6. Registered' = Registered \cup {h} /\ h \notin Registered
  BY <1>1, <1>5 DEF Registered
<1>7. Cardinality(Registered') = opened + 1
  BY <1>6, Numbers, FS_AddElement DEF WatchInv, Owners
<1>8. \A g \in Registered : mine'[g] = mine[g] /\ mine[g] \in 0..opened
  BY <1>1, <1>6 DEF Registered
<1>9. \A f, g \in Registered' : mine'[f] = mine'[g] => f = g
  <2>1. mine'[h] = opened + 1
    BY <1>1
  <2>2. \A f, g \in Registered : mine[f] = mine[g] => f = g
    BY DEF WatchInv, Owners
  <2>3. QED
    BY <1>1, <1>6, <1>8, <2>1, <2>2
<1>10. \A g \in Hook : hookStep'[g] \in {"idle", "list", "answer", "watch"} => mine'[g] = None
  BY <1>1, <1>2 DEF WatchInv, Owners, Phases
<1>11. opened + 1 \in Watch
  <2>1. Registered' \subseteq Hook
    BY DEF Registered
  <2>2. Cardinality(Registered') <= Cardinality(Hook)
    BY <2>1, FS_Subset
  <2>3. QED
    BY <1>1, <1>7, <2>2, Numbers DEF Watch
<1>12. QED
  BY <1>1, <1>3, <1>4, <1>7, <1>9, <1>10, <1>11 DEF Owners

LEMMA RegisterKeeps ==
  ASSUME WatchInv, NEW h \in Hook, RegisterWatch(h)
  PROVE  WatchInv'
<1>1. /\ opened \in Nat /\ opened' = opened + 1 /\ table' = opened + 1 /\ table \in 0..opened
      /\ done' = done \cup ({table} \ {None})
      /\ UNCHANGED <<changes, stream, since, result, ch, dropped, mounted, answer, listed, data, stop, held>>
      /\ mine' = [mine EXCEPT ![h] = opened + 1] /\ mine \in [Hook -> 0..opened]
  BY DEF WatchInv, Counts, RegisterWatch, RegisterReplacing, streams, stops
<1>2. hookStep[h] = "watch" /\ hookStep' = [hookStep EXCEPT ![h] = "open"]
  BY DEF RegisterWatch, RegisterReplacing, Move
<1>3. hookStep \in [Hook -> {"idle", "list", "answer", "watch", "open", "over"}]
  BY DEF WatchInv, Phases
<1>4. Counts' /\ Phases' /\ Owners' /\ opened + 1 \in Watch
  BY RegisterTypes
<1>5. Now' = Now /\ \A n \in Nat : Version(n)' = Version(n)
  BY <1>1 DEF Now, Version
<1>6. Queues' /\ Versions' /\ Lawful' /\ AnswerIsList'
  BY <1>1, <1>2, <1>3, <1>5 DEF WatchInv, Queues, Versions, Told, Lawful, AnswerIsList, Version
<1>7. Unopened'
  BY <1>1 DEF WatchInv, Unopened, Watch
<1>8. Opening'
  <2>1. stream[opened + 1] = "opening"
    BY <1>1, <1>4 DEF WatchInv, Unopened
  <2>2. QED
    BY <1>1, <1>2, <1>3, <1>4, <2>1 DEF WatchInv, Opening
<1>9. Found'
  <2>1. ASSUME NEW w \in 1..opened + 1
        PROVE  w \in done' \/ table' = w \/ \E g \in Hook : held'[g] = w
    <3>1. CASE w = opened + 1
      BY <1>1, <3>1
    <3>2. CASE w # opened + 1
      BY <1>1, <3>2 DEF WatchInv, Found
    <3>3. QED
      BY <3>1, <3>2
  <2>2. QED
    BY <1>1, <2>1 DEF Found
<1>10. ASSUME NEW g \in Hook, Alone(g)' PROVE data'[g] = Version(listed[g])'
  <2>1. opened = 0 /\ hookStep'[g] = "open"
    BY <1>1, <1>10 DEF Alone
  <2>2. hookStep[g] # "open"
    BY <1>1, <2>1 DEF WatchInv, Opening, Watch
  <2>3. g = h
    BY <1>2, <1>3, <2>1, <2>2
  <2>4. Alone(h)
    BY <1>1, <1>2, <1>10, <2>1, <2>3 DEF Alone
  <2>5. QED
    BY <1>1, <2>3, <2>4 DEF WatchInv, ShowsList, Version
<1>11. ASSUME NEW g \in Hook PROVE ~Whole(g)'
  <2>1. SUFFICES ASSUME Whole(g)' PROVE FALSE
    OBVIOUS
  <2>2. opened = 0 /\ stream[1] = "open"
    BY <1>1, <2>1 DEF Whole
  <2>3. 1 \in Watch
    BY <1>4, <2>2
  <2>4. QED
    BY <2>2, <2>3 DEF WatchInv, Unopened
<1>12. QED
  BY <1>4, <1>6, <1>7, <1>8, <1>9, <1>10, <1>11 DEF WatchInv, ShowsList, Pipeline

-------------------------------------------------------------------------------
\* The stream of a watch opens, or does not.
LEMMA OpeningWatch ==
  ASSUME WatchInv, NEW h \in Hook, hookStep[h] = "open", NEW w, w = mine[h]
  PROVE  /\ w \in Watch /\ w \in 1..opened /\ stream[w] = "opening" /\ ch[w] = <<>> /\ result[w] = <<>>
         /\ \A g \in Hook : mine[g] = w => g = h
<1>1. w \in Watch /\ stream[w] = "opening"
  BY DEF WatchInv, Opening
<1>2. mine[h] \in 0..opened /\ opened \in Nat /\ w # 0
  BY <1>1 DEF WatchInv, Counts, Watch
<1>3. \A g \in Hook : mine[g] = w => g = h
  BY <1>2 DEF WatchInv, Owners, Registered
<1>4. QED
  BY <1>1, <1>2, <1>3 DEF WatchInv, Unopened

LEMMA OpenTypes ==
  ASSUME WatchInv, NEW h \in Hook, Open(h)
  PROVE  Counts' /\ Phases' /\ Queues' /\ Versions'
<1>1. PICK w \in Watch : w = mine[h] /\ stream[w] = "opening" /\ ch[w] = <<>>
  BY OpeningWatch DEF Open, Move
<1>2. /\ UNCHANGED <<changes, table, opened, done, ch, dropped, mounted, answer, listed, data, mine, stop, held>>
      /\ hookStep' = [hookStep EXCEPT ![h] = "over"]
      /\ stream' = [stream EXCEPT ![w] = "open"]
      /\ since' = [since EXCEPT ![w] = Now]
      /\ result' = [result EXCEPT ![w] = IF Version(Now) = 0 THEN <<>>
                                         ELSE <<Event("ADDED", Version(Now))>>]
  BY <1>1 DEF Open, Move, stops
<1>3. PICK n \in Nat : n = Now /\ Now' = n
  BY <1>2 DEF WatchInv, Counts, Now
<1>4. PICK v \in 0..n : v = Version(n)
  BY <1>3, VersionRange DEF WatchInv
<1>5. PICK r \in Seq(AnyEvent) : /\ r = IF Version(Now) = 0 THEN <<>> ELSE <<Event("ADDED", Version(Now))>>
                                 /\ \A i \in 1..Len(r) : r[i].version <= n
  <2>1. CASE v = 0
    <3>1. <<>> \in Seq(AnyEvent) /\ Len(<<>>) = 0
      BY EmptySeq
    <3>2. \A i \in 1..0 : <<>>[i].version <= n
      OBVIOUS
    <3>3. QED
      BY <1>3, <1>4, <2>1, <3>1, <3>2
  <2>2. CASE v # 0
    <3>1. Event("ADDED", v) \in AnyEvent /\ Event("ADDED", v).version = v
      BY <1>4 DEF Event, AnyEvent, ChangeType
    <3>2. <<Event("ADDED", v)>> \in Seq(AnyEvent) /\ Len(<<Event("ADDED", v)>>) = 1
      BY <3>1
    <3>3. \A i \in 1..1 : <<Event("ADDED", v)>>[i].version <= n
      BY <1>4, <3>1
    <3>4. QED
      BY <1>3, <1>4, <2>2, <3>2, <3>3
  <2>3. QED
    BY <2>1, <2>2
<1>6. Counts'
  BY <1>2, <1>3 DEF WatchInv, Counts
<1>7. Phases'
  BY <1>2 DEF WatchInv, Phases
<1>8. Queues'
  BY <1>2, <1>3, <1>5 DEF WatchInv, Queues
<1>9. Versions'
  <2>1. \A u \in Watch : /\ result'[u] = IF u = w THEN r ELSE result[u]
                         /\ ch'[u] = ch[u]
    BY <1>2, <1>5 DEF WatchInv, Queues
  <2>2. \A u \in Watch : Told(ch[u]) /\ Told(result[u])
    BY DEF WatchInv, Versions
  <2>3. QED
    BY <1>3, <1>5, <2>1, <2>2 DEF Versions, Told
<1>10. QED
  BY <1>6, <1>7, <1>8, <1>9

LEMMA OpenKeeps ==
  ASSUME WatchInv, NEW h \in Hook, Open(h)
  PROVE  WatchInv'
<1>1. PICK w \in Watch : /\ w = mine[h] /\ stream[w] = "opening" /\ ch[w] = <<>> /\ w \in 1..opened
                         /\ \A g \in Hook : mine[g] = w => g = h
  BY OpeningWatch DEF Open, Move
<1>2. /\ UNCHANGED <<changes, table, opened, done, ch, dropped, mounted, answer, listed, data, mine, stop, held>>
      /\ hookStep[h] = "open" /\ hookStep' = [hookStep EXCEPT ![h] = "over"]
      /\ stream' = [stream EXCEPT ![w] = "open"]
      /\ since' = [since EXCEPT ![w] = Now]
      /\ result' = [result EXCEPT ![w] = IF Version(Now) = 0 THEN <<>>
                                         ELSE <<Event("ADDED", Version(Now))>>]
  BY <1>1 DEF Open, Move, stops
<1>3. hookStep \in [Hook -> {"idle", "list", "answer", "watch", "open", "over"}]
  BY DEF WatchInv, Phases
<1>4. \A g \in Hook : hookStep'[g] = IF g = h THEN "over" ELSE hookStep[g]
  BY <1>2, <1>3
<1>5. PICK n \in Nat : n = Now /\ Now' = n /\ \A i \in Nat : Version(i)' = Version(i)
  BY <1>2 DEF WatchInv, Counts, Now, Version
<1>6. Owners' /\ Lawful' /\ Found' /\ AnswerIsList'
  <2>1. Registered' = Registered
    BY <1>2 DEF Registered
  <2>2. QED
    BY <1>2, <1>4, <1>5, <2>1 DEF WatchInv, Owners, Lawful, Found, AnswerIsList, Version
<1>7. Unopened'
  BY <1>1, <1>2 DEF WatchInv, Unopened, Queues, Counts
<1>8. Opening'
  BY <1>1, <1>2, <1>4 DEF WatchInv, Opening, Queues
<1>9. ASSUME NEW g \in Hook, Alone(g)' PROVE data'[g] = Version(listed[g])'
  BY <1>2, <1>4, <1>9 DEF WatchInv, Alone, ShowsList, Version
<1>10. ASSUME NEW g \in Hook, Whole(g)' PROVE AddsUp(data[g], Pipe, Len(Pipe), since[1], Now)'
  <2>1. opened = 1 /\ mine[g] = 1 /\ mounted[g] = "yes" /\ since'[1] = listed[g]
    BY <1>2, <1>10 DEF Whole
  <2>2. w = 1 /\ g = h
    BY <1>1, <2>1
  <2>3. since'[1] = n /\ listed[h] = n
    BY <1>1, <1>2, <1>5, <2>1, <2>2 DEF WatchInv, Queues
  <2>4. PICK v : v = Version(n)
    OBVIOUS
  <2>5. data'[h] = v
    BY <1>2, <1>5, <2>1, <2>2, <2>3, <2>4 DEF WatchInv, ShowsList, Alone
  <2>6. CASE v = 0
    <3>1. result'[1] = <<>>
      BY <1>1, <1>2, <1>5, <2>2, <2>4, <2>6 DEF WatchInv, Queues
    <3>2. Pipe' = <<>> /\ Len(Pipe') = 0
      <4>1. <<>> \in Seq(AnyEvent) /\ ch'[1] = <<>> /\ Len(<<>>) = 0
        BY <1>1, <1>2, <2>2, EmptySeq
      <4>2. <<>> \o <<>> = <<>>
        BY <4>1, ConcatEmptySeq
      <4>3. QED
        BY <3>1, <4>1, <4>2 DEF Pipe
    <3>3. AddsUp(v, <<>>, 0, n, n)'
      BY <1>5, <2>4 DEF AddsUp
    <3>4. QED
      BY <1>5, <2>2, <2>3, <2>5, <3>2, <3>3
  <2>7. CASE v # 0
    <3>1. v = n
      BY <2>4, <2>7 DEF Version
    <3>2. PICK p : p = <<Event("ADDED", n)>>
      OBVIOUS
    <3>3. result'[1] = p
      BY <1>1, <1>2, <1>5, <2>2, <2>4, <2>7, <3>1, <3>2 DEF WatchInv, Queues
    <3>4. Event("ADDED", n) \in AnyEvent
      BY DEF Event, AnyEvent, ChangeType
    <3>5. Pipe' = p /\ Len(Pipe') = 1 /\ p[1] = Event("ADDED", n)
      <4>1. p \in Seq(AnyEvent) /\ Len(p) = 1 /\ p[1] = Event("ADDED", n)
        BY <3>2, <3>4
      <4>2. ch'[1] = <<>> /\ <<>> \o p = p
        BY <1>1, <1>2, <2>2, <4>1, ConcatEmptySeq
      <4>3. QED
        BY <3>3, <4>1, <4>2 DEF Pipe
    <3>6. AddsUp(v, p, 1, n, n)'
      BY <1>5, <2>4, <2>7, <3>5 DEF AddsUp
    <3>7. QED
      BY <1>5, <2>2, <2>3, <2>5, <3>5, <3>6
  <2>8. QED
    BY <2>6, <2>7
<1>11. QED
  BY <1>6, <1>7, <1>8, <1>9, <1>10, OpenTypes DEF WatchInv, ShowsList, Pipeline

LEMMA OpenFailsKeeps ==
  ASSUME WatchInv, NEW h \in Hook, OpenFails(h)
  PROVE  WatchInv'
<1>1. PICK w \in Watch : /\ w = mine[h] /\ stream[w] = "opening" /\ ch[w] = <<>> /\ result[w] = <<>>
                         /\ w \in 1..opened /\ \A g \in Hook : mine[g] = w => g = h
  BY OpeningWatch DEF OpenFails, Move
<1>2. /\ UNCHANGED <<changes, table, opened, since, result, ch, dropped, mounted, answer, listed, data, mine, stop, held>>
      /\ hookStep[h] = "open" /\ hookStep' = [hookStep EXCEPT ![h] = "over"]
      /\ stream' = [stream EXCEPT ![w] = "closed"]
      /\ done' = done \cup {w}
  BY <1>1 DEF OpenFails, Move, stops
<1>3. \A g \in Hook : hookStep'[g] = IF g = h THEN "over" ELSE hookStep[g]
  BY <1>2 DEF WatchInv, Phases
<1>4. Now' = Now /\ \A i \in Nat : Version(i)' = Version(i)
  BY <1>2 DEF Now, Version
<1>5. Counts' /\ Phases'
  BY <1>1, <1>2, <1>4 DEF WatchInv, Counts, Phases
<1>6. Queues' /\ Versions'
  BY <1>2, <1>4 DEF WatchInv, Queues, Versions, Told
<1>7. Owners' /\ Lawful' /\ Found' /\ AnswerIsList'
  <2>1. Registered' = Registered
    BY <1>2 DEF Registered
  <2>2. QED
    BY <1>2, <1>3, <1>4, <2>1 DEF WatchInv, Owners, Lawful, Found, AnswerIsList, Version
<1>8. Unopened'
  BY <1>1, <1>2 DEF WatchInv, Unopened, Queues, Counts
<1>9. Opening'
  BY <1>1, <1>2, <1>3 DEF WatchInv, Opening, Queues
<1>10. ASSUME NEW g \in Hook, Alone(g)' PROVE data'[g] = Version(listed[g])'
  BY <1>2, <1>3, <1>10 DEF WatchInv, Alone, ShowsList, Version
<1>11. ASSUME NEW g \in Hook PROVE ~Whole(g)'
  <2>1. SUFFICES ASSUME opened = 1, stream'[1] = "open" PROVE FALSE
    BY <1>2 DEF Whole
  <2>2. QED
    BY <1>1, <1>2, <2>1 DEF WatchInv, Queues
<1>12. QED
  BY <1>5, <1>6, <1>7, <1>8, <1>9, <1>10, <1>11 DEF WatchInv, ShowsList, Pipeline

-------------------------------------------------------------------------------
\* Service.Watch hands on the first event, or loses it.
LEMMA ForwardTypes ==
  ASSUME WatchInv, NEW w \in Watch, Forward(w)
  PROVE  Counts' /\ Phases' /\ Queues' /\ Versions' /\ Unopened'
<1>1. /\ stream[w] = "open" /\ result[w] # <<>> /\ result[w] \in Seq(AnyEvent) /\ ch[w] \in Seq(AnyEvent)
      /\ result' = [result EXCEPT ![w] = Tail(result[w])]
      /\ \/ Len(ch[w]) < ChanCap /\ ch' = [ch EXCEPT ![w] = Append(ch[w], Head(result[w]))] /\ UNCHANGED dropped
         \/ ~(Len(ch[w]) < ChanCap) /\ dropped' = dropped \cup {w} /\ UNCHANGED ch
      /\ UNCHANGED <<changes, table, opened, done, stream, since, hooks, stops>>
  BY DEF Forward, WatchInv, Queues
<1>2. w \in 1..opened
  BY <1>1 DEF WatchInv, Unopened, Counts, Watch
<1>3. Counts'
  BY <1>1, <1>2 DEF WatchInv, Counts, Now, hooks, stops
<1>4. Phases'
  BY <1>1 DEF WatchInv, Phases, hooks, stops
<1>5. /\ Tail(result[w]) \in Seq(AnyEvent) /\ Len(Tail(result[w])) = Len(result[w]) - 1
      /\ \A i \in 1..Len(Tail(result[w])) : Tail(result[w])[i] = result[w][i + 1]
      /\ Head(result[w]) \in AnyEvent /\ Head(result[w]) = result[w][1] /\ Len(result[w]) \in Nat \ {0}
  BY <1>1, HeadTailProperties, EmptySeq
<1>6. PICK c \in Seq(AnyEvent) : c = Append(ch[w], Head(result[w]))
  <2>1. Append(ch[w], Head(result[w])) \in Seq(AnyEvent)
    BY <1>1, <1>5, AppendProperties
  <2>2. QED
    BY <2>1
<1>7. /\ Len(c) = Len(ch[w]) + 1 /\ c[Len(ch[w]) + 1] = Head(result[w])
      /\ \A i \in 1..Len(ch[w]) : c[i] = ch[w][i]
  BY <1>1, <1>5, <1>6, AppendProperties
<1>8. PICK l \in Nat : l = Len(ch[w])
  BY <1>1, LenProperties
<1>9. Told(ch[w]) /\ Told(result[w])
  BY DEF WatchInv, Versions
<1>10. Told(c)
  <2>1. \A i \in 1..l + 1 : i \in 1..l \/ i = l + 1
    OBVIOUS
  <2>2. Head(result[w]).version <= Now
    BY <1>5, <1>9 DEF Told
  <2>3. QED
    BY <1>7, <1>8, <1>9, <2>1, <2>2 DEF Told
<1>11. Told(Tail(result[w]))
  BY <1>5, <1>9 DEF Told
<1>12. Now' = Now
  BY <1>1 DEF Now
<1>13. \A u \in Watch : /\ result'[u] = IF u = w THEN Tail(result[w]) ELSE result[u]
                        /\ ch'[u] = ch[u] \/ (u = w /\ ch'[u] = c /\ l < ChanCap)
  <2>1. \A u \in Watch : result'[u] = IF u = w THEN Tail(result[w]) ELSE result[u]
    BY <1>1 DEF WatchInv, Queues
  <2>2. (l < ChanCap /\ ch' = [ch EXCEPT ![w] = c]) \/ UNCHANGED ch
    BY <1>1, <1>6, <1>8
  <2>3. \A u \in Watch : [ch EXCEPT ![w] = c][u] = IF u = w THEN c ELSE ch[u]
    BY DEF WatchInv, Queues
  <2>4. \A u \in Watch : ch'[u] = ch[u] \/ (u = w /\ ch'[u] = c /\ l < ChanCap)
    <3>1. CASE l < ChanCap /\ ch' = [ch EXCEPT ![w] = c]
      BY <2>3, <3>1
    <3>2. CASE UNCHANGED ch
      BY <3>2
    <3>3. QED
      BY <2>2, <3>1, <3>2
  <2>5. QED
    BY <2>1, <2>4
<1>14. result' \in [Watch -> Seq(AnyEvent)] /\ ch' \in [Watch -> Seq(AnyEvent)]
  BY <1>1, <1>5, <1>6 DEF WatchInv, Queues
<1>15. Queues'
  <2>1. \A u \in Watch : Len(ch'[u]) <= ChanCap
    BY <1>7, <1>8, <1>13 DEF WatchInv, Queues
  <2>2. QED
    BY <1>1, <1>12, <1>14, <2>1 DEF WatchInv, Queues
<1>16. Versions'
  <2>1. \A u \in Watch : Told(ch[u]) /\ Told(result[u])
    BY DEF WatchInv, Versions
  <2>2. \A u \in Watch : \A i \in 1..Len(result'[u]) : result'[u][i].version <= Now
    BY <1>11, <1>13, <2>1 DEF Told
  <2>3. \A u \in Watch : \A i \in 1..Len(ch'[u]) : ch'[u][i].version <= Now
    BY <1>10, <1>13, <2>1 DEF Told
  <2>4. QED
    BY <1>12, <2>2, <2>3 DEF Versions, Told
<1>17. Unopened'
  BY <1>1, <1>13 DEF WatchInv, Unopened
<1>18. QED
  BY <1>3, <1>4, <1>15, <1>16, <1>17

LEMMA ForwardKeeps ==
  ASSUME WatchInv, NEW w \in Watch, Forward(w)
  PROVE  WatchInv'
<1>1. /\ stream[w] = "open" /\ result[w] # <<>> /\ result[w] \in Seq(AnyEvent) /\ ch[w] \in Seq(AnyEvent)
      /\ result' = [result EXCEPT ![w] = Tail(result[w])]
      /\ \/ ch' = [ch EXCEPT ![w] = Append(ch[w], Head(result[w]))] /\ UNCHANGED dropped
         \/ dropped' = dropped \cup {w} /\ UNCHANGED ch
      /\ UNCHANGED <<changes, table, opened, done, stream, since, hooks, stops>>
  BY DEF Forward, WatchInv, Queues
<1>2. Now' = Now /\ \A i \in Nat : Version(i)' = Version(i)
  BY <1>1 DEF Now, Version
<1>3. Registered' = Registered
  BY <1>1 DEF Registered, hooks
<1>4. Owners' /\ Opening' /\ Found' /\ Lawful' /\ AnswerIsList'
  BY <1>1, <1>2, <1>3 DEF WatchInv, Owners, Opening, Found, Lawful, AnswerIsList, Version, hooks, stops
<1>5. ShowsList'
  BY <1>1, <1>2 DEF WatchInv, ShowsList, Alone, Version, hooks
<1>6. ASSUME NEW h \in Hook, Whole(h)' PROVE AddsUp(data[h], Pipe, Len(Pipe), since[1], Now)'
  <2>1. dropped' = {}
    BY <1>6 DEF Whole
  <2>2. Whole(h)
    BY <1>1, <1>6 DEF Whole, hooks
  <2>3. AddsUp(data[h], Pipe, Len(Pipe), since[1], Now)
    BY <2>2 DEF WatchInv, Pipeline
  <2>4. Pipe' = Pipe
    <3>1. CASE w = 1
      <4>1. ch'[1] = Append(ch[1], Head(result[1])) /\ result'[1] = Tail(result[1])
        BY <1>1, <2>1, <3>1 DEF WatchInv, Queues
      <4>2. QED
        BY <1>1, <3>1, <4>1, PipeMoves DEF Pipe
    <3>2. CASE w # 1
      <4>1. ch'[1] = ch[1] /\ result'[1] = result[1]
        <5>1. \A e : [ch EXCEPT ![w] = e][1] = ch[1] /\ [result EXCEPT ![w] = e][1] = result[1]
          BY <3>2 DEF WatchInv, Queues
        <5>2. QED
          BY <1>1, <5>1
      <4>2. QED
        BY <4>1 DEF Pipe
    <3>3. QED
      BY <3>1, <3>2
  <2>5. since'[1] = since[1] /\ data'[h] = data[h] /\ UNCHANGED changes
    BY <1>1 DEF hooks
  <2>6. QED
    BY <1>2, <2>3, <2>4, <2>5 DEF AddsUp, EventOf, Version
<1>7. QED
  BY <1>4, <1>5, <1>6, ForwardTypes DEF WatchInv, Pipeline

\* A stream ends and leaves what is in the channel.
LEMMA CloseKeeps ==
  ASSUME WatchInv, NEW w \in Watch, CloseCancelled(w) \/ ServerCloses(w)
  PROVE  WatchInv'
<1>1. /\ stream[w] = "open" /\ stream' = [stream EXCEPT ![w] = "closed"]
      /\ result' = [result EXCEPT ![w] = <<>>]
      /\ UNCHANGED <<changes, table, opened, done, since, ch, dropped, hooks, stops>>
  BY DEF CloseCancelled, ServerCloses, Close
<1>2. Now' = Now /\ \A i \in Nat : Version(i)' = Version(i)
  BY <1>1 DEF Now, Version
<1>3. Registered' = Registered
  BY <1>1 DEF Registered, hooks
<1>4. Counts' /\ Phases'
  BY <1>1, <1>2 DEF WatchInv, Counts, Phases, hooks, stops
<1>5. \A u \in Watch : /\ result'[u] = IF u = w THEN <<>> ELSE result[u]
                       /\ stream'[u] = IF u = w THEN "closed" ELSE stream[u]
  BY <1>1 DEF WatchInv, Queues
<1>6. Queues'
  BY <1>1, <1>2, EmptySeq DEF WatchInv, Queues
<1>7. Versions'
  BY <1>1, <1>2, <1>5 DEF WatchInv, Versions, Told
<1>8. Owners' /\ Opening' /\ Found' /\ Lawful' /\ AnswerIsList'
  BY <1>1, <1>2, <1>3, <1>5 DEF WatchInv, Owners, Opening, Found, Lawful, AnswerIsList, Version, hooks, stops
<1>9. Unopened'
  BY <1>1, <1>5 DEF WatchInv, Unopened, Counts, Watch
<1>10. ShowsList'
  BY <1>1, <1>2 DEF WatchInv, ShowsList, Alone, Version, hooks
<1>11. ASSUME NEW h \in Hook, Whole(h)' PROVE AddsUp(data[h], Pipe, Len(Pipe), since[1], Now)'
  <2>1. w # 1
    BY <1>5, <1>11 DEF Whole
  <2>2. Whole(h)
    BY <1>1, <1>11, <2>1 DEF Whole, WatchInv, Queues, hooks
  <2>3. AddsUp(data[h], Pipe, Len(Pipe), since[1], Now)
    BY <2>2 DEF WatchInv, Pipeline
  <2>4. Pipe' = Pipe /\ since'[1] = since[1] /\ data'[h] = data[h] /\ UNCHANGED changes
    BY <1>1, <2>1 DEF Pipe, WatchInv, Queues, hooks
  <2>5. QED
    BY <1>2, <2>3, <2>4 DEF AddsUp, EventOf, Version
<1>12. QED
  BY <1>4, <1>6, <1>7, <1>8, <1>9, <1>10, <1>11 DEF WatchInv, Pipeline

-------------------------------------------------------------------------------
\* The first event on its way makes the next version of what is shown.
LEMMA NextVersion ==
  ASSUME Counts, Lawful, NEW n \in 1..Now
  PROVE  Apply(Version(n - 1), EventOf(n)) = Version(n)
<1>1. /\ changes[n] \in ChangeType /\ (changes[n] = "ADDED") = (Version(n - 1) = 0)
      /\ EventOf(n).type = changes[n] /\ EventOf(n).version = n /\ n # 0
  BY DEF Counts, Lawful, Now, EventOf, Event
<1>2. CASE changes[n] = "ADDED"
  BY <1>1, <1>2 DEF Apply, Version
<1>3. CASE changes[n] = "MODIFIED"
  BY <1>1, <1>3 DEF Apply, Version
<1>4. CASE changes[n] = "DELETED"
  BY <1>1, <1>4 DEF Apply, Version
<1>5. QED
  BY <1>1, <1>2, <1>3, <1>4 DEF ChangeType

LEMMA AddsUpOneLess ==
  ASSUME Counts, Lawful, NEW n \in Nat, n = Now, NEW p \in Seq(AnyEvent), NEW k \in Nat, k = Len(p), k # 0,
         NEW v, NEW m \in 0..n, AddsUp(v, p, k, m, n)
  PROVE  AddsUp(Apply(v, p[1]), Tail(p), k - 1, m, n)
<1>1. PICK q : q = Tail(p) /\ \A i \in 1..k - 1 : q[i] = p[i + 1]
  <2>1. p # <<>>
    BY EmptySeq
  <2>2. Len(Tail(p)) = k - 1 /\ \A i \in 1..Len(Tail(p)) : Tail(p)[i] = p[i + 1]
    BY <2>1, HeadTailProperties
  <2>3. QED
    BY <2>2
<1>2. CASE /\ k <= n - m /\ v = Version(n - k)
           /\ \A i \in 1..k : p[i] = EventOf(n - k + i)
  <2>1. PICK j \in 1..n : j = n - k + 1 /\ n - k = j - 1 /\ n - (k - 1) = j
    <3>1. k \in 1..n
      BY <1>2
    <3>2. PICK j : j = n - k + 1
      OBVIOUS
    <3>3. j \in 1..n /\ n - k = j - 1 /\ n - (k - 1) = j
      BY <3>1, <3>2
    <3>4. QED
      BY <3>2, <3>3
  <2>2. p[1] = EventOf(j) /\ v = Version(j - 1)
    BY <1>2, <2>1
  <2>3. Apply(v, p[1]) = Version(n - (k - 1))
    BY <2>1, <2>2, NextVersion
  <2>4. \A i \in 1..k - 1 : i + 1 \in 1..k /\ n - k + (i + 1) = n - (k - 1) + i
    OBVIOUS
  <2>5. \A i \in 1..k - 1 : q[i] = EventOf(n - (k - 1) + i)
    BY <1>1, <1>2, <2>4
  <2>6. k - 1 <= n - m
    BY <1>2
  <2>7. QED
    BY <1>1, <2>3, <2>5, <2>6 DEF AddsUp
<1>3. CASE /\ k = n - m + 1 /\ v = Version(m) /\ v # 0 /\ p[1] = Event("ADDED", m)
           /\ \A i \in 2..k : p[i] = EventOf(n - k + i)
  <2>1. Apply(v, p[1]) = v /\ m = n - (k - 1) /\ k - 1 <= n - m
    BY <1>3 DEF Apply, Event
  <2>2. \A i \in 1..k - 1 : i + 1 \in 2..k /\ n - k + (i + 1) = n - (k - 1) + i
    OBVIOUS
  <2>3. \A i \in 1..k - 1 : q[i] = EventOf(n - (k - 1) + i)
    BY <1>1, <1>3, <2>2
  <2>4. Apply(v, p[1]) = Version(n - (k - 1))
    BY <1>3, <2>1
  <2>5. QED
    BY <1>1, <2>1, <2>3, <2>4 DEF AddsUp
<1>4. QED
  BY <1>2, <1>3 DEF AddsUp

\* Only a watch that was opened has anything to emit.
LEMMA Emitting ==
  ASSUME WatchInv, NEW w \in Watch, Emit(w)
  PROVE  /\ ch[w] \in Seq(AnyEvent) /\ ch[w] # <<>>
         /\ Tail(ch[w]) \in Seq(AnyEvent) /\ Len(Tail(ch[w])) = Len(ch[w]) - 1 /\ Len(ch[w]) \in Nat \ {0}
         /\ \A i \in 1..Len(Tail(ch[w])) : Tail(ch[w])[i] = ch[w][i + 1]
         /\ Head(ch[w]) \in AnyEvent /\ Head(ch[w]) = ch[w][1] /\ Head(ch[w]).version \in 0..Now
         /\ w \in 1..opened /\ stream[w] # "opening"
<1>1. ch[w] \in Seq(AnyEvent) /\ ch[w] # <<>>
  BY DEF Emit, WatchInv, Queues
<1>2. /\ Tail(ch[w]) \in Seq(AnyEvent) /\ Len(Tail(ch[w])) = Len(ch[w]) - 1 /\ Len(ch[w]) \in Nat \ {0}
      /\ \A i \in 1..Len(Tail(ch[w])) : Tail(ch[w])[i] = ch[w][i + 1]
      /\ Head(ch[w]) \in AnyEvent /\ Head(ch[w]) = ch[w][1]
  BY <1>1, HeadTailProperties, EmptySeq
<1>3. Head(ch[w]).version \in 0..Now
  <2>1. Told(ch[w])
    BY DEF WatchInv, Versions
  <2>2. ch[w][1].version <= Now
    BY <1>2, <2>1 DEF Told
  <2>3. Head(ch[w]).version \in Nat
    BY <1>2 DEF AnyEvent
  <2>4. QED
    BY <1>2, <2>2, <2>3 DEF WatchInv, Counts, Now
<1>4. stream[w] # "opening"
  BY <1>1 DEF WatchInv, Unopened
<1>5. w \in 1..opened
  BY <1>4 DEF WatchInv, Unopened, Counts, Watch
<1>6. QED
  BY <1>1, <1>2, <1>3, <1>4, <1>5

LEMMA EmitTypes ==
  ASSUME WatchInv, NEW w \in Watch, Emit(w)
  PROVE  Counts' /\ Queues' /\ Versions' /\ Unopened'
<1>1. /\ ch' = [ch EXCEPT ![w] = Tail(ch[w])]
      /\ data' = [h \in Hook |-> IF mounted[h] = "yes" THEN Apply(data[h], Head(ch[w])) ELSE data[h]]
      /\ UNCHANGED <<changes, table, opened, done, stream, since, result, dropped,
                     hookStep, mounted, answer, listed, mine, stop, held>>
  BY DEF Emit, stops
<1>2. Now' = Now
  BY <1>1 DEF Now
<1>3. data' \in [Hook -> 0..Now]
  <2>1. PICK e \in AnyEvent : e = Head(ch[w]) /\ e.version \in 0..Now
    BY Emitting
  <2>2. \A h \in Hook : Apply(data[h], e) \in 0..Now
    <3>1. e.type \in ChangeType
      BY DEF AnyEvent
    <3>2. \A h \in Hook : data[h] \in 0..Now /\ 0 \in 0..Now
      BY DEF WatchInv, Counts, Now
    <3>3. QED
      BY <2>1, <3>1, <3>2 DEF Apply, ChangeType
  <2>3. data \in [Hook -> 0..Now]
    BY DEF WatchInv, Counts
  <2>4. QED
    BY <1>1, <2>1, <2>2, <2>3
<1>4. Counts'
  BY <1>1, <1>2, <1>3 DEF WatchInv, Counts
<1>5. \A u \in Watch : ch'[u] = IF u = w THEN Tail(ch[w]) ELSE ch[u]
  BY <1>1 DEF WatchInv, Queues
<1>11. PICK c \in Seq(AnyEvent) : c = Tail(ch[w])
  BY Emitting
<1>12. PICK l \in Nat : l = Len(c)
  BY LenProperties
<1>6. c = Tail(ch[w]) /\ Len(c) = l /\ Len(ch[w]) = l + 1 /\ \A i \in 1..l : c[i] = ch[w][i + 1]
  BY <1>11, <1>12, Emitting
<1>7. Queues'
  <2>1. ch' \in [Watch -> Seq(AnyEvent)]
    BY <1>1, <1>6 DEF WatchInv, Queues
  <2>2. \A u \in Watch : Len(ch'[u]) <= ChanCap
    <3>1. \A u \in Watch : Len(ch[u]) <= ChanCap
      BY DEF WatchInv, Queues
    <3>2. l <= ChanCap
      BY <1>6, <3>1
    <3>3. QED
      BY <1>5, <1>6, <3>1, <3>2
  <2>3. QED
    BY <1>1, <1>2, <2>1, <2>2 DEF WatchInv, Queues
<1>8. Versions'
  <2>1. \A u \in Watch : Told(ch[u]) /\ Told(result[u])
    BY DEF WatchInv, Versions
  <2>2. \A i \in 1..l : c[i].version <= Now
    BY <1>6, <2>1 DEF Told
  <2>3. \A u \in Watch : \A i \in 1..Len(ch'[u]) : ch'[u][i].version <= Now
    BY <1>5, <1>6, <2>1, <2>2 DEF Told
  <2>4. QED
    BY <1>1, <1>2, <2>1, <2>3 DEF Versions, Told
<1>9. Unopened'
  BY <1>1, <1>5, Emitting DEF WatchInv, Unopened
<1>10. QED
  BY <1>4, <1>7, <1>8, <1>9

LEMMA EmitKeeps ==
  ASSUME WatchInv, NEW w \in Watch, Emit(w)
  PROVE  WatchInv'
<1>1. /\ ch' = [ch EXCEPT ![w] = Tail(ch[w])]
      /\ data' = [h \in Hook |-> IF mounted[h] = "yes" THEN Apply(data[h], Head(ch[w])) ELSE data[h]]
      /\ UNCHANGED <<changes, table, opened, done, stream, since, result, dropped,
                     hookStep, mounted, answer, listed, mine, stop, held>>
  BY DEF Emit, stops
<1>2. Now' = Now /\ \A i \in Nat : Version(i)' = Version(i)
  BY <1>1 DEF Now, Version
<1>3. Registered' = Registered
  BY <1>1 DEF Registered
<1>4. Phases' /\ Owners' /\ Opening' /\ Found' /\ Lawful' /\ AnswerIsList'
  BY <1>1, <1>2, <1>3 DEF WatchInv, Phases, Owners, Opening, Found, Lawful, AnswerIsList, Version
<1>5. opened = 1 => w = 1
  BY Emitting
<1>6. ASSUME NEW h \in Hook PROVE ~Alone(h)'
  <2>1. opened # 0
    BY Emitting
  <2>2. ~(hookStep[h] = "open" /\ opened = 1)
    <3>1. SUFFICES ASSUME hookStep[h] = "open", opened = 1 PROVE FALSE
      OBVIOUS
    <3>2. mine[h] = 1 /\ stream[1] = "opening"
      BY <3>1, OpeningWatch
    <3>3. QED
      BY <1>5, <3>1, <3>2, Emitting
  <2>3. QED
    BY <1>1, <2>1, <2>2 DEF Alone
<1>7. ASSUME NEW h \in Hook, Whole(h)' PROVE AddsUp(data[h], Pipe, Len(Pipe), since[1], Now)'
  <2>1. Whole(h) /\ w = 1 /\ mounted[h] = "yes"
    BY <1>1, <1>5, <1>7 DEF Whole
  <2>2. AddsUp(data[h], Pipe, Len(Pipe), since[1], Now)
    BY <2>1 DEF WatchInv, Pipeline
  <2>3. /\ Pipe \in Seq(AnyEvent) /\ Pipe # <<>>
        /\ Tail(ch[1]) \o result[1] = Tail(Pipe) /\ Head(ch[1]) = Head(Pipe)
    <3>1. ch[1] \in Seq(AnyEvent) /\ ch[1] # <<>> /\ result[1] \in Seq(AnyEvent)
      BY <2>1, Emitting DEF WatchInv, Queues
    <3>2. QED
      BY <3>1, PipeEmpties DEF Pipe
  <2>4. PICK p \in Seq(AnyEvent) : p = Pipe /\ p # <<>>
    BY <2>3
  <2>5. PICK k \in Nat : k = Len(p) /\ k # 0
    BY <2>4, LenProperties, EmptySeq
  <2>6. Head(p) = p[1] /\ Len(Tail(p)) = k - 1
    BY <2>4, <2>5, HeadTailProperties
  <2>7. PICK n \in Nat : n = Now
    BY DEF WatchInv, Counts, Now
  <2>8. PICK m \in 0..n : m = since[1]
    BY <2>1, <2>7 DEF WatchInv, Queues
  <2>9. PICK v : v = data[h]
    OBVIOUS
  <2>10. PICK q, a : q = Tail(p) /\ a = Apply(v, p[1])
    OBVIOUS
  <2>11. AddsUp(a, q, k - 1, m, n)
    BY <2>2, <2>4, <2>5, <2>7, <2>8, <2>9, <2>10, AddsUpOneLess DEF WatchInv
  <2>12. Pipe' = q
    <3>1. ch'[1] = Tail(ch[1]) /\ result'[1] = result[1]
      BY <1>1, <2>1 DEF WatchInv, Queues
    <3>2. QED
      BY <2>3, <2>4, <2>10, <3>1 DEF Pipe
  <2>13. data'[h] = a
    BY <1>1, <2>1, <2>3, <2>4, <2>6, <2>9, <2>10
  <2>14. since'[1] = m /\ Now' = n /\ Len(q) = k - 1 /\ UNCHANGED changes
    BY <1>1, <1>2, <2>6, <2>7, <2>8, <2>10
  <2>15. AddsUp(a, q, k - 1, m, n)'
    BY <2>11, <2>14 DEF AddsUp, EventOf, Version
  <2>16. QED
    BY <2>12, <2>13, <2>14, <2>15
<1>8. QED
  BY <1>4, <1>6, <1>7, EmitTypes DEF WatchInv, ShowsList, Pipeline

-------------------------------------------------------------------------------
\* Stopping: the watch that leaves the table is held until it is cancelled.
LEMMA StopKeeps ==
  ASSUME WatchInv, NEW h \in Hook, StopWatch(h) \/ CancelHeld(h)
  PROVE  WatchInv'
<1>1. UNCHANGED <<changes, opened, streams, hooks>>
  BY DEF StopWatch, CancelHeld
<1>2. Now' = Now /\ \A i \in Nat : Version(i)' = Version(i) /\ Registered' = Registered
  BY <1>1 DEF Now, Version, hooks, Registered
<1>3. /\ table \in 0..opened /\ held \in [Hook -> 0..opened] /\ done \subseteq 1..opened /\ opened \in Nat
      /\ stop \in [Hook -> {"no", "called", "over"}]
  BY DEF WatchInv, Counts, Phases
<1>4. \/ UNCHANGED <<table, held, done>> /\ stop' = [stop EXCEPT ![h] = "over"]
      \/ held' = [held EXCEPT ![h] = table] /\ held[h] = None /\ table' = None /\ UNCHANGED <<stop, done>>
      \/ /\ done' = done \cup {held[h]} /\ held[h] # None /\ held' = [held EXCEPT ![h] = None]
         /\ stop' = [stop EXCEPT ![h] = "over"] /\ UNCHANGED table
  BY DEF StopWatch, CancelHeld
<1>5. Counts' /\ Phases'
  <2>1. /\ table' \in 0..opened /\ held' \in [Hook -> 0..opened] /\ done' \subseteq 1..opened
        /\ stop' \in [Hook -> {"no", "called", "over"}]
    <3>1. CASE UNCHANGED <<table, held, done>> /\ stop' = [stop EXCEPT ![h] = "over"]
      BY <1>3, <3>1
    <3>2. CASE held' = [held EXCEPT ![h] = table] /\ table' = None /\ UNCHANGED <<stop, done>>
      BY <1>3, <3>2
    <3>3. CASE /\ done' = done \cup {held[h]} /\ held[h] # None /\ held' = [held EXCEPT ![h] = None]
               /\ stop' = [stop EXCEPT ![h] = "over"] /\ UNCHANGED table
      <4>1. held[h] \in 1..opened /\ 0 \in 0..opened
        BY <1>3, <3>3
      <4>2. held' \in [Hook -> 0..opened] /\ stop' \in [Hook -> {"no", "called", "over"}]
        BY <1>3, <3>3, <4>1
      <4>3. QED
        BY <1>3, <3>3, <4>1, <4>2
    <3>4. QED
      BY <1>4, <3>1, <3>2, <3>3
  <2>2. QED
    BY <1>1, <1>2, <2>1 DEF WatchInv, Counts, Phases, hooks, streams
<1>6. Queues' /\ Versions' /\ Owners' /\ Unopened' /\ Opening' /\ Lawful' /\ AnswerIsList'
  <2>1. Queues' /\ Versions' /\ Unopened'
    BY <1>1, <1>2 DEF WatchInv, Queues, Versions, Told, Unopened, streams
  <2>2. Owners' /\ Opening'
    BY <1>1, <1>2 DEF WatchInv, Owners, Opening, Registered, hooks, streams
  <2>3. Lawful' /\ AnswerIsList'
    BY <1>1, <1>2 DEF WatchInv, Lawful, AnswerIsList, Version, hooks
  <2>4. QED
    BY <2>1, <2>2, <2>3
<1>7. Found'
  BY <1>1, <1>3, <1>4 DEF WatchInv, Found
<1>8. ShowsList'
  BY <1>1, <1>2 DEF WatchInv, ShowsList, Alone, Version, hooks
<1>9. ASSUME NEW g \in Hook, Whole(g)' PROVE AddsUp(data[g], Pipe, Len(Pipe), since[1], Now)'
  <2>1. Whole(g) /\ data'[g] = data[g] /\ Pipe' = Pipe /\ since'[1] = since[1] /\ UNCHANGED changes
    BY <1>1, <1>9 DEF Whole, Pipe, hooks, streams
  <2>2. QED
    BY <1>2, <2>1 DEF WatchInv, Pipeline, AddsUp, EventOf, Version
<1>10. QED
  BY <1>5, <1>6, <1>7, <1>8, <1>9 DEF WatchInv, Pipeline

LEMMA WatchStutters ==
  ASSUME WatchInv, UNCHANGED watchVars
  PROVE  WatchInv'
<1>1. UNCHANGED <<changes, table, opened, done, stream, since, result, ch, dropped,
                  hookStep, mounted, answer, listed, data, mine, stop, held>>
  BY DEF watchVars, streams, hooks, stops
<1>2. Now' = Now /\ Pipe' = Pipe /\ Registered' = Registered /\ \A i : Version(i)' = Version(i)
  BY <1>1 DEF Now, Pipe, Registered, Version
<1>3. Counts' /\ Phases' /\ Queues' /\ Versions'
  BY <1>1, <1>2 DEF WatchInv, Counts, Phases, Queues, Versions, Told
<1>4. Owners' /\ Unopened' /\ Opening' /\ Found'
  BY <1>1, <1>2 DEF WatchInv, Owners, Unopened, Opening, Found
<1>5. Lawful' /\ AnswerIsList' /\ ShowsList'
  BY <1>1, <1>2 DEF WatchInv, Lawful, AnswerIsList, ShowsList, Alone
<1>6. ASSUME NEW h \in Hook, Whole(h)' PROVE AddsUp(data[h], Pipe, Len(Pipe), since[1], Now)'
  <2>1. Whole(h)
    BY <1>1, <1>6 DEF Whole
  <2>2. QED
    BY <1>1, <1>2, <2>1 DEF WatchInv, Pipeline, AddsUp, EventOf
<1>7. QED
  BY <1>3, <1>4, <1>5, <1>6 DEF WatchInv, Pipeline

LEMMA WatchInductive == WatchInv /\ [WatchNext]_watchVars => WatchInv'
<1> SUFFICES ASSUME WatchInv, [WatchNext]_watchVars PROVE WatchInv'
  OBVIOUS
<1>1. CASE \E type \in {"ADDED", "MODIFIED", "DELETED"} : Change(type)
  BY <1>1, ChangeKeeps DEF ChangeType
<1>2. ASSUME NEW h \in Hook, Mount(h) \/ ListFails(h) \/ Unmount(h) \/ Call(h)
      PROVE  WatchInv'
  BY <1>2, HookKeeps, RegisterKeeps, OpenKeeps, OpenFailsKeeps, StopKeeps DEF Call
<1>3. ASSUME NEW w \in Watch, Backend(w) \/ ServerCloses(w)
      PROVE  WatchInv'
  BY <1>3, ForwardKeeps, CloseKeeps, EmitKeeps DEF Backend
<1>4. CASE UNCHANGED watchVars
  BY <1>4, WatchStutters
<1>5. QED
  BY <1>1, <1>2, <1>3, <1>4 DEF WatchNext

\* The invariant, of every behaviour.
THEOREM WatchInvariant == WatchSpec => []WatchInv
BY WatchStarts, WatchInductive, PTL DEF WatchSpec

\* A watch that goes on is in the table, or a StopWatch has it in hand: none escapes
\* those who could stop it (resource_handler.go:415-423, 469-480).
THEOREM NoWatchEscapes == WatchSpec => []WatchSafe
<1>1. WatchInv => WatchTypeOK
  <2> SUFFICES ASSUME WatchInv PROVE WatchTypeOK
    OBVIOUS
  <2>1. opened \in {None} \cup Watch
    BY OpenedAreWatches DEF WatchInv, Counts
  <2>2. \A h \in Hook : /\ hookStep[h] \in {"idle", "list", "answer", "watch", "open", "over"}
                        /\ mounted[h] \in {"not yet", "yes", "gone"}
                        /\ stop[h] \in {"no", "called", "over"}
    BY DEF WatchInv, Phases
  <2>3. \A h \in Hook : /\ {answer[h], listed[h], data[h]} \subseteq 0..Now
                        /\ {mine[h], held[h]} \subseteq {None} \cup 1..opened
    BY DEF WatchInv, Counts
  <2>4. \A w \in Watch : /\ stream[w] \in {"opening", "open", "closed"}
                         /\ since[w] \in 0..Now /\ Len(ch[w]) <= ChanCap
    BY DEF WatchInv, Queues
  <2>5. /\ changes \in Seq(ChangeType) /\ Now <= MaxChanges /\ table \in {None} \cup 1..opened
        /\ done \subseteq 1..opened /\ dropped \subseteq 1..opened
    BY DEF WatchInv, Counts
  <2>6. QED
    BY <2>1, <2>2, <2>3, <2>4, <2>5 DEF WatchTypeOK, ChangeType
<1>2. WatchInv => WatchFound
  BY DEF WatchInv, Found, WatchFound
<1>3. QED
  BY <1>1, <1>2, WatchInvariant, PTL DEF WatchSafe

\* A hook that is the only one and has heard everything shows what the server has:
\* the events that repeat the list and those that follow it add up
\* (useKubeResource.ts:30-102, service.go:127-163).
THEOREM LoneHookConverges == WatchSpec => []Converges
<1>1. WatchInv => Converges
  <2> SUFFICES ASSUME WatchInv, NEW h \in Hook, Settled(h), since[1] = listed[h]
               PROVE  data[h] = Version(Now)
    BY DEF Converges
  <2>1. Whole(h)
    BY DEF Whole, Settled
  <2>2. Pipe = <<>> /\ Len(Pipe) = 0
    <3>1. ch[1] = <<>> /\ result[1] = <<>>
      BY DEF Settled
    <3>2. <<>> \in Seq(AnyEvent) /\ Len(<<>>) = 0
      BY EmptySeq
    <3>3. <<>> \o <<>> = <<>>
      BY <3>2, ConcatEmptySeq
    <3>4. QED
      BY <3>1, <3>2, <3>3 DEF Pipe
  <2>3. PICK n \in Nat : n = Now
    BY DEF WatchInv, Counts, Now
  <2>4. PICK m \in 0..n : m = since[1]
    <3>1. 1 \in Watch
      BY <2>1, OpenedAreWatches DEF Whole, WatchInv
    <3>2. QED
      BY <2>3, <3>1 DEF WatchInv, Queues
  <2>5. AddsUp(data[h], Pipe, 0, m, n)
    BY <2>1, <2>2, <2>3, <2>4 DEF WatchInv, Pipeline
  <2>6. data[h] = Version(n - 0)
    BY <2>5 DEF AddsUp
  <2>7. QED
    BY <2>3, <2>6
<1>2. QED
  BY <1>1, WatchInvariant, PTL
=============================================================================
