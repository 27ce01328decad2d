---------------------------- MODULE ResourceSearch -----------------------------
(***************************************************************************)
(* One search over all types of resources (App.SearchResources, app.go,    *)
(* and the like Service.Search): workers take types from a channel that is *)
(* filled at once, list each and send what matches; the caller collects    *)
(* until it has enough and returns, whatever the workers are at.           *)
(***************************************************************************)
EXTENDS Naturals, Sequences, FiniteSets, Functions

CONSTANTS Type,       \* types of resources: gvrs
          Worker,     \* the pool
          MaxMatches, \* bound: matches of one type
          Enough      \* the caller stops at this many results

ASSUME SearchAssumption == /\ IsFiniteSet(Type)
                           /\ MaxMatches \in Nat \ {0} /\ Enough \in Nat \ {0}

VARIABLES
  jobs,          \* types no worker has taken; the channel is closed after the last
  worker,        \* worker[w]: what it is at, and with which type
  matches,       \* matches[t]: how many objects matched when t was listed
  resultsCh,     \* the channel of results: types whose matches were sent
  resultsClosed, \* it is closed: every worker has ended
  results,       \* the types whose matches the caller has
  gathered,      \* the caller has returned
  expired        \* the context of the calls has ended: ten seconds, or the return

searchVars == <<jobs, worker, matches, resultsCh, resultsClosed, results, gathered, expired>>

At(step, types) == [step |-> step, types |-> types]

SearchInit == /\ jobs = Type
              /\ worker = [w \in Worker |-> At("take", {})]
              /\ matches = [t \in Type |-> 0]
              /\ resultsCh = <<>>
              /\ resultsClosed = FALSE
              /\ results = {}
              /\ gathered = FALSE
              /\ expired = FALSE

Take(w) == /\ worker[w].step = "take" /\ jobs # {}
           /\ \E t \in jobs : /\ jobs' = jobs \ {t}
                              /\ worker' = [worker EXCEPT ![w] = At("list", {t})]
           /\ UNCHANGED <<matches, resultsCh, resultsClosed, results, gathered, expired>>

NoMore(w) == /\ worker[w].step = "take" /\ jobs = {}
             /\ worker' = [worker EXCEPT ![w] = At("done", {})]
             /\ UNCHANGED <<jobs, matches, resultsCh, resultsClosed, results, gathered, expired>>

\* The list comes, with matches or without, ...
TypeListed(w) == /\ worker[w].step = "list" /\ ~expired
                 /\ \E t \in worker[w].types, n \in 0..MaxMatches :
                      /\ matches' = [matches EXCEPT ![t] = n]
                      /\ worker' = [worker EXCEPT ![w] = IF n > 0 THEN At("send", {t}) ELSE At("take", {})]
                 /\ UNCHANGED <<jobs, resultsCh, resultsClosed, results, gathered, expired>>

\* ... or fails, and the type is left out.
ListFails(w) == /\ worker[w].step = "list"
                /\ worker' = [worker EXCEPT ![w] = At("take", {})]
                /\ UNCHANGED <<jobs, matches, resultsCh, resultsClosed, results, gathered, expired>>

\* The channel takes a result of every type, although the caller may be gone.
SmallCapacity == 1  \* faulty
Capacity == Cardinality(Type)

SendResult(w) == /\ worker[w].step = "send" /\ Len(resultsCh) < Capacity
                 /\ \E t \in worker[w].types : resultsCh' = Append(resultsCh, t)
                 /\ worker' = [worker EXCEPT ![w] = At("take", {})]
                 /\ UNCHANGED <<jobs, matches, resultsClosed, results, gathered, expired>>

CloseEarly ==  \* faulty: when the last type is taken
  /\ ~resultsClosed /\ jobs = {}
  /\ resultsClosed' = TRUE
  /\ UNCHANGED <<jobs, worker, matches, resultsCh, results, gathered, expired>>

\* wg.Wait, then close.
CloseResults == /\ ~resultsClosed /\ \A w \in Worker : worker[w].step = "done"
                /\ resultsClosed' = TRUE
                /\ UNCHANGED <<jobs, worker, matches, resultsCh, results, gathered, expired>>

Count(types) == SumFunctionOnSet(matches, types)

\* The caller takes the next result and leaves when it has enough.
Collect == /\ ~gathered /\ resultsCh # <<>>
           /\ resultsCh' = Tail(resultsCh)
           /\ results' = results \cup {Head(resultsCh)}
           /\ gathered' = (Count(results') >= Enough)
           /\ expired' = (expired \/ gathered')
           /\ UNCHANGED <<jobs, worker, matches, resultsClosed>>

Exhausted == /\ ~gathered /\ resultsCh = <<>> /\ resultsClosed
             /\ gathered' = TRUE
             /\ expired' = TRUE
             /\ UNCHANGED <<jobs, worker, matches, resultsCh, resultsClosed, results>>

SearchExpires == /\ ~expired
                 /\ expired' = TRUE
                 /\ UNCHANGED <<jobs, worker, matches, resultsCh, resultsClosed, results, gathered>>

Work(w) == Take(w) \/ NoMore(w) \/ TypeListed(w) \/ ListFails(w) \/ SendResult(w)

\* The caller has its answer.
Searched == gathered /\ UNCHANGED searchVars

SearchNext == \/ \E w \in Worker : Work(w)
              \/ CloseResults \/ Collect \/ Exhausted \/ SearchExpires \/ Searched

SearchSpec == SearchInit /\ [][SearchNext]_searchVars

\* Goroutines run; a list answers at the latest when its context ends.
SearchFairness == /\ \A w \in Worker : WF_searchVars(Work(w))
                  /\ WF_searchVars(CloseResults)
                  /\ WF_searchVars(Collect \/ Exhausted)

-------------------------------------------------------------------------------
SearchTypeOK == /\ jobs \subseteq Type
                /\ \A w \in Worker : /\ worker[w].step \in {"take", "list", "send", "done"}
                                     /\ worker[w].types \subseteq Type
                /\ matches \in [Type -> 0..MaxMatches]
                /\ resultsCh \in Seq(Type) /\ IsInjective(resultsCh)
                /\ resultsClosed \in BOOLEAN /\ gathered \in BOOLEAN /\ expired \in BOOLEAN
                /\ results \subseteq Type

\* A result list that stopped below the limit has every match that was found: the
\* channel is not closed while a worker may still send (app.go:328-339).
ResultsAreWhole == gathered => \/ Count(results) >= Enough
                               \/ results = {t \in Type : matches[t] > 0}

\* The workers of a search end, also when the caller has left them with results
\* nobody takes (app.go:270-272).
WorkersEnd == <>(resultsClosed /\ gathered)

\* The workers, the channel and the collector agree.
SearchSafe == SearchTypeOK /\ ResultsAreWhole
================================================================================
