--------------------------- MODULE CachingCollector ---------------------------
(***************************************************************************)
(* cachingCollector.Collect: a collector with a non-zero min_interval, its *)
(* cache and the channel of capacity one (cacheSem) that protects it, under*)
(* concurrent scrapes whose contexts may close at any time.                *)
(*                                                                         *)
(* The wrapped collector is a source of metrics: it has up to MaxRows to   *)
(* tell, values or the errors of queries, all read from the database after *)
(* the run began, and may stop at any of them once its context is closed.  *)
(* A scrape runs it at most once, so a run is named after its scrape.  The *)
(* metrics channel of the scrape (ch) is always drained, by                *)
(* exporter.Gather or Warmup.Run, and a send on it never blocks for good.  *)
(***************************************************************************)
EXTENDS Naturals, Sequences

CONSTANTS
  Scrape,       \* calls of Collect
  Timed,        \* those whose context may close, with a timeout or a client
  Kinds,        \* what a query tells: values, and errors if it may fail
  MinInterval,  \* cc.minInterval
  MaxRows,      \* bound: metrics of one run of the wrapped collector
  MaxTime       \* bound: the clock stops there

ASSUME CallAssumption == Timed \subseteq Scrape /\ Kinds \subseteq {"value", "queryerror"}
ASSUME IntervalAssumption == MinInterval \in Nat \ {0}
ASSUME BoundAssumption == MaxRows \in Nat /\ MaxTime \in Nat

VARIABLES
  now,        \* the clock, time.Now()
  token,      \* the content of cacheSem, as a set of at most one cache time
  cache,      \* cc.cache
  pc,         \* where each call is
  closed,     \* the calls whose context is closed
  collTime,   \* collTime of each call
  cacheTime,  \* cacheTime of each call
  answer,     \* what each call has sent to ch
  began,      \* history: when each call started the wrapped collector
  size        \* history: how many metrics its run has to tell

history == <<began, size>>
locals == <<pc, closed, collTime, cacheTime, answer, history>>
vars == <<now, token, cache, locals>>

\* Instants are numbered from 1; the zero time lies further back than any interval.
Instant == 0 .. MinInterval + 1 + MaxTime
ZeroTime == 0
StartTime == MinInterval + 1

\* A metric, the run it comes from and its number there; the errors are
\* NewInvalidMetric values, and those of the context have no number.
Metric == [kind : {"value", "queryerror", "ctxerror"}, run : Scrape, nr : 0 .. MaxRows]

Holding == {"fresh", "serve", "release"}

TypeOK ==
  /\ now \in Instant
  /\ token \subseteq Instant
  /\ cache \in Seq(Metric)
  /\ pc \in [Scrape -> {"start", "select", "done"} \cup Holding]
  /\ closed \subseteq Scrape
  /\ collTime \in [Scrape -> Instant]
  /\ cacheTime \in [Scrape -> Instant]
  /\ answer \in [Scrape -> Seq(Metric)]
  /\ began \in [Scrape -> Instant]
  /\ size \in [Scrape -> 0 .. MaxRows]

Init ==
  /\ now = StartTime
  /\ token = {ZeroTime}
  /\ cache = <<>>
  /\ pc = [s \in Scrape |-> "start"]
  /\ closed = {}
  /\ collTime = [s \in Scrape |-> ZeroTime]
  /\ cacheTime = [s \in Scrape |-> ZeroTime]
  /\ answer = [s \in Scrape |-> <<>>]
  /\ began = [s \in Scrape |-> ZeroTime]
  /\ size = [s \in Scrape |-> 0]

Tick ==
  /\ now < StartTime + MaxTime
  /\ now' = now + 1
  /\ UNCHANGED <<token, cache, locals>>

\* The deadline of the scrape passes.  Before the call begins, that is for
\* GiveUp to say; once the wrapped collector is done, or is not needed, nobody
\* looks at the context any more.
CloseContext(s) ==
  /\ s \in Timed \ closed /\ pc[s] \in {"select", "fresh"}
  /\ closed' = closed \cup {s}
  /\ UNCHANGED <<now, token, cache, pc, collTime, cacheTime, answer, history>>

Goto(s, from, to) == pc[s] = from /\ pc' = [pc EXCEPT ![s] = to]
Send(s, m) == answer' = [answer EXCEPT ![s] = Append(@, m)]
CtxError(s) == [kind |-> "ctxerror", run |-> s, nr |-> 0]

\* Where an answer has metrics that are no errors of its own context.
Kept(s) == {i \in DOMAIN answer[s] : answer[s][i].kind # "ctxerror"}

\* Collect begins: the time is taken before the cache is available.
Begin(s) ==
  /\ Goto(s, "start", "select")
  /\ collTime' = [collTime EXCEPT ![s] = now]
  /\ UNCHANGED <<now, token, cache, closed, cacheTime, answer, history>>

\* Mutant: giving up returns a token it never took.
GiveUpReleases(s) ==
  /\ \/ Goto(s, "start", "done") /\ s \in Timed /\ closed' = closed \cup {s}
     \/ Goto(s, "select", "release") /\ s \in closed /\ UNCHANGED closed
  /\ Send(s, CtxError(s))
  /\ UNCHANGED <<now, token, cache, collTime, cacheTime, history>>

\* The context is closed on entry, or closes first in the select.
GiveUp(s) ==
  /\ \/ Goto(s, "start", "done") /\ s \in Timed /\ closed' = closed \cup {s}
     \/ Goto(s, "select", "done") /\ s \in closed /\ UNCHANGED closed
  /\ Send(s, CtxError(s))
  /\ UNCHANGED <<now, token, cache, collTime, cacheTime, history>>

\* age > cc.minInterval || len(cc.cache) == 0
Stale(s, time) == collTime[s] > time + MinInterval \/ cache = <<>>

\* The wrapped collector is started, and has some metrics to tell.
StartRun(s) ==
  /\ began' = [began EXCEPT ![s] = now]
  /\ \E n \in 0 .. MaxRows : size' = [size EXCEPT ![s] = n]

\* Mutant: the cache is not emptied before it is refilled.
TakeFreshAppends(s) ==
  \E time \in token :
    /\ Goto(s, "select", "fresh") /\ Stale(s, time)
    /\ token' = {}
    /\ cacheTime' = [cacheTime EXCEPT ![s] = collTime[s]]
    /\ StartRun(s)
    /\ UNCHANGED <<now, cache, closed, collTime, answer>>

\* Mutant: the token carries the time the cache expires.
TakeFreshExpiry(s) ==
  \E time \in token :
    /\ Goto(s, "select", "fresh") /\ Stale(s, time)
    /\ token' = {}
    /\ cache' = <<>>
    /\ cacheTime' = [cacheTime EXCEPT ![s] = collTime[s] + MinInterval]
    /\ StartRun(s)
    /\ UNCHANGED <<now, closed, collTime, answer>>

\* Mutant: the cache keeps the age it had before it was refilled.
TakeFreshUndated(s) ==
  \E time \in token :
    /\ Goto(s, "select", "fresh") /\ Stale(s, time)
    /\ token' = {}
    /\ cache' = <<>>
    /\ cacheTime' = [cacheTime EXCEPT ![s] = time]
    /\ StartRun(s)
    /\ UNCHANGED <<now, closed, collTime, answer>>

\* Case <-cc.cacheSem: the cache is too old, it is emptied and refilled.
TakeFresh(s) ==
  \E time \in token :
    /\ Goto(s, "select", "fresh") /\ Stale(s, time)
    /\ token' = {}
    /\ cache' = <<>>
    /\ cacheTime' = [cacheTime EXCEPT ![s] = collTime[s]]
    /\ StartRun(s)
    /\ UNCHANGED <<now, closed, collTime, answer>>

\* Case <-cc.cacheSem: the cache is young enough to be sent.
TakeCached(s) ==
  \E time \in token :
    /\ Goto(s, "select", "serve") /\ ~ Stale(s, time)
    /\ token' = {}
    /\ cacheTime' = [cacheTime EXCEPT ![s] = time]
    /\ UNCHANGED <<now, cache, closed, collTime, answer, history>>

\* The next metric of the wrapped collector, of any kind, while the context is
\* open.
Keep(s) ==
  /\ pc[s] = "fresh" /\ s \notin closed /\ Len(answer[s]) < size[s]
  /\ \E kind \in Kinds :
       LET m == [kind |-> kind, run |-> s, nr |-> Len(answer[s]) + 1] IN
       /\ cache' = Append(cache, m)
       /\ Send(s, m)
  /\ UNCHANGED <<now, token, pc, closed, collTime, cacheTime, history>>

\* Mutant: metrics are sent before they are checked.
DiscardLate(s) ==
  /\ pc[s] = "fresh" /\ s \in closed /\ Kept(s) = DOMAIN answer[s]
  /\ cache' = Append(cache, CtxError(s))
  /\ Send(s, CtxError(s))
  /\ UNCHANGED <<now, token, pc, closed, collTime, cacheTime, history>>

\* A metric of the wrapped collector after the context has closed, or the
\* error it ends with; bound: one stands for those that follow it.
Discard(s) ==
  /\ pc[s] = "fresh" /\ s \in closed /\ Kept(s) = DOMAIN answer[s]
  /\ Send(s, CtxError(s))
  /\ UNCHANGED <<now, token, cache, pc, closed, collTime, cacheTime, history>>

\* Mutant: a closed context returns at once, with the token.
EndFreshReturns(s) ==
  /\ Goto(s, "fresh", IF s \in closed THEN "done" ELSE "release")
  /\ UNCHANGED <<now, token, cache, closed, collTime, cacheTime, answer, history>>

\* Mutant: the rest of what the wrapped collector tells is not waited for.
EndFreshEarly(s) ==
  /\ Goto(s, "fresh", "release")
  /\ UNCHANGED <<now, token, cache, closed, collTime, cacheTime, answer, history>>

\* The wrapped collector is done, with all it has to tell unless its context
\* is closed, and closes cacheChan.  What has been kept is the cache, dated the
\* same in both cases.
EndFresh(s) ==
  /\ Goto(s, "fresh", "release")
  /\ Len(answer[s]) = size[s] \/ s \in closed
  /\ UNCHANGED <<now, token, cache, closed, collTime, cacheTime, answer, history>>

ServeNext(s) ==
  /\ pc[s] = "serve" /\ Len(answer[s]) < Len(cache)
  /\ Send(s, cache[Len(answer[s]) + 1])
  /\ UNCHANGED <<now, token, cache, pc, closed, collTime, cacheTime, history>>

EndServe(s) ==
  /\ Goto(s, "serve", "release") /\ Len(answer[s]) = Len(cache)
  /\ UNCHANGED <<now, token, cache, closed, collTime, cacheTime, answer, history>>

\* cc.cacheSem <- cacheTime waits for room in the channel.
Release(s) ==
  /\ Goto(s, "release", "done")
  /\ token = {}
  /\ token' = {cacheTime[s]}
  /\ UNCHANGED <<now, cache, closed, collTime, cacheTime, answer, history>>

Collect(s) ==
  \/ Begin(s) \/ GiveUp(s) \/ TakeFresh(s) \/ TakeCached(s) \/ Keep(s) \/ Discard(s)
  \/ EndFresh(s) \/ ServeNext(s) \/ EndServe(s) \/ Release(s)

Next == Tick \/ \E s \in Scrape : Collect(s) \/ CloseContext(s)

Spec == Init /\ [][Next]_vars

\* The goroutines run, and a run of the wrapped collector ends.  Contexts
\* need not close.
Fairness == \A s \in Scrape : WF_vars(Collect(s) /\ pc[s] # "start")

FairSpec == Spec /\ Fairness

-----------------------------------------------------------------------------
(* Properties                                                              *)

Holders == {s \in Scrape : pc[s] \in Holding}

CopyOf(s, run) == Kept(s) = Kept(run) /\ \A i \in Kept(s) : answer[s][i] = answer[run][i]

\* An answer has the metrics of a run from the first on, and all of them
\* unless the run's own context was closed.
BeginningOf(s, run) ==
  /\ \A i \in Kept(s) : answer[s][i].nr = i /\ 1 .. i \subseteq Kept(s)
  /\ run \notin closed => Kept(s) = 1 .. size[run]

\* cacheSem is a lock: one call at a time runs the queries or reads the cache,
\* and none leaves without handing the cache on.
OneToken ==
  \/ Holders = {} /\ \E time \in Instant : token = {time}
  \/ token = {} /\ \E s \in Scrape : Holders = {s}

\* min_interval bounds staleness: what a scrape gets was read from the database
\* at most MinInterval before the scrape began to collect.
BoundedStaleness ==
  \A s \in Scrape : \A i \in DOMAIN answer[s] :
    answer[s][i].kind # "ctxerror" => began[answer[s][i].run] + MinInterval >= collTime[s]

\* An answer, cached or not, is one run's: its metrics in their order from the
\* first one on, and the same for every call it is served to.  Only a run that
\* its own context cut off (collector.go:155) is cached and served in part.
SameAsRun ==
  \A s \in Scrape : pc[s] \in {"release", "done"} =>
    \A i \in Kept(s) :
      LET run == answer[s][i].run IN CopyOf(s, run) /\ BeginningOf(s, run)

\* The context's errors are the caller's own and are never cached
\* (collector.go:154-159).
OwnErrors ==
  \A s \in Scrape : \A i \in DOMAIN answer[s] :
    answer[s][i].kind = "ctxerror" => answer[s][i].run = s

\* A run that put something into the cache is repeated only for a scrape that
\* began to collect more than MinInterval after it did.
RunSpacing ==
  [][\A s \in Scrape :
       pc[s] = "select" /\ pc'[s] = "fresh" /\ cache # <<>> =>
         collTime[s] > collTime[cache[1].run] + MinInterval]_vars

\* Nobody waits for the cache for ever, even if no context closes.
CollectEnds == \A s \in Scrape : pc[s] # "start" ~> pc[s] = "done"

\* collector.go:154: invalid metrics are not cached.
InvalidNotCached == \A i \in DOMAIN cache : cache[i].kind = "value"
=============================================================================
