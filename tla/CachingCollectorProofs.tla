------------------------ MODULE CachingCollectorProofs ------------------------
(***************************************************************************)
(* What cachingCollector guarantees for any number of concurrent calls,    *)
(* any interval and any stretch of time.                                   *)
(*                                                                         *)
(* BoundedStaleness and RunSpacing speak of answers; what makes them       *)
(* inductive is that the time that travels through cacheSem, and through   *)
(* the local cacheTime of the call that holds the cache, is the collTime   *)
(* of the run whose metrics the cache contains.                            *)
(***************************************************************************)
EXTENDS CachingCollector, TLAPS

Waiting == {"start", "select"}

\* cacheSem holds one time, or one call has the cache.
Exclusion ==
  /\ \A x, y \in token : x = y
  /\ \A s, u \in Holders : s = u
  /\ Holders # {} => token = {}
  /\ token = {} => Holders # {}

\* A call that waits has sent nothing and run nothing; a run begins after its
\* call does.
Order ==
  /\ \A s \in Scrape : pc[s] \in Waiting => answer[s] = <<>>
  /\ \A s \in Scrape : collTime[s] <= now
  /\ \A s \in Scrape : pc[s] = "fresh" => began[s] >= collTime[s] /\ cacheTime[s] = collTime[s]
  /\ \A s \in Scrape : pc[s] = "serve" => collTime[s] <= cacheTime[s] + MinInterval

\* The run a metric comes from is over or in progress, and dates the metric.
Run(m) ==
  /\ m.run \in Scrape /\ pc[m.run] \notin Waiting
  /\ began[m.run] >= collTime[m.run]

\* What the cache contains, and the time that goes with it.
CacheDated ==
  \A i \in DOMAIN cache :
    /\ cache[i].kind # "ctxerror" /\ Run(cache[i])
    /\ \A time \in token : collTime[cache[i].run] = time
    /\ \A s \in Holders : collTime[cache[i].run] = cacheTime[s]
    /\ \A s \in Scrape : pc[s] = "fresh" => cache[i].run = s

AnswersDated ==
  \A s \in Scrape : \A i \in DOMAIN answer[s] :
    answer[s][i].kind # "ctxerror" => Run(answer[s][i])

Over == {"release", "done"}

\* The metrics of the cache are those that one run kept, where it kept them.
CacheCopies ==
  \A i \in DOMAIN cache :
    /\ pc[cache[i].run] \in Over \cup {"fresh"}
    /\ Kept(cache[i].run) = DOMAIN cache
    /\ \A k \in DOMAIN cache : answer[cache[i].run][k] = cache[k]

\* A run keeps what it caches, in the same places, as long as its context is
\* open; a call that is served has the beginning of the cache.
CallsCopy ==
  \A s \in Scrape :
    /\ pc[s] = "fresh" =>
         /\ Kept(s) = DOMAIN cache
         /\ \A k \in DOMAIN cache : answer[s][k] = cache[k]
         /\ s \notin closed => Len(answer[s]) = Len(cache)
    /\ pc[s] = "serve" => \A k \in DOMAIN answer[s] : k \in DOMAIN cache /\ answer[s][k] = cache[k]

\* An answer that is complete is a copy of that of a run that is over.
AnswersCopy ==
  \A s \in Scrape : pc[s] \in Over =>
    \A i \in Kept(s) : pc[answer[s][i].run] \in Over /\ CopyOf(s, answer[s][i].run)

\* The cache has the metrics of its run from the first one on, and all of them
\* once the run is over and was not cut off.
CacheBegins ==
  \A i \in DOMAIN cache :
    /\ cache[i].nr = i
    /\ pc[cache[i].run] \in Over /\ cache[i].run \notin closed => Len(cache) = size[cache[i].run]

\* So has every complete answer.
AnswersBegin ==
  \A s \in Scrape : pc[s] \in Over =>
    \A i \in Kept(s) : BeginningOf(s, answer[s][i].run)

IInv ==
  /\ CacheCopies /\ CallsCopy /\ AnswersCopy /\ CacheBegins /\ AnswersBegin
  /\ TypeOK /\ Exclusion /\ Order /\ CacheDated /\ AnswersDated
  /\ BoundedStaleness /\ OwnErrors

-----------------------------------------------------------------------------
(* Preservation, part by part                                              *)

\* Append adds its element at the end and nothing else.
LEMMA Appended ==
  ASSUME NEW S, NEW q \in Seq(S), NEW m \in S
  PROVE  /\ Append(q, m) \in Seq(S)
         /\ DOMAIN Append(q, m) = 1 .. Len(q) + 1
         /\ \A i \in DOMAIN Append(q, m) :
              \/ i \in DOMAIN q /\ Append(q, m)[i] = q[i]
              \/ i = Len(q) + 1 /\ Append(q, m)[i] = m
  OBVIOUS

\* Only the call that sends gets a longer answer.
LEMMA Sent ==
  ASSUME TypeOK, NEW s \in Scrape, NEW m \in Metric, Send(s, m)
  PROVE  /\ answer' \in [Scrape -> Seq(Metric)]
         /\ \A u \in Scrape \ {s} : answer'[u] = answer[u]
         /\ \A i \in DOMAIN answer'[s] :
              (i \in DOMAIN answer[s] /\ answer'[s][i] = answer[s][i]) \/ answer'[s][i] = m
<1>1. answer[s] \in Seq(Metric) /\ answer'[s] = Append(answer[s], m)
  BY DEF TypeOK, Send
<1>2. answer' = [answer EXCEPT ![s] = Append(answer[s], m)]
  BY DEF Send
<1>3. Append(answer[s], m) \in Seq(Metric)
  BY <1>1, Appended
<1> QED BY <1>1, <1>2, <1>3, Appended DEF TypeOK

\* Every step keeps the types.
LEMMA TypeOKStep == TypeOK /\ [Next]_vars => TypeOK'
<1> SUFFICES ASSUME TypeOK, [Next]_vars PROVE TypeOK'
  OBVIOUS
<1> USE IntervalAssumption, BoundAssumption DEF Instant, ZeroTime, StartTime, Holding, history
<1>1. ASSUME NEW s \in Scrape, Collect(s) PROVE TypeOK'
  <2> CtxError(s) \in Metric
    BY BoundAssumption DEF CtxError, Metric
  <2> USE DEF Goto
  <2>1. CASE Begin(s)
    BY <2>1 DEF Begin, TypeOK
  <2>2. CASE GiveUp(s)
    BY <2>2, Sent DEF GiveUp, TypeOK
  <2>3. CASE TakeFresh(s) \/ TakeCached(s)
    <3>1. pc' \in [Scrape -> {"start", "select", "done"} \cup Holding]
      BY <2>3 DEF TakeFresh, StartRun, TakeCached, TypeOK
    <3>2. /\ cacheTime' \in [Scrape -> Instant] /\ began' \in [Scrape -> Instant]
          /\ size' \in [Scrape -> 0 .. MaxRows]
      <4>1. CASE TakeFresh(s)
        <5>1. cacheTime' \in [Scrape -> Instant] /\ began' \in [Scrape -> Instant]
          BY <4>1 DEF TakeFresh, StartRun, TypeOK
        <5>2. size \in [Scrape -> 0 .. MaxRows]
          BY DEF TypeOK
        <5>3. PICK n \in 0 .. MaxRows : size' = [size EXCEPT ![s] = n]
          BY <4>1 DEF TakeFresh, StartRun
        <5> QED BY <5>1, <5>2, <5>3
      <4>2. CASE TakeCached(s)
        BY <4>2 DEF TakeCached, TypeOK
      <4> QED BY <2>3, <4>1, <4>2
    <3>3. cache' \in Seq(Metric) /\ token' \subseteq Instant
      <4>1. token' = {} /\ (cache' = <<>> \/ cache' = cache)
        BY <2>3 DEF TakeFresh, StartRun, TakeCached
      <4>2. <<>> \in Seq(Metric) /\ cache \in Seq(Metric)
        BY DEF TypeOK
      <4> QED BY <4>1, <4>2
    <3>4. UNCHANGED <<now, closed, collTime, answer>>
      BY <2>3 DEF TakeFresh, StartRun, TakeCached
    <3> QED BY <3>1, <3>2, <3>3, <3>4 DEF TypeOK
  <2>4. CASE Keep(s)
    <3>1. PICK kind \in Kinds :
            LET m == [kind |-> kind, run |-> s, nr |-> Len(answer[s]) + 1] IN cache' = Append(cache, m) /\ Send(s, m)
      BY <2>4 DEF Keep
    <3>2. [kind |-> kind, run |-> s, nr |-> Len(answer[s]) + 1] \in Metric
      BY <2>4, BoundAssumption, CallAssumption DEF Keep, TypeOK, Metric
    <3> QED BY <2>4, <3>1, <3>2, Appended, Sent DEF Keep, TypeOK
  <2>5. CASE Discard(s)
    BY <2>5, Sent DEF Discard, TypeOK
  <2>6. CASE EndFresh(s) \/ EndServe(s)
    BY <2>6 DEF EndFresh, EndServe, TypeOK
  <2>7. CASE ServeNext(s)
    <3>1. cache[Len(answer[s]) + 1] \in Metric
      BY <2>7 DEF ServeNext, TypeOK
    <3> QED BY <2>7, <3>1, Sent DEF ServeNext, TypeOK
  <2>8. CASE Release(s)
    BY <2>8 DEF Release, TypeOK
  <2> QED BY <1>1, <2>1, <2>2, <2>3, <2>4, <2>5, <2>6, <2>7, <2>8 DEF Collect
<1>2. ASSUME NEW s \in Scrape, CloseContext(s) PROVE TypeOK'
  BY <1>2 DEF CloseContext, TypeOK
<1>3. CASE Tick
  BY <1>3 DEF Tick, TypeOK, locals, history
<1>4. CASE UNCHANGED vars
  BY <1>4 DEF vars, TypeOK, locals, history
<1> QED BY <1>1, <1>2, <1>3, <1>4 DEF Next

\* Taking empties the channel, and only the holder fills it.
LEMMA ExclusionStep ==
  TypeOK /\ Exclusion /\ [Next]_vars
    => Exclusion'
<1> SUFFICES ASSUME TypeOK, Exclusion, [Next]_vars PROVE Exclusion'
  OBVIOUS
<1> USE IntervalAssumption, BoundAssumption DEF TypeOK, Exclusion, Instant, ZeroTime,
      StartTime, Metric, Holding, locals, history, Holders
<1>1. ASSUME NEW s \in Scrape, Collect(s) PROVE Exclusion'
  <2> USE DEF Goto, Send, CtxError
  <2>1. CASE TakeFresh(s)
    BY <2>1 DEF TakeFresh
  <2>2. CASE TakeCached(s)
    BY <2>2 DEF TakeCached
  <2>3. CASE Release(s)
    BY <2>3 DEF Release
  <2>4. CASE Begin(s) \/ GiveUp(s) \/ Keep(s) \/ Discard(s) \/ EndFresh(s) \/
          ServeNext(s) \/ EndServe(s)
    BY <2>4 DEF Begin, GiveUp, Keep, Discard, EndFresh, ServeNext, EndServe
  <2> QED BY <1>1, <2>1, <2>2, <2>3, <2>4 DEF Collect
<1>2. ASSUME NEW s \in Scrape, CloseContext(s) PROVE Exclusion'
  BY <1>2 DEF CloseContext
<1>3. CASE Tick
  BY <1>3 DEF Tick
<1>4. CASE UNCHANGED vars
  BY <1>4 DEF vars
<1> QED BY <1>1, <1>2, <1>3, <1>4 DEF Next

\* A call takes the time before it waits for the cache.
LEMMA OrderStep ==
  TypeOK /\ Order /\ [Next]_vars
    => Order'
<1> SUFFICES ASSUME TypeOK, Order, [Next]_vars PROVE Order'
  OBVIOUS
<1> USE IntervalAssumption, BoundAssumption DEF TypeOK, Order, Instant, ZeroTime,
      StartTime, Metric, Holding, locals, history, Waiting, Stale
<1>1. ASSUME NEW s \in Scrape, Collect(s) PROVE Order'
  <2> USE DEF Goto, Send, CtxError
  <2>1. CASE Begin(s)
    BY <2>1 DEF Begin
  <2>2. CASE TakeFresh(s)
    BY <2>2 DEF TakeFresh, StartRun
  <2>3. CASE TakeCached(s)
    <3>1. PICK time \in token : /\ ~ Stale(s, time) /\ pc' = [pc EXCEPT ![s] = "serve"]
                               /\ cacheTime' = [cacheTime EXCEPT ![s] = time]
      BY <2>3 DEF TakeCached
    <3>2. time \in Nat /\ collTime[s] \in Nat /\ collTime[s] <= time + MinInterval
      BY <3>1
    <3> QED BY <2>3, <3>1, <3>2 DEF TakeCached
  <2>4. CASE Keep(s)
    BY <2>4 DEF Keep
  <2>5. CASE ServeNext(s)
    BY <2>5 DEF ServeNext
  <2>6. CASE GiveUp(s) \/ Discard(s) \/ EndFresh(s) \/ EndServe(s) \/ Release(s)
    BY <2>6 DEF GiveUp, Discard, EndFresh, EndServe, Release
  <2> QED BY <1>1, <2>1, <2>2, <2>3, <2>4, <2>5, <2>6 DEF Collect
<1>2. ASSUME NEW s \in Scrape, CloseContext(s) PROVE Order'
  BY <1>2 DEF CloseContext
<1>3. CASE Tick
  BY <1>3 DEF Tick
<1>4. CASE UNCHANGED vars
  BY <1>4 DEF vars
<1> QED BY <1>1, <1>2, <1>3, <1>4 DEF Next

\* A run that has begun keeps its dates.
LEMMA RunKept ==
  ASSUME TypeOK, [Next]_vars, NEW m \in Metric, Run(m)
  PROVE  Run(m)' /\ collTime'[m.run] = collTime[m.run] /\ began'[m.run] = began[m.run]
<1> USE DEF TypeOK, Run, Waiting, locals, history
<1>1. ASSUME NEW s \in Scrape, Collect(s)
      PROVE  Run(m)' /\ collTime'[m.run] = collTime[m.run] /\ began'[m.run] = began[m.run]
  BY <1>1 DEF Collect, Begin, GiveUp, TakeFresh, StartRun, TakeCached, Keep, Discard, EndFresh,
     ServeNext, EndServe, Release, Goto
<1>2. ASSUME NEW s \in Scrape, CloseContext(s)
      PROVE  Run(m)' /\ collTime'[m.run] = collTime[m.run] /\ began'[m.run] = began[m.run]
  BY <1>2 DEF CloseContext
<1>3. CASE Tick
  BY <1>3 DEF Tick
<1>4. CASE UNCHANGED vars
  BY <1>4 DEF vars
<1> QED BY <1>1, <1>2, <1>3, <1>4 DEF Next

\* Where a metric in the cache comes from.
LEMMA CacheElements ==
  ASSUME TypeOK, [Next]_vars, NEW i \in DOMAIN cache'
  PROVE  \/ i \in DOMAIN cache /\ cache'[i] = cache[i]
         \/ \E s \in Scrape : /\ pc[s] = "fresh" /\ pc'[s] = "fresh"
                              /\ cache'[i].run = s /\ cache'[i].kind # "ctxerror"
<1> USE DEF locals, history
<1>1. CASE UNCHANGED cache
  BY <1>1
<1>2. CASE cache' = <<>>
  BY <1>2
<1>3. ASSUME NEW s \in Scrape, Keep(s)
      PROVE  \/ i \in DOMAIN cache /\ cache'[i] = cache[i]
             \/ /\ pc[s] = "fresh" /\ pc'[s] = "fresh"
                /\ cache'[i].run = s /\ cache'[i].kind # "ctxerror"
  <2>1. PICK kind \in Kinds : cache' = Append(cache, [kind |-> kind, run |-> s, nr |-> Len(answer[s]) + 1])
    BY <1>3 DEF Keep
  <2>2. [kind |-> kind, run |-> s, nr |-> Len(answer[s]) + 1] \in Metric
    BY <1>3, BoundAssumption, CallAssumption DEF Keep, TypeOK, Metric
  <2> QED BY <1>3, <2>1, <2>2, CallAssumption, Appended DEF Keep, TypeOK
<1>4. UNCHANGED cache \/ cache' = <<>> \/ \E s \in Scrape : Keep(s)
  BY DEF Next, vars, Tick, CloseContext, Collect, Begin, GiveUp, TakeFresh, StartRun, TakeCached,
     Discard, EndFresh, ServeNext, EndServe, Release
<1> QED BY <1>1, <1>2, <1>3, <1>4

\* Where a metric in an answer comes from.
LEMMA AnswerElements ==
  ASSUME TypeOK, [Next]_vars, NEW s \in Scrape, NEW i \in DOMAIN answer'[s]
  PROVE  \/ i \in DOMAIN answer[s] /\ answer'[s][i] = answer[s][i]
         \/ pc[s] = "serve" /\ \E j \in DOMAIN cache : answer'[s][i] = cache[j]
         \/ pc[s] = "fresh" /\ answer'[s][i].run = s /\ answer'[s][i].kind # "ctxerror"
         \/ answer'[s][i].kind = "ctxerror" /\ answer'[s][i].run = s
<1> DEFINE Origin ==
         \/ i \in DOMAIN answer[s] /\ answer'[s][i] = answer[s][i]
         \/ pc[s] = "serve" /\ \E j \in DOMAIN cache : answer'[s][i] = cache[j]
         \/ pc[s] = "fresh" /\ answer'[s][i].run = s /\ answer'[s][i].kind # "ctxerror"
         \/ answer'[s][i].kind = "ctxerror" /\ answer'[s][i].run = s
<1> SUFFICES Origin
  OBVIOUS
<1> USE DEF locals, history
<1>1. CASE UNCHANGED answer
  BY <1>1
<1>2. ASSUME NEW u \in Scrape, NEW m \in Metric, Send(u, m),
             \/ pc[u] = "serve" /\ \E j \in DOMAIN cache : m = cache[j]
             \/ pc[u] = "fresh" /\ m.run = u /\ m.kind # "ctxerror"
             \/ m.kind = "ctxerror" /\ m.run = u
      PROVE  Origin
  BY <1>2, Sent
<1>3. ASSUME NEW u \in Scrape, GiveUp(u) \/ Discard(u) PROVE Origin
  <2>1. CtxError(u) \in Metric /\ CtxError(u).kind = "ctxerror" /\ CtxError(u).run = u
    BY BoundAssumption DEF CtxError, Metric
  <2> QED BY <1>2, <1>3, <2>1 DEF GiveUp, Discard
<1>4. ASSUME NEW u \in Scrape, Keep(u) PROVE Origin
  <2>1. PICK kind \in Kinds : Send(u, [kind |-> kind, run |-> u, nr |-> Len(answer[u]) + 1])
    BY <1>4 DEF Keep
  <2>2. [kind |-> kind, run |-> u, nr |-> Len(answer[u]) + 1] \in Metric
    BY <1>4, BoundAssumption, CallAssumption DEF Keep, TypeOK, Metric
  <2> QED BY <1>2, <1>4, <2>1, <2>2, CallAssumption DEF Keep
<1>5. ASSUME NEW u \in Scrape, ServeNext(u) PROVE Origin
  <2>1. Len(answer[u]) + 1 \in DOMAIN cache /\ cache[Len(answer[u]) + 1] \in Metric
    BY <1>5 DEF ServeNext, TypeOK
  <2> QED BY <1>2, <1>5, <2>1 DEF ServeNext
<1>6. UNCHANGED answer \/ \E u \in Scrape : GiveUp(u) \/ Discard(u) \/ Keep(u) \/ ServeNext(u)
  BY DEF Next, vars, Tick, CloseContext, Collect, Begin, TakeFresh, StartRun, TakeCached, EndFresh,
     EndServe, Release
<1> QED BY <1>1, <1>3, <1>4, <1>5, <1>6

\* A call past its select keeps the time it began.
LEMMA CallKept ==
  ASSUME TypeOK, [Next]_vars, NEW s \in Scrape, pc[s] \notin Waiting
  PROVE  collTime'[s] = collTime[s]
<1>1. (\E u \in Scrape : Begin(u)) \/ UNCHANGED collTime
  BY DEF Next, vars, locals, history, Tick, CloseContext, Collect, GiveUp, TakeFresh, StartRun,
     TakeCached,
     Keep, Discard, EndFresh, ServeNext, EndServe, Release
<1> QED BY <1>1 DEF Begin, Goto, TypeOK, Waiting

\* The date of a cache that is not emptied stays with the token.
LEMMA DateKept ==
  ASSUME TypeOK, Exclusion, [Next]_vars, cache' # <<>>, NEW date,
         \A time \in token : date = time, \A s \in Holders : date = cacheTime[s]
  PROVE  /\ \A time \in token' : date = time
         /\ \A s \in Holders' : date = cacheTime'[s]
         /\ \A s \in Scrape : pc'[s] = "fresh" => pc[s] = "fresh"
<1> DEFINE Dated == /\ \A time \in token' : date = time
                    /\ \A s \in Holders' : date = cacheTime'[s]
                    /\ \A s \in Scrape : pc'[s] = "fresh" => pc[s] = "fresh"
<1> SUFFICES Dated
  OBVIOUS
<1> USE DEF TypeOK, Exclusion, Holders, Holding, locals, history
<1>1. ASSUME NEW s \in Scrape, Collect(s) PROVE Dated
  <2> USE DEF Goto
  <2>1. CASE TakeFresh(s)
    BY <2>1 DEF TakeFresh, StartRun
  <2>2. CASE TakeCached(s)
    BY <2>2 DEF TakeCached
  <2>3. CASE Release(s)
    BY <2>3 DEF Release
  <2>4. CASE Begin(s) \/ GiveUp(s) \/ Keep(s) \/ Discard(s) \/ EndFresh(s) \/ ServeNext(s) \/ EndServe(s)
    BY <2>4 DEF Begin, GiveUp, Keep, Discard, EndFresh, ServeNext, EndServe
  <2> QED BY <1>1, <2>1, <2>2, <2>3, <2>4 DEF Collect
<1>2. ASSUME NEW s \in Scrape, CloseContext(s) PROVE Dated
  BY <1>2 DEF CloseContext
<1>3. CASE Tick
  BY <1>3 DEF Tick
<1>4. CASE UNCHANGED vars
  BY <1>4 DEF vars
<1> QED BY <1>1, <1>2, <1>3, <1>4 DEF Next

\* The token carries the collTime of the run the cache comes from.
LEMMA CacheDatedStep ==
  TypeOK /\ Exclusion /\ Order /\ CacheDated /\ [Next]_vars => CacheDated'
<1> SUFFICES ASSUME TypeOK, Exclusion, Order, CacheDated, [Next]_vars,
                    TypeOK', Exclusion', Order',
                    NEW i \in DOMAIN cache'
             PROVE  /\ cache'[i].kind # "ctxerror" /\ Run(cache[i])'
                    /\ \A time \in token' : collTime'[cache'[i].run] = time
                    /\ \A s \in Holders' : collTime'[cache'[i].run] = cacheTime'[s]
                    /\ \A s \in Scrape : pc'[s] = "fresh" => cache'[i].run = s
  BY TypeOKStep, ExclusionStep, OrderStep DEF CacheDated
<1>1. CASE i \in DOMAIN cache /\ cache'[i] = cache[i]
  <2>1. cache[i] \in Metric /\ Run(cache[i]) /\ cache' # <<>>
    BY <1>1 DEF TypeOK, CacheDated
  <2>2. Run(cache[i])' /\ collTime'[cache[i].run] = collTime[cache[i].run]
    BY <1>1, <2>1, RunKept DEF Run
  <2>3. /\ \A time \in token' : collTime[cache[i].run] = time
        /\ \A s \in Holders' : collTime[cache[i].run] = cacheTime'[s]
        /\ \A s \in Scrape : pc'[s] = "fresh" => pc[s] = "fresh"
    BY <1>1, <2>1, DateKept DEF CacheDated
  <2> QED BY <1>1, <2>2, <2>3 DEF CacheDated
<1>2. ASSUME NEW s \in Scrape, pc'[s] = "fresh",
             cache'[i].run = s, cache'[i].kind # "ctxerror"
      PROVE  /\ cache'[i].kind # "ctxerror" /\ Run(cache[i])'
             /\ \A time \in token' : collTime'[cache'[i].run] = time
             /\ \A u \in Holders' : collTime'[cache'[i].run] = cacheTime'[u]
             /\ \A u \in Scrape : pc'[u] = "fresh" => cache'[i].run = u
  <2>1. Holders' = {s} /\ token' = {}
    BY <1>2 DEF Exclusion, Holders, Holding
  <2>2. \A u \in Scrape : pc'[u] = "fresh" => u = s
    BY <2>1 DEF Holders, Holding
  <2> QED BY <1>2, <2>1, <2>2 DEF Order, Run, Waiting
<1> QED BY <1>1, <1>2, CacheElements

\* An answer's metrics come from the cache, from the call's own run, or are
\* errors of its own context.
LEMMA AnswersDatedStep ==
  TypeOK /\ Order /\ CacheDated /\ AnswersDated /\ [Next]_vars => AnswersDated'
<1> SUFFICES ASSUME TypeOK, Order, CacheDated, AnswersDated, [Next]_vars, TypeOK',
                    NEW s \in Scrape, NEW i \in DOMAIN answer'[s],
                    answer'[s][i].kind # "ctxerror"
             PROVE  Run(answer[s][i])'
  BY TypeOKStep DEF AnswersDated
<1> DEFINE m == answer'[s][i]
<1>1. m \in Metric
  BY DEF TypeOK
<1>2. CASE i \in DOMAIN answer[s] /\ m = answer[s][i]
  BY <1>1, <1>2, RunKept DEF AnswersDated
<1>3. CASE \E j \in DOMAIN cache : m = cache[j]
  BY <1>1, <1>3, RunKept DEF CacheDated
<1>4. CASE pc[s] = "fresh" /\ m.run = s
  BY <1>1, <1>4, RunKept DEF Order, Run, Waiting
<1> QED BY <1>2, <1>3, <1>4, AnswerElements

\* What a call sends is dated when the call is let to the cache.
LEMMA BoundedStalenessStep ==
  TypeOK /\ Exclusion /\ Order /\ CacheDated /\ AnswersDated /\ BoundedStaleness
    /\ [Next]_vars => BoundedStaleness'
<1> SUFFICES ASSUME TypeOK, Exclusion, Order, CacheDated, AnswersDated, BoundedStaleness,
                    [Next]_vars, TypeOK',
                    NEW s \in Scrape, NEW i \in DOMAIN answer'[s],
                    answer'[s][i].kind # "ctxerror"
             PROVE  began'[answer'[s][i].run] + MinInterval >= collTime'[s]
  BY TypeOKStep DEF BoundedStaleness
<1> DEFINE m == answer'[s][i]
<1>1. m \in Metric /\ collTime[s] \in Nat /\ MinInterval \in Nat
  BY IntervalAssumption DEF TypeOK, Instant
<1>2. CASE i \in DOMAIN answer[s] /\ m = answer[s][i]
  <2>1. Run(m) /\ pc[s] \notin Waiting
    BY <1>2 DEF AnswersDated, Order
  <2>2. began'[m.run] = began[m.run]
    BY <1>1, <2>1, RunKept
  <2>3. collTime'[s] = collTime[s]
    BY <2>1, CallKept
  <2> QED BY <1>2, <2>2, <2>3 DEF BoundedStaleness
<1>3. CASE pc[s] = "serve" /\ \E j \in DOMAIN cache : m = cache[j]
  <2>1. Run(m) /\ collTime[m.run] = cacheTime[s]
    BY <1>3 DEF CacheDated, Holders, Holding
  <2>2. began'[m.run] = began[m.run] /\ collTime'[s] = collTime[s]
    BY <1>1, <1>3, <2>1, RunKept, CallKept DEF Waiting
  <2>3. began[m.run] \in Nat /\ collTime[m.run] \in Nat /\ cacheTime[s] \in Nat
    BY <1>1, BoundAssumption, IntervalAssumption DEF TypeOK, Instant, Metric
  <2> QED BY <1>1, <1>3, <2>1, <2>2, <2>3 DEF Order, Run
<1>4. CASE pc[s] = "fresh" /\ m.run = s
  <2>1. Run(m)
    BY <1>4 DEF Order, Run, Waiting
  <2>2. began'[s] = began[s] /\ collTime'[s] = collTime[s]
    BY <1>1, <1>4, <2>1, RunKept
  <2>3. began[s] \in Nat
    BY BoundAssumption, IntervalAssumption DEF TypeOK, Instant
  <2> QED BY <1>1, <1>4, <2>2, <2>3 DEF Order
<1> QED BY <1>2, <1>3, <1>4, AnswerElements

\* The cache contains no error of a context, so a call only sends its own.
LEMMA OwnErrorsStep == TypeOK /\ CacheDated /\ OwnErrors /\ [Next]_vars => OwnErrors'
  BY AnswerElements DEF OwnErrors, CacheDated

\* What a step does to the answers, and to the places of the calls.
LEMMA Moves ==
  ASSUME TypeOK, Order, [Next]_vars
  PROVE  \/ /\ UNCHANGED <<answer, cache>>
            /\ \/ UNCHANGED pc
               \/ \E s \in Scrape : pc' = [pc EXCEPT ![s] = "select"] /\ pc[s] = "start"
               \/ \E s \in Scrape : pc' = [pc EXCEPT ![s] = "serve"] /\ pc[s] = "select"
               \/ \E s \in Scrape : pc' = [pc EXCEPT ![s] = "release"] /\ pc[s] = "fresh"
               \/ \E s \in Scrape : /\ pc' = [pc EXCEPT ![s] = "release"] /\ pc[s] = "serve"
                                    /\ Len(answer[s]) = Len(cache)
               \/ \E s \in Scrape : pc' = [pc EXCEPT ![s] = "done"] /\ pc[s] = "release"
            /\ closed \subseteq closed'
         \/ \E s \in Scrape : /\ UNCHANGED <<answer, closed>> /\ cache' = <<>>
                              /\ pc' = [pc EXCEPT ![s] = "fresh"] /\ pc[s] = "select"
         \/ \E s \in Scrape : /\ GiveUp(s) /\ UNCHANGED cache /\ closed \subseteq closed'
                              /\ pc[s] \in Waiting /\ pc' = [pc EXCEPT ![s] = "done"]
         \/ \E s \in Scrape : Keep(s) \/ Discard(s) \/ ServeNext(s)
<1>1. ASSUME NEW s \in Scrape, Collect(s)
      PROVE  \/ GiveUp(s) \/ Keep(s) \/ Discard(s) \/ ServeNext(s)
             \/ Begin(s) \/ TakeFresh(s) \/ TakeCached(s) \/ EndFresh(s) \/ EndServe(s) \/ Release(s)
  BY <1>1 DEF Collect
<1>2. ASSUME NEW s \in Scrape, GiveUp(s)
      PROVE  /\ UNCHANGED cache /\ closed \subseteq closed' /\ pc[s] \in Waiting /\ pc' = [pc EXCEPT ![s] = "done"]
  BY <1>2 DEF GiveUp, Goto, Waiting
<1>3. ASSUME NEW s \in Scrape, TakeFresh(s)
      PROVE  /\ UNCHANGED <<answer, closed>> /\ cache' = <<>>
             /\ pc' = [pc EXCEPT ![s] = "fresh"] /\ pc[s] = "select"
  BY <1>3 DEF TakeFresh, StartRun, Goto
<1>4. ASSUME NEW s \in Scrape, Begin(s) PROVE
             UNCHANGED <<answer, cache, closed>> /\ pc' = [pc EXCEPT ![s] = "select"] /\ pc[s] = "start"
  BY <1>4 DEF Begin, Goto
<1>5. ASSUME NEW s \in Scrape, TakeCached(s) PROVE
             UNCHANGED <<answer, cache, closed>> /\ pc' = [pc EXCEPT ![s] = "serve"] /\ pc[s] = "select"
  BY <1>5 DEF TakeCached, Goto
<1>6. ASSUME NEW s \in Scrape, EndFresh(s) PROVE
             UNCHANGED <<answer, cache, closed>> /\ pc' = [pc EXCEPT ![s] = "release"] /\ pc[s] = "fresh"
  BY <1>6 DEF EndFresh, Goto
<1>7. ASSUME NEW s \in Scrape, EndServe(s) PROVE
             /\ UNCHANGED <<answer, cache, closed>> /\ pc' = [pc EXCEPT ![s] = "release"] /\ pc[s] = "serve"
             /\ Len(answer[s]) = Len(cache)
  BY <1>7 DEF EndServe, Goto
<1>8. ASSUME NEW s \in Scrape, Release(s) PROVE
             UNCHANGED <<answer, cache, closed>> /\ pc' = [pc EXCEPT ![s] = "done"] /\ pc[s] = "release"
  BY <1>8 DEF Release, Goto
<1>9. ASSUME NEW s \in Scrape, CloseContext(s) PROVE UNCHANGED <<answer, cache, pc>> /\ closed \subseteq closed'
  BY <1>9 DEF CloseContext
<1>10. Tick \/ UNCHANGED vars => UNCHANGED <<answer, cache, pc, closed>>
  BY DEF Tick, vars, locals, history
<1> QED BY <1>1, <1>2, <1>3, <1>4, <1>5, <1>6, <1>7, <1>8, <1>9, <1>10 DEF Next

\* One call sends one metric, and one that is an error of its context leaves
\* what it kept as it was.
LEMMA SentKept ==
  ASSUME TypeOK, NEW s \in Scrape, NEW m \in Metric, Send(s, m)
  PROVE  /\ \A u \in Scrape : u # s => answer'[u] = answer[u] /\ Kept(u)' = Kept(u)
         /\ Len(answer'[s]) = Len(answer[s]) + 1 /\ Len(answer[s]) \in Nat
         /\ DOMAIN answer[s] = 1 .. Len(answer[s]) /\ DOMAIN answer'[s] = 1 .. Len(answer[s]) + 1
         /\ \A i \in DOMAIN answer[s] : answer'[s][i] = answer[s][i]
         /\ answer'[s][Len(answer[s]) + 1] = m
         /\ Kept(s)' = IF m.kind = "ctxerror" THEN Kept(s) ELSE Kept(s) \cup {Len(answer[s]) + 1}
<1>1. answer[s] \in Seq(Metric) /\ answer'[s] = Append(answer[s], m)
      /\ \A u \in Scrape : u # s => answer'[u] = answer[u]
  BY DEF TypeOK, Send
<1>2. /\ Len(answer'[s]) = Len(answer[s]) + 1 /\ Len(answer[s]) \in Nat
      /\ DOMAIN answer[s] = 1 .. Len(answer[s]) /\ DOMAIN answer'[s] = 1 .. Len(answer[s]) + 1
      /\ \A i \in DOMAIN answer[s] : answer'[s][i] = answer[s][i]
      /\ answer'[s][Len(answer[s]) + 1] = m
  BY <1>1
<1>3. \A u \in Scrape : u # s => Kept(u)' = Kept(u)
  BY <1>1 DEF Kept
<1>4. \A i : i \in Kept(s)' <=> i \in Kept(s) \/ (m.kind # "ctxerror" /\ i = Len(answer[s]) + 1)
  BY <1>2 DEF Kept
<1>5. Kept(s)' = IF m.kind = "ctxerror" THEN Kept(s) ELSE Kept(s) \cup {Len(answer[s]) + 1}
  BY <1>4
<1> QED BY <1>1, <1>2, <1>3, <1>5

\* While a metric is kept, the call that keeps it is alone with the cache.
LEMMA Keeping ==
  ASSUME TypeOK, NEW s \in Scrape, Keep(s)
  PROVE  /\ pc[s] = "fresh" /\ s \notin closed /\ UNCHANGED <<pc, closed>>
         /\ \E m \in Metric : /\ m.kind # "ctxerror" /\ m.run = s /\ m.nr = Len(answer[s]) + 1 /\ Send(s, m)
                              /\ cache' = Append(cache, m) /\ Len(cache) \in Nat
                              /\ DOMAIN cache = 1 .. Len(cache) /\ DOMAIN cache' = 1 .. Len(cache) + 1
                              /\ Len(cache') = Len(cache) + 1
                              /\ \A i \in DOMAIN cache : cache'[i] = cache[i]
                              /\ cache'[Len(cache) + 1] = m
<1>1. PICK kind \in Kinds :
        LET m == [kind |-> kind, run |-> s, nr |-> Len(answer[s]) + 1] IN cache' = Append(cache, m) /\ Send(s, m)
  BY DEF Keep
<1> DEFINE m == [kind |-> kind, run |-> s, nr |-> Len(answer[s]) + 1]
<1>2. m \in Metric /\ m.kind # "ctxerror" /\ m.run = s /\ m.nr = Len(answer[s]) + 1
  BY BoundAssumption, CallAssumption DEF Keep, TypeOK, Metric
<1> HIDE DEF m
<1>3. cache \in Seq(Metric) /\ cache' = Append(cache, m)
  BY <1>1 DEF TypeOK, m
<1>4. /\ Len(cache) \in Nat /\ DOMAIN cache = 1 .. Len(cache) /\ DOMAIN cache' = 1 .. Len(cache) + 1
      /\ Len(cache') = Len(cache) + 1
      /\ \A i \in DOMAIN cache : cache'[i] = cache[i]
      /\ cache'[Len(cache) + 1] = m
  BY <1>2, <1>3
<1>5. Send(s, m)
  BY <1>1 DEF m
<1> QED BY <1>2, <1>3, <1>4, <1>5 DEF Keep

\* The other steps that send.
LEMMA Sending ==
  ASSUME TypeOK, NEW s \in Scrape
  PROVE  /\ Discard(s) => \E m \in Metric : /\ m.kind = "ctxerror" /\ Send(s, m) /\ pc[s] = "fresh"
                                            /\ s \in closed /\ UNCHANGED <<pc, closed, cache>>
         /\ GiveUp(s) => \E m \in Metric : m.kind = "ctxerror" /\ Send(s, m)
         /\ ServeNext(s) => /\ Len(answer[s]) + 1 \in DOMAIN cache /\ pc[s] = "serve"
                            /\ cache[Len(answer[s]) + 1] \in Metric
                            /\ Send(s, cache[Len(answer[s]) + 1])
                            /\ UNCHANGED <<pc, closed, cache>>
<1>1. CtxError(s) \in Metric /\ CtxError(s).kind = "ctxerror"
  BY BoundAssumption DEF CtxError, Metric
<1>2. answer[s] \in Seq(Metric) /\ cache \in Seq(Metric)
  BY DEF TypeOK
<1>3. Discard(s) => \E m \in Metric : /\ m.kind = "ctxerror" /\ Send(s, m) /\ pc[s] = "fresh"
                                      /\ s \in closed /\ UNCHANGED <<pc, closed, cache>>
  BY <1>1 DEF Discard
<1>4. GiveUp(s) => \E m \in Metric : m.kind = "ctxerror" /\ Send(s, m)
  BY <1>1 DEF GiveUp
<1>5. ASSUME ServeNext(s)
      PROVE  /\ Len(answer[s]) + 1 \in DOMAIN cache /\ pc[s] = "serve"
             /\ cache[Len(answer[s]) + 1] \in Metric
  BY <1>2, <1>5 DEF ServeNext
<1> QED BY <1>3, <1>4, <1>5 DEF ServeNext

\* What a call that waits or that copies the cache has, after any step.
LEMMA CallsCopyStep ==
  TypeOK /\ Exclusion /\ Order /\ CacheDated /\ CallsCopy /\ [Next]_vars => CallsCopy'
<1> SUFFICES ASSUME TypeOK, Exclusion, Order, CacheDated, CallsCopy, [Next]_vars, NEW u \in Scrape
             PROVE  /\ pc'[u] = "fresh" =>
                         /\ Kept(u)' = DOMAIN cache'
                         /\ \A k \in DOMAIN cache' : answer'[u][k] = cache'[k]
                         /\ u \notin closed' => Len(answer'[u]) = Len(cache')
                    /\ pc'[u] = "serve" =>
                         \A k \in DOMAIN answer'[u] : k \in DOMAIN cache' /\ answer'[u][k] = cache'[k]
  BY DEF CallsCopy
<1> DEFINE Goal == /\ pc'[u] = "fresh" =>
                         /\ Kept(u)' = DOMAIN cache'
                         /\ \A k \in DOMAIN cache' : answer'[u][k] = cache'[k]
                         /\ u \notin closed' => Len(answer'[u]) = Len(cache')
                   /\ pc'[u] = "serve" =>
                         \A k \in DOMAIN answer'[u] : k \in DOMAIN cache' /\ answer'[u][k] = cache'[k]
<1>0. /\ pc \in [Scrape -> {"start", "select", "done", "fresh", "serve", "release"}]
      /\ \A s \in Scrape : pc[s] \in {"start", "select"} => answer[s] = <<>>
      /\ \A s, r \in Scrape : pc[s] \in Holding /\ pc[r] \in Holding => s = r
      /\ UNCHANGED answer => \A s \in Scrape : Kept(s)' = Kept(s)
  BY DEF TypeOK, Order, Waiting, Exclusion, Holders, Holding, Kept
<1>1. /\ pc[u] = "fresh" =>
           /\ Kept(u) = DOMAIN cache
           /\ \A k \in DOMAIN cache : answer[u][k] = cache[k]
           /\ u \notin closed => Len(answer[u]) = Len(cache)
      /\ pc[u] = "serve" => \A k \in DOMAIN answer[u] : k \in DOMAIN cache /\ answer[u][k] = cache[k]
  BY DEF CallsCopy
<1>2. CASE UNCHANGED <<answer, cache>> /\ closed \subseteq closed'
           /\ (\/ UNCHANGED pc
               \/ \E s \in Scrape : pc' = [pc EXCEPT ![s] = "select"] /\ pc[s] = "start"
               \/ \E s \in Scrape : pc' = [pc EXCEPT ![s] = "release"] /\ pc[s] \in {"fresh", "serve"}
               \/ \E s \in Scrape : pc' = [pc EXCEPT ![s] = "done"] /\ pc[s] = "release")
  <2>1. /\ pc'[u] = "fresh" => pc[u] = "fresh"
        /\ pc'[u] = "serve" => pc[u] = "serve"
    BY <1>0, <1>2
  <2> QED BY <1>0, <1>1, <1>2, <2>1
<1>3. CASE /\ UNCHANGED <<answer, cache>> /\ closed \subseteq closed'
           /\ \E s \in Scrape : pc' = [pc EXCEPT ![s] = "serve"] /\ pc[s] = "select"
  <2>1. PICK s \in Scrape : pc' = [pc EXCEPT ![s] = "serve"] /\ pc[s] = "select"
    BY <1>3
  <2>2. CASE u = s
    <3>1. DOMAIN answer'[u] = {}
      BY <1>0, <1>3, <2>1, <2>2
    <3> QED BY <1>0, <2>1, <2>2, <3>1
  <2>3. CASE u # s
    <3>1. pc'[u] = pc[u]
      BY <1>0, <2>1, <2>3
    <3> QED BY <1>0, <1>1, <1>3, <3>1
  <2> QED BY <2>2, <2>3
<1>4. ASSUME NEW s \in Scrape, UNCHANGED <<answer, closed>>, cache' = <<>>,
             pc' = [pc EXCEPT ![s] = "fresh"], pc[s] = "select"
      PROVE  Goal
  <2>1. CASE u = s
    <3>1. answer'[u] = <<>> /\ answer[u] = <<>>
      BY <1>0, <1>4, <2>1
    <3>2. Kept(u)' = {}
      BY <3>1 DEF Kept
    <3> QED BY <1>0, <1>4, <2>1, <3>1, <3>2
  <2>2. CASE u # s
    <3>1. pc'[u] = pc[u]
      BY <1>0, <1>4, <2>2
    <3>2. pc[u] \notin {"fresh", "serve"}
      <4>1. token # {}
        BY <1>4 DEF Next, vars, locals, history, Tick, CloseContext, Collect, Begin, GiveUp,
           TakeFresh, StartRun,
           TakeCached, Keep,
           Discard, EndFresh, ServeNext, EndServe, Release, Goto, TypeOK
      <4> QED BY <4>1 DEF Exclusion, Holders, Holding
    <3> QED BY <3>1, <3>2
  <2> QED BY <2>1, <2>2
<1>5. ASSUME NEW s \in Scrape, GiveUp(s), UNCHANGED cache, closed \subseteq closed', pc' = [pc EXCEPT ![s] = "done"]
      PROVE  Goal
  <2>1. PICK m \in Metric : m.kind = "ctxerror" /\ Send(s, m)
    BY <1>5, Sending
  <2>2. CASE u = s
    BY <1>0, <1>5, <2>2
  <2>3. CASE u # s
    <3>1. pc'[u] = pc[u]
      BY <1>0, <1>5, <2>3
    <3>2. answer'[u] = answer[u] /\ Kept(u)' = Kept(u)
      BY <2>1, <2>3, SentKept
    <3> QED BY <1>1, <1>5, <3>1, <3>2
  <2> QED BY <2>2, <2>3
<1>6. ASSUME NEW s \in Scrape, Keep(s)
      PROVE  Goal
  <2>1. pc[s] = "fresh" /\ s \notin closed /\ UNCHANGED <<pc, closed>>
    BY <1>6, Keeping
  <2>2. PICK m \in Metric : /\ m.kind # "ctxerror" /\ m.run = s /\ m.nr = Len(answer[s]) + 1 /\ Send(s, m)
                            /\ cache' = Append(cache, m) /\ Len(cache) \in Nat
                            /\ DOMAIN cache = 1 .. Len(cache) /\ DOMAIN cache' = 1 .. Len(cache) + 1
                            /\ Len(cache') = Len(cache) + 1
                            /\ \A i \in DOMAIN cache : cache'[i] = cache[i]
                            /\ cache'[Len(cache) + 1] = m
    BY <1>6, Keeping
  <2>3. CASE u = s
    <3>1. /\ Len(answer'[s]) = Len(answer[s]) + 1 /\ DOMAIN answer[s] = 1 .. Len(answer[s])
          /\ \A i \in DOMAIN answer[s] : answer'[s][i] = answer[s][i]
          /\ answer'[s][Len(answer[s]) + 1] = m
          /\ Kept(s)' = Kept(s) \cup {Len(answer[s]) + 1}
      BY <2>2, SentKept
    <3>2. Len(answer[s]) = Len(cache) /\ Kept(s) = DOMAIN cache /\ \A k \in DOMAIN cache : answer[s][k] = cache[k]
      BY <1>1, <2>1, <2>3
    <3>3. Kept(s)' = DOMAIN cache'
      BY <2>2, <3>1, <3>2
    <3>4. \A k \in DOMAIN cache' : k \in DOMAIN cache \/ k = Len(cache) + 1
      BY <2>2
    <3>5. \A k \in DOMAIN cache' : answer'[s][k] = cache'[k]
      BY <2>2, <3>1, <3>2, <3>4
    <3>6. Len(answer'[s]) = Len(cache')
      BY <2>2, <3>1, <3>2
    <3> QED BY <2>1, <2>3, <3>3, <3>5, <3>6
  <2>4. CASE u # s
    BY <1>0, <2>1, <2>4 DEF Holding
  <2> QED BY <2>3, <2>4
<1>7. ASSUME NEW s \in Scrape, Discard(s)
      PROVE  Goal
  <2>1. PICK m \in Metric : /\ m.kind = "ctxerror" /\ Send(s, m) /\ pc[s] = "fresh" /\ s \in closed
                            /\ UNCHANGED <<pc, closed, cache>>
    BY <1>7, Sending
  <2>2. CASE u = s
    <3>1. /\ DOMAIN answer[s] = 1 .. Len(answer[s]) /\ \A i \in DOMAIN answer[s] : answer'[s][i] = answer[s][i]
          /\ Kept(s)' = Kept(s)
      BY <2>1, SentKept
    <3>2. Kept(s) \subseteq DOMAIN answer[s]
      BY DEF Kept
    <3> QED BY <1>1, <2>1, <2>2, <3>1, <3>2
  <2>3. CASE u # s
    BY <1>0, <2>1, <2>3 DEF Holding
  <2> QED BY <2>2, <2>3
<1>8. ASSUME NEW s \in Scrape, ServeNext(s)
      PROVE  Goal
  <2> DEFINE n == Len(answer[s]) + 1
  <2>1. /\ n \in DOMAIN cache /\ pc[s] = "serve" /\ cache[n] \in Metric
        /\ Send(s, cache[n]) /\ UNCHANGED <<pc, closed, cache>>
    BY <1>8, Sending
  <2>2. CASE u = s
    <3>1. /\ DOMAIN answer[s] = 1 .. Len(answer[s]) /\ DOMAIN answer'[s] = 1 .. Len(answer[s]) + 1
          /\ \A i \in DOMAIN answer[s] : answer'[s][i] = answer[s][i]
          /\ answer'[s][n] = cache[n] /\ Len(answer[s]) \in Nat
      BY <2>1, SentKept
    <3>2. \A k \in DOMAIN answer'[s] : k \in DOMAIN answer[s] \/ k = n
      BY <3>1
    <3> QED BY <1>1, <2>1, <2>2, <3>1, <3>2
  <2>3. CASE u # s
    BY <1>0, <2>1, <2>3 DEF Holding
  <2> QED BY <2>2, <2>3
<1> QED BY <1>2, <1>3, <1>4, <1>5, <1>6, <1>7, <1>8, Moves

\* What a run kept does not change once it is over.
LEMMA OverStays ==
  ASSUME TypeOK, Order, [Next]_vars, NEW r \in Scrape, pc[r] \in Over
  PROVE  pc'[r] \in Over /\ answer'[r] = answer[r] /\ Kept(r)' = Kept(r)
<1>0. pc \in [Scrape -> {"start", "select", "done", "fresh", "serve", "release"}]
  BY DEF TypeOK, Holding
<1> USE DEF Over
<1>1. CASE \E s \in Scrape : Keep(s) \/ Discard(s) \/ ServeNext(s)
  <2>1. PICK s \in Scrape : Keep(s) \/ Discard(s) \/ ServeNext(s)
    BY <1>1
  <2>2. /\ s # r /\ UNCHANGED pc
    BY <2>1, Keeping, Sending
  <2>3. \E m \in Metric : Send(s, m)
    BY <2>1, Keeping, Sending
  <2> QED BY <2>2, <2>3, SentKept
<1>2. CASE \E s \in Scrape : GiveUp(s) /\ pc[s] \in Waiting /\ pc' = [pc EXCEPT ![s] = "done"]
  <2>1. PICK s \in Scrape : GiveUp(s) /\ pc[s] \in Waiting /\ pc' = [pc EXCEPT ![s] = "done"]
    BY <1>2
  <2>2. s # r /\ pc'[r] = pc[r]
    BY <1>0, <2>1 DEF Waiting
  <2> QED BY <2>1, <2>2, Sending, SentKept
<1>3. CASE UNCHANGED answer
           /\ (\/ UNCHANGED pc
               \/ \E s \in Scrape : pc' = [pc EXCEPT ![s] = "select"] /\ pc[s] = "start"
               \/ \E s \in Scrape : pc' = [pc EXCEPT ![s] = "serve"] /\ pc[s] = "select"
               \/ \E s \in Scrape : pc' = [pc EXCEPT ![s] = "fresh"] /\ pc[s] = "select"
               \/ \E s \in Scrape : pc' = [pc EXCEPT ![s] = "release"] /\ pc[s] \in {"fresh", "serve"}
               \/ \E s \in Scrape : pc' = [pc EXCEPT ![s] = "done"] /\ pc[s] = "release")
  <2>1. pc'[r] \in Over
    BY <1>0, <1>3
  <2> QED BY <1>3, <2>1 DEF Kept
<1> QED BY <1>1, <1>2, <1>3, Moves

\* The cache is a copy of what one run kept.
LEMMA CacheCopiesStep ==
  TypeOK /\ Exclusion /\ Order /\ CacheDated /\ CacheCopies /\ CallsCopy /\ [Next]_vars => CacheCopies'
<1> SUFFICES ASSUME TypeOK, Exclusion, Order, CacheDated, CacheCopies, CallsCopy, [Next]_vars, CallsCopy',
                    NEW i \in DOMAIN cache'
             PROVE  /\ pc'[cache'[i].run] \in Over \cup {"fresh"}
                    /\ Kept(cache[i].run)' = DOMAIN cache'
                    /\ \A k \in DOMAIN cache' : answer'[cache'[i].run][k] = cache'[k]
  BY CallsCopyStep DEF CacheCopies
<1>0. pc \in [Scrape -> {"start", "select", "done", "fresh", "serve", "release"}]
  BY DEF TypeOK, Holding
<1>1. PICK r \in Scrape : r = cache'[i].run
  <2>1. TypeOK'
    BY TypeOKStep
  <2>2. cache' \in Seq(Metric)
    BY <2>1 DEF TypeOK
  <2>3. cache'[i] \in Metric
    BY <2>2
  <2> QED BY <2>3 DEF Metric
<1> SUFFICES /\ pc'[r] \in Over \cup {"fresh"}
             /\ Kept(r)' = DOMAIN cache'
             /\ \A k \in DOMAIN cache' : answer'[r][k] = cache'[k]
  BY <1>1 DEF Kept
<1>2. CASE pc'[r] = "fresh"
  BY <1>1, <1>2 DEF CallsCopy
<1>3. CASE pc'[r] # "fresh"
  <2>1. i \in DOMAIN cache /\ cache'[i] = cache[i]
    BY <1>1, <1>3, CacheElements
  <2>2. /\ pc[r] \in Over \cup {"fresh"} /\ Kept(r) = DOMAIN cache
        /\ \A k \in DOMAIN cache : answer[r][k] = cache[k]
    BY <1>1, <2>1 DEF CacheCopies
  <2>3. UNCHANGED cache
    <3>1. CASE \E s \in Scrape : Keep(s)
      <4>1. PICK s \in Scrape : Keep(s)
        BY <3>1
      <4>2. pc[s] = "fresh" /\ UNCHANGED pc
        BY <4>1, Keeping
      <4>3. cache[i].run = s
        BY <2>1, <4>2 DEF CacheDated
      <4> QED BY <1>1, <1>3, <2>1, <4>2, <4>3
    <3>2. CASE cache' = <<>>
      BY <3>2
    <3>3. (\E s \in Scrape : Keep(s)) \/ cache' = <<>> \/ UNCHANGED cache
      BY DEF Next, vars, Tick, CloseContext, Collect, Begin, GiveUp, TakeFresh, StartRun, TakeCached,
         Discard, EndFresh,
         ServeNext, EndServe, Release, locals, history
    <3> QED BY <3>1, <3>2, <3>3
  <2>4. CASE pc[r] \in Over
    <3>1. pc'[r] \in Over /\ answer'[r] = answer[r] /\ Kept(r)' = Kept(r)
      BY <1>1, <2>4, OverStays
    <3> QED BY <2>2, <2>3, <3>1
  <2>5. CASE pc[r] = "fresh"
    <3>1. pc'[r] = "release" /\ UNCHANGED answer
      <4>1. UNCHANGED pc \/ \E s \in Scrape : \E to : pc' = [pc EXCEPT ![s] = to]
        BY Moves, Keeping, Sending
      <4>2. ASSUME NEW s \in Scrape, Keep(s) \/ Discard(s) \/ ServeNext(s)
            PROVE  UNCHANGED pc
        BY <4>2, Keeping, Sending
      <4>3. ASSUME NEW s \in Scrape, pc[s] \in Waiting, pc' = [pc EXCEPT ![s] = "done"]
            PROVE  pc'[r] = pc[r]
        BY <1>0, <1>1, <2>5, <4>3 DEF Waiting
      <4> QED BY <1>0, <1>1, <1>3, <2>5, <4>2, <4>3, Moves
    <3>2. Kept(r)' = Kept(r)
      BY <3>1 DEF Kept
    <3> QED BY <2>2, <2>3, <3>1, <3>2 DEF Over
  <2> QED BY <2>2, <2>4, <2>5
<1> QED BY <1>2, <1>3

\* Complete answers are copies.
LEMMA AnswersCopyStep ==
  TypeOK /\ Exclusion /\ Order /\ CacheDated /\ AnswersDated /\ CacheCopies /\ CallsCopy /\ AnswersCopy
    /\ [Next]_vars => AnswersCopy'
<1> SUFFICES ASSUME TypeOK, Exclusion, Order, CacheDated, AnswersDated, CacheCopies, CallsCopy, AnswersCopy,
                    [Next]_vars, NEW s \in Scrape, pc'[s] \in Over, NEW i \in Kept(s)'
             PROVE  pc'[answer'[s][i].run] \in Over /\ CopyOf(s, answer[s][i].run)'
  BY DEF AnswersCopy
<1>0. /\ pc \in [Scrape -> {"start", "select", "done", "fresh", "serve", "release"}]
      /\ answer \in [Scrape -> Seq(Metric)] /\ cache \in Seq(Metric)
  BY DEF TypeOK, Holding
<1>1. CASE pc[s] \in Over
  <2>1. answer'[s] = answer[s] /\ Kept(s)' = Kept(s)
    BY <1>1, OverStays
  <2>3. PICK r \in Scrape : r = answer[s][i].run
    <3>1. i \in DOMAIN answer[s]
      BY <2>1 DEF Kept
    <3>2. answer[s][i] \in Metric
      BY <1>0, <3>1
    <3> QED BY <3>2 DEF Metric
  <2>2. pc[r] \in Over /\ CopyOf(s, r)
    BY <1>1, <2>1, <2>3 DEF AnswersCopy
  <2>4. pc'[r] \in Over /\ answer'[r] = answer[r] /\ Kept(r)' = Kept(r)
    BY <2>2, OverStays
  <2>5. answer'[s][i].run = r
    BY <2>1, <2>3
  <2>6. Kept(answer[s][i].run)' = Kept(r)'
    BY <2>5 DEF Kept
  <2> QED BY <2>1, <2>2, <2>4, <2>5, <2>6 DEF CopyOf
<1>2. CASE pc[s] \notin Over
  <2>1. CASE \E m \in Metric : m.kind = "ctxerror" /\ Send(s, m) /\ answer[s] = <<>>
    <3>1. PICK m \in Metric : m.kind = "ctxerror" /\ Send(s, m) /\ answer[s] = <<>>
      BY <2>1
    <3>2. Kept(s)' = Kept(s) /\ Kept(s) = {}
      BY <3>1, SentKept DEF Kept
    <3> QED BY <3>2
  <2>2. CASE pc[s] = "fresh" /\ pc' = [pc EXCEPT ![s] = "release"] /\ UNCHANGED <<answer, cache>>
    <3>1. Kept(s)' = Kept(s) /\ Kept(s) = DOMAIN cache /\ \A k \in DOMAIN cache : answer[s][k] = cache[k]
      BY <2>2 DEF CallsCopy, Kept
    <3>2. answer[s][i].run = s
      BY <2>2, <3>1 DEF CacheDated
    <3>3. pc'[s] = "release"
      BY <1>0, <2>2
    <3> QED BY <2>2, <3>2, <3>3 DEF CopyOf, Over
  <2>3. CASE /\ pc[s] = "serve" /\ pc' = [pc EXCEPT ![s] = "release"] /\ UNCHANGED <<answer, cache>>
             /\ Len(answer[s]) = Len(cache)
    <3>1. \A k \in DOMAIN answer[s] : k \in DOMAIN cache /\ answer[s][k] = cache[k]
      BY <2>3 DEF CallsCopy
    <3>2. DOMAIN answer[s] = DOMAIN cache
      <4>1. answer[s] \in Seq(Metric)
        BY <1>0
      <4> QED BY <1>0, <2>3, <4>1
    <3>3. \A k \in DOMAIN cache : cache[k].kind # "ctxerror"
      BY DEF CacheDated
    <3>4. Kept(s) = DOMAIN cache /\ Kept(s)' = Kept(s)
      BY <2>3, <3>1, <3>2, <3>3 DEF Kept
    <3>5. PICK r \in Scrape : i \in DOMAIN cache /\ r = cache[i].run /\ r = answer[s][i].run
      <4>1. i \in DOMAIN cache /\ answer[s][i] = cache[i]
        BY <3>1, <3>2, <3>4
      <4>2. cache[i] \in Metric
        BY <1>0, <4>1
      <4> QED BY <4>1, <4>2 DEF Metric
    <3>6. r \in Scrape /\ pc[r] \in Over \cup {"fresh"} /\ Kept(r) = DOMAIN cache
          /\ \A k \in DOMAIN cache : answer[r][k] = cache[k]
      BY <3>5 DEF CacheCopies
    <3>7. pc[r] \in Over
      <4>1. pc[r] # "fresh"
        BY <2>3, <3>6 DEF Exclusion, Holders, Holding
      <4> QED BY <3>6, <4>1
    <3>8. pc'[r] \in Over /\ Kept(r)' = Kept(r) /\ answer'[s][i].run = r
      BY <2>3, <3>5, <3>6, <3>7, OverStays
    <3>9. Kept(answer[s][i].run)' = Kept(r)'
      BY <3>8 DEF Kept
    <3> QED BY <2>3, <3>1, <3>2, <3>4, <3>6, <3>8, <3>9 DEF CopyOf
  <2>4. ASSUME NEW u \in Scrape, UNCHANGED pc \/ pc' = [pc EXCEPT ![u] = "select"]
                  \/ pc' = [pc EXCEPT ![u] = "serve"] \/ pc' = [pc EXCEPT ![u] = "fresh"]
                  \/ (pc' = [pc EXCEPT ![u] = "done"] /\ pc[u] = "release")
                  \/ (u # s /\ \E to : pc' = [pc EXCEPT ![u] = to])
        PROVE  FALSE
    BY <1>0, <1>2, <2>4 DEF Over
  <2>5. ASSUME NEW u \in Scrape, Keep(u) \/ Discard(u) \/ ServeNext(u)
        PROVE  UNCHANGED pc
    BY <2>5, Keeping, Sending
  <2>6. ASSUME NEW u \in Scrape, GiveUp(u), pc[u] \in Waiting, u = s
        PROVE  \E m \in Metric : m.kind = "ctxerror" /\ Send(s, m) /\ answer[s] = <<>>
    BY <2>6, Sending DEF Order
  <2> QED BY <2>1, <2>2, <2>3, <2>4, <2>5, <2>6, Moves
<1> QED BY <1>1, <1>2

\* What a run has to tell is settled when it begins.
LEMMA SizeKept ==
  ASSUME TypeOK, [Next]_vars, NEW r \in Scrape, pc[r] \in Over \cup {"fresh"}
  PROVE  size'[r] = size[r] /\ (r \notin closed' => r \notin closed)
<1>1. UNCHANGED size \/ \E s \in Scrape : TakeFresh(s)
  BY DEF Next, vars, locals, history, Tick, CloseContext, Collect, Begin, GiveUp, TakeCached,
     Keep, Discard, EndFresh, ServeNext, EndServe, Release
<1>2. ASSUME NEW s \in Scrape, TakeFresh(s) PROVE size'[r] = size[r]
  BY <1>2 DEF TakeFresh, StartRun, Goto, Over, TypeOK
<1>3. closed \subseteq closed'
  BY DEF Next, vars, locals, history, Tick, CloseContext, Collect, Begin, GiveUp, TakeFresh,
     TakeCached, Keep, Discard, EndFresh, ServeNext, EndServe, Release
<1> QED BY <1>1, <1>2, <1>3

\* The collector is done with all it had to tell, or was cut off.
LEMMA Finished ==
  ASSUME TypeOK, [Next]_vars, NEW s \in Scrape, pc[s] = "fresh", pc'[s] # "fresh"
  PROVE  (Len(answer[s]) = size[s] \/ s \in closed) /\ UNCHANGED <<answer, cache, closed>>
<1>1. EndFresh(s)
  BY DEF Next, vars, locals, history, Tick, CloseContext, Collect, Begin, GiveUp, TakeFresh,
     TakeCached, Keep, Discard, EndFresh, ServeNext, EndServe, Release, Goto, TypeOK
<1> QED BY <1>1 DEF EndFresh

\* The cache grows by the next metric of its run.
LEMMA CacheBeginsStep ==
  TypeOK /\ Exclusion /\ Order /\ CacheDated /\ CacheCopies /\ CallsCopy /\ CacheBegins /\ [Next]_vars
    => CacheBegins'
<1> SUFFICES ASSUME TypeOK, Exclusion, Order, CacheDated, CacheCopies, CallsCopy, CacheBegins,
                    [Next]_vars, NEW i \in DOMAIN cache'
             PROVE  /\ cache'[i].nr = i
                    /\ pc'[cache'[i].run] \in Over /\ cache'[i].run \notin closed'
                         => Len(cache') = size'[cache'[i].run]
  BY DEF CacheBegins
<1>0. pc \in [Scrape -> {"start", "select", "done", "fresh", "serve", "release"}] /\ cache \in Seq(Metric)
  BY DEF TypeOK, Holding
<1>1. CASE \E s \in Scrape : Keep(s)
  <2>1. PICK s \in Scrape : Keep(s)
    BY <1>1
  <2>2. pc[s] = "fresh" /\ s \notin closed /\ UNCHANGED <<pc, closed>>
    BY <2>1, Keeping
  <2>3. PICK m \in Metric : /\ m.run = s /\ m.nr = Len(answer[s]) + 1
                            /\ Len(cache) \in Nat /\ DOMAIN cache' = 1 .. Len(cache) + 1
                            /\ DOMAIN cache = 1 .. Len(cache)
                            /\ \A k \in DOMAIN cache : cache'[k] = cache[k]
                            /\ cache'[Len(cache) + 1] = m
    BY <2>1, Keeping
  <2>4. Len(answer[s]) = Len(cache)
    BY <2>2 DEF CallsCopy
  <2>5. CASE i \in DOMAIN cache
    BY <2>2, <2>3, <2>5 DEF CacheBegins, CacheDated, Over
  <2>6. CASE i = Len(cache) + 1
    BY <2>2, <2>3, <2>4, <2>6 DEF Over
  <2> QED BY <2>3, <2>5, <2>6
<1>2. CASE UNCHANGED cache
  <2>1. PICK r \in Scrape : r = cache[i].run
    <3>1. cache[i] \in Metric
      BY <1>0, <1>2
    <3> QED BY <3>1 DEF Metric
  <2>2. pc[r] \in Over \cup {"fresh"} /\ cache[i].nr = i
    BY <1>2, <2>1 DEF CacheCopies, CacheBegins
  <2>3. CASE pc[r] \in Over
    BY <1>2, <2>1, <2>2, <2>3, SizeKept DEF CacheBegins
  <2>4. CASE pc[r] = "fresh" /\ pc'[r] \in Over
    <3>1. (Len(answer[r]) = size[r] \/ r \in closed) /\ UNCHANGED <<answer, closed>>
      BY <2>4, Finished DEF Over
    <3>2. r \notin closed => Len(answer[r]) = Len(cache)
      BY <2>4 DEF CallsCopy
    <3> QED BY <1>2, <2>1, <2>2, <3>1, <3>2, SizeKept
  <2> QED BY <1>2, <2>1, <2>2, <2>3, <2>4
<1>3. (\E s \in Scrape : Keep(s)) \/ cache' = <<>> \/ UNCHANGED cache
  BY DEF Next, vars, Tick, CloseContext, Collect, Begin, GiveUp, TakeFresh, TakeCached,
     Discard, EndFresh, ServeNext, EndServe, Release, locals, history
<1> QED BY <1>1, <1>2, <1>3

\* A complete answer was made of the cache as it is then.
LEMMA AnswersBeginStep ==
  TypeOK /\ Exclusion /\ Order /\ CacheDated /\ CacheCopies /\ CallsCopy /\ AnswersCopy
    /\ CacheBegins /\ AnswersBegin /\ [Next]_vars => AnswersBegin'
<1> SUFFICES ASSUME TypeOK, Exclusion, Order, CacheDated, CacheCopies, CallsCopy, AnswersCopy,
                    CacheBegins, AnswersBegin, [Next]_vars,
                    NEW s \in Scrape, pc'[s] \in Over, NEW i \in Kept(s)'
             PROVE  BeginningOf(s, answer[s][i].run)'
  BY DEF AnswersBegin
<1>0. /\ pc \in [Scrape -> {"start", "select", "done", "fresh", "serve", "release"}]
      /\ answer \in [Scrape -> Seq(Metric)] /\ cache \in Seq(Metric)
  BY DEF TypeOK, Holding
<1>1. CASE pc[s] \in Over
  <2>1. answer'[s] = answer[s] /\ Kept(s)' = Kept(s)
    BY <1>1, OverStays
  <2>2. PICK r \in Scrape : r = answer[s][i].run
    <3>1. i \in DOMAIN answer[s]
      BY <2>1 DEF Kept
    <3>2. answer[s][i] \in Metric
      BY <1>0, <3>1
    <3> QED BY <3>2 DEF Metric
  <2>3. pc[r] \in Over /\ BeginningOf(s, r)
    BY <1>1, <2>1, <2>2 DEF AnswersCopy, AnswersBegin
  <2>4. size'[r] = size[r] /\ (r \notin closed' => r \notin closed)
    BY <2>3, SizeKept
  <2> QED BY <2>1, <2>2, <2>3, <2>4 DEF BeginningOf
<1>2. CASE pc[s] \in {"fresh", "serve"}
  <2>1. /\ UNCHANGED <<answer, cache, closed>>
        /\ pc[s] = "fresh" => Len(answer[s]) = size[s] \/ s \in closed
        /\ pc[s] = "serve" => Len(answer[s]) = Len(cache)
    BY <1>2 DEF Next, vars, locals, history, Tick, CloseContext, Collect, Begin, GiveUp, TakeFresh,
       TakeCached, Keep, Discard, EndFresh, ServeNext, EndServe, Release, Goto, TypeOK, Over
  <2>2. Kept(s)' = Kept(s)
    BY <2>1 DEF Kept
  <2>3. Kept(s) = DOMAIN cache /\ \A k \in DOMAIN cache : answer[s][k] = cache[k]
    <3>1. CASE pc[s] = "fresh"
      BY <3>1 DEF CallsCopy
    <3>2. CASE pc[s] = "serve"
      <4>1. \A k \in DOMAIN answer[s] : k \in DOMAIN cache /\ answer[s][k] = cache[k]
        BY <3>2 DEF CallsCopy
      <4>2. DOMAIN answer[s] = DOMAIN cache
        <5>1. answer[s] \in Seq(Metric)
          BY <1>0
        <5> QED BY <1>0, <2>1, <3>2, <5>1
      <4>3. \A k \in DOMAIN cache : cache[k].kind # "ctxerror"
        BY DEF CacheDated
      <4> QED BY <4>1, <4>2, <4>3 DEF Kept
    <3> QED BY <1>2, <3>1, <3>2
  <2>4. Len(cache) \in Nat /\ DOMAIN cache = 1 .. Len(cache)
    BY <1>0
  <2>5. PICK r \in Scrape : r = cache[i].run
    <3>1. i \in DOMAIN cache
      BY <2>2, <2>3
    <3>2. cache[i] \in Metric
      BY <1>0, <3>1
    <3> QED BY <3>2 DEF Metric
  <2>6. r \notin closed => Len(cache) = size[r]
    <3>1. CASE pc[s] = "fresh"
      <4>1. r = s
        BY <2>2, <2>3, <2>5, <3>1 DEF CacheDated
      <4> QED BY <2>1, <3>1, <4>1 DEF CallsCopy
    <3>2. CASE pc[s] = "serve"
      <4>1. pc[r] \in Over
        BY <2>2, <2>3, <2>5, <3>2 DEF CacheCopies, Exclusion, Holders, Holding
      <4> QED BY <2>2, <2>3, <2>5, <4>1 DEF CacheBegins
    <3> QED BY <1>2, <3>1, <3>2
  <2>7. size'[r] = size[r]
    <3>1. pc[r] \in Over \cup {"fresh"}
      BY <2>2, <2>3, <2>5 DEF CacheCopies
    <3> QED BY <3>1, SizeKept
  <2>8. \A k \in DOMAIN cache : cache[k].nr = k
    BY DEF CacheBegins
  <2>9. \A k \in Kept(s) : answer[s][k].nr = k /\ 1 .. k \subseteq Kept(s)
    BY <2>3, <2>4, <2>8
  <2>10. answer'[s][i].run = r /\ closed' = closed
    BY <2>1, <2>2, <2>3, <2>5
  <2> QED BY <2>1, <2>2, <2>3, <2>4, <2>6, <2>7, <2>9, <2>10 DEF BeginningOf
<1>3. CASE pc[s] \in Waiting
  <2>1. GiveUp(s)
    BY <1>3 DEF Waiting, Over, Next, vars, locals, history, Tick, CloseContext, Collect, Begin, GiveUp,
       TakeFresh, TakeCached, Keep, Discard, EndFresh, ServeNext, EndServe, Release, Goto, TypeOK
  <2>2. PICK m \in Metric : m.kind = "ctxerror" /\ Send(s, m)
    BY <2>1, Sending
  <2>3. Kept(s)' = Kept(s) /\ Kept(s) = {}
    BY <1>3, <2>2, SentKept DEF Order, Kept
  <2> QED BY <2>3
<1> QED BY <1>0, <1>1, <1>2, <1>3 DEF Over, Waiting

-----------------------------------------------------------------------------
(* Safety                                                                  *)

LEMMA InitIInv == Init => IInv
  BY IntervalAssumption, BoundAssumption
  DEF CacheBegins, AnswersBegin, Init, IInv, CacheCopies, CallsCopy, AnswersCopy, Kept, Over,
      TypeOK, Exclusion, Order,
      CacheDated, AnswersDated, BoundedStaleness,
      OwnErrors, Instant, ZeroTime, StartTime, Holders, Holding, Waiting

LEMMA Invariance == Spec => []IInv
<1>1. IInv /\ [Next]_vars => IInv'
  BY TypeOKStep, ExclusionStep, OrderStep, CacheDatedStep, AnswersDatedStep,
     BoundedStalenessStep, OwnErrorsStep, CacheCopiesStep, CallsCopyStep, AnswersCopyStep,
     CacheBeginsStep, AnswersBeginStep
  DEF IInv
<1> QED BY InitIInv, <1>1, PTL DEF Spec

\* The variables keep their types: an answer is always made of metrics.
THEOREM TypeCorrect == Spec => []TypeOK
  BY Invariance, PTL DEF IInv

\* cacheSem is a lock on the cache and the queries, and is never lost
\* (collector.go:141-174).
THEOREM CacheLocked == Spec => []OneToken
<1>1. IInv => OneToken
  <2> SUFFICES ASSUME TypeOK, Exclusion PROVE OneToken
    BY DEF IInv
  <2>1. CASE token = {}
    BY <2>1 DEF Exclusion, OneToken, Holders
  <2>2. CASE token # {}
    <3>1. PICK time \in token : TRUE
      BY <2>2
    <3>2. token = {time} /\ time \in Instant /\ Holders = {}
      BY <3>1 DEF Exclusion, TypeOK
    <3> QED BY <3>2 DEF OneToken
  <2> QED BY <2>1, <2>2
<1> QED BY Invariance, <1>1, PTL

\* min_interval bounds the staleness of every answer.
THEOREM StalenessBounded == Spec => []BoundedStaleness
  BY Invariance, PTL DEF IInv

\* The metrics of every complete answer are those of one run, in their order
\* from the first one on, whether the cache served them or not: all that the
\* run had to tell, or as far as it came before its own context closed.
THEOREM AnswersAreOneRuns == Spec => []SameAsRun
<1>1. IInv => SameAsRun
  BY DEF IInv, AnswersCopy, AnswersBegin, SameAsRun, Over
<1> QED BY Invariance, <1>1, PTL

\* A call never sees another call's closed context.
THEOREM ErrorsOwned == Spec => []OwnErrors
  BY Invariance, PTL DEF IInv

\* Runs that leave something in the cache are repeated no sooner than
\* min_interval allows, by the time the calls began.
THEOREM RunsSpaced == Spec => RunSpacing
<1>1. IInv /\ [Next]_vars =>
        \A s \in Scrape :
          pc[s] = "select" /\ pc'[s] = "fresh" /\ cache # <<>> =>
            collTime[s] > collTime[cache[1].run] + MinInterval
  <2> SUFFICES ASSUME TypeOK, CacheDated, [Next]_vars, NEW s \in Scrape,
                      pc[s] = "select", pc'[s] = "fresh", cache # <<>>
               PROVE  collTime[s] > collTime[cache[1].run] + MinInterval
    BY DEF IInv
  <2>1. PICK u \in Scrape : TakeFresh(u)
    BY DEF Next, vars, locals, history, Tick, CloseContext, Collect, Begin, GiveUp, TakeCached, Keep,
       Discard, EndFresh, ServeNext, EndServe, Release, Goto, TypeOK
  <2>2. PICK time \in token : collTime[s] > time + MinInterval
    BY <2>1 DEF TakeFresh, StartRun, Stale, Goto, TypeOK
  <2>3. 1 \in DOMAIN cache
    BY DEF TypeOK
  <2> QED BY <2>2, <2>3 DEF CacheDated
<1> QED BY Invariance, <1>1, PTL DEF Spec, RunSpacing
=============================================================================
