-------------------------------- MODULE Gather --------------------------------
(***************************************************************************)
(* One call of exporter.Gather: a goroutine per target, under it one per   *)
(* collector and one per query, that all send to metricChan; the goroutine *)
(* that closes the channel; and the loop that receives from it.            *)
(*                                                                         *)
(* A WaitGroup is the set of the goroutines it still waits for: the code   *)
(* adds the number of goroutines before it starts them, and each takes     *)
(* itself off once, when it returns.  A cached collector stands for its    *)
(* queries here; CachingCollector tells it apart.  A row yields one metric.*)
(* The goroutines that OpenConnection and PingDB start for the driver's own*)
(* calls belong to no WaitGroup and send nothing: they are not here.       *)
(***************************************************************************)
EXTENDS Naturals, Sequences, FiniteSets

CONSTANTS
  Target, Collector, Query,
  Collectors,   \* the collectors of each target
  Queries,      \* the queries of each collector
  Named,        \* the targets that have a name (all, unless in single target mode)
  QueryMetrics, \* gc.EnableQueryMetrics
  Cap,          \* capMetricChan
  MaxRows       \* bound: rows of one query

ASSUME StructureAssumption ==
  /\ Collectors \in [Target -> SUBSET Collector]
  /\ Queries \in [Collector -> SUBSET Query]
  /\ \A t, u \in Target : Collectors[t] \cap Collectors[u] # {} => t = u
  /\ \A c, d \in Collector : Queries[c] \cap Queries[d] # {} => c = d
ASSUME ModeAssumption == Named \subseteq Target /\ QueryMetrics \in BOOLEAN
ASSUME SizeAssumption == Cap \in Nat \ {0} /\ MaxRows \in Nat

VARIABLES
  targets, \* the targets the job filters leave
  chan,   \* the content of metricChan
  open,   \* metricChan is not closed
  got,    \* what the loop of Gather has received
  gpc,    \* where Gather is
  closer, \* where the goroutine that closes metricChan is
  tpc,    \* where each target's goroutine is
  cpc,    \* where each collector's goroutine is
  qpc,    \* where each query's goroutine is
  rows,   \* rowCount of each query
  left,   \* the rows of each query that are still to be read
  wg,     \* the WaitGroup of Gather
  twg,    \* the WaitGroup of each target
  cwg,    \* the WaitGroup of each collector
  panic   \* a goroutine has sent on the closed channel

main == <<targets, open, got, gpc, closer>>
qvars == <<qpc, rows, left>>
vars == <<chan, panic, main, wg, tpc, twg, cpc, cwg, qvars>>

Up(t, value) == [kind |-> "up", of |-> t, value |-> value]
Duration(t) == [kind |-> "scrape_duration", of |-> t]
Down(t) == [kind |-> "ping_error", of |-> t]
Row(q) == [kind |-> "row", of |-> q]
Error(q) == [kind |-> "query_error", of |-> q]
QueryDuration(q) == [kind |-> "query_duration", of |-> q]
QueryRows(q, n) == [kind |-> "query_rows", of |-> q, value |-> n]

Metric ==
  {Up(t, v) : t \in Target, v \in {0, 1}}
    \cup {Duration(t) : t \in Target} \cup {Down(t) : t \in Target}
    \cup {Row(q) : q \in Query} \cup {Error(q) : q \in Query}
    \cup {QueryDuration(q) : q \in Query} \cup {QueryRows(q, n) : q \in Query, n \in 0 .. MaxRows}

TypeOK ==
  /\ targets \subseteq Target
  /\ chan \in Seq(Metric) /\ Len(chan) <= Cap
  /\ got \in Seq(Metric)
  /\ open \in BOOLEAN /\ panic \in BOOLEAN
  /\ gpc \in {"start", "receive", "done"}
  /\ closer \in {"idle", "wait", "done"}
  /\ tpc \in [Target -> {"idle", "ping", "down", "up0", "up1", "run", "wait", "last", "return", "done"}]
  /\ cpc \in [Collector -> {"idle", "start", "wait", "done"}]
  /\ qpc \in [Query -> {"idle", "run", "rows", "close", "duration", "count", "return", "done"}]
  /\ rows \in [Query -> 0 .. MaxRows] /\ left \in [Query -> 0 .. MaxRows]
  /\ wg \subseteq Target
  /\ twg \in [Target -> SUBSET Collector]
  /\ cwg \in [Collector -> SUBSET Query]

Init ==
  /\ targets = {}
  /\ chan = <<>> /\ got = <<>>
  /\ open = TRUE /\ panic = FALSE
  /\ gpc = "start" /\ closer = "idle"
  /\ tpc = [t \in Target |-> "idle"]
  /\ cpc = [c \in Collector |-> "idle"]
  /\ qpc = [q \in Query |-> "idle"]
  /\ rows = [q \in Query |-> 0] /\ left = [q \in Query |-> 0]
  /\ wg = {}
  /\ twg = [t \in Target |-> {}]
  /\ cwg = [c \in Collector |-> {}]

\* ch <- m: waits while the channel is full, panics when it is closed.
Send(m) ==
  \/ open /\ Len(chan) < Cap /\ chan' = Append(chan, m) /\ UNCHANGED panic
  \/ ~ open /\ panic' = TRUE /\ UNCHANGED chan

SendNamed(t, m) ==
  IF t \in Named THEN Send(m) ELSE UNCHANGED <<chan, panic>>

TargetGoto(t, from, to) == tpc[t] = from /\ tpc' = [tpc EXCEPT ![t] = to]
QueryGoto(q, from, to) == qpc[q] = from /\ qpc' = [qpc EXCEPT ![q] = to]

-----------------------------------------------------------------------------
(* Gather                                                                  *)

\* No target is left by the job filters: an error, and no goroutine.
NoTargets ==
  /\ gpc = "start"
  /\ gpc' = "done"
  /\ UNCHANGED <<targets, chan, panic, open, got, closer, wg, tpc, twg, cpc, cwg, qvars>>

Start ==
  /\ gpc = "start"
  /\ gpc' = "receive"
  /\ targets' \in (SUBSET Target) \ {{}}
  /\ wg' = targets'
  /\ tpc' = [t \in Target |-> IF t \in targets' THEN "ping" ELSE "idle"]
  /\ closer' = "wait"
  /\ UNCHANGED <<chan, panic, open, got, twg, cpc, cwg, qvars>>

Receive ==
  /\ gpc = "receive" /\ chan # <<>>
  /\ got' = Append(got, Head(chan))
  /\ chan' = Tail(chan)
  /\ UNCHANGED <<targets, panic, open, gpc, closer, wg, tpc, twg, cpc, cwg, qvars>>

\* The range loop over the closed channel ends, and so does the draining.
Return ==
  /\ gpc = "receive" /\ chan = <<>> /\ ~ open
  /\ gpc' = "done"
  /\ UNCHANGED <<targets, chan, panic, open, got, closer, wg, tpc, twg, cpc, cwg, qvars>>

Close ==
  /\ closer = "wait" /\ wg = {}
  /\ closer' = "done"
  /\ open' = FALSE
  /\ UNCHANGED <<targets, chan, panic, got, gpc, wg, tpc, twg, cpc, cwg, qvars>>

-----------------------------------------------------------------------------
(* target.Collect                                                          *)

\* The ping has answered or its context is closed.  In the second case the
\* goroutines of sql.go:69-77 and 97-111 go on, waiting for the driver, while
\* the target is down; TargetHandle has the pool that the first of them opens.
Ping(t) ==
  /\ TargetGoto(t, "ping", "down") \/ TargetGoto(t, "ping", "up1")
  /\ UNCHANGED <<chan, panic, main, wg, twg, cpc, cwg, qvars>>

SendDown(t) ==
  /\ TargetGoto(t, "down", "up0")
  /\ Send(Down(t))
  /\ UNCHANGED <<main, wg, twg, cpc, cwg, qvars>>

\* The `up` metric, of a named target.  The collectors run only if it is up.
SendUp(t) ==
  /\ \/ TargetGoto(t, "up0", "wait") /\ SendNamed(t, Up(t, 0))
     \/ TargetGoto(t, "up1", "run") /\ SendNamed(t, Up(t, 1))
  /\ UNCHANGED <<main, wg, twg, cpc, cwg, qvars>>

\* Mutant: Add is forgotten for the collectors.
StartCollectorsUncounted(t) ==
  /\ TargetGoto(t, "run", "wait")
  /\ cpc' = [c \in Collector |-> IF c \in Collectors[t] THEN "start" ELSE cpc[c]]
  /\ UNCHANGED <<chan, panic, main, wg, twg, cwg, qvars>>

StartCollectors(t) ==
  /\ TargetGoto(t, "run", "wait")
  /\ twg' = [twg EXCEPT ![t] = Collectors[t]]
  /\ cpc' = [c \in Collector |-> IF c \in Collectors[t] THEN "start" ELSE cpc[c]]
  /\ UNCHANGED <<chan, panic, main, wg, cwg, qvars>>

\* Mutant: Wait is forgotten.
WaitCollectorsNot(t) ==
  /\ TargetGoto(t, "wait", "last")
  /\ UNCHANGED <<chan, panic, main, wg, twg, cpc, cwg, qvars>>

WaitCollectors(t) ==
  /\ TargetGoto(t, "wait", "last")
  /\ twg[t] = {}
  /\ UNCHANGED <<chan, panic, main, wg, twg, cpc, cwg, qvars>>

\* The `scrape_duration_seconds` metric, of a named target.
SendDuration(t) ==
  /\ TargetGoto(t, "last", "return")
  /\ SendNamed(t, Duration(t))
  /\ UNCHANGED <<main, wg, twg, cpc, cwg, qvars>>

TargetDone(t) ==
  /\ TargetGoto(t, "return", "done")
  /\ wg' = wg \ {t}
  /\ UNCHANGED <<chan, panic, main, twg, cpc, cwg, qvars>>

-----------------------------------------------------------------------------
(* collector.Collect                                                       *)

\* Mutant: Add is forgotten for the queries.
StartQueriesUncounted(c) ==
  /\ cpc[c] = "start"
  /\ cpc' = [cpc EXCEPT ![c] = "wait"]
  /\ qpc' = [q \in Query |-> IF q \in Queries[c] THEN "run" ELSE qpc[q]]
  /\ UNCHANGED <<chan, panic, main, wg, tpc, twg, cwg, rows, left>>

StartQueries(c) ==
  /\ cpc[c] = "start"
  /\ cpc' = [cpc EXCEPT ![c] = "wait"]
  /\ cwg' = [cwg EXCEPT ![c] = Queries[c]]
  /\ qpc' = [q \in Query |-> IF q \in Queries[c] THEN "run" ELSE qpc[q]]
  /\ UNCHANGED <<chan, panic, main, wg, tpc, twg, rows, left>>

CollectorDone(t, c) ==
  /\ c \in Collectors[t]
  /\ cpc[c] = "wait" /\ cwg[c] = {}
  /\ cpc' = [cpc EXCEPT ![c] = "done"]
  /\ twg' = [twg EXCEPT ![t] = @ \ {c}]
  /\ UNCHANGED <<chan, panic, main, wg, tpc, cwg, qvars>>

-----------------------------------------------------------------------------
(* Query.Collect                                                           *)

\* What a query that is over still sends, by defer.
AfterRows == IF QueryMetrics THEN "duration" ELSE "return"

\* The query runs, with some rows as its result.
Run(q) ==
  /\ QueryGoto(q, "run", "rows")
  /\ \E n \in 0 .. MaxRows : left' = [left EXCEPT ![q] = n]
  /\ UNCHANGED <<chan, panic, main, wg, tpc, twg, cpc, cwg, rows>>

\* The context is closed or the query fails.
RunFails(q) ==
  /\ QueryGoto(q, "run", AfterRows)
  /\ Send(Error(q))
  /\ UNCHANGED <<main, wg, tpc, twg, cpc, cwg, rows, left>>

\* Columns the metrics need are missing, which is an error or ignored.
ColumnsMissing(q) ==
  /\ QueryGoto(q, "run", "close")
  /\ Send(Error(q)) \/ UNCHANGED <<chan, panic>>
  /\ UNCHANGED <<main, wg, tpc, twg, cpc, cwg, rows, left>>

\* Mutant: a row that fails counts.
ScanRowCountsErrors(q) ==
  /\ qpc[q] = "rows" /\ left[q] > 0
  /\ left' = [left EXCEPT ![q] = @ - 1]
  /\ rows' = [rows EXCEPT ![q] = @ + 1]
  /\ Send(Row(q)) \/ Send(Error(q))
  /\ UNCHANGED <<main, wg, tpc, twg, cpc, cwg, qpc>>

\* Mutant: a row counts twice.
ScanRowCountsMetrics(q) ==
  /\ qpc[q] = "rows" /\ left[q] > 0
  /\ left' = [left EXCEPT ![q] = @ - 1]
  /\ \/ Send(Row(q)) /\ rows' = [rows EXCEPT ![q] = @ + 2]
     \/ Send(Error(q)) /\ UNCHANGED rows
  /\ UNCHANGED <<main, wg, tpc, twg, cpc, cwg, qpc>>

ScanRow(q) ==
  /\ qpc[q] = "rows" /\ left[q] > 0
  /\ left' = [left EXCEPT ![q] = @ - 1]
  /\ \/ Send(Row(q)) /\ rows' = [rows EXCEPT ![q] = @ + 1]
     \/ Send(Error(q)) /\ UNCHANGED rows
  /\ UNCHANGED <<main, wg, tpc, twg, cpc, cwg, qpc>>

\* rows.Next returns false, for want of rows or for an error, which rows.Err
\* tells.
EndRows(q) ==
  /\ QueryGoto(q, "rows", "close")
  /\ \/ left[q] = 0 /\ UNCHANGED <<chan, panic>>
     \/ Send(Error(q))
  /\ UNCHANGED <<main, wg, tpc, twg, cpc, cwg, rows, left>>

\* The deferred rows.Close may fail as well.
CloseRows(q) ==
  /\ QueryGoto(q, "close", AfterRows)
  /\ Send(Error(q)) \/ UNCHANGED <<chan, panic>>
  /\ UNCHANGED <<main, wg, tpc, twg, cpc, cwg, rows, left>>

SendQueryDuration(q) ==
  /\ QueryGoto(q, "duration", "count")
  /\ Send(QueryDuration(q))
  /\ UNCHANGED <<main, wg, tpc, twg, cpc, cwg, rows, left>>

SendQueryRows(q) ==
  /\ QueryGoto(q, "count", "return")
  /\ Send(QueryRows(q, rows[q]))
  /\ UNCHANGED <<main, wg, tpc, twg, cpc, cwg, rows, left>>

\* Mutant: Done is forgotten by a query without rows.
QueryDoneUncounted(c, q) ==
  /\ q \in Queries[c]
  /\ QueryGoto(q, "return", "done")
  /\ cwg' = [cwg EXCEPT ![c] = IF rows[q] > 0 THEN @ \ {q} ELSE @]
  /\ UNCHANGED <<chan, panic, main, wg, tpc, twg, cpc, rows, left>>

QueryDone(c, q) ==
  /\ q \in Queries[c]
  /\ QueryGoto(q, "return", "done")
  /\ cwg' = [cwg EXCEPT ![c] = @ \ {q}]
  /\ UNCHANGED <<chan, panic, main, wg, tpc, twg, cpc, rows, left>>

-----------------------------------------------------------------------------
TargetNext(t) ==
  \/ Ping(t) \/ SendDown(t) \/ SendUp(t) \/ StartCollectors(t) \/ WaitCollectors(t)
  \/ SendDuration(t) \/ TargetDone(t)

CollectorNext(c) == StartQueries(c) \/ \E t \in Target : CollectorDone(t, c)

QueryNext(q) ==
  \/ Run(q) \/ RunFails(q) \/ ColumnsMissing(q) \/ ScanRow(q) \/ EndRows(q)
  \/ CloseRows(q) \/ SendQueryDuration(q) \/ SendQueryRows(q)
  \/ \E c \in Collector : QueryDone(c, q)

GatherNext == NoTargets \/ Start \/ Receive \/ Return

Next ==
  /\ ~ panic
  /\ \/ GatherNext \/ Close
     \/ \E t \in Target : TargetNext(t)
     \/ \E c \in Collector : CollectorNext(c)
     \/ \E q \in Query : QueryNext(q)

Spec == Init /\ [][Next]_vars

\* Every goroutine goes on when it can: the driver answers a ping, and a query
\* or the next row, before or when the context closes, and a waiting sender gets
\* its place in the channel.
FairSpec ==
  /\ Spec
  /\ WF_vars(Next /\ (GatherNext \/ Close))
  /\ \A t \in Target : WF_vars(Next /\ TargetNext(t))
  /\ \A c \in Collector : WF_vars(Next /\ CollectorNext(c))
  /\ \A q \in Query : WF_vars(Next /\ QueryNext(q))

-----------------------------------------------------------------------------
(* Properties                                                              *)

Count(m) == Cardinality({i \in DOMAIN got : got[i] = m})

QueryOf(t) == UNION {Queries[c] : c \in Collectors[t]}

OfQuery(q) == {Row(q), Error(q), QueryDuration(q)} \cup {QueryRows(q, n) : n \in 0 .. MaxRows}

\* No goroutine sends to metricChan once Gather's own goroutine has closed it,
\* which would end the process: three levels of WaitGroups keep the close
\* behind the last send (exporter.go:134-147, target.go:143-155,
\* collector.go:75-87).
NoSendOnClosed == ~ panic

\* When Gather returns, every goroutine that sends on the channel is over,
\* those of targets, collectors and queries, and nothing was left in it.  (The
\* driver's calls at Ping may go on after that.)
NoSenderOutlivesGather ==
  gpc = "done" =>
    /\ chan = <<>>
    /\ \A t \in Target : tpc[t] \in {"idle", "done"}
    /\ \A c \in Collector : cpc[c] \in {"idle", "done"}
    /\ \A q \in Query : qpc[q] \in {"idle", "done"}

\* Closing the channel comes after all that its senders do.
CloseIsLast == NoSendOnClosed /\ NoSenderOutlivesGather

\* A scrape tells of each of its named targets once whether it is up and once
\* how long it took, reached or not, and a target that is not up sends why and
\* nothing of its queries (target.go:125-161).
TargetsReport ==
  gpc = "done" =>
    \A t \in targets \cap Named :
      /\ Count(Duration(t)) = 1
      /\ Count(Up(t, 0)) = Count(Down(t))
      /\ Count(Up(t, 0)) + Count(Up(t, 1)) = 1
      /\ Count(Down(t)) = 1 => \A q \in QueryOf(t), m \in Metric : m \in OfQuery(q) => Count(m) = 0

\* Every query of a target that is up tells of its duration and of its rows
\* once, however it ended, and the rows it tells of are those that became
\* metrics (query.go:109-159).
QueriesReport ==
  gpc = "done" /\ QueryMetrics =>
    \A t \in targets : \A q \in QueryOf(t) :
      Count(Down(t)) = 0 =>
        /\ Count(QueryDuration(q)) = 1
        /\ \A n \in 0 .. MaxRows : Count(QueryRows(q, n)) = IF n = Count(Row(q)) THEN 1 ELSE 0

\* Whatever order the goroutines run in, the `up` metric of a target comes
\* before all that its queries send, and its duration after (target.go:136,
\* 157).
TargetFrames ==
  \A t \in Named : \A i \in DOMAIN got :
    /\ got[i] \in UNION {OfQuery(q) : q \in QueryOf(t)} => \E j \in 1 .. i : got[j] = Up(t, 1)
    /\ got[i] = Duration(t) => \A j \in i .. Len(got), q \in QueryOf(t) : got[j] \notin OfQuery(q)

\* What a scrape tells of its targets and of their queries is complete, each
\* thing once and in its place, and no failure of a query costs another its
\* reports.
Reports == TargetsReport /\ QueriesReport /\ TargetFrames

\* A scrape comes to its end, even when the channel has room for one metric.
GatherEnds == <>(gpc = "done")
=============================================================================
