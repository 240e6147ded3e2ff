----------------------------- MODULE GatherProofs -----------------------------
(***************************************************************************)
(* No goroutine of a scrape sends on the closed channel, and none of those *)
(* that send on it is left when the scrape returns, for any targets,       *)
(* collectors and queries, any channel capacity and any number of rows.    *)
(*                                                                         *)
(* The argument is the nesting of the WaitGroups: a query at work keeps    *)
(* its collector waiting, a collector at work keeps its target waiting, a  *)
(* target at work is in the WaitGroup of Gather, and the channel is closed *)
(* when that one is empty.                                                 *)
(***************************************************************************)
EXTENDS Gather, FiniteSetTheorems, SequenceTheorems, TLAPS

Over == {"idle", "done"}

\* TypeOK without the metrics.
Shape ==
  /\ open \in BOOLEAN
  /\ gpc \in {"start", "receive", "done"}
  /\ closer \in {"idle", "wait", "done"}
  /\ tpc \in [Target -> {"idle", "ping", "down", "up0", "up1", "run", "wait", "last", "return", "done"}]
  /\ cpc \in [Collector -> {"idle", "start", "wait", "done"}]
  /\ qpc \in [Query -> {"idle", "run", "rows", "close", "duration", "count", "return", "done"}]
  /\ rows \in [Query -> Nat] /\ left \in [Query -> Nat]
  /\ wg \subseteq Target
  /\ twg \in [Target -> SUBSET Collector]
  /\ cwg \in [Collector -> SUBSET Query]

\* Nothing happens to a target, a collector or a query before its turn, and a
\* query counts its rows from zero.
Fresh ==
  /\ gpc = "start" => \A t \in Target : tpc[t] = "idle"
  /\ \A t \in Target : tpc[t] \in {"idle", "ping", "down", "up0", "up1", "run"} =>
       \A c \in Collectors[t] : cpc[c] = "idle"
  /\ \A c \in Collector : cpc[c] \in {"idle", "start"} =>
       \A q \in Queries[c] : qpc[q] = "idle"
  /\ \A q \in Query : qpc[q] \in {"idle", "run"} => rows[q] = 0
  /\ \A q \in Query : rows[q] + left[q] <= MaxRows

\* Whoever is at work is waited for, and so is the one that started it.
Covered ==
  /\ \A t \in Target : tpc[t] \notin Over => t \in wg
  /\ \A t \in Target : \A c \in Collectors[t] :
       cpc[c] \notin Over => c \in twg[t] /\ tpc[t] = "wait"
  /\ \A c \in Collector : \A q \in Queries[c] :
       qpc[q] \notin Over => q \in cwg[c] /\ cpc[c] = "wait"

\* No collector or query runs for itself.
Owned ==
  /\ \A c \in Collector : cpc[c] # "idle" => \E t \in Target : c \in Collectors[t]
  /\ \A q \in Query : qpc[q] # "idle" => \E c \in Collector : q \in Queries[c]

\* The channel is open while somebody is at work, and Gather leaves it empty.
Closing ==
  /\ NoSendOnClosed
  /\ ~ open => wg = {}
  /\ gpc = "start" => open /\ closer = "idle" /\ wg = {} /\ chan = <<>>
  /\ closer = "idle" => open
  /\ gpc = "done" => wg = {} /\ chan = <<>>

IInv == TypeOK /\ Fresh /\ Covered /\ Owned /\ Closing

-----------------------------------------------------------------------------
(* Preservation, part by part                                              *)

LEMMA Shaped == TypeOK => Shape
BY SizeAssumption DEF TypeOK, Shape

\* A send keeps the types.
LEMMA SendTyped ==
  ASSUME TypeOK, NEW m \in Metric, Send(m)
  PROVE  chan' \in Seq(Metric) /\ Len(chan') <= Cap /\ panic' \in BOOLEAN
<1> USE SizeAssumption
<1>1. CASE open /\ Len(chan) < Cap /\ chan' = Append(chan, m) /\ UNCHANGED panic
  BY <1>1 DEF TypeOK
<1>2. CASE ~ open /\ panic' = TRUE /\ UNCHANGED chan
  BY <1>2 DEF TypeOK
<1> QED BY <1>1, <1>2 DEF Send

LEMMA NamedTyped ==
  ASSUME TypeOK, NEW t \in Target, NEW m \in Metric, SendNamed(t, m)
  PROVE  chan' \in Seq(Metric) /\ Len(chan') <= Cap /\ panic' \in BOOLEAN
BY SendTyped DEF SendNamed, TypeOK

\* What the goroutines send are metrics.
LEMMA Metrics ==
  /\ \A t \in Target : Up(t, 0) \in Metric /\ Up(t, 1) \in Metric
       /\ Duration(t) \in Metric /\ Down(t) \in Metric
  /\ \A q \in Query : Row(q) \in Metric /\ Error(q) \in Metric
       /\ QueryDuration(q) \in Metric
  /\ \A q \in Query, n \in 0 .. MaxRows : QueryRows(q, n) \in Metric
<1>1. \A t \in Target : Up(t, 0) \in Metric /\ Up(t, 1) \in Metric
       /\ Duration(t) \in Metric /\ Down(t) \in Metric
  <2> TAKE t \in Target
  <2>1. \A v \in {0, 1} : Up(t, v) \in {Up(u, w) : u \in Target, w \in {0, 1}}
    OBVIOUS
  <2>2. Duration(t) \in {Duration(u) : u \in Target} /\ Down(t) \in {Down(u) : u \in Target}
    OBVIOUS
  <2> QED BY <2>1, <2>2 DEF Metric
<1>2. \A q \in Query : Row(q) \in Metric /\ Error(q) \in Metric
       /\ QueryDuration(q) \in Metric
  <2> TAKE q \in Query
  <2>1. Row(q) \in {Row(r) : r \in Query} /\ Error(q) \in {Error(r) : r \in Query}
          /\ QueryDuration(q) \in {QueryDuration(r) : r \in Query}
    OBVIOUS
  <2> QED BY <2>1 DEF Metric
<1>3. \A q \in Query, n \in 0 .. MaxRows : QueryRows(q, n) \in Metric
  BY DEF Metric, QueryRows
<1> QED BY <1>1, <1>2, <1>3

\* As long as somebody is at work the channel is open, so a send is no panic.
LEMMA AtWork ==
  ASSUME Shape, Covered, Owned, Closing
  PROVE  /\ \A t \in Target : tpc[t] \notin Over => open /\ gpc = "receive"
         /\ \A c \in Collector : cpc[c] \notin Over => open /\ gpc = "receive"
         /\ \A q \in Query : qpc[q] \notin Over => open /\ gpc = "receive"
<1>1. \A t \in Target : tpc[t] \notin Over => open /\ gpc = "receive"
  BY DEF Shape, Covered, Closing
<1>2. \A c \in Collector : cpc[c] \notin Over => open /\ gpc = "receive"
  BY <1>1 DEF Shape, Covered, Owned, Over
<1>3. \A q \in Query : qpc[q] \notin Over => open /\ gpc = "receive"
  BY <1>2 DEF Shape, Covered, Owned, Over
<1> QED BY <1>1, <1>2, <1>3

\* Every step keeps the types; the rows of a query never exceed its result.
LEMMA TypeOKStep ==
  TypeOK /\ Fresh /\ [Next]_vars
    => TypeOK'
<1> SUFFICES ASSUME TypeOK, Fresh, [Next]_vars PROVE TypeOK'
  OBVIOUS
<1> USE StructureAssumption, ModeAssumption, SizeAssumption DEF TypeOK, Fresh,
      TargetGoto, QueryGoto, main, qvars, AfterRows
<1>1. ASSUME NEW t \in Target, TargetNext(t) PROVE TypeOK'
  <2>1. CASE SendDown(t)
    BY <2>1, SendTyped, Metrics DEF SendDown
  <2>2. CASE SendUp(t)
    BY <2>2, NamedTyped, Metrics DEF SendUp
  <2>3. CASE StartCollectors(t)
    BY <2>3 DEF StartCollectors
  <2>4. CASE SendDuration(t)
    BY <2>4, NamedTyped, Metrics DEF SendDuration
  <2>5. CASE Ping(t) \/ WaitCollectors(t) \/ TargetDone(t)
    BY <2>5 DEF Ping, WaitCollectors, TargetDone
  <2> QED BY <1>1, <2>1, <2>2, <2>3, <2>4, <2>5 DEF TargetNext
<1>2. ASSUME NEW c \in Collector, CollectorNext(c) PROVE TypeOK'
  <2>1. CASE StartQueries(c)
    BY <2>1 DEF StartQueries
  <2>2. ASSUME NEW t \in Target, CollectorDone(t, c) PROVE TypeOK'
    BY <2>2 DEF CollectorDone
  <2> QED BY <1>2, <2>1, <2>2 DEF CollectorNext
<1>3. ASSUME NEW q \in Query, QueryNext(q) PROVE TypeOK'
  <2>1. CASE RunFails(q)
    BY <2>1, SendTyped, Metrics DEF RunFails
  <2>2. CASE ColumnsMissing(q)
    BY <2>2, SendTyped, Metrics DEF ColumnsMissing
  <2>3. CASE ScanRow(q)
    <3>1. Row(q) \in Metric /\ Error(q) \in Metric
      BY Metrics
    <3>2. chan' \in Seq(Metric) /\ Len(chan') <= Cap /\ panic' \in BOOLEAN
      BY <2>3, <3>1, SendTyped DEF ScanRow
    <3>3. rows' \in [Query -> 0 .. MaxRows] /\ left' \in [Query -> 0 .. MaxRows]
      <4>1. rows[q] \in Nat /\ left[q] \in Nat /\ rows[q] + left[q] <= MaxRows /\ left[q] > 0
        BY <2>3 DEF ScanRow
      <4>2. rows[q] + 1 \in 0 .. MaxRows /\ left[q] - 1 \in 0 .. MaxRows
        BY <4>1
      <4>3. left' = [left EXCEPT ![q] = @ - 1] /\ (rows' = [rows EXCEPT ![q] = @ + 1] \/ rows' = rows)
        BY <2>3 DEF ScanRow
      <4>4. rows \in [Query -> 0 .. MaxRows] /\ left \in [Query -> 0 .. MaxRows]
        OBVIOUS
      <4> HIDE DEF TypeOK, Fresh
      <4>5. left' \in [Query -> 0 .. MaxRows]
        BY <4>2, <4>3, <4>4
      <4>6. rows' \in [Query -> 0 .. MaxRows]
        BY <4>2, <4>3, <4>4
      <4> QED BY <4>5, <4>6
    <3> QED BY <2>3, <3>2, <3>3 DEF ScanRow
  <2>4. CASE EndRows(q)
    BY <2>4, SendTyped, Metrics DEF EndRows
  <2>5. CASE CloseRows(q)
    BY <2>5, SendTyped, Metrics DEF CloseRows
  <2>6. CASE SendQueryDuration(q)
    BY <2>6, SendTyped, Metrics DEF SendQueryDuration
  <2>7. CASE SendQueryRows(q)
    BY <2>7, SendTyped, Metrics DEF SendQueryRows
  <2>8. ASSUME NEW c \in Collector, QueryDone(c, q) PROVE TypeOK'
    BY <2>8 DEF QueryDone
  <2>9. CASE Run(q)
    BY <2>9 DEF Run
  <2> QED BY <1>3, <2>1, <2>2, <2>3, <2>4, <2>5, <2>6, <2>7, <2>8, <2>9 DEF QueryNext
<1>4. CASE GatherNext
  <2>1. CASE Receive
    BY <2>1 DEF Receive
  <2>2. CASE NoTargets \/ Start \/ Return
    BY <2>2 DEF NoTargets, Start, Return
  <2> QED BY <1>4, <2>1, <2>2 DEF GatherNext
<1>5. CASE Close
  BY <1>5 DEF Close
<1>6. CASE UNCHANGED vars
  BY <1>6 DEF vars, main, qvars
<1> QED BY <1>1, <1>2, <1>3, <1>4, <1>5, <1>6 DEF Next

\* A goroutine only starts those that have not run.
LEMMA FreshStep ==
  Shape /\ Fresh /\ [Next]_vars
    => Fresh'
<1> SUFFICES ASSUME Shape, Fresh, [Next]_vars PROVE Fresh'
  OBVIOUS
<1> USE StructureAssumption, ModeAssumption, SizeAssumption DEF Shape, Fresh,
      TargetGoto, QueryGoto, main, qvars, AfterRows
<1>1. ASSUME NEW t \in Target, TargetNext(t) PROVE Fresh'
  <2>1. CASE StartCollectors(t)
    BY <2>1 DEF StartCollectors
  <2>2. CASE Ping(t) \/ SendDown(t) \/ SendUp(t)
    BY <2>2 DEF Ping, SendDown, SendUp
  <2>3. CASE WaitCollectors(t) \/ SendDuration(t) \/ TargetDone(t)
    BY <2>3 DEF WaitCollectors, SendDuration, TargetDone
  <2> QED BY <1>1, <2>1, <2>2, <2>3 DEF TargetNext
<1>2. ASSUME NEW c \in Collector, CollectorNext(c) PROVE Fresh'
  <2>1. CASE StartQueries(c)
    BY <2>1 DEF StartQueries
  <2>2. ASSUME NEW t \in Target, CollectorDone(t, c) PROVE Fresh'
    BY <2>2 DEF CollectorDone
  <2> QED BY <1>2, <2>1, <2>2 DEF CollectorNext
<1>3. ASSUME NEW q \in Query, QueryNext(q) PROVE Fresh'
  <2>1. CASE ScanRow(q)
    BY <2>1 DEF ScanRow
  <2>2. ASSUME NEW c \in Collector, QueryDone(c, q) PROVE Fresh'
    BY <2>2 DEF QueryDone
  <2>3. CASE Run(q) \/ RunFails(q) \/ ColumnsMissing(q)
    BY <2>3 DEF Run, RunFails, ColumnsMissing
  <2>4. CASE EndRows(q) \/ CloseRows(q) \/ SendQueryDuration(q) \/ SendQueryRows(q)
    BY <2>4 DEF EndRows, CloseRows, SendQueryDuration, SendQueryRows
  <2> QED BY <1>3, <2>1, <2>2, <2>3, <2>4 DEF QueryNext
<1>4. CASE GatherNext
  <2>1. CASE Start
    BY <2>1 DEF Start
  <2>2. CASE NoTargets \/ Receive \/ Return
    BY <2>2 DEF NoTargets, Receive, Return
  <2> QED BY <1>4, <2>1, <2>2 DEF GatherNext
<1>5. CASE Close
  BY <1>5 DEF Close
<1>6. CASE UNCHANGED vars
  BY <1>6 DEF vars, main, qvars
<1> QED BY <1>1, <1>2, <1>3, <1>4, <1>5, <1>6 DEF Next

\* A goroutine is counted before it starts, and whoever waits for it goes on after it
\* is over.
LEMMA CoveredStep ==
  Shape /\ Fresh /\ Covered /\ [Next]_vars
    => Covered'
<1> SUFFICES ASSUME Shape, Fresh, Covered, [Next]_vars PROVE Covered'
  OBVIOUS
<1> USE StructureAssumption, ModeAssumption, SizeAssumption DEF Shape, Fresh, Covered,
      Over, TargetGoto, QueryGoto, main, qvars, AfterRows
<1>1. ASSUME NEW t \in Target, TargetNext(t) PROVE Covered'
  <2>1. CASE StartCollectors(t)
    BY <2>1 DEF StartCollectors
  <2>2. CASE WaitCollectors(t)
    BY <2>2 DEF WaitCollectors
  <2>3. CASE TargetDone(t)
    BY <2>3 DEF TargetDone
  <2>4. CASE Ping(t) \/ SendDown(t) \/ SendUp(t) \/ SendDuration(t)
    BY <2>4 DEF Ping, SendDown, SendUp, SendDuration
  <2> QED BY <1>1, <2>1, <2>2, <2>3, <2>4 DEF TargetNext
<1>2. ASSUME NEW c \in Collector, CollectorNext(c) PROVE Covered'
  <2>1. CASE StartQueries(c)
    BY <2>1 DEF StartQueries
  <2>2. ASSUME NEW t \in Target, CollectorDone(t, c) PROVE Covered'
    BY <2>2 DEF CollectorDone
  <2> QED BY <1>2, <2>1, <2>2 DEF CollectorNext
<1>3. ASSUME NEW q \in Query, QueryNext(q) PROVE Covered'
  <2>1. CASE ScanRow(q)
    BY <2>1 DEF ScanRow
  <2>2. ASSUME NEW c \in Collector, QueryDone(c, q) PROVE Covered'
    BY <2>2 DEF QueryDone
  <2>3. CASE Run(q) \/ RunFails(q) \/ ColumnsMissing(q)
    BY <2>3 DEF Run, RunFails, ColumnsMissing
  <2>4. CASE EndRows(q) \/ CloseRows(q) \/ SendQueryDuration(q) \/ SendQueryRows(q)
    BY <2>4 DEF EndRows, CloseRows, SendQueryDuration, SendQueryRows
  <2> QED BY <1>3, <2>1, <2>2, <2>3, <2>4 DEF QueryNext
<1>4. CASE GatherNext
  <2>1. CASE Start
    BY <2>1 DEF Start
  <2>2. CASE NoTargets \/ Receive \/ Return
    BY <2>2 DEF NoTargets, Receive, Return
  <2> QED BY <1>4, <2>1, <2>2 DEF GatherNext
<1>5. CASE Close
  BY <1>5 DEF Close
<1>6. CASE UNCHANGED vars
  BY <1>6 DEF vars, main, qvars
<1> QED BY <1>1, <1>2, <1>3, <1>4, <1>5, <1>6 DEF Next

\* Collectors are started by their target and queries by their collector.
LEMMA OwnedStep ==
  Shape /\ Owned /\ [Next]_vars
    => Owned'
<1> SUFFICES ASSUME Shape, Owned, [Next]_vars PROVE Owned'
  OBVIOUS
<1> USE StructureAssumption, ModeAssumption, SizeAssumption DEF Shape, Owned,
      TargetGoto, QueryGoto, main, qvars, AfterRows
<1>1. ASSUME NEW t \in Target, TargetNext(t) PROVE Owned'
  <2>1. CASE StartCollectors(t)
    BY <2>1 DEF StartCollectors
  <2>2. CASE Ping(t) \/ SendDown(t) \/ SendUp(t)
    BY <2>2 DEF Ping, SendDown, SendUp
  <2>3. CASE WaitCollectors(t) \/ SendDuration(t) \/ TargetDone(t)
    BY <2>3 DEF WaitCollectors, SendDuration, TargetDone
  <2> QED BY <1>1, <2>1, <2>2, <2>3 DEF TargetNext
<1>2. ASSUME NEW c \in Collector, CollectorNext(c) PROVE Owned'
  <2>1. CASE StartQueries(c)
    BY <2>1 DEF StartQueries
  <2>2. ASSUME NEW t \in Target, CollectorDone(t, c) PROVE Owned'
    BY <2>2 DEF CollectorDone
  <2> QED BY <1>2, <2>1, <2>2 DEF CollectorNext
<1>3. ASSUME NEW q \in Query, QueryNext(q) PROVE Owned'
  <2>1. ASSUME NEW c \in Collector, QueryDone(c, q) PROVE Owned'
    BY <2>1 DEF QueryDone
  <2>2. CASE Run(q) \/ RunFails(q) \/ ColumnsMissing(q)
    BY <2>2 DEF Run, RunFails, ColumnsMissing
  <2>3. CASE ScanRow(q) \/ EndRows(q) \/ CloseRows(q)
    BY <2>3 DEF ScanRow, EndRows, CloseRows
  <2>4. CASE SendQueryDuration(q) \/ SendQueryRows(q)
    BY <2>4 DEF SendQueryDuration, SendQueryRows
  <2> QED BY <1>3, <2>1, <2>2, <2>3, <2>4 DEF QueryNext
<1>4. CASE GatherNext
  <2>1. CASE NoTargets \/ Start \/ Receive \/ Return
    BY <2>1 DEF NoTargets, Start, Receive, Return
  <2> QED BY <1>4, <2>1 DEF GatherNext
<1>5. CASE Close
  BY <1>5 DEF Close
<1>6. CASE UNCHANGED vars
  BY <1>6 DEF vars, main, qvars
<1> QED BY <1>1, <1>2, <1>3, <1>4, <1>5, <1>6 DEF Next

\* Only those at work send, while the channel is open; what empties the WaitGroup is
\* the last of them.
LEMMA ClosingStep ==
  Shape /\ Fresh /\ Covered /\ Owned /\ Closing /\ [Next]_vars
    => Closing'
<1> SUFFICES ASSUME Shape, Fresh, Covered, Owned, Closing, [Next]_vars PROVE Closing'
  OBVIOUS
<1> USE StructureAssumption, ModeAssumption, SizeAssumption DEF Shape, Closing,
      NoSendOnClosed, TargetGoto, QueryGoto, main, qvars, AfterRows, SendNamed, Over
<1>w. /\ \A t \in Target : tpc[t] \notin Over => open /\ gpc = "receive"
      /\ \A c \in Collector : cpc[c] \notin Over => open /\ gpc = "receive"
      /\ \A q \in Query : qpc[q] \notin Over => open /\ gpc = "receive"
  BY AtWork
<1>s. \A m : open /\ Send(m) => UNCHANGED panic
  BY DEF Send
<1>1. ASSUME NEW t \in Target, TargetNext(t) PROVE Closing'
  <2>1. CASE SendDown(t)
    BY <1>w, <1>s, <2>1 DEF SendDown
  <2>2. CASE SendUp(t)
    BY <1>w, <1>s, <2>2 DEF SendUp
  <2>3. CASE SendDuration(t)
    BY <1>w, <1>s, <2>3 DEF SendDuration
  <2>4. CASE TargetDone(t)
    BY <1>w, <1>s, <2>4 DEF TargetDone
  <2>5. CASE Ping(t) \/ StartCollectors(t) \/ WaitCollectors(t)
    BY <1>w, <1>s, <2>5 DEF Ping, StartCollectors, WaitCollectors
  <2> QED BY <1>1, <2>1, <2>2, <2>3, <2>4, <2>5 DEF TargetNext
<1>2. ASSUME NEW c \in Collector, CollectorNext(c) PROVE Closing'
  <2>1. CASE StartQueries(c)
    BY <1>w, <1>s, <2>1 DEF StartQueries
  <2>2. ASSUME NEW t \in Target, CollectorDone(t, c) PROVE Closing'
    BY <1>w, <1>s, <2>2 DEF CollectorDone
  <2> QED BY <1>2, <2>1, <2>2 DEF CollectorNext
<1>3. ASSUME NEW q \in Query, QueryNext(q) PROVE Closing'
  <2>1. CASE ScanRow(q)
    BY <1>w, <1>s, <2>1 DEF ScanRow
  <2>2. ASSUME NEW c \in Collector, QueryDone(c, q) PROVE Closing'
    BY <1>w, <1>s, <2>2 DEF QueryDone
  <2>3. CASE Run(q)
    BY <1>w, <1>s, <2>3 DEF Run
  <2>4. CASE RunFails(q)
    BY <1>w, <1>s, <2>4 DEF RunFails
  <2>5. CASE ColumnsMissing(q)
    <3>1. UNCHANGED <<open, gpc, closer, wg>> /\ UNCHANGED panic
      BY <1>w, <1>s, <2>5 DEF ColumnsMissing
    <3>2. open /\ gpc = "receive"
      BY <1>w, <2>5 DEF ColumnsMissing
    <3> QED BY <3>1, <3>2
  <2>6. CASE EndRows(q) \/ CloseRows(q) \/ SendQueryDuration(q) \/ SendQueryRows(q)
    BY <1>w, <1>s, <2>6 DEF EndRows, CloseRows, SendQueryDuration, SendQueryRows
  <2> QED BY <1>3, <2>1, <2>2, <2>3, <2>4, <2>5, <2>6 DEF QueryNext
<1>4. CASE GatherNext
  <2>1. CASE Start
    BY <1>w, <1>s, <2>1 DEF Start
  <2>2. CASE Receive
    BY <1>w, <1>s, <2>2 DEF Receive
  <2>3. CASE NoTargets \/ Return
    BY <1>w, <1>s, <2>3 DEF NoTargets, Return
  <2> QED BY <1>4, <2>1, <2>2, <2>3 DEF GatherNext
<1>5. CASE Close
  BY <1>5 DEF Close
<1>6. CASE UNCHANGED vars
  BY <1>6 DEF vars, main, qvars
<1> QED BY <1>1, <1>2, <1>3, <1>4, <1>5, <1>6 DEF Next

-----------------------------------------------------------------------------
(* Theorems                                                                *)

LEMMA InitIInv == Init => IInv
<1> SUFFICES ASSUME Init PROVE IInv
  OBVIOUS
<1> USE SizeAssumption DEF Init
<1>1. TypeOK
  <2>1. <<>> \in Seq(Metric) /\ Len(<<>>) <= Cap
    OBVIOUS
  <2>2. rows \in [Query -> 0 .. MaxRows] /\ left \in [Query -> 0 .. MaxRows]
    OBVIOUS
  <2>3. tpc \in [Target -> {"idle"}] /\ cpc \in [Collector -> {"idle"}] /\ qpc \in [Query -> {"idle"}]
    OBVIOUS
  <2>4. wg \subseteq Target /\ twg \in [Target -> SUBSET Collector] /\ cwg \in [Collector -> SUBSET Query]
    OBVIOUS
  <2> QED BY <2>1, <2>2, <2>3, <2>4 DEF TypeOK
<1>2. Fresh
  BY StructureAssumption DEF Fresh
<1>3. Covered /\ Owned
  BY StructureAssumption DEF Covered, Owned, Over
<1>4. Closing
  BY DEF Closing, NoSendOnClosed
<1> QED BY <1>1, <1>2, <1>3, <1>4 DEF IInv

LEMMA Inductive == Spec => []IInv
<1>1. IInv /\ [Next]_vars => IInv'
  BY Shaped, TypeOKStep, FreshStep, CoveredStep, OwnedStep, ClosingStep DEF IInv
<1> QED BY InitIInv, <1>1, PTL DEF Spec

\* The state of a scrape is always of its type; in particular the channel never
\* holds more than its capacity, and rowCount never exceeds the result.
THEOREM TypeCorrect == Spec => []TypeOK
<1>1. IInv => TypeOK
  BY DEF IInv
<1> QED BY <1>1, Inductive, PTL

\* No goroutine sends on the closed channel, for any structure of targets,
\* collectors and queries.
THEOREM NeverSendsOnClosed == Spec => []NoSendOnClosed
<1>1. IInv => NoSendOnClosed
  BY DEF IInv, Closing
<1> QED BY <1>1, Inductive, PTL

\* When Gather returns, the goroutines of all targets, collectors and queries are
\* over and the channel is empty.
THEOREM NoSenderIsLeft == Spec => []NoSenderOutlivesGather
<1>1. IInv => NoSenderOutlivesGather
  <2> SUFFICES ASSUME IInv, gpc = "done"
               PROVE  /\ chan = <<>>
                      /\ \A t \in Target : tpc[t] \in Over
                      /\ \A c \in Collector : cpc[c] \in Over
                      /\ \A q \in Query : qpc[q] \in Over
    BY DEF NoSenderOutlivesGather, Over
  <2> QED BY Shaped, AtWork DEF IInv, Closing
<1> QED BY <1>1, Inductive, PTL

\* Both: the channel is closed after every send, and every sender is over at
\* the response.
THEOREM ClosesLast == Spec => []CloseIsLast
<1>1. NoSendOnClosed /\ NoSenderOutlivesGather => CloseIsLast
  BY DEF CloseIsLast
<1> QED BY <1>1, NeverSendsOnClosed, NoSenderIsLeft, PTL

-----------------------------------------------------------------------------
(* What is sent                                                            *)

Occurrences(s, m) == {i \in DOMAIN s : s[i] = m}

\* All that has been sent, received or not, and how often each metric has been.
Sent == got \o chan

Tally == [m \in Metric |-> Cardinality(Occurrences(Sent, m))]

Early == {"idle", "ping", "down", "up0", "up1"}

\* A target sends its own metrics at their steps, each once.
TargetsCounted ==
  /\ \A t \in Target :
       /\ Tally[Down(t)] \in {0, 1}
       /\ tpc[t] \in {"idle", "ping", "down", "up1", "run"} => Tally[Down(t)] = 0
       /\ tpc[t] = "up0" => Tally[Down(t)] = 1
  /\ \A t \in Named :
       /\ tpc[t] \in Early => Tally[Up(t, 0)] = 0 /\ Tally[Up(t, 1)] = 0
       /\ tpc[t] \notin Early => Tally[Up(t, 0)] = Tally[Down(t)] /\ Tally[Up(t, 1)] = 1 - Tally[Down(t)]
       /\ Tally[Duration(t)] = IF tpc[t] \in {"return", "done"} THEN 1 ELSE 0

\* So does a query, which counts its rows as it sends them.
QueriesCounted ==
  \A q \in Query :
    /\ qpc[q] = "idle" => \A m \in Metric : m \in OfQuery(q) => Tally[m] = 0
    /\ Tally[Row(q)] = rows[q]
    /\ QueryMetrics =>
         /\ Tally[QueryDuration(q)] = IF qpc[q] \in {"count", "return", "done"} THEN 1 ELSE 0
         /\ \A n \in 0 .. MaxRows :
              Tally[QueryRows(q, n)] = IF qpc[q] \in {"return", "done"} /\ n = rows[q] THEN 1 ELSE 0

\* A target that is up has started its collectors, and they their queries; one
\* that is down starts nothing.
Started ==
  /\ gpc = "start" => targets = {}
  /\ gpc # "start" => \A t \in targets : tpc[t] # "idle"
  /\ \A t \in Target :
       /\ Tally[Down(t)] = 1 => \A c \in Collectors[t] : cpc[c] = "idle"
       /\ Tally[Down(t)] = 0 /\ tpc[t] \in {"wait", "last", "return", "done"} =>
            \A c \in Collectors[t] : cpc[c] # "idle"
  /\ \A c \in Collector : cpc[c] \in {"wait", "done"} => \A q \in Queries[c] : qpc[q] # "idle"

\* The metrics of queries come between those of their target.
Framed ==
  \A t \in Named : \A q \in QueryOf(t) : \A i \in DOMAIN Sent :
    Sent[i] \in OfQuery(q) =>
      /\ \E j \in 1 .. i : Sent[j] = Up(t, 1)
      /\ \A j \in 1 .. i : Sent[j] # Duration(t)

RInv == TargetsCounted /\ QueriesCounted /\ Started /\ Framed

\* A step sends nothing, or one metric.
Quiet == Sent' = Sent /\ Tally' = Tally

Adds(m) == Sent' = Append(Sent, m) /\ Tally' = [Tally EXCEPT ![m] = @ + 1]

\* A metric of a target without a name is not sent.
AddsNamed(t, m) == IF t \in Named THEN Adds(m) ELSE Quiet

\* One more element is one more occurrence of it, and of nothing else.
LEMMA OccurrencesAppend ==
  ASSUME NEW S, NEW s \in Seq(S), NEW m \in S, NEW k \in S
  PROVE  /\ IsFiniteSet(Occurrences(s, k)) /\ Cardinality(Occurrences(s, k)) \in Nat
         /\ Cardinality(Occurrences(Append(s, m), k)) = Cardinality(Occurrences(s, k)) + (IF k = m THEN 1 ELSE 0)
<1>1. Len(s) \in Nat /\ DOMAIN s = 1 .. Len(s)
  BY LenProperties
<1>2. IsFiniteSet(1 .. Len(s))
  BY <1>1, FS_Interval
<1>3. Occurrences(s, k) \subseteq 1 .. Len(s)
  BY <1>1 DEF Occurrences
<1>4. IsFiniteSet(Occurrences(s, k)) /\ Cardinality(Occurrences(s, k)) \in Nat
  BY <1>2, <1>3, FS_Subset, FS_CardinalityType
<1>5. DOMAIN Append(s, m) = 1 .. Len(s) + 1
  BY AppendProperties, LenProperties
<1>6. \A i \in 1 .. Len(s) + 1 : Append(s, m)[i] = IF i = Len(s) + 1 THEN m ELSE s[i]
  BY <1>1, AppendProperties
<1>7. CASE k = m
  <2>1. Occurrences(Append(s, m), k) = Occurrences(s, k) \cup {Len(s) + 1}
    BY <1>1, <1>5, <1>6, <1>7 DEF Occurrences
  <2>2. Len(s) + 1 \notin Occurrences(s, k)
    BY <1>1, <1>3
  <2> QED BY <1>4, <1>7, <2>1, <2>2, FS_AddElement
<1>8. CASE k # m
  <2>1. Occurrences(Append(s, m), k) = Occurrences(s, k)
    BY <1>1, <1>5, <1>6, <1>8 DEF Occurrences
  <2> QED BY <1>4, <1>8, <2>1
<1> QED BY <1>4, <1>7, <1>8

LEMMA SentTyped ==
  ASSUME TypeOK
  PROVE  Sent \in Seq(Metric) /\ Tally \in [Metric -> Nat]
<1>1. got \in Seq(Metric) /\ chan \in Seq(Metric)
  BY DEF TypeOK
<1>2. Sent \in Seq(Metric)
  BY <1>1, ConcatProperties DEF Sent
<1>3. \A m \in Metric : Cardinality(Occurrences(Sent, m)) \in Nat
  BY <1>2, OccurrencesAppend
<1> QED BY <1>2, <1>3 DEF Tally

\* A send to the open channel is one more of what is sent.
LEMMA SendCounts ==
  ASSUME TypeOK, open, NEW m \in Metric, Send(m), UNCHANGED got
  PROVE  Adds(m)
<1>1. got \in Seq(Metric) /\ chan \in Seq(Metric) /\ chan' = Append(chan, m)
  BY DEF TypeOK, Send
<1>2. Sent' = Append(Sent, m)
  <2>1. <<m>> \in Seq(Metric)
    OBVIOUS
  <2>2. Sent' = got \o (chan \o <<m>>)
    BY <1>1, AppendIsConcat DEF Sent
  <2>3. (got \o chan) \o <<m>> = got \o (chan \o <<m>>)
    BY <1>1, <2>1, ConcatAssociative
  <2>4. Append(Sent, m) = Sent \o <<m>>
    BY SentTyped, AppendIsConcat
  <2> QED BY <2>2, <2>3, <2>4 DEF Sent
<1>3. Sent \in Seq(Metric) /\ Tally \in [Metric -> Nat]
  BY SentTyped
<1>4. \A k \in Metric : Cardinality(Occurrences(Append(Sent, m), k)) = Tally[k] + (IF k = m THEN 1 ELSE 0)
  BY <1>3, OccurrencesAppend DEF Tally
<1>5. Tally' = [k \in Metric |-> Cardinality(Occurrences(Append(Sent, m), k))]
  BY <1>2 DEF Tally
<1>6. \A k \in Metric : [Tally EXCEPT ![m] = @ + 1][k] = Tally[k] + (IF k = m THEN 1 ELSE 0)
  BY <1>3
<1>7. Tally' = [Tally EXCEPT ![m] = @ + 1]
  <2> DEFINE f == [k \in Metric |-> Cardinality(Occurrences(Append(Sent, m), k))]
             g == [Tally EXCEPT ![m] = @ + 1]
  <2>1. f = [k \in Metric |-> f[k]] /\ g = [k \in Metric |-> g[k]]
    BY <1>3
  <2>2. \A k \in Metric : f[k] = g[k]
    BY <1>4, <1>6
  <2>3. Tally' = f
    BY <1>5
  <2> HIDE DEF f, g
  <2>4. f = g
    BY <2>1, <2>2
  <2> QED BY <2>3, <2>4 DEF g
<1> QED BY <1>2, <1>7 DEF Adds

LEMMA NamedCounts ==
  ASSUME TypeOK, open, NEW t \in Target, NEW m \in Metric, SendNamed(t, m), UNCHANGED got
  PROVE  AddsNamed(t, m)
<1>1. CASE t \in Named
  BY <1>1, SendCounts DEF SendNamed, AddsNamed
<1>2. CASE t \notin Named
  BY <1>2 DEF SendNamed, AddsNamed, Quiet, Tally, Sent
<1> QED BY <1>1, <1>2

LEMMA QuietCounts == UNCHANGED <<got, chan>> => Quiet
BY DEF Quiet, Tally, Sent

\* Metrics of different kinds, or of different targets and queries, differ.
LEMMA Kinds ==
  /\ \A t \in Target, v \in {0, 1} : Up(t, v).kind = "up" /\ Up(t, v).of = t /\ Up(t, v).value = v
  /\ \A t \in Target : /\ Duration(t).kind = "scrape_duration" /\ Duration(t).of = t
                       /\ Down(t).kind = "ping_error" /\ Down(t).of = t
  /\ \A q \in Query : /\ Row(q).kind = "row" /\ Row(q).of = q
                      /\ Error(q).kind = "query_error" /\ Error(q).of = q
                      /\ QueryDuration(q).kind = "query_duration" /\ QueryDuration(q).of = q
  /\ \A q \in Query, n \in Nat : /\ QueryRows(q, n).kind = "query_rows" /\ QueryRows(q, n).of = q
                                 /\ QueryRows(q, n).value = n
BY DEF Up, Duration, Down, Row, Error, QueryDuration, QueryRows

LEMMA OfQueryKinds ==
  \A q \in Query : \A m \in OfQuery(q) :
    m.of = q /\ m.kind \in {"row", "query_error", "query_duration", "query_rows"} /\ m \in Metric
<1> SUFFICES ASSUME NEW q \in Query, NEW m \in OfQuery(q)
             PROVE  m.of = q /\ m.kind \in {"row", "query_error", "query_duration", "query_rows"} /\ m \in Metric
  OBVIOUS
<1>1. CASE m \in {Row(q), Error(q), QueryDuration(q)}
  BY <1>1, Kinds, Metrics
<1>2. CASE \E n \in 0 .. MaxRows : m = QueryRows(q, n)
  BY <1>2, Kinds, Metrics, SizeAssumption
<1> QED BY <1>1, <1>2 DEF OfQuery

-----------------------------------------------------------------------------
(* What each goroutine does to the reports                                 *)

LEMMA TargetSends ==
  ASSUME IInv, NEW t \in Target, TargetNext(t)
  PROVE  /\ UNCHANGED <<targets, gpc, qpc, rows>>
         /\ \A u \in Target \ {t} : tpc'[u] = tpc[u]
         /\ tpc[t] # "run" => UNCHANGED cpc
         /\ \/ tpc[t] = "ping" /\ tpc'[t] \in {"down", "up1"} /\ Quiet
            \/ tpc[t] = "down" /\ tpc'[t] = "up0" /\ Adds(Down(t))
            \/ tpc[t] = "up0" /\ tpc'[t] = "wait" /\ AddsNamed(t, Up(t, 0))
            \/ tpc[t] = "up1" /\ tpc'[t] = "run" /\ AddsNamed(t, Up(t, 1))
            \/ /\ tpc[t] = "run" /\ tpc'[t] = "wait" /\ Quiet
               /\ cpc' = [c \in Collector |-> IF c \in Collectors[t] THEN "start" ELSE cpc[c]]
            \/ tpc[t] = "wait" /\ tpc'[t] = "last" /\ Quiet
            \/ tpc[t] = "last" /\ tpc'[t] = "return" /\ AddsNamed(t, Duration(t))
            \/ tpc[t] = "return" /\ tpc'[t] = "done" /\ Quiet
<1>0. TypeOK /\ tpc \in [Target -> {"idle", "ping", "down", "up0", "up1", "run", "wait", "last", "return", "done"}]
  BY DEF IInv, TypeOK
<1>1. tpc[t] \notin Over => open
  BY Shaped, AtWork DEF IInv
<1> USE <1>0, Metrics DEF TargetGoto, main, qvars, Over
<1>2. CASE Ping(t)
  BY <1>2, QuietCounts DEF Ping
<1>3. CASE SendDown(t)
  BY <1>1, <1>3, SendCounts DEF SendDown
<1>4. CASE SendUp(t)
  BY <1>1, <1>4, NamedCounts DEF SendUp
<1>5. CASE StartCollectors(t)
  BY <1>5, QuietCounts DEF StartCollectors
<1>6. CASE WaitCollectors(t)
  BY <1>6, QuietCounts DEF WaitCollectors
<1>7. CASE SendDuration(t)
  BY <1>1, <1>7, NamedCounts DEF SendDuration
<1>8. CASE TargetDone(t)
  BY <1>8, QuietCounts DEF TargetDone
<1> QED BY <1>2, <1>3, <1>4, <1>5, <1>6, <1>7, <1>8 DEF TargetNext

LEMMA CollectorSends ==
  ASSUME IInv, NEW c \in Collector, CollectorNext(c)
  PROVE  /\ UNCHANGED <<targets, gpc, tpc, rows>> /\ Quiet
         /\ \A d \in Collector \ {c} : cpc'[d] = cpc[d]
         /\ \/ /\ cpc[c] = "start" /\ cpc'[c] = "wait"
               /\ qpc' = [q \in Query |-> IF q \in Queries[c] THEN "run" ELSE qpc[q]]
            \/ cpc[c] = "wait" /\ cpc'[c] = "done" /\ UNCHANGED qpc
<1>0. cpc \in [Collector -> {"idle", "start", "wait", "done"}]
  BY DEF IInv, TypeOK
<1>1. CASE StartQueries(c)
  BY <1>0, <1>1, QuietCounts DEF StartQueries, main
<1>2. ASSUME NEW t \in Target, CollectorDone(t, c)
      PROVE  /\ UNCHANGED <<targets, gpc, tpc, rows, qpc>> /\ Quiet
             /\ \A d \in Collector \ {c} : cpc'[d] = cpc[d]
             /\ cpc[c] = "wait" /\ cpc'[c] = "done"
  BY <1>0, <1>2, QuietCounts DEF CollectorDone, main, qvars
<1> QED BY <1>1, <1>2 DEF CollectorNext

\* The steps a query takes before it tells of its duration, and after its rows.
EarlyQuery(q) ==
  \/ qpc[q] \in {"run", "rows", "close"} /\ qpc'[q] \in {"rows", "close", AfterRows}
  \/ qpc[q] = "return" /\ qpc'[q] = "done"

LEMMA QuerySends ==
  ASSUME IInv, NEW q \in Query, QueryNext(q)
  PROVE  /\ UNCHANGED <<targets, gpc, tpc, cpc>>
         /\ qpc[q] \notin Over
         /\ \A p \in Query \ {q} : qpc'[p] = qpc[p] /\ rows'[p] = rows[p]
         /\ \/ EarlyQuery(q) /\ rows'[q] = rows[q] /\ Quiet
            \/ EarlyQuery(q) /\ rows'[q] = rows[q] /\ Adds(Error(q))
            \/ qpc[q] = "rows" /\ qpc'[q] = "rows" /\ rows'[q] = rows[q] + 1 /\ Adds(Row(q))
            \/ qpc[q] = "duration" /\ qpc'[q] = "count" /\ rows'[q] = rows[q] /\ Adds(QueryDuration(q))
            \/ qpc[q] = "count" /\ qpc'[q] = "return" /\ rows'[q] = rows[q] /\ Adds(QueryRows(q, rows[q]))
<1>0. /\ TypeOK /\ rows \in [Query -> 0 .. MaxRows]
      /\ qpc \in [Query -> {"idle", "run", "rows", "close", "duration", "count", "return", "done"}]
  BY DEF IInv, TypeOK
<1>1. qpc[q] \notin Over => open
  BY Shaped, AtWork DEF IInv
<1>m. Row(q) \in Metric /\ Error(q) \in Metric /\ QueryDuration(q) \in Metric /\ QueryRows(q, rows[q]) \in Metric
  BY <1>0, Metrics
<1>s. \A m \in Metric : open /\ Send(m) /\ UNCHANGED got => Adds(m)
  BY <1>0, SendCounts
<1> USE <1>0 DEF QueryGoto, main, Over, EarlyQuery
<1>2. CASE Run(q)
  BY <1>2, QuietCounts DEF Run
<1>3. CASE RunFails(q)
  BY <1>1, <1>m, <1>s, <1>3 DEF RunFails
<1>4. CASE ColumnsMissing(q)
  BY <1>1, <1>m, <1>s, <1>4, QuietCounts DEF ColumnsMissing
<1>5. CASE ScanRow(q)
  BY <1>1, <1>m, <1>s, <1>5 DEF ScanRow
<1>6. CASE EndRows(q)
  BY <1>1, <1>m, <1>s, <1>6, QuietCounts DEF EndRows
<1>7. CASE CloseRows(q)
  BY <1>1, <1>m, <1>s, <1>7, QuietCounts DEF CloseRows
<1>8. CASE SendQueryDuration(q)
  BY <1>1, <1>m, <1>s, <1>8 DEF SendQueryDuration
<1>9. CASE SendQueryRows(q)
  BY <1>1, <1>m, <1>s, <1>9 DEF SendQueryRows
<1>10. ASSUME NEW c \in Collector, QueryDone(c, q)
       PROVE  /\ UNCHANGED <<targets, gpc, tpc, cpc>> /\ Quiet
              /\ qpc[q] = "return" /\ qpc'[q] = "done"
              /\ \A p \in Query \ {q} : qpc'[p] = qpc[p]
              /\ UNCHANGED rows
  BY <1>10, QuietCounts DEF QueryDone
<1> QED BY <1>2, <1>3, <1>4, <1>5, <1>6, <1>7, <1>8, <1>9, <1>10 DEF QueryNext

\* Gather and the goroutine that closes only move what has been sent.
LEMMA GatherSends ==
  ASSUME IInv, GatherNext \/ Close \/ UNCHANGED vars
  PROVE  /\ Quiet /\ UNCHANGED <<cpc, qpc, rows>>
         /\ \/ UNCHANGED <<tpc, targets>> /\ (gpc' = gpc \/ gpc' = "done")
            \/ /\ gpc = "start" /\ gpc' = "receive"
               /\ tpc' = [t \in Target |-> IF t \in targets' THEN "ping" ELSE "idle"] /\ targets' \subseteq Target
<1> USE DEF main, qvars
<1>1. CASE Receive
  <2>1. got \in Seq(Metric) /\ chan \in Seq(Metric) /\ chan # <<>>
    BY <1>1 DEF Receive, IInv, TypeOK
  <2>2. Head(chan) \in Metric /\ Tail(chan) \in Seq(Metric) /\ <<Head(chan)>> \in Seq(Metric)
    BY <2>1, HeadTailProperties
  <2>3. chan = <<Head(chan)>> \o Tail(chan)
    BY <2>1
  <2>4. Append(got, Head(chan)) = got \o <<Head(chan)>>
    BY <2>1, <2>2, AppendIsConcat
  <2>5. (got \o <<Head(chan)>>) \o Tail(chan) = got \o (<<Head(chan)>> \o Tail(chan))
    BY <2>1, <2>2, ConcatAssociative
  <2>6. Sent' = Append(got, Head(chan)) \o Tail(chan)
    BY <1>1 DEF Receive, Sent
  <2>7. Sent' = Sent
    BY <2>3, <2>4, <2>5, <2>6 DEF Sent
  <2>8. Quiet
    BY <2>7 DEF Quiet, Tally
  <2> QED BY <1>1, <2>8 DEF Receive
<1>2. CASE Start
  BY <1>2, QuietCounts DEF Start
<1>3. CASE NoTargets \/ Return \/ Close \/ UNCHANGED vars
  BY <1>3, QuietCounts DEF NoTargets, Return, Close, vars
<1> QED BY <1>1, <1>2, <1>3 DEF GatherNext

LEMMA TallyAdds ==
  ASSUME TypeOK, NEW m \in Metric, Adds(m)
  PROVE  \A k \in Metric : Tally'[k] = Tally[k] + (IF k = m THEN 1 ELSE 0)
BY SentTyped DEF Adds

LEMMA TallyNamed ==
  ASSUME TypeOK, NEW t \in Target, NEW m \in Metric, AddsNamed(t, m)
  PROVE  \A k \in Metric : Tally'[k] = Tally[k] + (IF k = m /\ t \in Named THEN 1 ELSE 0)
<1>1. \A k \in Metric : Tally[k] \in Nat
  BY SentTyped
<1> QED BY <1>1, TallyAdds DEF AddsNamed, Quiet

\* What a target counts at each step.
LEMMA TargetTally ==
  ASSUME IInv, NEW t \in Target, TargetNext(t)
  PROVE  /\ \A k \in Metric : k \notin {Down(t), Up(t, 0), Up(t, 1), Duration(t)} => Tally'[k] = Tally[k]
         /\ Tally'[Down(t)] = Tally[Down(t)] + (IF tpc[t] = "down" THEN 1 ELSE 0)
         /\ Tally'[Up(t, 0)] = Tally[Up(t, 0)] + (IF tpc[t] = "up0" /\ t \in Named THEN 1 ELSE 0)
         /\ Tally'[Up(t, 1)] = Tally[Up(t, 1)] + (IF tpc[t] = "up1" /\ t \in Named THEN 1 ELSE 0)
         /\ Tally'[Duration(t)] = Tally[Duration(t)] + (IF tpc[t] = "last" /\ t \in Named THEN 1 ELSE 0)
<1>1. TypeOK /\ \A k \in Metric : Tally[k] \in Nat
  BY SentTyped DEF IInv
<1>2. /\ Down(t) \in Metric /\ Up(t, 0) \in Metric /\ Up(t, 1) \in Metric /\ Duration(t) \in Metric
      /\ Down(t) # Up(t, 0) /\ Down(t) # Up(t, 1) /\ Down(t) # Duration(t) /\ Up(t, 0) # Up(t, 1)
      /\ Up(t, 0) # Duration(t) /\ Up(t, 1) # Duration(t)
  <2>1. Up(t, 0).value = 0 /\ Up(t, 1).value = 1 /\ Up(t, 0).kind = "up" /\ Up(t, 1).kind = "up"
        /\ Down(t).kind = "ping_error" /\ Duration(t).kind = "scrape_duration"
    BY Kinds
  <2> QED BY <2>1, Metrics
<1>3. CASE tpc[t] \in {"ping", "run", "wait", "return"}
  <2>1. Tally' = Tally
    BY <1>3, TargetSends DEF Quiet
  <2> QED BY <1>1, <1>2, <1>3, <2>1
<1>4. CASE tpc[t] = "down"
  <2>1. Adds(Down(t))
    BY <1>4, TargetSends
  <2>2. \A k \in Metric : Tally'[k] = Tally[k] + (IF k = Down(t) THEN 1 ELSE 0)
    BY <1>1, <1>2, <2>1, TallyAdds
  <2> QED BY <1>1, <1>2, <1>4, <2>2
<1>5. CASE tpc[t] = "up0"
  <2>1. AddsNamed(t, Up(t, 0))
    BY <1>5, TargetSends
  <2>2. \A k \in Metric : Tally'[k] = Tally[k] + (IF k = Up(t, 0) /\ t \in Named THEN 1 ELSE 0)
    BY <1>1, <1>2, <2>1, TallyNamed
  <2> QED BY <1>1, <1>2, <1>5, <2>2
<1>6. CASE tpc[t] = "up1"
  <2>1. AddsNamed(t, Up(t, 1))
    BY <1>6, TargetSends
  <2>2. \A k \in Metric : Tally'[k] = Tally[k] + (IF k = Up(t, 1) /\ t \in Named THEN 1 ELSE 0)
    BY <1>1, <1>2, <2>1, TallyNamed
  <2> QED BY <1>1, <1>2, <1>6, <2>2
<1>7. CASE tpc[t] = "last"
  <2>1. AddsNamed(t, Duration(t))
    BY <1>7, TargetSends
  <2>2. \A k \in Metric : Tally'[k] = Tally[k] + (IF k = Duration(t) /\ t \in Named THEN 1 ELSE 0)
    BY <1>1, <1>2, <2>1, TallyNamed
  <2> QED BY <1>1, <1>2, <1>7, <2>2
<1> QED BY <1>3, <1>4, <1>5, <1>6, <1>7, TargetSends

\* What a query counts at each step.
LEMMA QueryTally ==
  ASSUME IInv, NEW q \in Query, QueryNext(q)
  PROVE  /\ \A k \in Metric : k \notin OfQuery(q) => Tally'[k] = Tally[k]
         /\ Tally'[Row(q)] = Tally[Row(q)] + (rows'[q] - rows[q])
         /\ Tally'[QueryDuration(q)] = Tally[QueryDuration(q)] + (IF qpc[q] = "duration" THEN 1 ELSE 0)
         /\ \A n \in 0 .. MaxRows :
              Tally'[QueryRows(q, n)] = Tally[QueryRows(q, n)] + (IF qpc[q] = "count" /\ n = rows[q] THEN 1 ELSE 0)
         /\ rows[q] \in 0 .. MaxRows
<1> DEFINE Mine == {Row(q), Error(q), QueryDuration(q)} \cup {QueryRows(q, n) : n \in 0 .. MaxRows}
<1>1. TypeOK /\ (\A k \in Metric : Tally[k] \in Nat) /\ rows[q] \in 0 .. MaxRows /\ rows[q] \in Nat
  BY SentTyped, SizeAssumption DEF IInv, TypeOK
<1>2. /\ Row(q) \in Metric /\ Error(q) \in Metric /\ QueryDuration(q) \in Metric
      /\ Row(q) # Error(q) /\ Row(q) # QueryDuration(q) /\ Error(q) # QueryDuration(q)
  <2>1. Row(q).kind = "row" /\ Error(q).kind = "query_error" /\ QueryDuration(q).kind = "query_duration"
    BY Kinds
  <2> QED BY <2>1, Metrics
<1>3. ASSUME NEW n \in 0 .. MaxRows
      PROVE  /\ QueryRows(q, n) \in Metric
             /\ QueryRows(q, n) # Row(q) /\ QueryRows(q, n) # Error(q) /\ QueryRows(q, n) # QueryDuration(q)
             /\ QueryRows(q, n) = QueryRows(q, rows[q]) => n = rows[q]
  <2>1. n \in Nat
    BY SizeAssumption
  <2>2. /\ QueryRows(q, n).kind = "query_rows" /\ QueryRows(q, n).value = n /\ QueryRows(q, rows[q]).value = rows[q]
        /\ Row(q).kind = "row" /\ Error(q).kind = "query_error" /\ QueryDuration(q).kind = "query_duration"
    BY <1>1, <2>1, Kinds
  <2> QED BY <2>2, Metrics
<1>4. /\ Row(q) \in OfQuery(q) /\ Error(q) \in OfQuery(q) /\ QueryDuration(q) \in OfQuery(q)
      /\ \A n \in 0 .. MaxRows : QueryRows(q, n) \in OfQuery(q)
  BY DEF OfQuery
<1>5. CASE EarlyQuery(q) /\ rows'[q] = rows[q] /\ Quiet
  BY <1>1, <1>2, <1>3, <1>5 DEF Quiet, EarlyQuery
<1>6. CASE EarlyQuery(q) /\ rows'[q] = rows[q] /\ Adds(Error(q))
  <2>1. \A k \in Metric : Tally'[k] = Tally[k] + (IF k = Error(q) THEN 1 ELSE 0)
    BY <1>1, <1>2, <1>6, TallyAdds
  <2> QED BY <1>1, <1>2, <1>3, <1>4, <1>6, <2>1 DEF EarlyQuery
<1>7. CASE qpc[q] = "rows" /\ qpc'[q] = "rows" /\ rows'[q] = rows[q] + 1 /\ Adds(Row(q))
  <2>1. \A k \in Metric : Tally'[k] = Tally[k] + (IF k = Row(q) THEN 1 ELSE 0)
    BY <1>1, <1>2, <1>7, TallyAdds
  <2> QED BY <1>1, <1>2, <1>3, <1>4, <1>7, <2>1
<1>8. CASE qpc[q] = "duration" /\ rows'[q] = rows[q] /\ Adds(QueryDuration(q))
  <2>1. \A k \in Metric : Tally'[k] = Tally[k] + (IF k = QueryDuration(q) THEN 1 ELSE 0)
    BY <1>1, <1>2, <1>8, TallyAdds
  <2> QED BY <1>1, <1>2, <1>3, <1>4, <1>8, <2>1
<1>9. CASE qpc[q] = "count" /\ rows'[q] = rows[q] /\ Adds(QueryRows(q, rows[q]))
  <2>1. \A k \in Metric : Tally'[k] = Tally[k] + (IF k = QueryRows(q, rows[q]) THEN 1 ELSE 0)
    BY <1>1, <1>3, <1>9, TallyAdds
  <2> QED BY <1>1, <1>2, <1>3, <1>4, <1>9, <2>1
<1> QED BY <1>1, <1>5, <1>6, <1>7, <1>8, <1>9, QuerySends

\* What is of a target is of no other target and of no query.
LEMMA Apart ==
  ASSUME NEW t \in Target, NEW m \in {Down(t), Up(t, 0), Up(t, 1), Duration(t)}
  PROVE  /\ m \in Metric
         /\ \A u \in Target \ {t} : m \notin {Down(u), Up(u, 0), Up(u, 1), Duration(u)}
         /\ \A q \in Query : m \notin OfQuery(q)
<1>1. m.of = t /\ m.kind \in {"ping_error", "up", "scrape_duration"}
  BY Kinds
<1>2. \A u \in Target \ {t} : /\ Down(u).of = u /\ Up(u, 0).of = u /\ Up(u, 1).of = u /\ Duration(u).of = u
  BY Kinds
<1>3. \A u \in Target \ {t} : m \notin {Down(u), Up(u, 0), Up(u, 1), Duration(u)}
  BY <1>1, <1>2
<1>4. \A q \in Query : m \notin OfQuery(q)
  <2>1. \A q \in Query : \A k \in OfQuery(q) : k.kind \in {"row", "query_error", "query_duration", "query_rows"}
    BY OfQueryKinds
  <2> QED BY <1>1, <2>1
<1> QED BY <1>3, <1>4, Metrics

LEMMA QueriesApart ==
  ASSUME NEW q \in Query, NEW p \in Query \ {q}, NEW m \in OfQuery(q)
  PROVE  m \in Metric /\ m \notin OfQuery(p)
<1>1. m.of = q /\ m \in Metric /\ \A k \in OfQuery(p) : k.of = p
  BY OfQueryKinds
<1> QED BY <1>1

-----------------------------------------------------------------------------
(* Preservation of the counts                                              *)

LEMMA TargetsCountedStep ==
  IInv /\ TargetsCounted /\ [Next]_vars
    => TargetsCounted'
<1> SUFFICES ASSUME IInv, TargetsCounted, [Next]_vars
             PROVE  TargetsCounted'
  OBVIOUS
<1>0. /\ tpc \in [Target -> {"idle", "ping", "down", "up0", "up1", "run", "wait", "last", "return", "done"}]
      /\ Named \subseteq Target
  BY ModeAssumption DEF IInv, TypeOK
<1>n. \A k \in Metric : Tally[k] \in Nat
  BY SentTyped DEF IInv
<1>m. \A t \in Target : Down(t) \in Metric /\ Up(t, 0) \in Metric /\ Up(t, 1) \in Metric /\ Duration(t) \in Metric
  BY Metrics
<1> USE DEF TargetsCounted
<1>1. ASSUME NEW t \in Target, TargetNext(t) PROVE TargetsCounted'
  <2>1. ASSUME NEW u \in Target \ {t}
        PROVE  /\ tpc'[u] = tpc[u] /\ Tally'[Down(u)] = Tally[Down(u)] /\ Tally'[Duration(u)] = Tally[Duration(u)]
               /\ Tally'[Up(u, 0)] = Tally[Up(u, 0)] /\ Tally'[Up(u, 1)] = Tally[Up(u, 1)]
    <3>1. \A m \in {Down(u), Up(u, 0), Up(u, 1), Duration(u)} :
            m \in Metric /\ m \notin {Down(t), Up(t, 0), Up(t, 1), Duration(t)}
      BY Apart
    <3> QED BY <1>1, <3>1, TargetTally, TargetSends
  <2>2. /\ Tally'[Down(t)] = Tally[Down(t)] + (IF tpc[t] = "down" THEN 1 ELSE 0)
        /\ Tally'[Up(t, 0)] = Tally[Up(t, 0)] + (IF tpc[t] = "up0" /\ t \in Named THEN 1 ELSE 0)
        /\ Tally'[Up(t, 1)] = Tally[Up(t, 1)] + (IF tpc[t] = "up1" /\ t \in Named THEN 1 ELSE 0)
        /\ Tally'[Duration(t)] = Tally[Duration(t)] + (IF tpc[t] = "last" /\ t \in Named THEN 1 ELSE 0)
    BY <1>1, TargetTally
  <2>3. \/ tpc[t] = "ping" /\ tpc'[t] \in {"down", "up1"}
        \/ tpc[t] = "down" /\ tpc'[t] = "up0"
        \/ tpc[t] = "up0" /\ tpc'[t] = "wait"
        \/ tpc[t] = "up1" /\ tpc'[t] = "run"
        \/ tpc[t] = "run" /\ tpc'[t] = "wait"
        \/ tpc[t] = "wait" /\ tpc'[t] = "last"
        \/ tpc[t] = "last" /\ tpc'[t] = "return"
        \/ tpc[t] = "return" /\ tpc'[t] = "done"
    BY <1>1, TargetSends
  <2>4. /\ Tally'[Down(t)] \in {0, 1}
        /\ tpc'[t] \in {"idle", "ping", "down", "up1", "run"} => Tally'[Down(t)] = 0
        /\ tpc'[t] = "up0" => Tally'[Down(t)] = 1
    BY <2>2, <2>3
  <2>5. ASSUME t \in Named
        PROVE  /\ tpc'[t] \in Early => Tally'[Up(t, 0)] = 0 /\ Tally'[Up(t, 1)] = 0
               /\ tpc'[t] \notin Early => /\ Tally'[Up(t, 0)] = Tally'[Down(t)]
                                          /\ Tally'[Up(t, 1)] = 1 - Tally'[Down(t)]
               /\ Tally'[Duration(t)] = IF tpc'[t] \in {"return", "done"} THEN 1 ELSE 0
    <3>1. /\ Tally[Down(t)] \in {0, 1}
          /\ tpc[t] \in {"idle", "ping", "down", "up1", "run"} => Tally[Down(t)] = 0
          /\ tpc[t] = "up0" => Tally[Down(t)] = 1
          /\ tpc[t] \in Early => Tally[Up(t, 0)] = 0 /\ Tally[Up(t, 1)] = 0
          /\ tpc[t] \notin Early => Tally[Up(t, 0)] = Tally[Down(t)] /\ Tally[Up(t, 1)] = 1 - Tally[Down(t)]
          /\ Tally[Duration(t)] = IF tpc[t] \in {"return", "done"} THEN 1 ELSE 0
      BY <2>5
    <3> HIDE DEF TargetsCounted
    <3> QED BY <2>2, <2>3, <2>5, <3>1 DEF Early
  <2>6. \A u \in Target : u = t \/ u \in Target \ {t}
    OBVIOUS
  <2>7. ASSUME NEW u \in Target
        PROVE  /\ Tally'[Down(u)] \in {0, 1}
               /\ tpc'[u] \in {"idle", "ping", "down", "up1", "run"} => Tally'[Down(u)] = 0
               /\ tpc'[u] = "up0" => Tally'[Down(u)] = 1
    BY <2>1, <2>4, <2>6
  <2>8. ASSUME NEW u \in Named
        PROVE  /\ tpc'[u] \in Early => Tally'[Up(u, 0)] = 0 /\ Tally'[Up(u, 1)] = 0
               /\ tpc'[u] \notin Early => /\ Tally'[Up(u, 0)] = Tally'[Down(u)]
                                          /\ Tally'[Up(u, 1)] = 1 - Tally'[Down(u)]
               /\ Tally'[Duration(u)] = IF tpc'[u] \in {"return", "done"} THEN 1 ELSE 0
    <3>1. CASE u = t
      BY <2>5, <3>1
    <3>2. CASE u # t
      BY <1>0, <2>1, <3>2
    <3> QED BY <3>1, <3>2
  <2> QED BY <2>7, <2>8
<1>2. ASSUME NEW c \in Collector, CollectorNext(c) PROVE TargetsCounted'
  BY <1>2, CollectorSends DEF Quiet
<1>3. ASSUME NEW q \in Query, QueryNext(q) PROVE TargetsCounted'
  <2>1. UNCHANGED tpc
    BY <1>3, QuerySends
  <2>2. ASSUME NEW u \in Target
        PROVE  /\ Tally'[Down(u)] = Tally[Down(u)] /\ Tally'[Duration(u)] = Tally[Duration(u)]
               /\ Tally'[Up(u, 0)] = Tally[Up(u, 0)] /\ Tally'[Up(u, 1)] = Tally[Up(u, 1)]
    <3>1. \A m \in {Down(u), Up(u, 0), Up(u, 1), Duration(u)} : m \in Metric /\ m \notin OfQuery(q)
      BY Apart
    <3> QED BY <1>3, <3>1, QueryTally
  <2> QED BY <1>0, <2>1, <2>2
<1>4. CASE GatherNext \/ Close \/ UNCHANGED vars
  <2>1. CASE UNCHANGED tpc
    BY <1>4, <2>1, GatherSends DEF Quiet
  <2>2. CASE gpc = "start" /\ \A t \in Target : tpc'[t] \in {"ping", "idle"}
    <3>1. Tally' = Tally /\ \A t \in Target : tpc[t] = "idle"
      BY <1>4, <2>2, GatherSends DEF Quiet, IInv, Fresh
    <3> QED BY <1>0, <2>2, <3>1 DEF Early
  <2> QED BY <1>4, <2>1, <2>2, GatherSends
<1> QED BY <1>1, <1>2, <1>3, <1>4 DEF Next

LEMMA QueriesCountedStep ==
  IInv /\ QueriesCounted /\ [Next]_vars
    => QueriesCounted'
<1> SUFFICES ASSUME IInv, QueriesCounted, [Next]_vars
             PROVE  QueriesCounted'
  OBVIOUS
<1>0. /\ qpc \in [Query -> {"idle", "run", "rows", "close", "duration", "count", "return", "done"}]
      /\ rows \in [Query -> 0 .. MaxRows] /\ MaxRows \in Nat
  BY SizeAssumption DEF IInv, TypeOK
<1>n. \A k \in Metric : Tally[k] \in Nat
  BY SentTyped DEF IInv
<1>m. \A q \in Query : Row(q) \in OfQuery(q) /\ QueryDuration(q) \in OfQuery(q)
                       /\ \A n \in 0 .. MaxRows : QueryRows(q, n) \in OfQuery(q)
  BY DEF OfQuery
<1>k. \A q \in Query : \A m \in OfQuery(q) : m \in Metric
  BY OfQueryKinds
<1>5. ASSUME NEW q \in Query,
             \A m \in OfQuery(q) : Tally'[m] = Tally[m],
             qpc'[q] = qpc[q] \/ (qpc[q] = "idle" /\ qpc'[q] = "run"), rows'[q] = rows[q]
      PROVE  /\ qpc'[q] = "idle" => \A m \in Metric : m \in OfQuery(q) => Tally'[m] = 0
             /\ Tally'[Row(q)] = rows'[q]
             /\ QueryMetrics =>
                  /\ Tally'[QueryDuration(q)] = IF qpc'[q] \in {"count", "return", "done"} THEN 1 ELSE 0
                  /\ \A n \in 0 .. MaxRows :
                       Tally'[QueryRows(q, n)] = IF qpc'[q] \in {"return", "done"} /\ n = rows'[q] THEN 1 ELSE 0
  BY <1>m, <1>5 DEF QueriesCounted
<1>1. ASSUME NEW t \in Target, TargetNext(t) PROVE QueriesCounted'
  <2>1. UNCHANGED <<qpc, rows>>
    BY <1>1, TargetSends
  <2>2. \A q \in Query : \A m \in OfQuery(q) : m \notin {Down(t), Up(t, 0), Up(t, 1), Duration(t)}
    BY Apart
  <2>3. \A q \in Query : \A m \in OfQuery(q) : Tally'[m] = Tally[m]
    BY <1>1, <1>k, <2>2, TargetTally
  <2> QED BY <1>5, <2>1, <2>3 DEF QueriesCounted
<1>2. ASSUME NEW c \in Collector, CollectorNext(c) PROVE QueriesCounted'
  <2>1. Tally' = Tally /\ UNCHANGED rows
    BY <1>2, CollectorSends DEF Quiet
  <2>2. \A q \in Query : qpc'[q] = qpc[q] \/ (qpc[q] = "idle" /\ qpc'[q] = "run")
    <3>1. CASE UNCHANGED qpc
      BY <3>1
    <3>2. CASE cpc[c] = "start" /\ qpc' = [q \in Query |-> IF q \in Queries[c] THEN "run" ELSE qpc[q]]
      BY <3>2 DEF IInv, Fresh
    <3> QED BY <1>2, <3>1, <3>2, CollectorSends
  <2> QED BY <1>5, <2>1, <2>2 DEF QueriesCounted
<1>3. ASSUME NEW q \in Query, QueryNext(q) PROVE QueriesCounted'
  <2>1. ASSUME NEW p \in Query \ {q}
        PROVE  /\ \A m \in OfQuery(p) : Tally'[m] = Tally[m]
               /\ qpc'[p] = qpc[p] /\ rows'[p] = rows[p]
    <3>1. \A m \in OfQuery(p) : m \in Metric /\ m \notin OfQuery(q)
      BY QueriesApart
    <3> QED BY <1>3, <3>1, QueryTally, QuerySends
  <2>2. /\ Tally[Row(q)] = rows[q] /\ Row(q) \in Metric
        /\ QueryMetrics =>
             /\ Tally[QueryDuration(q)] = IF qpc[q] \in {"count", "return", "done"} THEN 1 ELSE 0
             /\ \A n \in 0 .. MaxRows :
                  Tally[QueryRows(q, n)] = IF qpc[q] \in {"return", "done"} /\ n = rows[q] THEN 1 ELSE 0
    BY Metrics DEF QueriesCounted
  <2>3. /\ Tally'[Row(q)] = Tally[Row(q)] + (rows'[q] - rows[q]) /\ rows[q] \in 0 .. MaxRows
        /\ Tally'[QueryDuration(q)] = Tally[QueryDuration(q)] + (IF qpc[q] = "duration" THEN 1 ELSE 0)
        /\ \A n \in 0 .. MaxRows :
             Tally'[QueryRows(q, n)] = Tally[QueryRows(q, n)] + (IF qpc[q] = "count" /\ n = rows[q] THEN 1 ELSE 0)
    BY <1>3, QueryTally
  <2>4. /\ qpc[q] # "idle" /\ qpc'[q] # "idle"
        /\ QueryMetrics =>
             \/ qpc[q] \in {"run", "rows", "close"} /\ qpc'[q] \in {"rows", "close", "duration"}
             \/ qpc[q] = "return" /\ qpc'[q] = "done" /\ rows'[q] = rows[q]
             \/ qpc[q] = "duration" /\ qpc'[q] = "count" /\ rows'[q] = rows[q]
             \/ qpc[q] = "count" /\ qpc'[q] = "return" /\ rows'[q] = rows[q]
    BY <1>3, QuerySends DEF EarlyQuery, AfterRows, Over
  <2>5. Tally'[Row(q)] = rows'[q]
    <3>1. rows'[q] = rows[q] \/ rows'[q] = rows[q] + 1
      BY <1>3, QuerySends
    <3> QED BY <1>0, <2>2, <2>3, <3>1
  <2>6. ASSUME QueryMetrics
        PROVE  /\ Tally'[QueryDuration(q)] = IF qpc'[q] \in {"count", "return", "done"} THEN 1 ELSE 0
               /\ \A n \in 0 .. MaxRows :
                    Tally'[QueryRows(q, n)] = IF qpc'[q] \in {"return", "done"} /\ n = rows'[q] THEN 1 ELSE 0
    <3>1. CASE qpc[q] \in {"run", "rows", "close"} /\ qpc'[q] \in {"rows", "close", "duration"}
      BY <2>2, <2>3, <2>6, <3>1
    <3>2. CASE qpc[q] = "return" /\ qpc'[q] = "done" /\ rows'[q] = rows[q]
      BY <2>2, <2>3, <2>6, <3>2
    <3>3. CASE qpc[q] = "duration" /\ qpc'[q] = "count" /\ rows'[q] = rows[q]
      BY <2>2, <2>3, <2>6, <3>3
    <3>4. CASE qpc[q] = "count" /\ qpc'[q] = "return" /\ rows'[q] = rows[q]
      BY <2>2, <2>3, <2>6, <3>4
    <3> QED BY <2>4, <2>6, <3>1, <3>2, <3>3, <3>4
  <2>7. ASSUME NEW p \in Query
        PROVE  /\ qpc'[p] = "idle" => \A m \in Metric : m \in OfQuery(p) => Tally'[m] = 0
               /\ Tally'[Row(p)] = rows'[p]
               /\ QueryMetrics =>
                    /\ Tally'[QueryDuration(p)] = IF qpc'[p] \in {"count", "return", "done"} THEN 1 ELSE 0
                    /\ \A n \in 0 .. MaxRows :
                         Tally'[QueryRows(p, n)] = IF qpc'[p] \in {"return", "done"} /\ n = rows'[p] THEN 1 ELSE 0
    <3>1. CASE p = q
      BY <2>4, <2>5, <2>6, <3>1
    <3>2. CASE p # q
      BY <1>5, <2>1, <3>2
    <3> QED BY <3>1, <3>2
  <2> QED BY <2>7 DEF QueriesCounted
<1>4. CASE GatherNext \/ Close \/ UNCHANGED vars
  <2>1. Tally' = Tally /\ UNCHANGED <<qpc, rows>>
    BY <1>4, GatherSends DEF Quiet
  <2> QED BY <2>1 DEF QueriesCounted
<1> QED BY <1>1, <1>2, <1>3, <1>4 DEF Next

LEMMA StartedStep ==
  IInv /\ TargetsCounted /\ Started /\ [Next]_vars
    => Started'
<1> SUFFICES ASSUME IInv, TargetsCounted, Started, [Next]_vars
             PROVE  Started'
  OBVIOUS
<1>0. /\ tpc \in [Target -> {"idle", "ping", "down", "up0", "up1", "run", "wait", "last", "return", "done"}]
      /\ cpc \in [Collector -> {"idle", "start", "wait", "done"}]
      /\ qpc \in [Query -> {"idle", "run", "rows", "close", "duration", "count", "return", "done"}]
      /\ gpc \in {"start", "receive", "done"} /\ targets \subseteq Target
      /\ \A t \in Target : Collectors[t] \subseteq Collector
      /\ \A c \in Collector : Queries[c] \subseteq Query
  BY StructureAssumption DEF IInv, TypeOK
<1> USE <1>0 DEF Started
<1>1. ASSUME NEW t \in Target, TargetNext(t) PROVE Started'
  <2>1. /\ UNCHANGED <<targets, gpc, qpc>> /\ tpc[t] # "idle" /\ tpc'[t] # "idle"
        /\ \A u \in Target \ {t} : tpc'[u] = tpc[u]
        /\ tpc[t] # "run" => UNCHANGED cpc
        /\ tpc'[t] \in {"wait", "last", "return", "done"} => tpc[t] \in {"up0", "run", "wait", "last", "return"}
        /\ tpc[t] = "run" => cpc' = [c \in Collector |-> IF c \in Collectors[t] THEN "start" ELSE cpc[c]]
    BY <1>1, TargetSends
  <2>2. \A u \in Target \ {t} : Tally'[Down(u)] = Tally[Down(u)]
    <3>1. \A u \in Target \ {t} : Down(u) \in Metric /\ Down(u) \notin {Down(t), Up(t, 0), Up(t, 1), Duration(t)}
      BY Apart
    <3> QED BY <1>1, <3>1, TargetTally
  <2>3. /\ Tally'[Down(t)] = Tally[Down(t)] + (IF tpc[t] = "down" THEN 1 ELSE 0)
        /\ Tally[Down(t)] \in {0, 1} /\ (tpc[t] = "run" => Tally[Down(t)] = 0) /\ (tpc[t] = "up0" => Tally[Down(t)] = 1)
        /\ tpc[t] = "down" => Tally[Down(t)] = 0
    BY <1>1, TargetTally DEF TargetsCounted
  <2>4. \A c \in Collector : cpc'[c] = cpc[c] \/ (c \in Collectors[t] /\ cpc'[c] = "start" /\ tpc[t] = "run")
    BY <2>1
  <2>5. tpc[t] \in Early \cup {"run"} => \A c \in Collectors[t] : cpc[c] = "idle"
    BY DEF IInv, Fresh, Early
  <2>6. Tally'[Down(t)] = 1 => \A c \in Collectors[t] : cpc'[c] = "idle"
    BY <2>1, <2>3, <2>5 DEF Early
  <2>7. Tally'[Down(t)] = 0 /\ tpc'[t] \in {"wait", "last", "return", "done"} =>
          \A c \in Collectors[t] : cpc'[c] # "idle"
    <3>1. CASE tpc[t] = "run"
      BY <2>1, <3>1
    <3>2. CASE tpc[t] # "run"
      BY <2>1, <2>3, <3>2
    <3> QED BY <3>1, <3>2
  <2>8. ASSUME NEW u \in Target \ {t}, NEW c \in Collectors[u] PROVE cpc'[c] = cpc[c]
    BY <2>4, StructureAssumption
  <2>9. ASSUME NEW u \in Target
        PROVE  /\ Tally'[Down(u)] = 1 => \A c \in Collectors[u] : cpc'[c] = "idle"
               /\ Tally'[Down(u)] = 0 /\ tpc'[u] \in {"wait", "last", "return", "done"} =>
                    \A c \in Collectors[u] : cpc'[c] # "idle"
    <3>1. CASE u = t
      BY <2>6, <2>7, <3>1
    <3>2. CASE u # t
      BY <2>1, <2>2, <2>8, <3>2
    <3> QED BY <3>1, <3>2
  <2>10. \A c \in Collector : cpc'[c] \in {"wait", "done"} => \A q \in Queries[c] : qpc'[q] # "idle"
    BY <2>1, <2>4
  <2>11. /\ gpc' = "start" => targets' = {}
         /\ gpc' # "start" => \A u \in targets' : tpc'[u] # "idle"
    BY <2>1
  <2> QED BY <2>9, <2>10, <2>11
<1>2. ASSUME NEW c \in Collector, CollectorNext(c) PROVE Started'
  <2>1. UNCHANGED <<targets, gpc, tpc>> /\ Tally' = Tally
        /\ cpc[c] \in {"start", "wait"} /\ cpc'[c] \in {"wait", "done"}
        /\ \A d \in Collector \ {c} : cpc'[d] = cpc[d]
    BY <1>2, CollectorSends DEF Quiet
  <2>2. \A q \in Query : qpc[q] # "idle" => qpc'[q] # "idle"
    BY <1>2, CollectorSends
  <2>3. \A q \in Queries[c] : qpc'[q] # "idle"
    <3>1. CASE cpc[c] = "start"
      BY <1>2, <3>1, CollectorSends
    <3>2. CASE cpc[c] = "wait"
      BY <2>2, <3>2
    <3> QED BY <2>1, <3>1, <3>2
  <2>4. \A d \in Collector : cpc'[d] = "idle" <=> cpc[d] = "idle"
    BY <2>1
  <2>5. ASSUME NEW d \in Collector, cpc'[d] \in {"wait", "done"}, NEW q \in Queries[d] PROVE qpc'[q] # "idle"
    <3>1. CASE d = c
      BY <2>3, <2>5, <3>1
    <3>2. CASE d # c
      BY <2>1, <2>2, <2>5, <3>2
    <3> QED BY <3>1, <3>2
  <2> QED BY <2>1, <2>4, <2>5
<1>3. ASSUME NEW q \in Query, QueryNext(q) PROVE Started'
  <2>1. UNCHANGED <<targets, gpc, tpc, cpc>> /\ \A p \in Query : qpc[p] # "idle" => qpc'[p] # "idle"
    BY <1>3, QuerySends DEF EarlyQuery, AfterRows
  <2>2. \A t \in Target : Tally'[Down(t)] = Tally[Down(t)]
    <3>1. \A t \in Target : Down(t) \in Metric /\ Down(t) \notin OfQuery(q)
      BY Apart
    <3> QED BY <1>3, <3>1, QueryTally
  <2> QED BY <2>1, <2>2
<1>4. CASE GatherNext \/ Close \/ UNCHANGED vars
  <2>1. Tally' = Tally /\ UNCHANGED <<cpc, qpc>>
    BY <1>4, GatherSends DEF Quiet
  <2>2. CASE UNCHANGED <<tpc, targets>> /\ (gpc' = gpc \/ gpc' = "done")
    BY <2>1, <2>2
  <2>3. CASE /\ gpc = "start" /\ gpc' = "receive" /\ targets' \subseteq Target
             /\ tpc' = [t \in Target |-> IF t \in targets' THEN "ping" ELSE "idle"]
    <3>1. \A t \in Target : tpc'[t] \in {"ping", "idle"} /\ (t \in targets' => tpc'[t] = "ping")
      BY <2>3
    <3> QED BY <2>1, <2>3, <3>1
  <2> QED BY <1>4, <2>2, <2>3, GatherSends
<1> QED BY <1>1, <1>2, <1>3, <1>4 DEF Next

\* What has been counted has been sent, and what has not been counted has not.
LEMMA Counted ==
  ASSUME TypeOK, NEW m \in Metric
  PROVE  /\ Tally[m] = 0 <=> \A i \in DOMAIN Sent : Sent[i] # m
         /\ Tally[m] # 0 <=> \E i \in DOMAIN Sent : Sent[i] = m
<1>1. IsFiniteSet(Occurrences(Sent, m)) /\ Tally[m] = Cardinality(Occurrences(Sent, m))
  BY SentTyped, OccurrencesAppend DEF Tally
<1>2. Tally[m] = 0 <=> Occurrences(Sent, m) = {}
  BY <1>1, FS_EmptySet
<1> QED BY <1>2 DEF Occurrences

\* A query at work is one of a target that is up and waits for it.
LEMMA AtWorkUp ==
  ASSUME IInv, TargetsCounted, Started,
         NEW t \in Target, NEW q \in QueryOf(t), qpc[q] \notin Over
  PROVE  tpc[t] = "wait" /\ Tally[Down(t)] = 0
<1>1. PICK c \in Collectors[t] : q \in Queries[c]
  BY DEF QueryOf
<1>2. c \in Collector
  BY StructureAssumption
<1>3. cpc[c] = "wait"
  BY <1>1, <1>2 DEF IInv, Covered
<1>4. tpc[t] = "wait"
  BY <1>3 DEF IInv, Covered, Over
<1>5. Tally[Down(t)] \in {0, 1} /\ Tally[Down(t)] # 1
  BY <1>3 DEF TargetsCounted, Started
<1> QED BY <1>4, <1>5

LEMMA FramedStep ==
  IInv /\ TargetsCounted /\ Started /\ Framed /\ [Next]_vars
    => Framed'
<1> SUFFICES ASSUME IInv, TargetsCounted, Started, Framed, [Next]_vars
             PROVE  Framed'
  OBVIOUS
<1>0. Named \subseteq Target /\ \A t \in Target : QueryOf(t) \subseteq Query
  BY ModeAssumption, StructureAssumption DEF QueryOf
<1>s. TypeOK /\ Sent \in Seq(Metric) /\ Len(Sent) \in Nat /\ DOMAIN Sent = 1 .. Len(Sent)
  BY SentTyped, LenProperties DEF IInv
<1>5. CASE Sent' = Sent
  BY <1>5 DEF Framed
<1>6. ASSUME NEW m \in Metric, Sent' = Append(Sent, m),
             \A t \in Named : \A q \in QueryOf(t) : m \in OfQuery(q) =>
               m # Duration(t) /\ Tally[Up(t, 1)] # 0 /\ Tally[Duration(t)] = 0
      PROVE  Framed'
  <2>1. /\ DOMAIN Sent' = 1 .. Len(Sent) + 1 /\ Sent'[Len(Sent) + 1] = m
        /\ \A i \in 1 .. Len(Sent) : Sent'[i] = Sent[i]
    BY <1>s, <1>6, AppendProperties, LenProperties
  <2>2. ASSUME NEW t \in Named, NEW q \in QueryOf(t), NEW i \in 1 .. Len(Sent) + 1, Sent'[i] \in OfQuery(q)
        PROVE  /\ \E j \in 1 .. i : Sent'[j] = Up(t, 1)
               /\ \A j \in 1 .. i : Sent'[j] # Duration(t)
    <3>1. CASE i \in 1 .. Len(Sent)
      <4>1. Sent[i] \in OfQuery(q) /\ 1 .. i \subseteq 1 .. Len(Sent)
        BY <1>s, <2>1, <2>2, <3>1
      <4>2. (\E j \in 1 .. i : Sent[j] = Up(t, 1)) /\ \A j \in 1 .. i : Sent[j] # Duration(t)
        BY <1>s, <3>1, <4>1 DEF Framed
      <4> QED BY <2>1, <4>1, <4>2
    <3>2. CASE i = Len(Sent) + 1
      <4>1. m \in OfQuery(q)
        BY <2>1, <2>2, <3>2
      <4>2. Up(t, 1) \in Metric /\ Duration(t) \in Metric
        BY <1>0, Metrics
      <4>3. m # Duration(t) /\ Tally[Up(t, 1)] # 0 /\ Tally[Duration(t)] = 0
        BY <1>6, <4>1
      <4>4. (\E j \in 1 .. Len(Sent) : Sent[j] = Up(t, 1)) /\ \A j \in 1 .. Len(Sent) : Sent[j] # Duration(t)
        BY <1>s, <4>2, <4>3, Counted
      <4>5. \A j \in 1 .. i : j \in 1 .. Len(Sent) \/ j = Len(Sent) + 1
        BY <1>s, <3>2
      <4>6. 1 .. Len(Sent) \subseteq 1 .. i
        BY <1>s, <3>2
      <4> QED BY <2>1, <4>3, <4>4, <4>5, <4>6
    <3> QED BY <1>s, <3>1, <3>2
  <2> QED BY <2>1, <2>2 DEF Framed, QueryOf, OfQuery
<1>1. ASSUME NEW t \in Target, TargetNext(t) PROVE Framed'
  <2>1. ASSUME NEW m \in {Down(t), Up(t, 0), Up(t, 1), Duration(t)}, Adds(m) PROVE Framed'
    <3>1. m \in Metric /\ \A q \in Query : m \notin OfQuery(q)
      BY Apart
    <3>2. Sent' = Append(Sent, m)
      BY <2>1 DEF Adds
    <3> QED BY <1>0, <1>6, <3>1, <3>2
  <2>2. Sent' = Sent \/ \E m \in {Down(t), Up(t, 0), Up(t, 1), Duration(t)} : Adds(m)
    BY <1>1, TargetSends DEF AddsNamed, Quiet
  <2> QED BY <1>5, <2>1, <2>2
<1>2. ASSUME NEW c \in Collector, CollectorNext(c) PROVE Framed'
  BY <1>2, <1>5, CollectorSends DEF Quiet
<1>3. ASSUME NEW q \in Query, QueryNext(q) PROVE Framed'
  <2>1. ASSUME NEW m \in OfQuery(q), Adds(m) PROVE Framed'
    <3>1. m \in Metric /\ m.of = q /\ m.kind # "scrape_duration"
      BY OfQueryKinds
    <3>2. ASSUME NEW t \in Named, NEW p \in QueryOf(t), m \in OfQuery(p)
          PROVE  m # Duration(t) /\ Tally[Up(t, 1)] # 0 /\ Tally[Duration(t)] = 0
      <4>1. p = q /\ t \in Target
        BY <1>0, <3>1, <3>2, OfQueryKinds
      <4>2. qpc[q] \notin Over
        BY <1>3, QuerySends
      <4>3. tpc[t] = "wait" /\ Tally[Down(t)] = 0
        BY <4>1, <4>2, AtWorkUp
      <4>4. Tally[Up(t, 1)] = 1 /\ Tally[Duration(t)] = 0
        BY <4>3 DEF TargetsCounted, Early
      <4>5. m # Duration(t)
        BY <3>1, <4>1, Kinds
      <4> QED BY <4>4, <4>5
    <3>3. Sent' = Append(Sent, m)
      BY <2>1 DEF Adds
    <3> QED BY <1>6, <3>1, <3>2, <3>3
  <2>2. rows[q] \in 0 .. MaxRows
    BY DEF IInv, TypeOK
  <2>3. Sent' = Sent \/ \E m \in OfQuery(q) : Adds(m)
    BY <1>3, <2>2, QuerySends DEF OfQuery, Quiet
  <2> QED BY <1>5, <2>1, <2>3
<1>4. CASE GatherNext \/ Close \/ UNCHANGED vars
  BY <1>4, <1>5, GatherSends DEF Quiet
<1> QED BY <1>1, <1>2, <1>3, <1>4 DEF Next

LEMMA InitRInv == Init => RInv
<1> SUFFICES ASSUME Init PROVE RInv
  OBVIOUS
<1>1. Sent = <<>>
  BY DEF Init, Sent
<1>2. \A m \in Metric : Tally[m] = 0
  <2>1. \A m \in Metric : Occurrences(Sent, m) = {}
    BY <1>1 DEF Occurrences
  <2> QED BY <2>1, FS_EmptySet DEF Tally
<1>3. \A q \in Query : \A n \in 0 .. MaxRows : QueryRows(q, n) \in Metric
  BY Metrics
<1>4. TargetsCounted
  BY <1>2, Metrics, ModeAssumption DEF Init, TargetsCounted, Early
<1>5. QueriesCounted
  BY <1>2, <1>3, Metrics DEF Init, QueriesCounted
<1>6. Started
  BY <1>2, Metrics, StructureAssumption DEF Init, Started
<1>7. Framed
  BY <1>1 DEF Framed
<1> QED BY <1>4, <1>5, <1>6, <1>7 DEF RInv

LEMMA InductiveReports == Spec => []RInv
<1>1. IInv /\ RInv /\ [Next]_vars => RInv'
  BY TargetsCountedStep, QueriesCountedStep, StartedStep, FramedStep DEF RInv
<1> QED BY InitRInv, Inductive, <1>1, PTL DEF Spec

\* When Gather returns it has received all that was sent.
LEMMA AllReceived ==
  ASSUME IInv, gpc = "done"
  PROVE  \A m \in Metric : Count(m) = Tally[m]
<1>1. chan = <<>> /\ got \in Seq(Metric)
  BY DEF IInv, Closing, TypeOK
<1>2. Sent = got
  BY <1>1, ConcatEmptySeq DEF Sent
<1> QED BY <1>2 DEF Count, Tally, Occurrences

\* The targets and their queries are over then, and have run unless the target
\* is down.
LEMMA AllRun ==
  ASSUME IInv, TargetsCounted, Started, gpc = "done", NEW t \in targets
  PROVE  /\ t \in Target /\ tpc[t] = "done"
         /\ Tally[Down(t)] = 0 => \A q \in QueryOf(t) : q \in Query /\ qpc[q] = "done"
         /\ Tally[Down(t)] = 1 => \A q \in QueryOf(t) : q \in Query /\ qpc[q] = "idle"
<1>1. t \in Target
  BY DEF IInv, TypeOK
<1>2. /\ \A u \in Target : tpc[u] \in Over
      /\ \A c \in Collector : cpc[c] \in Over
      /\ \A q \in Query : qpc[q] \in Over
  BY Shaped, AtWork DEF IInv
<1>3. tpc[t] = "done"
  BY <1>1, <1>2 DEF Started, Over
<1>4. ASSUME NEW q \in QueryOf(t)
      PROVE  /\ q \in Query
             /\ Tally[Down(t)] = 0 => qpc[q] = "done"
             /\ Tally[Down(t)] = 1 => qpc[q] = "idle"
  <2>1. PICK c \in Collectors[t] : q \in Queries[c]
    BY DEF QueryOf
  <2>2. c \in Collector /\ q \in Query
    BY <1>1, <2>1, StructureAssumption
  <2>3. Tally[Down(t)] = 0 => cpc[c] = "done"
    BY <1>1, <1>2, <1>3, <2>1, <2>2 DEF Started, Over
  <2>4. Tally[Down(t)] = 0 => qpc[q] = "done"
    BY <1>2, <2>1, <2>2, <2>3 DEF Started, Over
  <2>5. Tally[Down(t)] = 1 => cpc[c] = "idle"
    BY <1>1, <2>1, <2>2 DEF Started
  <2>6. Tally[Down(t)] = 1 => qpc[q] = "idle"
    BY <2>1, <2>2, <2>5 DEF IInv, Fresh
  <2> QED BY <2>2, <2>4, <2>6
<1> QED BY <1>1, <1>3, <1>4

LEMMA TargetsDoReport == IInv /\ RInv => TargetsReport
<1> SUFFICES ASSUME IInv, RInv, gpc = "done", NEW t \in targets \cap Named
             PROVE  /\ Count(Duration(t)) = 1
                    /\ Count(Up(t, 0)) = Count(Down(t))
                    /\ Count(Up(t, 0)) + Count(Up(t, 1)) = 1
                    /\ Count(Down(t)) = 1 =>
                         \A q \in QueryOf(t), m \in Metric : m \in OfQuery(q) => Count(m) = 0
  BY DEF TargetsReport
<1>1. TargetsCounted /\ QueriesCounted /\ Started
  BY DEF RInv
<1>2. /\ t \in Target /\ tpc[t] = "done"
      /\ Tally[Down(t)] = 1 => \A q \in QueryOf(t) : q \in Query /\ qpc[q] = "idle"
  BY <1>1, AllRun
<1>3. Down(t) \in Metric /\ Up(t, 0) \in Metric /\ Up(t, 1) \in Metric /\ Duration(t) \in Metric
  BY <1>2, Metrics
<1>4. /\ Tally[Down(t)] \in {0, 1} /\ Tally[Up(t, 0)] = Tally[Down(t)] /\ Tally[Up(t, 1)] = 1 - Tally[Down(t)]
      /\ Tally[Duration(t)] = 1
  BY <1>1, <1>2 DEF TargetsCounted, Early
<1>5. \A m \in Metric : Count(m) = Tally[m]
  BY AllReceived
<1>6. Tally[Down(t)] = 1 => \A q \in QueryOf(t), m \in Metric : m \in OfQuery(q) => Tally[m] = 0
  BY <1>1, <1>2 DEF QueriesCounted
<1> QED BY <1>3, <1>4, <1>5, <1>6

LEMMA QueriesDoReport == IInv /\ RInv => QueriesReport
<1> SUFFICES ASSUME IInv, RInv, gpc = "done", QueryMetrics, NEW t \in targets, NEW q \in QueryOf(t),
                    Count(Down(t)) = 0
             PROVE  /\ Count(QueryDuration(q)) = 1
                    /\ \A n \in 0 .. MaxRows : Count(QueryRows(q, n)) = IF n = Count(Row(q)) THEN 1 ELSE 0
  BY DEF QueriesReport
<1>1. TargetsCounted /\ QueriesCounted /\ Started
  BY DEF RInv
<1>2. \A m \in Metric : Count(m) = Tally[m]
  BY AllReceived
<1>3. t \in Target /\ Tally[Down(t)] = 0
  BY <1>1, <1>2, AllRun, Metrics
<1>4. q \in Query /\ qpc[q] = "done"
  BY <1>1, <1>3, AllRun
<1>5. /\ Row(q) \in Metric /\ QueryDuration(q) \in Metric
      /\ \A n \in 0 .. MaxRows : QueryRows(q, n) \in Metric
  BY <1>4, Metrics
<1>6. /\ Tally[Row(q)] = rows[q] /\ Tally[QueryDuration(q)] = 1
      /\ \A n \in 0 .. MaxRows : Tally[QueryRows(q, n)] = IF n = rows[q] THEN 1 ELSE 0
  BY <1>1, <1>4 DEF QueriesCounted
<1> QED BY <1>2, <1>5, <1>6

\* What is received is a prefix of what is sent.
LEMMA TargetsAreFramed == IInv /\ RInv => TargetFrames
<1> SUFFICES ASSUME IInv, Framed, NEW t \in Named, NEW i \in DOMAIN got
             PROVE  /\ got[i] \in UNION {OfQuery(q) : q \in QueryOf(t)} => \E j \in 1 .. i : got[j] = Up(t, 1)
                    /\ got[i] = Duration(t) => \A j \in i .. Len(got), q \in QueryOf(t) : got[j] \notin OfQuery(q)
  BY DEF TargetFrames, RInv
<1>1. /\ got \in Seq(Metric) /\ chan \in Seq(Metric) /\ Len(got) \in Nat /\ Len(chan) \in Nat
      /\ DOMAIN got = 1 .. Len(got)
  BY LenProperties DEF IInv, TypeOK
<1>2. /\ DOMAIN Sent = 1 .. Len(got) + Len(chan)
      /\ \A j \in 1 .. Len(got) : j \in DOMAIN Sent /\ Sent[j] = got[j]
  <2>1. Sent \in Seq(Metric) /\ Len(Sent) = Len(got) + Len(chan)
    BY <1>1, ConcatProperties DEF Sent
  <2>2. \A j \in 1 .. Len(got) + Len(chan) : Sent[j] = IF j <= Len(got) THEN got[j] ELSE chan[j - Len(got)]
    BY <1>1, ConcatProperties DEF Sent
  <2> QED BY <1>1, <2>1, <2>2, LenProperties
<1>3. ASSUME NEW q \in QueryOf(t), NEW j \in 1 .. Len(got), got[j] \in OfQuery(q)
      PROVE  (\E k \in 1 .. j : got[k] = Up(t, 1)) /\ \A k \in 1 .. j : got[k] # Duration(t)
  <2>1. Sent[j] \in OfQuery(q) /\ j \in DOMAIN Sent
    BY <1>2, <1>3
  <2>2. (\E k \in 1 .. j : Sent[k] = Up(t, 1)) /\ \A k \in 1 .. j : Sent[k] # Duration(t)
    BY <2>1 DEF Framed
  <2>3. \A k \in 1 .. j : k \in 1 .. Len(got)
    BY <1>1
  <2> QED BY <1>2, <2>2, <2>3
<1>4. got[i] \in UNION {OfQuery(q) : q \in QueryOf(t)} => \E j \in 1 .. i : got[j] = Up(t, 1)
  BY <1>1, <1>3
<1>5. ASSUME got[i] = Duration(t), NEW j \in i .. Len(got), NEW q \in QueryOf(t), got[j] \in OfQuery(q)
      PROVE  FALSE
  <2>1. j \in 1 .. Len(got) /\ i \in 1 .. j
    BY <1>1
  <2> QED BY <1>3, <1>5, <2>1
<1> QED BY <1>4, <1>5

\* What a scrape tells of its targets and of their queries is complete when it
\* returns, each thing once and in its place, for any targets and queries, any
\* capacity of the channel, any number of rows and any failures.
THEOREM ScrapesReport == Spec => []Reports
<1>1. IInv /\ RInv => Reports
  BY TargetsDoReport, QueriesDoReport, TargetsAreFramed DEF Reports
<1> QED BY <1>1, Inductive, InductiveReports, PTL
=============================================================================
