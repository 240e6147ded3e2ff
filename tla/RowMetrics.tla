------------------------------ MODULE RowMetrics ------------------------------
(***************************************************************************)
(* From rows to metrics: the configuration of the metrics of a query is    *)
(* checked when it is loaded and when the query is built, and a run of     *)
(* Query.Collect turns each row of the result into the samples of its      *)
(* metric families.                                                        *)
(*                                                                         *)
(* The rows are scanned into one buffer, dest, which every row reuses.  A  *)
(* cell is NULL, a value that any column type takes, or one that only a    *)
(* string takes.                                                           *)
(***************************************************************************)
EXTENDS Integers, Sequences, FiniteSets, SequencesExt

CONSTANTS
  Name,        \* of columns and of labels, the empty string among them
  Queries,     \* the metrics that share a query, as their configurations
  Results,     \* the columns a query may return
  Value,       \* what a key, a value and a timestamp can be read from
  Junk,        \* what is neither a number nor a time
  Null,
  Absent,      \* the empty string
  ConstLabels, \* the labels that every metric of a target has
  MaxRows      \* bound: rows of a result

\* MetricConfig, as far as it is about rows; a timestamp or a value label that
\* is not configured is the empty string.
Metric ==
  [keys : Seq(Name), values : Seq(Name), valueLabel : Name, static : BOOLEAN, timestamp : Name]

\* The queries of a collector are those of its metrics (collector.go:40).
ASSUME QueriesAssumption == Queries \subseteq (Seq(Metric) \ {<<>>})
ASSUME NamesAssumption == Absent \in Name
ASSUME ResultsAssumption == Results \subseteq Seq(Name)
ASSUME CellsAssumption == Null \notin Value /\ Junk \notin Value \cup {Null} /\ Absent \notin Value \cup {Null, Junk}
ASSUME LabelsAssumption == ConstLabels \subseteq {"job", "target"}
ASSUME BoundAssumption == MaxRows \in Nat

VARIABLES
  metrics,   \* the metrics of the query
  ignore,    \* the flag config.ignore-missing-values
  types,     \* Query.columnTypes
  pc,
  columns,   \* rows.Columns()
  dest,
  row,       \* what scanRow returns
  next,      \* the metric family whose turn it is
  column,    \* which of its values is next
  rowCount,
  fetched,   \* how often rows.Next was true
  out,       \* what has been sent to the channel
  read       \* history: the rows that could be scanned

query == <<metrics, ignore, types>>
vars == <<query, pc, columns, dest, row, next, column, rowCount, fetched, out, read>>

Cell == Value \cup {Null, Junk}

\* What goes to the channel; a sample tells (as a history) where it is from.
Item ==
  [kind : {"sample"}, row : 1 .. MaxRows, metric : Nat \ {0}, column : Nat \ {0},
   labels : Seq(Cell \cup Name), value : Cell \cup {"static"}, time : Cell \cup {Absent}]
    \cup [kind : {"invalid", "duration"}] \cup [kind : {"rows"}, count : 0 .. MaxRows]

TypeOK ==
  /\ metrics \in Queries /\ ignore \in BOOLEAN
  /\ types \in [DOMAIN types -> {"key", "value", "time"}]
  /\ pc \in {"load", "build", "refused", "run", "dest", "rows", "collect", "close", "defer", "done", "panic"}
  /\ columns \in Results \cup {<<>>}
  /\ dest \in Seq(Cell) /\ Len(dest) \in {0, Len(columns)}
  /\ row \in [DOMAIN row -> Cell] /\ DOMAIN row \subseteq DOMAIN types
  /\ \A c \in DOMAIN row : types[c] # "key" => row[c] # Junk
  /\ next \in 1 .. Len(metrics) /\ column \in 1 .. Len(metrics[next].values) + 1
  /\ rowCount \in 0 .. fetched /\ fetched \in 0 .. MaxRows
  /\ out \in Seq(Item)
  /\ read \in Seq([DOMAIN columns -> Cell])

Init ==
  /\ metrics \in Queries /\ ignore \in BOOLEAN
  /\ pc = "load"
  /\ types = <<>> /\ columns = <<>> /\ dest = <<>> /\ row = <<>> /\ out = <<>> /\ read = <<>>
  /\ next = 1 /\ column = 1 /\ rowCount = 0 /\ fetched = 0

Goto(from, to) == pc = from /\ pc' = to

-----------------------------------------------------------------------------
(* The configuration                                                       *)

CheckLabel(l) == l \notin {Absent, "job", "target"}

\* Mutant: the value label may be a key label.
ValidKeyLabelsAlone(m) == IsInjective(m.keys) /\ \A l \in ToSet(m.keys) : CheckLabel(l)

ValidKeyLabels(m) == IsInjective(m.keys) /\ \A l \in ToSet(m.keys) : CheckLabel(l) /\ l # m.valueLabel

\* The columns are not checked for duplicates; the value label is checked if
\* several values need one.
ValidValues(m) ==
  /\ m.values = <<>> <=> m.static
  /\ Len(m.values) > 1 => CheckLabel(m.valueLabel)

LoadConfig ==
  /\ Goto("load", IF \A i \in DOMAIN metrics : ValidKeyLabels(metrics[i]) /\ ValidValues(metrics[i])
                  THEN "build" ELSE "refused")
  /\ UNCHANGED <<query, columns, dest, row, next, column, rowCount, fetched, out, read>>

\* MetricFamily.labels
Labels(m) == m.keys \o (IF m.valueLabel = Absent THEN <<>> ELSE <<m.valueLabel>>)

\* The columns a metric reads, each with the type it reads it as.
Uses(m) ==
  (ToSet(m.keys) \X {"key"}) \cup (ToSet(m.values) \X {"value"})
    \cup (({m.timestamp} \ {Absent}) \X {"time"})

\* NewQuery: setColumnType refuses a column that is read as two types, be it by
\* one metric or by two.
NewQuery ==
  LET uses == UNION {Uses(metrics[i]) : i \in DOMAIN metrics}
      read2 == \E u, w \in uses : u[1] = w[1] /\ u[2] # w[2] IN
  /\ Goto("build", IF read2 THEN "refused" ELSE "run")
  /\ types' = IF read2 THEN <<>>
              ELSE [c \in {u[1] : u \in uses} |-> (CHOOSE u \in uses : u[1] = c)[2]]
  /\ UNCHANGED <<metrics, ignore, columns, dest, row, next, column, rowCount, fetched, out, read>>

-----------------------------------------------------------------------------
(* Query.Collect                                                           *)

Send(items) == out' = out \o items

Invalid == <<[kind |-> "invalid"]>>

\* The context is closed, or the query fails.
RunFails ==
  /\ Goto("run", "defer")
  /\ Send(Invalid)
  /\ UNCHANGED <<query, columns, dest, row, next, column, rowCount, fetched, read>>

Run ==
  /\ Goto("run", "dest")
  /\ columns' \in Results
  /\ UNCHANGED <<query, dest, row, next, column, rowCount, fetched, out, read>>

ScanDest ==
  /\ DOMAIN types \subseteq ToSet(columns)
  /\ Goto("dest", "rows")
  /\ dest' = [i \in DOMAIN columns |-> Null]
  /\ UNCHANGED <<query, columns, row, next, column, rowCount, fetched, out, read>>

\* A column is missing, or the rows have been closed by the context; the flag
\* ignores both.
ScanDestFails ==
  /\ Goto("dest", "close")
  /\ Send(IF ignore THEN <<>> ELSE Invalid)
  /\ UNCHANGED <<query, columns, dest, row, next, column, rowCount, fetched, read>>

TypeOf(c) == IF c \in DOMAIN types THEN types[c] ELSE "any"

\* What the next row may hold; the cells of other columns are of no interest.
Rows == {cells \in [DOMAIN columns -> Cell] : \A i \in DOMAIN columns : TypeOf(columns[i]) = "any" => cells[i] = Null}

\* rows.Next is true.
Fetch == fetched < MaxRows /\ fetched' = fetched + 1

\* Mutant: times are scanned into any type.
UnscannableNumbers(cells) == {i \in DOMAIN columns : TypeOf(columns[i]) = "value" /\ cells[i] = Junk}

\* rows.Scan fills dest up to the first cell that its type does not take.
Unscannable(cells) == {i \in DOMAIN columns : TypeOf(columns[i]) \in {"value", "time"} /\ cells[i] = Junk}

Scanned(cells) ==
  [i \in DOMAIN columns |-> IF \A j \in Unscannable(cells) : i < j THEN cells[i] ELSE dest[i]]

\* Of columns with the same name the last one counts.
Place(c) == CHOOSE i \in DOMAIN columns : columns[i] = c /\ \A j \in DOMAIN columns : columns[j] = c => j <= i

Pick(cells) == [c \in ToSet(columns) \cap DOMAIN types |-> cells[Place(c)]]

\* Mutant: the row is used although it could not be scanned.
ScanRowAnyway ==
  /\ Fetch
  /\ \E cells \in Rows :
       /\ Goto("rows", "collect")
       /\ dest' = Scanned(cells)
       /\ row' = Pick(Scanned(cells))
       /\ read' = Append(read, cells)
  /\ next' = 1 /\ column' = 1 /\ rowCount' = rowCount + 1
  /\ UNCHANGED <<query, columns, out>>

ScanRow ==
  /\ Goto("rows", "collect")
  /\ Fetch
  /\ \E cells \in Rows :
       /\ Unscannable(cells) = {}
       /\ dest' = Scanned(cells)
       /\ row' = Pick(dest')
       /\ read' = Append(read, cells)
  /\ next' = 1 /\ column' = 1 /\ rowCount' = rowCount + 1
  /\ UNCHANGED <<query, columns, out>>

\* A cell cannot be scanned, or the rows have been closed by the context.
ScanRowFails ==
  /\ pc = "rows"
  /\ Fetch
  /\ \/ \E cells \in Rows : Unscannable(cells) # {} /\ dest' = Scanned(cells)
     \/ UNCHANGED dest
  /\ Send(Invalid)
  /\ UNCHANGED <<query, pc, columns, row, next, column, rowCount, read>>

Text(cell) == IF cell = Null THEN Absent ELSE cell

Sample(m, label, value, time) ==
  [kind |-> "sample", row |-> rowCount, metric |-> next, column |-> column, value |-> value, time |-> time,
   labels |-> [i \in 1 .. Len(Labels(m)) |-> IF i \in DOMAIN m.keys THEN Text(row[m.keys[i]]) ELSE label]]

\* A NULL value gives no sample, nor does any value of a row whose timestamp is
\* NULL.
Valid(m, v) == row[v] # Null /\ (m.timestamp # Absent => row[m.timestamp] # Null)

ValueSample(m) ==
  LET v == m.values[column] IN
  IF Valid(m, v) THEN <<Sample(m, v, row[v], IF m.timestamp = Absent THEN Absent ELSE row[m.timestamp])>> ELSE <<>>

\* With a static value there are no others, and no timestamp.
StaticSample(m) == IF m.static THEN <<Sample(m, Absent, "static", Absent)>> ELSE <<>>

\* A type assertion fails, and panics, on a cell of another type, or on none.
Asserted(m) == \A u \in Uses(m) : u[1] \in DOMAIN row /\ types[u[1]] = u[2]

\* The loop of MetricFamily.Collect, one column at a time.
CollectValue ==
  LET m == metrics[next] IN
  /\ column \in DOMAIN m.values
  /\ Goto("collect", IF Asserted(m) THEN "collect" ELSE "panic")
  /\ Send(IF Asserted(m) THEN ValueSample(m) ELSE <<>>)
  /\ column' = column + 1
  /\ UNCHANGED <<query, columns, dest, row, next, rowCount, fetched, read>>

\* Its end, and the next metric family.
CollectEnds ==
  LET m == metrics[next]
      last == next = Len(metrics) IN
  /\ column \notin DOMAIN m.values
  /\ Goto("collect", IF ~ Asserted(m) THEN "panic" ELSE IF last THEN "rows" ELSE "collect")
  /\ Send(IF Asserted(m) THEN StaticSample(m) ELSE <<>>)
  /\ next' = IF last THEN 1 ELSE next + 1
  /\ column' = 1
  /\ UNCHANGED <<query, columns, dest, row, rowCount, fetched, read>>

\* rows.Next is false; rows.Err may tell why.
RowsEnd ==
  /\ Goto("rows", "close")
  /\ Send(<<>>) \/ Send(Invalid)
  /\ UNCHANGED <<query, columns, dest, row, next, column, rowCount, fetched, read>>

CloseRows ==
  /\ Goto("close", "defer")
  /\ Send(<<>>) \/ Send(Invalid)
  /\ UNCHANGED <<query, columns, dest, row, next, column, rowCount, fetched, read>>

\* enable_query_metrics is on.
QueryMetrics ==
  /\ Goto("defer", "done")
  /\ Send(<<[kind |-> "duration"], [kind |-> "rows", count |-> rowCount]>>)
  /\ UNCHANGED <<query, columns, dest, row, next, column, rowCount, fetched, read>>

Next ==
  \/ LoadConfig \/ NewQuery
  \/ RunFails \/ Run \/ ScanDest \/ ScanDestFails
  \/ ScanRow \/ ScanRowFails \/ CollectValue \/ CollectEnds \/ RowsEnd \/ CloseRows \/ QueryMetrics

Spec == Init /\ [][Next]_vars

-----------------------------------------------------------------------------
(* Properties                                                              *)

CellOf(n, c) == read[n][Place(c)]

SamplesOf(n, f, j) ==
  {i \in DOMAIN out : out[i].kind = "sample" /\ out[i].row = n /\ out[i].metric = f /\ out[i].column = j}

\* Whether the value in the j-th column of a metric is due a sample; what comes
\* after the columns is the static value.
Due(n, f, j) ==
  LET m == metrics[f] IN
  IF j \in DOMAIN m.values THEN /\ CellOf(n, m.values[j]) # Null
                                /\ m.timestamp # Absent => CellOf(n, m.timestamp) # Null
  ELSE m.static

\* A sample has the labels, the value and the time of its row.
Faithful(o, n, f, j) ==
  LET m == metrics[f] IN
  /\ \A k \in DOMAIN m.keys : o.labels[k] = Text(CellOf(n, m.keys[k]))
  /\ j \in DOMAIN m.values =>
       /\ o.value = CellOf(n, m.values[j])
       /\ m.valueLabel # Absent => Last(o.labels) = m.values[j]
       /\ m.timestamp # Absent => o.time = CellOf(n, m.timestamp)

ValueTold(n, f, j) ==
  IF Due(n, f, j) THEN \E i \in DOMAIN out : SamplesOf(n, f, j) = {i} /\ Faithful(out[i], n, f, j)
  ELSE SamplesOf(n, f, j) = {}

\* What a metric configuration promises for a row: one sample for each value
\* column that is not NULL, none if its timestamp is NULL; the static value
\* whatever the row holds.
RowTold(n, f) == \A j \in 1 .. Len(metrics[f].values) + 1 : ValueTold(n, f, j)

\* There are no other samples.
NoStranger ==
  \A i \in DOMAIN out : out[i].kind = "sample" =>
    out[i].row \in DOMAIN read /\ out[i].metric \in DOMAIN metrics
      /\ out[i].column <= Len(metrics[out[i].metric].values) + 1

NoPanic == pc # "panic"

\* A configuration that is accepted never makes Collect panic (metric.go:80-92),
\* whatever columns the query returns; every row that can be scanned is told as
\* its metrics say, although the rows share a buffer that a row which cannot be
\* scanned leaves half overwritten (query.go:250); and query_rows_returned
\* counts just those rows.
EveryRowTold ==
  /\ NoPanic /\ NoStranger
  /\ pc # "collect" => \A n \in DOMAIN read, f \in DOMAIN metrics : RowTold(n, f)
  /\ pc = "done" => Last(out).count = Len(read)

\* The samples that a metric makes of one row are different series, unless its
\* `values` name a column twice, which nothing refuses; its labels that are
\* columns differ from each other, from the value label and from those of the
\* target.  (static_labels and the labels of static_configs are compared with
\* no others.)
SeriesDistinct ==
  /\ pc \notin {"load", "build", "refused"} => \A f \in DOMAIN metrics :
       IsInjective(Labels(metrics[f])) /\ ToSet(metrics[f].keys) \cap ConstLabels = {}
  /\ \A i, j \in DOMAIN out : i < j /\ out[i].kind = "sample" /\ out[j].kind = "sample" =>
       \/ out[i].row # out[j].row \/ out[i].metric # out[j].metric
       \/ out[i].labels # out[j].labels
       \/ ~ IsInjective(metrics[out[i].metric].values)
=============================================================================
