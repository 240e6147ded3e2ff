--------------------------- MODULE RowMetricsProofs ---------------------------
(***************************************************************************)
(* No accepted configuration makes Collect panic, and every row is told by *)
(* its own values, whatever the query returns: the metrics have been       *)
(* checked and their columns typed, dest has all of these, and the samples *)
(* of a row go out in the order of metrics and values.                     *)
(***************************************************************************)
EXTENDS RowMetrics, FiniteSetTheorems, WellFoundedInduction, TLAPS

Prepared == {"load", "build", "refused"}

\* The metrics of a query that is built have been checked; they read each
\* column as what it is.
Checked ==
  /\ pc \notin {"load", "refused"} =>
       \A f \in DOMAIN metrics : ValidKeyLabels(metrics[f]) /\ ValidValues(metrics[f])
  /\ pc \notin Prepared =>
       \A f \in DOMAIN metrics : \A u \in Uses(metrics[f]) : u[1] \in DOMAIN types /\ types[u[1]] = u[2]

\* No row has been read before dest is there, with a place for each column.
Scannable ==
  /\ pc \in Prepared \cup {"run", "dest"} => read = <<>> /\ out = <<>> /\ row = <<>> /\ dest = <<>>
  /\ pc \in {"rows", "collect"} => DOMAIN types \subseteq ToSet(columns) /\ dest \in [DOMAIN columns -> Cell]
  /\ rowCount = Len(read)

\* The row that is told is the last one that was read.
Current ==
  pc = "collect" =>
    /\ rowCount # 0 /\ DOMAIN row = DOMAIN types
    /\ \A c \in DOMAIN row : row[c] = CellOf(rowCount, c)

Before(n, f, j) == pc = "collect" /\ n = rowCount => f < next \/ (f = next /\ j < column)

\* What has been gone through is told, what has not is not yet.
Told ==
  \A n \in DOMAIN read, f \in DOMAIN metrics : \A j \in 1 .. Len(metrics[f].values) + 1 :
    IF Before(n, f, j) THEN ValueTold(n, f, j) ELSE SamplesOf(n, f, j) = {}

\* A sample has the label of its column, if it has one.
Labelled ==
  \A i \in DOMAIN out : out[i].kind = "sample" =>
    LET m == metrics[out[i].metric] IN
    /\ DOMAIN out[i].labels = 1 .. Len(Labels(m))
    /\ m.valueLabel # Absent /\ out[i].column \in DOMAIN m.values =>
         out[i].labels[Len(Labels(m))] = m.values[out[i].column]

\* The last metric of a run has the number of its rows.
Reported == pc = "done" => out # <<>> /\ out[Len(out)] = [kind |-> "rows", count |-> rowCount]

IInv == TypeOK /\ Checked /\ Scannable /\ Current /\ Told /\ Labelled /\ Reported /\ NoStranger /\ NoPanic

-----------------------------------------------------------------------------
(* Columns and configurations                                              *)

\* The columns with a name have a last one: of the sets of positions after one
\* of them, there is a smallest.
LEMMA LastPlace ==
  ASSUME NEW names, names \in Seq(Name), NEW c, c \in ToSet(names)
  PROVE  \E i \in DOMAIN names : names[i] = c /\ \A j \in DOMAIN names : names[j] = c => j <= i
<1> DEFINE All == DOMAIN names
           After(i) == {j \in All : i < j}
           Places == {i \in All : names[i] = c}
           Afters == {After(i) : i \in Places}
<1>1. All = 1 .. Len(names) /\ IsFiniteSet(All)
  <2>1. All = 1 .. Len(names) /\ Len(names) \in Int
    OBVIOUS
  <2> QED BY <2>1, FS_Interval
<1>2. Afters # {} /\ Afters \subseteq FiniteSubsetsOf(All)
  <2>1. Places # {}
    BY DEF ToSet
  <2>2. FiniteSubsetsOf(All) = SUBSET All
    BY <1>1, FS_FiniteSubsetsOfFinite
  <2>3. \A i \in Places : After(i) \subseteq All
    OBVIOUS
  <2>4. PICK i : i \in Places
    BY <2>1
  <2>5. After(i) \in Afters
    BY <2>4
  <2>6. \A B \in Afters : B \in SUBSET All
    BY <2>3
  <2> QED BY <2>2, <2>5, <2>6
<1>3. PICK A \in Afters : \A B \in Afters : ~ (<<B, A>> \in StrictSubsetOrdering(All))
  <2>1. IsWellFoundedOn(StrictSubsetOrdering(All), FiniteSubsetsOf(All))
    BY FS_StrictSubsetOrderingWellFounded
  <2> QED BY <1>2, <2>1, WFMin
<1>4. PICK i \in Places : A = After(i)
  BY <1>3
<1>5. ASSUME NEW j \in All, names[j] = c, ~ (j <= i) PROVE FALSE
  <2>1. i \in All /\ j \in Nat /\ i \in Nat /\ i < j
    BY <1>1, <1>4, <1>5
  <2>2. After(j) \in Afters /\ After(j) \subseteq After(i)
    BY <1>1, <1>5, <2>1
  <2>3. j \in After(i) /\ j \notin After(j)
    BY <2>1
  <2>4. <<After(j), A>> \in StrictSubsetOrdering(All)
    BY <1>4, <2>2, <2>3 DEF StrictSubsetOrdering
  <2> QED BY <1>3, <2>2, <2>4
<1> QED BY <1>4, <1>5

\* Each column has its place.
LEMMA Placed ==
  ASSUME TypeOK, NEW c \in ToSet(columns)
  PROVE  Place(c) \in DOMAIN columns /\ columns[Place(c)] = c
<1>1. columns \in Seq(Name)
  BY ResultsAssumption DEF TypeOK
<1>2. \E i \in DOMAIN columns : columns[i] = c /\ \A j \in DOMAIN columns : columns[j] = c => j <= i
  BY <1>1, LastPlace
<1> QED BY <1>2 DEF Place

LEMMA Shapes ==
  ASSUME TypeOK
  PROVE  /\ Len(metrics) \in Nat /\ Len(metrics) # 0 /\ DOMAIN metrics = 1 .. Len(metrics)
         /\ \A f \in DOMAIN metrics : metrics[f] \in Metric
         /\ columns \in Seq(Name) /\ DOMAIN columns = 1 .. Len(columns) /\ Len(columns) \in Nat
         /\ next \in DOMAIN metrics /\ Len(metrics[next].values) \in Nat
         /\ DOMAIN metrics[next].values = 1 .. Len(metrics[next].values)
         /\ column \in Nat /\ rowCount \in Nat /\ fetched \in Nat
<1>1. metrics \in Seq(Metric) /\ metrics # <<>>
  BY QueriesAssumption DEF TypeOK
<1>2. columns \in Seq(Name)
  BY ResultsAssumption DEF TypeOK
<1>3. Len(metrics) \in Nat /\ Len(metrics) # 0 /\ DOMAIN metrics = 1 .. Len(metrics)
  BY <1>1
<1>4. \A f \in DOMAIN metrics : metrics[f] \in Metric
  BY <1>1
<1>5. next \in DOMAIN metrics
  BY <1>3 DEF TypeOK
<1>6. metrics[next].values \in Seq(Name)
  BY <1>4, <1>5 DEF Metric
<1>7. Len(metrics[next].values) \in Nat /\ DOMAIN metrics[next].values = 1 .. Len(metrics[next].values)
  BY <1>6
<1>8. column \in Nat /\ rowCount \in Nat /\ fetched \in Nat
  BY <1>7, BoundAssumption DEF TypeOK
<1> QED BY <1>2, <1>3, <1>4, <1>5, <1>7, <1>8

\* The labels of a metric are its keys and, if it has one, its value label.
LEMMA LabelCount ==
  ASSUME NEW m \in Metric
  PROVE  /\ Labels(m) \in Seq(Name) /\ Len(Labels(m)) \in Nat
         /\ DOMAIN m.keys = 1 .. Len(m.keys) /\ Len(m.keys) \in Nat
         /\ \A k \in DOMAIN m.keys : m.keys[k] \in Name /\ Labels(m)[k] = m.keys[k]
         /\ m.valueLabel = Absent => Len(Labels(m)) = Len(m.keys)
         /\ m.valueLabel # Absent => Len(Labels(m)) = Len(m.keys) + 1 /\ Labels(m)[Len(m.keys) + 1] = m.valueLabel
<1>1. m.keys \in Seq(Name) /\ m.valueLabel \in Name
  BY DEF Metric
<1>2. CASE m.valueLabel = Absent
  BY <1>1, <1>2 DEF Labels
<1>3. CASE m.valueLabel # Absent
  BY <1>1, <1>3 DEF Labels
<1> QED BY <1>2, <1>3

\* The labels of a metric that has been checked differ.
LEMMA LabelsDiffer ==
  ASSUME NEW m \in Metric, ValidKeyLabels(m)
  PROVE  IsInjective(Labels(m)) /\ ToSet(m.keys) \cap ConstLabels = {}
<1>0. m.keys \in Seq(Name)
  BY DEF Metric
<1>1. \A k \in DOMAIN m.keys : m.keys[k] \notin {"job", "target"} /\ m.keys[k] # m.valueLabel
  BY DEF ValidKeyLabels, CheckLabel, ToSet
<1>2. \A i, j \in DOMAIN m.keys : m.keys[i] = m.keys[j] => i = j
  BY DEF ValidKeyLabels, IsInjective
<1>3. ASSUME NEW i \in DOMAIN Labels(m), NEW j \in DOMAIN Labels(m), Labels(m)[i] = Labels(m)[j] PROVE i = j
  <2>1. DOMAIN Labels(m) = 1 .. Len(Labels(m))
    BY LabelCount
  <2>2. i \in DOMAIN m.keys \/ (m.valueLabel # Absent /\ i = Len(m.keys) + 1)
    BY <1>3, <2>1, LabelCount
  <2>3. j \in DOMAIN m.keys \/ (m.valueLabel # Absent /\ j = Len(m.keys) + 1)
    BY <1>3, <2>1, LabelCount
  <2> QED BY <1>1, <1>2, <1>3, <2>2, <2>3, LabelCount
<1>4. ToSet(m.keys) \cap ConstLabels = {}
  BY <1>1, LabelsAssumption DEF ToSet
<1> QED BY <1>3, <1>4 DEF IsInjective

-----------------------------------------------------------------------------
(* What a step sends                                                       *)

\* What the metrics of a query read is there, and of the type they expect: no
\* type assertion of metric.go:80-92 fails.
LEMMA NoAssertionFails ==
  ASSUME TypeOK, Checked, Current, pc = "collect"
  PROVE  Asserted(metrics[next])
<1>1. next \in DOMAIN metrics
  BY Shapes
<1>2. \A u \in Uses(metrics[next]) : u[1] \in DOMAIN types /\ types[u[1]] = u[2]
  BY <1>1 DEF Checked, Prepared
<1> QED BY <1>2 DEF Current, Asserted

\* What a metric reads of a row.
LEMMA Reads ==
  ASSUME TypeOK, Checked, Current, pc = "collect", NEW m, m = metrics[next]
  PROVE  /\ \A k \in DOMAIN m.keys : row[m.keys[k]] \in Cell /\ row[m.keys[k]] = CellOf(rowCount, m.keys[k])
         /\ \A j \in DOMAIN m.values : row[m.values[j]] \in Cell /\ row[m.values[j]] = CellOf(rowCount, m.values[j])
         /\ m.timestamp # Absent => row[m.timestamp] \in Cell /\ row[m.timestamp] = CellOf(rowCount, m.timestamp)
<1>1. \A u \in Uses(m) : u[1] \in DOMAIN row
  BY NoAssertionFails DEF Asserted
<1>2. \A c \in DOMAIN row : row[c] \in Cell /\ row[c] = CellOf(rowCount, c)
  BY DEF TypeOK, Current
<1>3. ASSUME NEW k \in DOMAIN m.keys PROVE m.keys[k] \in DOMAIN row
  <2>1. <<m.keys[k], "key">> \in Uses(m)
    BY DEF Uses, ToSet
  <2> QED BY <1>1, <2>1
<1>4. ASSUME NEW j \in DOMAIN m.values PROVE m.values[j] \in DOMAIN row
  <2>1. <<m.values[j], "value">> \in Uses(m)
    BY DEF Uses, ToSet
  <2> QED BY <1>1, <2>1
<1>5. ASSUME m.timestamp # Absent PROVE m.timestamp \in DOMAIN row
  <2>1. <<m.timestamp, "time">> \in Uses(m)
    BY <1>5 DEF Uses
  <2> QED BY <1>1, <2>1
<1> QED BY <1>2, <1>3, <1>4, <1>5

\* A sample has the keys of its row and its label.
LEMMA SampleFits ==
  ASSUME TypeOK, Checked, Current, pc = "collect", NEW m, m = metrics[next],
         NEW label \in Name, NEW value \in Cell \cup {"static"}, NEW time \in Cell \cup {Absent},
         NEW s, s = Sample(m, label, value, time)
  PROVE  /\ s \in Item /\ s.kind = "sample" /\ s.row = rowCount /\ s.metric = next /\ s.column = column
         /\ s.value = value /\ s.time = time
         /\ DOMAIN s.labels = 1 .. Len(Labels(m)) /\ Len(s.labels) = Len(Labels(m))
         /\ \A k \in DOMAIN m.keys : s.labels[k] = Text(CellOf(rowCount, m.keys[k]))
         /\ m.valueLabel # Absent => s.labels[Len(Labels(m))] = label
<1>1. m \in Metric
  BY Shapes
<1> DEFINE labels == [i \in 1 .. Len(Labels(m)) |-> IF i \in DOMAIN m.keys THEN Text(row[m.keys[i]]) ELSE label]
<1>2. s = [kind |-> "sample", row |-> rowCount, metric |-> next, column |-> column, value |-> value, time |-> time,
           labels |-> labels]
  BY DEF Sample
<1>3. \A i \in 1 .. Len(Labels(m)) : labels[i] \in Cell \cup Name
  <2>1. \A k \in DOMAIN m.keys : Text(row[m.keys[k]]) \in Cell \cup Name
    BY Reads, NamesAssumption DEF Text
  <2> QED BY <2>1
<1>4. Len(Labels(m)) \in Nat
  BY <1>1, LabelCount
<1>5. labels \in Seq(Cell \cup Name) /\ Len(labels) = Len(Labels(m))
  <2>1. labels \in [1 .. Len(Labels(m)) -> Cell \cup Name]
    BY <1>3
  <2> QED BY <1>4, <2>1
<1>6. rowCount \in 1 .. MaxRows /\ next \in Nat \ {0} /\ column \in Nat \ {0}
  BY Shapes, BoundAssumption DEF TypeOK, Current
<1>7. s \in Item
  BY <1>2, <1>5, <1>6 DEF Item
<1>8. \A k \in DOMAIN m.keys : labels[k] = Text(CellOf(rowCount, m.keys[k]))
  <2>1. \A k \in DOMAIN m.keys : k \in 1 .. Len(Labels(m))
    BY <1>1, LabelCount
  <2> QED BY <2>1, Reads
<1>9. m.valueLabel # Absent => labels[Len(Labels(m))] = label
  BY <1>1, LabelCount
<1>10. DOMAIN labels = 1 .. Len(Labels(m))
  OBVIOUS
<1>11. s.labels = labels /\ s.kind = "sample" /\ s.row = rowCount /\ s.metric = next /\ s.column = column
         /\ s.value = value /\ s.time = time
  BY <1>2
<1> HIDE DEF labels
<1> QED BY <1>5, <1>7, <1>8, <1>9, <1>10, <1>11

\* The sample s is what is told next, if anything is.
Tells(s) ==
  /\ s \in Item /\ s.kind = "sample" /\ s.row = rowCount /\ s.metric = next /\ s.column = column
  /\ Faithful(s, rowCount, next, column)
  /\ DOMAIN s.labels = 1 .. Len(Labels(metrics[next]))
  /\ metrics[next].valueLabel # Absent /\ column \in DOMAIN metrics[next].values =>
       s.labels[Len(Labels(metrics[next]))] = metrics[next].values[column]

Says(s) == Tells(s) /\ out' = IF Due(rowCount, next, column) THEN Append(out, s) ELSE out

\* A value that is due goes out, and nothing else.
LEMMA ValueEffect ==
  ASSUME TypeOK, Checked, Current, CollectValue
  PROVE  /\ pc = "collect" /\ pc' = "collect" /\ next' = next /\ column' = column + 1
         /\ column \in DOMAIN metrics[next].values
         /\ UNCHANGED <<query, columns, dest, row, rowCount, fetched, read>>
         /\ \E s : Says(s)
<1>1. pc = "collect" /\ column \in DOMAIN metrics[next].values
  BY DEF CollectValue, Goto
<1>2. Asserted(metrics[next])
  BY <1>1, NoAssertionFails
<1>3. PICK m : m = metrics[next]
  OBVIOUS
<1>4. PICK v : v = m.values[column]
  OBVIOUS
<1>5. PICK time : time = IF m.timestamp = Absent THEN Absent ELSE row[m.timestamp]
  OBVIOUS
<1>6. PICK s : s = Sample(m, v, row[v], time)
  OBVIOUS
<1>7. m \in Metric /\ v \in Name
  <2>1. m \in Metric
    BY <1>3, Shapes
  <2>2. m.values \in Seq(Name)
    BY <2>1 DEF Metric
  <2> QED BY <1>1, <1>3, <1>4, <2>1, <2>2
<1>8. row[v] \in Cell /\ row[v] = CellOf(rowCount, v) /\ time \in Cell \cup {Absent}
  BY <1>1, <1>3, <1>4, <1>5, Reads
<1>9. PICK value : value = row[v]
  OBVIOUS
<1>10. s = Sample(m, v, value, time) /\ value \in Cell
  BY <1>6, <1>8, <1>9
<1>11. /\ s \in Item /\ s.kind = "sample" /\ s.row = rowCount /\ s.metric = next /\ s.column = column
       /\ s.value = value /\ s.time = time
       /\ DOMAIN s.labels = 1 .. Len(Labels(m)) /\ Len(s.labels) = Len(Labels(m))
       /\ \A k \in DOMAIN m.keys : s.labels[k] = Text(CellOf(rowCount, m.keys[k]))
       /\ m.valueLabel # Absent => s.labels[Len(Labels(m))] = v
  <2>1. value \in Cell \cup {"static"}
    BY <1>10
  <2> QED BY <1>1, <1>3, <1>7, <1>8, <1>10, <2>1, SampleFits
<1>12. m.timestamp # Absent => time = CellOf(rowCount, m.timestamp)
  BY <1>1, <1>3, <1>5, Reads
<1>13. Faithful(s, rowCount, next, column)
  BY <1>3, <1>4, <1>8, <1>9, <1>11, <1>12 DEF Faithful, Last
<1>14. Tells(s)
  BY <1>3, <1>4, <1>11, <1>13 DEF Tells
<1>15. Due(rowCount, next, column) <=> Valid(m, v)
  <2>1. row[v] = CellOf(rowCount, m.values[column])
    BY <1>4, <1>8
  <2>2. m.timestamp # Absent => row[m.timestamp] = CellOf(rowCount, m.timestamp)
    BY <1>1, <1>3, Reads
  <2> QED BY <1>1, <1>3, <2>1, <2>2 DEF Due, Valid
<1>16. out' = out \o (IF Valid(m, v) THEN <<s>> ELSE <<>>)
  BY <1>2, <1>3, <1>4, <1>5, <1>6 DEF CollectValue, Send, ValueSample
<1>17. out \in Seq(Item) /\ s \in Item
  BY <1>11 DEF TypeOK
<1>18. out' = IF Due(rowCount, next, column) THEN Append(out, s) ELSE out
  BY <1>15, <1>16, <1>17
<1>19. Says(s)
  BY <1>14, <1>18 DEF Says
<1> QED BY <1>1, <1>2, <1>19 DEF CollectValue, Goto

\* At the end the static value goes out, if there is one, and the next metric
\* begins; after the last one, the next row.
LEMMA EndEffect ==
  ASSUME TypeOK, Checked, Current, CollectEnds
  PROVE  /\ pc = "collect" /\ column = Len(metrics[next].values) + 1
         /\ column \notin DOMAIN metrics[next].values
         /\ next = Len(metrics) => pc' = "rows" /\ next' = 1 /\ column' = 1
         /\ next # Len(metrics) => pc' = "collect" /\ next' = next + 1 /\ column' = 1
         /\ UNCHANGED <<query, columns, dest, row, rowCount, fetched, read>>
         /\ \E s : Says(s)
<1>1. pc = "collect" /\ column \notin DOMAIN metrics[next].values
  BY DEF CollectEnds, Goto
<1>2. Asserted(metrics[next])
  BY <1>1, NoAssertionFails
<1>3. column = Len(metrics[next].values) + 1
  BY <1>1, Shapes DEF TypeOK
<1>4. PICK m : m = metrics[next]
  OBVIOUS
<1>5. PICK s : s = Sample(m, Absent, "static", Absent)
  OBVIOUS
<1>6. /\ s \in Item /\ s.kind = "sample" /\ s.row = rowCount /\ s.metric = next /\ s.column = column
      /\ DOMAIN s.labels = 1 .. Len(Labels(m))
      /\ \A k \in DOMAIN m.keys : s.labels[k] = Text(CellOf(rowCount, m.keys[k]))
  BY <1>1, <1>4, <1>5, NamesAssumption, SampleFits
<1>7. Faithful(s, rowCount, next, column)
  BY <1>1, <1>4, <1>6 DEF Faithful
<1>8. Tells(s)
  BY <1>1, <1>4, <1>6, <1>7 DEF Tells
<1>9. Due(rowCount, next, column) <=> m.static
  BY <1>1, <1>4 DEF Due
<1>10. out' = out \o (IF m.static THEN <<s>> ELSE <<>>)
  BY <1>2, <1>4, <1>5 DEF CollectEnds, Send, StaticSample
<1>11. out \in Seq(Item) /\ s \in Item
  BY <1>6 DEF TypeOK
<1>12. out' = IF Due(rowCount, next, column) THEN Append(out, s) ELSE out
  BY <1>9, <1>10, <1>11
<1>13. Says(s)
  BY <1>8, <1>12 DEF Says
<1> QED BY <1>1, <1>2, <1>3, <1>13 DEF CollectEnds, Goto

\* The metrics a step adds, if any, are no samples.
Quiet ==
  /\ out' \in Seq(Item) /\ DOMAIN out \subseteq DOMAIN out'
  /\ \A i \in DOMAIN out : out'[i] = out[i]
  /\ \A i \in DOMAIN out' \ DOMAIN out : out'[i].kind # "sample"

LEMMA Unsent ==
  ASSUME TypeOK, out' = out
  PROVE  Quiet
BY DEF TypeOK, Quiet

LEMMA SentInvalid ==
  ASSUME TypeOK, Send(Invalid)
  PROVE  Quiet
<1>1. PICK s : s = [kind |-> "invalid"]
  OBVIOUS
<1>2. s \in Item /\ s.kind # "sample"
  BY <1>1 DEF Item
<1>3. out' = Append(out, s) /\ out \in Seq(Item)
  <2>1. out \in Seq(Item)
    BY DEF TypeOK
  <2>2. out' = out \o <<s>>
    BY <1>1 DEF Send, Invalid
  <2> QED BY <1>2, <2>1, <2>2
<1> QED BY <1>2, <1>3 DEF Quiet

LEMMA SentNothing ==
  ASSUME TypeOK, Send(<<>>)
  PROVE  Quiet
<1>1. out \in Seq(Item)
  BY DEF TypeOK
<1>2. out' = out
  BY <1>1 DEF Send
<1> QED BY <1>2, Unsent

LEMMA SentMetrics ==
  ASSUME TypeOK, QueryMetrics
  PROVE  /\ Quiet
         /\ out' # <<>> /\ out'[Len(out')] = [kind |-> "rows", count |-> rowCount]
<1>1. PICK s : s = [kind |-> "duration"]
  OBVIOUS
<1>2. PICK u : u = [kind |-> "rows", count |-> rowCount]
  OBVIOUS
<1>3. s \in Item /\ s.kind # "sample"
  BY <1>1 DEF Item
<1>4. rowCount \in 0 .. MaxRows
  BY Shapes, BoundAssumption DEF TypeOK
<1>5. u \in Item /\ u.kind # "sample"
  BY <1>2, <1>4 DEF Item
<1>6. out \in Seq(Item)
  BY DEF TypeOK
<1>7. out' = out \o <<s, u>>
  BY <1>1, <1>2 DEF QueryMetrics, Send
<1>8. Len(out') = Len(out) + 2 /\ out' \in Seq(Item)
  BY <1>3, <1>5, <1>6, <1>7
<1>9. out'[Len(out) + 1] = s /\ out'[Len(out) + 2] = u /\ \A i \in DOMAIN out : out'[i] = out[i]
  BY <1>3, <1>5, <1>6, <1>7
<1>10. DOMAIN out = 1 .. Len(out) /\ DOMAIN out' = 1 .. Len(out) + 2 /\ Len(out) \in Nat
  BY <1>6, <1>8
<1> QED BY <1>2, <1>3, <1>5, <1>8, <1>9, <1>10 DEF Quiet

\* Every step but those of MetricFamily.Collect.
Aside ==
  \/ LoadConfig \/ NewQuery \/ RunFails \/ Run \/ ScanDest \/ ScanDestFails
  \/ ScanRow \/ ScanRowFails \/ RowsEnd \/ CloseRows \/ QueryMetrics \/ UNCHANGED vars

\* None of them sends a sample.
LEMMA AsideQuiet ==
  ASSUME TypeOK, Aside
  PROVE  Quiet /\ metrics' = metrics
<1>1. CASE LoadConfig
  BY <1>1, Unsent DEF LoadConfig, query
<1>2. CASE NewQuery
  BY <1>2, Unsent DEF NewQuery
<1>3. CASE RunFails
  BY <1>3, SentInvalid DEF RunFails, query
<1>4. CASE Run
  BY <1>4, Unsent DEF Run, query
<1>5. CASE ScanDest
  BY <1>5, Unsent DEF ScanDest, query
<1>6. CASE ScanDestFails
  BY <1>6, SentInvalid, SentNothing DEF ScanDestFails, query
<1>7. CASE ScanRow
  BY <1>7, Unsent DEF ScanRow, query
<1>8. CASE ScanRowFails
  BY <1>8, SentInvalid DEF ScanRowFails, query
<1>9. CASE RowsEnd
  BY <1>9, SentInvalid, SentNothing DEF RowsEnd, query
<1>10. CASE CloseRows
  BY <1>10, SentInvalid, SentNothing DEF CloseRows, query
<1>11. CASE QueryMetrics
  BY <1>11, SentMetrics DEF QueryMetrics, query
<1>12. CASE UNCHANGED vars
  BY <1>12, Unsent DEF vars, query
<1> QED BY <1>1, <1>2, <1>3, <1>4, <1>5, <1>6, <1>7, <1>8, <1>9, <1>10, <1>11, <1>12 DEF Aside

LEMMA Steps == [Next]_vars => Aside \/ CollectValue \/ CollectEnds
BY DEF Next, Aside

-----------------------------------------------------------------------------
(* Types                                                                   *)

\* What dest has for a column that takes no junk is none.
LEMMA Scans ==
  ASSUME TypeOK, NEW cells \in Rows, dest \in [DOMAIN columns -> Cell]
  PROVE  /\ cells \in [DOMAIN columns -> Cell] /\ Scanned(cells) \in [DOMAIN columns -> Cell]
         /\ Unscannable(cells) = {} => Scanned(cells) = cells
<1>1. cells \in [DOMAIN columns -> Cell]
  BY DEF Rows
<1>2. Scanned(cells) \in [DOMAIN columns -> Cell]
  BY <1>1 DEF Scanned
<1>3. ASSUME Unscannable(cells) = {} PROVE Scanned(cells) = cells
  <2>1. \A i \in DOMAIN columns : Scanned(cells)[i] = cells[i]
    BY <1>3 DEF Scanned
  <2> QED BY <1>1, <1>2, <2>1
<1> QED BY <1>1, <1>2, <1>3

\* A row that could be scanned has the types of its columns.
LEMMA Picks ==
  ASSUME TypeOK, NEW cells \in Rows, Unscannable(cells) = {}
  PROVE  /\ Pick(cells) \in [DOMAIN Pick(cells) -> Cell] /\ DOMAIN Pick(cells) \subseteq DOMAIN types
         /\ \A c \in DOMAIN Pick(cells) : types[c] # "key" => Pick(cells)[c] # Junk
<1>1. cells \in [DOMAIN columns -> Cell]
  BY DEF Rows
<1>2. DOMAIN Pick(cells) = ToSet(columns) \cap DOMAIN types
  BY DEF Pick
<1>3. ASSUME NEW c \in DOMAIN Pick(cells)
      PROVE  Pick(cells)[c] \in Cell /\ (types[c] # "key" => Pick(cells)[c] # Junk)
  <2>1. Pick(cells)[c] = cells[Place(c)]
    BY <1>2 DEF Pick
  <2>2. Place(c) \in DOMAIN columns /\ columns[Place(c)] = c
    BY <1>2, Placed
  <2>3. types[c] \in {"key", "value", "time"} /\ c \in DOMAIN types
    BY <1>2 DEF TypeOK
  <2>4. types[c] # "key" => cells[Place(c)] # Junk
    BY <2>2, <2>3 DEF Unscannable, TypeOf
  <2> QED BY <1>1, <2>1, <2>2, <2>4
<1>4. Pick(cells) \in [DOMAIN Pick(cells) -> Cell]
  <2>1. Pick(cells) = [c \in DOMAIN Pick(cells) |-> Pick(cells)[c]]
    BY <1>2 DEF Pick
  <2> QED BY <1>3, <2>1
<1> QED BY <1>2, <1>3, <1>4

\* Every step keeps the types.
LEMMA TypeStep ==
  ASSUME TypeOK, Checked, Scannable, Current, [Next]_vars
  PROVE  TypeOK'
<1>0. /\ Len(metrics) \in Nat /\ Len(metrics) # 0 /\ DOMAIN metrics = 1 .. Len(metrics)
      /\ column \in Nat /\ rowCount \in Nat /\ fetched \in Nat
  BY Shapes
<1>1. CASE LoadConfig
  BY <1>1, Unsent DEF TypeOK, LoadConfig, Goto, query
<1>2. CASE NewQuery
  <2>1. row = <<>> => DOMAIN row = {}
    OBVIOUS
  <2> DEFINE uses == UNION {Uses(metrics[i]) : i \in DOMAIN metrics}
             read2 == \E u, w \in uses : u[1] = w[1] /\ u[2] # w[2]
  <2>2. types' = IF read2 THEN <<>> ELSE [c \in {u[1] : u \in uses} |-> (CHOOSE u \in uses : u[1] = c)[2]]
    BY <1>2 DEF NewQuery
  <2>3. \A u \in uses : u[2] \in {"key", "value", "time"}
    BY DEF Uses
  <2>4. types' \in [DOMAIN types' -> {"key", "value", "time"}]
    <3>1. CASE read2
      <4>1. types' = <<>>
        BY <2>2, <3>1
      <4> QED BY <4>1
    <3>2. CASE ~ read2
      <4>1. ASSUME NEW c \in {u[1] : u \in uses}
            PROVE  (CHOOSE u \in uses : u[1] = c)[2] \in {"key", "value", "time"}
        <5>1. \E u \in uses : u[1] = c
          BY <4>1
        <5>2. (CHOOSE u \in uses : u[1] = c) \in uses
          BY <5>1
        <5> QED BY <2>3, <5>2
      <4> QED BY <2>2, <3>2, <4>1
    <3> QED BY <3>1, <3>2
  <2>5. pc = "build" /\ pc' \in {"refused", "run"}
    BY <1>2 DEF NewQuery, Goto
  <2>6. row' = row /\ row = <<>> /\ DOMAIN row = {}
    BY <1>2, <2>5 DEF NewQuery, Scannable, Prepared
  <2>7. row' \in [DOMAIN row' -> Cell] /\ DOMAIN row' \subseteq DOMAIN types'
        /\ \A c \in DOMAIN row' : types'[c] # "key" => row'[c] # Junk
    BY <2>6
  <2> HIDE DEF uses, read2
  <2> QED BY <1>2, <2>4, <2>5, <2>7 DEF TypeOK, NewQuery, Goto
<1>3. CASE RunFails
  BY <1>3, SentInvalid DEF TypeOK, RunFails, Goto, query, Quiet
<1>4. CASE Run
  <2>1. read = <<>> /\ dest = <<>> /\ Len(dest) = 0
    BY <1>4 DEF Run, Goto, Scannable
  <2>2. read' \in Seq([DOMAIN columns' -> Cell]) /\ Len(dest') = 0
    BY <1>4, <2>1 DEF Run
  <2> QED BY <1>4, <2>2 DEF TypeOK, Run, Goto, query
<1>5. CASE ScanDest
  BY <1>5, Unsent DEF TypeOK, ScanDest, Goto, query, Cell
<1>6. CASE ScanDestFails
  BY <1>6, AsideQuiet DEF TypeOK, ScanDestFails, Goto, query, Quiet, Aside
<1>7. CASE ScanRow
  <2>1. PICK cells \in Rows : /\ Unscannable(cells) = {} /\ dest' = Scanned(cells)
                             /\ row' = Pick(dest') /\ read' = Append(read, cells)
    BY <1>7 DEF ScanRow
  <2>2. dest \in [DOMAIN columns -> Cell]
    BY <1>7 DEF ScanRow, Goto, Scannable
  <2>3. cells \in [DOMAIN columns -> Cell] /\ dest' = cells /\ row' = Pick(cells)
    BY <2>1, <2>2, Scans
  <2>4. read' \in Seq([DOMAIN columns -> Cell])
    BY <2>1, <2>3 DEF TypeOK
  <2>5. dest' \in Seq(Cell) /\ Len(dest') = Len(columns)
    BY <2>3, Shapes
  <2>6. row' \in [DOMAIN row' -> Cell] /\ DOMAIN row' \subseteq DOMAIN types
        /\ \A c \in DOMAIN row' : types[c] # "key" => row'[c] # Junk
    BY <2>1, <2>3, Picks
  <2>7. next' = 1 /\ column' = 1 /\ 1 \in 1 .. Len(metrics[1].values) + 1
    <3>1. metrics[1] \in Metric
      BY Shapes
    <3>2. Len(metrics[1].values) \in Nat
      BY <3>1 DEF Metric
    <3> QED BY <1>7, <3>2 DEF ScanRow
  <2>8. rowCount' \in 0 .. fetched' /\ fetched' \in 0 .. MaxRows
    BY <1>0, <1>7, BoundAssumption DEF TypeOK, ScanRow, Fetch
  <2>9. pc' = "collect" /\ UNCHANGED <<metrics, ignore, types, columns, out>>
    BY <1>7 DEF ScanRow, Goto, query
  <2>10. next' \in 1 .. Len(metrics) /\ column' \in 1 .. Len(metrics[next'].values) + 1
    BY <1>0, <2>7
  <2> QED BY <2>4, <2>5, <2>6, <2>8, <2>9, <2>10 DEF TypeOK
<1>8. CASE ScanRowFails
  <2>1. dest \in [DOMAIN columns -> Cell]
    BY <1>8 DEF ScanRowFails, Scannable
  <2>2. dest' \in [DOMAIN columns -> Cell]
    BY <1>8, <2>1, Scans DEF ScanRowFails
  <2>3. dest' \in Seq(Cell) /\ Len(dest') = Len(columns)
    BY <2>2, Shapes
  <2>4. rowCount' \in 0 .. fetched' /\ fetched' \in 0 .. MaxRows
    BY <1>0, <1>8, BoundAssumption DEF TypeOK, ScanRowFails, Fetch
  <2>5. out' \in Seq(Item)
    BY <1>8, SentInvalid DEF ScanRowFails, Quiet
  <2> QED BY <1>8, <2>3, <2>4, <2>5 DEF TypeOK, ScanRowFails, query
<1>9. CASE RowsEnd
  BY <1>9, AsideQuiet DEF TypeOK, RowsEnd, Goto, query, Quiet, Aside
<1>10. CASE CloseRows
  BY <1>10, AsideQuiet DEF TypeOK, CloseRows, Goto, query, Quiet, Aside
<1>11. CASE QueryMetrics
  BY <1>11, AsideQuiet DEF TypeOK, QueryMetrics, Goto, query, Quiet, Aside
<1>12. CASE UNCHANGED vars
  BY <1>12 DEF TypeOK, vars, query
<1>13. ASSUME NEW s, Says(s) PROVE out' \in Seq(Item)
  BY <1>13 DEF TypeOK, Says, Tells
<1>14. CASE CollectValue
  <2>1. out' \in Seq(Item)
    BY <1>13, <1>14, ValueEffect
  <2>2. next' = next /\ metrics' = metrics /\ column' \in 1 .. Len(metrics[next].values) + 1
    <3>1. column \in 1 .. Len(metrics[next].values) /\ column' = column + 1
      BY <1>14, Shapes, ValueEffect
    <3> QED BY <1>14, <3>1, ValueEffect, Shapes DEF query
  <2>3. pc' = "collect" /\ UNCHANGED <<query, columns, dest, row, rowCount, fetched, read>>
    BY <1>14, ValueEffect
  <2> QED BY <2>1, <2>2, <2>3 DEF TypeOK, query
<1>15. CASE CollectEnds
  <2>1. out' \in Seq(Item)
    BY <1>13, <1>15, EndEffect
  <2>2. metrics' = metrics /\ column' = 1 /\ pc' \in {"rows", "collect"} /\ next' \in 1 .. Len(metrics)
    BY <1>0, <1>15, EndEffect DEF query, TypeOK
  <2>3. column' \in 1 .. Len(metrics'[next'].values) + 1
    <3>1. metrics[next'] \in Metric
      BY <2>2, Shapes
    <3>2. Len(metrics[next'].values) \in Nat
      BY <3>1 DEF Metric
    <3> QED BY <2>2, <3>2
  <2>4. UNCHANGED <<query, columns, dest, row, rowCount, fetched, read>>
    BY <1>15, EndEffect
  <2> QED BY <2>1, <2>2, <2>3, <2>4 DEF TypeOK, query
<1> QED BY <1>1, <1>2, <1>3, <1>4, <1>5, <1>6, <1>7, <1>8, <1>9, <1>10, <1>11, <1>12, <1>13, <1>14,
           <1>15 DEF Next

-----------------------------------------------------------------------------
(* Configurations, columns, rows                                           *)

LEMMA CheckedStep ==
  ASSUME TypeOK, Checked, Scannable, Current, [Next]_vars
  PROVE  Checked'
<1>1. CASE LoadConfig
  BY <1>1 DEF Checked, LoadConfig, Goto, query, Prepared
<1>2. CASE NewQuery
  <2> DEFINE uses == UNION {Uses(metrics[i]) : i \in DOMAIN metrics}
             read2 == \E u, w \in uses : u[1] = w[1] /\ u[2] # w[2]
  <2>1. /\ pc = "build" /\ pc' = (IF read2 THEN "refused" ELSE "run")
        /\ types' = IF read2 THEN <<>> ELSE [c \in {u[1] : u \in uses} |-> (CHOOSE u \in uses : u[1] = c)[2]]
        /\ metrics' = metrics
    BY <1>2 DEF NewQuery, Goto
  <2>2. ASSUME ~ read2, NEW f \in DOMAIN metrics, NEW u \in Uses(metrics[f])
        PROVE  u[1] \in DOMAIN types' /\ types'[u[1]] = u[2]
    <3>1. u \in uses
      OBVIOUS
    <3>2. PICK w : w = CHOOSE x \in uses : x[1] = u[1]
      OBVIOUS
    <3>3. w \in uses /\ w[1] = u[1]
      BY <3>1, <3>2
    <3>4. w[2] = u[2]
      BY <2>2, <3>1, <3>3
    <3>5. u[1] \in {x[1] : x \in uses}
      BY <3>1
    <3> QED BY <2>1, <2>2, <3>2, <3>4, <3>5
  <2>3. \A f \in DOMAIN metrics : ValidKeyLabels(metrics[f]) /\ ValidValues(metrics[f])
    BY <2>1 DEF Checked
  <2>4. CASE read2
    BY <2>1, <2>4 DEF Checked, Prepared
  <2>5. CASE ~ read2
    <3>1. \A f \in DOMAIN metrics : \A u \in Uses(metrics[f]) : u[1] \in DOMAIN types' /\ types'[u[1]] = u[2]
      BY <2>2, <2>5
    <3> HIDE DEF uses, read2
    <3> QED BY <2>1, <2>3, <3>1 DEF Checked
  <2> QED BY <2>4, <2>5
<1>3. CASE RunFails \/ Run \/ ScanDest \/ ScanDestFails
  BY <1>3 DEF Checked, RunFails, Run, ScanDest, ScanDestFails, Goto, query, Prepared
<1>4. CASE ScanRow \/ ScanRowFails \/ RowsEnd \/ CloseRows \/ QueryMetrics
  BY <1>4 DEF Checked, ScanRow, ScanRowFails, RowsEnd, CloseRows, QueryMetrics, Goto, query, Prepared
<1>5. CASE UNCHANGED vars
  BY <1>5 DEF Checked, vars, query
<1>6. CASE CollectValue
  BY <1>6, ValueEffect DEF Checked, query, Prepared
<1>7. CASE CollectEnds
  BY <1>7, EndEffect DEF Checked, query, Prepared
<1> QED BY <1>1, <1>2, <1>3, <1>4, <1>5, <1>6, <1>7 DEF Next

LEMMA ScannableStep ==
  ASSUME TypeOK, Checked, Scannable, Current, [Next]_vars
  PROVE  Scannable'
<1>1. CASE LoadConfig \/ NewQuery \/ Run
  BY <1>1 DEF Scannable, Prepared, LoadConfig, NewQuery, Run, Goto, query
<1>2. CASE RunFails \/ ScanDestFails \/ RowsEnd \/ CloseRows \/ QueryMetrics
  BY <1>2 DEF Scannable, Prepared, RunFails, ScanDestFails, RowsEnd, CloseRows, QueryMetrics, Goto, query
<1>3. CASE ScanDest
  BY <1>3 DEF Scannable, Prepared, ScanDest, Goto, query, Cell
<1>4. CASE ScanRow
  <2>1. PICK cells \in Rows : dest' = Scanned(cells) /\ read' = Append(read, cells)
    BY <1>4 DEF ScanRow
  <2>2. /\ pc = "rows" /\ pc' = "collect" /\ rowCount' = rowCount + 1
        /\ UNCHANGED <<types, columns>>
    BY <1>4 DEF ScanRow, Goto, query
  <2>3. dest' \in [DOMAIN columns -> Cell]
    BY <2>1, <2>2, Scans DEF Scannable
  <2>4. Len(read') = Len(read) + 1
    BY <2>1 DEF TypeOK, Rows
  <2> QED BY <2>2, <2>3, <2>4 DEF Scannable, Prepared
<1>5. CASE ScanRowFails
  <2>1. pc = "rows" /\ pc' = "rows" /\ UNCHANGED <<types, columns, rowCount, read>>
    BY <1>5 DEF ScanRowFails, query
  <2>2. dest' \in [DOMAIN columns -> Cell]
    BY <1>5, <2>1, Scans DEF ScanRowFails, Scannable
  <2> QED BY <2>1, <2>2 DEF Scannable, Prepared
<1>6. CASE UNCHANGED vars
  BY <1>6 DEF Scannable, vars, query
<1>7. CASE CollectValue
  BY <1>7, ValueEffect DEF Scannable, query, Prepared
<1>8. CASE CollectEnds
  BY <1>8, EndEffect DEF Scannable, query, Prepared
<1> QED BY <1>1, <1>2, <1>3, <1>4, <1>5, <1>6, <1>7, <1>8 DEF Next

LEMMA CurrentStep ==
  ASSUME TypeOK, Checked, Scannable, Current, [Next]_vars
  PROVE  Current'
<1>1. CASE ScanRow
  <2>1. PICK cells \in Rows : /\ Unscannable(cells) = {} /\ dest' = Scanned(cells)
                             /\ row' = Pick(dest') /\ read' = Append(read, cells)
    BY <1>1 DEF ScanRow
  <2>2. /\ pc = "rows" /\ rowCount' = rowCount + 1
        /\ UNCHANGED <<types, columns>>
    BY <1>1 DEF ScanRow, Goto, query
  <2>3. dest' = cells /\ row' = Pick(cells)
    BY <2>1, <2>2, Scans DEF Scannable
  <2>4. rowCount' = Len(read) + 1 /\ rowCount' # 0 /\ read'[rowCount'] = cells
    BY <2>1, <2>2 DEF TypeOK, Rows, Scannable
  <2>5. DOMAIN row' = DOMAIN types /\ \A c \in DOMAIN row' : row'[c] = cells[Place(c)]
    BY <2>2, <2>3 DEF Pick, Scannable
  <2>6. PICK n : n = rowCount'
    OBVIOUS
  <2>7. \A c \in DOMAIN row' : CellOf(n, c)' = cells[Place(c)]
    BY <2>2, <2>4, <2>6 DEF CellOf, Place
  <2>8. \A c \in DOMAIN row' : row'[c] = CellOf(rowCount, c)'
    BY <2>5, <2>6, <2>7 DEF CellOf
  <2> QED BY <2>2, <2>4, <2>5, <2>8 DEF Current
<1>2. CASE CollectValue
  <2>1. pc = "collect" /\ UNCHANGED <<query, columns, row, rowCount, read>>
    BY <1>2, ValueEffect
  <2> QED BY <2>1 DEF Current, query, CellOf, Place
<1>3. CASE CollectEnds
  <2>1. CASE next = Len(metrics)
    BY <1>3, <2>1, EndEffect DEF Current
  <2>2. CASE next # Len(metrics)
    <3>1. pc = "collect" /\ UNCHANGED <<query, columns, row, rowCount, read>>
      BY <1>3, EndEffect
    <3> QED BY <3>1 DEF Current, query, CellOf, Place
  <2> QED BY <2>1, <2>2
<1>4. CASE UNCHANGED vars
  BY <1>4 DEF Current, vars, query, CellOf, Place
<1>5. CASE LoadConfig \/ NewQuery \/ RunFails \/ Run \/ ScanDest \/ ScanDestFails
  BY <1>5 DEF Current, LoadConfig, NewQuery, RunFails, Run, ScanDest, ScanDestFails, Goto
<1>6. CASE ScanRowFails \/ RowsEnd \/ CloseRows \/ QueryMetrics
  BY <1>6 DEF Current, ScanRowFails, RowsEnd, CloseRows, QueryMetrics, Goto
<1> QED BY <1>1, <1>2, <1>3, <1>4, <1>5, <1>6 DEF Next

LEMMA NoPanicStep ==
  ASSUME TypeOK, Checked, Current, NoPanic, [Next]_vars
  PROVE  NoPanic'
<1>1. CASE CollectValue
  BY <1>1, ValueEffect DEF NoPanic
<1>2. CASE CollectEnds
  BY <1>2, EndEffect DEF NoPanic
<1>3. CASE UNCHANGED vars
  BY <1>3 DEF NoPanic, vars
<1>4. CASE LoadConfig \/ NewQuery \/ RunFails \/ Run \/ ScanDest \/ ScanDestFails
  BY <1>4 DEF NoPanic, LoadConfig, NewQuery, RunFails, Run, ScanDest, ScanDestFails, Goto
<1>5. CASE ScanRow \/ ScanRowFails \/ RowsEnd \/ CloseRows \/ QueryMetrics
  BY <1>5 DEF NoPanic, ScanRow, ScanRowFails, RowsEnd, CloseRows, QueryMetrics, Goto
<1> QED BY <1>1, <1>2, <1>3, <1>4, <1>5 DEF Next

LEMMA ReportedStep ==
  ASSUME TypeOK, Checked, Current, Reported, [Next]_vars
  PROVE  Reported'
<1>1. CASE QueryMetrics
  BY <1>1, SentMetrics DEF Reported, QueryMetrics
<1>2. CASE CollectValue
  BY <1>2, ValueEffect DEF Reported
<1>3. CASE CollectEnds
  BY <1>3, EndEffect DEF Reported
<1>4. CASE UNCHANGED vars
  BY <1>4 DEF Reported, vars
<1>5. CASE LoadConfig \/ NewQuery \/ RunFails \/ Run \/ ScanDest \/ ScanDestFails
  BY <1>5 DEF Reported, LoadConfig, NewQuery, RunFails, Run, ScanDest, ScanDestFails, Goto
<1>6. CASE ScanRow \/ ScanRowFails \/ RowsEnd \/ CloseRows
  BY <1>6 DEF Reported, ScanRow, ScanRowFails, RowsEnd, CloseRows, Goto
<1> QED BY <1>1, <1>2, <1>3, <1>4, <1>5, <1>6 DEF Next

-----------------------------------------------------------------------------
(* Samples                                                                 *)

\* A sample that goes out has a row, a metric and a value, and the label of it.
LEMMA NoStrangerStep ==
  ASSUME TypeOK, Checked, Scannable, Current, NoStranger, [Next]_vars
  PROVE  NoStranger'
<1>0. read \in Seq([DOMAIN columns -> Cell])
  BY DEF TypeOK
<1>1. ASSUME NEW s, Says(s), UNCHANGED <<metrics, read>>, pc = "collect" PROVE NoStranger'
  <2>1. /\ s.row \in DOMAIN read /\ s.metric \in DOMAIN metrics
        /\ s.column <= Len(metrics[s.metric].values) + 1
    <3>1. rowCount = Len(read) /\ rowCount # 0
      BY <1>1 DEF Scannable, Current
    <3>2. rowCount \in DOMAIN read
      BY <1>0, <3>1
    <3>3. column <= Len(metrics[next].values) + 1
      BY Shapes DEF TypeOK
    <3> QED BY <1>1, <3>2, <3>3, Shapes DEF Says, Tells
  <2>2. out \in Seq(Item) /\ s \in Item
    BY <1>1 DEF TypeOK, Says, Tells
  <2>3. out' = out \/ out' = Append(out, s)
    BY <1>1 DEF Says
  <2>4. ASSUME NEW i \in DOMAIN out' PROVE (i \in DOMAIN out /\ out'[i] = out[i]) \/ out'[i] = s
    BY <2>2, <2>3
  <2> QED BY <1>1, <2>1, <2>4 DEF NoStranger
<1>2. CASE CollectValue
  BY <1>1, <1>2, ValueEffect DEF query
<1>3. CASE CollectEnds
  BY <1>1, <1>3, EndEffect DEF query
<1>4. CASE Aside
  <2>1. DOMAIN read \subseteq DOMAIN read'
    <3>1. CASE ScanRow
      <4>1. PICK cells \in Rows : read' = Append(read, cells)
        BY <3>1 DEF ScanRow
      <4> QED BY <1>0, <4>1
    <3>2. CASE ~ ScanRow
      BY <1>4, <3>2 DEF Aside, LoadConfig, NewQuery, RunFails, Run, ScanDest, ScanDestFails,
         ScanRowFails, RowsEnd,
                        CloseRows, QueryMetrics, vars
    <3> QED BY <3>1, <3>2
  <2> QED BY <1>4, <2>1, AsideQuiet DEF NoStranger, Quiet
<1> QED BY <1>2, <1>3, <1>4, Steps

LEMMA LabelledStep ==
  ASSUME TypeOK, Checked, Scannable, Current, Labelled, [Next]_vars
  PROVE  Labelled'
<1>1. ASSUME NEW s, Says(s), metrics' = metrics PROVE Labelled'
  <2>1. /\ DOMAIN s.labels = 1 .. Len(Labels(metrics[s.metric]))
        /\ metrics[s.metric].valueLabel # Absent /\ s.column \in DOMAIN metrics[s.metric].values =>
             s.labels[Len(Labels(metrics[s.metric]))] = metrics[s.metric].values[s.column]
    BY <1>1 DEF Says, Tells
  <2>2. out \in Seq(Item) /\ s \in Item
    BY <1>1 DEF TypeOK, Says, Tells
  <2>3. out' = out \/ out' = Append(out, s)
    BY <1>1 DEF Says
  <2>4. ASSUME NEW i \in DOMAIN out' PROVE (i \in DOMAIN out /\ out'[i] = out[i]) \/ out'[i] = s
    BY <2>2, <2>3
  <2> QED BY <1>1, <2>1, <2>4 DEF Labelled
<1>2. CASE CollectValue
  BY <1>1, <1>2, ValueEffect DEF query
<1>3. CASE CollectEnds
  BY <1>1, <1>3, EndEffect DEF query
<1>4. CASE Aside
  BY <1>4, AsideQuiet DEF Labelled, Quiet
<1> QED BY <1>2, <1>3, <1>4, Steps

\* What is promised depends on the row and the metric only.
LEMMA SamePromise ==
  ASSUME metrics' = metrics, columns' = columns, NEW n, read'[n] = read[n], NEW f, NEW j
  PROVE  /\ Due(n, f, j)' <=> Due(n, f, j)
         /\ \A o : Faithful(o, n, f, j)' <=> Faithful(o, n, f, j)
<1>1. \A c : CellOf(n, c)' = CellOf(n, c)
  BY DEF CellOf, Place
<1>2. Due(n, f, j)' <=> Due(n, f, j)
  BY <1>1 DEF Due
<1>3. \A o : Faithful(o, n, f, j)' <=> Faithful(o, n, f, j)
  BY <1>1 DEF Faithful, Last
<1> QED BY <1>2, <1>3

\* Samples that are there stay, and others are not told.
LEMMA SameTold ==
  ASSUME TypeOK, metrics' = metrics, columns' = columns, NEW n, read'[n] = read[n], NEW f, NEW j,
         SamplesOf(n, f, j)' = SamplesOf(n, f, j),
         DOMAIN out \subseteq DOMAIN out', \A i \in DOMAIN out : out'[i] = out[i]
  PROVE  ValueTold(n, f, j) => ValueTold(n, f, j)'
<1>1. /\ Due(n, f, j)' <=> Due(n, f, j)
      /\ \A o : Faithful(o, n, f, j)' <=> Faithful(o, n, f, j)
  BY SamePromise
<1>2. CASE ~ Due(n, f, j)
  BY <1>1, <1>2 DEF ValueTold
<1>3. ASSUME Due(n, f, j), ValueTold(n, f, j) PROVE ValueTold(n, f, j)'
  <2>1. PICK i \in DOMAIN out : SamplesOf(n, f, j) = {i} /\ Faithful(out[i], n, f, j)
    BY <1>3 DEF ValueTold
  <2>2. PICK o : o = out[i]
    OBVIOUS
  <2>3. i \in DOMAIN out' /\ out'[i] = o
    BY <2>1, <2>2
  <2>4. Faithful(o, n, f, j)'
    BY <1>1, <2>1, <2>2
  <2>5. Faithful(out[i], n, f, j)'
    BY <2>3, <2>4 DEF Faithful
  <2> QED BY <1>1, <1>3, <2>1, <2>3, <2>5 DEF ValueTold
<1> QED BY <1>2, <1>3

\* The sample that goes out is told, and no other one changes.
LEMMA Telling ==
  ASSUME TypeOK, NEW s, Says(s), metrics' = metrics, columns' = columns, read' = read,
         NEW n, NEW f, NEW j, SamplesOf(rowCount, next, column) = {}
  PROVE  IF n = rowCount /\ f = next /\ j = column THEN ValueTold(n, f, j)'
         ELSE SamplesOf(n, f, j)' = SamplesOf(n, f, j) /\ (ValueTold(n, f, j) => ValueTold(n, f, j)')
<1>1. out \in Seq(Item) /\ s \in Item
  BY DEF TypeOK, Says, Tells
<1>2. s.kind = "sample" /\ s.row = rowCount /\ s.metric = next /\ s.column = column
  BY DEF Says, Tells
<1>3. out' = IF Due(rowCount, next, column) THEN Append(out, s) ELSE out
  BY DEF Says
<1>4. DOMAIN out \subseteq DOMAIN out' /\ \A i \in DOMAIN out : out'[i] = out[i]
  BY <1>1, <1>3
<1>5. /\ Due(n, f, j)' <=> Due(n, f, j)
      /\ \A o : Faithful(o, n, f, j)' <=> Faithful(o, n, f, j)
  BY SamePromise
<1>6. ASSUME n = rowCount, f = next, j = column PROVE ValueTold(n, f, j)'
  <2>1. CASE ~ Due(n, f, j)
    <3>1. SamplesOf(n, f, j)' = {}
      BY <1>3, <1>6, <2>1 DEF SamplesOf
    <3> QED BY <1>5, <2>1, <3>1 DEF ValueTold
  <2>2. CASE Due(n, f, j)
    <3>1. PICK i : i = Len(out) + 1
      OBVIOUS
    <3>2. DOMAIN out' = DOMAIN out \cup {i} /\ out'[i] = s /\ i \notin DOMAIN out
      BY <1>1, <1>3, <1>6, <2>2, <3>1
    <3>3. SamplesOf(n, f, j)' = {i}
      BY <1>2, <1>4, <1>6, <3>2 DEF SamplesOf
    <3>4. Faithful(s, n, f, j)'
      BY <1>5, <1>6 DEF Says, Tells
    <3>5. Faithful(out[i], n, f, j)'
      BY <3>2, <3>4 DEF Faithful
    <3> QED BY <1>5, <2>2, <3>2, <3>3, <3>5 DEF ValueTold
  <2> QED BY <2>1, <2>2
<1>7. ASSUME ~ (n = rowCount /\ f = next /\ j = column)
      PROVE  SamplesOf(n, f, j)' = SamplesOf(n, f, j) /\ (ValueTold(n, f, j) => ValueTold(n, f, j)')
  <2>1. ASSUME NEW i \in DOMAIN out' PROVE (i \in DOMAIN out /\ out'[i] = out[i]) \/ (i \notin DOMAIN out /\ out'[i] = s)
    BY <1>1, <1>3
  <2>2. SamplesOf(n, f, j)' = SamplesOf(n, f, j)
    BY <1>2, <1>4, <1>7, <2>1 DEF SamplesOf
  <2> QED BY <1>4, <2>2, SameTold
<1> QED BY <1>6, <1>7

\* A step that sends no sample leaves them as they are.
LEMMA QuietSamples ==
  ASSUME Quiet, NEW n, NEW f, NEW j
  PROVE  SamplesOf(n, f, j)' = SamplesOf(n, f, j)
BY DEF Quiet, SamplesOf

LEMMA ToldStep ==
  ASSUME TypeOK, Checked, Scannable, Current, NoStranger, Told, [Next]_vars
  PROVE  Told'
<1>0. /\ read \in Seq([DOMAIN columns -> Cell]) /\ rowCount = Len(read)
      /\ column \in 1 .. Len(metrics[next].values) + 1
  BY DEF TypeOK, Scannable
<1>1. ASSUME pc = "collect" PROVE SamplesOf(rowCount, next, column) = {}
  <2>1. rowCount \in DOMAIN read
    BY <1>0, <1>1 DEF Current
  <2>2. next \in DOMAIN metrics
    BY Shapes
  <2>3. ~ Before(rowCount, next, column)
    BY <1>0, <1>1, Shapes DEF Before
  <2> QED BY <1>0, <2>1, <2>2, <2>3 DEF Told
<1>2. ASSUME NEW s, Says(s), UNCHANGED <<query, columns, read, rowCount>>, pc = "collect",
             \A n \in DOMAIN read, f \in DOMAIN metrics : \A j \in 1 .. Len(metrics[f].values) + 1 :
               Before(n, f, j)' <=> Before(n, f, j) \/ (n = rowCount /\ f = next /\ j = column)
      PROVE  Told'
  <2>1. metrics' = metrics /\ columns' = columns /\ read' = read
    BY <1>2 DEF query
  <2>2. ASSUME NEW n \in DOMAIN read, NEW f \in DOMAIN metrics, NEW j \in 1 .. Len(metrics[f].values) + 1
        PROVE  IF Before(n, f, j)' THEN ValueTold(n, f, j)' ELSE SamplesOf(n, f, j)' = {}
    <3>1. CASE n = rowCount /\ f = next /\ j = column
      <4>1. ValueTold(n, f, j)'
        BY <1>1, <1>2, <2>1, <3>1, Telling
      <4>2. Before(n, f, j)'
        BY <1>2, <3>1
      <4> QED BY <4>1, <4>2
    <3>2. CASE ~ (n = rowCount /\ f = next /\ j = column)
      <4>1. SamplesOf(n, f, j)' = SamplesOf(n, f, j) /\ (ValueTold(n, f, j) => ValueTold(n, f, j)')
        BY <1>1, <1>2, <2>1, <3>2, Telling
      <4>2. Before(n, f, j)' <=> Before(n, f, j)
        BY <1>2, <3>2
      <4>3. IF Before(n, f, j) THEN ValueTold(n, f, j) ELSE SamplesOf(n, f, j) = {}
        BY DEF Told
      <4> QED BY <4>1, <4>2, <4>3
    <3> QED BY <3>1, <3>2
  <2> QED BY <2>1, <2>2 DEF Told
<1>3. CASE CollectValue
  <2>1. PICK s : Says(s)
    BY <1>3, ValueEffect
  <2>2. /\ pc = "collect" /\ pc' = "collect" /\ next' = next /\ column' = column + 1 /\ rowCount' = rowCount
        /\ UNCHANGED <<query, columns, read, rowCount>>
    BY <1>3, ValueEffect
  <2>3. ASSUME NEW n \in DOMAIN read, NEW f \in DOMAIN metrics, NEW j \in 1 .. Len(metrics[f].values) + 1
        PROVE  Before(n, f, j)' <=> Before(n, f, j) \/ (n = rowCount /\ f = next /\ j = column)
    <3>1. j \in Nat /\ column \in Nat /\ f \in Nat /\ next \in Nat
      <4>1. metrics[f] \in Metric
        BY Shapes
      <4>2. Len(metrics[f].values) \in Nat
        BY <4>1 DEF Metric
      <4> QED BY <4>2, Shapes
    <3> QED BY <2>2, <3>1 DEF Before
  <2> QED BY <1>2, <2>1, <2>2, <2>3
<1>4. CASE CollectEnds
  <2>1. PICK s : Says(s)
    BY <1>4, EndEffect
  <2>2. /\ pc = "collect" /\ column = Len(metrics[next].values) + 1
        /\ next = Len(metrics) => pc' = "rows" /\ next' = 1 /\ column' = 1
        /\ next # Len(metrics) => pc' = "collect" /\ next' = next + 1 /\ column' = 1
        /\ UNCHANGED <<query, columns, read, rowCount>>
    BY <1>4, EndEffect
  <2>3. ASSUME NEW n \in DOMAIN read, NEW f \in DOMAIN metrics, NEW j \in 1 .. Len(metrics[f].values) + 1
        PROVE  Before(n, f, j)' <=> Before(n, f, j) \/ (n = rowCount /\ f = next /\ j = column)
    <3>1. j \in Nat /\ column \in Nat /\ f \in 1 .. Len(metrics) /\ next \in 1 .. Len(metrics) /\ Len(metrics) \in Nat
      <4>1. metrics[f] \in Metric
        BY Shapes
      <4>2. Len(metrics[f].values) \in Nat
        BY <4>1 DEF Metric
      <4> QED BY <4>2, Shapes
    <3>2. f = next => j <= column
      BY <2>2
    <3>3. CASE next = Len(metrics)
      BY <2>2, <3>1, <3>2, <3>3 DEF Before
    <3>4. CASE next # Len(metrics)
      BY <2>2, <3>1, <3>2, <3>4 DEF Before
    <3> QED BY <3>3, <3>4
  <2> QED BY <1>2, <2>1, <2>2, <2>3
<1>5. CASE ScanRow
  <2>1. PICK cells \in Rows : read' = Append(read, cells)
    BY <1>5 DEF ScanRow
  <2>2. /\ pc = "rows" /\ pc' = "collect" /\ next' = 1 /\ column' = 1 /\ rowCount' = rowCount + 1
        /\ metrics' = metrics /\ columns' = columns /\ out' = out
    BY <1>5 DEF ScanRow, Goto, query
  <2>3. Quiet
    BY <2>2, Unsent
  <2>4. DOMAIN read' = DOMAIN read \cup {rowCount'} /\ rowCount' \notin DOMAIN read
        /\ \A n \in DOMAIN read : read'[n] = read[n]
    BY <1>0, <2>1, <2>2
  <2>5. ASSUME NEW n \in DOMAIN read', NEW f \in DOMAIN metrics, NEW j \in 1 .. Len(metrics[f].values) + 1
        PROVE  IF Before(n, f, j)' THEN ValueTold(n, f, j)' ELSE SamplesOf(n, f, j)' = {}
    <3>1. CASE n = rowCount'
      <4>1. SamplesOf(n, f, j)' = {}
        BY <2>2, <2>4, <3>1 DEF SamplesOf, NoStranger
      <4>2. ~ Before(n, f, j)'
        <5>1. f \in Nat \ {0} /\ j \in Nat \ {0}
          <6>1. metrics[f] \in Metric
            BY Shapes
          <6>2. Len(metrics[f].values) \in Nat
            BY <6>1 DEF Metric
          <6> QED BY <6>2, Shapes
        <5> QED BY <2>2, <3>1, <5>1 DEF Before
      <4> QED BY <4>1, <4>2
    <3>2. CASE n # rowCount'
      <4>1. n \in DOMAIN read /\ read'[n] = read[n]
        BY <2>4, <3>2
      <4>2. Before(n, f, j) /\ Before(n, f, j)'
        BY <2>2, <3>2 DEF Before
      <4>3. ValueTold(n, f, j)
        BY <4>1, <4>2 DEF Told
      <4>4. ValueTold(n, f, j)'
        BY <2>2, <2>3, <4>1, <4>3, QuietSamples, SameTold DEF Quiet
      <4> QED BY <4>2, <4>4
    <3> QED BY <3>1, <3>2
  <2> QED BY <2>2, <2>5 DEF Told
<1>6. CASE LoadConfig \/ NewQuery \/ RunFails \/ Run \/ ScanDest \/ ScanDestFails
  <2>1. pc \in Prepared \cup {"run", "dest"} /\ read' = read
    BY <1>6 DEF LoadConfig, NewQuery, RunFails, Run, ScanDest, ScanDestFails, Goto, Prepared
  <2>2. read' = <<>> /\ DOMAIN read' = {}
    BY <2>1 DEF Scannable
  <2> QED BY <2>2 DEF Told
<1>7. CASE ScanRowFails \/ RowsEnd \/ CloseRows \/ QueryMetrics \/ UNCHANGED vars
  <2>1. /\ metrics' = metrics /\ columns' = columns /\ read' = read /\ rowCount' = rowCount
        /\ (pc' = pc /\ next' = next /\ column' = column) \/ (pc # "collect" /\ pc' # "collect")
    <3>1. CASE ScanRowFails
      BY <3>1 DEF ScanRowFails, query
    <3>2. CASE RowsEnd \/ CloseRows \/ QueryMetrics
      BY <3>2 DEF RowsEnd, CloseRows, QueryMetrics, query, Goto
    <3>3. CASE UNCHANGED vars
      BY <3>3 DEF vars, query
    <3> QED BY <1>7, <3>1, <3>2, <3>3
  <2>2. Quiet
    BY <1>7, AsideQuiet DEF Aside
  <2>3. ASSUME NEW n \in DOMAIN read, NEW f \in DOMAIN metrics, NEW j \in 1 .. Len(metrics[f].values) + 1
        PROVE  IF Before(n, f, j)' THEN ValueTold(n, f, j)' ELSE SamplesOf(n, f, j)' = {}
    <3>1. Before(n, f, j)' <=> Before(n, f, j)
      BY <2>1 DEF Before
    <3>2. SamplesOf(n, f, j)' = SamplesOf(n, f, j)
      BY <2>2, QuietSamples
    <3>3. ValueTold(n, f, j) => ValueTold(n, f, j)'
      BY <2>1, <2>2, <3>2, SameTold DEF Quiet
    <3> QED BY <3>1, <3>2, <3>3 DEF Told
  <2> QED BY <2>1, <2>3 DEF Told
<1> QED BY <1>3, <1>4, <1>5, <1>6, <1>7 DEF Next

-----------------------------------------------------------------------------
(* The theorems                                                            *)

LEMMA InitInvariant == Init => IInv
<1> SUFFICES ASSUME Init PROVE IInv
  OBVIOUS
<1>1. read = <<>> /\ out = <<>> /\ row = <<>> /\ types = <<>> /\ columns = <<>> /\ dest = <<>> /\ pc = "load"
      /\ next = 1 /\ column = 1 /\ rowCount = 0 /\ fetched = 0 /\ metrics \in Queries /\ ignore \in BOOLEAN
  BY DEF Init
<1>2. DOMAIN read = {} /\ DOMAIN out = {} /\ DOMAIN row = {} /\ DOMAIN types = {} /\ Len(read) = 0
      /\ Len(dest) = 0
  BY <1>1
<1>3. metrics \in Seq(Metric) /\ metrics # <<>>
  BY <1>1, QueriesAssumption
<1>4. 1 \in 1 .. Len(metrics) /\ metrics[1] \in Metric
  BY <1>3
<1>5. 1 \in 1 .. Len(metrics[1].values) + 1
  BY <1>4 DEF Metric
<1>6. types \in [DOMAIN types -> {"key", "value", "time"}] /\ row \in [DOMAIN row -> Cell]
  BY <1>1, <1>2
<1>7. dest \in Seq(Cell) /\ out \in Seq(Item) /\ read \in Seq([DOMAIN columns -> Cell])
  BY <1>1
<1>8. TypeOK
  BY <1>1, <1>2, <1>4, <1>5, <1>6, <1>7, BoundAssumption DEF TypeOK
<1>9. Checked /\ Scannable /\ Current /\ Reported /\ NoPanic
  BY <1>1, <1>2 DEF Checked, Scannable, Current, Reported, NoPanic, Prepared
<1>10. Told /\ Labelled /\ NoStranger
  BY <1>2 DEF Told, Labelled, NoStranger
<1> QED BY <1>8, <1>9, <1>10 DEF IInv

LEMMA Invariance == Spec => []IInv
<1>1. IInv /\ [Next]_vars => IInv'
  BY TypeStep, CheckedStep, ScannableStep, CurrentStep, ToldStep, LabelledStep, ReportedStep,
     NoStrangerStep,
     NoPanicStep DEF IInv
<1> QED BY <1>1, InitInvariant, PTL DEF Spec

\* Type correctness, for any metrics, results and number of rows: a cell of a
\* row that could be scanned is of the type of its column.
THEOREM TypeCorrect == Spec => []TypeOK
<1>1. IInv => TypeOK
  BY DEF IInv
<1> QED BY <1>1, Invariance, PTL

\* No accepted configuration makes MetricFamily.Collect panic, whatever columns
\* the query returns.
THEOREM NoAcceptedPanic == Spec => []NoPanic
<1>1. IInv => NoPanic
  BY DEF IInv
<1> QED BY <1>1, Invariance, PTL

\* Every row that can be scanned is told as its metrics say: by each metric, one
\* sample for each value that is due, of the cells of that row, and no others,
\* although the rows share a buffer; and the rows are counted.
THEOREM RowsAreTold == Spec => []EveryRowTold
<1>1. IInv => EveryRowTold
  <2> SUFFICES ASSUME IInv PROVE EveryRowTold
    OBVIOUS
  <2>1. ASSUME pc # "collect", NEW n \in DOMAIN read, NEW f \in DOMAIN metrics PROVE RowTold(n, f)
    <3>1. \A j : Before(n, f, j)
      BY <2>1 DEF Before
    <3> QED BY <3>1 DEF IInv, Told, RowTold
  <2>2. ASSUME pc = "done" PROVE Last(out).count = Len(read)
    BY <2>2 DEF IInv, Reported, Scannable, Last
  <2> QED BY <2>1, <2>2 DEF EveryRowTold, IInv
<1> QED BY <1>1, Invariance, PTL

\* The samples that a metric makes of a row are different series: they are of
\* different columns, and with several of them there is a value label, which
\* has the name of the column.
THEOREM SeriesAreDistinct == Spec => []SeriesDistinct
<1>1. IInv => SeriesDistinct
  <2> SUFFICES ASSUME IInv PROVE SeriesDistinct
    OBVIOUS
  <2>0. TypeOK /\ Checked /\ Told /\ Labelled /\ NoStranger
    BY DEF IInv
  <2>1. ASSUME pc \notin {"load", "build", "refused"}, NEW f \in DOMAIN metrics
        PROVE  IsInjective(Labels(metrics[f])) /\ ToSet(metrics[f].keys) \cap ConstLabels = {}
    BY <2>0, <2>1, Shapes, LabelsDiffer DEF Checked
  <2>2. ASSUME NEW i \in DOMAIN out, NEW j \in DOMAIN out, i < j, out[i].kind = "sample", out[j].kind = "sample",
               out[i].row = out[j].row, out[i].metric = out[j].metric,
               IsInjective(metrics[out[i].metric].values)
        PROVE  out[i].labels # out[j].labels
    <3>1. PICK n, f, a, b : n = out[i].row /\ f = out[i].metric /\ a = out[i].column /\ b = out[j].column
      OBVIOUS
    <3>2. /\ n \in DOMAIN read /\ f \in DOMAIN metrics /\ metrics[f] \in Metric
          /\ a <= Len(metrics[f].values) + 1 /\ b <= Len(metrics[f].values) + 1
      BY <2>0, <2>2, <3>1, Shapes DEF NoStranger
    <3>3. metrics[f].values \in Seq(Name)
      BY <3>2 DEF Metric
    <3>4. a \in Nat \ {0} /\ b \in Nat \ {0}
      <4>1. out[i] \in Item /\ out[j] \in Item
        BY <2>0 DEF TypeOK
      <4> QED BY <2>2, <3>1, <4>1 DEF Item
    <3>5. a \in 1 .. Len(metrics[f].values) + 1 /\ b \in 1 .. Len(metrics[f].values) + 1
      BY <3>2, <3>3, <3>4
    <3>6. i \in SamplesOf(n, f, a) /\ j \in SamplesOf(n, f, b)
      BY <2>2, <3>1 DEF SamplesOf
    <3>7. ValueTold(n, f, a) /\ ValueTold(n, f, b)
      BY <2>0, <3>2, <3>5, <3>6 DEF Told
    <3>8. a # b /\ Due(n, f, a) /\ Due(n, f, b)
      <4>1. i # j
        <5>1. i \in Nat /\ j \in Nat
          BY <2>0 DEF TypeOK
        <5> QED BY <2>2, <5>1
      <4> QED BY <3>6, <3>7, <4>1 DEF ValueTold
    <3>9. ValidValues(metrics[f])
      <4>1. pc \notin {"load", "refused"}
        BY <3>2 DEF IInv, Scannable, Prepared
      <4> QED BY <2>0, <3>2, <4>1 DEF Checked
    <3>10. a \in DOMAIN metrics[f].values /\ b \in DOMAIN metrics[f].values
      <4>1. DOMAIN metrics[f].values = 1 .. Len(metrics[f].values) /\ Len(metrics[f].values) \in Nat
        BY <3>3
      <4>2. metrics[f].values # <<>>
        BY <3>3, <3>5, <3>8, <4>1
      <4>3. ~ metrics[f].static
        BY <3>9, <4>2 DEF ValidValues
      <4> QED BY <3>8, <4>3 DEF Due
    <3>11. metrics[f].valueLabel # Absent
      <4>1. Len(metrics[f].values) > 1
        BY <3>3, <3>8, <3>10
      <4> QED BY <3>9, <4>1 DEF ValidValues, CheckLabel
    <3>12. /\ out[i].labels[Len(Labels(metrics[f]))] = metrics[f].values[a]
           /\ out[j].labels[Len(Labels(metrics[f]))] = metrics[f].values[b]
      BY <2>0, <2>2, <3>1, <3>10, <3>11 DEF Labelled
    <3>13. metrics[f].values[a] # metrics[f].values[b]
      BY <2>2, <3>1, <3>8, <3>10 DEF IsInjective
    <3> QED BY <3>12, <3>13
  <2> QED BY <2>1, <2>2 DEF SeriesDistinct
<1> QED BY <1>1, Invariance, PTL
===============================================================================
