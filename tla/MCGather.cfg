SPECIFICATION FairSpec
CONSTANTS
  t1 = t1  t2 = t2  c1 = c1  c2 = c2  q1 = q1
  Target = {t1, t2}
  Collector = {c1, c2}
  Query = {q1}
  Collectors <- TwoTargets
  Queries <- OneQuery
  Named = {t1,t2}
  QueryMetrics = TRUE
  Cap = 1
  MaxRows = 2
INVARIANTS TypeOK CloseIsLast Reports
PROPERTIES GatherEnds
CHECK_DEADLOCK FALSE
