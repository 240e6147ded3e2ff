SPECIFICATION FairSpec
CONSTANTS
  Scrape = {s1, s2, s3}
  Timed = {s1, s2}
  Kinds = {"value"}
  MinInterval = 1
  MaxRows = 2
  MaxTime = 2
INVARIANTS TypeOK OneToken BoundedStaleness SameAsRun OwnErrors
PROPERTIES RunSpacing CollectEnds
CHECK_DEADLOCK FALSE
