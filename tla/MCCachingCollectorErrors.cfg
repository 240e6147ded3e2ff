SPECIFICATION Spec
CONSTANTS
  Scrape = {s1, s2}
  Timed = {s1, s2}
  Kinds = {"value", "queryerror"}
  MinInterval = 1
  MaxRows = 1
  MaxTime = 2
INVARIANTS InvalidNotCached
CHECK_DEADLOCK FALSE
