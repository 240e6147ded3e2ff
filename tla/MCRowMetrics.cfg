SPECIFICATION Spec
CONSTANTS
  x = x  y = y
  Name = {"k", "v", "w", "t", "u", "l", "job", ""}
  Queries <- MCQueries
  Results <- MCResults
  Value = {x, y}
  Junk = Junk
  Null = Null
  Absent = ""
  ConstLabels = {"job", "target"}
  MaxRows = 2
INVARIANTS TypeOK EveryRowTold SeriesDistinct
SYMMETRY Symmetry
CHECK_DEADLOCK FALSE
