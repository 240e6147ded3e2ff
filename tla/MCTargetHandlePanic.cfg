SPECIFICATION Spec
CONSTANTS
  Scrape = {s1, s2}
  Reload = {r1}
  Initial = t0
  Prepared = TRUE
  Nil = Nil
INVARIANTS SameHandle
SYMMETRY Symmetry
CHECK_DEADLOCK FALSE
