SPECIFICATION FairSpec
CONSTANTS
  Scrape = {s1, s2}
  Reload = {r1, r2}
  Initial = t0
  Prepared = TRUE
  Nil = Nil
INVARIANTS TypeOK PoolsAccounted PanicsConfined
PROPERTIES HandleStable ClosedBeforeReplaced LedgerSpec AllEnd
CHECK_DEADLOCK FALSE
