--------------------------- MODULE MCMetricsHandler ---------------------------
EXTENDS MetricsHandler, TLC
CONSTANTS r1, r2, a, b, x
\* Requests for one job, for both, for all and for one that does not exist.
SomeParams == {<<>>, <<a>>, <<b>>, <<a, b>>, <<x>>}
Symmetry == Permutations(Request)
===============================================================================
