------------------------------- MODULE MCGather -------------------------------
\* Gather over two targets, of which the first has a query to run.
EXTENDS Gather, TLC
CONSTANTS t1, t2, c1, c2, q1
TwoTargets == t1 :> {c1} @@ t2 :> {c2}
OneQuery == c1 :> {q1} @@ c2 :> {}
===============================================================================
