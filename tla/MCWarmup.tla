------------------------------- MODULE MCWarmup -------------------------------
\* Two targets behind one host name, with different certificates and only one
\* of them with enable_ping, and two scrapes.
EXTENDS Warmup, TLC
CONSTANTS a, b, s1, s2, h, ca, cb

MCHost == [t \in Target |-> h]
MCCertificate == [t \in Target |-> IF t = a THEN ca ELSE cb]
MCCaller == Target \cup Scrape

Section(targets, openable, maxConns, interval, timeout, offset, delay) ==
  [targets |-> targets, openable |-> openable, maxConns |-> maxConns, maxIdle |-> 1,
   interval |-> interval, timeout |-> timeout, offset |-> offset, delay |-> delay]

MCSettings ==
  {Section({a, b}, {a}, 1, 0, 2, 2, 1), \* two targets, one with a DSN that cannot be opened
   Section({a}, {a}, 1, 0, 2, 2, 1),    \* warmup, a ping every time
   Section({a}, {a}, 1, 1, 0, 1, 1),    \* warmup with no time
   Section({a}, {a}, 1, 1, 0, 2, 0),    \* pings are skipped, the offset is all the time there is
   Section({b}, {b}, 0, 1, 2, 1, 0),    \* max_connections: 0
   Section({a}, {a}, -1, 0, 2, 1, 0)}   \* max_connections: -1

\* Scrapes are interchangeable.
Symmetry == Permutations(Scrape)
===============================================================================
