---------------------------- MODULE MCTargetHandle ----------------------------
\* TargetHandle on small sets of scrapes and reloads.
EXTENDS TargetHandle, TLC

\* Scrapes are interchangeable.  Not for the temporal properties.
Symmetry == Permutations(Scrape)
=============================================================================
