------------------------------- MODULE MCReload -------------------------------
\* Reload on two jobs: SIGHUPs, a request and a few edits of the file.
EXTENDS Reload, TLC
CONSTANTS x1, x2, a, b
\* Jobs are interchangeable.
Symmetry == Permutations(Job)
===============================================================================
