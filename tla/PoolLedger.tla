------------------------------ MODULE PoolLedger ------------------------------
(***************************************************************************)
(* What targets promise about connection pools (sql.DB), whoever scrapes   *)
(* or reloads them: a pool is opened for at most one target, a target      *)
(* holds at most one pool at a time, a pool a target holds is open, and    *)
(* the only way a target lets go of its pool is to close it.  A pool that  *)
(* is opened for nobody stays open.                                        *)
(***************************************************************************)
CONSTANTS Target, Handle, Nil

VARIABLES
  conn,    \* the pool each target holds, or Nil
  handle   \* the state of each pool

lvars == <<conn, handle>>

LInit ==
  /\ conn = [t \in Target |-> Nil]
  /\ handle = [h \in Handle |-> "none"]

Acquire(t, h) ==
  /\ conn[t] = Nil /\ handle[h] = "none"
  /\ conn' = [conn EXCEPT ![t] = h]
  /\ handle' = [handle EXCEPT ![h] = "open"]

\* The pool is opened for a caller that has gone away: no target ever holds
\* it, and so none ever closes it.
Orphan(h) ==
  /\ handle[h] = "none"
  /\ handle' = [handle EXCEPT ![h] = "open"]
  /\ UNCHANGED conn

Release(t) ==
  /\ conn[t] # Nil
  /\ conn' = [conn EXCEPT ![t] = Nil]
  /\ handle' = [handle EXCEPT ![conn[t]] = "closed"]

LNext ==
  \/ \E t \in Target, h \in Handle : Acquire(t, h)
  \/ \E h \in Handle : Orphan(h)
  \/ \E t \in Target : Release(t)

LSpec == LInit /\ [][LNext]_lvars
=============================================================================
