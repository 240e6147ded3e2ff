-------------------------- MODULE TargetHandleProofs --------------------------
(***************************************************************************)
(* What TargetHandle guarantees for every number of scrapes and reloads.   *)
(*                                                                         *)
(* PanicOnlyOnClosed is not inductive: that a scrape finds q.conn equal to *)
(* its handle depends on every other scrape having taken the same handle,  *)
(* which holds because t.conn changes under t.mu only, from nil once, and  *)
(* back to nil by Close alone.  IInv says so, location by location.        *)
(***************************************************************************)
EXTENDS TargetHandle, TLAPS

Holding == {"locked", "pinging"}
Querying == {"run", "stmt", "prepare", "setconn", "setstmt", "exec"}
Closing == {"stmt", "clearconn", "pool"}

\* A process past its first step has a target.
Assigned ==
  /\ \A s \in Scrape : spc[s] # "start" => starget[s] \in Target
  /\ \A r \in Reload : rpc[r] \in Closing \cup {"close", "update"} => rold[r] \in Target

\* target.mu is held in ping and in Close, by one process at a time.
LockHeld ==
  /\ \A s \in Scrape : spc[s] \in Holding => mu[starget[s]] = s
  /\ \A r \in Reload : rpc[r] \in Closing => mu[rold[r]] = r

\* A scrape opens one handle, when the target has none.
HandlesFresh ==
  /\ \A s \in Scrape : spc[s] \in {"start", "ping", "locked", "left"} => handle[s] = "none"
  /\ \A s \in Scrape : spc[s] = "locked" => conn[starget[s]] = Nil
  /\ \A s \in Scrape : spc[s] = "pinging" => conn[starget[s]] # Nil

\* Until Close begins, scrapes, cached statement and target share one handle.
OneHandle ==
  /\ \A t \in Target \ closed :
       qconn[t] \in {Nil, conn[t]} /\ qstmt[t] \in {Nil, conn[t]}
  /\ \A s \in Scrape : starget[s] \notin closed =>
       /\ spc[s] = "up" => conn[starget[s]] # Nil
       /\ spc[s] \in Querying => conn[starget[s]] # Nil /\ sconn[s] = conn[starget[s]]
       /\ spc[s] = "exec" => qstmt[starget[s]] # Nil

\* Close works on closed targets; a reload's own target is closed, replaced
\* or current only once the reload is over.
ReloadOrder ==
  /\ \A r \in Reload : rpc[r] \in Closing \cup {"update"} => rold[r] \in closed
  /\ \A r \in Reload :
       (current = r \/ r \in closed \/ \E o \in Reload : rold[o] = r) => rpc[r] = "done"

IInv ==
  /\ TypeOK /\ Assigned /\ LockHeld /\ HandlesFresh
  /\ HandlesAccounted /\ OneHandle /\ PanicOnlyOnClosed
  /\ ReloadOrder /\ ClosedOnlyMeanwhile

-----------------------------------------------------------------------------
(* Preservation, part by part                                              *)

\* Every step keeps the types.
LEMMA TypeOKStep ==
  TypeOK /\ Assigned /\ [Next]_vars
    => TypeOK'
<1> SUFFICES ASSUME TypeOK, Assigned, [Next]_vars PROVE TypeOK'
  OBVIOUS
<1> USE DEF TypeOK, Assigned, Closing, Target, Handle, ScrapeStep, ReloadStep,
      svars, rvars, qvars
<1>1. ASSUME NEW s \in Scrape, ScrapeNext(s) PROVE TypeOK'
  <2> USE ScrapeAssumption, ReloadAssumption, PreparedAssumption DEF Goto, Lock, Unlock
  <2>1. CASE Snapshot(s)
    BY <2>1 DEF Snapshot
  <2>2. CASE PingLock(s)
    BY <2>2 DEF PingLock
  <2>3. CASE OpenConnection(s)
    BY <2>3 DEF OpenConnection
  <2>4. CASE OpenFails(s)
    BY <2>4 DEF OpenFails
  <2>5. CASE OpenAbandoned(s) \/ SqlOpens(s)
    BY <2>5 DEF OpenAbandoned, SqlOpens
  <2>6. CASE PingReturns(s)
    BY <2>6 DEF PingReturns
  <2>7. CASE ReadConn(s)
    BY <2>7 DEF ReadConn
  <2>8. CASE RunCheck(s)
    BY <2>8 DEF RunCheck
  <2>9. CASE CheckStmt(s)
    BY <2>9 DEF CheckStmt
  <2>10. CASE Prepare(s)
    BY <2>10 DEF Prepare
  <2>11. CASE SetConn(s)
    BY <2>11 DEF SetConn
  <2>12. CASE SetStmt(s)
    BY <2>12 DEF SetStmt
  <2>13. CASE Exec(s)
    BY <2>13 DEF Exec
  <2> QED BY <1>1, <2>1, <2>2, <2>3, <2>4, <2>5, <2>6, <2>7, <2>8, <2>9, <2>10, <2>11, <2>12,
             <2>13 DEF ScrapeNext
<1>2. ASSUME NEW r \in Reload, ReloadNext(r) PROVE TypeOK'
  <2> USE ScrapeAssumption, ReloadAssumption DEF Continue, Lock, Unlock
  <2>1. CASE Build(r)
    BY <2>1 DEF Build
  <2>2. CASE ReadTargets(r)
    BY <2>2 DEF ReadTargets
  <2>3. CASE CloseLock(r)
    BY <2>3 DEF CloseLock
  <2>4. CASE CloseStmt(r)
    BY <2>4 DEF CloseStmt
  <2>5. CASE ClearQueryConn(r)
    BY <2>5 DEF ClearQueryConn
  <2>6. CASE ClosePool(r)
    BY <2>6 DEF ClosePool
  <2>7. CASE UpdateTarget(r)
    BY <2>7 DEF UpdateTarget
  <2> QED BY <1>2, <2>1, <2>2, <2>3, <2>4, <2>5, <2>6, <2>7 DEF ReloadNext
<1>3. CASE UNCHANGED vars
  BY <1>3 DEF vars
<1> QED BY <1>1, <1>2, <1>3 DEF Next

\* The target a process works on is set when it leaves its first step.
LEMMA AssignedStep ==
  TypeOK /\ Assigned /\ [Next]_vars
    => Assigned'
<1> SUFFICES ASSUME TypeOK, Assigned, [Next]_vars PROVE Assigned'
  OBVIOUS
<1> USE DEF TypeOK, Assigned, Closing, Target, Handle, ScrapeStep, ReloadStep,
      svars, rvars, qvars
<1>1. ASSUME NEW s \in Scrape, ScrapeNext(s) PROVE Assigned'
  <2> USE ScrapeAssumption, ReloadAssumption, PreparedAssumption DEF Goto, Lock, Unlock
  <2>1. CASE Snapshot(s)
    BY <2>1 DEF Snapshot
  <2>2. CASE PingLock(s) \/ OpenConnection(s) \/ OpenFails(s) \/
          OpenAbandoned(s) \/ SqlOpens(s) \/ PingReturns(s) \/ ReadConn(s) \/ RunCheck(s) \/
          CheckStmt(s) \/ Prepare(s) \/ SetConn(s) \/ SetStmt(s) \/ Exec(s)
    BY <2>2 DEF PingLock, OpenConnection, OpenFails, OpenAbandoned, SqlOpens,
         PingReturns, ReadConn, RunCheck, CheckStmt, Prepare, SetConn,
         SetStmt, Exec
  <2> QED BY <1>1, <2>1, <2>2 DEF ScrapeNext
<1>2. ASSUME NEW r \in Reload, ReloadNext(r) PROVE Assigned'
  <2> USE ScrapeAssumption, ReloadAssumption DEF Continue, Lock, Unlock
  <2>1. CASE ReadTargets(r)
    BY <2>1 DEF ReadTargets
  <2>2. CASE Build(r) \/ CloseLock(r) \/ CloseStmt(r) \/ ClearQueryConn(r) \/
          ClosePool(r) \/ UpdateTarget(r)
    BY <2>2 DEF Build, CloseLock, CloseStmt, ClearQueryConn, ClosePool,
         UpdateTarget
  <2> QED BY <1>2, <2>1, <2>2 DEF ReloadNext
<1>3. CASE UNCHANGED vars
  BY <1>3 DEF vars
<1> QED BY <1>1, <1>2, <1>3 DEF Next

\* The lock passes through Nil from one holder to the next.
LEMMA LockHeldStep ==
  TypeOK /\ Assigned /\ LockHeld /\ [Next]_vars
    => LockHeld'
<1> SUFFICES ASSUME TypeOK, Assigned, LockHeld, [Next]_vars PROVE LockHeld'
  OBVIOUS
<1> USE DEF TypeOK, Assigned, LockHeld, Holding, Closing, Target, Handle,
      ScrapeStep, ReloadStep, svars, rvars, qvars
<1>1. ASSUME NEW s \in Scrape, ScrapeNext(s) PROVE LockHeld'
  <2> USE ScrapeAssumption, ReloadAssumption, PreparedAssumption DEF Goto, Lock, Unlock
  <2>1. CASE Snapshot(s)
    BY <2>1 DEF Snapshot
  <2>2. CASE PingLock(s)
    BY <2>2 DEF PingLock
  <2>3. CASE OpenFails(s)
    BY <2>3 DEF OpenFails
  <2>4. CASE OpenAbandoned(s) \/ SqlOpens(s)
    BY <2>4 DEF OpenAbandoned, SqlOpens
  <2>5. CASE PingReturns(s)
    BY <2>5 DEF PingReturns
  <2>6. CASE OpenConnection(s) \/ ReadConn(s) \/ RunCheck(s) \/ CheckStmt(s)
          \/ Prepare(s) \/ SetConn(s) \/ SetStmt(s) \/ Exec(s)
    BY <2>6 DEF OpenConnection, ReadConn, RunCheck, CheckStmt, Prepare,
         SetConn, SetStmt, Exec
  <2> QED BY <1>1, <2>1, <2>2, <2>3, <2>4, <2>5, <2>6 DEF ScrapeNext
<1>2. ASSUME NEW r \in Reload, ReloadNext(r) PROVE LockHeld'
  <2> USE ScrapeAssumption, ReloadAssumption DEF Continue, Lock, Unlock
  <2>1. CASE ReadTargets(r)
    BY <2>1 DEF ReadTargets
  <2>2. CASE CloseLock(r)
    BY <2>2 DEF CloseLock
  <2>3. CASE ClosePool(r)
    BY <2>3 DEF ClosePool
  <2>4. CASE Build(r) \/ CloseStmt(r) \/ ClearQueryConn(r) \/ UpdateTarget(r)
    BY <2>4 DEF Build, CloseStmt, ClearQueryConn, UpdateTarget
  <2> QED BY <1>2, <2>1, <2>2, <2>3, <2>4 DEF ReloadNext
<1>3. CASE UNCHANGED vars
  BY <1>3 DEF vars
<1> QED BY <1>1, <1>2, <1>3 DEF Next

\* Whoever changes t.conn holds the lock, so no scrape in ping sees it change.
LEMMA HandlesFreshStep ==
  TypeOK /\ Assigned /\ LockHeld /\ HandlesFresh /\ HandlesAccounted /\ [Next]_vars
    => HandlesFresh'
<1> SUFFICES ASSUME TypeOK, Assigned, LockHeld, HandlesFresh,
      HandlesAccounted, [Next]_vars PROVE HandlesFresh'
  OBVIOUS
<1> USE DEF TypeOK, Assigned, LockHeld, HandlesFresh, HandlesAccounted,
      Holding, Closing, Target, Handle, ScrapeStep, ReloadStep, svars, rvars,
      qvars
<1>1. ASSUME NEW s \in Scrape, ScrapeNext(s) PROVE HandlesFresh'
  <2> USE ScrapeAssumption, ReloadAssumption, PreparedAssumption DEF Goto, Lock, Unlock
  <2>1. CASE Snapshot(s)
    BY <2>1 DEF Snapshot
  <2>2. CASE PingLock(s)
    BY <2>2 DEF PingLock
  <2>3. CASE OpenConnection(s)
    BY <2>3 DEF OpenConnection
  <2>4. CASE OpenAbandoned(s) \/ SqlOpens(s)
    BY <2>4 DEF OpenAbandoned, SqlOpens
  <2>5. CASE OpenFails(s) \/ PingReturns(s) \/ ReadConn(s) \/ RunCheck(s) \/
          CheckStmt(s) \/ Prepare(s) \/ SetConn(s) \/ SetStmt(s) \/ Exec(s)
    BY <2>5 DEF OpenFails, PingReturns, ReadConn, RunCheck, CheckStmt,
         Prepare, SetConn, SetStmt, Exec
  <2> QED BY <1>1, <2>1, <2>2, <2>3, <2>4, <2>5 DEF ScrapeNext
<1>2. ASSUME NEW r \in Reload, ReloadNext(r) PROVE HandlesFresh'
  <2> USE ScrapeAssumption, ReloadAssumption DEF Continue, Lock, Unlock
  <2>1. CASE ClosePool(r)
    BY <2>1 DEF ClosePool
  <2>2. CASE Build(r) \/ ReadTargets(r) \/ CloseLock(r) \/ CloseStmt(r) \/
          ClearQueryConn(r) \/ UpdateTarget(r)
    BY <2>2 DEF Build, ReadTargets, CloseLock, CloseStmt, ClearQueryConn,
         UpdateTarget
  <2> QED BY <1>2, <2>1, <2>2 DEF ReloadNext
<1>3. CASE UNCHANGED vars
  BY <1>3 DEF vars
<1> QED BY <1>1, <1>2, <1>3 DEF Next

\* A scrape opens a handle that was never open, for a target that has none;
\* Close closes the one it takes away.
LEMMA HandlesAccountedStep ==
  TypeOK /\ Assigned /\ HandlesFresh /\ HandlesAccounted /\ [Next]_vars
    => HandlesAccounted'
<1> SUFFICES ASSUME TypeOK, Assigned, HandlesFresh, HandlesAccounted,
      [Next]_vars PROVE HandlesAccounted'
  OBVIOUS
<1> USE DEF TypeOK, Assigned, HandlesFresh, HandlesAccounted, Closing, Target,
      Handle, ScrapeStep, ReloadStep, svars, rvars, qvars
<1>1. ASSUME NEW s \in Scrape, ScrapeNext(s) PROVE HandlesAccounted'
  <2> USE ScrapeAssumption, ReloadAssumption, PreparedAssumption DEF Goto, Lock, Unlock
  <2>1. CASE OpenConnection(s)
    BY <2>1 DEF OpenConnection
  <2>2. CASE OpenAbandoned(s) \/ SqlOpens(s)
    BY <2>2 DEF OpenAbandoned, SqlOpens
  <2>3. CASE Snapshot(s) \/ PingLock(s) \/ OpenFails(s) \/ PingReturns(s) \/
          ReadConn(s) \/ RunCheck(s) \/ CheckStmt(s) \/ Prepare(s) \/
          SetConn(s) \/ SetStmt(s) \/ Exec(s)
    BY <2>3 DEF Snapshot, PingLock, OpenFails, PingReturns, ReadConn,
         RunCheck, CheckStmt, Prepare, SetConn, SetStmt, Exec
  <2> QED BY <1>1, <2>1, <2>2, <2>3 DEF ScrapeNext
<1>2. ASSUME NEW r \in Reload, ReloadNext(r) PROVE HandlesAccounted'
  <2> USE ScrapeAssumption, ReloadAssumption DEF Continue, Lock, Unlock
  <2>1. CASE ClosePool(r)
    BY <2>1 DEF ClosePool
  <2>2. CASE Build(r) \/ ReadTargets(r) \/ CloseLock(r) \/ CloseStmt(r) \/
          ClearQueryConn(r) \/ UpdateTarget(r)
    BY <2>2 DEF Build, ReadTargets, CloseLock, CloseStmt, ClearQueryConn,
         UpdateTarget
  <2> QED BY <1>2, <2>1, <2>2 DEF ReloadNext
<1>3. CASE UNCHANGED vars
  BY <1>3 DEF vars
<1> QED BY <1>1, <1>2, <1>3 DEF Next

\* The handle of a target that is not being closed never changes, and the
\* statement on it is never taken away.
LEMMA OneHandleStep ==
  TypeOK /\ Assigned /\ HandlesFresh /\ ReloadOrder /\ OneHandle /\ [Next]_vars
    => OneHandle'
<1> SUFFICES ASSUME TypeOK, Assigned, HandlesFresh, ReloadOrder, OneHandle,
      [Next]_vars PROVE OneHandle'
  OBVIOUS
<1> USE DEF TypeOK, Assigned, HandlesFresh, ReloadOrder, OneHandle, Closing,
      Querying, Target, Handle, ScrapeStep, ReloadStep, svars, rvars, qvars
<1>1. ASSUME NEW s \in Scrape, ScrapeNext(s) PROVE OneHandle'
  <2> USE ScrapeAssumption, ReloadAssumption, PreparedAssumption DEF Goto, Lock, Unlock
  <2>1. CASE Snapshot(s)
    BY <2>1 DEF Snapshot
  <2>2. CASE OpenConnection(s)
    BY <2>2 DEF OpenConnection
  <2>3. CASE PingReturns(s)
    BY <2>3 DEF PingReturns
  <2>4. CASE ReadConn(s)
    BY <2>4 DEF ReadConn
  <2>5. CASE RunCheck(s)
    BY <2>5 DEF RunCheck
  <2>6. CASE CheckStmt(s)
    BY <2>6 DEF CheckStmt
  <2>7. CASE SetConn(s)
    BY <2>7 DEF SetConn
  <2>8. CASE SetStmt(s)
    BY <2>8 DEF SetStmt
  <2>9. CASE PingLock(s) \/ OpenFails(s) \/ OpenAbandoned(s) \/ SqlOpens(s) \/ Prepare(s) \/
          Exec(s)
    BY <2>9 DEF PingLock, OpenFails, OpenAbandoned, SqlOpens, Prepare, Exec
  <2> QED BY <1>1, <2>1, <2>2, <2>3, <2>4, <2>5, <2>6, <2>7, <2>8, <2>9 DEF ScrapeNext
<1>2. ASSUME NEW r \in Reload, ReloadNext(r) PROVE OneHandle'
  <2> USE ScrapeAssumption, ReloadAssumption DEF Continue, Lock, Unlock
  <2>1. CASE CloseLock(r)
    BY <2>1 DEF CloseLock
  <2>2. CASE CloseStmt(r)
    BY <2>2 DEF CloseStmt
  <2>3. CASE ClearQueryConn(r)
    BY <2>3 DEF ClearQueryConn
  <2>4. CASE ClosePool(r)
    BY <2>4 DEF ClosePool
  <2>5. CASE Build(r) \/ ReadTargets(r) \/ UpdateTarget(r)
    BY <2>5 DEF Build, ReadTargets, UpdateTarget
  <2> QED BY <1>2, <2>1, <2>2, <2>3, <2>4, <2>5 DEF ReloadNext
<1>3. CASE UNCHANGED vars
  BY <1>3 DEF vars
<1> QED BY <1>1, <1>2, <1>3 DEF Next

\* The two checks of Query.run fail where OneHandle no longer speaks.
LEMMA PanicOnlyOnClosedStep ==
  TypeOK /\ Assigned /\ OneHandle /\ PanicOnlyOnClosed /\ [Next]_vars
    => PanicOnlyOnClosed'
<1> SUFFICES ASSUME TypeOK, Assigned, OneHandle, PanicOnlyOnClosed,
      [Next]_vars PROVE PanicOnlyOnClosed'
  OBVIOUS
<1> USE DEF TypeOK, Assigned, OneHandle, PanicOnlyOnClosed, Panicked,
      Querying, Target, Handle, ScrapeStep, ReloadStep, svars, rvars, qvars
<1>1. ASSUME NEW s \in Scrape, ScrapeNext(s) PROVE PanicOnlyOnClosed'
  <2> USE ScrapeAssumption, ReloadAssumption, PreparedAssumption DEF Goto, Lock, Unlock
  <2>1. CASE Snapshot(s)
    BY <2>1 DEF Snapshot
  <2>2. CASE RunCheck(s)
    BY <2>2 DEF RunCheck
  <2>3. CASE Exec(s)
    BY <2>3 DEF Exec
  <2>4. CASE PingLock(s) \/ OpenConnection(s) \/ OpenFails(s) \/
          OpenAbandoned(s) \/ SqlOpens(s) \/ PingReturns(s) \/ ReadConn(s) \/ CheckStmt(s) \/
          Prepare(s) \/ SetConn(s) \/ SetStmt(s)
    BY <2>4 DEF PingLock, OpenConnection, OpenFails, OpenAbandoned, SqlOpens,
         PingReturns, ReadConn, CheckStmt, Prepare, SetConn, SetStmt
  <2> QED BY <1>1, <2>1, <2>2, <2>3, <2>4 DEF ScrapeNext
<1>2. ASSUME NEW r \in Reload, ReloadNext(r) PROVE PanicOnlyOnClosed'
  <2> USE ScrapeAssumption, ReloadAssumption DEF Continue, Lock, Unlock
  <2>1. CASE CloseLock(r)
    BY <2>1 DEF CloseLock
  <2>2. CASE Build(r) \/ ReadTargets(r) \/ CloseStmt(r) \/ ClearQueryConn(r)
          \/ ClosePool(r) \/ UpdateTarget(r)
    BY <2>2 DEF Build, ReadTargets, CloseStmt, ClearQueryConn, ClosePool,
         UpdateTarget
  <2> QED BY <1>2, <2>1, <2>2 DEF ReloadNext
<1>3. CASE UNCHANGED vars
  BY <1>3 DEF vars
<1> QED BY <1>1, <1>2, <1>3 DEF Next

\* Nobody sees the target a reload builds before UpdateTarget.
LEMMA ReloadOrderStep ==
  TypeOK /\ Assigned /\ ReloadOrder /\ [Next]_vars
    => ReloadOrder'
<1> SUFFICES ASSUME TypeOK, Assigned, ReloadOrder, [Next]_vars PROVE
      ReloadOrder'
  OBVIOUS
<1> USE DEF TypeOK, Assigned, ReloadOrder, Closing, Target, Handle,
      ScrapeStep, ReloadStep, svars, rvars, qvars
<1>1. ASSUME NEW s \in Scrape, ScrapeNext(s) PROVE ReloadOrder'
  <2> USE ScrapeAssumption, ReloadAssumption, PreparedAssumption DEF Goto, Lock, Unlock
  <2> QED BY <1>1 DEF ScrapeNext, Snapshot, PingLock, OpenConnection, OpenFails,
       OpenAbandoned, SqlOpens, PingReturns, ReadConn, RunCheck, CheckStmt, Prepare,
       SetConn, SetStmt, Exec
<1>2. ASSUME NEW r \in Reload, ReloadNext(r) PROVE ReloadOrder'
  <2> USE ScrapeAssumption, ReloadAssumption DEF Continue, Lock, Unlock
  <2>1. CASE ReadTargets(r)
    BY <2>1 DEF ReadTargets
  <2>2. CASE CloseLock(r)
    BY <2>2 DEF CloseLock
  <2>3. CASE UpdateTarget(r)
    BY <2>3 DEF UpdateTarget
  <2>4. CASE Build(r) \/ CloseStmt(r) \/ ClearQueryConn(r) \/ ClosePool(r)
    BY <2>4 DEF Build, CloseStmt, ClearQueryConn, ClosePool
  <2> QED BY <1>2, <2>1, <2>2, <2>3, <2>4 DEF ReloadNext
<1>3. CASE UNCHANGED vars
  BY <1>3 DEF vars
<1> QED BY <1>1, <1>2, <1>3 DEF Next

\* UpdateTarget installs a target that is not closed.
LEMMA ClosedOnlyMeanwhileStep ==
  TypeOK /\ Assigned /\ ReloadOrder /\ ClosedOnlyMeanwhile /\ [Next]_vars
    => ClosedOnlyMeanwhile'
<1> SUFFICES ASSUME TypeOK, Assigned, ReloadOrder, ClosedOnlyMeanwhile,
      [Next]_vars PROVE ClosedOnlyMeanwhile'
  OBVIOUS
<1> USE DEF TypeOK, Assigned, ReloadOrder, ClosedOnlyMeanwhile, Closing,
      Target, Handle, ScrapeStep, ReloadStep, svars, rvars, qvars
<1>1. ASSUME NEW s \in Scrape, ScrapeNext(s) PROVE ClosedOnlyMeanwhile'
  <2> USE ScrapeAssumption, ReloadAssumption, PreparedAssumption DEF Goto, Lock, Unlock
  <2> QED BY <1>1 DEF ScrapeNext, Snapshot, PingLock, OpenConnection, OpenFails,
       OpenAbandoned, SqlOpens, PingReturns, ReadConn, RunCheck, CheckStmt, Prepare,
       SetConn, SetStmt, Exec
<1>2. ASSUME NEW r \in Reload, ReloadNext(r) PROVE ClosedOnlyMeanwhile'
  <2> USE ScrapeAssumption, ReloadAssumption DEF Continue, Lock, Unlock
  <2>1. CASE CloseLock(r)
    BY <2>1 DEF CloseLock
  <2>2. CASE UpdateTarget(r)
    BY <2>2 DEF UpdateTarget
  <2>3. CASE Build(r) \/ ReadTargets(r) \/ CloseStmt(r) \/ ClearQueryConn(r)
          \/ ClosePool(r)
    BY <2>3 DEF Build, ReadTargets, CloseStmt, ClearQueryConn, ClosePool
  <2> QED BY <1>2, <2>1, <2>2, <2>3 DEF ReloadNext
<1>3. CASE UNCHANGED vars
  BY <1>3 DEF vars
<1> QED BY <1>1, <1>2, <1>3 DEF Next

LEMMA InitIInv == Init => IInv
<1> SUFFICES ASSUME Init PROVE IInv
  OBVIOUS
<1> USE ScrapeAssumption, ReloadAssumption DEF Init, Target, Handle
<1>1. TypeOK
  BY DEF TypeOK, ScrapeStep, ReloadStep
<1>2. Assigned /\ LockHeld /\ HandlesFresh /\ HandlesAccounted /\ OneHandle
  BY DEF Assigned, LockHeld, HandlesFresh, HandlesAccounted, OneHandle, Holding, Closing, Querying
<1>3. PanicOnlyOnClosed /\ ReloadOrder /\ ClosedOnlyMeanwhile
  BY DEF PanicOnlyOnClosed, ReloadOrder, ClosedOnlyMeanwhile, Panicked, Closing
<1> QED BY <1>1, <1>2, <1>3 DEF IInv

LEMMA Invariance == Spec => []IInv
<1>1. IInv /\ [Next]_vars => IInv'
  BY TypeOKStep, AssignedStep, LockHeldStep, HandlesFreshStep, HandlesAccountedStep,
     OneHandleStep, PanicOnlyOnClosedStep, ReloadOrderStep, ClosedOnlyMeanwhileStep
  DEF IInv
<1> QED BY InitIInv, <1>1, PTL DEF Spec

-----------------------------------------------------------------------------
(* Safety, for every set of scrapes and reloads                            *)

\* The variables keep their types: no target is ever Nil where the code
\* dereferences it.
THEOREM TypeCorrect == Spec => []TypeOK
  BY Invariance, PTL DEF IInv

\* A scrape of a target no reload is closing never panics (query.go:174-191).
THEOREM ScrapesCompatible == Spec => []PanicOnlyOnClosed
  BY Invariance, PTL DEF IInv

\* A closed target is served only until its reload replaces it.
THEOREM ReplacementFollows == Spec => []ClosedOnlyMeanwhile
  BY Invariance, PTL DEF IInv

\* So a panic takes a reload that has not yet replaced what it closes.
THEOREM PanicsAreConfined == Spec => []PanicsConfined
<1>1. IInv => PanicsConfined
  BY DEF IInv, PanicsConfined
<1> QED BY <1>1, Invariance, PTL

\* A target's handle changes only once Close has begun (target.go:43).
THEOREM HandleNeverChanges == Spec => HandleStable
<1>1. IInv /\ [Next]_vars =>
        \A t \in Target : conn[t] # Nil /\ t \notin closed => conn'[t] = conn[t]
  <2> SUFFICES ASSUME TypeOK, Assigned, HandlesFresh, ReloadOrder, [Next]_vars,
                      NEW t \in Target, conn[t] # Nil, t \notin closed
               PROVE  conn'[t] = conn[t]
    BY DEF IInv
  <2> USE DEF TypeOK, Assigned, HandlesFresh, ReloadOrder, Closing
  <2>1. ASSUME NEW s \in Scrape, ScrapeNext(s) PROVE conn'[t] = conn[t]
    BY <2>1 DEF ScrapeNext, Snapshot, PingLock, OpenConnection, OpenFails, OpenAbandoned, SqlOpens,
       PingReturns, ReadConn, RunCheck, CheckStmt, Prepare, SetConn, SetStmt, Exec, Goto
  <2>2. ASSUME NEW r \in Reload, ReloadNext(r) PROVE conn'[t] = conn[t]
    BY <2>2 DEF ReloadNext, Build, ReadTargets, CloseLock, CloseStmt, ClearQueryConn,
       ClosePool, UpdateTarget, Continue
  <2>3. CASE UNCHANGED vars
    BY <2>3 DEF vars
  <2> QED BY <2>1, <2>2, <2>3 DEF Next
<1> QED BY Invariance, <1>1, PTL DEF Spec, HandleStable

NoneClosed == closed = {}

\* Without reloads, scrapes in any number share a target: no panic, no nil
\* statement.
THEOREM SteadyStateSafe ==
  ASSUME Reload = {} PROVE Spec => [](SameHandle /\ StatementPresent)
<1>1. Init => NoneClosed
  BY DEF Init, NoneClosed
<1>2. NoneClosed /\ [Next]_vars => NoneClosed'
  BY DEF NoneClosed, Next, vars, ScrapeNext, Snapshot, PingLock, OpenConnection, OpenFails,
     OpenAbandoned, SqlOpens, PingReturns, ReadConn, RunCheck, CheckStmt, Prepare, SetConn,
     SetStmt, Exec
<1>3. IInv /\ NoneClosed => SameHandle /\ StatementPresent
  BY DEF NoneClosed, IInv, PanicOnlyOnClosed, Panicked, SameHandle, StatementPresent
<1> QED BY Invariance, <1>1, <1>2, <1>3, PTL DEF Spec

\* With no_prepared_statement a query remembers no handle.
NothingCached ==
  /\ \A t \in Target : qconn[t] = Nil
  /\ \A s \in Scrape :
       spc[s] \notin {"stmt", "prepare", "setconn", "setstmt", "exec", "wronghandle", "nilstmt"}

\* With no_prepared_statement, no reload can make a scrape panic.
THEOREM UnpreparedSafe ==
  ASSUME ~ Prepared PROVE Spec => [](SameHandle /\ StatementPresent)
<1>1. Init => NothingCached
  BY DEF Init, NothingCached
<1>2. IInv /\ NothingCached /\ [Next]_vars => NothingCached'
  <2> SUFFICES ASSUME TypeOK, Assigned, NothingCached, [Next]_vars PROVE NothingCached'
    BY DEF IInv
  <2> USE DEF TypeOK, Assigned, NothingCached, qvars
  <2>1. ASSUME NEW s \in Scrape, ScrapeNext(s) PROVE NothingCached'
    BY <2>1 DEF ScrapeNext, Snapshot, PingLock, OpenConnection, OpenFails, OpenAbandoned, SqlOpens,
       PingReturns, ReadConn, RunCheck, CheckStmt, Prepare, SetConn, SetStmt, Exec, Goto
  <2>2. ASSUME NEW r \in Reload, ReloadNext(r) PROVE NothingCached'
    BY <2>2 DEF ReloadNext, Build, ReadTargets, CloseLock, CloseStmt, ClearQueryConn,
       ClosePool, UpdateTarget, svars
  <2>3. CASE UNCHANGED vars
    BY <2>3 DEF vars, svars
  <2> QED BY <2>1, <2>2, <2>3 DEF Next
<1>3. NothingCached => SameHandle /\ StatementPresent
  BY DEF NothingCached, SameHandle, StatementPresent
<1> QED BY Invariance, <1>1, <1>2, <1>3, PTL DEF Spec

-----------------------------------------------------------------------------
(* Reloads in turn                                                         *)

\* As long as none overlap, one reload runs at a time, on the current target.
InTurn ==
  ~ overlapped =>
    /\ \A r, o \in Reload : rpc[r] \notin {"load", "done"} /\ rpc[o] \notin {"load", "done"} => r = o
    /\ \A r \in Reload : rpc[r] \in Closing \cup {"close", "update"} => rold[r] = current

\* Then every scrape works on a target in use or on one a reload has closed.
Attended ==
  ~ overlapped =>
    \A s \in Scrape : spc[s] # "start" => starget[s] \in closed \cup {current}

\* Build notes when a reload starts beside another.
LEMMA InTurnStep ==
  TypeOK /\ InTurn /\ [Next]_vars => InTurn'
<1> SUFFICES ASSUME TypeOK, InTurn, [Next]_vars PROVE InTurn'
  OBVIOUS
<1> USE DEF TypeOK, InTurn, Closing, ReloadStep
<1>1. ASSUME NEW s \in Scrape, ScrapeNext(s) PROVE InTurn'
  BY <1>1 DEF ScrapeNext, Snapshot, PingLock, OpenConnection, OpenFails, OpenAbandoned, SqlOpens,
     PingReturns, ReadConn, RunCheck, CheckStmt, Prepare, SetConn, SetStmt, Exec, rvars
<1>2. ASSUME NEW r \in Reload, ReloadNext(r) PROVE InTurn'
  <2> USE DEF Continue
  <2>1. CASE Build(r)
    <3>1. ~ overlapped' => ~ overlapped /\ \A o \in Reload : rpc[o] \in {"load", "done"}
      BY <2>1 DEF Build
    <3>2. /\ \A o \in Reload \ {r} : rpc'[o] = rpc[o]
          /\ rpc'[r] \in {"built", "done"}
      BY <2>1 DEF Build
    <3> QED BY <3>1, <3>2
  <2>2. CASE UpdateTarget(r)
    BY <2>2 DEF UpdateTarget
  <2>3. CASE ReadTargets(r)
    BY <2>3 DEF ReadTargets
  <2>4. CASE CloseLock(r) \/ CloseStmt(r) \/ ClearQueryConn(r) \/ ClosePool(r)
    BY <2>4 DEF CloseLock, CloseStmt, ClearQueryConn, ClosePool
  <2> QED BY <1>2, <2>1, <2>2, <2>3, <2>4 DEF ReloadNext
<1>3. CASE UNCHANGED vars
  BY <1>3 DEF vars, rvars
<1> QED BY <1>1, <1>2, <1>3 DEF Next

\* A reload on its own replaces the target it has closed.
LEMMA AttendedStep ==
  TypeOK /\ ReloadOrder /\ InTurn /\ Attended /\ [Next]_vars => Attended'
<1> SUFFICES ASSUME TypeOK, ReloadOrder, InTurn, Attended, [Next]_vars PROVE Attended'
  OBVIOUS
<1> USE DEF TypeOK, ReloadOrder, InTurn, Attended, Closing, ScrapeStep
<1>1. ASSUME NEW s \in Scrape, ScrapeNext(s) PROVE Attended'
  <2> USE DEF Goto, rvars
  <2>1. CASE Snapshot(s)
    BY <2>1 DEF Snapshot
  <2>2. CASE ~ Snapshot(s)
    BY <1>1, <2>2 DEF ScrapeNext, PingLock, OpenConnection, OpenFails, OpenAbandoned, SqlOpens,
       PingReturns, ReadConn, RunCheck, CheckStmt, Prepare, SetConn, SetStmt, Exec
  <2> QED BY <2>1, <2>2
<1>2. ASSUME NEW r \in Reload, ReloadNext(r) PROVE Attended'
  <2> USE DEF Continue, svars
  <2>1. CASE UpdateTarget(r)
    <3>1. ~ overlapped => current \in closed
      BY <2>1 DEF UpdateTarget
    <3> QED BY <2>1, <3>1 DEF UpdateTarget
  <2>2. CASE Build(r) \/ ReadTargets(r) \/ CloseLock(r) \/ CloseStmt(r) \/ ClearQueryConn(r)
          \/ ClosePool(r)
    BY <2>2 DEF Build, ReadTargets, CloseLock, CloseStmt, ClearQueryConn, ClosePool
  <2> QED BY <1>2, <2>1, <2>2 DEF ReloadNext
<1>3. CASE UNCHANGED vars
  BY <1>3 DEF vars, svars, rvars
<1> QED BY <1>1, <1>2, <1>3 DEF Next

LEMMA TurnInvariance == Spec => [](IInv /\ InTurn /\ Attended)
<1>1. Init => InTurn /\ Attended
  BY DEF Init, InTurn, Attended, Closing
<1>2. IInv /\ InTurn /\ Attended /\ [Next]_vars => InTurn' /\ Attended'
  BY InTurnStep, AttendedStep DEF IInv
<1> QED BY Invariance, <1>1, <1>2, PTL DEF Spec

\* Until two reloads overlap, every target that is replaced has been closed
\* (reload.go:65).
THEOREM ReplacedAreClosed == Spec => ClosedBeforeReplaced
<1>1. IInv /\ InTurn /\ [Next]_vars => (current' # current /\ ~ overlapped => current \in closed)
  <2> SUFFICES ASSUME TypeOK, ReloadOrder, InTurn, [Next]_vars, current' # current, ~ overlapped
               PROVE  current \in closed
    BY DEF IInv
  <2>1. PICK r \in Reload : UpdateTarget(r)
    BY DEF Next, vars, ScrapeNext, Snapshot, PingLock, OpenConnection, OpenFails,
       OpenAbandoned, SqlOpens, PingReturns, ReadConn, RunCheck, CheckStmt, Prepare, SetConn,
       SetStmt, Exec, ReloadNext, Build, ReadTargets, CloseLock, CloseStmt,
       ClearQueryConn, ClosePool
  <2> QED BY <2>1 DEF UpdateTarget, Continue, ReloadOrder, InTurn
<1> QED BY TurnInvariance, <1>1, PTL DEF Spec, ClosedBeforeReplaced

\* No pool is opened twice for a target or lost by it (target.go:197-210), and
\* no open pool is out of reach of every later Close but one that was opened
\* for a scrape that had left (sql.go:69), one of a target that a reload had
\* closed already (reload.go:66), or one of a target that overlapping reloads
\* replaced unclosed.
THEOREM NoPoolLost == Spec => []PoolsAccounted
<1>1. IInv /\ Attended => PoolsAccounted
  <2> SUFFICES ASSUME TypeOK, HandlesFresh, HandlesAccounted, Assigned, Attended
               PROVE  LeaksConfined
    BY DEF IInv, PoolsAccounted
  <2> SUFFICES ASSUME NEW h \in Handle, Leaked(h), spc[h] # "orphaned", ~ overlapped
               PROVE  starget[h] \in closed
    BY DEF LeaksConfined
  <2>1. spc[h] # "start"
    BY DEF Leaked, HandlesFresh, Handle
  <2>2. starget[h] \in Target /\ conn[starget[h]] = h
    BY <2>1 DEF Leaked, HandlesAccounted, Assigned, Handle
  <2>3. starget[h] # current
    BY <2>2 DEF Leaked
  <2> QED BY <2>1, <2>3 DEF Attended, Handle
<1> QED BY <1>1, TurnInvariance, PTL

-----------------------------------------------------------------------------
(* Refinement                                                              *)

\* Whatever scrapes and reloads do, targets treat pools as PoolLedger says.
THEOREM ImplementsLedger == Spec => LedgerSpec
<1> USE DEF Ledger!lvars
<1>1. Init => Ledger!LInit
  BY DEF Init, Ledger!LInit
<1>2. IInv /\ [Next]_vars => [Ledger!LNext]_<<conn, handle>>
  <2> SUFFICES ASSUME TypeOK, Assigned, HandlesFresh, HandlesAccounted, [Next]_vars
               PROVE  [Ledger!LNext]_<<conn, handle>>
    BY DEF IInv
  <2> USE DEF TypeOK, Handle
  <2>1. ASSUME NEW s \in Scrape, OpenConnection(s) PROVE Ledger!Acquire(starget[s], s)
    BY <2>1 DEF OpenConnection, Goto, HandlesFresh, Ledger!Acquire
  <2>2. ASSUME NEW s \in Scrape, SqlOpens(s)
        PROVE  Ledger!Orphan(s) \/ UNCHANGED <<conn, handle>>
    BY <2>2 DEF SqlOpens, Goto, HandlesFresh, Ledger!Orphan
  <2>3. ASSUME NEW r \in Reload, ClosePool(r)
        PROVE  Ledger!Release(rold[r]) \/ UNCHANGED <<conn, handle>>
    <3> rold[r] \in Target
      BY <2>3 DEF ClosePool, Continue, Assigned, Closing
    <3>1. CASE conn[rold[r]] = Nil
      BY <2>3, <3>1, ScrapeAssumption DEF ClosePool
    <3>2. CASE conn[rold[r]] # Nil
      BY <2>3, <3>2 DEF ClosePool, Ledger!Release
    <3> QED BY <3>1, <3>2
  <2>4. ASSUME NEW s \in Scrape, OpenConnection(s) PROVE starget[s] \in Target
    BY <2>4 DEF OpenConnection, Goto, Assigned
  <2>5. ASSUME NEW r \in Reload, ClosePool(r) PROVE rold[r] \in Target
    BY <2>5 DEF ClosePool, Continue, Assigned, Closing
  <2>6. ASSUME NEW s \in Scrape, ScrapeNext(s), ~ OpenConnection(s), ~ SqlOpens(s)
        PROVE  UNCHANGED <<conn, handle>>
    BY <2>6 DEF ScrapeNext, Snapshot, PingLock, OpenFails, OpenAbandoned, PingReturns, ReadConn,
       RunCheck, CheckStmt, Prepare, SetConn, SetStmt, Exec
  <2>7. ASSUME NEW r \in Reload, ReloadNext(r), ~ ClosePool(r)
        PROVE  UNCHANGED <<conn, handle>>
    BY <2>7 DEF ReloadNext, Build, ReadTargets, CloseLock, CloseStmt, ClearQueryConn,
       UpdateTarget
  <2>8. CASE UNCHANGED vars
    BY <2>8 DEF vars
  <2> QED
    BY <2>1, <2>2, <2>3, <2>4, <2>5, <2>6, <2>7, <2>8 DEF Next, Ledger!LNext
<1> QED BY Invariance, <1>1, <1>2, PTL DEF Spec, LedgerSpec, Ledger!LSpec
=============================================================================
