----------------------------- MODULE TargetHandle -----------------------------
(***************************************************************************)
(* The life of a target's database handle (sql.DB) and of the prepared     *)
(* statement a query caches on it, under concurrent scrapes and            *)
(* configuration reloads.                                                  *)
(*                                                                         *)
(* A scrape is one goroutine that runs target.Collect: it takes the target *)
(* from the exporter, opens and pings the handle under target.mu, reads    *)
(* target.conn after the lock is released, and runs a query on it.  A      *)
(* reload builds a new target object, closes the old one and replaces it.  *)
(* Query.run and Query.Close touch q.conn and q.stmt without a common      *)
(* lock, so each of their loads and stores is a step of its own, in        *)
(* program order.                                                          *)
(*                                                                         *)
(* The exporter holds one target, the target one query: targets share      *)
(* nothing with each other, and neither do the queries of a target.  A     *)
(* target object is named after the reload that built it, a handle after   *)
(* the scrape that opened it: a reload builds one, a scrape opens at most  *)
(* one.                                                                    *)
(***************************************************************************)
CONSTANTS
  Scrape,   \* runs of target.Collect
  Reload,   \* runs of Reload()
  Initial,  \* the target object NewExporter builds
  Prepared, \* FALSE models no_prepared_statement: true
  Nil       \* a nil pointer, an unlocked mutex

ASSUME ScrapeAssumption == Nil \notin Scrape /\ Scrape \cap Reload = {}
ASSUME ReloadAssumption == Nil \notin Reload /\ Initial \notin Reload /\ Initial # Nil
ASSUME PreparedAssumption == Prepared \in BOOLEAN

VARIABLES
  current,    \* exporter.targets
  mu,         \* target.mu, the process that holds it
  conn,       \* target.conn
  qconn,      \* Query.conn
  qstmt,      \* Query.stmt, by the handle it was prepared on
  handle,     \* the sql.DB objects
  closed,     \* history: the targets on which Close has begun
  spc,        \* where each scrape is
  starget,    \* the target a scrape works on
  sconn,      \* the handle a scrape passes to its query
  rpc,        \* where each reload is
  rold,       \* the target a reload closes
  overlapped  \* history: a reload has begun while another was under way

svars == <<spc, starget, sconn>>
rvars == <<rpc, rold, overlapped>>
qvars == <<qconn, qstmt>>
vars == <<current, mu, conn, handle, closed, qvars, svars, rvars>>

Target == Reload \cup {Initial}
Handle == Scrape

ScrapeStep == {"start", "ping", "locked", "pinging", "up", "run", "stmt",
               "prepare", "setconn", "setstmt", "exec", "done",
               "left", "orphaned", "wronghandle", "nilstmt"}
ReloadStep == {"load", "built", "close", "stmt", "clearconn", "pool",
               "update", "done"}

TypeOK ==
  /\ current \in Target
  /\ mu \in [Target -> Scrape \cup Reload \cup {Nil}]
  /\ conn \in [Target -> Handle \cup {Nil}]
  /\ qconn \in [Target -> Handle \cup {Nil}]
  /\ qstmt \in [Target -> Handle \cup {Nil}]
  /\ handle \in [Handle -> {"none", "open", "closed"}]
  /\ closed \subseteq Target
  /\ spc \in [Scrape -> ScrapeStep]
  /\ starget \in [Scrape -> Target \cup {Nil}]
  /\ sconn \in [Scrape -> Handle \cup {Nil}]
  /\ rpc \in [Reload -> ReloadStep]
  /\ rold \in [Reload -> Target \cup {Nil}]
  /\ overlapped \in BOOLEAN

Init ==
  /\ current = Initial
  /\ mu = [t \in Target |-> Nil]
  /\ conn = [t \in Target |-> Nil]
  /\ qconn = [t \in Target |-> Nil]
  /\ qstmt = [t \in Target |-> Nil]
  /\ handle = [h \in Handle |-> "none"]
  /\ closed = {}
  /\ spc = [s \in Scrape |-> "start"]
  /\ starget = [s \in Scrape |-> Nil]
  /\ sconn = [s \in Scrape |-> Nil]
  /\ rpc = [r \in Reload |-> "load"]
  /\ rold = [r \in Reload |-> Nil]
  /\ overlapped = FALSE

Goto(s, from, to) == spc[s] = from /\ spc' = [spc EXCEPT ![s] = to]
Continue(r, from, to) == rpc[r] = from /\ rpc' = [rpc EXCEPT ![r] = to]

Lock(t, p) == mu[t] = Nil /\ mu' = [mu EXCEPT ![t] = p]
Unlock(t) == mu' = [mu EXCEPT ![t] = Nil]

-----------------------------------------------------------------------------
(* A scrape: target.Collect, target.ping, Query.run                        *)

\* WithContext copies e.targets; Gather starts a goroutine per target of it.
Snapshot(s) ==
  /\ Goto(s, "start", "ping")
  /\ starget' = [starget EXCEPT ![s] = current]
  /\ UNCHANGED <<current, mu, conn, handle, closed, qvars, sconn, rvars>>

\* Mutant: the lock is taken without waiting for its holder.
PingLockShared(s) ==
  /\ Goto(s, "ping", IF conn[starget[s]] = Nil THEN "locked" ELSE "pinging")
  /\ mu' = [mu EXCEPT ![starget[s]] = s]
  /\ UNCHANGED <<current, conn, handle, closed, qvars, starget, sconn, rvars>>

PingLock(s) ==
  /\ Goto(s, "ping", IF conn[starget[s]] = Nil THEN "locked" ELSE "pinging")
  /\ Lock(starget[s], s)
  /\ UNCHANGED <<current, conn, handle, closed, qvars, starget, sconn, rvars>>

\* OpenConnection returns a handle; the first ping follows.
OpenConnection(s) ==
  /\ Goto(s, "locked", "pinging")
  /\ handle' = [handle EXCEPT ![s] = "open"]
  /\ conn' = [conn EXCEPT ![starget[s]] = s]
  /\ UNCHANGED <<current, mu, closed, qvars, starget, sconn, rvars>>

\* The DSN cannot be parsed or the driver refuses it.
OpenFails(s) ==
  /\ Goto(s, "locked", "done")
  /\ Unlock(starget[s])
  /\ UNCHANGED <<current, conn, handle, closed, qvars, starget, sconn, rvars>>

\* The context closes before sql.Open is done: the scrape ends, the goroutine
\* that runs sql.Open does not.
OpenAbandoned(s) ==
  /\ Goto(s, "locked", "left")
  /\ Unlock(starget[s])
  /\ UNCHANGED <<current, conn, handle, closed, qvars, starget, sconn, rvars>>

\* That goroutine's sql.Open returns, at any time: a pool that nothing refers
\* to, or an error.
SqlOpens(s) ==
  /\ \/ Goto(s, "left", "done") /\ UNCHANGED handle
     \/ /\ Goto(s, "left", "orphaned")
        /\ handle' = [handle EXCEPT ![s] = "open"]
  /\ UNCHANGED <<current, mu, conn, closed, qvars, starget, sconn, rvars>>

\* Mutant: an early return that does not unlock.
PingReturnsLocked(s) ==
  /\ \/ Goto(s, "pinging", "up") /\ Unlock(starget[s])
     \/ Goto(s, "pinging", "done") /\ UNCHANGED mu
  /\ UNCHANGED <<current, conn, handle, closed, qvars, starget, sconn, rvars>>

\* ping() returns, by defer it unlocks: the target is up, or it is down (a
\* failed ping, a closed context) and its collectors are skipped.  The handle
\* stays in t.conn either way.
PingReturns(s) ==
  /\ Goto(s, "pinging", "up") \/ Goto(s, "pinging", "done")
  /\ Unlock(starget[s])
  /\ UNCHANGED <<current, conn, handle, closed, qvars, starget, sconn, rvars>>

\* conn := t.conn, after the lock is released.
ReadConn(s) ==
  /\ Goto(s, "up", "run")
  /\ sconn' = [sconn EXCEPT ![s] = conn[starget[s]]]
  /\ UNCHANGED <<current, mu, conn, handle, closed, qvars, starget, rvars>>

\* Query.Collect and Query.run: a closed context or a nil handle is an error,
\* another handle than q.conn a panic.  q.conn is loaded once: the compiler
\* merges the two loads of line 174.
RunCheck(s) ==
  LET cached == qconn[starget[s]] IN
  /\ \/ Goto(s, "run", "done")
     \/ /\ Goto(s, "run", "wronghandle")
        /\ sconn[s] # Nil /\ cached # Nil /\ cached # sconn[s]
     \/ /\ Goto(s, "run", IF Prepared THEN "stmt" ELSE "done")
        /\ sconn[s] # Nil /\ cached \in {Nil, sconn[s]}
  /\ UNCHANGED <<current, mu, conn, handle, closed, qvars, starget, sconn, rvars>>

CheckStmt(s) ==
  /\ Goto(s, "stmt", IF qstmt[starget[s]] = Nil THEN "prepare" ELSE "exec")
  /\ UNCHANGED <<current, mu, conn, handle, closed, qvars, starget, sconn, rvars>>

\* PrepareContext fails on a closed handle and may fail on an open one.
Prepare(s) ==
  /\ \/ Goto(s, "prepare", "setconn") /\ handle[sconn[s]] = "open"
     \/ Goto(s, "prepare", "done")
  /\ UNCHANGED <<current, mu, conn, handle, closed, qvars, starget, sconn, rvars>>

SetConn(s) ==
  /\ Goto(s, "setconn", "setstmt")
  /\ qconn' = [qconn EXCEPT ![starget[s]] = sconn[s]]
  /\ UNCHANGED <<current, mu, conn, handle, closed, qstmt, starget, sconn, rvars>>

SetStmt(s) ==
  /\ Goto(s, "setstmt", "exec")
  /\ qstmt' = [qstmt EXCEPT ![starget[s]] = sconn[s]]
  /\ UNCHANGED <<current, mu, conn, handle, closed, qconn, starget, sconn, rvars>>

\* q.stmt.QueryContext loads q.stmt again; a nil one is dereferenced.
Exec(s) ==
  /\ Goto(s, "exec", IF qstmt[starget[s]] = Nil THEN "nilstmt" ELSE "done")
  /\ UNCHANGED <<current, mu, conn, handle, closed, qvars, starget, sconn, rvars>>

-----------------------------------------------------------------------------
(* A reload: Reload, reloadTarget, target.Close                            *)

\* cfg.Load and NewTarget; an error of either ends the reload.  Nothing keeps
\* those of /reload from overlapping; the SIGHUP goroutine runs one at a time.
Build(r) ==
  /\ overlapped' = (overlapped \/ \E o \in Reload : rpc[o] \notin {"load", "done"})
  /\ Continue(r, "load", "built") \/ Continue(r, "load", "done")
  /\ UNCHANGED <<current, mu, conn, handle, closed, qvars, svars, rold>>

\* Mutant: the old targets are replaced and never closed.
ReadTargetsOnly(r) ==
  /\ Continue(r, "built", "update")
  /\ rold' = [rold EXCEPT ![r] = current]
  /\ UNCHANGED <<current, mu, conn, handle, closed, qvars, svars, overlapped>>

\* closeTargets(e.Targets())
ReadTargets(r) ==
  /\ Continue(r, "built", "close")
  /\ rold' = [rold EXCEPT ![r] = current]
  /\ UNCHANGED <<current, mu, conn, handle, closed, qvars, svars, overlapped>>

CloseLock(r) ==
  /\ Continue(r, "close", "stmt")
  /\ Lock(rold[r], r)
  /\ closed' = closed \cup {rold[r]}
  /\ UNCHANGED <<current, conn, handle, qvars, svars, rold, overlapped>>

\* Query.Close: the statement, if one is cached, is closed and forgotten ...
CloseStmt(r) ==
  LET t == rold[r] IN
  /\ Continue(r, "stmt", IF qstmt[t] = Nil THEN "pool" ELSE "clearconn")
  /\ qstmt' = [qstmt EXCEPT ![t] = Nil]
  /\ UNCHANGED <<current, mu, conn, handle, closed, qconn, svars, rold, overlapped>>

\* ... and then the handle it was prepared on.
ClearQueryConn(r) ==
  /\ Continue(r, "clearconn", "pool")
  /\ qconn' = [qconn EXCEPT ![rold[r]] = Nil]
  /\ UNCHANGED <<current, mu, conn, handle, closed, qstmt, svars, rold, overlapped>>

\* Mutant: the handle is forgotten without being closed.
ClosePoolForgets(r) ==
  LET t == rold[r] IN
  /\ Continue(r, "pool", "update")
  /\ conn' = [conn EXCEPT ![t] = Nil]
  /\ Unlock(t)
  /\ UNCHANGED <<current, handle, closed, qvars, svars, rold, overlapped>>

\* The rest of target.Close: the pool, if one is open, is closed.
ClosePool(r) ==
  LET t == rold[r] IN
  /\ Continue(r, "pool", "update")
  /\ handle' = [h \in Handle |-> IF h = conn[t] THEN "closed" ELSE handle[h]]
  /\ conn' = [conn EXCEPT ![t] = Nil]
  /\ Unlock(t)
  /\ UNCHANGED <<current, closed, qvars, svars, rold, overlapped>>

\* Mutant: the exporter keeps the targets that were closed.
UpdateTargetLost(r) ==
  /\ Continue(r, "update", "done")
  /\ UNCHANGED <<current, mu, conn, handle, closed, qvars, svars, rold, overlapped>>

\* Mutant: the error result of NewTarget is installed.
UpdateTargetNil(r) ==
  /\ Continue(r, "update", "done")
  /\ current' = Nil
  /\ UNCHANGED <<mu, conn, handle, closed, qvars, svars, rold, overlapped>>

UpdateTarget(r) ==
  /\ Continue(r, "update", "done")
  /\ current' = r
  /\ UNCHANGED <<mu, conn, handle, closed, qvars, svars, rold, overlapped>>

-----------------------------------------------------------------------------
ScrapeNext(s) ==
  \/ Snapshot(s) \/ PingLock(s) \/ OpenConnection(s) \/ OpenFails(s)
  \/ OpenAbandoned(s) \/ SqlOpens(s) \/ PingReturns(s) \/ ReadConn(s) \/ RunCheck(s)
  \/ CheckStmt(s) \/ Prepare(s) \/ SetConn(s) \/ SetStmt(s) \/ Exec(s)

ReloadNext(r) ==
  \/ Build(r) \/ ReadTargets(r) \/ CloseLock(r) \/ CloseStmt(r)
  \/ ClearQueryConn(r) \/ ClosePool(r) \/ UpdateTarget(r)

\* A panic in a collector goroutine is not recovered: the process is gone.
Panicked(s) == spc[s] \in {"wronghandle", "nilstmt"}
Crashed == \E s \in Scrape : Panicked(s)

Next ==
  /\ ~ Crashed
  /\ \/ \E s \in Scrape : ScrapeNext(s)
     \/ \E r \in Reload : ReloadNext(r)

Spec == Init /\ [][Next]_vars

\* Database calls return (the driver answers or the context closes), and the
\* Go scheduler and sync.Mutex starve nobody.  Nothing makes a request or a
\* reload arrive.
Fairness ==
  /\ \A s \in Scrape :
       /\ WF_vars(~ Crashed /\ ScrapeNext(s) /\ ~ Snapshot(s))
       /\ SF_vars(~ Crashed /\ PingLock(s))
  /\ \A r \in Reload :
       /\ WF_vars(~ Crashed /\ ReloadNext(r) /\ ~ Build(r))
       /\ SF_vars(~ Crashed /\ CloseLock(r))

FairSpec == Spec /\ Fairness

-----------------------------------------------------------------------------
(* Properties                                                              *)

\* target.mu lets one scrape create the handle (target.go:197): what a target
\* holds is open and its alone, and an open pool has the target it was opened
\* for, or was opened for a scrape that had left (sql.go:69).
HandlesAccounted ==
  /\ \A t \in Target : conn[t] # Nil => handle[conn[t]] = "open"
  /\ \A t, u \in Target : conn[t] = conn[u] /\ conn[t] # Nil => t = u
  /\ \A h \in Handle :
       handle[h] = "open" /\ spc[h] # "orphaned" => conn[starget[h]] = h

\* An open pool that nobody is going to close any more: no target holds it
\* that is in use or that a reload is about to close.
Leaked(h) ==
  /\ handle[h] = "open"
  /\ \A t \in Target : conn[t] = h =>
       /\ t # current
       /\ \A r \in Reload : rold[r] = t =>
            rpc[r] \notin {"close", "stmt", "clearconn", "pool"}

\* reload.go:65 closes the old targets to release their pools.  These are the
\* ways in which a pool stays open all the same: it was opened for a scrape
\* that had left; by a scrape that a reload had overtaken, for a target that was
\* closed before; or for a target that overlapping reloads replace unclosed.
LeaksConfined ==
  \A h \in Handle : Leaked(h) =>
    spc[h] = "orphaned" \/ starget[h] \in closed \/ overlapped

\* Both together: whatever scrapes and reloads do, a pool is never lost in
\* any way but the three.
PoolsAccounted == HandlesAccounted /\ LeaksConfined

\* The check of query.go:174 and the statement of query.go:191 can only fail
\* a scrape of a target that a reload has begun to close: concurrent scrapes
\* alone never break each other, whatever target they see.
PanicOnlyOnClosed ==
  \A s \in Scrape : Panicked(s) => starget[s] \in closed

\* Requests are served from closed targets only while the reload that closed
\* them is still on its way to replace them.
ClosedOnlyMeanwhile ==
  current \in closed =>
    \E r \in Reload :
      /\ rold[r] = current
      /\ rpc[r] \in {"stmt", "clearconn", "pool", "update"}

\* A panic ends the process for everybody; both halves keep it to the scrapes
\* that a reload has overtaken.
PanicsConfined == PanicOnlyOnClosed /\ ClosedOnlyMeanwhile

\* reload.go:65: old targets are closed before they are replaced, so that none
\* keeps a pool; reloads that overlap can replace a target nobody has closed.
ClosedBeforeReplaced == [][current' # current /\ ~ overlapped => current \in closed]_vars

\* The panic of query.go:175 is an assertion: the handle is always the same.
SameHandle == \A s \in Scrape : spc[s] # "wronghandle"

\* target.go:168: with target.mu held by Close, concurrency is taken care of;
\* a scrape never finds the statement it runs gone.
StatementPresent == \A s \in Scrape : spc[s] # "nilstmt"

\* The handle "never changes once instantiated" (target.go:43): it is so until
\* Close begins.
HandleStable ==
  [][\A t \in Target : conn[t] # Nil /\ t \notin closed => conn'[t] = conn[t]]_vars

\* Scrapes and reloads that have begun end, and none of them waits for ever for
\* target.mu (target.go:169, 198), however it is contended: since each of them
\* comes once, there is a time when no one is under way any more (but for an
\* sql.Open that a scrape has left behind).
AllEnd ==
  <>[](\/ Crashed
       \/ /\ \A s \in Scrape : spc[s] \in {"start", "left", "done", "orphaned"}
          /\ \A r \in Reload : rpc[r] \in {"load", "done"})

\* Targets keep the promises of PoolLedger.
Ledger == INSTANCE PoolLedger WITH Target <- Target, Handle <- Handle, Nil <- Nil, conn <- conn, handle <- handle
LedgerSpec == Ledger!LSpec

=============================================================================
