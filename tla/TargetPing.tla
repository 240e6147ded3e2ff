------------------------------ MODULE TargetPing ------------------------------
(***************************************************************************)
(* target.ping in time: how a target is found up or down.  A caller holds  *)
(* target.mu while it opens the pool, pings the database and decides       *)
(* whether the last ping is recent enough.  A pool is named by the TLS     *)
(* certificate it uses; MySQL certificates are registered by host, once in *)
(* the life of the process.                                                *)
(*                                                                         *)
(* Whoever calls ping (Warmup: a scrape, or the warmup of a target) puts   *)
(* itself at "lock" with a target and a deadline, and finds itself at "up" *)
(* or "down".  Time is in ticks.  Nothing takes time but the database, and *)
(* Close, which holds target.mu too: see Tick in Warmup.                   *)
(***************************************************************************)
EXTENDS Integers

CONSTANTS
  Target,
  Caller,      \* goroutines that call ping
  Host,        \* the host and port of each target's DSN
  Certificate, \* the tls-ca, tls-cert and tls-key of each target's DSN
  Plain,       \* no custom TLS
  EnablePing,  \* the targets whose job has enable_ping
  Settings,    \* the configurations considered
  MaxTime,     \* bound: ticks
  MaxUpsets,   \* bound: what happens to databases
  Nil

ASSUME TargetAssumption == Host \in [Target -> {Host[t] : t \in Target}] /\ EnablePing \subseteq Target
ASSUME CertificateAssumption ==
  /\ Certificate \in [Target -> {Certificate[t] : t \in Target}]
  /\ \A t \in Target : Certificate[t] \notin {Nil, "unused", "failed"}

\* target.Close, where it holds target.mu.
Closer == "Close"

ASSUME CallerAssumption == Nil \notin Caller /\ Closer \notin Caller \cup {Nil}
ASSUME SettingsAssumption ==
  Settings \subseteq [targets : SUBSET Target, openable : SUBSET Target, maxConns : Int, maxIdle : Nat, interval : Nat, timeout : Nat, offset : Nat \ {0}, delay : Nat]
ASSUME BoundsAssumption == MaxTime \in Nat /\ MaxUpsets \in Nat

VARIABLES
  global,   \* the global section, the targets of the configuration and those whose DSN a driver accepts
  now,
  db,       \* what the database of each target does with a connection
  tls,      \* onceMap and the registry of the MySQL driver, by host
  mu,       \* target.mu, the caller that holds it, or Close
  conn,     \* target.conn
  stale,    \* idle connections of the pool on which the driver returns ErrBadConn
  lastPing, \* target.lastPingTime
  call,     \* the local state of each caller
  upsets,   \* what has happened to databases so far
  answered, \* history: when the database last answered a ping
  steady    \* history: callers whose database has been up since they took the lock

pool == <<conn, stale>>
pingHistory == <<answered, steady>>
pingVars == <<global, now, db, upsets, tls, mu, pool, lastPing, call, pingHistory>>

Never == -1
NoDeadline == MaxTime + 1

Call == [at : {"idle", "lock", "open", "first", "again", "up", "down", "collecting", "delay", "ended"},
         on : Target \cup {Nil}, deadline : Nat, tries : Int, began : Never .. MaxTime]

PingTypeOK ==
  /\ global \in Settings
  /\ now \in 0 .. MaxTime
  /\ db \in [Target -> {"up", "down", "hung"}] /\ upsets \in 0 .. MaxUpsets
  /\ tls \in [{Host[t] : t \in Target} -> {"unused", "failed"} \cup {Certificate[t] : t \in Target}]
  /\ conn \in [Target -> {Nil} \cup {Certificate[t] : t \in Target}]
  /\ mu \in [Target -> Caller \cup {Nil, Closer}]
  /\ stale \in [Target -> Nat]
  /\ lastPing \in [Target -> Never .. MaxTime] /\ answered \in [Target -> Never .. MaxTime]
  /\ call \in [Caller -> Call]
  /\ steady \subseteq Caller

PingInit ==
  /\ global \in Settings
  /\ now = 0
  /\ db \in [Target -> {"up", "down", "hung"}] /\ upsets = 0
  /\ tls = [h \in {Host[t] : t \in Target} |-> "unused"]
  /\ mu = [t \in Target |-> Nil]
  /\ conn = [t \in Target |-> Nil] /\ stale = [t \in Target |-> 0]
  /\ lastPing = [t \in Target |-> Never] /\ answered = [t \in Target |-> Never]
  /\ steady = {}

Expired(p) == call[p].deadline <= now

At(p, steps) == call[p].at \in steps

Goto(p, from, to) == call[p].at = from /\ call' = [call EXCEPT ![p].at = to]

\* ping returns, and unlocks by defer.
Return(p, result) ==
  /\ call' = [call EXCEPT ![p].at = result, ![p].tries = 0, ![p].began = Never]
  /\ mu' = [mu EXCEPT ![call[p].on] = Nil]

\* The error of the context, if it is closed, is the last thing ping looks at.
Verdict(p) == IF Expired(p) THEN "down" ELSE "up"

\* The last ping was not within the interval, or there was none.
Due(last) == global.interval = 0 \/ last = Never \/ now - last > global.interval

\* Mutant: one ping too few to get rid of the bad connections.
CheckFewer(p, last) ==
  LET t == call[p].on IN
  IF ~ Expired(p) /\ t \in EnablePing /\ Due(last)
  THEN /\ call' = [call EXCEPT ![p].at = "again", ![p].tries = global.maxConns, ![p].began = now]
       /\ mu' = [mu EXCEPT ![t] = p]
  ELSE Return(p, Verdict(p))

\* With a handle and an open context, ping again if that is due; the new ping
\* counts from here.
Check(p, last) ==
  LET t == call[p].on IN
  IF ~ Expired(p) /\ t \in EnablePing /\ Due(last)
  THEN /\ call' = [call EXCEPT ![p].at = "again", ![p].tries = global.maxConns + 1, ![p].began = now]
       /\ mu' = [mu EXCEPT ![t] = p]
  ELSE Return(p, Verdict(p))

-----------------------------------------------------------------------------
PingLock(p) ==
  LET t == call[p].on IN
  /\ At(p, {"lock"}) /\ mu[t] = Nil
  /\ IF conn[t] # Nil THEN Check(p, lastPing[t])
     ELSE call' = [call EXCEPT ![p].at = "open"] /\ mu' = [mu EXCEPT ![t] = p]
  /\ steady' = IF db[t] = "up" THEN steady \cup {p} ELSE steady \ {p}
  /\ UNCHANGED <<global, now, db, upsets, tls, pool, lastPing, answered>>

CustomTLS(t) == Certificate[t] # Plain

\* once.Do runs registerMySQLTLSConfig for the first target of the host ...
Register(p) ==
  LET t == call[p].on IN
  /\ At(p, {"open"}) /\ CustomTLS(t) /\ tls[Host[t]] = "unused"
  /\ tls' = [tls EXCEPT ![Host[t]] = Certificate[t]]
  /\ UNCHANGED <<global, now, db, upsets, mu, pool, lastPing, call, pingHistory>>

\* ... whose files may be missing or wrong.
RegisterFails(p) ==
  LET t == call[p].on IN
  /\ At(p, {"open"}) /\ CustomTLS(t) /\ tls[Host[t]] = "unused"
  /\ tls' = [tls EXCEPT ![Host[t]] = "failed"]
  /\ Return(p, "down")
  /\ UNCHANGED <<global, now, db, upsets, pool, lastPing, pingHistory>>

\* From then on handleMySQLTLSConfig returns no error, and sql.Open finds no
\* configuration of that name.
OpenUnregistered(p) ==
  LET t == call[p].on IN
  /\ At(p, {"open"}) /\ CustomTLS(t) /\ tls[Host[t]] = "failed"
  /\ Return(p, "down")
  /\ UNCHANGED <<global, now, db, upsets, tls, pool, lastPing, pingHistory>>

\* The DSN is not a URL, or names no driver, or the driver does not take it:
\* before the certificate is registered, or after.
OpenFails(p) ==
  /\ At(p, {"open"}) /\ call[p].on \notin global.openable
  /\ Return(p, "down")
  /\ UNCHANGED <<global, now, db, upsets, tls, pool, lastPing, pingHistory>>

\* Mutant: the error of sql.Open is not looked at.
OpenUnchecked(p) ==
  LET t == call[p].on IN
  /\ At(p, {"open"}) /\ t \in global.openable /\ (CustomTLS(t) => tls[Host[t]] # "unused")
  /\ conn' = [conn EXCEPT ![t] = IF CustomTLS(t) THEN tls[Host[t]] ELSE Plain]
  /\ call' = [call EXCEPT ![p].at = "first", ![p].tries = global.maxConns + 1]
  /\ UNCHANGED <<global, now, db, upsets, tls, mu, stale, lastPing, pingHistory>>

Open(p) ==
  LET t == call[p].on IN
  /\ At(p, {"open"}) /\ t \in global.openable /\ (CustomTLS(t) => tls[Host[t]] \notin {"unused", "failed"})
  /\ conn' = [conn EXCEPT ![t] = IF CustomTLS(t) THEN tls[Host[t]] ELSE Plain]
  /\ call' = [call EXCEPT ![p].at = "first", ![p].tries = global.maxConns + 1]
  /\ UNCHANGED <<global, now, db, upsets, tls, mu, stale, lastPing, pingHistory>>

\* The select of OpenConnection finds the context closed; ping falls through.
OpenCanceled(p) ==
  LET t == call[p].on IN
  /\ At(p, {"open"}) /\ Expired(p) /\ (CustomTLS(t) => tls[Host[t]] # "unused")
  /\ Return(p, "down")
  /\ UNCHANGED <<global, now, db, upsets, tls, pool, lastPing, pingHistory>>

\* The ping loops, of the first connection and of every later call.
Pinging(p) == At(p, {"first", "again"}) /\ call[p].tries > 0

\* The loop has ended without an error.  The first one is followed by the
\* check of the interval; the other one counts from before its pings.
LoopEnds(p) ==
  LET t == call[p].on IN
  \/ /\ At(p, {"first"})
     /\ lastPing' = [lastPing EXCEPT ![t] = now]
     /\ Check(p, now)
  \/ /\ At(p, {"again"})
     /\ lastPing' = [lastPing EXCEPT ![t] = call[p].began]
     /\ Return(p, Verdict(p))

\* A database that is up accepts the certificate of the target.
Reachable(t) == db[t] = "up" /\ conn[t] = Certificate[t]

PingAnswers(p) ==
  LET t == call[p].on IN
  /\ Pinging(p) /\ Reachable(t)
  /\ answered' = [answered EXCEPT ![t] = now]
  /\ LoopEnds(p)
  /\ UNCHANGED <<global, now, db, upsets, tls, pool, steady>>

\* ErrBadConn: the pool drops the connection and the loop goes on, if it may.
PingBadConn(p) ==
  LET t == call[p].on IN
  /\ Pinging(p) /\ stale[t] > 0
  /\ stale' = [stale EXCEPT ![t] = @ - 1]
  /\ IF call[p].tries = 1 THEN Return(p, "down")
     ELSE call' = [call EXCEPT ![p].tries = @ - 1] /\ UNCHANGED mu
  /\ UNCHANGED <<global, now, db, upsets, tls, conn, lastPing, pingHistory>>

\* Mutant: a failed ping counts as the last one.
PingFailsCounted(p) ==
  LET t == call[p].on IN
  /\ Pinging(p) /\ db[t] # "hung" /\ ~ Reachable(t)
  /\ lastPing' = [lastPing EXCEPT ![t] = now]
  /\ Return(p, "down")
  /\ UNCHANGED <<global, now, db, upsets, tls, pool, pingHistory>>

PingFails(p) ==
  LET t == call[p].on IN
  /\ Pinging(p) /\ db[t] # "hung" /\ ~ Reachable(t)
  /\ Return(p, "down")
  /\ UNCHANGED <<global, now, db, upsets, tls, pool, lastPing, pingHistory>>

\* Mutant: PingDB waits for the driver.
PingWaits(p) ==
  /\ Pinging(p) /\ Expired(p) /\ db[call[p].on] # "hung"
  /\ Return(p, "down")
  /\ UNCHANGED <<global, now, db, upsets, tls, pool, lastPing, pingHistory>>

\* PingDB does not wait for the driver once the context is closed.
PingCanceled(p) ==
  /\ Pinging(p) /\ Expired(p)
  /\ Return(p, "down")
  /\ UNCHANGED <<global, now, db, upsets, tls, pool, lastPing, pingHistory>>

\* With a negative max_connections, which database/sql takes for no limit,
\* the loop is never entered and there is no error.
NoPing(p) ==
  /\ At(p, {"first", "again"}) /\ call[p].tries <= 0
  /\ LoopEnds(p)
  /\ UNCHANGED <<global, now, db, upsets, tls, pool, pingHistory>>

PingStep(p) ==
  \/ PingLock(p) \/ Register(p) \/ RegisterFails(p) \/ OpenUnregistered(p)
  \/ OpenFails(p) \/ Open(p) \/ OpenCanceled(p) \/ PingCanceled(p) \/ NoPing(p)

\* The steps of ping that wait for the database.
PingWait(p) == PingAnswers(p) \/ PingBadConn(p) \/ PingFails(p)

-----------------------------------------------------------------------------
(* The database, and a reload                                              *)

OnTarget(t) == {p \in Caller : call[p].on = t}

DatabaseChanges(t) ==
  /\ upsets < MaxUpsets /\ upsets' = upsets + 1
  /\ \E s \in {"up", "down", "hung"} \ {db[t]} : db' = [db EXCEPT ![t] = s]
  /\ steady' = steady \ OnTarget(t)
  /\ UNCHANGED <<global, now, tls, mu, pool, lastPing, call, answered>>

\* The queries of a scrape that timed out, or a restart of the database, have
\* left bad connections in the pool: as many as it may hold.
ConnectionsBreak(t) ==
  /\ conn[t] # Nil
  /\ upsets < MaxUpsets /\ upsets' = upsets + 1
  /\ stale' = [stale EXCEPT ![t] = IF global.maxConns > 0 THEN global.maxConns ELSE global.maxIdle]
  /\ steady' = steady \ OnTarget(t)
  /\ UNCHANGED <<global, now, db, tls, mu, conn, lastPing, call, answered>>

\* target.Close takes the lock, and with it closes the statements of the
\* collectors and the pool, which wait for the queries that use them ...
CloseLock(t) ==
  /\ mu[t] = Nil
  /\ mu' = [mu EXCEPT ![t] = Closer]
  /\ UNCHANGED <<global, now, db, upsets, tls, pool, lastPing, call, pingHistory>>

\* ... until the pool is gone.  lastPingTime stays.
Close(t) ==
  /\ mu[t] = Closer
  /\ mu' = [mu EXCEPT ![t] = Nil]
  /\ conn' = [conn EXCEPT ![t] = Nil]
  /\ stale' = [stale EXCEPT ![t] = 0]
  /\ UNCHANGED <<global, now, db, upsets, tls, lastPing, call, pingHistory>>

-----------------------------------------------------------------------------
(* Properties                                                              *)

Turns(p, result) == call[p].at \notin {result, "collecting", "delay"} /\ call'[p].at = result

\* What is told up has been reached: with enable_ping, the database has
\* answered a ping no longer ago than ping_interval (target.go:230), whoever
\* pinged it, and whether or not the pool has been closed since.  The loop
\* must run at all: max_connections is not negative.
UpIsRecent ==
  [][\A p \in Caller :
       LET t == call[p].on IN
       Turns(p, "up") /\ t \in EnablePing /\ global.maxConns >= 0 =>
         answered'[t] # Never /\ now - answered'[t] <= global.interval]_pingVars

\* What can be reached is told up: a caller told down has seen its context
\* close or its database unwell, or has a DSN that cannot be opened, or custom
\* TLS and a host for which the registration failed or another certificate was
\* registered first.  As many
\* bad connections as the pool may hold do not matter (target.go:234), unless
\* max_connections is zero, which is no limit and leaves one ping.
ReachableIsUp ==
  [][\A p \in Caller :
       LET t == call[p].on IN
       Turns(p, "down") /\ p \in steady =>
         \/ Expired(p) \/ global.maxConns = 0 \/ t \notin global.openable
         \/ CustomTLS(t) /\ tls'[Host[t]] # Certificate[t]]_pingVars

UpTellsTruth == UpIsRecent /\ ReachableIsUp
=============================================================================
