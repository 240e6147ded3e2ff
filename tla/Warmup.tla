-------------------------------- MODULE Warmup --------------------------------
(***************************************************************************)
(* Startup with warmup_delay: until every target has been warmed up,       *)
(* requests to /metrics are answered 425.  Then they are scrapes, each     *)
(* with the deadline that Prometheus and the configuration leave it.       *)
(*                                                                         *)
(* The warmup of a target is one goroutine, here the caller that has the   *)
(* name of the target: it pings it and runs its collectors one by one.  A  *)
(* scrape is that of one target: those of a request share a deadline and   *)
(* nothing else.                                                           *)
(***************************************************************************)
EXTENDS TargetPing

CONSTANTS
  Scrape,
  Collectors, \* the number of collectors of each target
  Header      \* what X-Prometheus-Scrape-Timeout-Seconds says, 0 when it is missing or unreadable

ASSUME CallersAssumption == Caller = Scrape \cup Target /\ Scrape \cap Target = {}
ASSUME CollectorsAssumption == Collectors \in Nat \ {0}
ASSUME HeaderAssumption == Header \subseteq Nat

VARIABLES
  done,   \* warmup.done is closed, or there is no warmup
  ran,    \* the collectors each warmup has run
  closed, \* the targets that a reload closes, or has closed
  ended   \* when each warmup last ended a collector, and its delay began

warmupVars == <<done, ran, closed, ended>>
vars == <<pingVars, warmupVars>>

TypeOK ==
  /\ PingTypeOK
  /\ done \in BOOLEAN
  /\ ran \in [Target -> 0 .. Collectors]
  /\ ended \in [Target -> Never .. MaxTime]
  /\ closed \subseteq Target

Idle == [at |-> "idle", on |-> Nil, deadline |-> NoDeadline, tries |-> 0, began |-> Never]

Over == [Idle EXCEPT !.at = "ended"]

\* NewWarmup and Run: every target is pinged with the deadline of them all.
Init ==
  /\ PingInit
  /\ \A t \in Target \ global.targets : db[t] = "up"
  /\ call = [p \in Caller |->
       IF p \in Scrape THEN Idle
       ELSE [Idle EXCEPT !.at = IF p \in global.targets /\ global.delay > 0 THEN "lock" ELSE "ended", !.on = p, !.deadline = global.timeout]]
  /\ done = (global.delay = 0)
  /\ ran = [t \in Target |-> 0]
  /\ ended = [t \in Target |-> Never]
  /\ closed = {}

pingRest == <<global, now, db, upsets, tls, mu, pool, lastPing, pingHistory>>

-----------------------------------------------------------------------------
(* Warmup.Run                                                              *)

SkipTarget(t) == Goto(t, "down", "ended") /\ UNCHANGED <<pingRest, warmupVars>>

StartCollector(t) ==
  /\ Goto(t, "up", IF Expired(t) THEN "ended" ELSE "collecting")
  /\ UNCHANGED <<pingRest, warmupVars>>

\* Mutant: the next collector does not wait.
DelayNot(t) ==
  /\ Goto(t, "delay", "up")
  /\ UNCHANGED <<pingRest, warmupVars>>

DelayOver(t) ==
  /\ Goto(t, "delay", "up") /\ ended[t] + global.delay <= now
  /\ UNCHANGED <<pingRest, warmupVars>>

DelayCanceled(t) ==
  /\ Goto(t, "delay", "ended") /\ Expired(t)
  /\ UNCHANGED <<pingRest, warmupVars>>

CollectorReturns(t) ==
  /\ Goto(t, "collecting", IF ran[t] + 1 = Collectors THEN "ended" ELSE "delay")
  /\ ran' = [ran EXCEPT ![t] = @ + 1]
  /\ ended' = [ended EXCEPT ![t] = now]
  /\ UNCHANGED <<pingRest, done, closed>>

\* Mutant: the first target that is ready opens the gate.
FinishEarly ==
  /\ ~ done /\ \E t \in Target : At(t, {"ended"})
  /\ done' = TRUE
  /\ UNCHANGED <<pingVars, ran, closed, ended>>

AllWarm == \A t \in Target : At(t, {"ended"})

\* wg.Wait(), then close(w.done).
Finish ==
  /\ ~ done /\ AllWarm
  /\ done' = TRUE
  /\ UNCHANGED <<pingVars, ran, closed, ended>>

-----------------------------------------------------------------------------
(* Scrapes                                                                 *)

\* Mutant: a request without a timeout, or whose offset takes it all, has none.
TimeoutGiven(header) ==
  LET given == IF global.offset > header THEN header ELSE header - global.offset
      timeout == IF global.timeout > 0 /\ global.timeout < given THEN global.timeout ELSE given
  IN IF timeout <= 0 \/ now + timeout > MaxTime THEN NoDeadline ELSE now + timeout

\* contextFor: the timeout of the header, less the offset unless that is
\* larger; the configured one if it is more restrictive; none if zero.
Timeout(header) ==
  LET given == IF global.offset > header THEN header ELSE header - global.offset
      timeout == IF global.timeout > 0 /\ (given <= 0 \/ global.timeout < given) THEN global.timeout ELSE given
  IN IF timeout <= 0 \/ now + timeout > MaxTime THEN NoDeadline ELSE now + timeout

\* A request that passes the gate; before, it is answered 425.  It may take a
\* target that a reload has closed and not yet replaced.
Serve(s) ==
  /\ done
  /\ \E t \in global.targets, header \in Header :
       /\ At(s, {"idle"})
       /\ call' = [call EXCEPT ![s].at = "lock", ![s].on = t, ![s].deadline = Timeout(header)]
  /\ UNCHANGED <<pingRest, warmupVars>>

ScrapeDown(s) ==
  /\ At(s, {"down"})
  /\ call' = [call EXCEPT ![s] = Over]
  /\ UNCHANGED <<pingRest, warmupVars>>

ScrapeCollects(s) == Goto(s, "up", "collecting") /\ UNCHANGED <<pingRest, warmupVars>>

ScrapeReturns(s) ==
  /\ At(s, {"collecting"})
  /\ call' = [call EXCEPT ![s] = Over]
  /\ UNCHANGED <<pingRest, warmupVars>>

-----------------------------------------------------------------------------
Returns(p) ==
  \/ p \in Target /\ CollectorReturns(p)
  \/ p \in Scrape /\ ScrapeReturns(p)

\* Steps that take no time: those of the code, which ends every wait of its own
\* when the context closes, but the one for target.mu.
Prompt(p) ==
  \/ PingStep(p) /\ UNCHANGED warmupVars
  \/ p \in Target /\ (SkipTarget(p) \/ StartCollector(p) \/ DelayOver(p) \/ DelayCanceled(p))
  \/ p \in Scrape /\ (ScrapeDown(p) \/ ScrapeCollects(p))

\* Steps that last as long as the database does, or its driver: a collector
\* returns when its queries do, and a driver that opens a connection may wait
\* for a timeout of its own, before the context closes or after.
Answered(p) ==
  \/ PingWait(p) /\ UNCHANGED warmupVars
  \/ Returns(p)

\* Where a caller has a step to take that takes no time.
Ready(p) ==
  \/ At(p, {"open", "up", "down"})
  \/ At(p, {"lock"}) /\ mu[call[p].on] = Nil
  \/ At(p, {"first", "again"}) /\ (Expired(p) \/ call[p].tries <= 0)
  \/ At(p, {"delay"}) /\ (Expired(p) \/ ended[p] + global.delay <= now)

\* Time passes only when nothing can be done at once.
Tick ==
  /\ now < MaxTime
  /\ (AllWarm => done) /\ \A p \in Caller : ~ Ready(p)
  /\ now' = now + 1
  /\ UNCHANGED <<global, db, upsets, tls, mu, pool, lastPing, call, pingHistory, warmupVars>>

\* A reload closes the targets it replaces.
CloseTarget(t) ==
  /\ t \notin closed
  /\ CloseLock(t)
  /\ closed' = closed \cup {t}
  /\ UNCHANGED <<done, ran, ended>>

\* That takes as long as their queries do.
TargetClosed(t) == Close(t) /\ UNCHANGED warmupVars

Next ==
  \/ \E p \in Caller : Prompt(p) \/ Answered(p)
  \/ Finish
  \/ \E s \in Scrape : Serve(s)
  \/ \E t \in global.targets : CloseTarget(t) \/ TargetClosed(t)
  \/ (\E t \in global.targets : DatabaseChanges(t) \/ ConnectionsBreak(t)) /\ UNCHANGED warmupVars
  \/ Tick

Spec == Init /\ [][Next]_vars

-----------------------------------------------------------------------------
(* Properties                                                              *)

\* Warmup is there to avoid "the thundering herd" (warmup.go:12): until the
\* last target is warmed up no scrape is under way, and each target starts a
\* collector no sooner than the delay after its last one.  Targets warm up
\* side by side, so collectors of different targets may well meet.
HerdAvoided ==
  [][\A t \in Target : At(t, {"up"}) /\ call'[t].at = "collecting" =>
       /\ ended[t] = Never \/ ended[t] + global.delay <= now
       /\ \A s \in Scrape : At(s, {"idle"})]_vars

\* Time stands still for nobody who cannot go on.
Unstuck(p) == Ready(p) => ENABLED Prompt(p)

\* No time passes for a warmup whose timeout is over but in a driver, or behind
\* a Close: none in ping or in a delay.
OpensInTime ==
  [][now' # now /\ ~ done /\ global.timeout <= now =>
       \E t \in Target : At(t, {"collecting"}) \/ (At(t, {"lock"}) /\ mu[t] = Closer)]_vars

\* The gate opens when all targets are warm, and why a target is.
OpensWhenWarm ==
  /\ [][done' # done => AllWarm]_vars
  /\ [][\A t \in Target :
         At(t, {"ended"})' /\ ~ At(t, {"ended", "down"}) => ran'[t] = Collectors \/ global.timeout <= now]_vars

\* The gate opens: after scrape_timeout, which is its timeout
\* (warmup_middleware.go:20), no ping and no delay holds it.  What may is the
\* driver of a query, which need not end with the context (sql.go:94), and a
\* reload that closes a target, with target.mu, and itself waits for queries
\* (target.go:169).  Nobody who has something to do is stuck.  Nor does the gate
\* open before every target has run all its collectors, was told down, or ran
\* out of time.
GateOpens == OpensInTime /\ OpensWhenWarm /\ [](\A p \in Caller : Unstuck(p))

\* The deadline of a request is no later than scrape_timeout from now.
RequestsInTime ==
  /\ [][\A s \in Scrape :
       At(s, {"idle"}) /\ ~ At(s, {"idle"})' /\ global.timeout > 0 => call'[s].deadline <= now + global.timeout]_vars

\* A scrape out of time is in a driver, or waits for the lock of its target.
LateInDriverOrQueue ==
  [][\A s \in Scrape :
       now' # now /\ ~ At(s, {"idle", "ended"}) /\ Expired(s) =>
         \/ At(s, {"collecting"})
         \/ /\ At(s, {"lock"})
            /\ mu[call[s].on] = Closer \/ \E p \in Scrape : mu[call[s].on] = p /\ ~ Expired(p)]_vars

\* No request is given longer than scrape_timeout, whatever its header says, and
\* no time passes for a scrape whose deadline is over, except in the driver of a
\* query (sql.go:94), or for the lock of its target, whose wait does not end with
\* the context (target.go:198): behind a reload that closes the target, or behind
\* another scrape, which pings and has a later deadline, or none at all.  A
\* closed context is all the others need: nobody who is told to go on is stuck.
ScrapesInTime == RequestsInTime /\ LateInDriverOrQueue /\ [](\A p \in Caller : Unstuck(p))
=============================================================================
