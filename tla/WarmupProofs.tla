----------------------------- MODULE WarmupProofs -----------------------------
(***************************************************************************)
(* A target that is told up has been reached, one that is told down could  *)
(* not be; the gate of /metrics does not open before every target is warm; *)
(* a warmup or a scrape whose time is over waits for a driver or for       *)
(* target.mu only.  For any targets, scrapes, settings and times.          *)
(*                                                                         *)
(* The invariant tells who holds target.mu, what its holder knows of the   *)
(* pool, and how far the warmup of a target is.                            *)
(***************************************************************************)
EXTENDS Warmup, TLAPS

\* Where a caller holds the lock of its target.
Inside == {"open", "first", "again"}

\* Callers have a target, the one whose name they have if they warm it up.
Placed ==
  /\ \A p \in Caller : call[p].at \notin {"idle", "ended"} => call[p].on \in Target
  /\ \A t \in Target : call[t].on = t /\ call[t].deadline = global.timeout /\ call[t].at # "idle"
  /\ \A s \in Scrape : call[s].at # "delay"

\* A target is locked by the caller that is inside, or by Close.
Locked ==
  /\ \A p \in Caller : call[p].at \in Inside => mu[call[p].on] = p
  /\ \A t \in Target : mu[t] \notin {Nil, Closer} => mu[t] \in Caller /\ call[mu[t]].on = t /\ call[mu[t]].at \in Inside

\* A pool uses what is registered for the host; it is not closed under a caller
\* that pings, and has no more bad connections than it may hold.
Pooled ==
  /\ \A t \in Target : conn[t] # Nil => conn[t] = IF CustomTLS(t) THEN tls[Host[t]] ELSE Plain
  /\ \A p \in Caller : call[p].at \in {"first", "again"} => conn[call[p].on] # Nil
  /\ \A t \in Target : global.maxConns > 0 => stale[t] <= global.maxConns

\* A loop that has begun has a ping left for each bad connection and one more.
Counted ==
  \A p \in Caller :
    /\ call[p].at \in {"first", "again"} =>
         /\ global.maxConns >= 0 => call[p].tries > 0
         /\ global.maxConns < 0 => call[p].tries <= 0
    /\ p \in steady /\ call[p].at \in Inside =>
         /\ db[call[p].on] = "up"
         /\ call[p].at # "open" /\ global.maxConns > 0 => stale[call[p].on] < call[p].tries

\* The last ping that is counted was answered.
Recent ==
  /\ \A t \in Target :
       global.maxConns >= 0 /\ lastPing[t] # Never => answered[t] # Never /\ lastPing[t] <= answered[t]
  /\ \A p \in Caller : call[p].began <= now

\* Nothing is scraped before the gate opens, and nothing warmed up after.
Gated ==
  /\ ~ done => \A s \in Scrape : call[s].at = "idle"
  /\ done => AllWarm

\* How far the warmup of a target is.
Delayed ==
  \A t \in Target :
    /\ call[t].at \in {"lock", "open", "first", "again", "down"} => ended[t] = Never
    /\ call[t].at = "up" => ended[t] = Never \/ ended[t] + global.delay <= now
    /\ call[t].at # "ended" => ran[t] < Collectors

IInv == TypeOK /\ Placed /\ Locked /\ Pooled /\ Counted /\ Recent /\ Gated /\ Delayed

-----------------------------------------------------------------------------
(* Types                                                                   *)

LEMMA Certificates ==
  ASSUME NEW t \in Target
  PROVE  /\ Host[t] \in {Host[u] : u \in Target}
         /\ Certificate[t] \in {Certificate[u] : u \in Target}
         /\ Certificate[t] \notin {Nil, "unused", "failed"}
BY TargetAssumption, CertificateAssumption

LEMMA GlobalFields ==
  ASSUME TypeOK
  PROVE  /\ global.targets \subseteq Target /\ global.maxConns \in Int /\ global.maxIdle \in Nat
         /\ global.interval \in Nat /\ global.timeout \in Nat /\ global.delay \in Nat
         /\ global.offset \in Nat \ {0}
BY SettingsAssumption DEF TypeOK, PingTypeOK

-----------------------------------------------------------------------------
(* Steps                                                                   *)

\* ping returns without having reached the database.
Quits(p) ==
  \/ RegisterFails(p) \/ OpenUnregistered(p) \/ OpenFails(p) \/ OpenCanceled(p)
  \/ PingCanceled(p) \/ PingFails(p)

\* A ping loop is over.
LoopOver(p) == NoPing(p) \/ PingAnswers(p)

\* A warmup or a scrape goes on, and nothing else changes.
WarmupMoves(t) == SkipTarget(t) \/ StartCollector(t) \/ DelayOver(t) \/ DelayCanceled(t)

ScrapeMoves(s) == ScrapeDown(s) \/ ScrapeCollects(s) \/ ScrapeReturns(s)

\* A reload begins or ends to close a target.
Closes(t) == CloseTarget(t) \/ TargetClosed(t)

PingMoves(p) ==
  PingLock(p) \/ Register(p) \/ Quits(p) \/ Open(p) \/ LoopOver(p) \/ PingBadConn(p)

\* What a step may be.
LEMMA NextCases ==
  ASSUME TypeOK, [Next]_vars
  PROVE  \/ \E p \in Caller : PingMoves(p) /\ UNCHANGED warmupVars
         \/ \E t \in Target : WarmupMoves(t) \/ CollectorReturns(t) \/ Closes(t)
         \/ \E t \in Target : (DatabaseChanges(t) \/ ConnectionsBreak(t)) /\ UNCHANGED warmupVars
         \/ \E s \in Scrape : ScrapeMoves(s) \/ Serve(s)
         \/ Finish \/ Tick \/ UNCHANGED vars
<1>1. ASSUME NEW p \in Caller, Prompt(p) \/ Answered(p)
      PROVE  \/ PingMoves(p) /\ UNCHANGED warmupVars
             \/ p \in Target /\ (WarmupMoves(p) \/ CollectorReturns(p))
             \/ p \in Scrape /\ ScrapeMoves(p)
  BY <1>1 DEF Prompt, Answered, PingStep, PingWait, Returns,
              PingMoves, Quits, LoopOver, WarmupMoves, ScrapeMoves
<1> QED BY <1>1, GlobalFields DEF Next, Closes

\* Times that are met are within the bounds.
LEMMA Times ==
  /\ 0 \in 0 .. MaxTime /\ Never \in Never .. MaxTime
  /\ \A i \in 0 .. MaxTime : i \in Never .. MaxTime /\ i \in Nat
BY BoundsAssumption DEF Never

Stages == {"idle", "lock", "open", "first", "again", "up", "down", "collecting", "delay", "ended"}

-----------------------------------------------------------------------------
(* What a step does to the callers                                         *)

\* A caller goes on, with its target and its deadline; the others stay.
Becomes(p, a, n, b) ==
  /\ call' \in [Caller -> Call]
  /\ call'[p].at = a /\ call'[p].tries = n /\ call'[p].began = b
  /\ call'[p].on = call[p].on /\ call'[p].deadline = call[p].deadline
  /\ \A q \in Caller \ {p} : call'[q] = call[q]

LEMMA BecomesBy ==
  ASSUME TypeOK, NEW p \in Caller, NEW a \in Stages, NEW n \in Int, NEW b \in Never .. MaxTime,
         call' = [call EXCEPT ![p] = [call[p] EXCEPT !.at = a, !.tries = n, !.began = b]]
  PROVE  Becomes(p, a, n, b)
<1>1. call \in [Caller -> Call] /\ call[p] \in Call
  BY DEF TypeOK, PingTypeOK
<1>2. call'[p] = [call[p] EXCEPT !.at = a, !.tries = n, !.began = b]
  BY <1>1
<1>3. /\ call'[p] \in Call
      /\ call'[p].at = a /\ call'[p].tries = n /\ call'[p].began = b
      /\ call'[p].on = call[p].on /\ call'[p].deadline = call[p].deadline
  BY <1>1, <1>2 DEF Call, Stages
<1>4. call' \in [Caller -> Call] /\ \A q \in Caller \ {p} : call'[q] = call[q]
  BY <1>1, <1>2, <1>3
<1> QED BY <1>3, <1>4 DEF Becomes

LEMMA AtChanges ==
  ASSUME TypeOK, NEW p \in Caller, NEW a \in Stages, call' = [call EXCEPT ![p].at = a]
  PROVE  Becomes(p, a, call[p].tries, call[p].began)
<1>1. call \in [Caller -> Call] /\ call[p] \in Call
  BY DEF TypeOK, PingTypeOK
<1>2. call[p].tries \in Int /\ call[p].began \in Never .. MaxTime
  BY <1>1 DEF Call
<1>3. call' = [call EXCEPT ![p] = [call[p] EXCEPT !.at = a, !.tries = call[p].tries, !.began = call[p].began]]
  BY <1>1 DEF Call
<1> QED BY <1>2, <1>3, BecomesBy

\* The states between which a caller goes in Goto.
LEMMA GotoBecomes ==
  ASSUME TypeOK, NEW p \in Caller, NEW from, NEW a \in Stages, Goto(p, from, a)
  PROVE  call[p].at = from /\ Becomes(p, a, call[p].tries, call[p].began)
BY AtChanges DEF Goto

LEMMA ReturnBecomes ==
  ASSUME TypeOK, NEW p \in Caller, NEW result \in {"up", "down"}, Return(p, result)
  PROVE  Becomes(p, result, 0, Never) /\ mu' = [mu EXCEPT ![call[p].on] = Nil]
<1>1. call \in [Caller -> Call] /\ call[p] \in Call
  BY DEF TypeOK, PingTypeOK
<1>2. call' = [call EXCEPT ![p] = [call[p] EXCEPT !.at = result, !.tries = 0, !.began = Never]]
  BY <1>1 DEF Return
<1>3. result \in Stages /\ 0 \in Int /\ Never \in Never .. MaxTime
  BY Times DEF Stages
<1>4. Becomes(p, result, 0, Never)
  BY <1>2, <1>3, BecomesBy
<1> QED BY <1>4 DEF Return

\* With a handle, ping returns or begins to ping again.
LEMMA CheckBecomes ==
  ASSUME TypeOK, NEW p \in Caller, NEW last, Check(p, last)
  PROVE  \/ /\ Becomes(p, "again", global.maxConns + 1, now) /\ mu' = [mu EXCEPT ![call[p].on] = p]
            /\ ~ Expired(p)
         \/ /\ Becomes(p, Verdict(p), 0, Never) /\ mu' = [mu EXCEPT ![call[p].on] = Nil]
            /\ Expired(p) \/ call[p].on \notin EnablePing \/ ~ Due(last)
<1>1. call \in [Caller -> Call] /\ call[p] \in Call /\ now \in Never .. MaxTime /\ global.maxConns + 1 \in Int
  BY Times, GlobalFields DEF TypeOK, PingTypeOK
<1>2. CASE ~ Expired(p) /\ call[p].on \in EnablePing /\ Due(last)
  <2>1. call' = [call EXCEPT ![p] = [call[p] EXCEPT !.at = "again", !.tries = global.maxConns + 1, !.began = now]]
    BY <1>1, <1>2 DEF Check
  <2>2. Becomes(p, "again", global.maxConns + 1, now)
    BY <1>1, <2>1, BecomesBy DEF Stages
  <2> QED BY <1>2, <2>2 DEF Check
<1>3. CASE ~ (~ Expired(p) /\ call[p].on \in EnablePing /\ Due(last))
  <2>1. Verdict(p) \in {"up", "down"}
    BY DEF Verdict
  <2> QED BY <1>3, <2>1, ReturnBecomes DEF Check
<1> QED BY <1>2, <1>3

\* The effect of each step that changes the state of a caller.
LEMMA LockEffect ==
  ASSUME TypeOK, NEW p \in Caller, PingLock(p)
  PROVE  LET t == call[p].on IN
         /\ call[p].at = "lock" /\ mu[t] = Nil
         /\ \/ Becomes(p, "open", call[p].tries, call[p].began) /\ mu' = [mu EXCEPT ![t] = p]
            \/ /\ Becomes(p, "again", global.maxConns + 1, now) /\ mu' = [mu EXCEPT ![t] = p]
               /\ conn[t] # Nil
            \/ /\ Becomes(p, Verdict(p), 0, Never) /\ mu' = [mu EXCEPT ![t] = Nil]
               /\ Expired(p) \/ t \notin EnablePing \/ ~ Due(lastPing[t])
         /\ steady' = IF db[t] = "up" THEN steady \cup {p} ELSE steady \ {p}
         /\ UNCHANGED <<global, now, db, upsets, tls, pool, lastPing, answered>>
<1> USE DEF PingLock, At
<1>1. CASE conn[call[p].on] # Nil
  BY <1>1, CheckBecomes
<1>2. CASE conn[call[p].on] = Nil
  <2>1. "open" \in Stages
    BY DEF Stages
  <2> QED BY <1>2, <2>1, AtChanges
<1> QED BY <1>1, <1>2

LEMMA QuitEffect ==
  ASSUME TypeOK, NEW p \in Caller, Quits(p)
  PROVE  LET t == call[p].on IN
         /\ call[p].at \in Inside
         /\ Becomes(p, "down", 0, Never) /\ mu' = [mu EXCEPT ![t] = Nil]
         /\ \/ tls' = tls
            \/ call[p].at = "open" /\ tls[Host[t]] = "unused" /\ tls' = [tls EXCEPT ![Host[t]] = "failed"]
         /\ UNCHANGED <<global, now, db, upsets, pool, lastPing, pingHistory>>
BY ReturnBecomes DEF Quits, RegisterFails, OpenUnregistered, OpenFails, OpenCanceled, PingCanceled, PingFails,
                     Pinging, At, Inside

LEMMA OpenEffect ==
  ASSUME TypeOK, NEW p \in Caller, Open(p)
  PROVE  LET t == call[p].on IN
         /\ call[p].at = "open"
         /\ Becomes(p, "first", global.maxConns + 1, call[p].began)
         /\ conn' = [conn EXCEPT ![t] = IF CustomTLS(t) THEN tls[Host[t]] ELSE Plain]
         /\ CustomTLS(t) => tls[Host[t]] \notin {"unused", "failed"}
         /\ UNCHANGED <<global, now, db, upsets, tls, mu, stale, lastPing, pingHistory>>
<1>1. call \in [Caller -> Call] /\ call[p] \in Call /\ global.maxConns + 1 \in Int /\ call[p].began \in Never .. MaxTime
  BY GlobalFields DEF TypeOK, PingTypeOK, Call
<1>2. call' = [call EXCEPT ![p] = [call[p] EXCEPT !.at = "first", !.tries = global.maxConns + 1, !.began = call[p].began]]
  BY <1>1 DEF Open, Call
<1>3. Becomes(p, "first", global.maxConns + 1, call[p].began)
  BY <1>1, <1>2, BecomesBy DEF Stages
<1> QED BY <1>3 DEF Open, At

LEMMA LoopEffect ==
  ASSUME TypeOK, NEW p \in Caller, LoopOver(p)
  PROVE  LET t == call[p].on IN
         /\ call[p].at \in {"first", "again"}
         /\ \/ call[p].tries > 0 /\ answered' = [answered EXCEPT ![t] = now]
            \/ call[p].tries <= 0 /\ answered' = answered
         /\ lastPing' = [lastPing EXCEPT ![t] = IF call[p].at = "first" THEN now ELSE call[p].began]
         /\ \/ /\ Becomes(p, "again", global.maxConns + 1, now) /\ mu' = [mu EXCEPT ![t] = p]
            \/ /\ Becomes(p, Verdict(p), 0, Never) /\ mu' = [mu EXCEPT ![t] = Nil]
         /\ UNCHANGED <<global, now, db, upsets, tls, pool, steady>>
<1>1. Verdict(p) \in {"up", "down"}
  BY DEF Verdict
<1>2. LoopEnds(p) /\ call[p].at \in {"first", "again"}
  BY DEF LoopOver, NoPing, PingAnswers, Pinging, At
<1>3. CASE call[p].at = "first"
  BY <1>2, <1>3, CheckBecomes DEF LoopOver, NoPing, PingAnswers, Pinging, At, LoopEnds, pingHistory
<1>4. CASE call[p].at = "again"
  BY <1>1, <1>2, <1>4, ReturnBecomes DEF LoopOver, NoPing, PingAnswers, Pinging, At, LoopEnds,
     pingHistory
<1> QED BY <1>2, <1>3, <1>4

LEMMA BadConnEffect ==
  ASSUME TypeOK, NEW p \in Caller, PingBadConn(p)
  PROVE  LET t == call[p].on IN
         /\ call[p].at \in {"first", "again"} /\ call[p].tries > 0
         /\ stale[t] > 0 /\ stale' = [stale EXCEPT ![t] = stale[t] - 1]
         /\ \/ call[p].tries = 1 /\ Becomes(p, "down", 0, Never) /\ mu' = [mu EXCEPT ![t] = Nil]
            \/ Becomes(p, call[p].at, call[p].tries - 1, call[p].began) /\ call[p].tries > 1 /\ mu' = mu
         /\ UNCHANGED <<global, now, db, upsets, tls, conn, lastPing, pingHistory>>
<1>1. call \in [Caller -> Call] /\ call[p] \in Call
  BY DEF TypeOK, PingTypeOK
<1>2. call[p].at \in Stages /\ call[p].tries \in Int /\ call[p].began \in Never .. MaxTime
  BY <1>1 DEF Call, Stages
<1>3. stale' = [stale EXCEPT ![call[p].on] = stale[call[p].on] - 1]
  BY DEF PingBadConn, TypeOK, PingTypeOK
<1>4. CASE call[p].tries = 1
  BY <1>3, <1>4, ReturnBecomes DEF PingBadConn, Pinging, At
<1>5. CASE call[p].tries # 1
  <2>1. call' = [call EXCEPT ![p] = [call[p] EXCEPT !.at = call[p].at, !.tries = call[p].tries - 1, !.began = call[p].began]]
    BY <1>1, <1>5 DEF PingBadConn, Call
  <2>2. Becomes(p, call[p].at, call[p].tries - 1, call[p].began)
    <3>1. call[p].tries - 1 \in Int
      BY <1>2
    <3> QED BY <1>2, <2>1, <3>1, BecomesBy
  <2>3. call[p].tries > 1
    BY <1>2, <1>5 DEF PingBadConn, Pinging
  <2> QED BY <1>3, <1>5, <2>2, <2>3 DEF PingBadConn, Pinging, At
<1> QED BY <1>4, <1>5

LEMMA WarmupEffect ==
  ASSUME TypeOK, NEW t \in Target, WarmupMoves(t)
  PROVE  /\ \/ call[t].at = "down" /\ Becomes(t, "ended", call[t].tries, call[t].began)
            \/ call[t].at = "up" /\ ~ Expired(t) /\ Becomes(t, "collecting", call[t].tries, call[t].began)
            \/ call[t].at \in {"up", "delay"} /\ Expired(t) /\ Becomes(t, "ended", call[t].tries, call[t].began)
            \/ /\ call[t].at = "delay" /\ ended[t] + global.delay <= now
               /\ Becomes(t, "up", call[t].tries, call[t].began)
         /\ UNCHANGED <<pingRest, warmupVars>>
<1>1. t \in Caller /\ {"ended", "collecting", "up"} \subseteq Stages
  BY CallersAssumption DEF Stages
<1> QED BY <1>1, GotoBecomes DEF WarmupMoves, SkipTarget, StartCollector, DelayOver, DelayCanceled

LEMMA CollectorEffect ==
  ASSUME TypeOK, NEW t \in Target, CollectorReturns(t)
  PROVE  /\ call[t].at = "collecting"
         /\ \/ ran[t] + 1 = Collectors /\ Becomes(t, "ended", call[t].tries, call[t].began)
            \/ ran[t] + 1 # Collectors /\ Becomes(t, "delay", call[t].tries, call[t].began)
         /\ ran' = [ran EXCEPT ![t] = ran[t] + 1]
         /\ ended' = [ended EXCEPT ![t] = now]
         /\ UNCHANGED <<pingRest, done, closed>>
<1>1. t \in Caller /\ {"ended", "delay"} \subseteq Stages
  BY CallersAssumption DEF Stages
<1> QED BY <1>1, GotoBecomes DEF CollectorReturns, TypeOK

\* A scrape ends, or goes on.
LEMMA ScrapeEffect ==
  ASSUME TypeOK, NEW s \in Scrape, ScrapeMoves(s)
  PROVE  /\ \/ call[s].at = "up" /\ Becomes(s, "collecting", call[s].tries, call[s].began)
            \/ call[s].at \in {"down", "collecting"} /\ call' = [call EXCEPT ![s] = Over]
         /\ UNCHANGED <<pingRest, warmupVars>>
<1>1. s \in Caller /\ "collecting" \in Stages
  BY CallersAssumption DEF Stages
<1> QED BY <1>1, GotoBecomes DEF ScrapeMoves, ScrapeDown, ScrapeCollects, ScrapeReturns, At

LEMMA OverIsCall == Over \in Call /\ Over.at = "ended" /\ Over.began = Never
BY Times, BoundsAssumption DEF Over, Idle, Call, NoDeadline

LEMMA TimeoutIsNat ==
  ASSUME TypeOK, NEW header \in Header
  PROVE  /\ Timeout(header) \in Nat
         /\ global.timeout > 0 => Timeout(header) <= now + global.timeout
<1>1. header \in Nat /\ now \in Nat /\ MaxTime \in Nat
  BY HeaderAssumption, BoundsAssumption DEF TypeOK, PingTypeOK
<1> QED BY <1>1, GlobalFields DEF Timeout, NoDeadline

LEMMA ServeEffect ==
  ASSUME TypeOK, NEW s \in Scrape, Serve(s)
  PROVE  /\ done /\ call[s].at = "idle"
         /\ call' \in [Caller -> Call]
         /\ call'[s].at = "lock" /\ call'[s].on \in Target /\ call'[s].tries = call[s].tries
         /\ call'[s].began = call[s].began
         /\ global.timeout > 0 => call'[s].deadline <= now + global.timeout
         /\ \A q \in Caller \ {s} : call'[q] = call[q]
         /\ UNCHANGED <<pingRest, warmupVars>>
<1>1. s \in Caller /\ call \in [Caller -> Call] /\ call[s] \in Call
  BY CallersAssumption DEF TypeOK, PingTypeOK
<1>2. PICK t \in global.targets, header \in Header :
        call' = [call EXCEPT ![s].at = "lock", ![s].on = t, ![s].deadline = Timeout(header)]
  BY DEF Serve
<1>3. Timeout(header) \in Nat /\ t \in Target
  BY TimeoutIsNat, GlobalFields
<1>4. call' = [call EXCEPT ![s] = [call[s] EXCEPT !.at = "lock", !.on = t, !.deadline = Timeout(header)]]
  BY <1>1, <1>2 DEF Call
<1>5. [call[s] EXCEPT !.at = "lock", !.on = t, !.deadline = Timeout(header)] \in Call
  BY <1>1, <1>3 DEF Call
<1>6. call' \in [Caller -> Call] /\ \A q \in Caller \ {s} : call'[q] = call[q]
  BY <1>1, <1>4, <1>5
<1>7. /\ call'[s].at = "lock" /\ call'[s].on = t /\ call'[s].deadline = Timeout(header)
      /\ call'[s].tries = call[s].tries /\ call'[s].began = call[s].began
  BY <1>1, <1>4 DEF Call
<1> QED BY <1>3, <1>6, <1>7, TimeoutIsNat DEF Serve, At

\* Every step keeps the types.
LEMMA TypeOKStep == TypeOK /\ Placed /\ Delayed /\ [Next]_vars => TypeOK'
<1> SUFFICES ASSUME TypeOK, Placed, Delayed, [Next]_vars PROVE TypeOK'
  OBVIOUS
<1> USE DEF TypeOK, PingTypeOK, pool, pingHistory, pingRest, warmupVars, pingVars
<1>1. ASSUME NEW p \in Caller, PingLock(p), UNCHANGED warmupVars PROVE TypeOK'
  <2>1. call' \in [Caller -> Call]
    BY <1>1, LockEffect DEF Becomes
  <2>2. mu' \in [Target -> Caller \cup {Nil, Closer}]
    BY <1>1, LockEffect DEF TypeOK, PingTypeOK
  <2>3. steady' \subseteq Caller
    BY <1>1, LockEffect DEF TypeOK, PingTypeOK
  <2> QED BY <1>1, <2>1, <2>2, <2>3, LockEffect
<1>2. ASSUME NEW p \in Caller, Register(p), UNCHANGED warmupVars PROVE TypeOK'
  <2>1. call[p].on \in Target /\ Host[call[p].on] \in {Host[t] : t \in Target}
    BY <1>2, Certificates DEF Register, At, Placed
  <2>2. tls' \in [{Host[t] : t \in Target} -> {"unused", "failed"} \cup {Certificate[t] : t \in Target}]
    BY <1>2, <2>1 DEF Register
  <2> QED BY <1>2, <2>2 DEF Register
<1>3. ASSUME NEW p \in Caller, Quits(p), UNCHANGED warmupVars PROVE TypeOK'
  <2>1. call' \in [Caller -> Call]
    BY <1>3, QuitEffect DEF Becomes
  <2>2. mu' \in [Target -> Caller \cup {Nil, Closer}]
    BY <1>3, QuitEffect DEF TypeOK, PingTypeOK
  <2>3. tls' \in [{Host[t] : t \in Target} -> {"unused", "failed"} \cup {Certificate[t] : t \in Target}]
    <3>1. CASE tls' = tls
      BY <3>1
    <3>2. CASE tls' = [tls EXCEPT ![Host[call[p].on]] = "failed"]
      BY <3>2
    <3> QED BY <1>3, <3>1, <3>2, QuitEffect
  <2> QED BY <1>3, <2>1, <2>2, <2>3, QuitEffect
<1>4. ASSUME NEW p \in Caller, Open(p), UNCHANGED warmupVars PROVE TypeOK'
  <2>1. call' \in [Caller -> Call]
    BY <1>4, OpenEffect DEF Becomes
  <2>2. call[p].on \in Target /\ Host[call[p].on] \in {Host[t] : t \in Target}
    BY <1>4, OpenEffect, Certificates DEF Placed
  <2>3. conn'[call[p].on] \in {Certificate[t] : t \in Target}
    <3>1. CASE CustomTLS(call[p].on)
      BY <1>4, <2>2, <3>1, OpenEffect
    <3>2. CASE ~ CustomTLS(call[p].on)
      BY <1>4, <2>2, <3>2, OpenEffect, Certificates DEF CustomTLS
    <3> QED BY <3>1, <3>2
  <2>4. conn' \in [Target -> {Nil} \cup {Certificate[t] : t \in Target}]
    BY <1>4, <2>2, <2>3, OpenEffect
  <2> QED BY <1>4, <2>1, <2>4, OpenEffect
<1>5. ASSUME NEW p \in Caller, LoopOver(p), UNCHANGED warmupVars PROVE TypeOK'
  <2>1. call' \in [Caller -> Call]
    BY <1>5, LoopEffect DEF Becomes
  <2>2. mu' \in [Target -> Caller \cup {Nil, Closer}]
    BY <1>5, LoopEffect DEF TypeOK, PingTypeOK
  <2>3. now \in Never .. MaxTime /\ call[p].began \in Never .. MaxTime
    <3>1. call[p] \in Call
      OBVIOUS
    <3> QED BY <3>1, Times DEF Call
  <2>4. lastPing' \in [Target -> Never .. MaxTime] /\ answered' \in [Target -> Never .. MaxTime]
    BY <1>5, <2>3, LoopEffect
  <2> QED BY <1>5, <2>1, <2>2, <2>4, LoopEffect
<1>6. ASSUME NEW p \in Caller, PingBadConn(p), UNCHANGED warmupVars PROVE TypeOK'
  <2>1. call' \in [Caller -> Call]
    BY <1>6, BadConnEffect DEF Becomes
  <2>2. mu' \in [Target -> Caller \cup {Nil, Closer}]
    BY <1>6, BadConnEffect DEF TypeOK, PingTypeOK
  <2>3. stale' \in [Target -> Nat]
    BY <1>6, BadConnEffect DEF Placed
  <2> QED BY <1>6, <2>1, <2>2, <2>3, BadConnEffect
<1>7. ASSUME NEW t \in Target, WarmupMoves(t) PROVE TypeOK'
  <2>1. call' \in [Caller -> Call]
    BY <1>7, WarmupEffect DEF Becomes
  <2> QED BY <1>7, <2>1, WarmupEffect
<1>8. ASSUME NEW t \in Target, CollectorReturns(t) PROVE TypeOK'
  <2>1. call' \in [Caller -> Call]
    BY <1>8, CollectorEffect DEF Becomes
  <2>2. ran' \in [Target -> 0 .. Collectors]
    BY <1>8, CollectorEffect, CollectorsAssumption DEF Delayed
  <2>3. ended' \in [Target -> Never .. MaxTime]
    BY <1>8, CollectorEffect, Times
  <2> QED BY <1>8, <2>1, <2>2, <2>3, CollectorEffect
<1>9. ASSUME NEW t \in Target, Closes(t) PROVE TypeOK'
  BY <1>9 DEF Closes, CloseTarget, CloseLock, TargetClosed, Close
<1>10. ASSUME NEW t \in Target, DatabaseChanges(t), UNCHANGED warmupVars PROVE TypeOK'
  <2>1. upsets' \in 0 .. MaxUpsets
    BY <1>10, BoundsAssumption DEF DatabaseChanges
  <2>2. db' \in [Target -> {"up", "down", "hung"}] /\ steady' \subseteq Caller
    BY <1>10 DEF DatabaseChanges
  <2> QED BY <1>10, <2>1, <2>2 DEF DatabaseChanges
<1>11. ASSUME NEW t \in Target, ConnectionsBreak(t), UNCHANGED warmupVars PROVE TypeOK'
  <2>1. upsets' \in 0 .. MaxUpsets
    BY <1>11, BoundsAssumption DEF ConnectionsBreak
  <2>2. stale' \in [Target -> Nat] /\ steady' \subseteq Caller
    BY <1>11, GlobalFields DEF ConnectionsBreak
  <2> QED BY <1>11, <2>1, <2>2 DEF ConnectionsBreak
<1>12. ASSUME NEW s \in Scrape, ScrapeMoves(s) PROVE TypeOK'
  <2>1. call' \in [Caller -> Call]
    BY <1>12, ScrapeEffect, OverIsCall DEF Becomes
  <2> QED BY <1>12, <2>1, ScrapeEffect
<1>13. ASSUME NEW s \in Scrape, Serve(s) PROVE TypeOK'
  <2> QED BY <1>13, ServeEffect
<1>14. CASE Finish
  BY <1>14 DEF Finish
<1>15. CASE Tick
  <2>1. now' \in 0 .. MaxTime
    BY <1>15, BoundsAssumption DEF Tick
  <2> QED BY <1>15, <2>1 DEF Tick
<1>16. CASE UNCHANGED vars
  BY <1>16 DEF vars
<1> QED BY <1>1, <1>2, <1>3, <1>4, <1>5, <1>6, <1>7, <1>8, <1>9, <1>10, <1>11, <1>12, <1>13, <1>14,
           <1>15, <1>16, NextCases DEF PingMoves

\* Callers keep their targets.
LEMMA PlacedStep == TypeOK /\ Placed /\ [Next]_vars => Placed'
<1> SUFFICES ASSUME TypeOK, Placed, [Next]_vars PROVE Placed'
  OBVIOUS
<1>0. call \in [Caller -> Call] /\ mu \in [Target -> Caller \cup {Nil, Closer}] /\ Scrape \cup Target = Caller /\ Scrape \cap Target = {}
  BY CallersAssumption, GlobalFields DEF TypeOK, PingTypeOK
<1> USE <1>0, CallersAssumption DEF Placed, Becomes, Inside, pool, pingHistory, pingRest, warmupVars,
                                    pingVars
<1>1. ASSUME NEW p \in Caller, PingLock(p), UNCHANGED warmupVars PROVE Placed'
  BY <1>1, LockEffect DEF Verdict
<1>2. ASSUME NEW p \in Caller, Register(p), UNCHANGED warmupVars PROVE Placed'
  BY <1>2 DEF Register, At
<1>3. ASSUME NEW p \in Caller, Quits(p), UNCHANGED warmupVars PROVE Placed'
  BY <1>3, QuitEffect
<1>4. ASSUME NEW p \in Caller, Open(p), UNCHANGED warmupVars PROVE Placed'
  BY <1>4, OpenEffect
<1>5. ASSUME NEW p \in Caller, LoopOver(p), UNCHANGED warmupVars PROVE Placed'
  BY <1>5, LoopEffect DEF Verdict
<1>6. ASSUME NEW p \in Caller, PingBadConn(p), UNCHANGED warmupVars PROVE Placed'
  BY <1>6, BadConnEffect
<1>7. ASSUME NEW t \in Target, WarmupMoves(t) PROVE Placed'
  BY <1>7, WarmupEffect
<1>8. ASSUME NEW t \in Target, CollectorReturns(t) PROVE Placed'
  BY <1>8, CollectorEffect
<1>9. ASSUME NEW t \in Target, Closes(t) PROVE Placed'
  BY <1>9 DEF Closes, CloseTarget, CloseLock, TargetClosed, Close
<1>10. ASSUME NEW t \in Target, DatabaseChanges(t), UNCHANGED warmupVars PROVE Placed'
  BY <1>10 DEF DatabaseChanges
<1>11. ASSUME NEW t \in Target, ConnectionsBreak(t), UNCHANGED warmupVars PROVE Placed'
  BY <1>11 DEF ConnectionsBreak
<1>12. ASSUME NEW s \in Scrape, ScrapeMoves(s) PROVE Placed'
  BY <1>12, ScrapeEffect, OverIsCall
<1>13. ASSUME NEW s \in Scrape, Serve(s) PROVE Placed'
  BY <1>13, ServeEffect
<1>14. CASE Finish
  BY <1>14 DEF Finish
<1>15. CASE Tick
  BY <1>15 DEF Tick
<1>16. CASE UNCHANGED vars
  BY <1>16 DEF vars
<1> QED BY <1>1, <1>2, <1>3, <1>4, <1>5, <1>6, <1>7, <1>8, <1>9, <1>10, <1>11, <1>12, <1>13, <1>14,
           <1>15, <1>16, NextCases DEF PingMoves

\* The lock passes from one caller to the next.
LEMMA LockedStep == TypeOK /\ Placed /\ Locked /\ [Next]_vars => Locked'
<1> SUFFICES ASSUME TypeOK, Placed, Locked, [Next]_vars PROVE Locked'
  OBVIOUS
<1>0. call \in [Caller -> Call] /\ mu \in [Target -> Caller \cup {Nil, Closer}] /\ Scrape \cup Target = Caller /\ Scrape \cap Target = {}
  BY CallersAssumption, GlobalFields DEF TypeOK, PingTypeOK
<1> USE <1>0, CallersAssumption, CallerAssumption DEF Placed, Locked, Becomes, Inside, pool,
          pingHistory, pingRest, warmupVars, pingVars
<1>1. ASSUME NEW p \in Caller, PingLock(p), UNCHANGED warmupVars PROVE Locked'
  BY <1>1, LockEffect DEF Verdict
<1>2. ASSUME NEW p \in Caller, Register(p), UNCHANGED warmupVars PROVE Locked'
  BY <1>2 DEF Register, At
<1>3. ASSUME NEW p \in Caller, Quits(p), UNCHANGED warmupVars PROVE Locked'
  BY <1>3, QuitEffect
<1>4. ASSUME NEW p \in Caller, Open(p), UNCHANGED warmupVars PROVE Locked'
  BY <1>4, OpenEffect
<1>5. ASSUME NEW p \in Caller, LoopOver(p), UNCHANGED warmupVars PROVE Locked'
  BY <1>5, LoopEffect DEF Verdict
<1>6. ASSUME NEW p \in Caller, PingBadConn(p), UNCHANGED warmupVars PROVE Locked'
  BY <1>6, BadConnEffect
<1>7. ASSUME NEW t \in Target, WarmupMoves(t) PROVE Locked'
  BY <1>7, WarmupEffect
<1>8. ASSUME NEW t \in Target, CollectorReturns(t) PROVE Locked'
  BY <1>8, CollectorEffect
<1>9. ASSUME NEW t \in Target, Closes(t) PROVE Locked'
  BY <1>9 DEF Closes, CloseTarget, CloseLock, TargetClosed, Close
<1>10. ASSUME NEW t \in Target, DatabaseChanges(t), UNCHANGED warmupVars PROVE Locked'
  BY <1>10 DEF DatabaseChanges
<1>11. ASSUME NEW t \in Target, ConnectionsBreak(t), UNCHANGED warmupVars PROVE Locked'
  BY <1>11 DEF ConnectionsBreak
<1>12. ASSUME NEW s \in Scrape, ScrapeMoves(s) PROVE Locked'
  BY <1>12, ScrapeEffect, OverIsCall
<1>13. ASSUME NEW s \in Scrape, Serve(s) PROVE Locked'
  BY <1>13, ServeEffect
<1>14. CASE Finish
  BY <1>14 DEF Finish
<1>15. CASE Tick
  BY <1>15 DEF Tick
<1>16. CASE UNCHANGED vars
  BY <1>16 DEF vars
<1> QED BY <1>1, <1>2, <1>3, <1>4, <1>5, <1>6, <1>7, <1>8, <1>9, <1>10, <1>11, <1>12, <1>13, <1>14,
           <1>15, <1>16, NextCases DEF PingMoves

\* A pool is opened with what is registered, and closed under nobody.
LEMMA PooledStep == TypeOK /\ Placed /\ Locked /\ Pooled /\ [Next]_vars => Pooled'
<1> SUFFICES ASSUME TypeOK, Placed, Locked, Pooled, [Next]_vars PROVE Pooled'
  OBVIOUS
<1>0. call \in [Caller -> Call] /\ mu \in [Target -> Caller \cup {Nil, Closer}] /\ Scrape \cup Target = Caller /\ Scrape \cap Target = {}
      /\ conn \in [Target -> {Nil} \cup {Certificate[t] : t \in Target}] /\ stale \in [Target -> Nat]
      /\ tls \in [{Host[t] : t \in Target} -> {"unused", "failed"} \cup {Certificate[t] : t \in Target}]
      /\ global.maxConns \in Int
  BY CallersAssumption, GlobalFields DEF TypeOK, PingTypeOK
<1> USE <1>0, CertificateAssumption, CallerAssumption DEF Placed, Locked, Pooled, Becomes, Inside, pool,
          pingHistory, pingRest, warmupVars, pingVars
<1>1. ASSUME NEW p \in Caller, PingLock(p), UNCHANGED warmupVars PROVE Pooled'
  <2>1. \A t \in Target : conn'[t] # Nil => conn'[t] = IF CustomTLS(t) THEN tls'[Host[t]] ELSE Plain
    BY <1>1, LockEffect DEF Verdict
  <2>2. ASSUME NEW q \in Caller, call'[q].at \in {"first", "again"} PROVE conn'[call'[q].on] # Nil
    <3>1. CASE q = p
      BY <1>1, <2>2, <3>1, LockEffect DEF Verdict
    <3>2. CASE q # p
      BY <1>1, <2>2, <3>2, LockEffect DEF Verdict
    <3> QED BY <3>1, <3>2
  <2>3. \A t \in Target : global'.maxConns > 0 => stale'[t] <= global'.maxConns
    BY <1>1, LockEffect DEF Verdict
  <2> QED BY <2>1, <2>2, <2>3 DEF CustomTLS
<1>2. ASSUME NEW p \in Caller, Register(p), UNCHANGED warmupVars PROVE Pooled'
  BY <1>2 DEF Register, At
<1>3. ASSUME NEW p \in Caller, Quits(p), UNCHANGED warmupVars PROVE Pooled'
  <2>1. conn' = conn /\ stale' = stale /\ global' = global /\ call'[p].at = "down" /\ \A q \in Caller \ {p} : call'[q] = call[q]
    BY <1>3, QuitEffect
  <2>2. ASSUME NEW t \in Target, conn[t] # Nil, CustomTLS(t) PROVE tls'[Host[t]] = tls[Host[t]]
    <3>1. tls[Host[t]] # "unused"
      BY <2>2
    <3>2. CASE tls' = tls
      BY <3>2
    <3>3. CASE tls[Host[call[p].on]] = "unused" /\ tls' = [tls EXCEPT ![Host[call[p].on]] = "failed"]
      BY <3>1, <3>3, Certificates
    <3>4. \/ tls' = tls
          \/ tls[Host[call[p].on]] = "unused" /\ tls' = [tls EXCEPT ![Host[call[p].on]] = "failed"]
      BY <1>3, QuitEffect
    <3> QED BY <3>2, <3>3, <3>4
  <2>3. \A t \in Target : conn'[t] # Nil => conn'[t] = IF CustomTLS(t) THEN tls'[Host[t]] ELSE Plain
    BY <2>1, <2>2 DEF CustomTLS
  <2> HIDE <1>3
  <2>4. ASSUME NEW q \in Caller, call'[q].at \in {"first", "again"} PROVE conn'[call'[q].on] # Nil
    BY <2>1, <2>4
  <2> QED BY <2>1, <2>3, <2>4 DEF CustomTLS
<1>4. ASSUME NEW p \in Caller, Open(p), UNCHANGED warmupVars PROVE Pooled'
  <2>1. call[p].on \in Target
    BY <1>4, OpenEffect
  <2>2. LET c == IF CustomTLS(call[p].on) THEN tls[Host[call[p].on]] ELSE Plain
        IN c # Nil /\ conn' = [conn EXCEPT ![call[p].on] = c]
    <3>1. CASE CustomTLS(call[p].on)
      <4>1. tls[Host[call[p].on]] \in {Certificate[u] : u \in Target}
        BY <1>4, <2>1, <3>1, Certificates, OpenEffect
      <4>2. Nil \notin {Certificate[u] : u \in Target}
        BY Certificates
      <4> QED BY <1>4, <3>1, <4>1, <4>2, OpenEffect
    <3>2. CASE ~ CustomTLS(call[p].on)
      <4>1. Plain = Certificate[call[p].on]
        BY <3>2 DEF CustomTLS
      <4> QED BY <1>4, <2>1, <3>2, <4>1, Certificates, OpenEffect
    <3> QED BY <3>1, <3>2
  <2>3. tls' = tls /\ stale' = stale /\ global' = global /\ call'[p].on = call[p].on /\ \A q \in Caller \ {p} : call'[q] = call[q]
    BY <1>4, OpenEffect
  <2> HIDE <1>4
  <2>4. ASSUME NEW q \in Caller, call'[q].at \in {"first", "again"} PROVE conn'[call'[q].on] # Nil
    <3>1. CASE q = p
      BY <2>1, <2>2, <2>3, <3>1
    <3>2. CASE q # p
      BY <2>2, <2>3, <2>4, <3>2
    <3> QED BY <3>1, <3>2
  <2> QED BY <2>1, <2>2, <2>3, <2>4 DEF CustomTLS
<1>5. ASSUME NEW p \in Caller, LoopOver(p), UNCHANGED warmupVars PROVE Pooled'
  <2>1. \A t \in Target : conn'[t] # Nil => conn'[t] = IF CustomTLS(t) THEN tls'[Host[t]] ELSE Plain
    BY <1>5, LoopEffect DEF Verdict
  <2>2. ASSUME NEW q \in Caller, call'[q].at \in {"first", "again"} PROVE conn'[call'[q].on] # Nil
    <3>1. CASE q = p
      BY <1>5, <2>2, <3>1, LoopEffect DEF Verdict
    <3>2. CASE q # p
      BY <1>5, <2>2, <3>2, LoopEffect DEF Verdict
    <3> QED BY <3>1, <3>2
  <2>3. \A t \in Target : global'.maxConns > 0 => stale'[t] <= global'.maxConns
    BY <1>5, LoopEffect DEF Verdict
  <2> QED BY <2>1, <2>2, <2>3 DEF CustomTLS
<1>6. ASSUME NEW p \in Caller, PingBadConn(p), UNCHANGED warmupVars PROVE Pooled'
  <2>1. \A t \in Target : conn'[t] # Nil => conn'[t] = IF CustomTLS(t) THEN tls'[Host[t]] ELSE Plain
    BY <1>6, BadConnEffect
  <2>2. ASSUME NEW q \in Caller, call'[q].at \in {"first", "again"} PROVE conn'[call'[q].on] # Nil
    <3>1. CASE q = p
      BY <1>6, <2>2, <3>1, BadConnEffect
    <3>2. CASE q # p
      BY <1>6, <2>2, <3>2, BadConnEffect
    <3> QED BY <3>1, <3>2
  <2>3. \A t \in Target : global'.maxConns > 0 => stale'[t] <= global'.maxConns
    BY <1>6, BadConnEffect
  <2> QED BY <2>1, <2>2, <2>3 DEF CustomTLS
<1>7. ASSUME NEW t \in Target, WarmupMoves(t) PROVE Pooled'
  <2>1. \A u \in Target : conn'[u] # Nil => conn'[u] = IF CustomTLS(u) THEN tls'[Host[u]] ELSE Plain
    BY <1>7, WarmupEffect
  <2>2. ASSUME NEW q \in Caller, call'[q].at \in {"first", "again"} PROVE conn'[call'[q].on] # Nil
    <3>1. CASE q = t
      BY <1>7, <2>2, <3>1, WarmupEffect
    <3>2. CASE q # t
      BY <1>7, <2>2, <3>2, WarmupEffect
    <3> QED BY <3>1, <3>2
  <2>3. \A u \in Target : global'.maxConns > 0 => stale'[u] <= global'.maxConns
    BY <1>7, WarmupEffect
  <2> QED BY <2>1, <2>2, <2>3 DEF CustomTLS
<1>8. ASSUME NEW t \in Target, CollectorReturns(t) PROVE Pooled'
  <2>1. \A u \in Target : conn'[u] # Nil => conn'[u] = IF CustomTLS(u) THEN tls'[Host[u]] ELSE Plain
    BY <1>8, CollectorEffect
  <2>2. ASSUME NEW q \in Caller, call'[q].at \in {"first", "again"} PROVE conn'[call'[q].on] # Nil
    <3>1. CASE q = t
      BY <1>8, <2>2, <3>1, CollectorEffect
    <3>2. CASE q # t
      BY <1>8, <2>2, <3>2, CollectorEffect
    <3> QED BY <3>1, <3>2
  <2>3. \A u \in Target : global'.maxConns > 0 => stale'[u] <= global'.maxConns
    BY <1>8, CollectorEffect
  <2> QED BY <2>1, <2>2, <2>3 DEF CustomTLS
<1>9. ASSUME NEW t \in Target, Closes(t) PROVE Pooled'
  <2>1. /\ UNCHANGED <<global, tls, call>>
        /\ \/ UNCHANGED pool
           \/ mu[t] = Closer /\ conn' = [conn EXCEPT ![t] = Nil] /\ stale' = [stale EXCEPT ![t] = 0]
    BY <1>9 DEF Closes, CloseTarget, CloseLock, TargetClosed, Close
  <2>2. ASSUME NEW q \in Caller, call[q].at \in {"first", "again"}, mu[t] = Closer PROVE call[q].on # t
    BY <2>2
  <2>3. CASE UNCHANGED pool
    BY <2>1, <2>3 DEF CustomTLS
  <2>4. CASE mu[t] = Closer /\ conn' = [conn EXCEPT ![t] = Nil] /\ stale' = [stale EXCEPT ![t] = 0]
    BY <2>1, <2>2, <2>4 DEF CustomTLS
  <2> QED BY <2>1, <2>3, <2>4
<1>10. ASSUME NEW t \in Target, DatabaseChanges(t), UNCHANGED warmupVars PROVE Pooled'
  BY <1>10 DEF DatabaseChanges
<1>11. ASSUME NEW t \in Target, ConnectionsBreak(t), UNCHANGED warmupVars PROVE Pooled'
  BY <1>11 DEF ConnectionsBreak
<1>12. ASSUME NEW s \in Scrape, ScrapeMoves(s) PROVE Pooled'
  <2>1. \A t \in Target : conn'[t] # Nil => conn'[t] = IF CustomTLS(t) THEN tls'[Host[t]] ELSE Plain
    BY <1>12, ScrapeEffect, OverIsCall
  <2>2. ASSUME NEW q \in Caller, call'[q].at \in {"first", "again"} PROVE conn'[call'[q].on] # Nil
    <3>1. CASE q = s
      BY <1>12, <2>2, <3>1, ScrapeEffect, OverIsCall
    <3>2. CASE q # s
      BY <1>12, <2>2, <3>2, ScrapeEffect, OverIsCall
    <3> QED BY <3>1, <3>2
  <2>3. \A t \in Target : global'.maxConns > 0 => stale'[t] <= global'.maxConns
    BY <1>12, ScrapeEffect, OverIsCall
  <2> QED BY <2>1, <2>2, <2>3 DEF CustomTLS
<1>13. ASSUME NEW s \in Scrape, Serve(s) PROVE Pooled'
  <2>1. \A t \in Target : conn'[t] # Nil => conn'[t] = IF CustomTLS(t) THEN tls'[Host[t]] ELSE Plain
    BY <1>13, ServeEffect
  <2>2. ASSUME NEW q \in Caller, call'[q].at \in {"first", "again"} PROVE conn'[call'[q].on] # Nil
    <3>1. CASE q = s
      BY <1>13, <2>2, <3>1, ServeEffect
    <3>2. CASE q # s
      BY <1>13, <2>2, <3>2, ServeEffect
    <3> QED BY <3>1, <3>2
  <2>3. \A t \in Target : global'.maxConns > 0 => stale'[t] <= global'.maxConns
    BY <1>13, ServeEffect
  <2> QED BY <2>1, <2>2, <2>3 DEF CustomTLS
<1>14. CASE Finish
  BY <1>14 DEF Finish
<1>15. CASE Tick
  BY <1>15 DEF Tick
<1>16. CASE UNCHANGED vars
  BY <1>16 DEF vars
<1> QED BY <1>1, <1>2, <1>3, <1>4, <1>5, <1>6, <1>7, <1>8, <1>9, <1>10, <1>11, <1>12, <1>13, <1>14,
           <1>15, <1>16, NextCases DEF PingMoves

\* A loop has more pings than there are bad connections.
LEMMA CountedStep == TypeOK /\ Placed /\ Locked /\ Pooled /\ Counted /\ [Next]_vars => Counted'
<1> SUFFICES ASSUME TypeOK, Placed, Locked, Pooled, Counted, [Next]_vars PROVE Counted'
  OBVIOUS
<1>0. call \in [Caller -> Call] /\ mu \in [Target -> Caller \cup {Nil, Closer}] /\ Scrape \cup Target = Caller /\ Scrape \cap Target = {}
      /\ stale \in [Target -> Nat] /\ db \in [Target -> {"up", "down", "hung"}] /\ steady \subseteq Caller
      /\ global.maxConns \in Int
  BY CallersAssumption, GlobalFields DEF TypeOK, PingTypeOK
<1> USE <1>0 DEF Placed, Locked, Pooled, Counted, OnTarget, Becomes, Inside, pool, pingHistory,
                 pingRest, warmupVars, pingVars
<1>1. ASSUME NEW p \in Caller, PingLock(p), UNCHANGED warmupVars PROVE Counted'
  BY <1>1, LockEffect DEF Verdict
<1>2. ASSUME NEW p \in Caller, Register(p), UNCHANGED warmupVars PROVE Counted'
  BY <1>2 DEF Register, At
<1>3. ASSUME NEW p \in Caller, Quits(p), UNCHANGED warmupVars PROVE Counted'
  <2>1. call[p].at \in Inside /\ call'[p].at = "down" /\ call'[p].began = Never /\ \A q \in Caller \ {p} : call'[q] = call[q]
    BY <1>3, QuitEffect
  <2>2. UNCHANGED <<global, now, db, stale, lastPing, steady, answered, warmupVars>>
    BY <1>3, QuitEffect
  <2> QED BY <2>1, <2>2
<1>4. ASSUME NEW p \in Caller, Open(p), UNCHANGED warmupVars PROVE Counted'
  BY <1>4, OpenEffect
<1>5. ASSUME NEW p \in Caller, LoopOver(p), UNCHANGED warmupVars PROVE Counted'
  BY <1>5, LoopEffect DEF Verdict
<1>6. ASSUME NEW p \in Caller, PingBadConn(p), UNCHANGED warmupVars PROVE Counted'
  <2>1. call[p].at \in {"first", "again"} /\ call[p].tries > 0 /\ call[p].on \in Target /\ call'[p].on = call[p].on
    BY <1>6, BadConnEffect
  <2>2. stale' = [stale EXCEPT ![call[p].on] = stale[call[p].on] - 1]
    BY <1>6, BadConnEffect
  <2>3. UNCHANGED <<global, now, db, steady, lastPing, answered, warmupVars>> /\ \A q \in Caller \ {p} : call'[q] = call[q]
    BY <1>6, BadConnEffect
  <2>4. \/ call'[p].at = "down" /\ call'[p].began = Never
        \/ call'[p].at = call[p].at /\ call'[p].tries = call[p].tries - 1 /\ call[p].tries > 1 /\ call'[p].began = call[p].began
    BY <1>6, BadConnEffect
  <2>5. ASSUME NEW q \in Caller PROVE call[q] \in Call /\ call[q].tries \in Int
    BY DEF Call
  <2>6. ASSUME NEW q \in Caller, call'[q].at \in {"first", "again"}
        PROVE  /\ global.maxConns >= 0 => call'[q].tries > 0
               /\ global.maxConns < 0 => call'[q].tries <= 0
    BY <2>1, <2>3, <2>4, <2>5, <2>6
  <2>7. ASSUME NEW q \in Caller, q \in steady, call'[q].at \in Inside PROVE db[call'[q].on] = "up"
    BY <2>1, <2>3, <2>4, <2>7
  <2>8. ASSUME NEW q \in Caller, q \in steady, call'[q].at \in {"first", "again"}, global.maxConns > 0
        PROVE  stale'[call'[q].on] < call'[q].tries
    <3>1. CASE q = p
      BY <2>1, <2>2, <2>3, <2>4, <2>5, <2>8, <3>1
    <3>2. CASE q # p
      <4>1. call'[q] = call[q] /\ call[q].on \in Target /\ stale[call[q].on] < call[q].tries
        BY <2>3, <2>8, <3>2
      <4>2. stale'[call[q].on] <= stale[call[q].on]
        BY <2>1, <2>2, <4>1
      <4>3. stale'[call[q].on] \in Int
        BY <2>1, <2>2, <4>1
      <4> QED BY <2>5, <4>1, <4>2, <4>3
    <3> QED BY <3>1, <3>2
  <2> QED BY <2>3, <2>6, <2>7, <2>8
<1>7. ASSUME NEW t \in Target, WarmupMoves(t) PROVE Counted'
  BY <1>7, WarmupEffect
<1>8. ASSUME NEW t \in Target, CollectorReturns(t) PROVE Counted'
  BY <1>8, CollectorEffect
<1>9. ASSUME NEW t \in Target, Closes(t) PROVE Counted'
  BY <1>9 DEF Closes, CloseTarget, CloseLock, TargetClosed, Close
<1>10. ASSUME NEW t \in Target, DatabaseChanges(t), UNCHANGED warmupVars PROVE Counted'
  BY <1>10 DEF DatabaseChanges
<1>11. ASSUME NEW t \in Target, ConnectionsBreak(t), UNCHANGED warmupVars PROVE Counted'
  BY <1>11 DEF ConnectionsBreak
<1>12. ASSUME NEW s \in Scrape, ScrapeMoves(s) PROVE Counted'
  BY <1>12, ScrapeEffect, OverIsCall
<1>13. ASSUME NEW s \in Scrape, Serve(s) PROVE Counted'
  BY <1>13, ServeEffect
<1>14. CASE Finish
  BY <1>14 DEF Finish
<1>15. CASE Tick
  BY <1>15 DEF Tick
<1>16. CASE UNCHANGED vars
  BY <1>16 DEF vars
<1> QED BY <1>1, <1>2, <1>3, <1>4, <1>5, <1>6, <1>7, <1>8, <1>9, <1>10, <1>11, <1>12, <1>13, <1>14,
           <1>15, <1>16, NextCases DEF PingMoves

\* A ping that counts was answered when it is counted, or later.
LEMMA RecentStep == TypeOK /\ Placed /\ Counted /\ Recent /\ [Next]_vars => Recent'
<1> SUFFICES ASSUME TypeOK, Placed, Counted, Recent, [Next]_vars PROVE Recent'
  OBVIOUS
<1>0. call \in [Caller -> Call] /\ mu \in [Target -> Caller \cup {Nil, Closer}] /\ Scrape \cup Target = Caller /\ Scrape \cap Target = {}
      /\ now \in Nat /\ lastPing \in [Target -> Int] /\ answered \in [Target -> Int]
      /\ (\A q \in Caller : call[q].began \in Int /\ call[q].tries \in Int)
      /\ global.maxConns \in Int /\ Never \in Int /\ Never < 0
  BY CallersAssumption, GlobalFields DEF TypeOK, PingTypeOK, Call, Never
<1> USE <1>0 DEF Placed, Counted, Recent, Becomes, Inside, pool, pingHistory, pingRest, warmupVars,
                 pingVars
<1>1. ASSUME NEW p \in Caller, PingLock(p), UNCHANGED warmupVars PROVE Recent'
  <2>1. /\ call'[p].began \in {call[p].began, now, Never}
        /\ UNCHANGED <<global, now, lastPing, answered>> /\ \A q \in Caller \ {p} : call'[q] = call[q]
    BY <1>1, LockEffect
  <2> QED BY <2>1
<1>2. ASSUME NEW p \in Caller, Register(p), UNCHANGED warmupVars PROVE Recent'
  BY <1>2 DEF Register, At
<1>3. ASSUME NEW p \in Caller, Quits(p), UNCHANGED warmupVars PROVE Recent'
  <2>1. call[p].at \in Inside /\ call'[p].at = "down" /\ call'[p].began = Never /\ \A q \in Caller \ {p} : call'[q] = call[q]
    BY <1>3, QuitEffect
  <2>2. UNCHANGED <<global, now, db, stale, lastPing, steady, answered, warmupVars>>
    BY <1>3, QuitEffect
  <2> QED BY <2>1, <2>2
<1>4. ASSUME NEW p \in Caller, Open(p), UNCHANGED warmupVars PROVE Recent'
  BY <1>4, OpenEffect
<1>5. ASSUME NEW p \in Caller, LoopOver(p), UNCHANGED warmupVars PROVE Recent'
  <2>1. call[p].at \in {"first", "again"} /\ call[p].on \in Target
    BY <1>5, LoopEffect
  <2>2. /\ call'[p].began \in {now, Never}
        /\ UNCHANGED <<global, now>> /\ \A q \in Caller \ {p} : call'[q] = call[q]
    BY <1>5, LoopEffect
  <2>3. \E i \in {now, call[p].began} : lastPing' = [lastPing EXCEPT ![call[p].on] = i]
    BY <1>5, LoopEffect
  <2>4. global.maxConns >= 0 => answered' = [answered EXCEPT ![call[p].on] = now]
    BY <1>5, <2>1, LoopEffect
  <2>5. \A q \in Caller : call'[q].began <= now'
    BY <2>2
  <2>6. ASSUME NEW t \in Target, global.maxConns >= 0, lastPing'[t] # Never
        PROVE  answered'[t] # Never /\ lastPing'[t] <= answered'[t]
    <3>1. CASE t = call[p].on
      BY <2>1, <2>3, <2>4, <2>6, <3>1
    <3>2. CASE t # call[p].on
      BY <2>1, <2>3, <2>4, <2>6, <3>2
    <3> QED BY <3>1, <3>2
  <2> QED BY <2>2, <2>5, <2>6
<1>6. ASSUME NEW p \in Caller, PingBadConn(p), UNCHANGED warmupVars PROVE Recent'
  <2>1. call[p].at \in {"first", "again"} /\ call[p].tries > 0 /\ call[p].on \in Target /\ call'[p].on = call[p].on
    BY <1>6, BadConnEffect
  <2>2. stale' = [stale EXCEPT ![call[p].on] = stale[call[p].on] - 1]
    BY <1>6, BadConnEffect
  <2>3. UNCHANGED <<global, now, db, steady, lastPing, answered, warmupVars>> /\ \A q \in Caller \ {p} : call'[q] = call[q]
    BY <1>6, BadConnEffect
  <2>4. \/ call'[p].at = "down" /\ call'[p].began = Never
        \/ call'[p].at = call[p].at /\ call'[p].tries = call[p].tries - 1 /\ call[p].tries > 1 /\ call'[p].began = call[p].began
    BY <1>6, BadConnEffect
  <2> QED BY <2>1, <2>3, <2>4
<1>7. ASSUME NEW t \in Target, WarmupMoves(t) PROVE Recent'
  BY <1>7, WarmupEffect
<1>8. ASSUME NEW t \in Target, CollectorReturns(t) PROVE Recent'
  BY <1>8, CollectorEffect
<1>9. ASSUME NEW t \in Target, Closes(t) PROVE Recent'
  BY <1>9 DEF Closes, CloseTarget, CloseLock, TargetClosed, Close
<1>10. ASSUME NEW t \in Target, DatabaseChanges(t), UNCHANGED warmupVars PROVE Recent'
  BY <1>10 DEF DatabaseChanges
<1>11. ASSUME NEW t \in Target, ConnectionsBreak(t), UNCHANGED warmupVars PROVE Recent'
  BY <1>11 DEF ConnectionsBreak
<1>12. ASSUME NEW s \in Scrape, ScrapeMoves(s) PROVE Recent'
  <2>1. /\ call'[s].began \in {call[s].began, Never}
        /\ UNCHANGED <<global, now, lastPing, answered>> /\ \A q \in Caller \ {s} : call'[q] = call[q]
    BY <1>12, ScrapeEffect, OverIsCall
  <2> QED BY <2>1
<1>13. ASSUME NEW s \in Scrape, Serve(s) PROVE Recent'
  BY <1>13, ServeEffect
<1>14. CASE Finish
  BY <1>14 DEF Finish
<1>15. CASE Tick
  <2>1. now' = now + 1 /\ UNCHANGED <<global, call, lastPing, answered>>
    BY <1>15 DEF Tick
  <2> QED BY <2>1
<1>16. CASE UNCHANGED vars
  BY <1>16 DEF vars
<1> QED BY <1>1, <1>2, <1>3, <1>4, <1>5, <1>6, <1>7, <1>8, <1>9, <1>10, <1>11, <1>12, <1>13, <1>14,
           <1>15, <1>16, NextCases DEF PingMoves

\* The gate opens after the last warmup.
LEMMA GatedStep == TypeOK /\ Placed /\ Locked /\ Gated /\ [Next]_vars => Gated'
<1> SUFFICES ASSUME TypeOK, Placed, Locked, Gated, [Next]_vars PROVE Gated'
  OBVIOUS
<1>0. call \in [Caller -> Call] /\ mu \in [Target -> Caller \cup {Nil, Closer}] /\ Scrape \cup Target = Caller /\ Scrape \cap Target = {}
      /\ now \in Nat /\ global.timeout \in Nat /\ done \in BOOLEAN
  BY CallersAssumption, GlobalFields DEF TypeOK, PingTypeOK
<1> USE <1>0 DEF Placed, Locked, Gated, AllWarm, At, Becomes, Inside, pool, pingHistory, pingRest,
                 warmupVars, pingVars
<1>1. ASSUME NEW p \in Caller, PingLock(p), UNCHANGED warmupVars PROVE Gated'
  BY <1>1, LockEffect DEF Verdict
<1>2. ASSUME NEW p \in Caller, Register(p), UNCHANGED warmupVars PROVE Gated'
  BY <1>2 DEF Register, At
<1>3. ASSUME NEW p \in Caller, Quits(p), UNCHANGED warmupVars PROVE Gated'
  <2>1. call[p].at \in Inside /\ call'[p].at = "down" /\ call'[p].began = Never /\ \A q \in Caller \ {p} : call'[q] = call[q]
    BY <1>3, QuitEffect
  <2>2. UNCHANGED <<global, now, db, stale, lastPing, steady, answered, warmupVars>>
    BY <1>3, QuitEffect
  <2> QED BY <2>1, <2>2
<1>4. ASSUME NEW p \in Caller, Open(p), UNCHANGED warmupVars PROVE Gated'
  BY <1>4, OpenEffect
<1>5. ASSUME NEW p \in Caller, LoopOver(p), UNCHANGED warmupVars PROVE Gated'
  BY <1>5, LoopEffect DEF Verdict
<1>6. ASSUME NEW p \in Caller, PingBadConn(p), UNCHANGED warmupVars PROVE Gated'
  <2>1. call[p].at \in {"first", "again"} /\ call[p].tries > 0 /\ call[p].on \in Target /\ call'[p].on = call[p].on
    BY <1>6, BadConnEffect
  <2>2. stale' = [stale EXCEPT ![call[p].on] = stale[call[p].on] - 1]
    BY <1>6, BadConnEffect
  <2>3. UNCHANGED <<global, now, db, steady, lastPing, answered, warmupVars>> /\ \A q \in Caller \ {p} : call'[q] = call[q]
    BY <1>6, BadConnEffect
  <2>4. \/ call'[p].at = "down" /\ call'[p].began = Never
        \/ call'[p].at = call[p].at /\ call'[p].tries = call[p].tries - 1 /\ call[p].tries > 1 /\ call'[p].began = call[p].began
    BY <1>6, BadConnEffect
  <2> QED BY <2>1, <2>3, <2>4
<1>7. ASSUME NEW t \in Target, WarmupMoves(t) PROVE Gated'
  BY <1>7, WarmupEffect
<1>8. ASSUME NEW t \in Target, CollectorReturns(t) PROVE Gated'
  BY <1>8, CollectorEffect
<1>9. ASSUME NEW t \in Target, Closes(t) PROVE Gated'
  BY <1>9 DEF Closes, CloseTarget, CloseLock, TargetClosed, Close
<1>10. ASSUME NEW t \in Target, DatabaseChanges(t), UNCHANGED warmupVars PROVE Gated'
  BY <1>10 DEF DatabaseChanges
<1>11. ASSUME NEW t \in Target, ConnectionsBreak(t), UNCHANGED warmupVars PROVE Gated'
  BY <1>11 DEF ConnectionsBreak
<1>12. ASSUME NEW s \in Scrape, ScrapeMoves(s) PROVE Gated'
  BY <1>12, ScrapeEffect, OverIsCall
<1>13. ASSUME NEW s \in Scrape, Serve(s) PROVE Gated'
  BY <1>13, ServeEffect
<1>14. CASE Finish
  BY <1>14 DEF Finish
<1>15. CASE Tick
  BY <1>15 DEF Tick
<1>16. CASE UNCHANGED vars
  BY <1>16 DEF vars
<1> QED BY <1>1, <1>2, <1>3, <1>4, <1>5, <1>6, <1>7, <1>8, <1>9, <1>10, <1>11, <1>12, <1>13, <1>14,
           <1>15, <1>16, NextCases DEF PingMoves

\* A warmup waits before its next collector.
LEMMA DelayedStep == TypeOK /\ Placed /\ Delayed /\ [Next]_vars => Delayed'
<1> SUFFICES ASSUME TypeOK, Placed, Delayed, [Next]_vars PROVE Delayed'
  OBVIOUS
<1>0. call \in [Caller -> Call] /\ mu \in [Target -> Caller \cup {Nil, Closer}] /\ Scrape \cup Target = Caller /\ Scrape \cap Target = {}
      /\ now \in Nat /\ global.delay \in Nat /\ ended \in [Target -> Never .. MaxTime]
      /\ ran \in [Target -> 0 .. Collectors]
  BY CallersAssumption, GlobalFields DEF TypeOK, PingTypeOK
<1> USE <1>0 DEF Placed, Delayed, Becomes, Inside, pool, pingHistory, pingRest, warmupVars, pingVars
<1>1. ASSUME NEW p \in Caller, PingLock(p), UNCHANGED warmupVars PROVE Delayed'
  BY <1>1, LockEffect DEF Verdict
<1>2. ASSUME NEW p \in Caller, Register(p), UNCHANGED warmupVars PROVE Delayed'
  BY <1>2 DEF Register, At
<1>3. ASSUME NEW p \in Caller, Quits(p), UNCHANGED warmupVars PROVE Delayed'
  <2>1. call[p].at \in Inside /\ call'[p].at = "down" /\ call'[p].began = Never /\ \A q \in Caller \ {p} : call'[q] = call[q]
    BY <1>3, QuitEffect
  <2>2. UNCHANGED <<global, now, db, stale, lastPing, steady, answered, warmupVars>>
    BY <1>3, QuitEffect
  <2> QED BY <2>1, <2>2
<1>4. ASSUME NEW p \in Caller, Open(p), UNCHANGED warmupVars PROVE Delayed'
  BY <1>4, OpenEffect
<1>5. ASSUME NEW p \in Caller, LoopOver(p), UNCHANGED warmupVars PROVE Delayed'
  BY <1>5, LoopEffect DEF Verdict
<1>6. ASSUME NEW p \in Caller, PingBadConn(p), UNCHANGED warmupVars PROVE Delayed'
  <2>1. call[p].at \in {"first", "again"} /\ call[p].tries > 0 /\ call[p].on \in Target /\ call'[p].on = call[p].on
    BY <1>6, BadConnEffect
  <2>2. stale' = [stale EXCEPT ![call[p].on] = stale[call[p].on] - 1]
    BY <1>6, BadConnEffect
  <2>3. UNCHANGED <<global, now, db, steady, lastPing, answered, warmupVars>> /\ \A q \in Caller \ {p} : call'[q] = call[q]
    BY <1>6, BadConnEffect
  <2>4. \/ call'[p].at = "down" /\ call'[p].began = Never
        \/ call'[p].at = call[p].at /\ call'[p].tries = call[p].tries - 1 /\ call[p].tries > 1 /\ call'[p].began = call[p].began
    BY <1>6, BadConnEffect
  <2> QED BY <2>1, <2>3, <2>4
<1>7. ASSUME NEW t \in Target, WarmupMoves(t) PROVE Delayed'
  BY <1>7, WarmupEffect
<1>8. ASSUME NEW t \in Target, CollectorReturns(t) PROVE Delayed'
  BY <1>8, CollectorEffect, CollectorsAssumption
<1>9. ASSUME NEW t \in Target, Closes(t) PROVE Delayed'
  BY <1>9 DEF Closes, CloseTarget, CloseLock, TargetClosed, Close
<1>10. ASSUME NEW t \in Target, DatabaseChanges(t), UNCHANGED warmupVars PROVE Delayed'
  BY <1>10 DEF DatabaseChanges
<1>11. ASSUME NEW t \in Target, ConnectionsBreak(t), UNCHANGED warmupVars PROVE Delayed'
  BY <1>11 DEF ConnectionsBreak
<1>12. ASSUME NEW s \in Scrape, ScrapeMoves(s) PROVE Delayed'
  BY <1>12, ScrapeEffect, OverIsCall
<1>13. ASSUME NEW s \in Scrape, Serve(s) PROVE Delayed'
  BY <1>13, ServeEffect
<1>14. CASE Finish
  BY <1>14 DEF Finish
<1>15. CASE Tick
  BY <1>15 DEF Tick
<1>16. CASE UNCHANGED vars
  BY <1>16 DEF vars
<1> QED BY <1>1, <1>2, <1>3, <1>4, <1>5, <1>6, <1>7, <1>8, <1>9, <1>10, <1>11, <1>12, <1>13, <1>14,
           <1>15, <1>16, NextCases DEF PingMoves

-----------------------------------------------------------------------------
(* The invariant                                                           *)

LEMMA InitIInv == Init => IInv
<1> SUFFICES ASSUME Init PROVE IInv
  OBVIOUS
<1> USE CallersAssumption
<1>0. 0 \in 0 .. MaxTime /\ 0 \in 0 .. MaxUpsets /\ 0 \in 0 .. Collectors /\ Never \in Never .. MaxTime
  BY Times, BoundsAssumption, CollectorsAssumption
<1>1. now = 0 /\ global \in Settings /\ upsets = 0
  BY DEF Init, PingInit
<1>2. global.timeout \in Nat /\ global.delay \in Nat /\ NoDeadline \in Nat
  BY <1>1, SettingsAssumption, BoundsAssumption DEF NoDeadline
<1>3. \A t \in Target : /\ call[t].at \in {"lock", "ended"} /\ call[t].on = t
                        /\ call[t].deadline = global.timeout /\ call[t].tries = 0 /\ call[t].began = Never
  BY DEF Init, Idle
<1>4. \A s \in Scrape : call[s] = Idle
  BY DEF Init
<1>5. call \in [Caller -> Call]
  <2>1. ASSUME NEW t \in Target PROVE call[t] \in Call
    <3>1. call[t] = [Idle EXCEPT !.at = IF t \in global.targets /\ global.delay > 0 THEN "lock" ELSE "ended", !.on = t, !.deadline = global.timeout]
      BY DEF Init
    <3>2. call[t] = [at |-> call[t].at, on |-> t, deadline |-> global.timeout, tries |-> 0, began |-> Never]
      BY <3>1 DEF Idle
    <3> QED BY <1>0, <1>2, <1>3, <3>2 DEF Call
  <2>2. ASSUME NEW s \in Scrape PROVE call[s] \in Call
    BY <1>0, <1>2, <1>4 DEF Idle, Call
  <2> QED BY <2>1, <2>2 DEF Init
<1>6. TypeOK
  <2>1. tls \in [{Host[t] : t \in Target} -> {"unused", "failed"} \cup {Certificate[t] : t \in Target}]
    BY DEF Init, PingInit
  <2>2. ran \in [Target -> 0 .. Collectors]
    BY <1>0 DEF Init
  <2> QED BY <1>0, <1>1, <1>5, <2>1, <2>2 DEF Init, PingInit, TypeOK, PingTypeOK
<1>7. \A p \in Caller : call[p].at \in {"idle", "lock", "ended"} /\ call[p].began = Never
  BY <1>3, <1>4 DEF Idle
<1>8. Placed
  BY <1>3, <1>4, <1>7 DEF Placed, Idle
<1>9. Locked
  BY <1>7 DEF Init, PingInit, Locked, Inside
<1>10. Pooled
  <2>1. \A t \in Target : conn[t] = Nil /\ stale[t] = 0
    BY DEF Init, PingInit
  <2>2. global.maxConns \in Int
    BY <1>6, GlobalFields
  <2> QED BY <1>7, <2>1, <2>2 DEF Pooled
<1>11. Counted
  BY <1>7 DEF Counted, Inside
<1>12. Recent
  <2>1. \A t \in Target : lastPing[t] = Never
    BY DEF Init, PingInit
  <2>2. Never <= 0
    BY DEF Never
  <2> QED BY <1>1, <1>7, <2>1, <2>2 DEF Recent
<1>13. Gated
  <2>1. done = (global.delay = 0)
    BY DEF Init
  <2>2. global.delay = 0 => AllWarm
    <3>1. ASSUME NEW t \in Target, global.delay = 0 PROVE call[t].at = "ended"
      <4>1. ~ (t \in global.targets /\ global.delay > 0)
        BY <3>1
      <4> QED BY <4>1 DEF Init, Idle
    <3> QED BY <3>1 DEF AllWarm, At
  <2>3. (\A s \in Scrape : call[s].at = "idle") /\ now <= global.timeout
    BY <1>1, <1>2, <1>4 DEF Idle
  <2> QED BY <2>1, <2>2, <2>3 DEF Gated
<1>14. Delayed
  <2>1. \A t \in Target : ended[t] = Never /\ ran[t] = 0
    BY DEF Init
  <2>2. 0 < Collectors
    BY CollectorsAssumption
  <2> QED BY <1>3, <2>1, <2>2 DEF Delayed
<1> QED BY <1>6, <1>8, <1>9, <1>10, <1>11, <1>12, <1>13, <1>14 DEF IInv

LEMMA IInvStep == IInv /\ [Next]_vars => IInv'
BY TypeOKStep, PlacedStep, LockedStep, PooledStep, CountedStep, RecentStep, GatedStep,
   DelayedStep DEF IInv

LEMMA Invariance == Spec => []IInv
BY InitIInv, IInvStep, PTL DEF Spec

-----------------------------------------------------------------------------
(* Theorems                                                                *)

\* What the targets, their databases and the callers are has its type.
THEOREM TypeCorrect == Spec => []TypeOK
BY Invariance, PTL DEF IInv

\* Who is told up, or down, has taken a step of ping.
LEMMA TurnsInPing ==
  ASSUME TypeOK, [Next]_vars, NEW p \in Caller, NEW r \in {"up", "down"}, Turns(p, r)
  PROVE  PingLock(p) \/ Quits(p) \/ LoopOver(p) \/ PingBadConn(p)
<1>0. call \in [Caller -> Call] /\ mu \in [Target -> Caller \cup {Nil, Closer}] /\ Scrape \cup Target = Caller /\ Scrape \cap Target = {}
  BY CallersAssumption DEF TypeOK, PingTypeOK
<1>1. call'[p] # call[p] /\ call'[p].at = r /\ call[p].at # "delay"
  BY DEF Turns
<1>2. ASSUME NEW q \in Caller, PingMoves(q) PROVE q = p /\ ~ Register(p) /\ ~ Open(p)
  <2>1. CASE Register(q)
    BY <1>1, <2>1 DEF Register
  <2>2. CASE Open(q)
    BY <1>1, <2>2, OpenEffect DEF Becomes
  <2>3. CASE PingLock(q) \/ Quits(q) \/ LoopOver(q) \/ PingBadConn(q)
    <3>1. \A o \in Caller \ {q} : call'[o] = call[o]
      BY <2>3, LockEffect, QuitEffect, LoopEffect, BadConnEffect DEF Becomes
    <3>2. q = p
      BY <1>1, <3>1
    <3>3. ~ Register(q)
      BY <1>1, <3>2 DEF Register
    <3>4. ~ Open(q)
      BY <1>1, <3>2, OpenEffect DEF Becomes
    <3> QED BY <3>2, <3>3, <3>4
  <2> QED BY <1>2, <2>1, <2>2, <2>3 DEF PingMoves
<1>3. ASSUME NEW t \in Target, WarmupMoves(t) PROVE FALSE
  BY <1>0, <1>1, <1>3, WarmupEffect DEF Becomes
<1>4. ASSUME NEW t \in Target, CollectorReturns(t) PROVE FALSE
  BY <1>0, <1>1, <1>4, CollectorEffect DEF Becomes
<1>5. ASSUME NEW t \in Target, Closes(t) \/ DatabaseChanges(t) \/ ConnectionsBreak(t) PROVE FALSE
  BY <1>1, <1>5 DEF Closes, CloseTarget, CloseLock, TargetClosed, Close, DatabaseChanges, ConnectionsBreak
<1>6. ASSUME NEW s \in Scrape, ScrapeMoves(s) PROVE FALSE
  BY <1>0, <1>1, <1>6, ScrapeEffect, OverIsCall DEF Becomes
<1>7. ASSUME NEW s \in Scrape, Serve(s) PROVE FALSE
  BY <1>0, <1>1, <1>7, ServeEffect
<1>8. ~ Finish /\ ~ Tick /\ ~ UNCHANGED vars
  BY <1>1 DEF Finish, Tick, vars, pingVars
<1> QED BY <1>2, <1>3, <1>4, <1>5, <1>6, <1>7, <1>8, NextCases DEF PingMoves

\* A caller that is told up by ping ...
LEMMA UpStep ==
  ASSUME IInv, [Next]_vars, NEW p \in Caller, Turns(p, "up"),
         call[p].on \in EnablePing, global.maxConns >= 0
  PROVE  answered'[call[p].on] # Never /\ now - answered'[call[p].on] <= global.interval
<1>1. TypeOK /\ Placed /\ Counted /\ Recent
  BY DEF IInv
<1>2. /\ now \in Nat /\ now # Never /\ global.interval \in Nat /\ call[p].tries \in Int /\ call[p].on \in Target
      /\ answered \in [Target -> Int] /\ lastPing \in [Target -> Int]
  BY <1>1, GlobalFields, TargetAssumption DEF TypeOK, PingTypeOK, Call, Never
<1>3. call'[p].at = "up"
  BY DEF Turns
<1>4. CASE PingLock(p)
  <2>1. answered' = answered /\ ~ Due(lastPing[call[p].on])
    BY <1>1, <1>3, <1>4, LockEffect DEF Becomes, Verdict
  <2>2. lastPing[call[p].on] # Never /\ now - lastPing[call[p].on] <= global.interval
    BY <1>2, <2>1 DEF Due
  <2> QED BY <1>1, <1>2, <2>1, <2>2 DEF Recent
<1>5. CASE LoopOver(p)
  <2>1. answered' = [answered EXCEPT ![call[p].on] = now]
    BY <1>1, <1>2, <1>5, LoopEffect DEF Counted
  <2> QED BY <1>2, <2>1
<1>6. CASE Quits(p)
  BY <1>1, <1>3, <1>6, QuitEffect DEF Becomes
<1>7. CASE PingBadConn(p)
  BY <1>1, <1>3, <1>7, BadConnEffect DEF Becomes
<1> QED BY <1>1, <1>4, <1>5, <1>6, <1>7, TurnsInPing

\* ... and one that is told down.
LEMMA DownStep ==
  ASSUME IInv, [Next]_vars, NEW p \in Caller, Turns(p, "down"), p \in steady
  PROVE  \/ Expired(p) \/ global.maxConns = 0
         \/ call[p].on \notin global.openable
         \/ CustomTLS(call[p].on) /\ tls'[Host[call[p].on]] # Certificate[call[p].on]
<1>1. TypeOK /\ Placed /\ Pooled /\ Counted
  BY DEF IInv
<1>2. global.maxConns \in Int /\ call[p].tries \in Int /\ stale \in [Target -> Nat]
  BY <1>1, GlobalFields DEF TypeOK, PingTypeOK, Call
<1>3. call'[p].at = "down" /\ call[p].at # "down"
  BY DEF Turns
<1>4. CASE PingLock(p)
  BY <1>1, <1>3, <1>4, LockEffect DEF Becomes, Verdict
<1>5. CASE LoopOver(p)
  BY <1>1, <1>3, <1>5, LoopEffect DEF Becomes, Verdict
<1>6. CASE PingBadConn(p)
  <2>1. call[p].tries = 1 /\ stale[call[p].on] > 0 /\ call[p].at \in {"first", "again"} /\ call[p].on \in Target
    BY <1>1, <1>3, <1>6, BadConnEffect DEF Becomes, Placed
  <2>2. global.maxConns >= 0
    BY <1>1, <1>2, <2>1 DEF Counted
  <2>3. global.maxConns > 0 => stale[call[p].on] < 1
    BY <1>1, <2>1 DEF Counted, Inside
  <2> QED BY <1>2, <2>1, <2>2, <2>3
<1>7. CASE Quits(p)
  <2>1. call[p].at \in Inside /\ call[p].on \in Target
    BY <1>1, <1>7, QuitEffect DEF Placed, Inside
  <2>2. Host[call[p].on] \in DOMAIN tls /\ Certificate[call[p].on] # "failed"
    BY <1>1, <2>1, Certificates DEF TypeOK, PingTypeOK
  <2>3. CASE RegisterFails(p)
    BY <2>2, <2>3 DEF RegisterFails
  <2>4. CASE OpenUnregistered(p)
    BY <2>2, <2>4 DEF OpenUnregistered
  <2>5. CASE OpenCanceled(p) \/ PingCanceled(p)
    BY <2>5 DEF OpenCanceled, PingCanceled
  <2>6. CASE PingFails(p)
    <3>1. call[p].at \in {"first", "again"} /\ ~ Reachable(call[p].on) /\ tls' = tls
      BY <2>6 DEF PingFails, Pinging, At
    <3>2. db[call[p].on] = "up" /\ conn[call[p].on] # Nil
      BY <1>1, <2>1, <3>1 DEF Counted, Pooled
    <3>3. conn[call[p].on] # Certificate[call[p].on]
      BY <3>1, <3>2 DEF Reachable
    <3> QED BY <1>1, <2>1, <3>1, <3>2, <3>3 DEF Pooled, CustomTLS
  <2>7. CASE OpenFails(p)
    BY <2>7 DEF OpenFails
  <2> QED BY <1>7, <2>3, <2>4, <2>5, <2>6, <2>7 DEF Quits
<1> QED BY <1>1, <1>4, <1>5, <1>6, <1>7, TurnsInPing

\* With enable_ping, a target is only told up if its database has answered a
\* ping no longer ago than ping_interval (target.go:230); a target whose
\* database has been well is only told down if the context is closed, its DSN
\* cannot be opened, the host's certificate is not its own, or max_connections
\* is zero (target.go:234).
THEOREM UpIsTheTruth == Spec => UpTellsTruth
<1>1. IInv /\ [Next]_vars =>
        [\A p \in Caller :
           LET t == call[p].on IN
           Turns(p, "up") /\ t \in EnablePing /\ global.maxConns >= 0 =>
             answered'[t] # Never /\ now - answered'[t] <= global.interval]_pingVars
  BY UpStep
<1>2. IInv /\ [Next]_vars =>
        [\A p \in Caller :
           LET t == call[p].on IN
           Turns(p, "down") /\ p \in steady =>
             \/ Expired(p) \/ global.maxConns = 0 \/ t \notin global.openable
             \/ CustomTLS(t) /\ tls'[Host[t]] # Certificate[t]]_pingVars
  BY DownStep
<1> QED BY <1>1, <1>2, Invariance, PTL DEF Spec, UpTellsTruth, UpIsRecent, ReachableIsUp

\* Until the last target is warmed up no scrape is under way, and each target
\* starts a collector no sooner than the delay after its last one (warmup.go:12).
THEOREM HerdIsAvoided == Spec => HerdAvoided
<1>1. ASSUME IInv, [Next]_vars, NEW t \in Target, At(t, {"up"}), call'[t].at = "collecting"
      PROVE  /\ ended[t] = Never \/ ended[t] + global.delay <= now
             /\ \A s \in Scrape : At(s, {"idle"})
  BY <1>1 DEF IInv, Delayed, Gated, AllWarm, At
<1>2. IInv /\ [Next]_vars =>
        [\A t \in Target : At(t, {"up"}) /\ call'[t].at = "collecting" =>
           /\ ended[t] = Never \/ ended[t] + global.delay <= now
           /\ \A s \in Scrape : At(s, {"idle"})]_vars
  BY <1>1
<1> QED BY <1>2, Invariance, PTL DEF Spec, HerdAvoided

\* The clock and the gate: a tick, the last warmup, or nothing.
LEMMA ClockAndGate ==
  ASSUME TypeOK, [Next]_vars
  PROVE  /\ now' = now \/ Tick
         /\ done' = done \/ Finish
<1> USE DEF pingRest, warmupVars
<1>1. ASSUME NEW q \in Caller, PingMoves(q), UNCHANGED warmupVars PROVE now' = now /\ done' = done
  BY <1>1, LockEffect, QuitEffect, OpenEffect, LoopEffect, BadConnEffect DEF PingMoves, Register
<1>2. ASSUME NEW t \in Target, WarmupMoves(t) \/ CollectorReturns(t) PROVE now' = now /\ done' = done
  BY <1>2, WarmupEffect, CollectorEffect
<1>3. ASSUME NEW t \in Target, DatabaseChanges(t) \/ ConnectionsBreak(t), UNCHANGED warmupVars
      PROVE now' = now /\ done' = done
  BY <1>3 DEF DatabaseChanges, ConnectionsBreak
<1>4. ASSUME NEW t \in Target, Closes(t) PROVE now' = now /\ done' = done
  BY <1>4 DEF Closes, CloseTarget, CloseLock, TargetClosed, Close
<1>5. ASSUME NEW s \in Scrape, ScrapeMoves(s) \/ Serve(s) PROVE now' = now /\ done' = done
  BY <1>5, ScrapeEffect, ServeEffect
<1>6. /\ Finish => now' = now
      /\ Tick => done' = done
      /\ UNCHANGED vars => now' = now /\ done' = done
  BY DEF Finish, Tick, vars, pingVars
<1> QED BY <1>1, <1>2, <1>3, <1>4, <1>5, <1>6, NextCases

\* The warmup of a target ends by a step of its own.
LEMMA EndsInWarmup ==
  ASSUME TypeOK, [Next]_vars, NEW t \in Target, call[t].at # "ended", call'[t].at = "ended"
  PROVE  WarmupMoves(t) \/ CollectorReturns(t)
<1>0. call \in [Caller -> Call] /\ mu \in [Target -> Caller \cup {Nil, Closer}] /\ Scrape \cup Target = Caller /\ Scrape \cap Target = {}
  BY CallersAssumption DEF TypeOK, PingTypeOK
<1>1. t \in Caller /\ t \notin Scrape /\ call'[t] # call[t]
  BY <1>0
<1>2. ASSUME NEW q \in Caller, PingMoves(q) PROVE FALSE
  <2>1. CASE Register(q)
    BY <1>1, <2>1 DEF Register
  <2>2. CASE Open(q)
    BY <1>1, <2>2, OpenEffect DEF Becomes
  <2>3. CASE PingLock(q)
    BY <1>1, <2>3, LockEffect DEF Becomes, Verdict
  <2>4. CASE Quits(q)
    BY <1>1, <2>4, QuitEffect DEF Becomes
  <2>5. CASE LoopOver(q)
    BY <1>1, <2>5, LoopEffect DEF Becomes, Verdict
  <2>6. CASE PingBadConn(q)
    BY <1>1, <2>6, BadConnEffect DEF Becomes
  <2> QED BY <1>2, <2>1, <2>2, <2>3, <2>4, <2>5, <2>6 DEF PingMoves
<1>3. ASSUME NEW u \in Target, WarmupMoves(u) \/ CollectorReturns(u) PROVE u = t
  BY <1>0, <1>1, <1>3, WarmupEffect, CollectorEffect DEF Becomes
<1>4. ASSUME NEW u \in Target, Closes(u) \/ DatabaseChanges(u) \/ ConnectionsBreak(u) PROVE FALSE
  BY <1>1, <1>4 DEF Closes, CloseTarget, CloseLock, TargetClosed, Close, DatabaseChanges, ConnectionsBreak
<1>5. ASSUME NEW s \in Scrape, ScrapeMoves(s) PROVE FALSE
  BY <1>0, <1>1, <1>5, ScrapeEffect DEF Becomes
<1>6. ASSUME NEW s \in Scrape, Serve(s) PROVE FALSE
  BY <1>0, <1>1, <1>6, ServeEffect
<1>7. ~ Finish /\ ~ Tick /\ ~ UNCHANGED vars
  BY <1>1 DEF Finish, Tick, vars, pingVars
<1> QED BY <1>2, <1>3, <1>4, <1>5, <1>6, <1>7, NextCases

\* When a caller has nothing to do at once, and its time is over, it is in a
\* driver or behind whoever has the lock.
LEMMA OutOfTime ==
  ASSUME IInv, NEW p \in Caller, ~ Ready(p), Expired(p), ~ At(p, {"idle", "ended"})
  PROVE  \/ At(p, {"collecting"})
         \/ At(p, {"lock"}) /\ mu[call[p].on] = Closer
         \/ /\ At(p, {"lock"})
            /\ \E q \in Caller : mu[call[p].on] = q /\ call[q].on = call[p].on /\ call[q].at \in Inside
<1>1. call[p].at \in Stages /\ call[p].on \in Target
  BY DEF IInv, TypeOK, PingTypeOK, Placed, Call, Stages, At
<1>2. call[p].at \in {"lock", "collecting"}
  BY <1>1 DEF Ready, At, Stages
<1>3. call[p].at = "lock" => mu[call[p].on] # Nil
  BY DEF Ready, At
<1> QED BY <1>1, <1>2, <1>3 DEF IInv, Locked, At

\* When its timeout is over, no ping and no delay keeps the gate closed
\* (warmup_middleware.go:20): a driver does that, or a reload that closes a target
\* (sql.go:94, target.go:169).  And the gate does not open before every target
\* has run all its collectors, was told down, or ran out of time.
THEOREM GateIsOpened == Spec => OpensInTime /\ OpensWhenWarm
<1>1. ASSUME IInv, [Next]_vars, now' # now, ~ done, global.timeout <= now
      PROVE  \E t \in Target : At(t, {"collecting"}) \/ (At(t, {"lock"}) /\ mu[t] = Closer)
  <2>1. TypeOK /\ Placed /\ Gated /\ Tick
    BY <1>1, ClockAndGate DEF IInv
  <2>2. PICK t \in Target : call[t].at # "ended"
    BY <1>1, <2>1 DEF Tick, AllWarm, At
  <2>3. t \in Caller /\ call[t].on = t /\ Expired(t) /\ ~ Ready(t) /\ ~ At(t, {"idle", "ended"})
    BY <1>1, <2>1, <2>2, CallersAssumption DEF Placed, Tick, Expired, At
  <2>4. ASSUME NEW q \in Caller, call[q].on = t, call[q].at \in Inside PROVE q = t
    BY <1>1, <2>1, <2>4, CallersAssumption DEF Placed, Gated, Inside
  <2> QED BY <1>1, <2>3, <2>4, OutOfTime DEF At, Inside
<1>2. IInv /\ [Next]_vars =>
        [now' # now /\ ~ done /\ global.timeout <= now =>
           \E t \in Target : At(t, {"collecting"}) \/ (At(t, {"lock"}) /\ mu[t] = Closer)]_vars
  BY <1>1
<1>3. IInv /\ [Next]_vars => [done' # done => AllWarm]_vars
  BY ClockAndGate DEF IInv, Finish
<1>4. ASSUME IInv, [Next]_vars, NEW t \in Target, At(t, {"ended"})', ~ At(t, {"ended", "down"})
      PROVE  ran'[t] = Collectors \/ global.timeout <= now
  <2>1. call[t].at \notin {"ended", "down"} /\ call'[t].at = "ended"
    BY <1>4 DEF At
  <2>2. /\ TypeOK /\ t \in Caller /\ call[t].deadline = global.timeout /\ ran \in [Target -> 0 .. Collectors]
    BY <1>4, CallersAssumption DEF IInv, Placed, TypeOK
  <2>3. CASE WarmupMoves(t)
    BY <2>1, <2>2, <2>3, WarmupEffect DEF Becomes, Expired
  <2>4. CASE CollectorReturns(t)
    BY <2>1, <2>2, <2>4, CollectorEffect DEF Becomes
  <2> QED BY <1>4, <2>1, <2>2, <2>3, <2>4, EndsInWarmup
<1>5. IInv /\ [Next]_vars =>
        [\A t \in Target :
           At(t, {"ended"})' /\ ~ At(t, {"ended", "down"}) => ran'[t] = Collectors \/ global.timeout <= now]_vars
  BY <1>4
<1> QED BY <1>2, <1>3, <1>5, Invariance, PTL DEF Spec, OpensInTime, OpensWhenWarm

\* A scrape begins when its request passes the gate.
LEMMA ScrapeBegins ==
  ASSUME TypeOK, [Next]_vars, NEW s \in Scrape, call[s].at = "idle", call'[s].at # "idle"
  PROVE  Serve(s)
<1>0. call \in [Caller -> Call] /\ mu \in [Target -> Caller \cup {Nil, Closer}] /\ Scrape \cup Target = Caller /\ Scrape \cap Target = {}
  BY CallersAssumption DEF TypeOK, PingTypeOK
<1>1. s \in Caller /\ s \notin Target /\ call'[s] # call[s]
  BY <1>0
<1>2. ASSUME NEW q \in Caller, PingMoves(q) PROVE FALSE
  <2>1. CASE Register(q)
    BY <1>1, <2>1 DEF Register
  <2>2. CASE ~ Register(q)
    BY <1>1, <1>2, <2>2, OpenEffect, LockEffect, QuitEffect, LoopEffect, BadConnEffect
       DEF Becomes, Inside, PingMoves
  <2> QED BY <2>1, <2>2
<1>3. ASSUME NEW u \in Target, WarmupMoves(u) \/ CollectorReturns(u) PROVE FALSE
  BY <1>0, <1>1, <1>3, WarmupEffect, CollectorEffect DEF Becomes
<1>4. ASSUME NEW u \in Target, Closes(u) \/ DatabaseChanges(u) \/ ConnectionsBreak(u) PROVE FALSE
  BY <1>1, <1>4 DEF Closes, CloseTarget, CloseLock, TargetClosed, Close, DatabaseChanges, ConnectionsBreak
<1>5. ASSUME NEW r \in Scrape, ScrapeMoves(r) PROVE FALSE
  BY <1>0, <1>1, <1>5, ScrapeEffect DEF Becomes
<1>6. ASSUME NEW r \in Scrape, Serve(r) PROVE r = s
  BY <1>0, <1>1, <1>6, ServeEffect
<1>7. ~ Finish /\ ~ Tick /\ ~ UNCHANGED vars
  BY <1>1 DEF Finish, Tick, vars, pingVars
<1> QED BY <1>2, <1>3, <1>4, <1>5, <1>6, <1>7, NextCases

\* No request is given longer than scrape_timeout, whatever its header says, and
\* no time passes for a scrape whose deadline is over, except in a driver, or for
\* the lock of its target, behind Close or another scrape that has time left
\* (sql.go:94, target.go:169, 198).
THEOREM ScrapesAreInTime == Spec => RequestsInTime /\ LateInDriverOrQueue
<1>1. ASSUME IInv, [Next]_vars, NEW s \in Scrape, At(s, {"idle"}), ~ At(s, {"idle"})', global.timeout > 0
      PROVE  call'[s].deadline <= now + global.timeout
  BY <1>1, ScrapeBegins, ServeEffect DEF IInv, At
<1>2. ASSUME IInv, [Next]_vars, now' # now, NEW s \in Scrape, ~ At(s, {"idle", "ended"}), Expired(s)
      PROVE  \/ At(s, {"collecting"})
             \/ /\ At(s, {"lock"})
                /\ mu[call[s].on] = Closer \/ \E p \in Scrape : mu[call[s].on] = p /\ ~ Expired(p)
  <2>1. TypeOK /\ Placed /\ Gated /\ Tick /\ s \in Caller
    BY <1>2, ClockAndGate, CallersAssumption DEF IInv
  <2>2. \A p \in Caller : ~ Ready(p)
    BY <2>1 DEF Tick
  <2>3. ASSUME NEW q \in Caller, call[q].at \in Inside PROVE q \in Scrape /\ ~ Expired(q)
    <3>1. ~ Expired(q)
      BY <2>2, <2>3 DEF Ready, At, Inside
    <3>2. q \in Scrape
      BY <1>2, <2>1, <2>3, CallersAssumption DEF Gated, AllWarm, At, Inside
    <3> QED BY <3>1, <3>2
  <2> QED BY <1>2, <2>1, <2>2, <2>3, OutOfTime
<1>3. IInv /\ [Next]_vars =>
        [\A s \in Scrape :
           At(s, {"idle"}) /\ ~ At(s, {"idle"})' /\ global.timeout > 0 => call'[s].deadline <= now + global.timeout]_vars
  BY <1>1
<1>4. IInv /\ [Next]_vars =>
        [\A s \in Scrape :
           now' # now /\ ~ At(s, {"idle", "ended"}) /\ Expired(s) =>
             \/ At(s, {"collecting"})
             \/ /\ At(s, {"lock"})
                /\ mu[call[s].on] = Closer \/ \E p \in Scrape : mu[call[s].on] = p /\ ~ Expired(p)]_vars
  BY <1>2
<1> QED BY <1>3, <1>4, Invariance, PTL DEF Spec, RequestsInTime, LateInDriverOrQueue
===============================================================================
