-------------------------------- MODULE Reload --------------------------------
(***************************************************************************)
(* Reload: what /reload and SIGHUP do to the configuration of the exporter *)
(* and to its targets.  The configuration object is shared and changed in  *)
(* place, without a lock; the targets are built from it and replaced at    *)
(* once (TargetHandle tells how the old ones are closed).                  *)
(*                                                                         *)
(* A job is its settings (collectors, ping) and its connections (the names *)
(* and data source names of its targets), each as the version of the file  *)
(* it comes from.  In single target mode the target is the only job.  Jobs *)
(* have different names.                                                   *)
(***************************************************************************)
EXTENDS Naturals

CONSTANTS
  Reload,     \* the calls of Reload
  Signals,    \* the one of them that SIGHUP repeats; the others are requests to /reload
  Job,
  Single,     \* the target of single target mode
  MaxVersion  \* bound: edits of the file

ASSUME NamesAssumption == Single \notin Job /\ Job # {} /\ Signals \in Reload
ASSUME BoundAssumption == MaxVersion \in Nat

VARIABLES
  file,       \* the content of the configuration file
  config,     \* exporter.config
  targets,    \* exporter.targets
  pc,
  next,       \* configNext of each reload
  built,      \* the targets each reload has built
  outcome,
  pending,    \* signalHandler's channel, of capacity one
  overlapped, \* history: a reload has begun while another was under way
  before,     \* history: the targets when the last reload began
  dropped,    \* history: jobs with targets that a file which was not built left out
  signalled,  \* history: what the file was at the last SIGHUP
  heard       \* history: the file that the last SIGHUP which was heeded has read

signal == <<pending, signalled, heard>>
history == <<overlapped, before, dropped, signal>>
locals == <<next, built, outcome, history>>
vars == <<file, config, targets, pc, locals>>

Version == 0 .. MaxVersion

JobSets == {J \in SUBSET Job : J # {}} \cup {{Single}}

Settings == [settings : Version, connections : Version, builds : BOOLEAN]

\* The jobs of a configuration are those of its mode.
Config ==
  {c \in [mode : {"target", "jobs"}, collectors : Version, jobs : UNION {[J -> Settings] : J \in JobSets}] :
     c.mode = "target" <=> DOMAIN c.jobs = {Single}}

\* NewTarget or NewJob fails on a file that loads and does not build.
File ==
  {f \in [loads : BOOLEAN, mode : {"target", "jobs"}, jobs : JobSets, version : Version, builds : BOOLEAN] :
     f.mode = "target" <=> f.jobs = {Single}}

Parsed(f) ==
  [mode |-> f.mode, collectors |-> f.version,
   jobs |-> [j \in f.jobs |-> [settings |-> f.version, connections |-> f.version, builds |-> f.builds]]]

Served == UNION {[J -> Settings] : J \in JobSets}

TypeOK ==
  /\ file \in File
  /\ config \in Config
  /\ targets \in Served
  /\ pc \in [Reload -> {"waiting", "idle", "collectors", "switch", "preserve", "assign", "build", "update", "done"}]
  /\ next \in [Reload -> Config]
  /\ built \in [Reload -> Served]
  /\ outcome \in [Reload -> {"none", "ok", "error"}]
  /\ overlapped \in BOOLEAN /\ before \in Served /\ dropped \subseteq Job \cup {Single}
  /\ pending \in BOOLEAN /\ signalled \in Version /\ heard \in Version

Init ==
  /\ file \in {f \in File : f.loads /\ f.builds /\ f.version = 0}
  /\ config = Parsed(file)
  /\ targets = config.jobs
  /\ pc = [x \in Reload |-> IF x = Signals THEN "waiting" ELSE "idle"]
  /\ next = [x \in Reload |-> config]
  /\ built = [x \in Reload |-> targets]
  /\ outcome = [x \in Reload |-> "none"]
  /\ overlapped = FALSE /\ before = targets /\ dropped = {}
  /\ pending = FALSE /\ signalled = 0 /\ heard = 0

Goto(x, from, to) == pc[x] = from /\ pc' = [pc EXCEPT ![x] = to]

Return(x, from, result) == Goto(x, from, "done") /\ outcome' = [outcome EXCEPT ![x] = result]

InFlight == {x \in Reload : pc[x] \notin {"waiting", "idle", "done"}}

-----------------------------------------------------------------------------
\* The operator writes another file.
EditFile ==
  /\ file.version < MaxVersion
  /\ file' \in {f \in File : f.version = file.version + 1}
  /\ UNCHANGED <<config, targets, pc, locals>>

\* Mutant: a channel without a buffer loses what comes during a reload.
HangupLost ==
  /\ pending' = (pc[Signals] \in {"waiting", "done"})
  /\ signalled' = file.version
  /\ UNCHANGED <<file, config, targets, pc, next, built, outcome, overlapped, before, dropped, heard>>

\* SIGHUP: signal.Notify does not wait for a place in the channel.
Hangup ==
  /\ pending' = TRUE
  /\ signalled' = file.version
  /\ UNCHANGED <<file, config, targets, pc, next, built, outcome, overlapped, before, dropped, heard>>

\* The goroutine of signalHandler reloads once more.
Receive ==
  /\ pending /\ pc[Signals] \in {"waiting", "done"}
  /\ pending' = FALSE
  /\ pc' = [pc EXCEPT ![Signals] = "idle"]
  /\ outcome' = [outcome EXCEPT ![Signals] = "none"]
  /\ UNCHANGED <<file, config, targets, next, built, overlapped, before, dropped, signalled, heard>>

\* Nothing keeps reloads from overlapping.
Begin(x) ==
  /\ overlapped' = (overlapped \/ InFlight # {})
  /\ before' = targets
  /\ heard' = IF x = Signals THEN file.version ELSE heard
  /\ UNCHANGED <<dropped, pending, signalled>>

LoadFails(x) ==
  /\ ~ file.loads
  /\ Return(x, "idle", "error") /\ Begin(x)
  /\ UNCHANGED <<file, config, targets, next, built>>

Load(x) ==
  /\ file.loads
  /\ Goto(x, "idle", "collectors") /\ Begin(x)
  /\ next' = [next EXCEPT ![x] = Parsed(file)]
  /\ UNCHANGED <<file, config, targets, built, outcome>>

\* Before it is known whether anything else can be reloaded.
SetCollectors(x) ==
  /\ Goto(x, "collectors", "switch")
  /\ config' = [config EXCEPT !.collectors = next[x].collectors]
  /\ UNCHANGED <<file, targets, locals>>

SameMode(x) ==
  /\ config.mode = next[x].mode
  /\ Goto(x, "switch", "preserve")
  /\ UNCHANGED <<file, config, targets, locals>>

\* The case of a target that becomes jobs is empty.
TargetToJobs(x) ==
  /\ config.mode = "target" /\ next[x].mode = "jobs"
  /\ Return(x, "switch", "ok")
  /\ UNCHANGED <<file, config, targets, next, built, history>>

\* Mutant: the change of mode is not refused.
JobsToTargetGoesOn(x) ==
  /\ config.mode = "jobs" /\ next[x].mode = "target"
  /\ Goto(x, "switch", "preserve")
  /\ UNCHANGED <<file, config, targets, locals>>

JobsToTarget(x) ==
  /\ config.mode = "jobs" /\ next[x].mode = "target"
  /\ Return(x, "switch", "error")
  /\ UNCHANGED <<file, config, targets, next, built, history>>

\* Mutant: the connections are those of the file.
PreserveNot(x) ==
  /\ Goto(x, "preserve", "assign")
  /\ UNCHANGED <<file, config, targets, locals>>

\* The jobs of the current configuration keep their connections.
Preserve(x) ==
  /\ Goto(x, "preserve", "assign")
  /\ next' = [next EXCEPT ![x].jobs =
       [j \in DOMAIN @ |->
         IF j \in DOMAIN config.jobs THEN [@[j] EXCEPT !.connections = config.jobs[j].connections] ELSE @[j]]]
  /\ UNCHANGED <<file, config, targets, built, outcome, history>>

\* Mutant: the targets are replaced along with the configuration.
AssignServes(x) ==
  /\ Goto(x, "assign", "build")
  /\ config' = [config EXCEPT !.jobs = next[x].jobs]
  /\ targets' = next[x].jobs
  /\ UNCHANGED <<file, locals>>

\* The shared configuration changes before it is known whether it can be built.
Assign(x) ==
  /\ Goto(x, "assign", "build")
  /\ config' = [config EXCEPT !.jobs = next[x].jobs]
  /\ UNCHANGED <<file, targets, locals>>

\* Mutant: jobs that have targets keep them as they are.
BuildAdded(x) ==
  /\ \A j \in DOMAIN config.jobs : config.jobs[j].builds
  /\ Goto(x, "build", "update")
  /\ built' = [built EXCEPT ![x] =
       [j \in DOMAIN config.jobs |-> IF j \in DOMAIN targets THEN targets[j] ELSE config.jobs[j]]]
  /\ UNCHANGED <<file, config, targets, next, outcome, history>>

\* NewTarget, or NewJob for every job, of the shared configuration.
Build(x) ==
  /\ \A j \in DOMAIN config.jobs : config.jobs[j].builds
  /\ Goto(x, "build", "update")
  /\ built' = [built EXCEPT ![x] = config.jobs]
  /\ UNCHANGED <<file, config, targets, next, outcome, history>>

BuildFails(x) ==
  /\ \E j \in DOMAIN config.jobs : ~ config.jobs[j].builds
  /\ Return(x, "build", "error")
  /\ dropped' = dropped \cup (DOMAIN targets \ DOMAIN config.jobs)
  /\ UNCHANGED <<file, config, targets, next, built, overlapped, before, signal>>

UpdateTarget(x) ==
  /\ Return(x, "update", "ok")
  /\ targets' = built[x]
  /\ dropped' = {}
  /\ UNCHANGED <<file, config, next, built, overlapped, before, signal>>

-----------------------------------------------------------------------------
ReloadNext(x) ==
  \/ LoadFails(x) \/ Load(x) \/ SetCollectors(x)
  \/ SameMode(x) \/ TargetToJobs(x) \/ JobsToTarget(x)
  \/ Preserve(x) \/ Assign(x) \/ Build(x) \/ BuildFails(x) \/ UpdateTarget(x)

Next == EditFile \/ Hangup \/ Receive \/ \E x \in Reload : ReloadNext(x)

Spec == Init /\ [][Next]_vars

-----------------------------------------------------------------------------
(* Properties                                                              *)

\* The exporter keeps the mode it was started in, whatever it is told to load.
ModeKept == config.mode = "target" <=> DOMAIN targets = {Single}

\* The targets are those of one file, and of one that could be built: a reload
\* that fails half-way, or runs along with another, never leaves some jobs with
\* new collectors and others with old ones (reload.go:72-107).
TargetsOfOneFile ==
  \A j, k \in DOMAIN targets : targets[j].settings = targets[k].settings /\ targets[j].builds

\* What is served is of one mode and of one file.
TargetsConsistent == ModeKept /\ TargetsOfOneFile

\* As long as reloads do not overlap, each is all or nothing for the targets:
\* when it returns an error they are what they were when it began, whatever it
\* has already done to the shared configuration (reload.go:53-107), and
\* otherwise they are those of the file it has read, with its settings.
AllOrNothing ==
  [][\A x \in Reload :
       ~ overlapped' /\ outcome[x] = "none" /\ outcome'[x] # "none" =>
         IF outcome'[x] = "error" \/ next[x].mode # config.mode
         THEN targets' = before'
         ELSE /\ DOMAIN targets' = DOMAIN next[x].jobs
              /\ \A j \in DOMAIN targets' : targets'[j].settings = next[x].collectors]_vars

\* As long as reloads do not overlap, a configuration that can be built is the
\* one that is served between them, whatever failed before: every job a request
\* may filter by has its targets, and no other job has any.
ConfigServed ==
  InFlight = {} /\ ~ overlapped /\ (\A j \in DOMAIN config.jobs : config.jobs[j].builds) =>
    targets = config.jobs

\* No SIGHUP is lost: when the goroutine waits for the next one, it has begun a
\* reload since the last one, of a file no older than that signal, however many
\* have come while it was busy (main.go:163).
SignalsHeeded == ~ pending /\ pc[Signals] \in {"waiting", "done"} => heard >= signalled

\* What was asked for is what is served.
RequestsServed == ConfigServed /\ SignalsHeeded

SameConnections ==
  \A j \in (DOMAIN targets \cap DOMAIN targets') \ dropped :
    targets'[j].connections = targets[j].connections

\* A reload changes no connection of a job that had targets before it and has
\* targets after it (reload.go:75), as long as reloads do not overlap: not even
\* after reloads whose files could not be built, unless one of these files left
\* the job out.
ConnectionsKept == [][~ overlapped => SameConnections]_vars
=============================================================================
