----------------------------- MODULE ReloadProofs -----------------------------
(***************************************************************************)
(* What a reload promises, for any number of calls of Reload, any jobs and *)
(* any number of edits of the file.                                        *)
(*                                                                         *)
(* The invariant follows one version of the file from configNext to the    *)
(* shared configuration, to the targets built from it and to the targets   *)
(* that are served: its jobs have the same settings all the way, and those *)
(* of the mode the exporter was started in from the switch on.  Of a       *)
(* reload that runs alone it tells more: what it has built is what the     *)
(* shared configuration says, the targets are still those it began with,   *)
(* and connections are those that are served, but for jobs that a file     *)
(* which could not be built has left out.                                  *)
(***************************************************************************)
EXTENDS Reload, TLAPS

Buildable(jobs) == \A j \in DOMAIN jobs : jobs[j].builds

OfOneFile(jobs) == \A j, k \in DOMAIN jobs : jobs[j].settings = jobs[k].settings

OfMode(jobs) == config.mode = "target" <=> DOMAIN jobs = {Single}

OfVersion(c) == \A j \in DOMAIN c.jobs : c.jobs[j].settings = c.collectors

\* Jobs of two versions of the configuration have the same connections.
Connected(old, new) == \A j \in DOMAIN old \cap DOMAIN new : new[j].connections = old[j].connections

Building == {x \in Reload : pc[x] \in {"build", "update"}}

\* No reload mixes two files.
Unmixed ==
  /\ OfOneFile(config.jobs) /\ OfOneFile(targets)
  /\ \A x \in Reload : OfOneFile(next[x].jobs)
  /\ \A x \in Reload : pc[x] = "update" => OfOneFile(built[x])

\* What is built could be built.
Built ==
  /\ Buildable(targets)
  /\ \A x \in Reload : pc[x] = "update" => Buildable(built[x])

\* From the switch on, a reload is of the mode of the exporter.
Switched ==
  /\ OfMode(targets)
  /\ \A x \in Reload : pc[x] \in {"preserve", "assign"} => next[x].mode = config.mode
  /\ \A x \in Reload : pc[x] = "update" => OfMode(built[x])

\* Reloads that have not overlapped run one at a time.
Alone == ~ overlapped => \A x, y \in InFlight : x = y

\* A reload that runs alone serves what the shared configuration says.
BuiltFromConfig ==
  ~ overlapped =>
    /\ Building = {} /\ Buildable(config.jobs) => targets = config.jobs
    /\ \A x \in Reload : pc[x] = "update" => built[x] = config.jobs

\* Jobs that have targets and were not left out keep their connections in new.
Keeps(new) ==
  \A j \in (DOMAIN targets \cap DOMAIN new) \ dropped : new[j].connections = targets[j].connections

\* A reload that runs alone carries the connections of the targets along.
Carried ==
  ~ overlapped =>
    /\ Building = {} => DOMAIN targets \ dropped \subseteq DOMAIN config.jobs
    /\ Keeps(config.jobs)
    /\ \A x \in Reload : pc[x] = "assign" => Keeps(next[x].jobs)

\* Until a reload that runs alone replaces the targets they are those it began
\* with, and the shared configuration has the jobs of its file.
Began ==
  /\ \A x \in Reload : OfVersion(next[x])
  /\ ~ overlapped =>
       /\ \A x \in InFlight : targets = before
       /\ \A x \in Building : config.jobs = next[x].jobs

\* A SIGHUP is in the channel, or the file it was for has been read.
Heeded ==
  /\ signalled <= file.version
  /\ ~ pending /\ pc[Signals] # "idle" => heard >= signalled

IInv ==
  /\ TypeOK /\ Unmixed /\ Built /\ Switched /\ Alone /\ BuiltFromConfig /\ Carried /\ Began
  /\ Heeded

-----------------------------------------------------------------------------
(* Configurations                                                          *)

\* What is served is the settings of the jobs of some mode.
LEMMA ServedIsFunction ==
  ASSUME NEW s
  PROVE  s \in Served <=> DOMAIN s \in JobSets /\ s \in [DOMAIN s -> Settings]
BY DEF Served

LEMMA ConfigFields ==
  ASSUME NEW c \in Config
  PROVE  /\ c.mode \in {"target", "jobs"} /\ c.collectors \in Version /\ c.jobs \in Served
         /\ c.mode = "target" <=> DOMAIN c.jobs = {Single}
BY DEF Config, Served

\* A configuration whose collectors or jobs are replaced is one.
LEMMA WithCollectors ==
  ASSUME NEW c \in Config, NEW v \in Version
  PROVE  [c EXCEPT !.collectors = v] \in Config
BY DEF Config, Served

LEMMA WithJobs ==
  ASSUME NEW c \in Config, NEW s \in Served, c.mode = "target" <=> DOMAIN s = {Single}
  PROVE  [c EXCEPT !.jobs = s] \in Config
BY DEF Config, Served

\* A file is parsed to jobs that are all of its version.
LEMMA ParsedFile ==
  ASSUME NEW f \in File
  PROVE  /\ Parsed(f) \in Config
         /\ OfOneFile(Parsed(f).jobs)
         /\ OfVersion(Parsed(f))
         /\ f.builds => Buildable(Parsed(f).jobs)
         /\ Parsed(f).mode = f.mode
<1> DEFINE s == [settings |-> f.version, connections |-> f.version, builds |-> f.builds]
           jobs == [j \in f.jobs |-> s]
<1>1. s \in Settings
  BY DEF File, Settings
<1>2. f.jobs \in JobSets /\ jobs \in [f.jobs -> Settings]
  BY <1>1 DEF File
<1>3. jobs \in Served
  BY <1>2 DEF Served
<1>4. Parsed(f) = [mode |-> f.mode, collectors |-> f.version, jobs |-> jobs]
  BY DEF Parsed
<1>5. Parsed(f) \in Config
  BY <1>3, <1>4 DEF File, Config, Served
<1> QED BY <1>4, <1>5 DEF OfOneFile, OfVersion, Buildable

\* The jobs of new with the connections that old has.
Preserving(old, new) ==
  [j \in DOMAIN new |->
    IF j \in DOMAIN old THEN [new[j] EXCEPT !.connections = old[j].connections] ELSE new[j]]

\* Preserving connections changes no job, no settings and no mode.
LEMMA PreservingKeeps ==
  ASSUME NEW old \in Served, NEW new \in Served
  PROVE  /\ Preserving(old, new) \in Served
         /\ DOMAIN Preserving(old, new) = DOMAIN new
         /\ OfOneFile(new) => OfOneFile(Preserving(old, new))
         /\ \A j \in DOMAIN new : Preserving(old, new)[j].settings = new[j].settings
         /\ Connected(old, Preserving(old, new))
<1>1. old \in [DOMAIN old -> Settings] /\ new \in [DOMAIN new -> Settings] /\ DOMAIN new \in JobSets
  BY ServedIsFunction
<1>2. ASSUME NEW j \in DOMAIN new
      PROVE  /\ Preserving(old, new)[j] \in Settings
             /\ Preserving(old, new)[j].settings = new[j].settings
             /\ j \in DOMAIN old => Preserving(old, new)[j].connections = old[j].connections
  <2>1. new[j] \in Settings
    BY <1>1
  <2>2. CASE j \in DOMAIN old
    <3>1. old[j] \in Settings
      BY <1>1, <2>2
    <3>2. Preserving(old, new)[j] = [new[j] EXCEPT !.connections = old[j].connections]
      BY <2>2 DEF Preserving
    <3> QED BY <2>1, <3>1, <3>2 DEF Settings
  <2>3. CASE j \notin DOMAIN old
    BY <2>1, <2>3 DEF Preserving
  <2> QED BY <2>2, <2>3
<1>3. DOMAIN Preserving(old, new) = DOMAIN new
  BY DEF Preserving
<1>4. Preserving(old, new) \in [DOMAIN new -> Settings]
  BY <1>2, <1>3 DEF Preserving
<1>5. Preserving(old, new) \in Served
  BY <1>1, <1>4 DEF Served
<1> QED BY <1>2, <1>3, <1>5 DEF OfOneFile, Connected

\* What Preserve does to configNext.
LEMMA PreserveNext ==
  ASSUME TypeOK, NEW x \in Reload, Preserve(x)
  PROVE  next' = [next EXCEPT ![x] = [next[x] EXCEPT !.jobs = Preserving(config.jobs, next[x].jobs)]]
BY DEF Preserve, Preserving, TypeOK

-----------------------------------------------------------------------------
(* Preservation, part by part                                              *)

LEMMA InitIInv == Init => IInv
<1> SUFFICES ASSUME Init PROVE IInv
  OBVIOUS
<1> USE NamesAssumption, BoundAssumption
<1>1. file \in File /\ file.loads /\ file.builds /\ file.version = 0
  BY DEF Init
<1>2. config \in Config /\ OfOneFile(config.jobs) /\ Buildable(config.jobs) /\ targets = config.jobs
  BY <1>1, ParsedFile DEF Init
<1>3. config.jobs \in Served /\ (config.mode = "target" <=> DOMAIN config.jobs = {Single})
  BY <1>2, ConfigFields
<1>4. TypeOK
  <2>1. 0 \in Version
    BY DEF Version
  <2>2. pc \in [Reload -> {"waiting", "idle"}]
    BY DEF Init
  <2>3. next \in [Reload -> Config] /\ built \in [Reload -> Served]
    BY <1>2, <1>3 DEF Init
  <2> QED BY <1>1, <1>2, <1>3, <2>1, <2>2, <2>3 DEF Init, TypeOK
<1>5. \A x \in Reload : pc[x] \in {"waiting", "idle"} /\ next[x] = config
  BY DEF Init
<1>6. Unmixed /\ Built /\ Switched
  BY <1>2, <1>3, <1>5 DEF Unmixed, Built, Switched, OfMode
<1>7. Alone /\ BuiltFromConfig
  BY <1>2, <1>5 DEF Alone, BuiltFromConfig, InFlight
<1>8. Carried
  BY <1>2, <1>5 DEF Carried, Keeps
<1>10. Began
  <2>1. OfVersion(config)
    BY <1>1, ParsedFile DEF Init
  <2> QED BY <1>5, <2>1 DEF Began, InFlight, Building
<1>9. Heeded
  BY <1>1 DEF Init, Heeded
<1> QED BY <1>4, <1>6, <1>7, <1>8, <1>9, <1>10 DEF IInv

\* Every step keeps the types.
LEMMA TypeOKStep == TypeOK /\ Switched /\ [Next]_vars => TypeOK'
<1> SUFFICES ASSUME TypeOK, Switched, [Next]_vars PROVE TypeOK'
  OBVIOUS
<1> USE NamesAssumption DEF TypeOK, Goto, Return, Begin, locals, history, signal
<1>1. file.version \in Version
  BY DEF File
<1>2. ASSUME NEW x \in Reload, ReloadNext(x) PROVE TypeOK'
  <2>1. CASE LoadFails(x)
    BY <2>1, <1>1 DEF LoadFails
  <2>2. CASE Load(x)
    <3>1. Parsed(file) \in Config
      BY ParsedFile
    <3> QED BY <2>2, <3>1, <1>1 DEF Load
  <2>3. CASE SetCollectors(x)
    <3>1. config' \in Config
      BY <2>3, ConfigFields, WithCollectors DEF SetCollectors
    <3> QED BY <2>3, <3>1 DEF SetCollectors
  <2>4. CASE SameMode(x)
    BY <2>4 DEF SameMode
  <2>5. CASE TargetToJobs(x)
    BY <2>5 DEF TargetToJobs
  <2>6. CASE JobsToTarget(x)
    BY <2>6 DEF JobsToTarget
  <2>7. CASE Preserve(x)
    <3>1. [next[x] EXCEPT !.jobs = Preserving(config.jobs, next[x].jobs)] \in Config
      <4>1. next[x] \in Config /\ next[x].jobs \in Served /\ config.jobs \in Served
        BY ConfigFields
      <4>2. DOMAIN Preserving(config.jobs, next[x].jobs) = DOMAIN next[x].jobs
        BY <4>1, PreservingKeeps
      <4>3. next[x].mode = "target" <=> DOMAIN Preserving(config.jobs, next[x].jobs) = {Single}
        BY <4>1, <4>2, ConfigFields
      <4> HIDE DEF TypeOK
      <4> QED BY <4>1, <4>3, PreservingKeeps, WithJobs
    <3>2. next' \in [Reload -> Config]
      BY <2>7, <3>1, PreserveNext
    <3> QED BY <2>7, <3>2 DEF Preserve
  <2>8. CASE Assign(x)
    <3>1. next[x].jobs \in Served /\ (config.mode = "target" <=> DOMAIN next[x].jobs = {Single})
      BY <2>8, ConfigFields DEF Assign, Switched
    <3>2. config' \in Config
      BY <2>8, <3>1, WithJobs DEF Assign
    <3> QED BY <2>8, <3>2 DEF Assign
  <2>9. CASE Build(x)
    <3>1. config.jobs \in Served
      BY ConfigFields
    <3> QED BY <2>9, <3>1 DEF Build
  <2>10. CASE BuildFails(x)
    <3>1. DOMAIN targets \subseteq Job \cup {Single}
      BY ServedIsFunction DEF JobSets
    <3> QED BY <2>10, <3>1 DEF BuildFails
  <2>11. CASE UpdateTarget(x)
    BY <2>11 DEF UpdateTarget
  <2> QED BY <1>2, <2>1, <2>2, <2>3, <2>4, <2>5, <2>6, <2>7, <2>8, <2>9, <2>10, <2>11 DEF ReloadNext
<1>3. CASE EditFile
  BY <1>3 DEF EditFile
<1>4. CASE Hangup
  BY <1>4, <1>1 DEF Hangup
<1>5. CASE Receive
  BY <1>5 DEF Receive
<1>6. CASE UNCHANGED vars
  BY <1>6 DEF vars
<1> QED BY <1>2, <1>3, <1>4, <1>5, <1>6 DEF Next

\* The exporter keeps its mode.
LEMMA ModeStep ==
  ASSUME TypeOK, [Next]_vars
  PROVE  config.mode' = config.mode
<1> USE DEF TypeOK, Config
<1>1. ASSUME NEW x \in Reload, ReloadNext(x) PROVE config.mode' = config.mode
  BY <1>1 DEF ReloadNext, LoadFails, Load, SetCollectors, SameMode, TargetToJobs, JobsToTarget,
              Preserve, Assign, Build, BuildFails, UpdateTarget
<1>2. CASE EditFile \/ Hangup \/ Receive \/ UNCHANGED vars
  BY <1>2 DEF EditFile, Hangup, Receive, vars
<1> QED BY <1>1, <1>2 DEF Next

\* No step mixes two files.
LEMMA UnmixedStep ==
  TypeOK /\ Unmixed /\ [Next]_vars
    => Unmixed'
<1> SUFFICES ASSUME TypeOK, Unmixed, [Next]_vars PROVE Unmixed'
  OBVIOUS
<1> USE NamesAssumption DEF TypeOK, Unmixed, Goto, Return, Begin, locals, history, signal
<1>1. ASSUME NEW x \in Reload, ReloadNext(x) PROVE Unmixed'
  <2>1. CASE LoadFails(x)
    BY <2>1 DEF LoadFails
  <2>2. CASE Load(x)
    BY <2>2, ParsedFile DEF Load
  <2>3. CASE SetCollectors(x)
    BY <2>3 DEF SetCollectors
  <2>4. CASE SameMode(x)
    BY <2>4 DEF SameMode
  <2>5. CASE TargetToJobs(x)
    BY <2>5 DEF TargetToJobs
  <2>6. CASE JobsToTarget(x)
    BY <2>6 DEF JobsToTarget
  <2>7. CASE Preserve(x)
    <3>1. next[x].jobs \in Served /\ config.jobs \in Served
      BY ConfigFields
    <3>2. next'[x] = [next[x] EXCEPT !.jobs = Preserving(config.jobs, next[x].jobs)]
      BY <2>7, PreserveNext
    <3>3. next'[x].jobs = Preserving(config.jobs, next[x].jobs) /\ next'[x].mode = next[x].mode
      BY <3>2 DEF Config
    <3>4. OfOneFile(next'[x].jobs)
      BY <3>1, <3>3, PreservingKeeps
    <3>5. \A y \in Reload : OfOneFile(next'[y].jobs)
      BY <2>7, <3>4 DEF Preserve
    <3> QED BY <2>7, <3>5 DEF Preserve
  <2>8. CASE Assign(x)
    <3>1. config'.jobs = next[x].jobs
      BY <2>8 DEF Assign, Config
    <3> QED BY <2>8, <3>1 DEF Assign
  <2>9. CASE Build(x)
    BY <2>9 DEF Build
  <2>10. CASE BuildFails(x)
    BY <2>10 DEF BuildFails
  <2>11. CASE UpdateTarget(x)
    BY <2>11 DEF UpdateTarget
  <2> QED BY <1>1, <2>1, <2>2, <2>3, <2>4, <2>5, <2>6, <2>7, <2>8, <2>9, <2>10, <2>11 DEF ReloadNext
<1>2. CASE EditFile
  BY <1>2 DEF EditFile
<1>3. CASE Hangup
  BY <1>3 DEF Hangup
<1>4. CASE Receive
  BY <1>4 DEF Receive
<1>5. CASE UNCHANGED vars
  BY <1>5 DEF vars
<1> QED BY <1>1, <1>2, <1>3, <1>4, <1>5 DEF Next

\* What cannot be built is not served.
LEMMA BuiltStep ==
  TypeOK /\ Built /\ [Next]_vars
    => Built'
<1> SUFFICES ASSUME TypeOK, Built, [Next]_vars PROVE Built'
  OBVIOUS
<1> USE NamesAssumption DEF TypeOK, Built, Buildable, Goto, Return, Begin, locals, history, signal
<1>1. ASSUME NEW x \in Reload, ReloadNext(x) PROVE Built'
  <2>1. CASE LoadFails(x)
    BY <2>1 DEF LoadFails
  <2>2. CASE Load(x)
    BY <2>2 DEF Load
  <2>3. CASE SetCollectors(x)
    BY <2>3 DEF SetCollectors
  <2>4. CASE SameMode(x)
    BY <2>4 DEF SameMode
  <2>5. CASE TargetToJobs(x)
    BY <2>5 DEF TargetToJobs
  <2>6. CASE JobsToTarget(x)
    BY <2>6 DEF JobsToTarget
  <2>7. CASE Preserve(x)
    BY <2>7 DEF Preserve
  <2>8. CASE Assign(x)
    BY <2>8 DEF Assign
  <2>9. CASE Build(x)
    BY <2>9 DEF Build
  <2>10. CASE BuildFails(x)
    BY <2>10 DEF BuildFails
  <2>11. CASE UpdateTarget(x)
    BY <2>11 DEF UpdateTarget
  <2> QED BY <1>1, <2>1, <2>2, <2>3, <2>4, <2>5, <2>6, <2>7, <2>8, <2>9, <2>10, <2>11 DEF ReloadNext
<1>2. CASE EditFile
  BY <1>2 DEF EditFile
<1>3. CASE Hangup
  BY <1>3 DEF Hangup
<1>4. CASE Receive
  BY <1>4 DEF Receive
<1>5. CASE UNCHANGED vars
  BY <1>5 DEF vars
<1> QED BY <1>1, <1>2, <1>3, <1>4, <1>5 DEF Next

\* A reload that would change the mode ends at the switch.
LEMMA SwitchedStep ==
  TypeOK /\ Switched /\ [Next]_vars
    => Switched'
<1> SUFFICES ASSUME TypeOK, Switched, [Next]_vars PROVE Switched'
  OBVIOUS
<1> USE NamesAssumption DEF TypeOK, Switched, OfMode, Goto, Return, Begin, locals, history, signal
<1>0. config.mode' = config.mode
  BY ModeStep
<1>1. ASSUME NEW x \in Reload, ReloadNext(x) PROVE Switched'
  <2>1. CASE LoadFails(x)
    BY <1>0, <2>1 DEF LoadFails
  <2>2. CASE Load(x)
    BY <1>0, <2>2 DEF Load
  <2>3. CASE SetCollectors(x)
    BY <1>0, <2>3 DEF SetCollectors
  <2>4. CASE SameMode(x)
    BY <1>0, <2>4 DEF SameMode
  <2>5. CASE TargetToJobs(x)
    BY <1>0, <2>5 DEF TargetToJobs
  <2>6. CASE JobsToTarget(x)
    BY <1>0, <2>6 DEF JobsToTarget
  <2>7. CASE Preserve(x)
    <3>1. next[x].jobs \in Served /\ config.jobs \in Served
      BY ConfigFields
    <3>2. next'[x] = [next[x] EXCEPT !.jobs = Preserving(config.jobs, next[x].jobs)]
      BY <2>7, PreserveNext
    <3>3. next'[x].jobs = Preserving(config.jobs, next[x].jobs) /\ next'[x].mode = next[x].mode
      BY <3>2 DEF Config
    <3> QED BY <2>7, <1>0, <3>3 DEF Preserve
  <2>8. CASE Assign(x)
    BY <1>0, <2>8 DEF Assign
  <2>9. CASE Build(x)
    BY <1>0, <2>9, ConfigFields DEF Build
  <2>10. CASE BuildFails(x)
    BY <1>0, <2>10 DEF BuildFails
  <2>11. CASE UpdateTarget(x)
    BY <1>0, <2>11 DEF UpdateTarget
  <2> QED BY <1>1, <2>1, <2>2, <2>3, <2>4, <2>5, <2>6, <2>7, <2>8, <2>9, <2>10, <2>11 DEF ReloadNext
<1>2. CASE EditFile
  BY <1>0, <1>2 DEF EditFile
<1>3. CASE Hangup
  BY <1>0, <1>3 DEF Hangup
<1>4. CASE Receive
  BY <1>0, <1>4 DEF Receive
<1>5. CASE UNCHANGED vars
  BY <1>5 DEF vars
<1> QED BY <1>1, <1>2, <1>3, <1>4, <1>5 DEF Next

\* A reload that begins while another is under way is told.
LEMMA AloneStep ==
  TypeOK /\ Alone /\ [Next]_vars
    => Alone'
<1> SUFFICES ASSUME TypeOK, Alone, [Next]_vars PROVE Alone'
  OBVIOUS
<1> USE NamesAssumption DEF TypeOK, Alone, InFlight, Goto, Return, Begin, locals, history, signal
<1>1. ASSUME NEW x \in Reload, ReloadNext(x) PROVE Alone'
  <2>1. CASE LoadFails(x)
    BY <2>1 DEF LoadFails
  <2>2. CASE Load(x)
    BY <2>2 DEF Load
  <2>3. CASE SetCollectors(x)
    BY <2>3 DEF SetCollectors
  <2>4. CASE SameMode(x)
    BY <2>4 DEF SameMode
  <2>5. CASE TargetToJobs(x)
    BY <2>5 DEF TargetToJobs
  <2>6. CASE JobsToTarget(x)
    BY <2>6 DEF JobsToTarget
  <2>7. CASE Preserve(x)
    BY <2>7 DEF Preserve
  <2>8. CASE Assign(x)
    BY <2>8 DEF Assign
  <2>9. CASE Build(x)
    BY <2>9 DEF Build
  <2>10. CASE BuildFails(x)
    BY <2>10 DEF BuildFails
  <2>11. CASE UpdateTarget(x)
    BY <2>11 DEF UpdateTarget
  <2> QED BY <1>1, <2>1, <2>2, <2>3, <2>4, <2>5, <2>6, <2>7, <2>8, <2>9, <2>10, <2>11 DEF ReloadNext
<1>2. CASE EditFile
  BY <1>2 DEF EditFile
<1>3. CASE Hangup
  BY <1>3 DEF Hangup
<1>4. CASE Receive
  BY <1>4 DEF Receive
<1>5. CASE UNCHANGED vars
  BY <1>5 DEF vars
<1> QED BY <1>1, <1>2, <1>3, <1>4, <1>5 DEF Next

\* The shared configuration does not change under a reload that runs alone.
LEMMA BuiltFromConfigStep ==
  TypeOK /\ Alone /\ BuiltFromConfig /\ [Next]_vars
    => BuiltFromConfig'
<1> SUFFICES ASSUME TypeOK, Alone, BuiltFromConfig, [Next]_vars PROVE BuiltFromConfig'
  OBVIOUS
<1> USE NamesAssumption DEF TypeOK, Alone, BuiltFromConfig, InFlight, Building, Goto, Return,
        Begin, locals, history, signal
<1>1. ASSUME NEW x \in Reload, ReloadNext(x) PROVE BuiltFromConfig'
  <2>1. CASE LoadFails(x)
    BY <2>1 DEF LoadFails
  <2>2. CASE Load(x)
    BY <2>2 DEF Load
  <2>3. CASE SetCollectors(x)
    BY <2>3 DEF SetCollectors
  <2>4. CASE SameMode(x)
    BY <2>4 DEF SameMode
  <2>5. CASE TargetToJobs(x)
    BY <2>5 DEF TargetToJobs
  <2>6. CASE JobsToTarget(x)
    BY <2>6 DEF JobsToTarget
  <2>7. CASE Preserve(x)
    BY <2>7 DEF Preserve
  <2>8. CASE Assign(x)
    BY <2>8 DEF Assign
  <2>9. CASE Build(x)
    BY <2>9 DEF Build
  <2>10. CASE BuildFails(x)
    <3> QED BY <2>10 DEF BuildFails, Buildable
  <2>11. CASE UpdateTarget(x)
    BY <2>11 DEF UpdateTarget
  <2> QED BY <1>1, <2>1, <2>2, <2>3, <2>4, <2>5, <2>6, <2>7, <2>8, <2>9, <2>10, <2>11 DEF ReloadNext
<1>2. CASE EditFile
  BY <1>2 DEF EditFile
<1>3. CASE Hangup
  BY <1>3 DEF Hangup
<1>4. CASE Receive
  BY <1>4 DEF Receive
<1>5. CASE UNCHANGED vars
  BY <1>5 DEF vars
<1> QED BY <1>1, <1>2, <1>3, <1>4, <1>5 DEF Next

\* A reload that runs alone gives jobs the connections they are served with.
LEMMA CarriedStep ==
  TypeOK /\ Alone /\ BuiltFromConfig /\ Carried /\ [Next]_vars
    => Carried'
<1> SUFFICES ASSUME TypeOK, Alone, BuiltFromConfig, Carried, [Next]_vars PROVE Carried'
  OBVIOUS
<1> USE NamesAssumption DEF TypeOK, Alone, BuiltFromConfig, Carried, Keeps, InFlight, Building,
        Goto, Return, Begin, locals, history, signal
<1>1. ASSUME NEW x \in Reload, ReloadNext(x) PROVE Carried'
  <2>1. CASE LoadFails(x)
    BY <2>1 DEF LoadFails
  <2>2. CASE Load(x)
    BY <2>2 DEF Load
  <2>3. CASE SetCollectors(x)
    BY <2>3 DEF SetCollectors
  <2>4. CASE SameMode(x)
    BY <2>4 DEF SameMode
  <2>5. CASE TargetToJobs(x)
    BY <2>5 DEF TargetToJobs
  <2>6. CASE JobsToTarget(x)
    BY <2>6 DEF JobsToTarget
  <2>7. CASE Preserve(x)
    <3>1. next[x].jobs \in Served /\ config.jobs \in Served
      BY ConfigFields
    <3>2. next'[x] = [next[x] EXCEPT !.jobs = Preserving(config.jobs, next[x].jobs)]
      BY <2>7, PreserveNext
    <3>3. next'[x].jobs = Preserving(config.jobs, next[x].jobs) /\ next'[x].mode = next[x].mode
      BY <3>2 DEF Config
    <3>4. Connected(config.jobs, next'[x].jobs)
      BY <3>1, <3>3, PreservingKeeps
    <3>5. ~ overlapped => Building = {}
      BY <2>7 DEF Preserve
    <3>6. ~ overlapped => DOMAIN targets \ dropped \subseteq DOMAIN config.jobs
      BY <3>5
    <3>7. ~ overlapped => Keeps(next'[x].jobs)
      BY <3>4, <3>6 DEF Connected
    <3>8. Building' = Building
      BY <2>7 DEF Preserve
    <3> QED BY <2>7, <3>6, <3>7, <3>8 DEF Preserve
  <2>8. CASE Assign(x)
    <3>1. config'.jobs = next[x].jobs
      BY <2>8 DEF Assign, Config
    <3>2. x \in Building'
      BY <2>8 DEF Assign
    <3> QED BY <2>8, <3>1, <3>2 DEF Assign
  <2>9. CASE Build(x)
    BY <2>9 DEF Build
  <2>10. CASE BuildFails(x)
    BY <2>10 DEF BuildFails
  <2>11. CASE UpdateTarget(x)
    <3>1. ~ overlapped => targets' = config.jobs /\ dropped' = {} /\ UNCHANGED config
      BY <2>11 DEF UpdateTarget
    <3>2. ~ overlapped => \A y \in Reload : y # x => pc'[y] \in {"waiting", "idle", "done"}
      BY <2>11 DEF UpdateTarget
    <3>3. pc'[x] = "done" /\ UNCHANGED <<overlapped, next>>
      BY <2>11 DEF UpdateTarget
    <3> QED BY <3>1, <3>2, <3>3
  <2> QED BY <1>1, <2>1, <2>2, <2>3, <2>4, <2>5, <2>6, <2>7, <2>8, <2>9, <2>10, <2>11 DEF ReloadNext
<1>2. CASE EditFile
  BY <1>2 DEF EditFile
<1>3. CASE Hangup
  BY <1>3 DEF Hangup
<1>4. CASE Receive
  BY <1>4 DEF Receive
<1>5. CASE UNCHANGED vars
  BY <1>5 DEF vars
<1> QED BY <1>1, <1>2, <1>3, <1>4, <1>5 DEF Next

\* A reload that runs alone changes no targets before it replaces them.
LEMMA BeganStep ==
  TypeOK /\ Alone /\ Began /\ [Next]_vars
    => Began'
<1> SUFFICES ASSUME TypeOK, Alone, Began, [Next]_vars PROVE Began'
  OBVIOUS
<1> USE NamesAssumption DEF TypeOK, Alone, Began, OfVersion, InFlight, Building, Goto, Return,
        Begin, locals, history, signal
<1>1. ASSUME NEW x \in Reload, ReloadNext(x) PROVE Began'
  <2>1. CASE LoadFails(x)
    BY <2>1 DEF LoadFails
  <2>2. CASE Load(x)
    BY <2>2, ParsedFile DEF Load
  <2>3. CASE SetCollectors(x)
    BY <2>3 DEF SetCollectors
  <2>4. CASE SameMode(x)
    BY <2>4 DEF SameMode
  <2>5. CASE TargetToJobs(x)
    BY <2>5 DEF TargetToJobs
  <2>6. CASE JobsToTarget(x)
    BY <2>6 DEF JobsToTarget
  <2>7. CASE Preserve(x)
    <3>1. next[x].jobs \in Served /\ config.jobs \in Served
      BY ConfigFields
    <3>2. next'[x] = [next[x] EXCEPT !.jobs = Preserving(config.jobs, next[x].jobs)]
      BY <2>7, PreserveNext
    <3>3. next'[x].jobs = Preserving(config.jobs, next[x].jobs) /\ next'[x].collectors = next[x].collectors
      BY <3>2 DEF Config
    <3>4. OfVersion(next'[x])
      BY <3>1, <3>3, PreservingKeeps
    <3> QED BY <2>7, <3>4 DEF Preserve
  <2>8. CASE Assign(x)
    <3>1. config'.jobs = next[x].jobs
      BY <2>8 DEF Assign, Config
    <3> QED BY <2>8, <3>1 DEF Assign
  <2>9. CASE Build(x)
    BY <2>9 DEF Build
  <2>10. CASE BuildFails(x)
    BY <2>10 DEF BuildFails
  <2>11. CASE UpdateTarget(x)
    BY <2>11 DEF UpdateTarget
  <2> QED BY <1>1, <2>1, <2>2, <2>3, <2>4, <2>5, <2>6, <2>7, <2>8, <2>9, <2>10, <2>11 DEF ReloadNext
<1>2. CASE EditFile
  BY <1>2 DEF EditFile
<1>3. CASE Hangup
  BY <1>3 DEF Hangup
<1>4. CASE Receive
  BY <1>4 DEF Receive
<1>5. CASE UNCHANGED vars
  BY <1>5 DEF vars
<1> QED BY <1>1, <1>2, <1>3, <1>4, <1>5 DEF Next

\* A reload reads the file after the signal it is for.
LEMMA HeededStep ==
  TypeOK /\ Heeded /\ [Next]_vars
    => Heeded'
<1> SUFFICES ASSUME TypeOK, Heeded, [Next]_vars PROVE Heeded'
  OBVIOUS
<1> USE NamesAssumption DEF TypeOK, Heeded, Version, File, Goto, Return, Begin, locals, history, signal
<1>1. ASSUME NEW x \in Reload, ReloadNext(x) PROVE Heeded'
  <2>1. CASE LoadFails(x)
    BY <2>1 DEF LoadFails
  <2>2. CASE Load(x)
    BY <2>2 DEF Load
  <2>3. CASE SetCollectors(x)
    BY <2>3 DEF SetCollectors
  <2>4. CASE SameMode(x)
    BY <2>4 DEF SameMode
  <2>5. CASE TargetToJobs(x)
    BY <2>5 DEF TargetToJobs
  <2>6. CASE JobsToTarget(x)
    BY <2>6 DEF JobsToTarget
  <2>7. CASE Preserve(x)
    BY <2>7 DEF Preserve
  <2>8. CASE Assign(x)
    BY <2>8 DEF Assign
  <2>9. CASE Build(x)
    BY <2>9 DEF Build
  <2>10. CASE BuildFails(x)
    BY <2>10 DEF BuildFails
  <2>11. CASE UpdateTarget(x)
    BY <2>11 DEF UpdateTarget
  <2> QED BY <1>1, <2>1, <2>2, <2>3, <2>4, <2>5, <2>6, <2>7, <2>8, <2>9, <2>10, <2>11 DEF ReloadNext
<1>2. CASE EditFile
  BY <1>2 DEF EditFile
<1>3. CASE Hangup
  BY <1>3 DEF Hangup
<1>4. CASE Receive
  BY <1>4 DEF Receive
<1>5. CASE UNCHANGED vars
  BY <1>5 DEF vars
<1> QED BY <1>1, <1>2, <1>3, <1>4, <1>5 DEF Next

LEMMA IInvStep == IInv /\ [Next]_vars => IInv'
BY TypeOKStep, UnmixedStep, BuiltStep, SwitchedStep, AloneStep, BuiltFromConfigStep, CarriedStep,
   BeganStep, HeededStep
   DEF IInv

LEMMA Invariance == Spec => []IInv
BY InitIInv, IInvStep, PTL DEF Spec

-----------------------------------------------------------------------------
(* Theorems                                                                *)

\* What is shared by the calls of Reload, and what each of them keeps, has its type.
THEOREM TypeCorrect == Spec => []TypeOK
BY Invariance, PTL DEF IInv

\* The targets are those of one file, one that could be built, and of the mode
\* the exporter was started in, whatever reloads fail or overlap (reload.go:72-107).
THEOREM TargetsAreConsistent == Spec => []TargetsConsistent
<1>1. IInv => TargetsConsistent
  BY DEF IInv, Unmixed, Built, Switched, OfMode, OfOneFile, Buildable,
         TargetsConsistent, ModeKept, TargetsOfOneFile
<1> QED BY <1>1, Invariance, PTL

\* What was asked for is served: when reloads do not overlap, a configuration
\* that can be built is the one whose targets are served, and no SIGHUP is lost,
\* however many come while one is being served (main.go:163).
THEOREM RequestsAreServed == Spec => []RequestsServed
<1>1. IInv => ConfigServed
  BY DEF IInv, BuiltFromConfig, Buildable, InFlight, Building, ConfigServed
<1>2. IInv => SignalsHeeded
  BY DEF IInv, Heeded, SignalsHeeded
<1> QED BY <1>1, <1>2, Invariance, PTL DEF RequestsServed

\* Only UpdateTarget replaces the targets, by what its reload has built.
LEMMA TargetsStep ==
  ASSUME [Next]_vars
  PROVE  UNCHANGED targets \/ \E x \in Reload : UpdateTarget(x)
<1>1. ASSUME NEW x \in Reload, ReloadNext(x), ~ UpdateTarget(x) PROVE UNCHANGED targets
  BY <1>1 DEF ReloadNext, LoadFails, Load, SetCollectors, SameMode, TargetToJobs, JobsToTarget,
              Preserve, Assign, Build, BuildFails
<1> QED BY <1>1 DEF Next, EditFile, Hangup, Receive, vars

\* A reload that runs alone and fails leaves the targets it began with, and one
\* that does not fail serves the jobs and the settings of its file.
THEOREM ReloadsAreAllOrNothing == Spec => AllOrNothing
<1>1. ASSUME IInv, [Next]_vars, NEW x \in Reload,
             ~ overlapped', outcome[x] = "none", outcome'[x] # "none"
      PROVE  IF outcome'[x] = "error" \/ next[x].mode # config.mode
             THEN targets' = before'
             ELSE /\ DOMAIN targets' = DOMAIN next[x].jobs
                  /\ \A j \in DOMAIN targets' : targets'[j].settings = next[x].collectors
  <2> USE <1>1 DEF IInv, TypeOK, Return, Goto
  <2>1. ~ overlapped
    BY DEF Next, EditFile, Hangup, Receive, ReloadNext, LoadFails, Load, SetCollectors, SameMode,
           TargetToJobs, JobsToTarget, Preserve, Assign, Build, BuildFails, UpdateTarget, Begin,
           locals, history, vars
  <2>2. \/ LoadFails(x) \/ TargetToJobs(x) \/ JobsToTarget(x) \/ BuildFails(x) \/ UpdateTarget(x)
    BY DEF Next, EditFile, Hangup, Receive, ReloadNext, LoadFails, Load, SetCollectors, SameMode,
           TargetToJobs, JobsToTarget, Preserve, Assign, Build, BuildFails, UpdateTarget,
           locals, vars
  <2>3. CASE LoadFails(x)
    BY <2>3 DEF LoadFails, Begin
  <2>4. CASE TargetToJobs(x) \/ JobsToTarget(x) \/ BuildFails(x)
    <3>1. x \in InFlight
      BY <2>4 DEF InFlight, TargetToJobs, JobsToTarget, BuildFails
    <3>2. targets = before
      BY <2>1, <3>1 DEF Began
    <3>3. UNCHANGED <<targets, before>> /\ (outcome'[x] = "error" \/ next[x].mode # config.mode)
      BY <2>4 DEF TargetToJobs, JobsToTarget, BuildFails, history
    <3> QED BY <3>2, <3>3
  <2>5. CASE UpdateTarget(x)
    <3>1. targets' = built[x] /\ outcome'[x] = "ok" /\ x \in Building
      BY <2>5 DEF UpdateTarget, Building
    <3>2. built[x] = config.jobs
      BY <2>1, <2>5 DEF UpdateTarget, BuiltFromConfig
    <3>3. config.jobs = next[x].jobs
      BY <2>1, <3>1 DEF Began
    <3>4. next[x].mode = config.mode
      BY <3>3, ConfigFields
    <3>5. OfVersion(next[x])
      BY DEF Began
    <3> QED BY <3>1, <3>2, <3>3, <3>4, <3>5 DEF OfVersion
  <2> QED BY <2>2, <2>3, <2>4, <2>5
<1>2. IInv /\ [Next]_vars
        => [\A x \in Reload :
              ~ overlapped' /\ outcome[x] = "none" /\ outcome'[x] # "none" =>
                IF outcome'[x] = "error" \/ next[x].mode # config.mode
                THEN targets' = before'
                ELSE /\ DOMAIN targets' = DOMAIN next[x].jobs
                     /\ \A j \in DOMAIN targets' : targets'[j].settings = next[x].collectors]_vars
  BY <1>1
<1> QED BY <1>2, Invariance, PTL DEF Spec, AllOrNothing

\* As long as reloads do not overlap, a reload changes no connection of a job that
\* had targets and still has (reload.go:75), but for jobs that a file which could
\* not be built has left out.
THEOREM ConnectionsAreKept == Spec => ConnectionsKept
<1>1. ASSUME IInv, [Next]_vars, ~ overlapped PROVE SameConnections
  <2>1. CASE UNCHANGED targets
    BY <2>1 DEF SameConnections
  <2>2. ASSUME NEW x \in Reload, UpdateTarget(x) PROVE SameConnections
    <3>1. targets' = config.jobs /\ Keeps(config.jobs)
      BY <1>1, <2>2 DEF UpdateTarget, Return, Goto, IInv, BuiltFromConfig, Carried
    <3> QED BY <3>1 DEF SameConnections, Keeps
  <2> QED BY <1>1, <2>1, <2>2, TargetsStep
<1>2. IInv /\ [Next]_vars => [~ overlapped => SameConnections]_vars
  BY <1>1
<1> QED BY <1>2, Invariance, PTL DEF Spec, ConnectionsKept
===============================================================================
