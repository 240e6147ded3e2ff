------------------------------ MODULE ConfigLoad ------------------------------
(***************************************************************************)
(* Load: from a configuration file to the configuration the exporter runs  *)
(* with, or to an error.  One goroutine does it, in a fixed order, but it  *)
(* ranges over maps, whose order Go picks, and it waits for the secret     *)
(* stores, whose secrets may change meanwhile: a fetch may find any shape  *)
(* and any version of its secret.                                          *)
(*                                                                         *)
(* A collector reference is the set of names it matches (none, if its      *)
(* pattern is bad).  A data source name is literal or refers to a key of a *)
(* secret, in some place: the region or the engine of the query string.    *)
(* The target of single target mode is a job with one connection, and so   *)
(* is what the environment sets of it, which may lack either.              *)
(***************************************************************************)
EXTENDS Naturals, Sequences, SequencesExt, FiniteSets

CONSTANTS
  Document,   \* the configurations to load, with what the environment sets
  Name, Unset, \* collectors; Unset is the min_interval or the name left out
  Query, Own,  \* the named queries of a collector; Own is that of a metric with its own
  Ref, Matches, \* collector references and the names each of them matches
  Secret, Literal, \* the secrets; Literal is that of a literal data source name
  Place,
  Label, \* the names of the data source names of a job
  Key, DefaultKey, \* the keys of a secret; DefaultKey is data_source_name
  MaxVersion  \* bound: versions of a secret during the load, from 0

ASSUME RefAssumption == Matches \in [Ref -> SUBSET (Name \cup {Unset})]
ASSUME NamesAssumption == Unset \notin Name \cup Nat /\ Literal \notin Secret /\ DefaultKey \in Key /\ Own \notin Query
ASSUME BoundAssumption == MaxVersion \in Nat

\* The key NoKey is that of a reference without one; Raw stands for the
\* whole of a secret that is not a JSON object.
NoKey == "no key"
Raw == "raw"

Dsn == [secret : Secret \cup {Literal}, place : Place, key : Key \cup {NoKey}]
Resolved == [secret : Secret, place : Place, part : Key \cup {Raw}, version : 0 .. MaxVersion]
Payload == [place : Place, parts : (SUBSET Key) \cup {{Raw}}, version : 0 .. MaxVersion]

CollectorDefs ==
  [name : Name \cup {Unset}, interval : Nat \cup {Unset},
   queries : SUBSET Query, metrics : SUBSET (Query \cup {Own})]

IsJob(j, values) ==
  /\ j = [refs |-> j.refs, targets |-> j.targets]
  /\ j.refs \in Seq(Ref)
  /\ DOMAIN j.targets \subseteq Label /\ j.targets \in [DOMAIN j.targets -> values]

AreJobs(s, values) == s \in Seq(ToSet(s)) /\ \A i \in DOMAIN s : IsJob(s[i], values)

IsConfig(d) ==
  /\ d.readable \in BOOLEAN
  /\ d.inline \in Seq(CollectorDefs) /\ d.files \in Seq(CollectorDefs)
  /\ d.global \in Nat
  /\ AreJobs(d.env, Dsn) /\ Len(d.env) <= 1
  /\ AreJobs(d.target, Dsn) /\ Len(d.target) <= 1
  /\ AreJobs(d.jobs, Dsn)

ASSUME DocumentAssumption == \A d \in Document : IsConfig(d)

VARIABLES
  document,
  pc,
  why,        \* of a load that failed
  unread,     \* the collector files still to be read
  collectors,
  work,       \* the target or the jobs, each with its references and data source names
  job,        \* the one in progress
  refs,       \* its references still to be resolved
  left,       \* the keys of the map ranged over that are still to come
  hit,        \* crefResolved
  resolved,   \* the collectors of each job
  asked,      \* the target whose secret is being fetched
  cache,      \* the cache of the secretResolver
  answers     \* history: what the secret stores have answered

input == <<document, unread, collectors>>
resolving == <<refs, hit, resolved>>
secrets == <<asked, cache, answers>>
vars == <<pc, why, job, left, work, input, resolving, secrets>>

Names == {collectors[i].name : i \in DOMAIN collectors}

TypeOK ==
  /\ IsConfig(document)
  /\ pc \in {"start", "files", "required", "index", "refs", "secrets", "fetch", "loaded", "failed"}
  /\ why \in {"none", "document", "collector", "reference", "secret"} /\ (why # "none" <=> pc = "failed")
  /\ unread \in Seq(CollectorDefs) /\ collectors \in Seq(CollectorDefs)
  /\ AreJobs(work, Dsn \cup Resolved)
  /\ job \in Nat
  /\ (pc \in {"refs", "secrets", "fetch"} => job \in DOMAIN work)
  /\ refs \in Seq(Ref)
  /\ (pc = "refs" => left \subseteq Names)
  /\ (pc \in {"secrets", "fetch"} => left \subseteq DOMAIN work[job].targets)
  /\ (pc = "fetch" => asked \in left)
  /\ hit \in BOOLEAN
  /\ resolved \in Seq(Seq(Name \cup {Unset}))
  /\ DOMAIN cache \subseteq Secret /\ cache \in [DOMAIN cache -> Payload]
  /\ answers \subseteq [secret : Secret, payload : Payload]

Init ==
  /\ document \in Document
  /\ pc = "start" /\ why = "none"
  /\ unread = <<>> /\ collectors = <<>> /\ work = <<>>
  /\ job = 0 /\ refs = <<>> /\ left = {} /\ hit = FALSE /\ resolved = <<>>
  /\ asked = "none" /\ cache = << >> /\ answers = {}

Goto(from, to) == pc = from /\ pc' = to /\ UNCHANGED why

Fail(from, cause) == pc = from /\ pc' = "failed" /\ why' = cause

-----------------------------------------------------------------------------
\* What the UnmarshalYAML of the parts of the file insist on.
NoRepeat(s) == s # <<>> /\ IsInjective(s)

\* A collector has metrics, and the queries they refer to.
Sound(c) == c.metrics # {} /\ c.metrics \subseteq c.queries \cup {Own}

TargetParses(t) == NoRepeat(t.refs) /\ DOMAIN t.targets # {}

\* A job has one static_config, in which no two data source names are alike.
StaticConfigParses(targets) == IsInjective(targets)

JobParses(j) == NoRepeat(j.refs) /\ StaticConfigParses(j.targets)

Parses(d) ==
  /\ d.readable
  /\ \A c \in ToSet(d.inline) : Sound(c)
  /\ \A t \in ToSet(d.target) : TargetParses(t)
  /\ \A j \in ToSet(d.jobs) : JobParses(j)

Override(t, e) ==
  [refs |-> IF e.refs = <<>> THEN t.refs ELSE e.refs,
   targets |-> IF DOMAIN e.targets = {} THEN t.targets ELSE e.targets]

\* The environment overwrites what it sets of the target: its references, its
\* data source name or neither, or makes a target of no more than that.
FromEnvironment(d) ==
  IF d.env = <<>> THEN d.target
  ELSE IF d.target = <<>> THEN d.env ELSE <<Override(d.target[1], d.env[1])>>

ParseFails ==
  /\ ~ Parses(document)
  /\ Fail("start", "document")
  /\ UNCHANGED <<work, job, left, input, resolving, secrets>>

Parse ==
  /\ Parses(document)
  /\ Goto("start", "files")
  /\ collectors' = document.inline
  /\ unread' = document.files
  /\ work' = FromEnvironment(document) \o document.jobs
  /\ UNCHANGED <<document, job, left, resolving, secrets>>

FileFails ==
  /\ unread # <<>>
  /\ ~ Sound(Head(unread)) \/ Head(unread).name = Unset
  /\ Fail("files", "document")
  /\ UNCHANGED <<work, job, left, input, resolving, secrets>>

LoadFile ==
  /\ unread # <<>>
  /\ Sound(Head(unread)) /\ Head(unread).name # Unset
  /\ Goto("files", "files")
  /\ collectors' = Append(collectors, Head(unread))
  /\ unread' = Tail(unread)
  /\ UNCHANGED <<document, work, job, left, resolving, secrets>>

FilesLoaded ==
  /\ unread = <<>>
  /\ Goto("files", "required")
  /\ UNCHANGED <<work, job, left, input, resolving, secrets>>

\* Exactly one of the target and the jobs, none of them empty.
Complete ==
  /\ (document.jobs = <<>>) # (FromEnvironment(document) = <<>>)
  /\ \A j \in DOMAIN work : work[j].refs # <<>> /\ DOMAIN work[j].targets # {}

RequiredMissing ==
  /\ ~ Complete
  /\ Fail("required", "document")
  /\ UNCHANGED <<work, job, left, input, resolving, secrets>>

RequiredPresent ==
  /\ Complete
  /\ Goto("required", "index")
  /\ UNCHANGED <<work, job, left, input, resolving, secrets>>

-----------------------------------------------------------------------------
(* populateCollectorReferences *)

DuplicateName ==
  /\ ~ IsInjective([i \in DOMAIN collectors |-> collectors[i].name])
  /\ Fail("index", "collector")
  /\ UNCHANGED <<work, job, left, input, resolving, secrets>>

\* Mutant: collectors of files do not get the default interval.
IndexInline ==
  /\ IsInjective([i \in DOMAIN collectors |-> collectors[i].name])
  /\ Goto("index", "refs")
  /\ collectors' = [i \in DOMAIN collectors |->
       IF collectors[i].interval = Unset /\ i <= Len(document.inline)
       THEN [collectors[i] EXCEPT !.interval = document.global] ELSE collectors[i]]
  /\ job' = 1
  /\ refs' = work[1].refs /\ left' = Names /\ hit' = FALSE
  /\ resolved' = [j \in DOMAIN work |-> <<>>]
  /\ UNCHANGED <<document, unread, work, secrets>>

\* The collectors get the interval of the globals if they have none.
Index ==
  /\ IsInjective([i \in DOMAIN collectors |-> collectors[i].name])
  /\ Goto("index", "refs")
  /\ collectors' = [i \in DOMAIN collectors |->
       IF collectors[i].interval = Unset
       THEN [collectors[i] EXCEPT !.interval = document.global] ELSE collectors[i]]
  /\ job' = 1
  /\ refs' = work[1].refs /\ left' = Names /\ hit' = FALSE
  /\ resolved' = [j \in DOMAIN work |-> <<>>]
  /\ UNCHANGED <<document, unread, work, secrets>>

\* Mutant: a reference counts as known by any name it matches.
MatchNameFound(n) ==
  /\ n \in left
  /\ refs # <<>>
  /\ Goto("refs", "refs")
  /\ left' = left \ {n}
  /\ hit' = (hit \/ n \in Matches[Head(refs)])
  /\ IF n \in Matches[Head(refs)] /\ n \notin ToSet(resolved[job])
     THEN resolved' = [resolved EXCEPT ![job] = Append(@, n)]
     ELSE UNCHANGED resolved
  /\ UNCHANGED <<work, job, refs, input, secrets>>

\* Mutant: found is not consulted.
MatchNameTwice(n) ==
  /\ n \in left
  /\ refs # <<>>
  /\ Goto("refs", "refs")
  /\ left' = left \ {n}
  /\ IF n \in Matches[Head(refs)]
     THEN resolved' = [resolved EXCEPT ![job] = Append(@, n)] /\ hit' = TRUE
     ELSE UNCHANGED <<resolved, hit>>
  /\ UNCHANGED <<work, job, refs, input, secrets>>

\* One turn of the loop over the map of collectors, in any order.
MatchName(n) ==
  /\ n \in left
  /\ refs # <<>>
  /\ Goto("refs", "refs")
  /\ left' = left \ {n}
  /\ IF n \in Matches[Head(refs)] /\ n \notin ToSet(resolved[job])
     THEN resolved' = [resolved EXCEPT ![job] = Append(@, n)] /\ hit' = TRUE
     ELSE UNCHANGED <<resolved, hit>>
  /\ UNCHANGED <<work, job, refs, input, secrets>>

UnknownCollector ==
  /\ refs # <<>> /\ left = {} /\ ~ hit
  /\ Fail("refs", "reference")
  /\ UNCHANGED <<work, job, left, input, resolving, secrets>>

NextRef ==
  /\ refs # <<>> /\ left = {} /\ hit
  /\ Goto("refs", "refs")
  /\ refs' = Tail(refs) /\ left' = Names /\ hit' = FALSE
  /\ UNCHANGED <<work, job, resolved, input, secrets>>

NextJobRefs ==
  /\ refs = <<>> /\ job < Len(work)
  /\ Goto("refs", "refs")
  /\ job' = job + 1
  /\ refs' = work[job + 1].refs /\ left' = Names /\ hit' = FALSE
  /\ UNCHANGED <<work, resolved, input, secrets>>

RefsResolved ==
  /\ refs = <<>> /\ job = Len(work)
  /\ Goto("refs", "secrets")
  /\ job' = 1 /\ left' = DOMAIN work[1].targets
  /\ UNCHANGED <<work, input, resolving, secrets>>

-----------------------------------------------------------------------------
(* resolveSecrets, with a resolver of its own *)

IsSecretRef(t) == work[job].targets[t].secret # Literal

KeepLiteral(t) ==
  /\ t \in left
  /\ ~ IsSecretRef(t)
  /\ Goto("secrets", "secrets")
  /\ left' = left \ {t}
  /\ UNCHANGED <<work, job, input, resolving, secrets>>

Part(dsn, payload) ==
  IF payload.parts = {Raw} THEN Raw ELSE IF dsn.key = NoKey THEN DefaultKey ELSE dsn.key

\* What becomes of a data source name that refers to the payload.
Value(dsn, payload) ==
  [secret |-> dsn.secret, place |-> payload.place, part |-> Part(dsn, payload), version |-> payload.version]

\* extractKey, of a payload that was cached or fetched, and the assignment.
Extract(t, from, payload) ==
  LET dsn == work[job].targets[t]
  IN IF Part(dsn, payload) \in payload.parts
     THEN /\ Goto(from, "secrets")
          /\ work' = [work EXCEPT ![job].targets[t] = Value(dsn, payload)]
          /\ left' = left \ {t}
     ELSE Fail(from, "secret") /\ UNCHANGED <<work, left>>

\* The key of the cache leaves the query string out, and the place with it.
Cached(t) ==
  /\ t \in left
  /\ IsSecretRef(t)
  /\ work[job].targets[t].secret \in DOMAIN cache
  /\ Extract(t, "secrets", cache[work[job].targets[t].secret])
  /\ UNCHANGED <<job, input, resolving, secrets>>

Fetch(t) ==
  /\ t \in left
  /\ IsSecretRef(t)
  /\ work[job].targets[t].secret \notin DOMAIN cache
  /\ Goto("secrets", "fetch")
  /\ asked' = t
  /\ UNCHANGED <<work, job, left, cache, answers, input, resolving>>

\* What the store answers for a data source name: a JSON object, in which some
\* keys may be missing, or a plain string.
Answers(dsn, payload) ==
  /\ payload \in Payload /\ payload.place = dsn.place
  /\ answers' = answers \cup {[secret |-> dsn.secret, payload |-> payload]}

Remember(secret, payload) ==
  cache' = [s \in DOMAIN cache \cup {secret} |-> IF s = secret THEN payload ELSE cache[s]]

\* Mutant: the payload is not cached.
FetchedUncached(payload) ==
  /\ pc = "fetch"
  /\ Answers(work[job].targets[asked], payload)
  /\ Extract(asked, "fetch", payload)
  /\ UNCHANGED <<job, asked, cache, input, resolving>>

\* Mutant: what is cached is the part, not the payload.
FetchedExtracted(payload) ==
  /\ pc = "fetch"
  /\ Answers(work[job].targets[asked], payload)
  /\ Remember(work[job].targets[asked].secret, [payload EXCEPT !.parts = {Raw}])
  /\ Extract(asked, "fetch", payload)
  /\ UNCHANGED <<job, asked, input, resolving>>

Fetched(payload) ==
  /\ pc = "fetch"
  /\ Answers(work[job].targets[asked], payload)
  /\ Remember(work[job].targets[asked].secret, payload)
  /\ Extract(asked, "fetch", payload)
  /\ UNCHANGED <<job, asked, input, resolving>>

\* Mutant: a fetch that fails is tried again.
FetchFailsRetries ==
  /\ Goto("fetch", "secrets")
  /\ UNCHANGED <<work, job, left, input, resolving, secrets>>

\* The provider returns an error: at the latest when the context expires.
FetchFails ==
  /\ Fail("fetch", "secret")
  /\ UNCHANGED <<work, job, left, input, resolving, secrets>>

\* Mutant: the targets ranged over are those of the job before.
NextJobSecretsLate ==
  /\ left = {} /\ job < Len(work)
  /\ Goto("secrets", "secrets")
  /\ job' = job + 1 /\ left' = DOMAIN work[job].targets
  /\ UNCHANGED <<work, input, resolving, secrets>>

NextJobSecrets ==
  /\ left = {} /\ job < Len(work)
  /\ Goto("secrets", "secrets")
  /\ job' = job + 1 /\ left' = DOMAIN work[job + 1].targets
  /\ UNCHANGED <<work, input, resolving, secrets>>

SecretsResolved ==
  /\ left = {} /\ job = Len(work)
  /\ Goto("secrets", "loaded")
  /\ UNCHANGED <<work, job, left, input, resolving, secrets>>

-----------------------------------------------------------------------------
Step ==
  \/ ParseFails \/ Parse \/ FileFails \/ LoadFile \/ FilesLoaded
  \/ RequiredMissing \/ RequiredPresent
  \/ DuplicateName \/ Index
  \/ \E n \in Names : MatchName(n)
  \/ UnknownCollector \/ NextRef \/ NextJobRefs \/ RefsResolved
  \/ \E t \in Label : KeepLiteral(t) \/ Cached(t) \/ Fetch(t)
  \/ FetchFails \/ NextJobSecrets \/ SecretsResolved

Next == Step \/ \E payload \in Payload : Fetched(payload)

Spec == Init /\ [][Next]_vars

\* The store owes no answer: it is the context that ends a fetch.
FairSpec == Spec /\ WF_vars(Step)

-----------------------------------------------------------------------------
(* Properties *)

Hits(j, i) == Matches[work[j].refs[i]] \cap Names

\* The reference names nothing that those before it do not name already.
Superfluous(j, i) == Hits(j, i) \subseteq UNION {Hits(j, k) : k \in 1 .. i - 1}

\* The order in which Go ranges over the collectors decides neither whether
\* the references are accepted nor what they stand for: a load fails on one
\* if and only if some reference adds nothing to those before it.
OrderBlind ==
  /\ why = "reference" => \E j \in DOMAIN work : \E i \in DOMAIN work[j].refs : Superfluous(j, i)
  /\ pc \in {"secrets", "fetch", "loaded"} =>
       \A j \in DOMAIN work : \A i \in DOMAIN work[j].refs : ~ Superfluous(j, i)

\* Once its references are resolved, a job has every collector one of them
\* matches, each of them once, though they overlap.
EveryCollectorOnce ==
  pc \in {"secrets", "fetch", "loaded"} =>
    \A j \in DOMAIN work :
      /\ ToSet(resolved[j]) = UNION {Hits(j, i) : i \in DOMAIN work[j].refs}
      /\ IsInjective(resolved[j])

\* Wherever a collector of a loaded configuration is defined, its name is its
\* own and its interval is set: its own or that of the globals.
CollectorsSettled ==
  pc = "loaded" =>
    /\ \A i, k \in DOMAIN collectors : collectors[i].name = collectors[k].name => i = k
    /\ \A c \in ToSet(document.inline \o document.files) :
         \E d \in ToSet(collectors) :
           /\ d.name = c.name
           /\ d.interval = IF c.interval = Unset THEN document.global ELSE c.interval

\* Every reference to a collector has its collectors, and they are complete.
CollectorsResolved == EveryCollectorOnce /\ CollectorsSettled

Source(j, t) == (FromEnvironment(document) \o document.jobs)[j].targets[t]

\* In a loaded configuration every data source name is the literal that the
\* environment or else the file has, or the part that its own reference selects
\* of a payload some store answered for its secret, though it was fetched for
\* another reference, of another key and perhaps of another shape.
OwnPart ==
  pc = "loaded" =>
    \A j \in DOMAIN work : \A t \in DOMAIN work[j].targets :
      LET dsn == Source(j, t)
          now == work[j].targets[t]
      IN IF dsn.secret = Literal THEN now = dsn
         ELSE \E payload \in {a.payload : a \in {b \in answers : b.secret = dsn.secret}} :
                /\ Part(dsn, payload) \in payload.parts
                /\ now = Value(dsn, payload)

\* The data source names that refer to one secret are all of one version of
\* it, even if the secret changes while the configuration is being loaded.
OneVersion ==
  pc = "loaded" =>
    \A j, k \in DOMAIN work : \A t \in DOMAIN work[j].targets, u \in DOMAIN work[k].targets :
      (Source(j, t).secret = Source(k, u).secret /\ Source(j, t).secret # Literal)
        => work[j].targets[t].version = work[k].targets[u].version

\* Every reference to a secret has its value, for all that the cache shares.
SecretsAsWritten == OwnPart /\ OneVersion

\* A load ends, though a secret store never answers.
LoadEnds == <>(pc \in {"loaded", "failed"})

\* README.md:407 gives a reference a region: the data source name is of the
\* secret of that region.
OwnPlace ==
  pc = "loaded" =>
    \A j \in DOMAIN work : \A t \in DOMAIN work[j].targets :
      Source(j, t).secret # Literal => work[j].targets[t].place = Source(j, t).place
=============================================================================
