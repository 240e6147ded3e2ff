--------------------------- MODULE ConfigLoadProofs ---------------------------
(***************************************************************************)
(* Proofs about ConfigLoad: for every set of documents, of collectors, of  *)
(* references and of secrets, whatever the order of the maps and however   *)
(* often the secrets change during the load.                               *)
(***************************************************************************)
EXTENDS ConfigLoad, SequenceTheorems, TLAPS

-----------------------------------------------------------------------------
(* The inductive invariant *)

Src == FromEnvironment(document) \o document.jobs

All == document.inline \o document.files

Later == {"refs", "secrets", "fetch", "loaded"}

\* The work is that of the document; there is some when it is gone through.
Shaped ==
  /\ pc \notin {"start", "failed"} =>
       /\ Len(work) = Len(Src)
       /\ \A j \in DOMAIN work : DOMAIN work[j].targets = DOMAIN Src[j].targets
  /\ pc = "index" \/ pc \in Later => work # <<>>
  /\ pc \in Later => Len(resolved) = Len(work) /\ job \in DOMAIN work
  /\ pc = "loaded" => job = Len(work) /\ left = {}

\* Nothing is lost of the collectors on the way from the files.
Collected ==
  /\ pc = "files" => collectors \o unread = All
  /\ pc \in {"required", "index"} => collectors = All
  /\ pc \in Later =>
       /\ Len(collectors) = Len(All)
       /\ \A i \in DOMAIN collectors :
            /\ collectors[i].name = All[i].name
            /\ collectors[i].interval = IF All[i].interval = Unset THEN document.global ELSE All[i].interval
       /\ \A i, k \in DOMAIN collectors : collectors[i].name = collectors[k].name => i = k

\* What the first k of a list of references name, of the names there are.
Reached(list, names, k) == UNION {Matches[list[i]] \cap names : i \in 1 .. k}

Fresh(list, names, i) == ~ (Matches[list[i]] \cap names \subseteq Reached(list, names, i - 1))

\* The collectors of a job are those that its references name, and none of
\* its references was superfluous.
AllFound(list, names, found) ==
  /\ ToSet(found) = Reached(list, names, Len(list))
  /\ \A i \in DOMAIN list : Fresh(list, names, i)

\* How many references of the job are done with.
At == Len(work[job].refs) - Len(refs)

\* What the reference in progress names.
Wanted == IF refs = <<>> THEN {} ELSE Matches[Head(refs)] \cap Names

\* The jobs are resolved one after the other, and so are the references of
\* one: crefResolved is set exactly if the reference adds to those before it.
Resolving ==
  pc = "refs" =>
    /\ At >= 0 /\ \A i \in DOMAIN refs : refs[i] = work[job].refs[At + i]
    /\ \A j \in DOMAIN work :
         /\ j < job => AllFound(work[j].refs, Names, resolved[j])
         /\ j > job => resolved[j] = <<>>
    /\ \A i \in 1 .. At : Fresh(work[job].refs, Names, i)
    /\ ToSet(resolved[job]) = Reached(work[job].refs, Names, At) \cup (Wanted \ left)
    /\ hit <=> ~ (Wanted \ left \subseteq Reached(work[job].refs, Names, At))

Found ==
  /\ pc \in Later => \A j \in DOMAIN work : IsInjective(resolved[j])
  /\ pc \in Later \ {"refs"} => \A j \in DOMAIN work : AllFound(work[j].refs, Names, resolved[j])

\* A reference is blamed only if it is superfluous.
Blamed ==
  why = "reference" => \E j \in DOMAIN work : \E i \in DOMAIN work[j].refs : ~ Fresh(work[j].refs, Names, i)

\* The cache has what a store has answered.
Answered == \A s \in DOMAIN cache : [secret |-> s, payload |-> cache[s]] \in answers

\* The value of a data source name, once the secrets it needs are cached.
Filled(dsn, known, now) ==
  IF dsn.secret = Literal THEN now = dsn
  ELSE /\ dsn.secret \in DOMAIN known
       /\ Part(dsn, known[dsn.secret]) \in known[dsn.secret].parts
       /\ now = Value(dsn, known[dsn.secret])

Pending(j, t) == pc # "loaded" /\ (pc \in {"secrets", "fetch"} => j > job \/ (j = job /\ t \in left))

\* A data source name is as the document has it until its turn has come, and
\* from then on what the cache, which never changes its mind, has for it.
Written ==
  pc \notin {"start", "failed"} =>
    \A j \in DOMAIN work : \A t \in DOMAIN work[j].targets :
      IF Pending(j, t) THEN work[j].targets[t] = Source(j, t)
      ELSE Filled(Source(j, t), cache, work[j].targets[t])

\* A secret is fetched for a reference, and only if the cache has none.
Fetching ==
  pc = "fetch" =>
    /\ work[job].targets[asked].secret \in Secret
    /\ work[job].targets[asked].secret \notin DOMAIN cache

IInv ==
  /\ TypeOK /\ Shaped /\ Collected /\ Resolving /\ Found /\ Blamed
  /\ Answered /\ Written /\ Fetching

-----------------------------------------------------------------------------
(* Lemmas about lists of jobs *)

LEMMA JobList ==
  ASSUME NEW V, NEW s, AreJobs(s, V)
  PROVE  /\ s \in Seq(ToSet(s)) /\ Len(s) \in Nat /\ DOMAIN s = 1 .. Len(s)
         /\ \A i \in DOMAIN s : /\ s[i].refs \in Seq(Ref)
                                /\ DOMAIN s[i].targets \subseteq Label
                                /\ \A t \in DOMAIN s[i].targets : s[i].targets[t] \in V
  BY DEF AreJobs, IsJob

LEMMA JobListIntro ==
  ASSUME NEW V, NEW S, NEW s \in Seq(S), \A i \in DOMAIN s : IsJob(s[i], V)
  PROVE  AreJobs(s, V)
<1>1. \A i \in 1 .. Len(s) : s[i] \in ToSet(s)
  BY DEF ToSet
<1>2. s \in Seq(ToSet(s))
  BY <1>1
<1> QED BY <1>2 DEF AreJobs

LEMMA JobListConcat ==
  ASSUME NEW V, NEW s, NEW r, AreJobs(s, V), AreJobs(r, V)
  PROVE  AreJobs(s \o r, V)
<1> DEFINE S == ToSet(s) \cup ToSet(r)
<1>1. s \in Seq(S) /\ r \in Seq(S)
  <2>1. s \in Seq(ToSet(s)) /\ r \in Seq(ToSet(r))
    BY DEF AreJobs
  <2> QED BY <2>1
<1> HIDE DEF S
<1>2. s \o r \in Seq(S)
  BY <1>1
<1>3. ASSUME NEW i \in DOMAIN (s \o r) PROVE IsJob((s \o r)[i], V)
  <2>1. i \in 1 .. Len(s) + Len(r)
    BY <1>1
  <2>2. (s \o r)[i] = IF i <= Len(s) THEN s[i] ELSE r[i - Len(s)]
    BY <1>1, <2>1
  <2>3. CASE i <= Len(s)
    BY <1>1, <2>1, <2>2, <2>3 DEF AreJobs
  <2>4. CASE i > Len(s)
    BY <1>1, <2>1, <2>2, <2>4 DEF AreJobs
  <2> QED BY <1>1, <2>1, <2>3, <2>4
<1> QED BY <1>2, <1>3, JobListIntro

LEMMA JobListWider ==
  ASSUME NEW V, NEW W, V \subseteq W, NEW s, AreJobs(s, V)
  PROVE  AreJobs(s, W)
BY DEF AreJobs, IsJob

\* The jobs of a document, or its target, are jobs.
LEMMA SourceJobs ==
  ASSUME IsConfig(document)
  PROVE  AreJobs(Src, Dsn) /\ AreJobs(FromEnvironment(document), Dsn)
<1>0. AreJobs(document.target, Dsn) /\ AreJobs(document.jobs, Dsn) /\ AreJobs(document.env, Dsn)
  BY DEF IsConfig
<1>1. AreJobs(FromEnvironment(document), Dsn)
  <2>1. CASE document.env = <<>> \/ document.target = <<>>
    BY <1>0, <2>1 DEF FromEnvironment
  <2>2. CASE document.env # <<>> /\ document.target # <<>>
    <3> DEFINE o == document.target[1]
               e == document.env[1]
               j == Override(o, e)
    <3>1. IsJob(o, Dsn) /\ IsJob(e, Dsn)
      <4>1. 1 \in DOMAIN document.target /\ 1 \in DOMAIN document.env
        BY <1>0, <2>2, JobList
      <4> QED BY <1>0, <4>1 DEF AreJobs
    <3> HIDE DEF o, e
    <3>2. IsJob(j, Dsn)
      BY <3>1 DEF IsJob, Override
    <3> HIDE DEF j
    <3>3. <<j>> \in Seq({j}) /\ \A i \in DOMAIN <<j>> : <<j>>[i] = j
      OBVIOUS
    <3>4. AreJobs(<<j>>, Dsn)
      BY <3>2, <3>3, JobListIntro
    <3> QED BY <2>2, <3>4 DEF FromEnvironment, j, o, e
  <2> QED BY <2>1, <2>2
<1> QED BY <1>0, <1>1, JobListConcat DEF Src

-----------------------------------------------------------------------------
(* The steps of a load *)

\* What the cache has it keeps, and what it gains a store has answered.
CacheGrows ==
  /\ DOMAIN cache' \subseteq Secret /\ cache' \in [DOMAIN cache' -> Payload]
  /\ \A s \in DOMAIN cache : s \in DOMAIN cache' /\ cache'[s] = cache[s]
  /\ \A s \in DOMAIN cache' \ DOMAIN cache : [secret |-> s, payload |-> cache'[s]] \in answers'
  /\ answers \subseteq answers' /\ answers' \subseteq [secret : Secret, payload : Payload]

\* A load that fails.
FailStep ==
  /\ pc' = "failed" /\ why' \in {"document", "collector", "reference", "secret"}
  /\ why' = "reference" => pc = "refs" /\ refs # <<>> /\ left = {} /\ ~ hit
  /\ pc \notin {"loaded", "failed"}
  /\ CacheGrows
  /\ UNCHANGED <<work, job, left, input, resolving>>

\* A data source name gets its value from the cache, where it may be new.
FillStep(t) ==
  /\ pc \in {"secrets", "fetch"} /\ pc' = "secrets"
  /\ t \in left /\ left' = left \ {t}
  /\ CacheGrows
  /\ LET dsn == work[job].targets[t]
     IN /\ dsn \in Dsn /\ dsn.secret \in DOMAIN cache'
        /\ Part(dsn, cache'[dsn.secret]) \in cache'[dsn.secret].parts
        /\ Value(dsn, cache'[dsn.secret]) \in Resolved
        /\ work' = [work EXCEPT ![job].targets[t] = Value(dsn, cache'[dsn.secret])]
  /\ UNCHANGED <<why, job, input, resolving, asked>>

LEMMA StaysCached ==
  ASSUME TypeOK, UNCHANGED <<cache, answers>>
  PROVE  CacheGrows
<1>0. /\ DOMAIN cache \subseteq Secret /\ cache \in [DOMAIN cache -> Payload]
      /\ answers \subseteq [secret : Secret, payload : Payload]
  BY DEF TypeOK
<1> QED BY <1>0 DEF CacheGrows

LEMMA FailSteps ==
  ASSUME TypeOK
  PROVE  /\ ParseFails => FailStep
         /\ FileFails => FailStep
         /\ RequiredMissing => FailStep
         /\ DuplicateName => FailStep
         /\ UnknownCollector => FailStep
         /\ FetchFails => FailStep
<1>1. UNCHANGED <<cache, answers>> => CacheGrows
  BY StaysCached
<1> QED BY <1>1 DEF FailStep, Fail, ParseFails, FileFails, RequiredMissing, DuplicateName,
           UnknownCollector,
                    FetchFails, input, resolving, secrets

\* A reference that is still to be resolved is the document's.
LEMMA StillWritten ==
  ASSUME TypeOK, Shaped, Written, pc \in {"secrets", "fetch"}, NEW t \in left
  PROVE  /\ t \in DOMAIN work[job].targets
         /\ work[job].targets[t] \in Dsn
         /\ work[job].targets[t] = Source(job, t)
<1>1. job \in DOMAIN work /\ t \in DOMAIN work[job].targets /\ job \in Nat
  BY DEF TypeOK
<1>2. work[job].targets[t] = Source(job, t)
  <2>1. Pending(job, t)
    BY DEF Pending
  <2> QED BY <1>1, <2>1 DEF Written
<1>3. AreJobs(Src, Dsn)
  BY SourceJobs DEF TypeOK
<1>4. AreJobs(work, Dsn \cup Resolved)
  BY DEF TypeOK
<1>5. job \in DOMAIN Src /\ t \in DOMAIN Src[job].targets
  <2>1. Len(work) = Len(Src) /\ DOMAIN work[job].targets = DOMAIN Src[job].targets
    BY <1>1 DEF Shaped
  <2> QED BY <1>1, <1>3, <1>4, <2>1, JobList
<1>6. Src[job].targets[t] \in Dsn
  BY <1>3, <1>5, JobList
<1> QED BY <1>1, <1>2, <1>6 DEF Source, Src

LEMMA ValueType ==
  ASSUME NEW dsn \in Dsn, dsn.secret \in Secret, NEW payload \in Payload, Part(dsn, payload) \in payload.parts
  PROVE  Value(dsn, payload) \in Resolved
<1>1. payload.place \in Place /\ payload.version \in 0 .. MaxVersion /\ payload.parts \in (SUBSET Key) \cup {{Raw}}
  BY DEF Payload
<1>2. Part(dsn, payload) \in Key \cup {Raw}
  BY <1>1
<1> QED BY <1>1, <1>2 DEF Value, Resolved

LEMMA CachedStep ==
  ASSUME TypeOK, Shaped, Written, NEW t, Cached(t)
  PROVE  FailStep \/ FillStep(t)
<1> DEFINE dsn == work[job].targets[t]
<1>1. /\ pc = "secrets" /\ t \in left /\ dsn.secret # Literal /\ dsn.secret \in DOMAIN cache
      /\ UNCHANGED <<job, input, resolving, secrets>>
  BY DEF Cached, Extract, Goto, Fail, IsSecretRef
<1>2. dsn \in Dsn /\ dsn.secret \in Secret
  <2>1. dsn \in Dsn
    BY <1>1, StillWritten
  <2> QED BY <1>1, <2>1 DEF Dsn
<1>3. CacheGrows /\ cache' = cache
  BY <1>1, StaysCached DEF secrets
<1>4. cache[dsn.secret] \in Payload
  <2>1. cache \in [DOMAIN cache -> Payload]
    BY DEF TypeOK
  <2> QED BY <1>1, <2>1
<1>5. CASE Part(dsn, cache[dsn.secret]) \in cache[dsn.secret].parts
  <2>1. Value(dsn, cache[dsn.secret]) \in Resolved
    BY <1>2, <1>4, <1>5, ValueType
  <2>2. /\ pc' = "secrets" /\ UNCHANGED why /\ left' = left \ {t}
        /\ work' = [work EXCEPT ![job].targets[t] = Value(dsn, cache[dsn.secret])]
    BY <1>5 DEF Cached, Extract, Goto
  <2> QED BY <1>1, <1>2, <1>3, <1>5, <2>1, <2>2 DEF FillStep, secrets
<1>6. CASE Part(dsn, cache[dsn.secret]) \notin cache[dsn.secret].parts
  BY <1>1, <1>3, <1>6 DEF FailStep, Cached, Extract, Fail, secrets
<1> QED BY <1>5, <1>6

LEMMA FetchedStep ==
  ASSUME TypeOK, Shaped, Written, Fetching, NEW payload \in Payload, Fetched(payload)
  PROVE  FailStep \/ FillStep(asked)
<1> DEFINE dsn == work[job].targets[asked]
<1>1. /\ pc = "fetch" /\ asked \in left
      /\ UNCHANGED <<job, asked, input, resolving>>
      /\ cache' = [s \in DOMAIN cache \cup {dsn.secret} |-> IF s = dsn.secret THEN payload ELSE cache[s]]
      /\ answers' = answers \cup {[secret |-> dsn.secret, payload |-> payload]}
  BY DEF Fetched, Answers, Remember, TypeOK
<1>2. dsn \in Dsn /\ dsn.secret \in Secret /\ dsn.place \in Place /\ dsn.secret \notin DOMAIN cache
  <2>1. dsn \in Dsn
    BY <1>1, StillWritten
  <2> QED BY <1>1, <2>1 DEF Dsn, Fetching
<1>4. CacheGrows /\ dsn.secret \in DOMAIN cache' /\ cache'[dsn.secret] = payload
  <2>0. DOMAIN cache \subseteq Secret /\ cache \in [DOMAIN cache -> Payload]
        /\ answers \subseteq [secret : Secret, payload : Payload]
    BY DEF TypeOK
  <2>1. DOMAIN cache' = DOMAIN cache \cup {dsn.secret} /\ cache'[dsn.secret] = payload
        /\ \A s \in DOMAIN cache : cache'[s] = cache[s]
    BY <1>1, <1>2
  <2>2. cache' \in [DOMAIN cache' -> Payload]
    BY <1>1, <2>0
  <2>3. [secret |-> dsn.secret, payload |-> payload] \in [secret : Secret, payload : Payload]
    BY <1>2
  <2> HIDE DEF dsn
  <2> QED BY <1>1, <1>2, <2>0, <2>1, <2>2, <2>3 DEF CacheGrows
<1>5. CASE Part(dsn, payload) \in payload.parts
  <2>1. Value(dsn, payload) \in Resolved
    BY <1>2, <1>5, ValueType
  <2>2. /\ pc' = "secrets" /\ UNCHANGED why /\ left' = left \ {asked}
        /\ work' = [work EXCEPT ![job].targets[asked] = Value(dsn, payload)]
    BY <1>5 DEF Fetched, Extract, Goto
  <2> QED BY <1>1, <1>2, <1>4, <1>5, <2>1, <2>2 DEF FillStep
<1>6. CASE Part(dsn, payload) \notin payload.parts
  BY <1>1, <1>4, <1>6 DEF FailStep, Fetched, Extract, Fail
<1> QED BY <1>5, <1>6

\* A step is one of these.
LEMMA Steps ==
  ASSUME TypeOK, Shaped, Written, Fetching, [Next]_vars
  PROVE  \/ FailStep
         \/ Parse \/ LoadFile \/ FilesLoaded \/ RequiredPresent \/ Index
         \/ \E n \in Names : MatchName(n)
         \/ NextRef \/ NextJobRefs \/ RefsResolved
         \/ \E t \in Label : KeepLiteral(t) \/ Fetch(t)
         \/ \E t : FillStep(t)
         \/ NextJobSecrets \/ SecretsResolved
         \/ UNCHANGED vars
BY FailSteps, CachedStep, FetchedStep DEF Next, Step

\* The collectors get their intervals and keep their names.
LEMMA Indexed ==
  ASSUME TypeOK, Index
  PROVE  /\ collectors' \in Seq(CollectorDefs) /\ Len(collectors') = Len(collectors)
         /\ DOMAIN collectors' = DOMAIN collectors
         /\ \A i \in DOMAIN collectors :
              /\ collectors'[i].name = collectors[i].name
              /\ collectors'[i].interval =
                   IF collectors[i].interval = Unset THEN document.global ELSE collectors[i].interval
         /\ Names' = Names
<1>0. collectors \in Seq(CollectorDefs) /\ document.global \in Nat
  BY DEF TypeOK, IsConfig
<1> DEFINE new(i) == IF collectors[i].interval = Unset
                     THEN [collectors[i] EXCEPT !.interval = document.global] ELSE collectors[i]
<1>1. collectors' = [i \in 1 .. Len(collectors) |-> new(i)]
  BY <1>0 DEF Index
<1>2. ASSUME NEW i \in 1 .. Len(collectors)
      PROVE  /\ new(i) \in CollectorDefs /\ new(i).name = collectors[i].name
             /\ new(i).interval =
                  IF collectors[i].interval = Unset THEN document.global ELSE collectors[i].interval
  <2>1. collectors[i] \in CollectorDefs
    BY <1>0
  <2> DEFINE c == collectors[i]
  <2> HIDE DEF c
  <2>2. c = [name |-> c.name, interval |-> c.interval, queries |-> c.queries, metrics |-> c.metrics]
    BY <2>1 DEF CollectorDefs, c
  <2>3. [c EXCEPT !.interval = document.global]
          = [name |-> c.name, interval |-> document.global, queries |-> c.queries, metrics |-> c.metrics]
    BY <2>2
  <2> QED BY <1>0, <2>1, <2>3 DEF CollectorDefs, c
<1> HIDE DEF new
<1>3. collectors' \in Seq(CollectorDefs) /\ Len(collectors') = Len(collectors)
      /\ DOMAIN collectors' = DOMAIN collectors
      /\ \A i \in DOMAIN collectors : collectors'[i] = new(i)
  BY <1>0, <1>1, <1>2
<1>4. DOMAIN collectors = 1 .. Len(collectors)
  BY <1>0
<1>5. \A i \in DOMAIN collectors :
        /\ collectors'[i].name = collectors[i].name
        /\ collectors'[i].interval =
             IF collectors[i].interval = Unset THEN document.global ELSE collectors[i].interval
  BY <1>2, <1>3, <1>4
<1>6. Names' = Names
  BY <1>3, <1>5 DEF Names
<1> QED BY <1>3, <1>5, <1>6

\* A value is assigned: the rest of the work stays as it is.
LEMMA Filling ==
  ASSUME TypeOK, Shaped, Written, NEW t, FillStep(t)
  PROVE  LET value == Value(work[job].targets[t], cache'[work[job].targets[t].secret])
         IN /\ AreJobs(work', Dsn \cup Resolved) /\ Len(work') = Len(work) /\ DOMAIN work' = DOMAIN work
            /\ \A k \in DOMAIN work :
                 /\ work'[k].refs = work[k].refs
                 /\ DOMAIN work'[k].targets = DOMAIN work[k].targets
                 /\ \A u \in DOMAIN work[k].targets :
                      work'[k].targets[u] = IF k = job /\ u = t THEN value ELSE work[k].targets[u]
<1> DEFINE value == Value(work[job].targets[t], cache'[work[job].targets[t].secret])
           V == Dsn \cup Resolved
           o == work[job]
           m == [o.targets EXCEPT ![t] = value]
           j == [o EXCEPT !.targets = m]
<1>1. /\ AreJobs(work, V) /\ job \in DOMAIN work /\ t \in DOMAIN work[job].targets
  BY StillWritten DEF TypeOK, FillStep
<1>2. value \in V /\ work' = [work EXCEPT ![job].targets[t] = value]
  BY DEF FillStep
<1> HIDE DEF value, V
<1>3. work \in Seq(ToSet(work)) /\ IsJob(o, V)
  BY <1>1 DEF AreJobs
<1>4. work' = [work EXCEPT ![job] = j]
  BY <1>2
<1>5. t \in DOMAIN o.targets
  BY <1>1
<1> HIDE DEF o
<1>6. o = [refs |-> o.refs, targets |-> o.targets] /\ o.targets \in [DOMAIN o.targets -> V]
  BY <1>3 DEF IsJob
<1>7. j = [refs |-> o.refs, targets |-> m]
  BY <1>6
<1>8. /\ m \in [DOMAIN o.targets -> V] /\ DOMAIN m = DOMAIN o.targets
      /\ \A u \in DOMAIN o.targets : m[u] = IF u = t THEN value ELSE o.targets[u]
  BY <1>2, <1>5, <1>6
<1> HIDE DEF m
<1>9. IsJob(j, V) /\ j.refs = o.refs /\ j.targets = m
  BY <1>3, <1>7, <1>8 DEF IsJob
<1> HIDE DEF j
<1>10. /\ work' \in Seq(ToSet(work) \cup {j}) /\ Len(work') = Len(work) /\ DOMAIN work' = DOMAIN work
       /\ \A k \in DOMAIN work : work'[k] = IF k = job THEN j ELSE work[k]
  BY <1>1, <1>3, <1>4
<1>11. AreJobs(work', V)
  <2>1. \A k \in DOMAIN work' : IsJob(work'[k], V)
    BY <1>1, <1>9, <1>10 DEF AreJobs
  <2> QED BY <1>10, <2>1, JobListIntro
<1>12. \A k \in DOMAIN work : /\ k # job => work'[k] = work[k]
                              /\ k = job => work'[k] = j
  BY <1>10
<1>13. \A k \in DOMAIN work :
         /\ work'[k].refs = work[k].refs
         /\ DOMAIN work'[k].targets = DOMAIN work[k].targets
         /\ \A u \in DOMAIN work[k].targets :
              work'[k].targets[u] = IF k = job /\ u = t THEN value ELSE work[k].targets[u]
  BY <1>8, <1>9, <1>12 DEF o
<1> QED BY <1>10, <1>11, <1>13 DEF value, V

-----------------------------------------------------------------------------
(* The invariant holds initially, and every step preserves it *)

LEMMA InitIInv == Init => IInv
<1> SUFFICES ASSUME Init PROVE IInv
  OBVIOUS
<1>1. /\ document \in Document /\ pc = "start" /\ why = "none" /\ unread = <<>> /\ collectors = <<>>
      /\ work = <<>> /\ job = 0 /\ refs = <<>> /\ left = {} /\ hit = FALSE /\ resolved = <<>> /\ cache = << >>
      /\ answers = {}
  BY DEF Init
<1>3. TypeOK
  <2>1. IsConfig(document)
    BY <1>1, DocumentAssumption
  <2>2. AreJobs(work, Dsn \cup Resolved)
    BY <1>1 DEF AreJobs
  <2>3. answers \subseteq [secret : Secret, payload : Payload]
    BY <1>1
  <2>4. DOMAIN cache \subseteq Secret /\ cache \in [DOMAIN cache -> Payload]
    BY <1>1
  <2>5. unread \in Seq(CollectorDefs) /\ collectors \in Seq(CollectorDefs) /\ refs \in Seq(Ref)
        /\ resolved \in Seq(Seq(Name \cup {Unset})) /\ job \in Nat /\ hit \in BOOLEAN
    <3>1. \A S : << >> \in Seq(S)
      OBVIOUS
    <3>2. job \in Nat /\ hit \in BOOLEAN
      BY <1>1
    <3> QED BY <1>1, <3>1, <3>2
  <2>6. why \in {"none", "document", "collector", "reference", "secret"} /\ (why # "none" <=> pc = "failed")
        /\ pc \notin {"refs", "secrets", "fetch"}
        /\ pc \in {"start", "files", "required", "index", "refs", "secrets", "fetch", "loaded", "failed"}
    BY <1>1
  <2> QED BY <2>1, <2>2, <2>3, <2>4, <2>5, <2>6 DEF TypeOK
<1>4. Answered
  BY <1>1 DEF Answered
<1> QED BY <1>1, <1>3, <1>4 DEF IInv, Shaped, Collected, Resolving, Found, Blamed, Written,
           Fetching, Later

LEMMA NextTypeOK ==
  ASSUME TypeOK, Shaped, Written, Fetching, [Next]_vars
  PROVE  TypeOK'
<1>0. /\ IsConfig(document)
      /\ document.inline \in Seq(CollectorDefs) /\ document.files \in Seq(CollectorDefs)
      /\ unread \in Seq(CollectorDefs) /\ collectors \in Seq(CollectorDefs)
      /\ AreJobs(work, Dsn \cup Resolved) /\ work \in Seq(ToSet(work)) /\ job \in Nat
      /\ refs \in Seq(Ref) /\ hit \in BOOLEAN
      /\ resolved \in Seq(Seq(Name \cup {Unset}))
      /\ DOMAIN cache \subseteq Secret /\ cache \in [DOMAIN cache -> Payload]
      /\ answers \subseteq [secret : Secret, payload : Payload]
      /\ why \in {"none", "document", "collector", "reference", "secret"} /\ (why # "none" <=> pc = "failed")
  BY JobList DEF TypeOK, IsConfig
<1>1. /\ pc = "refs" => left \subseteq Names
      /\ pc \in {"secrets", "fetch"} => left \subseteq DOMAIN work[job].targets
      /\ pc = "fetch" => asked \in left
  BY DEF TypeOK
<1>2. UNCHANGED collectors => Names' = Names
  BY DEF Names
<1>3. \A i \in DOMAIN work : work[i].refs \in Seq(Ref)
  BY <1>0, JobList
<1>4. CASE FailStep
  <2>1. DOMAIN cache' \subseteq Secret /\ cache' \in [DOMAIN cache' -> Payload]
        /\ answers' \subseteq [secret : Secret, payload : Payload]
    BY <1>4 DEF FailStep, CacheGrows
  <2> QED BY <1>0, <1>4, <2>1 DEF TypeOK, FailStep, input, resolving
<1>5. CASE Parse
  <2>1. AreJobs(work', Dsn \cup Resolved)
    <3>1. AreJobs(Src, Dsn)
      BY <1>0, SourceJobs
    <3>2. AreJobs(Src, Dsn \cup Resolved)
      BY <3>1, JobListWider
    <3> QED BY <1>5, <3>2 DEF Parse, Src
  <2> QED BY <1>0, <1>5, <2>1 DEF TypeOK, Parse, Goto, resolving, secrets
<1>6. CASE LoadFile
  <2>1. /\ collectors' = Append(collectors, Head(unread)) /\ unread' = Tail(unread) /\ unread # <<>>
    BY <1>6 DEF LoadFile
  <2>2. collectors' \in Seq(CollectorDefs) /\ unread' \in Seq(CollectorDefs)
    BY <1>0, <2>1
  <2> QED BY <1>0, <1>6, <2>2 DEF TypeOK, LoadFile, Goto, resolving, secrets
<1>7. CASE FilesLoaded
  BY <1>0, <1>7 DEF TypeOK, FilesLoaded, Goto, input, resolving, secrets
<1>8. CASE RequiredPresent
  BY <1>0, <1>8 DEF TypeOK, RequiredPresent, Goto, input, resolving, secrets
<1>9. CASE Index
  <2>1. /\ collectors' \in Seq(CollectorDefs) /\ Names' = Names
    BY <1>9, Indexed
  <2>2. /\ pc = "index" /\ pc' = "refs" /\ job' = 1 /\ refs' = work[1].refs /\ left' = Names /\ hit' = FALSE
        /\ resolved' = [j \in DOMAIN work |-> <<>>]
        /\ UNCHANGED <<why, document, unread, work, cache, answers>>
    BY <1>9 DEF Index, Goto, secrets
  <2>3. 1 \in DOMAIN work
    BY <1>0, <2>2 DEF Shaped
  <2>4. resolved' \in Seq(Seq(Name \cup {Unset}))
    <3>1. resolved' = [j \in 1 .. Len(work) |-> <<>>] /\ Len(work) \in Nat
      BY <1>0, <2>2
    <3>2. << >> \in Seq(Name \cup {Unset})
      OBVIOUS
    <3> QED BY <3>1, <3>2
  <2>5. refs' \in Seq(Ref)
    BY <1>3, <2>2, <2>3
  <2> QED BY <1>0, <2>1, <2>2, <2>3, <2>4, <2>5 DEF TypeOK
<1>10. CASE \E n \in Names : MatchName(n)
  <2>1. PICK n \in Names : MatchName(n)
    BY <1>10
  <2>2. /\ pc = "refs" /\ pc' = "refs" /\ left' = left \ {n} /\ refs # <<>>
        /\ UNCHANGED <<why, work, job, refs, document, unread, collectors, cache, answers>>
    BY <2>1 DEF MatchName, Goto, input, secrets
  <2>3. hit' \in BOOLEAN
    BY <1>0, <2>1 DEF MatchName
  <2>4. resolved' \in Seq(Seq(Name \cup {Unset}))
    <3>1. CASE n \in Matches[Head(refs)] /\ n \notin ToSet(resolved[job])
      <4>1. n \in Name \cup {Unset}
        <5>1. Head(refs) \in Ref
          BY <1>0, <2>2
        <5> QED BY <3>1, <5>1, RefAssumption
      <4>2. resolved' = [resolved EXCEPT ![job] = Append(@, n)]
        BY <2>1, <3>1 DEF MatchName
      <4>3. job \in DOMAIN resolved
        BY <1>0, <2>2 DEF Shaped, Later
      <4>4. Append(resolved[job], n) \in Seq(Name \cup {Unset})
        BY <1>0, <4>1, <4>3
      <4> QED BY <1>0, <4>2, <4>3, <4>4
    <3>2. CASE ~ (n \in Matches[Head(refs)] /\ n \notin ToSet(resolved[job]))
      BY <1>0, <2>1, <3>2 DEF MatchName
    <3> QED BY <3>1, <3>2
  <2>5. job \in DOMAIN work
    BY <2>2 DEF TypeOK
  <2> QED BY <1>0, <1>1, <1>2, <2>2, <2>3, <2>4, <2>5 DEF TypeOK
<1>11. CASE NextRef
  <2>1. /\ pc = "refs" /\ pc' = "refs" /\ left' = Names /\ refs # <<>> /\ refs' = Tail(refs) /\ hit' = FALSE
        /\ UNCHANGED <<why, work, job, resolved, document, unread, collectors, cache, answers>>
    BY <1>11 DEF NextRef, Goto, input, secrets
  <2>2. refs' \in Seq(Ref) /\ job \in DOMAIN work
    BY <1>0, <2>1 DEF TypeOK
  <2> QED BY <1>0, <1>2, <2>1, <2>2 DEF TypeOK
<1>12. CASE NextJobRefs
  <2>1. /\ pc = "refs" /\ pc' = "refs" /\ left' = Names /\ refs' = work[job + 1].refs /\ hit' = FALSE
        /\ job' = job + 1 /\ job < Len(work)
        /\ UNCHANGED <<why, work, resolved, document, unread, collectors, cache, answers>>
    BY <1>12 DEF NextJobRefs, Goto, input, secrets
  <2>2. job' \in DOMAIN work /\ job' \in Nat
    BY <1>0, <2>1
  <2>3. refs' \in Seq(Ref)
    BY <1>3, <2>1, <2>2
  <2> QED BY <1>0, <1>2, <2>1, <2>2, <2>3 DEF TypeOK
<1>13. CASE RefsResolved
  <2>1. /\ pc = "refs" /\ pc' = "secrets" /\ job' = 1 /\ left' = DOMAIN work[1].targets
        /\ UNCHANGED <<why, work, refs, hit, resolved, document, unread, collectors, cache, answers>>
    BY <1>13 DEF RefsResolved, Goto, input, resolving, secrets
  <2>2. 1 \in DOMAIN work
    BY <1>0, <2>1 DEF TypeOK
  <2> QED BY <1>0, <2>1, <2>2 DEF TypeOK
<1>14. CASE \E t \in Label : KeepLiteral(t) \/ Fetch(t)
  <2>1. PICK t \in Label : KeepLiteral(t) \/ Fetch(t)
    BY <1>14
  <2>2. /\ pc = "secrets" /\ t \in left /\ t \in DOMAIN work[job].targets
        /\ \/ pc' = "secrets" /\ left' = left \ {t}
           \/ pc' = "fetch" /\ left' = left /\ asked' = t
        /\ UNCHANGED <<why, work, job, refs, hit, resolved, document, unread, collectors, cache, answers>>
    BY <1>1, <2>1 DEF KeepLiteral, Fetch, Goto, input, resolving, secrets
  <2>3. job \in DOMAIN work
    BY <2>2 DEF TypeOK
  <2> QED BY <1>0, <1>1, <2>2, <2>3 DEF TypeOK
<1>15. CASE \E t : FillStep(t)
  <2>1. PICK t : FillStep(t)
    BY <1>15
  <2>2. /\ pc \in {"secrets", "fetch"} /\ pc' = "secrets" /\ left' = left \ {t}
        /\ UNCHANGED <<why, job, refs, hit, resolved, document, unread, collectors>>
        /\ DOMAIN cache' \subseteq Secret /\ cache' \in [DOMAIN cache' -> Payload]
        /\ answers' \subseteq [secret : Secret, payload : Payload]
    BY <2>1 DEF FillStep, CacheGrows, input, resolving
  <2>3. /\ AreJobs(work', Dsn \cup Resolved) /\ DOMAIN work' = DOMAIN work
        /\ \A k \in DOMAIN work : DOMAIN work'[k].targets = DOMAIN work[k].targets
    BY <2>1, Filling
  <2>4. job \in DOMAIN work
    BY <2>2 DEF TypeOK
  <2> QED BY <1>0, <1>1, <2>2, <2>3, <2>4 DEF TypeOK
<1>16. CASE NextJobSecrets
  <2>1. /\ pc = "secrets" /\ pc' = "secrets" /\ job' = job + 1 /\ left' = DOMAIN work[job + 1].targets
        /\ job < Len(work)
        /\ UNCHANGED <<why, work, refs, hit, resolved, document, unread, collectors, cache, answers>>
    BY <1>16 DEF NextJobSecrets, Goto, input, resolving, secrets
  <2>2. job' \in DOMAIN work /\ job' \in Nat
    BY <1>0, <2>1
  <2> QED BY <1>0, <2>1, <2>2 DEF TypeOK
<1>17. CASE SecretsResolved
  BY <1>0, <1>17 DEF TypeOK, SecretsResolved, Goto, input, resolving, secrets
<1>19. CASE UNCHANGED vars
  <2>1. UNCHANGED <<pc, why, job, left, work, asked, cache, answers, refs, hit, resolved, document, unread, collectors>>
    BY <1>19 DEF vars, input, resolving, secrets
  <2>2. pc \in {"refs", "secrets", "fetch"} => job \in DOMAIN work
    BY DEF TypeOK
  <2>3. pc \in {"start", "files", "required", "index", "refs", "secrets", "fetch", "loaded", "failed"}
    BY DEF TypeOK
  <2> QED BY <1>0, <1>1, <1>2, <2>1, <2>2, <2>3 DEF TypeOK
<1> QED BY <1>4, <1>5, <1>6, <1>7, <1>8, <1>9, <1>10, <1>11, <1>12, <1>13, <1>14, <1>15, <1>16, <1>17,
           <1>19, Steps

LEMMA DocumentStays ==
  ASSUME TypeOK, Shaped, Written, Fetching, [Next]_vars
  PROVE  document' = document /\ Src' = Src /\ All' = All
<1>1. document' = document
  BY Steps DEF FailStep, Parse, LoadFile, FilesLoaded, RequiredPresent, Index, MatchName, NextRef,
     NextJobRefs,
       RefsResolved, KeepLiteral, Fetch, FillStep, NextJobSecrets, SecretsResolved, vars, input
<1> QED BY <1>1 DEF Src, All, FromEnvironment

LEMMA NextShaped ==
  ASSUME TypeOK, Shaped, Written, Fetching, [Next]_vars
  PROVE  Shaped'
<1>0. /\ Src' = Src /\ work \in Seq(ToSet(work)) /\ job \in Nat
      /\ DOMAIN work = 1 .. Len(work) /\ Len(work) \in Nat
  BY DocumentStays, JobList DEF TypeOK
<1>1. /\ pc \notin {"start", "failed"} =>
           /\ Len(work) = Len(Src)
           /\ \A j \in DOMAIN work : DOMAIN work[j].targets = DOMAIN Src[j].targets
      /\ pc \in {"index", "refs", "secrets", "fetch", "loaded"} => work # <<>>
      /\ pc \in {"refs", "secrets", "fetch", "loaded"} => Len(resolved) = Len(work) /\ job \in DOMAIN work
      /\ pc = "loaded" => job = Len(work) /\ left = {}
  BY DEF Shaped, Later
<1>4. CASE FailStep
  BY <1>4 DEF FailStep, Shaped, Later
<1>5. CASE Parse
  BY <1>0, <1>5 DEF Parse, Goto, Shaped, Later, Src
<1>6. CASE LoadFile
  <2>1. pc = "files" /\ pc' = "files" /\ work' = work
    BY <1>6 DEF LoadFile, Goto
  <2> QED BY <1>0, <1>1, <2>1 DEF Shaped, Later
<1>7. CASE FilesLoaded
  <2>1. pc = "files" /\ pc' = "required" /\ work' = work
    BY <1>7 DEF FilesLoaded, Goto
  <2> QED BY <1>0, <1>1, <2>1 DEF Shaped, Later
<1>8. CASE RequiredPresent
  <2>1. pc = "required" /\ pc' = "index" /\ work' = work /\ Complete
    BY <1>8 DEF RequiredPresent, Goto
  <2>2. work # <<>>
    <3> DEFINE F == FromEnvironment(document)
               J == document.jobs
    <3>1. AreJobs(F, Dsn) /\ AreJobs(J, Dsn)
      BY SourceJobs DEF TypeOK, IsConfig
    <3>2. F \in Seq(ToSet(F)) /\ J \in Seq(ToSet(J))
      BY <3>1, JobList
    <3>3. F # <<>> \/ J # <<>>
      BY <2>1 DEF Complete
    <3> HIDE DEF F, J
    <3>4. Len(F \o J) = Len(F) + Len(J) /\ Len(F) + Len(J) > 0
      BY <3>2, <3>3
    <3>5. Len(work) = Len(F \o J)
      BY <1>1, <2>1 DEF Src, F, J
    <3> QED BY <1>0, <3>4, <3>5
  <2> QED BY <1>0, <1>1, <2>1, <2>2 DEF Shaped, Later
<1>9. CASE Index
  <2>1. pc = "index" /\ pc' = "refs" /\ work' = work /\ job' = 1 /\ resolved' = [j \in DOMAIN work |-> <<>>]
    BY <1>9 DEF Index, Goto
  <2>2. Len(resolved') = Len(work)
    BY <1>0, <2>1
  <2>3. 1 \in DOMAIN work
    BY <1>0, <1>1, <2>1
  <2> QED BY <1>0, <1>1, <2>1, <2>2, <2>3 DEF Shaped, Later
<1>10. CASE \E n \in Names : MatchName(n)
  <2>1. PICK n \in Names : MatchName(n)
    BY <1>10
  <2>2. pc = "refs" /\ pc' = "refs" /\ UNCHANGED <<work, job>>
        /\ (resolved' = resolved \/ resolved' = [resolved EXCEPT ![job] = Append(@, n)])
    BY <2>1 DEF MatchName, Goto
  <2>3. Len(resolved') = Len(resolved)
    <3>1. resolved \in Seq(Seq(Name \cup {Unset}))
      BY DEF TypeOK
    <3> QED BY <2>2, <3>1
  <2> QED BY <1>0, <1>1, <2>2, <2>3 DEF Shaped, Later
<1>11. CASE NextRef
  <2>1. pc = "refs" /\ pc' = "refs" /\ UNCHANGED <<work, job, resolved>>
    BY <1>11 DEF NextRef, Goto
  <2> QED BY <1>0, <1>1, <2>1 DEF Shaped, Later
<1>12. CASE NextJobRefs
  <2>1. pc = "refs" /\ pc' = "refs" /\ UNCHANGED <<work, resolved>> /\ job' = job + 1 /\ job < Len(work)
    BY <1>12 DEF NextJobRefs, Goto
  <2>2. job' \in DOMAIN work
    BY <1>0, <2>1
  <2> QED BY <1>0, <1>1, <2>1, <2>2 DEF Shaped, Later
<1>13. CASE RefsResolved
  <2>1. pc = "refs" /\ pc' = "secrets" /\ UNCHANGED <<work, resolved>> /\ job' = 1
    BY <1>13 DEF RefsResolved, Goto, resolving
  <2>2. 1 \in DOMAIN work
    BY <1>0, <1>1, <2>1
  <2> QED BY <1>0, <1>1, <2>1, <2>2 DEF Shaped, Later
<1>14. CASE \E t \in Label : KeepLiteral(t) \/ Fetch(t)
  <2>1. pc = "secrets" /\ pc' \in {"secrets", "fetch"} /\ UNCHANGED <<work, job, resolved>>
    BY <1>14 DEF KeepLiteral, Fetch, Goto, resolving
  <2> QED BY <1>0, <1>1, <2>1 DEF Shaped, Later
<1>15. CASE \E t : FillStep(t)
  <2>1. PICK t : FillStep(t)
    BY <1>15
  <2>2. pc \in {"secrets", "fetch"} /\ pc' = "secrets" /\ UNCHANGED <<job, resolved>>
    BY <2>1 DEF FillStep, resolving
  <2>3. /\ Len(work') = Len(work) /\ DOMAIN work' = DOMAIN work
        /\ \A k \in DOMAIN work : DOMAIN work'[k].targets = DOMAIN work[k].targets
    BY <2>1, Filling
  <2>4. work' # <<>>
    <3>1. Len(work) # 0
      <4>1. job \in 1 .. Len(work)
        BY <1>0, <1>1, <2>2
      <4> QED BY <1>0, <4>1
    <3>2. Len(work') # 0
      BY <2>3, <3>1
    <3> QED BY <3>2
  <2> QED BY <1>0, <1>1, <2>2, <2>3, <2>4 DEF Shaped, Later
<1>16. CASE NextJobSecrets
  <2>1. pc = "secrets" /\ pc' = "secrets" /\ UNCHANGED <<work, resolved>> /\ job' = job + 1 /\ job < Len(work)
    BY <1>16 DEF NextJobSecrets, Goto, resolving
  <2>2. job' \in DOMAIN work
    BY <1>0, <2>1
  <2> QED BY <1>0, <1>1, <2>1, <2>2 DEF Shaped, Later
<1>17. CASE SecretsResolved
  <2>1. pc = "secrets" /\ pc' = "loaded" /\ UNCHANGED <<work, resolved, job, left>> /\ job = Len(work) /\ left = {}
    BY <1>17 DEF SecretsResolved, Goto, resolving
  <2> QED BY <1>0, <1>1, <2>1 DEF Shaped, Later
<1>19. CASE UNCHANGED vars
  <2>1. UNCHANGED <<pc, work, resolved, job, left>>
    BY <1>19 DEF vars, resolving
  <2> QED BY <1>0, <1>1, <2>1 DEF Shaped, Later
<1> QED BY <1>4, <1>5, <1>6, <1>7, <1>8, <1>9, <1>10, <1>11, <1>12, <1>13, <1>14, <1>15, <1>16, <1>17,
           <1>19, Steps

LEMMA NextCollected ==
  ASSUME TypeOK, Shaped, Written, Fetching, Collected, [Next]_vars
  PROVE  Collected'
<1>0. /\ document' = document /\ All' = All
      /\ collectors \in Seq(CollectorDefs) /\ unread \in Seq(CollectorDefs)
      /\ document.inline \in Seq(CollectorDefs) /\ document.files \in Seq(CollectorDefs)
  BY DocumentStays DEF TypeOK, IsConfig
<1>1. /\ pc = "files" => collectors \o unread = All
      /\ pc \in {"required", "index"} => collectors = All
  BY DEF Collected
<1>4. CASE FailStep
  BY <1>4 DEF FailStep, Collected, Later
<1>5. CASE Parse
  BY <1>0, <1>5 DEF Parse, Goto, Collected, Later, All
<1>6. CASE LoadFile
  <2>1. /\ pc = "files" /\ pc' = "files" /\ unread # <<>>
        /\ collectors' = Append(collectors, Head(unread)) /\ unread' = Tail(unread)
    BY <1>6 DEF LoadFile, Goto
  <2>2. Append(collectors, Head(unread)) \o Tail(unread) = collectors \o unread
    BY <1>0, <2>1
  <2>3. collectors' \o unread' = All
    BY <1>1, <2>1, <2>2
  <2> QED BY <1>0, <2>1, <2>3 DEF Collected, Later
<1>7. CASE FilesLoaded
  <2>1. pc = "files" /\ pc' = "required" /\ unread = <<>> /\ collectors' = collectors
    BY <1>7 DEF FilesLoaded, Goto, input
  <2>2. collectors = All
    BY <1>0, <1>1, <2>1
  <2> QED BY <1>0, <2>1, <2>2 DEF Collected, Later
<1>8. CASE RequiredPresent
  <2>1. pc = "required" /\ pc' = "index" /\ collectors' = collectors
    BY <1>8 DEF RequiredPresent, Goto, input
  <2> QED BY <1>0, <1>1, <2>1 DEF Collected, Later
<1>9. CASE Index
  <2>1. /\ pc = "index" /\ pc' = "refs" /\ IsInjective([i \in DOMAIN collectors |-> collectors[i].name])
    BY <1>9 DEF Index, Goto
  <2>2. /\ Len(collectors') = Len(collectors) /\ DOMAIN collectors' = DOMAIN collectors
        /\ \A i \in DOMAIN collectors :
             /\ collectors'[i].name = collectors[i].name
             /\ collectors'[i].interval =
                  IF collectors[i].interval = Unset THEN document.global ELSE collectors[i].interval
    BY <1>9, Indexed
  <2>3. \A i, k \in DOMAIN collectors : collectors[i].name = collectors[k].name => i = k
    BY <2>1 DEF IsInjective
  <2>4. collectors = All
    BY <1>1, <2>1
  <2> QED BY <1>0, <2>1, <2>2, <2>3, <2>4 DEF Collected
<1>10. CASE \/ \E n \in Names : MatchName(n)
            \/ NextRef \/ NextJobRefs \/ RefsResolved
            \/ \E t \in Label : KeepLiteral(t) \/ Fetch(t)
            \/ \E t : FillStep(t)
            \/ NextJobSecrets \/ SecretsResolved
  <2>1. pc \in Later /\ pc' \in Later /\ collectors' = collectors
    BY <1>10 DEF MatchName, NextRef, NextJobRefs, RefsResolved, KeepLiteral, Fetch, FillStep,
       NextJobSecrets,
         SecretsResolved, Goto, Later, input
  <2> QED BY <1>0, <2>1 DEF Collected, Later
<1>18. CASE UNCHANGED vars
  <2>1. UNCHANGED <<pc, unread, collectors>>
    BY <1>18 DEF vars, input
  <2> QED BY <1>0, <2>1 DEF Collected, Later
<1> QED BY <1>4, <1>5, <1>6, <1>7, <1>8, <1>9, <1>10, <1>18, Steps

LEMMA NextAnswered ==
  ASSUME TypeOK, Shaped, Written, Fetching, Answered, [Next]_vars
  PROVE  Answered'
<1>1. CASE CacheGrows
  BY <1>1 DEF CacheGrows, Answered
<1>2. CASE UNCHANGED <<cache, answers>>
  BY <1>2 DEF Answered
<1>3. CASE FailStep \/ \E t : FillStep(t)
  BY <1>1, <1>3 DEF FailStep, FillStep
<1>4. CASE Parse \/ LoadFile \/ FilesLoaded \/ RequiredPresent \/ Index \/ NextRef \/ NextJobRefs
           \/ RefsResolved \/ NextJobSecrets \/ SecretsResolved \/ UNCHANGED vars
  BY <1>2, <1>4 DEF Parse, LoadFile, FilesLoaded, RequiredPresent, Index, NextRef, NextJobRefs,
     RefsResolved, NextJobSecrets, SecretsResolved, vars, secrets
<1>5. CASE (\E n \in Names : MatchName(n)) \/ \E t \in Label : KeepLiteral(t) \/ Fetch(t)
  BY <1>2, <1>5 DEF MatchName, KeepLiteral, Fetch, secrets
<1> QED BY <1>3, <1>4, <1>5, Steps

LEMMA NextFetching ==
  ASSUME TypeOK, Shaped, Written, Fetching, [Next]_vars
  PROVE  Fetching'
<1>1. CASE \E t \in Label : KeepLiteral(t) \/ Fetch(t)
  <2>1. PICK t \in Label : KeepLiteral(t) \/ Fetch(t)
    BY <1>1
  <2>2. CASE Fetch(t)
    <3>1. /\ pc = "secrets" /\ t \in left /\ UNCHANGED <<work, job, cache>> /\ asked' = t
          /\ work[job].targets[t].secret # Literal
          /\ work[job].targets[t].secret \notin DOMAIN cache
      BY <2>2 DEF Fetch, Goto, IsSecretRef
    <3>2. work[job].targets[t] \in Dsn
      BY <3>1, StillWritten
    <3>3. work[job].targets[t].secret \in Secret
      BY <3>1, <3>2 DEF Dsn
    <3> QED BY <3>1, <3>3 DEF Fetching
  <2>3. CASE KeepLiteral(t)
    BY <2>3 DEF KeepLiteral, Goto, Fetching
  <2> QED BY <2>1, <2>2, <2>3
<1>2. CASE UNCHANGED vars
  <2>1. UNCHANGED <<pc, work, job, asked, cache>>
    BY <1>2 DEF vars, secrets
  <2> QED BY <2>1 DEF Fetching
<1>3. CASE FailStep \/ Parse \/ LoadFile \/ FilesLoaded \/ RequiredPresent \/ Index \/ NextRef \/ NextJobRefs
           \/ RefsResolved \/ NextJobSecrets \/ SecretsResolved
           \/ (\E n \in Names : MatchName(n)) \/ \E t : FillStep(t)
  BY <1>3 DEF FailStep, Parse, LoadFile, FilesLoaded, RequiredPresent, Index, NextRef, NextJobRefs,
       RefsResolved, NextJobSecrets, SecretsResolved, MatchName, FillStep, Goto, Fetching
<1> QED BY <1>1, <1>2, <1>3, Steps

LEMMA NextWritten ==
  ASSUME TypeOK, Shaped, Written, Fetching, [Next]_vars
  PROVE  Written'
<1>0. /\ Src' = Src /\ work \in Seq(ToSet(work)) /\ job \in Nat
      /\ DOMAIN work = 1 .. Len(work) /\ Len(work) \in Nat
  BY DocumentStays, JobList DEF TypeOK
<1>1. \A j, t : Source(j, t) = Src[j].targets[t]
  BY DEF Source, Src
<1>2. \A j, t : Src'[j].targets[t] = Src[j].targets[t]
  BY <1>0
<1>3. \A j, t : Source(j, t)' = Source(j, t)
  <2>1. \A j, t : Source(j, t)' = Src'[j].targets[t]
    BY DEF Source, Src
  <2> QED BY <1>1, <1>2, <2>1
<1>4. CASE FailStep
  BY <1>4 DEF FailStep, Written
<1>5. CASE Parse
  <2>1. pc' = "files" /\ work' = Src
    BY <1>5 DEF Parse, Goto, Src
  <2>2. \A j, t : Pending(j, t)'
    BY <2>1 DEF Pending
  <2>3. \A j, t : work'[j].targets[t] = Source(j, t)'
    BY <1>1, <1>3, <2>1
  <2> QED BY <2>2, <2>3 DEF Written
<1>6. CASE LoadFile \/ FilesLoaded \/ RequiredPresent \/ Index \/ NextRef \/ NextJobRefs
           \/ \E n \in Names : MatchName(n)
  <2>1. /\ pc \in {"files", "required", "index", "refs"} /\ pc' \in {"files", "required", "index", "refs"}
        /\ work' = work
    BY <1>6 DEF LoadFile, FilesLoaded, RequiredPresent, Index, NextRef, NextJobRefs, MatchName, Goto
  <2>2. \A j, t : Pending(j, t) /\ Pending(j, t)'
    BY <2>1 DEF Pending
  <2>3. \A j \in DOMAIN work : \A t \in DOMAIN work[j].targets : work[j].targets[t] = Source(j, t)
    BY <2>1, <2>2 DEF Written
  <2> QED BY <1>3, <2>1, <2>2, <2>3 DEF Written
<1>7. CASE RefsResolved
  <2>1. pc = "refs" /\ pc' = "secrets" /\ work' = work /\ job' = 1 /\ left' = DOMAIN work[1].targets
    BY <1>7 DEF RefsResolved, Goto
  <2>2. \A j, t : Pending(j, t)
    BY <2>1 DEF Pending
  <2>3. ASSUME NEW j \in DOMAIN work, NEW t \in DOMAIN work[j].targets
        PROVE  Pending(j, t)'
    <3>1. j > 1 \/ j = 1
      BY <1>0
    <3> QED BY <2>1, <3>1 DEF Pending
  <2>4. \A j \in DOMAIN work : \A t \in DOMAIN work[j].targets : work[j].targets[t] = Source(j, t)
    BY <2>1, <2>2 DEF Written
  <2> QED BY <1>3, <2>1, <2>3, <2>4 DEF Written
<1>8. CASE \E t \in Label : KeepLiteral(t) \/ Fetch(t)
  <2>1. PICK t \in Label : KeepLiteral(t) \/ Fetch(t)
    BY <1>8
  <2>2. CASE KeepLiteral(t)
    <3>1. /\ pc = "secrets" /\ pc' = "secrets" /\ t \in left /\ left' = left \ {t}
          /\ UNCHANGED <<work, job, cache>> /\ work[job].targets[t].secret = Literal
      BY <2>2 DEF KeepLiteral, Goto, IsSecretRef, secrets
    <3>2. work[job].targets[t] = Source(job, t)
      BY <3>1, StillWritten
    <3>3. ASSUME NEW j \in DOMAIN work, NEW u \in DOMAIN work[j].targets
          PROVE  IF Pending(j, u)' THEN work[j].targets[u] = Source(j, u)
                 ELSE Filled(Source(j, u), cache, work[j].targets[u])
      <4>1. CASE j = job /\ u = t
        <5>1. ~ Pending(j, u)'
          BY <1>0, <3>1, <4>1 DEF Pending
        <5>2. Filled(Source(j, u), cache, work[j].targets[u])
          BY <3>1, <3>2, <4>1 DEF Filled
        <5> QED BY <5>1, <5>2
      <4>2. CASE ~ (j = job /\ u = t)
        <5>1. Pending(j, u)' <=> Pending(j, u)
          BY <3>1, <4>2 DEF Pending
        <5> QED BY <3>1, <5>1 DEF Written
      <4> QED BY <4>1, <4>2
    <3> QED BY <1>3, <3>1, <3>3 DEF Written
  <2>3. CASE Fetch(t)
    <3>1. pc = "secrets" /\ pc' = "fetch" /\ UNCHANGED <<work, job, left, cache>>
      BY <2>3 DEF Fetch, Goto
    <3>2. \A j, u : Pending(j, u)' <=> Pending(j, u)
      BY <3>1 DEF Pending
    <3> QED BY <1>3, <3>1, <3>2 DEF Written
  <2> QED BY <2>1, <2>2, <2>3
<1>9. CASE \E t : FillStep(t)
  <2>1. PICK t : FillStep(t)
    BY <1>9
  <2> DEFINE dsn == work[job].targets[t]
             value == Value(dsn, cache'[dsn.secret])
  <2>2. /\ pc \in {"secrets", "fetch"} /\ pc' = "secrets" /\ t \in left /\ left' = left \ {t} /\ job' = job
        /\ dsn.secret \in DOMAIN cache'
        /\ Part(dsn, cache'[dsn.secret]) \in cache'[dsn.secret].parts
    BY <2>1 DEF FillStep
  <2>3. /\ DOMAIN work' = DOMAIN work
        /\ \A k \in DOMAIN work :
             /\ DOMAIN work'[k].targets = DOMAIN work[k].targets
             /\ \A u \in DOMAIN work[k].targets :
                  work'[k].targets[u] = IF k = job /\ u = t THEN value ELSE work[k].targets[u]
    BY <2>1, Filling
  <2>4. dsn \in Dsn /\ dsn = Source(job, t)
    BY <2>2, StillWritten
  <2>5. \A s \in DOMAIN cache : s \in DOMAIN cache' /\ cache'[s] = cache[s]
    BY <2>1 DEF FillStep, CacheGrows
  <2>6. dsn.secret # Literal
    <3>1. dsn.secret \in Secret
      BY <2>1, <2>2 DEF FillStep, CacheGrows
    <3> QED BY <3>1, NamesAssumption
  <2>7. Filled(Source(job, t), cache', value)
    BY <2>2, <2>4, <2>6 DEF Filled
  <2> HIDE DEF value, dsn
  <2>8. ASSUME NEW j \in DOMAIN work, NEW u \in DOMAIN work[j].targets
        PROVE  IF Pending(j, u)' THEN work'[j].targets[u] = Source(j, u)
               ELSE Filled(Source(j, u), cache', work'[j].targets[u])
    <3>1. CASE j = job /\ u = t
      <4>1. ~ Pending(j, u)'
        BY <1>0, <2>2, <3>1 DEF Pending
      <4>2. work'[j].targets[u] = value
        BY <2>3, <3>1
      <4> QED BY <2>7, <3>1, <4>1, <4>2
    <3>2. CASE ~ (j = job /\ u = t)
      <4>1. Pending(j, u)' <=> Pending(j, u)
        BY <2>2, <3>2 DEF Pending
      <4>2. work'[j].targets[u] = work[j].targets[u]
        BY <2>3, <3>2
      <4>3. pc \notin {"start", "failed"}
        BY <2>2
      <4>4. CASE Pending(j, u)
        BY <4>1, <4>2, <4>3, <4>4 DEF Written
      <4>5. CASE ~ Pending(j, u)
        <5>1. Filled(Source(j, u), cache, work[j].targets[u])
          BY <4>3, <4>5 DEF Written
        <5>2. Filled(Source(j, u), cache', work[j].targets[u])
          BY <2>5, <5>1 DEF Filled
        <5> QED BY <4>1, <4>2, <4>5, <5>2
      <4> QED BY <4>4, <4>5
    <3> QED BY <3>1, <3>2
  <2> QED BY <1>3, <2>3, <2>8 DEF Written
<1>10. CASE NextJobSecrets
  <2>1. /\ pc = "secrets" /\ pc' = "secrets" /\ UNCHANGED <<work, cache>> /\ left = {}
        /\ job' = job + 1 /\ left' = DOMAIN work[job + 1].targets
    BY <1>10 DEF NextJobSecrets, Goto, secrets
  <2>2. ASSUME NEW j \in DOMAIN work, NEW t \in DOMAIN work[j].targets
        PROVE  Pending(j, t)' <=> Pending(j, t)
    <3>1. j > job <=> (j > job + 1 \/ j = job + 1)
      BY <1>0
    <3> QED BY <2>1, <3>1 DEF Pending
  <2> QED BY <1>3, <2>1, <2>2 DEF Written
<1>11. CASE SecretsResolved
  <2>1. pc = "secrets" /\ pc' = "loaded" /\ UNCHANGED <<work, cache>> /\ left = {} /\ job = Len(work)
    BY <1>11 DEF SecretsResolved, Goto, secrets
  <2>2. ASSUME NEW j \in DOMAIN work, NEW t
        PROVE  ~ Pending(j, t) /\ ~ Pending(j, t)'
    <3>1. ~ (j > job)
      BY <1>0, <2>1
    <3> QED BY <2>1, <3>1 DEF Pending
  <2> QED BY <1>3, <2>1, <2>2 DEF Written
<1>12. CASE UNCHANGED vars
  <2>1. UNCHANGED <<pc, work, job, left, cache>>
    BY <1>12 DEF vars, secrets
  <2>2. \A j, t : Pending(j, t)' <=> Pending(j, t)
    BY <2>1 DEF Pending
  <2> QED BY <1>3, <2>1, <2>2 DEF Written
<1> QED BY <1>4, <1>5, <1>6, <1>7, <1>8, <1>9, <1>10, <1>11, <1>12, Steps

-----------------------------------------------------------------------------
(* The references *)

LEMMA ReachedNone == ASSUME NEW list, NEW names PROVE Reached(list, names, 0) = {}
BY DEF Reached

LEMMA ReachedMore ==
  ASSUME NEW list, NEW names, NEW k \in Nat
  PROVE  Reached(list, names, k + 1) = Reached(list, names, k) \cup (Matches[list[k + 1]] \cap names)
<1>1. 1 .. k + 1 = (1 .. k) \cup {k + 1}
  OBVIOUS
<1>2. \A n : n \in Reached(list, names, k + 1) <=> \E i \in 1 .. k + 1 : n \in Matches[list[i]] \cap names
  BY DEF Reached
<1>3. \A n : n \in Reached(list, names, k) <=> \E i \in 1 .. k : n \in Matches[list[i]] \cap names
  BY DEF Reached
<1>4. \A n : n \in Reached(list, names, k + 1)
               <=> n \in Reached(list, names, k) \cup (Matches[list[k + 1]] \cap names)
  BY <1>1, <1>2, <1>3
<1> QED BY <1>4

LEMMA FoundMore ==
  ASSUME NEW s \in Seq(Name \cup {Unset}), NEW n
  PROVE  /\ ToSet(Append(s, n)) = ToSet(s) \cup {n}
         /\ IsInjective(s) /\ n \notin ToSet(s) => IsInjective(Append(s, n))
<1> DEFINE a == Append(s, n)
<1>1. /\ DOMAIN a = 1 .. Len(s) + 1 /\ Len(s) \in Nat /\ DOMAIN s = 1 .. Len(s)
      /\ \A i \in 1 .. Len(s) : a[i] = s[i]
      /\ a[Len(s) + 1] = n
  OBVIOUS
<1> HIDE DEF a
<1>2. ToSet(a) = ToSet(s) \cup {n}
  <2>1. \A x : x \in ToSet(a) <=> x \in ToSet(s) \/ x = n
    BY <1>1 DEF ToSet
  <2> QED BY <2>1
<1>3. ASSUME IsInjective(s), n \notin ToSet(s)
      PROVE  IsInjective(a)
  <2>1. \A i \in 1 .. Len(s) : s[i] # n
    BY <1>1, <1>3 DEF ToSet
  <2>2. \A i, k \in 1 .. Len(s) : s[i] = s[k] => i = k
    BY <1>1, <1>3 DEF IsInjective
  <2>3. \A i, k \in 1 .. Len(s) + 1 : a[i] = a[k] => i = k
    BY <1>1, <2>1, <2>2
  <2> QED BY <1>1, <2>3 DEF IsInjective
<1> QED BY <1>2, <1>3 DEF a

\* Where the loop over the references of a job stands.
LEMMA Standing ==
  ASSUME TypeOK, Shaped, Resolving, pc = "refs"
  PROVE  /\ At \in Nat /\ At + Len(refs) = Len(work[job].refs) /\ Len(refs) \in Nat
         /\ DOMAIN work[job].refs = 1 .. Len(work[job].refs)
         /\ refs # <<>> =>
              /\ At + 1 \in DOMAIN work[job].refs /\ Head(refs) = work[job].refs[At + 1]
              /\ Wanted = Matches[work[job].refs[At + 1]] \cap Names
         /\ refs = <<>> => At = Len(work[job].refs) /\ Wanted = {}
<1> DEFINE list == work[job].refs
<1>1. list \in Seq(Ref) /\ refs \in Seq(Ref)
  <2>1. AreJobs(work, Dsn \cup Resolved) /\ job \in DOMAIN work /\ refs \in Seq(Ref)
    BY DEF TypeOK
  <2> QED BY <2>1, JobList
<1> HIDE DEF list
<1>2. At = Len(list) - Len(refs) /\ At >= 0 /\ \A i \in DOMAIN refs : refs[i] = list[At + i]
  BY DEF At, Resolving, list
<1>3. At \in Nat /\ At + Len(refs) = Len(list) /\ Len(refs) \in Nat /\ DOMAIN list = 1 .. Len(list)
  BY <1>1, <1>2
<1>4. CASE refs # <<>>
  <2>1. 1 \in DOMAIN refs /\ Head(refs) = refs[1] /\ Len(refs) >= 1
    BY <1>1, <1>4
  <2>2. At + 1 \in DOMAIN list /\ Head(refs) = list[At + 1]
    BY <1>2, <1>3, <2>1
  <2> QED BY <1>3, <1>4, <2>2 DEF list, Wanted
<1>5. CASE refs = <<>>
  BY <1>3, <1>5 DEF list, Wanted
<1> QED BY <1>4, <1>5

\* A job whose references are all done with has what they name.
LEMMA JobDone ==
  ASSUME TypeOK, Shaped, Resolving, pc = "refs", refs = <<>>
  PROVE  AllFound(work[job].refs, Names, resolved[job])
<1>1. At = Len(work[job].refs) /\ Wanted = {} /\ DOMAIN work[job].refs = 1 .. Len(work[job].refs)
  BY Standing
<1>2. /\ \A i \in 1 .. At : Fresh(work[job].refs, Names, i)
      /\ ToSet(resolved[job]) = Reached(work[job].refs, Names, At) \cup (Wanted \ left)
  BY DEF Resolving
<1>3. ToSet(resolved[job]) = Reached(work[job].refs, Names, Len(work[job].refs))
  BY <1>1, <1>2
<1> QED BY <1>1, <1>2, <1>3 DEF AllFound

LEMMA NextResolving ==
  ASSUME TypeOK, Shaped, Written, Fetching, Resolving, [Next]_vars
  PROVE  Resolving'
<1>0. /\ work \in Seq(ToSet(work)) /\ job \in Nat /\ DOMAIN work = 1 .. Len(work) /\ Len(work) \in Nat
      /\ refs \in Seq(Ref) /\ resolved \in Seq(Seq(Name \cup {Unset}))
  BY JobList DEF TypeOK
<1>1. \A i \in DOMAIN work : work[i].refs \in Seq(Ref)
  BY JobList DEF TypeOK
<1>2. UNCHANGED collectors => Names' = Names
  BY DEF Names
<1>3. CASE FailStep \/ Parse \/ LoadFile \/ FilesLoaded \/ RequiredPresent \/ RefsResolved
           \/ NextJobSecrets \/ SecretsResolved
           \/ (\E t \in Label : KeepLiteral(t) \/ Fetch(t)) \/ \E t : FillStep(t)
  <2>1. pc' # "refs"
    BY <1>3 DEF FailStep, Parse, LoadFile, FilesLoaded, RequiredPresent, RefsResolved, NextJobSecrets,
         SecretsResolved, KeepLiteral, Fetch, FillStep, Goto
  <2> QED BY <2>1 DEF Resolving
<1>4. CASE Index \/ NextJobRefs
  <2> DEFINE k == job'
  <2>1. /\ pc' = "refs" /\ work' = work /\ k \in DOMAIN work /\ k \in Nat /\ Names' = Names
        /\ refs' = work[k].refs /\ left' = Names /\ hit' = FALSE
        /\ resolved'[k] = <<>> /\ \A j \in DOMAIN work : j > k => resolved'[j] = <<>>
        /\ \A j \in DOMAIN work : j < k => AllFound(work[j].refs, Names, resolved'[j])
    <3>1. CASE Index
      <4>1. /\ pc' = "refs" /\ work' = work /\ k = 1 /\ pc = "index"
            /\ refs' = work[1].refs /\ left' = Names /\ hit' = FALSE
            /\ resolved' = [j \in DOMAIN work |-> <<>>]
        BY <3>1 DEF Index, Goto
      <4>2. 1 \in DOMAIN work
        BY <1>0, <4>1 DEF Shaped
      <4>3. Names' = Names
        BY <3>1, Indexed
      <4> QED BY <1>0, <4>1, <4>2, <4>3
    <3>2. CASE NextJobRefs
      <4>1. /\ pc' = "refs" /\ work' = work /\ k = job + 1 /\ job < Len(work) /\ pc = "refs" /\ refs = <<>>
            /\ refs' = work[job + 1].refs /\ left' = Names /\ hit' = FALSE
            /\ resolved' = resolved /\ Names' = Names
        BY <1>2, <3>2 DEF NextJobRefs, Goto, input
      <4>2. k \in DOMAIN work /\ k \in Nat
        BY <1>0, <4>1
      <4>3. \A j \in DOMAIN work : /\ j < job => AllFound(work[j].refs, Names, resolved[j])
                                   /\ j > job => resolved[j] = <<>>
        BY <4>1 DEF Resolving
      <4>4. AllFound(work[job].refs, Names, resolved[job])
        BY <4>1, JobDone
      <4>5. \A j \in DOMAIN work : j < k => j < job \/ j = job
        BY <1>0, <4>1
      <4>6. \A j \in DOMAIN work : j > k => j > job
        BY <1>0, <4>1
      <4>7. k > job
        BY <1>0, <4>1
      <4> QED BY <4>1, <4>2, <4>3, <4>4, <4>5, <4>6, <4>7
    <3> QED BY <1>4, <3>1, <3>2
  <2> DEFINE list == work[k].refs
  <2>2. list \in Seq(Ref)
    BY <1>1, <2>1
  <2>3. At' = 0
    <3>1. At' = Len(work'[k].refs) - Len(refs')
      BY DEF At
    <3>2. At' = Len(list) - Len(list)
      BY <2>1, <3>1
    <3> HIDE DEF list
    <3> QED BY <2>2, <3>2
  <2>4. \A i \in DOMAIN list : list[i] = list[0 + i]
    BY <2>2
  <2>5. Wanted' \ left' = {}
    <3>1. Wanted' \subseteq Names'
      BY DEF Wanted
    <3> QED BY <2>1, <3>1
  <2>6. ToSet(resolved'[k]) = {}
    BY <2>1 DEF ToSet
  <2>7. Reached(work'[k].refs, Names', At') = {}
    BY <2>3, ReachedNone
  <2>8. At' >= 0 /\ 1 .. At' = {}
    BY <2>3
  <2>9. \A i \in DOMAIN refs' : refs'[i] = work'[k].refs[At' + i]
    BY <2>1, <2>3, <2>4
  <2>10. ToSet(resolved'[k]) = Reached(work'[k].refs, Names', At') \cup (Wanted' \ left')
    BY <2>5, <2>6, <2>7
  <2>11. hit' <=> ~ (Wanted' \ left' \subseteq Reached(work'[k].refs, Names', At'))
    BY <2>1, <2>5
  <2>12. \A j \in DOMAIN work' : /\ j < k => AllFound(work'[j].refs, Names', resolved'[j])
                                 /\ j > k => resolved'[j] = <<>>
    BY <2>1
  <2> HIDE DEF list
  <2> QED BY <2>8, <2>9, <2>10, <2>11, <2>12 DEF Resolving
<1>5. CASE NextRef
  <2> DEFINE list == work[job].refs
  <2>1. /\ pc = "refs" /\ pc' = "refs" /\ UNCHANGED <<work, job, resolved>> /\ Names' = Names
        /\ refs # <<>> /\ left = {} /\ hit /\ refs' = Tail(refs) /\ left' = Names /\ hit' = FALSE
    BY <1>2, <1>5 DEF NextRef, Goto, input
  <2>2. /\ At \in Nat /\ At + 1 \in DOMAIN list /\ Wanted = Matches[list[At + 1]] \cap Names
        /\ At = Len(list) - Len(refs) /\ list \in Seq(Ref)
    BY <1>1, <2>1, Standing DEF At, TypeOK
  <2>3. /\ \A i \in DOMAIN refs : refs[i] = list[At + i]
        /\ \A j \in DOMAIN work : /\ j < job => AllFound(work[j].refs, Names, resolved[j])
                                  /\ j > job => resolved[j] = <<>>
        /\ \A i \in 1 .. At : Fresh(list, Names, i)
        /\ ToSet(resolved[job]) = Reached(list, Names, At) \cup Wanted
        /\ ~ (Wanted \subseteq Reached(list, Names, At))
    BY <2>1 DEF Resolving
  <2> HIDE DEF list
  <2>4. At' = At + 1
    <3>1. Len(Tail(refs)) = Len(refs) - 1 /\ Len(refs) \in Nat /\ Len(list) \in Nat
      BY <1>0, <2>1, <2>2
    <3>2. At' = Len(list) - Len(Tail(refs))
      BY <2>1 DEF At, list
    <3>3. At' = Len(list) - (Len(refs) - 1)
      BY <3>1, <3>2
    <3>4. At = Len(list) - Len(refs)
      BY <2>2
    <3> QED BY <3>1, <3>3, <3>4
  <2>5. \A i \in DOMAIN refs' : refs'[i] = list[At' + i]
    <3>1. ASSUME NEW i \in DOMAIN refs' PROVE refs'[i] = list[At' + i]
      <4>1. i \in Nat /\ i + 1 \in DOMAIN refs /\ refs'[i] = refs[i + 1]
        BY <1>0, <2>1, <3>1
      <4>2. At + (i + 1) = At' + i
        BY <2>2, <2>4, <4>1
      <4> QED BY <2>3, <4>1, <4>2
    <3> QED BY <3>1
  <2>6. Fresh(list, Names, At + 1)
    <3>1. (At + 1) - 1 = At
      BY <2>2
    <3> QED BY <2>2, <2>3, <3>1 DEF Fresh
  <2>7. \A i \in 1 .. At' : Fresh(list, Names, i)
    <3>1. \A i \in 1 .. At' : i \in 1 .. At \/ i = At + 1
      BY <2>2, <2>4
    <3> QED BY <2>3, <2>6, <3>1
  <2>8. Reached(list, Names, At') = Reached(list, Names, At) \cup Wanted
    BY <2>2, <2>4, ReachedMore
  <2>9. Wanted' \ left' = {}
    <3>1. Wanted' \subseteq Names'
      BY DEF Wanted
    <3> QED BY <2>1, <3>1
  <2>10. ToSet(resolved'[job']) = Reached(list, Names, At') \cup (Wanted' \ left')
    BY <2>1, <2>3, <2>8, <2>9
  <2>11. hit' <=> ~ (Wanted' \ left' \subseteq Reached(list, Names, At'))
    BY <2>1, <2>9
  <2>12. At' >= 0 /\ work'[job'].refs = list /\ Names' = Names
    BY <2>1, <2>2, <2>4 DEF list
  <2>13. \A j \in DOMAIN work' : /\ j < job' => AllFound(work'[j].refs, Names', resolved'[j])
                                 /\ j > job' => resolved'[j] = <<>>
    BY <2>1, <2>3
  <2> QED BY <2>5, <2>7, <2>10, <2>11, <2>12, <2>13 DEF Resolving
<1>6. CASE \E n \in Names : MatchName(n)
  <2> DEFINE list == work[job].refs
             R == Reached(list, Names, At)
  <2>1. PICK n \in Names : MatchName(n)
    BY <1>6
  <2>2. /\ pc = "refs" /\ pc' = "refs" /\ UNCHANGED <<work, job, refs>> /\ Names' = Names
        /\ refs # <<>> /\ n \in left /\ left' = left \ {n}
    BY <1>2, <2>1 DEF MatchName, Goto, input
  <2>3. At' = At /\ Wanted' = Wanted
    BY <2>2 DEF At, Wanted
  <2>4. n \in Matches[Head(refs)] <=> n \in Wanted
    BY <2>1, <2>2 DEF Wanted
  <2>5. /\ \A j \in DOMAIN work : /\ j < job => AllFound(work[j].refs, Names, resolved[j])
                                  /\ j > job => resolved[j] = <<>>
        /\ ToSet(resolved[job]) = R \cup (Wanted \ left)
        /\ hit <=> ~ (Wanted \ left \subseteq R)
        /\ At >= 0 /\ \A i \in DOMAIN refs : refs[i] = list[At + i]
        /\ \A i \in 1 .. At : Fresh(list, Names, i)
    BY <2>2 DEF Resolving
  <2>6. job \in DOMAIN resolved /\ DOMAIN resolved = DOMAIN work /\ resolved[job] \in Seq(Name \cup {Unset})
    <3>1. Len(resolved) = Len(work) /\ job \in DOMAIN work
      BY <2>2 DEF Shaped, Later
    <3>2. DOMAIN resolved = 1 .. Len(resolved)
      BY <1>0
    <3> QED BY <1>0, <3>1, <3>2
  <2> HIDE DEF list, R
  <2>7. /\ ToSet(resolved'[job]) = R \cup (Wanted \ left')
        /\ hit' <=> ~ (Wanted \ left' \subseteq R)
        /\ \A j \in DOMAIN work : j # job => resolved'[j] = resolved[j]
    <3>1. CASE n \in Wanted /\ n \notin ToSet(resolved[job])
      <4>1. resolved' = [resolved EXCEPT ![job] = Append(@, n)] /\ hit' = TRUE
        BY <2>1, <2>4, <3>1 DEF MatchName
      <4>2. /\ resolved'[job] = Append(resolved[job], n)
            /\ \A j \in DOMAIN work : j # job => resolved'[j] = resolved[j]
        BY <1>0, <2>6, <4>1
      <4>3. ToSet(resolved'[job]) = ToSet(resolved[job]) \cup {n}
        BY <2>6, <4>2, FoundMore
      <4>4. Wanted \ left' = (Wanted \ left) \cup {n}
        BY <2>2, <3>1
      <4>5. n \notin R
        BY <2>5, <3>1
      <4> QED BY <2>5, <4>1, <4>2, <4>3, <4>4, <4>5
    <3>2. CASE ~ (n \in Wanted /\ n \notin ToSet(resolved[job]))
      <4>1. resolved' = resolved /\ hit' = hit
        BY <2>1, <2>4, <3>2 DEF MatchName
      <4>2. CASE n \notin Wanted
        <5>1. Wanted \ left' = Wanted \ left
          BY <2>2, <4>2
        <5> QED BY <2>5, <4>1, <5>1
      <4>3. CASE n \in Wanted
        <5>1. n \in R
          BY <2>2, <2>5, <3>2, <4>3
        <5>2. Wanted \ left' = (Wanted \ left) \cup {n}
          BY <2>2, <4>3
        <5> QED BY <2>5, <4>1, <5>1, <5>2
      <4> QED BY <4>2, <4>3
    <3> QED BY <3>1, <3>2
  <2>8. work'[job'].refs = list /\ Reached(work'[job'].refs, Names', At') = R
    BY <2>2, <2>3 DEF list, R
  <2>9. \A j \in DOMAIN work' : /\ j < job' => AllFound(work'[j].refs, Names', resolved'[j])
                                /\ j > job' => resolved'[j] = <<>>
    <3>1. ASSUME NEW j \in DOMAIN work, j < job \/ j > job
          PROVE  resolved'[j] = resolved[j]
      <4>1. j # job
        BY <1>0, <3>1
      <4> QED BY <2>7, <4>1
    <3> QED BY <2>2, <2>5, <3>1
  <2>10. At' >= 0 /\ \A i \in DOMAIN refs' : refs'[i] = work'[job'].refs[At' + i]
    BY <2>2, <2>3, <2>5, <2>8
  <2>11. \A i \in 1 .. At' : Fresh(work'[job'].refs, Names', i)
    BY <2>2, <2>3, <2>5, <2>8
  <2>12. /\ ToSet(resolved'[job']) = Reached(work'[job'].refs, Names', At') \cup (Wanted' \ left')
         /\ hit' <=> ~ (Wanted' \ left' \subseteq Reached(work'[job'].refs, Names', At'))
    BY <2>2, <2>3, <2>7, <2>8
  <2> QED BY <2>9, <2>10, <2>11, <2>12 DEF Resolving
<1>7. CASE UNCHANGED vars
  <2>1. UNCHANGED <<pc, work, job, refs, left, hit, resolved>> /\ Names' = Names
    BY <1>2, <1>7 DEF vars, input, resolving
  <2>2. At' = At /\ Wanted' = Wanted
    BY <2>1 DEF At, Wanted
  <2> QED BY <2>1, <2>2 DEF Resolving
<1> QED BY <1>3, <1>4, <1>5, <1>6, <1>7, Steps

LEMMA NextFound ==
  ASSUME TypeOK, Shaped, Written, Fetching, Resolving, Found, [Next]_vars
  PROVE  Found'
<1>0. /\ work \in Seq(ToSet(work)) /\ job \in Nat /\ DOMAIN work = 1 .. Len(work) /\ Len(work) \in Nat
      /\ resolved \in Seq(Seq(Name \cup {Unset}))
  BY JobList DEF TypeOK
<1>1. UNCHANGED collectors => Names' = Names
  BY DEF Names
<1>2. /\ pc \in {"refs", "secrets", "fetch", "loaded"} => \A j \in DOMAIN work : IsInjective(resolved[j])
      /\ pc \in {"secrets", "fetch", "loaded"} =>
           \A j \in DOMAIN work : AllFound(work[j].refs, Names, resolved[j])
  BY DEF Found, Later
<1>3. CASE FailStep \/ Parse \/ LoadFile \/ FilesLoaded \/ RequiredPresent
  <2>1. pc' \in {"failed", "files", "required", "index"}
    BY <1>3 DEF FailStep, Parse, LoadFile, FilesLoaded, RequiredPresent, Goto
  <2> QED BY <2>1 DEF Found, Later
<1>4. CASE Index
  <2>1. pc' = "refs" /\ work' = work /\ resolved' = [j \in DOMAIN work |-> <<>>]
    BY <1>4 DEF Index, Goto
  <2>2. IsInjective(<< >>)
    BY DEF IsInjective
  <2> QED BY <2>1, <2>2 DEF Found
<1>5. CASE NextRef \/ NextJobRefs
  <2>1. pc = "refs" /\ pc' = "refs" /\ UNCHANGED <<work, resolved>>
    BY <1>5 DEF NextRef, NextJobRefs, Goto
  <2> QED BY <1>2, <2>1 DEF Found
<1>6. CASE \E n \in Names : MatchName(n)
  <2>1. PICK n \in Names : MatchName(n)
    BY <1>6
  <2>2. pc = "refs" /\ pc' = "refs" /\ UNCHANGED work
    BY <2>1 DEF MatchName, Goto
  <2>3. job \in DOMAIN resolved /\ DOMAIN resolved = DOMAIN work
    <3>1. Len(resolved) = Len(work) /\ job \in DOMAIN work
      BY <2>2 DEF Shaped, Later
    <3>2. DOMAIN resolved = 1 .. Len(resolved)
      BY <1>0
    <3> QED BY <1>0, <3>1, <3>2
  <2>4. ASSUME NEW j \in DOMAIN work PROVE IsInjective(resolved'[j])
    <3>1. IsInjective(resolved[j])
      BY <1>2, <2>2
    <3>2. CASE resolved' = resolved
      BY <3>1, <3>2
    <3>3. CASE resolved' # resolved
      <4>1. n \notin ToSet(resolved[job]) /\ resolved' = [resolved EXCEPT ![job] = Append(@, n)]
        BY <2>1, <3>3 DEF MatchName
      <4>2. CASE j = job
        <5>1. resolved'[j] = Append(resolved[j], n) /\ resolved[j] \in Seq(Name \cup {Unset})
          BY <1>0, <2>3, <4>1, <4>2
        <5> QED BY <3>1, <4>1, <4>2, <5>1, FoundMore
      <4>3. CASE j # job
        BY <1>0, <2>3, <3>1, <4>1, <4>3
      <4> QED BY <4>2, <4>3
    <3> QED BY <3>2, <3>3
  <2> QED BY <2>2, <2>4 DEF Found
<1>7. CASE RefsResolved
  <2>1. /\ pc = "refs" /\ pc' = "secrets" /\ UNCHANGED <<work, resolved, collectors>> /\ refs = <<>>
        /\ job = Len(work)
    BY <1>7 DEF RefsResolved, Goto, input, resolving
  <2>2. ASSUME NEW j \in DOMAIN work PROVE AllFound(work[j].refs, Names, resolved[j])
    <3>1. j < job \/ j = job
      BY <1>0, <2>1
    <3>2. CASE j < job
      BY <2>1, <3>2 DEF Resolving
    <3>3. CASE j = job
      BY <2>1, <3>3, JobDone
    <3> QED BY <3>1, <3>2, <3>3
  <2> QED BY <1>1, <1>2, <2>1, <2>2 DEF Found, Later
<1>8. CASE (\E t \in Label : KeepLiteral(t) \/ Fetch(t)) \/ NextJobSecrets \/ SecretsResolved
  <2>1. /\ pc = "secrets" /\ pc' \in {"secrets", "fetch", "loaded"}
        /\ UNCHANGED <<work, resolved, collectors>>
    BY <1>8 DEF KeepLiteral, Fetch, NextJobSecrets, SecretsResolved, Goto, input, resolving
  <2> QED BY <1>1, <1>2, <2>1 DEF Found, Later
<1>9. CASE \E t : FillStep(t)
  <2>1. PICK t : FillStep(t)
    BY <1>9
  <2>2. /\ pc \in {"secrets", "fetch"} /\ pc' = "secrets" /\ UNCHANGED <<resolved, collectors>>
    BY <2>1 DEF FillStep, input, resolving
  <2>3. DOMAIN work' = DOMAIN work /\ \A k \in DOMAIN work : work'[k].refs = work[k].refs
    BY <2>1, Filling
  <2> QED BY <1>1, <1>2, <2>2, <2>3 DEF Found, Later
<1>10. CASE UNCHANGED vars
  <2>1. UNCHANGED <<pc, work, resolved, collectors>>
    BY <1>10 DEF vars, input, resolving
  <2> QED BY <1>1, <2>1 DEF Found
<1> QED BY <1>3, <1>4, <1>5, <1>6, <1>7, <1>8, <1>9, <1>10, Steps

LEMMA NextBlamed ==
  ASSUME TypeOK, Shaped, Written, Fetching, Resolving, Blamed, [Next]_vars
  PROVE  Blamed'
<1>1. UNCHANGED collectors => Names' = Names
  BY DEF Names
<1>2. why # "none" <=> pc = "failed"
  BY DEF TypeOK
<1>3. CASE FailStep
  <2>1. UNCHANGED <<work, job, collectors>>
    BY <1>3 DEF FailStep, input
  <2>2. CASE why' = "reference"
    <3>1. pc = "refs" /\ refs # <<>> /\ left = {} /\ ~ hit
      BY <1>3, <2>2 DEF FailStep
    <3>2. /\ At + 1 \in DOMAIN work[job].refs /\ At \in Nat
          /\ Wanted = Matches[work[job].refs[At + 1]] \cap Names
      BY <3>1, Standing
    <3>3. Wanted \subseteq Reached(work[job].refs, Names, At)
      BY <3>1 DEF Resolving
    <3>4. ~ Fresh(work[job].refs, Names, At + 1)
      <4>1. (At + 1) - 1 = At
        BY <3>2
      <4> QED BY <3>2, <3>3, <4>1 DEF Fresh
    <3>5. job \in DOMAIN work
      BY <3>1 DEF TypeOK
    <3>6. \E j \in DOMAIN work : \E i \in DOMAIN work[j].refs : ~ Fresh(work[j].refs, Names, i)
      BY <3>2, <3>4, <3>5
    <3> QED BY <1>1, <2>1, <3>6 DEF Blamed
  <2>3. CASE why' # "reference"
    BY <2>3 DEF Blamed
  <2> QED BY <2>2, <2>3
<1>4. CASE UNCHANGED vars
  <2>1. UNCHANGED <<why, work, collectors>>
    BY <1>4 DEF vars, input
  <2> QED BY <1>1, <2>1 DEF Blamed
<1>5. CASE Parse \/ LoadFile \/ FilesLoaded \/ RequiredPresent \/ Index \/ NextRef \/ NextJobRefs
           \/ RefsResolved \/ NextJobSecrets \/ SecretsResolved
           \/ (\E n \in Names : MatchName(n)) \/ (\E t \in Label : KeepLiteral(t) \/ Fetch(t))
           \/ \E t : FillStep(t)
  <2>1. pc # "failed" /\ why' = why
    BY <1>5 DEF Parse, LoadFile, FilesLoaded, RequiredPresent, Index, NextRef, NextJobRefs, RefsResolved,
         NextJobSecrets, SecretsResolved, MatchName, KeepLiteral, Fetch, FillStep, Goto
  <2> QED BY <1>2, <2>1 DEF Blamed
<1> QED BY <1>3, <1>4, <1>5, Steps

LEMMA Inductive == Spec => []IInv
<1>1. Init => IInv
  BY InitIInv
<1>2. IInv /\ [Next]_vars => IInv'
  <2> SUFFICES ASSUME IInv, [Next]_vars PROVE IInv'
    OBVIOUS
  <2>1. TypeOK /\ Shaped /\ Collected /\ Resolving /\ Found /\ Blamed /\ Answered /\ Written /\ Fetching
    BY DEF IInv
  <2> QED BY <2>1, NextTypeOK, NextShaped, NextCollected, NextResolving, NextFound, NextBlamed,
             NextAnswered, NextWritten, NextFetching DEF IInv
<1> QED BY <1>1, <1>2, PTL DEF Spec

-----------------------------------------------------------------------------
(* Theorems *)

\* The variables have their types, whatever is loaded: the data source names
\* of a job are taken in turn, and a secret is asked for one that is waiting.
THEOREM TypeCorrect == Spec => []TypeOK
<1>1. IInv => TypeOK
  BY DEF IInv
<1> QED BY <1>1, Inductive, PTL

LEMMA SuperfluousIsNotFresh ==
  ASSUME NEW j, NEW i
  PROVE  Superfluous(j, i) <=> ~ Fresh(work[j].refs, Names, i)
BY DEF Superfluous, Fresh, Hits, Reached

\* Whether the references of a configuration are accepted does not depend on
\* the order in which resolveCollectorRefs ranges over the collectors: it
\* blames only a reference that adds nothing to those before it, and accepts
\* none that does not.
THEOREM ReferencesAreOrderBlind == Spec => []OrderBlind
<1>1. IInv => OrderBlind
  <2> SUFFICES ASSUME IInv PROVE OrderBlind
    OBVIOUS
  <2>1. why = "reference" => \E j \in DOMAIN work : \E i \in DOMAIN work[j].refs : Superfluous(j, i)
    BY SuperfluousIsNotFresh DEF IInv, Blamed
  <2>2. ASSUME pc \in {"secrets", "fetch", "loaded"}, NEW j \in DOMAIN work, NEW i \in DOMAIN work[j].refs
        PROVE  ~ Superfluous(j, i)
    <3>1. AllFound(work[j].refs, Names, resolved[j])
      BY <2>2 DEF IInv, Found, Later
    <3> QED BY <3>1, SuperfluousIsNotFresh DEF AllFound
  <2> QED BY <2>1, <2>2 DEF OrderBlind
<1> QED BY <1>1, Inductive, PTL

\* Every job of a loaded configuration has the collectors its references
\* name, each of them once, and the collectors have names of their own and
\* intervals, wherever they are defined.
THEOREM CollectorsAreResolved == Spec => []CollectorsResolved
<1>1. IInv => EveryCollectorOnce
  <2> SUFFICES ASSUME IInv, pc \in {"secrets", "fetch", "loaded"}, NEW j \in DOMAIN work
               PROVE  /\ ToSet(resolved[j]) = UNION {Hits(j, i) : i \in DOMAIN work[j].refs}
                      /\ IsInjective(resolved[j])
    BY DEF EveryCollectorOnce
  <2>1. AllFound(work[j].refs, Names, resolved[j]) /\ IsInjective(resolved[j])
    BY DEF IInv, Found, Later
  <2>2. DOMAIN work[j].refs = 1 .. Len(work[j].refs)
    <3>1. work[j].refs \in Seq(Ref)
      BY JobList DEF IInv, TypeOK
    <3> QED BY <3>1
  <2> QED BY <2>1, <2>2 DEF AllFound, Reached, Hits
<1>2. IInv => CollectorsSettled
  <2> SUFFICES ASSUME IInv, pc = "loaded" PROVE CollectorsSettled
    BY DEF CollectorsSettled
  <2>1. /\ Len(collectors) = Len(All)
        /\ \A i \in DOMAIN collectors :
             /\ collectors[i].name = All[i].name
             /\ collectors[i].interval = IF All[i].interval = Unset THEN document.global ELSE All[i].interval
        /\ \A i, k \in DOMAIN collectors : collectors[i].name = collectors[k].name => i = k
    BY DEF IInv, Collected, Later
  <2>2. DOMAIN collectors = 1 .. Len(collectors) /\ DOMAIN All = 1 .. Len(All)
    BY DEF IInv, TypeOK, IsConfig, All
  <2>3. ASSUME NEW c \in ToSet(All)
        PROVE  \E d \in ToSet(collectors) :
                 /\ d.name = c.name
                 /\ d.interval = IF c.interval = Unset THEN document.global ELSE c.interval
    <3>1. PICK i \in DOMAIN All : c = All[i]
      BY DEF ToSet
    <3>2. i \in DOMAIN collectors /\ collectors[i] \in ToSet(collectors)
      BY <2>1, <2>2 DEF ToSet
    <3> QED BY <2>1, <3>1, <3>2
  <2> QED BY <2>1, <2>3 DEF CollectorsSettled, All
<1>3. IInv => CollectorsResolved
  BY <1>1, <1>2 DEF CollectorsResolved
<1> QED BY <1>3, Inductive, PTL

\* Every data source name of a loaded configuration is the literal of the file or
\* of the environment, or the part that its own reference selects of a payload
\* that a store answered for its secret, whatever its shape; those that share a
\* secret have it in one version, however often it changed during the load.
THEOREM SecretsAreAsWritten == Spec => []SecretsAsWritten
<1>1. ASSUME IInv, pc = "loaded", NEW j \in DOMAIN work, NEW t \in DOMAIN work[j].targets
      PROVE  /\ Filled(Source(j, t), cache, work[j].targets[t])
             /\ Source(j, t) \in Dsn
  <2>1. ~ Pending(j, t)
    BY <1>1 DEF Pending
  <2>2. AreJobs(Src, Dsn) /\ AreJobs(work, Dsn \cup Resolved)
    BY <1>1, SourceJobs DEF IInv, TypeOK
  <2>3. j \in DOMAIN Src /\ t \in DOMAIN Src[j].targets
    <3>1. Len(work) = Len(Src) /\ DOMAIN work[j].targets = DOMAIN Src[j].targets
      BY <1>1 DEF IInv, Shaped
    <3> QED BY <1>1, <2>2, <3>1, JobList
  <2>4. Src[j].targets[t] \in Dsn
    BY <2>2, <2>3, JobList
  <2> QED BY <1>1, <2>1, <2>4 DEF IInv, Written, Source, Src
<1>2. IInv => OwnPart
  <2> SUFFICES ASSUME IInv, pc = "loaded", NEW j \in DOMAIN work, NEW t \in DOMAIN work[j].targets
               PROVE  LET dsn == Source(j, t)
                          now == work[j].targets[t]
                      IN IF dsn.secret = Literal THEN now = dsn
                         ELSE \E payload \in {a.payload : a \in {b \in answers : b.secret = dsn.secret}} :
                                /\ Part(dsn, payload) \in payload.parts
                                /\ now = Value(dsn, payload)
    BY DEF OwnPart
  <2> DEFINE dsn == Source(j, t)
             now == work[j].targets[t]
  <2>1. Filled(dsn, cache, now)
    BY <1>1
  <2> HIDE DEF dsn, now
  <2>2. CASE dsn.secret = Literal
    BY <2>1, <2>2 DEF Filled, dsn, now
  <2>3. CASE dsn.secret # Literal
    <3> DEFINE payload == cache[dsn.secret]
    <3>1. /\ dsn.secret \in DOMAIN cache
          /\ Part(dsn, payload) \in payload.parts /\ now = Value(dsn, payload)
      BY <2>1, <2>3 DEF Filled
    <3>2. [secret |-> dsn.secret, payload |-> payload] \in answers
      BY <3>1 DEF IInv, Answered
    <3>3. payload \in {a.payload : a \in {b \in answers : b.secret = dsn.secret}}
      <4> HIDE DEF payload
      <4> QED BY <3>2
    <3> HIDE DEF payload
    <3> QED BY <2>3, <3>1, <3>3 DEF dsn, now
  <2> QED BY <2>2, <2>3
<1>3. IInv => OneVersion
  <2> SUFFICES ASSUME IInv, pc = "loaded",
                      NEW j \in DOMAIN work, NEW k \in DOMAIN work,
                      NEW t \in DOMAIN work[j].targets, NEW u \in DOMAIN work[k].targets,
                      Source(j, t).secret = Source(k, u).secret, Source(j, t).secret # Literal
               PROVE  work[j].targets[t].version = work[k].targets[u].version
    BY DEF OneVersion
  <2>1. Filled(Source(j, t), cache, work[j].targets[t]) /\ Filled(Source(k, u), cache, work[k].targets[u])
    BY <1>1
  <2> QED BY <2>1 DEF Filled, Value
<1>4. IInv => SecretsAsWritten
  BY <1>2, <1>3 DEF SecretsAsWritten
<1> QED BY <1>4, Inductive, PTL

=============================================================================
