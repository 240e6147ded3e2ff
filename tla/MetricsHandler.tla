---------------------------- MODULE MetricsHandler ----------------------------
(***************************************************************************)
(* The handler of /metrics.  Every request sets the job filters of the one *)
(* exporter all requests share, copies them with WithContext, gathers from *)
(* the copy and then from the registry that holds scrape_errors_total, and *)
(* filters that family by the filters of the shared exporter.              *)
(*                                                                         *)
(* jobFilters is a slice that nothing protects: a request stores its words *)
(* one by one and another may read it in between.                          *)
(*                                                                         *)
(* A job stands for its targets.  Gather tells how they are collected, and *)
(* nothing reloads the configuration here.                                 *)
(***************************************************************************)
EXTENDS Naturals, Sequences

CONSTANTS
  Request,
  Name,    \* the names a request may ask for
  Job,     \* the jobs of a configuration that has jobs
  Single,  \* what stands for the target of single target mode
  Nil,
  Params   \* the jobs[] parameters a request may have

ASSUME NamesAssumption ==
  /\ Job # {} /\ Job \subseteq Name /\ Params \subseteq Seq(Name)
  /\ Nil \notin Request /\ Single \notin Job

VARIABLES
  mode,       \* of the configuration: jobs, or a target with or without a name
  wanted,     \* the jobs[] parameters of each request
  jobFilters, \* exporter.jobFilters: the request whose array it is, and its length
  counted,    \* the jobs that have a child in scrape_errors_total
  pc,
  toStore,    \* the words of jobFilters a request has still to store
  copy,       \* the job filters of the exporter WithContext returns
  todo,       \* the jobs a request has still to collect, or to filter
  metrics,    \* the jobs whose metrics are in the response
  failed,     \* the jobs that sent errors
  errors,     \* the jobs in the scrape_errors_total of the response
  status,
  dropped,    \* history: scrape_errors_total has been reset since the request began
  disturbed   \* history: the requests that met one for other jobs

shared == <<jobFilters, counted>>
history == <<dropped, disturbed>>
locals == <<copy, metrics, failed, errors, status, history>>
given == <<mode, wanted>>
vars == <<given, shared, pc, toStore, todo, locals>>

Groups == IF mode = "jobs" THEN Job ELSE {Single}

\* A target of a job has a name, the other one may have none.
Named == mode # "nameless"

NoFilters == [array |-> Nil, len |-> 0]

Filters == [array : Request \cup {Nil}, len : {0} \cup {Len(wanted[r]) : r \in Request}]

Words == {"array", "len"}

TypeOK ==
  /\ mode \in {"jobs", "named", "nameless"}
  /\ wanted \in [Request -> Params]
  /\ jobFilters \in Filters
  /\ counted \subseteq Groups
  /\ pc \in [Request -> {"idle", "store", "copy", "filter", "collect", "registry", "test", "sift", "done"}]
  /\ toStore \in [Request -> SUBSET Words]
  /\ copy \in [Request -> Filters]
  /\ todo \in [Request -> SUBSET Groups]
  /\ metrics \in [Request -> SUBSET Groups]
  /\ failed \in [Request -> SUBSET Groups]
  /\ errors \in [Request -> SUBSET Groups]
  /\ status \in [Request -> {"none", "200", "400", "500", "aborted"}]
  /\ dropped \in [Request -> BOOLEAN]
  /\ disturbed \subseteq Request

Init ==
  /\ mode \in {"jobs", "named", "nameless"}
  /\ wanted \in [Request -> Params]
  /\ jobFilters = NoFilters /\ counted = {}
  /\ pc = [r \in Request |-> "idle"]
  /\ toStore = [r \in Request |-> {}]
  /\ copy = [r \in Request |-> NoFilters]
  /\ todo = [r \in Request |-> {}]
  /\ metrics = [r \in Request |-> {}]
  /\ failed = [r \in Request |-> {}]
  /\ errors = [r \in Request |-> {}]
  /\ status = [r \in Request |-> "none"]
  /\ dropped = [r \in Request |-> FALSE]
  /\ disturbed = {}

Goto(r, from, to) == pc[r] = from /\ pc' = [pc EXCEPT ![r] = to]

Respond(r, from, code) == Goto(r, from, "done") /\ status' = [status EXCEPT ![r] = code]

InFlight == {r \in Request : pc[r] \notin {"idle", "done"}}

-----------------------------------------------------------------------------
(* Reading a slice of which only some words may have been stored           *)

\* Mutant: the last name of the list is left out.
ListedShort(f) == {wanted[f.array][i] : i \in DOMAIN wanted[f.array] \cap 1 .. f.len - 1}

Listed(f) == {wanted[f.array][i] : i \in DOMAIN wanted[f.array] \cap 1 .. f.len}

\* slices.Contains dereferences a nil array.
Faults(f) == f.len > 0 /\ f.array = Nil

\* It may find anything behind the end of the array.
Finds(f, g) ==
  /\ ~ Faults(f)
  /\ f.len > 0 => g \in Listed(f) \/ f.len > Len(wanted[f.array])
  /\ f.len # 0

Misses(f, g) == ~ Faults(f) /\ (f.len > 0 => g \notin Listed(f))

-----------------------------------------------------------------------------
(* SetJobFilters                                                           *)

Filtering(r) == wanted[r] # <<>> /\ mode = "jobs"

Known(r) == \A i \in DOMAIN wanted[r] : wanted[r][i] \in Job

Refuse(r) ==
  /\ Filtering(r) /\ ~ Known(r)
  /\ Respond(r, "idle", "400")
  /\ UNCHANGED <<given, shared, toStore, todo, copy, metrics, failed, errors, history>>

\* Requests for the same jobs.
Agree(r, s) == (Filtering(r) <=> Filtering(s)) /\ (Filtering(r) => wanted[r] = wanted[s])

Accept(r) ==
  /\ Filtering(r) => Known(r)
  /\ Goto(r, "idle", "store")
  /\ toStore' = [toStore EXCEPT ![r] = Words]
  /\ LET others == {s \in InFlight : ~ Agree(r, s)}
     IN  disturbed' = IF others = {} THEN disturbed ELSE disturbed \cup others \cup {r}
  /\ UNCHANGED <<given, shared, todo, copy, metrics, failed, errors, status, dropped>>

\* Mutant: a request without jobs[] leaves the filters as they are.
StoredKept(r) == IF Filtering(r) THEN [array |-> r, len |-> Len(wanted[r])] ELSE jobFilters

\* Mutant: the names are appended twice.
StoredTwice(r) == IF Filtering(r) THEN [array |-> r, len |-> 2 * Len(wanted[r])] ELSE NoFilters

Stored(r) == IF Filtering(r) THEN [array |-> r, len |-> Len(wanted[r])] ELSE NoFilters

\* The compiler chooses the order.
Store(r, word) ==
  /\ pc[r] = "store" /\ word \in toStore[r]
  /\ \/ word = "len" /\ jobFilters' = [jobFilters EXCEPT !.len = Stored(r).len]
     \/ word = "array" /\ jobFilters' = [jobFilters EXCEPT !.array = Stored(r).array]
  /\ toStore' = [toStore EXCEPT ![r] = @ \ {word}]
  /\ pc' = [pc EXCEPT ![r] = IF toStore'[r] = {} THEN "copy" ELSE "store"]
  /\ UNCHANGED <<given, counted, todo, locals>>

-----------------------------------------------------------------------------
(* Gather                                                                  *)

WithContext(r) ==
  /\ Goto(r, "copy", "filter")
  /\ copy' = [copy EXCEPT ![r] = jobFilters]
  /\ UNCHANGED <<given, shared, toStore, todo, metrics, failed, errors, status, history>>

\* filteredTargets; without targets Gather fails and collects nothing.
FilterTargets(r) ==
  /\ Goto(r, "filter", "collect")
  /\ IF copy[r].len = 0
     THEN todo' = [todo EXCEPT ![r] = Groups]
     ELSE /\ ~ Faults(copy[r])
          /\ \E S \in SUBSET Groups :
               /\ \A g \in Groups : IF g \in S THEN Finds(copy[r], g) ELSE Misses(copy[r], g)
               /\ todo' = [todo EXCEPT ![r] = S]
  /\ UNCHANGED <<given, shared, toStore, locals>>

\* A named target sends `up` in any case, another one may have nothing to send.
MaySend(r, g) ==
  \/ metrics' = [metrics EXCEPT ![r] = @ \cup {g}]
  \/ ~ Named /\ UNCHANGED metrics

CollectHealthy(r, g) ==
  /\ pc[r] = "collect" /\ g \in todo[r]
  /\ todo' = [todo EXCEPT ![r] = @ \ {g}]
  /\ MaySend(r, g)
  /\ UNCHANGED <<given, shared, pc, toStore, copy, failed, errors, status, history>>

\* A query fails: an error with a context.
CollectFailing(r, g) ==
  /\ pc[r] = "collect" /\ g \in todo[r]
  /\ todo' = [todo EXCEPT ![r] = @ \ {g}]
  /\ MaySend(r, g)
  /\ failed' = [failed EXCEPT ![r] = @ \cup {g}]
  /\ counted' = counted \cup {g}
  /\ UNCHANGED <<given, jobFilters, pc, toStore, copy, errors, status, history>>

\* Mutant: a failed ping is not counted.
CollectDownUncounted(r, g) ==
  /\ pc[r] = "collect" /\ g \in todo[r]
  /\ todo' = [todo EXCEPT ![r] = @ \ {g}]
  /\ metrics' = IF Named THEN [metrics EXCEPT ![r] = @ \cup {g}] ELSE metrics
  /\ failed' = [failed EXCEPT ![r] = @ \cup {g}]
  /\ UNCHANGED counted
  /\ UNCHANGED <<given, jobFilters, pc, toStore, copy, errors, status, history>>

\* The context of an unnamed target that cannot be pinged is empty.
CollectDown(r, g) ==
  /\ pc[r] = "collect" /\ g \in todo[r]
  /\ todo' = [todo EXCEPT ![r] = @ \ {g}]
  /\ metrics' = IF Named THEN [metrics EXCEPT ![r] = @ \cup {g}] ELSE metrics
  /\ failed' = [failed EXCEPT ![r] = @ \cup {g}]
  /\ counted' = IF Named THEN counted \cup {g} ELSE counted
  /\ UNCHANGED <<given, jobFilters, pc, toStore, copy, errors, status, history>>

EndCollect(r) ==
  /\ todo[r] = {}
  /\ Goto(r, "collect", "registry")
  /\ UNCHANGED <<given, shared, toStore, todo, locals>>

\* Mutant: errors of Gather never yield 500.
GatherRegistryOK(r) ==
  /\ errors' = [errors EXCEPT ![r] = counted]
  /\ Goto(r, "registry", "test")
  /\ UNCHANGED <<given, shared, toStore, todo, copy, metrics, failed, status, history>>

\* prometheus.Gatherers goes on to the registry.  An error that leaves no
\* family is answered with 500: those of the targets, or that there are none,
\* as named ones would have sent something.
GatherRegistry(r) ==
  /\ errors' = [errors EXCEPT ![r] = counted]
  /\ IF metrics[r] = {} /\ counted = {} /\ (failed[r] # {} \/ Named)
     THEN Respond(r, "registry", "500")
     ELSE Goto(r, "registry", "test") /\ UNCHANGED status
  /\ UNCHANGED <<given, shared, toStore, todo, copy, metrics, failed, history>>

-----------------------------------------------------------------------------
(* FilterScrapeErrorsTotal, with the filters of the shared exporter        *)

Unfiltered(r) ==
  /\ jobFilters.len = 0
  /\ Respond(r, "test", "200")
  /\ UNCHANGED <<given, shared, toStore, todo, copy, metrics, failed, errors, history>>

Filtered(r) ==
  /\ jobFilters.len > 0
  /\ Goto(r, "test", "sift")
  /\ todo' = [todo EXCEPT ![r] = errors[r]]
  /\ UNCHANGED <<given, shared, toStore, locals>>

SiftChild(r, g) ==
  /\ pc[r] = "sift" /\ g \in todo[r]
  /\ todo' = [todo EXCEPT ![r] = @ \ {g}]
  /\ \/ Finds(jobFilters, g) /\ UNCHANGED errors
     \/ Misses(jobFilters, g) /\ errors' = [errors EXCEPT ![r] = @ \ {g}]
  /\ UNCHANGED <<given, shared, pc, toStore, copy, metrics, failed, status, history>>

EndSift(r) ==
  /\ todo[r] = {}
  /\ Respond(r, "sift", "200")
  /\ UNCHANGED <<given, shared, toStore, todo, copy, metrics, failed, errors, history>>

\* net/http recovers the panic of a handler and closes the connection.
Fault(r) ==
  /\ \/ Faults(copy[r]) /\ Respond(r, "filter", "aborted")
     \/ todo[r] # {} /\ Faults(jobFilters) /\ Respond(r, "sift", "aborted")
  /\ UNCHANGED <<given, shared, toStore, todo, copy, metrics, failed, errors, history>>

\* The ticker of startScrapeErrorsDropTicker.
DropErrorMetrics ==
  /\ counted' = {}
  /\ dropped' = [r \in Request |-> r \in InFlight \/ dropped[r]]
  /\ UNCHANGED <<given, jobFilters, pc, toStore, todo, copy, metrics, failed, errors, status, disturbed>>

-----------------------------------------------------------------------------
Handle(r) ==
  \/ Refuse(r) \/ Accept(r) \/ \E word \in Words : Store(r, word)
  \/ WithContext(r) \/ FilterTargets(r)
  \/ \E g \in Groups : CollectHealthy(r, g) \/ CollectFailing(r, g) \/ CollectDown(r, g)
  \/ EndCollect(r) \/ GatherRegistry(r) \/ Unfiltered(r) \/ Filtered(r)
  \/ \E g \in Groups : SiftChild(r, g)
  \/ EndSift(r) \/ Fault(r)

Next == DropErrorMetrics \/ \E r \in Request : Handle(r)

Spec == Init /\ [][Next]_vars

-----------------------------------------------------------------------------
(* Properties                                                              *)

\* The jobs a request asks for.
Requested(r) == IF Filtering(r) THEN {wanted[r][i] : i \in DOMAIN wanted[r]} ELSE Groups

\* A response has the metrics of the jobs of its own request, and of every one
\* of them that has metrics.
HasOwnJobs(r) == metrics[r] \subseteq Requested(r) /\ (Named => metrics[r] = Requested(r))

\* Requests are answered with their own jobs as long as none meets another one
\* for other jobs: it does not matter what the requests before them, those for
\* the same jobs and those that are refused do to the filters all share.
OwnJobsUndisturbed == \A r \in Request \ disturbed : status[r] = "200" => HasOwnJobs(r)

\* So are they with the scrape errors of their own jobs.
OwnErrorsUndisturbed == \A r \in Request \ disturbed : status[r] = "200" => errors[r] \subseteq Requested(r)

\* None of them is aborted by a panic, on filters of which a part is stored.
UndisturbedNotAborted == \A r \in Request \ disturbed : status[r] # "aborted"

\* All that makes the shared filters harmless (promhttp.go:39-73) to requests
\* that meet none for other jobs.
UndisturbedAnswers == OwnJobsUndisturbed /\ OwnErrorsUndisturbed /\ UndisturbedNotAborted

\* What the array of one request with the length of another one lets through:
\* the first names of the list, or, where the list is shorter than that, all of
\* them and what lies in memory behind.
Mixed(s, q, S) ==
  \/ ~ Filtering(q) /\ S = Groups
  \/ /\ Filtering(s) /\ Filtering(q)
     /\ IF Len(wanted[q]) <= Len(wanted[s])
        THEN S = {wanted[s][i] : i \in 1 .. Len(wanted[q])}
        ELSE Requested(s) \subseteq S

\* Whichever words of jobFilters a request read (promhttp.go:39, exporter.go:301),
\* of whatever requests: it gets the jobs of a list that a request has, or the
\* first ones of it, as many as another one has, or all jobs if a request asks
\* for them.  Jobs that nobody asked for come only from lists of different
\* lengths.
SomeonesJobs ==
  Named => \A r \in Request : status[r] = "200" => \E s, q \in Request : Mixed(s, q, metrics[r])

\* A job that failed during the request is among the scrape errors of the
\* response, unless they have been dropped meanwhile or it has no name to be
\* counted under.
ErrorsReported ==
  \A r \in Request \ disturbed : status[r] = "200" /\ Named /\ ~ dropped[r] => failed[r] \subseteq errors[r]

\* A request whose target failed gets 500, or a response that has metrics or
\* scrape errors: it is never answered with an empty 200.
NoSilentFailure ==
  \A r \in Request \ disturbed : status[r] = "200" /\ failed[r] # {} => metrics[r] # {} \/ errors[r] # {}

\* What has failed shows in the answer.
FailuresReported == ErrorsReported /\ NoSilentFailure

\* A request is answered with the jobs it names (README.md:312), whatever others
\* ask for.
OwnJobs == \A r \in Request : status[r] = "200" => HasOwnJobs(r)
=============================================================================
