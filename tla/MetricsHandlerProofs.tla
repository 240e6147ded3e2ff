------------------------ MODULE MetricsHandlerProofs ------------------------
(***************************************************************************)
(* A request that meets none for other jobs is answered by its own job     *)
(* filters, for any number of requests, any jobs and any lists of names.   *)
(*                                                                         *)
(* The invariant follows the filters of such a request: from the words it  *)
(* stores to the shared exporter, to the copy, to the targets it collects, *)
(* and back to the shared exporter for scrape_errors_total.  The array in  *)
(* the shared exporter may be that of another request, with equal names.   *)
(***************************************************************************)
EXTENDS MetricsHandler, TLAPS

\* Where a request has stored its filters.
Stores == {"copy", "filter", "collect", "registry", "test", "sift"}

Undisturbed == Request \ disturbed

\* Whoever is in flight with an undisturbed request asks for the same jobs.
AllAgree == \A r, s \in InFlight : r \notin disturbed => Agree(r, s)

\* The two words of f, as good as those r stores.
LenOf(f, r) == f.len = Stored(r).len

ArrayOf(f, r) == Filtering(r) => f.array \in Request /\ wanted[f.array] = wanted[r]

Holds(f, r) == LenOf(f, r) /\ ArrayOf(f, r)

\* What an undisturbed request has stored is what it finds.
StoredOwn ==
  \A r \in Undisturbed :
    /\ pc[r] = "store" => /\ "len" \notin toStore[r] => LenOf(jobFilters, r)
                          /\ "array" \notin toStore[r] => ArrayOf(jobFilters, r)
    /\ pc[r] \in Stores => Holds(jobFilters, r)
    /\ pc[r] = "filter" => Holds(copy[r], r)

\* A request that is being handled has only names of jobs.
Accepted == \A r \in InFlight : Filtering(r) => Known(r)

\* The jobs it collects are those it asks for.
CollectsOwn ==
  /\ \A r \in Request : pc[r] \in {"idle", "store", "copy", "filter"} => metrics[r] = {}
  /\ \A r \in Undisturbed :
       /\ pc[r] = "collect" =>
            metrics[r] \cup todo[r] \subseteq Requested(r) /\ (Named => metrics[r] \cup todo[r] = Requested(r))
       /\ pc[r] \in {"registry", "test", "sift"} => HasOwnJobs(r)

\* Scrape errors of other jobs are still to be sifted.
SiftsOwn == \A r \in Undisturbed : pc[r] = "sift" => errors[r] \subseteq Requested(r) \cup todo[r]

\* A status belongs to the end.
Answered == \A r \in Request : status[r] # "none" => pc[r] = "done"

IInv ==
  /\ TypeOK /\ AllAgree /\ StoredOwn /\ Accepted /\ CollectsOwn /\ SiftsOwn /\ Answered
  /\ OwnJobsUndisturbed /\ OwnErrorsUndisturbed /\ UndisturbedNotAborted

-----------------------------------------------------------------------------
(* The filters of one request                                              *)

\* The configuration and the parameters of the requests do not change.
Kept ==
  /\ UNCHANGED given /\ Groups' = Groups /\ (Named' <=> Named) /\ Filters' = Filters
  /\ \A r \in Request :
       /\ Stored(r)' = Stored(r) /\ Requested(r)' = Requested(r)
       /\ Filtering(r)' <=> Filtering(r)
       /\ Known(r)' <=> Known(r)

LEMMA GivenKept == [Next]_vars => Kept
<1> SUFFICES ASSUME [Next]_vars PROVE Kept
  OBVIOUS
<1>1. UNCHANGED given
  <2>1. ASSUME NEW r \in Request, Handle(r) PROVE UNCHANGED given
    BY <2>1 DEF Handle, Refuse, Accept, Store, WithContext, FilterTargets, CollectHealthy,
                CollectFailing, CollectDown, EndCollect, GatherRegistry, Unfiltered, Filtered,
                SiftChild, EndSift, Fault
  <2> QED BY <2>1 DEF Next, DropErrorMetrics, vars
<1>2. mode' = mode /\ wanted' = wanted
  BY <1>1 DEF given
<1>3. Groups' = Groups /\ (Named' <=> Named) /\ Filters' = Filters
  BY <1>2 DEF Groups, Named, Filters
<1>4. ASSUME NEW r \in Request
      PROVE  /\ Stored(r)' = Stored(r) /\ Requested(r)' = Requested(r)
             /\ Filtering(r)' <=> Filtering(r)
             /\ Known(r)' <=> Known(r)
  BY <1>2 DEF Stored, Requested, Filtering, Known, Groups
<1> QED BY <1>1, <1>3, <1>4 DEF Kept

\* wanted names some jobs, as many as its length tells.
LEMMA Names ==
  ASSUME TypeOK, NEW r \in Request
  PROVE  /\ wanted[r] \in Seq(Name) /\ Len(wanted[r]) \in Nat
         /\ DOMAIN wanted[r] = 1 .. Len(wanted[r])
         /\ wanted[r] # <<>> <=> Len(wanted[r]) > 0
<1>1. wanted[r] \in Seq(Name)
  BY NamesAssumption DEF TypeOK
<1> QED BY <1>1

\* The filters a request stores are of their type, and its own.
LEMMA StoredHolds ==
  ASSUME TypeOK, NEW r \in Request
  PROVE  /\ Stored(r) \in Filters /\ Stored(r).len \in Nat
         /\ Stored(r).len = 0 <=> ~ Filtering(r)
         /\ Filtering(r) => Stored(r).array = r /\ Stored(r).len = Len(wanted[r])
<1> USE Names
<1>1. CASE Filtering(r)
  BY <1>1 DEF Stored, Filtering, Filters
<1>2. CASE ~ Filtering(r)
  BY <1>2 DEF Stored, NoFilters, Filters
<1> QED BY <1>1, <1>2

\* Filters that are as good as those of a request find its jobs.
LEMMA HoldsWhole ==
  ASSUME TypeOK, NEW r \in Request, NEW f \in Filters, Holds(f, r)
  PROVE  /\ ~ Faults(f)
         /\ f.len = 0 <=> ~ Filtering(r)
         /\ Filtering(r) => /\ \A g \in Groups : Finds(f, g) => g \in Requested(r)
                            /\ \A g \in Groups : Misses(f, g) => g \notin Requested(r)
<1> USE Names, StoredHolds
<1>1. CASE Filtering(r)
  <2>1. f.len = Len(wanted[r]) /\ f.len > 0 /\ f.array \in Request /\ wanted[f.array] = wanted[r]
    BY <1>1 DEF Holds, LenOf, ArrayOf
  <2>2. Listed(f) = Requested(r)
    <3>1. DOMAIN wanted[r] \cap 1 .. Len(wanted[r]) = DOMAIN wanted[r]
      OBVIOUS
    <3> QED BY <1>1, <2>1, <3>1 DEF Listed, Requested
  <2>3. ~ Faults(f)
    BY <2>1, NamesAssumption DEF Faults
  <2>4. \A g \in Groups : Finds(f, g) => g \in Requested(r)
    BY <2>1, <2>2 DEF Finds
  <2>5. \A g \in Groups : Misses(f, g) => g \notin Requested(r)
    BY <2>1, <2>2 DEF Misses
  <2> QED BY <1>1, <2>1, <2>3, <2>4, <2>5
<1>2. CASE ~ Filtering(r)
  BY <1>2 DEF Holds, LenOf, Faults
<1> QED BY <1>1, <1>2

\* A request stores what is as good for those that agree with it.
LEMMA AgreeHolds ==
  ASSUME TypeOK, NEW r \in Request, NEW s \in Request, Agree(r, s)
  PROVE  Holds(Stored(s), r)
BY StoredHolds DEF Agree, Holds, LenOf, ArrayOf

\* Known names are those of groups.
LEMMA RequestedKnown ==
  ASSUME NEW r \in Request, Filtering(r) => Known(r)
  PROVE  Requested(r) \subseteq Groups
BY DEF Requested, Filtering, Known, Groups

-----------------------------------------------------------------------------
(* Preservation, part by part                                              *)

\* Every step keeps the types.
LEMMA TypeOKStep ==
  TypeOK /\ [Next]_vars
    => TypeOK'
<1> SUFFICES ASSUME TypeOK, [Next]_vars PROVE TypeOK'
  OBVIOUS
<1>1. Kept
  BY GivenKept
<1> USE NamesAssumption, <1>1 DEF TypeOK, Kept, Goto, Respond, given, shared, locals,
      history
<1>2. ASSUME NEW r \in Request, Handle(r) PROVE TypeOK'
  <2>1. CASE Refuse(r)
    BY <2>1 DEF Refuse
  <2>2. CASE Accept(r)
    <3>1. disturbed' \subseteq Request
      BY <2>2 DEF Accept, InFlight
    <3>2. toStore' \in [Request -> SUBSET Words]
      BY <2>2 DEF Accept
    <3> QED BY <2>2, <3>1, <3>2 DEF Accept
  <2>3. CASE WithContext(r)
    BY <2>3 DEF WithContext
  <2>4. CASE FilterTargets(r)
    <3>1. PICK S \in SUBSET Groups : todo' = [todo EXCEPT ![r] = S]
      <4>1. CASE copy[r].len = 0
        BY <2>4, <4>1 DEF FilterTargets
      <4>2. CASE copy[r].len # 0
        BY <2>4, <4>2 DEF FilterTargets
      <4> QED BY <4>1, <4>2
    <3>2. todo' \in [Request -> SUBSET Groups]
      BY <3>1
    <3> QED BY <2>4, <3>2 DEF FilterTargets
  <2>5. CASE EndCollect(r)
    BY <2>5 DEF EndCollect
  <2>6. CASE GatherRegistry(r)
    BY <2>6 DEF GatherRegistry
  <2>7. CASE Unfiltered(r)
    BY <2>7 DEF Unfiltered
  <2>8. CASE Filtered(r)
    BY <2>8 DEF Filtered
  <2>9. CASE EndSift(r)
    BY <2>9 DEF EndSift
  <2>10. CASE Fault(r)
    BY <2>10 DEF Fault
  <2>11. ASSUME NEW word \in Words, Store(r, word) PROVE TypeOK'
    <3>1. Stored(r) \in Filters
      BY StoredHolds
    <3>2. jobFilters' \in Filters
      BY <2>11, <3>1 DEF Store, Filters
    <3> QED BY <2>11, <3>2 DEF Store
  <2>12. ASSUME NEW g \in Groups, CollectHealthy(r, g) PROVE TypeOK'
    <3>1. metrics' \in [Request -> SUBSET Groups]
      <4>1. CASE metrics' = [metrics EXCEPT ![r] = @ \cup {g}]
        BY <4>1
      <4>2. CASE UNCHANGED metrics
        BY <4>2
      <4> QED BY <2>12, <4>1, <4>2 DEF CollectHealthy, MaySend
    <3>2. todo' \in [Request -> SUBSET Groups] /\ failed' \in [Request -> SUBSET Groups] /\ counted' \subseteq Groups
      BY <2>12 DEF CollectHealthy
    <3> QED BY <2>12, <3>1, <3>2 DEF CollectHealthy
  <2>13. ASSUME NEW g \in Groups, CollectFailing(r, g) PROVE TypeOK'
    <3>1. metrics' \in [Request -> SUBSET Groups]
      <4>1. CASE metrics' = [metrics EXCEPT ![r] = @ \cup {g}]
        BY <4>1
      <4>2. CASE UNCHANGED metrics
        BY <4>2
      <4> QED BY <2>13, <4>1, <4>2 DEF CollectFailing, MaySend
    <3>2. todo' \in [Request -> SUBSET Groups] /\ failed' \in [Request -> SUBSET Groups] /\ counted' \subseteq Groups
      BY <2>13 DEF CollectFailing
    <3> QED BY <2>13, <3>1, <3>2 DEF CollectFailing
  <2>14. ASSUME NEW g \in Groups, CollectDown(r, g) PROVE TypeOK'
    BY <2>14 DEF CollectDown
  <2>15. ASSUME NEW g \in Groups, SiftChild(r, g) PROVE TypeOK'
    <3>1. errors' \in [Request -> SUBSET Groups]
      <4>1. CASE errors' = [errors EXCEPT ![r] = @ \ {g}]
        BY <4>1
      <4>2. CASE UNCHANGED errors
        BY <4>2
      <4> QED BY <2>15, <4>1, <4>2 DEF SiftChild
    <3>2. todo' \in [Request -> SUBSET Groups]
      BY <2>15 DEF SiftChild
    <3> QED BY <2>15, <3>1, <3>2 DEF SiftChild
  <2> QED BY <1>2, <2>1, <2>2, <2>3, <2>4, <2>5, <2>6, <2>7, <2>8, <2>9, <2>10, <2>11,
         <2>12, <2>13, <2>14, <2>15 DEF Handle
<1>3. CASE DropErrorMetrics
  BY <1>3 DEF DropErrorMetrics
<1>4. CASE UNCHANGED vars
  BY <1>4 DEF vars
<1> QED BY <1>2, <1>3, <1>4 DEF Next

\* A request that begins disturbs those in flight with which it does not agree.
LEMMA AllAgreeStep ==
  TypeOK /\ AllAgree /\ [Next]_vars
    => AllAgree'
<1> SUFFICES ASSUME TypeOK, AllAgree, [Next]_vars PROVE AllAgree'
  OBVIOUS
<1>1. Kept
  BY GivenKept
<1> USE NamesAssumption, <1>1 DEF TypeOK, AllAgree, InFlight, Agree, Kept, Goto,
      Respond, given, shared, locals, history
<1>2. ASSUME NEW r \in Request, Handle(r) PROVE AllAgree'
  <2>1. CASE Accept(r)
    BY <2>1 DEF Accept
  <2>2. CASE Refuse(r)
    BY <2>2 DEF Refuse
  <2>3. CASE GatherRegistry(r)
    BY <2>3 DEF GatherRegistry
  <2>4. CASE Fault(r)
    <3>1. /\ pc[r] \in {"filter", "sift"} /\ pc' = [pc EXCEPT ![r] = "done"]
          /\ status' = [status EXCEPT ![r] = "aborted"]
          /\ UNCHANGED <<todo, metrics, errors, disturbed>>
      BY <2>4 DEF Fault
    <3> QED BY <3>1
  <2>5. CASE WithContext(r)
    BY <2>5 DEF WithContext
  <2>6. CASE FilterTargets(r)
    BY <2>6 DEF FilterTargets
  <2>7. CASE EndCollect(r)
    BY <2>7 DEF EndCollect
  <2>8. CASE Unfiltered(r)
    BY <2>8 DEF Unfiltered
  <2>9. CASE Filtered(r)
    BY <2>9 DEF Filtered
  <2>10. CASE EndSift(r)
    BY <2>10 DEF EndSift
  <2>11. ASSUME NEW word \in Words, Store(r, word) PROVE AllAgree'
    BY <2>11 DEF Store
  <2>12. ASSUME NEW g \in Groups, CollectHealthy(r, g) PROVE AllAgree'
    BY <2>12 DEF CollectHealthy
  <2>13. ASSUME NEW g \in Groups, CollectFailing(r, g) PROVE AllAgree'
    BY <2>13 DEF CollectFailing
  <2>14. ASSUME NEW g \in Groups, CollectDown(r, g) PROVE AllAgree'
    BY <2>14 DEF CollectDown
  <2>15. ASSUME NEW g \in Groups, SiftChild(r, g) PROVE AllAgree'
    BY <2>15 DEF SiftChild
  <2> QED BY <1>2, <2>1, <2>2, <2>3, <2>4, <2>5, <2>6, <2>7, <2>8, <2>9, <2>10, <2>11,
         <2>12, <2>13, <2>14, <2>15 DEF Handle
<1>3. CASE DropErrorMetrics
  BY <1>3 DEF DropErrorMetrics
<1>4. CASE UNCHANGED vars
  BY <1>4 DEF vars
<1> QED BY <1>2, <1>3, <1>4 DEF Next

\* Nobody stores other filters while an undisturbed request is in flight.
LEMMA StoredOwnStep ==
  TypeOK /\ AllAgree /\ StoredOwn /\ [Next]_vars
    => StoredOwn'
<1> SUFFICES ASSUME TypeOK, AllAgree, StoredOwn, [Next]_vars PROVE StoredOwn'
  OBVIOUS
<1>1. Kept
  BY GivenKept
<1> USE NamesAssumption, <1>1 DEF TypeOK, Stores, Kept, Goto, Respond, given, shared,
      locals, history
<1>5. ASSUME UNCHANGED <<jobFilters, copy>>, disturbed \subseteq disturbed',
             \A r \in Request :
               /\ pc'[r] = "store" => toStore'[r] = Words \/ (pc[r] = "store" /\ toStore'[r] = toStore[r])
               /\ pc'[r] \in Stores => pc[r] \in Stores
               /\ pc'[r] = "filter" => pc[r] = "filter"
      PROVE  StoredOwn'
  BY <1>5 DEF StoredOwn, Undisturbed, LenOf, ArrayOf, Holds, Words
<1>2. ASSUME NEW r \in Request, Handle(r) PROVE StoredOwn'
  <2>1. CASE Accept(r)
    BY <2>1, <1>5 DEF Accept, Stores
  <2>2. CASE WithContext(r)
    <3>1. /\ UNCHANGED <<jobFilters, toStore, disturbed>> /\ copy'[r] = jobFilters
          /\ \A s \in Request \ {r} : copy'[s] = copy[s]
          /\ pc' = [pc EXCEPT ![r] = "filter"] /\ pc[r] = "copy"
      BY <2>2 DEF WithContext
    <3> QED BY <3>1 DEF StoredOwn, Undisturbed, Stores, LenOf, ArrayOf, Holds
  <2>3. CASE Refuse(r)
    BY <2>3, <1>5 DEF Refuse
  <2>4. CASE FilterTargets(r)
    BY <2>4, <1>5 DEF FilterTargets
  <2>5. CASE EndCollect(r)
    BY <2>5, <1>5 DEF EndCollect
  <2>6. CASE GatherRegistry(r)
    BY <2>6, <1>5 DEF GatherRegistry, Stores
  <2>7. CASE Unfiltered(r)
    BY <2>7, <1>5 DEF Unfiltered
  <2>8. CASE Filtered(r)
    BY <2>8, <1>5 DEF Filtered
  <2>9. CASE EndSift(r)
    BY <2>9, <1>5 DEF EndSift
  <2>10. CASE Fault(r)
    BY <2>10, <1>5 DEF Fault
  <2>11. ASSUME NEW word \in Words, Store(r, word) PROVE StoredOwn'
    <3>1. /\ word = "len" => jobFilters'.len = Stored(r).len /\ jobFilters'.array = jobFilters.array
          /\ word = "array" => jobFilters'.array = Stored(r).array /\ jobFilters'.len = jobFilters.len
      BY <2>11, StoredHolds DEF Store, Filters
    <3>2. /\ toStore' = [toStore EXCEPT ![r] = @ \ {word}] /\ pc[r] = "store"
          /\ pc' = [pc EXCEPT ![r] = IF toStore'[r] = {} THEN "copy" ELSE "store"]
          /\ UNCHANGED <<copy, disturbed>>
      BY <2>11 DEF Store
    <3>3. ASSUME NEW s \in Undisturbed, pc[s] \in {"store"} \cup Stores
          PROVE  /\ word = "len" => LenOf(jobFilters', s) /\ (ArrayOf(jobFilters, s) => ArrayOf(jobFilters', s))
                 /\ word = "array" => ArrayOf(jobFilters', s) /\ (LenOf(jobFilters, s) => LenOf(jobFilters', s))
      <4>1. Agree(s, r)
        BY <3>2, <3>3 DEF AllAgree, InFlight, Undisturbed, Stores
      <4>2. Holds(Stored(r), s)
        BY <4>1, AgreeHolds DEF Undisturbed
      <4> QED BY <3>1, <4>2 DEF Holds, LenOf, ArrayOf
    <3>4. ASSUME NEW s \in Undisturbed, pc[s] = "store"
          PROVE  /\ "len" \notin toStore'[s] => LenOf(jobFilters', s)
                 /\ "array" \notin toStore'[s] => ArrayOf(jobFilters', s)
      <4>1. \A w \in Words : w \notin toStore'[s] => w = word \/ w \notin toStore[s]
        BY <3>2
      <4>2. /\ "len" \notin toStore[s] => LenOf(jobFilters, s)
            /\ "array" \notin toStore[s] => ArrayOf(jobFilters, s)
        BY <3>4 DEF StoredOwn
      <4> QED BY <3>3, <3>4, <4>1, <4>2 DEF Words
    <3>5. ASSUME NEW s \in Undisturbed, pc[s] \in Stores PROVE Holds(jobFilters', s)
      BY <3>3, <3>5 DEF Words, Holds, StoredOwn
    <3>6. ASSUME NEW s \in Undisturbed
          PROVE  /\ pc'[s] = "store" => pc[s] = "store"
                 /\ pc'[s] \in Stores => Holds(jobFilters', s)
                 /\ pc'[s] = "filter" => pc[s] = "filter"
      <4>1. pc'[s] = pc[s] \/ (s = r /\ pc'[s] \in {"store", "copy"} /\ (pc'[s] = "copy" => toStore'[s] = {}))
        BY <3>2
      <4> QED BY <3>2, <3>4, <3>5, <4>1 DEF Holds, Stores
    <3> QED BY <3>2, <3>4, <3>6 DEF StoredOwn, Undisturbed, LenOf, ArrayOf, Holds
  <2>12. ASSUME NEW g \in Groups, CollectHealthy(r, g) PROVE StoredOwn'
    BY <2>12, <1>5 DEF CollectHealthy
  <2>13. ASSUME NEW g \in Groups, CollectFailing(r, g) PROVE StoredOwn'
    BY <2>13, <1>5 DEF CollectFailing
  <2>14. ASSUME NEW g \in Groups, CollectDown(r, g) PROVE StoredOwn'
    BY <2>14, <1>5 DEF CollectDown
  <2>15. ASSUME NEW g \in Groups, SiftChild(r, g) PROVE StoredOwn'
    BY <2>15, <1>5 DEF SiftChild
  <2> QED BY <1>2, <2>1, <2>2, <2>3, <2>4, <2>5, <2>6, <2>7, <2>8, <2>9, <2>10, <2>11,
         <2>12, <2>13, <2>14, <2>15 DEF Handle
<1>3. CASE DropErrorMetrics
  BY <1>3, <1>5 DEF DropErrorMetrics
<1>4. CASE UNCHANGED vars
  BY <1>4, <1>5 DEF vars
<1> QED BY <1>2, <1>3, <1>4 DEF Next

\* SetJobFilters refuses the others.
LEMMA AcceptedStep ==
  TypeOK /\ Accepted /\ [Next]_vars
    => Accepted'
<1> SUFFICES ASSUME TypeOK, Accepted, [Next]_vars PROVE Accepted'
  OBVIOUS
<1>1. Kept
  BY GivenKept
<1> USE NamesAssumption, <1>1 DEF TypeOK, Accepted, InFlight, Kept, Goto, Respond,
      given, shared, locals, history
<1>2. ASSUME NEW r \in Request, Handle(r) PROVE Accepted'
  <2>1. CASE Accept(r)
    BY <2>1 DEF Accept
  <2>2. CASE Refuse(r)
    BY <2>2 DEF Refuse
  <2>3. CASE WithContext(r)
    BY <2>3 DEF WithContext
  <2>4. CASE FilterTargets(r)
    BY <2>4 DEF FilterTargets
  <2>5. CASE EndCollect(r)
    BY <2>5 DEF EndCollect
  <2>6. CASE GatherRegistry(r)
    BY <2>6 DEF GatherRegistry
  <2>7. CASE Unfiltered(r)
    BY <2>7 DEF Unfiltered
  <2>8. CASE Filtered(r)
    BY <2>8 DEF Filtered
  <2>9. CASE EndSift(r)
    BY <2>9 DEF EndSift
  <2>10. CASE Fault(r)
    BY <2>10 DEF Fault
  <2>11. ASSUME NEW word \in Words, Store(r, word) PROVE Accepted'
    BY <2>11 DEF Store
  <2>12. ASSUME NEW g \in Groups, CollectHealthy(r, g) PROVE Accepted'
    BY <2>12 DEF CollectHealthy
  <2>13. ASSUME NEW g \in Groups, CollectFailing(r, g) PROVE Accepted'
    BY <2>13 DEF CollectFailing
  <2>14. ASSUME NEW g \in Groups, CollectDown(r, g) PROVE Accepted'
    BY <2>14 DEF CollectDown
  <2>15. ASSUME NEW g \in Groups, SiftChild(r, g) PROVE Accepted'
    BY <2>15 DEF SiftChild
  <2> QED BY <1>2, <2>1, <2>2, <2>3, <2>4, <2>5, <2>6, <2>7, <2>8, <2>9, <2>10, <2>11,
         <2>12, <2>13, <2>14, <2>15 DEF Handle
<1>3. CASE DropErrorMetrics
  BY <1>3 DEF DropErrorMetrics
<1>4. CASE UNCHANGED vars
  BY <1>4 DEF vars
<1> QED BY <1>2, <1>3, <1>4 DEF Next

\* FilterTargets selects the jobs of the request; every named target sends a metric.
LEMMA CollectsOwnStep ==
  TypeOK /\ StoredOwn /\ Accepted /\ CollectsOwn /\ [Next]_vars
    => CollectsOwn'
<1> SUFFICES ASSUME TypeOK, StoredOwn, Accepted, CollectsOwn, [Next]_vars PROVE
      CollectsOwn'
  OBVIOUS
<1>1. Kept
  BY GivenKept
<1> USE NamesAssumption, <1>1 DEF TypeOK, CollectsOwn, HasOwnJobs, Undisturbed, Kept,
      Goto, Respond, given, shared, locals, history
<1>2. ASSUME NEW r \in Request, Handle(r) PROVE CollectsOwn'
  <2>1. CASE FilterTargets(r)
    <3>1. ASSUME r \in Undisturbed PROVE todo'[r] = Requested(r)
      <4>1. copy[r] \in Filters /\ Holds(copy[r], r) /\ (Filtering(r) => Known(r))
        BY <2>1, <3>1 DEF FilterTargets, StoredOwn, Accepted, InFlight
      <4>2. CASE Filtering(r)
        <5>1. copy[r].len # 0
          BY <4>1, <4>2, HoldsWhole
        <5>2. PICK S \in SUBSET Groups :
                /\ \A g \in Groups : IF g \in S THEN Finds(copy[r], g) ELSE Misses(copy[r], g)
                /\ todo' = [todo EXCEPT ![r] = S]
          BY <2>1, <5>1 DEF FilterTargets
        <5>3. S = Requested(r)
          <6>1. \A g \in Groups : g \in S <=> g \in Requested(r)
            BY <4>1, <4>2, <5>2, HoldsWhole
          <6>2. Requested(r) \subseteq Groups
            BY <4>1, RequestedKnown
          <6> QED BY <6>1, <6>2
        <5> QED BY <5>2, <5>3
      <4>3. CASE ~ Filtering(r)
        <5>1. copy[r].len = 0 /\ Requested(r) = Groups
          BY <4>1, <4>3, HoldsWhole DEF Requested
        <5> QED BY <2>1, <5>1 DEF FilterTargets
      <4> QED BY <4>2, <4>3
    <3>2. /\ pc[r] = "filter" /\ pc' = [pc EXCEPT ![r] = "collect"]
          /\ UNCHANGED <<metrics, disturbed>>
          /\ \A s \in Request \ {r} : todo'[s] = todo[s]
      BY <2>1 DEF FilterTargets
    <3> QED BY <3>1, <3>2
  <2>2. CASE EndCollect(r)
    <3>1. /\ pc[r] = "collect" /\ todo[r] = {}
          /\ UNCHANGED <<todo, metrics, disturbed>>
          /\ pc' = [pc EXCEPT ![r] = "registry"]
      BY <2>2 DEF EndCollect
    <3>2. metrics[r] \cup todo[r] = metrics[r]
      BY <3>1
    <3>3. \A s \in Undisturbed \ {r} : pc'[s] = pc[s] /\ metrics'[s] = metrics[s] /\ todo'[s] = todo[s]
      BY <3>1
    <3>4. ASSUME r \in Undisturbed PROVE HasOwnJobs(r)'
      <4>1. metrics[r] \subseteq Requested(r) /\ (Named => metrics[r] = Requested(r))
        BY <3>1, <3>2, <3>4
      <4>2. UNCHANGED metrics /\ Requested(r)' = Requested(r) /\ (Named' <=> Named)
        BY <3>1
      <4> QED BY <4>1, <4>2
    <3> QED BY <3>1, <3>3, <3>4
  <2>3. CASE GatherRegistry(r)
    <3>1. /\ pc[r] = "registry" /\ UNCHANGED <<todo, metrics, disturbed>>
          /\ pc'[r] \in {"test", "done"} /\ \A s \in Request \ {r} : pc'[s] = pc[s]
          /\ status'[r] \in {status[r], "500"}
          /\ \A s \in Request \ {r} : status'[s] = status[s] /\ errors'[s] = errors[s]
      BY <2>3 DEF GatherRegistry
    <3>2. ASSUME r \in Undisturbed PROVE HasOwnJobs(r)'
      BY <3>1, <3>2
    <3>3. \A s \in Request : pc'[s] \in {"idle", "store", "copy", "filter"} => metrics'[s] = {}
      BY <3>1
    <3>4. ASSUME NEW s \in Undisturbed
          PROVE  /\ pc'[s] = "collect" => s # r /\ pc[s] = "collect"
                 /\ pc'[s] \in {"registry", "test", "sift"} => HasOwnJobs(s)'
      <4>1. s = r \/ pc'[s] = pc[s]
        BY <3>1
      <4>2. UNCHANGED metrics /\ Requested(s)' = Requested(s) /\ (Named' <=> Named)
        BY <3>1
      <4> QED BY <3>1, <3>2, <4>1, <4>2
    <3> QED BY <3>1, <3>3, <3>4
  <2>4. CASE Fault(r)
    <3>1. /\ pc[r] \in {"filter", "sift"} /\ pc' = [pc EXCEPT ![r] = "done"]
          /\ status' = [status EXCEPT ![r] = "aborted"]
          /\ UNCHANGED <<todo, metrics, errors, disturbed>>
      BY <2>4 DEF Fault
    <3> QED BY <3>1
  <2>5. CASE Refuse(r)
    BY <2>5 DEF Refuse
  <2>6. CASE Accept(r)
    BY <2>6 DEF Accept
  <2>7. CASE WithContext(r)
    BY <2>7 DEF WithContext
  <2>8. CASE Unfiltered(r)
    BY <2>8 DEF Unfiltered
  <2>9. CASE Filtered(r)
    BY <2>9 DEF Filtered
  <2>10. CASE EndSift(r)
    BY <2>10 DEF EndSift
  <2>11. ASSUME NEW word \in Words, Store(r, word) PROVE CollectsOwn'
    BY <2>11 DEF Store
  <2>12. ASSUME NEW g \in Groups, CollectHealthy(r, g) PROVE CollectsOwn'
    <3>1. /\ pc[r] = "collect" /\ UNCHANGED <<pc, status, disturbed>>
          /\ g \in todo[r]
          /\ todo'[r] = todo[r] \ {g}
          /\ \A s \in Request \ {r} : metrics'[s] = metrics[s] /\ todo'[s] = todo[s]
      BY <2>12 DEF CollectHealthy, MaySend
    <3>2. metrics'[r] = metrics[r] \cup {g} \/ (~ Named /\ metrics'[r] = metrics[r])
      BY <2>12 DEF CollectHealthy, MaySend
    <3> QED BY <3>1, <3>2
  <2>13. ASSUME NEW g \in Groups, CollectFailing(r, g) PROVE CollectsOwn'
    <3>1. /\ pc[r] = "collect" /\ UNCHANGED <<pc, status, disturbed>>
          /\ g \in todo[r]
          /\ todo'[r] = todo[r] \ {g}
          /\ \A s \in Request \ {r} : metrics'[s] = metrics[s] /\ todo'[s] = todo[s]
      BY <2>13 DEF CollectFailing, MaySend
    <3>2. metrics'[r] = metrics[r] \cup {g} \/ (~ Named /\ metrics'[r] = metrics[r])
      BY <2>13 DEF CollectFailing, MaySend
    <3> QED BY <3>1, <3>2
  <2>14. ASSUME NEW g \in Groups, CollectDown(r, g) PROVE CollectsOwn'
    BY <2>14 DEF CollectDown
  <2>15. ASSUME NEW g \in Groups, SiftChild(r, g) PROVE CollectsOwn'
    BY <2>15 DEF SiftChild
  <2> QED BY <1>2, <2>1, <2>2, <2>3, <2>4, <2>5, <2>6, <2>7, <2>8, <2>9, <2>10, <2>11,
         <2>12, <2>13, <2>14, <2>15 DEF Handle
<1>3. CASE DropErrorMetrics
  BY <1>3 DEF DropErrorMetrics
<1>4. CASE UNCHANGED vars
  BY <1>4 DEF vars
<1> QED BY <1>2, <1>3, <1>4 DEF Next

\* What is dropped from scrape_errors_total is what other jobs have there.
LEMMA SiftsOwnStep ==
  TypeOK /\ StoredOwn /\ SiftsOwn /\ [Next]_vars
    => SiftsOwn'
<1> SUFFICES ASSUME TypeOK, StoredOwn, SiftsOwn, [Next]_vars PROVE SiftsOwn'
  OBVIOUS
<1>1. Kept
  BY GivenKept
<1> USE NamesAssumption, <1>1 DEF TypeOK, SiftsOwn, Undisturbed, Kept, Goto, Respond,
      given, shared, locals, history
<1>2. ASSUME NEW r \in Request, Handle(r) PROVE SiftsOwn'
  <2>1. CASE Filtered(r)
    BY <2>1 DEF Filtered
  <2>2. CASE Refuse(r)
    BY <2>2 DEF Refuse
  <2>3. CASE Accept(r)
    BY <2>3 DEF Accept
  <2>4. CASE WithContext(r)
    BY <2>4 DEF WithContext
  <2>5. CASE FilterTargets(r)
    BY <2>5 DEF FilterTargets
  <2>6. CASE EndCollect(r)
    BY <2>6 DEF EndCollect
  <2>7. CASE GatherRegistry(r)
    BY <2>7 DEF GatherRegistry
  <2>8. CASE Unfiltered(r)
    BY <2>8 DEF Unfiltered
  <2>9. CASE EndSift(r)
    BY <2>9 DEF EndSift
  <2>10. CASE Fault(r)
    BY <2>10 DEF Fault
  <2>11. ASSUME NEW word \in Words, Store(r, word) PROVE SiftsOwn'
    BY <2>11 DEF Store
  <2>12. ASSUME NEW g \in Groups, CollectHealthy(r, g) PROVE SiftsOwn'
    BY <2>12 DEF CollectHealthy
  <2>13. ASSUME NEW g \in Groups, CollectFailing(r, g) PROVE SiftsOwn'
    BY <2>13 DEF CollectFailing
  <2>14. ASSUME NEW g \in Groups, CollectDown(r, g) PROVE SiftsOwn'
    BY <2>14 DEF CollectDown
  <2>15. ASSUME NEW g \in Groups, SiftChild(r, g) PROVE SiftsOwn'
    <3>1. ASSUME r \in Undisturbed PROVE g \in Requested(r) \/ errors'[r] = errors[r] \ {g}
      <4>1. Holds(jobFilters, r)
        BY <2>15, <3>1 DEF SiftChild, StoredOwn, Stores
      <4>2. CASE Filtering(r)
        BY <2>15, <4>1, <4>2, HoldsWhole DEF SiftChild
      <4>3. CASE ~ Filtering(r)
        BY <4>3 DEF Requested
      <4> QED BY <4>2, <4>3
    <3>2. errors'[r] \subseteq errors[r]
      BY <2>15 DEF SiftChild
    <3> QED BY <2>15, <3>1, <3>2 DEF SiftChild
  <2> QED BY <1>2, <2>1, <2>2, <2>3, <2>4, <2>5, <2>6, <2>7, <2>8, <2>9, <2>10, <2>11,
         <2>12, <2>13, <2>14, <2>15 DEF Handle
<1>3. CASE DropErrorMetrics
  BY <1>3 DEF DropErrorMetrics
<1>4. CASE UNCHANGED vars
  BY <1>4 DEF vars
<1> QED BY <1>2, <1>3, <1>4 DEF Next

\* A response is the last thing.
LEMMA AnsweredStep ==
  TypeOK /\ Answered /\ [Next]_vars
    => Answered'
<1> SUFFICES ASSUME TypeOK, Answered, [Next]_vars PROVE Answered'
  OBVIOUS
<1>1. Kept
  BY GivenKept
<1> USE NamesAssumption, <1>1 DEF TypeOK, Answered, Kept, Goto, Respond, given,
      shared, locals, history
<1>2. ASSUME NEW r \in Request, Handle(r) PROVE Answered'
  <2>1. CASE GatherRegistry(r)
    BY <2>1 DEF GatherRegistry
  <2>2. CASE Fault(r)
    BY <2>2 DEF Fault
  <2>3. CASE Refuse(r)
    BY <2>3 DEF Refuse
  <2>4. CASE Accept(r)
    BY <2>4 DEF Accept
  <2>5. CASE WithContext(r)
    BY <2>5 DEF WithContext
  <2>6. CASE FilterTargets(r)
    BY <2>6 DEF FilterTargets
  <2>7. CASE EndCollect(r)
    BY <2>7 DEF EndCollect
  <2>8. CASE Unfiltered(r)
    BY <2>8 DEF Unfiltered
  <2>9. CASE Filtered(r)
    BY <2>9 DEF Filtered
  <2>10. CASE EndSift(r)
    BY <2>10 DEF EndSift
  <2>11. ASSUME NEW word \in Words, Store(r, word) PROVE Answered'
    BY <2>11 DEF Store
  <2>12. ASSUME NEW g \in Groups, CollectHealthy(r, g) PROVE Answered'
    BY <2>12 DEF CollectHealthy
  <2>13. ASSUME NEW g \in Groups, CollectFailing(r, g) PROVE Answered'
    BY <2>13 DEF CollectFailing
  <2>14. ASSUME NEW g \in Groups, CollectDown(r, g) PROVE Answered'
    BY <2>14 DEF CollectDown
  <2>15. ASSUME NEW g \in Groups, SiftChild(r, g) PROVE Answered'
    BY <2>15 DEF SiftChild
  <2> QED BY <1>2, <2>1, <2>2, <2>3, <2>4, <2>5, <2>6, <2>7, <2>8, <2>9, <2>10, <2>11,
         <2>12, <2>13, <2>14, <2>15 DEF Handle
<1>3. CASE DropErrorMetrics
  BY <1>3 DEF DropErrorMetrics
<1>4. CASE UNCHANGED vars
  BY <1>4 DEF vars
<1> QED BY <1>2, <1>3, <1>4 DEF Next

\* What has been collected is what is answered.
LEMMA OwnJobsUndisturbedStep ==
  TypeOK /\ CollectsOwn /\ Answered /\ OwnJobsUndisturbed /\ [Next]_vars
    => OwnJobsUndisturbed'
<1> SUFFICES ASSUME TypeOK, CollectsOwn, Answered, OwnJobsUndisturbed, [Next]_vars
      PROVE OwnJobsUndisturbed'
  OBVIOUS
<1>1. Kept
  BY GivenKept
<1> USE NamesAssumption, <1>1 DEF TypeOK, CollectsOwn, Answered, OwnJobsUndisturbed,
      HasOwnJobs, Undisturbed, Kept, Goto, Respond, given, shared, locals, history
<1>2. ASSUME NEW r \in Request, Handle(r) PROVE OwnJobsUndisturbed'
  <2>1. CASE GatherRegistry(r)
    <3>1. /\ pc[r] = "registry" /\ UNCHANGED <<todo, metrics, disturbed>>
          /\ pc'[r] \in {"test", "done"} /\ \A s \in Request \ {r} : pc'[s] = pc[s]
          /\ status'[r] \in {status[r], "500"}
          /\ \A s \in Request \ {r} : status'[s] = status[s] /\ errors'[s] = errors[s]
      BY <2>1 DEF GatherRegistry
    <3>2. \A s \in Request : status'[s] = "200" => s # r /\ status[s] = "200"
      BY <3>1
    <3> QED BY <3>1, <3>2
  <2>2. CASE Fault(r)
    <3>1. /\ pc[r] \in {"filter", "sift"} /\ pc' = [pc EXCEPT ![r] = "done"]
          /\ status' = [status EXCEPT ![r] = "aborted"]
          /\ UNCHANGED <<todo, metrics, errors, disturbed>>
      BY <2>2 DEF Fault
    <3> QED BY <3>1
  <2>3. CASE Unfiltered(r)
    BY <2>3 DEF Unfiltered
  <2>4. CASE EndSift(r)
    BY <2>4 DEF EndSift
  <2>5. CASE Refuse(r)
    BY <2>5 DEF Refuse
  <2>6. CASE Accept(r)
    BY <2>6 DEF Accept
  <2>7. CASE WithContext(r)
    BY <2>7 DEF WithContext
  <2>8. CASE FilterTargets(r)
    BY <2>8 DEF FilterTargets
  <2>9. CASE EndCollect(r)
    BY <2>9 DEF EndCollect
  <2>10. CASE Filtered(r)
    BY <2>10 DEF Filtered
  <2>11. ASSUME NEW word \in Words, Store(r, word) PROVE OwnJobsUndisturbed'
    BY <2>11 DEF Store
  <2>12. ASSUME NEW g \in Groups, CollectHealthy(r, g) PROVE OwnJobsUndisturbed'
    <3>1. /\ pc[r] = "collect" /\ UNCHANGED <<pc, status, disturbed>>
          /\ g \in todo[r]
          /\ todo'[r] = todo[r] \ {g}
          /\ \A s \in Request \ {r} : metrics'[s] = metrics[s] /\ todo'[s] = todo[s]
      BY <2>12 DEF CollectHealthy, MaySend
    <3>2. \A s \in Request : status'[s] = "200" => s # r /\ status[s] = "200"
      BY <3>1
    <3> QED BY <3>1, <3>2
  <2>13. ASSUME NEW g \in Groups, CollectFailing(r, g) PROVE OwnJobsUndisturbed'
    <3>1. /\ pc[r] = "collect" /\ UNCHANGED <<pc, status, disturbed>>
          /\ g \in todo[r]
          /\ todo'[r] = todo[r] \ {g}
          /\ \A s \in Request \ {r} : metrics'[s] = metrics[s] /\ todo'[s] = todo[s]
      BY <2>13 DEF CollectFailing, MaySend
    <3>2. \A s \in Request : status'[s] = "200" => s # r /\ status[s] = "200"
      BY <3>1
    <3> QED BY <3>1, <3>2
  <2>14. ASSUME NEW g \in Groups, CollectDown(r, g) PROVE OwnJobsUndisturbed'
    BY <2>14 DEF CollectDown
  <2>15. ASSUME NEW g \in Groups, SiftChild(r, g) PROVE OwnJobsUndisturbed'
    BY <2>15 DEF SiftChild
  <2> QED BY <1>2, <2>1, <2>2, <2>3, <2>4, <2>5, <2>6, <2>7, <2>8, <2>9, <2>10, <2>11,
         <2>12, <2>13, <2>14, <2>15 DEF Handle
<1>3. CASE DropErrorMetrics
  BY <1>3 DEF DropErrorMetrics
<1>4. CASE UNCHANGED vars
  BY <1>4 DEF vars
<1> QED BY <1>2, <1>3, <1>4 DEF Next

\* Scrape errors are sifted to the end, or nobody asked for it.
LEMMA OwnErrorsUndisturbedStep ==
  TypeOK /\ StoredOwn /\ Answered /\ SiftsOwn /\ OwnErrorsUndisturbed /\ [Next]_vars
    => OwnErrorsUndisturbed'
<1> SUFFICES ASSUME TypeOK, StoredOwn, Answered, SiftsOwn, OwnErrorsUndisturbed,
      [Next]_vars PROVE OwnErrorsUndisturbed'
  OBVIOUS
<1>1. Kept
  BY GivenKept
<1> USE NamesAssumption, <1>1 DEF TypeOK, Answered, OwnErrorsUndisturbed, Undisturbed,
      Kept, Goto, Respond, given, shared, locals, history
<1>2. ASSUME NEW r \in Request, Handle(r) PROVE OwnErrorsUndisturbed'
  <2>1. CASE Unfiltered(r)
    <3>1. ASSUME r \in Undisturbed PROVE Requested(r) = Groups
      <4>1. Holds(jobFilters, r) /\ jobFilters.len = 0
        BY <2>1, <3>1 DEF Unfiltered, StoredOwn, Stores
      <4> QED BY <4>1, HoldsWhole DEF Requested
    <3> QED BY <2>1, <3>1 DEF Unfiltered
  <2>2. CASE EndSift(r)
    BY <2>2 DEF EndSift, SiftsOwn
  <2>3. CASE GatherRegistry(r)
    <3>1. /\ pc[r] = "registry" /\ UNCHANGED <<todo, metrics, disturbed>>
          /\ pc'[r] \in {"test", "done"} /\ \A s \in Request \ {r} : pc'[s] = pc[s]
          /\ status'[r] \in {status[r], "500"}
          /\ \A s \in Request \ {r} : status'[s] = status[s] /\ errors'[s] = errors[s]
      BY <2>3 DEF GatherRegistry
    <3>2. \A s \in Request : status'[s] = "200" => s # r /\ status[s] = "200"
      BY <3>1
    <3> QED BY <3>1, <3>2
  <2>4. CASE Fault(r)
    <3>1. /\ pc[r] \in {"filter", "sift"} /\ pc' = [pc EXCEPT ![r] = "done"]
          /\ status' = [status EXCEPT ![r] = "aborted"]
          /\ UNCHANGED <<todo, metrics, errors, disturbed>>
      BY <2>4 DEF Fault
    <3> QED BY <3>1
  <2>5. CASE Refuse(r)
    BY <2>5 DEF Refuse
  <2>6. CASE Accept(r)
    BY <2>6 DEF Accept
  <2>7. CASE WithContext(r)
    BY <2>7 DEF WithContext
  <2>8. CASE FilterTargets(r)
    BY <2>8 DEF FilterTargets
  <2>9. CASE EndCollect(r)
    BY <2>9 DEF EndCollect
  <2>10. CASE Filtered(r)
    BY <2>10 DEF Filtered
  <2>11. ASSUME NEW word \in Words, Store(r, word) PROVE OwnErrorsUndisturbed'
    BY <2>11 DEF Store
  <2>12. ASSUME NEW g \in Groups, CollectHealthy(r, g) PROVE OwnErrorsUndisturbed'
    BY <2>12 DEF CollectHealthy
  <2>13. ASSUME NEW g \in Groups, CollectFailing(r, g) PROVE OwnErrorsUndisturbed'
    BY <2>13 DEF CollectFailing
  <2>14. ASSUME NEW g \in Groups, CollectDown(r, g) PROVE OwnErrorsUndisturbed'
    BY <2>14 DEF CollectDown
  <2>15. ASSUME NEW g \in Groups, SiftChild(r, g) PROVE OwnErrorsUndisturbed'
    BY <2>15 DEF SiftChild
  <2> QED BY <1>2, <2>1, <2>2, <2>3, <2>4, <2>5, <2>6, <2>7, <2>8, <2>9, <2>10, <2>11,
         <2>12, <2>13, <2>14, <2>15 DEF Handle
<1>3. CASE DropErrorMetrics
  BY <1>3 DEF DropErrorMetrics
<1>4. CASE UNCHANGED vars
  BY <1>4 DEF vars
<1> QED BY <1>2, <1>3, <1>4 DEF Next

\* Filters of which both words are its own do not fault.
LEMMA UndisturbedNotAbortedStep ==
  TypeOK /\ StoredOwn /\ UndisturbedNotAborted /\ [Next]_vars
    => UndisturbedNotAborted'
<1> SUFFICES ASSUME TypeOK, StoredOwn, UndisturbedNotAborted, [Next]_vars PROVE
      UndisturbedNotAborted'
  OBVIOUS
<1>1. Kept
  BY GivenKept
<1> USE NamesAssumption, <1>1 DEF TypeOK, UndisturbedNotAborted, Undisturbed, Kept,
      Goto, Respond, given, shared, locals, history
<1>2. ASSUME NEW r \in Request, Handle(r) PROVE UndisturbedNotAborted'
  <2>1. CASE Fault(r)
    <3>1. r \notin Undisturbed
      <4> SUFFICES ASSUME r \in Undisturbed PROVE FALSE
        OBVIOUS
      <4>1. CASE pc[r] = "filter" /\ Faults(copy[r])
        <5>1. copy[r] \in Filters /\ Holds(copy[r], r)
          BY <4>1 DEF StoredOwn
        <5> QED BY <4>1, <5>1, HoldsWhole
      <4>2. CASE pc[r] = "sift" /\ Faults(jobFilters)
        <5>1. Holds(jobFilters, r)
          BY <4>2 DEF StoredOwn, Stores
        <5> QED BY <4>2, <5>1, HoldsWhole
      <4> QED BY <2>1, <4>1, <4>2 DEF Fault
    <3> QED BY <2>1, <3>1 DEF Fault
  <2>2. CASE GatherRegistry(r)
    BY <2>2 DEF GatherRegistry
  <2>3. CASE Refuse(r)
    BY <2>3 DEF Refuse
  <2>4. CASE Accept(r)
    BY <2>4 DEF Accept
  <2>5. CASE WithContext(r)
    BY <2>5 DEF WithContext
  <2>6. CASE FilterTargets(r)
    BY <2>6 DEF FilterTargets
  <2>7. CASE EndCollect(r)
    BY <2>7 DEF EndCollect
  <2>8. CASE Unfiltered(r)
    BY <2>8 DEF Unfiltered
  <2>9. CASE Filtered(r)
    BY <2>9 DEF Filtered
  <2>10. CASE EndSift(r)
    BY <2>10 DEF EndSift
  <2>11. ASSUME NEW word \in Words, Store(r, word) PROVE UndisturbedNotAborted'
    BY <2>11 DEF Store
  <2>12. ASSUME NEW g \in Groups, CollectHealthy(r, g) PROVE UndisturbedNotAborted'
    BY <2>12 DEF CollectHealthy
  <2>13. ASSUME NEW g \in Groups, CollectFailing(r, g) PROVE UndisturbedNotAborted'
    BY <2>13 DEF CollectFailing
  <2>14. ASSUME NEW g \in Groups, CollectDown(r, g) PROVE UndisturbedNotAborted'
    BY <2>14 DEF CollectDown
  <2>15. ASSUME NEW g \in Groups, SiftChild(r, g) PROVE UndisturbedNotAborted'
    BY <2>15 DEF SiftChild
  <2> QED BY <1>2, <2>1, <2>2, <2>3, <2>4, <2>5, <2>6, <2>7, <2>8, <2>9, <2>10, <2>11,
         <2>12, <2>13, <2>14, <2>15 DEF Handle
<1>3. CASE DropErrorMetrics
  BY <1>3 DEF DropErrorMetrics
<1>4. CASE UNCHANGED vars
  BY <1>4 DEF vars
<1> QED BY <1>2, <1>3, <1>4 DEF Next

-----------------------------------------------------------------------------
(* What fails, and what requests for one job get                           *)

\* What fails is counted; the sifting keeps it, as it is of the own jobs.
FailuresCounted ==
  /\ \A r \in Request : pc[r] \in {"idle", "store", "copy", "filter"} => failed[r] = {}
  /\ \A r \in Undisturbed : failed[r] \subseteq Requested(r) /\ (pc[r] = "sift" => Filtering(r))
  /\ Named => \A r \in Undisturbed : ~ dropped[r] =>
       /\ pc[r] \in {"collect", "registry"} => failed[r] \subseteq counted
       /\ pc[r] \in {"test", "sift"} => failed[r] \subseteq errors[r]

\* Once the registry is gathered there is something to answer with.
Loud ==
  \A r \in Undisturbed :
    pc[r] \in {"test", "sift"} /\ failed[r] # {} => metrics[r] # {} \/ errors[r] # {}

\* The array of f, if any, is that of a request for jobs that exist.
AskedBy(f) == f.array # Nil => Filtering(f.array) /\ Known(f.array)

\* As long as every request names jobs, a length of 0 is that before the first.
Asked ==
  /\ AskedBy(jobFilters) /\ \A r \in Request : AskedBy(copy[r])
  /\ (\A s \in Request : Filtering(s)) =>
       \A r \in Request :
         /\ pc[r] = "store" /\ "len" \notin toStore[r] => jobFilters.len # 0
         /\ pc[r] = "copy" => jobFilters.len # 0
         /\ pc[r] = "filter" => copy[r].len # 0

\* What the words of some requests let through.
Someones(S) == \E s, q \in Request : Mixed(s, q, S)

\* What a request has collected and still has to.
CollectsSomeones ==
  Named =>
    \A r \in Request :
      /\ pc[r] = "collect" => Someones(metrics[r] \cup todo[r])
      /\ pc[r] \in {"registry", "test", "sift"} => Someones(metrics[r])

GetsSomeones == Named => \A r \in Request : status[r] = "200" => Someones(metrics[r])

FInv == FailuresCounted /\ Loud /\ Asked /\ CollectsSomeones /\ FailuresReported /\ GetsSomeones

\* A target that fails is counted before it is done; a drop of the counter shows in dropped.
LEMMA FailuresCountedStep ==
  TypeOK /\ StoredOwn /\ CollectsOwn /\ FailuresCounted /\ [Next]_vars
    => FailuresCounted'
<1> SUFFICES ASSUME TypeOK, StoredOwn, CollectsOwn, FailuresCounted, [Next]_vars
             PROVE  FailuresCounted'
  OBVIOUS
<1>1. Kept
  BY GivenKept
<1>0. /\ pc \in [Request -> {"idle", "store", "copy", "filter", "collect", "registry", "test", "sift", "done"}]
      /\ failed \in [Request -> SUBSET Groups] /\ errors \in [Request -> SUBSET Groups]
      /\ todo \in [Request -> SUBSET Groups] /\ dropped \in [Request -> BOOLEAN]
      /\ \A r \in Request : Requested(r)' = Requested(r) /\ (Filtering(r)' <=> Filtering(r))
      /\ Named' <=> Named
  BY <1>1 DEF TypeOK, Kept
<1> USE <1>0 DEF FailuresCounted, Undisturbed, Goto, Respond, given, shared, locals,
      history
<1>2. ASSUME NEW r \in Request, Handle(r) PROVE FailuresCounted'
  <2>1. CASE Refuse(r)
    BY <2>1 DEF Refuse
  <2>2. CASE Accept(r)
    BY <2>2 DEF Accept
  <2>3. CASE WithContext(r)
    BY <2>3 DEF WithContext
  <2>4. CASE FilterTargets(r)
    BY <2>4 DEF FilterTargets
  <2>5. CASE EndCollect(r)
    BY <2>5 DEF EndCollect
  <2>6. CASE GatherRegistry(r)
    <3>1. /\ pc[r] = "registry" /\ errors'[r] = counted /\ pc'[r] \in {"test", "done"}
          /\ UNCHANGED <<failed, counted, dropped, disturbed>>
          /\ \A s \in Request \ {r} : pc'[s] = pc[s] /\ errors'[s] = errors[s]
      BY <2>6 DEF GatherRegistry
    <3> QED BY <3>1
  <2>7. CASE Unfiltered(r)
    BY <2>7 DEF Unfiltered
  <2>8. CASE Filtered(r)
    <3>1. /\ pc[r] = "test" /\ pc' = [pc EXCEPT ![r] = "sift"] /\ jobFilters.len > 0
          /\ UNCHANGED <<failed, counted, errors, dropped, disturbed>>
      BY <2>8 DEF Filtered
    <3>2. ASSUME r \in Undisturbed PROVE Filtering(r)
      <4>1. jobFilters \in Filters /\ Holds(jobFilters, r)
        BY <3>1, <3>2 DEF StoredOwn, Stores, TypeOK
      <4>2. jobFilters.len = 0 <=> ~ Filtering(r)
        BY <4>1, HoldsWhole
      <4> QED BY <3>1, <4>2
    <3> QED BY <3>1, <3>2
  <2>9. CASE EndSift(r)
    BY <2>9 DEF EndSift
  <2>10. CASE Fault(r)
    BY <2>10 DEF Fault
  <2>11. ASSUME NEW word \in Words, Store(r, word) PROVE FailuresCounted'
    BY <2>11 DEF Store
  <2>12. ASSUME NEW g \in Groups, CollectHealthy(r, g) PROVE FailuresCounted'
    BY <2>12 DEF CollectHealthy, MaySend
  <2>13. ASSUME NEW g \in Groups, CollectFailing(r, g) PROVE FailuresCounted'
    <3>1. /\ pc[r] = "collect" /\ UNCHANGED <<pc, errors, dropped, disturbed>>
          /\ g \in todo[r] /\ failed'[r] = failed[r] \cup {g}
          /\ counted \subseteq counted' /\ (Named => g \in counted')
          /\ \A s \in Request \ {r} : failed'[s] = failed[s]
      BY <2>13 DEF CollectFailing
    <3>2. r \in Undisturbed => g \in Requested(r)
      BY <3>1 DEF CollectsOwn
    <3> QED BY <3>1, <3>2
  <2>14. ASSUME NEW g \in Groups, CollectDown(r, g) PROVE FailuresCounted'
    <3>1. /\ pc[r] = "collect" /\ UNCHANGED <<pc, errors, dropped, disturbed>>
          /\ g \in todo[r] /\ failed'[r] = failed[r] \cup {g}
          /\ counted \subseteq counted' /\ (Named => g \in counted')
          /\ \A s \in Request \ {r} : failed'[s] = failed[s]
      BY <2>14 DEF CollectDown
    <3>2. r \in Undisturbed => g \in Requested(r)
      BY <3>1 DEF CollectsOwn
    <3> QED BY <3>1, <3>2
  <2>15. ASSUME NEW g \in Groups, SiftChild(r, g) PROVE FailuresCounted'
    <3>1. /\ pc[r] = "sift" /\ UNCHANGED <<pc, failed, counted, dropped, disturbed>>
          /\ errors'[r] = errors[r] \/ (errors'[r] = errors[r] \ {g} /\ Misses(jobFilters, g))
          /\ \A s \in Request \ {r} : errors'[s] = errors[s]
      BY <2>15 DEF SiftChild
    <3>2. ASSUME r \in Undisturbed PROVE Misses(jobFilters, g) => g \notin failed[r]
      <4>1. jobFilters \in Filters /\ Holds(jobFilters, r) /\ Filtering(r)
        BY <3>1, <3>2 DEF StoredOwn, Stores, TypeOK
      <4>2. Misses(jobFilters, g) => g \notin Requested(r)
        BY <4>1, HoldsWhole
      <4> QED BY <3>2, <4>2
    <3> QED BY <3>1, <3>2
  <2> QED BY <1>2, <2>1, <2>2, <2>3, <2>4, <2>5, <2>6, <2>7, <2>8, <2>9, <2>10, <2>11,
         <2>12, <2>13, <2>14, <2>15 DEF Handle
<1>3. CASE DropErrorMetrics
  <2>1. /\ UNCHANGED <<failed, errors, pc, disturbed>>
        /\ \A r \in Request : ~ dropped'[r] => ~ dropped[r] /\ pc[r] \in {"idle", "done"}
    BY <1>3 DEF DropErrorMetrics, InFlight
  <2> QED BY <2>1
<1>4. CASE UNCHANGED vars
  BY <1>4 DEF vars
<1> QED BY <1>2, <1>3, <1>4 DEF Next

\* GatherRegistry answers with 500 when there is nothing.
LEMMA LoudStep ==
  TypeOK /\ CollectsOwn /\ FailuresCounted /\ Loud /\ [Next]_vars
    => Loud'
<1> SUFFICES ASSUME TypeOK, CollectsOwn, FailuresCounted, Loud, [Next]_vars
             PROVE  Loud'
  OBVIOUS
<1>1. Kept
  BY GivenKept
<1> USE NamesAssumption, <1>1 DEF TypeOK, Loud, Undisturbed, Kept, Goto, Respond, given,
      shared, locals, history
<1>2. ASSUME NEW r \in Request, Handle(r) PROVE Loud'
  <2>1. CASE Refuse(r)
    BY <2>1 DEF Refuse
  <2>2. CASE Accept(r)
    BY <2>2 DEF Accept
  <2>3. CASE WithContext(r)
    BY <2>3 DEF WithContext
  <2>4. CASE FilterTargets(r)
    BY <2>4 DEF FilterTargets
  <2>5. CASE EndCollect(r)
    BY <2>5 DEF EndCollect
  <2>6. CASE GatherRegistry(r)
    <3>1. /\ pc[r] = "registry" /\ errors'[r] = counted
          /\ metrics[r] = {} /\ counted = {} /\ failed[r] # {} => pc'[r] = "done"
          /\ UNCHANGED <<failed, metrics, disturbed>>
          /\ \A s \in Request \ {r} : pc'[s] = pc[s] /\ errors'[s] = errors[s]
      BY <2>6 DEF GatherRegistry
    <3> QED BY <3>1
  <2>7. CASE Unfiltered(r)
    BY <2>7 DEF Unfiltered
  <2>8. CASE Filtered(r)
    BY <2>8 DEF Filtered
  <2>9. CASE EndSift(r)
    BY <2>9 DEF EndSift
  <2>10. CASE Fault(r)
    BY <2>10 DEF Fault
  <2>11. ASSUME NEW word \in Words, Store(r, word) PROVE Loud'
    BY <2>11 DEF Store
  <2>12. ASSUME NEW g \in Groups, CollectHealthy(r, g) PROVE Loud'
    BY <2>12 DEF CollectHealthy, MaySend
  <2>13. ASSUME NEW g \in Groups, CollectFailing(r, g) PROVE Loud'
    BY <2>13 DEF CollectFailing, MaySend
  <2>14. ASSUME NEW g \in Groups, CollectDown(r, g) PROVE Loud'
    BY <2>14 DEF CollectDown
  <2>15. ASSUME NEW g \in Groups, SiftChild(r, g) PROVE Loud'
    <3>1. /\ pc[r] = "sift" /\ UNCHANGED <<pc, failed, metrics, disturbed>>
          /\ \A s \in Request \ {r} : errors'[s] = errors[s]
      BY <2>15 DEF SiftChild
    <3>2. ASSUME r \in Undisturbed, failed[r] # {} PROVE metrics[r] # {}
      <4>1. Filtering(r) /\ failed[r] \subseteq Requested(r) /\ HasOwnJobs(r)
        BY <3>1, <3>2 DEF FailuresCounted, CollectsOwn
      <4> QED BY <3>2, <4>1 DEF HasOwnJobs, Filtering, Named
    <3> QED BY <3>1, <3>2
  <2> QED BY <1>2, <2>1, <2>2, <2>3, <2>4, <2>5, <2>6, <2>7, <2>8, <2>9, <2>10, <2>11,
         <2>12, <2>13, <2>14, <2>15 DEF Handle
<1>3. CASE DropErrorMetrics
  BY <1>3 DEF DropErrorMetrics
<1>4. CASE UNCHANGED vars
  BY <1>4 DEF vars
<1> QED BY <1>2, <1>3, <1>4 DEF Next

\* What is there after the sifting is the answer.
LEMMA FailuresReportedStep ==
  TypeOK /\ Answered /\ FailuresCounted /\ Loud /\ FailuresReported /\ [Next]_vars
    => FailuresReported'
<1> SUFFICES ASSUME TypeOK, Answered, FailuresCounted, Loud, FailuresReported, [Next]_vars
             PROVE  FailuresReported'
  OBVIOUS
<1>1. Kept
  BY GivenKept
<1> USE NamesAssumption, <1>1 DEF TypeOK, FailuresReported, ErrorsReported,
      NoSilentFailure, Undisturbed, Kept, Goto, Respond, given, shared, locals, history
<1>2. ASSUME NEW r \in Request, Handle(r) PROVE FailuresReported'
  <2>1. CASE Refuse(r)
    BY <2>1 DEF Refuse
  <2>2. CASE Accept(r)
    BY <2>2 DEF Accept
  <2>3. CASE WithContext(r)
    BY <2>3 DEF WithContext
  <2>4. CASE FilterTargets(r)
    BY <2>4 DEF FilterTargets
  <2>5. CASE EndCollect(r)
    BY <2>5 DEF EndCollect
  <2>6. CASE GatherRegistry(r)
    <3>1. /\ pc[r] = "registry" /\ status[r] = "none" /\ status'[r] \in {"none", "500"}
          /\ UNCHANGED <<metrics, failed, dropped, disturbed>>
          /\ \A s \in Request \ {r} : status'[s] = status[s] /\ errors'[s] = errors[s]
      BY <2>6 DEF GatherRegistry, Answered
    <3> QED BY <3>1
  <2>7. CASE Unfiltered(r)
    <3>1. /\ pc[r] = "test" /\ UNCHANGED <<metrics, failed, errors, dropped, disturbed>>
          /\ \A s \in Request \ {r} : status'[s] = status[s]
      BY <2>7 DEF Unfiltered
    <3> QED BY <3>1 DEF FailuresCounted, Loud
  <2>8. CASE Filtered(r)
    BY <2>8 DEF Filtered
  <2>9. CASE EndSift(r)
    <3>1. /\ pc[r] = "sift" /\ UNCHANGED <<metrics, failed, errors, dropped, disturbed>>
          /\ \A s \in Request \ {r} : status'[s] = status[s]
      BY <2>9 DEF EndSift
    <3> QED BY <3>1 DEF FailuresCounted, Loud
  <2>10. CASE Fault(r)
    BY <2>10 DEF Fault
  <2>11. ASSUME NEW word \in Words, Store(r, word) PROVE FailuresReported'
    BY <2>11 DEF Store
  <2>12. ASSUME NEW g \in Groups, CollectHealthy(r, g) PROVE FailuresReported'
    <3>1. /\ pc[r] # "done" /\ status[r] = "none" /\ status'[r] = status[r]
          /\ \A s \in Request \ {r} : status'[s] = status[s] /\ metrics'[s] = metrics[s]
                                      /\ failed'[s] = failed[s] /\ errors'[s] = errors[s]
          /\ UNCHANGED <<dropped, disturbed>>
      BY <2>12 DEF CollectHealthy, MaySend, Answered
    <3> QED BY <3>1
  <2>13. ASSUME NEW g \in Groups, CollectFailing(r, g) PROVE FailuresReported'
    <3>1. /\ pc[r] # "done" /\ status[r] = "none" /\ status'[r] = status[r]
          /\ \A s \in Request \ {r} : status'[s] = status[s] /\ metrics'[s] = metrics[s]
                                      /\ failed'[s] = failed[s] /\ errors'[s] = errors[s]
          /\ UNCHANGED <<dropped, disturbed>>
      BY <2>13 DEF CollectFailing, MaySend, Answered
    <3> QED BY <3>1
  <2>14. ASSUME NEW g \in Groups, CollectDown(r, g) PROVE FailuresReported'
    <3>1. /\ pc[r] # "done" /\ status[r] = "none" /\ status'[r] = status[r]
          /\ \A s \in Request \ {r} : status'[s] = status[s] /\ metrics'[s] = metrics[s]
                                      /\ failed'[s] = failed[s] /\ errors'[s] = errors[s]
          /\ UNCHANGED <<dropped, disturbed>>
      BY <2>14 DEF CollectDown, MaySend, Answered
    <3> QED BY <3>1
  <2>15. ASSUME NEW g \in Groups, SiftChild(r, g) PROVE FailuresReported'
    <3>1. /\ pc[r] # "done" /\ status[r] = "none" /\ status'[r] = status[r]
          /\ \A s \in Request \ {r} : status'[s] = status[s] /\ metrics'[s] = metrics[s]
                                      /\ failed'[s] = failed[s] /\ errors'[s] = errors[s]
          /\ UNCHANGED <<dropped, disturbed>>
      BY <2>15 DEF SiftChild, MaySend, Answered
    <3> QED BY <3>1
  <2> QED BY <1>2, <2>1, <2>2, <2>3, <2>4, <2>5, <2>6, <2>7, <2>8, <2>9, <2>10, <2>11,
         <2>12, <2>13, <2>14, <2>15 DEF Handle
<1>3. CASE DropErrorMetrics
  <2>1. /\ UNCHANGED <<status, metrics, failed, errors, disturbed>>
        /\ \A r \in Request : ~ dropped'[r] => ~ dropped[r]
    BY <1>3 DEF DropErrorMetrics
  <2> QED BY <2>1
<1>4. CASE UNCHANGED vars
  BY <1>4 DEF vars
<1> QED BY <1>2, <1>3, <1>4 DEF Next

\* Only SetJobFilters stores, and a request whose names are known.
LEMMA AskedStep ==
  TypeOK /\ Accepted /\ Asked /\ [Next]_vars
    => Asked'
<1> SUFFICES ASSUME TypeOK, Accepted, Asked, [Next]_vars
             PROVE  Asked'
  OBVIOUS
<1>1. Kept
  BY GivenKept
<1> USE NamesAssumption, <1>1 DEF TypeOK, Asked, AskedBy, Kept, Goto, Respond, given,
      shared, locals, history
<1>5. /\ jobFilters.array \in Request \cup {Nil} /\ \A r \in Request : copy[r].array \in Request \cup {Nil}
      /\ \A f \in Filters : f.array # Nil => (Filtering(f.array)' <=> Filtering(f.array)) /\ (Known(f.array)' <=> Known(f.array))
      /\ (\A s \in Request : Filtering(s))' <=> \A s \in Request : Filtering(s)
  BY DEF Filters
<1>2. ASSUME NEW r \in Request, Handle(r) PROVE Asked'
  <2>1. CASE Refuse(r)
    BY <2>1, <1>5 DEF Refuse
  <2>2. CASE Accept(r)
    <3>1. /\ UNCHANGED <<jobFilters, copy>> /\ pc' = [pc EXCEPT ![r] = "store"]
          /\ toStore' = [toStore EXCEPT ![r] = Words]
      BY <2>2 DEF Accept
    <3> QED BY <3>1, <1>5 DEF Words
  <2>3. CASE WithContext(r)
    <3>1. /\ UNCHANGED <<jobFilters, toStore>> /\ copy' = [copy EXCEPT ![r] = jobFilters]
          /\ pc' = [pc EXCEPT ![r] = "filter"] /\ pc[r] = "copy"
      BY <2>3 DEF WithContext
    <3> QED BY <3>1, <1>5
  <2>4. CASE FilterTargets(r)
    BY <2>4, <1>5 DEF FilterTargets
  <2>5. CASE EndCollect(r)
    BY <2>5, <1>5 DEF EndCollect
  <2>6. CASE GatherRegistry(r)
    BY <2>6, <1>5 DEF GatherRegistry
  <2>7. CASE Unfiltered(r)
    BY <2>7, <1>5 DEF Unfiltered
  <2>8. CASE Filtered(r)
    BY <2>8, <1>5 DEF Filtered
  <2>9. CASE EndSift(r)
    BY <2>9, <1>5 DEF EndSift
  <2>10. CASE Fault(r)
    BY <2>10, <1>5 DEF Fault
  <2>11. ASSUME NEW word \in Words, Store(r, word) PROVE Asked'
    <3>a. /\ pc[r] = "store" /\ word \in toStore[r] /\ UNCHANGED copy
          /\ toStore'[r] = toStore[r] \ {word}
          /\ pc'[r] = IF toStore'[r] = {} THEN "copy" ELSE "store"
          /\ \A s \in Request \ {r} : toStore'[s] = toStore[s] /\ pc'[s] = pc[s]
      BY <2>11 DEF Store
    <3>b. jobFilters = [array |-> jobFilters.array, len |-> jobFilters.len]
      BY DEF Filters
    <3>c. /\ word = "len" => jobFilters'.len = Stored(r).len /\ jobFilters'.array = jobFilters.array
          /\ word = "array" => jobFilters'.array = Stored(r).array /\ jobFilters'.len = jobFilters.len
      BY <2>11, <3>b DEF Store
    <3>1. /\ pc[r] = "store" /\ word \in toStore[r] /\ UNCHANGED copy
          /\ toStore'[r] = toStore[r] \ {word} /\ (pc'[r] = "copy" => toStore'[r] = {}) /\ pc'[r] # "filter"
          /\ \A s \in Request \ {r} : toStore'[s] = toStore[s] /\ pc'[s] = pc[s]
          /\ word = "len" => jobFilters'.len = Stored(r).len /\ jobFilters'.array = jobFilters.array
          /\ word = "array" => jobFilters'.array = Stored(r).array /\ jobFilters'.len = jobFilters.len
      BY <3>a, <3>c
    <3>2. Filtering(r) => Known(r)
      BY <3>1 DEF Accepted, InFlight
    <3>3. /\ Stored(r).array # Nil => Stored(r).array = r /\ Filtering(r)
          /\ Filtering(r) => Stored(r).len # 0
      BY StoredHolds DEF Stored, NoFilters
    <3>4. jobFilters'.array # Nil => jobFilters'.array \in Request /\ Filtering(jobFilters'.array) /\ Known(jobFilters'.array)
      BY <3>1, <3>2, <3>3, <1>5 DEF Words
    <3>5. AskedBy(jobFilters') /\ AskedBy(jobFilters)'
      BY <3>4
    <3>6. \A s \in Request : AskedBy(copy[s])'
      BY <3>1, <1>5
    <3>7. ASSUME \A s \in Request : Filtering(s), NEW s \in Request
          PROVE  /\ pc'[s] = "store" /\ "len" \notin toStore'[s] => jobFilters'.len # 0
                 /\ pc'[s] = "copy" => jobFilters'.len # 0
                 /\ pc'[s] = "filter" => copy'[s].len # 0
      <4>1. CASE word = "len"
        BY <3>1, <3>3, <3>7, <4>1
      <4>2. CASE word = "array"
        <5>1. jobFilters'.len = jobFilters.len
          BY <3>1, <4>2
        <5>2. CASE s = r
          <6>1. toStore'[r] = toStore[r] \ {"array"} /\ (pc'[r] = "copy" => toStore'[r] = {})
            BY <3>1, <4>2
          <6>2. ("len" \notin toStore'[r] => "len" \notin toStore[r]) /\ (pc'[r] = "copy" => "len" \notin toStore[r])
            BY <6>1
          <6> QED BY <3>1, <3>7, <5>1, <5>2, <6>1, <6>2
        <5>3. CASE s # r
          BY <3>1, <3>7, <5>1, <5>3
        <5> QED BY <5>2, <5>3
      <4> QED BY <4>1, <4>2 DEF Words
    <3>8. (\A s \in Request : Filtering(s))' => \A s \in Request : Filtering(s)
      OBVIOUS
    <3> QED BY <3>5, <3>6, <3>7, <3>8
  <2>12. ASSUME NEW g \in Groups, CollectHealthy(r, g) PROVE Asked'
    BY <2>12, <1>5 DEF CollectHealthy, MaySend
  <2>13. ASSUME NEW g \in Groups, CollectFailing(r, g) PROVE Asked'
    BY <2>13, <1>5 DEF CollectFailing, MaySend
  <2>14. ASSUME NEW g \in Groups, CollectDown(r, g) PROVE Asked'
    BY <2>14, <1>5 DEF CollectDown
  <2>15. ASSUME NEW g \in Groups, SiftChild(r, g) PROVE Asked'
    BY <2>15, <1>5 DEF SiftChild
  <2> QED BY <1>2, <2>1, <2>2, <2>3, <2>4, <2>5, <2>6, <2>7, <2>8, <2>9, <2>10, <2>11,
         <2>12, <2>13, <2>14, <2>15 DEF Handle
<1>3. CASE DropErrorMetrics
  BY <1>3, <1>5 DEF DropErrorMetrics
<1>4. CASE UNCHANGED vars
  BY <1>4, <1>5 DEF vars
<1> QED BY <1>2, <1>3, <1>4 DEF Next

\* What the requests let through does not change either.
LEMMA SomeonesKept ==
  ASSUME Kept
  PROVE  \A S : Someones(S)' <=> Someones(S)
<1> SUFFICES ASSUME NEW CONSTANT S PROVE Someones(S)' <=> Someones(S)
  OBVIOUS
<1>1. wanted' = wanted /\ Groups' = Groups
  BY DEF Kept, given
<1>2. ASSUME NEW s \in Request, NEW q \in Request PROVE Mixed(s, q, S)' <=> Mixed(s, q, S)
  BY <1>1 DEF Kept, Mixed
<1> QED BY <1>2 DEF Someones

\* A length takes the first names of whichever array it meets.
LEMMA CollectsSomeonesStep ==
  TypeOK /\ CollectsOwn /\ Asked /\ CollectsSomeones /\ [Next]_vars
    => CollectsSomeones'
<1> SUFFICES ASSUME TypeOK, CollectsOwn, Asked, CollectsSomeones, [Next]_vars
             PROVE  CollectsSomeones'
  OBVIOUS
<1>1. Kept
  BY GivenKept
<1>0. /\ pc \in [Request -> {"idle", "store", "copy", "filter", "collect", "registry", "test", "sift", "done"}]
      /\ metrics \in [Request -> SUBSET Groups] /\ todo \in [Request -> SUBSET Groups]
      /\ status \in [Request -> {"none", "200", "400", "500", "aborted"}]
      /\ \A r \in Request : Requested(r)' = Requested(r)
      /\ (Named' <=> Named) /\ \A S : Someones(S)' <=> Someones(S)
  BY <1>1, SomeonesKept DEF TypeOK, Kept, given
<1> USE <1>0 DEF CollectsSomeones, Goto, Respond, given, shared, locals,
      history
<1>2. ASSUME NEW r \in Request, Handle(r) PROVE CollectsSomeones'
  <2>1. CASE Refuse(r)
    BY <2>1 DEF Refuse
  <2>2. CASE Accept(r)
    BY <2>2 DEF Accept
  <2>3. CASE WithContext(r)
    BY <2>3 DEF WithContext
  <2>4. CASE FilterTargets(r)
    <3>1. /\ pc[r] = "filter" /\ pc' = [pc EXCEPT ![r] = "collect"] /\ UNCHANGED metrics
          /\ \A s \in Request \ {r} : todo'[s] = todo[s]
      BY <2>4 DEF FilterTargets
    <3>2. metrics[r] = {}
      BY <3>1 DEF CollectsOwn
    <3>3. Someones(todo'[r])
      <4>1. CASE copy[r].len = 0
        <5>1. todo'[r] = Groups
          BY <2>4, <4>1 DEF FilterTargets
        <5>2. PICK q \in Request : ~ Filtering(q)
          BY <3>1, <4>1 DEF Asked
        <5> QED BY <5>1, <5>2 DEF Someones, Mixed
      <4>2. CASE copy[r].len # 0
        <5> USE NamesAssumption DEF TypeOK
        <5> DEFINE f == copy[r]
        <5>1. PICK S \in SUBSET Groups :
                /\ ~ Faults(f)
                /\ \A g \in Groups : IF g \in S THEN Finds(f, g) ELSE Misses(f, g)
                /\ todo' = [todo EXCEPT ![r] = S]
          BY <2>4, <4>2 DEF FilterTargets
        <5>2. f.array \in Request \cup {Nil} /\ f.len \in Nat /\ f.len > 0
          BY <4>2, Names DEF Filters
        <5>3. f.array \in Request
          BY <5>1, <5>2 DEF Faults
        <5>4. Filtering(f.array) /\ Known(f.array)
          BY <5>3 DEF Asked, AskedBy
        <5>5. PICK q \in Request : f.len = Len(wanted[q])
          BY <4>2 DEF Filters
        <5>6. Filtering(q)
          BY <5>2, <5>4, <5>5, Names DEF Filtering
        <5>7. /\ Len(wanted[f.array]) \in Nat /\ DOMAIN wanted[f.array] = 1 .. Len(wanted[f.array])
              /\ Requested(f.array) \subseteq Groups
              /\ Requested(f.array) = {wanted[f.array][i] : i \in DOMAIN wanted[f.array]}
          BY <5>3, <5>4, Names, RequestedKnown DEF Requested
        <5>8. CASE f.len <= Len(wanted[f.array])
          <6>1. DOMAIN wanted[f.array] \cap 1 .. f.len = 1 .. f.len
            BY <5>2, <5>7, <5>8
          <6>2. Listed(f) = {wanted[f.array][i] : i \in 1 .. f.len} /\ Listed(f) \subseteq Groups
            BY <5>7, <6>1 DEF Listed
          <6>3. \A g \in Groups : g \in S <=> g \in Listed(f)
            BY <5>1, <5>2, <5>7, <5>8 DEF Finds, Misses
          <6>4. S = Listed(f)
            BY <6>2, <6>3
          <6> HIDE DEF f
          <6>5. Mixed(f.array, q, S)
            BY <5>4, <5>5, <5>6, <5>8, <6>2, <6>4 DEF Mixed
          <6> QED BY <5>1, <5>3, <6>5 DEF Someones
        <5>9. CASE ~ f.len <= Len(wanted[f.array])
          <6>1. DOMAIN wanted[f.array] \cap 1 .. f.len = DOMAIN wanted[f.array]
            BY <5>2, <5>7, <5>9
          <6>2. Listed(f) = Requested(f.array)
            BY <5>7, <6>1 DEF Listed
          <6>3. \A g \in Groups : g \in Listed(f) => g \in S
            BY <5>1, <5>2 DEF Misses
          <6>4. Requested(f.array) \subseteq S
            BY <5>7, <6>2, <6>3
          <6> HIDE DEF f
          <6>5. Mixed(f.array, q, S)
            BY <5>4, <5>5, <5>6, <5>9, <6>4 DEF Mixed
          <6> QED BY <5>1, <5>3, <6>5 DEF Someones
        <5> QED BY <5>8, <5>9
      <4> QED BY <4>1, <4>2
    <3>4. Someones(metrics[r] \cup todo'[r])
      BY <3>2, <3>3
    <3>5. \A s \in Request \ {r} : pc'[s] = pc[s]
      BY <3>1
    <3>6. ASSUME Named, NEW s \in Request
          PROVE  /\ pc'[s] = "collect" => Someones(metrics[s] \cup todo'[s])
                 /\ pc'[s] \in {"registry", "test", "sift"} => Someones(metrics[s])
      <4>1. CASE s = r
        BY <3>1, <3>4, <3>6, <4>1
      <4>2. CASE s # r
        BY <3>1, <3>5, <3>6, <4>2
      <4> QED BY <4>1, <4>2
    <3> QED BY <3>1, <3>6
  <2>5. CASE EndCollect(r)
    <3>1. /\ pc[r] = "collect" /\ pc' = [pc EXCEPT ![r] = "registry"] /\ UNCHANGED <<metrics, todo>>
          /\ metrics[r] \cup todo[r] = metrics[r]
      BY <2>5 DEF EndCollect
    <3> QED BY <3>1
  <2>6. CASE GatherRegistry(r)
    <3>1. /\ pc[r] = "registry" /\ pc'[r] \in {"test", "done"} /\ UNCHANGED <<metrics, todo>>
          /\ \A s \in Request \ {r} : pc'[s] = pc[s]
      BY <2>6 DEF GatherRegistry
    <3> QED BY <3>1
  <2>7. CASE Unfiltered(r)
    BY <2>7 DEF Unfiltered
  <2>8. CASE Filtered(r)
    BY <2>8 DEF Filtered
  <2>9. CASE EndSift(r)
    BY <2>9 DEF EndSift
  <2>10. CASE Fault(r)
    <3>1. pc' = [pc EXCEPT ![r] = "done"] /\ UNCHANGED <<metrics, todo>>
      BY <2>10 DEF Fault
    <3> QED BY <3>1
  <2>11. ASSUME NEW word \in Words, Store(r, word) PROVE CollectsSomeones'
    BY <2>11 DEF Store
  <2>12. ASSUME NEW g \in Groups, CollectHealthy(r, g) PROVE CollectsSomeones'
    <3>1. /\ pc[r] = "collect" /\ UNCHANGED pc /\ g \in todo[r] /\ todo'[r] = todo[r] \ {g}
          /\ Named => metrics'[r] = metrics[r] \cup {g}
          /\ \A s \in Request \ {r} : metrics'[s] = metrics[s] /\ todo'[s] = todo[s]
      BY <2>12 DEF CollectHealthy, MaySend
    <3>2. Named => metrics'[r] \cup todo'[r] = metrics[r] \cup todo[r]
      BY <3>1
    <3> QED BY <3>1, <3>2
  <2>13. ASSUME NEW g \in Groups, CollectFailing(r, g) PROVE CollectsSomeones'
    <3>1. /\ pc[r] = "collect" /\ UNCHANGED pc /\ g \in todo[r] /\ todo'[r] = todo[r] \ {g}
          /\ Named => metrics'[r] = metrics[r] \cup {g}
          /\ \A s \in Request \ {r} : metrics'[s] = metrics[s] /\ todo'[s] = todo[s]
      BY <2>13 DEF CollectFailing, MaySend
    <3>2. Named => metrics'[r] \cup todo'[r] = metrics[r] \cup todo[r]
      BY <3>1
    <3> QED BY <3>1, <3>2
  <2>14. ASSUME NEW g \in Groups, CollectDown(r, g) PROVE CollectsSomeones'
    <3>1. /\ pc[r] = "collect" /\ UNCHANGED pc /\ g \in todo[r] /\ todo'[r] = todo[r] \ {g}
          /\ Named => metrics'[r] = metrics[r] \cup {g}
          /\ \A s \in Request \ {r} : metrics'[s] = metrics[s] /\ todo'[s] = todo[s]
      BY <2>14 DEF CollectDown, MaySend
    <3>2. Named => metrics'[r] \cup todo'[r] = metrics[r] \cup todo[r]
      BY <3>1
    <3> QED BY <3>1, <3>2
  <2>15. ASSUME NEW g \in Groups, SiftChild(r, g) PROVE CollectsSomeones'
    BY <2>15 DEF SiftChild
  <2> QED BY <1>2, <2>1, <2>2, <2>3, <2>4, <2>5, <2>6, <2>7, <2>8, <2>9, <2>10, <2>11,
         <2>12, <2>13, <2>14, <2>15 DEF Handle
<1>3. CASE DropErrorMetrics
  BY <1>3 DEF DropErrorMetrics
<1>4. CASE UNCHANGED vars
  BY <1>4 DEF vars
<1> QED BY <1>2, <1>3, <1>4 DEF Next

\* What has been collected is what is answered, here too.
LEMMA GetsSomeonesStep ==
  TypeOK /\ Answered /\ CollectsSomeones /\ GetsSomeones /\ [Next]_vars
    => GetsSomeones'
<1> SUFFICES ASSUME TypeOK, Answered, CollectsSomeones, GetsSomeones, [Next]_vars
             PROVE  GetsSomeones'
  OBVIOUS
<1>1. Kept
  BY GivenKept
<1>0. /\ pc \in [Request -> {"idle", "store", "copy", "filter", "collect", "registry", "test", "sift", "done"}]
      /\ metrics \in [Request -> SUBSET Groups] /\ todo \in [Request -> SUBSET Groups]
      /\ status \in [Request -> {"none", "200", "400", "500", "aborted"}]
      /\ \A r \in Request : Requested(r)' = Requested(r)
      /\ (Named' <=> Named) /\ \A S : Someones(S)' <=> Someones(S)
  BY <1>1, SomeonesKept DEF TypeOK, Kept, given
<1> USE <1>0 DEF GetsSomeones, Goto, Respond, given, shared, locals, history
<1>2. ASSUME NEW r \in Request, Handle(r) PROVE GetsSomeones'
  <2>1. CASE Refuse(r)
    BY <2>1 DEF Refuse
  <2>2. CASE Accept(r)
    BY <2>2 DEF Accept
  <2>3. CASE WithContext(r)
    BY <2>3 DEF WithContext
  <2>4. CASE FilterTargets(r)
    BY <2>4 DEF FilterTargets
  <2>5. CASE EndCollect(r)
    BY <2>5 DEF EndCollect
  <2>6. CASE GatherRegistry(r)
    <3>1. UNCHANGED metrics /\ \A s \in Request : status'[s] = "200" => status[s] = "200"
      BY <2>6 DEF GatherRegistry
    <3> QED BY <3>1
  <2>7. CASE Unfiltered(r)
    <3>1. /\ pc[r] \in {"test", "sift"} /\ UNCHANGED metrics
          /\ \A s \in Request \ {r} : status'[s] = status[s]
      BY <2>7 DEF Unfiltered
    <3>2. Named => Someones(metrics[r])
      BY <3>1 DEF CollectsSomeones
    <3> QED BY <3>1, <3>2
  <2>8. CASE Filtered(r)
    BY <2>8 DEF Filtered
  <2>9. CASE EndSift(r)
    <3>1. /\ pc[r] \in {"test", "sift"} /\ UNCHANGED metrics
          /\ \A s \in Request \ {r} : status'[s] = status[s]
      BY <2>9 DEF EndSift
    <3>2. Named => Someones(metrics[r])
      BY <3>1 DEF CollectsSomeones
    <3> QED BY <3>1, <3>2
  <2>10. CASE Fault(r)
    <3>1. UNCHANGED metrics /\ \A s \in Request : status'[s] = "200" => status[s] = "200"
      BY <2>10 DEF Fault
    <3> QED BY <3>1
  <2>11. ASSUME NEW word \in Words, Store(r, word) PROVE GetsSomeones'
    BY <2>11 DEF Store
  <2>12. ASSUME NEW g \in Groups, CollectHealthy(r, g) PROVE GetsSomeones'
    <3>1. /\ pc[r] = "collect" /\ status[r] = "none" /\ UNCHANGED status
          /\ \A s \in Request \ {r} : metrics'[s] = metrics[s]
      BY <2>12 DEF CollectHealthy, MaySend, Answered
    <3> QED BY <3>1
  <2>13. ASSUME NEW g \in Groups, CollectFailing(r, g) PROVE GetsSomeones'
    <3>1. /\ pc[r] = "collect" /\ status[r] = "none" /\ UNCHANGED status
          /\ \A s \in Request \ {r} : metrics'[s] = metrics[s]
      BY <2>13 DEF CollectFailing, MaySend, Answered
    <3> QED BY <3>1
  <2>14. ASSUME NEW g \in Groups, CollectDown(r, g) PROVE GetsSomeones'
    <3>1. /\ pc[r] = "collect" /\ status[r] = "none" /\ UNCHANGED status
          /\ \A s \in Request \ {r} : metrics'[s] = metrics[s]
      BY <2>14 DEF CollectDown, MaySend, Answered
    <3> QED BY <3>1
  <2>15. ASSUME NEW g \in Groups, SiftChild(r, g) PROVE GetsSomeones'
    BY <2>15 DEF SiftChild
  <2> QED BY <1>2, <2>1, <2>2, <2>3, <2>4, <2>5, <2>6, <2>7, <2>8, <2>9, <2>10, <2>11,
         <2>12, <2>13, <2>14, <2>15 DEF Handle
<1>3. CASE DropErrorMetrics
  BY <1>3 DEF DropErrorMetrics
<1>4. CASE UNCHANGED vars
  BY <1>4 DEF vars
<1> QED BY <1>2, <1>3, <1>4 DEF Next

-----------------------------------------------------------------------------
(* Theorems                                                                *)

LEMMA InitIInv == Init => IInv
<1> SUFFICES ASSUME Init PROVE IInv
  OBVIOUS
<1> USE DEF Init
<1>1. TypeOK
  BY DEF TypeOK, NoFilters, Filters, Groups
<1>2. AllAgree /\ StoredOwn /\ Accepted /\ CollectsOwn /\ SiftsOwn /\ Answered
  BY DEF AllAgree, StoredOwn, Accepted, CollectsOwn, SiftsOwn, Answered, InFlight, Stores, Undisturbed
<1>3. OwnJobsUndisturbed /\ OwnErrorsUndisturbed /\ UndisturbedNotAborted
  BY DEF OwnJobsUndisturbed, OwnErrorsUndisturbed, UndisturbedNotAborted
<1> QED BY <1>1, <1>2, <1>3 DEF IInv

\* The state of the handler is always of its type.
THEOREM TypeCorrect == Spec => []TypeOK
<1>1. Init => TypeOK
  BY InitIInv DEF IInv
<1> QED BY <1>1, TypeOKStep, PTL DEF Spec

LEMMA Inductive == Spec => []IInv
<1>1. IInv /\ [Next]_vars => IInv'
  BY TypeOKStep, AllAgreeStep, StoredOwnStep, AcceptedStep, CollectsOwnStep, SiftsOwnStep,
     AnsweredStep, OwnJobsUndisturbedStep, OwnErrorsUndisturbedStep,
     UndisturbedNotAbortedStep DEF IInv
<1> QED BY InitIInv, <1>1, PTL DEF Spec

\* A request that meets none for other jobs gets the metrics and the scrape
\* errors of the jobs it asks for, and never reads job filters of which only a
\* part has been stored.
THEOREM UndisturbedAnswered == Spec => []UndisturbedAnswers
<1>1. IInv => UndisturbedAnswers
  BY DEF IInv, UndisturbedAnswers
<1> QED BY <1>1, Inductive, PTL

LEMMA InitFInv == Init => FInv
<1> SUFFICES ASSUME Init PROVE FInv
  OBVIOUS
<1>1. FailuresCounted /\ Loud /\ FailuresReported /\ GetsSomeones
  BY DEF Init, FailuresCounted, Loud, FailuresReported, ErrorsReported, NoSilentFailure, GetsSomeones,
         Undisturbed
<1>2. Asked
  BY DEF Init, Asked, AskedBy, NoFilters
<1>3. CollectsSomeones
  BY DEF Init, CollectsSomeones
<1> QED BY <1>1, <1>2, <1>3 DEF FInv

LEMMA InductiveFailures == Spec => []FInv
<1>1. IInv /\ FInv /\ [Next]_vars => FInv'
  BY FailuresCountedStep, LoudStep, AskedStep, CollectsSomeonesStep, FailuresReportedStep,
     GetsSomeonesStep DEF IInv, FInv
<1> QED BY InitFInv, Inductive, <1>1, PTL DEF Spec

\* A job that failed during a request that meets none for other jobs is among
\* the scrape errors it is answered with, unless they have been dropped or the
\* job has no name, and no such request with failures is answered with nothing.
THEOREM FailuresAreReported == Spec => []FailuresReported
<1>1. FInv => FailuresReported
  BY DEF FInv
<1> QED BY <1>1, InductiveFailures, PTL

\* Whichever words of the shared slice a request reads, of whatever requests: it
\* gets the first jobs of the list of a request, as many as a request names, or
\* all jobs if a request asks for them; only a length that belongs to a longer
\* list lets through jobs that nobody asked for (promhttp.go:39, exporter.go:301).
THEOREM SomeoneAskedForIt == Spec => []SomeonesJobs
<1>1. FInv => SomeonesJobs
  BY DEF FInv, GetsSomeones, SomeonesJobs, Someones
<1> QED BY <1>1, InductiveFailures, PTL
=============================================================================
