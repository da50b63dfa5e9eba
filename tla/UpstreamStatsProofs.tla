------------------------- MODULE UpstreamStatsProofs -------------------------
(***************************************************************************)
(* For every set of tasks, readers and samples: the counters of            *)
(* UpstreamStats stay consistent under every interleaving.                 *)
(***************************************************************************)
EXTENDS UpstreamStats, FiniteSetTheorems, TLAPS

USE DEF counters, recording, reporting

\* The variables keep their types.
THEOREM Typing == Spec => []TypeOK
<1>1. Init => TypeOK
  BY DEF Init, TypeOK, Healthy
<1>2. TypeOK /\ [Next]_vars => TypeOK'
  <2> SUFFICES ASSUME TypeOK, [Next]_vars
               PROVE  TypeOK'
    OBVIOUS
  <2> USE DEF TypeOK
  <2>1. ASSUME NEW t \in Tasks, SuccessCountRequest(t)
        PROVE  TypeOK'
    BY <2>1, SamplesAssumption DEF SuccessCountRequest
  <2>2. ASSUME NEW t \in Tasks, SuccessCountResponse(t)
        PROVE  TypeOK'
    BY <2>2 DEF SuccessCountResponse
  <2>3. ASSUME NEW t \in Tasks, LoadAverage(t)
        PROVE  TypeOK'
    BY <2>3 DEF LoadAverage
  <2>4. ASSUME NEW t \in Tasks, StoreAverage(t)
        PROVE  TypeOK'
    <3>1. Fold(loaded[t], sample[t]) \in Nat
      BY DEF Fold
    <3> QED
      BY <2>4, <3>1 DEF StoreAverage
  <2>5. ASSUME NEW t \in Tasks, FailureCountRequest(t)
        PROVE  TypeOK'
    BY <2>5 DEF FailureCountRequest
  <2>6. ASSUME NEW t \in Tasks, FailureCount(t)
        PROVE  TypeOK'
    BY <2>6 DEF FailureCount
  <2>7. ASSUME NEW r \in Readers, LoadRequests(r)
        PROVE  TypeOK'
    BY <2>7 DEF LoadRequests, Healthy
  <2>8. ASSUME NEW r \in Readers, LoadResponses(r)
        PROVE  TypeOK'
    BY <2>8 DEF LoadResponses
  <2>9. CASE UNCHANGED vars
    BY <2>9 DEF vars
  <2> QED
    BY <2>1, <2>2, <2>3, <2>4, <2>5, <2>6, <2>7, <2>8, <2>9 DEF Next
<1> QED
  BY <1>1, <1>2, PTL DEF Spec

-----------------------------------------------------------------------------
(* Tasks that enter or leave the window between their two fetch_adds. *)

LEMMA UnsettledFinite ==
  /\ IsFiniteSet(Unsettled)
  /\ Cardinality(Unsettled) \in Nat
  /\ Cardinality(Unsettled) <= Cardinality(Tasks)
  /\ Cardinality(Tasks) \in Nat
  BY TasksAssumption, FS_Subset, FS_CardinalityType DEF Unsettled

\* A task that counts a request becomes unsettled.
LEMMA Enter ==
  ASSUME TypeOK, NEW t \in Tasks, pc[t] = "idle",
         NEW label \in {"success", "failure"},
         pc' = [pc EXCEPT ![t] = label]
  PROVE  Cardinality(Unsettled') = Cardinality(Unsettled) + 1
<1>1. Unsettled' = Unsettled \cup {t} /\ t \notin Unsettled
  BY DEF TypeOK, Unsettled
<1> QED
  BY <1>1, UnsettledFinite, FS_AddElement

\* A task that counts the outcome of its request is settled again.
LEMMA Leave ==
  ASSUME TypeOK, NEW t \in Tasks, pc[t] \in {"success", "failure"},
         NEW label \in {"load", "idle"},
         pc' = [pc EXCEPT ![t] = label]
  PROVE  Cardinality(Unsettled') = Cardinality(Unsettled) - 1
<1>1. Unsettled' = Unsettled \ {t} /\ t \in Unsettled
  BY DEF TypeOK, Unsettled
<1> QED
  BY <1>1, UnsettledFinite, FS_RemoveElement

\* Every counted request is a response, a failure or unsettled (the
\* fetch_adds of record_success and record_failure).
THEOREM RequestsConserved == Spec => []Conservation
<1>1. Init => Conservation
  <2> SUFFICES ASSUME Init
               PROVE  Conservation
    OBVIOUS
  <2>1. Unsettled = {}
    BY DEF Init, Unsettled
  <2> QED
    BY <2>1, FS_EmptySet DEF Init, Conservation
<1>2. TypeOK /\ Conservation /\ [Next]_vars => Conservation'
  <2> SUFFICES ASSUME TypeOK, Conservation, [Next]_vars
               PROVE  Conservation'
    OBVIOUS
  <2> USE DEF Conservation
  <2>0. /\ requests_sent \in Nat /\ responses_received \in Nat /\ failures \in Nat
        /\ Cardinality(Unsettled) \in Nat
    BY UnsettledFinite DEF TypeOK
  <2>1. ASSUME NEW t \in Tasks, SuccessCountRequest(t)
        PROVE  Conservation'
    <3>1. Cardinality(Unsettled') = Cardinality(Unsettled) + 1
      BY <2>1, Enter DEF SuccessCountRequest
    <3> QED
      BY <2>0, <2>1, <3>1 DEF SuccessCountRequest
  <2>2. ASSUME NEW t \in Tasks, SuccessCountResponse(t)
        PROVE  Conservation'
    <3>1. Cardinality(Unsettled') = Cardinality(Unsettled) - 1
      BY <2>2, Leave DEF SuccessCountResponse
    <3> QED
      BY <2>0, <2>2, <3>1 DEF SuccessCountResponse
  <2>3. ASSUME NEW t \in Tasks, LoadAverage(t) \/ StoreAverage(t)
        PROVE  Conservation'
    <3>1. Unsettled' = Unsettled
      BY <2>3 DEF LoadAverage, StoreAverage, Unsettled, TypeOK
    <3> QED
      BY <2>3, <3>1 DEF LoadAverage, StoreAverage
  <2>4. ASSUME NEW t \in Tasks, FailureCountRequest(t)
        PROVE  Conservation'
    <3>1. Cardinality(Unsettled') = Cardinality(Unsettled) + 1
      BY <2>4, Enter DEF FailureCountRequest
    <3> QED
      BY <2>0, <2>4, <3>1 DEF FailureCountRequest
  <2>5. ASSUME NEW t \in Tasks, FailureCount(t)
        PROVE  Conservation'
    <3>1. Cardinality(Unsettled') = Cardinality(Unsettled) - 1
      BY <2>5, Leave DEF FailureCount
    <3> QED
      BY <2>0, <2>5, <3>1 DEF FailureCount
  <2>6. ASSUME NEW r \in Readers, LoadRequests(r) \/ LoadResponses(r)
        PROVE  Conservation'
    BY <2>6 DEF LoadRequests, LoadResponses, Unsettled
  <2>7. CASE UNCHANGED vars
    BY <2>7 DEF vars, Unsettled
  <2> QED
    BY <2>1, <2>2, <2>3, <2>4, <2>5, <2>6, <2>7 DEF Next
<1> QED
  BY <1>1, <1>2, Typing, PTL DEF Spec

-----------------------------------------------------------------------------
(* The rate: a reader between its two loads has seen no more requests than
   there are, and all but the failed and the unsettled ones have their
   response counted by the time of its second load. *)

ReaderInv ==
  /\ \A r \in Readers : reading[r] = "divide" => seen[r] <= requests_sent
  /\ UnderstatedByInFlight

\* success_rate understates by at most the failures and one request per task.
THEOREM RateUnderstatement == Spec => []UnderstatedByInFlight
<1>1. Init => ReaderInv
  <2> SUFFICES ASSUME Init
               PROVE  ReaderInv
    OBVIOUS
  <2> QED
    BY UnsettledFinite DEF Init, ReaderInv, UnderstatedByInFlight, Healthy
<1>2. TypeOK /\ Conservation /\ ReaderInv /\ [Next]_vars => ReaderInv'
  <2> SUFFICES ASSUME TypeOK, Conservation, ReaderInv, [Next]_vars
               PROVE  ReaderInv'
    OBVIOUS
  <2> DEFINE C == Cardinality(Tasks)
  <2>0. C \in Nat /\ requests_sent <= responses_received + failures + C
    BY UnsettledFinite DEF Conservation, TypeOK
  <2> HIDE DEF C
  <2> USE DEF TypeOK, ReaderInv
  <2>r. ReaderInv' <=>
          /\ \A r \in Readers : reading'[r] = "divide" => seen'[r] <= requests_sent'
          /\ \A r \in Readers : rate'[r][2] <= rate'[r][1] + failures' + C
    BY DEF UnderstatedByInFlight, C
  <2>u. \A r \in Readers : rate[r][2] <= rate[r][1] + failures + C
    BY DEF UnderstatedByInFlight, C
  <2>t. \A r \in Readers : rate[r][1] \in Nat /\ rate[r][2] \in Nat
    OBVIOUS
  <2>1. ASSUME UNCHANGED reporting, failures' \in Nat, requests_sent' \in Nat,
               failures <= failures', requests_sent <= requests_sent'
        PROVE  ReaderInv'
    BY <2>0, <2>1, <2>r, <2>u, <2>t
  <2>2. ASSUME NEW t \in Tasks,
               \/ SuccessCountRequest(t) \/ SuccessCountResponse(t)
               \/ LoadAverage(t) \/ StoreAverage(t)
               \/ FailureCountRequest(t) \/ FailureCount(t)
        PROVE  ReaderInv'
    BY <2>1, <2>2 DEF SuccessCountRequest, SuccessCountResponse, LoadAverage,
       StoreAverage, FailureCountRequest, FailureCount
  <2>3. ASSUME NEW r \in Readers, LoadRequests(r)
        PROVE  ReaderInv'
    BY <2>0, <2>3, <2>r, <2>u DEF LoadRequests, Healthy
  <2>4. ASSUME NEW r \in Readers, LoadResponses(r)
        PROVE  ReaderInv'
    <3>1. seen[r] <= responses_received + failures + C
      BY <2>0, <2>4 DEF LoadResponses
    <3> QED
      BY <2>0, <2>4, <2>r, <2>u, <3>1 DEF LoadResponses
  <2>5. CASE UNCHANGED vars
    BY <2>1, <2>5 DEF vars
  <2> QED
    BY <2>2, <2>3, <2>4, <2>5 DEF Next
<1>3. ReaderInv => UnderstatedByInFlight
  BY DEF ReaderInv
<1> QED
  BY <1>1, <1>2, <1>3, Typing, RequestsConserved, PTL DEF Spec

-----------------------------------------------------------------------------
(* The refinement: under the mapping of UpstreamStats every step is a step of
   the tally or a stutter. *)

SeenInv == \A r \in Readers : reading[r] = "divide" => seen[r] \in 1 .. requests_sent

\* What a reader has loaded is a number of requests there has been.
LEMMA SeenRequests == Spec => []SeenInv
<1>1. Init => SeenInv
  BY DEF Init, SeenInv
<1>2. TypeOK /\ SeenInv /\ [Next]_vars => SeenInv'
  <2> SUFFICES ASSUME TypeOK, SeenInv, [Next]_vars
               PROVE  SeenInv'
    OBVIOUS
  <2> USE DEF TypeOK, SeenInv
  <2>1. ASSUME UNCHANGED reporting, requests_sent' \in Nat,
               requests_sent <= requests_sent'
        PROVE  SeenInv'
    BY <2>1
  <2>2. ASSUME NEW t \in Tasks,
               \/ SuccessCountRequest(t) \/ SuccessCountResponse(t)
               \/ LoadAverage(t) \/ StoreAverage(t)
               \/ FailureCountRequest(t) \/ FailureCount(t)
        PROVE  SeenInv'
    BY <2>1, <2>2 DEF SuccessCountRequest, SuccessCountResponse, LoadAverage,
       StoreAverage, FailureCountRequest, FailureCount
  <2>3. ASSUME NEW r \in Readers, LoadRequests(r) \/ LoadResponses(r)
        PROVE  SeenInv'
    BY <2>3 DEF LoadRequests, LoadResponses
  <2>4. CASE UNCHANGED vars
    BY <2>1, <2>4 DEF vars
  <2> QED
    BY <2>2, <2>3, <2>4 DEF Next
<1> QED
  BY <1>1, <1>2, Typing, PTL DEF Spec

\* The three recording functions, step by step, implement the tally.
THEOREM StatisticsAreATally == Spec => TallyImplemented
<1>1. Init => Promise!Init
  <2> SUFFICES ASSUME Init
               PROVE  Promise!Init
    OBVIOUS
  <2>1. Unsettled = {}
    BY DEF Init, Unsettled
  <2> QED
    BY <2>1, FS_EmptySet DEF Init, Promise!Init, Healthy, Promise!Healthy
<1>2. TypeOK /\ SeenInv /\ [Next]_vars => [Promise!Next]_(Promise!vars)
  <2> SUFFICES ASSUME TypeOK, SeenInv, [Next]_vars
               PROVE  Promise!Next \/ UNCHANGED Promise!vars
    OBVIOUS
  <2>0. Cardinality(Unsettled) \in Nat
    BY UnsettledFinite
  <2>p. \A t \in Tasks : pc[t] \in {"success", "failure"} => Cardinality(Unsettled) > 0
    <3> SUFFICES ASSUME NEW t \in Tasks, pc[t] \in {"success", "failure"}
                 PROVE  Cardinality(Unsettled) > 0
      OBVIOUS
    <3>1. t \in Unsettled
      BY DEF Unsettled
    <3> QED
      BY <2>0, <3>1, UnsettledFinite, FS_EmptySet
  <2>1. ASSUME NEW t \in Tasks, SuccessCountRequest(t)
        PROVE  Promise!Begin
    <3>1. Cardinality(Unsettled') = Cardinality(Unsettled) + 1
      BY <2>1, Enter DEF SuccessCountRequest
    <3> QED
      BY <2>1, <3>1 DEF SuccessCountRequest, Promise!Begin
  <2>2. ASSUME NEW t \in Tasks, FailureCountRequest(t)
        PROVE  Promise!Begin
    <3>1. Cardinality(Unsettled') = Cardinality(Unsettled) + 1
      BY <2>2, Enter DEF FailureCountRequest
    <3> QED
      BY <2>2, <3>1 DEF FailureCountRequest, Promise!Begin
  <2>3. ASSUME NEW t \in Tasks, SuccessCountResponse(t)
        PROVE  Promise!SettleResponse
    <3>1. Cardinality(Unsettled') = Cardinality(Unsettled) - 1
      BY <2>3, Leave DEF SuccessCountResponse
    <3> QED
      BY <2>3, <2>p, <3>1 DEF SuccessCountResponse, Promise!SettleResponse
  <2>4. ASSUME NEW t \in Tasks, FailureCount(t)
        PROVE  Promise!SettleFailure
    <3>1. Cardinality(Unsettled') = Cardinality(Unsettled) - 1
      BY <2>4, Leave DEF FailureCount
    <3> QED
      BY <2>4, <2>p, <3>1 DEF FailureCount, Promise!SettleFailure
  <2>5. ASSUME NEW t \in Tasks, LoadAverage(t) \/ StoreAverage(t)
        PROVE  UNCHANGED Promise!vars
    <3>1. Unsettled' = Unsettled
      BY <2>5 DEF LoadAverage, StoreAverage, Unsettled, TypeOK
    <3> QED
      BY <2>5, <3>1 DEF LoadAverage, StoreAverage, Promise!vars
  <2>6. ASSUME NEW r \in Readers, LoadRequests(r)
        PROVE  Promise!Next \/ UNCHANGED Promise!vars
    <3>1. Unsettled' = Unsettled
      BY <2>6 DEF LoadRequests, Unsettled
    <3>2. CASE requests_sent = 0
      <4>1. Promise!Report(r)
        BY <2>6, <3>1, <3>2 DEF LoadRequests, Promise!Report, Healthy, Promise!Healthy
      <4> QED
        BY <4>1 DEF Promise!Next
    <3>3. CASE requests_sent # 0
      BY <2>6, <3>1, <3>3 DEF LoadRequests, Promise!vars
    <3> QED
      BY <3>2, <3>3
  <2>7. ASSUME NEW r \in Readers, LoadResponses(r)
        PROVE  Promise!Report(r)
    <3>1. Unsettled' = Unsettled
      BY <2>7 DEF LoadResponses, Unsettled
    <3>2. seen[r] \in 1 .. requests_sent
      BY <2>7 DEF LoadResponses, SeenInv
    <3> QED
      BY <2>7, <3>1, <3>2 DEF LoadResponses, Promise!Report
  <2>8. CASE UNCHANGED vars
    BY <2>8 DEF vars, Unsettled, Promise!vars
  <2> QED
    BY <2>1, <2>2, <2>3, <2>4, <2>5, <2>6, <2>7, <2>8 DEF Next, Promise!Next
<1> QED
  BY <1>1, <1>2, Typing, SeenRequests, PTL DEF Spec, TallyImplemented, Promise!Spec

-----------------------------------------------------------------------------
(* The average: what a task has loaded is an earlier value of the average. *)

AverageInv ==
  /\ AverageWithinSamples
  /\ \A t \in Tasks : loaded[t] = 0 \/ Within(loaded[t])
  /\ \A t \in Tasks : pc[t] \in {"success", "load", "store"} => sample[t] \in Samples

\* Folding keeps a value between the extremes, rounding included.
LEMMA FoldWithin ==
  ASSUME NEW c \in Nat, NEW s \in Samples, c = 0 \/ Within(c)
  PROVE  Within(Fold(c, s))
<1> USE SamplesAssumption
<1>1. CASE c = 0
  BY <1>1 DEF Fold, Within
<1>2. CASE c # 0
  <2>1. PICK lo \in Samples, hi \in Samples : lo <= c /\ c <= hi
    BY <1>2 DEF Within
  <2>2. Fold(c, s) = (c * 7 + s) \div 8
    BY <1>2 DEF Fold
  <2>3. lo <= (c * 7 + s) \div 8 \/ s <= (c * 7 + s) \div 8
    BY <2>1
  <2>4. (c * 7 + s) \div 8 <= hi \/ (c * 7 + s) \div 8 <= s
    BY <2>1
  <2> QED
    BY <2>2, <2>3, <2>4 DEF Within
<1> QED
  BY <1>1, <1>2

\* record_success's unlocked load and store keep the average between samples.
THEOREM AverageBounded == Spec => []AverageWithinSamples
<1>1. Init => AverageInv
  BY DEF Init, AverageInv, AverageWithinSamples
<1>2. TypeOK /\ AverageInv /\ [Next]_vars => AverageInv'
  <2> SUFFICES ASSUME TypeOK, AverageInv, [Next]_vars
               PROVE  AverageInv'
    OBVIOUS
  <2> USE DEF TypeOK, AverageInv, AverageWithinSamples
  <2>1. ASSUME NEW t \in Tasks, SuccessCountRequest(t)
        PROVE  AverageInv'
    BY <2>1, SamplesAssumption DEF SuccessCountRequest, Within
  <2>2. ASSUME NEW t \in Tasks,
               SuccessCountResponse(t) \/ FailureCountRequest(t) \/ FailureCount(t)
        PROVE  AverageInv'
    BY <2>2 DEF SuccessCountResponse, FailureCountRequest, FailureCount, Within
  <2>3. ASSUME NEW t \in Tasks, LoadAverage(t)
        PROVE  AverageInv'
    BY <2>3 DEF LoadAverage, Within
  <2>4. ASSUME NEW t \in Tasks, StoreAverage(t)
        PROVE  AverageInv'
    <3>1. Within(Fold(loaded[t], sample[t]))
      BY <2>4, FoldWithin DEF StoreAverage
    <3>2. Within(avg_response_time_ns)'
      BY <2>4, <3>1 DEF StoreAverage, Within
    <3> QED
      BY <2>4, <3>2 DEF StoreAverage, Within
  <2>5. ASSUME NEW r \in Readers, LoadRequests(r) \/ LoadResponses(r)
        PROVE  AverageInv'
    BY <2>5 DEF LoadRequests, LoadResponses, Within
  <2>6. CASE UNCHANGED vars
    BY <2>6 DEF vars, Within
  <2> QED
    BY <2>1, <2>2, <2>3, <2>4, <2>5, <2>6 DEF Next
<1>3. AverageInv => AverageWithinSamples
  BY DEF AverageInv
<1> QED
  BY <1>1, <1>2, <1>3, Typing, PTL DEF Spec
=============================================================================
