---------------------------- MODULE UpstreamStats ----------------------------
(***************************************************************************)
(* The statistics every upstream server carries (UpstreamStats in          *)
(* routing.rs).  Proxy tasks record the outcome of their requests and      *)
(* readers (the health score, the metrics export) compute a success rate,  *)
(* all without a lock: each step below is one atomic load, store or        *)
(* fetch_add of the code, so the steps of different tasks interleave.      *)
(*                                                                         *)
(* The rate a reader returns is kept as the pair <<numerator, denominator>>*)
(* it divides.  last_update is left out: nothing in the program reads it.  *)
(***************************************************************************)
EXTENDS Integers, FiniteSets

CONSTANTS
    Tasks,       \* tasks that record the outcome of a request
    Readers,     \* tasks that compute the success rate
    Samples,     \* response times, in nanoseconds
    MaxRequests  \* bound: requests recorded in a behaviour

ASSUME TasksAssumption == IsFiniteSet(Tasks)
ASSUME SamplesAssumption == Samples \subseteq Nat \ {0}

VARIABLES
    requests_sent, responses_received, failures,  \* the three counters
    avg_response_time_ns,                         \* 0 until the first sample
    pc, sample, loaded,     \* each recording task: where it is, the response
                            \* time it records, the average it has loaded
    reading, seen, rate     \* each reader: where it is, the requests it has
                            \* loaded, the rate it last returned

counters == <<requests_sent, responses_received, failures>>
recording == <<pc, sample, loaded>>
reporting == <<reading, seen, rate>>
vars == <<counters, avg_response_time_ns, recording, reporting>>

Healthy == <<1, 1>>     \* "No requests yet, assume healthy"

Init ==
    /\ requests_sent = 0 /\ responses_received = 0 /\ failures = 0
    /\ avg_response_time_ns = 0
    /\ pc = [t \in Tasks |-> "idle"]
    /\ sample = [t \in Tasks |-> 0]
    /\ loaded = [t \in Tasks |-> 0]
    /\ reading = [r \in Readers |-> "idle"]
    /\ seen = [r \in Readers |-> 0]
    /\ rate = [r \in Readers |-> Healthy]

-----------------------------------------------------------------------------
(* record_success *)

\* Faulty: the change is stored, not the average.
FoldDelta(current, response_time) ==
    IF current = 0 THEN response_time ELSE (response_time - current) \div 8
\* Faulty: only the new sample is divided.
FoldUnscaled(current, response_time) ==
    IF current = 0 THEN response_time ELSE current * 7 + response_time \div 8

\* Exponentially weighted moving average with alpha = 0.125.
Fold(current, response_time) ==
    IF current = 0 THEN response_time ELSE (current * 7 + response_time) \div 8

SuccessCountRequest(t) ==
    /\ pc[t] = "idle"
    /\ requests_sent < MaxRequests
    /\ \E s \in Samples : sample' = [sample EXCEPT ![t] = s]
    /\ requests_sent' = requests_sent + 1
    /\ pc' = [pc EXCEPT ![t] = "success"]
    /\ UNCHANGED <<responses_received, failures, avg_response_time_ns, loaded,
                   reporting>>

SuccessCountResponse(t) ==
    /\ pc[t] = "success"
    /\ responses_received' = responses_received + 1
    /\ pc' = [pc EXCEPT ![t] = "load"]
    /\ UNCHANGED <<requests_sent, failures, avg_response_time_ns, sample,
                   loaded, reporting>>

LoadAverage(t) ==
    /\ pc[t] = "load"
    /\ loaded' = [loaded EXCEPT ![t] = avg_response_time_ns]
    /\ pc' = [pc EXCEPT ![t] = "store"]
    /\ UNCHANGED <<counters, avg_response_time_ns, sample, reporting>>

StoreAverage(t) ==
    /\ pc[t] = "store"
    /\ avg_response_time_ns' = Fold(loaded[t], sample[t])
    /\ pc' = [pc EXCEPT ![t] = "idle"]
    /\ UNCHANGED <<counters, sample, loaded, reporting>>

(* record_failure *)

\* Faulty: a failed request is not counted as sent.
FailureSkipsRequest(t) ==
    /\ pc[t] = "idle"
    /\ requests_sent < MaxRequests
    /\ pc' = [pc EXCEPT ![t] = "failure"]
    /\ UNCHANGED <<counters, avg_response_time_ns, sample, loaded, reporting>>

FailureCountRequest(t) ==
    /\ pc[t] = "idle"
    /\ requests_sent < MaxRequests
    /\ requests_sent' = requests_sent + 1
    /\ pc' = [pc EXCEPT ![t] = "failure"]
    /\ UNCHANGED <<responses_received, failures, avg_response_time_ns, sample,
                   loaded, reporting>>

\* Faulty: a failed request is counted as sent only.
FailureUncounted(t) ==
    /\ pc[t] = "failure"
    /\ pc' = [pc EXCEPT ![t] = "idle"]
    /\ UNCHANGED <<counters, avg_response_time_ns, sample, loaded, reporting>>

FailureCount(t) ==
    /\ pc[t] = "failure"
    /\ failures' = failures + 1
    /\ pc' = [pc EXCEPT ![t] = "idle"]
    /\ UNCHANGED <<requests_sent, responses_received, avg_response_time_ns,
                   sample, loaded, reporting>>

(* success_rate *)

LoadRequests(r) ==
    /\ reading[r] = "idle"
    /\ IF requests_sent = 0
       THEN /\ rate' = [rate EXCEPT ![r] = Healthy]
            /\ UNCHANGED <<reading, seen>>
       ELSE /\ seen' = [seen EXCEPT ![r] = requests_sent]
            /\ reading' = [reading EXCEPT ![r] = "divide"]
            /\ UNCHANGED rate
    /\ UNCHANGED <<counters, avg_response_time_ns, recording>>

LoadResponses(r) ==
    /\ reading[r] = "divide"
    /\ rate' = [rate EXCEPT ![r] = <<responses_received, seen[r]>>]
    /\ reading' = [reading EXCEPT ![r] = "idle"]
    /\ UNCHANGED <<counters, avg_response_time_ns, recording, seen>>

Next ==
    \/ \E t \in Tasks : \/ SuccessCountRequest(t)
                        \/ SuccessCountResponse(t)
                        \/ LoadAverage(t)
                        \/ StoreAverage(t)
                        \/ FailureCountRequest(t)
                        \/ FailureCount(t)
    \/ \E r \in Readers : LoadRequests(r) \/ LoadResponses(r)

Spec == Init /\ [][Next]_vars

-----------------------------------------------------------------------------
(* Properties *)

\* Types of the counters, of the tasks' local state and of the rates.
TypeOK ==
    /\ requests_sent \in Nat /\ responses_received \in Nat /\ failures \in Nat
    /\ avg_response_time_ns \in Nat
    /\ pc \in [Tasks -> {"idle", "success", "load", "store", "failure"}]
    /\ sample \in [Tasks -> Nat]
    /\ loaded \in [Tasks -> Nat]
    /\ reading \in [Readers -> {"idle", "divide"}]
    /\ seen \in [Readers -> Nat]
    /\ rate \in [Readers -> Nat \X Nat]

\* Tasks that have counted a request and not yet its outcome.
Unsettled == {t \in Tasks : pc[t] \in {"success", "failure"}}

\* Without the tasks the counters are a tally: each step of record_success,
\* record_failure and success_rate begins a request, settles a pending one,
\* reports a rate, or does not show.
Promise == INSTANCE Tally WITH pending <- Cardinality(Unsettled)
TallyImplemented == Promise!Spec

\* However the tasks interleave, every request counted by record_success or
\* record_failure is accounted for: as a response, as a failure, or as one
\* that a task between its two fetch_adds is about to settle.
Conservation ==
    requests_sent = responses_received + failures + Cardinality(Unsettled)

\* The average is 0 or lies between the response times recorded, although
\* tasks overwrite each other's updates of it (record_success loads, computes
\* and stores without a lock) and the division rounds down.
Within(x) == /\ \E s \in Samples : s <= x
             /\ \E s \in Samples : x <= s
AverageWithinSamples ==
    avg_response_time_ns = 0 \/ Within(avg_response_time_ns)

\* The rate success_rate returns understates the upstream by no more than its
\* failures and one request for each task caught between its two fetch_adds:
\* an upstream that never failed is short of a rate of 1 by at most one
\* request per concurrent task, for any length of run.
UnderstatedByInFlight ==
    \A r \in Readers :
        rate[r][2] <= rate[r][1] + failures + Cardinality(Tasks)
=============================================================================
