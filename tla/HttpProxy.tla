------------------------------ MODULE HttpProxy ------------------------------
(***************************************************************************)
(* The HTTP proxy of proxy/http.rs, with the health-aware selection of     *)
(* routing.rs it is always given (router.rs).  hyper runs handle_request   *)
(* for each request; the only await in it is the exchange with the         *)
(* upstream, and there hyper drops the request if its client goes away.    *)
(*                                                                         *)
(* A step runs from one access of an upstream's counters to the next: the  *)
(* selection reads two counters of each upstream, one after the other,     *)
(* while other requests write them.  An upstream's score is kept exactly,  *)
(* as a pair <<numerator, denominator>>.  Health states stay Unknown, as   *)
(* nothing in the program updates them, and response times are taken to be *)
(* below 100 ms, where they do not touch the score.  The "random value" of *)
(* the selection is rr_counter / 2^64 of the total score: below the first  *)
(* candidate's share until rr_counter passes 2^64 / (number of upstreams), *)
(* which is taken to be never.  Headers, bodies and durations are left out.*)
(***************************************************************************)
EXTENDS Integers, Sequences, FiniteSets

CONSTANTS
    Requests,      \* client requests
    Weights        \* the configured weights of the upstreams, in order

ASSUME RequestsAssumption == IsFiniteSet(Requests)
ASSUME WeightsAssumption ==      \* UpstreamConfig::validate refuses weight 0
    /\ Len(Weights) \in Nat \ {0}
    /\ \A u \in 1 .. Len(Weights) : Weights[u] \in Nat \ {0}

U == 1 .. Len(Weights)       \* upstreams by position; 0 stands for none
Statuses == {200, 502}       \* what an upstream may answer, for all others
Zero == <<0, 1>>             \* score of a scan without a candidate yet

VARIABLES
    pc,                                    \* where each request is
    cursor, seen, best, score,   \* its scan: next position, requests loaded
                                 \* there, best candidate so far and its score;
                                 \* afterwards best is its upstream
    reply,                                 \* the status it is answered with
    requests_total, connections_active, status_codes,        \* the metrics
    requests_sent, responses_received, failures,             \* per upstream
    cause                                  \* history: why it got that reply

scanVars == <<cursor, seen, best, score>>
metricVars == <<requests_total, connections_active, status_codes>>
statVars == <<requests_sent, responses_received, failures>>
vars == <<pc, scanVars, reply, metricVars, statVars, cause>>

Init ==
    /\ pc = [r \in Requests |-> "waiting"]
    /\ cursor = [r \in Requests |-> 1]
    /\ seen = [r \in Requests |-> 0]
    /\ best = [r \in Requests |-> 0]
    /\ score = [r \in Requests |-> Zero]
    /\ reply = [r \in Requests |-> 0]
    /\ requests_total = 0 /\ connections_active = 0
    /\ status_codes = [s \in Statuses |-> 0]
    /\ requests_sent = [u \in U |-> 0]
    /\ responses_received = [u \in U |-> 0]
    /\ failures = [u \in U |-> 0]
    /\ cause = [r \in Requests |-> "none"]

Goto(r, label) == pc' = [pc EXCEPT ![r] = label]

-----------------------------------------------------------------------------
(* handle_request: entry *)

Arrive(r) ==
    /\ pc[r] = "waiting"
    /\ requests_total' = requests_total + 1
    /\ connections_active' = connections_active + 1
    /\ Goto(r, "probe")
    /\ UNCHANGED <<scanVars, reply, status_codes, statVars, cause>>

(* select_health_aware *)

\* Faulty: an upstream with score 0 is a candidate.
BetterOrEqual(s, t) == s[1] * t[2] >= t[1] * s[2]

Better(s, t) == s[1] * t[2] > t[1] * s[2]

\* filter, and the stable sort by descending score: a candidate needs a
\* positive score, and the first of equals stays first.
Consider(r, s) ==
    /\ IF Better(s, score[r])
       THEN /\ best' = [best EXCEPT ![r] = cursor[r]]
            /\ score' = [score EXCEPT ![r] = s]
       ELSE UNCHANGED <<best, score>>
    /\ cursor' = [cursor EXCEPT ![r] = @ + 1]

\* Faulty: the rate of an upstream without a request is 0.
ProbeUntriedIsZero(r) ==
    /\ pc[r] = "probe"
    /\ cursor[r] \in U
    /\ IF requests_sent[cursor[r]] = 0
       THEN /\ Consider(r, Zero)
            /\ UNCHANGED <<pc, seen>>
       ELSE /\ seen' = [seen EXCEPT ![r] = requests_sent[cursor[r]]]
            /\ Goto(r, "divide")
            /\ UNCHANGED <<cursor, best, score>>
    /\ UNCHANGED <<reply, metricVars, statVars, cause>>

\* success_rate, first load; without a request yet the rate is 1.
Probe(r) ==
    /\ pc[r] = "probe"
    /\ cursor[r] \in U
    /\ IF requests_sent[cursor[r]] = 0
       THEN /\ Consider(r, <<Weights[cursor[r]], 1>>)
            /\ UNCHANGED <<pc, seen>>
       ELSE /\ seen' = [seen EXCEPT ![r] = requests_sent[cursor[r]]]
            /\ Goto(r, "divide")
            /\ UNCHANGED <<cursor, best, score>>
    /\ UNCHANGED <<reply, metricVars, statVars, cause>>

\* Faulty: the scan does not move on from an upstream without a response.
DivideStuck(r) ==
    /\ pc[r] = "divide"
    /\ IF responses_received[cursor[r]] = 0
       THEN UNCHANGED <<cursor, best, score>>
       ELSE Consider(r, <<Weights[cursor[r]] * responses_received[cursor[r]],
                          seen[r]>>)
    /\ Goto(r, "probe")
    /\ UNCHANGED <<seen, reply, metricVars, statVars, cause>>

\* success_rate, second load.
Divide(r) ==
    /\ pc[r] = "divide"
    /\ Consider(r, <<Weights[cursor[r]] * responses_received[cursor[r]], seen[r]>>)
    /\ Goto(r, "probe")
    /\ UNCHANGED <<seen, reply, metricVars, statVars, cause>>

\* Faulty: the gauge is given back here as well as in handle_request.
NoCandidateReleases(r) ==
    /\ pc[r] = "probe"
    /\ cursor[r] \notin U
    /\ best[r] = 0
    /\ reply' = [reply EXCEPT ![r] = 502]
    /\ cause' = [cause EXCEPT ![r] = "unavailable"]
    /\ connections_active' = connections_active - 1
    /\ Goto(r, "finish")
    /\ UNCHANGED <<scanVars, requests_total, status_codes, statVars>>

\* "No healthy upstream available".
NoCandidate(r) ==
    /\ pc[r] = "probe"
    /\ cursor[r] \notin U
    /\ best[r] = 0
    /\ reply' = [reply EXCEPT ![r] = 502]
    /\ cause' = [cause EXCEPT ![r] = "unavailable"]
    /\ Goto(r, "finish")
    /\ UNCHANGED <<scanVars, metricVars, statVars>>

(* process_request *)

\* build_upstream_uri and transform_request succeed, and the request is sent.
Send(r) ==
    /\ pc[r] = "probe"
    /\ cursor[r] \notin U
    /\ best[r] # 0
    /\ Goto(r, "send")
    /\ UNCHANGED <<scanVars, reply, metricVars, statVars, cause>>

\* Faulty: the error returns from handle_request before the decrement.
RejectEarly(r) ==
    /\ pc[r] = "probe"
    /\ cursor[r] \notin U
    /\ best[r] # 0
    /\ reply' = [reply EXCEPT ![r] = 502]
    /\ cause' = [cause EXCEPT ![r] = "rejected"]
    /\ Goto(r, "done")
    /\ UNCHANGED <<scanVars, metricVars, statVars>>

\* ... or one of them fails: no upstream is charged with it.
Reject(r) ==
    /\ pc[r] = "probe"
    /\ cursor[r] \notin U
    /\ best[r] # 0
    /\ reply' = [reply EXCEPT ![r] = 502]
    /\ cause' = [cause EXCEPT ![r] = "rejected"]
    /\ Goto(r, "finish")
    /\ UNCHANGED <<scanVars, metricVars, statVars>>

CountRequest(r) ==
    requests_sent' = [requests_sent EXCEPT ![best[r]] = @ + 1]

\* The upstream answers, whatever the status: record_success.
Respond(r) ==
    /\ pc[r] = "send"
    /\ \E s \in Statuses : reply' = [reply EXCEPT ![r] = s]
    /\ cause' = [cause EXCEPT ![r] = "response"]
    /\ CountRequest(r)
    /\ Goto(r, "success")
    /\ UNCHANGED <<scanVars, metricVars, responses_received, failures>>

CountResponse(r) ==
    /\ pc[r] = "success"
    /\ responses_received' = [responses_received EXCEPT ![best[r]] = @ + 1]
    /\ Goto(r, "finish")
    /\ UNCHANGED <<scanVars, reply, metricVars, requests_sent, failures, cause>>

\* The exchange fails or times out: record_failure.  There is no retry.
Fail(r) ==
    /\ pc[r] = "send"
    /\ reply' = [reply EXCEPT ![r] = 502]
    /\ cause' = [cause EXCEPT ![r] = "failed"]
    /\ CountRequest(r)
    /\ Goto(r, "failure")
    /\ UNCHANGED <<scanVars, metricVars, responses_received, failures>>

CountFailure(r) ==
    /\ pc[r] = "failure"
    /\ failures' = [failures EXCEPT ![best[r]] = @ + 1]
    /\ Goto(r, "finish")
    /\ UNCHANGED <<scanVars, reply, metricVars, requests_sent,
                   responses_received, cause>>

\* The client goes away and hyper drops handle_request at its await.
Abandon(r) ==
    /\ pc[r] = "send"
    /\ Goto(r, "abandoned")
    /\ UNCHANGED <<scanVars, reply, metricVars, statVars, cause>>

(* handle_request: exit *)

\* The gauge and the count of the status are two counters that nothing reads
\* together; their two writes are one step.
Finish(r) ==
    /\ pc[r] = "finish"
    /\ connections_active' = connections_active - 1
    /\ status_codes' = [status_codes EXCEPT ![reply[r]] = @ + 1]
    /\ Goto(r, "done")
    /\ UNCHANGED <<scanVars, reply, requests_total, statVars, cause>>

Step(r) ==
    \/ Probe(r) \/ Divide(r) \/ NoCandidate(r) \/ Send(r) \/ Reject(r)
    \/ Respond(r) \/ Fail(r) \/ CountResponse(r) \/ CountFailure(r) \/ Finish(r)

Next == \E r \in Requests : Arrive(r) \/ Step(r) \/ Abandon(r)

Spec == Init /\ [][Next]_vars

\* hyper polls every request that can go on, and the timeout around the
\* exchange turns an upstream that never answers into a failure.
FairSpec == Spec /\ \A r \in Requests : WF_vars(Step(r))

-----------------------------------------------------------------------------
(* Properties *)

\* Types of the requests' local state and of the counters.
TypeOK ==
    /\ pc \in [Requests -> {"waiting", "probe", "divide", "send", "success",
                            "failure", "finish", "done", "abandoned"}]
    /\ cursor \in [Requests -> 1 .. Len(Weights) + 1]
    /\ seen \in [Requests -> Nat]
    /\ best \in [Requests -> 0 .. Len(Weights)]
    /\ score \in [Requests -> Nat \X (Nat \ {0})]
    /\ reply \in [Requests -> Statuses \cup {0}]
    /\ requests_total \in Nat
    /\ connections_active \in Nat
    /\ status_codes \in [Statuses -> Nat]
    /\ requests_sent \in [U -> Nat]
    /\ responses_received \in [U -> Nat]
    /\ failures \in [U -> Nat]
    /\ cause \in [Requests -> {"none", "unavailable", "rejected", "failed",
                               "response"}]

At(labels) == {r \in Requests : pc[r] \in labels}
InFlight == At({"probe", "divide", "send", "success", "failure", "finish"})
Abandoned == At({"abandoned"})

\* connections_active is the requests in flight and every request that was
\* ever abandoned: handle_request gives back what it took on each of its ways
\* out but one.
GaugeLedger ==
    connections_active = Cardinality(InFlight) + Cardinality(Abandoned)

\* Every 502 in the status counts is explained by a failed exchange, by a
\* refusal before anything was sent, or by an upstream's own 502, and each
\* upstream is charged with its failed exchanges and with nothing else.  A
\* request is refused for want of an upstream only if each has been tried: one
\* that nobody has used yet is never overlooked, although the selection reads
\* the counters one by one while others write them.
Ended(c) == {r \in Requests : cause[r] = c /\ pc[r] \in {"finish", "done"}}
Failed(u) == {r \in Ended("failed") : best[r] = u}
Own502 == {r \in Ended("response") : reply[r] = 502}
Explained502 == Ended("failed") \cup Ended("unavailable") \cup Ended("rejected") \cup Own502
Uncounted502 == {r \in At({"finish"}) : reply[r] = 502}
BadGatewaysExplained ==
    /\ status_codes[502] + Cardinality(Uncounted502) = Cardinality(Explained502)
    /\ \A u \in U : failures[u] = Cardinality(Failed(u))
    /\ \A r \in Requests :
          cause[r] = "unavailable" => \A u \in U : requests_sent[u] > 0

\* An upstream whose recorded requests all failed, with none on its way to it
\* and no selection about to choose it, is locked out: its score is 0, so it
\* is never tried again and no success can raise the score.
LockedOut(u) ==
    /\ requests_sent[u] > 0
    /\ responses_received[u] = 0
    /\ \A r \in Requests :
          best[r] = u => pc[r] \notin {"probe", "divide", "send", "success"}
LockoutIsPermanent ==
    [][\A u \in U : LockedOut(u) => LockedOut(u)']_vars

\* Each request is answered, unless its client gives up: whatever the
\* upstream does, the timeout ends the exchange.
RequestsAnswered ==
    \A r \in Requests : pc[r] = "probe" ~> pc[r] \in {"done", "abandoned"}
=============================================================================
