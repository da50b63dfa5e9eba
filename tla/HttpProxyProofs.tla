--------------------------- MODULE HttpProxyProofs ----------------------------
(***************************************************************************)
(* For every finite set of requests and every list of upstreams: the gauge *)
(* of the HTTP proxy and its counts of 502s are explained at every step,   *)
(* and an upstream that is locked out stays so.                            *)
(***************************************************************************)
EXTENDS HttpProxy, FiniteSetTheorems, TLAPS

USE DEF scanVars, metricVars, statVars, Goto

(* Counters indexed by upstream or status stay typed, whatever the index. *)

LEMMA Bump ==
  ASSUME NEW S, NEW f \in [S -> Nat], NEW x
  PROVE  [f EXCEPT ![x] = @ + 1] \in [S -> Nat]
<1>1. CASE x \in S
  BY <1>1
<1>2. CASE x \notin S
  BY <1>2
<1> QED
  BY <1>1, <1>2

(* A request that joins or leaves a set that is counted. *)

LEMMA Joins ==
  ASSUME NEW S \in SUBSET Requests, NEW r \in Requests \ S
  PROVE  Cardinality(S \cup {r}) = Cardinality(S) + 1
BY RequestsAssumption, FS_Subset, FS_AddElement

LEMMA Quits ==
  ASSUME NEW S \in SUBSET Requests, NEW r \in S
  PROVE  Cardinality(S \ {r}) = Cardinality(S) - 1
BY RequestsAssumption, FS_Subset, FS_RemoveElement

LEMMA Counts ==
  ASSUME NEW S \in SUBSET Requests
  PROVE  /\ Cardinality(S) \in Nat
         /\ S # {} => Cardinality(S) > 0
<1>1. IsFiniteSet(S)
  BY RequestsAssumption, FS_Subset
<1> QED
  BY <1>1, FS_CardinalityType, FS_EmptySet

LEMMA Positions ==
  /\ Len(Weights) \in Nat /\ U \subseteq Nat \ {0} /\ U \subseteq 0 .. Len(Weights)
  /\ \A u \in U : Weights[u] \in Nat \ {0} /\ u + 1 \in 1 .. Len(Weights) + 1
BY WeightsAssumption DEF U

(* Scores are fractions that are compared by cross-multiplication. *)

LEMMA Scores ==
  ASSUME NEW t \in Nat \X (Nat \ {0}), NEW w \in Nat \ {0}, NEW n \in Nat,
         NEW d \in Nat \ {0}
  PROVE  /\ <<w, 1>> \in Nat \X (Nat \ {0})
         /\ <<w * n, d>> \in Nat \X (Nat \ {0})
         /\ Better(<<w, 1>>, Zero)
         /\ ~Better(<<w * 0, d>>, t)
<1>1. w * n \in Nat
  OBVIOUS
<1>2. t[1] * d \in Nat
  OBVIOUS
<1>3. w * 0 = 0 /\ 0 * t[2] = 0
  OBVIOUS
<1> QED
  BY <1>1, <1>2, <1>3 DEF Better, Zero

-----------------------------------------------------------------------------
\* What a request's place in the code says about its scan and its reply.
PlacedAt(r) ==
  /\ pc[r] = "waiting" => best[r] = 0 /\ score[r] = Zero /\ cursor[r] = 1
  /\ pc[r] = "divide" => cursor[r] \in U /\ seen[r] # 0
  /\ pc[r] \in {"send", "success", "failure"} => best[r] \in U
  /\ pc[r] \in {"waiting", "probe", "divide", "send", "abandoned"} => cause[r] = "none"
  /\ pc[r] = "success" => cause[r] = "response" /\ reply[r] \in Statuses
  /\ pc[r] = "failure" => cause[r] = "failed"
  /\ pc[r] \in {"finish", "done"} => cause[r] # "none" /\ reply[r] \in Statuses
  /\ cause[r] \in {"unavailable", "rejected", "failed"} => reply[r] = 502

Placed == \A r \in Requests : PlacedAt(r)

LEMMA PlacedNext == TypeOK /\ Placed /\ [Next]_vars => Placed'
<1> SUFFICES ASSUME TypeOK, Placed, [Next]_vars, NEW q \in Requests
             PROVE  PlacedAt(q)'
  BY DEF Placed
<1> USE DEF TypeOK
<1>q. PlacedAt(q)
  BY DEF Placed
<1>0. ASSUME UNCHANGED <<pc[q], cursor[q], seen[q], best[q], score[q], reply[q], cause[q]>>
      PROVE  PlacedAt(q)'
  BY <1>q, <1>0 DEF PlacedAt
<1>1. ASSUME NEW r \in Requests, Arrive(r) \/ Step(r) \/ Abandon(r), q # r
      PROVE  PlacedAt(q)'
  <2>1. CASE Probe(r)
    BY <1>0, <1>1, <2>1 DEF Probe, Consider
  <2>2. CASE Divide(r)
    BY <1>0, <1>1, <2>2 DEF Divide, Consider
  <2>3. CASE Arrive(r) \/ Send(r) \/ Abandon(r) \/ NoCandidate(r) \/ Reject(r)
    BY <1>0, <1>1, <2>3 DEF Arrive, Send, Abandon, NoCandidate, Reject
  <2>4. CASE Respond(r) \/ Fail(r)
    BY <1>0, <1>1, <2>4 DEF Respond, Fail
  <2>5. CASE CountResponse(r) \/ CountFailure(r) \/ Finish(r)
    BY <1>0, <1>1, <2>5 DEF CountResponse, CountFailure, Finish
  <2> QED
    BY <1>1, <2>1, <2>2, <2>3, <2>4, <2>5 DEF Step
<1>2. CASE Arrive(q) \/ Send(q) \/ Abandon(q)
  <2>1. best[q] # 0 => best[q] \in U
    BY DEF U
  <2> QED
    BY <1>2, <1>q, <2>1 DEF Arrive, Send, Abandon, PlacedAt
<1>3. CASE Probe(q)
  <2>1. CASE requests_sent[cursor[q]] = 0
    BY <1>3, <1>q, <2>1 DEF Probe, Consider, PlacedAt
  <2>2. CASE requests_sent[cursor[q]] # 0
    BY <1>3, <1>q, <2>2 DEF Probe, PlacedAt
  <2> QED
    BY <2>1, <2>2
<1>4. CASE Divide(q)
  BY <1>4, <1>q DEF Divide, Consider, PlacedAt
<1>5. CASE NoCandidate(q) \/ Reject(q)
  BY <1>5, <1>q DEF NoCandidate, Reject, Statuses, PlacedAt
<1>6. CASE Respond(q) \/ Fail(q)
  BY <1>6, <1>q DEF Respond, Fail, Statuses, PlacedAt
<1>7. CASE CountResponse(q) \/ CountFailure(q) \/ Finish(q)
  <2>1. CASE CountResponse(q)
    BY <1>q, <2>1 DEF CountResponse, PlacedAt
  <2>2. CASE CountFailure(q)
    BY <1>q, <2>2 DEF CountFailure, PlacedAt, Statuses
  <2>3. CASE Finish(q)
    BY <1>q, <2>3 DEF Finish, PlacedAt
  <2> QED
    BY <1>7, <2>1, <2>2, <2>3
<1>8. CASE UNCHANGED vars
  BY <1>0, <1>8 DEF vars
<1> QED
  BY <1>1, <1>2, <1>3, <1>4, <1>5, <1>6, <1>7, <1>8 DEF Next, Step

LEMMA GaugeNext == TypeOK /\ GaugeLedger /\ [Next]_vars => GaugeLedger'
<1> SUFFICES ASSUME TypeOK, GaugeLedger, [Next]_vars
             PROVE  GaugeLedger'
  OBVIOUS
<1> USE DEF TypeOK
<1>0. InFlight \in SUBSET Requests /\ Abandoned \in SUBSET Requests
  BY DEF InFlight, Abandoned, At
<1>t. Cardinality(InFlight) \in Nat /\ Cardinality(Abandoned) \in Nat
  BY <1>0, Counts
<1>1. ASSUME NEW r \in Requests, Arrive(r)
      PROVE  GaugeLedger'
  <2>1. r \notin InFlight /\ InFlight' = InFlight \cup {r} /\ Abandoned' = Abandoned
    BY <1>1 DEF Arrive, InFlight, Abandoned, At
  <2>2. Cardinality(InFlight') = Cardinality(InFlight) + 1
    BY <1>0, <2>1, Joins
  <2>3. connections_active' = connections_active + 1
    BY <1>1 DEF Arrive
  <2> QED
    BY <1>t, <2>1, <2>2, <2>3 DEF GaugeLedger
<1>2. ASSUME NEW r \in Requests, Finish(r)
      PROVE  GaugeLedger'
  <2>1. r \in InFlight /\ InFlight' = InFlight \ {r} /\ Abandoned' = Abandoned
    BY <1>2 DEF Finish, InFlight, Abandoned, At
  <2>2. Cardinality(InFlight') = Cardinality(InFlight) - 1
    BY <1>0, <2>1, Quits
  <2>3. connections_active' = connections_active - 1
    BY <1>2 DEF Finish
  <2> QED
    BY <1>t, <2>1, <2>2, <2>3 DEF GaugeLedger
<1>3. ASSUME NEW r \in Requests, Abandon(r)
      PROVE  GaugeLedger'
  <2>1. /\ r \in InFlight /\ InFlight' = InFlight \ {r}
        /\ r \notin Abandoned /\ Abandoned' = Abandoned \cup {r}
    BY <1>3 DEF Abandon, InFlight, Abandoned, At
  <2>2. /\ Cardinality(InFlight') = Cardinality(InFlight) - 1
        /\ Cardinality(Abandoned') = Cardinality(Abandoned) + 1
    BY <1>0, <2>1, Quits, Joins
  <2>3. connections_active' = connections_active
    BY <1>3 DEF Abandon
  <2> QED
    BY <1>t, <2>2, <2>3 DEF GaugeLedger
<1>4. ASSUME InFlight' = InFlight, Abandoned' = Abandoned,
             connections_active' = connections_active
      PROVE  GaugeLedger'
  BY <1>4 DEF GaugeLedger
<1>5. ASSUME NEW r \in Requests, Probe(r) \/ Divide(r)
      PROVE  GaugeLedger'
  <2>1. pc[r] \in {"probe", "divide"} /\ pc' \in {[pc EXCEPT ![r] = "probe"],
          [pc EXCEPT ![r] = "divide"], pc}
    BY <1>5 DEF Probe, Divide
  <2>2. InFlight' = InFlight /\ Abandoned' = Abandoned
    BY <2>1 DEF InFlight, Abandoned, At
  <2>3. connections_active' = connections_active
    BY <1>5 DEF Probe, Divide
  <2> QED
    BY <1>4, <2>2, <2>3
<1>6. ASSUME NEW r \in Requests,
             \/ NoCandidate(r) \/ Reject(r) \/ Send(r) \/ Respond(r) \/ Fail(r)
             \/ CountResponse(r) \/ CountFailure(r)
      PROVE  GaugeLedger'
  <2>1. /\ pc[r] \in {"probe", "send", "success", "failure"}
        /\ \E l \in {"send", "success", "failure", "finish"} : pc' = [pc EXCEPT ![r] = l]
    BY <1>6 DEF NoCandidate, Reject, Send, Respond, Fail, CountResponse, CountFailure
  <2>2. InFlight' = InFlight /\ Abandoned' = Abandoned
    BY <2>1 DEF InFlight, Abandoned, At
  <2>3. connections_active' = connections_active
    BY <1>6 DEF NoCandidate, Reject, Send, Respond, Fail, CountResponse, CountFailure
  <2> QED
    BY <1>4, <2>2, <2>3
<1>7. CASE UNCHANGED vars
  BY <1>4, <1>7 DEF vars, InFlight, Abandoned, At
<1> QED
  BY <1>1, <1>2, <1>3, <1>5, <1>6, <1>7 DEF Next, Step

\* connections_active stays a natural number because of the ledger.
LEMMA TypeNext == TypeOK /\ Placed /\ GaugeLedger /\ [Next]_vars => TypeOK'
<1> SUFFICES ASSUME TypeOK, Placed, GaugeLedger, [Next]_vars
             PROVE  TypeOK'
  OBVIOUS
<1> USE DEF TypeOK
<1>1. ASSUME NEW r \in Requests, Arrive(r)
      PROVE  TypeOK'
  BY <1>1 DEF Arrive
<1>2. ASSUME NEW r \in Requests, NEW s \in Nat \X (Nat \ {0}), cursor[r] \in U,
             Consider(r, s)
      PROVE  /\ cursor' \in [Requests -> 1 .. Len(Weights) + 1]
             /\ best' \in [Requests -> 0 .. Len(Weights)]
             /\ score' \in [Requests -> Nat \X (Nat \ {0})]
  <2>1. cursor[r] + 1 \in 1 .. Len(Weights) + 1 /\ cursor[r] \in 0 .. Len(Weights)
    BY <1>2, Positions
  <2> QED
    BY <1>2, <2>1 DEF Consider
<1>3. ASSUME NEW r \in Requests, Probe(r)
      PROVE  TypeOK'
  <2>1. CASE requests_sent[cursor[r]] = 0
    <3>1. /\ cursor[r] \in U
          /\ Consider(r, <<Weights[cursor[r]], 1>>)
          /\ UNCHANGED <<pc, seen, reply, metricVars, statVars, cause>>
      BY <1>3, <2>1 DEF Probe
    <3>2. <<Weights[cursor[r]], 1>> \in Nat \X (Nat \ {0})
      BY <3>1, Positions
    <3> QED
      BY <1>2, <3>1, <3>2
  <2>2. CASE requests_sent[cursor[r]] # 0
    <3>1. seen' = [seen EXCEPT ![r] = requests_sent[cursor[r]]]
          /\ requests_sent[cursor[r]] \in Nat
      BY <1>3, <2>2 DEF Probe
    <3>2. seen' \in [Requests -> Nat]
      BY <3>1
    <3>3. pc' = [pc EXCEPT ![r] = "divide"]
          /\ UNCHANGED <<cursor, best, score, reply, metricVars, statVars, cause>>
      BY <1>3, <2>2 DEF Probe
    <3> QED
      BY <3>2, <3>3
  <2> QED
    BY <2>1, <2>2
<1>4. ASSUME NEW r \in Requests, Divide(r)
      PROVE  TypeOK'
  <2>1. cursor[r] \in U /\ seen[r] \in Nat \ {0} /\ responses_received[cursor[r]] \in Nat
    BY <1>4 DEF Divide, Placed, PlacedAt
  <2>2. <<Weights[cursor[r]] * responses_received[cursor[r]], seen[r]>> \in Nat \X (Nat \ {0})
    BY <2>1, Positions, Scores
  <2>3. Consider(r, <<Weights[cursor[r]] * responses_received[cursor[r]], seen[r]>>)
    BY <1>4 DEF Divide
  <2>4. /\ cursor' \in [Requests -> 1 .. Len(Weights) + 1]
        /\ best' \in [Requests -> 0 .. Len(Weights)]
        /\ score' \in [Requests -> Nat \X (Nat \ {0})]
    BY <1>2, <2>1, <2>2, <2>3
  <2> QED
    BY <1>4, <2>4 DEF Divide
<1>5. ASSUME NEW r \in Requests, NoCandidate(r) \/ Reject(r)
      PROVE  TypeOK'
  <2>1. /\ pc' = [pc EXCEPT ![r] = "finish"]
        /\ reply' = [reply EXCEPT ![r] = 502]
        /\ \E c \in {"unavailable", "rejected"} : cause' = [cause EXCEPT ![r] = c]
        /\ UNCHANGED <<scanVars, metricVars, statVars>>
    BY <1>5 DEF NoCandidate, Reject
  <2>2. reply' \in [Requests -> Statuses \cup {0}]
    BY <2>1 DEF Statuses
  <2>3. pc' \in [Requests -> {"waiting", "probe", "divide", "send", "success",
                              "failure", "finish", "done", "abandoned"}]
    BY <2>1
  <2>4. cause' \in [Requests -> {"none", "unavailable", "rejected", "failed", "response"}]
    BY <2>1
  <2> QED
    BY <2>1, <2>2, <2>3, <2>4
<1>6. ASSUME NEW r \in Requests, Send(r) \/ Abandon(r)
      PROVE  TypeOK'
  BY <1>6 DEF Send, Abandon
<1>7. ASSUME NEW r \in Requests, Respond(r) \/ Fail(r)
      PROVE  TypeOK'
  <2>0. /\ \E l \in {"success", "failure"} : pc' = [pc EXCEPT ![r] = l]
        /\ \E c \in {"response", "failed"} : cause' = [cause EXCEPT ![r] = c]
        /\ \E s \in Statuses : reply' = [reply EXCEPT ![r] = s]
        /\ requests_sent' = [requests_sent EXCEPT ![best[r]] = @ + 1]
        /\ UNCHANGED <<scanVars, metricVars, responses_received, failures>>
    <3>1. CASE Respond(r)
      BY <3>1 DEF Respond, CountRequest
    <3>2. CASE Fail(r)
      BY <3>2 DEF Fail, CountRequest, Statuses
    <3> QED
      BY <1>7, <3>1, <3>2
  <2>1. requests_sent' \in [U -> Nat]
    BY <2>0, Bump
  <2>2. reply' \in [Requests -> Statuses \cup {0}]
    BY <2>0
  <2>3. pc' \in [Requests -> {"waiting", "probe", "divide", "send", "success",
                              "failure", "finish", "done", "abandoned"}]
    BY <2>0
  <2>4. cause' \in [Requests -> {"none", "unavailable", "rejected", "failed", "response"}]
    BY <2>0
  <2> QED
    BY <2>0, <2>1, <2>2, <2>3, <2>4
<1>8. ASSUME NEW r \in Requests, CountResponse(r)
      PROVE  TypeOK'
  <2>1. responses_received' \in [U -> Nat]
    BY <1>8, Bump DEF CountResponse
  <2> QED
    BY <1>8, <2>1 DEF CountResponse
<1>9. ASSUME NEW r \in Requests, CountFailure(r)
      PROVE  TypeOK'
  <2>1. failures' \in [U -> Nat]
    BY <1>9, Bump DEF CountFailure
  <2> QED
    BY <1>9, <2>1 DEF CountFailure
<1>10. ASSUME NEW r \in Requests, Finish(r)
       PROVE  TypeOK'
  <2>1. status_codes' \in [Statuses -> Nat]
    BY <1>10, Bump DEF Finish
  <2>2. InFlight \in SUBSET Requests /\ Abandoned \in SUBSET Requests /\ r \in InFlight
    BY <1>10 DEF Finish, InFlight, Abandoned, At
  <2>3. Cardinality(InFlight) \in Nat /\ Cardinality(InFlight) > 0
        /\ Cardinality(Abandoned) \in Nat
    BY <2>2, Counts
  <2>4. connections_active' \in Nat
    BY <1>10, <2>3 DEF Finish, GaugeLedger
  <2> QED
    BY <1>10, <2>1, <2>4 DEF Finish
<1>11. CASE UNCHANGED vars
  BY <1>11 DEF vars
<1> QED
  BY <1>1, <1>3, <1>4, <1>5, <1>6, <1>7, <1>8, <1>9, <1>10, <1>11 DEF Next, Step

\* The typing, the place of each request and the gauge are one invariant.
LEMMA Accounted == Spec => [](TypeOK /\ Placed /\ GaugeLedger)
<1>1. Init => TypeOK /\ Placed /\ GaugeLedger
  <2> SUFFICES ASSUME Init
               PROVE  TypeOK /\ Placed /\ GaugeLedger
    OBVIOUS
  <2>1. TypeOK
    BY Positions DEF Init, TypeOK, Zero
  <2>2. Placed
    BY DEF Init, Placed, PlacedAt
  <2>3. InFlight = {} /\ Abandoned = {}
    BY DEF Init, InFlight, Abandoned, At
  <2>4. GaugeLedger
    BY <2>3, FS_EmptySet DEF Init, GaugeLedger
  <2> QED
    BY <2>1, <2>2, <2>4
<1>2. TypeOK /\ Placed /\ GaugeLedger /\ [Next]_vars => (TypeOK /\ Placed /\ GaugeLedger)'
  BY TypeNext, PlacedNext, GaugeNext
<1> QED
  BY <1>1, <1>2, PTL DEF Spec

\* The variables keep their types, and the gauge is a natural number.
THEOREM Typing == Spec => []TypeOK
BY Accounted, PTL

\* connections_active is the requests in flight and all abandoned ones, for
\* any number of requests and upstreams (handle_request).
THEOREM GaugeIsExplained == Spec => []GaugeLedger
BY Accounted, PTL

-----------------------------------------------------------------------------
\* A selection that has no candidate yet has seen a request of every upstream
\* it has passed: an untried one would have been a candidate.
ScannedAt(r) ==
  /\ best[r] = 0 => score[r] = Zero
  /\ pc[r] = "divide" => requests_sent[cursor[r]] > 0
  /\ pc[r] \in {"probe", "divide"} /\ best[r] = 0 =>
        \A u \in U : u < cursor[r] => requests_sent[u] > 0
  /\ cause[r] = "unavailable" => \A u \in U : requests_sent[u] > 0

Scanned == \A r \in Requests : ScannedAt(r)

LEMMA RequestsGrow ==
  ASSUME TypeOK, [Next]_vars, NEW u \in U, requests_sent[u] > 0
  PROVE  requests_sent'[u] > 0
<1> USE DEF TypeOK
<1>1. ASSUME NEW r \in Requests, CountRequest(r)
      PROVE  requests_sent'[u] > 0
  BY <1>1 DEF CountRequest
<1>2. CASE UNCHANGED requests_sent
  BY <1>2
<1> QED
  BY <1>1, <1>2 DEF Next, Step, Arrive, Abandon, Probe, Divide, NoCandidate, Send,
     Reject, Respond, Fail, CountResponse, CountFailure, Finish, vars

LEMMA ScannedNext == TypeOK /\ Placed /\ Scanned /\ [Next]_vars => Scanned'
<1> SUFFICES ASSUME TypeOK, Placed, Scanned, [Next]_vars, NEW q \in Requests
             PROVE  ScannedAt(q)'
  BY DEF Scanned
<1>q. ScannedAt(q) /\ PlacedAt(q)
  BY DEF Scanned, Placed
<1>g. \A u \in U : requests_sent[u] > 0 => requests_sent'[u] > 0
  BY RequestsGrow
<1>u. \A u \in U : u \in Nat \ {0}
  BY Positions
<1> USE DEF TypeOK
<1>0. ASSUME UNCHANGED <<pc[q], cursor[q], best[q], score[q], cause[q]>>
      PROVE  ScannedAt(q)'
  BY <1>q, <1>g, <1>0 DEF ScannedAt, PlacedAt
<1>1. ASSUME NEW r \in Requests, Arrive(r) \/ Step(r) \/ Abandon(r), q # r
      PROVE  ScannedAt(q)'
  <2>1. CASE Probe(r)
    BY <1>0, <1>1, <2>1 DEF Probe, Consider
  <2>2. CASE Divide(r)
    BY <1>0, <1>1, <2>2 DEF Divide, Consider
  <2>3. CASE Arrive(r) \/ Send(r) \/ Abandon(r) \/ NoCandidate(r) \/ Reject(r)
    BY <1>0, <1>1, <2>3 DEF Arrive, Send, Abandon, NoCandidate, Reject
  <2>4. CASE Respond(r) \/ Fail(r)
    BY <1>0, <1>1, <2>4 DEF Respond, Fail
  <2>5. CASE CountResponse(r) \/ CountFailure(r) \/ Finish(r)
    BY <1>0, <1>1, <2>5 DEF CountResponse, CountFailure, Finish
  <2> QED
    BY <1>1, <2>1, <2>2, <2>3, <2>4, <2>5 DEF Step
<1>2. CASE Arrive(q)
  BY <1>2, <1>q, <1>u DEF Arrive, ScannedAt, PlacedAt
<1>3. CASE Probe(q)
  <2>1. CASE requests_sent[cursor[q]] = 0
    <3>1. cursor[q] \in U /\ Consider(q, <<Weights[cursor[q]], 1>>)
          /\ UNCHANGED <<pc, requests_sent, cause>>
      BY <1>3, <2>1 DEF Probe
    <3>2. best[q] = 0 => Better(<<Weights[cursor[q]], 1>>, score[q])
      BY <1>q, <3>1, Positions DEF Better, ScannedAt, Zero
    <3>3. best'[q] # 0
      BY <1>u, <3>1, <3>2 DEF Consider
    <3>4. pc[q] = "probe"
      BY <1>3 DEF Probe
    <3> QED
      BY <1>q, <3>1, <3>3, <3>4 DEF ScannedAt
  <2>2. CASE requests_sent[cursor[q]] # 0
    <3>1. /\ cursor[q] \in U /\ pc[q] = "probe" /\ pc' = [pc EXCEPT ![q] = "divide"]
          /\ UNCHANGED <<cursor, best, score, requests_sent, cause>>
      BY <1>3, <2>2 DEF Probe
    <3>2. requests_sent[cursor[q]] > 0
      BY <2>2, <3>1
    <3> QED
      BY <1>q, <3>1, <3>2 DEF ScannedAt
  <2> QED
    BY <2>1, <2>2
<1>4. CASE Divide(q)
  <2>1. /\ pc[q] = "divide" /\ cursor[q] \in U /\ cursor'[q] = cursor[q] + 1
        /\ UNCHANGED <<requests_sent, cause>> /\ pc'[q] = "probe"
        /\ \/ best'[q] = cursor[q]
           \/ best'[q] = best[q] /\ score'[q] = score[q]
    BY <1>4, <1>q DEF Divide, Consider, PlacedAt
  <2>2. \A u \in U : u < cursor[q] + 1 => u < cursor[q] \/ u = cursor[q]
    BY <1>u, <2>1
  <2> QED
    BY <1>q, <1>u, <2>1, <2>2 DEF ScannedAt
<1>5. CASE NoCandidate(q)
  <2>1. /\ pc[q] = "probe" /\ cursor[q] \notin U /\ best[q] = 0 /\ pc'[q] = "finish"
        /\ UNCHANGED <<best, score, requests_sent>>
    BY <1>5 DEF NoCandidate
  <2>2. \A u \in U : u < cursor[q]
    BY <2>1, Positions DEF U
  <2> QED
    BY <1>q, <2>1, <2>2 DEF ScannedAt
<1>6. CASE Send(q) \/ Abandon(q) \/ Reject(q)
  BY <1>6, <1>q, <1>g DEF Send, Abandon, Reject, ScannedAt, PlacedAt
<1>7. CASE Respond(q) \/ Fail(q)
  BY <1>7, <1>q, <1>g DEF Respond, Fail, ScannedAt
<1>8. CASE CountResponse(q) \/ CountFailure(q) \/ Finish(q)
  BY <1>8, <1>q, <1>g DEF CountResponse, CountFailure, Finish, ScannedAt
<1>9. CASE UNCHANGED vars
  BY <1>0, <1>9 DEF vars
<1> QED
  BY <1>1, <1>2, <1>3, <1>4, <1>5, <1>6, <1>7, <1>8, <1>9 DEF Next, Step

(* The two ledgers of BadGatewaysExplained. *)

Answered502 == {r \in At({"finish", "done"}) : reply[r] = 502}
StatusLedger == status_codes[502] + Cardinality(Uncounted502) = Cardinality(Answered502)
FailureLedger == \A u \in U : failures[u] = Cardinality(Failed(u))

LEMMA FailureNext == TypeOK /\ Placed /\ FailureLedger /\ [Next]_vars => FailureLedger'
<1> SUFFICES ASSUME TypeOK, Placed, FailureLedger, [Next]_vars, NEW u \in U
             PROVE  failures'[u] = Cardinality(Failed(u)')
  BY DEF FailureLedger
<1> USE DEF TypeOK
<1>u. failures[u] = Cardinality(Failed(u)) /\ Failed(u) \in SUBSET Requests
  BY DEF FailureLedger, Failed, Ended
<1>0. ASSUME failures' = failures, Failed(u)' = Failed(u)
      PROVE  failures'[u] = Cardinality(Failed(u)')
  BY <1>0, <1>u
<1>1. ASSUME NEW r \in Requests, Arrive(r) \/ Send(r) \/ Abandon(r)
      PROVE  failures'[u] = Cardinality(Failed(u)')
  BY <1>0, <1>1 DEF Arrive, Send, Abandon, Failed, Ended
<1>2. ASSUME NEW r \in Requests, Probe(r) \/ Divide(r)
      PROVE  failures'[u] = Cardinality(Failed(u)')
  <2>1. /\ pc[r] \in {"probe", "divide"} /\ pc'[r] \in {"probe", "divide"}
        /\ UNCHANGED <<failures, cause>>
        /\ \A q \in Requests \ {r} : pc'[q] = pc[q] /\ best'[q] = best[q]
    BY <1>2 DEF Probe, Divide, Consider
  <2>2. Failed(u)' = Failed(u)
    BY <2>1 DEF Failed, Ended
  <2> QED
    BY <1>0, <2>1, <2>2
<1>3. ASSUME NEW r \in Requests, NoCandidate(r) \/ Reject(r)
      PROVE  failures'[u] = Cardinality(Failed(u)')
  <2>1. /\ pc[r] = "probe" /\ UNCHANGED <<failures, best>>
        /\ cause'[r] \in {"unavailable", "rejected"}
        /\ \A q \in Requests \ {r} : pc'[q] = pc[q] /\ cause'[q] = cause[q]
    BY <1>3 DEF NoCandidate, Reject
  <2>2. Failed(u)' = Failed(u)
    BY <2>1 DEF Failed, Ended
  <2> QED
    BY <1>0, <2>1, <2>2
<1>4. ASSUME NEW r \in Requests, Respond(r) \/ Fail(r)
      PROVE  failures'[u] = Cardinality(Failed(u)')
  <2>1. /\ pc[r] = "send" /\ pc'[r] \in {"success", "failure"} /\ UNCHANGED <<failures, best>>
        /\ \A q \in Requests \ {r} : pc'[q] = pc[q] /\ cause'[q] = cause[q]
    BY <1>4 DEF Respond, Fail
  <2>2. Failed(u)' = Failed(u)
    BY <2>1 DEF Failed, Ended
  <2> QED
    BY <1>0, <2>1, <2>2
<1>5. ASSUME NEW r \in Requests, CountResponse(r) \/ Finish(r)
      PROVE  failures'[u] = Cardinality(Failed(u)')
  <2>1. /\ UNCHANGED <<failures, best, cause>>
        /\ pc'[r] \in {"finish", "done"}
        /\ pc[r] = "finish" \/ cause[r] # "failed"
        /\ \A q \in Requests \ {r} : pc'[q] = pc[q]
    BY <1>5 DEF CountResponse, Finish, Placed, PlacedAt
  <2>2. Failed(u)' = Failed(u)
    BY <2>1 DEF Failed, Ended
  <2> QED
    BY <1>0, <2>1, <2>2
<1>6. ASSUME NEW r \in Requests, CountFailure(r)
      PROVE  failures'[u] = Cardinality(Failed(u)')
  <2>1. /\ pc[r] = "failure" /\ cause[r] = "failed" /\ best[r] \in U
        /\ pc' = [pc EXCEPT ![r] = "finish"] /\ UNCHANGED <<best, cause>>
        /\ failures' = [failures EXCEPT ![best[r]] = @ + 1]
    BY <1>6 DEF CountFailure, Placed, PlacedAt
  <2>2. CASE best[r] = u
    <3>1. r \notin Failed(u) /\ Failed(u)' = Failed(u) \cup {r}
      BY <2>1, <2>2 DEF Failed, Ended
    <3>2. Cardinality(Failed(u)') = Cardinality(Failed(u)) + 1
      BY <1>u, <3>1, Joins
    <3> QED
      BY <1>u, <2>1, <2>2, <3>2
  <2>3. CASE best[r] # u
    <3>1. Failed(u)' = Failed(u)
      BY <2>1, <2>3 DEF Failed, Ended
    <3> QED
      BY <1>u, <2>1, <2>3, <3>1
  <2> QED
    BY <2>2, <2>3
<1>7. CASE UNCHANGED vars
  BY <1>0, <1>7 DEF vars, Failed, Ended
<1> QED
  BY <1>1, <1>2, <1>3, <1>4, <1>5, <1>6, <1>7 DEF Next, Step

\* A request that is answered 502 enters both sets of the ledger at once, and
\* leaves the first one when its status is counted.
LEMMA StatusNext == TypeOK /\ Placed /\ StatusLedger /\ [Next]_vars => StatusLedger'
<1> SUFFICES ASSUME TypeOK, Placed, StatusLedger, [Next]_vars
             PROVE  StatusLedger'
  OBVIOUS
<1> USE DEF TypeOK
<1>s. Uncounted502 \in SUBSET Requests /\ Answered502 \in SUBSET Requests
  BY DEF Uncounted502, Answered502, At
<1>n. /\ Cardinality(Uncounted502) \in Nat /\ Cardinality(Answered502) \in Nat
      /\ status_codes[502] \in Nat
  BY <1>s, Counts DEF Statuses
<1>0. ASSUME Uncounted502' = Uncounted502, Answered502' = Answered502,
             status_codes' = status_codes
      PROVE  StatusLedger'
  BY <1>0 DEF StatusLedger
<1>1. ASSUME NEW r \in Requests, Arrive(r) \/ Send(r) \/ Abandon(r) \/ Probe(r) \/ Divide(r)
      PROVE  StatusLedger'
  <2>1. /\ pc[r] \notin {"finish", "done"} /\ pc'[r] \notin {"finish", "done"}
        /\ UNCHANGED <<reply, status_codes>>
        /\ \A q \in Requests \ {r} : pc'[q] = pc[q]
    <3>1. CASE Arrive(r)
      BY <3>1 DEF Arrive
    <3>2. CASE Send(r)
      BY <3>2 DEF Send
    <3>3. CASE Abandon(r)
      BY <3>3 DEF Abandon
    <3>4. CASE Probe(r)
      BY <3>4 DEF Probe, Consider
    <3>5. CASE Divide(r)
      BY <3>5 DEF Divide, Consider
    <3> QED
      BY <1>1, <3>1, <3>2, <3>3, <3>4, <3>5
  <2>2. Uncounted502' = Uncounted502 /\ Answered502' = Answered502
    <3>1. \A q \in Requests :
             /\ pc'[q] = "finish" /\ reply'[q] = 502 <=> pc[q] = "finish" /\ reply[q] = 502
             /\ pc'[q] = "done" /\ reply'[q] = 502 <=> pc[q] = "done" /\ reply[q] = 502
      BY <2>1
    <3> QED
      BY <3>1 DEF Uncounted502, Answered502, At
  <2> QED
    BY <1>0, <2>1, <2>2
<1>2. ASSUME NEW r \in Requests, Respond(r) \/ Fail(r)
      PROVE  StatusLedger'
  <2>1. /\ pc[r] \notin {"finish", "done"} /\ pc'[r] \notin {"finish", "done"}
        /\ UNCHANGED status_codes
        /\ \A q \in Requests \ {r} : pc'[q] = pc[q] /\ reply'[q] = reply[q]
    BY <1>2 DEF Respond, Fail
  <2>2. Uncounted502' = Uncounted502 /\ Answered502' = Answered502
    <3>1. \A q \in Requests :
             /\ pc'[q] = "finish" /\ reply'[q] = 502 <=> pc[q] = "finish" /\ reply[q] = 502
             /\ pc'[q] = "done" /\ reply'[q] = 502 <=> pc[q] = "done" /\ reply[q] = 502
      BY <2>1
    <3> QED
      BY <3>1 DEF Uncounted502, Answered502, At
  <2> QED
    BY <1>0, <2>1, <2>2
<1>3. ASSUME NEW r \in Requests,
             NoCandidate(r) \/ Reject(r) \/ CountResponse(r) \/ CountFailure(r)
      PROVE  StatusLedger'
  <2>1. /\ pc[r] \in {"probe", "success", "failure"} /\ pc'[r] = "finish"
        /\ UNCHANGED status_codes
        /\ \A q \in Requests \ {r} : pc'[q] = pc[q] /\ reply'[q] = reply[q]
    <3>1. CASE NoCandidate(r)
      BY <3>1 DEF NoCandidate
    <3>2. CASE Reject(r)
      BY <3>2 DEF Reject
    <3>3. CASE CountResponse(r)
      BY <3>3 DEF CountResponse
    <3>4. CASE CountFailure(r)
      BY <3>4 DEF CountFailure
    <3> QED
      BY <1>3, <3>1, <3>2, <3>3, <3>4
  <2>2. CASE reply'[r] = 502
    <3>1. /\ r \notin Uncounted502 /\ Uncounted502' = Uncounted502 \cup {r}
          /\ r \notin Answered502 /\ Answered502' = Answered502 \cup {r}
      BY <2>1, <2>2 DEF Uncounted502, Answered502, At
    <3>2. /\ Cardinality(Uncounted502') = Cardinality(Uncounted502) + 1
          /\ Cardinality(Answered502') = Cardinality(Answered502) + 1
      BY <1>s, <3>1, Joins
    <3> QED
      BY <1>n, <2>1, <3>2 DEF StatusLedger
  <2>3. CASE reply'[r] # 502
    <3>1. \A q \in Requests :
             /\ pc'[q] = "finish" /\ reply'[q] = 502 <=> pc[q] = "finish" /\ reply[q] = 502
             /\ pc'[q] = "done" /\ reply'[q] = 502 <=> pc[q] = "done" /\ reply[q] = 502
      BY <2>1, <2>3
    <3>2. Uncounted502' = Uncounted502 /\ Answered502' = Answered502
      BY <3>1 DEF Uncounted502, Answered502, At
    <3> QED
      BY <1>0, <2>1, <3>2
  <2> QED
    BY <2>2, <2>3
<1>4. ASSUME NEW r \in Requests, Finish(r)
      PROVE  StatusLedger'
  <2>1. /\ pc[r] = "finish" /\ pc' = [pc EXCEPT ![r] = "done"] /\ UNCHANGED reply
        /\ status_codes' = [status_codes EXCEPT ![reply[r]] = @ + 1]
    BY <1>4 DEF Finish
  <2>2. Answered502' = Answered502
    <3>1. \A q \in Requests : pc'[q] \in {"finish", "done"} <=> pc[q] \in {"finish", "done"}
      BY <2>1
    <3> QED
      BY <2>1, <3>1 DEF Answered502, At
  <2>3. CASE reply[r] = 502
    <3>1. r \in Uncounted502 /\ Uncounted502' = Uncounted502 \ {r}
      BY <2>1, <2>3 DEF Uncounted502, At
    <3>2. Cardinality(Uncounted502') = Cardinality(Uncounted502) - 1
      BY <1>s, <3>1, Quits
    <3>3. status_codes'[502] = status_codes[502] + 1
      BY <2>1, <2>3 DEF Statuses
    <3> QED
      BY <1>n, <2>2, <3>2, <3>3 DEF StatusLedger
  <2>4. CASE reply[r] # 502
    <3>1. Uncounted502' = Uncounted502
      BY <2>1, <2>4 DEF Uncounted502, At
    <3>2. status_codes'[502] = status_codes[502]
      BY <2>1, <2>4 DEF Statuses
    <3> QED
      BY <2>2, <3>1, <3>2 DEF StatusLedger
  <2> QED
    BY <2>3, <2>4
<1>5. CASE UNCHANGED vars
  BY <1>0, <1>5 DEF vars, Uncounted502, Answered502, At
<1> QED
  BY <1>1, <1>2, <1>3, <1>4, <1>5 DEF Next, Step

\* Each 502 has one recorded cause, each upstream is charged with its own
\* failures, and nobody is refused while an upstream is untried.
THEOREM BadGatewaysAreExplained == Spec => []BadGatewaysExplained
<1> DEFINE IInv == StatusLedger /\ FailureLedger /\ Scanned
<1>1. Init => IInv
  <2> SUFFICES ASSUME Init
               PROVE  IInv
    OBVIOUS
  <2>1. Uncounted502 = {} /\ Answered502 = {} /\ \A u \in U : Failed(u) = {}
    BY DEF Init, Uncounted502, Answered502, Failed, Ended, At
  <2>2. StatusLedger /\ FailureLedger
    BY <2>1, FS_EmptySet DEF Init, StatusLedger, FailureLedger, Statuses
  <2>3. Scanned
    BY Positions DEF Init, Scanned, ScannedAt
  <2> QED
    BY <2>2, <2>3
<1>2. TypeOK /\ Placed /\ IInv /\ [Next]_vars => IInv'
  BY StatusNext, FailureNext, ScannedNext
<1>3. TypeOK /\ Placed /\ IInv => BadGatewaysExplained
  <2> SUFFICES ASSUME TypeOK, Placed, IInv
               PROVE  BadGatewaysExplained
    OBVIOUS
  <2>1. Explained502 = Answered502
    <3>1. ASSUME NEW r \in Requests
          PROVE  r \in Explained502 <=> r \in Answered502
      <4>1. PlacedAt(r) /\ cause[r] \in {"none", "unavailable", "rejected", "failed", "response"}
        BY DEF Placed, TypeOK
      <4> QED
        BY <4>1 DEF PlacedAt, Explained502, Answered502, Ended, Own502, At
    <3>2. Explained502 \subseteq Requests /\ Answered502 \subseteq Requests
      BY DEF Explained502, Answered502, Ended, Own502, At
    <3> QED
      BY <3>1, <3>2
  <2> QED
    BY <2>1 DEF BadGatewaysExplained, StatusLedger, FailureLedger, Scanned, ScannedAt
<1> QED
  BY <1>1, <1>2, <1>3, Accounted, PTL DEF Spec

-----------------------------------------------------------------------------
\* An upstream without a response scores 0 and is never chosen again, so
\* nothing can raise its score (select_health_aware).
THEOREM LockoutsArePermanent == Spec => LockoutIsPermanent
<1>1. TypeOK /\ Placed /\ [Next]_vars => \A u \in U : LockedOut(u) => LockedOut(u)'
  <2> SUFFICES ASSUME TypeOK, Placed, [Next]_vars, NEW u \in U, LockedOut(u)
               PROVE  LockedOut(u)'
    OBVIOUS
  <2> USE DEF TypeOK
  <2>1. requests_sent'[u] > 0
    BY RequestsGrow DEF LockedOut
  <2>u. u # 0
    BY Positions
  <2>2. responses_received'[u] = 0
    <3>1. ASSUME NEW r \in Requests, CountResponse(r)
          PROVE  responses_received'[u] = 0
      BY <3>1 DEF CountResponse, LockedOut
    <3>2. CASE UNCHANGED responses_received
      BY <3>2 DEF LockedOut
    <3> QED
      BY <3>1, <3>2 DEF Next, Step, Arrive, Abandon, Probe, Divide, NoCandidate, Send,
         Reject, Respond, Fail, CountFailure, Finish, vars
  <2>3. ASSUME NEW q \in Requests, best'[q] = u
        PROVE  pc'[q] \notin {"probe", "divide", "send", "success"}
    <3>0. CASE UNCHANGED <<best[q], pc[q]>>
      BY <2>3, <3>0 DEF LockedOut
    <3>1. ASSUME NEW r \in Requests, Arrive(r) \/ Step(r) \/ Abandon(r), q # r
          PROVE  UNCHANGED <<best[q], pc[q]>>
      <4>1. CASE Probe(r) \/ Divide(r)
        <5>1. CASE Probe(r)
          BY <3>1, <5>1 DEF Probe, Consider
        <5>2. CASE Divide(r)
          BY <3>1, <5>2 DEF Divide, Consider
        <5> QED
          BY <4>1, <5>1, <5>2
      <4>2. CASE \/ Arrive(r) \/ Send(r) \/ Abandon(r) \/ NoCandidate(r) \/ Reject(r)
                 \/ CountResponse(r) \/ CountFailure(r) \/ Finish(r)
        BY <3>1, <4>2 DEF Arrive, Send, Abandon, NoCandidate, Reject, CountResponse,
           CountFailure, Finish
      <4>3. CASE Respond(r) \/ Fail(r)
        BY <3>1, <4>3 DEF Respond, Fail
      <4> QED
        BY <3>1, <4>1, <4>2, <4>3 DEF Step
    <3>2. CASE Arrive(q)
      BY <2>3, <2>u, <3>2 DEF Arrive, Placed, PlacedAt
    <3>3. CASE Probe(q)
      <4>1. best'[q] # u
        <5>1. pc[q] = "probe" /\ best[q] # u
          BY <3>3 DEF Probe, LockedOut
        <5>2. CASE requests_sent[cursor[q]] = 0
          BY <3>3, <5>1, <5>2 DEF Probe, Consider, LockedOut
        <5>3. CASE requests_sent[cursor[q]] # 0
          BY <3>3, <5>1, <5>3 DEF Probe
        <5> QED
          BY <5>2, <5>3
      <4> QED
        BY <2>3, <4>1
    <3>4. CASE Divide(q)
      <4>1. /\ pc[q] = "divide" /\ best[q] # u /\ cursor[q] \in U /\ seen[q] \in Nat \ {0}
            /\ Consider(q, <<Weights[cursor[q]] * responses_received[cursor[q]], seen[q]>>)
        BY <3>4 DEF Divide, LockedOut, Placed, PlacedAt
      <4>2. CASE cursor[q] = u
        <5>1. ~Better(<<Weights[u] * 0, seen[q]>>, score[q])
          BY <4>1, Positions, Scores
        <5> QED
          BY <2>3, <4>1, <4>2, <5>1 DEF Consider, LockedOut
      <4>3. CASE cursor[q] # u
        BY <2>3, <4>1, <4>3 DEF Consider
      <4> QED
        BY <4>2, <4>3
    <3>5. CASE Send(q) \/ NoCandidate(q) \/ Reject(q) \/ Abandon(q)
      BY <2>3, <3>5 DEF Send, NoCandidate, Reject, Abandon, LockedOut
    <3>6. CASE Respond(q) \/ Fail(q)
      BY <2>3, <3>6 DEF Respond, Fail, LockedOut
    <3>7. CASE CountResponse(q) \/ CountFailure(q) \/ Finish(q)
      BY <3>7 DEF CountResponse, CountFailure, Finish
    <3>8. CASE UNCHANGED vars
      BY <3>0, <3>8 DEF vars
    <3> QED
      BY <3>0, <3>1, <3>2, <3>3, <3>4, <3>5, <3>6, <3>7, <3>8 DEF Next, Step
  <2> QED
    BY <2>1, <2>2, <2>3 DEF LockedOut
<1>2. TypeOK /\ Placed /\ [Next]_vars => [\A u \in U : LockedOut(u) => LockedOut(u)']_vars
  BY <1>1
<1> QED
  BY <1>2, Accounted, PTL DEF Spec, LockoutIsPermanent
=============================================================================
