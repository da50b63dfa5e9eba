--------------------------- MODULE TcpProxyProofs ----------------------------
(***************************************************************************)
(* For every finite set of connections and every list of upstreams: the    *)
(* gauges of the TCP proxy are exact, the result of each stream reaches    *)
(* its upstream's statistics once, and an undisturbed selection is a       *)
(* least-connections one.                                                  *)
(***************************************************************************)
EXTENDS TcpProxy, FiniteSetTheorems, TLAPS

USE DEF taskVars, metricVars, poolVars, statVars, history, Goto, Unsettle

(* Counters indexed by upstream stay typed, whatever the index. *)

LEMMA Bump ==
  ASSUME NEW S, NEW f \in [S -> Nat], NEW x
  PROVE  [f EXCEPT ![x] = @ + 1] \in [S -> Nat]
<1>1. CASE x \in S
  BY <1>1
<1>2. CASE x \notin S
  BY <1>2
<1> QED
  BY <1>1, <1>2

LEMMA Shift ==
  ASSUME NEW S, NEW f \in [S -> Int], NEW x
  PROVE  /\ [f EXCEPT ![x] = @ + 1] \in [S -> Int]
         /\ [f EXCEPT ![x] = @ - 1] \in [S -> Int]
<1>1. CASE x \in S
  BY <1>1
<1>2. CASE x \notin S
  BY <1>2
<1> QED
  BY <1>1, <1>2

\* The variables keep their types.
THEOREM Typing == Spec => []TypeOK
<1>0. U \subseteq Nat \ {0} /\ 1 \in 1 .. Len(Upstreams) + 1
      /\ \A u \in U : u + 1 \in 1 .. Len(Upstreams) + 1
  BY UpstreamsAssumption DEF U
<1>1. Init => TypeOK
  BY <1>0, UpstreamsAssumption DEF Init, TypeOK, Labels
<1>2. TypeOK /\ [Next]_vars => TypeOK'
  <2> SUFFICES ASSUME TypeOK, [Next]_vars
               PROVE  TypeOK'
    OBVIOUS
  <2> USE DEF TypeOK
  <2>0. \A c, l : l \in Labels => [pc EXCEPT ![c] = l] \in [Conns -> Labels]
    OBVIOUS
  <2>l. {"spawned", "select", "leave", "acquire", "open", "connect", "stream", "ok",
          "err", "recordOk", "recordErr", "done"} \subseteq Labels
    BY DEF Labels
  <2>1. ASSUME NEW c \in Conns, Accept(c)
        PROVE  TypeOK'
    <3>1. pc' \in [Conns -> Labels]
      BY <2>0, <2>l, <2>1 DEF Accept
    <3> QED
      BY <2>1, <3>1 DEF Accept
  <2>2. ASSUME NEW c \in Conns, Enter(c)
        PROVE  TypeOK'
    <3>1. pc' \in [Conns -> Labels]
      BY <2>0, <2>l, <2>2 DEF Enter
    <3> QED
      BY <2>2, <3>1 DEF Enter
  <2>3. ASSUME NEW c \in Conns, Probe(c)
        PROVE  TypeOK'
    <3>1. cursor[c] + 1 \in 1 .. Len(Upstreams) + 1 /\ cursor[c] \in U
      BY <1>0, <2>3 DEF Probe
    <3>2. cursor' \in [Conns -> 1 .. Len(Upstreams) + 1]
      BY <2>3, <3>1 DEF Probe
    <3>3. best' \in [Conns -> {0} \cup U]
      BY <2>3, <3>1 DEF Probe
    <3>4. load' \in [Conns -> Int]
      BY <2>3, <3>1 DEF Probe
    <3> QED
      BY <2>3, <3>2, <3>3, <3>4 DEF Probe
  <2>4. ASSUME NEW c \in Conns, Choose(c)
        PROVE  TypeOK'
    <3>1. pc' \in [Conns -> Labels]
      BY <2>0, <2>l, <2>4 DEF Choose
    <3>2. outcome' \in [Conns -> {"none", "rejected", "refused", "success", "failure"}]
      BY <2>4 DEF Choose
    <3> QED
      BY <2>4, <3>1, <3>2 DEF Choose
  <2>5. ASSUME NEW c \in Conns, Acquire(c)
        PROVE  TypeOK'
    <3>1. pc' \in [Conns -> Labels]
      BY <2>0, <2>l, <2>5 DEF Acquire
    <3>2. connection_pools' \in [U -> Nat]
      <4>1. CASE connection_pools' = connection_pools
        BY <4>1
      <4>2. CASE /\ connection_pools[best[c]] > 0
                 /\ connection_pools' = [connection_pools EXCEPT ![best[c]] = @ - 1]
        <5>1. CASE best[c] \in U
          BY <4>2, <5>1
        <5>2. CASE best[c] \notin U
          BY <4>2, <5>2
        <5> QED
          BY <5>1, <5>2
      <4> QED
        BY <2>5, <4>1, <4>2 DEF Acquire
    <3>3. pool_hits' \in Nat /\ pool_misses' \in Nat
      BY <2>5 DEF Acquire
    <3> QED
      BY <2>5, <3>1, <3>2, <3>3 DEF Acquire
  <2>6. ASSUME NEW c \in Conns, ConnectOk(c)
        PROVE  TypeOK'
    <3>1. pc' \in [Conns -> Labels]
      BY <2>0, <2>l, <2>6 DEF ConnectOk
    <3> QED
      BY <2>6, <3>1 DEF ConnectOk
  <2>7. ASSUME NEW c \in Conns, ConnectFail(c)
        PROVE  TypeOK'
    <3>1. pc' \in [Conns -> Labels]
      BY <2>0, <2>l, <2>7 DEF ConnectFail
    <3>2. outcome' \in [Conns -> {"none", "rejected", "refused", "success", "failure"}]
      BY <2>7 DEF ConnectFail
    <3> QED
      BY <2>7, <3>1, <3>2 DEF ConnectFail
  <2>8. ASSUME NEW c \in Conns, increment_connections(c)
        PROVE  TypeOK'
    <3>1. pc' \in [Conns -> Labels]
      BY <2>0, <2>l, <2>8 DEF increment_connections
    <3>2. active_connections' \in [U -> Int]
      BY <2>8, Shift DEF increment_connections
    <3>3. steady' \in [Conns -> BOOLEAN]
      BY <2>8 DEF increment_connections
    <3> QED
      BY <2>8, <3>1, <3>2, <3>3 DEF increment_connections
  <2>9. ASSUME NEW c \in Conns, EndStream(c)
        PROVE  TypeOK'
    <3>1. pc' \in [Conns -> Labels]
      BY <2>0, <2>l, <2>9 DEF EndStream
    <3>2. outcome' \in [Conns -> {"none", "rejected", "refused", "success", "failure"}]
      BY <2>9 DEF EndStream
    <3> QED
      BY <2>9, <3>1, <3>2 DEF EndStream
  <2>10. ASSUME NEW c \in Conns, decrement_connections(c)
        PROVE  TypeOK'
    <3>1. pc' \in [Conns -> Labels]
      BY <2>0, <2>l, <2>10 DEF decrement_connections
    <3>2. active_connections' \in [U -> Int]
      BY <2>10, Shift DEF decrement_connections
    <3>3. steady' \in [Conns -> BOOLEAN]
      BY <2>10 DEF decrement_connections
    <3> QED
      BY <2>10, <3>1, <3>2, <3>3 DEF decrement_connections
  <2>11. ASSUME NEW c \in Conns, record_success(c)
        PROVE  TypeOK'
    <3>1. pc' \in [Conns -> Labels]
      BY <2>0, <2>l, <2>11 DEF record_success
    <3>2. requests_sent' \in [U -> Nat]
      BY <2>11, Bump DEF record_success
    <3>3. responses_received' \in [U -> Nat]
      BY <2>11, Bump DEF record_success
    <3> QED
      BY <2>11, <3>1, <3>2, <3>3 DEF record_success
  <2>12. ASSUME NEW c \in Conns, record_failure(c)
        PROVE  TypeOK'
    <3>1. pc' \in [Conns -> Labels]
      BY <2>0, <2>l, <2>12 DEF record_failure
    <3>2. requests_sent' \in [U -> Nat]
      BY <2>12, Bump DEF record_failure
    <3>3. failures' \in [U -> Nat]
      BY <2>12, Bump DEF record_failure
    <3> QED
      BY <2>12, <3>1, <3>2, <3>3 DEF record_failure
  <2>13. ASSUME NEW c \in Conns, Leave(c)
        PROVE  TypeOK'
    <3>1. pc' \in [Conns -> Labels]
      BY <2>0, <2>l, <2>13 DEF Leave
    <3> QED
      BY <2>13, <3>1 DEF Leave
  <2>14. CASE Shutdown
    BY <2>14 DEF Shutdown
  <2>15. ASSUME NEW u \in U, SetHealth(u)
         PROVE  TypeOK'
    <3>1. steady' \in [Conns -> BOOLEAN]
      BY <2>15 DEF SetHealth
    <3> QED
      BY <2>15, <3>1 DEF SetHealth
  <2>16. CASE UNCHANGED vars
    BY <2>16 DEF vars
  <2> QED
    BY <2>1, <2>2, <2>3, <2>4, <2>5, <2>6, <2>7, <2>8, <2>9, <2>10, <2>11,
       <2>12, <2>13, <2>14, <2>15, <2>16 DEF Next, TaskStep
<1> QED
  BY <1>1, <1>2, PTL DEF Spec

-----------------------------------------------------------------------------
(* A connection that joins or leaves a set the gauges count. *)

LEMMA Joins ==
  ASSUME NEW S \in SUBSET Conns, NEW c \in Conns \ S
  PROVE  Cardinality(S \cup {c}) = Cardinality(S) + 1
BY ConnsAssumption, FS_Subset, FS_AddElement

LEMMA Quits ==
  ASSUME NEW S \in SUBSET Conns, NEW c \in S
  PROVE  Cardinality(S \ {c}) = Cardinality(S) - 1
BY ConnsAssumption, FS_Subset, FS_RemoveElement

\* Past the selection a connection has an upstream, and from the end of its
\* copies to the recording the task is on the branch of their result.
Attached ==
  \A c \in Conns :
     /\ pc[c] \in {"acquire", "connect", "open", "stream", "ok", "err",
                   "recordOk", "recordErr"} => best[c] \in U
     /\ pc[c] \notin {"ok", "err", "recordOk", "recordErr", "leave", "done"}
          => outcome[c] = "none"
     /\ pc[c] \in {"ok", "recordOk"} => outcome[c] = "success"
     /\ pc[c] \in {"err", "recordErr"} => outcome[c] = "failure"

LEMMA AttachedInvariant == Spec => []Attached
<1>1. Init => Attached
  BY DEF Init, Attached
<1>2. TypeOK /\ Attached /\ [Next]_vars => Attached'
  <2> SUFFICES ASSUME TypeOK, Attached, [Next]_vars
               PROVE  Attached'
    OBVIOUS
  <2> USE DEF TypeOK, Attached
  <2>1. ASSUME NEW c \in Conns,
               \/ Accept(c) \/ Enter(c) \/ Acquire(c) \/ ConnectOk(c)
               \/ increment_connections(c) \/ Leave(c)
        PROVE  Attached'
    BY <2>1 DEF Accept, Enter, Acquire, ConnectOk, increment_connections, Leave
  <2>2. ASSUME NEW c \in Conns, Probe(c)
        PROVE  Attached'
    BY <2>2 DEF Probe
  <2>3. ASSUME NEW c \in Conns, Choose(c)
        PROVE  Attached'
    BY <2>3 DEF Choose
  <2>4. ASSUME NEW c \in Conns,
               ConnectFail(c) \/ record_success(c) \/ record_failure(c)
        PROVE  Attached'
    BY <2>4 DEF ConnectFail, record_success, record_failure
  <2>5. CASE Shutdown \/ (\E u \in U : SetHealth(u)) \/ UNCHANGED vars
    BY <2>5 DEF Shutdown, SetHealth, vars
  <2>6. ASSUME NEW c \in Conns, EndStream(c)
        PROVE  Attached'
    BY <2>6 DEF EndStream
  <2>7. ASSUME NEW c \in Conns, decrement_connections(c)
        PROVE  Attached'
    BY <2>7 DEF decrement_connections
  <2> QED
    BY <2>1, <2>2, <2>3, <2>4, <2>5, <2>6, <2>7 DEF Next, TaskStep
<1> QED
  BY <1>1, <1>2, Typing, PTL DEF Spec

-----------------------------------------------------------------------------
\* The connection gauges never leak and never fall below the truth
\* (handle_connection, stream_bidirectional).
THEOREM GaugesAreExact == Spec => []GaugesExact
<1>1. Init => GaugesExact
  <2> SUFFICES ASSUME Init
               PROVE  GaugesExact
    OBVIOUS
  <2>1. Inside = {} /\ \A u \in U : Streaming(u) = {}
    BY DEF Init, Inside, Streaming
  <2> QED
    BY <2>1, FS_EmptySet DEF Init, GaugesExact
<1>2. TypeOK /\ Attached /\ GaugesExact /\ [Next]_vars => GaugesExact'
  <2> SUFFICES ASSUME TypeOK, Attached, GaugesExact, [Next]_vars
               PROVE  GaugesExact'
    OBVIOUS
  <2> USE DEF TypeOK
  <2>0. ASSUME Inside' = Inside, \A u \in U : Streaming(u)' = Streaming(u),
               UNCHANGED <<connections_active, active_connections>>
        PROVE  GaugesExact'
    BY <2>0 DEF GaugesExact
  <2>1. ASSUME NEW c \in Conns,
               \/ Accept(c) \/ Probe(c) \/ Choose(c) \/ Acquire(c)
               \/ ConnectOk(c) \/ ConnectFail(c) \/ EndStream(c)
               \/ record_success(c) \/ record_failure(c)
        PROVE  GaugesExact'
    <3>1. Inside' = Inside
      BY <2>1 DEF Inside, Accept, Probe, Choose, Acquire, ConnectOk,
         ConnectFail, EndStream, record_success, record_failure
    <3>2. \A u \in U : Streaming(u)' = Streaming(u)
      BY <2>1 DEF Streaming, Accept, Probe, Choose, Acquire, ConnectOk,
         ConnectFail, EndStream, record_success, record_failure
    <3>3. UNCHANGED <<connections_active, active_connections>>
      BY <2>1 DEF Accept, Probe, Choose, Acquire, ConnectOk,
         ConnectFail, EndStream, record_success, record_failure
    <3> QED
      BY <2>0, <3>1, <3>2, <3>3
  <2>2. ASSUME NEW c \in Conns, Enter(c)
        PROVE  GaugesExact'
    <3>1. Inside' = Inside \cup {c} /\ c \notin Inside /\ Inside \subseteq Conns
      BY <2>2 DEF Enter, Inside
    <3>2. \A u \in U : Streaming(u)' = Streaming(u)
      BY <2>2 DEF Enter, Streaming
    <3> QED
      BY <2>2, <3>1, <3>2, Joins DEF Enter, GaugesExact
  <2>3. ASSUME NEW c \in Conns, Leave(c)
        PROVE  GaugesExact'
    <3>1. Inside' = Inside \ {c} /\ c \in Inside /\ Inside \subseteq Conns
      BY <2>3 DEF Leave, Inside
    <3>2. \A u \in U : Streaming(u)' = Streaming(u)
      BY <2>3 DEF Leave, Streaming
    <3> QED
      BY <2>3, <3>1, <3>2, Quits DEF Leave, GaugesExact
  <2>4. ASSUME NEW c \in Conns, increment_connections(c)
        PROVE  GaugesExact'
    <3>1. best[c] \in U /\ Inside' = Inside
      BY <2>4 DEF increment_connections, Attached, Inside
    <3>2. ASSUME NEW u \in U
          PROVE  active_connections'[u] = Cardinality(Streaming(u)')
      <4>1. CASE u = best[c]
        <5>1. /\ Streaming(u)' = Streaming(u) \cup {c}
              /\ c \notin Streaming(u) /\ Streaming(u) \subseteq Conns
          BY <2>4, <4>1 DEF increment_connections, Streaming
        <5>2. Cardinality(Streaming(u)') = Cardinality(Streaming(u)) + 1
          BY <5>1, Joins
        <5>3. active_connections'[u] = active_connections[u] + 1
          BY <2>4, <4>1 DEF increment_connections
        <5> QED
          BY <5>2, <5>3 DEF GaugesExact
      <4>2. CASE u # best[c]
        <5>1. Streaming(u)' = Streaming(u)
          BY <2>4, <4>2 DEF increment_connections, Streaming
        <5> QED
          BY <2>4, <4>2, <5>1 DEF increment_connections, GaugesExact
      <4> QED
        BY <4>1, <4>2
    <3> QED
      BY <2>4, <3>1, <3>2 DEF increment_connections, GaugesExact
  <2>5. ASSUME NEW c \in Conns, decrement_connections(c)
        PROVE  GaugesExact'
    <3>1. best[c] \in U /\ Inside' = Inside
      BY <2>5 DEF decrement_connections, Attached, Inside
    <3>2. ASSUME NEW u \in U
          PROVE  active_connections'[u] = Cardinality(Streaming(u)')
      <4>1. CASE u = best[c]
        <5>1. /\ Streaming(u)' = Streaming(u) \ {c}
              /\ c \in Streaming(u) /\ Streaming(u) \subseteq Conns
          BY <2>5, <4>1 DEF decrement_connections, Streaming
        <5>2. Cardinality(Streaming(u)') = Cardinality(Streaming(u)) - 1
          BY <5>1, Quits
        <5>3. active_connections'[u] = active_connections[u] - 1
          BY <2>5, <4>1 DEF decrement_connections
        <5> QED
          BY <5>2, <5>3 DEF GaugesExact
      <4>2. CASE u # best[c]
        <5>1. Streaming(u)' = Streaming(u)
          BY <2>5, <4>2 DEF decrement_connections, Streaming
        <5> QED
          BY <2>5, <4>2, <5>1 DEF decrement_connections, GaugesExact
      <4> QED
        BY <4>1, <4>2
    <3> QED
      BY <2>5, <3>1, <3>2 DEF decrement_connections, GaugesExact
  <2>6. CASE Shutdown \/ (\E u \in U : SetHealth(u)) \/ UNCHANGED vars
    BY <2>0, <2>6 DEF Shutdown, SetHealth, vars, Inside, Streaming
  <2> QED
    BY <2>1, <2>2, <2>3, <2>4, <2>5, <2>6 DEF Next, TaskStep
<1> QED
  BY <1>1, <1>2, Typing, AttachedInvariant, PTL DEF Spec

-----------------------------------------------------------------------------
\* The result of a stream reaches the statistics of its upstream, once, on
\* both branches (stream_bidirectional).
THEOREM OutcomesAreRecordedOnce == Spec => []OutcomesRecordedOnce
<1>1. Init => OutcomesRecordedOnce
  <2> SUFFICES ASSUME Init
               PROVE  OutcomesRecordedOnce
    OBVIOUS
  <2>1. \A u \in U : Settled(u, "success") = {} /\ Settled(u, "failure") = {}
    BY DEF Init, Settled
  <2> QED
    BY <2>1, FS_EmptySet DEF Init, OutcomesRecordedOnce
<1>2. TypeOK /\ Attached /\ OutcomesRecordedOnce /\ [Next]_vars
        => OutcomesRecordedOnce'
  <2> SUFFICES ASSUME TypeOK, Attached, OutcomesRecordedOnce, [Next]_vars
               PROVE  OutcomesRecordedOnce'
    OBVIOUS
  <2> USE DEF TypeOK
  <2>0. ASSUME UNCHANGED statVars,
               \A u \in U : /\ Settled(u, "success")' = Settled(u, "success")
                            /\ Settled(u, "failure")' = Settled(u, "failure")
        PROVE  OutcomesRecordedOnce'
    BY <2>0 DEF OutcomesRecordedOnce
  <2>1. ASSUME NEW c \in Conns,
               \/ Accept(c) \/ Enter(c) \/ Acquire(c) \/ ConnectOk(c)
               \/ increment_connections(c) \/ decrement_connections(c)
               \/ Leave(c) \/ Probe(c) \/ EndStream(c)
        PROVE  OutcomesRecordedOnce'
    <3>1. /\ UNCHANGED statVars
          /\ pc[c] \in {"leave", "done"} <=> pc'[c] \in {"leave", "done"}
          /\ pc[c] \in {"leave", "done"} => best'[c] = best[c] /\ outcome'[c] = outcome[c]
      BY <2>1 DEF Accept, Enter, Acquire, ConnectOk, increment_connections,
         decrement_connections, Leave, Probe, EndStream
    <3>2. \A d \in Conns \ {c} : /\ pc'[d] = pc[d] /\ best'[d] = best[d]
                                 /\ outcome'[d] = outcome[d]
      BY <2>1 DEF Accept, Enter, Acquire, ConnectOk, increment_connections,
         decrement_connections, Leave, Probe, EndStream
    <3>3. \A u \in U : /\ Settled(u, "success")' = Settled(u, "success")
                       /\ Settled(u, "failure")' = Settled(u, "failure")
      BY <3>1, <3>2 DEF Settled
    <3> QED
      BY <2>0, <3>1, <3>3
  <2>2. ASSUME NEW c \in Conns, Choose(c) \/ ConnectFail(c)
        PROVE  OutcomesRecordedOnce'
    <3>1. /\ pc[c] \notin {"leave", "done"} /\ UNCHANGED <<best, statVars>>
          /\ outcome'[c] \in {"none", "rejected", "refused"}
          /\ \A d \in Conns \ {c} : pc'[d] = pc[d] /\ outcome'[d] = outcome[d]
      BY <2>2 DEF Choose, ConnectFail, Attached
    <3>2. \A u \in U : /\ Settled(u, "success")' = Settled(u, "success")
                       /\ Settled(u, "failure")' = Settled(u, "failure")
      BY <3>1 DEF Settled
    <3> QED
      BY <2>0, <3>1, <3>2
  <2>3. ASSUME NEW c \in Conns, record_success(c), NEW u \in U
        PROVE  /\ responses_received'[u] = Cardinality(Settled(u, "success")')
               /\ failures'[u] = Cardinality(Settled(u, "failure")')
               /\ requests_sent'[u] = responses_received'[u] + failures'[u]
    <3>1. outcome[c] = "success" /\ best[c] \in U
      BY <2>3 DEF record_success, Attached
    <3>2. Settled(u, "failure")' = Settled(u, "failure")
      BY <2>3, <3>1 DEF record_success, Settled
    <3>3. CASE u = best[c]
      <4>1. /\ Settled(u, "success")' = Settled(u, "success") \cup {c}
            /\ c \notin Settled(u, "success") /\ Settled(u, "success") \subseteq Conns
        BY <2>3, <3>1, <3>3 DEF record_success, Settled
      <4>2. Cardinality(Settled(u, "success")') = Cardinality(Settled(u, "success")) + 1
        BY <4>1, Joins
      <4> QED
        BY <2>3, <3>2, <3>3, <4>2 DEF record_success, OutcomesRecordedOnce
    <3>4. CASE u # best[c]
      <4>1. Settled(u, "success")' = Settled(u, "success")
        BY <2>3, <3>1, <3>4 DEF record_success, Settled
      <4> QED
        BY <2>3, <3>2, <3>4, <4>1 DEF record_success, OutcomesRecordedOnce
    <3> QED
      BY <3>3, <3>4
  <2>4. ASSUME NEW c \in Conns, record_failure(c), NEW u \in U
        PROVE  /\ responses_received'[u] = Cardinality(Settled(u, "success")')
               /\ failures'[u] = Cardinality(Settled(u, "failure")')
               /\ requests_sent'[u] = responses_received'[u] + failures'[u]
    <3>1. outcome[c] = "failure" /\ best[c] \in U
      BY <2>4 DEF record_failure, Attached
    <3>2. Settled(u, "success")' = Settled(u, "success")
      BY <2>4, <3>1 DEF record_failure, Settled
    <3>3. CASE u = best[c]
      <4>1. /\ Settled(u, "failure")' = Settled(u, "failure") \cup {c}
            /\ c \notin Settled(u, "failure") /\ Settled(u, "failure") \subseteq Conns
        BY <2>4, <3>1, <3>3 DEF record_failure, Settled
      <4>2. Cardinality(Settled(u, "failure")') = Cardinality(Settled(u, "failure")) + 1
        BY <4>1, Joins
      <4> QED
        BY <2>4, <3>2, <3>3, <4>2 DEF record_failure, OutcomesRecordedOnce
    <3>4. CASE u # best[c]
      <4>1. Settled(u, "failure")' = Settled(u, "failure")
        BY <2>4, <3>1, <3>4 DEF record_failure, Settled
      <4> QED
        BY <2>4, <3>2, <3>4, <4>1 DEF record_failure, OutcomesRecordedOnce
    <3> QED
      BY <3>3, <3>4
  <2>5. CASE Shutdown \/ (\E u \in U : SetHealth(u)) \/ UNCHANGED vars
    BY <2>0, <2>5 DEF Shutdown, SetHealth, vars, Settled
  <2>6. ASSUME NEW c \in Conns, record_success(c) \/ record_failure(c)
        PROVE  OutcomesRecordedOnce'
    BY <2>3, <2>4, <2>6 DEF OutcomesRecordedOnce
  <2> QED
    BY <2>1, <2>2, <2>5, <2>6 DEF Next, TaskStep
<1> QED
  BY <1>1, <1>2, Typing, AttachedInvariant, PTL DEF Spec

-----------------------------------------------------------------------------
(* The scan of select_least_connections. *)

\* best is the first least-loaded available upstream before position n.
LeastBefore(c, n) ==
  IF best[c] = 0
  THEN \A u \in U : u < n => ~is_available(u)
  ELSE /\ best[c] < n
       /\ is_available(best[c])
       /\ load[c] = active_connections[best[c]]
       /\ \A u \in U : u < n /\ is_available(u) =>
             /\ load[c] <= active_connections[u]
             /\ u < best[c] => load[c] < active_connections[u]

ScanInv ==
  \A c \in Conns :
     /\ pc[c] \in {"waiting", "spawned"} => cursor[c] = 1 /\ best[c] = 0
     /\ pc[c] = "select" /\ steady[c] => LeastBefore(c, cursor[c])

LEMMA ScanInvariant == Spec => []ScanInv
<1>0. U \subseteq Nat \ {0}
  BY UpstreamsAssumption DEF U
<1>1. Init => ScanInv
  BY DEF Init, ScanInv
<1>2. TypeOK /\ ScanInv /\ [Next]_vars => ScanInv'
  <2> SUFFICES ASSUME TypeOK, ScanInv, [Next]_vars,
                      NEW d \in Conns
               PROVE  /\ pc'[d] \in {"waiting", "spawned"}
                            => cursor'[d] = 1 /\ best'[d] = 0
                      /\ pc'[d] = "select" /\ steady'[d]
                            => LeastBefore(d, cursor[d])'
    BY DEF ScanInv
  <2> DEFINE Goal == /\ pc'[d] \in {"waiting", "spawned"}
                          => cursor'[d] = 1 /\ best'[d] = 0
                     /\ pc'[d] = "select" /\ steady'[d]
                          => LeastBefore(d, cursor[d])'
  <2>d. /\ pc[d] \in {"waiting", "spawned"} => cursor[d] = 1 /\ best[d] = 0
        /\ pc[d] = "select" /\ steady[d] => LeastBefore(d, cursor[d])
    BY DEF ScanInv
  <2> USE DEF TypeOK
  <2>0. ASSUME UNCHANGED <<cursor, best, load, active_connections, health_state,
                           steady>>,
               \/ pc'[d] = pc[d]
               \/ pc'[d] \notin {"waiting", "spawned", "select"}
        PROVE  Goal
    BY <2>0, <2>d DEF LeastBefore, is_available
  <2>1. ASSUME NEW c \in Conns,
               \/ Choose(c) \/ Acquire(c) \/ ConnectOk(c) \/ ConnectFail(c)
               \/ EndStream(c) \/ record_success(c) \/ record_failure(c)
               \/ Leave(c)
        PROVE  Goal
    <3>1. UNCHANGED <<cursor, best, load, active_connections, health_state, steady>>
      BY <2>1 DEF Choose, Acquire, ConnectOk, ConnectFail, EndStream,
         record_success, record_failure, Leave
    <3>2. \/ pc'[d] = pc[d]
          \/ pc'[d] \notin {"waiting", "spawned", "select"}
      BY <2>1 DEF Choose, Acquire, ConnectOk, ConnectFail, EndStream,
         record_success, record_failure, Leave
    <3> QED
      BY <2>0, <3>1, <3>2
  <2>2. ASSUME NEW c \in Conns, Accept(c) \/ Enter(c)
        PROVE  Goal
    <3>1. UNCHANGED <<cursor, best, load, active_connections, health_state, steady>>
      BY <2>2 DEF Accept, Enter
    <3>2. CASE d # c
      BY <2>0, <2>2, <3>1, <3>2 DEF Accept, Enter
    <3>3. CASE d = c
      <4>1. cursor'[d] = 1 /\ best'[d] = 0
        BY <2>2, <2>d, <3>1, <3>3 DEF Accept, Enter
      <4>2. LeastBefore(d, cursor[d])'
        BY <1>0, <4>1 DEF LeastBefore
      <4> QED
        BY <4>1, <4>2
    <3> QED
      BY <3>2, <3>3
  <2>3. ASSUME NEW c \in Conns, Probe(c)
        PROVE  Goal
    <3>0. UNCHANGED <<pc, active_connections, health_state, steady>>
      BY <2>3 DEF Probe
    <3>1. CASE d # c
      <4>1. cursor'[d] = cursor[d] /\ best'[d] = best[d] /\ load'[d] = load[d]
        BY <2>3, <3>1 DEF Probe
      <4> QED
        BY <2>d, <3>0, <4>1 DEF LeastBefore, is_available
    <3>2. CASE d = c /\ steady[c]
      <4> DEFINE n == cursor[c]
      <4>0. n \in U /\ n \in Nat /\ cursor'[c] = n + 1 /\ pc[c] = "select"
        BY <1>0, <2>3 DEF Probe
      <4>1. LeastBefore(c, n)
        BY <2>d, <3>2, <4>0
      <4>a. \A u : is_available(u)' <=> is_available(u)
        BY <3>0 DEF is_available
      <4>u. \A u \in U : u \in Nat /\ (u < n + 1 <=> u < n \/ u = n)
        BY <1>0, <4>0
      <4>2. CASE is_available(n) /\ (best[c] = 0 \/ active_connections[n] < load[c])
        <5>1. best'[c] = n /\ load'[c] = active_connections[n]
          BY <2>3, <4>2 DEF Probe
        <5>2. ASSUME NEW u \in U, u < n, is_available(u)
              PROVE  active_connections[n] < active_connections[u]
          <6>1. best[c] # 0 /\ load[c] <= active_connections[u]
            BY <4>1, <5>2 DEF LeastBefore
          <6> QED
            BY <4>0, <4>2, <6>1
        <5>3. \A u \in U : u < n + 1 /\ is_available(u) =>
                 /\ active_connections[n] <= active_connections[u]
                 /\ u < n => active_connections[n] < active_connections[u]
          BY <4>0, <4>u, <5>2
        <5>4. n # 0 /\ n < n + 1
          BY <1>0, <4>0
        <5>5. LeastBefore(c, cursor[c])'
          BY <3>0, <4>0, <4>2, <4>a, <5>1, <5>3, <5>4 DEF LeastBefore
        <5> QED
          BY <3>0, <3>2, <4>0, <5>5
      <4>3. CASE ~(is_available(n) /\ (best[c] = 0 \/ active_connections[n] < load[c]))
        <5>1. best'[c] = best[c] /\ load'[c] = load[c]
          BY <2>3, <4>3 DEF Probe
        <5>2. LeastBefore(c, n + 1)
          <6>1. CASE best[c] = 0
            BY <4>1, <4>3, <4>u, <6>1 DEF LeastBefore
          <6>2. CASE best[c] # 0
            <7>1. best[c] \in U /\ best[c] < n + 1 /\ best[c] < n
              BY <4>0, <4>1, <4>u, <6>2 DEF LeastBefore
            <7>2. is_available(n) => load[c] <= active_connections[n]
              BY <4>0, <4>3
            <7>3. ~(n < best[c])
              BY <4>0, <4>u, <7>1
            <7> QED
              BY <4>1, <4>u, <6>2, <7>1, <7>2, <7>3 DEF LeastBefore
          <6> QED
            BY <6>1, <6>2
        <5>3. LeastBefore(c, cursor[c])'
          BY <3>0, <4>0, <4>a, <5>1, <5>2 DEF LeastBefore
        <5> QED
          BY <3>0, <3>2, <4>0, <5>3
      <4> QED
        BY <4>2, <4>3
    <3>3. CASE d = c /\ ~steady[c]
      BY <2>3, <3>3 DEF Probe
    <3> QED
      BY <3>1, <3>2, <3>3
  <2>4. ASSUME NEW c \in Conns, increment_connections(c) \/ decrement_connections(c)
        PROVE  Goal
    <3>1. pc'[d] = pc[d] \/ pc'[d] \in {"stream", "recordOk", "recordErr"}
      BY <2>4 DEF increment_connections, decrement_connections
    <3>2. pc[d] = "select" => ~steady'[d]
      BY <2>4 DEF increment_connections, decrement_connections
    <3>3. UNCHANGED <<cursor, best>>
      BY <2>4 DEF increment_connections, decrement_connections
    <3> QED
      BY <2>d, <3>1, <3>2, <3>3
  <2>5. ASSUME NEW u \in U, SetHealth(u)
        PROVE  Goal
    BY <2>5, <2>d DEF SetHealth
  <2>6. CASE Shutdown \/ UNCHANGED vars
    BY <2>0, <2>6 DEF Shutdown, vars
  <2> QED
    BY <2>1, <2>2, <2>3, <2>4, <2>5, <2>6 DEF Next, TaskStep
<1> QED
  BY <1>1, <1>2, Typing, PTL DEF Spec

\* An undisturbed selection returns the first least-loaded available
\* upstream, and none only if none is available.
THEOREM SteadyChoices == Spec => SteadyChoiceIsLeast
<1> DEFINE Chosen(c) ==
      pc[c] = "select" /\ pc'[c] # "select" /\ steady[c] =>
        IF best[c] = 0
        THEN \A u \in U : ~is_available(u)
        ELSE /\ is_available(best[c])
             /\ \A u \in U : is_available(u) =>
                   /\ active_connections[best[c]] <= active_connections[u]
                   /\ u < best[c] => active_connections[best[c]] <
                                        active_connections[u]
<1>1. TypeOK /\ ScanInv /\ [Next]_vars => [\A c \in Conns : Chosen(c)]_vars
  <2> SUFFICES ASSUME TypeOK, ScanInv, Next, NEW c \in Conns,
                      pc[c] = "select", pc'[c] # "select", steady[c]
               PROVE  IF best[c] = 0
                      THEN \A u \in U : ~is_available(u)
                      ELSE /\ is_available(best[c])
                           /\ \A u \in U : is_available(u) =>
                                 /\ active_connections[best[c]] <= active_connections[u]
                                 /\ u < best[c] => active_connections[best[c]] <
                                                      active_connections[u]
    OBVIOUS
  <2>1. cursor[c] \notin U
    <3>1. ASSUME NEW d \in Conns, d # c, Accept(d) \/ TaskStep(d) \/ EndStream(d)
          PROVE  FALSE
      BY <3>1 DEF TypeOK, Accept, EndStream, TaskStep, Enter, Probe, Choose,
         Acquire, ConnectOk, ConnectFail, increment_connections,
         decrement_connections, record_success, record_failure, Leave
    <3>2. ~Accept(c) /\ ~EndStream(c) /\ (TaskStep(c) => Choose(c))
      BY DEF TypeOK, Accept, EndStream, TaskStep, Enter, Probe,
         Acquire, ConnectOk, ConnectFail, increment_connections,
         decrement_connections, record_success, record_failure, Leave
    <3>3. ~Shutdown /\ \A u \in U : ~SetHealth(u)
      BY DEF Shutdown, SetHealth
    <3>4. Choose(c)
      BY <3>1, <3>2, <3>3 DEF Next
    <3> QED
      BY <3>4 DEF Choose
  <2>2. \A u \in U : u < cursor[c]
    BY <2>1, UpstreamsAssumption DEF TypeOK, U
  <2>3. LeastBefore(c, cursor[c])
    BY DEF ScanInv
  <2> QED
    BY <2>2, <2>3 DEF LeastBefore
<1> QED
  BY <1>1, Typing, ScanInvariant, PTL DEF Spec, SteadyChoiceIsLeast
=============================================================================
