------------------------------ MODULE TcpProxy -------------------------------
(***************************************************************************)
(* The TCP proxy of proxy/tcp.rs, with the least-connections selection of  *)
(* routing.rs it is always given (router.rs).  The accept loop spawns one  *)
(* task per client connection; each task selects an upstream, connects to  *)
(* it, streams until the first direction ends, and records the outcome.    *)
(*                                                                         *)
(* A step is the code between two awaits or between two accesses of a      *)
(* counter that other tasks write.  record_success and record_failure are  *)
(* one step here; UpstreamStats takes them apart.  Durations and byte      *)
(* counts are left out.  The upstream list of a TCP router never changes   *)
(* after start, and its names are distinct (ProxyInstanceConfig::validate).*)
(***************************************************************************)
EXTENDS Integers, Sequences, FiniteSets

CONSTANTS
    Conns,             \* client connections
    Upstreams,         \* the configured upstreams, in order
    connection_pooling,
    HealthUpdates      \* does somebody call update_upstream_health?  Nothing
                       \* in the program does

ASSUME ConnsAssumption == IsFiniteSet(Conns)
ASSUME UpstreamsAssumption == Len(Upstreams) \in Nat \ {0}
ASSUME FlagsAssumption ==
    connection_pooling \in BOOLEAN /\ HealthUpdates \in BOOLEAN

U == 1 .. Len(Upstreams)     \* upstreams by position; 0 stands for none

VARIABLES
    accepting,               \* the accept loop runs
    pc,                      \* where each connection's task is
    cursor, best, load,      \* its scan: next position, minimum so far and the
                             \* gauge value loaded there; afterwards best is
                             \* the upstream of the connection
    connections_total, connections_active,         \* TcpProxyMetrics
    pool_hits, pool_misses, connection_pools,
    health_state, active_connections,              \* per upstream
    requests_sent, responses_received, failures,
    steady,                  \* history: nothing the scan reads has changed
    outcome                  \* history: how the selection, the connect or the
                             \* copies of the connection ended

taskVars == <<pc, cursor, best, load>>
metricVars == <<connections_total, connections_active>>
poolVars == <<pool_hits, pool_misses, connection_pools>>
statVars == <<requests_sent, responses_received, failures>>
history == <<steady, outcome>>
vars == <<accepting, taskVars, metricVars, poolVars, health_state,
          active_connections, statVars, history>>

Init ==
    /\ accepting = TRUE
    /\ pc = [c \in Conns |-> "waiting"]
    /\ cursor = [c \in Conns |-> 1]
    /\ best = [c \in Conns |-> 0]
    /\ load = [c \in Conns |-> 0]
    /\ connections_total = 0 /\ connections_active = 0
    /\ pool_hits = 0 /\ pool_misses = 0
    /\ connection_pools = [u \in U |-> 0]
    /\ health_state = [u \in U |-> "Unknown"]
    /\ active_connections = [u \in U |-> 0]
    /\ requests_sent = [u \in U |-> 0]
    /\ responses_received = [u \in U |-> 0]
    /\ failures = [u \in U |-> 0]
    /\ steady = [c \in Conns |-> TRUE]
    /\ outcome = [c \in Conns |-> "none"]

is_available(u) == health_state[u] \in {"Healthy", "Unknown"}

Goto(c, label) == pc' = [pc EXCEPT ![c] = label]

\* A write to a gauge or a health state unsettles the scans in progress.
Unsettle == steady' = [c \in Conns |-> steady[c] /\ pc[c] # "select"]

-----------------------------------------------------------------------------
(* start: the accept loop *)

Accept(c) ==
    /\ accepting
    /\ pc[c] = "waiting"
    /\ Goto(c, "spawned")
    /\ UNCHANGED <<accepting, cursor, best, load, metricVars, poolVars,
                   health_state, active_connections, statVars, history>>

\* The loop ends; the tasks it has spawned are not told.
Shutdown ==
    /\ accepting
    /\ accepting' = FALSE
    /\ UNCHANGED <<taskVars, metricVars, poolVars, health_state,
                   active_connections, statVars, history>>

(* handle_connection, process_connection: entry *)

Enter(c) ==
    /\ pc[c] = "spawned"
    /\ connections_total' = connections_total + 1
    /\ connections_active' = connections_active + 1
    /\ Goto(c, "select")
    /\ UNCHANGED <<accepting, cursor, best, load, poolVars, health_state,
                   active_connections, statVars, history>>

(* select_least_connections *)

\* Faulty: the last of equals is kept.
ProbeLast(c) ==
    /\ pc[c] = "select"
    /\ cursor[c] \in U
    /\ LET u == cursor[c]
       IN  IF is_available(u) /\ (best[c] = 0 \/ active_connections[u] <= load[c])
           THEN /\ best' = [best EXCEPT ![c] = u]
                /\ load' = [load EXCEPT ![c] = active_connections[u]]
           ELSE UNCHANGED <<best, load>>
    /\ cursor' = [cursor EXCEPT ![c] = @ + 1]
    /\ UNCHANGED <<accepting, pc, metricVars, poolVars, health_state,
                   active_connections, statVars, history>>

\* filter and min_by_key on one upstream; the first of equals is kept.  The
\* filter's read of the health state and the load of the gauge are one step.
Probe(c) ==
    /\ pc[c] = "select"
    /\ cursor[c] \in U
    /\ LET u == cursor[c]
       IN  IF is_available(u) /\ (best[c] = 0 \/ active_connections[u] < load[c])
           THEN /\ best' = [best EXCEPT ![c] = u]
                /\ load' = [load EXCEPT ![c] = active_connections[u]]
           ELSE UNCHANGED <<best, load>>
    /\ cursor' = [cursor EXCEPT ![c] = @ + 1]
    /\ UNCHANGED <<accepting, pc, metricVars, poolVars, health_state,
                   active_connections, statVars, history>>

\* "No healthy upstream available" ends the connection.
Choose(c) ==
    /\ pc[c] = "select"
    /\ cursor[c] \notin U
    /\ IF best[c] = 0
       THEN /\ Goto(c, "leave")
            /\ outcome' = [outcome EXCEPT ![c] = "rejected"]
       ELSE /\ Goto(c, "acquire")
            /\ UNCHANGED outcome
    /\ UNCHANGED <<accepting, cursor, best, load, metricVars, poolVars,
                   health_state, active_connections, statVars, steady>>

(* get_upstream_connection *)

\* Faulty: the pool is popped without looking whether it holds a connection.
AcquireUnchecked(c) ==
    /\ pc[c] = "acquire"
    /\ connection_pools' = [connection_pools EXCEPT ![best[c]] = @ - 1]
    /\ pool_hits' = pool_hits + 1
    /\ Goto(c, "open")
    /\ UNCHANGED <<accepting, cursor, best, load, metricVars, pool_misses,
                   health_state, active_connections, statVars, history>>

\* try_get_pooled_connection; an expired connection is popped like any other
\* and dropped.  Nothing ever puts a connection into a pool: the only push is
\* in return_connection_to_pool, which has no caller.
Acquire(c) ==
    /\ pc[c] = "acquire"
    /\ IF connection_pooling /\ connection_pools[best[c]] > 0
       THEN /\ connection_pools' = [connection_pools EXCEPT ![best[c]] = @ - 1]
            /\ pool_hits' = pool_hits + 1
            /\ Goto(c, "open")
            /\ UNCHANGED pool_misses
       ELSE /\ pool_misses' = pool_misses + 1
            /\ Goto(c, "connect")
            /\ UNCHANGED <<connection_pools, pool_hits>>
    /\ UNCHANGED <<accepting, cursor, best, load, metricVars, health_state,
                   active_connections, statVars, history>>

ConnectOk(c) ==
    /\ pc[c] = "connect"
    /\ Goto(c, "open")
    /\ UNCHANGED <<accepting, cursor, best, load, metricVars, poolVars,
                   health_state, active_connections, statVars, history>>

\* Refused, unreachable or past the timeout: the error goes to the log only.
ConnectFail(c) ==
    /\ pc[c] = "connect"
    /\ Goto(c, "leave")
    /\ outcome' = [outcome EXCEPT ![c] = "refused"]
    /\ UNCHANGED <<accepting, cursor, best, load, metricVars, poolVars,
                   health_state, active_connections, statVars, steady>>

(* stream_bidirectional *)

increment_connections(c) ==
    /\ pc[c] = "open"
    /\ active_connections' = [active_connections EXCEPT ![best[c]] = @ + 1]
    /\ Unsettle
    /\ Goto(c, "stream")
    /\ UNCHANGED <<accepting, cursor, best, load, metricVars, poolVars,
                   health_state, statVars, outcome>>

\* The first direction to end decides: at end of file, or with an error.
EndStream(c) ==
    /\ pc[c] = "stream"
    /\ \/ Goto(c, "ok") /\ outcome' = [outcome EXCEPT ![c] = "success"]
       \/ Goto(c, "err") /\ outcome' = [outcome EXCEPT ![c] = "failure"]
    /\ UNCHANGED <<accepting, cursor, best, load, metricVars, poolVars,
                   health_state, active_connections, statVars, steady>>

\* Faulty: an error leaves stream_bidirectional before the decrement.
decrement_on_success(c) ==
    /\ pc[c] \in {"ok", "err"}
    /\ active_connections' = IF pc[c] = "err" THEN active_connections
                             ELSE [active_connections EXCEPT ![best[c]] = @ - 1]
    /\ Unsettle
    /\ Goto(c, IF pc[c] = "ok" THEN "recordOk" ELSE "recordErr")
    /\ UNCHANGED <<accepting, cursor, best, load, metricVars, poolVars,
                   health_state, statVars, outcome>>

\* Faulty: an error is passed on by ? before the match that records it.
decrement_then_return(c) ==
    /\ pc[c] \in {"ok", "err"}
    /\ active_connections' = [active_connections EXCEPT ![best[c]] = @ - 1]
    /\ Unsettle
    /\ Goto(c, IF pc[c] = "ok" THEN "recordOk" ELSE "leave")
    /\ UNCHANGED <<accepting, cursor, best, load, metricVars, poolVars,
                   health_state, statVars, outcome>>

\* Faulty: after an error the task never gets to the decrement.
decrement_unreached(c) ==
    /\ pc[c] = "ok"
    /\ active_connections' = [active_connections EXCEPT ![best[c]] = @ - 1]
    /\ Unsettle
    /\ Goto(c, "recordOk")
    /\ UNCHANGED <<accepting, cursor, best, load, metricVars, poolVars,
                   health_state, statVars, outcome>>

decrement_connections(c) ==
    /\ pc[c] \in {"ok", "err"}
    /\ active_connections' = [active_connections EXCEPT ![best[c]] = @ - 1]
    /\ Unsettle
    /\ Goto(c, IF pc[c] = "ok" THEN "recordOk" ELSE "recordErr")
    /\ UNCHANGED <<accepting, cursor, best, load, metricVars, poolVars,
                   health_state, statVars, outcome>>

record_success(c) ==
    /\ pc[c] = "recordOk"
    /\ requests_sent' = [requests_sent EXCEPT ![best[c]] = @ + 1]
    /\ responses_received' = [responses_received EXCEPT ![best[c]] = @ + 1]
    /\ Goto(c, "leave")
    /\ UNCHANGED <<accepting, cursor, best, load, metricVars, poolVars,
                   health_state, active_connections, failures, history>>

record_failure(c) ==
    /\ pc[c] = "recordErr"
    /\ requests_sent' = [requests_sent EXCEPT ![best[c]] = @ + 1]
    /\ failures' = [failures EXCEPT ![best[c]] = @ + 1]
    /\ Goto(c, "leave")
    /\ UNCHANGED <<accepting, cursor, best, load, metricVars, poolVars,
                   health_state, active_connections, responses_received,
                   history>>

(* handle_connection: exit, on every path *)

Leave(c) ==
    /\ pc[c] = "leave"
    /\ connections_active' = connections_active - 1
    /\ Goto(c, "done")
    /\ UNCHANGED <<accepting, cursor, best, load, connections_total, poolVars,
                   health_state, active_connections, statVars, history>>

(* update_upstream_health, called from outside *)

SetHealth(u) ==
    /\ HealthUpdates
    /\ \E state \in {"Healthy", "Unhealthy"} :
          health_state' = [health_state EXCEPT ![u] = state]
    /\ Unsettle
    /\ UNCHANGED <<accepting, taskVars, metricVars, poolVars,
                   active_connections, statVars, outcome>>

\* Steps a task takes without waiting for a peer, and the connect, which the
\* timeout ends.
TaskStep(c) ==
    \/ Enter(c) \/ Probe(c) \/ Choose(c) \/ Acquire(c)
    \/ ConnectOk(c) \/ ConnectFail(c)
    \/ increment_connections(c) \/ decrement_connections(c)
    \/ record_success(c) \/ record_failure(c) \/ Leave(c)

Next ==
    \/ \E c \in Conns : Accept(c) \/ TaskStep(c) \/ EndStream(c)
    \/ Shutdown
    \/ \E u \in U : SetHealth(u)

Spec == Init /\ [][Next]_vars

\* The runtime polls every ready task.  A stream need never end, a client
\* need never come and shutdown need never be asked for.
FairSpec == Spec /\ \A c \in Conns : WF_vars(TaskStep(c))

-----------------------------------------------------------------------------
(* Properties *)

Labels == {"waiting", "spawned", "select", "acquire", "connect", "open",
           "stream", "ok", "err", "recordOk", "recordErr", "leave", "done"}

\* Connections whose task is between the two ends of handle_connection.
Inside == {c \in Conns : pc[c] \notin {"waiting", "spawned", "done"}}
\* Connections that occupy upstream u.
Streaming(u) == {c \in Conns : pc[c] \in {"stream", "ok", "err"} /\ best[c] = u}
\* Connections to u whose copies ended with the result and whose task is past
\* the place where stream_bidirectional records it.
Settled(u, result) ==
    {c \in Conns : outcome[c] = result /\ best[c] = u /\ pc[c] \in {"leave", "done"}}

\* Types of the counters and of the tasks' local state.
TypeOK ==
    /\ accepting \in BOOLEAN
    /\ pc \in [Conns -> Labels]
    /\ cursor \in [Conns -> 1 .. Len(Upstreams) + 1]
    /\ best \in [Conns -> {0} \cup U]
    /\ load \in [Conns -> Int]
    /\ connections_total \in Nat /\ connections_active \in Int
    /\ pool_hits \in Nat /\ pool_misses \in Nat
    /\ connection_pools \in [U -> Nat]
    /\ health_state \in [U -> {"Healthy", "Unhealthy", "Unknown"}]
    /\ active_connections \in [U -> Int]
    /\ requests_sent \in [U -> Nat]
    /\ responses_received \in [U -> Nat]
    /\ failures \in [U -> Nat]
    /\ steady \in [Conns -> BOOLEAN]
    /\ outcome \in [Conns -> {"none", "rejected", "refused", "success", "failure"}]

\* The gauges least-connections routing and the metrics read are exact at
\* every step and on every path out of a connection, errors included: they
\* never leak a connection and never fall below zero.
GaugesExact ==
    /\ connections_active = Cardinality(Inside)
    /\ \A u \in U : active_connections[u] = Cardinality(Streaming(u))

\* The result the copies had when the select! returned reaches the statistics
\* of the upstream that was streamed to, two steps later, on both branches of
\* the match: among the connections past the recording, each result is counted
\* as often as it occurred.  A connection that was rejected or refused before
\* it streamed leaves no trace in the statistics.
OutcomesRecordedOnce ==
    \A u \in U :
       /\ responses_received[u] = Cardinality(Settled(u, "success"))
       /\ failures[u] = Cardinality(Settled(u, "failure"))
       /\ requests_sent[u] = responses_received[u] + failures[u]

\* A selection during which no gauge and no health state changed takes the
\* first available upstream with the fewest connections, and turns the client
\* away only if none is available.
SteadyChoiceIsLeast ==
    [][\A c \in Conns :
          pc[c] = "select" /\ pc'[c] # "select" /\ steady[c] =>
             IF best[c] = 0
             THEN \A u \in U : ~is_available(u)
             ELSE /\ is_available(best[c])
                  /\ \A u \in U : is_available(u) =>
                        /\ active_connections[best[c]] <= active_connections[u]
                        /\ u < best[c] => active_connections[best[c]] <
                                             active_connections[u]]_vars

\* An accepted connection streams or is finished: no task is left waiting for
\* a pool, a gauge or a connect.  A stream that has ended gives back its gauges
\* and records its outcome.  Shutdown of the accept loop included.
TasksFinish ==
    \A c \in Conns :
       /\ pc[c] = "spawned" ~> pc[c] \in {"stream", "done"}
       /\ pc[c] \in {"ok", "err"} ~> pc[c] = "done"
=============================================================================
