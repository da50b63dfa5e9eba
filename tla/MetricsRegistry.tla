---------------------------- MODULE MetricsRegistry ---------------------------
(***************************************************************************)
(* The upstreams of the global metrics registry (MetricsRegistry of        *)
(* metrics.rs): a map from names to UpstreamInfo objects behind a lock and *)
(* a counter beside it.  Tasks add and remove upstreams, others take the   *)
(* summary that is exported or compute the health of the system.           *)
(*                                                                         *)
(* A step is one critical section of the map, one access of the counter or *)
(* one health state read.  Readers keep the map locked while they go       *)
(* through it, so a write waits for them, and health states, which have    *)
(* locks of their own, change meanwhile.  A local that is no longer used is *)
(* reset, to keep states few.  Of what a summary holds, only               *)
(* the total and the number of upstreams listed are kept.                  *)
(***************************************************************************)
EXTENDS Integers, FiniteSets

CONSTANTS
    Names,           \* names of upstreams
    Writers,         \* tasks that add or remove upstreams
    Exporters,       \* tasks that take a summary
    Checkers,        \* tasks that compute the system's health
    Totals,          \* values upstreams_total can take (2 ^ 64 in the code:
                     \* a usize)
    MaxObjects       \* bound: upstreams added in a behaviour

ASSUME SetsAssumption == IsFiniteSet(Names) /\ IsFiniteSet(Writers)
ASSUME NumbersAssumption == Totals \in Nat \ {0} /\ MaxObjects \in Nat

Objects == 1 .. MaxObjects     \* UpstreamInfo objects; 0 stands for none
HealthStates == {"Healthy", "Unhealthy", "Unknown"}

VARIABLES
    upstream_metrics, upstreams_total,
    health_state,            \* of each object
    created,                 \* objects so far
    pc,                      \* where each writer is
    exporting, loaded,       \* each exporter: where it is, the total it loaded
    summary,                 \* and the <<total, number listed>> it exports
    checking, unread,        \* each checker: where it is, upstreams to read,
    unhealthy_upstreams,     \* those it found unhealthy
    proxies, status,         \* the proxy healths it was given and its verdict
    replaced,                \* history: additions of a name that was there
    quiet,                   \* history: no write was under way or happened
                             \* since the exporter began
    was                      \* history: <<object, state>> pairs that held at
                             \* some moment of the checker's reading

mapVars == <<upstream_metrics, upstreams_total, created, pc, replaced>>
exportVars == <<exporting, loaded, summary, quiet>>
checkVars == <<checking, unread, unhealthy_upstreams, proxies, status, was>>
vars == <<mapVars, health_state, exportVars, checkVars>>

NoProxies == [healthy |-> 0, unhealthy |-> 0]
ProxyHealths == [healthy : 0 .. 1, unhealthy : 0 .. 1]

Init ==
    /\ upstream_metrics = [n \in Names |-> 0]
    /\ upstreams_total = 0
    /\ health_state = [o \in Objects |-> "Unknown"]
    /\ created = 0
    /\ pc = [w \in Writers |-> "idle"]
    /\ exporting = [e \in Exporters |-> "idle"]
    /\ loaded = [e \in Exporters |-> 0]
    /\ summary = [e \in Exporters |-> <<0, 0>>]
    /\ checking = [c \in Checkers |-> "idle"]
    /\ unread = [c \in Checkers |-> {}]
    /\ unhealthy_upstreams = [c \in Checkers |-> 0]
    /\ proxies = [c \in Checkers |-> NoProxies]
    /\ status = [c \in Checkers |-> "Unknown"]
    /\ replaced = 0
    /\ quiet = [e \in Exporters |-> FALSE]
    /\ was = [c \in Checkers |-> {}]

Listed == {n \in Names : upstream_metrics[n] # 0}

\* The map's lock: readers exclude writers.
Writable == \A c \in Checkers : checking[c] # "read"

Disturb == quiet' = [e \in Exporters |-> FALSE]

-----------------------------------------------------------------------------
(* add_upstream *)

AddInsert(w, n) ==
    /\ pc[w] = "idle"
    /\ Writable
    /\ created < MaxObjects
    /\ created' = created + 1
    /\ upstream_metrics' = [upstream_metrics EXCEPT ![n] = created + 1]
    /\ replaced' = IF n \in Listed THEN replaced + 1 ELSE replaced
    /\ pc' = [pc EXCEPT ![w] = "added"]
    /\ Disturb
    /\ UNCHANGED <<upstreams_total, health_state, exporting, loaded, summary,
                   checkVars>>

AddCount(w) ==
    /\ pc[w] = "added"
    /\ upstreams_total' = (upstreams_total + 1) % Totals
    /\ pc' = [pc EXCEPT ![w] = "idle"]
    /\ Disturb
    /\ UNCHANGED <<upstream_metrics, created, replaced, health_state, exporting,
                   loaded, summary, checkVars>>

(* remove_upstream *)

\* Faulty: the counter goes down whether or not the name was there.
RemoveAny(w, n) ==
    /\ pc[w] = "idle"
    /\ Writable
    /\ upstream_metrics' = [upstream_metrics EXCEPT ![n] = 0]
    /\ pc' = [pc EXCEPT ![w] = "removed"]
    /\ Disturb
    /\ UNCHANGED <<upstreams_total, created, replaced, health_state, exporting,
                   loaded, summary, checkVars>>

Remove(w, n) ==
    /\ pc[w] = "idle"
    /\ Writable
    /\ IF n \in Listed
       THEN /\ upstream_metrics' = [upstream_metrics EXCEPT ![n] = 0]
            /\ pc' = [pc EXCEPT ![w] = "removed"]
            /\ Disturb
       ELSE UNCHANGED <<upstream_metrics, pc, quiet>>
    /\ UNCHANGED <<upstreams_total, created, replaced, health_state, exporting,
                   loaded, summary, checkVars>>

\* Faulty: an underflow is no wrap.
RemoveCountSigned(w) ==
    /\ pc[w] = "removed"
    /\ upstreams_total' = upstreams_total - 1
    /\ pc' = [pc EXCEPT ![w] = "idle"]
    /\ Disturb
    /\ UNCHANGED <<upstream_metrics, created, replaced, health_state, exporting,
                   loaded, summary, checkVars>>

\* Below zero the counter wraps.
RemoveCount(w) ==
    /\ pc[w] = "removed"
    /\ upstreams_total' = (upstreams_total - 1) % Totals
    /\ pc' = [pc EXCEPT ![w] = "idle"]
    /\ Disturb
    /\ UNCHANGED <<upstream_metrics, created, replaced, health_state, exporting,
                   loaded, summary, checkVars>>

(* get_metrics_summary *)

LoadTotal(e) ==
    /\ exporting[e] = "idle"
    /\ loaded' = [loaded EXCEPT ![e] = upstreams_total]
    /\ quiet' = [quiet EXCEPT ![e] = \A w \in Writers : pc[w] = "idle"]
    /\ exporting' = [exporting EXCEPT ![e] = "list"]
    /\ UNCHANGED <<mapVars, health_state, summary, checkVars>>

\* The map is locked throughout: what is listed is what is there.
List(e) ==
    /\ exporting[e] = "list"
    /\ summary' = [summary EXCEPT ![e] = <<loaded[e], Cardinality(Listed)>>]
    /\ loaded' = [loaded EXCEPT ![e] = 0]
    /\ exporting' = [exporting EXCEPT ![e] = "done"]
    /\ UNCHANGED <<mapVars, health_state, quiet, checkVars>>

Export(e) ==
    /\ exporting[e] = "done"
    /\ exporting' = [exporting EXCEPT ![e] = "idle"]
    /\ summary' = [summary EXCEPT ![e] = <<0, 0>>]
    /\ quiet' = [quiet EXCEPT ![e] = FALSE]
    /\ UNCHANGED <<mapVars, health_state, loaded, checkVars>>

(* get_system_health *)

\* The proxies' healths are an argument.  The metrics server passes none.
LockMap(c) ==
    /\ checking[c] = "idle"
    /\ \E healths \in ProxyHealths : proxies' = [proxies EXCEPT ![c] = healths]
    /\ unread' = [unread EXCEPT ![c] = Listed]
    /\ was' = [was EXCEPT ![c] = {<<upstream_metrics[n],
                                    health_state[upstream_metrics[n]]>> : n \in Listed}]
    /\ checking' = [checking EXCEPT ![c] = "read"]
    /\ UNCHANGED <<mapVars, health_state, exportVars, unhealthy_upstreams, status>>

\* Faulty: a state nobody has set counts as unhealthy.
ReadHealthStrict(c, n) ==
    /\ checking[c] = "read"
    /\ n \in unread[c]
    /\ unread' = [unread EXCEPT ![c] = @ \ {n}]
    /\ unhealthy_upstreams' =
          IF health_state[upstream_metrics[n]] # "Healthy"
          THEN [unhealthy_upstreams EXCEPT ![c] = @ + 1] ELSE unhealthy_upstreams
    /\ UNCHANGED <<mapVars, health_state, exportVars, checking, proxies, status, was>>

ReadHealth(c, n) ==
    /\ checking[c] = "read"
    /\ n \in unread[c]
    /\ unread' = [unread EXCEPT ![c] = @ \ {n}]
    /\ unhealthy_upstreams' =
          IF health_state[upstream_metrics[n]] = "Unhealthy"
          THEN [unhealthy_upstreams EXCEPT ![c] = @ + 1] ELSE unhealthy_upstreams
    /\ UNCHANGED <<mapVars, health_state, exportVars, checking, proxies, status, was>>

\* overall_status.  Healthy upstreams are counted and make no difference.
Overall(healthy_proxies, unhealthy_proxies, unhealthy) ==
    IF unhealthy_proxies > 0 \/ unhealthy > 0
    THEN IF healthy_proxies = 0 THEN "Unhealthy" ELSE "Unknown"
    ELSE IF healthy_proxies > 0 THEN "Healthy" ELSE "Unknown"

Judge(c) ==
    /\ checking[c] = "read"
    /\ unread[c] = {}
    /\ status' = [status EXCEPT ![c] = Overall(proxies[c].healthy,
                                    proxies[c].unhealthy, unhealthy_upstreams[c])]
    /\ unhealthy_upstreams' = [unhealthy_upstreams EXCEPT ![c] = 0]
    /\ checking' = [checking EXCEPT ![c] = "done"]
    /\ UNCHANGED <<mapVars, health_state, exportVars, unread, proxies, was>>

Answer(c) ==
    /\ checking[c] = "done"
    /\ checking' = [checking EXCEPT ![c] = "idle"]
    /\ status' = [status EXCEPT ![c] = "Unknown"]
    /\ proxies' = [proxies EXCEPT ![c] = NoProxies]
    /\ was' = [was EXCEPT ![c] = {}]
    /\ UNCHANGED <<mapVars, health_state, exportVars, unread, unhealthy_upstreams>>

(* set_health_state, on an object the registry was given *)

SetHealth(o) ==
    /\ o <= created
    /\ \E state \in HealthStates \ {health_state[o]} :
          /\ health_state' = [health_state EXCEPT ![o] = state]
          /\ was' = [c \in Checkers |->
                        IF checking[c] = "read" /\ \E n \in Listed : upstream_metrics[n] = o
                        THEN was[c] \cup {<<o, state>>} ELSE was[c]]
    /\ UNCHANGED <<mapVars, exportVars, checking, unread, unhealthy_upstreams,
                   proxies, status>>

Next ==
    \/ \E w \in Writers : \/ \E n \in Names : AddInsert(w, n) \/ Remove(w, n)
                          \/ AddCount(w) \/ RemoveCount(w)
    \/ \E e \in Exporters : LoadTotal(e) \/ List(e) \/ Export(e)
    \/ \E c \in Checkers : \/ LockMap(c) \/ Judge(c) \/ Answer(c)
                           \/ \E n \in Names : ReadHealth(c, n)
    \/ \E o \in Objects : SetHealth(o)

Spec == Init /\ [][Next]_vars

-----------------------------------------------------------------------------
(* Properties *)

\* Types of the registry and of the tasks' state.
TypeOK ==
    /\ upstream_metrics \in [Names -> {0} \cup Objects]
    /\ upstreams_total \in 0 .. Totals - 1
    /\ health_state \in [Objects -> HealthStates]
    /\ created \in {0} \cup Objects
    /\ pc \in [Writers -> {"idle", "added", "removed"}]
    /\ exporting \in [Exporters -> {"idle", "list", "done"}]
    /\ loaded \in [Exporters -> 0 .. Totals - 1]
    /\ summary \in [Exporters -> (0 .. Totals - 1) \X Nat]
    /\ checking \in [Checkers -> {"idle", "read", "done"}]
    /\ unread \in [Checkers -> SUBSET Names]
    /\ unhealthy_upstreams \in [Checkers -> Nat]
    /\ proxies \in [Checkers -> ProxyHealths]
    /\ status \in [Checkers -> HealthStates]
    /\ replaced \in Nat
    /\ quiet \in [Exporters -> BOOLEAN]
    /\ was \in [Checkers -> SUBSET (Objects \X HealthStates)]

Added == {w \in Writers : pc[w] = "added"}
Removed == {w \in Writers : pc[w] = "removed"}

\* The total is the number of upstreams listed, but for the writers between
\* their two steps and for every addition that replaced an upstream of the
\* same name, which nothing ever takes back.  When a removal overtakes the
\* count of the addition it undoes, the total is one below zero: it wraps.
\* A summary that no write overlapped, and that no replacement preceded,
\* reports as many upstreams as it lists, unless there are too many to count.
TotalLedger ==
    /\ upstreams_total = (Cardinality(Listed) + replaced - Cardinality(Added)
                            + Cardinality(Removed)) % Totals
    /\ \A e \in Exporters :
          exporting[e] = "done" /\ quiet[e] /\ replaced = 0 =>
             summary[e][1] = summary[e][2] % Totals

\* The health reported is one the states the upstreams had while they were
\* read can explain, although they never held all at one time: degraded only
\* if an upstream was unhealthy or a proxy is, not degraded only if each
\* upstream was not unhealthy at some moment.  Without a proxy to report on,
\* as in the metrics server's /health, degraded means 503.
VerdictExplained ==
    \A c \in Checkers : checking[c] = "done" =>
       \/ /\ status[c] \in {"Unhealthy", "Unknown"}
          /\ status[c] = "Unhealthy" <=> proxies[c].healthy = 0
          /\ proxies[c].unhealthy > 0 \/ \E p \in was[c] : p[2] = "Unhealthy"
       \/ /\ status[c] = "Healthy" <=> proxies[c].healthy > 0
          /\ status[c] # "Unhealthy"
          /\ proxies[c].unhealthy = 0
          /\ \A p \in was[c] : \E q \in was[c] : q[1] = p[1] /\ q[2] # "Unhealthy"
=============================================================================
