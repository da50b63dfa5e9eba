------------------------------ MODULE Lifecycle ------------------------------
(***************************************************************************)
(* The life of the process: main.rs loads and validates the configuration, *)
(* Router (router.rs) starts the metrics and the health server             *)
(* (metrics.rs, server.rs) and the proxy instances through ProxyManager    *)
(* (proxy.rs), waits for a signal and shuts everything down over broadcast *)
(* channels.                                                               *)
(*                                                                         *)
(* start, start_proxy_instances and wait_for_shutdown run one after the    *)
(* other on the main task; each server has a task of its own, which        *)
(* subscribes to its channel when it first runs.  A broadcast reaches the  *)
(* receivers that exist when it is sent.  Until wait_for_shutdown installs *)
(* the handlers, SIGINT and SIGTERM kill the process, as is their default. *)
(* A panic ends the task it happens in or, in a build with panic = "abort" *)
(* (the release profile of Cargo.toml), the process.                       *)
(***************************************************************************)
EXTENDS Config

CONSTANTS
    MaxInstances,    \* bound: proxy instances in the configuration
    Configs          \* what the configuration file may hold

ASSUME MaxInstancesAssumption == MaxInstances \in Nat
\* Instances and upstreams come in sequences.
ASSUME ConfigsAssumption ==
    \A c \in Configs :
       /\ Len(c.proxy_instances) \in 0 .. MaxInstances
       /\ DOMAIN c.proxy_instances = 1 .. Len(c.proxy_instances)
       /\ \A i \in DOMAIN c.proxy_instances :
             LET u == c.proxy_instances[i].upstreams
             IN  /\ Len(u) \in Nat /\ DOMAIN u = 1 .. Len(u)
                 /\ u # <<>> => Len(u) > 0
                 /\ \A k \in DOMAIN u : u[k].weight \in Nat /\ u[k].timeout_ms \in Nat

Servers == {"metrics", "health"}
Instances == 1 .. MaxInstances

VARIABLES
    config, validate_only, \* the configuration and the --validate flag
    main,                  \* where the main task is
    next,                  \* the instance it starts, or has started last
    instance,              \* state of each proxy instance
    told,                  \* instances whose receiver holds the broadcast
    server, server_told,   \* the same for the servers
    tell,                  \* the next component that shutdown() tells
    periodic,              \* the metrics and health monitoring tasks run
    triggered,             \* what trigger_shutdown has returned
    missed                 \* history: servers told before they listened

configVars == <<config, validate_only>>
instanceVars == <<next, instance, told>>
serverVars == <<server, server_told>>
vars == <<configVars, main, instanceVars, serverVars, tell, periodic,
          triggered, missed>>

Init ==
    /\ config \in Configs
    /\ validate_only \in BOOLEAN
    /\ main = "loading"
    /\ next = 1
    /\ instance = [i \in Instances |-> "configured"]
    /\ told = {}
    /\ server = [s \in Servers |-> "off"]
    /\ server_told = {}
    /\ tell = "proxies"
    /\ periodic = FALSE
    /\ triggered = "none"
    /\ missed = {}

Ended == {"exited", "failed", "killed", "validated", "aborted"}
Alive == main \notin Ended

configured == Len(config.proxy_instances)
Config_of(i) == config.proxy_instances[i]
enabled == {s \in Servers : IF s = "metrics" THEN config.global.metrics.enabled
                            ELSE config.global.health_check.enabled}
address(s) == IF s = "metrics" THEN config.global.metrics.listen_addr
              ELSE config.global.health_check.listen_addr

\* TCP addresses the process listens on.
Bound == {address(s) : s \in {t \in Servers : server[t] = "serving"}}
           \cup {Config_of(i).listen_addr : i \in {j \in 1 .. configured :
                    instance[j] = "serving" /\ Config_of(j).proxy_type # "Udp"}}

-----------------------------------------------------------------------------
(* main *)

\* No such file, unreadable, an unknown extension or a syntax error.
LoadFails ==
    /\ main = "loading"
    /\ main' = "failed"
    /\ UNCHANGED <<configVars, instanceVars, serverVars, tell, periodic,
                   triggered, missed>>

\* Config::from_file; an error or --validate ends the process here.
Load ==
    /\ main = "loading"
    /\ main' = IF ~validate(config) THEN "failed"
               ELSE IF validate_only THEN "validated" ELSE "new"
    /\ UNCHANGED <<configVars, instanceVars, serverVars, tell, periodic,
                   triggered, missed>>

-----------------------------------------------------------------------------
(* Router::start *)

\* The enabled servers are spawned, then start_proxy_instances begins.
Start ==
    /\ main = "new"
    /\ main' = "starting"
    /\ server' = [s \in Servers |-> IF s \in enabled THEN "spawned" ELSE "off"]
    /\ UNCHANGED <<configVars, instanceVars, server_told, tell, periodic,
                   triggered, missed>>

\* Faulty: the instance is spawned instead of awaited.
StartProxySpawned ==
    /\ main = "starting"
    /\ next <= configured
    /\ instance' = [instance EXCEPT ![next] = "serving"]
    /\ next' = next + 1
    /\ UNCHANGED <<configVars, main, told, serverVars, tell, periodic,
                   triggered, missed>>

\* start_proxy: subscribe and serve.  The main task awaits the instance.
StartProxy ==
    /\ main = "starting"
    /\ next <= configured
    /\ validate_config(Config_of(next))
    /\ Config_of(next).proxy_type = "Udp" \/ Config_of(next).listen_addr \notin Bound
    /\ instance' = [instance EXCEPT ![next] = "serving"]
    /\ main' = "awaiting"
    /\ UNCHANGED <<configVars, next, told, serverVars, tell, periodic,
                   triggered, missed>>

\* Faulty: the loop over the instances goes on, past the last one.
StartProxyGoesOn ==
    /\ main = "starting"
    /\ next' = next + 1
    /\ UNCHANGED <<configVars, main, instance, told, serverVars, tell,
                   periodic, triggered, missed>>

\* validate_config refuses the instance or its address cannot be bound: start
\* fails and main() exits the process.  (An HTTP instance that cannot bind
\* panics on the main task, which ends the process too.)
StartProxyFails ==
    /\ main = "starting"
    /\ next <= configured
    /\ instance' = [instance EXCEPT ![next] = "failed"]
    /\ main' = "failed"
    /\ UNCHANGED <<configVars, next, told, serverVars, tell, periodic,
                   triggered, missed>>

\* Proxy::start returns: Ok once the broadcast is received, an error when the
\* server breaks down.  After Ok the next instance is started.
ProxyReturns ==
    /\ main = "awaiting"
    /\ \E ok \in IF next \in told THEN BOOLEAN ELSE {FALSE} :
          /\ instance' = [instance EXCEPT ![next] = IF ok THEN "stopped" ELSE "failed"]
          /\ main' = IF ok THEN "starting" ELSE "failed"
          /\ next' = IF ok THEN next + 1 ELSE next
    /\ UNCHANGED <<configVars, told, serverVars, tell, periodic, triggered, missed>>

\* All instances have been started: the periodic tasks start, and
\* wait_for_shutdown subscribes and installs the signal handlers.
AllStarted ==
    /\ main = "starting"
    /\ next > configured
    /\ periodic' = TRUE
    /\ main' = "waiting"
    /\ UNCHANGED <<configVars, instanceVars, serverVars, tell, triggered, missed>>

\* The metrics collection is spawned whether or not metrics are enabled, and
\* tokio's interval panics on a period of zero.
CollectionPanics ==
    /\ Alive
    /\ periodic
    /\ config.global.metrics.interval_secs = 0
    /\ main' = "aborted"
    /\ UNCHANGED <<configVars, instanceVars, serverVars, tell, periodic,
                   triggered, missed>>

(* signals *)

\* SIGINT or SIGTERM, at any time.  (While shutdown() runs the installed
\* handler swallows it.)
Signal ==
    /\ main \in {"loading", "new", "starting", "awaiting", "waiting"}
    /\ main' = IF main = "waiting" THEN "draining" ELSE "killed"
    /\ UNCHANGED <<configVars, instanceVars, serverVars, tell, periodic,
                   triggered, missed>>

\* Receivers of the Router's own channel: new() drops the one it gets.
Receivers == IF main = "waiting" THEN 1 ELSE 0

\* trigger_shutdown, by the owner of the Router: start() borrows it mutably
\* until the process ends, so before start or never.
TriggerShutdown ==
    /\ main = "new"
    /\ triggered = "none"
    /\ triggered' = IF Receivers = 0 THEN "error" ELSE "ok"
    /\ UNCHANGED <<configVars, main, instanceVars, serverVars, tell, periodic, missed>>

(* shutdown *)

\* Faulty: a broadcast that no instance can receive is an error that stops
\* shutdown().
TellProxiesOrStop ==
    /\ main = "draining"
    /\ tell = "proxies"
    /\ \E i \in Instances : instance[i] = "serving"
    /\ told' = told \cup {i \in Instances : instance[i] = "serving"}
    /\ tell' = "metrics"
    /\ UNCHANGED <<configVars, main, next, instance, serverVars, periodic,
                   triggered, missed>>

\* proxy_manager.shutdown(): every instance that is serving is told.
TellProxies ==
    /\ main = "draining"
    /\ tell = "proxies"
    /\ told' = told \cup {i \in Instances : instance[i] = "serving"}
    /\ tell' = "metrics"
    /\ UNCHANGED <<configVars, main, next, instance, serverVars, periodic,
                   triggered, missed>>

\* Faulty: the health server is left out.
TellMetricsOnly ==
    /\ main = "draining"
    /\ tell \in Servers
    /\ server_told' = IF server[tell] = "serving"
                      THEN server_told \cup {tell} ELSE server_told
    /\ missed' = IF server[tell] = "spawned" THEN missed \cup {tell} ELSE missed
    /\ tell' = "done"
    /\ UNCHANGED <<configVars, main, instanceVars, server, periodic, triggered>>

\* metrics_server.shutdown(), then health_server.shutdown().
TellServer ==
    /\ main = "draining"
    /\ tell \in Servers
    /\ server_told' = IF server[tell] = "serving"
                      THEN server_told \cup {tell} ELSE server_told
    /\ missed' = IF server[tell] = "spawned" THEN missed \cup {tell} ELSE missed
    /\ tell' = IF tell = "metrics" THEN "health" ELSE "done"
    /\ UNCHANGED <<configVars, main, instanceVars, server, periodic, triggered>>

\* One second later, whatever the components have done meanwhile.
Exit ==
    /\ main = "draining"
    /\ tell = "done"
    /\ main' = "exited"
    /\ UNCHANGED <<configVars, instanceVars, serverVars, tell, periodic,
                   triggered, missed>>

(* the servers' tasks *)

\* The task runs for the first time: it subscribes, binds and serves.
ServerStarts(s) ==
    /\ Alive
    /\ server[s] = "spawned"
    /\ address(s) \notin Bound
    /\ server' = [server EXCEPT ![s] = "serving"]
    /\ UNCHANGED <<configVars, main, instanceVars, server_told, tell, periodic,
                   triggered, missed>>

\* The address cannot be bound: hyper's Server::bind panics.
ServerPanics(s) ==
    /\ Alive
    /\ server[s] = "spawned"
    /\ server' = [server EXCEPT ![s] = "failed"]
    /\ main' \in {main, "aborted"}
    /\ UNCHANGED <<configVars, instanceVars, server_told, tell, periodic,
                   triggered, missed>>

ServerStops(s) ==
    /\ Alive
    /\ server[s] = "serving"
    /\ s \in server_told
    /\ server' = [server EXCEPT ![s] = "stopped"]
    /\ UNCHANGED <<configVars, main, instanceVars, server_told, tell, periodic,
                   triggered, missed>>

MainStep ==
    \/ LoadFails \/ Load
    \/ Start \/ StartProxy \/ StartProxyFails \/ ProxyReturns \/ AllStarted
    \/ TellProxies \/ TellServer \/ Exit

Next ==
    \/ MainStep
    \/ Signal \/ TriggerShutdown \/ CollectionPanics
    \/ \E s \in Servers : ServerStarts(s) \/ ServerPanics(s) \/ ServerStops(s)

Spec == Init /\ [][Next]_vars

\* The main task goes on whenever it can, and the scheduler runs every task.
\* Nothing obliges a proxy to break down, so ProxyReturns is not included.
FairSpec ==
    /\ Spec
    /\ WF_vars(Load \/ Start \/ StartProxy \/ StartProxyFails \/ AllStarted)
    /\ WF_vars(TellProxies \/ TellServer \/ Exit)
    /\ \A s \in Servers : /\ WF_vars(ServerStarts(s) \/ ServerPanics(s))
                          /\ WF_vars(ServerStops(s))

-----------------------------------------------------------------------------
(* Properties *)

\* Types of the process state.
TypeOK ==
    /\ config \in Configs
    /\ validate_only \in BOOLEAN
    /\ main \in {"loading", "new", "starting", "awaiting", "waiting", "draining"} \cup Ended
    /\ next \in 1 .. MaxInstances + 1
    /\ instance \in [Instances -> {"configured", "serving", "stopped", "failed"}]
    /\ told \subseteq Instances
    /\ server \in [Servers -> {"off", "spawned", "serving", "stopped", "failed"}]
    /\ server_told \subseteq Servers
    /\ tell \in {"proxies", "metrics", "health", "done"}
    /\ periodic \in BOOLEAN /\ missed \subseteq Servers
    /\ triggered \in {"none", "ok", "error"}

\* While an instance serves, the process neither waits for a signal, nor
\* monitors, nor serves another instance: the main task awaits that instance.
\* So the broadcast that would end an instance is never sent while one serves.
ServingIsAwaited ==
    \A i \in Instances :
       instance[i] = "serving" /\ Alive =>
          /\ main = "awaiting" /\ next = i
          /\ ~periodic
          /\ told = {}

\* What the models of routing and of the proxies assume of their configuration
\* holds for every instance that was ever started: upstreams that are there,
\* with different names, positive weights and timeouts, and settings within
\* the limits of its proxy; and no two started instances share an address.
StartedIsWellFormed ==
    \A i \in 1 .. configured : instance[i] \in {"serving", "stopped"} =>
       LET p == Config_of(i)
       IN  /\ Len(p.upstreams) > 0
           /\ \A k, l \in DOMAIN p.upstreams :
                 k # l => p.upstreams[k].name # p.upstreams[l].name
           /\ \A k \in DOMAIN p.upstreams :
                 p.upstreams[k].weight > 0 /\ p.upstreams[k].timeout_ms > 0
           /\ validate_config(p)
           /\ \A j \in 1 .. configured \ {i} :
                 instance[j] # "configured" =>
                    Config_of(j).listen_addr # p.listen_addr

\* The signal handlers, the monitoring and the graceful shutdown behind them
\* are reached only by a process that has no proxy to monitor or shut down,
\* and only such a process dies of the collection's interval.
MonitoringMeansNoProxy ==
    /\ main \in {"waiting", "draining", "exited"} => configured = 0
    /\ periodic => configured = 0

\* A server that is still serving when shutdown has run its course was told
\* to stop and had no time to, or was not listening yet when it was told.
NoServerForgotten ==
    main = "exited" =>
        \A s \in Servers : server[s] = "serving" => s \in server_told \/ s \in missed

\* Once a signal has been received by its handler, the process ends of itself.
DrainEnds == main = "draining" ~> main \in {"exited", "aborted"}

\* "Start all configured proxy instances": unless the process ends, every
\* configured instance serves.
AllInstancesServe ==
    \A i \in Instances :
       main = "starting" /\ i <= configured ~> instance[i] = "serving" \/ ~Alive
=============================================================================
