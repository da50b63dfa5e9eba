-------------------------------- MODULE Config --------------------------------
(***************************************************************************)
(* The checks a configuration passes: Config::validate of config.rs, when  *)
(* the file is loaded, and validate_config of the proxy that an instance   *)
(* is of, when that instance is started.                                   *)
(*                                                                         *)
(* A configuration is a record with the fields the code compares.  Of an   *)
(* address of an upstream only its form is kept: "empty", "host", which    *)
(* has no port, "host:port" or "ip:port".  A header is "valid" or not.     *)
(***************************************************************************)
EXTENDS Integers, Sequences

MiB == 1024 * 1024

\* HashSet::insert returned true for each of them.
Distinct(names) ==
    \A i, j \in DOMAIN names : names[i] = names[j] => i = j

UpstreamValid(u) ==
    /\ u.name # ""
    /\ u.address \notin {"empty", "host"}
    /\ u.weight # 0
    /\ u.timeout_ms # 0

\* Faulty: weights and addresses are left to the proxies.
InstanceValidNames(p) ==
    /\ p.name # ""
    /\ p.upstreams # <<>>
    /\ Distinct([i \in DOMAIN p.upstreams |-> p.upstreams[i].name])

InstanceValid(p) ==
    /\ p.name # ""
    /\ p.upstreams # <<>>
    /\ Distinct([i \in DOMAIN p.upstreams |-> p.upstreams[i].name])
    /\ \A i \in DOMAIN p.upstreams : UpstreamValid(p.upstreams[i])

\* The interval is looked at only if the metrics are enabled.
GlobalValid(g) ==
    /\ ~(g.metrics.enabled /\ g.metrics.interval_secs = 0)
    /\ g.buffer_pool.initial_size <= g.buffer_pool.max_size
    /\ g.level \in {"error", "warn", "info", "debug", "trace"}
    /\ g.format \in {"json", "pretty", "compact"}

\* Config::validate.  It looks neither at the settings of a proxy type nor at
\* the addresses of the metrics and the health server.
validate(c) ==
    LET p == c.proxy_instances
    IN  /\ Distinct([i \in DOMAIN p |-> p[i].name])
        /\ Distinct([i \in DOMAIN p |-> p[i].listen_addr])
        /\ \A i \in DOMAIN p : InstanceValid(p[i])
        /\ GlobalValid(c.global)

HttpValid(s) ==
    /\ s.max_request_size \in 1 .. 1024 * MiB
    /\ s.request_timeout_secs # 0
    /\ s.headers \subseteq {"valid"}

KeepAliveValid(k) ==
    k.enabled => k.idle_secs # 0 /\ k.interval_secs # 0 /\ k.retries # 0

TcpValid(s) ==
    /\ s.buffer_size \in 1 .. MiB
    /\ \A k \in s.keep_alive : KeepAliveValid(k)    \* none or one

UdpValid(s) ==
    /\ s.buffer_size \in 1 .. 65536
    /\ s.session_timeout_secs \in 1 .. 3600

\* Proxy::validate_config, of the proxy ProxyManager finds for the type.
validate_config(p) ==
    \/ p.proxy_type = "Http" /\ HttpValid(p.settings)
    \/ p.proxy_type = "Tcp" /\ TcpValid(p.settings)
    \/ p.proxy_type = "Udp" /\ UdpValid(p.settings)
=============================================================================
