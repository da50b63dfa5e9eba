----------------------------- MODULE MCLifecycle ------------------------------
(* Configurations of up to three instances, valid ones and ones that each of *)
(* the checks, or none of them, refuses.                                     *)
EXTENDS Lifecycle

MCUpstream == [name |-> "u", address |-> "ip:port", weight |-> 1, timeout_ms |-> 5000]
MCUpstreams == {<<>>, <<MCUpstream>>, <<MCUpstream, MCUpstream>>,
                <<MCUpstream, [MCUpstream EXCEPT !.name = "v", !.address = "host:port"]>>,
                <<[MCUpstream EXCEPT !.name = ""]>>,
                <<[MCUpstream EXCEPT !.address = "host"]>>,
                <<[MCUpstream EXCEPT !.weight = 0]>>,
                <<[MCUpstream EXCEPT !.timeout_ms = 0]>>}

MCHttp == [max_request_size |-> 16 * MiB, request_timeout_secs |-> 30,
           headers |-> {"valid"}]
MCTcp == [buffer_size |-> 8192, keep_alive |-> {}]
MCKeepAlive == [enabled |-> TRUE, idle_secs |-> 60, interval_secs |-> 10, retries |-> 3]
MCUdp == [buffer_size |-> 65536, session_timeout_secs |-> 300]

Instance(name, type, addr, settings) ==
    [name |-> name, proxy_type |-> type, listen_addr |-> addr,
     upstreams |-> <<MCUpstream>>, settings |-> settings]

MCFirst == Instance("p", "Http", 1, MCHttp)
MCSecond == Instance("q", "Tcp", 2, MCTcp)
MCThird == Instance("r", "Udp", 3, MCUdp)

MCInstances ==
    {<<>>, <<MCFirst>>, <<MCSecond, MCThird>>, <<MCFirst, MCSecond, MCThird>>,
     <<MCFirst, [MCSecond EXCEPT !.name = "p"]>>,
     <<MCFirst, [MCThird EXCEPT !.listen_addr = 1]>>,
     <<[MCFirst EXCEPT !.name = ""]>>,
     <<[MCFirst EXCEPT !.settings.max_request_size = 0]>>,
     <<[MCFirst EXCEPT !.settings.request_timeout_secs = 0]>>,
     <<[MCFirst EXCEPT !.settings.headers = {"valid", "invalid"}], MCSecond>>,
     <<MCThird, [MCSecond EXCEPT !.settings.buffer_size = MiB + 1]>>,
     <<[MCSecond EXCEPT !.settings.keep_alive = {MCKeepAlive}]>>,
     <<[MCSecond EXCEPT !.settings.keep_alive = {[MCKeepAlive EXCEPT !.retries = 0]}]>>,
     <<[MCThird EXCEPT !.settings.session_timeout_secs = 3601]>>}
    \cup {<<[MCFirst EXCEPT !.upstreams = u], MCThird>> : u \in MCUpstreams}

MCGlobal(metrics, health, metrics_addr, interval) ==
    [metrics |-> [enabled |-> metrics, listen_addr |-> metrics_addr,
                  interval_secs |-> interval],
     health_check |-> [enabled |-> health, listen_addr |-> 9],
     buffer_pool |-> [initial_size |-> 10, max_size |-> 100],
     level |-> "info", format |-> "json"]

\* Address 1 is that of the first instance, and 9 that of the health server.
MCGlobals ==
    {MCGlobal(m, h, a, i) : m \in BOOLEAN, h \in BOOLEAN, a \in {1, 8, 9}, i \in {0, 15}}
    \cup {[MCGlobal(TRUE, TRUE, 8, 15) EXCEPT !.level = "loud"],
          [MCGlobal(TRUE, TRUE, 8, 15) EXCEPT !.format = "xml"],
          [MCGlobal(TRUE, TRUE, 8, 15) EXCEPT !.buffer_pool.max_size = 9]}

MCConfigs == {[proxy_instances |-> p, global |-> g] : p \in MCInstances, g \in MCGlobals}
=============================================================================
