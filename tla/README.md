# Harbr Router: specifications, model checking and proofs

This directory holds TLA+ models of Harbr Router (`src/`), TLC configurations
that check them on small instances, and TLAPS proofs of the properties that
matter most. Paths below are relative to `src/src/` unless they name another
directory. Lines are those of the commit the modules were written from.

To run it: `tlc -config <run>.cfg <module>` for a row of the table of runs, and
`tlapm <module>Proofs.tla` for the proofs.

## 1. The system

Harbr Router is one process on a multi-threaded tokio runtime. It proxies HTTP,
TCP and UDP traffic from listen addresses to upstream servers, chooses an
upstream per request, connection or session, and exports metrics and a health
endpoint.

| component | state it keeps | operations | module |
|---|---|---|---|
| Upstream statistics (`routing.rs`, `UpstreamStats`) | counters of requests, responses, failures, open connections; average response time; all atomics | `record_success`, `record_failure`, `success_rate`, gauge increments | `UpstreamStats`, which implements `Tally` |
| Upstream selection (`routing.rs`, `Router`, `ConsistentHashRing`) | list of upstreams and hash ring, each behind a `parking_lot::RwLock`; health state per upstream; round-robin counter | `update_upstreams`, `update_upstream_health`, `select_upstream` by one of five strategies | `HashRing`; round-robin and weighted in `Selection`; least connections in `TcpProxy`; health-aware in `HttpProxy` |
| TCP proxy (`proxy/tcp.rs`) | gauges, pool per upstream; two buffers per connection | accept loop, one task per connection: select, connect, copy in both directions, record | `TcpProxy`; the bytes in `TcpStream`, which implements `Relay` |
| UDP proxy (`proxy/udp.rs`) | `DashMap` of sessions by client address, gauge and totals, a socket and a listener task per session | one task per packet, listener per session, cleanup task, receive loop | `UdpProxy` |
| HTTP proxy (`proxy/http.rs`) | gauge, totals, counts by status | one future per request, run by hyper | `HttpProxy` |
| Router and ProxyManager (`router.rs`, `proxy.rs`, `main.rs`) | the configuration, the instances, three broadcast channels, the registry | load, `--validate`, `start`, `wait_for_shutdown`, `trigger_shutdown`, `shutdown`, periodic tasks, `reload_config` | `Lifecycle` |
| Health server (`server.rs`), metrics server (`metrics.rs`) | a shutdown channel each | start, bind, stop, answer | `Lifecycle` (start, bind and stop) |
| Metrics registry (`metrics.rs`) | upstreams by name behind an `RwLock`, atomic totals | add, remove, summarise, judge the system's health | `MetricsRegistry` |
| Configuration (`config.rs`) | none | deserialize, `validate` | `Config`, applied by `Lifecycle` |
| Buffers, CPU affinity, errors | none | helpers | not modelled |

How they interact:

- `Router::start` spawns the metrics and the health server, then starts the
  proxy instances *one after the other, awaiting each*, then the periodic tasks,
  then `wait_for_shutdown`.
- A proxy owns a `routing::Router` over the upstreams of its configuration. It
  reads the statistics and the health state to select and writes the statistics
  when an exchange is over. Nothing else writes them: no health checker exists,
  and `update_upstream_health` and `update_upstreams` have no caller in the
  program. They are public operations of the routing component, and the module
  `HashRing` models them as such.
- Shutdown is a `tokio::sync::broadcast` per component. A broadcast reaches the
  receivers that exist when it is sent.

What is hard here:

- atomics read one by one while others write them (`success_rate`, the average,
  the scans of both selections);
- two locks that are nested, and a change that is one critical section with the
  repair of a derived structure in a second one (list and ring);
- map guards kept across an `await`, with blocking writers on the runtime's own
  threads (UDP sessions);
- check-then-act on the session map (look up, await, insert; scan, then remove);
- futures dropped at their `await` (HTTP requests whose client goes away);
- a sequence of awaits in which something waits for what only a later step
  would cause (start and shutdown);
- two copies polled by one task, of which the first to return drops the other in
  the middle of its data (TCP streams);
- a map and a counter of its entries that change one after the other, and
  counters that wrap (registry, round-robin);
- checks that are made at different times: when the file is loaded, when an
  instance is started, when an address is bound.

`PROJECT.json` lists each hazard at its line with the properties that watch it, and
a note where a property only measures what the code does or where none watches it.

## 2. Modules

Each module models a step from one access of shared state (or one `await`) to
the next. `PROJECT.json` maps every definition to its lines. Operators whose
comment starts with "Faulty:" are not part of a specification: each is a
variant of the definition below it, with the kind of bug one of the properties
is there to find.

**UpstreamStats.** One upstream's counters; tasks between the `fetch_add`s, loads
and stores of `record_success` and `record_failure`; readers between the two
loads of `success_rate`. A rate is kept as the pair it divides. `Fold` is the
moving average with its rounding.

**Tally.** What the statistics promise: a request begins once and is settled
once, and a rate is all the responses over no more requests than were begun.
`UpstreamStats` implements it, with the set of unsettled tasks as the pending
requests (`Promise`, a refinement that is both model-checked and proved).

**HashRing.** The list with its generation (an `UpstreamInfo` object lives as long
as its list, so a position and a generation name it), the ring as a function
from points to list positions, updaters and selectors. `BeginReplace` takes the
writer bit of parking_lot's lock, after which new readers wait; `Replace` waits
for the readers that are left. `ScanUpstream` reads one health state at a time,
as `update` does. Hash values are abstract points; the lookup (`range(key..)`,
else the first) is `IsSuccessor`.

**TcpProxy.** One task per connection, from `accept` to the end of
`handle_connection`, with the scan of `select_least_connections` one upstream at
a time, the pool lookup, the connect with its timeout, the stream and its
recording. `steady` and `outcome` are history variables: `outcome` is written where
the copies end, two steps before their result is recorded.

**TcpStream** and **Relay.** `TcpStream` opens up the step of `TcpProxy` in which a
stream ends: both copies of `stream_bidirectional`, a read and each write of
`write_all` a step, buffers that are used again, peers that close one side, reset
or stop reading. A sender's bytes are numbered, so contents show their origin.
`Relay` says what the two peers may rely on, without buffers; `TcpStream`
implements it, its variables of the same names being the mapping.

**Selection.** Round-robin and weighted round-robin over health states that are
read one at a time, and the shared counter, a number modulo `CounterValues` (2^64 in
the code). Round-robin is the
weighted selection with every weight 1, which is what the code of the two
amounts to. The history `drawn` lists the selections in the order of their
`fetch_add`. The names of the specification (`SelectionSpec` and so on) are none of
`HashRing`'s, because `RoutingProofs` extends both.

**UdpProxy.** Packet tasks, listeners, the cleanup and the receive loop around the
map. A shard is guarded while a `Ref` (packet task at `held` or `remove`) or the
iterator (`guarded`) holds it; `insert`, `remove` and `clear` wait for it. A task
at an `await` has no thread and needs one of `Workers` to go on (`WorkerFree`);
between two accesses without an `await`, waiting for a lock included, it keeps the
one it has. When all of them wait for a lock the instance is `Starved`. Of time only "this session is past its timeout" is kept
(`stale`). `drift` is a history variable.

**HttpProxy.** One future per request: arrival, the scan of
`select_health_aware` with two loads per upstream, the exchange, which succeeds,
fails, times out or is dropped, the recording in two `fetch_add`s and the exit.
A score is an exact fraction.

**Config.** Each check of `validate` and of the proxies' `validate_config`, as
predicates on records with the fields the code compares.

**Lifecycle.** The main task from reading the file to the process's end, each
proxy instance, the two servers' tasks with the addresses they bind, the
broadcasts, signals and panics. It extends `Config`; `MCLifecycle` holds the
configurations, about one for each check and for each conflict of addresses.

**MetricsRegistry.** The map of upstreams with its lock, the total, tasks that add
and remove, an exporter between its two reads, and a health check that holds the
map's lock while it reads one health state after the other. A total is a number
modulo `Totals`, 2^64 in the code. The program adds upstreams while it starts and never
removes one; removal is a public operation and is modelled as such.

`MC*.tla` give the constants their values; `*Proofs.tla` hold the theorems.
Modules are separate because the components share only what is small enough to
be modelled where it is used: the TCP and the HTTP proxy each contain the
selection they are given (`router.rs`), since its races with the recording are
the point. TCP treats a recording as one step, because nothing it reads depends
on a half-done one, and `UpstreamStats` takes it apart.

## 3. Runs

| run | module, cfg | instance | distinct states | checks |
|---|---|---|---|---|
| `upstream_stats` | `MCUpstreamStats` | 2 recording tasks, 1 reader, samples 5 and 21, 4 requests | 65 000 | `TypeOK` `Conservation` `AverageWithinSamples` `UnderstatedByInFlight` `TallyImplemented` |
| `hash_ring` | `MCHashRing` | 2 updaters, 1 selector, lists `<<A>>` and `<<B, A>>`, 2 replacements | 93 000 | `TypeOK` `RingFresh` `QuiescentPickSound` `EveryoneFinishes` |
| `tcp` | `MCTcpProxy` | 2 connections, 2 upstreams whose health changes | 95 000 | `TypeOK` `GaugesExact` `OutcomesRecordedOnce` `SteadyChoiceIsLeast` `TasksFinish` |
| `tcp_stream` | `TcpStream` | 3 bytes each way, buffers of 2, windows of 2 | 93 000 | `TypeOK` `TransferLedger` `RelayImplemented` `ClosedEnds` |
| `selection` | `MCSelection` | 2 tasks, upstreams of weight 0 (taken as 1) and 2, a counter modulo 4, 7 selections, 3 changes of health | 535 000 | `SelectionTypeOK` `ChoiceWasAvailable` `TurnsAreFair` |
| `udp` | `MCUdpProxy` | 1 client in the second of 2 shards, 2 packet tasks, 2 sessions, 2 workers | 1 100 000 | `TypeOK` `GaugeLedger` |
| `udp_live` | `MCUdpProxy_Live` | 1 client, 1 packet task, 2 sessions, 2 workers | 56 000 | `PacketsFinish` `ExpiredIsCleaned` `ShutdownEnds` |
| `udp_expired_deadlock` | `MCUdpProxy_ExpiredSessionReplaced` | 1 task, 1 session | | `ExpiredSessionReplaced`, violated |
| `http` | `MCHttpProxy` | 3 requests, upstreams of weight 1 and 2 | 48 000 | `TypeOK` `GaugeLedger` `BadGatewaysExplained` `LockoutIsPermanent` `RequestsAnswered` |
| `lifecycle` | `MCLifecycle` | up to 3 instances, 22 lists of them with 27 sets of global settings | 13 000 | `TypeOK` `ServingIsAwaited` `StartedIsWellFormed` `MonitoringMeansNoProxy` `NoServerForgotten` `DrainEnds` |
| `lifecycle_one_instance` | `MCLifecycle_AllInstancesServe` | same | | `AllInstancesServe`, violated |
| `registry` | `MCMetricsRegistry` | 2 writers, 1 exporter, 1 health check, 2 names, 2 objects, a total modulo 4 | 652 000 | `TypeOK` `TotalLedger` `VerdictExplained` |

What they show:

- **Statistics.** However tasks interleave, requests = responses + failures +
  those between two `fetch_add`s; the unsynchronised average never leaves the
  range of the samples; a rate read by two separate loads is short by at most
  the failures and one request per task; and all of it is an implementation of
  the tally.
- **Hash ring.** Change and rebuild are separate critical sections and overlap
  with others, yet the last rebuild always leaves the ring of the current list
  and health states, a pick no update overlaps is an available upstream that
  owns a point where the lookup ended, and the two locks never deadlock.
- **TCP.** Both gauges are exact at every step on every path, the result a stream
  ended with reaches the statistics of its upstream once, on both branches of the
  `match` and past the gauge in between, and a selection nothing interferes with is a
  least-connections one.
- **TCP bytes.** A receiver gets the sender's bytes in order with no gap, whatever
  is dropped; a connection that ended well has delivered everything of a
  direction that was closed, and nothing is promised of the other;
  `bytes_transferred` counts each byte once, but for the chunk in progress; a
  receiver that does not read holds up only its own direction.
- **Selection.** A choice was available while it was made, and none was made only
  if each upstream was unavailable at some moment. Over a full turn each upstream
  gets its weight; only a turn in which the counter wraps may differ, and then
  gives at most twice the weight (the run wraps a counter of two bits; a process
  does not come to the 2^64 selections of the real one).
- **UDP.** The gauge is explained by the map and a drift of known origin (an
  `insert` that replaces, `clear`, a listener that removes nothing): the drift
  states that the gauge goes wrong there, and the property that nothing else moves
  it. A packet's task ends, an expired session is cleaned and a shutdown returns,
  with the two exceptions the code has: a task that waits for its own guard, and
  blocked writers that occupy every worker.
- **HTTP.** The gauge counts the requests in flight and all abandoned ones; every
  502 has a recorded cause, and each upstream is charged with its own failures;
  an untried upstream is never overlooked; and an
  upstream whose requests have all failed, with none under way, is never chosen
  again.
- **Lifecycle.** An instance that serves is awaited by the main task, so no other
  serves, nothing monitors and no broadcast is sent meanwhile. Monitoring, signal
  handlers and graceful shutdown exist only in a process without proxies. After a
  graceful shutdown each server was told, or had not subscribed when it was.
  Whatever the file holds, an instance that was started has what the other
  modules assume: upstreams with different names and positive weights, settings
  within limits, an address of its own.
- **Registry.** The total is the size of the map, but for what is being counted
  and for replacements, which inflate it for good; a removal that overtakes an
  addition's count makes it wrap. A reported health is explained by the states
  read, although they never held together.

Deadlock is not checked: every component may be at rest with nothing to do, and
every bounded counter ends at its bound.

### Bounds

The smallest instances on which each interesting case happens are used. Two
tasks are enough for a race between two accesses; the third HTTP request and
the reader see the state of two others in mid-record; two upstreams are enough
for a choice, and different weights make the scores differ; two lists of
different length make an index stale, out of range, or that of another
upstream; two sessions are what a double creation, or a listener older than its
client's present session, needs. Three bytes fill a buffer of two and use it again
for a shorter chunk, and a window of two makes writes partial. A counter
modulo 4 wraps within seven selections, with a number of candidates that divides
four and one that does not; a total modulo 4 wraps below zero and above three.
`MaxRequests`, `MaxReplacements`, `MaxSessions`, `MaxInstances`, `MaxBytes`,
`MaxPicks`, `MaxChanges` and `MaxObjects` cut off counters; the theorems of
section 4 hold for any value of those they meet. With one client in the second shard the iterator also passes an
empty one; sessions of other clients share only shards, worker threads and the
gauge with it. The liveness run of UDP has one packet task at a time, beside the
listeners of two sessions and the cleanup, on two workers: fewer workers than
there are tasks that want one, so that writers do occupy all of them while the
cleanup holds the shard (two listeners that remove, or one and a task stuck at
`udp.rs:174`), and others are delayed only. That two inserts of other clients can
do the same takes a larger instance, which the checker explores for safety only
(the `udp` run has such states); `StarvationIsFinal` is proved for all.

### Fairness

- Tasks that can go on are polled (`WF` on each task's steps): tokio schedules
  every woken task. Accepting, receiving a datagram, the end of a stream, a
  client that leaves, a health update, a signal and shutdown are never obliged
  to happen. Connects and HTTP exchanges end because of their timeouts.
- `SF` on acquiring a lock that is free again and again: parking_lot hands a
  lock over fairly at the latest every half millisecond. dashmap's lock has no
  queue, so for UDP this is an assumption on the schedule, and the properties say
  so in their premise `ReadersPause`: overlapping readers must leave the shards
  free again and again.
- In `UdpProxy` `SF` on each task's steps also says that a task which can go on
  gets a worker that is free again and again: tokio's queues are first in, first
  out. No fairness helps when no worker is free any more.
- In `TcpStream` each copy is polled when it can go on; that a receiver reads is a
  premise of `ClosedEnds`, not an assumption.
- In `Lifecycle` the main task's own steps and the servers' tasks are fair, and
  `ProxyReturns` is not, because nothing obliges a proxy to break down.
- `MetricsRegistry`, `Selection` and `UpstreamStats` have no liveness property: none
  of their steps waits for anything but a short critical section.

### Disagreements between the code and what is written about it

Each of the two violated properties quotes a line of the repository:

1. `proxy/udp.rs:173`: a packet that finds its session expired calls `remove`
   while its own `Ref` read-locks the shard. The thread waits for itself for
   ever, and so does every later writer of the shard.
2. `router.rs:122`: `start_proxy_instance` awaits the whole life of the instance,
   so of several configured instances only the first ever starts, and the
   monitoring and the signal handlers behind it are never reached.

The models also behave in these ways, which have no run of their own:

- `success_rate` can exceed 1 (a success between its two loads) and can be 0 for
  an upstream that never failed (between the two `fetch_add`s of its first
  success, `routing.rs:111`), which makes the HTTP selection refuse a request.
- Two concurrent samples can fold into the same old average (`routing.rs:115`).
- Between the replacement of the list and the rebuild of the ring
  (`routing.rs:308`) a session may go to an upstream that does not own its point,
  or to none; the ring is documented as "pointing to upstream indices"
  (`routing.rs:100`), and those are then of another list.
- The TCP gauge is incremented after the connect (`proxy/tcp.rs:286`), so a burst
  of connections all chooses the same upstream; a failed connect touches no
  statistic (`proxy/tcp.rs:194`); the pool has no writer (`proxy/tcp.rs:230`).
- Two first packets of a client create two sessions, and the gauge keeps the one
  that was replaced (`proxy/udp.rs:190`); the cleanup removes a session that was
  used since it was found expired (`proxy/udp.rs:300`); a listener looks at the
  timeout only after a datagram, so that of an idle session never ends
  (`proxy/udp.rs:243`).
- The cleanup keeps a shard locked across an `await` (`proxy/udp.rs:293`); inserts
  into it and removals by listeners block their worker threads, and when all are
  blocked nobody is left to resume the cleanup, or anything else (`Starved`,
  `StarvationIsFinal`). The properties of the `udp_live` run except this by name.
- A request dropped at its `await` is never subtracted from `connections_active`
  (`proxy/http.rs:97`), which `health_check` compares with its limit
  (`proxy/http.rs:422`).
- A client that shuts down its side after its request loses the reply that is
  still under way (`proxy/tcp.rs:288`).
- A name added twice to the registry is counted twice (`metrics.rs:186`), and a
  total that passes below zero wraps (`metrics.rs:192`).
- An interval of 0 is refused only if metrics are enabled (`config.rs:702`), and
  the collection panics on it in either case. Two upstreams `host:port` pass
  `validate`, and every packet of a UDP instance that has them is dropped
  (`proxy/udp.rs:86`).
- `HttpProxy::validate_config` does not look at the upstreams, although a test
  (`proxy.rs:291`) expects that a manager refuses an instance without any;
  `validate` does so when the file is loaded.
- `running_instances` is filled only after an instance has ended and is read
  nowhere; `reload_config` needs the Router mutably, which `start` borrows until
  the process ends.
- `trigger_shutdown` fails on a Router that is not waiting for a signal, because
  its channel has no receiver (`router.rs:329`), although a test expects it to
  succeed on a new Router (`router.rs:447`); a server whose task has not run
  yet misses its broadcast (`server.rs:59`).

## 4. Proofs

All theorems hold for every value of the constants that satisfies the named
assumptions of the module (finite sets of tasks, a list of upstreams that is not
empty, and the like, as `config.rs` validates them).

| theorem | property |
|---|---|
| `UpstreamStatsProofs!Typing` | `TypeOK` |
| `UpstreamStatsProofs!RequestsConserved` | `Conservation` |
| `UpstreamStatsProofs!RateUnderstatement` | `UnderstatedByInFlight` |
| `UpstreamStatsProofs!AverageBounded` | `AverageWithinSamples` |
| `UpstreamStatsProofs!StatisticsAreATally` | `TallyImplemented` |
| `RoutingProofs!Typing` | `TypeOK` |
| `RoutingProofs!RingIsFresh` | `RingFresh` |
| `RoutingProofs!PicksAreSound` | `QuiescentPickSound` |
| `RoutingProofs!LookupTotal`, `LookupSticky` | facts about the lookup on the ring |
| `RoutingProofs!SelectionTyping` | `SelectionTypeOK` |
| `RoutingProofs!ChoicesWereAvailable` | `ChoiceWasAvailable` |
| `RoutingProofs!TurnsAreShared` | `TurnsAreFair` |
| `TcpProxyProofs!Typing` | `TypeOK` |
| `TcpProxyProofs!GaugesAreExact` | `GaugesExact` |
| `TcpProxyProofs!OutcomesAreRecordedOnce` | `OutcomesRecordedOnce` |
| `TcpProxyProofs!SteadyChoices` | `SteadyChoiceIsLeast` |
| `TcpStreamProofs!Typing` | `TypeOK` |
| `TcpStreamProofs!BytesAreCounted` | `TransferLedger` |
| `TcpStreamProofs!StreamIsARelay` | `RelayImplemented` |
| `UdpProxyProofs!Typing` | `TypeOK` |
| `UdpProxyProofs!GaugeIsExplained` | `GaugeLedger` |
| `UdpProxyProofs!StarvationIsFinal` | once `Starved` the instance stands still for good |
| `HttpProxyProofs!Typing` | `TypeOK` |
| `HttpProxyProofs!GaugeIsExplained` | `GaugeLedger` |
| `HttpProxyProofs!BadGatewaysAreExplained` | `BadGatewaysExplained` |
| `HttpProxyProofs!LockoutsArePermanent` | `LockoutIsPermanent` (an action property) |
| `LifecycleProofs!Typing` | `TypeOK` |
| `LifecycleProofs!ServingInstancesAreAwaited` | `ServingIsAwaited` |
| `LifecycleProofs!MonitoringHasNoProxy` | `MonitoringMeansNoProxy` |
| `LifecycleProofs!StartedAreWellFormed` | `StartedIsWellFormed` |
| `LifecycleProofs!ServersAreTold` | `NoServerForgotten` |
| `MetricsRegistryProofs!Typing` | `TypeOK` |
| `MetricsRegistryProofs!TotalIsExplained` | `TotalLedger` |
| `MetricsRegistryProofs!VerdictsAreExplained` | `VerdictExplained` |

The arguments:

- **Statistics.** `Conservation` is inductive once the set of unsettled tasks is
  known to be finite: each step adds a task to it or takes one out, and changes
  one counter. The bound on the rate needs `ReaderInv`: what a reader has loaded
  is at most the requests counted now, and counters only grow. The average needs
  `AverageInv`: samples, loaded values and the average are all within the
  samples, and `Fold` keeps that, rounding included (`FoldWithin`). For the
  refinement each step is mapped to `Begin`, a settlement, `Report` or a stutter;
  the one that returns a rate needs `SeenRequests`: the requests a reader loaded
  are at least 1 and at most those counted now.
- **Hash ring.** `RingFresh` alone is not inductive, since it says nothing during
  a rebuild. `RingInv` does: there is one scanner; with nobody pending, the ring
  matches the prefix of the list it has scanned; a change of the list or of a
  health state makes its updater pending, and the last rebuild starts from an
  empty ring. `ScanExtends` is the step of the scan.
- **Selection.** `Collected` says of a selection that is reading what `seen`, `missed`
  and its candidates hold so far: each upstream passed is a candidate or in
  `missed`, each candidate is in `seen`. `TurnsAreFair` rests on two invariants.
  `Gathered`: a list of candidates holds each upstream not at all or as often as
  its weight says, and has no more entries than the counter has values.
  `Rotation`: the i-th draw of all found the counter at i - 1 modulo
  `CounterValues`, whoever drew. The rest is arithmetic on a window of draws
  (`RotationIsFair`). Where the counter does not wrap, or the length divides
  `CounterValues`, the draws are a bijection to the places of the list; otherwise
  the parts before and after the wrap each take no place twice (`InTurn`, with
  lemmas on remainders below it). The assumption that the upstreams times the
  largest weight are at most 2^64 is what makes the counter wrap once only; weights
  are `u32`, so it holds for fewer than 2^32 upstreams.
- **TCP.** The gauges are cardinalities of sets of tasks by program counter; each
  step moves one task in or out (`Joins`, `Quits`). `Attached` says that a task
  past the selection has an upstream, and that from the end of the copies to the
  recording it is on the branch of their result. `SteadyChoices` needs `ScanInv`: a scan that
  is still steady holds the minimum over the positions it has passed.
- **TCP bytes.** `ChunkAt` says of one copy which bytes its buffer holds: the chunk
  read last ends with byte `fetched`, whatever lies behind it is of an earlier
  chunk, and the receiver has everything before the rest of the chunk. What a
  write adds is then the next bytes (`Extended`), although the buffer is used
  again. Neither the typing nor the ledger is inductive without it: that a write
  stays inside the buffer and that a chunk is counted once both need the offsets.
  For the refinement each step is mapped by itself: the end of the data to
  `EndOk`, a write to `Deliver`, a failure to `EndErr`, a read to a stutter.
- **UDP.** The ledger is inductive with the typing and `Orderly`: each step moves
  at most one client into or out of the map and one task, listener or the cleanup
  into or out of the terms of what is being counted, but for `Clear`, which empties
  a shard and adds to the drift what it takes out of the map. Starvation is final
  because of `Fits`: no more tasks have a thread than there are workers. If as many
  are blocked as there are workers, then those with a thread are the blocked ones
  (`AllBlocked`, a fact about subsets of equal size), every other task is at an
  `await` without a worker to resume it, and that includes whoever holds a guard.
- **HTTP.** `Placed` ties the place of a request in the code to its scan, its choice
  and the cause of its reply, and `Accounted` joins it with the typing and the
  gauge: the gauge is a natural number only because every decrement belongs to a
  request it counts. The 502s are two ledgers, of the status count
  (`StatusLedger`) and of each upstream's failures (`FailureLedger`); both change
  in another step than the reply. That nobody is refused while an upstream is
  untried needs `Scanned`: a selection without a candidate has seen a request of
  each upstream it has passed. The lockout is proved of every step: a score of 0
  is not better than any score, so only a selection that read the counters before
  could choose the upstream, and the premise excludes one.
- **Lifecycle.** `AwaitInv`: an instance that serves is the last one started and
  the main task has not passed it, so nothing was told when a shutdown starts,
  and the monitoring has not begun. Since an instance that serves is never told,
  it never returns Ok, so `next` stays at the first instance and the monitoring
  is reached only with none. That started instances are well formed follows from
  what `main` has passed: `validate` when it is past loading, `validate_config`
  when an instance serves. No server is forgotten because of `ShutdownInOrder`,
  which says what `tell` has passed when the process exits, and `PassedKnow`: a
  server that was told and goes on has the broadcast or had no receiver yet.
- **Registry.** `TotalLedger` is a congruence. `Balance` is the total as it would be
  in the integers: what is listed and was replaced, less what is not counted yet.
  A write to the map changes none of it, a write to the counter changes both
  sides by one (`CountsUp`, `CountsDown`, from four lemmas on remainders), so the
  total stays the balance modulo `Totals`, for a `Totals` of any size. `QuietAt`
  carries that from the exporter's first read to its second. A verdict needs
  `ReadingAt`, of a check that holds the map's lock: what it has still to read is
  listed, each state an upstream has now is in its record, and its counts are
  explained by that record; `JudgedAt` is what is left of this when it is done.

Only model-checked are the liveness properties `EveryoneFinishes`, `TasksFinish`,
`ClosedEnds`, `PacketsFinish`, `ExpiredIsCleaned`, `ShutdownEnds`, `RequestsAnswered`
and `DrainEnds`:
fairness and `ENABLED` are out of the prover's reach. Every other property of a
passing run is a theorem.

## 5. Not modelled, and why

- Headers, bodies, durations, logging, the Prometheus text and the values of
  hashes: data no property tells apart.
- hyper's graceful shutdown and keep-alive; TLS; the kernel's sockets.
- Deserialization and the default values of a configuration.
- Buffers and errors: stateless. CPU affinity: calls into the operating system
  whose failure is only logged, without effect on another component.
- `get_metrics` and `health_check` of the proxies, which only read counters, and
  their collection, which never runs while a proxy does.
- The registry's proxy metrics, memory usage, uptime and reload count: each is
  stored and read by one access of its own.
- `return_connection_to_pool` (`proxy/tcp.rs:230`), which nobody calls; without it
  the pool stays empty.
- Steps that are merged because nothing reads in between: `TcpProxy.Probe` (the
  filter on the health state and the load of the gauge), `HttpProxy.Finish` (the
  gauge and the count of the status). A read error of kind `UnexpectedEof`
  (`proxy/tcp.rs:339`), which `read` on a socket does not return.
- The limit on descriptors, and the abort when a listener's socket cannot be
  bound (`proxy/udp.rs:236`).
- The objects the registry is given by `router.rs:149` are not those the proxies
  use, so no module composes the two.

## 6. Plan

The order of construction, most important behaviour first: `UpstreamStats`,
`HashRing`, `TcpProxy`, `UdpProxy`, `HttpProxy`, `Lifecycle`, then `Tally`,
`TcpStream` with `Relay`, `Selection`, `Config` and `MetricsRegistry`. Every
invariant, action property and refinement of the runs has a proof. What is left is
the safety side of the liveness properties, as state predicates with proofs of
their own: that a task which waits for a lock waits for one that can go on
(`HashRing`'s two locks; `UdpProxy`'s shards as long as the instance is not starved,
but for the packet that waits for itself), and that each step of a TCP copy brings it nearer to its end.
