------------------------------ MODULE UdpProxy -------------------------------
(***************************************************************************)
(* The UDP proxy of proxy/udp.rs: a task per client packet, a listener     *)
(* task per session, the cleanup task and the receive loop, around a       *)
(* DashMap of sessions keyed by client address.                            *)
(*                                                                         *)
(* The map is split into shards, each behind a blocking RwLock.  A Ref (in *)
(* get_or_create_session) and an iterator (in run_session_cleanup) keep a  *)
(* shard read-locked across an await; insert, remove and clear need it     *)
(* write-locked and block their thread until they get it.  Readers are let *)
(* in while a writer waits.  The tokio runtime has Workers threads; the    *)
(* receive loop runs on the main thread.                                   *)
(*                                                                         *)
(* A step runs from one await, or one access to state shared with other    *)
(* tasks, to the next.  A task that is at an await has no thread and needs *)
(* a free worker to go on; between two accesses without an await it keeps  *)
(* the worker it has.  Of time only this is kept: whether a session's     *)
(* last activity is more than session_timeout ago.  A session stands also  *)
(* for the upstream it was given and its socket.  Left out: byte and       *)
(* packet totals, the failure a failed send adds to the upstream's         *)
(* statistics (UpstreamStats), and the abort of the whole process when the *)
(* unwrap in start_upstream_listener fails.                                *)
(***************************************************************************)
EXTENDS Integers, FiniteSets

CONSTANTS
    Clients,          \* client addresses
    Tasks,            \* slots for packet tasks running at the same time
    Shards,           \* number of shards of the map
    ShardOf,          \* client -> its shard
    Workers,          \* worker threads of the runtime
    Expiry,           \* FALSE: no run is long enough for a session to expire
    MaxSessions       \* bound: sessions created

ASSUME ShardAssumption ==
    Shards \in Nat \ {0} /\ ShardOf \in [Clients -> 1 .. Shards]
ASSUME FiniteAssumption ==
    IsFiniteSet(Clients) /\ Clients # {} /\ IsFiniteSet(Tasks)
ASSUME NumbersAssumption ==
    /\ Workers \in Nat /\ MaxSessions \in Nat
    /\ Expiry \in BOOLEAN

Sessions == 1 .. MaxSessions      \* in order of creation; 0 is no session

VARIABLES
    sessions,        \* the map: client -> session or 0
    created, owner, stale,   \* UdpSession objects: how many there are, the
                             \* client of each, those past the timeout
    pc, client, session,     \* each packet task: where it is, its client and
                             \* the session it holds or uses
    listener,        \* each session's listener task: where it is
    cleaner, guarded, unchecked, expired,  \* cleanup: where it is, the shard
                     \* its iterator locks (0: none), the entries of it still
                     \* to look at, the clients found expired
    loop, cleared,   \* the receive loop, and the shards clear() has done
    sessions_active, sessions_created, sessions_expired,
    drift            \* history: sessions that left the map uncounted, less
                     \* removals that were counted and removed nothing

objectVars == <<created, owner, stale>>
taskVars == <<pc, client, session>>
cleanerVars == <<cleaner, guarded, unchecked, expired>>
loopVars == <<loop, cleared>>
metricVars == <<sessions_active, sessions_created, sessions_expired>>
vars == <<sessions, objectVars, taskVars, listener, cleanerVars, loopVars,
          metricVars, drift>>

AnyClient == CHOOSE c \in Clients : TRUE    \* for slots not in use

Init ==
    /\ sessions = [c \in Clients |-> 0]
    /\ created = 0
    /\ owner = [s \in Sessions |-> AnyClient]
    /\ stale = {}
    /\ pc = [t \in Tasks |-> "idle"]
    /\ client = [t \in Tasks |-> AnyClient]
    /\ session = [t \in Tasks |-> 0]
    /\ listener = [s \in Sessions |-> "none"]
    /\ cleaner = "sleep" /\ guarded = 0 /\ unchecked = {} /\ expired = {}
    /\ loop = "running" /\ cleared = 0
    /\ sessions_active = 0 /\ sessions_created = 0 /\ sessions_expired = 0
    /\ drift = 0

is_expired(s) == s \in stale

\* Somebody holds a read guard on the shard.
Guarded(shard) ==
    \/ guarded = shard
    \/ \E t \in Tasks : pc[t] \in {"held", "remove"} /\ ShardOf[client[t]] = shard

\* The cleanup's list is in the order of the iterator, shard by shard.
FirstExpired == {c \in expired : \A d \in expired : ShardOf[c] <= ShardOf[d]}

Count(b) == IF b THEN 1 ELSE 0

\* Who has a worker thread: whoever is not at an await.
BusyTasks == {t \in Tasks : pc[t] \in {"insert", "remove", "count"}}
BusyListeners == {s \in Sessions : listener[s] \in {"remove", "count"}}
CleanerBusy ==
    \/ cleaner \in {"remove", "count"}
    \/ cleaner = "scan" /\ unchecked = {}

WorkerFree ==
    Cardinality(BusyTasks) + Cardinality(BusyListeners) + Count(CleanerBusy)
      < Workers

\* Whose thread waits for a write lock.
BlockedTasks ==
    {t \in Tasks : \/ pc[t] = "remove"
                   \/ pc[t] = "insert" /\ Guarded(ShardOf[client[t]])}
BlockedListeners ==
    {s \in Sessions : listener[s] = "remove" /\ Guarded(ShardOf[owner[s]])}
CleanerBlocked ==
    cleaner = "remove" /\ \E c \in FirstExpired : Guarded(ShardOf[c])

\* Every worker thread waits for a lock of the map.
Starved ==
    Cardinality(BlockedTasks) + Cardinality(BlockedListeners)
      + Count(CleanerBlocked) >= Workers

-----------------------------------------------------------------------------
(* start: the receive loop *)

\* A packet arrives; a task is spawned for it (handle_client_packet).
Receive(t) ==
    /\ loop = "running"
    /\ pc[t] = "idle"
    /\ \E c \in Clients : client' = [client EXCEPT ![t] = c]
    /\ pc' = [pc EXCEPT ![t] = "lookup"]
    /\ UNCHANGED <<sessions, objectVars, session, listener, cleanerVars,
                   loopVars, metricVars, drift>>

Shutdown ==
    /\ loop = "running"
    /\ loop' = "clearing"
    /\ UNCHANGED <<sessions, objectVars, taskVars, listener, cleanerVars,
                   cleared, metricVars, drift>>

\* sessions.clear() goes through the shards; the gauge is not told.
Clear ==
    /\ loop = "clearing"
    /\ IF cleared = Shards
       THEN loop' = "stopped" /\ UNCHANGED <<sessions, cleared, drift>>
       ELSE LET gone == {c \in Clients : ShardOf[c] = cleared + 1 /\ sessions[c] # 0}
            IN  /\ ~Guarded(cleared + 1)
                /\ sessions' = [c \in Clients |->
                                  IF c \in gone THEN 0 ELSE sessions[c]]
                /\ drift' = drift + Cardinality(gone)
                /\ cleared' = cleared + 1
                /\ UNCHANGED loop
    /\ UNCHANGED <<objectVars, taskVars, listener, cleanerVars, metricVars>>

\* The task ends; its slot may serve another packet.
Finish(t) ==
    /\ pc' = [pc EXCEPT ![t] = "idle"]
    /\ client' = [client EXCEPT ![t] = AnyClient]
    /\ session' = [session EXCEPT ![t] = 0]

(* get_or_create_session *)

\* sessions.get: the Ref, with its guard, lives to the end of the if-let.
Lookup(t) ==
    /\ pc[t] = "lookup"
    /\ WorkerFree
    /\ LET s == sessions[client[t]]
       IN  /\ session' = [session EXCEPT ![t] = s]
           /\ pc' = [pc EXCEPT ![t] = IF s = 0 THEN "create" ELSE "held"]
    /\ UNCHANGED <<sessions, objectVars, client, listener, cleanerVars,
                   loopVars, metricVars, drift>>

\* is_expired().await, under the guard.  A live session is cloned and the
\* guard dropped.  An expired one is to be removed, while the guard is still
\* held: sessions.remove waits for this very task, so no step leaves "remove".
CheckExpired(t) ==
    /\ pc[t] = "held"
    /\ WorkerFree
    /\ pc' = [pc EXCEPT ![t] = IF is_expired(session[t]) THEN "remove" ELSE "touch"]
    /\ UNCHANGED <<sessions, objectVars, client, session, listener,
                   cleanerVars, loopVars, metricVars, drift>>

\* select_upstream, UdpSession::new and start_upstream_listener.
Create(t) ==
    /\ pc[t] = "create"
    /\ WorkerFree
    /\ created < MaxSessions
    /\ LET s == created + 1
       IN  /\ session' = [session EXCEPT ![t] = s]
           /\ owner' = [owner EXCEPT ![s] = client[t]]
           /\ listener' = [listener EXCEPT ![s] = "recv"]
    /\ created' = created + 1
    /\ pc' = [pc EXCEPT ![t] = "insert"]
    /\ UNCHANGED <<sessions, stale, client, cleanerVars, loopVars, metricVars, drift>>

\* Faulty: without an upstream the packet is tried again at once.
CreateRetries(t) ==
    /\ pc[t] = "create"
    /\ WorkerFree
    /\ pc' = [pc EXCEPT ![t] = "lookup"]
    /\ UNCHANGED <<sessions, objectVars, client, session, listener,
                   cleanerVars, loopVars, metricVars, drift>>

\* No upstream, a bad address, no socket: the packet is dropped.
CreateFails(t) ==
    /\ pc[t] = "create"
    /\ WorkerFree
    /\ Finish(t)
    /\ UNCHANGED <<sessions, objectVars, listener,
                   cleanerVars, loopVars, metricVars, drift>>

\* sessions.insert replaces what another task may have inserted meanwhile.
Insert(t) ==
    /\ pc[t] = "insert"
    /\ ~Guarded(ShardOf[client[t]])
    /\ drift' = IF sessions[client[t]] = 0 THEN drift ELSE drift + 1
    /\ sessions' = [sessions EXCEPT ![client[t]] = session[t]]
    /\ pc' = [pc EXCEPT ![t] = "count"]
    /\ UNCHANGED <<objectVars, client, session, listener, cleanerVars,
                   loopVars, metricVars>>

CountCreated(t) ==
    /\ pc[t] = "count"
    /\ sessions_created' = sessions_created + 1
    /\ sessions_active' = sessions_active + 1
    /\ pc' = [pc EXCEPT ![t] = "touch"]
    /\ UNCHANGED <<sessions, objectVars, client, session, listener,
                   cleanerVars, loopVars, sessions_expired,
                   drift>>

(* handle_client_packet, after the session is found *)

Touch(t) ==
    /\ pc[t] = "touch"
    /\ WorkerFree
    /\ stale' = stale \ {session[t]}
    /\ pc' = [pc EXCEPT ![t] = "forward"]
    /\ UNCHANGED <<sessions, created, owner, client, session, listener,
                   cleanerVars, loopVars, metricVars, drift>>

\* forward_to_upstream: sent, failed or timed out, the task ends.
Forward(t) ==
    /\ pc[t] = "forward"
    /\ WorkerFree
    /\ Finish(t)
    /\ UNCHANGED <<sessions, objectVars, listener,
                   cleanerVars, loopVars, metricVars, drift>>

(* the listener of a session *)

ListenerGoto(s, label) ==
    /\ listener' = [listener EXCEPT ![s] = label]
    /\ UNCHANGED <<created, owner, taskVars, cleanerVars, loopVars>>

\* A reply, or an error that ends the listener and leaves the session.
ListenerRecv(s) ==
    /\ listener[s] = "recv"
    /\ WorkerFree
    /\ \E label \in {"send", "dead"} : ListenerGoto(s, label)
    /\ UNCHANGED <<sessions, stale, metricVars, drift>>

\* send_to, then touch; a failed send ends the listener too.
ListenerSend(s) ==
    /\ listener[s] = "send"
    /\ WorkerFree
    /\ \/ ListenerGoto(s, "check") /\ stale' = stale \ {s}
       \/ ListenerGoto(s, "dead") /\ UNCHANGED stale
    /\ UNCHANGED <<sessions, metricVars, drift>>

ListenerCheck(s) ==
    /\ listener[s] = "check"
    /\ WorkerFree
    /\ ListenerGoto(s, IF is_expired(s) THEN "remove" ELSE "recv")
    /\ UNCHANGED <<sessions, stale, metricVars, drift>>

\* Whatever session the client has now is removed; if it has none the
\* removal is counted all the same.
ListenerRemove(s) ==
    /\ listener[s] = "remove"
    /\ ~Guarded(ShardOf[owner[s]])
    /\ drift' = IF sessions[owner[s]] = 0 THEN drift - 1 ELSE drift
    /\ sessions' = [sessions EXCEPT ![owner[s]] = 0]
    /\ ListenerGoto(s, "count")
    /\ UNCHANGED <<stale, metricVars>>

ListenerCount(s) ==
    /\ listener[s] = "count"
    /\ sessions_expired' = sessions_expired + 1
    /\ sessions_active' = sessions_active - 1
    /\ ListenerGoto(s, "dead")
    /\ UNCHANGED <<sessions, stale, sessions_created, drift>>

(* run_session_cleanup *)

\* The iterator locks the first shard.
CleanupStart ==
    /\ cleaner = "sleep"
    /\ WorkerFree
    /\ cleaner' = "scan"
    /\ guarded' = 1
    /\ unchecked' = {c \in Clients : ShardOf[c] = 1 /\ sessions[c] # 0}
    /\ expired' = {}
    /\ UNCHANGED <<sessions, objectVars, taskVars, listener, loopVars,
                   metricVars, drift>>

\* Faulty: the sessions that are still live are collected.
CleanupCheckInverted(c) ==
    /\ cleaner = "scan"
    /\ WorkerFree
    /\ c \in unchecked
    /\ unchecked' = unchecked \ {c}
    /\ expired' = IF is_expired(sessions[c]) THEN expired ELSE expired \cup {c}
    /\ UNCHANGED <<sessions, objectVars, taskVars, listener, cleaner, guarded,
                   loopVars, metricVars, drift>>

\* is_expired().await for one entry, under the iterator's guard.
CleanupCheck(c) ==
    /\ cleaner = "scan"
    /\ WorkerFree
    /\ c \in unchecked
    /\ unchecked' = unchecked \ {c}
    /\ expired' = IF is_expired(sessions[c]) THEN expired \cup {c} ELSE expired
    /\ UNCHANGED <<sessions, objectVars, taskVars, listener, cleaner, guarded,
                   loopVars, metricVars, drift>>

\* Faulty: the sessions are removed while the iterator is still in use.
CleanupNextShardHeld ==
    /\ cleaner = "scan"
    /\ unchecked = {}
    /\ IF guarded < Shards
       THEN /\ guarded' = guarded + 1
            /\ unchecked' = {c \in Clients : ShardOf[c] = guarded + 1
                                               /\ sessions[c] # 0}
            /\ UNCHANGED cleaner
       ELSE /\ cleaner' = "remove"
            /\ UNCHANGED <<guarded, unchecked>>
    /\ UNCHANGED <<sessions, objectVars, taskVars, listener, expired, loopVars,
                   metricVars, drift>>

\* Faulty: the iterator goes one shard too far.
CleanupPastShards ==
    /\ cleaner = "scan"
    /\ unchecked = {}
    /\ IF guarded <= Shards
       THEN /\ guarded' = guarded + 1
            /\ unchecked' = {c \in Clients : ShardOf[c] = guarded + 1
                                               /\ sessions[c] # 0}
            /\ UNCHANGED cleaner
       ELSE /\ guarded' = 0
            /\ cleaner' = "remove"
            /\ UNCHANGED unchecked
    /\ UNCHANGED <<sessions, objectVars, taskVars, listener, expired, loopVars,
                   metricVars, drift>>

CleanupNextShard ==
    /\ cleaner = "scan"
    /\ unchecked = {}
    /\ IF guarded < Shards
       THEN /\ guarded' = guarded + 1
            /\ unchecked' = {c \in Clients : ShardOf[c] = guarded + 1
                                               /\ sessions[c] # 0}
            /\ UNCHANGED cleaner
       ELSE /\ guarded' = 0
            /\ cleaner' = "remove"
            /\ UNCHANGED unchecked
    /\ UNCHANGED <<sessions, objectVars, taskVars, listener, expired, loopVars,
                   metricVars, drift>>

\* Faulty: the removal is counted even if there was nothing to remove.
CleanupRemoveUnchecked(c) ==
    /\ cleaner = "remove"
    /\ c \in FirstExpired
    /\ ~Guarded(ShardOf[c])
    /\ cleaner' = "count"
    /\ sessions' = [sessions EXCEPT ![c] = 0]
    /\ expired' = expired \ {c}
    /\ UNCHANGED <<objectVars, taskVars, listener, guarded, unchecked,
                   loopVars, metricVars, drift>>

\* Removal is counted only if there was something to remove.  Whether the
\* session is still expired, or still the same, is not looked at again.
CleanupRemove(c) ==
    /\ cleaner = "remove"
    /\ c \in FirstExpired
    /\ ~Guarded(ShardOf[c])
    /\ cleaner' = IF sessions[c] = 0 THEN "remove" ELSE "count"
    /\ sessions' = [sessions EXCEPT ![c] = 0]
    /\ expired' = expired \ {c}
    /\ UNCHANGED <<objectVars, taskVars, listener, guarded, unchecked,
                   loopVars, metricVars, drift>>

CleanupCount ==
    /\ cleaner = "count"
    /\ sessions_expired' = sessions_expired + 1
    /\ sessions_active' = sessions_active - 1
    /\ cleaner' = "remove"
    /\ UNCHANGED <<sessions, objectVars, taskVars, listener, guarded,
                   unchecked, expired, loopVars, sessions_created, drift>>

CleanupEnd ==
    /\ cleaner = "remove"
    /\ expired = {}
    /\ cleaner' = "sleep"
    /\ UNCHANGED <<sessions, objectVars, taskVars, listener, guarded,
                   unchecked, expired, loopVars, metricVars, drift>>

(* time *)

\* The timeout passes since the last activity of a session somebody may
\* still ask about.
Expire(s) ==
    /\ Expiry
    /\ s \notin stale
    /\ \/ \E c \in Clients : sessions[c] = s
       \/ listener[s] \notin {"none", "dead"}
    /\ stale' = stale \cup {s}
    /\ UNCHANGED <<sessions, created, owner, taskVars, listener, cleanerVars,
                   loopVars, metricVars, drift>>

TaskStep(t) ==
    \/ Lookup(t) \/ CheckExpired(t) \/ Create(t) \/ CreateFails(t) \/ Insert(t)
    \/ CountCreated(t) \/ Touch(t) \/ Forward(t)
ListenerStep(s) ==
    ListenerSend(s) \/ ListenerCheck(s) \/ ListenerRemove(s) \/ ListenerCount(s)
CleanupStep ==
    \/ CleanupStart \/ CleanupNextShard \/ CleanupCount \/ CleanupEnd
    \/ \E c \in Clients : CleanupCheck(c) \/ CleanupRemove(c)

Next ==
    \/ \E t \in Tasks : Receive(t) \/ TaskStep(t)
    \/ \E s \in Sessions : ListenerRecv(s) \/ ListenerStep(s) \/ Expire(s)
    \/ CleanupStep
    \/ Shutdown \/ Clear

Spec == Init /\ [][Next]_vars

\* A task that can go on is polled once a worker is free again and again, the
\* cleanup timer fires, and a lock that is free again and again is granted.
\* Packets, replies and shutdown need never come.
Fairness ==
    /\ \A t \in Tasks : SF_vars(TaskStep(t))
    /\ \A s \in Sessions : SF_vars(ListenerStep(s))
    /\ SF_vars(CleanupStep)
    /\ SF_vars(Clear)

FairSpec == Spec /\ Fairness

-----------------------------------------------------------------------------
(* Properties *)

\* Types of the map, the tasks' local state and the counters.
TypeOK ==
    /\ sessions \in [Clients -> 0 .. MaxSessions]
    /\ created \in 0 .. MaxSessions
    /\ owner \in [Sessions -> Clients]
    /\ stale \subseteq Sessions
    /\ pc \in [Tasks -> {"idle", "lookup", "held", "remove", "create",
                         "insert", "count", "touch", "forward"}]
    /\ client \in [Tasks -> Clients]
    /\ session \in [Tasks -> 0 .. MaxSessions]
    /\ listener \in [Sessions -> {"none", "recv", "send", "check", "remove",
                                  "count", "dead"}]
    /\ cleaner \in {"sleep", "scan", "remove", "count"}
    /\ guarded \in 0 .. Shards
    /\ unchecked \subseteq Clients /\ expired \subseteq Clients
    /\ loop \in {"running", "clearing", "stopped"}
    /\ cleared \in 0 .. Shards
    /\ sessions_active \in Int
    /\ sessions_created \in Nat /\ sessions_expired \in Nat
    /\ drift \in Int

Mapped == {c \in Clients : sessions[c] # 0}
ToCount == {t \in Tasks : pc[t] = "count"}
ToUncount == {s \in Sessions : listener[s] = "count"}

\* The gauge is the size of the map, plus the sessions that insert and
\* clear() dropped uncounted, less removals that a listener counted without
\* removing anything, but for the counting in progress: get_or_create_session,
\* the listeners and the cleanup account for every other change of the map.
GaugeLedger ==
    sessions_active + Cardinality(ToCount) =
      Cardinality(Mapped) + drift + Cardinality(ToUncount)
        + (IF cleaner = "count" THEN 1 ELSE 0)

\* A task waits for the read guard it holds itself (udp.rs:174).
Stuck(shard) == \E t \in Tasks : pc[t] = "remove" /\ ShardOf[client[t]] = shard
AnyStuck == \E shard \in 1 .. Shards : Stuck(shard)

\* Readers are let in while a writer waits, so overlapping readers could keep
\* it waiting for ever: the schedule must let each shard be free again and
\* again, as far as the program allows it.
ReadersPause ==
    \A shard \in 1 .. Shards : []<>(~Guarded(shard) \/ Stuck(shard) \/ Starved)

\* A packet's task ends, and the slot is free for another, with two exceptions
\* that last for ever: a task that waits for its own guard locks up its shard,
\* and blocked writers that occupy every worker stop the instance.  Ended does
\* not mean delivered: a packet without an upstream or a socket is dropped, as
\* is one that needs a session more than MaxSessions.
PacketsFinish ==
    ReadersPause =>
       \A t \in Tasks :
          pc[t] # "idle" ~> pc[t] = "idle" \/ Stuck(ShardOf[client[t]]) \/ Starved

\* An expired session leaves the map, unless it is used again first, or the
\* cleanup never gets that far: a task that waits for its own guard holds it up
\* in whatever shard it is, and so do writers that, blocked by a guard the
\* cleanup itself may hold across its await (udp.rs:293), occupy every worker.
ExpiredIsCleaned ==
    ReadersPause =>
       \A c \in Clients :
          is_expired(sessions[c]) ~> ~is_expired(sessions[c]) \/ AnyStuck \/ Starved

\* A shutdown that was asked for ends: the receive loop gets the write lock of
\* every shard for sessions.clear() and returns, whatever the tasks, listeners
\* and the cleanup it does not stop are doing with the map, unless a task waits
\* for its own guard or no worker is left to release one.
ShutdownEnds == loop = "clearing" ~> loop = "stopped" \/ AnyStuck \/ Starved

\* "Session expired, remove it": a packet that finds its session expired gets
\* it removed and goes on to create another.
ExpiredSessionReplaced == \A t \in Tasks : pc[t] = "remove" ~> pc[t] = "create"
=============================================================================
