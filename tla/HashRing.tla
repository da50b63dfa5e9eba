------------------------------ MODULE HashRing -------------------------------
(***************************************************************************)
(* The Router of routing.rs under the ConsistentHashing strategy: a list   *)
(* of upstreams behind one parking_lot RwLock, and the ring of hashes that *)
(* points into that list, behind another.                                  *)
(*                                                                         *)
(* Updaters run update_upstreams and update_upstream_health.  Each first   *)
(* changes the list, or the health of one upstream, and then rebuilds the  *)
(* ring in a second critical section (list read-locked, ring               *)
(* write-locked); selectors run select_upstream with a session key.        *)
(*                                                                         *)
(* An UpstreamInfo lives until its list is replaced, so an object is its   *)
(* position in the list together with the generation of that list.  Hashes *)
(* are abstract points: VNodes gives the points of an upstream's virtual   *)
(* nodes, Keys the points of the session keys.                             *)
(*                                                                         *)
(* Locks: Replace is pending (its WRITER bit set, no new list readers)     *)
(* while its updater is at "replace"; the list is read-locked by selectors *)
(* at "ring" and by updaters at "lockRing" and "scan"; the ring is         *)
(* write-locked by the updater at "scan".                                  *)
(***************************************************************************)
EXTENDS Integers, Sequences, FiniteSets

CONSTANTS
    Updaters, Selectors,
    Names,            \* names of upstreams
    Lists,            \* upstream lists given to update_upstreams
    VNodes,           \* name -> points of its virtual nodes
    Keys,             \* points of session keys
    None,             \* select_upstream found no upstream
    MaxReplacements   \* bound: calls of update_upstreams

HealthStates == {"Healthy", "Unhealthy", "Unknown"}
UpstreamInfo == [name : Names, health_state : HealthStates]

ASSUME ListsAssumption == Lists \subseteq Seq(Names)
ASSUME VNodesAssumption ==
    /\ VNodes \in [Names -> SUBSET Nat]
    /\ \A n \in Names : VNodes[n] # {}
ASSUME KeysAssumption == Keys \subseteq Nat
ASSUME NoneAssumption == None \notin UpstreamInfo

VARIABLES
    upstreams,     \* the list: sequence of UpstreamInfo
    generation,    \* how many times the list was replaced
    hash_ring,     \* point -> index into the list it was built from
    pc, target,    \* each updater: where it is; the object and the health
                   \* state of a health update
    scanned,       \* each updater: list positions update() has passed
    selecting,     \* each selector: where it is
    picked         \* each selector: point used and upstream returned

updaterVars == <<pc, target, scanned>>
selectorVars == <<selecting, picked>>
vars == <<upstreams, generation, hash_ring, updaterVars, selectorVars>>

NoTarget == [index |-> 0, generation |-> 0, state |-> "Unknown"]
NoPick == [point |-> 0, upstream |-> None]
EmptyRing == [h \in {} |-> 0]

Init ==
    /\ upstreams = << >>
    /\ generation = 0
    /\ hash_ring = EmptyRing
    /\ pc = [u \in Updaters |-> "idle"]
    /\ target = [u \in Updaters |-> NoTarget]
    /\ scanned = [u \in Updaters |-> 0]
    /\ selecting = [s \in Selectors |-> "idle"]
    /\ picked = [s \in Selectors |-> NoPick]

is_available(upstream) == upstream.health_state \in {"Healthy", "Unknown"}

Scanners == {u \in Updaters : pc[u] = "scan"}
\* Faulty: the list is still read-locked when the rebuild locks it again.
ListReadersNested == {u \in Updaters : pc[u] \in {"lockList", "lockRing", "scan"}}
                       \cup {s \in Selectors : selecting[s] = "ring"}

ListReaders == {u \in Updaters : pc[u] \in {"lockRing", "scan"}}
                 \cup {s \in Selectors : selecting[s] = "ring"}
ReplacePending == \E u \in Updaters : pc[u] = "replace"

-----------------------------------------------------------------------------
(* update_upstreams *)

\* The write lock's bit is taken; readers that hold the lock may remain.
BeginReplace(u) ==
    /\ pc[u] = "idle"
    /\ ~ReplacePending
    /\ generation < MaxReplacements
    /\ pc' = [pc EXCEPT ![u] = "replace"]
    /\ UNCHANGED <<upstreams, generation, hash_ring, target, scanned,
                   selectorVars>>

\* Every upstream of the new list is a fresh object of unknown health.
Replace(u) ==
    /\ pc[u] = "replace"
    /\ ListReaders = {}
    /\ \E names \in Lists :
          upstreams' = [i \in 1 .. Len(names) |->
                          [name |-> names[i], health_state |-> "Unknown"]]
    /\ generation' = generation + 1
    /\ pc' = [pc EXCEPT ![u] = "lockList"]
    /\ UNCHANGED <<hash_ring, target, scanned, selectorVars>>

(* update_upstream_health *)

\* get_upstream_by_name: the first upstream of that name, None if there is
\* none.  The read lock is released with the object in hand.
LookupHealth(u) ==
    /\ pc[u] = "idle"
    /\ ~ReplacePending
    /\ \E i \in 1 .. Len(upstreams), state \in HealthStates :
          /\ \A j \in 1 .. (i - 1) : upstreams[j].name # upstreams[i].name
          /\ target' = [target EXCEPT ![u] =
                [index |-> i, generation |-> generation, state |-> state]]
    /\ pc' = [pc EXCEPT ![u] = "set"]
    /\ UNCHANGED <<upstreams, generation, hash_ring, scanned, selectorVars>>

\* Faulty: the ring is not rebuilt after a change of health.
SetHealthOnly(u) ==
    /\ pc[u] = "set"
    /\ IF target[u].generation = generation
       THEN upstreams' = [upstreams EXCEPT ![target[u].index].health_state =
                                              target[u].state]
       ELSE UNCHANGED upstreams
    /\ target' = [target EXCEPT ![u] = NoTarget]
    /\ pc' = [pc EXCEPT ![u] = "idle"]
    /\ UNCHANGED <<generation, hash_ring, scanned, selectorVars>>

\* set_health_state, on an object that may have left the list meanwhile.
SetHealth(u) ==
    /\ pc[u] = "set"
    /\ IF target[u].generation = generation
       THEN upstreams' = [upstreams EXCEPT ![target[u].index].health_state =
                                              target[u].state]
       ELSE UNCHANGED upstreams
    /\ target' = [target EXCEPT ![u] = NoTarget]
    /\ pc' = [pc EXCEPT ![u] = "lockList"]
    /\ UNCHANGED <<generation, hash_ring, scanned, selectorVars>>

(* the rebuild both end with *)

LockList(u) ==
    /\ pc[u] = "lockList"
    /\ ~ReplacePending
    /\ pc' = [pc EXCEPT ![u] = "lockRing"]
    /\ UNCHANGED <<upstreams, generation, hash_ring, target, scanned,
                   selectorVars>>

\* hash_ring.write(), and update() clears the ring.
LockRing(u) ==
    /\ pc[u] = "lockRing"
    /\ Scanners = {}
    /\ hash_ring' = EmptyRing
    /\ scanned' = [scanned EXCEPT ![u] = 0]
    /\ pc' = [pc EXCEPT ![u] = "scan"]
    /\ UNCHANGED <<upstreams, generation, target, selectorVars>>

\* Faulty: the index is counted from 0.
InsertFromZero(ring, points, i) ==
    [h \in DOMAIN ring \cup points |-> IF h \in points THEN i - 1 ELSE ring[h]]

\* ring.insert for each virtual node: a later upstream takes over a point.
Insert(ring, points, i) ==
    [h \in DOMAIN ring \cup points |-> IF h \in points THEN i ELSE ring[h]]

\* One upstream of the list; its health is read under its own lock, so it
\* may change between two steps of the scan.
ScanUpstream(u) ==
    /\ pc[u] = "scan"
    /\ scanned[u] < Len(upstreams)
    /\ LET i == scanned[u] + 1
       IN  hash_ring' = IF is_available(upstreams[i])
                        THEN Insert(hash_ring, VNodes[upstreams[i].name], i)
                        ELSE hash_ring
    /\ scanned' = [scanned EXCEPT ![u] = @ + 1]
    /\ UNCHANGED <<upstreams, generation, pc, target, selectorVars>>

FinishRebuild(u) ==
    /\ pc[u] = "scan"
    /\ scanned[u] = Len(upstreams)
    /\ scanned' = [scanned EXCEPT ![u] = 0]
    /\ pc' = [pc EXCEPT ![u] = "idle"]
    /\ UNCHANGED <<upstreams, generation, hash_ring, target, selectorVars>>

(* select_upstream *)

\* The list is read-locked for the whole selection.
LockListForSelect(s) ==
    /\ selecting[s] = "idle"
    /\ ~ReplacePending
    /\ picked' = [picked EXCEPT ![s] = NoPick]
    /\ selecting' = [selecting EXCEPT ![s] = IF upstreams = << >> THEN "idle" ELSE "ring"]
    /\ UNCHANGED <<upstreams, generation, hash_ring, updaterVars>>

\* The point of the ring a key falls to: the first at or after it, or the
\* first of all beyond the last.
IsSuccessor(points, key, h) ==
    /\ h \in points
    /\ IF \E g \in points : g >= key
       THEN h >= key /\ \A g \in points : g >= key => h <= g
       ELSE \A g \in points : h <= g

\* Faulty: the last upstream of the list is out of bounds.
PickShort(h) ==
    [point |-> h,
     upstream |-> IF hash_ring[h] < Len(upstreams)
                  THEN upstreams[hash_ring[h]] ELSE None]

\* ring.get, then upstreams.get, which is None beyond the end of the list.
Pick(h) ==
    [point |-> h,
     upstream |-> IF hash_ring[h] <= Len(upstreams)
                  THEN upstreams[hash_ring[h]] ELSE None]

PickFromRing(s) ==
    /\ selecting[s] = "ring"
    /\ Scanners = {}
    /\ \/ /\ DOMAIN hash_ring = {}
          /\ picked' = [picked EXCEPT ![s] = NoPick]
       \/ \E key \in Keys, h \in DOMAIN hash_ring :
             /\ IsSuccessor(DOMAIN hash_ring, key, h)
             /\ picked' = [picked EXCEPT ![s] = Pick(h)]
    /\ selecting' = [selecting EXCEPT ![s] = "idle"]
    /\ UNCHANGED <<upstreams, generation, hash_ring, updaterVars>>

UpdaterStep(u) ==
    Replace(u) \/ SetHealth(u) \/ ScanUpstream(u) \/ FinishRebuild(u)

Next ==
    \/ \E u \in Updaters : \/ BeginReplace(u) \/ LookupHealth(u)
                           \/ UpdaterStep(u)
                           \/ LockList(u) \/ LockRing(u)
    \/ \E s \in Selectors : LockListForSelect(s) \/ PickFromRing(s)

Spec == Init /\ [][Next]_vars

\* Threads that run keep running; a lock is granted to a thread that finds it
\* free again and again (parking_lot's eventual fairness).  No call is ever
\* obliged to happen.
Fairness ==
    /\ \A u \in Updaters : /\ WF_vars(UpdaterStep(u))
                           /\ SF_vars(LockList(u))
                           /\ SF_vars(LockRing(u))
    /\ \A s \in Selectors : SF_vars(PickFromRing(s))

FairSpec == Spec /\ Fairness

-----------------------------------------------------------------------------
(* Properties *)

\* Types of the list, the ring and the threads' local state.
TypeOK ==
    /\ upstreams \in Seq(UpstreamInfo)
    /\ generation \in Nat
    /\ DOMAIN hash_ring \subseteq Nat
    /\ hash_ring \in [DOMAIN hash_ring -> Nat \ {0}]
    /\ pc \in [Updaters -> {"idle", "replace", "set", "lockList", "lockRing",
                            "scan"}]
    /\ target \in [Updaters -> [index : Nat, generation : Nat,
                                state : HealthStates]]
    /\ scanned \in [Updaters -> Nat]
    /\ selecting \in [Selectors -> {"idle", "ring"}]
    /\ picked \in [Selectors -> [point : Nat, upstream : UpstreamInfo \cup {None}]]

\* The points an upstream contributes to the ring.
PointsOf(upstream) ==
    IF is_available(upstream) THEN VNodes[upstream.name] ELSE {}

\* The ring is the one update() builds from the first k upstreams of a list:
\* their points, each with the last of those upstreams that has it.
RingMatches(ring, list, k) ==
    /\ \A i \in 1 .. k : PointsOf(list[i]) \subseteq DOMAIN ring
    /\ \A h \in DOMAIN ring :
          /\ ring[h] \in 1 .. k
          /\ h \in PointsOf(list[ring[h]])
          /\ \A i \in 1 .. k : h \in PointsOf(list[i]) => i <= ring[h]

\* Updaters that have changed the list or a health and not yet begun the
\* rebuild that follows.
Pending == {u \in Updaters : pc[u] \in {"lockList", "lockRing"}}

Quiescent == Pending = {} /\ Scanners = {}

\* Whatever updates overlapped, once none is between its change and the end
\* of its rebuild the ring is the one of the current list and health states:
\* no update is lost, although change and rebuild are separate critical
\* sections and a scan reads health states that others are writing.
RingFresh == Quiescent => RingMatches(hash_ring, upstreams, Len(upstreams))

\* A selection made while no update is in progress returns an available
\* upstream that owns the point the key fell to, and None only if there is
\* none: the ring, its indices and the list fit together (update_upstreams,
\* update_upstream_health and select_consistent_hash).  Between the change of
\* the list and the rebuild the indices point into a list that is gone, and
\* another upstream or None is returned.
QuiescentPickSound ==
    [][\A s \in Selectors :
          selecting[s] = "ring" /\ selecting'[s] = "idle" /\ Quiescent =>
             LET found == picked'[s].upstream
             IN  IF found = None
                 THEN \A i \in 1 .. Len(upstreams) : ~is_available(upstreams[i])
                 ELSE /\ is_available(found)
                      /\ picked'[s].point \in PointsOf(found)
                      /\ \E i \in 1 .. Len(upstreams) : upstreams[i] = found]_vars

\* Both locks are always released and granted again: no order of list and
\* ring locking (list write; list read then ring write; list read then ring
\* read) leaves an update or a selection waiting for ever.
EveryoneFinishes ==
    /\ \A u \in Updaters : pc[u] # "idle" ~> pc[u] = "idle"
    /\ \A s \in Selectors : selecting[s] # "idle" ~> selecting[s] = "idle"
=============================================================================
