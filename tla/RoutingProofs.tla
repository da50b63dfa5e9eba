---------------------------- MODULE RoutingProofs ----------------------------
(***************************************************************************)
(* The selections of routing.rs.  For every number of updaters and         *)
(* selectors, every sequence of lists and health updates and every         *)
(* placement of virtual nodes: the ring is fresh whenever no update is in  *)
(* progress, and selections made then are sound.  For any number of tasks, *)
(* upstreams and weights: weighted round-robin returns what was available, *)
(* and serves each upstream its weight in every full turn.                 *)
(***************************************************************************)
EXTENDS HashRing, Selection, FiniteSetTheorems, SequenceTheorems,
        WellFoundedInduction, TLAPS

USE DEF updaterVars, selectorVars

LEMMA ListReplaced ==
  ASSUME NEW names \in Seq(Names)
  PROVE  [i \in 1 .. Len(names) |->
            [name |-> names[i], health_state |-> "Unknown"]] \in Seq(UpstreamInfo)
<1> DEFINE l == [i \in 1 .. Len(names) |->
                   [name |-> names[i], health_state |-> "Unknown"]]
<1>1. Len(names) \in Nat /\ \A i \in 1 .. Len(names) : names[i] \in Names
  OBVIOUS
<1>2. l \in [1 .. Len(names) -> UpstreamInfo]
  BY <1>1 DEF UpstreamInfo, HealthStates
<1> QED
  BY <1>1, <1>2

\* The variables keep their types.
THEOREM Typing == Spec => []TypeOK
<1>1. Init => TypeOK
  BY DEF Init, TypeOK, NoTarget, NoPick, EmptyRing, HealthStates
<1>2. TypeOK /\ [Next]_vars => TypeOK'
  <2> SUFFICES ASSUME TypeOK, [Next]_vars
               PROVE  TypeOK'
    OBVIOUS
  <2> USE DEF TypeOK
  <2>1. ASSUME NEW u \in Updaters, BeginReplace(u)
        PROVE  TypeOK'
    BY <2>1 DEF BeginReplace
  <2>2. ASSUME NEW u \in Updaters, Replace(u)
        PROVE  TypeOK'
    <3>1. upstreams' \in Seq(UpstreamInfo)
      BY <2>2, ListsAssumption, ListReplaced DEF Replace
    <3> QED
      BY <2>2, <3>1 DEF Replace
  <2>3. ASSUME NEW u \in Updaters, LookupHealth(u)
        PROVE  TypeOK'
    BY <2>3 DEF LookupHealth
  <2>4. ASSUME NEW u \in Updaters, SetHealth(u)
        PROVE  TypeOK'
    <3>1. target[u].state \in HealthStates
      OBVIOUS
    <3>2. upstreams' \in Seq(UpstreamInfo)
      <4> DEFINE l == [upstreams EXCEPT ![target[u].index].health_state =
                                           target[u].state]
      <4>1. /\ Len(upstreams) \in Nat
            /\ upstreams \in [1 .. Len(upstreams) -> UpstreamInfo]
        OBVIOUS
      <4>2. l \in [1 .. Len(upstreams) -> UpstreamInfo]
        BY <3>1, <4>1 DEF UpstreamInfo
      <4>3. l \in Seq(UpstreamInfo)
        BY <4>1, <4>2
      <4> QED
        BY <2>4, <4>3 DEF SetHealth
    <3> QED
      BY <2>4, <3>2 DEF SetHealth, NoTarget, HealthStates
  <2>5. ASSUME NEW u \in Updaters, LockList(u)
        PROVE  TypeOK'
    BY <2>5 DEF LockList
  <2>6. ASSUME NEW u \in Updaters, LockRing(u)
        PROVE  TypeOK'
    BY <2>6 DEF LockRing, EmptyRing
  <2>7. ASSUME NEW u \in Updaters, ScanUpstream(u)
        PROVE  TypeOK'
    <3>1. scanned[u] + 1 \in 1 .. Len(upstreams)
      BY <2>7 DEF ScanUpstream
    <3>0. upstreams[scanned[u] + 1] \in UpstreamInfo
      BY <3>1
    <3>2. VNodes[upstreams[scanned[u] + 1].name] \subseteq Nat
      BY <3>0, VNodesAssumption DEF UpstreamInfo
    <3>3. /\ DOMAIN hash_ring' \subseteq Nat
          /\ hash_ring' \in [DOMAIN hash_ring' -> Nat \ {0}]
      BY <2>7, <3>2 DEF ScanUpstream, Insert
    <3> QED
      BY <2>7, <3>3 DEF ScanUpstream
  <2>8. ASSUME NEW u \in Updaters, FinishRebuild(u)
        PROVE  TypeOK'
    BY <2>8 DEF FinishRebuild
  <2>9. ASSUME NEW s \in Selectors, LockListForSelect(s)
        PROVE  TypeOK'
    <3>1. NoPick \in [point : Nat, upstream : UpstreamInfo \cup {None}]
      BY DEF NoPick
    <3> QED
      <4>1. /\ picked' \in [Selectors -> [point : Nat,
                                 upstream : UpstreamInfo \cup {None}]]
            /\ selecting' \in [Selectors -> {"idle", "ring"}]
        BY <2>9, <3>1 DEF LockListForSelect
      <4> QED
        BY <2>9, <4>1 DEF LockListForSelect
  <2>10. ASSUME NEW s \in Selectors, PickFromRing(s)
         PROVE  TypeOK'
    <3>1. \A h \in DOMAIN hash_ring :
             Pick(h) \in [point : Nat, upstream : UpstreamInfo \cup {None}]
      BY DEF Pick
    <3>2. NoPick \in [point : Nat, upstream : UpstreamInfo \cup {None}]
      BY DEF NoPick
    <3> QED
      BY <2>10, <3>1, <3>2 DEF PickFromRing
  <2>11. CASE UNCHANGED vars
    BY <2>11 DEF vars
  <2> QED
    BY <2>1, <2>2, <2>3, <2>4, <2>5, <2>6, <2>7, <2>8, <2>9, <2>10, <2>11
       DEF Next, UpdaterStep
<1> QED
  BY <1>1, <1>2, PTL DEF Spec

-----------------------------------------------------------------------------
(* The inductive invariant: while nobody waits to rebuild, the ring is what
   the current scan (or the last one) has built from the list as it is. *)

OneScanner == \A u, v \in Scanners : u = v

ScanInRange == \A u \in Scanners : scanned[u] <= Len(upstreams)

RingCurrent ==
  Pending = {} =>
    /\ Scanners = {} => RingMatches(hash_ring, upstreams, Len(upstreams))
    /\ \A u \in Scanners : RingMatches(hash_ring, upstreams, scanned[u])

RingInv == OneScanner /\ ScanInRange /\ RingCurrent

\* One step of update()'s loop extends the built prefix by one upstream.
LEMMA ScanExtends ==
  ASSUME NEW list, NEW ring, NEW k \in Nat, RingMatches(ring, list, k),
         NEW next,
         next = IF is_available(list[k + 1])
                THEN Insert(ring, VNodes[list[k + 1].name], k + 1)
                ELSE ring
  PROVE  RingMatches(next, list, k + 1)
<1> DEFINE P == PointsOf(list[k + 1])
<1>1. /\ DOMAIN next = DOMAIN ring \cup P
      /\ \A h \in DOMAIN next : next[h] = IF h \in P THEN k + 1 ELSE ring[h]
  BY DEF Insert, PointsOf
<1> HIDE DEF P
<1>2. \A i \in 1 .. (k + 1) : PointsOf(list[i]) \subseteq DOMAIN next
  BY <1>1 DEF RingMatches, P
<1>3. ASSUME NEW h \in DOMAIN next
      PROVE  /\ next[h] \in 1 .. (k + 1)
             /\ h \in PointsOf(list[next[h]])
             /\ \A i \in 1 .. (k + 1) : h \in PointsOf(list[i]) => i <= next[h]
  <2>1. CASE h \in P
    BY <1>1, <2>1 DEF P
  <2>2. CASE h \notin P
    <3>1. h \in DOMAIN ring /\ next[h] = ring[h]
      BY <1>1, <2>2
    <3>2. /\ ring[h] \in 1 .. k
          /\ h \in PointsOf(list[ring[h]])
          /\ \A i \in 1 .. k : h \in PointsOf(list[i]) => i <= ring[h]
      BY <3>1 DEF RingMatches
    <3>3. h \notin PointsOf(list[k + 1])
      BY <2>2 DEF P
    <3> QED
      BY <3>1, <3>2, <3>3
  <2> QED
    BY <2>1, <2>2
<1> QED
  BY <1>2, <1>3 DEF RingMatches

LEMMA EmptyMatches == \A list : RingMatches(EmptyRing, list, 0)
BY DEF RingMatches, EmptyRing

LEMMA RingInvariant == Spec => []RingInv
<1>1. Init => RingInv
  <2> SUFFICES ASSUME Init
               PROVE  RingInv
    OBVIOUS
  <2>1. Scanners = {} /\ Len(upstreams) = 0 /\ hash_ring = EmptyRing
    BY DEF Init, Scanners
  <2> QED
    BY <2>1, EmptyMatches DEF RingInv, OneScanner, ScanInRange, RingCurrent
<1>2. TypeOK /\ RingInv /\ [Next]_vars => RingInv'
  <2> SUFFICES ASSUME TypeOK, RingInv, [Next]_vars
               PROVE  RingInv'
    OBVIOUS
  <2> USE DEF RingInv, OneScanner, ScanInRange
  <2>0. ASSUME UNCHANGED <<upstreams, hash_ring, scanned>>,
               Scanners' = Scanners, Pending' = Pending
        PROVE  RingInv'
    BY <2>0 DEF RingCurrent
  <2>1. ASSUME NEW u \in Updaters, BeginReplace(u) \/ LookupHealth(u)
        PROVE  RingInv'
    <3>1. Scanners' = Scanners /\ Pending' = Pending
      BY <2>1 DEF BeginReplace, LookupHealth, Scanners, Pending, TypeOK
    <3> QED
      BY <2>0, <2>1, <3>1 DEF BeginReplace, LookupHealth
  <2>2. ASSUME NEW u \in Updaters, Replace(u)
        PROVE  RingInv'
    <3>1. Scanners = {} /\ Scanners' = {} /\ u \in Pending'
      BY <2>2 DEF Replace, ListReaders, Scanners, Pending, TypeOK
    <3> QED
      BY <3>1 DEF RingCurrent
  <2>3. ASSUME NEW u \in Updaters, SetHealth(u)
        PROVE  RingInv'
    <3>1. Scanners' = Scanners /\ scanned' = scanned /\ u \in Pending'
      BY <2>3 DEF SetHealth, Scanners, Pending, TypeOK
    <3>2. Len(upstreams') = Len(upstreams)
      BY <2>3 DEF SetHealth, TypeOK
    <3> QED
      BY <3>1, <3>2 DEF RingCurrent
  <2>4. ASSUME NEW u \in Updaters, LockList(u)
        PROVE  RingInv'
    <3>1. Scanners' = Scanners /\ u \in Pending'
      BY <2>4 DEF LockList, Scanners, Pending, TypeOK
    <3> QED
      BY <2>4, <3>1 DEF LockList, RingCurrent
  <2>5. ASSUME NEW u \in Updaters, LockRing(u)
        PROVE  RingInv'
    <3>1. Scanners' = {u} /\ scanned'[u] = 0 /\ upstreams' = upstreams
      BY <2>5 DEF LockRing, Scanners, TypeOK
    <3>3. RingMatches(hash_ring', upstreams', 0)
      BY <2>5, EmptyMatches DEF LockRing
    <3>4. Len(upstreams) \in Nat
      BY DEF TypeOK
    <3> QED
      BY <3>1, <3>3, <3>4 DEF RingCurrent
  <2>6. ASSUME NEW u \in Updaters, ScanUpstream(u)
        PROVE  RingInv'
    <3> DEFINE k == scanned[u]
    <3>1. /\ Scanners' = Scanners /\ Pending' = Pending
          /\ Scanners = {u} /\ upstreams' = upstreams
          /\ k \in Nat /\ k + 1 <= Len(upstreams)
          /\ scanned'[u] = k + 1
      BY <2>6 DEF ScanUpstream, Scanners, Pending, TypeOK
    <3>2. ASSUME Pending = {}
          PROVE  RingMatches(hash_ring', upstreams, k + 1)
      <4>1. RingMatches(hash_ring, upstreams, k)
        BY <3>1, <3>2 DEF RingCurrent
      <4>2. hash_ring' = IF is_available(upstreams[k + 1])
                         THEN Insert(hash_ring, VNodes[upstreams[k + 1].name], k + 1)
                         ELSE hash_ring
        BY <2>6 DEF ScanUpstream
      <4> HIDE DEF k
      <4> QED
        BY <3>1, <4>1, <4>2, ScanExtends
    <3> HIDE DEF k
    <3> QED
      BY <3>1, <3>2 DEF RingCurrent
  <2>7. ASSUME NEW u \in Updaters, FinishRebuild(u)
        PROVE  RingInv'
    <3>1. /\ Scanners = {u} /\ Scanners' = {} /\ Pending' = Pending
          /\ UNCHANGED <<upstreams, hash_ring>>
          /\ scanned[u] = Len(upstreams)
      BY <2>7 DEF FinishRebuild, Scanners, Pending, TypeOK
    <3> QED
      BY <3>1 DEF RingCurrent
  <2>8. ASSUME NEW s \in Selectors, LockListForSelect(s) \/ PickFromRing(s)
        PROVE  RingInv'
    BY <2>0, <2>8 DEF LockListForSelect, PickFromRing, Scanners, Pending
  <2>9. CASE UNCHANGED vars
    BY <2>0, <2>9 DEF vars, Scanners, Pending
  <2> QED
    BY <2>1, <2>2, <2>3, <2>4, <2>5, <2>6, <2>7, <2>8, <2>9 DEF Next, UpdaterStep
<1> QED
  BY <1>1, <1>2, Typing, PTL DEF Spec

\* No update is lost: the ring of a quiescent router is the current one.
THEOREM RingIsFresh == Spec => []RingFresh
<1>1. RingInv => RingFresh
  BY DEF RingInv, RingCurrent, RingFresh, Quiescent
<1> QED
  BY <1>1, RingInvariant, PTL

\* A selection that overlaps no update returns an available upstream of the
\* list, and None only when there is none.
THEOREM PicksAreSound == Spec => QuiescentPickSound
<1> DEFINE Sound(s) ==
      selecting[s] = "ring" /\ selecting'[s] = "idle" /\ Quiescent =>
        LET found == picked'[s].upstream
        IN  IF found = None
            THEN \A i \in 1 .. Len(upstreams) : ~is_available(upstreams[i])
            ELSE /\ is_available(found)
                 /\ picked'[s].point \in PointsOf(found)
                 /\ \E i \in 1 .. Len(upstreams) : upstreams[i] = found
<1>1. TypeOK /\ RingInv /\ [Next]_vars => [\A s \in Selectors : Sound(s)]_vars
  <2> SUFFICES ASSUME TypeOK, RingInv, Next,
                      NEW s \in Selectors,
                      selecting[s] = "ring", selecting'[s] = "idle", Quiescent
               PROVE  LET found == picked'[s].upstream
                      IN  IF found = None
                          THEN \A i \in 1 .. Len(upstreams) : ~is_available(upstreams[i])
                          ELSE /\ is_available(found)
                               /\ picked'[s].point \in PointsOf(found)
                               /\ \E i \in 1 .. Len(upstreams) : upstreams[i] = found
    OBVIOUS
  <2>1. PickFromRing(s)
    <3>1. ~ \E u \in Updaters : \/ BeginReplace(u) \/ LookupHealth(u) \/ UpdaterStep(u)
                                \/ LockList(u) \/ LockRing(u)
      BY DEF BeginReplace, LookupHealth, UpdaterStep, Replace, SetHealth,
         ScanUpstream, FinishRebuild, LockList, LockRing
    <3>2. ASSUME NEW r \in Selectors, LockListForSelect(r)
          PROVE  FALSE
      BY <3>2 DEF LockListForSelect, TypeOK
    <3>3. ASSUME NEW r \in Selectors, PickFromRing(r)
          PROVE  r = s
      BY <3>3 DEF PickFromRing, TypeOK
    <3> QED
      BY <3>1, <3>2, <3>3 DEF Next
  <2>2. RingMatches(hash_ring, upstreams, Len(upstreams))
    BY DEF RingInv, RingCurrent, Quiescent
  <2>3. \A i \in 1 .. Len(upstreams) : upstreams[i] \in UpstreamInfo
    BY DEF TypeOK
  <2>4. CASE DOMAIN hash_ring = {} /\ picked' = [picked EXCEPT ![s] = NoPick]
    <3>1. ASSUME NEW i \in 1 .. Len(upstreams), is_available(upstreams[i])
          PROVE  FALSE
      <4>1. VNodes[upstreams[i].name] # {}
        BY <2>3, VNodesAssumption DEF UpstreamInfo
      <4>2. PointsOf(upstreams[i]) \subseteq DOMAIN hash_ring
        BY <2>2 DEF RingMatches
      <4> QED
        BY <2>4, <3>1, <4>1, <4>2 DEF PointsOf
    <3>2. picked'[s].upstream = None
      BY <2>4 DEF TypeOK, NoPick
    <3> QED
      BY <3>1, <3>2
  <2>5. ASSUME NEW h \in DOMAIN hash_ring,
               picked' = [picked EXCEPT ![s] = Pick(h)]
        PROVE  /\ picked'[s].upstream # None
               /\ is_available(picked'[s].upstream)
               /\ picked'[s].point \in PointsOf(picked'[s].upstream)
               /\ \E i \in 1 .. Len(upstreams) : upstreams[i] = picked'[s].upstream
    <3>1. hash_ring[h] \in 1 .. Len(upstreams) /\ h \in PointsOf(upstreams[hash_ring[h]])
      BY <2>2 DEF RingMatches
    <3>2. picked'[s].upstream = upstreams[hash_ring[h]] /\ picked'[s].point = h
      BY <2>5, <3>1 DEF TypeOK, Pick
    <3>3. is_available(upstreams[hash_ring[h]])
      BY <3>1 DEF PointsOf
    <3> QED
      BY <2>3, <3>1, <3>2, <3>3, NoneAssumption
  <2> QED
    BY <2>1, <2>4, <2>5 DEF PickFromRing
<1> QED
  BY <1>1, Typing, RingInvariant, PTL DEF Spec, QuiescentPickSound

-----------------------------------------------------------------------------
(* The lookup of get_upstream. *)

\* A ring with a point serves every key, and serves it by one point.
THEOREM LookupTotal ==
  ASSUME NEW points \in SUBSET Nat, points # {}, NEW key \in Nat
  PROVE  /\ \E h \in points : IsSuccessor(points, key, h)
         /\ \A h, g \in points : IsSuccessor(points, key, h)
                                   /\ IsSuccessor(points, key, g) => h = g
<1>1. ASSUME NEW S \in SUBSET Nat, S # {}
      PROVE  \E h \in S : \A g \in S : h <= g
  <2>1. PICK h \in S : \A g \in S : <<g, h>> \notin OpToRel(<, Nat)
    BY <1>1, WFMin, NatLessThanWellFounded
  <2> QED
    <3>1. \A g \in S : ~ (g < h)
      BY <2>1, Zenon DEF OpToRel
    <3> QED
      BY <3>1
<1>2. \E h \in points : IsSuccessor(points, key, h)
  <2>1. CASE \E g \in points : g >= key
    <3>1. PICK h \in {g \in points : g >= key} :
                \A g \in {g \in points : g >= key} : h <= g
      BY <1>1, <2>1
    <3> QED
      BY <2>1, <3>1 DEF IsSuccessor
  <2>2. CASE ~ \E g \in points : g >= key
    BY <1>1, <2>2 DEF IsSuccessor
  <2> QED
    BY <2>1, <2>2
<1>3. ASSUME NEW h \in points, NEW g \in points,
             IsSuccessor(points, key, h), IsSuccessor(points, key, g)
      PROVE  h = g
  BY <1>3 DEF IsSuccessor
<1> QED
  BY <1>2, <1>3

\* Sticky sessions: when upstreams leave the ring, a key whose point stays
\* keeps that point.
THEOREM LookupSticky ==
  ASSUME NEW points \in SUBSET Nat, NEW fewer \in SUBSET points,
         NEW key \in Nat, NEW h \in fewer, IsSuccessor(points, key, h)
  PROVE  IsSuccessor(fewer, key, h)
BY DEF IsSuccessor

-----------------------------------------------------------------------------
(* Round-robin and weighted round-robin: types *)

LEMMA Weights ==
  /\ Len(weight) \in Nat \ {0} /\ U = 1 .. Len(weight)
  /\ CounterValues \in Nat \ {0}
  /\ \A u \in U : Times(u) \in 1 .. MaxWeight
<1>1. Len(weight) \in Nat \ {0} /\ MaxWeight \in Nat \ {0} /\ CounterValues \in Nat
  BY WeightAssumption, WidthAssumption
<1>2. Len(weight) * MaxWeight \in Nat \ {0}
  BY <1>1
<1>3. CounterValues # 0
  BY <1>1, <1>2, WidthAssumption
<1>4. \A u \in U : weight[u] \in 0 .. MaxWeight
  BY WeightAssumption DEF U
<1> QED
  BY <1>1, <1>3, <1>4 DEF U, Times

LEMMA CopiesType ==
  ASSUME NEW u \in U
  PROVE  Copies(u) \in Seq(U) /\ Len(Copies(u)) = Times(u)
<1>1. Times(u) \in Nat
  BY Weights, WeightAssumption
<1>2. Copies(u) \in [1 .. Times(u) -> U]
  BY DEF Copies
<1> QED
  BY <1>1, <1>2 DEF Copies

\* What the counter points to is an entry of the list.
LEMMA Pointed ==
  ASSUME NEW S, NEW list \in Seq(S), list # <<>>, NEW n \in Nat
  PROVE  /\ (n % Len(list)) + 1 \in 1 .. Len(list)
         /\ At(n, list) \in S
<1>1. Len(list) \in Nat \ {0}
  BY EmptySeq, LenProperties
<1>2. (n % Len(list)) + 1 \in 1 .. Len(list)
  <2> DEFINE L == Len(list)
  <2> L \in Nat \ {0}
    BY <1>1
  <2> HIDE DEF L
  <2>1. n % L \in 0 .. L - 1
    OBVIOUS
  <2>2. (n % L) + 1 \in 1 .. L
    BY <2>1
  <2> QED
    BY <2>2 DEF L
<1> QED
  BY <1>2 DEF At

LEMMA SelectionTypeInit == SelectionInit => SelectionTypeOK
BY Weights, BoundsAssumption DEF SelectionInit, SelectionTypeOK

LEMMA SelectionTypeNext ==
  SelectionTypeOK /\ [SelectionNext]_selectionVars => SelectionTypeOK'
<1> SUFFICES ASSUME SelectionTypeOK, [SelectionNext]_selectionVars
             PROVE  SelectionTypeOK'
  OBVIOUS
<1> USE DEF SelectionTypeOK
<1>1. ASSUME NEW s \in Tasks, Begin(s)
      PROVE  SelectionTypeOK'
  BY <1>1, Weights DEF Begin
<1>2. ASSUME NEW s \in Tasks, Filter(s)
      PROVE  SelectionTypeOK'
  <2>1. candidates[s] \in Seq(U) /\ cursor[s] \in U
    BY <1>2 DEF Filter
  <2>2. candidates[s] \o Copies(cursor[s]) \in Seq(U)
    BY <2>1, CopiesType, ConcatProperties
  <2>3. candidates' \in [Tasks -> Seq(U)]
    BY <1>2, <2>1, <2>2 DEF Filter
  <2>4. cursor' \in [Tasks -> 1 .. Len(weight) + 1]
    BY <1>2, <2>1, Weights DEF Filter
  <2> QED
    BY <1>2, <2>3, <2>4 DEF Filter
<1>3. ASSUME NEW s \in Tasks, NoneAvailable(s) \/ Return(s)
      PROVE  SelectionTypeOK'
  BY <1>3 DEF NoneAvailable, Return
<1>4. ASSUME NEW s \in Tasks, Draw(s)
      PROVE  SelectionTypeOK'
  <2>1. rr_counter \in 0 .. CounterValues - 1 /\ rr_counter \in Nat
    BY Weights
  <2>2. candidates[s] \in Seq(U) /\ candidates[s] # <<>>
    BY <1>4 DEF Draw
  <2>3. At(rr_counter, candidates[s]) \in U
    BY <2>1, <2>2, Pointed
  <2>4. (rr_counter + 1) % CounterValues \in 0 .. CounterValues - 1
    BY <2>1, Weights
  <2>5. choice' \in [Tasks -> {0} \cup U] /\ choice'[s] = At(rr_counter, candidates[s])
    BY <1>4, <2>3 DEF Draw
  <2>6. <<rr_counter, candidates[s], choice'[s]>> \in (0 .. CounterValues - 1) \X Seq(U) \X U
    BY <2>1, <2>2, <2>3, <2>5
  <2>7. drawn' \in Seq((0 .. CounterValues - 1) \X Seq(U) \X U)
    BY <1>4, <2>6, AppendProperties DEF Draw
  <2> QED
    BY <1>4, <2>4, <2>5, <2>7 DEF Draw
<1>5. ASSUME NEW u \in U, ChangeHealth(u)
      PROVE  SelectionTypeOK'
  <2>1. available' \subseteq U
    BY <1>5 DEF ChangeHealth
  <2>2. changes' \in 0 .. MaxChanges
    BY <1>5, BoundsAssumption DEF ChangeHealth
  <2>3. seen' \in [Tasks -> SUBSET U] /\ missed' \in [Tasks -> SUBSET U]
    BY <1>5, <2>1 DEF ChangeHealth
  <2> QED
    BY <1>5, <2>1, <2>2, <2>3 DEF ChangeHealth
<1>6. CASE UNCHANGED selectionVars
  BY <1>6 DEF selectionVars
<1> QED
  BY <1>1, <1>2, <1>3, <1>4, <1>5, <1>6 DEF SelectionNext

\* The variables keep their types: the counter its range, whatever wraps.
THEOREM SelectionTyping == SelectionSpec => []SelectionTypeOK
BY SelectionTypeInit, SelectionTypeNext, PTL DEF SelectionSpec

-----------------------------------------------------------------------------
(* What a selection chooses was available *)

\* While a selection reads, what is available now is in seen and what is not is
\* in missed.  It has collected only upstreams it saw available, and each one it
\* has passed over was not.
CollectedAt(s) ==
  /\ available \subseteq seen[s] /\ U \ available \subseteq missed[s]
  /\ \A i \in 1 .. Len(candidates[s]) : candidates[s][i] \in seen[s]
  /\ \A u \in U : u < cursor[s] =>
        u \in missed[s] \/ \E i \in 1 .. Len(candidates[s]) : candidates[s][i] = u

ChosenAt(s) == IF choice[s] = 0 THEN missed[s] = U ELSE choice[s] \in seen[s]

Collected == \A s \in Tasks : /\ phase[s] = "filter" => CollectedAt(s)
                              /\ phase[s] = "returned" => ChosenAt(s)

\* The entries of a list with the copies of one more upstream.
LEMMA Appended ==
  ASSUME NEW list \in Seq(U), NEW u \in U
  PROVE  /\ list \o Copies(u) \in Seq(U)
         /\ Len(list \o Copies(u)) = Len(list) + Times(u)
         /\ \A i \in 1 .. Len(list) : (list \o Copies(u))[i] = list[i]
         /\ \A i \in Len(list) + 1 .. Len(list) + Times(u) : (list \o Copies(u))[i] = u
         /\ Times(u) \in 1 .. MaxWeight /\ Len(list) \in Nat
<1>1. Copies(u) \in Seq(U) /\ Len(Copies(u)) = Times(u)
  BY CopiesType
<1>2. /\ list \o Copies(u) \in Seq(U)
      /\ Len(list \o Copies(u)) = Len(list) + Len(Copies(u))
      /\ \A i \in 1 .. Len(list) + Len(Copies(u)) : (list \o Copies(u))[i] =
            IF i <= Len(list) THEN list[i] ELSE Copies(u)[i - Len(list)]
  BY <1>1, ConcatProperties
<1>3. Times(u) \in 1 .. MaxWeight /\ MaxWeight \in Nat /\ Len(list) \in Nat
  BY Weights, WeightAssumption, LenProperties
<1>4. \A i \in 1 .. Times(u) : Copies(u)[i] = u
  BY DEF Copies
<1>5. \A i \in 1 .. Len(list) : (list \o Copies(u))[i] = list[i]
  BY <1>1, <1>2, <1>3
<1>6. ASSUME NEW i \in Len(list) + 1 .. Len(list) + Times(u)
      PROVE  (list \o Copies(u))[i] = u
  <2>1. i \in Nat /\ i - Len(list) \in 1 .. Times(u) /\ ~(i <= Len(list))
        /\ i \in 1 .. Len(list) + Times(u)
    BY <1>3
  <2>2. (list \o Copies(u))[i] = Copies(u)[i - Len(list)]
    BY <1>1, <1>2, <2>1
  <2> QED
    BY <1>4, <2>1, <2>2
<1> QED
  BY <1>1, <1>2, <1>3, <1>5, <1>6

LEMMA CollectedNext ==
  SelectionTypeOK /\ Collected /\ [SelectionNext]_selectionVars => Collected'
<1> SUFFICES ASSUME SelectionTypeOK, Collected, [SelectionNext]_selectionVars,
                    NEW q \in Tasks
             PROVE  /\ phase'[q] = "filter" => CollectedAt(q)'
                    /\ phase'[q] = "returned" => ChosenAt(q)'
  BY DEF Collected
<1> USE DEF SelectionTypeOK
<1>q. /\ phase[q] = "filter" => CollectedAt(q)
      /\ phase[q] = "returned" => ChosenAt(q)
  BY DEF Collected
<1>0. ASSUME UNCHANGED <<available, phase[q], cursor[q], candidates[q], choice[q],
                         seen[q], missed[q]>>
      PROVE  /\ phase'[q] = "filter" => CollectedAt(q)'
             /\ phase'[q] = "returned" => ChosenAt(q)'
  BY <1>q, <1>0 DEF CollectedAt, ChosenAt
<1>1. ASSUME NEW s \in Tasks, s # q,
             Begin(s) \/ Filter(s) \/ NoneAvailable(s) \/ Draw(s) \/ Return(s)
      PROVE  UNCHANGED <<available, phase[q], cursor[q], candidates[q], choice[q],
                         seen[q], missed[q]>>
  BY <1>1 DEF Begin, Filter, NoneAvailable, Draw, Return
<1>2. CASE Begin(q)
  <2>1. /\ available' = available /\ phase'[q] = "filter" /\ cursor'[q] = 1
        /\ candidates'[q] = <<>> /\ seen'[q] = available /\ missed'[q] = U \ available
    BY <1>2 DEF Begin
  <2> QED
    BY <2>1, Weights DEF CollectedAt
<1>3. CASE Filter(q)
  <2> DEFINE u == cursor[q]
             list == candidates[q]
  <2>1. /\ phase[q] = "filter" /\ u \in U /\ cursor'[q] = u + 1
        /\ UNCHANGED <<available, phase, seen, missed>>
        /\ candidates'[q] = IF u \in available THEN list \o Copies(u) ELSE list
    BY <1>3 DEF Filter
  <2>2. CollectedAt(q)
    BY <1>q, <2>1
  <2>3. \A v \in U : v < u + 1 => v < u \/ v = u
    BY <2>1, Weights
  <2>4. CASE u \notin available
    <3>1. candidates'[q] = list /\ u \in missed[q]
      BY <2>1, <2>2, <2>4 DEF CollectedAt
    <3> QED
      BY <2>1, <2>2, <2>3, <3>1 DEF CollectedAt
  <2>5. CASE u \in available
    <3> DEFINE more == list \o Copies(u)
               n == Len(list)
               k == Times(u)
    <3>1. /\ more \in Seq(U) /\ Len(more) = n + k
          /\ \A i \in 1 .. n : more[i] = list[i]
          /\ \A i \in n + 1 .. n + k : more[i] = u
          /\ n \in Nat /\ k \in Nat \ {0}
      <4>1. list \in Seq(U) /\ u \in U
        BY <2>1
      <4> HIDE DEF list, u
      <4>2. k \in 1 .. MaxWeight /\ n \in Nat
        BY <4>1, Appended
      <4>3. k \in Nat \ {0}
        BY <4>2, WeightAssumption
      <4> QED
        BY <4>1, <4>2, <4>3, Appended
    <3>2. candidates'[q] = more
      BY <2>1, <2>5
    <3>3. u \in seen[q]
      BY <2>2, <2>5 DEF CollectedAt
    <3> HIDE DEF more, n, k
    <3>4. \A i \in 1 .. n + k : i \in 1 .. n \/ i \in n + 1 .. n + k
      BY <3>1
    <3>5. \A i \in 1 .. n : list[i] \in seen[q]
      BY <2>2 DEF CollectedAt, n
    <3>6. \A i \in 1 .. Len(more) : more[i] \in seen[q]
      BY <3>1, <3>3, <3>4, <3>5
    <3>7. ASSUME NEW v \in U, v < u + 1, v \notin missed[q]
          PROVE  \E i \in 1 .. Len(more) : more[i] = v
      <4>1. CASE v = u
        <5>1. n + 1 \in n + 1 .. n + k /\ n + 1 \in 1 .. n + k
          BY <3>1
        <5> QED
          BY <3>1, <4>1, <5>1
      <4>2. CASE v < u
        <5>1. PICK i \in 1 .. n : list[i] = v
          BY <2>2, <3>7, <4>2 DEF CollectedAt, n
        <5>2. i \in 1 .. n + k
          BY <3>1
        <5> QED
          BY <3>1, <5>1, <5>2
      <4> QED
        BY <2>3, <3>7, <4>1, <4>2
    <3>8. /\ available' = available /\ seen'[q] = seen[q] /\ missed'[q] = missed[q]
          /\ available \subseteq seen[q] /\ U \ available \subseteq missed[q]
          /\ phase'[q] = "filter"
      BY <2>1, <2>2 DEF CollectedAt
    <3> QED
      BY <2>1, <3>2, <3>6, <3>7, <3>8 DEF CollectedAt
  <2> QED
    BY <2>4, <2>5
<1>4. CASE NoneAvailable(q)
  <2>1. /\ phase[q] = "filter" /\ cursor[q] \notin U /\ candidates[q] = <<>>
        /\ choice'[q] = 0 /\ phase'[q] = "returned" /\ missed' = missed
    BY <1>4 DEF NoneAvailable
  <2>2. \A u \in U : u < cursor[q]
    BY <2>1, Weights
  <2>3. \A u \in U : u \in missed[q]
    BY <1>q, <2>1, <2>2 DEF CollectedAt
  <2>4. missed[q] \subseteq U
    OBVIOUS
  <2>5. missed[q] = U
    BY <2>3, <2>4
  <2> QED
    BY <2>1, <2>5 DEF ChosenAt
<1>5. CASE Draw(q)
  <2> DEFINE i == (rr_counter % Len(candidates[q])) + 1
  <2>1. /\ phase[q] = "filter" /\ candidates[q] # <<>> /\ candidates[q] \in Seq(U)
        /\ choice'[q] = candidates[q][i] /\ phase'[q] = "returned" /\ seen' = seen
    BY <1>5 DEF Draw, At
  <2>2. rr_counter \in Nat
    BY Weights
  <2>3. i \in 1 .. Len(candidates[q]) /\ candidates[q][i] \in U
    BY <2>1, <2>2, Pointed DEF At
  <2>4. candidates[q][i] \in seen[q]
    BY <1>q, <2>1, <2>3 DEF CollectedAt
  <2>5. candidates[q][i] # 0
    BY <2>3, Weights
  <2> QED
    BY <2>1, <2>4, <2>5 DEF ChosenAt
<1>6. CASE Return(q)
  BY <1>6 DEF Return
<1>7. ASSUME NEW u \in U, ChangeHealth(u)
      PROVE  /\ phase'[q] = "filter" => CollectedAt(q)'
             /\ phase'[q] = "returned" => ChosenAt(q)'
  <2>1. UNCHANGED <<phase, cursor, candidates, choice>>
    BY <1>7 DEF ChangeHealth
  <2>2. CASE phase[q] = "filter"
    <3>1. seen'[q] = seen[q] \cup available' /\ missed'[q] = missed[q] \cup (U \ available')
      BY <1>7, <2>2 DEF ChangeHealth
    <3> QED
      BY <1>q, <2>1, <2>2, <3>1 DEF CollectedAt
  <2>3. CASE phase[q] # "filter"
    <3>1. seen'[q] = seen[q] /\ missed'[q] = missed[q]
      BY <1>7, <2>3 DEF ChangeHealth
    <3> QED
      BY <1>q, <2>1, <2>3, <3>1 DEF ChosenAt
  <2> QED
    BY <2>2, <2>3
<1>8. CASE UNCHANGED selectionVars
  BY <1>0, <1>8 DEF selectionVars
<1> QED
  BY <1>0, <1>1, <1>2, <1>3, <1>4, <1>5, <1>6, <1>7, <1>8 DEF SelectionNext

\* select_weighted_round_robin returns an upstream it saw available, and None
\* only if each was unavailable meanwhile, for any weights and any number of tasks.
THEOREM ChoicesWereAvailable == SelectionSpec => []ChoiceWasAvailable
<1>1. SelectionInit => Collected
  BY DEF SelectionInit, Collected
<1>2. Collected => ChoiceWasAvailable
  BY DEF Collected, ChosenAt, ChoiceWasAvailable
<1> QED
  BY <1>1, <1>2, CollectedNext, SelectionTyping, PTL DEF SelectionSpec

-----------------------------------------------------------------------------
(* Remainders *)

LEMMA Remainder ==
  ASSUME NEW x \in Int, NEW T \in Nat \ {0}
  PROVE  /\ x \div T \in Int /\ x % T \in 0 .. T - 1
         /\ x = (x \div T) * T + (x % T)
BY SMT

LEMMA RemainderIs ==
  ASSUME NEW x \in Int, NEW T \in Nat \ {0}, NEW q \in Int, NEW r \in 0 .. T - 1,
         x = q * T + r
  PROVE  x % T = r
<1> DEFINE p == x \div T
           s == x % T
<1>1. p \in Int /\ s \in 0 .. T - 1 /\ q * T + r = p * T + s
  BY Remainder
<1> HIDE DEF p, s
<1>2. CASE q < p
  <2>1. (q + 1) * T <= p * T
    BY <1>1, <1>2
  <2>2. (q + 1) * T = q * T + T
    OBVIOUS
  <2> QED
    BY <1>1, <2>1, <2>2
<1>3. CASE p < q
  <2>1. (p + 1) * T <= q * T
    BY <1>1, <1>3
  <2>2. (p + 1) * T = p * T + T
    BY <1>1
  <2> QED
    BY <1>1, <2>1, <2>2
<1>4. CASE p = q
  BY <1>1, <1>4
<1>5. s = r
  BY <1>1, <1>2, <1>3, <1>4
<1> QED
  BY <1>5 DEF s

LEMMA Distinct ==
  ASSUME NEW x \in Int, NEW y \in Int, NEW T \in Nat \ {0}, x % T = y % T,
         x - y < T, y - x < T
  PROVE  x = y
<1> DEFINE p == x \div T
           q == y \div T
           r == x % T
<1>1. p \in Int /\ q \in Int /\ r \in 0 .. T - 1 /\ x = p * T + r /\ y = q * T + r
  BY Remainder
<1> HIDE DEF p, q, r
<1>2. CASE q < p
  <2>1. (q + 1) * T <= p * T /\ (q + 1) * T = q * T + T
    BY <1>1, <1>2
  <2> QED
    BY <1>1, <2>1
<1>3. CASE p < q
  <2>1. (p + 1) * T <= q * T /\ (p + 1) * T = p * T + T
    BY <1>1, <1>3
  <2> QED
    BY <1>1, <2>1
<1> QED
  BY <1>1, <1>2, <1>3

\* fetch_add on the wrapped counter.
LEMMA Advanced ==
  ASSUME NEW n \in Nat, NEW T \in Nat \ {0}
  PROVE  ((n % T) + 1) % T = (n + 1) % T
<1> DEFINE q == n \div T
           r == n % T
<1>1. q \in Int /\ r \in 0 .. T - 1 /\ n = q * T + r
  BY Remainder
<1> HIDE DEF q, r
<1>2. CASE r + 1 < T
  <2>1. r + 1 \in 0 .. T - 1 /\ n + 1 = q * T + (r + 1) /\ r + 1 = 0 * T + (r + 1)
    BY <1>1, <1>2
  <2>2. (n + 1) % T = r + 1 /\ (r + 1) % T = r + 1
    BY <1>1, <2>1, RemainderIs
  <2> QED
    BY <2>2 DEF r
<1>3. CASE ~(r + 1 < T)
  <2>1. r + 1 = T /\ n + 1 = (q + 1) * T + 0 /\ T = 1 * T + 0
    BY <1>1, <1>3
  <2>2. (n + 1) % T = 0 /\ T % T = 0
    BY <1>1, <2>1, RemainderIs
  <2> QED
    BY <2>1, <2>2 DEF r
<1> QED
  BY <1>2, <1>3

\* The remainder of a remainder, by a divisor of the first one.
LEMMA Divided ==
  ASSUME NEW n \in Int, NEW T \in Nat \ {0}, NEW L \in Nat \ {0}, T % L = 0
  PROVE  (n % T) % L = n % L
<1> DEFINE q == n \div T
           r == n % T
           m == T \div L
           p == r \div L
           t == r % L
<1>1. q \in Int /\ r \in Int /\ n = q * T + r
  BY Remainder
<1>2. m \in Int /\ T = m * L
  BY Remainder
<1>3. p \in Int /\ t \in 0 .. L - 1 /\ r = p * L + t
  BY <1>1, Remainder
<1> HIDE DEF q, r, m, p, t
<1>4. q * T = (q * m) * L
  BY <1>1, <1>2
<1>5. (q * m) * L + p * L = (q * m + p) * L
  BY <1>1, <1>2, <1>3
<1>6. n = (q * m + p) * L + t /\ q * m + p \in Int
  BY <1>1, <1>2, <1>3, <1>4, <1>5
<1>7. n % L = t
  BY <1>3, <1>6, RemainderIs
<1> QED
  BY <1>7 DEF t, r

-----------------------------------------------------------------------------
(* Turns *)

Places(u, list) == {p \in 1 .. Len(list) : list[p] = u}

\* Those of the draws I that chose u.
Taken(I, u) == {i \in I : drawn[i][3] = u}

\* The draws I take the entries of the list in turn, from some place on.
TakenInTurn(I, list, b) ==
  \A i \in I : drawn[i][3] = list[((i + b) % Len(list)) + 1]

\* As many draws as the list has entries.
Window(f, list) == f .. f + Len(list) - 1

LEMMA PlacesFinite ==
  ASSUME NEW list \in Seq(U), NEW u
  PROVE  IsFiniteSet(Places(u, list)) /\ Cardinality(Places(u, list)) \in Nat
<1>1. Len(list) \in Nat
  BY LenProperties
<1>2. IsFiniteSet(1 .. Len(list))
  BY <1>1, FS_Interval
<1>3. Places(u, list) \in SUBSET (1 .. Len(list))
  BY DEF Places
<1> QED
  BY <1>2, <1>3, FS_Subset, FS_CardinalityType

\* Draws that take the entries in turn take none twice in one window, and all of
\* them in a whole one.
LEMMA InTurn ==
  ASSUME NEW list \in Seq(U), list # <<>>, NEW u \in U, NEW b \in Int, NEW f \in Nat,
         NEW I \in SUBSET Window(f, list), TakenInTurn(I, list, b)
  PROVE  /\ IsFiniteSet(Taken(I, u)) /\ Cardinality(Taken(I, u)) \in Nat
         /\ Cardinality(Taken(I, u)) <= Cardinality(Places(u, list))
         /\ I = Window(f, list) =>
               Cardinality(Taken(I, u)) = Cardinality(Places(u, list))
<1> DEFINE L == Len(list)
           taken == {i \in I : drawn[i][3] = u}
           place == [i \in taken |-> ((i + b) % L) + 1]
<1>1. L \in Nat \ {0}
  BY EmptySeq, LenProperties
<1>w. Window(f, list) = f .. f + L - 1
  BY DEF Window
<1>2. Places(u, list) = {p \in 1 .. L : list[p] = u}
  BY DEF Places
<1>3. I \subseteq f .. f + L - 1 /\ \A i \in I : drawn[i][3] = list[((i + b) % L) + 1]
  BY <1>w DEF TakenInTurn
<1> HIDE DEF L
<1>4. \A i \in Int : (i + b) % L \in 0 .. L - 1 /\ ((i + b) % L) + 1 \in 1 .. L
  BY <1>1
<1>5. taken \subseteq Int
  <2> SUFFICES ASSUME NEW i \in I
               PROVE  i \in Int
    OBVIOUS
  <2>1. i \in f .. f + L - 1
    BY <1>3
  <2> QED
    BY <1>1, <2>1
<1>6. place \in [taken -> Places(u, list)]
  <2> SUFFICES ASSUME NEW i \in taken
               PROVE  ((i + b) % L) + 1 \in Places(u, list)
    OBVIOUS
  <2>1. ((i + b) % L) + 1 \in 1 .. L
    BY <1>4, <1>5
  <2>2. list[((i + b) % L) + 1] = u
    BY <1>3
  <2> QED
    BY <1>2, <2>1, <2>2
<1>7. ASSUME NEW i \in taken, NEW j \in taken, place[i] = place[j]
      PROVE  i = j
  <2>1. (i + b) % L = (j + b) % L
    <3>1. ((i + b) % L) + 1 = ((j + b) % L) + 1
      BY <1>7
    <3>2. (i + b) % L \in Int /\ (j + b) % L \in Int
      BY <1>1, <1>4, <1>5
    <3> QED
      BY <3>1, <3>2
  <2>2. i + b \in Int /\ j + b \in Int /\ (i + b) - (j + b) < L /\ (j + b) - (i + b) < L
    <3>1. i \in f .. f + L - 1 /\ j \in f .. f + L - 1
      BY <1>3
    <3> QED
      BY <1>1, <3>1
  <2>3. i + b = j + b
    BY <1>1, <2>1, <2>2, Distinct
  <2> QED
    BY <1>5, <2>3
<1>8. place \in Injection(taken, Places(u, list))
  BY <1>6, <1>7 DEF Injection, IsInjective
<1> HIDE DEF place, taken
<1>9. /\ IsFiniteSet(taken) /\ Cardinality(taken) <= Cardinality(Places(u, list))
      /\ Cardinality(taken) = Cardinality(Places(u, list))
            <=> place \in Surjection(taken, Places(u, list))
  BY <1>8, PlacesFinite, FS_Injection
<1>10. ASSUME I = f .. f + L - 1
       PROVE  place \in Surjection(taken, Places(u, list))
  <2> SUFFICES ASSUME NEW p \in Places(u, list)
               PROVE  \E i \in taken : place[i] = p
    BY <1>6 DEF Surjection
  <2> DEFINE d == (p - 1) - (f + b)
             q == d \div L
             m == d % L
             i == f + m
  <2>1. p \in 1 .. L /\ list[p] = u /\ p - 1 \in 0 .. L - 1
    BY <1>1, <1>2
  <2>2. d \in Int
    BY <1>1, <2>1
  <2>3. q \in Int /\ m \in 0 .. L - 1 /\ d = q * L + m
    BY <1>1, <2>2, Remainder
  <2>4. d = (p - 1) - (f + b)
    OBVIOUS
  <2> HIDE DEF d, q, m
  <2>5. i \in f .. f + L - 1 /\ i + b = (p - 1) - q * L
    BY <1>1, <2>1, <2>3, <2>4
  <2>6. (-q) * L = -(q * L) /\ q * L \in Int
    BY <1>1, <2>3
  <2>7. i + b = (-q) * L + (p - 1) /\ i + b \in Int /\ -q \in Int
    BY <1>1, <2>1, <2>3, <2>5, <2>6
  <2>8. (i + b) % L = p - 1
    BY <1>1, <2>1, <2>7, RemainderIs
  <2>9. ((i + b) % L) + 1 = p
    BY <1>1, <2>1, <2>8
  <2>10. i \in I
    BY <1>10, <2>5
  <2>11. drawn[i][3] = u
    BY <1>3, <2>1, <2>9, <2>10
  <2>12. i \in taken
    BY <2>10, <2>11 DEF taken
  <2> QED
    BY <2>9, <2>12 DEF place
<1>11. Cardinality(taken) \in Nat
  BY <1>9, FS_CardinalityType
<1> QED
  BY <1>9, <1>10, <1>11, <1>w DEF taken, Taken

\* An upstream is in a list not at all or as often as its weight says.
Balanced(list) == \A u \in U : Cardinality(Places(u, list)) \in {0, Times(u)}

\* A list that is being filled holds upstreams up to the one read next only.
GatheredAt(s) ==
  /\ Balanced(candidates[s])
  /\ \A u \in U : u >= cursor[s] => Places(u, candidates[s]) = {}
  /\ Len(candidates[s]) <= (cursor[s] - 1) * MaxWeight

Gathered == \A s \in Tasks : phase[s] = "filter" => GatheredAt(s)

\* The i-th draw of all finds the counter at i - 1, but for the wraps.
DrawnAt(i) ==
  /\ drawn[i][1] = (i - 1) % CounterValues
  /\ drawn[i][2] # <<>> /\ Balanced(drawn[i][2]) /\ Len(drawn[i][2]) <= CounterValues
  /\ drawn[i][3] = At(drawn[i][1], drawn[i][2])

Rotation ==
  /\ rr_counter = Len(drawn) % CounterValues
  /\ \A i \in 1 .. Len(drawn) : DrawnAt(i)

LEMMA EmptyBalanced == Balanced(<<>>) /\ \A u \in U : Places(u, <<>>) = {}
<1>1. \A u \in U : Places(u, <<>>) = {}
  BY DEF Places
<1> QED
  BY <1>1, FS_EmptySet DEF Balanced

LEMMA CopiesPlaced ==
  ASSUME NEW list \in Seq(U), NEW u \in U, Balanced(list), Places(u, list) = {}
  PROVE  /\ Balanced(list \o Copies(u))
         /\ \A v \in U : v # u => Places(v, list \o Copies(u)) = Places(v, list)
<1> DEFINE more == list \o Copies(u)
           n == Len(list)
           k == Times(u)
<1>1. /\ Len(more) = n + k /\ n \in Nat
      /\ \A i \in 1 .. n : more[i] = list[i]
      /\ \A i \in n + 1 .. n + k : more[i] = u
  BY Appended
<1>2. k \in Nat \ {0}
  BY Weights, WeightAssumption
<1>3. /\ \A v \in U : Places(v, more) = {p \in 1 .. n + k : more[p] = v}
      /\ \A v \in U : Places(v, list) = {p \in 1 .. n : list[p] = v}
  BY <1>1 DEF Places
<1> HIDE DEF more, n, k
<1>4. \A p \in 1 .. n + k : p \in 1 .. n \/ p \in n + 1 .. n + k
  BY <1>1, <1>2
<1>5. \A p \in 1 .. n : p \in 1 .. n + k
  BY <1>1, <1>2
<1>6. \A p \in n + 1 .. n + k : p \in 1 .. n + k
  BY <1>1, <1>2
<1>7. ASSUME NEW v \in U, v # u
      PROVE  Places(v, more) = Places(v, list)
  <2>1. \A p \in 1 .. n + k : more[p] = v => p \in 1 .. n /\ list[p] = v
    BY <1>1, <1>4, <1>7
  <2>2. \A p \in 1 .. n : list[p] = v => p \in 1 .. n + k /\ more[p] = v
    BY <1>1, <1>5
  <2>3. {p \in 1 .. n + k : more[p] = v} = {p \in 1 .. n : list[p] = v}
    BY <2>1, <2>2
  <2> QED
    BY <1>3, <2>3
<1>8. Places(u, more) = n + 1 .. n + k
  <2>1. \A p \in 1 .. n : list[p] # u
    BY <1>3
  <2>2. \A p \in 1 .. n + k : more[p] = u => p \in n + 1 .. n + k
    BY <1>1, <1>4, <2>1
  <2>3. {p \in 1 .. n + k : more[p] = u} = n + 1 .. n + k
    BY <1>1, <1>6, <2>2
  <2> QED
    BY <1>3, <2>3
<1>9. Cardinality(n + 1 .. n + k) = k
  BY <1>1, <1>2, FS_Interval
<1>10. \A v \in U : Cardinality(Places(v, more)) \in {0, Times(v)}
  BY <1>7, <1>8, <1>9 DEF Balanced, k
<1> QED
  BY <1>7, <1>10 DEF Balanced, more

LEMMA GatheredNext ==
  SelectionTypeOK /\ Gathered /\ [SelectionNext]_selectionVars => Gathered'
<1> SUFFICES ASSUME SelectionTypeOK, Gathered, [SelectionNext]_selectionVars,
                    NEW q \in Tasks, phase'[q] = "filter"
             PROVE  GatheredAt(q)'
  BY DEF Gathered
<1> USE DEF SelectionTypeOK
<1>q. phase[q] = "filter" => GatheredAt(q)
  BY DEF Gathered
<1>0. ASSUME UNCHANGED <<phase[q], cursor[q], candidates[q]>>
      PROVE  GatheredAt(q)'
  BY <1>q, <1>0 DEF GatheredAt, Balanced
<1>1. ASSUME NEW s \in Tasks, s # q,
             Begin(s) \/ Filter(s) \/ NoneAvailable(s) \/ Draw(s) \/ Return(s)
      PROVE  UNCHANGED <<phase[q], cursor[q], candidates[q]>>
  BY <1>1 DEF Begin, Filter, NoneAvailable, Draw, Return
<1>2. CASE Begin(q)
  <2>1. cursor'[q] = 1 /\ candidates'[q] = <<>>
    BY <1>2 DEF Begin
  <2>2. Len(<<>>) <= (1 - 1) * MaxWeight
    BY WeightAssumption
  <2>3. GatheredAt(q)' <=>
           /\ Balanced(candidates'[q])
           /\ \A u \in U : u >= cursor'[q] => Places(u, candidates'[q]) = {}
           /\ Len(candidates'[q]) <= (cursor'[q] - 1) * MaxWeight
    BY DEF GatheredAt, Balanced, Places
  <2> QED
    BY <2>1, <2>2, <2>3, EmptyBalanced
<1>3. CASE Filter(q)
  <2> DEFINE u == cursor[q]
             list == candidates[q]
             more == list \o Copies(u)
  <2>1. /\ phase[q] = "filter" /\ u \in U /\ cursor'[q] = u + 1 /\ list \in Seq(U)
        /\ candidates'[q] = IF u \in available THEN more ELSE list
    BY <1>3 DEF Filter
  <2>2. /\ Balanced(list) /\ Len(list) <= (u - 1) * MaxWeight
        /\ \A v \in U : v >= u => Places(v, list) = {}
    BY <1>q, <2>1 DEF GatheredAt
  <2>3. u \in Nat /\ Len(list) \in Nat /\ MaxWeight \in Nat
    BY <2>1, Weights, WeightAssumption, LenProperties
  <2>4. GatheredAt(q)' <=>
           /\ Balanced(candidates'[q])
           /\ \A v \in U : v >= u + 1 => Places(v, candidates'[q]) = {}
           /\ Len(candidates'[q]) <= (u + 1 - 1) * MaxWeight
    <3>1. GatheredAt(q)' <=>
             /\ Balanced(candidates'[q])
             /\ \A v \in U : v >= cursor'[q] => Places(v, candidates'[q]) = {}
             /\ Len(candidates'[q]) <= (cursor'[q] - 1) * MaxWeight
      BY DEF GatheredAt, Balanced, Places
    <3>2. cursor'[q] = u + 1
      BY <2>1
    <3> QED
      BY <3>1, <3>2
  <2> HIDE DEF u, list
  <2>5. (u + 1 - 1) * MaxWeight = (u - 1) * MaxWeight + MaxWeight
    BY <2>3
  <2>6. \A v \in U : v >= u + 1 => v >= u /\ v # u
    BY <2>3, Weights
  <2>7. CASE u \notin available
    <3>1. Len(list) <= (u + 1 - 1) * MaxWeight
      <4>1. (u - 1) * MaxWeight \in Int
        BY <2>3
      <4> QED
        BY <2>2, <2>3, <2>5, <4>1
    <3> QED
      BY <2>1, <2>2, <2>4, <2>6, <2>7, <3>1
  <2>8. CASE u \in available
    <3>1. Places(u, list) = {}
      <4>1. u >= u /\ u \in U
        BY <2>1, <2>3
      <4> QED
        BY <2>2, <4>1
    <3>2. /\ Balanced(more)
          /\ \A v \in U : v # u => Places(v, more) = Places(v, list)
      BY <2>1, <2>2, <3>1, CopiesPlaced
    <3>3. Len(more) = Len(list) + Times(u) /\ Times(u) \in 1 .. MaxWeight
      BY <2>1, Appended
    <3>4. Len(more) <= (u + 1 - 1) * MaxWeight
      <4>1. (u - 1) * MaxWeight \in Int
        BY <2>3
      <4> QED
        BY <2>2, <2>3, <2>5, <3>3, <4>1
    <3>5. \A v \in U : v >= u + 1 => Places(v, more) = {}
      BY <2>2, <2>6, <3>2
    <3> QED
      BY <2>1, <2>4, <2>8, <3>2, <3>4, <3>5
  <2> QED
    BY <2>7, <2>8
<1>4. CASE NoneAvailable(q) \/ Draw(q) \/ Return(q)
  BY <1>4 DEF NoneAvailable, Draw, Return
<1>5. ASSUME NEW u \in U, ChangeHealth(u)
      PROVE  UNCHANGED <<phase[q], cursor[q], candidates[q]>>
  BY <1>5 DEF ChangeHealth
<1>6. CASE UNCHANGED selectionVars
  BY <1>0, <1>6 DEF selectionVars
<1> QED
  BY <1>0, <1>1, <1>2, <1>3, <1>4, <1>5, <1>6 DEF SelectionNext

LEMMA RotationNext ==
  SelectionTypeOK /\ Gathered /\ Rotation /\ [SelectionNext]_selectionVars => Rotation'
<1> SUFFICES ASSUME SelectionTypeOK, Gathered, Rotation, [SelectionNext]_selectionVars
             PROVE  Rotation'
  OBVIOUS
<1>0. ASSUME UNCHANGED <<rr_counter, drawn>>
      PROVE  Rotation'
  BY <1>0 DEF Rotation, DrawnAt, Balanced
<1>1. ASSUME NEW s \in Tasks, Draw(s)
      PROVE  Rotation'
  <2> DEFINE n == Len(drawn)
             list == candidates[s]
             draw == <<rr_counter, list, At(rr_counter, list)>>
             Draws == (0 .. CounterValues - 1) \X Seq(U) \X U
  <2>1. /\ phase[s] = "filter" /\ cursor[s] \notin U /\ list # <<>> /\ list \in Seq(U)
        /\ drawn \in Seq(Draws)
    BY <1>1 DEF Draw, SelectionTypeOK
  <2>2. choice'[s] = At(rr_counter, list)
    BY <1>1 DEF Draw, SelectionTypeOK
  <2>3. drawn' = Append(drawn, draw) /\ rr_counter' = (rr_counter + 1) % CounterValues
    BY <1>1, <2>2 DEF Draw
  <2>4. n \in Nat /\ rr_counter = n % CounterValues
    BY <2>1, LenProperties DEF Rotation
  <2>5. draw \in Draws
    <3>1. rr_counter \in 0 .. CounterValues - 1 /\ rr_counter \in Nat
      BY Weights DEF SelectionTypeOK
    <3>2. At(rr_counter, list) \in U
      BY <2>1, <3>1, Pointed
    <3> QED
      BY <2>1, <3>1, <3>2
  <2>6. /\ Len(drawn') = n + 1 /\ drawn'[n + 1] = draw
        /\ \A i \in 1 .. n : drawn'[i] = drawn[i]
    <3> HIDE DEF draw, Draws
    <3> QED
      BY <2>1, <2>3, <2>5, AppendProperties
  <2>7. rr_counter' = (n + 1) % CounterValues
    BY <2>3, <2>4, Advanced, Weights
  <2>8. Balanced(list) /\ Len(list) <= CounterValues
    <3>1. GatheredAt(s)
      BY <2>1 DEF Gathered
    <3>2. cursor[s] = Len(weight) + 1
      BY <2>1, Weights DEF SelectionTypeOK
    <3>3. (cursor[s] - 1) * MaxWeight = Len(weight) * MaxWeight
      BY <3>2, Weights
    <3>4. Len(list) <= Len(weight) * MaxWeight
      BY <3>1, <3>3 DEF GatheredAt
    <3>5. Len(weight) * MaxWeight \in Int /\ Len(list) \in Int /\ CounterValues \in Int
      BY <2>1, Weights, WeightAssumption, LenProperties
    <3> QED
      BY <3>1, <3>4, <3>5, WidthAssumption DEF GatheredAt
  <2>9. ASSUME NEW i \in 1 .. n + 1
        PROVE  DrawnAt(i)'
    <3>0. DrawnAt(i)' <=>
             /\ drawn'[i][1] = (i - 1) % CounterValues
             /\ drawn'[i][2] # <<>> /\ Balanced(drawn'[i][2])
             /\ Len(drawn'[i][2]) <= CounterValues
             /\ drawn'[i][3] = At(drawn'[i][1], drawn'[i][2])
      BY DEF DrawnAt, Balanced
    <3>1. CASE i = n + 1
      <4>1. drawn'[i] = draw /\ i - 1 = n
        BY <2>4, <2>6, <3>1
      <4>2. draw[1] = rr_counter /\ draw[2] = list /\ draw[3] = At(rr_counter, list)
        OBVIOUS
      <4> QED
        BY <2>1, <2>4, <2>8, <3>0, <4>1, <4>2
    <3>2. CASE i # n + 1
      <4>1. i \in 1 .. n
        BY <2>4, <3>2
      <4>2. DrawnAt(i) /\ drawn'[i] = drawn[i]
        BY <2>6, <4>1 DEF Rotation
      <4> QED
        BY <3>0, <4>2 DEF DrawnAt
    <3> QED
      BY <3>1, <3>2
  <2> QED
    BY <2>6, <2>7, <2>9 DEF Rotation
<1>2. ASSUME NEW s \in Tasks, Begin(s) \/ Filter(s) \/ NoneAvailable(s) \/ Return(s)
      PROVE  UNCHANGED <<rr_counter, drawn>>
  BY <1>2 DEF Begin, Filter, NoneAvailable, Return
<1>3. ASSUME NEW u \in U, ChangeHealth(u)
      PROVE  UNCHANGED <<rr_counter, drawn>>
  BY <1>3 DEF ChangeHealth
<1>4. CASE UNCHANGED selectionVars
  BY <1>0, <1>4 DEF selectionVars
<1> QED
  BY <1>0, <1>1, <1>2, <1>3, <1>4 DEF SelectionNext

LEMMA RotationIsFair == SelectionTypeOK /\ Rotation => TurnsAreFair
<1> SUFFICES ASSUME SelectionTypeOK, Rotation,
                    NEW first \in 1 .. Len(drawn), NEW u \in U, NEW list,
                    list = drawn[first][2], NEW due,
                    due = IF \E i \in DOMAIN list : list[i] = u THEN Times(u) ELSE 0,
                    Turn(first, list)
             PROVE  /\ Share(u, first, list) <= 2 * due
                    /\ Share(u, first, list) # due =>
                          Wraps(first, list) /\ CounterValues % Len(list) # 0
  BY DEF TurnsAreFair
<1> DEFINE V == CounterValues
           L == Len(list)
           W == Window(first, list)
           c == (first - 1) % V
           before == {i \in W : c + (i - first) < V}
           after == {i \in W : ~(c + (i - first) < V)}
           P == Cardinality(Places(u, list))
<1>1. V \in Nat \ {0} /\ Len(drawn) \in Nat /\ first \in Nat \ {0}
  BY Weights, LenProperties DEF SelectionTypeOK
<1>2. list \in Seq(U) /\ list # <<>>
  <2>1. drawn[first] \in (0 .. CounterValues - 1) \X Seq(U) \X U
    BY ElementOfSeq DEF SelectionTypeOK
  <2> QED
    BY <2>1 DEF Rotation, DrawnAt
<1>3. L \in Nat \ {0} /\ L <= V
  BY <1>2, EmptySeq, LenProperties DEF Rotation, DrawnAt
<1>4. ASSUME NEW i \in W
      PROVE  /\ i \in Nat \ {0}
             /\ drawn[i][1] = (i - 1) % V
             /\ drawn[i][3] = list[(((i - 1) % V) % L) + 1]
  <2>1. i \in 1 .. Len(drawn) /\ drawn[i][2] = list
    BY <1>1, <1>3 DEF Turn, Window
  <2>2. DrawnAt(i)
    BY <2>1 DEF Rotation
  <2> QED
    BY <1>1, <2>1, <2>2 DEF DrawnAt, At
<1>5. due = P
  <2>1. P \in {0, Times(u)}
    BY DEF Rotation, DrawnAt, Balanced
  <2>2. IsFiniteSet(Places(u, list))
    BY <1>2, PlacesFinite
  <2>3. P = 0 <=> Places(u, list) = {}
    BY <2>2, FS_EmptySet
  <2>4. Places(u, list) = {} <=> ~ \E i \in DOMAIN list : list[i] = u
    BY <1>2, LenProperties DEF Places
  <2>5. Times(u) # 0
    BY Weights, WeightAssumption
  <2> QED
    BY <2>1, <2>3, <2>4, <2>5
<1>6. P \in Nat
  BY <1>2, PlacesFinite
<1>7. Share(u, first, list) = Cardinality(Taken(W, u))
  BY DEF Share, Taken, Window
<1> HIDE DEF P, c
<1>8. \A i \in W : /\ c \in 0 .. V - 1
                   /\ c + (i - first) < V => (i - 1) % V = i + (c - first)
                   /\ ~(c + (i - first) < V) => (i - 1) % V = i + (c - first - V)
  <2> SUFFICES ASSUME NEW i \in W
               PROVE  /\ c \in 0 .. V - 1
                      /\ c + (i - first) < V => (i - 1) % V = i + (c - first)
                      /\ ~(c + (i - first) < V) => (i - 1) % V = i + (c - first - V)
    OBVIOUS
  <2> DEFINE m == (first - 1) \div V
             on == i + (c - first)
             again == i + (c - first - V)
             x == i - 1
  <2>1. m \in Int /\ c \in 0 .. V - 1 /\ first - 1 = m * V + c
    <3>1. first - 1 \in Int /\ c = (first - 1) % V
      BY <1>1 DEF c
    <3> HIDE DEF V
    <3> QED
      BY <1>1, <3>1, Remainder
  <2>2. i \in Int /\ first <= i /\ i < first + V
    BY <1>1, <1>3 DEF Window
  <2> HIDE DEF V, m
  <2>3. m * V \in Int /\ (m + 1) * V = m * V + V /\ m + 1 \in Int /\ x \in Int
    BY <1>1, <2>1, <2>2
  <2>4. ASSUME c + (i - first) < V
        PROVE  x % V = on
    <3>1. x = m * V + on /\ on \in 0 .. V - 1
      BY <1>1, <2>1, <2>2, <2>3, <2>4
    <3> HIDE DEF x, on
    <3> QED
      BY <1>1, <2>1, <2>3, <3>1, RemainderIs
  <2>5. ASSUME ~(c + (i - first) < V)
        PROVE  x % V = again
    <3> DEFINE q == m + 1
    <3>1. x = q * V + again /\ again \in 0 .. V - 1
      BY <1>1, <2>1, <2>2, <2>3, <2>5
    <3>2. q \in Int
      BY <2>3
    <3> HIDE DEF x, again, q
    <3> QED
      BY <1>1, <2>3, <3>1, <3>2, RemainderIs
  <2> QED
    BY <2>1, <2>4, <2>5
<1>9. first \in W /\ first + L - 1 \in W
  BY <1>1, <1>3 DEF Window
<1>10. c \in Int /\ c - first \in Int /\ c - first - V \in Int
  BY <1>1, <1>8, <1>9
\* the counters run through the remainders, although it may wrap
<1>11. CASE V % L = 0
  <2>1. \A i \in W : drawn[i][3] = list[((i + (-1)) % L) + 1]
    <3> SUFFICES ASSUME NEW i \in W
                 PROVE  ((i - 1) % V) % L = (i + (-1)) % L
      BY <1>4
    <3>1. i - 1 \in Int /\ i - 1 = i + (-1)
      BY <1>4
    <3> HIDE DEF V, L
    <3> QED
      BY <1>1, <1>3, <1>11, <3>1, Divided
  <2>2. -1 \in Int /\ W \in SUBSET Window(first, list) /\ TakenInTurn(W, list, -1)
    BY <2>1 DEF TakenInTurn
  <2>3. Cardinality(Taken(W, u)) = P
    BY <1>1, <1>2, <2>1, <2>2, InTurn DEF P
  <2> QED
    BY <1>5, <1>6, <1>7, <2>3
\* it does not wrap
<1>12. ASSUME NEW I \in SUBSET W, NEW b \in Int, \A i \in I : (i - 1) % V = i + b
       PROVE  /\ IsFiniteSet(Taken(I, u)) /\ Cardinality(Taken(I, u)) \in Nat
              /\ Cardinality(Taken(I, u)) <= P
              /\ I = W => Cardinality(Taken(I, u)) = P
  <2>1. TakenInTurn(I, list, b)
    BY <1>4, <1>12 DEF TakenInTurn
  <2> QED
    BY <1>1, <1>2, <2>1, InTurn DEF P
<1>13. CASE ~Wraps(first, list)
  <2>1. drawn[first][1] = c /\ drawn[first + L - 1][1] = ((first + L - 1) - 1) % V
    BY <1>4, <1>9 DEF c
  <2>2. ~(((first + L - 1) - 1) % V < c)
    BY <1>13, <2>1 DEF Wraps
  <2>3. c + (L - 1) < V
    <3>1. (first + L - 1) - first = L - 1
      BY <1>1, <1>3
    <3>2. ~(c + (L - 1) < V) =>
             ((first + L - 1) - 1) % V = (first + L - 1) + (c - first - V)
      BY <1>8, <1>9, <3>1
    <3>3. (first + L - 1) + (c - first - V) < c
      BY <1>1, <1>3, <1>10
    <3> QED
      BY <2>2, <3>2, <3>3
  <2>4. \A i \in W : c + (i - first) < V
    <3> HIDE DEF V
    <3> QED
      BY <1>1, <1>3, <1>10, <2>3 DEF Window
  <2>5. \A i \in W : (i - 1) % V = i + (c - first)
    BY <1>8, <2>4
  <2>6. Cardinality(Taken(W, u)) = P
    BY <1>10, <1>12, <2>5
  <2> QED
    BY <1>5, <1>6, <1>7, <2>6
\* it wraps once: two parts, each of which takes no place twice
<1>14. Cardinality(Taken(W, u)) <= 2 * P
  <2>1. /\ IsFiniteSet(Taken(before, u)) /\ Cardinality(Taken(before, u)) \in Nat
        /\ Cardinality(Taken(before, u)) <= P
    BY <1>8, <1>10, <1>12
  <2>2. /\ IsFiniteSet(Taken(after, u)) /\ Cardinality(Taken(after, u)) \in Nat
        /\ Cardinality(Taken(after, u)) <= P
    BY <1>8, <1>10, <1>12
  <2>3. Taken(W, u) = Taken(before, u) \cup Taken(after, u)
    BY DEF Taken
  <2> HIDE DEF before, after
  <2>4. /\ Cardinality(Taken(before, u) \cup Taken(after, u)) =
             Cardinality(Taken(before, u)) + Cardinality(Taken(after, u))
                - Cardinality(Taken(before, u) \cap Taken(after, u))
        /\ Cardinality(Taken(before, u) \cap Taken(after, u)) \in Nat
    BY <2>1, <2>2, FS_Union, FS_Intersection, FS_CardinalityType
  <2> DEFINE x == Cardinality(Taken(before, u))
             y == Cardinality(Taken(after, u))
             z == Cardinality(Taken(before, u) \cap Taken(after, u))
  <2>5. /\ Cardinality(Taken(W, u)) = x + y - z
        /\ x \in Nat /\ y \in Nat /\ z \in Nat /\ x <= P /\ y <= P
    BY <2>1, <2>2, <2>3, <2>4
  <2> HIDE DEF x, y, z
  <2> QED
    BY <1>6, <2>5
<1> QED
  BY <1>5, <1>6, <1>7, <1>11, <1>13, <1>14

LEMMA Gathers == SelectionSpec => []Gathered
<1>1. SelectionInit => Gathered
  BY DEF SelectionInit, Gathered
<1> QED
  BY <1>1, GatheredNext, SelectionTyping, PTL DEF SelectionSpec

\* Over a full turn of the candidates the counter gives each upstream its weight,
\* whatever tasks draw, unless it wraps: then at most twice that.
THEOREM TurnsAreShared == SelectionSpec => []TurnsAreFair
<1>1. SelectionInit => Rotation
  <2> SUFFICES ASSUME SelectionInit
               PROVE  Rotation
    OBVIOUS
  <2>1. 0 % CounterValues = 0
    BY Weights
  <2> QED
    BY <2>1 DEF SelectionInit, Rotation
<1> QED
  BY <1>1, RotationNext, RotationIsFair, Gathers, SelectionTyping, PTL DEF SelectionSpec
=============================================================================
