------------------------ MODULE MetricsRegistryProofs -------------------------
(***************************************************************************)
(* For any number of names, writers, exporters and checkers, and whatever  *)
(* width the counter has: what the total of the registry says of the map   *)
(* beside it, and what a verdict on the system's health says of the states *)
(* it was put together from.                                               *)
(***************************************************************************)
EXTENDS MetricsRegistry, FiniteSetTheorems, TLAPS

USE DEF mapVars, exportVars, checkVars

-----------------------------------------------------------------------------
(* Counting modulo Totals *)

LEMMA Remainder ==
    ASSUME NEW x \in Int, NEW T \in Nat, T > 0
    PROVE  /\ x \div T \in Int /\ x % T \in 0 .. T - 1
           /\ x = (x \div T) * T + (x % T)
BY SMT

LEMMA RemainderUnique ==
    ASSUME NEW T \in Nat, T > 0, NEW q \in Int, NEW p \in Int,
           NEW r \in 0 .. T - 1, NEW s \in 0 .. T - 1, q * T + r = p * T + s
    PROVE  r = s
<1>1. CASE q = p
  BY <1>1
<1>2. CASE q < p
  <2>1. (q + 1) * T <= p * T
    BY <1>2
  <2> QED
    BY <2>1
<1>3. CASE q > p
  <2>1. (p + 1) * T <= q * T
    BY <1>3
  <2> QED
    BY <2>1
<1> QED
  BY <1>1, <1>2, <1>3

LEMMA Distributes ==
    ASSUME NEW a \in Int, NEW b \in Int, NEW T \in Int
    PROVE  (a + b) * T = a * T + b * T
OBVIOUS

\* fetch_add and fetch_sub on a wrapped total give the wrapped sum.
LEMMA WrappedSum ==
    ASSUME NEW x \in Int, NEW d \in Int, NEW T \in Nat, T > 0
    PROVE  ((x % T) + d) % T = (x + d) % T
<1> DEFINE r == x % T
           y == r + d
           z == x + d
<1>1. x \div T \in Int /\ r \in Int /\ x = (x \div T) * T + r
  BY Remainder
<1> HIDE DEF r
<1>2. y \in Int /\ z \in Int
  BY <1>1
<1>3. /\ y \div T \in Int /\ y % T \in 0 .. T - 1 /\ y = (y \div T) * T + (y % T)
      /\ z \div T \in Int /\ z % T \in 0 .. T - 1 /\ z = (z \div T) * T + (z % T)
  <2> HIDE DEF y, z
  <2> QED
    BY <1>2, Remainder
<1>4. z = (x \div T) * T + y
  BY <1>1
<1> HIDE DEF y, z
<1>5. (z \div T) * T + (z % T) = (x \div T + y \div T) * T + (y % T)
  <2>1. (x \div T + y \div T) * T = (x \div T) * T + (y \div T) * T
    <3>1. x \div T \in Int /\ y \div T \in Int /\ T \in Int
      BY <1>1, <1>3
    <3> QED
      BY <3>1, Distributes
  <2> QED
    BY <1>1, <1>3, <1>4, <2>1
<1>6. x \div T + y \div T \in Int
  BY <1>1, <1>3
<1>7. z % T = y % T
  BY <1>3, <1>5, <1>6, RemainderUnique
<1> QED
  BY <1>7 DEF r, y, z

LEMMA CountsUp == \A x \in Int : ((x % Totals) + 1) % Totals = (x + 1) % Totals
<1>1. Totals \in Nat /\ Totals > 0 /\ 1 \in Int
  BY NumbersAssumption
<1> QED
  BY <1>1, WrappedSum

LEMMA CountsDown == \A x \in Int : ((x % Totals) - 1) % Totals = (x - 1) % Totals
<1> TAKE x \in Int
<1>1. Totals \in Nat /\ Totals > 0 /\ -1 \in Int
  BY NumbersAssumption
<1>2. ((x % Totals) + (-1)) % Totals = (x + (-1)) % Totals
  BY <1>1, WrappedSum
<1>3. x % Totals \in Int
  BY <1>1, Remainder
<1>4. (x % Totals) + (-1) = (x % Totals) - 1 /\ x + (-1) = x - 1
  BY <1>3
<1> QED
  BY <1>2, <1>4

-----------------------------------------------------------------------------
(* Types *)

LEMMA ListedFinite == IsFiniteSet(Listed) /\ Cardinality(Listed) \in Nat
<1>1. Listed \subseteq Names
  BY DEF Listed
<1> QED
  BY <1>1, SetsAssumption, FS_Subset, FS_CardinalityType

LEMMA TypesInit == Init => TypeOK
BY NumbersAssumption DEF Init, TypeOK, HealthStates, ProxyHealths, NoProxies

LEMMA TypesNext == TypeOK /\ [Next]_vars => TypeOK'
<1> SUFFICES ASSUME TypeOK, [Next]_vars
             PROVE  TypeOK'
  OBVIOUS
<1> USE NumbersAssumption DEF TypeOK
<1>1. ASSUME NEW w \in Writers, NEW n \in Names, AddInsert(w, n)
      PROVE  TypeOK'
  <2>1. created + 1 \in Objects
    BY <1>1 DEF AddInsert, Objects
  <2>2. replaced' \in Nat
    BY <1>1 DEF AddInsert
  <2> QED
    BY <1>1, <2>1, <2>2 DEF AddInsert, Disturb
<1>2. ASSUME NEW w \in Writers, AddCount(w)
      PROVE  TypeOK'
  <2>1. upstreams_total' \in 0 .. Totals - 1
    BY <1>2 DEF AddCount
  <2> QED
    BY <1>2, <2>1 DEF AddCount, Disturb
<1>3. ASSUME NEW w \in Writers, NEW n \in Names, Remove(w, n)
      PROVE  TypeOK'
  <2>1. CASE n \in Listed
    BY <1>3, <2>1 DEF Remove, Disturb
  <2>2. CASE n \notin Listed
    BY <1>3, <2>2 DEF Remove
  <2> QED
    BY <2>1, <2>2
<1>4. ASSUME NEW w \in Writers, RemoveCount(w)
      PROVE  TypeOK'
  <2>1. upstreams_total' \in 0 .. Totals - 1
    BY <1>4 DEF RemoveCount
  <2> QED
    BY <1>4, <2>1 DEF RemoveCount, Disturb
<1>5. ASSUME NEW e \in Exporters, LoadTotal(e)
      PROVE  TypeOK'
  BY <1>5 DEF LoadTotal
<1>6. ASSUME NEW e \in Exporters, List(e)
      PROVE  TypeOK'
  <2>1. <<loaded[e], Cardinality(Listed)>> \in (0 .. Totals - 1) \X Nat
    BY ListedFinite
  <2>2. summary' \in [Exporters -> (0 .. Totals - 1) \X Nat]
    BY <1>6, <2>1 DEF List
  <2>3. loaded' \in [Exporters -> 0 .. Totals - 1]
    BY <1>6 DEF List
  <2> QED
    BY <1>6, <2>2, <2>3 DEF List
<1>7. ASSUME NEW e \in Exporters, Export(e)
      PROVE  TypeOK'
  <2>1. <<0, 0>> \in (0 .. Totals - 1) \X Nat
    OBVIOUS
  <2>2. summary' \in [Exporters -> (0 .. Totals - 1) \X Nat]
    BY <1>7, <2>1 DEF Export
  <2> QED
    BY <1>7, <2>2 DEF Export
<1>8. ASSUME NEW c \in Checkers, LockMap(c)
      PROVE  TypeOK'
  <2>1. {<<upstream_metrics[n], health_state[upstream_metrics[n]]>> : n \in Listed}
           \in SUBSET (Objects \X HealthStates)
    BY DEF Listed
  <2>2. was' \in [Checkers -> SUBSET (Objects \X HealthStates)]
    BY <1>8, <2>1 DEF LockMap
  <2>3. unread' \in [Checkers -> SUBSET Names] /\ proxies' \in [Checkers -> ProxyHealths]
    BY <1>8 DEF LockMap, Listed
  <2> QED
    BY <1>8, <2>2, <2>3 DEF LockMap
<1>9. ASSUME NEW c \in Checkers, NEW n \in Names, ReadHealth(c, n)
      PROVE  TypeOK'
  <2>1. unread' \in [Checkers -> SUBSET Names]
    BY <1>9 DEF ReadHealth
  <2>2. unhealthy_upstreams' \in [Checkers -> Nat]
    BY <1>9 DEF ReadHealth
  <2> QED
    BY <1>9, <2>1, <2>2 DEF ReadHealth
<1>10. ASSUME NEW c \in Checkers, Judge(c)
       PROVE  TypeOK'
  <2>1. status' \in [Checkers -> HealthStates]
    BY <1>10 DEF Judge, Overall, HealthStates
  <2> QED
    BY <1>10, <2>1 DEF Judge
<1>11. ASSUME NEW c \in Checkers, Answer(c)
       PROVE  TypeOK'
  <2>1. NoProxies \in ProxyHealths /\ "Unknown" \in HealthStates
    BY DEF NoProxies, ProxyHealths, HealthStates
  <2> QED
    BY <1>11, <2>1 DEF Answer
<1>12. ASSUME NEW o \in Objects, SetHealth(o)
       PROVE  TypeOK'
  <2>1. PICK state \in HealthStates :
          /\ health_state' = [health_state EXCEPT ![o] = state]
          /\ was' = [c \in Checkers |->
                        IF checking[c] = "read" /\ \E n \in Listed : upstream_metrics[n] = o
                        THEN was[c] \cup {<<o, state>>} ELSE was[c]]
    BY <1>12 DEF SetHealth
  <2>2. was' \in [Checkers -> SUBSET (Objects \X HealthStates)]
    BY <2>1
  <2> QED
    BY <1>12, <2>1, <2>2 DEF SetHealth
<1>13. CASE UNCHANGED vars
  BY <1>13 DEF vars
<1> QED
  BY <1>1, <1>2, <1>3, <1>4, <1>5, <1>6, <1>7, <1>8, <1>9, <1>10, <1>11, <1>12,
     <1>13 DEF Next

\* The variables keep their types: the total stays in its range.
THEOREM Typing == Spec => []TypeOK
BY TypesInit, TypesNext, PTL DEF Spec

-----------------------------------------------------------------------------
(* The ledger *)

\* What the total would be if it never wrapped.
Balance == Cardinality(Listed) + replaced - Cardinality(Added) + Cardinality(Removed)

\* An exporter that has loaded the total and is still undisturbed has found all
\* writers idle, and what it loaded is the total still.
QuietAt(e) ==
    /\ exporting[e] = "list" /\ quiet[e] =>
          loaded[e] = upstreams_total /\ Added = {} /\ Removed = {}
    /\ exporting[e] = "done" /\ quiet[e] /\ replaced = 0 =>
          summary[e][1] = summary[e][2] % Totals

Ledger ==
    /\ upstreams_total = Balance % Totals
    /\ \A e \in Exporters : QuietAt(e)

LEMMA Finite ==
    /\ IsFiniteSet(Listed) /\ Cardinality(Listed) \in Nat
    /\ IsFiniteSet(Added) /\ Cardinality(Added) \in Nat
    /\ IsFiniteSet(Removed) /\ Cardinality(Removed) \in Nat
<1>1. Listed \subseteq Names /\ Added \subseteq Writers /\ Removed \subseteq Writers
  BY DEF Listed, Added, Removed
<1> QED
  BY <1>1, SetsAssumption, FS_Subset, FS_CardinalityType

LEMMA Joins ==
  ASSUME NEW S, IsFiniteSet(S), NEW x, x \notin S
  PROVE  Cardinality(S \cup {x}) = Cardinality(S) + 1
BY FS_AddElement

LEMMA Quits ==
  ASSUME NEW S, IsFiniteSet(S), NEW x \in S
  PROVE  Cardinality(S \ {x}) = Cardinality(S) - 1
BY FS_RemoveElement

LEMMA LedgerInit == Init => Ledger
<1> SUFFICES ASSUME Init
             PROVE  Ledger
  OBVIOUS
<1>1. Listed = {} /\ Added = {} /\ Removed = {}
  BY DEF Init, Listed, Added, Removed
<1>2. Balance = 0
  BY <1>1, FS_EmptySet DEF Init, Balance
<1>3. 0 % Totals = 0
  BY NumbersAssumption
<1>4. \A e \in Exporters : QuietAt(e)
  BY DEF Init, QuietAt
<1> QED
  BY <1>2, <1>3, <1>4 DEF Init, Ledger

\* A write to the map leaves the total and moves the balance of the other
\* terms; a write to the counter moves the total and the balance alike.
LEMMA BalanceNext ==
    ASSUME TypeOK, upstreams_total = Balance % Totals, [Next]_vars
    PROVE  upstreams_total' = Balance' % Totals
<1> USE DEF TypeOK
<1>b. Balance \in Int /\ replaced \in Nat
  BY Finite DEF Balance
<1>1. ASSUME UNCHANGED <<upstreams_total, upstream_metrics, replaced, pc>>
      PROVE  upstreams_total' = Balance' % Totals
  BY <1>1 DEF Balance, Listed, Added, Removed
<1>2. ASSUME NEW w \in Writers, NEW n \in Names, AddInsert(w, n)
      PROVE  upstreams_total' = Balance' % Totals
  <2>1. w \notin Added /\ Added' = Added \cup {w} /\ Removed' = Removed
    BY <1>2 DEF AddInsert, Added, Removed
  <2>2. Cardinality(Added') = Cardinality(Added) + 1
    BY <2>1, Finite, Joins
  <2>3. created + 1 # 0 /\ Listed' = Listed \cup {n}
    BY <1>2 DEF AddInsert, Listed, Objects
  <2>4. Cardinality(Listed') + replaced' = Cardinality(Listed) + replaced + 1
    <3>1. CASE n \in Listed
      <4>1. Listed' = Listed /\ replaced' = replaced + 1
        BY <1>2, <2>3, <3>1 DEF AddInsert
      <4> QED
        BY <1>b, <4>1, Finite
    <3>2. CASE n \notin Listed
      <4>1. Cardinality(Listed') = Cardinality(Listed) + 1 /\ replaced' = replaced
        BY <1>2, <2>3, <3>2, Finite, Joins DEF AddInsert
      <4> QED
        BY <1>b, <4>1, Finite
    <3> QED
      BY <3>1, <3>2
  <2>5. Cardinality(Listed') \in Nat /\ replaced' \in Nat
    <3>1. TypeOK'
      BY TypesNext
    <3>2. IsFiniteSet(Listed')
      BY <2>3, Finite, FS_AddElement
    <3> QED
      BY <3>1, <3>2, FS_CardinalityType
  <2>6. Balance' = Balance
    <3>1. Balance' = Cardinality(Listed') + replaced' - (Cardinality(Added) + 1)
                        + Cardinality(Removed)
      BY <2>1, <2>2 DEF Balance
    <3>2. Cardinality(Added) \in Nat /\ Cardinality(Removed) \in Nat
          /\ Cardinality(Listed) \in Nat
      BY Finite
    <3>3. Balance = Cardinality(Listed) + replaced - Cardinality(Added)
                        + Cardinality(Removed)
      BY DEF Balance
    <3> DEFINE l == Cardinality(Listed)
               l1 == Cardinality(Listed')
               r1 == replaced'
               a == Cardinality(Added)
               d == Cardinality(Removed)
    <3>4. l \in Nat /\ l1 \in Nat /\ r1 \in Nat /\ a \in Nat /\ d \in Nat
          /\ l1 + r1 = l + replaced + 1
      BY <2>4, <2>5, <3>2
    <3>5. Balance = l + replaced - a + d /\ Balance' = l1 + r1 - (a + 1) + d
      BY <3>1, <3>3
    <3> HIDE DEF l, l1, r1, a, d
    <3> QED
      BY <1>b, <3>4, <3>5
  <2> QED
    BY <1>2, <2>6 DEF AddInsert
<1>3. ASSUME NEW w \in Writers, AddCount(w)
      PROVE  upstreams_total' = Balance' % Totals
  <2>1. /\ w \in Added /\ Added' = Added \ {w} /\ Removed' = Removed
        /\ Listed' = Listed /\ replaced' = replaced
    BY <1>3 DEF AddCount, Added, Removed, Listed
  <2>2. Cardinality(Added') = Cardinality(Added) - 1
    BY <2>1, Finite, Quits
  <2>3. Balance' = Balance + 1
    BY <1>b, <2>1, <2>2, Finite DEF Balance
  <2>4. upstreams_total' = ((Balance % Totals) + 1) % Totals
    BY <1>3 DEF AddCount
  <2>5. ((Balance % Totals) + 1) % Totals = (Balance + 1) % Totals
    BY <1>b, CountsUp
  <2> QED
    BY <2>3, <2>4, <2>5
<1>4. ASSUME NEW w \in Writers, NEW n \in Names, Remove(w, n)
      PROVE  upstreams_total' = Balance' % Totals
  <2>1. CASE n \notin Listed
    BY <1>1, <1>4, <2>1 DEF Remove
  <2>2. CASE n \in Listed
    <3>1. /\ w \notin Removed /\ Removed' = Removed \cup {w} /\ Added' = Added
          /\ replaced' = replaced
      BY <1>4, <2>2 DEF Remove, Added, Removed
    <3>2. Listed' = Listed \ {n}
      BY <1>4, <2>2 DEF Remove, Listed
    <3>3. Cardinality(Removed') = Cardinality(Removed) + 1
      BY <3>1, Finite, Joins
    <3>4. Cardinality(Listed') = Cardinality(Listed) - 1
      BY <2>2, <3>2, Finite, Quits
    <3>5. Balance' = Balance
      BY <1>b, <3>1, <3>3, <3>4, Finite DEF Balance
    <3> QED
      BY <1>4, <3>5 DEF Remove
  <2> QED
    BY <2>1, <2>2
<1>5. ASSUME NEW w \in Writers, RemoveCount(w)
      PROVE  upstreams_total' = Balance' % Totals
  <2>1. /\ w \in Removed /\ Removed' = Removed \ {w} /\ Added' = Added
        /\ Listed' = Listed /\ replaced' = replaced
    BY <1>5 DEF RemoveCount, Added, Removed, Listed
  <2>2. Cardinality(Removed') = Cardinality(Removed) - 1
    BY <2>1, Finite, Quits
  <2>3. Balance' = Balance - 1
    BY <1>b, <2>1, <2>2, Finite DEF Balance
  <2>4. upstreams_total' = ((Balance % Totals) - 1) % Totals
    BY <1>5 DEF RemoveCount
  <2>5. ((Balance % Totals) - 1) % Totals = (Balance - 1) % Totals
    BY <1>b, CountsDown
  <2> QED
    BY <2>3, <2>4, <2>5
<1>6. ASSUME NEW e \in Exporters, LoadTotal(e) \/ List(e) \/ Export(e)
      PROVE  upstreams_total' = Balance' % Totals
  BY <1>1, <1>6 DEF LoadTotal, List, Export
<1>7. ASSUME NEW c \in Checkers, LockMap(c) \/ Judge(c) \/ Answer(c)
      PROVE  upstreams_total' = Balance' % Totals
  BY <1>1, <1>7 DEF LockMap, Judge, Answer
<1>8. ASSUME NEW c \in Checkers, NEW n \in Names, ReadHealth(c, n)
      PROVE  upstreams_total' = Balance' % Totals
  BY <1>1, <1>8 DEF ReadHealth
<1>9. ASSUME NEW o \in Objects, SetHealth(o)
      PROVE  upstreams_total' = Balance' % Totals
  BY <1>1, <1>9 DEF SetHealth
<1>10. CASE UNCHANGED vars
  BY <1>1, <1>10 DEF vars
<1> QED
  BY <1>2, <1>3, <1>4, <1>5, <1>6, <1>7, <1>8, <1>9, <1>10 DEF Next

\* A write disturbs every exporter, and nothing else touches what an exporter
\* has loaded or put together.
LEMMA QuietNext ==
    ASSUME TypeOK, Ledger, [Next]_vars, NEW e \in Exporters
    PROVE  QuietAt(e)'
<1>0. QuietAt(e) /\ upstreams_total = Balance % Totals
  BY DEF Ledger
<1>1. ASSUME quiet'[e] = FALSE
      PROVE  QuietAt(e)'
  BY <1>1 DEF QuietAt
<1>2. ASSUME exporting'[e] = exporting[e], quiet'[e] = quiet[e], loaded'[e] = loaded[e],
             summary'[e] = summary[e], UNCHANGED <<upstreams_total, replaced, pc>>
      PROVE  QuietAt(e)'
  BY <1>0, <1>2 DEF QuietAt, Added, Removed
<1>3. ASSUME NEW w \in Writers, AddCount(w) \/ RemoveCount(w)
      PROVE  QuietAt(e)'
  BY <1>1, <1>3 DEF AddCount, RemoveCount, Disturb
<1>4. ASSUME NEW w \in Writers, NEW n \in Names, AddInsert(w, n)
      PROVE  QuietAt(e)'
  BY <1>1, <1>4 DEF AddInsert, Disturb
<1>5. ASSUME NEW w \in Writers, NEW n \in Names, Remove(w, n)
      PROVE  QuietAt(e)'
  <2>1. CASE n \in Listed
    BY <1>1, <1>5, <2>1 DEF Remove, Disturb
  <2>2. CASE n \notin Listed
    BY <1>2, <1>5, <2>2 DEF Remove
  <2> QED
    BY <2>1, <2>2
<1>6. ASSUME NEW f \in Exporters, LoadTotal(f)
      PROVE  QuietAt(e)'
  <2>1. CASE f # e
    BY <1>2, <1>6, <2>1 DEF LoadTotal, TypeOK
  <2>2. CASE f = e
    <3>1. /\ exporting'[e] = "list" /\ loaded'[e] = upstreams_total'
          /\ quiet'[e] => Added' = {} /\ Removed' = {}
      BY <1>6, <2>2 DEF LoadTotal, TypeOK, Added, Removed
    <3> QED
      BY <3>1 DEF QuietAt
  <2> QED
    BY <2>1, <2>2
<1>7. ASSUME NEW f \in Exporters, List(f)
      PROVE  QuietAt(e)'
  <2>1. CASE f # e
    BY <1>2, <1>7, <2>1 DEF List, TypeOK
  <2>2. CASE f = e
    <3>1. /\ exporting[e] = "list" /\ exporting'[e] = "done"
          /\ quiet'[e] = quiet[e] /\ replaced' = replaced
          /\ summary'[e][1] = loaded[e] /\ summary'[e][2] = Cardinality(Listed)
      BY <1>7, <2>2 DEF List, TypeOK
    <3>2. ASSUME quiet[e], replaced = 0
          PROVE  loaded[e] = Cardinality(Listed) % Totals
      <4>1. loaded[e] = upstreams_total /\ Added = {} /\ Removed = {}
        BY <1>0, <3>1, <3>2 DEF QuietAt
      <4>2. Cardinality({}) = 0 /\ Cardinality(Listed) \in Nat
        BY FS_EmptySet, Finite
      <4>3. Balance = Cardinality(Listed)
        BY <3>2, <4>1, <4>2 DEF Balance
      <4> QED
        BY <1>0, <4>1, <4>3
    <3> QED
      BY <3>1, <3>2 DEF QuietAt
  <2> QED
    BY <2>1, <2>2
<1>8. ASSUME NEW f \in Exporters, Export(f)
      PROVE  QuietAt(e)'
  <2>1. CASE f # e
    BY <1>2, <1>8, <2>1 DEF Export, TypeOK
  <2>2. CASE f = e
    BY <1>1, <1>8, <2>2 DEF Export, TypeOK
  <2> QED
    BY <2>1, <2>2
<1>9. ASSUME NEW c \in Checkers, LockMap(c) \/ Judge(c) \/ Answer(c)
      PROVE  QuietAt(e)'
  BY <1>2, <1>9 DEF LockMap, Judge, Answer
<1>10. ASSUME NEW c \in Checkers, NEW n \in Names, ReadHealth(c, n)
       PROVE  QuietAt(e)'
  BY <1>2, <1>10 DEF ReadHealth
<1>11. ASSUME NEW o \in Objects, SetHealth(o)
       PROVE  QuietAt(e)'
  BY <1>2, <1>11 DEF SetHealth
<1>12. CASE UNCHANGED vars
  BY <1>2, <1>12 DEF vars
<1> QED
  BY <1>3, <1>4, <1>5, <1>6, <1>7, <1>8, <1>9, <1>10, <1>11, <1>12 DEF Next

LEMMA LedgerNext == TypeOK /\ Ledger /\ [Next]_vars => Ledger'
<1> SUFFICES ASSUME TypeOK, Ledger, [Next]_vars
             PROVE  Ledger'
  OBVIOUS
<1>1. upstreams_total' = Balance' % Totals
  BY BalanceNext DEF Ledger
<1>2. \A e \in Exporters : QuietAt(e)'
  BY QuietNext
<1> QED
  BY <1>1, <1>2 DEF Ledger

\* upstreams_total is the number of upstreams listed, up to writers between
\* their two steps, replacements and wrapping; an undisturbed summary agrees
\* with itself.
THEOREM TotalIsExplained == Spec => []TotalLedger
<1>1. Ledger => TotalLedger
  BY DEF Ledger, QuietAt, Balance, TotalLedger
<1> QED
  BY <1>1, LedgerInit, LedgerNext, Typing, PTL DEF Spec

-----------------------------------------------------------------------------
(* The verdict *)

\* What a checker that holds the map's lock knows.  The upstreams it has still
\* to read are on the map, whose objects are those of its record.  The state
\* each of them has now is in the record; so is one that was unhealthy if it
\* has counted any; and if it has counted none, each one it has read was
\* once not unhealthy.
ReadingAt(c) ==
    /\ unread[c] \subseteq Listed
    /\ \A n \in Listed : <<upstream_metrics[n], health_state[upstream_metrics[n]]>> \in was[c]
    /\ \A p \in was[c] : \E n \in Listed : upstream_metrics[n] = p[1]
    /\ unhealthy_upstreams[c] > 0 => \E p \in was[c] : p[2] = "Unhealthy"
    /\ unhealthy_upstreams[c] = 0 =>
          \A n \in Listed \ unread[c] :
             \E q \in was[c] : q[1] = upstream_metrics[n] /\ q[2] # "Unhealthy"

JudgedAt(c) ==
    \/ /\ status[c] \in {"Unhealthy", "Unknown"}
       /\ status[c] = "Unhealthy" <=> proxies[c].healthy = 0
       /\ proxies[c].unhealthy > 0 \/ \E p \in was[c] : p[2] = "Unhealthy"
    \/ /\ status[c] = "Healthy" <=> proxies[c].healthy > 0
       /\ status[c] # "Unhealthy"
       /\ proxies[c].unhealthy = 0
       /\ \A p \in was[c] : \E q \in was[c] : q[1] = p[1] /\ q[2] # "Unhealthy"

CheckAt(c) ==
    /\ checking[c] # "read" => unhealthy_upstreams[c] = 0
    /\ checking[c] = "read" => ReadingAt(c)
    /\ checking[c] = "done" => JudgedAt(c)

LEMMA CheckInit == Init => \A c \in Checkers : CheckAt(c)
BY DEF Init, CheckAt

\* Overall, once every upstream has been read.
LEMMA Judged ==
    ASSUME TypeOK, NEW c \in Checkers, CheckAt(c), Judge(c)
    PROVE  CheckAt(c)'
<1>1. /\ checking'[c] = "done" /\ unhealthy_upstreams'[c] = 0
      /\ was' = was /\ proxies' = proxies
      /\ status'[c] = Overall(proxies[c].healthy, proxies[c].unhealthy,
                              unhealthy_upstreams[c])
  BY DEF Judge, TypeOK
<1>2. ReadingAt(c) /\ unread[c] = {}
  BY DEF CheckAt, Judge
<1>3. /\ proxies[c].healthy \in 0 .. 1 /\ proxies[c].unhealthy \in 0 .. 1
      /\ unhealthy_upstreams[c] \in Nat
  BY DEF TypeOK, ProxyHealths
<1>4. CASE proxies[c].unhealthy > 0 \/ unhealthy_upstreams[c] > 0
  <2>1. proxies[c].unhealthy > 0 \/ \E p \in was[c] : p[2] = "Unhealthy"
    BY <1>2, <1>4 DEF ReadingAt
  <2>2. /\ status'[c] \in {"Unhealthy", "Unknown"}
        /\ status'[c] = "Unhealthy" <=> proxies[c].healthy = 0
    BY <1>1, <1>4 DEF Overall
  <2> QED
    BY <1>1, <2>1, <2>2 DEF CheckAt, JudgedAt
<1>5. CASE ~(proxies[c].unhealthy > 0 \/ unhealthy_upstreams[c] > 0)
  <2>1. unhealthy_upstreams[c] = 0 /\ proxies[c].unhealthy = 0
    BY <1>3, <1>5
  <2>2. \A p \in was[c] : \E q \in was[c] : q[1] = p[1] /\ q[2] # "Unhealthy"
    BY <1>2, <2>1 DEF ReadingAt
  <2>3. /\ status'[c] = "Healthy" <=> proxies[c].healthy > 0
        /\ status'[c] # "Unhealthy"
    BY <1>1, <1>5 DEF Overall
  <2> QED
    BY <1>1, <2>1, <2>2, <2>3 DEF CheckAt, JudgedAt
<1> QED
  BY <1>4, <1>5

LEMMA CheckNext ==
    ASSUME TypeOK, NEW c \in Checkers, CheckAt(c), [Next]_vars
    PROVE  CheckAt(c)'
<1>1. ASSUME UNCHANGED <<upstream_metrics, health_state, checkVars>>
      PROVE  CheckAt(c)'
  BY <1>1 DEF CheckAt, ReadingAt, JudgedAt, Listed
\* nobody writes while c reads
<1>2. ASSUME checking[c] # "read", UNCHANGED checkVars
      PROVE  CheckAt(c)'
  BY <1>2 DEF CheckAt, JudgedAt
<1>3. ASSUME NEW w \in Writers, NEW n \in Names, AddInsert(w, n) \/ Remove(w, n)
      PROVE  CheckAt(c)'
  BY <1>2, <1>3 DEF AddInsert, Remove, Writable
<1>4. ASSUME NEW w \in Writers, AddCount(w) \/ RemoveCount(w)
      PROVE  CheckAt(c)'
  BY <1>1, <1>4 DEF AddCount, RemoveCount
<1>5. ASSUME NEW e \in Exporters, LoadTotal(e) \/ List(e) \/ Export(e)
      PROVE  CheckAt(c)'
  BY <1>1, <1>5 DEF LoadTotal, List, Export
<1>6. ASSUME NEW d \in Checkers, d # c, LockMap(d) \/ Judge(d) \/ Answer(d)
      PROVE  CheckAt(c)'
  BY <1>6 DEF LockMap, Judge, Answer, TypeOK, CheckAt, ReadingAt, JudgedAt, Listed
<1>7. ASSUME NEW d \in Checkers, d # c, NEW n \in Names, ReadHealth(d, n)
      PROVE  CheckAt(c)'
  BY <1>7 DEF ReadHealth, TypeOK, CheckAt, ReadingAt, JudgedAt, Listed
<1>8. CASE LockMap(c)
  <2>1. /\ checking[c] = "idle" /\ checking'[c] = "read" /\ unread'[c] = Listed
        /\ was'[c] = {<<upstream_metrics[n], health_state[upstream_metrics[n]]>> : n \in Listed}
        /\ UNCHANGED <<upstream_metrics, health_state, unhealthy_upstreams>>
    BY <1>8 DEF LockMap, TypeOK
  <2>2. unhealthy_upstreams[c] = 0 /\ Listed' = Listed
    BY <2>1 DEF CheckAt, Listed
  <2>3. ReadingAt(c)'
    BY <2>1, <2>2 DEF ReadingAt
  <2> QED
    BY <2>1, <2>3 DEF CheckAt
<1>9. CASE Judge(c)
  BY <1>9, Judged
<1>10. CASE Answer(c)
  BY <1>10 DEF Answer, TypeOK, CheckAt
<1>11. ASSUME NEW n \in Names, ReadHealth(c, n)
       PROVE  CheckAt(c)'
  <2>1. /\ checking[c] = "read" /\ n \in unread[c] /\ unread'[c] = unread[c] \ {n}
        /\ UNCHANGED <<upstream_metrics, health_state, checking, was>>
        /\ unhealthy_upstreams'[c] = IF health_state[upstream_metrics[n]] = "Unhealthy"
                                      THEN unhealthy_upstreams[c] + 1
                                      ELSE unhealthy_upstreams[c]
    BY <1>11 DEF ReadHealth, TypeOK
  <2>2. ReadingAt(c) /\ Listed' = Listed /\ unhealthy_upstreams[c] \in Nat
    BY <2>1 DEF CheckAt, Listed, TypeOK
  <2>3. /\ n \in Listed
        /\ <<upstream_metrics[n], health_state[upstream_metrics[n]]>> \in was[c]
    BY <2>1, <2>2 DEF ReadingAt
  <2>4. CASE health_state[upstream_metrics[n]] = "Unhealthy"
    <3>1. \E p \in was[c] : p[2] = "Unhealthy"
      BY <2>3, <2>4
    <3>2. unhealthy_upstreams'[c] # 0
      BY <2>1, <2>2, <2>4
    <3>3. ReadingAt(c)'
      BY <2>1, <2>2, <3>1, <3>2 DEF ReadingAt
    <3> QED
      BY <2>1, <3>3 DEF CheckAt
  <2>5. CASE health_state[upstream_metrics[n]] # "Unhealthy"
    <3>1. \E q \in was[c] : q[1] = upstream_metrics[n] /\ q[2] # "Unhealthy"
      BY <2>3, <2>5
    <3>2. unhealthy_upstreams'[c] = unhealthy_upstreams[c]
      BY <2>1, <2>5
    <3>3. \A m \in Listed \ unread'[c] : m = n \/ m \in Listed \ unread[c]
      BY <2>1
    <3>4. ReadingAt(c)'
      BY <2>1, <2>2, <3>1, <3>2, <3>3 DEF ReadingAt
    <3> QED
      BY <2>1, <3>4 DEF CheckAt
  <2> QED
    BY <2>4, <2>5
<1>12. ASSUME NEW o \in Objects, SetHealth(o)
       PROVE  CheckAt(c)'
  <2>1. PICK state \in HealthStates :
          /\ health_state' = [health_state EXCEPT ![o] = state]
          /\ was' = [d \in Checkers |->
                        IF checking[d] = "read" /\ \E n \in Listed : upstream_metrics[n] = o
                        THEN was[d] \cup {<<o, state>>} ELSE was[d]]
    BY <1>12 DEF SetHealth
  <2>2. /\ UNCHANGED <<upstream_metrics, checking, unread, unhealthy_upstreams,
                       proxies, status>>
        /\ Listed' = Listed
    BY <1>12 DEF SetHealth, Listed
  <2>3. CASE checking[c] # "read"
    BY <2>1, <2>2, <2>3 DEF CheckAt, JudgedAt
  <2>4. CASE checking[c] = "read"
    <3>1. ReadingAt(c)
      BY <2>4 DEF CheckAt
    <3>2. was[c] \subseteq was'[c]
      BY <2>1
    <3>3. \A n \in Listed :
             <<upstream_metrics[n], health_state'[upstream_metrics[n]]>> \in was'[c]
      <4> TAKE n \in Listed
      <4>1. upstream_metrics[n] \in Objects
        BY DEF Listed, TypeOK
      <4>2. CASE upstream_metrics[n] = o
        BY <2>1, <2>4, <4>1, <4>2 DEF TypeOK
      <4>3. CASE upstream_metrics[n] # o
        BY <2>1, <3>1, <3>2, <4>1, <4>3 DEF ReadingAt, TypeOK
      <4> QED
        BY <4>2, <4>3
    <3>4. \A p \in was'[c] : \E n \in Listed : upstream_metrics[n] = p[1]
      BY <2>1, <3>1 DEF ReadingAt
    <3>5. ReadingAt(c)'
      BY <2>2, <3>1, <3>2, <3>3, <3>4 DEF ReadingAt
    <3> QED
      BY <2>2, <2>4, <3>5 DEF CheckAt
  <2> QED
    BY <2>3, <2>4
<1>13. CASE UNCHANGED vars
  BY <1>1, <1>13 DEF vars
<1> QED
  BY <1>3, <1>4, <1>5, <1>6, <1>7, <1>8, <1>9, <1>10, <1>11, <1>12, <1>13 DEF Next

\* get_system_health reads each health under a lock of its own; its verdict can
\* still be explained by states the upstreams had while it read.
THEOREM VerdictsAreExplained == Spec => []VerdictExplained
<1> DEFINE Checks == \A c \in Checkers : CheckAt(c)
<1>1. TypeOK /\ Checks /\ [Next]_vars => Checks'
  BY CheckNext
<1>2. Checks => VerdictExplained
  BY DEF CheckAt, JudgedAt, VerdictExplained
<1> QED
  BY <1>1, <1>2, CheckInit, Typing, PTL DEF Spec
=============================================================================
