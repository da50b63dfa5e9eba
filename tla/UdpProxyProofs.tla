---------------------------- MODULE UdpProxyProofs ----------------------------
(***************************************************************************)
(* For every finite number of clients, packet tasks and sessions, every    *)
(* division of the clients into shards and any number of workers: the      *)
(* gauge of sessions differs from the map by the accounted drift only, and *)
(* once every worker waits for a lock of the map nothing moves any more.   *)
(***************************************************************************)
EXTENDS UdpProxy, FiniteSetTheorems, TLAPS

USE DEF objectVars, taskVars, cleanerVars, loopVars, metricVars

TaskLabels == {"idle", "lookup", "held", "remove", "create", "insert", "count",
               "touch", "forward"}
ListenerLabels == {"none", "recv", "send", "check", "remove", "count", "dead"}

LEMMA Numbers ==
  /\ MaxSessions \in Nat /\ Shards \in Nat /\ Shards > 0
  /\ Sessions \subseteq Nat \ {0} /\ Sessions \subseteq 0 .. MaxSessions
  /\ AnyClient \in Clients
  /\ \A c \in Clients : ShardOf[c] \in 1 .. Shards
BY ShardAssumption, FiniteAssumption, NumbersAssumption DEF Sessions, AnyClient

\* The variables keep their types.
LEMMA TypeNext == TypeOK /\ [Next]_vars => TypeOK'
<1> SUFFICES ASSUME TypeOK, [Next]_vars
             PROVE  TypeOK'
  OBVIOUS
<1> USE DEF TypeOK
<1>p. \A t \in Tasks, l \in TaskLabels : [pc EXCEPT ![t] = l] \in [Tasks -> TaskLabels]
  BY DEF TaskLabels
<1>l. \A s \in Sessions, l \in ListenerLabels :
         [listener EXCEPT ![s] = l] \in [Sessions -> ListenerLabels]
  BY DEF ListenerLabels
<1>f. ASSUME NEW t \in Tasks, Finish(t)
      PROVE  /\ pc' \in [Tasks -> TaskLabels]
             /\ client' \in [Tasks -> Clients]
             /\ session' \in [Tasks -> 0 .. MaxSessions]
  <2>1. pc' \in [Tasks -> TaskLabels]
    BY <1>p, <1>f DEF Finish, TaskLabels
  <2> QED
    BY <1>f, <2>1, Numbers DEF Finish
<1>1. ASSUME NEW t \in Tasks, Receive(t)
      PROVE  TypeOK'
  BY <1>1 DEF Receive
<1>2. ASSUME NEW t \in Tasks, Lookup(t)
      PROVE  TypeOK'
  <2>1. session' \in [Tasks -> 0 .. MaxSessions]
    BY <1>2 DEF Lookup
  <2>2. pc' \in [Tasks -> TaskLabels]
    BY <1>2 DEF Lookup, TaskLabels
  <2> QED
    BY <1>2, <2>1, <2>2 DEF Lookup, TaskLabels
<1>3. ASSUME NEW t \in Tasks, CheckExpired(t)
      PROVE  TypeOK'
  <2>1. pc' \in [Tasks -> TaskLabels]
    BY <1>3 DEF CheckExpired, TaskLabels
  <2> QED
    BY <1>3, <2>1 DEF CheckExpired, TaskLabels
<1>4. ASSUME NEW t \in Tasks, Create(t)
      PROVE  TypeOK'
  <2>1. created + 1 \in Sessions /\ created + 1 \in 0 .. MaxSessions
    BY <1>4, Numbers DEF Create, Sessions
  <2>2. session' \in [Tasks -> 0 .. MaxSessions] /\ owner' \in [Sessions -> Clients]
    BY <1>4, <2>1 DEF Create
  <2>3. listener' \in [Sessions -> ListenerLabels]
    BY <1>4, <1>l, <2>1 DEF Create, ListenerLabels
  <2>4. pc' \in [Tasks -> TaskLabels]
    BY <1>4 DEF Create, TaskLabels
  <2> QED
    BY <1>4, <2>1, <2>2, <2>3, <2>4 DEF Create, TaskLabels, ListenerLabels
<1>5. ASSUME NEW t \in Tasks, CreateFails(t) \/ Forward(t)
      PROVE  TypeOK'
  BY <1>5, <1>f DEF CreateFails, Forward, TaskLabels
<1>6. ASSUME NEW t \in Tasks, Insert(t)
      PROVE  TypeOK'
  <2>1. sessions' \in [Clients -> 0 .. MaxSessions] /\ drift' \in Int
    BY <1>6 DEF Insert
  <2> QED
    BY <1>6, <2>1 DEF Insert
<1>7. ASSUME NEW t \in Tasks, CountCreated(t)
      PROVE  TypeOK'
  BY <1>7 DEF CountCreated
<1>8. ASSUME NEW t \in Tasks, Touch(t)
      PROVE  TypeOK'
  BY <1>8 DEF Touch
<1>9. ASSUME NEW s \in Sessions, ListenerRecv(s)
      PROVE  TypeOK'
  <2>1. listener' \in [Sessions -> ListenerLabels]
    BY <1>9, <1>l DEF ListenerRecv, ListenerGoto, ListenerLabels
  <2> QED
    BY <1>9, <2>1 DEF ListenerRecv, ListenerGoto, ListenerLabels
<1>10. ASSUME NEW s \in Sessions, ListenerSend(s)
       PROVE  TypeOK'
  <2>1. listener' \in [Sessions -> ListenerLabels]
    BY <1>10, <1>l DEF ListenerSend, ListenerGoto, ListenerLabels
  <2>2. stale' \subseteq Sessions
    BY <1>10 DEF ListenerSend
  <2> QED
    BY <1>10, <2>1, <2>2 DEF ListenerSend, ListenerGoto, ListenerLabels
<1>11. ASSUME NEW s \in Sessions, ListenerCheck(s)
       PROVE  TypeOK'
  <2>1. listener' \in [Sessions -> ListenerLabels]
    BY <1>11, <1>l DEF ListenerCheck, ListenerGoto, ListenerLabels
  <2> QED
    BY <1>11, <2>1 DEF ListenerCheck, ListenerGoto, ListenerLabels
<1>12. ASSUME NEW s \in Sessions, ListenerRemove(s)
       PROVE  TypeOK'
  <2>1. listener' \in [Sessions -> ListenerLabels]
    BY <1>12, <1>l DEF ListenerRemove, ListenerGoto, ListenerLabels
  <2>2. sessions' \in [Clients -> 0 .. MaxSessions] /\ drift' \in Int
    BY <1>12, Numbers DEF ListenerRemove
  <2> QED
    BY <1>12, <2>1, <2>2 DEF ListenerRemove, ListenerGoto, ListenerLabels
<1>13. ASSUME NEW s \in Sessions, ListenerCount(s)
       PROVE  TypeOK'
  <2>1. listener' \in [Sessions -> ListenerLabels]
    BY <1>13, <1>l DEF ListenerCount, ListenerGoto, ListenerLabels
  <2> QED
    BY <1>13, <2>1 DEF ListenerCount, ListenerGoto, ListenerLabels
<1>14. CASE CleanupStart
  BY <1>14, Numbers DEF CleanupStart
<1>15. ASSUME NEW c \in Clients, CleanupCheck(c)
       PROVE  TypeOK'
  BY <1>15 DEF CleanupCheck
<1>16. CASE CleanupNextShard
  <2>1. guarded' \in 0 .. Shards /\ unchecked' \subseteq Clients
    BY <1>16, Numbers DEF CleanupNextShard
  <2> QED
    BY <1>16, <2>1 DEF CleanupNextShard
<1>17. ASSUME NEW c \in Clients, CleanupRemove(c)
       PROVE  TypeOK'
  <2>1. sessions' \in [Clients -> 0 .. MaxSessions]
    BY <1>17, Numbers DEF CleanupRemove
  <2> QED
    BY <1>17, <2>1 DEF CleanupRemove
<1>18. CASE CleanupCount \/ CleanupEnd
  BY <1>18 DEF CleanupCount, CleanupEnd
<1>19. ASSUME NEW s \in Sessions, Expire(s)
       PROVE  TypeOK'
  BY <1>19 DEF Expire
<1>20. CASE Shutdown
  BY <1>20 DEF Shutdown
<1>21. CASE Clear
  <2> DEFINE gone == {c \in Clients : ShardOf[c] = cleared + 1 /\ sessions[c] # 0}
  <2>1. Cardinality(gone) \in Nat
    BY FiniteAssumption, FS_Subset, FS_CardinalityType
  <2>2. CASE cleared = Shards
    BY <1>21, <2>2 DEF Clear
  <2>3. CASE cleared # Shards
    <3>1. sessions' \in [Clients -> 0 .. MaxSessions] /\ cleared' \in 0 .. Shards
      BY <1>21, <2>3, Numbers DEF Clear
    <3>2. drift' \in Int
      BY <1>21, <2>1, <2>3 DEF Clear
    <3> QED
      BY <1>21, <2>3, <3>1, <3>2 DEF Clear
  <2> QED
    BY <2>2, <2>3
<1>22. CASE UNCHANGED vars
  BY <1>22 DEF vars
<1> QED
  BY <1>1, <1>2, <1>3, <1>4, <1>5, <1>6, <1>7, <1>8, <1>9, <1>10, <1>11, <1>12,
     <1>13, <1>14, <1>15, <1>16, <1>17, <1>18, <1>19, <1>20, <1>21, <1>22
     DEF Next, TaskStep, ListenerStep, CleanupStep

\* The variables keep their types.
THEOREM Typing == Spec => []TypeOK
<1>1. Init => TypeOK
  BY Numbers DEF Init, TypeOK
<1> QED
  BY <1>1, TypeNext, PTL DEF Spec

-----------------------------------------------------------------------------
\* A task that is about to insert has a session, and sessions not yet created
\* have no listener.
Orderly ==
  /\ \A t \in Tasks : pc[t] = "insert" => session[t] # 0
  /\ \A s \in Sessions : s > created => listener[s] = "none"

LEMMA OrderlyNext == TypeOK /\ Orderly /\ [Next]_vars => Orderly'
<1> SUFFICES ASSUME TypeOK, Orderly, [Next]_vars
             PROVE  Orderly'
  OBVIOUS
<1> USE DEF TypeOK, Orderly
<1>1. ASSUME NEW t \in Tasks, Receive(t) \/ Lookup(t) \/ CheckExpired(t)
      PROVE  Orderly'
  BY <1>1 DEF Receive, Lookup, CheckExpired
<1>2. ASSUME NEW t \in Tasks, Create(t)
      PROVE  Orderly'
  <2>1. created + 1 \in Sessions /\ created' = created + 1 /\ created + 1 # 0
    BY <1>2, Numbers DEF Create, Sessions
  <2>2. \A q \in Tasks : pc'[q] = "insert" => session'[q] # 0
    BY <1>2, <2>1 DEF Create
  <2>3. ASSUME NEW s \in Sessions, s > created'
        PROVE  listener'[s] = "none"
    <3>1. s > created /\ s # created + 1
      BY <2>1, <2>3, Numbers
    <3> QED
      BY <1>2, <3>1 DEF Create
  <2> QED
    BY <1>2, <2>2, <2>3 DEF Create
<1>3. ASSUME NEW t \in Tasks, CreateFails(t) \/ Forward(t)
      PROVE  Orderly'
  BY <1>3 DEF CreateFails, Forward, Finish
<1>4. ASSUME NEW t \in Tasks, Insert(t) \/ CountCreated(t) \/ Touch(t)
      PROVE  Orderly'
  BY <1>4 DEF Insert, CountCreated, Touch
<1>5. ASSUME NEW s \in Sessions, ListenerRecv(s) \/ ListenerStep(s)
      PROVE  Orderly'
  <2>1. /\ listener[s] # "none"
        /\ UNCHANGED <<pc, session, created, unchecked, cleaner, guarded>>
        /\ \A r \in Sessions \ {s} : listener'[r] = listener[r]
    BY <1>5 DEF ListenerRecv, ListenerStep, ListenerSend, ListenerCheck,
       ListenerRemove, ListenerCount, ListenerGoto
  <2> QED
    BY <2>1
<1>6. CASE CleanupStep
  BY <1>6 DEF CleanupStep, CleanupStart, CleanupNextShard, CleanupCheck,
     CleanupRemove, CleanupCount, CleanupEnd
<1>7. CASE Shutdown \/ Clear \/ \E s \in Sessions : Expire(s)
  BY <1>7 DEF Shutdown, Clear, Expire
<1>8. CASE UNCHANGED vars
  BY <1>8 DEF vars
<1> QED
  BY <1>1, <1>2, <1>3, <1>4, <1>5, <1>6, <1>7, <1>8 DEF Next, TaskStep

LEMMA OrderlyInvariant == Spec => []Orderly
<1>1. Init => Orderly
  BY DEF Init, Orderly
<1> QED
  BY <1>1, OrderlyNext, Typing, PTL DEF Spec

-----------------------------------------------------------------------------
(* The sets of the ledger are finite, and a step moves few elements. *)

LEMMA Joins ==
  ASSUME NEW S, IsFiniteSet(S), NEW x, x \notin S
  PROVE  Cardinality(S \cup {x}) = Cardinality(S) + 1
BY FS_AddElement

LEMMA Quits ==
  ASSUME NEW S, IsFiniteSet(S), NEW x \in S
  PROVE  Cardinality(S \ {x}) = Cardinality(S) - 1
BY FS_RemoveElement

LEMMA Takes ==
  ASSUME NEW S, IsFiniteSet(S), NEW T \in SUBSET S
  PROVE  Cardinality(S \ T) + Cardinality(T) = Cardinality(S)
<1>1. IsFiniteSet(T) /\ IsFiniteSet(S \ T)
  BY FS_Subset
<1>2. (S \ T) \cup T = S /\ (S \ T) \cap T = {}
  OBVIOUS
<1>3. Cardinality((S \ T) \cup T) =
        Cardinality(S \ T) + Cardinality(T) - Cardinality((S \ T) \cap T)
  BY <1>1, FS_Union
<1>4. Cardinality(S \ T) \in Nat /\ Cardinality(T) \in Nat
  BY <1>1, FS_CardinalityType
<1>5. Cardinality(S) =
        Cardinality(S \ T) + Cardinality(T) - Cardinality({})
  BY <1>2, <1>3
<1>6. Cardinality({}) = 0
  BY FS_EmptySet
<1> QED
  BY <1>4, <1>5, <1>6

LEMMA LedgerSets ==
  /\ IsFiniteSet(Mapped) /\ Cardinality(Mapped) \in Nat
  /\ IsFiniteSet(ToCount) /\ Cardinality(ToCount) \in Nat
  /\ IsFiniteSet(ToUncount) /\ Cardinality(ToUncount) \in Nat
<1>1. IsFiniteSet(Sessions)
  BY NumbersAssumption, FS_Interval DEF Sessions
<1>2. Mapped \subseteq Clients /\ ToCount \subseteq Tasks /\ ToUncount \subseteq Sessions
  BY DEF Mapped, ToCount, ToUncount
<1> QED
  BY <1>1, <1>2, FiniteAssumption, FS_Subset, FS_CardinalityType

\* The cleanup's term of the ledger.
Pending == IF cleaner = "count" THEN 1 ELSE 0

LEMMA LedgerNext == TypeOK /\ Orderly /\ GaugeLedger /\ [Next]_vars => GaugeLedger'
<1> SUFFICES ASSUME TypeOK, Orderly, GaugeLedger, [Next]_vars
             PROVE  GaugeLedger'
  OBVIOUS
<1> USE DEF TypeOK
<1>n. /\ sessions_active \in Int /\ drift \in Int /\ Pending \in Int
      /\ sessions_active + Cardinality(ToCount) =
           Cardinality(Mapped) + drift + Cardinality(ToUncount) + Pending
  BY DEF GaugeLedger, Pending
<1>d. GaugeLedger' <=> sessions_active' + Cardinality(ToCount') =
           Cardinality(Mapped') + drift' + Cardinality(ToUncount') + Pending'
  BY DEF GaugeLedger, Pending
<1>0. ASSUME UNCHANGED <<sessions_active, drift, Pending, ToCount, Mapped, ToUncount>>
      PROVE  GaugeLedger'
  BY <1>0, <1>n, <1>d
<1>1. ASSUME NEW t \in Tasks, NEW l \in TaskLabels \ {"count"}, pc[t] # "count",
             pc' = [pc EXCEPT ![t] = l],
             UNCHANGED <<sessions_active, drift, cleaner, sessions>>,
             \A s \in Sessions : listener'[s] = "count" <=> listener[s] = "count"
      PROVE  GaugeLedger'
  <2>1. ToCount' = ToCount
    BY <1>1 DEF ToCount, TaskLabels
  <2>2. Mapped' = Mapped /\ ToUncount' = ToUncount /\ Pending' = Pending
    BY <1>1 DEF Mapped, ToUncount, Pending
  <2> QED
    BY <1>0, <1>1, <2>1, <2>2
<1>2. ASSUME NEW t \in Tasks, Receive(t) \/ Lookup(t) \/ CheckExpired(t)
      PROVE  GaugeLedger'
  <2>1. /\ pc[t] # "count" /\ UNCHANGED <<sessions_active, drift, cleaner, sessions, listener>>
        /\ \E l \in TaskLabels \ {"count"} : pc' = [pc EXCEPT ![t] = l]
    <3>1. CASE Receive(t)
      BY <3>1 DEF Receive, TaskLabels
    <3>2. CASE Lookup(t)
      BY <3>2 DEF Lookup, TaskLabels
    <3>3. CASE CheckExpired(t)
      BY <3>3 DEF CheckExpired, TaskLabels
    <3> QED
      BY <1>2, <3>1, <3>2, <3>3
  <2> QED
    BY <1>1, <2>1
<1>3. ASSUME NEW t \in Tasks, CreateFails(t) \/ Forward(t) \/ Touch(t)
      PROVE  GaugeLedger'
  <2>1. /\ pc[t] # "count" /\ UNCHANGED <<sessions_active, drift, cleaner, sessions, listener>>
        /\ \E l \in TaskLabels \ {"count"} : pc' = [pc EXCEPT ![t] = l]
    BY <1>3 DEF CreateFails, Forward, Touch, Finish, TaskLabels
  <2> QED
    BY <1>1, <2>1
<1>4. ASSUME NEW t \in Tasks, Create(t)
      PROVE  GaugeLedger'
  <2>1. created + 1 \in Sessions /\ created + 1 > created
    BY <1>4, Numbers DEF Create, Sessions
  <2>2. listener[created + 1] = "none" /\ listener' = [listener EXCEPT ![created + 1] = "recv"]
    BY <1>4, <2>1 DEF Create, Orderly
  <2>3. /\ pc[t] # "count" /\ UNCHANGED <<sessions_active, drift, cleaner, sessions>>
        /\ "insert" \in TaskLabels \ {"count"} /\ pc' = [pc EXCEPT ![t] = "insert"]
    BY <1>4 DEF Create, TaskLabels
  <2>4. \A s \in Sessions : listener'[s] = "count" <=> listener[s] = "count"
    BY <2>2
  <2> QED
    BY <1>1, <2>3, <2>4
<1>5. ASSUME NEW t \in Tasks, Insert(t)
      PROVE  GaugeLedger'
  <2>1. /\ pc[t] = "insert" /\ pc' = [pc EXCEPT ![t] = "count"]
        /\ UNCHANGED <<sessions_active, listener, cleaner>>
        /\ client[t] \in Clients /\ session[t] # 0
        /\ sessions' = [sessions EXCEPT ![client[t]] = session[t]]
    BY <1>5 DEF Insert, Orderly
  <2>2. t \notin ToCount /\ ToCount' = ToCount \cup {t}
    BY <2>1 DEF ToCount
  <2>3. Cardinality(ToCount') = Cardinality(ToCount) + 1
    BY <2>2, LedgerSets, Joins
  <2>4. ToUncount' = ToUncount /\ Pending' = Pending
    BY <2>1 DEF ToUncount, Pending
  <2>5. Mapped' = Mapped \cup {client[t]}
    BY <2>1 DEF Mapped
  <2>6. CASE sessions[client[t]] = 0
    <3>1. client[t] \notin Mapped /\ drift' = drift
      BY <1>5, <2>6 DEF Mapped, Insert
    <3>2. Cardinality(Mapped') = Cardinality(Mapped) + 1
      BY <2>5, <3>1, LedgerSets, Joins
    <3> QED
      BY <1>n, <1>d, <2>1, <2>3, <2>4, <3>1, <3>2, LedgerSets
  <2>7. CASE sessions[client[t]] # 0
    <3>1. Mapped' = Mapped /\ drift' = drift + 1
      BY <1>5, <2>1, <2>5, <2>7 DEF Mapped, Insert
    <3> QED
      BY <1>n, <1>d, <2>1, <2>3, <2>4, <3>1, LedgerSets
  <2> QED
    BY <2>6, <2>7
<1>6. ASSUME NEW t \in Tasks, CountCreated(t)
      PROVE  GaugeLedger'
  <2>1. t \in ToCount /\ ToCount' = ToCount \ {t}
    BY <1>6 DEF CountCreated, ToCount
  <2>2. Cardinality(ToCount') = Cardinality(ToCount) - 1
    BY <2>1, LedgerSets, Quits
  <2>3. /\ sessions_active' = sessions_active + 1 /\ drift' = drift
        /\ Mapped' = Mapped /\ ToUncount' = ToUncount /\ Pending' = Pending
    BY <1>6 DEF CountCreated, Mapped, ToUncount, Pending
  <2> QED
    BY <1>n, <1>d, <2>2, <2>3, LedgerSets
<1>7. ASSUME NEW s \in Sessions, ListenerRecv(s) \/ ListenerSend(s) \/ ListenerCheck(s)
      PROVE  GaugeLedger'
  <2>1. /\ listener[s] # "count" /\ listener'[s] # "count"
        /\ \A r \in Sessions \ {s} : listener'[r] = listener[r]
        /\ UNCHANGED <<sessions_active, drift, cleaner, sessions, pc>>
    BY <1>7 DEF ListenerRecv, ListenerSend, ListenerCheck, ListenerGoto
  <2>2. ToUncount' = ToUncount
    BY <2>1 DEF ToUncount
  <2>3. Mapped' = Mapped /\ ToCount' = ToCount /\ Pending' = Pending
    BY <2>1 DEF Mapped, ToCount, Pending
  <2> QED
    BY <1>0, <2>1, <2>2, <2>3
<1>8. ASSUME NEW s \in Sessions, ListenerRemove(s)
      PROVE  GaugeLedger'
  <2>1. /\ listener[s] = "remove" /\ listener' = [listener EXCEPT ![s] = "count"]
        /\ UNCHANGED <<sessions_active, cleaner, pc>> /\ owner[s] \in Clients
        /\ sessions' = [sessions EXCEPT ![owner[s]] = 0]
    BY <1>8 DEF ListenerRemove, ListenerGoto
  <2>2. s \notin ToUncount /\ ToUncount' = ToUncount \cup {s}
    BY <2>1 DEF ToUncount
  <2>3. Cardinality(ToUncount') = Cardinality(ToUncount) + 1
    BY <2>2, LedgerSets, Joins
  <2>4. ToCount' = ToCount /\ Pending' = Pending /\ Mapped' = Mapped \ {owner[s]}
    BY <2>1 DEF ToCount, Pending, Mapped
  <2>5. CASE sessions[owner[s]] = 0
    <3>1. Mapped' = Mapped /\ drift' = drift - 1
      BY <1>8, <2>4, <2>5 DEF Mapped, ListenerRemove
    <3>2. UNCHANGED <<sessions_active, ToCount, Pending>>
      BY <2>1, <2>4
    <3> QED
      BY <1>n, <1>d, <2>3, <3>1, <3>2, LedgerSets
  <2>6. CASE sessions[owner[s]] # 0
    <3>1. owner[s] \in Mapped /\ drift' = drift
      BY <1>8, <2>1, <2>6 DEF Mapped, ListenerRemove
    <3>2. Cardinality(Mapped') = Cardinality(Mapped) - 1
      BY <2>4, <3>1, LedgerSets, Quits
    <3>3. UNCHANGED <<sessions_active, ToCount, Pending>>
      BY <2>1, <2>4
    <3> QED
      BY <1>n, <1>d, <2>3, <3>1, <3>2, <3>3, LedgerSets
  <2> QED
    BY <2>5, <2>6
<1>9. ASSUME NEW s \in Sessions, ListenerCount(s)
      PROVE  GaugeLedger'
  <2>1. s \in ToUncount /\ ToUncount' = ToUncount \ {s}
    BY <1>9 DEF ListenerCount, ListenerGoto, ToUncount
  <2>2. Cardinality(ToUncount') = Cardinality(ToUncount) - 1
    BY <2>1, LedgerSets, Quits
  <2>3. /\ sessions_active' = sessions_active - 1 /\ drift' = drift
        /\ Mapped' = Mapped /\ ToCount' = ToCount /\ Pending' = Pending
    BY <1>9 DEF ListenerCount, ListenerGoto, Mapped, ToCount, Pending
  <2> QED
    BY <1>n, <1>d, <2>2, <2>3, LedgerSets
<1>10. ASSUME NEW c \in Clients, CleanupRemove(c)
       PROVE  GaugeLedger'
  <2>1. /\ UNCHANGED <<sessions_active, drift, ToCount, ToUncount>>
        /\ sessions' = [sessions EXCEPT ![c] = 0]
        /\ cleaner = "remove"
        /\ cleaner' = IF sessions[c] = 0 THEN "remove" ELSE "count"
    BY <1>10 DEF CleanupRemove, ToCount, ToUncount
  <2>2. Mapped' = Mapped \ {c}
    BY <2>1 DEF Mapped
  <2>3. CASE sessions[c] = 0
    <3>1. Mapped' = Mapped /\ Pending' = Pending
      BY <2>1, <2>2, <2>3 DEF Mapped, Pending
    <3> QED
      BY <1>0, <2>1, <3>1
  <2>4. CASE sessions[c] # 0
    <3>1. c \in Mapped /\ Pending' = Pending + 1
      BY <2>1, <2>4 DEF Mapped, Pending
    <3>2. Cardinality(Mapped') = Cardinality(Mapped) - 1
      BY <2>2, <3>1, LedgerSets, Quits
    <3> QED
      BY <1>n, <1>d, <2>1, <3>1, <3>2, LedgerSets
  <2> QED
    BY <2>3, <2>4
<1>11. CASE CleanupCount
  <2>1. /\ sessions_active' = sessions_active - 1 /\ drift' = drift
        /\ Pending' = Pending - 1
        /\ UNCHANGED <<Mapped, ToCount, ToUncount>>
    BY <1>11 DEF CleanupCount, Pending, Mapped, ToCount, ToUncount
  <2> QED
    BY <1>n, <1>d, <2>1, LedgerSets
<1>12. CASE \/ CleanupStart \/ CleanupNextShard \/ CleanupEnd
            \/ \E c \in Clients : CleanupCheck(c)
  <2>1. /\ UNCHANGED <<sessions_active, drift, sessions, pc, listener>>
        /\ cleaner # "count" /\ cleaner' # "count"
    BY <1>12 DEF CleanupStart, CleanupNextShard, CleanupEnd, CleanupCheck
  <2>2. UNCHANGED <<Mapped, ToCount, ToUncount, Pending>>
    BY <2>1 DEF Mapped, ToCount, ToUncount, Pending
  <2> QED
    BY <1>0, <2>1, <2>2
<1>13. CASE Clear
  <2> DEFINE gone == {c \in Clients : ShardOf[c] = cleared + 1 /\ sessions[c] # 0}
  <2>0. UNCHANGED <<sessions_active, ToCount, ToUncount, Pending>>
    BY <1>13 DEF Clear, ToCount, ToUncount, Pending
  <2>1. CASE cleared = Shards
    BY <1>0, <1>13, <2>0, <2>1 DEF Clear, Mapped
  <2>2. CASE cleared # Shards
    <3>1. /\ drift' = drift + Cardinality(gone)
          /\ sessions' = [c \in Clients |-> IF c \in gone THEN 0 ELSE sessions[c]]
      BY <1>13, <2>2 DEF Clear
    <3>2. gone \subseteq Mapped /\ Mapped' = Mapped \ gone
      BY <3>1 DEF Mapped
    <3>3. /\ Cardinality(Mapped') + Cardinality(gone) = Cardinality(Mapped)
          /\ Cardinality(gone) \in Nat /\ Cardinality(Mapped') \in Nat
      BY <3>2, LedgerSets, Takes, FS_Subset, FS_CardinalityType
    <3> QED
      BY <1>n, <1>d, <2>0, <3>1, <3>3, LedgerSets
  <2> QED
    BY <2>1, <2>2
<1>14. CASE Shutdown \/ (\E s \in Sessions : Expire(s))
  BY <1>0, <1>14 DEF Shutdown, Expire, Mapped, ToCount, ToUncount, Pending
<1>15. CASE UNCHANGED vars
  BY <1>0, <1>15 DEF vars, Mapped, ToCount, ToUncount, Pending
<1> QED
  BY <1>2, <1>3, <1>4, <1>5, <1>6, <1>7, <1>8, <1>9, <1>10, <1>11, <1>12, <1>13,
     <1>14, <1>15 DEF Next, TaskStep, ListenerStep, CleanupStep

\* sessions_active is the size of the map but for the accounted drift and what
\* is being counted, for any number of tasks, sessions and clients.
THEOREM GaugeIsExplained == Spec => []GaugeLedger
<1>1. Init => GaugeLedger
  <2> SUFFICES ASSUME Init
               PROVE  GaugeLedger
    OBVIOUS
  <2>1. Mapped = {} /\ ToCount = {} /\ ToUncount = {}
    BY DEF Init, Mapped, ToCount, ToUncount
  <2> QED
    BY <2>1, FS_EmptySet DEF Init, GaugeLedger
<1> QED
  BY <1>1, LedgerNext, Typing, OrderlyInvariant, PTL DEF Spec

-----------------------------------------------------------------------------
(* The worker threads. *)

Threads ==
  Cardinality(BusyTasks) + Cardinality(BusyListeners) + Count(CleanerBusy)

\* No more tasks are between two awaits than there are workers.
Fits == Threads <= Workers

LEMMA ThreadSets ==
  /\ IsFiniteSet(BusyTasks) /\ Cardinality(BusyTasks) \in Nat
  /\ IsFiniteSet(BusyListeners) /\ Cardinality(BusyListeners) \in Nat
  /\ Count(CleanerBusy) \in {0, 1}
<1>1. IsFiniteSet(Sessions)
  BY NumbersAssumption, FS_Interval DEF Sessions
<1>2. BusyTasks \subseteq Tasks /\ BusyListeners \subseteq Sessions
  BY DEF BusyTasks, BusyListeners
<1> QED
  BY <1>1, <1>2, FiniteAssumption, FS_Subset, FS_CardinalityType DEF Count

LEMMA Within ==
  ASSUME NEW S, IsFiniteSet(S), NEW T, T \subseteq S
  PROVE  Cardinality(T) \in Nat /\ Cardinality(T) <= Cardinality(S)
BY FS_Subset, FS_CardinalityType

LEMMA WithinOneMore ==
  ASSUME NEW S, IsFiniteSet(S), NEW x, NEW T, T \subseteq S \cup {x}
  PROVE  Cardinality(T) \in Nat /\ Cardinality(T) <= Cardinality(S) + 1
<1>1. /\ IsFiniteSet(S \cup {x}) /\ Cardinality(S) \in Nat
      /\ Cardinality(S \cup {x}) =
           IF x \in S THEN Cardinality(S) ELSE Cardinality(S) + 1
  BY FS_AddElement, FS_CardinalityType
<1>2. Cardinality(T) \in Nat /\ Cardinality(T) <= Cardinality(S \cup {x})
  BY <1>1, Within
<1> QED
  BY <1>1, <1>2

LEMMA FitsNext == TypeOK /\ Fits /\ [Next]_vars => Fits'
<1> SUFFICES ASSUME TypeOK, Fits, [Next]_vars
             PROVE  Fits'
  OBVIOUS
<1> USE DEF TypeOK
<1>w. Workers \in Nat /\ (WorkerFree <=> Threads < Workers)
  BY NumbersAssumption DEF WorkerFree, Threads
<1>d. Fits' <=> Cardinality(BusyTasks') + Cardinality(BusyListeners')
                   + Count(CleanerBusy)' <= Workers
  BY DEF Fits, Threads
<1>c. Count(CleanerBusy)' \in {0, 1}
      /\ ((CleanerBusy' => CleanerBusy) => Count(CleanerBusy)' <= Count(CleanerBusy))
  BY DEF Count
<1>1. ASSUME BusyTasks' \subseteq BusyTasks, BusyListeners' \subseteq BusyListeners,
             CleanerBusy' => CleanerBusy
      PROVE  Fits'
  <2>1. /\ Cardinality(BusyTasks') \in Nat
        /\ Cardinality(BusyTasks') <= Cardinality(BusyTasks)
        /\ Cardinality(BusyListeners') \in Nat
        /\ Cardinality(BusyListeners') <= Cardinality(BusyListeners)
    BY <1>1, ThreadSets, Within
  <2> QED
    BY <1>1, <1>c, <1>d, <1>w, <2>1, ThreadSets DEF Fits, Threads
<1>2. ASSUME WorkerFree, NEW t \in Tasks, BusyTasks' \subseteq BusyTasks \cup {t},
             BusyListeners' \subseteq BusyListeners, CleanerBusy' => CleanerBusy
      PROVE  Fits'
  <2>1. /\ Cardinality(BusyTasks') \in Nat
        /\ Cardinality(BusyTasks') <= Cardinality(BusyTasks) + 1
    BY <1>2, ThreadSets, WithinOneMore
  <2>2. /\ Cardinality(BusyListeners') \in Nat
        /\ Cardinality(BusyListeners') <= Cardinality(BusyListeners)
    BY <1>2, ThreadSets, Within
  <2> QED
    BY <1>2, <1>c, <1>d, <1>w, <2>1, <2>2, ThreadSets DEF Threads
<1>3. ASSUME WorkerFree, NEW s \in Sessions, BusyTasks' \subseteq BusyTasks,
             BusyListeners' \subseteq BusyListeners \cup {s},
             CleanerBusy' => CleanerBusy
      PROVE  Fits'
  <2>1. /\ Cardinality(BusyListeners') \in Nat
        /\ Cardinality(BusyListeners') <= Cardinality(BusyListeners) + 1
    BY <1>3, ThreadSets, WithinOneMore
  <2>2. /\ Cardinality(BusyTasks') \in Nat
        /\ Cardinality(BusyTasks') <= Cardinality(BusyTasks)
    BY <1>3, ThreadSets, Within
  <2> QED
    BY <1>3, <1>c, <1>d, <1>w, <2>1, <2>2, ThreadSets DEF Threads
<1>4. ASSUME WorkerFree, ~CleanerBusy, BusyTasks' \subseteq BusyTasks,
             BusyListeners' \subseteq BusyListeners
      PROVE  Fits'
  <2>1. /\ Cardinality(BusyTasks') \in Nat
        /\ Cardinality(BusyTasks') <= Cardinality(BusyTasks)
        /\ Cardinality(BusyListeners') \in Nat
        /\ Cardinality(BusyListeners') <= Cardinality(BusyListeners)
    BY <1>4, ThreadSets, Within
  <2>2. Count(CleanerBusy) = 0
    BY <1>4 DEF Count
  <2> QED
    BY <1>4, <1>c, <1>d, <1>w, <2>1, <2>2, ThreadSets DEF Threads
<1>5. ASSUME NEW t \in Tasks, TaskStep(t) \/ Receive(t)
      PROVE  Fits'
  <2>1. /\ UNCHANGED <<cleaner, unchecked>>
        /\ \A s \in Sessions : listener'[s] \in {"remove", "count"}
                                 => listener[s] \in {"remove", "count"}
    BY <1>5 DEF TaskStep, Receive, Lookup, CheckExpired, Create, CreateFails,
       Insert, CountCreated, Touch, Forward
  <2>2. BusyListeners' \subseteq BusyListeners /\ (CleanerBusy' => CleanerBusy)
    BY <2>1 DEF BusyListeners, CleanerBusy
  <2>3. CASE CheckExpired(t) \/ Create(t)
    <3>1. WorkerFree /\ BusyTasks' \subseteq BusyTasks \cup {t}
      BY <2>3 DEF CheckExpired, Create, BusyTasks
    <3> QED
      BY <1>2, <2>2, <3>1
  <2>4. CASE \/ Receive(t) \/ Lookup(t) \/ CreateFails(t) \/ Insert(t)
             \/ CountCreated(t) \/ Touch(t) \/ Forward(t)
    <3>1. BusyTasks' \subseteq BusyTasks
      BY <2>4 DEF Receive, Lookup, CreateFails, Insert, CountCreated, Touch,
         Forward, Finish, BusyTasks
    <3> QED
      BY <1>1, <2>2, <3>1
  <2> QED
    BY <1>5, <2>3, <2>4 DEF TaskStep
<1>6. ASSUME NEW s \in Sessions, ListenerStep(s) \/ ListenerRecv(s)
      PROVE  Fits'
  <2>1. UNCHANGED <<pc, cleaner, unchecked>>
    BY <1>6 DEF ListenerStep, ListenerRecv, ListenerSend, ListenerCheck,
       ListenerRemove, ListenerCount, ListenerGoto
  <2>2. BusyTasks' \subseteq BusyTasks /\ (CleanerBusy' => CleanerBusy)
    BY <2>1 DEF BusyTasks, CleanerBusy
  <2>3. CASE ListenerCheck(s)
    <3>1. WorkerFree /\ BusyListeners' \subseteq BusyListeners \cup {s}
      BY <2>3 DEF ListenerCheck, ListenerGoto, BusyListeners
    <3> QED
      BY <1>3, <2>2, <3>1
  <2>4. CASE ListenerRecv(s) \/ ListenerSend(s) \/ ListenerRemove(s) \/ ListenerCount(s)
    <3>1. BusyListeners' \subseteq BusyListeners
      BY <2>4 DEF ListenerRecv, ListenerSend, ListenerRemove, ListenerCount,
         ListenerGoto, BusyListeners
    <3> QED
      BY <1>1, <2>2, <3>1
  <2> QED
    BY <1>6, <2>3, <2>4 DEF ListenerStep
<1>7. CASE CleanupStep
  <2>1. UNCHANGED <<pc, listener>>
    BY <1>7 DEF CleanupStep, CleanupStart, CleanupNextShard, CleanupCheck,
       CleanupRemove, CleanupCount, CleanupEnd
  <2>2. BusyTasks' \subseteq BusyTasks /\ BusyListeners' \subseteq BusyListeners
    BY <2>1 DEF BusyTasks, BusyListeners
  <2>3. CASE CleanupStart \/ \E c \in Clients : CleanupCheck(c)
    <3>1. WorkerFree /\ ~CleanerBusy
      BY <2>3 DEF CleanupStart, CleanupCheck, CleanerBusy
    <3> QED
      BY <1>4, <2>2, <3>1
  <2>4. CASE \/ CleanupNextShard \/ CleanupCount \/ CleanupEnd
             \/ \E c \in Clients : CleanupRemove(c)
    <3>1. CleanerBusy
      BY <2>4 DEF CleanupNextShard, CleanupCount, CleanupEnd, CleanupRemove,
         CleanerBusy
    <3> QED
      BY <1>1, <2>2, <3>1
  <2> QED
    BY <1>7, <2>3, <2>4 DEF CleanupStep
<1>8. CASE Shutdown \/ Clear \/ (\E s \in Sessions : Expire(s)) \/ UNCHANGED vars
  <2>1. UNCHANGED <<pc, listener, cleaner, unchecked>>
    BY <1>8 DEF Shutdown, Clear, Expire, vars
  <2> QED
    BY <1>1, <2>1 DEF BusyTasks, BusyListeners, CleanerBusy
<1> QED
  BY <1>5, <1>6, <1>7, <1>8 DEF Next

LEMMA FitsInvariant == Spec => []Fits
<1>1. Init => Fits
  <2> SUFFICES ASSUME Init
               PROVE  Fits
    OBVIOUS
  <2>1. BusyTasks = {} /\ BusyListeners = {} /\ ~CleanerBusy
    BY DEF Init, BusyTasks, BusyListeners, CleanerBusy
  <2> QED
    BY <2>1, FS_EmptySet, NumbersAssumption DEF Fits, Threads, Count
<1> QED
  BY <1>1, FitsNext, Typing, PTL DEF Spec

\* If every worker waits for a lock, whoever has a worker waits.
LEMMA AllBlocked ==
  ASSUME TypeOK, Fits, Starved
  PROVE  /\ ~WorkerFree
         /\ BusyTasks = BlockedTasks /\ BusyListeners = BlockedListeners
         /\ CleanerBusy <=> CleanerBlocked
<1>1. /\ BlockedTasks \subseteq BusyTasks /\ BlockedListeners \subseteq BusyListeners
      /\ CleanerBlocked => CleanerBusy
  BY DEF BlockedTasks, BusyTasks, BlockedListeners, BusyListeners, CleanerBlocked,
     CleanerBusy
<1>2. /\ Cardinality(BlockedTasks) \in Nat /\ Cardinality(BlockedListeners) \in Nat
      /\ Cardinality(BlockedTasks) <= Cardinality(BusyTasks)
      /\ Cardinality(BlockedListeners) <= Cardinality(BusyListeners)
  BY <1>1, ThreadSets, Within
<1>3. /\ Count(CleanerBlocked) \in {0, 1}
      /\ Count(CleanerBlocked) <= Count(CleanerBusy)
  BY <1>1 DEF Count
<1>4. /\ Cardinality(BlockedTasks) + Cardinality(BlockedListeners)
           + Count(CleanerBlocked) >= Workers
      /\ Cardinality(BusyTasks) + Cardinality(BusyListeners)
           + Count(CleanerBusy) <= Workers
      /\ Workers \in Nat
  BY NumbersAssumption DEF Starved, Fits, Threads
<1>5. /\ Cardinality(BusyTasks) = Cardinality(BlockedTasks)
      /\ Cardinality(BusyListeners) = Cardinality(BlockedListeners)
      /\ Count(CleanerBusy) = Count(CleanerBlocked)
      /\ ~(Cardinality(BusyTasks) + Cardinality(BusyListeners)
             + Count(CleanerBusy) < Workers)
  BY <1>2, <1>3, <1>4, ThreadSets
<1>6. BusyTasks = BlockedTasks /\ BusyListeners = BlockedListeners
  BY <1>1, <1>5, ThreadSets, FS_Subset
<1>7. CleanerBusy <=> CleanerBlocked
  BY <1>1, <1>5 DEF Count
<1> QED
  BY <1>5, <1>6, <1>7 DEF WorkerFree

\* No packet task, no listener and no cleanup takes a step.
StandStill ==
  /\ \A t \in Tasks : pc[t] # "idle" => pc'[t] = pc[t]
  /\ UNCHANGED <<listener, cleanerVars, metricVars>>

\* Once every worker waits for a write lock of the map the instance stands
\* still for good: whoever could give a lock back, the cleanup at the await in
\* its scan (udp.rs:293) or a packet task at the one in its lookup, needs a
\* worker to go on.  The receive loop still accepts packets, and shutdown may
\* clear shards that nobody has locked.
THEOREM StarvationIsFinal == Spec => [][Starved => Starved' /\ StandStill]_vars
<1>1. TypeOK /\ Fits /\ [Next]_vars => [Starved => Starved' /\ StandStill]_vars
  <2> SUFFICES ASSUME TypeOK, Fits, Next, Starved
               PROVE  Starved' /\ StandStill
    OBVIOUS
  <2> USE DEF TypeOK
  <2>b. /\ ~WorkerFree
        /\ BusyTasks = BlockedTasks /\ BusyListeners = BlockedListeners
        /\ CleanerBusy <=> CleanerBlocked
    BY AllBlocked
  <2>1. ASSUME NEW t \in Tasks, TaskStep(t)
        PROVE  FALSE
    <3>1. Insert(t) \/ CountCreated(t)
      BY <2>1, <2>b DEF TaskStep, Lookup, CheckExpired, Create, CreateFails,
         Touch, Forward
    <3>2. t \in BusyTasks /\ t \notin BlockedTasks
      BY <3>1 DEF Insert, CountCreated, BusyTasks, BlockedTasks
    <3> QED
      BY <2>b, <3>2
  <2>2. ASSUME NEW s \in Sessions, ListenerStep(s) \/ ListenerRecv(s)
        PROVE  FALSE
    <3>1. ListenerRemove(s) \/ ListenerCount(s)
      BY <2>2, <2>b DEF ListenerStep, ListenerRecv, ListenerSend, ListenerCheck
    <3>2. s \in BusyListeners /\ s \notin BlockedListeners
      BY <3>1 DEF ListenerRemove, ListenerCount, BusyListeners, BlockedListeners
    <3> QED
      BY <2>b, <3>2
  <2>3. ~CleanupStep
    <3>1. SUFFICES ASSUME CleanupStep
                   PROVE  FALSE
      OBVIOUS
    <3>2. \/ CleanupNextShard \/ CleanupCount \/ CleanupEnd
          \/ \E c \in Clients : CleanupRemove(c)
      BY <2>b, <3>1 DEF CleanupStep, CleanupStart, CleanupCheck
    <3>3. CleanerBusy
      BY <3>2 DEF CleanupNextShard, CleanupCount, CleanupEnd, CleanupRemove,
         CleanerBusy
    <3>4. CASE CleanupNextShard \/ CleanupCount \/ CleanupEnd
      <4>1. ~CleanerBlocked
        BY <3>4 DEF CleanupNextShard, CleanupCount, CleanupEnd, CleanerBlocked,
           FirstExpired
      <4> QED
        BY <2>b, <3>3, <4>1
    <3>5. ASSUME NEW c \in Clients, CleanupRemove(c)
          PROVE  FALSE
      <4>1. PICK d \in FirstExpired : Guarded(ShardOf[d])
        BY <2>b, <3>3 DEF CleanerBlocked
      <4>2. c \in FirstExpired /\ ~Guarded(ShardOf[c])
        BY <3>5 DEF CleanupRemove
      <4>3. c \in Clients /\ d \in Clients
            /\ ShardOf[c] <= ShardOf[d] /\ ShardOf[d] <= ShardOf[c]
        BY <4>1, <4>2 DEF FirstExpired
      <4>4. ShardOf[c] \in Nat /\ ShardOf[d] \in Nat
        BY <4>3, Numbers
      <4> QED
        BY <4>1, <4>2, <4>3, <4>4
    <3> QED
      BY <3>2, <3>4, <3>5
  <2>4. ASSUME NEW t \in Tasks, Receive(t)
        PROVE  Starved' /\ StandStill
    <3>1. /\ pc[t] = "idle" /\ pc' = [pc EXCEPT ![t] = "lookup"]
          /\ \A q \in Tasks \ {t} : client'[q] = client[q]
          /\ UNCHANGED <<listener, owner, cleanerVars, metricVars>>
      BY <2>4 DEF Receive
    <3>2. \A shard : Guarded(shard)' <=> Guarded(shard)
      BY <3>1 DEF Guarded
    <3>3. BlockedTasks' = BlockedTasks
      BY <3>1, <3>2 DEF BlockedTasks
    <3>4. BlockedListeners' = BlockedListeners /\ (CleanerBlocked' <=> CleanerBlocked)
      BY <3>1, <3>2 DEF BlockedListeners, CleanerBlocked, FirstExpired
    <3>5. Starved'
      BY <3>3, <3>4 DEF Starved, Count
    <3> QED
      BY <3>1, <3>5 DEF StandStill
  <2>5. CASE Shutdown \/ Clear \/ \E s \in Sessions : Expire(s)
    <3>1. UNCHANGED <<pc, client, listener, owner, cleanerVars, metricVars>>
      BY <2>5 DEF Shutdown, Clear, Expire
    <3> QED
      BY <3>1 DEF StandStill, Starved, BlockedTasks, BlockedListeners,
         CleanerBlocked, FirstExpired, Guarded, Count
  <2> QED
    BY <2>1, <2>2, <2>3, <2>4, <2>5 DEF Next
<1> QED
  BY <1>1, Typing, FitsInvariant, PTL DEF Spec
=============================================================================
