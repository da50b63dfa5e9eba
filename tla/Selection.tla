------------------------------ MODULE Selection -------------------------------
(***************************************************************************)
(* Round-robin and weighted round-robin selection of routing.rs.  Both     *)
(* take the upstreams that are available, weighted selection as many times *)
(* as their weight says, advance a counter they share with every other     *)
(* selection and take the candidate it points to.  Round-robin is weighted *)
(* selection with every weight 1.                                          *)
(*                                                                         *)
(* A step reads one upstream's health state, or advances the counter: the  *)
(* health states change while a selection reads them, and selections of    *)
(* different tasks draw from the counter in any order.                     *)
(*                                                                         *)
(* The module models the same source file as HashRing and is extended      *)
(* beside it, so its names are none of HashRing's.                         *)
(***************************************************************************)
EXTENDS Integers, Sequences, FiniteSets

CONSTANTS
    Tasks,           \* tasks that select an upstream
    weight,          \* the configured weights of the upstreams, in order
    MaxWeight,       \* the largest weight: 2^32 - 1, a u32, in the code
    CounterValues,   \* numbers the counter holds: 2^64, a usize, in the code
    MaxPicks,        \* bound: selections in a behaviour
    MaxChanges       \* bound: changes of a health state

ASSUME WeightAssumption ==
    /\ MaxWeight \in Nat \ {0}
    /\ weight \in Seq(0 .. MaxWeight)
    /\ Len(weight) > 0
\* A list of candidates has fewer entries than the counter has values.
ASSUME WidthAssumption ==
    /\ CounterValues \in Nat
    /\ Len(weight) * MaxWeight <= CounterValues
ASSUME BoundsAssumption == MaxPicks \in Nat /\ MaxChanges \in Nat

U == 1 .. Len(weight)     \* upstreams by position; 0 stands for None

VARIABLES
    available,            \* upstreams whose is_available() is true
    rr_counter,
    phase, cursor,        \* each selection: where it is, its next upstream,
    candidates,           \* what it has collected,
    choice,               \* and what it returned
    seen, missed,         \* history: upstreams that were available, or not,
                          \* at some moment of the selection
    drawn,                \* history: <<counter, candidates, choice>> of each
                          \* selection that advanced the counter, in order
    changes               \* changes of health so far

selectionVars == <<available, rr_counter, phase, cursor, candidates, choice, seen,
                   missed, drawn, changes>>

SelectionInit ==
    /\ available = U      \* new upstreams are Unknown, which is available
    /\ rr_counter = 0
    /\ phase = [s \in Tasks |-> "idle"]
    /\ cursor = [s \in Tasks |-> 1]
    /\ candidates = [s \in Tasks |-> <<>>]
    /\ choice = [s \in Tasks |-> 0]
    /\ seen = [s \in Tasks |-> {}]
    /\ missed = [s \in Tasks |-> {}]
    /\ drawn = <<>>
    /\ changes = 0

Begun == Cardinality({s \in Tasks : phase[s] # "idle"})

Begin(s) ==
    /\ phase[s] = "idle"
    /\ Len(drawn) + Begun < MaxPicks
    /\ phase' = [phase EXCEPT ![s] = "filter"]
    /\ cursor' = [cursor EXCEPT ![s] = 1]
    /\ candidates' = [candidates EXCEPT ![s] = <<>>]
    /\ seen' = [seen EXCEPT ![s] = available]
    /\ missed' = [missed EXCEPT ![s] = U \ available]
    /\ UNCHANGED <<available, rr_counter, choice, drawn, changes>>

\* weight.max(1)
Times(u) == IF weight[u] = 0 THEN 1 ELSE weight[u]

\* Faulty: an upstream of weight 0 gets no copy.
CopiesUnclamped(u) == [i \in 1 .. weight[u] |-> u]

Copies(u) == [i \in 1 .. Times(u) |-> u]

Filter(s) ==
    /\ phase[s] = "filter"
    /\ cursor[s] \in U
    /\ candidates' = [candidates EXCEPT ![s] =
                         IF cursor[s] \in available THEN @ \o Copies(cursor[s]) ELSE @]
    /\ cursor' = [cursor EXCEPT ![s] = @ + 1]
    /\ UNCHANGED <<available, rr_counter, phase, choice, seen, missed, drawn, changes>>

NoneAvailable(s) ==
    /\ phase[s] = "filter"
    /\ cursor[s] \notin U
    /\ candidates[s] = <<>>
    /\ choice' = [choice EXCEPT ![s] = 0]
    /\ phase' = [phase EXCEPT ![s] = "returned"]
    /\ UNCHANGED <<available, rr_counter, cursor, candidates, seen, missed,
                   drawn, changes>>

\* The candidate the counter points to.
At(counter, list) == list[(counter % Len(list)) + 1]

\* Faulty: the counter is loaded, and stored by whoever comes last.
DrawLost(s) ==
    /\ phase[s] = "filter"
    /\ cursor[s] \notin U
    /\ candidates[s] # <<>>
    /\ choice' = [choice EXCEPT ![s] = At(rr_counter, candidates[s])]
    /\ drawn' = Append(drawn, <<rr_counter, candidates[s], choice'[s]>>)
    /\ rr_counter' = IF \E t \in Tasks \ {s} : phase[t] = "filter"
                     THEN rr_counter ELSE (rr_counter + 1) % CounterValues
    /\ phase' = [phase EXCEPT ![s] = "returned"]
    /\ UNCHANGED <<available, cursor, candidates, seen, missed, changes>>

\* Faulty: the counter is taken for one that never wraps.
DrawUnwrapped(s) ==
    /\ phase[s] = "filter"
    /\ cursor[s] \notin U
    /\ candidates[s] # <<>>
    /\ choice' = [choice EXCEPT ![s] = At(rr_counter, candidates[s])]
    /\ drawn' = Append(drawn, <<rr_counter, candidates[s], choice'[s]>>)
    /\ rr_counter' = rr_counter + 1
    /\ phase' = [phase EXCEPT ![s] = "returned"]
    /\ UNCHANGED <<available, cursor, candidates, seen, missed, changes>>

\* fetch_add and the remainder.
Draw(s) ==
    /\ phase[s] = "filter"
    /\ cursor[s] \notin U
    /\ candidates[s] # <<>>
    /\ choice' = [choice EXCEPT ![s] = At(rr_counter, candidates[s])]
    /\ drawn' = Append(drawn, <<rr_counter, candidates[s], choice'[s]>>)
    /\ rr_counter' = (rr_counter + 1) % CounterValues
    /\ phase' = [phase EXCEPT ![s] = "returned"]
    /\ UNCHANGED <<available, cursor, candidates, seen, missed, changes>>

Return(s) ==
    /\ phase[s] = "returned"
    /\ phase' = [phase EXCEPT ![s] = "idle"]
    /\ UNCHANGED <<available, rr_counter, cursor, candidates, choice, seen,
                   missed, drawn, changes>>

\* update_upstream_health, called from outside.
ChangeHealth(u) ==
    /\ changes < MaxChanges
    /\ available' = IF u \in available THEN available \ {u} ELSE available \cup {u}
    /\ seen' = [s \in Tasks |-> seen[s] \cup
                  (IF phase[s] = "filter" THEN available' ELSE {})]
    /\ missed' = [s \in Tasks |-> missed[s] \cup
                    (IF phase[s] = "filter" THEN U \ available' ELSE {})]
    /\ changes' = changes + 1
    /\ UNCHANGED <<rr_counter, phase, cursor, candidates, choice, drawn>>

SelectionNext ==
    \/ \E s \in Tasks : Begin(s) \/ Filter(s) \/ NoneAvailable(s) \/ Draw(s) \/ Return(s)
    \/ \E u \in U : ChangeHealth(u)

SelectionSpec == SelectionInit /\ [][SelectionNext]_selectionVars

-----------------------------------------------------------------------------
(* Properties *)

\* Types of the counter and of the selections' state: the counter wraps, and a
\* draw is of an upstream.
SelectionTypeOK ==
    /\ available \subseteq U
    /\ rr_counter \in 0 .. CounterValues - 1
    /\ phase \in [Tasks -> {"idle", "filter", "returned"}]
    /\ cursor \in [Tasks -> 1 .. Len(weight) + 1]
    /\ candidates \in [Tasks -> Seq(U)]
    /\ choice \in [Tasks -> {0} \cup U]
    /\ seen \in [Tasks -> SUBSET U] /\ missed \in [Tasks -> SUBSET U]
    /\ drawn \in Seq((0 .. CounterValues - 1) \X Seq(U) \X U)
    /\ changes \in 0 .. MaxChanges

\* A selection returns an upstream that was available at some moment while it
\* ran, and None only if every upstream was unavailable at some moment while
\* it ran, however health changes between its reads.
ChoiceWasAvailable ==
    \A s \in Tasks : phase[s] = "returned" =>
        IF choice[s] = 0 THEN missed[s] = U ELSE choice[s] \in seen[s]

\* A run of selections that all had the candidates list, one full turn long.
Turn(first, list) ==
    /\ first + Len(list) - 1 <= Len(drawn)
    /\ \A i \in first .. first + Len(list) - 1 : drawn[i][2] = list
Wraps(first, list) == drawn[first + Len(list) - 1][1] < drawn[first][1]
Share(u, first, list) ==
    Cardinality({i \in first .. first + Len(list) - 1 : drawn[i][3] = u})

\* Whatever tasks they belong to, as many consecutive selections as there are
\* candidates take each upstream as often as its weight says.  The exception
\* is a turn during which the counter wraps, unless the number of candidates
\* divides that of the counter's values: the rotation then starts afresh in its
\* middle, and nobody is served more than twice its share even so.
TurnsAreFair ==
    \A first \in 1 .. Len(drawn), u \in U :
       LET list == drawn[first][2]
           share == Share(u, first, list)
           due == IF \E i \in DOMAIN list : list[i] = u THEN Times(u) ELSE 0
       IN  Turn(first, list) =>
              /\ share <= 2 * due
              /\ share # due => /\ Wraps(first, list)
                                /\ CounterValues % Len(list) # 0
=============================================================================
