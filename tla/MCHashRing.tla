----------------------------- MODULE MCHashRing ------------------------------
(* Two updaters and a selector; lists that grow, shrink and swap two upstreams
   whose virtual nodes interleave and share the point 4; beyond it a key wraps. *)
EXTENDS HashRing, TLC

CONSTANTS u1, u2, s1, A, B

MCUpdaters == {u1, u2}
MCSelectors == {s1}
MCNames == {A, B}
MCLists == {<<A>>, <<B, A>>}
MCVNodes == (A :> {1, 4}) @@ (B :> {3, 4})
MCKeys == {2, 5}
=============================================================================
