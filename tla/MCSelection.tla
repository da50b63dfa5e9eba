----------------------------- MODULE MCSelection ------------------------------
(* Two selecting tasks and two upstreams, the first of weight 0. *)
EXTENDS Selection, TLC

CONSTANTS s1, s2

MCTasks == {s1, s2}
MCWeight == <<0, 2>>
Symmetry == Permutations(MCTasks)
=============================================================================
