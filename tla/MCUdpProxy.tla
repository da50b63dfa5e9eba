----------------------------- MODULE MCUdpProxy ------------------------------
(* One client, whose packets overlap; its shard is the only one of the map, or
   the second, which the iterator reaches from an empty one. *)
EXTENDS UdpProxy, TLC

CONSTANTS a, p1, p2

MCClients == {a}
MCTasks == {p1, p2}
MCOneTask == {p1}
MCFirstShard == [c \in Clients |-> 1]
MCSecondShard == [c \in Clients |-> 2]
Symmetry == Permutations(Tasks)
=============================================================================
