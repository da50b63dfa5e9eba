-------------------------------- MODULE Relay ---------------------------------
(***************************************************************************)
(* What a TCP connection through the proxy promises its two peers, without *)
(* buffers, reads or writes: each direction passes on the bytes its sender *)
(* sent, in order, and the connection is over when one direction has       *)
(* passed on everything up to the end of file, or when a peer broke.       *)
(* TcpStream is shown to implement it.                                     *)
(*                                                                         *)
(* The i-th byte of a direction is the number i.                           *)
(***************************************************************************)
EXTENDS Integers, Sequences

CONSTANTS MaxBytes      \* bound: bytes sent in each direction

Directions == {"up", "down"}
Peers == {"client", "upstream"}

Sender(d) == IF d = "up" THEN "client" ELSE "upstream"

VARIABLES
    sent, closed,       \* per direction: bytes sent, and has its sender
                        \* shut down its side after them?
    broken,             \* peers whose connection was reset
    delivered,          \* per direction: what was written to the receiver
    result              \* how the connection ended

vars == <<sent, closed, broken, delivered, result>>

Init ==
    /\ sent = [d \in Directions |-> 0]
    /\ closed = [d \in Directions |-> FALSE]
    /\ broken = {}
    /\ delivered = [d \in Directions |-> <<>>]
    /\ result = "none"

Send(d) ==
    /\ ~closed[d] /\ Sender(d) \notin broken
    /\ sent[d] < MaxBytes
    /\ sent' = [sent EXCEPT ![d] = @ + 1]
    /\ UNCHANGED <<closed, broken, delivered, result>>

Close(d) ==
    /\ closed' = [closed EXCEPT ![d] = TRUE]
    /\ UNCHANGED <<sent, broken, delivered, result>>

Break(p) ==
    /\ broken' = broken \cup {p}
    /\ UNCHANGED <<sent, closed, delivered, result>>

\* The next bytes of the direction, as many as have been sent at most.
Deliver(d) ==
    /\ result = "none"
    /\ \E upto \in Len(delivered[d]) + 1 .. sent[d] :
          delivered' = [delivered EXCEPT ![d] = [i \in 1 .. upto |-> i]]
    /\ UNCHANGED <<sent, closed, broken, result>>

EndOk ==
    /\ result = "none"
    /\ \E d \in Directions : closed[d] /\ Len(delivered[d]) = sent[d]
    /\ result' = "ok"
    /\ UNCHANGED <<sent, closed, broken, delivered>>

EndErr ==
    /\ result = "none"
    /\ broken # {}
    /\ result' = "err"
    /\ UNCHANGED <<sent, closed, broken, delivered>>

Next ==
    \/ \E d \in Directions : Send(d) \/ Close(d) \/ Deliver(d)
    \/ \E p \in Peers : Break(p)
    \/ EndOk \/ EndErr

Spec == Init /\ [][Next]_vars
=============================================================================
