----------------------------- MODULE MCTcpProxy ------------------------------
(* Client connections and two upstreams; A is first in the list. *)
EXTENDS TcpProxy, TLC

CONSTANTS c1, c2, A, B

MCUpstreams == <<A, B>>
MCConns == {c1, c2}
=============================================================================
