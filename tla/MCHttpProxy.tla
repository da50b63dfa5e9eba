----------------------------- MODULE MCHttpProxy -----------------------------
(* Concurrent requests to two upstreams of different weight, or one to one. *)
EXTENDS HttpProxy, TLC

CONSTANTS r1, r2, r3

MCRequests == {r1, r2, r3}
MCOneRequest == {r1}
MCOne == <<1>>
MCTwo == <<1, 2>>
=============================================================================
