-------------------------------- MODULE Tally ---------------------------------
(***************************************************************************)
(* What the statistics of an upstream promise, without tasks and without   *)
(* races: a request is begun once and settled once, as a response or as a  *)
(* failure, and a reader reports all the responses there are over no more  *)
(* requests than were begun.  UpstreamStats is shown to implement it.      *)
(***************************************************************************)
EXTENDS Integers

CONSTANTS Readers

VARIABLES
    requests_sent, responses_received, failures,
    pending,        \* requests begun and not settled
    rate            \* <<numerator, denominator>> each reader last returned

vars == <<requests_sent, responses_received, failures, pending, rate>>

Healthy == <<1, 1>>

Init ==
    /\ requests_sent = 0 /\ responses_received = 0 /\ failures = 0
    /\ pending = 0
    /\ rate = [r \in Readers |-> Healthy]

Begin ==
    /\ requests_sent' = requests_sent + 1
    /\ pending' = pending + 1
    /\ UNCHANGED <<responses_received, failures, rate>>

SettleResponse ==
    /\ pending > 0
    /\ pending' = pending - 1
    /\ responses_received' = responses_received + 1
    /\ UNCHANGED <<requests_sent, failures, rate>>

SettleFailure ==
    /\ pending > 0
    /\ pending' = pending - 1
    /\ failures' = failures + 1
    /\ UNCHANGED <<requests_sent, responses_received, rate>>

\* "No requests yet" is reported only while there are none.
Report(r) ==
    /\ \/ /\ requests_sent = 0
          /\ rate' = [rate EXCEPT ![r] = Healthy]
       \/ \E seen \in 1 .. requests_sent :
             rate' = [rate EXCEPT ![r] = <<responses_received, seen>>]
    /\ UNCHANGED <<requests_sent, responses_received, failures, pending>>

Next ==
    \/ Begin \/ SettleResponse \/ SettleFailure
    \/ \E r \in Readers : Report(r)

Spec == Init /\ [][Next]_vars
=============================================================================
