-------------------------- MODULE MCMetricsRegistry ---------------------------
(* Two writers, an exporter and a checker on two names. *)
EXTENDS MetricsRegistry, TLC

CONSTANTS w1, w2, e1, c1, A, B

MCNames == {A, B}
MCWriters == {w1, w2}
MCExporters == {e1}
MCCheckers == {c1}
Symmetry == Permutations(MCNames) \cup Permutations(MCWriters)
=============================================================================
