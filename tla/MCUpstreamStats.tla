--------------------------- MODULE MCUpstreamStats ---------------------------
(* Two recording tasks and one reader on one upstream's statistics. *)
EXTENDS UpstreamStats, TLC

CONSTANTS t1, t2, r1

MCTasks == {t1, t2}
MCReaders == {r1}
MCSamples == {5, 21}
Symmetry == Permutations(MCTasks)
=============================================================================
