---------------------------- MODULE MCRocProfiler ----------------------------
(* RocProfiler for TLC: two overlapping scrapes.                           *)
EXTENDS RocProfiler

CONSTANTS c1, c2
TwoCallers == {c1, c2}
=============================================================================
