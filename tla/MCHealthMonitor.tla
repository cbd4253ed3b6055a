--------------------------- MODULE MCHealthMonitor ---------------------------
(* HealthMonitor for TLC: the GPUs do not depend on each other.            *)
EXTENDS HealthMonitor

CONSTANT g1
OneGPU == {g1}
=============================================================================
