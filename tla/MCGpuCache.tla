----------------------------- MODULE MCGpuCache -----------------------------
(* GpuCache for TLC: two callers race for the lock around an expiry.       *)
EXTENDS GpuCache

CONSTANTS c1, c2
TwoCallers == {c1, c2}
=============================================================================
