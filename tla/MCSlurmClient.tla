---------------------------- MODULE MCSlurmClient ----------------------------
(* Instances of SlurmClient for TLC.                                       *)
EXTENDS SlurmClient

TwoGPUs == 0..1
SomeJobs == {"both", "again", "first"}
TheirGPUs == [j \in SomeJobs |-> IF j = "first" THEN {0} ELSE {0, 1}]
=============================================================================
