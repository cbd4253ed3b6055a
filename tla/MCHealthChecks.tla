--------------------------- MODULE MCHealthChecks ---------------------------
(* HealthChecks with one GPU, alone or next to a device that the agent no  *)
(* longer lists.                                                           *)
EXTENDS HealthChecks

CONSTANTS g1, gone, f1

OneGPU     == {g1}
TwoDevices == {g1, gone}
OneField   == {f1}
TwoCounts  == {0, 1}
SomeCounts == {0, 1, 255}    \* 255: all ones in 8 bits
Sentinels  == {255, 65535}   \* the 32 and 64 bit ones are beyond TLC's integers
ZeroThreshold == [f \in OneField |-> 0]
=============================================================================
