--------------------------- MODULE MCCounterSampler ---------------------------
(* Instances of CounterSampler for TLC.                                    *)
EXTENDS CounterSampler

SomeCounters == 1..3
SomeRequests == {<<3, 1, 2>>, <<2, 1, 2>>, <<>>}
BasicFields  == <<2, 1>>
=============================================================================
