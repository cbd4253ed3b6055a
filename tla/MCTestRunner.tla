---------------------------- MODULE MCTestRunner ----------------------------
(* TestRunner for TLC.  Two testGPU goroutines are enough for one to save  *)
(* a stale copy of what the other changed; one crash reaches every         *)
(* recovery path.  The first DB may hold a KFD id and the id of a          *)
(* partition that is gone.                                                 *)
EXTENDS TestRunner, TLC

CONSTANTS g1, g2, t1, t2, kfd1, gone
TwoGPUs == {g1, g2}
OneGPU == {g1}
OneKFD == {kfd1}
IndexOfKFD == [k \in OneKFD |-> g1]
OldIDs == {g1, kfd1, gone}
NoKFD == {}
NoIndex == [k \in NoKFD |-> k]
AnyDisk == {"good", "bad"}
GoodDisk == {"good"}
OneSlot == {t1}
TwoSlots == {t1, t2}
Sym == Permutations(TwoGPUs) \cup Permutations(TwoSlots)
=============================================================================
