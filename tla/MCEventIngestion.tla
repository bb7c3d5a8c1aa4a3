-------------------------- MODULE MCEventIngestion --------------------------
(* Small instances of EventIngestion.                                      *)
EXTENDS EventIngestion, TLC

CONSTANTS m1, m2, a1, a2, x1

(* One record, or two of which the second may spoil the first.              *)
SmallBatches == {<<m1>>, <<m1, m2>>, <<a1>>, <<a2, a1>>, <<x1, a1>>}

StormBatches == {<<a1>>, <<a2>>}

Symmetry == Permutations(Requests)
=============================================================================
