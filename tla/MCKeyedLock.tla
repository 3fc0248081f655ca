----------------------------- MODULE MCKeyedLock -----------------------------
(* Instances of KeyedLock for TLC. *)
EXTENDS KeyedLock, TLC

CONSTANTS k1, k2, c1, c2, c3, o1, o2, o3

OneKey == {k1}
TwoKeys == {k1, k2}
ThreeCallers == {c1, c2, c3}
ThreeStates == {o1, o2, o3}
==============================================================================
