----------------------------- MODULE MCKeyedQueue -----------------------------
(* Instances of KeyedQueue for TLC. *)
EXTENDS KeyedQueue, TLC

CONSTANTS k1, k2, k3, t1, t2, t3, t4, t5

TwoKeys == {k1, k2}
ThreeKeys == {k1, k2, k3}
FourTasks == {t1, t2, t3, t4}
FiveTasks == {t1, t2, t3, t4, t5}
==============================================================================
