---------------------------- MODULE MCDeliveryGate ----------------------------
(* Instances of DeliveryGate for TLC. *)
EXTENDS DeliveryGate, TLC

CONSTANTS s1, s2

OneSocket == {s1}
TwoSockets == {s1, s2}
SocketSymmetry == Permutations(Sockets)
=============================================================================
