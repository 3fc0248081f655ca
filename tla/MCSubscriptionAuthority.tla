----------------------- MODULE MCSubscriptionAuthority -----------------------
(* Instances of SubscriptionAuthority for TLC: a plain topic and one inside a *)
(* plugin-owned namespace, and two or three attempts of interchangeable names.*)
EXTENDS SubscriptionAuthority, TLC

CONSTANTS room, owned, a1, a2, a3

TwoTopics == {room, owned}
OneTopic == {room}
OwnedOnly == {owned}
TwoAttempts == {a1, a2}
ThreeAttempts == {a1, a2, a3}
EveryLane == AllLanes
ServerAndBatch == {"server", "batchRecover"}
DerivedOnly == {"derived"}
Deciding == {"decides"}
AttemptSymmetry == Permutations(Attempts)
=============================================================================
