------------------------------ MODULE MCBridge ------------------------------
(* Instances of Bridge for TLC: one room of a good and a Vial, or two rooms. *)
EXTENDS Bridge

Good == "good"
OneRoom == {"a"}
TwoRooms == {"a", "b"}
BothKinds == {"good", "vial"}
GoodOnly == {"good"}
VialOnly == {"vial"}
Nothing == {}

TwoItems == [s \in OneRoom |-> <<"good", "vial">>]
TwoGoods == [s \in OneRoom |-> <<"good", "good">>]
OneEach == [s \in TwoRooms |-> <<"good">>]

HoldsBoth == [k \in BothKinds |-> 1]
HoldsVial == [good |-> 0, vial |-> 1]
HoldsGood == [good |-> 1, vial |-> 0]

ClientPlaces == {"idle", "looked", "send", "wait", "ack", "count", "store"}
AnyClientPlace == ClientPlaces \cup {"off"}
NotBetweenLooks == AnyClientPlace \ {"looked"}
NotInFiles == AnyClientPlace \ {"looked", "send"}
NotInReceipt == ClientPlaces \ {"store"}
TablePlaces == {"off", "failed", "poll", "command", "write", "verify", "arm", "active",
                "remove"}
NotUnverified == TablePlaces \ {"verify"}
BetweenPolls == {"off", "poll", "active"}
=============================================================================
