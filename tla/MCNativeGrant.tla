---------------------------- MODULE MCNativeGrant ----------------------------
(* An instance of NativeGrant for TLC: a good and a Blood Vial. *)
EXTENDS NativeGrant

TwoTags == {"g", "v"}
TwoKinds == {"good", "vial"}
OneEach == [t \in TwoTags |-> IF t = "v" THEN "vial" ELSE "good"]
OneVial == {[k \in TwoKinds |-> IF k = "vial" THEN 1 ELSE 0]}
AllCounts == {"none", "first", "now"}
NewCounts == {"none", "now"}
NoForce == {FALSE}
=============================================================================
