------------------------------ MODULE MCSandbox ------------------------------
(* Instances of Sandbox for TLC. *)
EXTENDS Sandbox, TLC

CONSTANTS t1, t2, k1

TwoTagged == (t1 :> "tagged") @@ (t2 :> "tagged")
Lone(k)   == (t1 :> k) @@ (t2 :> "absent")

Mixes    == {TwoTagged, Lone("untagged"), Lone("editing")}
Loops    == [k \in KindNames |-> IF k = "editing" THEN 2 ELSE 1]

AllFaults == {"crash", "docker"}
===============================================================================
