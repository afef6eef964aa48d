------------------------------ MODULE MCBackbone ------------------------------
(* Instances of Backbone for TLC. *)
EXTENDS Backbone, TLC

CONSTANTS j1, j2, j3, w1, w2

OneCoding  == (j1 :> "coding")
BothCoding == (j1 :> "coding") @@ (j2 :> "coding")
AllTypes   == (j1 :> "coding") @@ (j2 :> "editing") @@ (j3 :> "other")

CodingWorker == (w1 :> "coding")
BothServices == (w1 :> "coding") @@ (w2 :> "editing")

Restarts == {"crash", "stop"}
AllFaults == Restarts \cup {"lost", "enqueue", "timeout", "raise"}
===============================================================================
