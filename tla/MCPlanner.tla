------------------------------ MODULE MCPlanner ------------------------------
(* Instances of Planner for TLC. *)
EXTENDS Planner

NoFaults  == {}
AllFaults == {"poll", "shape", "submit", "lost", "redelivery"}
===============================================================================
