----------------------------- MODULE JobContract -----------------------------
(***************************************************************************)
(* What the backbone promises a client that polls a job row: the row is    *)
(* written only on behalf of deliveries of the job to a worker.  A         *)
(* delivery first announces itself ("running"), then settles the row once  *)
(* with a terminal status, and either write may be missing.  A row that    *)
(* has settled is written again only on behalf of a later delivery, and    *)
(* there are at most MaxTries of them.  A cancellation request is never    *)
(* forgotten.                                                              *)
(***************************************************************************)
EXTENDS Integers

CONSTANTS Jobs, MaxTries

VARIABLES
  status,     \* what a client reads in the row of each job
  cancel,     \* the row's cancel_requested
  attempt,    \* deliveries of the job so far
  stage       \* progress of the current delivery of the job

vars == <<status, cancel, attempt, stage>>

Terminal == {"completed", "failed", "cancelled", "exhausted", "infra_exhausted"}
Statuses == {"absent", "queued", "running"} \cup Terminal
Stages   == {"none", "begun", "announced", "settled"}

Init ==
  /\ status  = [j \in Jobs |-> "absent"]
  /\ cancel  = [j \in Jobs |-> FALSE]
  /\ attempt = [j \in Jobs |-> 0]
  /\ stage   = [j \in Jobs |-> "none"]

Submit(j) ==
  /\ status[j] = "absent"
  /\ status' = [status EXCEPT ![j] = "queued"]
  /\ UNCHANGED <<cancel, attempt, stage>>

RequestCancel(j) ==
  /\ status[j] # "absent"
  /\ cancel' = [cancel EXCEPT ![j] = TRUE]
  /\ UNCHANGED <<status, attempt, stage>>

Deliver(j) ==
  /\ status[j] # "absent"
  /\ stage[j] = "none"
  /\ attempt[j] < MaxTries
  /\ attempt' = [attempt EXCEPT ![j] = @ + 1]
  /\ stage' = [stage EXCEPT ![j] = "begun"]
  /\ UNCHANGED <<status, cancel>>

Announce(j) ==
  /\ stage[j] = "begun"
  /\ stage' = [stage EXCEPT ![j] = "announced"]
  /\ \E s \in {"running", status[j]} : status' = [status EXCEPT ![j] = s]
  /\ UNCHANGED <<cancel, attempt>>

Settle(j) ==
  /\ stage[j] = "announced"
  /\ stage' = [stage EXCEPT ![j] = "settled"]
  /\ \E s \in Terminal \cup {status[j]} : status' = [status EXCEPT ![j] = s]
  /\ UNCHANGED <<cancel, attempt>>

(* Deliveries end, or are cut short, together when the worker that holds   *)
(* them stops.                                                             *)
Release(S) ==
  /\ stage' = [j \in Jobs |-> IF j \in S THEN "none" ELSE stage[j]]
  /\ UNCHANGED <<status, cancel, attempt>>

(* Deliveries that give up without writing the row: they are only waiting  *)
(* to be released.                                                         *)
Abandon(S) ==
  /\ stage' = [j \in Jobs |-> IF j \in S THEN "settled" ELSE stage[j]]
  /\ UNCHANGED <<status, cancel, attempt>>

Next ==
  \/ \E j \in Jobs : Submit(j) \/ RequestCancel(j) \/ Deliver(j)
                       \/ Announce(j) \/ Settle(j)
  \/ \E S \in SUBSET Jobs : Release(S) \/ Abandon(S)

Spec == Init /\ [][Next]_vars
=============================================================================
