------------------------------- MODULE Backbone -------------------------------
(***************************************************************************)
(* The life of a job: the API of the backbone over its database row, the   *)
(* ARQ queue, and the run_job coroutine of the workers.  A client submits   *)
(* a job and may ask to cancel it; the worker announces the job, drives    *)
(* its graph node by node, and settles the row.  Workers crash or are      *)
(* stopped, calls between worker and backbone are lost or arrive late, and *)
(* cancel requests hold connections of the database pool.                  *)
(***************************************************************************)
EXTENDS Integers, FiniteSets

CONSTANTS
  Jobs,        \* job ids
  Workers,     \* worker processes
  Requests,    \* cancel requests clients may send
  TypeOf,      \* the job_type each job is submitted with
  Service,     \* the job_type each worker process serves
  MaxJobs,     \* jobs a worker runs at once (WORKER_MAX_JOBS)
  MaxTries,    \* deliveries of a job before ARQ gives up on it
  MaxNodes,    \* supersteps the graph engine allows a run
  PoolSize,    \* connections in the backbone's database pool
  FaultKinds,  \* the faults that may occur
  MaxFaults    \* bound on the number of faults

ASSUME BackboneAssumption ==
  /\ Service \in [Workers -> {"coding", "editing"}]
  /\ MaxTries \in Nat \ {0} /\ MaxNodes \in Nat \ {0} /\ MaxJobs \in Nat
  /\ PoolSize \in Nat /\ MaxFaults \in Nat
  /\ DOMAIN TypeOf = Jobs

VARIABLES
  status,      \* row: status
  cancel,      \* row: cancel_requested
  posting,     \* jobs whose row is committed and not yet enqueued
  queue,       \* jobs in an ARQ queue; they stay until ARQ finishes them
  inProgress,  \* jobs with an ARQ in-progress key
  tries,       \* ARQ's count of deliveries of each job
  tasks,       \* jobs each worker process is running
  pc,          \* where run_job stands for each job
  nodes,       \* supersteps of the current run of the graph
  out,         \* status run_job is about to settle the row with
  stopping,    \* jobs whose run was cancelled by the stop of their worker
  expired,     \* jobs whose run was cancelled by ARQ's job_timeout
  issued,      \* cancel requests sent
  blocked,     \* cancel handlers waiting in abort(), with their job
  late,        \* calls the worker gave up on and the backbone may still serve
  faults,      \* faults so far
  worked,      \* history: node results accepted since the cancel request
  missed,      \* history: cancellation checks that failed since the request
  unwritten    \* history: jobs whose row something kept from settling, or
               \* unsettled, since it was last settled

rowVars    == <<status, cancel>>
arqVars    == <<queue, inProgress, tries>>
taskVars   == <<tasks, pc, nodes, out, stopping, expired>>
clientVars == <<posting, issued, blocked>>
history    == <<worked, missed, unwritten>>
vars == <<rowVars, arqVars, taskVars, clientVars, late, faults, history>>

Terminal  == {"completed", "failed", "cancelled", "exhausted", "infra_exhausted"}
Writes    == Terminal \cup {"running"}
Statuses  == Writes \cup {"absent", "queued"}
Calls     == [job : Jobs, status : Writes]
Driving   == {"graph", "poll", "record"}          \* inside run_swarm_task
Places    == Driving \cup {"idle", "begin", "check", "finalize", "return"}

TypeOK ==
  /\ status \in [Jobs -> Statuses]
  /\ cancel \in [Jobs -> BOOLEAN]
  /\ posting \in SUBSET Jobs
  /\ queue \in SUBSET Jobs
  /\ inProgress \in SUBSET Jobs
  /\ tries \in [Jobs -> 0..MaxTries]
  /\ tasks \in [Workers -> SUBSET Jobs]
  /\ pc \in [Jobs -> Places]
  /\ nodes \in [Jobs -> 0..MaxNodes]
  /\ out \in [Jobs -> Terminal]
  /\ stopping \in SUBSET Jobs
  /\ expired \in SUBSET Jobs
  /\ issued \in SUBSET Requests
  /\ blocked \in SUBSET (Requests \X Jobs)
  /\ late \in SUBSET Calls
  /\ faults \in 0..MaxFaults
  /\ worked \in [Jobs -> Nat]
  /\ missed \in [Jobs -> Nat]
  /\ unwritten \in SUBSET Jobs

Init ==
  /\ status = [j \in Jobs |-> "absent"]
  /\ cancel = [j \in Jobs |-> FALSE]
  /\ posting = {} /\ queue = {} /\ inProgress = {}
  /\ tries = [j \in Jobs |-> 0]
  /\ tasks = [w \in Workers |-> {}]
  /\ pc = [j \in Jobs |-> "idle"]
  /\ nodes = [j \in Jobs |-> 0]
  /\ out = [j \in Jobs |-> "failed"]
  /\ stopping = {} /\ expired = {} /\ issued = {} /\ blocked = {} /\ late = {}
  /\ faults = 0
  /\ worked = [j \in Jobs |-> 0]
  /\ missed = [j \in Jobs |-> 0]
  /\ unwritten = {}

-------------------------------------------------------------------------------
(* Calls and faults *)

(* A cancel handler keeps its session open while it waits in abort(); any  *)
(* other handler holds a connection only for the length of its step.       *)
Reachable == Cardinality(blocked) < PoolSize

Fault(kind) ==
  /\ kind \in FaultKinds
  /\ faults < MaxFaults
  /\ faults' = faults + 1

(* Mutant: an UPDATE that refuses to overwrite a settled row. *)
PostServedUnlessSettled(j, s) ==
  /\ Reachable
  /\ status' = IF status[j] \in Terminal THEN status ELSE [status EXCEPT ![j] = s]
  /\ UNCHANGED <<late, faults>>

(* A POST of the worker that writes the row, and takes effect. *)
PostServed(j, s) ==
  /\ Reachable
  /\ status' = [status EXCEPT ![j] = s]
  /\ UNCHANGED <<late, faults>>

(* Mutant: a POST without a timeout. *)
PostLostOnly(j, s) ==
  /\ Fault("lost")
  /\ UNCHANGED <<status, late>>

(* One the worker gives up on, and it goes on: lost, or when it finds the  *)
(* pool exhausted, as the worker gives up (10 s) before the handler does   *)
(* (30 s).                                                                 *)
PostGivenUp(j, s) ==
  \/ /\ Fault("lost")
     /\ UNCHANGED <<status, late>>
  \/ /\ ~Reachable
     /\ late' = late \cup {[job |-> j, status |-> s]}
     /\ UNCHANGED <<status, faults>>

(* A GET of the worker that fails or times out: the worker reads "not      *)
(* cancelled".                                                             *)
CheckFails(j) ==
  /\ \/ Fault("lost")
     \/ ~Reachable /\ UNCHANGED faults
  /\ missed' = [missed EXCEPT ![j] = IF cancel[j] THEN @ + 1 ELSE @]

CheckAnswers(j, answer) ==
  /\ Reachable
  /\ cancel[j] = answer
  /\ UNCHANGED <<faults, missed>>

Move(j, place) == pc' = [pc EXCEPT ![j] = place]

(* run_job leaves its body with status s for the row. *)
EndWith(j, s) ==
  /\ Move(j, "finalize")
  /\ out' = [out EXCEPT ![j] = s]

-------------------------------------------------------------------------------
(* The backbone's API *)

CreateJob(j) ==
  /\ Reachable
  /\ status[j] = "absent"
  /\ status' = [status EXCEPT ![j] = "queued"]
  /\ posting' = posting \cup {j}
  /\ UNCHANGED <<cancel, arqVars, taskVars, issued, blocked, late, faults, history>>

(* Mutant: only the types that have a worker are enqueued. *)
EnqueueServed(j) ==
  /\ j \in posting
  /\ posting' = posting \ {j}
  /\ queue' = IF \E w \in Workers : TypeOf[j] = Service[w] THEN queue \cup {j} ELSE queue
  /\ UNCHANGED <<rowVars, inProgress, tries, taskVars, issued, blocked, late,
                 faults, history>>

EnqueueJob(j) ==
  /\ j \in posting
  /\ posting' = posting \ {j}
  /\ queue' = queue \cup {j}
  /\ UNCHANGED <<rowVars, inProgress, tries, taskVars, issued, blocked, late,
                 faults, history>>

EnqueueFails(j) ==
  /\ j \in posting
  /\ Fault("enqueue")
  /\ posting' = posting \ {j}
  /\ unwritten' = unwritten \cup {j}
  /\ UNCHANGED <<rowVars, arqVars, taskVars, issued, blocked, late, worked, missed>>

(* Only the editing type has a queue of its own; everything else, unknown  *)
(* types included, goes to the queue of the coding workers.                *)
QueueOf(type) == IF type = "editing" THEN "editing" ELSE "coding"

(* abort() waits for the result of the job as long as it finds the job in  *)
(* the default queue: it returns at once for an editing job.               *)
AbortWaits(j) == QueueOf(TypeOf[j]) = "coding" /\ j \in queue

(* Mutant: the request also writes the row's status. *)
CancelJobSettling(c, j) ==
  /\ Reachable
  /\ c \notin issued
  /\ status[j] # "absent" /\ j \notin posting
  /\ cancel' = [cancel EXCEPT ![j] = TRUE]
  /\ status' = [status EXCEPT ![j] = "cancelled"]
  /\ issued' = issued \cup {c}
  /\ UNCHANGED <<arqVars, taskVars, posting, blocked, late, faults, history>>

CancelJob(c, j) ==
  /\ Reachable
  /\ c \notin issued
  /\ status[j] # "absent" /\ j \notin posting
  /\ cancel' = [cancel EXCEPT ![j] = TRUE]
  /\ issued' = issued \cup {c}
  /\ blocked' = IF AbortWaits(j) THEN blocked \cup {<<c, j>>} ELSE blocked
  /\ UNCHANGED <<status, arqVars, taskVars, posting, late, faults, history>>

AbortReturns(c, j) ==
  /\ <<c, j>> \in blocked
  /\ ~AbortWaits(j)
  /\ blocked' = blocked \ {<<c, j>>}
  /\ UNCHANGED <<rowVars, arqVars, taskVars, posting, issued, late, faults, history>>

(* A call its worker gave up on is served once a connection is free, or    *)
(* given up in turn.  It settles the row, or unsettles it.                 *)
ServeLate(c) ==
  /\ c \in late
  /\ Reachable
  /\ status' = [status EXCEPT ![c.job] = c.status]
  /\ late' = late \ {c}
  /\ unwritten' = IF c.status = "running" THEN unwritten \cup {c.job} ELSE unwritten
  /\ UNCHANGED <<cancel, arqVars, taskVars, clientVars, faults, worked, missed>>

DropLate(c) ==
  /\ c \in late
  /\ late' = late \ {c}
  /\ UNCHANGED <<rowVars, arqVars, taskVars, clientVars, faults, history>>

-------------------------------------------------------------------------------
(* ARQ's worker loop *)

CanTake(w, j) ==
  /\ j \in queue
  /\ Service[w] = QueueOf(TypeOf[j])
  /\ j \notin inProgress
  /\ Cardinality(tasks[w]) < MaxJobs

Pick(w, j) ==
  /\ CanTake(w, j)
  /\ tries[j] < MaxTries
  /\ tries' = [tries EXCEPT ![j] = @ + 1]
  /\ inProgress' = inProgress \cup {j}
  /\ tasks' = [tasks EXCEPT ![w] = @ \cup {j}]
  /\ nodes' = [nodes EXCEPT ![j] = 0]
  /\ Move(j, "begin")
  /\ UNCHANGED <<rowVars, queue, out, stopping, expired, clientVars, late, faults, history>>

(* ARQ fails a job it has delivered too often by itself: run_job is not    *)
(* called and the row is not written.                                      *)
GiveUp(w, j) ==
  /\ CanTake(w, j)
  /\ tries[j] = MaxTries
  /\ queue' = queue \ {j}
  /\ unwritten' = unwritten \cup {j}
  /\ UNCHANGED <<rowVars, inProgress, tries, taskVars, clientVars, late, faults, worked,
                 missed>>

(* run_job returned: ARQ stores the result and takes the job off the       *)
(* queue, or, when the run was cancelled by a stop, leaves it there to be  *)
(* run again.                                                              *)
Return(w, j) ==
  /\ j \in tasks[w] /\ pc[j] = "return"
  /\ queue' = IF j \in stopping THEN queue ELSE queue \ {j}
  /\ stopping' = stopping \ {j}
  /\ expired' = expired \ {j}
  /\ inProgress' = inProgress \ {j}
  /\ tasks' = [tasks EXCEPT ![w] = @ \ {j}]
  /\ Move(j, "idle")
  /\ UNCHANGED <<rowVars, tries, nodes, out, clientVars, late, faults, history>>

(* The in-progress key of a job whose worker is gone expires. *)
KeyExpires(j) ==
  /\ j \in inProgress /\ pc[j] = "idle"
  /\ inProgress' = inProgress \ {j}
  /\ UNCHANGED <<rowVars, queue, tries, taskVars, clientVars, late, faults, history>>

Crash(w) ==
  /\ tasks[w] # {}
  /\ Fault("crash")
  /\ pc' = [j \in Jobs |-> IF j \in tasks[w] THEN "idle" ELSE pc[j]]
  /\ stopping' = stopping \ tasks[w]
  /\ expired' = expired \ tasks[w]
  /\ tasks' = [tasks EXCEPT ![w] = {}]
  /\ UNCHANGED <<rowVars, arqVars, nodes, out, clientVars, late, history>>

(* SIGTERM: every coroutine gets a CancelledError.  Inside run_swarm_task  *)
(* it is caught and the row is settled as cancelled; raised in one of the  *)
(* calls around it, it leaves run_job.  ARQ runs the job again either way. *)
Stop(w) ==
  /\ tasks[w] # {}
  /\ Fault("stop")
  /\ LET hit == {j \in tasks[w] : pc[j] # "return"}
     IN /\ pc' = [j \in Jobs |->
                    IF j \notin hit THEN pc[j]
                    ELSE IF pc[j] \in Driving THEN "finalize" ELSE "return"]
        /\ out' = [j \in Jobs |->
                    IF j \in hit /\ pc[j] \in Driving THEN "cancelled" ELSE out[j]]
        /\ stopping' = stopping \cup hit
  /\ UNCHANGED <<rowVars, arqVars, tasks, nodes, expired, clientVars, late, history>>

(* ARQ's job_timeout cancels run_job, once: its handler settles the row as *)
(* cancelled; cut short while it settles the row it writes nothing.        *)
JobTimeout(j) ==
  /\ pc[j] \in Driving \cup {"finalize"}
  /\ j \notin stopping \cup expired
  /\ Fault("timeout")
  /\ expired' = expired \cup {j}
  /\ \/ /\ pc[j] \in Driving
        /\ EndWith(j, "cancelled")
        /\ UNCHANGED unwritten
     \/ /\ pc[j] = "finalize"
        /\ Move(j, "return")
        /\ unwritten' = unwritten \cup {j}
        /\ UNCHANGED out
  /\ UNCHANGED <<rowVars, arqVars, tasks, nodes, stopping, clientVars, late, worked, missed>>

-------------------------------------------------------------------------------
(* run_job *)

RejectType(w, j) ==
  /\ j \in tasks[w] /\ pc[j] = "begin"
  /\ TypeOf[j] # Service[w]
  /\ Move(j, "return")
  /\ unwritten' = unwritten \cup {j}
  /\ UNCHANGED <<rowVars, arqVars, tasks, nodes, out, stopping, expired, clientVars, late,
                 faults, worked, missed>>

MarkStarted(w, j) ==
  /\ j \in tasks[w] /\ pc[j] = "begin"
  /\ TypeOf[j] = Service[w]
  /\ PostServed(j, "running") \/ PostGivenUp(j, "running")
  /\ Move(j, "check")
  /\ UNCHANGED <<cancel, arqVars, tasks, nodes, out, stopping, expired, clientVars, history>>

(* Mutant: a job cancelled before its start returns without settling the row. *)
CheckBeforeStartSilent(j) ==
  /\ pc[j] = "check"
  /\ \/ CheckAnswers(j, TRUE) /\ Move(j, "return")
     \/ (CheckAnswers(j, FALSE) \/ CheckFails(j)) /\ Move(j, "graph")
  /\ UNCHANGED <<rowVars, arqVars, tasks, nodes, out, stopping, expired, clientVars,
                 late, worked, unwritten>>

CheckBeforeStart(j) ==
  /\ pc[j] = "check"
  /\ \/ CheckAnswers(j, TRUE) /\ EndWith(j, "cancelled")
     \/ (CheckAnswers(j, FALSE) \/ CheckFails(j)) /\ Move(j, "graph") /\ UNCHANGED out
  /\ UNCHANGED <<rowVars, arqVars, tasks, nodes, stopping, expired, clientVars, late, worked,
                 unwritten>>

(* Mutant: no limit on supersteps. *)
NodeOutputUnlimited(j) ==
  /\ pc[j] = "graph"
  /\ nodes' = [nodes EXCEPT ![j] = @ + 1]
  /\ Move(j, "poll")
  /\ UNCHANGED <<rowVars, arqVars, tasks, out, stopping, expired, clientVars, late,
                 faults, history>>

(* A node of the graph ran and the stream yields its update. *)
NodeOutput(j) ==
  /\ pc[j] = "graph"
  /\ nodes[j] < MaxNodes
  /\ nodes' = [nodes EXCEPT ![j] = @ + 1]
  /\ Move(j, "poll")
  /\ UNCHANGED <<rowVars, arqVars, tasks, out, stopping, expired, clientVars, late, faults,
                 history>>

(* Mutant: the check is throttled like the progress posts. *)
PollCancelThrottled(j) ==
  /\ pc[j] = "poll"
  /\ \/ nodes[j] % 3 = 0 /\ CheckAnswers(j, TRUE) /\ EndWith(j, "cancelled")
     \/ /\ nodes[j] % 3 # 0 /\ UNCHANGED <<faults, missed, out>>
        /\ Move(j, "record")
  /\ UNCHANGED <<rowVars, arqVars, tasks, nodes, stopping, expired, clientVars, late,
                 worked, unwritten>>

(* drive_graph asks whether the job was cancelled before it looks at the   *)
(* update.                                                                 *)
PollCancel(j) ==
  /\ pc[j] = "poll"
  /\ \/ CheckAnswers(j, TRUE) /\ EndWith(j, "cancelled")
     \/ (CheckAnswers(j, FALSE) \/ CheckFails(j)) /\ Move(j, "record") /\ UNCHANGED out
  /\ UNCHANGED <<rowVars, arqVars, tasks, nodes, stopping, expired, clientVars, late, worked,
                 unwritten>>

Record(j) ==
  /\ pc[j] = "record"
  /\ Move(j, "graph")
  /\ worked' = [worked EXCEPT ![j] = IF cancel[j] THEN @ + 1 ELSE @]
  /\ UNCHANGED <<rowVars, arqVars, tasks, nodes, out, stopping, expired, clientVars, late,
                 faults, missed, unwritten>>

(* The graph reached END: the last recorded update decides. *)
GraphReturns(j) ==
  /\ pc[j] = "graph" /\ nodes[j] > 0
  /\ \E s \in {"completed", "exhausted", "infra_exhausted"} : EndWith(j, s)
  /\ UNCHANGED <<rowVars, arqVars, tasks, nodes, stopping, expired, clientVars, late, faults,
                 history>>

(* A node, or the engine at its superstep limit, raised. *)
GraphRaises(j) ==
  /\ pc[j] = "graph"
  /\ EndWith(j, "failed")
  /\ UNCHANGED <<rowVars, arqVars, tasks, nodes, stopping, expired, clientVars, late, faults,
                 history>>

DeadlineExpires(j) ==
  /\ pc[j] \in Driving
  /\ EndWith(j, "exhausted")
  /\ UNCHANGED <<rowVars, arqVars, tasks, nodes, stopping, expired, clientVars, late, faults,
                 history>>

(* run_swarm_task raises out of its own tidying up: run_job does not catch *)
(* it and leaves the row as it is, and ARQ takes the job for done.         *)
RunRaises(j) ==
  /\ pc[j] \in Driving
  /\ Fault("raise")
  /\ Move(j, "return")
  /\ unwritten' = unwritten \cup {j}
  /\ UNCHANGED <<rowVars, arqVars, tasks, nodes, out, stopping, expired, clientVars, late,
                 worked, missed>>

Finalize(j) ==
  /\ pc[j] = "finalize"
  /\ \/ PostServed(j, out[j])  /\ unwritten' = unwritten \ {j}
     \/ PostGivenUp(j, out[j]) /\ unwritten' = unwritten \cup {j}
  /\ Move(j, "return")
  /\ UNCHANGED <<cancel, arqVars, tasks, nodes, out, stopping, expired, clientVars, worked,
                 missed>>

RunJob(j) ==
  \/ \E w \in Workers : RejectType(w, j) \/ MarkStarted(w, j) \/ Return(w, j)
  \/ CheckBeforeStart(j) \/ NodeOutput(j) \/ PollCancel(j) \/ Record(j)
  \/ GraphReturns(j) \/ GraphRaises(j) \/ DeadlineExpires(j) \/ Finalize(j)

Next ==
  \/ \E j \in Jobs : CreateJob(j) \/ EnqueueJob(j) \/ EnqueueFails(j)
  \/ \E c \in Requests, j \in Jobs : CancelJob(c, j) \/ AbortReturns(c, j)
  \/ \E c \in Calls : ServeLate(c) \/ DropLate(c)
  \/ \E w \in Workers, j \in Jobs : Pick(w, j) \/ GiveUp(w, j)
  \/ \E w \in Workers : Crash(w) \/ Stop(w)
  \/ \E j \in Jobs : JobTimeout(j) \/ KeyExpires(j) \/ RunJob(j) \/ RunRaises(j)

Spec == Init /\ [][Next]_vars

(* ARQ polls its queue, in-progress keys expire, a coroutine that is not   *)
(* waiting is resumed (every call of the worker has a timeout), and the    *)
(* event loop of the API runs its handlers.                                *)
Fairness ==
  /\ \A w \in Workers : WF_vars(\E j \in Jobs : Pick(w, j) \/ GiveUp(w, j))
  /\ \A j \in Jobs : WF_vars(RunJob(j)) /\ WF_vars(KeyExpires(j)) /\ WF_vars(EnqueueJob(j))
  /\ \A c \in Requests, j \in Jobs : WF_vars(AbortReturns(c, j))

FairSpec == Spec /\ Fairness

-------------------------------------------------------------------------------
(* Properties *)

Settled(j) == status[j] \in Terminal

(* Once the client's cancel request is committed, drive_graph accepts the  *)
(* result of at most one more node (the one whose check was answered       *)
(* before), plus one for every check that failed, over all deliveries of   *)
(* the job.                                                                *)
CancelBounded == \A j \in Jobs : worked[j] <= 1 + missed[j]

(* A client that reads a terminal status may use the workspace: no run of  *)
(* the job is driving the graph in it.                                     *)
SettledMeansIdle == \A j \in Jobs : Settled(j) => pc[j] \notin Driving

(* The row and the queue agree: a job ARQ is done with has a settled row.  *)
(* Only these keep it from that: the enqueue failed, ARQ gave up on the    *)
(* job, its worker serves another type, its last finalize call was lost,   *)
(* late or cut short, its run raised, or a late announcement was served    *)
(* over the settled row.  A later delivery makes up for all that went      *)
(* wrong in the one before.                                                *)
FinishedIsSettled ==
  \A j \in Jobs :
    status[j] # "absent" /\ j \notin posting \cup queue => Settled(j) \/ j \in unwritten

(* Every job that reached the queue settles for good.                      *)
EveryJobSettles == \A j \in Jobs : j \in queue ~> []Settled(j)

(* A cancel handler that waits for the job's result, holding a connection  *)
(* the worker's own calls need, comes back: workers and handlers never     *)
(* wait for each other for ever.                                           *)
CancelReturns ==
  \A c \in Requests, j \in Jobs : <<c, j>> \in blocked ~> <<c, j>> \notin blocked

(* The row behaves as the contract says, however often the job is          *)
(* delivered, as long as no call is served after its worker gave up on it. *)
StageOf(place) ==
  CASE place = "idle"   -> "none"
    [] place = "begin"  -> "begun"
    [] place = "return" -> "settled"
    [] OTHER            -> "announced"

Contract == INSTANCE JobContract WITH
  attempt <- tries, stage <- [j \in Jobs |-> StageOf(pc[j])]

ImplementsContract == Contract!Spec
===============================================================================
