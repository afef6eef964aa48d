------------------------------- MODULE Planner -------------------------------
(***************************************************************************)
(* One workflow of the planner: a graph that clarifies the goal with the   *)
(* operator, plans steps, and runs them one by one as jobs of the          *)
(* backbone, next to the API that starts, resumes and cancels it.  The     *)
(* graph is one asyncio task; API handlers and answers of the backbone     *)
(* come in between its awaits.  Of the backbone a job's row is modelled,   *)
(* as JobContract describes it: it is live, then terminal, and live again  *)
(* when the job is delivered once more.                                    *)
(***************************************************************************)
EXTENDS Integers, Sequences, FiniteSets

CONSTANTS
  MaxSteps,     \* steps of a plan
  MaxAnswers,   \* answers of the operator
  Outcomes,     \* the terminal statuses the jobs settle with
  RecursionLimit, \* supersteps the graph engine allows a run
  FaultKinds,   \* the faults that may occur
  MaxFaults     \* bound on the number of faults

Terminal == {"completed", "failed", "cancelled", "exhausted", "infra_exhausted"}

ASSUME PlannerAssumption ==
  /\ MaxSteps \in Nat /\ MaxAnswers \in Nat /\ MaxFaults \in Nat
  /\ RecursionLimit \in Nat \ {0}
  /\ Outcomes \subseteq Terminal

VARIABLES
  wfStatus,    \* _workflows[id].status
  node,        \* where the task of the workflow stands
  nextNode,    \* state: next_node
  lastNode,    \* state: the node of the last entry of node_history
  steps,       \* state: steps
  index,       \* state: current_step_index, counted from 1
  currentJob,  \* state: current_job_id, 0 if empty
  supersteps,  \* nodes the engine has run since the graph was entered
  posting,     \* a POST /jobs on its way to the backbone: its source job, or None
  response,    \* the job id of an accepted POST on its way back, 0 if none
  jobs,        \* rows of the jobs the workflow submitted, by job id
  asked,       \* jobs the backbone was asked to cancel
  answers,     \* answers given
  faults,      \* faults so far
  again,       \* history: jobs that ran again after they had settled
  aborted,     \* history: the operator chose to abort
  llmFailed    \* history: an LLM call failed

stateVars == <<nextNode, lastNode, steps, index, currentJob, supersteps>>
callVars  == <<posting, response, jobs, again, asked>>
vars == <<wfStatus, node, stateVars, callVars, answers, faults, aborted, llmFailed>>

StepStatus == {"pending", "running", "timeout"} \cup Terminal
WfStatus   == {"running", "waiting_for_operator", "completed", "failed", "cancelled"}
Awaits     == {"start", "clarify", "plan", "dispatch", "submit", "inspect", "decide"}
None       == -1
JobIds     == 1..(MaxSteps * (MaxAnswers + 1))

(* A step as the LLM plans it; an editing step may name the step whose     *)
(* workspace it edits, itself and later ones included (the last step, that *)
(* has a job when no step is left, need not be named).                     *)
NewStep(module, from) == [module |-> module, from |-> from, status |-> "pending", job |-> 0]
NewSteps == {NewStep("coding", 0), NewStep("other", 0)}
              \cup {NewStep("editing", from) : from \in 0..(MaxSteps - 1)}
Plans    == UNION {[1..n -> NewSteps] : n \in 0..MaxSteps}

Steps == [module : {"coding", "editing", "other"}, from : 0..MaxSteps,
          status : StepStatus, job : JobIds \cup {0}]
Rows  == [status : {"live"} \cup Terminal, source : JobIds \cup {0}]

TypeOK ==
  /\ wfStatus \in WfStatus
  /\ node \in Awaits \cup {"done"}
  /\ nextNode \in {"clarify", "plan", "dispatch", "inspect", "decide", "ASK_OPERATOR", "FINISH"}
  /\ lastNode \in {"none", "clarify", "plan", "dispatch", "inspect", "decide"}
  /\ Len(steps) <= MaxSteps /\ \A i \in DOMAIN steps : steps[i] \in Steps
  /\ index \in 1..(MaxSteps + 1)
  /\ currentJob \in JobIds \cup {0}
  /\ supersteps \in 0..RecursionLimit
  /\ posting \in JobIds \cup {0, None}
  /\ response \in JobIds \cup {0}
  /\ \A k \in DOMAIN jobs : k \in JobIds /\ jobs[k] \in Rows
  /\ asked \subseteq DOMAIN jobs
  /\ answers \in 0..MaxAnswers
  /\ faults \in 0..MaxFaults
  /\ again \subseteq DOMAIN jobs
  /\ aborted \in BOOLEAN /\ llmFailed \in BOOLEAN

Init ==
  /\ wfStatus = "running" /\ node = "start"
  /\ nextNode = "clarify" /\ lastNode = "none"
  /\ steps = << >> /\ index = 1 /\ currentJob = 0 /\ supersteps = 0
  /\ posting = None /\ response = 0 /\ jobs = << >> /\ asked = {}
  /\ answers = 0 /\ faults = 0
  /\ again = {} /\ aborted = FALSE /\ llmFailed = FALSE

Fault(kind) ==
  /\ kind \in FaultKinds
  /\ faults < MaxFaults
  /\ faults' = faults + 1

-------------------------------------------------------------------------------
(* Moves of the graph *)

(* Node n returned: _run_graph sees its update, and ends the task when the *)
(* graph pauses or finishes; after RecursionLimit nodes the engine raises. *)
Goto(n, next) ==
  LET last == supersteps + 1 = RecursionLimit
  IN /\ lastNode' = n
     /\ nextNode' = next
     /\ supersteps' = supersteps + 1
     /\ node' = IF last \/ next \in {"ASK_OPERATOR", "FINISH"} THEN "done" ELSE next
     /\ wfStatus' = CASE next = "ASK_OPERATOR" -> "waiting_for_operator"
                      [] next = "FINISH"       -> "completed"
                      [] OTHER                 -> IF last THEN "failed" ELSE wfStatus

(* A node raised. *)
Raise ==
  /\ node' = "done"
  /\ wfStatus' = "failed"
  /\ UNCHANGED stateVars

(* Mutant: the graph resumes at next_node. *)
StartAtNext ==
  /\ node = "start"
  /\ \/ /\ nextNode = "FINISH"
        /\ node' = "done" /\ wfStatus' = "completed"
     \/ /\ nextNode # "FINISH"
        /\ node' = nextNode /\ UNCHANGED wfStatus
  /\ supersteps' = 0
  /\ UNCHANGED <<nextNode, lastNode, steps, index, currentJob, callVars, answers, faults, aborted,
                 llmFailed>>

(* The stream yields its input first: a workflow resumed to finish is      *)
(* completed at once.  Any other enters the graph at its entry point.      *)
Start ==
  /\ node = "start"
  /\ \/ /\ nextNode = "FINISH"
        /\ node' = "done" /\ wfStatus' = "completed"
     \/ /\ nextNode # "FINISH"
        /\ node' = "clarify" /\ UNCHANGED wfStatus
  /\ supersteps' = 0
  /\ UNCHANGED <<nextNode, lastNode, steps, index, currentJob, callVars, answers, faults, aborted,
                 llmFailed>>

Clarify ==
  /\ node = "clarify"
  /\ \/ \E next \in {"plan", "ASK_OPERATOR"} : Goto("clarify", next) /\ UNCHANGED llmFailed
     \/ Goto("clarify", "FINISH") /\ llmFailed' = TRUE
  /\ UNCHANGED <<steps, index, currentJob, callVars, answers, faults, aborted>>

MakePlan ==
  /\ node = "plan"
  /\ \/ /\ steps' \in Plans
        /\ index' = 1
        /\ Goto("plan", "dispatch")
        /\ UNCHANGED llmFailed
     \/ /\ Goto("plan", "FINISH")
        /\ llmFailed' = TRUE
        /\ UNCHANGED <<steps, index>>
  /\ UNCHANGED <<currentJob, callVars, answers, faults, aborted>>

(* The output of the LLM is JSON of another shape. *)
PlanningRaises ==
  /\ node \in {"clarify", "plan"}
  /\ Fault("shape")
  /\ Raise
  /\ UNCHANGED <<callVars, answers, aborted, llmFailed>>

(* The job of the step an editing step names, once it has one. *)
SourceJob(step) ==
  IF step.module = "editing" /\ step.from \in DOMAIN steps THEN steps[step.from].job ELSE 0

Pending == index <= Len(steps) /\ steps[index].status = "pending"

DispatchEnds ==
  /\ node = "dispatch"
  /\ ~Pending
  /\ Goto("dispatch", "FINISH")
  /\ UNCHANGED <<steps, index, currentJob, callVars, answers, faults, aborted, llmFailed>>

DispatchUnknown ==
  /\ node = "dispatch"
  /\ Pending /\ steps[index].module = "other"
  /\ steps' = [steps EXCEPT ![index].status = "failed"]
  /\ Goto("dispatch", "decide")
  /\ UNCHANGED <<index, currentJob, callVars, answers, faults, aborted, llmFailed>>

(* A request an earlier dispatch gave up on is taken to have been accepted *)
(* or dropped by then. *)
DispatchPosts ==
  /\ node = "dispatch"
  /\ Pending /\ steps[index].module # "other"
  /\ posting = None
  /\ posting' = SourceJob(steps[index])
  /\ node' = "submit"
  /\ UNCHANGED <<wfStatus, stateVars, response, jobs, again, asked, answers, faults,
                 aborted, llmFailed>>

DispatchReturns ==
  /\ node = "submit"
  /\ response # 0
  /\ steps' = [steps EXCEPT ![index].status = "running", ![index].job = response]
  /\ currentJob' = response
  /\ response' = 0
  /\ Goto("dispatch", "inspect")
  /\ UNCHANGED <<index, posting, jobs, again, asked, answers, faults, aborted, llmFailed>>

(* The POST fails or times out, accepted or not. *)
DispatchFails ==
  /\ node = "submit"
  /\ Fault("submit")
  /\ steps' = [steps EXCEPT ![index].status = "failed"]
  /\ response' = 0
  /\ Goto("dispatch", "decide")
  /\ UNCHANGED <<index, currentJob, posting, jobs, again, asked, answers, aborted, llmFailed>>

(* Mutant: the first answer of the poll is taken. *)
InspectAnyStatus ==
  /\ node = "inspect"
  /\ steps' = [steps EXCEPT ![index].status = jobs[currentJob].status]
  /\ Goto("inspect", "decide")
  /\ UNCHANGED <<index, currentJob, callVars, answers, faults, aborted, llmFailed>>

InspectSettled ==
  /\ node = "inspect"
  /\ jobs[currentJob].status \in Terminal
  /\ steps' = [steps EXCEPT ![index].status = jobs[currentJob].status]
  /\ Goto("inspect", "decide")
  /\ UNCHANGED <<index, currentJob, callVars, answers, faults, aborted, llmFailed>>

(* A request to cancel job k reaches the backbone, or is lost. *)
AskCancel(k) ==
  \/ asked' = asked \cup ({k} \ {0}) /\ UNCHANGED faults
  \/ Fault("lost") /\ UNCHANGED asked

(* Mutant: a job that is late is left alone. *)
InspectTimesOutQuietly ==
  /\ node = "inspect"
  /\ jobs[currentJob].status = "live"
  /\ steps' = [steps EXCEPT ![index].status = "timeout"]
  /\ Goto("inspect", "decide")
  /\ UNCHANGED <<index, currentJob, callVars, answers, faults, aborted, llmFailed>>

(* Mutant: the poll has no deadline of its own. *)
InspectWaits ==
  /\ node = "inspect"
  /\ jobs[currentJob].status = "live"
  /\ UNCHANGED vars

(* The job did not settle within JOB_TIMEOUT, its time in the queue        *)
(* included.                                                               *)
InspectTimesOut ==
  /\ node = "inspect"
  /\ jobs[currentJob].status = "live"
  /\ AskCancel(currentJob)
  /\ steps' = [steps EXCEPT ![index].status = "timeout"]
  /\ Goto("inspect", "decide")
  /\ UNCHANGED <<index, currentJob, posting, response, jobs, again, answers, aborted, llmFailed>>

(* One poll fails. *)
InspectRaises ==
  /\ node = "inspect"
  /\ Fault("poll")
  /\ Raise
  /\ UNCHANGED <<callVars, answers, aborted, llmFailed>>

(* Mutant: a step that settled is a step done. *)
DecideLenient ==
  /\ node = "decide"
  /\ \/ /\ steps[index].status \in Terminal
        /\ index' = index + 1
        /\ Goto("decide", IF index = Len(steps) THEN "FINISH" ELSE "dispatch")
     \/ /\ steps[index].status \notin Terminal
        /\ Goto("decide", "ASK_OPERATOR")
        /\ UNCHANGED index
  /\ UNCHANGED <<steps, currentJob, callVars, answers, faults, aborted, llmFailed>>

Decide ==
  /\ node = "decide"
  /\ \/ /\ steps[index].status = "completed"
        /\ index' = index + 1
        /\ Goto("decide", IF index = Len(steps) THEN "FINISH" ELSE "dispatch")
     \/ /\ steps[index].status # "completed"
        /\ Goto("decide", "ASK_OPERATOR")
        /\ UNCHANGED index
  /\ UNCHANGED <<steps, currentJob, callVars, answers, faults, aborted, llmFailed>>

Graph ==
  \/ Start \/ Clarify \/ MakePlan
  \/ DispatchEnds \/ DispatchUnknown \/ DispatchPosts \/ DispatchReturns \/ DispatchFails
  \/ InspectSettled \/ InspectTimesOut \/ Decide

-------------------------------------------------------------------------------
(* The backbone *)

(* It accepts a POST whether or not the planner still waits for the        *)
(* response.                                                               *)
Accept ==
  /\ posting # None
  /\ jobs' = Append(jobs, [status |-> "live", source |-> posting])
  /\ posting' = None
  /\ response' = IF node = "submit" THEN Len(jobs) + 1 ELSE response
  /\ UNCHANGED <<wfStatus, node, stateVars, again, asked, answers, faults, aborted, llmFailed>>

(* The connection was closed before the backbone read the request. *)
DropPost ==
  /\ posting # None /\ node # "submit"
  /\ posting' = None
  /\ UNCHANGED <<wfStatus, node, stateVars, response, jobs, again, asked, answers, faults,
                 aborted, llmFailed>>

JobSettles(k) ==
  /\ jobs[k].status = "live"
  /\ \E s \in Outcomes : jobs' = [jobs EXCEPT ![k].status = s]
  /\ UNCHANGED <<wfStatus, node, stateVars, posting, response, again, asked, answers, faults,
                 aborted, llmFailed>>

(* A worker was stopped or crashed when it had settled the row: ARQ        *)
(* delivers the job once more, and it announces itself as running.         *)
JobRunsAgain(k) ==
  /\ jobs[k].status \in Terminal
  /\ Fault("redelivery")
  /\ jobs' = [jobs EXCEPT ![k].status = "live"]
  /\ again' = again \cup {k}
  /\ UNCHANGED <<wfStatus, node, stateVars, posting, response, asked, answers, aborted,
                 llmFailed>>

-------------------------------------------------------------------------------
(* The API *)

(* answer_plan: the answer to a question about a failed step decides what  *)
(* becomes of the step; any other answer goes to clarify.                  *)
Answer(choice) ==
  /\ wfStatus = "waiting_for_operator"
  /\ answers < MaxAnswers
  /\ answers' = answers + 1
  /\ \/ /\ lastNode = "decide" /\ choice = "retry"
        /\ steps' = [steps EXCEPT ![index].status = "pending", ![index].job = 0]
        /\ nextNode' = "dispatch"
        /\ UNCHANGED <<index, aborted>>
     \/ /\ lastNode = "decide" /\ choice = "skip"
        /\ index' = index + 1
        /\ nextNode' = "dispatch"
        /\ UNCHANGED <<steps, aborted>>
     \/ /\ lastNode = "decide" /\ choice = "abort"
        /\ nextNode' = "FINISH"
        /\ aborted' = TRUE
        /\ UNCHANGED <<steps, index>>
     \/ /\ lastNode # "decide"
        /\ nextNode' = "clarify"
        /\ UNCHANGED <<steps, index, aborted>>
  /\ wfStatus' = "running"
  /\ node' = "start"
  /\ UNCHANGED <<lastNode, currentJob, supersteps, callVars, faults, llmFailed>>

(* Mutant: the task is not cancelled. *)
CancelPlanOnly ==
  /\ wfStatus' = "cancelled"
  /\ AskCancel(currentJob)
  /\ UNCHANGED <<node, stateVars, posting, response, jobs, again, answers, aborted, llmFailed>>

(* cancel_plan: whatever the status is.  The task stops at its await; the  *)
(* job it last recorded is cancelled. *)
CancelPlan ==
  /\ wfStatus' = "cancelled"
  /\ node' = "done"
  /\ response' = 0
  /\ AskCancel(currentJob)
  /\ UNCHANGED <<stateVars, posting, jobs, again, answers, aborted, llmFailed>>

Next ==
  \/ Graph \/ PlanningRaises \/ InspectRaises
  \/ Accept \/ DropPost \/ \E k \in DOMAIN jobs : JobSettles(k) \/ JobRunsAgain(k)
  \/ \E choice \in {"retry", "skip", "abort"} : Answer(choice)
  \/ CancelPlan

Spec == Init /\ [][Next]_vars

(* The event loop resumes the task of the workflow, whose every await has  *)
(* a timeout; nothing is assumed of the jobs and of the operator.          *)
FairSpec == Spec /\ WF_vars(Graph) /\ WF_vars(Accept)

-------------------------------------------------------------------------------
(* Properties *)

Live(k) == jobs[k].status = "live"
Done(k) == jobs[k].status = "completed" \/ k \in again

OutOfSteps == wfStatus = "failed" /\ supersteps = RecursionLimit

(* Jobs running for the workflow that nobody waits for or asked to cancel. *)
Stray ==
  {k \in DOMAIN jobs :
     /\ Live(k) /\ k \notin asked
     /\ ~(node = "inspect" /\ currentJob = k) /\ response # k}

(* Retries, replans and timeouts leave no job behind: every job that runs  *)
(* unattended is owed to a call that failed (a submission given up on, a   *)
(* cancel or a poll that was lost) or to a redelivery, one for each, and   *)
(* at most one more to a cancelled workflow, on its way when the operator  *)
(* cancelled, or to one that ran out of supersteps with its submission.    *)
NoStrayJobs ==
  Cardinality(Stray) <=
    faults + (IF wfStatus = "cancelled" \/ (OutOfSteps /\ lastNode = "dispatch") THEN 1 ELSE 0)

(* A cancelled workflow leaves no job running.                             *)
CancelLeavesNoJob == wfStatus = "cancelled" => Stray = {}

(* An editing job starts from the workspace of a job that completed,       *)
(* whatever was retried, skipped or planned anew before it, though ARQ may *)
(* run that job again.                                                     *)
EditsCompletedWork ==
  \A k \in DOMAIN jobs : jobs[k].source # 0 => Done(jobs[k].source)

(* "completed" accounts for every step of the last plan, unless the        *)
(* operator gave up or an LLM failed.                                      *)
CompletedIsDone ==
  wfStatus = "completed" /\ ~aborted /\ ~llmFailed =>
    \A i \in DOMAIN steps :
      steps[i].job # 0 /\ Done(steps[i].job)

(* Once cancelled a workflow stays cancelled and submits nothing more.     *)
CancelIsFinal ==
  [][wfStatus = "cancelled" => wfStatus' = "cancelled" /\ (posting' # None => posting # None)]_vars

(* A workflow does not stay running for ever, whatever its jobs do.        *)
RunningEnds == wfStatus = "running" ~> wfStatus # "running"

(* A workflow the operator answered goes on at the node the answer chose.  *)
ResumesAtNext ==
  [][node = "start" /\ node' # "start" => node' \in {nextNode, "done"}]_vars
===============================================================================
