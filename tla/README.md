# Mupin: models, checks and proofs

Mupin turns a goal into code with a handful of services around one job queue. A planner asks the
operator about the goal, plans steps and submits each step as a job; the API backbone keeps a row per
job and hands jobs to ARQ queues; coding and editing workers take jobs and drive a LangGraph of LLM calls
and sandbox containers for each. The modules here model those parts, TLC checks them on small instances,
and TLAPS proves the results that matter most for every value of the constants.

Paths below are relative to the repository. Line numbers are in `PROJECT.json` ("map").

## Inventory

| Component | State | Operations | Interacts by | What makes it correct |
|---|---|---|---|---|
| Backbone API (`mupin-api-backbone/src/main.py`, `jobs.py`, `db.py`) | one row per job: status, cancel_requested; a pool of database connections | submit, get, cancel; started, progress, finalize (called by workers) | HTTP from planner and workers, enqueue and abort on ARQ | a settled row stays settled unless the job is delivered again; cancel requests are not lost; handlers never starve the calls they wait for |
| ARQ queues (`queue.py`) | queued jobs, in-progress keys, tries | enqueue, deliver, retry, give up, abort | Redis | each type reaches its own worker; every queued job ends |
| Workers (`mupin-*/src/worker.py`) | one coroutine per job | run_job: started, check, drive, finalize; cancelled by SIGTERM or job_timeout | best-effort HTTP to the backbone, ARQ | every delivery settles the row; a cancel request stops the work soon |
| Runner (`runner.py`) | last update of the graph, executor, deadline | drive_graph, run_swarm_task, cleanup | callbacks to the worker, the graph's stream | the status says what the graph did |
| Coding graph (`mupin-coding-module/src/nodes.py`, `graph.py`, `state.py`) | manifest, errors, diagnosis, loop counters, retries; the workspace on disk | test_designer, skeleton_maker, coder, sandbox_arbiter | LLM, docker | completed means verified; the coder does not write its own tests; loops keep their budgets |
| LLM call (`_invoke_with_retry`) | the attempt's queue of chunks, the task's pool of threads and cancel event | attempts, streams, watchdog | LLM providers, the runner that ends the task | ends within its attempts though threads hang; returns one stream's text; starts nothing when the task is over |
| Dependency cache (coding `nodes.py`) | shared directory per tag and requirements | hit test, clear, fill, mark | file system shared by tasks | a marked directory is complete; checks see the packages they need |
| Sandbox containers (`nodes.py`, `runner.py`) | containers by name, directories of packages | install, verify, list and remove, tidy up | docker, threads that outlive a timeout | gates come back though containers hang; a cleanup leaves nothing it could have found; tidying up loses no result |
| Editing graph (`mupin-editing-module/src/nodes.py`, `graph.py`) | source and edited manifests, deleted files, plan, two loop counters | load_source, analyze, plan, apply_tests, apply_code, regression_check, verify | LLM, docker, the workspace of the source job | the original behaviour survives an edit; completed means verified |
| Planner (`mupin-planner/src/api.py`, `nodes.py`, `modules.py`) | workflows in memory: status, steps, index, current job | plan, answer, cancel; clarify, plan, dispatch, inspect, decide | HTTP to the backbone, operator | no job runs that nobody waits for; completed means the steps completed; edits start from completed work |
| Module APIs, profiles, configuration, deployment | none that changes | proxies, YAML look-ups, entry points | | |
| Benchmark runners | a queue of questions, results | submit, poll, score | the module APIs | no question is lost |

Hard behaviours: workers crash or are stopped in the middle of a run and ARQ delivers the job again;
calls between worker and backbone are swallowed when they fail and may be served after the worker gave up
on them; a cancel handler waits for the end of the job it cancels while it holds a database connection;
the graph mixes four loops (nodes retried, contracts sent back, sandboxes repeated, plans started over)
whose counters live in one state dictionary; docker clients are given up on while their containers run on, and a
node's thread runs on when its task is over, over directories that other tasks share; the planner is cancelled and answered between any two awaits
of its graph while the backbone accepts a job. `PROJECT.json` ("hazards") lists each at its line with the
properties that cover it.

## Modules

| Module | Models |
|---|---|
| `JobContract` | abstract specification: what a client that polls a job row may rely on |
| `Backbone` | backbone API, ARQ, workers and the outside of the graph, for a set of jobs and workers |
| `BackboneProofs` | theorems about `Backbone` |
| `CodingPipeline` | one run of the coding graph, node by node, and the status it ends with |
| `CodingPipelineProofs` | theorems about `CodingPipeline` |
| `EditingPipeline` | one run of the editing graph, node by node, the workspace it works in, and the status it ends with |
| `EditingPipelineProofs` | theorems about `EditingPipeline` |
| `LlmCall` | the LLM calls of one task: attempts, threads, chunks, the watchdog and the end of the task |
| `LlmCallProofs` | theorems about `LlmCall` |
| `Sandbox` | the gates that run containers, of several tasks: the cache, the containers, the cleanups and the node's thread |
| `SandboxProofs` | theorems about `Sandbox`: types, the cache, the result of a task |
| `SandboxSweepProofs` | theorems about `Sandbox`: names of containers, cleanups |
| `Planner` | one workflow of the planner, its operator, and the rows of its jobs |
| `PlannerProofs` | theorems about `Planner` |
| `MCBackbone`, `MCCodingPipeline`, `MCEditingPipeline`, `MCLlmCall`, `MCPlanner`, `MCSandbox` | instances for TLC |

Definitions that begin with a comment "Mutant:" are wrong versions of the definition that follows them; no
specification uses them. They show that each property can fail: with the wrong version in place of the
right one TLC finds the property violated.

### Backbone

A job's row is `status[j]`, `cancel[j]`. `CreateJob`, `EnqueueJob` and `EnqueueFails` are the two halves of
`POST /jobs`, split at the commit. `CancelJob` commits the request and then waits in ARQ's `abort()`
(`blocked`) with its connection held; `abort()` looks for the job in the default queue only, so it waits
for coding jobs and returns at once for editing jobs. `Reachable` says a connection is free. The steps of
`run_job` are the values of `pc[j]`: `begin`, `check`, then the graph in three places (`graph`, a node runs;
`poll`, drive_graph asks whether the job was cancelled; `record`, it takes the update), `finalize`,
`return`. What a node does is left to `CodingPipeline`: here the graph takes up to `MaxNodes` steps and
returns or raises at any time.

The worker's calls are `PostServed` and `PostGivenUp` (started, finalize) and `CheckFails`/`CheckAnswers` (the poll
for cancellation). A POST takes effect, is lost, or finds no connection; the worker gives up on it after 10 s
and the backbone may serve it later (`late`, `ServeLate`), since the pool makes it wait up to 30 s. `RunRaises` is
`run_swarm_task` raising out of its `finally` clause, past the handlers of `run_job`: the row is not settled.

`unwritten` is a history variable: the jobs whose row something kept from being settled, or took back, since
finalize was last served. Each action that can do so puts the job in; serving finalize takes it out.

ARQ is external: `Pick` delivers a job not in progress, `Return` takes it off the queue unless its run was
cut short by a stop, `GiveUp` drops a job delivered `MaxTries` times without calling run_job, `KeyExpires`
frees a job whose worker is gone. Faults are `crash` (a worker process dies), `stop` (SIGTERM: each of its
coroutines gets a CancelledError), `timeout` (ARQ's job_timeout), `lost` (a call), `enqueue`; `MaxFaults` bounds
them and `FaultKinds` chooses them; `raise` is the one of `RunRaises`.

### CodingPipeline

`node` is the node the engine runs next; a node is one action, since LangGraph runs one node per superstep
and nothing else touches the state. `Edges` is the table of conditional edges, and `Goto` follows it: a
next_node without an edge makes the engine raise. The manifest is abstracted to the source file, the test
file and the requirements. Of a file the model keeps whose output it is, the revision of the tests it was
written for, and whether the linters rewrote it; a missing and an empty file are the same to the code and to
the model. Outputs of the LLMs are chosen nondeterministically: complete or not, empty or not, with
files the node did not ask for, with any verdict. `workDeps` is the requirements file on disk, which
`write_manifest_to_disk` leaves there when the new manifest has none.

`runs`, `verified`, `revision` and `rejections` are history variables: the code does not keep them, and no
guard reads them (`revision` labels the texts written).

### EditingPipeline

The same engine with other nodes. Four maps give every file under `src/` and `tests/` a text: `source` (the job
the edit starts from, or the files of the request), `disk` (the workspace), `original` (`source_manifest`) and
`manifest` (`file_manifest`). A text says who wrote it, which output of the run it comes from and whether the
linters rewrote it. `disk` is not empty at the start when ARQ delivers the job again: what the earlier run
left there is loaded as if it were the source. `Outputs` are the files an LLM's answer writes and deletes,
`Accepted` what each node takes of them, `Merge` what becomes of the manifest; files that are written are not
blank. `OnDisk` is `write_manifest_to_disk`: files outside the manifest stay, and whatever was ever deleted is
removed, even if a later output wrote it again. The manifest of a source always lists the profile's test file,
blank if need be, so the branch of `regression_check` for sources without tests is never taken, and its run fails
for want of tests. `verified`, `held`, `sentBack` and `returns` are history variables.

### LlmCall

The graphs call the LLM through `_invoke_with_retry`, which the coding and the editing module each have a copy of; the
graphs' modules see its outcome only, this one its inside. `phase` is where the call stands: before an attempt, or
waiting for chunks. `streams` are the functions handed to threads, in order; a thread takes the oldest when the
pool has room (`Take`), and may hang in it for ever. `Put` is `chunk_queue.put`: the function finds the queue by the
variable of the call, which the next attempt sets anew, so a late thread feeds the attempt under way, and a late thread
of an earlier call feeds nobody. `TimeOut` stands for both time limits of the watchdog. `CancelTask` and `TaskEnds` are
the runner: the event, and the shutdown of the pool. Whether the call gets the pool and the event at all (`carried`)
depends on the graph engine: the runner puts them into the state, whose class does not declare them. Both cases are
checked.

### Sandbox

Three nodes run containers: the coding arbiter, and the regression check and the verification of an edit. Each is a
gate here, and `thread[t]` is where the node's thread stands in it: `clear` the directory of packages, `make` it,
`start` and wait for the `install` container, `mark` the entry of the cache, `open` and wait for the `verify` container,
`tidy` the copy the regression check works in. An install is tried twice by the arbiter, once by an edit; an edit's gate
has no cache, and an untagged task's directory is its own. `packages` says what a directory holds, `marked` which
entries have the marker. A `TimeOut` is `subprocess.run` giving up on its docker client: the container stays in
`containers`, goes on writing and ends whenever it likes. A container does not see a directory that was removed and made
again after it mounted it (`attached`), unless it mounted the workspace above. `ClearRaises` is `shutil.rmtree` failing
because somebody writes below it.

`runner[t]` is the other side: `running`, then `cancelled` or `ended` while cleanups are due, `tidying`, `over`.
`cleanup_sandbox_for_task` is `List` and `Remove`, two docker commands between which the thread may start a
container; `cleanup_workspace_deps` is `CleanWorkspace`, which may raise. `Interrupt` ends the task while
its thread is in a gate, and `Crash` delivers it again over the containers and directories it left. `raced`,
`interrupted`, `unswept`, `crashed` and `lost` are history variables, as is the `late` of a container.

### Planner

`node` is the await at which the task of the workflow stands. `Goto` is what `_run_graph` makes of the
update of a node. `supersteps` counts the nodes the engine has run since the graph was entered: `_run_graph` sets no
`recursion_limit` (`api.py:72`), so the engine's default applies, which is `RecursionLimit` here, as the requirements pin no
version of it; the node that reaches it ends the workflow as "failed" (`OutOfSteps`), unless it paused or finished the
graph. An answer enters the graph anew, with all its supersteps. Of the steps the model keeps the module, the step an edit starts from, the status and
the job. Jobs are numbered in the order in which the backbone accepts them; `posting` is a POST on its way to
the backbone, `response` its answer on the way back, so that a cancellation or a timeout can come in
between. `asked` is the set of jobs the backbone was asked to cancel. The rows behave as `JobContract` lets them: a job
settles with one of `Outcomes`, and `JobRunsAgain` is the redelivery that takes a settled row back to running
(`again` remembers which), a fault here, as is a call that fails.

## Runs

Every configuration sets `CHECK_DEADLOCK FALSE`: a job that has settled, a graph that has ended and a
workflow that is cancelled have nothing left to do.

| Run | Bounds | Shows |
|---|---|---|
| `BackboneReliable` | 2 coding jobs on 1 worker that runs both, 2 crashes or stops, 3 tries, 1 request, calls arrive | `ImplementsContract` (refinement of `JobContract`), `SettledMeansIdle`, `EveryJobSettles` |
| `BackboneFaulty` | 1 coding job, 2 requests, all faults up to 3, 3 tries, 3 supersteps, pool of 2 | `CancelBounded`, `FinishedIsSettled`, `TypeOK` |
| `BackbonePool` | a coding, an editing and an unknown job on a worker of each type, pool of 1, 1 request, 1 try, no faults | `CancelReturns`, `FinishedIsSettled` |
| `CodingSafety` | 3 sandbox loops, 2 contract loops, 1 retry per node, 20 supersteps, no external contract | all properties of `CodingPipeline` that hold |
| `EditingSafety` | 2 sources and 1 test, outputs that name 1 file, 2 sandbox loops, 2 regression loops, 1 retry per node, 10 supersteps | all properties of `EditingPipeline` that hold |
| `LlmCallSafety` | 2 calls of 2 attempts, 1 chunk per answer, a pool of 1 thread | `AnswerIsWhole`, `NothingStartsAfterEnd`, `CallEnds`, `TypeOK` |
| `SandboxSafety` | 2 tagged tasks with the same requirements, or one untagged or editing task; 1 loop (2 for an edit) and a replan; one task that may be interrupted or meet 1 fault | `MarkedIsComplete`, `ChecksSeePackages`, `CleanupSweeps`, `NamesAreFree`, `ResultSurvives`, `GateReturns`, `TypeOK` |
| `PlannerSafety` | plans of up to 3 steps, 9 supersteps, 1 answer, 1 fault: a poll, a response or a submission that fails, a cancel that is lost, a redelivery | `NoStrayJobs`, `EditsCompletedWork`, `CompletedIsDone`, `CancelIsFinal`, `RunningEnds`, `TypeOK` |
| `CodingRetry`, `EditingLoops`, `PlannerCancel`, `PlannerResume` | small | each finds the disagreement of its finding, below |

Why the bounds are enough. A contract violation needs one redelivery; three tries allow two, and the
end of ARQ's patience is reached. Two jobs on a worker are hit together by one stop. Three supersteps let a
request fall before, between and after checks. A pool of one is exhausted by one waiting handler, as the
pool of any size is by as many. With three sandbox loops a loop is neither the first nor the last; with 20
supersteps the graph goes through several replans, with contracts sent back in each; a
contract from the planner only takes choices away. An edit of 10 supersteps goes through either of its
loops and completes, and of two sources one can be deleted and written again while the other keeps the sandbox
satisfied. Two calls of two
attempts let a thread outlive its attempt and its call, and one thread that hangs fills the pool. Two tagged
tasks are enough to fill one entry at once, to hit what the other filled, and to clear what a hung container of the
other still writes to; every gate of an edit is entered twice, so that a container of the first loop can be there in the
second. Entries of different requirements share nothing, so one hash is enough. A planner's workflow of 9 supersteps
completes plans of one and of two steps, the second of which may edit what the first made; the third step of a longer one is
submitted in the last superstep, so that the graph is cut off with a job under way. One answer retries, skips or gives
up a step of a plan that has jobs behind it, and has the graph plan anew beside them. One planner fault at a time leaves
one job unattended, and the property counts them.

### What the disagreements are

- `CodingRetry`: a transient LLM fault at skeleton_maker asks for a retry that the graph has no edge for; the
  engine raises and the task fails.
- `EditingLoops`: faults of the tests send an edit back to plan or apply_tests at any loop count, while the graph's
  documentation says the sandbox runs at most five times.
- `PlannerCancel`: cancelling a workflow while it waits for the response to its submission leaves the job running.
- `PlannerResume`: an answer of retry or skip sets next_node, but the graph is entered at clarify, and plans anew.

Others were met and have no run of their own:

- ARQ's job_timeout (3600 s, coding `worker.py:162`) is shorter than the task's own deadline and ends in a row that reads
  "cancelled" though nobody cancelled the job; the coding README says "cancelled" means cancelled by the client.
- The states' classes declare neither `llm_executor` nor `cancel_event`; if the engine drops them, the "cooperative
  cancellation" of coding `nodes.py:372` does not happen, and each attempt has a pool of its own.
- Shutting the executor down does not stop "any in-flight httpx requests" (coding `runner.py:227`): a stream that runs
  goes on, and only those that wait for a thread are dropped. `NothingStartsAfterEnd` says no more than that.
- The stream of an attempt that was given up may end the next one, with its text, which `AnswerIsWhole` allows, or with
  its error, which uses up a healthy attempt.
- A permanent LLM fault is reported as "infra_exhausted" without a retry (coding `nodes.py:679`; the README says "failed").
- A lost finalize call leaves the row "running" for ever (coding `worker.py:84`), and so do a job type no worker runs
  (`worker.py:90`, which returns without settling), a job ARQ gave up on, and a run that raises while it tidies up. An
  enqueue that fails leaves "queue". `FinishedIsSettled` names these causes and says there are no others.
- `cleanup_workspace_deps` stands in the `finally` clause of the runner (coding `runner.py:234`): when it raises, because a
  thread or a container still writes below the workspace, the result of the task is lost with it. `ResultSurvives` says
  that this happens to interrupted tasks only, as long as docker answers.
- The cleanup is there "to ensure nothing lingers" (coding `nodes.py:724`), but an interrupted task's thread may start a container
  after the listing. `CleanupSweeps` allows for that one.
- A cache hit is documented as a "valid" entry (coding `nodes.py:836`), and the README says tasks never share mismatched
  dependencies; two tasks that fill one entry at once may leave a marked entry that lacks packages, since one clears what
  the other has installed. `MarkedIsComplete` and `ChecksSeePackages` leave out such entries (`raced`) until they are
  cleared by one task alone.
- A docker client that times out is an infra fault, which ends the graph: the arbiter and the verification never meet the container
  they gave up on. That of the regression check leads back to apply, and the container runs beside the later loops. Their names do not collide (`NamesAreFree`), except
  after a redelivery, when loops start over.
- The regression check clears its copy before its `try`, and removes it in a `finally` clause: either may raise out of the node,
  and the graph ends as a failure.
- A planner's graph runs with the engine's default number of supersteps (`api.py:72`), 25 in many releases of the
  engine: two to plan and three to a step, so that a plan of eight steps ends as "failed", and one cut off at a submission leaves
  its job to run on unattended. `NoStrayJobs` charges that job to the end of the workflow.
- A transient fault of the coder's LLM wipes the sandbox's output the retry was to work on (coding `nodes.py:665`), and so for
  an edit; errors of a regression check that was out of loops hide the sandbox's (editing `nodes.py:1305`). `FeedbackReachesCoder` and
  `FeedbackReachesCode` exempt the visit after such a fault, and such a gate, and say that nothing else loses the output.
- An edit that is delivered again loads the files of its earlier run as if they were the source's (editing `nodes.py:950`);
  `original` has them too, so no property tells them apart.
- A file that an edit deletes and a later loop writes again is in the manifest and in the gate's workspace, but is removed before
  every sandbox run, and missing in the result (editing `nodes.py:1120`). `CompletedIsVerified` counts it as deleted, and
  `CompletedPassedGate` leaves it out.
- A planner's job that is delivered again after it settled may run beside the job of a retry, in a workspace of its own.
- The module API's `GET /task/{id}` (coding `api.py:115`) asks for the log and returns its text where the response model wants a
  status, which cannot be serialised; the coding README promises `task_id`, `status` and `current_node`.
- The skeleton maker's files replace the designer's, its tests included (coding `nodes.py:1150`; the comment before it says
  that the tests are preserved). `JudgedByOthersTests` allows for it.
- Nothing counts the replans of the coding graph; they end at the engine's step limit, reported as "failed", where the README
  promises "exhausted".
- An edit whose regression loops are used up goes on to verify and may complete with the original tests failing (editing
  `nodes.py:1566`), although the gate is documented as hard. `CompletedPassedGate` says when that can happen.
- apply may delete tests (editing `nodes.py:1118`), although it is said to ignore test files; `TestsByTestWriter` allows for it.
- A source without tests does not skip the regression check (editing `nodes.py:1390`): the manifest lists blank test files.

### Fairness

`Backbone`: weak fairness for each worker's polling of the queue (ARQ's main loop), for each job's coroutine
(every call it makes has a timeout, and the graph is bounded by the engine's step limit and by the deadline), for
the expiry of in-progress keys (a Redis TTL), for the second half of a submission and for the return of
`abort()` once its job is off the queue (the event loop of the API). Nothing is assumed of clients or faults,
and serving late calls is not fair. `Planner`: weak fairness for the graph's task, whose every await has a
timeout (POSTs 30 s, polls 10 s each and 3600 s together), and for the backbone accepting a POST; nothing is
assumed of the jobs, on which `RunningEnds` must not depend, and nothing of the operator. `LlmCall`: weak
fairness for the node's thread and for its time limits; nothing is assumed of the threads of the streams.
`Sandbox`: weak fairness for each task's thread, whose waits for docker have time limits of their own; nothing is
assumed of the containers, and nothing of the runner. The two graphs have no
liveness property: that a task ends follows from the deadline alone, and the model lets the deadline come at any time.

## Theorems

All are proved from nothing but the named assumptions on the constants (`BackboneAssumption`, `PipelineAssumption`,
`EditingAssumption`, `CallAssumption`, `SandboxAssumption`, `PlannerAssumption`), which say that limits are natural
numbers, those of attempts, of the loops of checks and of the planner's supersteps positive, that services have a known type, that source and test files are different
files, and that jobs settle with terminal statuses; where a theorem needs more, it says so in its statement. Every
invariant and every action property of the passing runs is stated by a theorem, and so is the refinement. The proofs
have one shape: an invariant that is stronger than the property and is kept by every action, one step of the proof per
action.

`BackboneProofs`

- `TypeCorrect`: `Spec => []TypeOK`, one lemma per group of actions.
- `CancelIsBounded`: `Spec => []CancelBounded`. `CancelBounded` alone is not inductive: whether the
  next node still counts depends on where the coroutine stands. `CancelInv` strengthens it: an update that is about to
  be recorded after the request was committed is either backed by a check that failed or is the one whose check was
  answered before, and until the request is committed nothing is counted.
- `FinishedSettled`: `Spec => []FinishedIsSettled`, from `SettleInv`: queue, in-progress keys and the
  workers' tasks agree with where each coroutine stands, and a job whose coroutine returned without a stop is settled
  or in `unwritten`.
- `ContractImplemented`: `Spec /\ []Reachable => ImplementsContract`, one lemma per group of actions that maps each
  of its steps to a step of `JobContract` or to a stutter (`ContractStep`). It needs that a queued job has a row
  (`KnownInv`) and that no call is served after its worker gave up on it (`Prompt`). Crashes, stops, timeouts, lost
  calls and failing enqueues may all happen.
- `SettledIdle`: `"lost" \notin FaultKinds` implies `Spec /\ []Reachable => []SettledMeansIdle`, from `RunningInv`: from its
  announcement to its settlement a delivery keeps the row at "running".
- `LargePool`: both without `[]Reachable`, if there are more connections than cancel requests. By `BlockedInv` a request
  holds one connection at most, so `PoolSuffices`.

  The hypotheses of the last three are those under which the code keeps the promise. With the pool exhausted a
  call is served after the worker gave up on it, so that an old announcement may overwrite a settled row, and with an
  announcement lost a redelivery works on below a row that reads as settled: `FinishedIsSettled` has no such hypothesis and
  says what is left then. `BackboneReliable` meets the hypotheses of `LargePool`.

`CodingPipelineProofs`

- `TypeCorrect`: `Spec => []TypeOK`.
- `JudgedByOthers`: `Spec => []JudgedByOthersTests`, from `ProvenanceInv`: tests in the manifest
  always belong to the current revision and are never the coder's, and when the arbiter is next the source is
  the coder's, for these tests.
- `CompletedVerified`: `Spec => []CompletedIsVerified`, from `VerifiedInv`: a graph that has finished
  at the arbiter without errors holds the files the last sandbox passed.
- `LoopsBounded`: `Spec => []LoopsPerPlan`, from `LoopInv`: the counter equals the history of runs
  wherever the coder or the arbiter is next, is below the limit there, and is reset with the history by the designer.
- `FullBudget`: `Spec => FullBudgetBeforeReplan`, from the same invariant.
- `ContractSettled`: `Spec => []ContractSettles`, from `ContractInv`: the loop counter is at least the history of rejections.
- `CritiqueCurrent`: `Spec => []CritiqueIsCurrent`, from `CritiqueInv`: except where the skeleton maker has yet to read new
  tests, a critique is about the tests of this revision.
- `FeedbackReached`: `Spec => FeedbackReachesCoder`, from `FeedbackInv`, which says it of the state the coder finds.

`EditingPipelineProofs`

- `TypeCorrect` and `AllRoutesMapped`: `Spec => []TypeOK` and `Spec => []RoutesMapped`, from `RouteInv`. `Successors`,
  `GateLeads` and `VerdictLeads` say where each node may lead; the other proofs rest on them.
- `TestsKept`: `Spec => []TestsByTestWriter`, from `WriterInv`: apply_tests is reached with an impact only, and the tests
  that are analysed are not its own.
- `ReturnsLimited`: `Spec => []ReturnsBounded`, from `ReturnInv`: each counter is at least the history of returns.
- `CompletedVerified`: `Spec => []CompletedIsVerified`, from `VerifiedInv`: a graph that passed keeps what verify left behind.
- `CompletedGate`: `Spec => []CompletedPassedGate`, from `GateInv` and `OnDiskInv`: while regression loops are left verify
  is given the code the gate let through, and code that was never deleted is in the manifest if it is on the disk, so
  that what verify runs is what it is given.
- `FeedbackReached`: `Spec => FeedbackReachesCode`, from `FeedbackInv`.

`LlmCallProofs`

- `TypeCorrect`: `Spec => []TypeOK`. `TypeInv` adds how many streams the attempts of the call under way
  account for, without which a further attempt could exceed the bound.
- `AnswersWhole`: `Spec => []AnswerIsWhole`, from `AnswerInv`: whatever texts are in the queue are of
  streams of this call that are over. `WholeStays` shows that no step takes that away,
  and `PutWhole` that nothing else gets in.
- `NothingStarts`: `Spec => NothingStartsAfterEnd`, from `EndInv`: streams wait only in a pool that is
  not shut down.

`SandboxProofs` and `SandboxSweepProofs`

- `TypeCorrect`: `Spec => []TypeOK`; that an attempt is never the third needs that the thread counts only
  where `FailAttempt` bounds it.
- `MarkedComplete` and `ChecksComplete`: `Spec => []MarkedIsComplete` and `Spec => []ChecksSeePackages`, both from
  `CacheInv`. What a thread sees depends on where it and every other user of the directory stand: an entry that was not raced
  has one filler, which keeps it unmarked; where that filler is about to mark, and where a thread is about to check, the
  packages are full; and whoever checks an entry finds it marked, so that no second task clears it under the check.
- `ResultKept`: `Spec => []ResultSurvives`, from `SweptInv`: a task that was not interrupted has an idle thread from the end
  of its graph on, so that what the listing found is all there was.
- `NamesFree` and `CleanupSwept`: `Spec => []NamesAreFree` and `Spec => []CleanupSweeps`, both from `ContainersInv`. A container
  the thread does not wait for is one its gate gave up on (`GivenUp`): the last gate's is in nobody's way, a regression
  check's has the number of a loop that is over. A thread that outlives its task is alone with the one container it
  started (`ThreadInv`), and a cleanup's listing has all the others (`SweepInv`).

`PlannerProofs`

- `TypeCorrect`: `Spec => []TypeOK`, from `ControlInv` and `CountInv`. That the ids of jobs are bounded at all needs the
  latter: every answer starts a round, which submits each step at most once.
- `CancelFinal`: `Spec => CancelIsFinal`, from `ControlInv`: the graph is at work only while the workflow reads "running".
- `EditsStartFromWork`: `Spec => []EditsCompletedWork`, from `PlanInv` and `SourceInv`: the steps before the current one are
  done, those behind it fresh, and so is the source of a submission on its way.
- `CompletedDone`: `Spec => []CompletedIsDone`, from `PlanInv` and `DoneInv`.
- `StraysCharged`: `Spec => []NoStrayJobs`, from `StrayInv`: a submission nobody waits for, which may yet be accepted, counts
  as the stray job it may become. Each action moves at most one job out of the planner's sight, and is charged for it; that
  the charge of a workflow that was cancelled, or cut off at a submission, is made once needs that it never runs again (`LeftStays`).

Model-checked only: liveness (`EveryJobSettles`, `CancelReturns`, `RunningEnds`, `CallEnds`, `GateReturns`). It rests on weak
fairness and so on ENABLED, which is beyond the prover, and on the finiteness of what is left to do. The four runs that find a
disagreement are counterexamples, and prove themselves.

## What is not modelled, and the plan

Partly modelled: of the backbone's rows the progress, the log, results and timestamps, which nothing in the life of a job
reads; of the coding graph and the LLM call the wording of prompts and the classification of errors by their
text; of the editing graph the requirements, the scaffolding and the diff of the result. In `Backbone` the raise while
tidying up comes from a run that drives the graph, and ARQ's redelivery waits until threads of a stopped worker are
gone: `Crash` of `Sandbox` takes the thread with it.

The next part is a composition of `Planner` and `Backbone` in which the planner's jobs are the backbone's rows. `Planner` takes
from `JobContract` that a job settles with one of `Outcomes` and runs again only by a redelivery (`JobRunsAgain`), and
`ContractImplemented` proves `JobContract` of the backbone; what the composition would add is the planner's part in the
life of the pool: its cancel requests are calls of `CancelJob`, which hold a connection each.

Left out for good: the module APIs (stateless proxies), the benchmark runners (clients that measure the system from outside), profiles and configuration (look-ups), deployment, the
fixtures of the benchmarks, and everything that is wording: prompts, logs, progress, timing records.
