---------------------------- MODULE EditingPipeline ----------------------------
(***************************************************************************)
(* One run of the editing graph: the source is loaded, analysed and        *)
(* planned; an edit without impact on the tests is written by apply, any   *)
(* other by apply_tests and then apply_code; regression_check runs the     *)
(* original tests on the edited code, and verify runs linters and tests on *)
(* the workspace.  Nodes run one at a time.  run_edit_task turns the end   *)
(* of the graph into the status of the task, and the workspace into its    *)
(* result.                                                                 *)
(***************************************************************************)
EXTENDS Integers, FiniteSets

CONSTANTS
  CodeFiles, TestFiles,  \* files under src/ and under tests/
  MaxNamed,              \* files an LLM's output names, a bound of the model
  MaxSandboxLoops,       \* MAX_SANDBOX_LOOPS
  MaxRegressionLoops,    \* MAX_REGRESSION_LOOPS
  InfraMaxRetries,       \* INFRA_MAX_RETRIES
  RecursionLimit         \* supersteps the graph engine allows a run

ASSUME EditingAssumption ==
  /\ CodeFiles \cap TestFiles = {}
  /\ MaxNamed \in Nat
  /\ MaxSandboxLoops \in Nat \ {0} /\ MaxRegressionLoops \in Nat \ {0}
  /\ InfraMaxRetries \in Nat /\ RecursionLimit \in Nat

MaxQualityLoops == 3
Files    == CodeFiles \cup TestFiles
Writers  == {"apply", "apply_tests", "apply_code"}
LlmNodes == {"analyze", "plan"} \cup Writers
Nodes    == {"load_source", "regression_check", "verify"} \cup LlmNodes
Statuses == {"running", "completed", "exhausted", "infra_exhausted", "failed", "interrupted"}
Verdicts == {"pass", "test_fault", "code_fault", "infra_fault"}
Impacts  == {"none", "update_existing", "add_new", "both"}

(* A file: who wrote it (the source, a node, or an earlier delivery of the *)
(* same job), which of the texts written in this run it is, and whether    *)
(* the linters have rewritten it.  The code reads a missing and an empty   *)
(* file alike.                                                             *)
NoFile == [by |-> "nobody", rev |-> 0, linted |-> FALSE]
Text(by, rev) == [by |-> by, rev |-> rev, linted |-> FALSE]
File   == [by : Writers \cup {"nobody", "source", "earlier"}, rev : Nat, linted : BOOLEAN]
SameText(a, b) == a.by = b.by /\ a.rev = b.rev
NoFiles == [f \in Files |-> NoFile]

VARIABLES
  node,             \* node to run next, "FINISH", or why there is none
  steps,            \* supersteps so far
  current,          \* current_node of the runner: the node that ran last
  source,           \* files of the source job, or of the request
  disk,             \* sources and tests in the workspace
  original,         \* source_manifest
  manifest,         \* file_manifest
  deleted,          \* deleted_files
  impact,           \* test_impact
  errors,           \* sandbox_errors is not empty
  regressionErrors, \* regression_errors is not empty
  sandboxLoop, regressionLoop, qualityLoop,
  retries,          \* llm_infra_retries
  infraExhausted,
  status, result,   \* what run_edit_task returns
  revision,         \* history: outputs merged into the manifest
  verified,         \* history: what the last passing sandbox ran on
  held,             \* history: code of the last gate that held
  sentBack,         \* history: the check that sent the code back
  returns           \* history: how often each check sent the code back

engineVars   == <<steps, current>>
workVars     == <<source, disk, original>>
editVars     == <<manifest, deleted, revision>>
feedbackVars == <<errors, regressionErrors>>
infraVars    == <<retries, infraExhausted>>
endVars      == <<status, result>>
historyVars  == <<verified, held, sentBack, returns>>
vars == <<node, engineVars, workVars, editVars, impact, feedbackVars, sandboxLoop,
          regressionLoop, qualityLoop, infraVars, endVars, historyVars>>

FileMaps == [Files -> File]

TypeOK ==
  /\ node \in Nodes \cup {"FINISH", "unmapped", "raised"}
  /\ steps \in 0..RecursionLimit
  /\ current \in Nodes \cup {"initializing"}
  /\ source \in FileMaps /\ disk \in FileMaps
  /\ original \in FileMaps /\ manifest \in FileMaps
  /\ deleted \in SUBSET Files
  /\ impact \in Impacts
  /\ errors \in BOOLEAN /\ regressionErrors \in BOOLEAN
  /\ sandboxLoop \in Nat /\ regressionLoop \in Nat
  /\ qualityLoop \in 0..(MaxQualityLoops - 1)
  /\ retries \in [LlmNodes -> 0..InfraMaxRetries]
  /\ infraExhausted \in BOOLEAN
  /\ status \in Statuses
  /\ result \in FileMaps
  /\ revision \in Nat
  /\ verified \in FileMaps
  /\ held \in [CodeFiles -> File]
  /\ sentBack \in {"nobody", "sandbox", "regression"}
  /\ returns \in [{"sandbox", "regression"} -> Nat]

(* The source may lack any file: its job may have failed, be unknown, or   *)
(* be at work still.  A job that is delivered again finds the files of its *)
(* earlier run in its workspace.                                           *)
Init ==
  /\ node = "load_source" /\ current = "initializing"
  /\ steps = 0
  /\ source \in [Files -> {NoFile, Text("source", 0)}]
  /\ disk \in [Files -> {NoFile, Text("earlier", 0)}]
  /\ original = NoFiles /\ manifest = NoFiles /\ deleted = {}
  /\ impact = "none"
  /\ errors = FALSE /\ regressionErrors = FALSE
  /\ sandboxLoop = 0 /\ regressionLoop = 0 /\ qualityLoop = 0
  /\ retries = [n \in LlmNodes |-> 0] /\ infraExhausted = FALSE
  /\ status = "running" /\ result = NoFiles
  /\ revision = 0 /\ verified = NoFiles
  /\ held = [c \in CodeFiles |-> NoFile]
  /\ sentBack = "nobody" /\ returns = [check \in {"sandbox", "regression"} |-> 0]

-------------------------------------------------------------------------------
(* The engine *)

(* Mutant: verify has no edge to plan. *)
EdgesWithoutPlan ==
  [load_source      |-> {"analyze", "FINISH"},
   analyze          |-> {"plan", "analyze", "FINISH"},
   plan             |-> {"apply", "apply_tests", "plan", "FINISH"},
   apply            |-> {"regression_check", "apply", "FINISH"},
   apply_tests      |-> {"apply_code", "apply_tests", "FINISH"},
   apply_code       |-> {"regression_check", "apply_code", "FINISH"},
   regression_check |-> {"verify", "apply", "apply_code", "FINISH"},
   verify           |-> {"apply", "apply_code", "apply_tests", "FINISH"}]

(* The conditional edges. *)
Edges == [load_source      |-> {"analyze", "FINISH"},
          analyze          |-> {"plan", "analyze", "FINISH"},
          plan             |-> {"apply", "apply_tests", "plan", "FINISH"},
          apply            |-> {"regression_check", "apply", "FINISH"},
          apply_tests      |-> {"apply_code", "apply_tests", "FINISH"},
          apply_code       |-> {"regression_check", "apply_code", "FINISH"},
          regression_check |-> {"verify", "apply", "apply_code", "FINISH"},
          verify           |-> {"apply", "apply_code", "apply_tests", "plan", "FINISH"}]

(* Following an edge that is not mapped raises. *)
Goto(n, next) == node' = IF next \in Edges[n] THEN next ELSE "unmapped"

Visit(n) ==
  /\ status = "running"
  /\ node = n
  /\ steps < RecursionLimit
  /\ steps' = steps + 1
  /\ current' = n

(* Mutant: the retry forgets what the gate said, too. *)
RetryNodeForgetting(n) ==
  /\ Visit(n)
  /\ retries[n] < InfraMaxRetries
  /\ retries' = [retries EXCEPT ![n] = @ + 1]
  /\ errors' = FALSE /\ regressionErrors' = FALSE
  /\ Goto(n, n)
  /\ UNCHANGED <<workVars, editVars, impact, sandboxLoop, regressionLoop, qualityLoop,
                 infraExhausted, endVars, historyVars>>

(* _handle_llm_unavailable: a transient fault is retried by visiting the   *)
(* node again, which forgets the sandbox's output ...                      *)
RetryNode(n) ==
  /\ Visit(n)
  /\ retries[n] < InfraMaxRetries
  /\ retries' = [retries EXCEPT ![n] = @ + 1]
  /\ errors' = FALSE
  /\ Goto(n, n)
  /\ UNCHANGED <<workVars, editVars, impact, regressionErrors, sandboxLoop, regressionLoop,
                 qualityLoop, infraExhausted, endVars, historyVars>>

(* ... a permanent one, or a transient one out of budget, ends the graph. *)
GiveUp(n, transient) ==
  /\ Visit(n)
  /\ transient => retries[n] = InfraMaxRetries
  /\ infraExhausted' = TRUE
  /\ errors' = TRUE
  /\ Goto(n, "FINISH")
  /\ UNCHANGED <<workVars, editVars, impact, regressionErrors, sandboxLoop, regressionLoop,
                 qualityLoop, retries, endVars, historyVars>>

(* Every node but the sandboxes and load_source calls an LLM first. *)
LlmFails == \E n \in LlmNodes : RetryNode(n) \/ \E transient \in BOOLEAN : GiveUp(n, transient)

NodeRaises ==
  /\ status = "running" /\ node \in Nodes /\ steps < RecursionLimit
  /\ node' = "raised"
  /\ UNCHANGED <<engineVars, workVars, editVars, impact, feedbackVars, sandboxLoop,
                 regressionLoop, qualityLoop, infraVars, endVars, historyVars>>

OutOfSteps == node \in Nodes /\ steps = RecursionLimit

-------------------------------------------------------------------------------
(* load_source, analyze, plan *)

(* The source's files are copied over what is in the workspace, and        *)
(* whatever is there then is the source.                                   *)
Loaded == [f \in Files |-> IF source[f] # NoFile THEN source[f] ELSE disk[f]]

LoadSource ==
  /\ Visit("load_source")
  /\ disk' = Loaded /\ original' = Loaded /\ manifest' = Loaded
  /\ Goto("load_source", "analyze")
  /\ UNCHANGED <<source, deleted, revision, impact, feedbackVars, sandboxLoop, regressionLoop,
                 qualityLoop, infraVars, endVars, historyVars>>

(* An impact the code does not know is taken for none. *)
Analyze ==
  /\ Visit("analyze")
  /\ impact' \in Impacts
  /\ Goto("analyze", "plan")
  /\ UNCHANGED <<workVars, editVars, feedbackVars, sandboxLoop, regressionLoop, qualityLoop,
                 infraVars, endVars, historyVars>>

Plan ==
  /\ Visit("plan")
  /\ Goto("plan", IF impact = "none" THEN "apply" ELSE "apply_tests")
  /\ UNCHANGED <<workVars, editVars, impact, feedbackVars, sandboxLoop, regressionLoop,
                 qualityLoop, infraVars, endVars, historyVars>>

-------------------------------------------------------------------------------
(* apply, apply_tests, apply_code *)

(* The files an output writes and those it deletes. *)
Outputs == {o \in [written : SUBSET Files, gone : SUBSET Files] :
              Cardinality(o.written \cup o.gone) <= MaxNamed}

(* Mutant: apply_code takes test files as well. *)
AcceptedByAnyCoder(n, o) ==
  CASE n = "apply"       -> [written |-> o.written \cap CodeFiles, gone |-> o.gone]
    [] n = "apply_tests" -> [written |-> o.written \cap TestFiles, gone |-> o.gone \cap TestFiles]
    [] n = "apply_code"  -> o

(* The files a node takes from an output.  apply accepts code only, but    *)
(* lets any file be deleted.                                               *)
Accepted(n, o) ==
  CASE n = "apply"       -> [written |-> o.written \cap CodeFiles, gone |-> o.gone]
    [] n = "apply_tests" -> [written |-> o.written \cap TestFiles, gone |-> o.gone \cap TestFiles]
    [] n = "apply_code"  -> [written |-> o.written \cap CodeFiles, gone |-> o.gone \cap CodeFiles]

Nothing == [written |-> {}, gone |-> {}]

Merge(n, o) ==
  /\ manifest' = [f \in Files |-> IF f \in o.gone THEN NoFile
                                  ELSE IF f \in o.written THEN Text(n, revision + 1)
                                  ELSE manifest[f]]
  /\ revision' = revision + 1

(* Nothing is left of the output. *)
WritesNothing(n) ==
  /\ Visit(n)
  /\ \E o \in Outputs : Accepted(n, o) = Nothing
  /\ errors' = TRUE
  /\ Goto(n, "FINISH")
  /\ UNCHANGED <<workVars, editVars, impact, regressionErrors, sandboxLoop, regressionLoop,
                 qualityLoop, infraVars, endVars, historyVars>>

(* apply and apply_code *)
WriteCode(n) ==
  /\ Visit(n)
  /\ \E o \in Outputs : LET taken == Accepted(n, o) IN
       /\ taken # Nothing
       /\ Merge(n, taken)
       /\ deleted' = deleted \cup taken.gone
  /\ errors' = FALSE /\ regressionErrors' = FALSE
  /\ sentBack' = "nobody"
  /\ Goto(n, "regression_check")
  /\ UNCHANGED <<workVars, impact, sandboxLoop, regressionLoop, qualityLoop, infraVars,
                 endVars, verified, held, returns>>

(* The tests are good enough, not tested for quality (only files were      *)
(* deleted), or out of quality loops.                                      *)
WriteTests ==
  /\ Visit("apply_tests")
  /\ \E o \in Outputs : LET taken == Accepted("apply_tests", o) IN
       /\ taken # Nothing
       /\ Merge("apply_tests", taken)
       /\ deleted' = deleted \cup taken.gone
  /\ errors' = FALSE /\ regressionErrors' = FALSE
  /\ qualityLoop' = 0
  /\ Goto("apply_tests", "apply_code")
  /\ UNCHANGED <<workVars, impact, sandboxLoop, regressionLoop, infraVars, endVars, historyVars>>

(* Mutant: the limit is looked at before the loop is counted. *)
ReworkTestsOnceMore ==
  /\ Visit("apply_tests")
  /\ qualityLoop < MaxQualityLoops
  /\ \E o \in Outputs : LET taken == Accepted("apply_tests", o) IN
       /\ taken.written # {}
       /\ Merge("apply_tests", taken)
  /\ qualityLoop' = qualityLoop + 1
  /\ Goto("apply_tests", "apply_tests")
  /\ UNCHANGED <<workVars, deleted, impact, feedbackVars, sandboxLoop, regressionLoop,
                 infraVars, endVars, historyVars>>

(* Tests of poor quality stay in the manifest, but what the output deletes *)
(* is not noted.                                                           *)
ReworkTests ==
  /\ Visit("apply_tests")
  /\ qualityLoop + 1 < MaxQualityLoops
  /\ \E o \in Outputs : LET taken == Accepted("apply_tests", o) IN
       /\ taken.written # {}
       /\ Merge("apply_tests", taken)
  /\ qualityLoop' = qualityLoop + 1
  /\ Goto("apply_tests", "apply_tests")
  /\ UNCHANGED <<workVars, deleted, impact, feedbackVars, sandboxLoop, regressionLoop,
                 infraVars, endVars, historyVars>>

-------------------------------------------------------------------------------
(* regression_check *)

Behavioral == impact \in {"update_existing", "both"}
CodeNode   == IF impact = "none" THEN "apply" ELSE "apply_code"

(* Mutant: the gate gives up a loop too early. *)
GateFailsEarly ==
  LET loop == regressionLoop + 1
      back == loop + 1 < MaxRegressionLoops
  IN /\ regressionErrors' = TRUE
     /\ Goto("regression_check", IF back THEN CodeNode ELSE "verify")
     /\ sentBack' = IF back THEN "regression" ELSE sentBack
     /\ returns' = IF back THEN [returns EXCEPT !["regression"] = @ + 1] ELSE returns
     /\ UNCHANGED held

(* Mutant: a loop too many. *)
GateFailsLate ==
  LET loop == regressionLoop + 1
      back == loop <= MaxRegressionLoops
  IN /\ regressionErrors' = TRUE
     /\ Goto("regression_check", IF back THEN CodeNode ELSE "verify")
     /\ sentBack' = IF back THEN "regression" ELSE sentBack
     /\ returns' = IF back THEN [returns EXCEPT !["regression"] = @ + 1] ELSE returns
     /\ UNCHANGED held

(* _regression_route: back to the code, or on to verify when the loops,    *)
(* which count every visit, are used up.                                   *)
GateFails ==
  LET loop == regressionLoop + 1
      back == loop < MaxRegressionLoops
  IN /\ regressionErrors' = TRUE
     /\ Goto("regression_check", IF back THEN CodeNode ELSE "verify")
     /\ sentBack' = IF back THEN "regression" ELSE sentBack
     /\ returns' = IF back THEN [returns EXCEPT !["regression"] = @ + 1] ELSE returns
     /\ UNCHANGED held

GateHolds ==
  /\ regressionErrors' = FALSE
  /\ Goto("regression_check", "verify")
  /\ held' = [c \in CodeFiles |-> manifest[c]]
  /\ UNCHANGED <<sentBack, returns>>

(* The original tests run on the code of the manifest, in a workspace of   *)
(* their own.  Behaviour that is meant to change must fail them.  Without  *)
(* tests pytest fails: the manifest of the source lists the files the      *)
(* profile requires, the test file among them, and is never without tests. *)
RegressionCheck ==
  /\ Visit("regression_check")
  /\ regressionLoop' = regressionLoop + 1
  /\ \E outcome \in {"passed", "failed", "broken"} :
       /\ outcome = "passed" => \E t \in TestFiles : original[t] # NoFile
       /\ IF outcome = (IF Behavioral THEN "failed" ELSE "passed") THEN GateHolds ELSE GateFails
  /\ UNCHANGED <<workVars, editVars, impact, errors, sandboxLoop, qualityLoop, infraVars,
                 endVars, verified>>

-------------------------------------------------------------------------------
(* verify *)

(* write_manifest_to_disk leaves files that are not in the manifest, and   *)
(* removes every file that was ever deleted, even one that was written     *)
(* again.                                                                  *)
OnDisk == [f \in Files |-> IF f \in deleted THEN NoFile
                           ELSE IF manifest[f] # NoFile THEN manifest[f] ELSE disk[f]]

(* The linters rewrite sources or tests. *)
Linted(files, lint) ==
  [f \in Files |-> IF f \in lint /\ files[f] # NoFile THEN [files[f] EXCEPT !.linted = TRUE]
                   ELSE files[f]]

RunSandbox ==
  /\ Visit("verify")
  /\ sandboxLoop' = sandboxLoop + 1
  /\ UNCHANGED <<source, original, deleted, revision, impact, regressionErrors,
                 regressionLoop, qualityLoop, infraVars, endVars, held>>

(* Mutant: a sandbox that breaks leaves no errors behind. *)
SandboxBreaksSilently(lint) ==
  /\ RunSandbox
  /\ disk' = Linted(OnDisk, lint)
  /\ errors' = FALSE
  /\ Goto("verify", "FINISH")
  /\ UNCHANGED <<manifest, verified, sentBack, returns>>

(* The install fails, or a container times out or cannot be started; the   *)
(* linters may have run by then, but nothing is read back.                 *)
SandboxBreaks(lint) ==
  /\ RunSandbox
  /\ disk' = Linted(OnDisk, lint)
  /\ errors' = TRUE
  /\ Goto("verify", "FINISH")
  /\ UNCHANGED <<manifest, verified, sentBack, returns>>

(* Files that are not blank after the run are read back. *)
ReadBack(files) ==
  [f \in Files |-> IF manifest[f] # NoFile /\ files[f] # NoFile THEN files[f] ELSE manifest[f]]

(* Faults of the code go back while there are loops left; faults of the    *)
(* tests go back always, to plan when the edit may not touch the tests.    *)
Route(verdict) ==
  LET back == verdict = "code_fault" /\ sandboxLoop + 1 < MaxSandboxLoops
  IN /\ Goto("verify", CASE back -> CodeNode
                         [] verdict = "test_fault" ->
                              IF impact = "none" THEN "plan" ELSE "apply_tests"
                         [] OTHER -> "FINISH")
     /\ sentBack' = IF back THEN "sandbox" ELSE "nobody"
     /\ returns' = IF back THEN [returns EXCEPT !["sandbox"] = @ + 1] ELSE returns

(* mypy and pytest fail when there is nothing to check. *)
Passable(files) ==
  /\ \E c \in CodeFiles : files[c] # NoFile
  /\ \E t \in TestFiles : files[t] # NoFile

Judge(verdict, files) ==
  /\ RunSandbox
  /\ verdict = "pass" => Passable(files)
  /\ disk' = files /\ manifest' = ReadBack(files)
  /\ errors' = (verdict # "pass")
  /\ verified' = IF verdict = "pass" THEN files ELSE verified
  /\ Route(verdict)

Verify ==
  \E lint \in SUBSET {CodeFiles, TestFiles} :
    \/ SandboxBreaks(UNION lint)
    \/ \E verdict \in Verdicts : Judge(verdict, Linted(OnDisk, UNION lint))

-------------------------------------------------------------------------------
(* run_edit_task *)

End(s, files) ==
  /\ status = "running"
  /\ status' = s
  /\ result' = files
  /\ UNCHANGED <<node, engineVars, workVars, editVars, impact, feedbackVars, sandboxLoop,
                 regressionLoop, qualityLoop, infraVars, historyVars>>

(* The result is read from the workspace. *)
GraphEnds ==
  /\ node = "FINISH"
  /\ End(IF current = "verify" /\ ~errors THEN "completed"
         ELSE IF infraExhausted THEN "infra_exhausted" ELSE "exhausted", disk)

GraphFails ==
  /\ node \in {"unmapped", "raised"} \/ OutOfSteps
  /\ End("failed", NoFiles)

(* The deadline or a cancellation cuts the graph short. *)
Interrupt == End("interrupted", NoFiles)

Next ==
  \/ LoadSource \/ Analyze \/ Plan
  \/ \E n \in Writers : WritesNothing(n)
  \/ WriteCode("apply") \/ WriteCode("apply_code") \/ WriteTests \/ ReworkTests
  \/ RegressionCheck \/ Verify
  \/ LlmFails \/ NodeRaises \/ GraphEnds \/ GraphFails \/ Interrupt

Spec == Init /\ [][Next]_vars

-------------------------------------------------------------------------------
(* Properties *)

(* A task reads "completed" only for the very files its last sandbox       *)
(* passed, and the manifest the nodes worked on agrees with them: a file   *)
(* of the manifest that was never deleted is in the result as it is, and a *)
(* file that was deleted is not there.                                     *)
CompletedIsVerified ==
  status = "completed" =>
    /\ result = verified
    /\ \A f \in deleted : result[f] = NoFile
    /\ \A f \in Files \ deleted : manifest[f] \in {NoFile, result[f]}

(* While the regression loops last, verify passes no code the gate has not *)
(* let through: what it passed is what the original tests ran on, files    *)
(* that were deleted once aside.                                           *)
CompletedPassedGate ==
  status = "completed" /\ regressionLoop < MaxRegressionLoops =>
    \A c \in CodeFiles \ deleted : SameText(verified[c], held[c])

(* Whoever writes code writes no tests, and an edit without impact on the  *)
(* tests has the tests of the source, or has lost them.                    *)
TestsByTestWriter ==
  /\ \A t \in TestFiles : \/ manifest[t] = NoFile
                          \/ SameText(manifest[t], original[t])
                          \/ manifest[t].by = "apply_tests" /\ impact # "none"
  /\ \A c \in CodeFiles : manifest[c].by # "apply_tests"

(* However faults of code, tests and LLMs alternate, each check sends the  *)
(* code back less often than its limit.                                    *)
ReturnsBounded ==
  /\ returns["sandbox"] < MaxSandboxLoops
  /\ returns["regression"] < MaxRegressionLoops

(* Every node a node asks for has an edge, its own retries included.       *)
RoutesMapped == node # "unmapped"

(* The prompt shows the gate's output if there is any, else the sandbox's. *)
Shown == IF regressionErrors THEN "regression" ELSE IF errors THEN "sandbox" ELSE "nobody"

(* Code that is reworked is reworked with the output of the check that     *)
(* sent it back.  The sandbox's is lost when the visit before met a        *)
(* transient fault of the LLM, or hidden by that of a gate which was out   *)
(* of loops.                                                               *)
FeedbackReachesCode ==
  [][\A n \in {"apply", "apply_code"} :
       node = n /\ node' = "regression_check" /\ sentBack # "nobody" /\ Shown # sentBack
         => sentBack = "sandbox" /\ (current = n \/ regressionLoop >= MaxRegressionLoops)]_vars

(* The sandbox runs at most MaxSandboxLoops times.                         *)
SandboxLoopsBounded == sandboxLoop <= MaxSandboxLoops
===============================================================================
