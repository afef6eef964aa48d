---------------------------- MODULE CodingPipeline ----------------------------
(***************************************************************************)
(* One run of the coding graph: a test designer, a skeleton maker and a    *)
(* coder, each an LLM call whose output is parsed and merged into the file *)
(* manifest, and an arbiter that installs the dependencies, runs linters   *)
(* and tests on the manifest, and routes on the verdict.  Nodes run one at *)
(* a time; every conditional edge follows the next_node the node wrote.    *)
(* run_swarm_task turns the end of the graph into the status of the task.  *)
(***************************************************************************)
EXTENDS Integers

CONSTANTS
  MaxSandboxLoops,    \* MAX_SANDBOX_LOOPS
  MaxContractLoops,   \* MAX_CONTRACT_LOOPS
  InfraMaxRetries,    \* INFRA_MAX_RETRIES
  RecursionLimit,     \* supersteps the graph engine allows a run
  ExternalContract    \* the planner submitted a contract with the job

ASSUME PipelineAssumption ==
  /\ MaxSandboxLoops \in Nat \ {0}
  /\ MaxContractLoops \in Nat
  /\ InfraMaxRetries \in Nat
  /\ RecursionLimit \in Nat
  /\ ExternalContract \in BOOLEAN

LlmNodes == {"test_designer", "skeleton_maker", "coder"}
Nodes    == LlmNodes \cup {"sandbox_arbiter"}
Statuses == {"running", "completed", "exhausted", "infra_exhausted", "failed", "interrupted"}
Verdicts == {"pass", "test_fault", "code_fault", "infra_fault"}

(* What the manifest holds of a file: the node whose output it comes from, *)
(* the revision of the tests it was written for, and whether the linters   *)
(* have rewritten it since.  The code reads a missing and an empty file    *)
(* alike.                                                                  *)
NoFile  == [by |-> "none", rev |-> 0, linted |-> FALSE]
Sources == {"designer", "skeleton", "coder"}
File    == [by : Sources \cup {"none"}, rev : Nat, linted : BOOLEAN]
Text(by, rev) == [by |-> by, rev |-> rev, linted |-> FALSE]

(* A requirements file: absent, the tooling of the profile alone, tooling  *)
(* and third-party libraries, or a file without the tooling.               *)
Deps == {"absent", "base", "libs", "bare"}

Manifests == [src : File, tests : File, deps : Deps]
NoManifest == [src |-> NoFile, tests |-> NoFile, deps |-> "absent"]

VARIABLES
  node,         \* node to run next, "FINISH", or why there is none
  steps,        \* supersteps so far
  current,      \* current_node of the runner: the node that ran last
  manifest,     \* file_manifest
  workDeps,     \* requirements file in the workspace
  errors,       \* sandbox_errors: empty, a diagnostic, or a sandbox's output
  diagnosis,    \* sandbox_diagnostics: verdict of the sandbox, "none" if empty
  sandboxLoop, contractLoop, contractExhausted,
  critique,     \* revision of the tests contract_critique is about, 0 if empty
  retries,      \* llm_infra_retries
  infraExhausted,
  status, result,   \* what run_swarm_task returns
  revision,     \* history: test suites designed so far
  runs,         \* history: sandbox runs since the tests were last designed
  verified,     \* history: what the last passing sandbox ran on
  rejections    \* history: contracts the skeleton maker sent back

engineVars  == <<steps, current>>
contractVars == <<contractLoop, contractExhausted, critique, rejections>>
infraVars   == <<retries, infraExhausted>>
sandboxVars == <<sandboxLoop, runs, verified>>
endVars     == <<status, result>>
vars == <<node, engineVars, manifest, workDeps, errors, diagnosis, sandboxVars,
          contractVars, infraVars, endVars, revision>>

TypeOK ==
  /\ node \in Nodes \cup {"FINISH", "unmapped", "raised"}
  /\ steps \in 0..RecursionLimit
  /\ current \in Nodes \cup {"initializing"}
  /\ manifest \in Manifests
  /\ workDeps \in Deps
  /\ errors \in {"none", "diagnostic", "output"}
  /\ diagnosis \in Verdicts \cup {"none"}
  /\ sandboxLoop \in Nat /\ contractLoop \in Nat
  /\ contractExhausted \in BOOLEAN
  /\ critique \in Nat
  /\ retries \in [LlmNodes -> 0..InfraMaxRetries]
  /\ infraExhausted \in BOOLEAN
  /\ status \in Statuses
  /\ result \in Manifests
  /\ revision \in Nat /\ runs \in Nat /\ rejections \in Nat
  /\ verified \in Manifests

(* A job that is run again finds the requirements of the earlier run in    *)
(* its workspace.                                                          *)
Init ==
  /\ node = "test_designer" /\ current = "initializing"
  /\ steps = 0
  /\ manifest = NoManifest
  /\ workDeps \in Deps
  /\ errors = "none" /\ diagnosis = "none"
  /\ sandboxLoop = 0 /\ contractLoop = 0 /\ critique = 0
  /\ contractExhausted = FALSE /\ infraExhausted = FALSE
  /\ retries = [n \in LlmNodes |-> 0]
  /\ status = "running" /\ result = NoManifest
  /\ revision = 0 /\ runs = 0 /\ rejections = 0 /\ verified = NoManifest

-------------------------------------------------------------------------------
(* The engine *)

(* The conditional edges; skeleton_maker has none back to itself. *)
Edges == [test_designer   |-> {"skeleton_maker", "test_designer", "FINISH"},
          skeleton_maker  |-> {"coder", "test_designer", "FINISH"},
          coder           |-> {"sandbox_arbiter", "coder", "FINISH"},
          sandbox_arbiter |-> {"test_designer", "coder", "FINISH"}]

(* Following an edge that is not mapped raises. *)
Goto(n, next) == node' = IF next \in Edges[n] THEN next ELSE "unmapped"

Visit(n) ==
  /\ status = "running"
  /\ node = n
  /\ steps < RecursionLimit
  /\ steps' = steps + 1
  /\ current' = n

(* setup_workspace writes the scaffolding that is not there yet. *)
SetupWorkspace == workDeps' = IF workDeps = "absent" THEN "base" ELSE workDeps

(* Mutant: a retry too many. *)
RetryNodeOneMore(n) ==
  /\ Visit(n)
  /\ retries[n] <= InfraMaxRetries
  /\ retries' = [retries EXCEPT ![n] = @ + 1]
  /\ errors' = "none"
  /\ Goto(n, n)
  /\ IF n = "coder" THEN UNCHANGED workDeps ELSE SetupWorkspace
  /\ UNCHANGED <<manifest, diagnosis, sandboxVars, contractVars, infraExhausted, endVars,
                 revision>>

(* _handle_llm_unavailable: a transient fault is retried by visiting the   *)
(* node again, which forgets the errors the node was to work on ...        *)
RetryNode(n) ==
  /\ Visit(n)
  /\ retries[n] < InfraMaxRetries
  /\ retries' = [retries EXCEPT ![n] = @ + 1]
  /\ errors' = "none"
  /\ Goto(n, n)
  /\ IF n = "coder" THEN UNCHANGED workDeps ELSE SetupWorkspace
  /\ UNCHANGED <<manifest, diagnosis, sandboxVars, contractVars, infraExhausted, endVars,
                 revision>>

(* ... a permanent one, or a transient one out of budget, ends the graph. *)
GiveUp(n, transient) ==
  /\ Visit(n)
  /\ transient => retries[n] = InfraMaxRetries
  /\ infraExhausted' = TRUE
  /\ errors' = "diagnostic"
  /\ Goto(n, "FINISH")
  /\ IF n = "coder" THEN UNCHANGED workDeps ELSE SetupWorkspace
  /\ UNCHANGED <<manifest, diagnosis, sandboxVars, contractVars, retries, endVars, revision>>

(* The output of the LLM lacks a required file, or the manifest lacks one  *)
(* the node builds on.                                                     *)
Incomplete(n) ==
  /\ Visit(n)
  /\ errors' = "diagnostic"
  /\ Goto(n, "FINISH")
  /\ IF n = "coder" THEN UNCHANGED workDeps ELSE SetupWorkspace
  /\ UNCHANGED <<manifest, diagnosis, sandboxVars, contractVars, infraVars, endVars, revision>>

(* A node raises; at the step limit the engine does. *)
NodeRaises ==
  /\ status = "running" /\ node \in Nodes /\ steps < RecursionLimit
  /\ node' = "raised"
  /\ UNCHANGED <<engineVars, manifest, workDeps, errors, diagnosis, sandboxVars,
                 contractVars, infraVars, endVars, revision>>

OutOfSteps == node \in Nodes /\ steps = RecursionLimit

-------------------------------------------------------------------------------
(* test_designer *)

(* Mutant: the contract loops start over with every test suite. *)
DesignTestsResetting(tests, deps) ==
  /\ Visit("test_designer")
  /\ SetupWorkspace
  /\ manifest' = [src |-> NoFile, tests |-> tests, deps |-> deps]
  /\ errors' = "none" /\ diagnosis' = "none"
  /\ sandboxLoop' = 0 /\ contractLoop' = 0
  /\ Goto("test_designer", "skeleton_maker")
  /\ revision' = revision + 1 /\ runs' = 0
  /\ UNCHANGED <<verified, contractExhausted, critique, rejections, infraVars, endVars>>

(* A new manifest of the designer's files alone.  A source it adds is      *)
(* replaced by the skeleton's before any node reads it.                    *)
DesignTests(tests, deps) ==
  /\ Visit("test_designer")
  /\ SetupWorkspace
  /\ manifest' = [src |-> NoFile, tests |-> tests, deps |-> deps]
  /\ errors' = "none" /\ diagnosis' = "none"
  /\ sandboxLoop' = 0
  /\ Goto("test_designer", "skeleton_maker")
  /\ revision' = revision + 1 /\ runs' = 0
  /\ UNCHANGED <<verified, contractVars, infraVars, endVars>>

TestDesigner ==
  \/ RetryNode("test_designer")
  \/ \E transient \in BOOLEAN : GiveUp("test_designer", transient)
  \/ Incomplete("test_designer")
  \/ \E tests \in {NoFile, Text("designer", revision + 1)}, deps \in {"absent", "bare"} :
       DesignTests(tests, deps)

-------------------------------------------------------------------------------
(* skeleton_maker *)

(* The skeleton's files on top of the manifest: files it writes beyond the *)
(* sources replace the designer's. *)
Merged(src, ownTests, ownDeps) ==
  [src   |-> src,
   tests |-> IF ownTests THEN Text("skeleton", revision) ELSE manifest.tests,
   deps  |-> IF ownDeps THEN "bare" ELSE manifest.deps]

VisitSkeleton ==
  /\ Visit("skeleton_maker")
  /\ manifest.tests # NoFile
  /\ SetupWorkspace
  /\ errors' = "none" /\ diagnosis' = "none"
  /\ UNCHANGED <<sandboxVars, infraVars, endVars, revision>>

(* Mutant: the critique of an earlier round is kept. *)
AcceptKeepingCritique(files) ==
  /\ VisitSkeleton
  /\ manifest' = files
  /\ Goto("skeleton_maker", "coder")
  /\ UNCHANGED contractVars

(* The verdict is "compatible", or a contract of the planner overrules it. *)
AcceptContract(files) ==
  /\ VisitSkeleton
  /\ manifest' = files
  /\ critique' = 0
  /\ Goto("skeleton_maker", "coder")
  /\ UNCHANGED <<contractLoop, contractExhausted, rejections>>

RejectContract(about) ==
  /\ VisitSkeleton
  /\ ~ExternalContract
  /\ contractLoop < MaxContractLoops
  /\ contractLoop' = contractLoop + 1
  /\ critique' = about
  /\ rejections' = rejections + 1
  /\ Goto("skeleton_maker", "test_designer")
  /\ UNCHANGED <<manifest, contractExhausted>>

(* Out of contract loops: on to the coder, compatible or not. *)
OverrideContract(files, about) ==
  /\ VisitSkeleton
  /\ ~ExternalContract
  /\ contractLoop >= MaxContractLoops
  /\ contractLoop' = contractLoop + 1
  /\ contractExhausted' = TRUE
  /\ critique' = about
  /\ manifest' = files
  /\ Goto("skeleton_maker", "coder")
  /\ UNCHANGED rejections

SkeletonMaker ==
  \/ manifest.tests = NoFile /\ Incomplete("skeleton_maker")
  \/ /\ manifest.tests # NoFile
     /\ \/ RetryNode("skeleton_maker")
        \/ \E transient \in BOOLEAN : GiveUp("skeleton_maker", transient)
        \/ Incomplete("skeleton_maker")
  \/ \E src \in {NoFile, Text("skeleton", revision)}, ownTests, ownDeps \in BOOLEAN,
        about \in {0, revision} :
       LET files == Merged(src, ownTests, ownDeps)
       IN AcceptContract(files) \/ RejectContract(about) \/ OverrideContract(files, about)

-------------------------------------------------------------------------------
(* coder *)

(* Requirements the coder writes are merged with the tooling; otherwise    *)
(* those of the manifest stay.                                             *)
MergedDeps(emitted) == IF emitted = "absent" THEN manifest.deps ELSE emitted

(* Mutant: every file of the coder goes into the manifest. *)
WriteCodeAndTests(src, emitted) ==
  /\ Visit("coder")
  /\ manifest.src # NoFile /\ manifest.tests # NoFile
  /\ \E tests \in {manifest.tests, Text("coder", revision)} :
       manifest' = [src |-> src, tests |-> tests, deps |-> MergedDeps(emitted)]
  /\ errors' = "none" /\ diagnosis' = "none"
  /\ Goto("coder", "sandbox_arbiter")
  /\ UNCHANGED <<workDeps, sandboxVars, contractVars, infraVars, endVars, revision>>

(* The coder replaces the source and keeps the tests. *)
WriteCode(src, emitted) ==
  /\ Visit("coder")
  /\ manifest.src # NoFile /\ manifest.tests # NoFile
  /\ manifest' = [manifest EXCEPT !.src = src, !.deps = MergedDeps(emitted)]
  /\ errors' = "none" /\ diagnosis' = "none"
  /\ Goto("coder", "sandbox_arbiter")
  /\ UNCHANGED <<workDeps, sandboxVars, contractVars, infraVars, endVars, revision>>

Coder ==
  \/ manifest.src # NoFile /\ manifest.tests # NoFile /\ RetryNode("coder")
  \/ \E transient \in BOOLEAN :
       manifest.src # NoFile /\ manifest.tests # NoFile /\ GiveUp("coder", transient)
  \/ Incomplete("coder")
  \/ \E src \in {NoFile, Text("coder", revision)}, emitted \in {"absent", "base", "libs"} :
       WriteCode(src, emitted)

-------------------------------------------------------------------------------
(* sandbox_arbiter *)

(* write_manifest_to_disk replaces sources and tests; requirements of an   *)
(* earlier manifest stay when the new one has none.                        *)
Installed == IF manifest.deps = "absent" THEN workDeps ELSE manifest.deps

RunSandbox ==
  /\ Visit("sandbox_arbiter")
  /\ workDeps' = Installed
  /\ runs' = runs + 1
  /\ UNCHANGED <<contractVars, infraVars, endVars, revision>>

(* The install fails twice, or a container times out or cannot be started: *)
(* the manifest is not read back.                                          *)
SandboxBreaks ==
  /\ RunSandbox
  /\ sandboxLoop' = sandboxLoop + 1
  /\ errors' = "output" /\ diagnosis' = "infra_fault"
  /\ Goto("sandbox_arbiter", "FINISH")
  /\ UNCHANGED <<manifest, verified>>

(* The linters rewrite the files before the tests run; the arbiter reads   *)
(* them back. *)
LintedFiles(lintSrc, lintTests) ==
  [manifest EXCEPT !.src.linted = @ \/ lintSrc, !.tests.linted = @ \/ lintTests]

(* Mutant: the files are not read back. *)
JudgeUnread(verdict, files) ==
  /\ RunSandbox
  /\ manifest' = manifest
  /\ diagnosis' = verdict
  /\ verified' = IF verdict = "pass" THEN [files EXCEPT !.deps = Installed] ELSE verified
  /\ errors' = IF verdict = "pass" THEN "none" ELSE "output"

(* Mutant: files the linters changed come back without the output. *)
JudgeSilentWhenLinted(verdict, files) ==
  /\ RunSandbox
  /\ manifest' = files
  /\ diagnosis' = verdict
  /\ verified' = IF verdict = "pass" THEN [files EXCEPT !.deps = Installed] ELSE verified
  /\ errors' = IF verdict = "pass" \/ files # manifest THEN "none" ELSE "output"

Judge(verdict, files) ==
  /\ RunSandbox
  /\ manifest' = files
  /\ diagnosis' = verdict
  /\ verified' = IF verdict = "pass" THEN [files EXCEPT !.deps = Installed] ELSE verified
  /\ errors' = IF verdict = "pass" THEN "none" ELSE "output"

(* Mutant: a sandbox run too many. *)
RouteOneMore(verdict) ==
  LET loop == sandboxLoop + 1
      next == CASE verdict \in {"pass", "infra_fault"}               -> "FINISH"
                [] verdict = "code_fault" /\ loop <= MaxSandboxLoops -> "coder"
                [] OTHER                                             -> "test_designer"
  IN /\ Goto("sandbox_arbiter", next)
     /\ sandboxLoop' = IF next = "test_designer" THEN 0 ELSE loop

(* Mutant: a sandbox run too few. *)
RouteOneFewer(verdict) ==
  LET loop == sandboxLoop + 1
      next == CASE verdict \in {"pass", "infra_fault"}                  -> "FINISH"
                [] verdict = "code_fault" /\ loop + 1 < MaxSandboxLoops -> "coder"
                [] OTHER                                                -> "test_designer"
  IN /\ Goto("sandbox_arbiter", next)
     /\ sandboxLoop' = IF next = "test_designer" THEN 0 ELSE loop

(* Faults of the code go back to the coder until the loops are used up;    *)
(* then, and on faults of the tests, the designer starts over.             *)
Route(verdict) ==
  LET loop == sandboxLoop + 1
      next == CASE verdict \in {"pass", "infra_fault"}              -> "FINISH"
                [] verdict = "code_fault" /\ loop < MaxSandboxLoops -> "coder"
                [] OTHER                                            -> "test_designer"
  IN /\ Goto("sandbox_arbiter", next)
     /\ sandboxLoop' = IF next = "test_designer" THEN 0 ELSE loop

(* Without its tooling the first check fails, as a fault of the code.      *)
SandboxArbiter ==
  \/ SandboxBreaks
  \/ \E verdict \in Verdicts, lintSrc, lintTests \in BOOLEAN :
       /\ Installed = "bare" => verdict = "code_fault" /\ ~lintSrc /\ ~lintTests
       /\ lintSrc => manifest.src # NoFile
       /\ Judge(verdict, LintedFiles(lintSrc, lintTests))
       /\ Route(verdict)

-------------------------------------------------------------------------------
(* run_swarm_task *)

End(s, files) ==
  /\ status = "running"
  /\ status' = s
  /\ result' = files
  /\ UNCHANGED <<node, engineVars, manifest, workDeps, errors, diagnosis, sandboxVars,
                 contractVars, infraVars, revision>>

GraphEnds ==
  /\ node = "FINISH"
  /\ End(IF current = "sandbox_arbiter" /\ errors = "none" THEN "completed"
         ELSE IF infraExhausted THEN "infra_exhausted" ELSE "exhausted", manifest)

GraphFails ==
  /\ node \in {"unmapped", "raised"} \/ OutOfSteps
  /\ End("failed", NoManifest)

(* The deadline or a cancellation cuts the graph short. *)
Interrupt == End("interrupted", NoManifest)

Next ==
  \/ TestDesigner \/ SkeletonMaker \/ Coder \/ SandboxArbiter
  \/ NodeRaises \/ GraphEnds \/ GraphFails \/ Interrupt

Spec == Init /\ [][Next]_vars

-------------------------------------------------------------------------------
(* Properties *)

(* A task reads "completed" only for the very files its last sandbox       *)
(* passed: source and tests as the linters left them, and the requirements *)
(* of the result, if it has any, as they were installed.                   *)
CompletedIsVerified ==
  status = "completed" =>
    /\ result.src = verified.src /\ result.tests = verified.tests
    /\ result.deps \in {verified.deps, "absent"}
    /\ diagnosis = "pass"

(* The sandbox judges an implementation by tests the coder did not write,  *)
(* and one written for these tests and no earlier ones.                    *)
JudgedByOthersTests ==
  node = "sandbox_arbiter" =>
    /\ manifest.tests.by \in {"designer", "skeleton"}
    /\ manifest.src # NoFile => manifest.src.by = "coder" /\ manifest.src.rev = manifest.tests.rev

(* However often nodes are retried, a test suite meets the sandbox at most *)
(* MaxSandboxLoops times, and the coder knows how many are left.           *)
LoopsPerPlan ==
  /\ runs <= MaxSandboxLoops
  /\ node \in {"coder", "sandbox_arbiter"} => sandboxLoop = runs

(* A plan is given up on account of the code only after all its loops.     *)
FullBudgetBeforeReplan ==
  [][node = "sandbox_arbiter" /\ node' = "test_designer"
       => diagnosis' = "test_fault" \/ runs' = MaxSandboxLoops]_vars

(* The critique the designer is given is about the tests it is shown, not  *)
(* about tests it has since replaced.                                      *)
CritiqueIsCurrent ==
  node = "test_designer" => critique \in {0, revision}

(* However often the sandbox sends the task back, the designer is asked    *)
(* for a better contract at most MaxContractLoops times.                   *)
ContractSettles == rejections <= MaxContractLoops

(* A coder that reworks its code after a sandbox run is shown the output   *)
(* of that run, unless its last visit met a transient fault of its LLM,    *)
(* which wiped it.                                                         *)
FeedbackReachesCoder ==
  [][node = "coder" /\ node' = "sandbox_arbiter" /\ runs > 0
       => errors = "output" \/ current = "coder"]_vars

(* A transient fault within the budget leads back to the node it hit.      *)
TransientFaultRetries ==
  [][\A n \in LlmNodes : retries'[n] > retries[n] => node' = n]_vars
===============================================================================
