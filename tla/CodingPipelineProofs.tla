------------------------- MODULE CodingPipelineProofs -------------------------
(***************************************************************************)
(* Proofs about CodingPipeline: its type invariant, that a completed task  *)
(* returns the files its sandbox passed, that implementations are judged   *)
(* by tests written by others and for these tests, that a test suite meets *)
(* the sandbox at most MaxSandboxLoops times and is not given up earlier   *)
(* on account of the code, that contracts settle, and that the designer    *)
(* and the coder are shown the critique and the output that concern them.  *)
(***************************************************************************)
EXTENDS CodingPipeline, TLAPS

USE PipelineAssumption

-------------------------------------------------------------------------------
(* Types *)

(* Following an edge leads to the node it was asked for, or nowhere. *)
LEMMA GotoLeads ==
  ASSUME NEW n, NEW next, Goto(n, next)
  PROVE  node' \in {next, "unmapped"}
BY DEF Goto

LEMMA FileTypes ==
  /\ NoFile \in File
  /\ \A by \in Sources, rev \in Nat : Text(by, rev) \in File
BY DEF NoFile, Text, File, Sources

LEMMA ManifestTypes ==
  /\ NoManifest \in Manifests
  /\ \A s, t \in File, d \in Deps : [src |-> s, tests |-> t, deps |-> d] \in Manifests
  /\ \A m \in Manifests : m.src \in File /\ m.tests \in File /\ m.deps \in Deps
  /\ \A m \in Manifests, s \in File, d \in Deps :
       [m EXCEPT !.src = s, !.deps = d] \in Manifests
BY FileTypes DEF NoManifest, Manifests, Deps

(* Stamps the linters leave do not change what a file is. *)
LEMMA LintedType ==
  ASSUME TypeOK, NEW a \in BOOLEAN, NEW b \in BOOLEAN
  PROVE  LintedFiles(a, b) \in Manifests
BY DEF TypeOK, LintedFiles, Manifests, File

LEMMA LintedDeps ==
  ASSUME NEW a \in BOOLEAN, NEW b \in BOOLEAN, TypeOK
  PROVE  LintedFiles(a, b).deps = manifest.deps
BY DEF TypeOK, LintedFiles, Manifests

(* The outcomes any LLM node may have keep the types. *)
LEMMA TypeFaults ==
  ASSUME TypeOK, NEW n \in LlmNodes,
         RetryNode(n) \/ Incomplete(n) \/ (\E t \in BOOLEAN : GiveUp(n, t))
  PROVE  TypeOK'
<1>1. CASE RetryNode(n)
  <2>1. node' \in {n, "unmapped"}
    BY <1>1, GotoLeads DEF RetryNode
  <2>2. retries' \in [LlmNodes -> 0..InfraMaxRetries]
    BY <1>1 DEF RetryNode, TypeOK
  <2> QED
    BY <1>1, <2>1, <2>2 DEF RetryNode, Visit, SetupWorkspace, TypeOK, Nodes, Deps,
       sandboxVars, contractVars, endVars
<1>2. CASE Incomplete(n)
  <2>1. node' \in {"FINISH", "unmapped"}
    BY <1>2, GotoLeads DEF Incomplete
  <2> QED
    BY <1>2, <2>1 DEF Incomplete, Visit, SetupWorkspace, TypeOK, Nodes, Deps,
       sandboxVars, contractVars, infraVars, endVars
<1>3. ASSUME NEW t \in BOOLEAN, GiveUp(n, t) PROVE TypeOK'
  <2>1. node' \in {"FINISH", "unmapped"}
    BY <1>3, GotoLeads DEF GiveUp
  <2> QED
    BY <1>3, <2>1 DEF GiveUp, Visit, SetupWorkspace, TypeOK, Nodes, Deps,
       sandboxVars, contractVars, endVars
<1> QED BY <1>1, <1>2, <1>3

LEMMA TypeDesigner == ASSUME TypeOK, TestDesigner PROVE TypeOK'
<1>1. ASSUME NEW tests \in {NoFile, Text("designer", revision + 1)},
             NEW deps \in {"absent", "bare"}, DesignTests(tests, deps)
      PROVE  TypeOK'
  <2>1. node' \in {"skeleton_maker", "unmapped"}
    BY <1>1, GotoLeads DEF DesignTests
  <2>2. manifest' \in Manifests
    <3>1. tests \in File
      <4>1. revision + 1 \in Nat /\ "designer" \in Sources
        BY DEF TypeOK, Sources
      <4> QED BY <4>1, FileTypes
    <3> QED BY <1>1, <3>1, FileTypes, ManifestTypes DEF DesignTests, Deps
  <2> QED
    BY <1>1, <2>1, <2>2 DEF DesignTests, Visit, SetupWorkspace, TypeOK, Nodes, LlmNodes,
       Deps, contractVars, infraVars, endVars
<1> QED BY <1>1, TypeFaults DEF TestDesigner, LlmNodes

LEMMA TypeSkeleton == ASSUME TypeOK, SkeletonMaker PROVE TypeOK'
<1>1. ASSUME NEW src \in {NoFile, Text("skeleton", revision)},
             NEW ownTests \in BOOLEAN, NEW ownDeps \in BOOLEAN
      PROVE  Merged(src, ownTests, ownDeps) \in Manifests
  <2>1. src \in File /\ Text("skeleton", revision) \in File
    BY FileTypes DEF Sources, TypeOK
  <2>2. manifest.tests \in File /\ manifest.deps \in Deps
    BY ManifestTypes DEF TypeOK
  <2> QED BY <2>1, <2>2, ManifestTypes DEF Merged, Deps
<1>2. ASSUME NEW files \in Manifests, AcceptContract(files) PROVE TypeOK'
  <2>1. node' \in {"coder", "unmapped"}
    BY <1>2, GotoLeads DEF AcceptContract
  <2> QED
    BY <1>2, <2>1 DEF AcceptContract, VisitSkeleton, Visit, SetupWorkspace, TypeOK, Nodes,
       LlmNodes, Deps, sandboxVars, infraVars, endVars
<1>3. ASSUME NEW about \in {0, revision}, RejectContract(about) PROVE TypeOK'
  <2>1. node' \in {"test_designer", "unmapped"}
    BY <1>3, GotoLeads DEF RejectContract
  <2> QED
    BY <1>3, <2>1 DEF RejectContract, VisitSkeleton, Visit, SetupWorkspace, TypeOK, Nodes,
       LlmNodes, Deps, sandboxVars, infraVars, endVars
<1>4. ASSUME NEW files \in Manifests, NEW about \in {0, revision},
             OverrideContract(files, about)
      PROVE  TypeOK'
  <2>1. node' \in {"coder", "unmapped"}
    BY <1>4, GotoLeads DEF OverrideContract
  <2> QED
    BY <1>4, <2>1 DEF OverrideContract, VisitSkeleton, Visit, SetupWorkspace, TypeOK, Nodes,
       LlmNodes, Deps, sandboxVars, infraVars, endVars
<1> QED BY <1>1, <1>2, <1>3, <1>4, TypeFaults DEF SkeletonMaker, LlmNodes

LEMMA TypeCoder == ASSUME TypeOK, Coder PROVE TypeOK'
<1>1. ASSUME NEW src \in {NoFile, Text("coder", revision)},
             NEW emitted \in {"absent", "base", "libs"}, WriteCode(src, emitted)
      PROVE  TypeOK'
  <2>1. node' \in {"sandbox_arbiter", "unmapped"}
    BY <1>1, GotoLeads DEF WriteCode
  <2>2. manifest' \in Manifests
    <3>1. src \in File
      BY FileTypes DEF Sources, TypeOK
    <3>2. MergedDeps(emitted) \in Deps
      BY ManifestTypes DEF MergedDeps, Deps, TypeOK
    <3> QED BY <1>1, <3>1, <3>2, ManifestTypes DEF WriteCode, TypeOK
  <2> QED
    BY <1>1, <2>1, <2>2 DEF WriteCode, Visit, TypeOK, Nodes, LlmNodes,
       sandboxVars, contractVars, infraVars, endVars
<1> QED BY <1>1, TypeFaults DEF Coder, LlmNodes

(* A verdict leads to one of three places and leaves a count. *)
LEMMA RouteLeads ==
  ASSUME TypeOK, NEW verdict \in Verdicts, Route(verdict)
  PROVE  /\ node' \in {"FINISH", "test_designer", "coder", "unmapped"}
         /\ node' = "coder" => sandboxLoop + 1 < MaxSandboxLoops
                               /\ sandboxLoop' = sandboxLoop + 1
         /\ node' = "FINISH" => verdict \in {"pass", "infra_fault"}
         /\ sandboxLoop' \in Nat
BY DEF Route, Goto, TypeOK, Verdicts

LEMMA TypeArbiter == ASSUME TypeOK, SandboxArbiter PROVE TypeOK'
<1>1. Installed \in Deps
  BY DEF Installed, TypeOK, Manifests
<1>2. CASE SandboxBreaks
  <2>1. node' \in {"FINISH", "unmapped"}
    BY <1>2, GotoLeads DEF SandboxBreaks
  <2> QED
    BY <1>1, <1>2, <2>1 DEF SandboxBreaks, RunSandbox, Visit, TypeOK, Nodes, Verdicts,
       contractVars, infraVars, endVars
<1>3. ASSUME NEW verdict \in Verdicts, NEW files \in Manifests, Judge(verdict, files),
             Route(verdict)
      PROVE  TypeOK'
  <2>1. verified' \in Manifests
    BY <1>1, <1>3 DEF Judge, Manifests, TypeOK
  <2> QED
    BY <1>1, <1>3, <2>1, RouteLeads DEF Judge, RunSandbox, Visit, TypeOK, Nodes, LlmNodes,
       contractVars, infraVars, endVars
<1> QED BY <1>2, <1>3, LintedType DEF SandboxArbiter

LEMMA TypeEnd ==
  ASSUME TypeOK, NodeRaises \/ GraphEnds \/ GraphFails \/ Interrupt
  PROVE  TypeOK'
<1>1. NoManifest \in Manifests
  BY ManifestTypes
<1>2. CASE NodeRaises
  BY <1>2 DEF NodeRaises, TypeOK, engineVars, sandboxVars, contractVars, infraVars, endVars
<1>3. ASSUME NEW s \in Statuses, NEW files \in Manifests, End(s, files) PROVE TypeOK'
  BY <1>3 DEF End, TypeOK, engineVars, sandboxVars, contractVars, infraVars
<1> QED
  BY <1>1, <1>2, <1>3 DEF GraphEnds, GraphFails, Interrupt, Statuses, TypeOK

LEMMA TypeStep == ASSUME TypeOK, [Next]_vars PROVE TypeOK'
<1>1. CASE UNCHANGED vars
  BY <1>1 DEF vars, TypeOK, engineVars, sandboxVars, contractVars, infraVars, endVars
<1> QED
  BY <1>1, TypeDesigner, TypeSkeleton, TypeCoder, TypeArbiter, TypeEnd DEF Next

LEMMA TypeInit == Init => TypeOK
<1> SUFFICES ASSUME Init PROVE TypeOK
  OBVIOUS
<1>1. retries \in [LlmNodes -> 0..InfraMaxRetries] /\ steps \in 0..RecursionLimit
  BY DEF Init
<1>2. /\ manifest \in Manifests /\ verified \in Manifests /\ result \in Manifests
  BY ManifestTypes DEF Init
<1> QED BY <1>1, <1>2 DEF Init, TypeOK, Nodes, LlmNodes, Statuses, Verdicts

(* Every variable keeps its type: counts of retries and supersteps stay    *)
(* within their limits whatever the LLMs and the sandbox do.               *)
THEOREM TypeCorrect == Spec => []TypeOK
<1> QED BY TypeInit, TypeStep, PTL DEF Spec

-------------------------------------------------------------------------------
(* Judged by tests of others *)

(* Wherever the run stands, the tests of the manifest were written by the  *)
(* designer or the skeleton maker in the current revision; at the sandbox  *)
(* there are tests, and the source was written by the coder for them.      *)
TestsOfRevision ==
  \/ manifest.tests = NoFile
  \/ /\ manifest.tests.by \in {"designer", "skeleton"}
     /\ manifest.tests.rev = revision

ReadyForSandbox ==
  node = "sandbox_arbiter" =>
    /\ manifest.tests # NoFile
    /\ \/ manifest.src = NoFile
       \/ manifest.src.by = "coder" /\ manifest.src.rev = revision

ProvenanceInv == TypeOK /\ TestsOfRevision /\ ReadyForSandbox

LEMMA ProvenanceStep ==
  ASSUME ProvenanceInv, [Next]_vars
  PROVE  ProvenanceInv'
<1>1. TypeOK' BY TypeStep DEF ProvenanceInv
<1>2. ASSUME NEW n \in LlmNodes,
             RetryNode(n) \/ Incomplete(n) \/ (\E t \in BOOLEAN : GiveUp(n, t))
      PROVE  TestsOfRevision' /\ ReadyForSandbox'
  <2>1. manifest' = manifest /\ revision' = revision
    BY <1>2 DEF RetryNode, Incomplete, GiveUp
  <2>2. node' \in {n, "FINISH", "unmapped"}
    BY <1>2, GotoLeads DEF RetryNode, Incomplete, GiveUp
  <2> QED BY <2>1, <2>2 DEF ProvenanceInv, TestsOfRevision, ReadyForSandbox, LlmNodes
<1>3. CASE TestDesigner
  <2>1. ASSUME NEW tests \in {NoFile, Text("designer", revision + 1)},
               NEW deps \in {"absent", "bare"}, DesignTests(tests, deps)
        PROVE  TestsOfRevision' /\ ReadyForSandbox'
    <3>1. node' # "sandbox_arbiter"
      BY <2>1, GotoLeads DEF DesignTests
    <3>2. manifest'.tests = tests /\ revision' = revision + 1
      BY <2>1 DEF DesignTests
    <3>3. tests = NoFile \/ (tests.by = "designer" /\ tests.rev = revision + 1)
      BY <2>1 DEF Text
    <3> QED BY <3>1, <3>2, <3>3 DEF TestsOfRevision, ReadyForSandbox
  <2> QED BY <1>1, <1>2, <1>3, <2>1 DEF TestDesigner, LlmNodes, ProvenanceInv
<1>4. CASE SkeletonMaker
  <2>1. ASSUME NEW src, NEW ownTests \in BOOLEAN, NEW ownDeps \in BOOLEAN, NEW about,
               LET files == Merged(src, ownTests, ownDeps)
               IN AcceptContract(files) \/ RejectContract(about)
                    \/ OverrideContract(files, about)
        PROVE  TestsOfRevision' /\ ReadyForSandbox'
    <3>1. node' # "sandbox_arbiter"
      BY <2>1, GotoLeads DEF AcceptContract, RejectContract, OverrideContract
    <3>2. revision' = revision
      BY <2>1 DEF AcceptContract, RejectContract, OverrideContract, VisitSkeleton
    <3>3. manifest'.tests \in {manifest.tests, Text("skeleton", revision)}
      BY <2>1 DEF AcceptContract, RejectContract, OverrideContract, Merged
    <3> QED BY <3>1, <3>2, <3>3 DEF ProvenanceInv, TestsOfRevision, ReadyForSandbox, Text
  <2> QED BY <1>1, <1>2, <1>4, <2>1 DEF SkeletonMaker, LlmNodes, ProvenanceInv
<1>5. CASE Coder
  <2>1. ASSUME NEW src \in {NoFile, Text("coder", revision)}, NEW emitted,
               WriteCode(src, emitted)
        PROVE  TestsOfRevision' /\ ReadyForSandbox'
    <3>1. manifest'.tests = manifest.tests /\ manifest'.src = src /\ revision' = revision
      BY <2>1 DEF WriteCode, ProvenanceInv, TypeOK, Manifests
    <3>2. manifest.tests # NoFile
      BY <2>1 DEF WriteCode
    <3>3. src = NoFile \/ (src.by = "coder" /\ src.rev = revision)
      BY <2>1 DEF Text
    <3> QED BY <3>1, <3>2, <3>3 DEF ProvenanceInv, TestsOfRevision, ReadyForSandbox
  <2> QED BY <1>1, <1>2, <1>5, <2>1 DEF Coder, LlmNodes, ProvenanceInv
<1>6. CASE SandboxArbiter
  <2>1. ASSUME SandboxBreaks PROVE TestsOfRevision' /\ ReadyForSandbox'
    <3>1. manifest' = manifest /\ revision' = revision
      BY <2>1 DEF SandboxBreaks, RunSandbox
    <3>2. node' # "sandbox_arbiter"
      BY <2>1, GotoLeads DEF SandboxBreaks
    <3> QED BY <3>1, <3>2 DEF ProvenanceInv, TestsOfRevision, ReadyForSandbox
  <2>2. ASSUME NEW verdict \in Verdicts, NEW a \in BOOLEAN, NEW b \in BOOLEAN,
               Judge(verdict, LintedFiles(a, b)), Route(verdict)
        PROVE  TestsOfRevision' /\ ReadyForSandbox'
    <3>1. node' # "sandbox_arbiter"
      BY <2>2, RouteLeads DEF ProvenanceInv
    <3>2. manifest.tests # NoFile /\ revision' = revision
      BY <2>2 DEF Judge, RunSandbox, Visit, ProvenanceInv, ReadyForSandbox
    <3>3. manifest'.tests.by = manifest.tests.by /\ manifest'.tests.rev = manifest.tests.rev
      BY <2>2 DEF Judge, LintedFiles, ProvenanceInv, TypeOK, Manifests, File
    <3> QED BY <3>1, <3>2, <3>3 DEF ProvenanceInv, TestsOfRevision, ReadyForSandbox
  <2> QED BY <1>1, <1>6, <2>1, <2>2 DEF SandboxArbiter, ProvenanceInv
<1>7. CASE NodeRaises
  BY <1>1, <1>7 DEF NodeRaises, ProvenanceInv, TestsOfRevision, ReadyForSandbox
<1>8. CASE GraphEnds \/ GraphFails \/ Interrupt \/ UNCHANGED vars
  BY <1>1, <1>8 DEF GraphEnds, GraphFails, Interrupt, End, vars, ProvenanceInv,
     TestsOfRevision, ReadyForSandbox
<1> QED
  BY <1>1, <1>3, <1>4, <1>5, <1>6, <1>7, <1>8 DEF Next, ProvenanceInv

(* The sandbox never judges an implementation by tests the coder wrote,    *)
(* nor by tests of another revision than the one it was written for.       *)
THEOREM JudgedByOthers == Spec => []JudgedByOthersTests
<1>1. Init => ProvenanceInv
  BY TypeInit DEF Init, ProvenanceInv, TestsOfRevision, ReadyForSandbox, NoManifest, NoFile
<1>2. ProvenanceInv => JudgedByOthersTests
  BY DEF ProvenanceInv, TestsOfRevision, ReadyForSandbox, JudgedByOthersTests
<1> QED BY <1>1, <1>2, ProvenanceStep, PTL DEF Spec

-------------------------------------------------------------------------------
(* Completed tasks are verified *)

(* When the graph ended in the arbiter without errors, the manifest is     *)
(* what the sandbox has just passed.                                       *)
PassedIsVerified ==
  node = "FINISH" /\ current = "sandbox_arbiter" /\ errors = "none" =>
    /\ manifest.src = verified.src /\ manifest.tests = verified.tests
    /\ manifest.deps \in {verified.deps, "absent"}
    /\ diagnosis = "pass"

VerifiedInv == TypeOK /\ PassedIsVerified /\ CompletedIsVerified

LEMMA VerifiedStep ==
  ASSUME VerifiedInv, [Next]_vars
  PROVE  VerifiedInv'
<1>1. TypeOK' BY TypeStep DEF VerifiedInv
<1>2. ASSUME NEW n \in Nodes, Visit(n), UNCHANGED endVars
      PROVE  CompletedIsVerified'
  BY <1>2 DEF Visit, endVars, CompletedIsVerified
<1>3. ASSUME NEW n \in LlmNodes, Visit(n)
      PROVE  PassedIsVerified'
  BY <1>3 DEF Visit, LlmNodes, PassedIsVerified
<1>4. CASE TestDesigner
  <2>1. Visit("test_designer") /\ UNCHANGED endVars
    BY <1>4 DEF TestDesigner, RetryNode, GiveUp, Incomplete, DesignTests
  <2> QED BY <1>1, <1>2, <1>3, <2>1 DEF VerifiedInv, LlmNodes, Nodes
<1>5. CASE SkeletonMaker
  <2>1. Visit("skeleton_maker") /\ UNCHANGED endVars
    BY <1>5 DEF SkeletonMaker, RetryNode, GiveUp, Incomplete, AcceptContract,
       RejectContract, OverrideContract, VisitSkeleton
  <2> QED BY <1>1, <1>2, <1>3, <2>1 DEF VerifiedInv, LlmNodes, Nodes
<1>6. CASE Coder
  <2>1. Visit("coder") /\ UNCHANGED endVars
    BY <1>6 DEF Coder, RetryNode, GiveUp, Incomplete, WriteCode
  <2> QED BY <1>1, <1>2, <1>3, <2>1 DEF VerifiedInv, LlmNodes, Nodes
<1>7. CASE SandboxArbiter
  <2>1. Visit("sandbox_arbiter") /\ UNCHANGED endVars
    BY <1>7 DEF SandboxArbiter, SandboxBreaks, Judge, RunSandbox
  <2>2. ASSUME SandboxBreaks PROVE PassedIsVerified'
    BY <2>2 DEF SandboxBreaks, PassedIsVerified
  <2>3. ASSUME NEW verdict \in Verdicts, NEW files \in Manifests,
               files.deps = manifest.deps, Judge(verdict, files)
        PROVE  PassedIsVerified'
    <3>1. CASE verdict = "pass"
      <4>1. manifest' = files /\ verified' = [files EXCEPT !.deps = Installed]
        BY <2>3, <3>1 DEF Judge
      <4> QED BY <2>3, <3>1, <4>1 DEF Judge, PassedIsVerified, Installed, Manifests
    <3>2. CASE verdict # "pass"
      BY <2>3, <3>2 DEF Judge, PassedIsVerified
    <3> QED BY <3>1, <3>2
  <2> QED BY <1>1, <1>2, <1>7, <2>1, <2>2, <2>3, LintedType, LintedDeps
       DEF SandboxArbiter, VerifiedInv, Nodes
<1>8. CASE NodeRaises
  BY <1>1, <1>8 DEF NodeRaises, VerifiedInv, PassedIsVerified, CompletedIsVerified, endVars
<1>9. CASE GraphEnds
  BY <1>1, <1>9 DEF GraphEnds, End, VerifiedInv, PassedIsVerified, CompletedIsVerified,
     engineVars, sandboxVars
<1>10. CASE GraphFails \/ Interrupt
  BY <1>1, <1>10 DEF GraphFails, Interrupt, End, VerifiedInv, PassedIsVerified,
     CompletedIsVerified, engineVars, sandboxVars
<1>11. CASE UNCHANGED vars
  BY <1>1, <1>11 DEF vars, VerifiedInv, PassedIsVerified, CompletedIsVerified,
     engineVars, sandboxVars, endVars
<1> QED BY <1>4, <1>5, <1>6, <1>7, <1>8, <1>9, <1>10, <1>11 DEF Next

(* A completed task returns the very source and tests its last sandbox     *)
(* passed, and no requirements other than those it installed.              *)
THEOREM CompletedVerified == Spec => []CompletedIsVerified
<1>1. Init => VerifiedInv
  BY TypeInit DEF Init, VerifiedInv, PassedIsVerified, CompletedIsVerified
<1>2. VerifiedInv => CompletedIsVerified
  BY DEF VerifiedInv
<1> QED BY <1>1, <1>2, VerifiedStep, PTL DEF Spec

-------------------------------------------------------------------------------
(* Loops *)

(* From the skeleton to the sandbox the count of loops is the number of    *)
(* runs of the current tests, and one more is allowed.                     *)
LoopInv ==
  /\ TypeOK
  /\ runs <= MaxSandboxLoops
  /\ node = "skeleton_maker" => sandboxLoop = runs /\ runs < MaxSandboxLoops
  /\ node \in {"coder", "sandbox_arbiter"} => sandboxLoop = runs /\ runs < MaxSandboxLoops

LEMMA LoopStep ==
  ASSUME LoopInv, [Next]_vars
  PROVE  LoopInv'
<1>1. TypeOK' BY TypeStep DEF LoopInv
<1>2. ASSUME NEW n \in LlmNodes,
             RetryNode(n) \/ Incomplete(n) \/ (\E t \in BOOLEAN : GiveUp(n, t))
      PROVE  LoopInv'
  <2>1. UNCHANGED <<sandboxLoop, runs>> /\ node = n
    BY <1>2 DEF RetryNode, Incomplete, GiveUp, Visit, sandboxVars
  <2>2. node' \in {n, "FINISH", "unmapped"}
    BY <1>2, GotoLeads DEF RetryNode, Incomplete, GiveUp
  <2> QED BY <1>1, <2>1, <2>2 DEF LoopInv, LlmNodes
<1>3. ASSUME NEW tests, NEW deps, DesignTests(tests, deps) PROVE LoopInv'
  <2>1. sandboxLoop' = 0 /\ runs' = 0
    BY <1>3 DEF DesignTests
  <2> QED BY <1>1, <2>1 DEF LoopInv
<1>4. ASSUME NEW files, NEW about,
             AcceptContract(files) \/ RejectContract(about) \/ OverrideContract(files, about)
      PROVE  LoopInv'
  <2>1. UNCHANGED <<sandboxLoop, runs>> /\ node = "skeleton_maker"
    BY <1>4 DEF AcceptContract, RejectContract, OverrideContract, VisitSkeleton, Visit,
       sandboxVars
  <2> QED BY <1>1, <2>1 DEF LoopInv
<1>5. ASSUME NEW src, NEW emitted, WriteCode(src, emitted) PROVE LoopInv'
  <2>1. UNCHANGED <<sandboxLoop, runs>> /\ node = "coder"
    BY <1>5 DEF WriteCode, Visit, sandboxVars
  <2> QED BY <1>1, <2>1 DEF LoopInv
<1>6. CASE SandboxArbiter
  <2>1. runs' = runs + 1 /\ node = "sandbox_arbiter"
    BY <1>6 DEF SandboxArbiter, SandboxBreaks, Judge, RunSandbox, Visit
  <2>2. runs < MaxSandboxLoops /\ runs \in Nat /\ sandboxLoop = runs
    BY <2>1 DEF LoopInv, TypeOK
  <2>3. /\ node' \in {"FINISH", "test_designer", "coder", "unmapped"}
        /\ node' = "coder" => sandboxLoop' = runs + 1 /\ runs + 1 < MaxSandboxLoops
    BY <1>6, <2>2, GotoLeads, RouteLeads DEF SandboxArbiter, SandboxBreaks, LoopInv
  <2> QED BY <1>1, <2>1, <2>2, <2>3 DEF LoopInv
<1>7. CASE NodeRaises
  BY <1>1, <1>7 DEF NodeRaises, LoopInv, sandboxVars
<1>8. CASE GraphEnds \/ GraphFails \/ Interrupt \/ UNCHANGED vars
  BY <1>1, <1>8 DEF GraphEnds, GraphFails, Interrupt, End, vars, LoopInv, sandboxVars
<1>9. CASE TestDesigner
  BY <1>2, <1>3, <1>9 DEF TestDesigner, LlmNodes
<1>10. CASE SkeletonMaker
  BY <1>2, <1>4, <1>10 DEF SkeletonMaker, LlmNodes
<1>11. CASE Coder
  BY <1>2, <1>5, <1>11 DEF Coder, LlmNodes
<1> QED BY <1>6, <1>7, <1>8, <1>9, <1>10, <1>11 DEF Next

(* A test suite meets the sandbox at most MaxSandboxLoops times before it  *)
(* is designed anew, and the count the coder is sent back with is exact.   *)
THEOREM LoopsBounded == Spec => []LoopsPerPlan
<1>1. Init => LoopInv
  BY TypeInit DEF Init, LoopInv
<1>2. LoopInv => LoopsPerPlan
  BY DEF LoopInv, LoopsPerPlan
<1> QED BY <1>1, <1>2, LoopStep, PTL DEF Spec

-------------------------------------------------------------------------------
(* What the conditional edges let a step do, for the properties below.     *)

(* A node that runs leads to a successor of its own. *)
LEMMA Successors ==
  ASSUME TypeOK, Next
  PROVE  /\ TestDesigner   => node = "test_designer"
                               /\ node' \in {"test_designer", "skeleton_maker", "FINISH", "unmapped"}
         /\ SkeletonMaker  => node = "skeleton_maker"
                               /\ node' \in {"test_designer", "coder", "FINISH", "unmapped"}
         /\ Coder          => node = "coder"
                               /\ node' \in {"coder", "sandbox_arbiter", "FINISH", "unmapped"}
         /\ SandboxArbiter => node = "sandbox_arbiter"
                               /\ node' \in {"test_designer", "coder", "FINISH", "unmapped"}
<1>1. ASSUME TestDesigner
      PROVE  /\ node = "test_designer"
             /\ node' \in {"test_designer", "skeleton_maker", "FINISH", "unmapped"}
  BY <1>1, GotoLeads DEF TestDesigner, RetryNode, GiveUp, Incomplete, DesignTests, Visit
<1>2. ASSUME SkeletonMaker
      PROVE  /\ node = "skeleton_maker"
             /\ node' \in {"test_designer", "coder", "FINISH", "unmapped"}
  <2>1. "skeleton_maker" \notin Edges["skeleton_maker"]
    BY DEF Edges
  <2>2. Goto("skeleton_maker", "skeleton_maker") => node' = "unmapped"
    BY <2>1 DEF Goto
  <2>3. CASE RetryNode("skeleton_maker")
    BY <2>2, <2>3 DEF RetryNode, Visit
  <2>4. CASE ~RetryNode("skeleton_maker")
    BY <1>2, <2>4, GotoLeads DEF SkeletonMaker, GiveUp, Incomplete, AcceptContract,
       RejectContract, OverrideContract, VisitSkeleton, Visit
  <2> QED BY <2>3, <2>4
<1>3. ASSUME Coder
      PROVE  /\ node = "coder"
             /\ node' \in {"coder", "sandbox_arbiter", "FINISH", "unmapped"}
  BY <1>3, GotoLeads DEF Coder, RetryNode, GiveUp, Incomplete, WriteCode, Visit
<1>4. ASSUME SandboxArbiter
      PROVE  /\ node = "sandbox_arbiter"
             /\ node' \in {"test_designer", "coder", "FINISH", "unmapped"}
  BY <1>4, GotoLeads, RouteLeads
     DEF SandboxArbiter, SandboxBreaks, Judge, RunSandbox, Visit
<1> QED BY <1>1, <1>2, <1>3, <1>4

(* Every other step leads nowhere and changes only the end of the run.     *)
LEMMA EndLeads ==
  ASSUME NodeRaises \/ GraphEnds \/ GraphFails \/ Interrupt \/ UNCHANGED vars
  PROVE  /\ node' \in {node, "raised"}
         /\ UNCHANGED <<errors, current, runs, contractVars, revision>>
BY DEF NodeRaises, GraphEnds, GraphFails, Interrupt, End, vars, engineVars, sandboxVars,
   contractVars

-------------------------------------------------------------------------------
(* The contract *)

(* Loops count at least the rejections, and a rejection needs a loop. *)
ContractInv ==
  /\ rejections <= contractLoop
  /\ ContractSettles

(* Except where the skeleton maker has yet to read new tests, whatever     *)
(* critique there is is about the tests of this revision.                  *)
CritiqueInv ==
  node \in {"test_designer", "coder", "sandbox_arbiter"} => critique \in {0, revision}

LEMMA ContractStep ==
  ASSUME TypeOK, ContractInv, CritiqueInv, [Next]_vars
  PROVE  ContractInv' /\ CritiqueInv'
<1> USE DEF ContractInv, ContractSettles, CritiqueInv, TypeOK
<1>1. ASSUME UNCHANGED contractVars
      PROVE  ContractInv'
  BY <1>1 DEF contractVars
<1>2. CASE TestDesigner
  <2>1. UNCHANGED contractVars /\ (revision' = revision \/ node' \in {"skeleton_maker", "unmapped"})
    BY <1>2, GotoLeads DEF TestDesigner, RetryNode, GiveUp, Incomplete, DesignTests
  <2> QED BY <1>1, <1>2, <2>1, Successors DEF contractVars, Next
<1>3. CASE SkeletonMaker
  <2>1. ASSUME NEW n, RetryNode(n) \/ Incomplete(n) \/ (\E t \in BOOLEAN : GiveUp(n, t)),
               n = "skeleton_maker"
        PROVE  ContractInv' /\ CritiqueInv'
    <3>1. "skeleton_maker" \notin Edges["skeleton_maker"]
      BY DEF Edges
    <3>2. UNCHANGED contractVars /\ node' \in {"FINISH", "unmapped"}
      BY <2>1, <3>1 DEF RetryNode, GiveUp, Incomplete, Goto
    <3> QED BY <1>1, <3>2
  <2>2. ASSUME NEW files, NEW about \in {0, revision},
               AcceptContract(files) \/ RejectContract(about) \/ OverrideContract(files, about)
        PROVE  ContractInv' /\ CritiqueInv'
    BY <2>2 DEF AcceptContract, RejectContract, OverrideContract, VisitSkeleton
  <2> QED BY <1>3, <2>1, <2>2 DEF SkeletonMaker
<1>4. CASE Coder
  <2>1. UNCHANGED contractVars /\ revision' = revision
    BY <1>4 DEF Coder, RetryNode, GiveUp, Incomplete, WriteCode
  <2> QED BY <1>1, <1>4, <2>1, Successors DEF contractVars, Next
<1>5. CASE SandboxArbiter
  <2>1. UNCHANGED contractVars /\ revision' = revision
    BY <1>5 DEF SandboxArbiter, SandboxBreaks, Judge, RunSandbox
  <2> QED BY <1>1, <1>5, <2>1, Successors DEF contractVars, Next
<1>6. CASE NodeRaises \/ GraphEnds \/ GraphFails \/ Interrupt \/ UNCHANGED vars
  BY <1>1, <1>6, EndLeads DEF contractVars
<1> QED BY <1>2, <1>3, <1>4, <1>5, <1>6 DEF Next

LEMMA ContractInvariant == Spec => [](TypeOK /\ ContractInv /\ CritiqueInv)
<1>1. Init => ContractInv /\ CritiqueInv
  BY DEF Init, ContractInv, ContractSettles, CritiqueInv
<1> QED BY <1>1, TypeInit, TypeStep, ContractStep, PTL DEF Spec

(* For any limits: however often the sandbox sends the task back to the    *)
(* designer, it is asked for a better contract at most MaxContractLoops    *)
(* times, since nothing gives these loops back.                            *)
THEOREM ContractSettled == Spec => []ContractSettles
<1>1. ContractInv => ContractSettles
  BY DEF ContractInv
<1> QED BY <1>1, ContractInvariant, PTL

(* For any limits: the critique the designer is given, on its first visit, *)
(* on a retry or after a replan, is about the tests it is shown.           *)
THEOREM CritiqueCurrent == Spec => []CritiqueIsCurrent
<1>1. CritiqueInv => CritiqueIsCurrent
  BY DEF CritiqueInv, CritiqueIsCurrent
<1> QED BY <1>1, ContractInvariant, PTL

-------------------------------------------------------------------------------
(* Budgets and feedback *)

(* For any limits: the arbiter sends a task back to the designer only on   *)
(* account of the tests, or when they have met the sandbox                 *)
(* MaxSandboxLoops times.                                                  *)
THEOREM FullBudget == Spec => FullBudgetBeforeReplan
<1> DEFINE Budget == node = "sandbox_arbiter" /\ node' = "test_designer"
                       => diagnosis' = "test_fault" \/ runs' = MaxSandboxLoops
<1>1. LoopInv /\ [Next]_vars => [Budget]_vars
  <2> SUFFICES ASSUME LoopInv, Next, node = "sandbox_arbiter", node' = "test_designer"
               PROVE  diagnosis' = "test_fault" \/ runs' = MaxSandboxLoops
    OBVIOUS
  <2>1. SandboxArbiter
    <3>1. TypeOK
      BY DEF LoopInv
    <3> QED BY <3>1, Successors, EndLeads DEF Next
  <2>2. ~SandboxBreaks
    BY GotoLeads DEF SandboxBreaks
  <2>3. PICK verdict \in Verdicts, a \in BOOLEAN, b \in BOOLEAN :
          Judge(verdict, LintedFiles(a, b)) /\ Route(verdict)
    BY <2>1, <2>2 DEF SandboxArbiter
  <2>4. verdict = "test_fault" \/ ~(sandboxLoop + 1 < MaxSandboxLoops)
    BY <2>3 DEF Route, Goto, Verdicts
  <2>5. diagnosis' = verdict /\ runs' = runs + 1
    BY <2>3 DEF Judge, RunSandbox
  <2> QED BY <2>4, <2>5 DEF LoopInv, TypeOK
<1>2. Init => LoopInv
  BY TypeInit DEF Init, LoopInv
<1> QED BY <1>1, <1>2, LoopStep, PTL DEF Spec, FullBudgetBeforeReplan

(* Where the coder is next after a sandbox run, the output of that run is  *)
(* there, or a transient fault of the coder's LLM has wiped it.  New tests *)
(* have not met the sandbox when the skeleton maker is next.               *)
FeedbackInv ==
  /\ node = "skeleton_maker" => runs = 0
  /\ node = "coder" /\ runs > 0 => errors = "output" \/ current = "coder"

LEMMA FeedbackStep ==
  ASSUME TypeOK, FeedbackInv, [Next]_vars
  PROVE  FeedbackInv'
<1> USE DEF FeedbackInv, TypeOK
<1>1. CASE TestDesigner
  <2>1. node' # "skeleton_maker" \/ runs' = 0
    BY <1>1, GotoLeads DEF TestDesigner, RetryNode, GiveUp, Incomplete, DesignTests
  <2> QED BY <1>1, <2>1, Successors DEF Next
<1>2. CASE SkeletonMaker
  <2>1. runs' = runs
    BY <1>2 DEF SkeletonMaker, RetryNode, GiveUp, Incomplete, AcceptContract,
       RejectContract, OverrideContract, VisitSkeleton, sandboxVars
  <2> QED BY <1>2, <2>1, Successors DEF Next
<1>3. CASE Coder
  <2>1. node' = "coder" => RetryNode("coder")
    BY <1>3, GotoLeads DEF Coder, GiveUp, Incomplete, WriteCode
  <2>2. RetryNode("coder") => current' = "coder"
    BY DEF RetryNode, Visit
  <2> QED BY <1>3, <2>1, <2>2, Successors DEF Next
<1>4. CASE SandboxArbiter
  <2>1. node' = "coder" => errors' = "output"
    <3>1. ASSUME NEW verdict \in Verdicts, NEW files \in Manifests, Judge(verdict, files),
                 Route(verdict), node' = "coder"
          PROVE  errors' = "output"
      <4>1. verdict # "pass"
        BY <3>1 DEF Route, Goto
      <4> QED BY <3>1, <4>1 DEF Judge
    <3> QED BY <1>4, <3>1, GotoLeads, LintedType DEF SandboxArbiter, SandboxBreaks
  <2> QED BY <1>4, <2>1, Successors DEF Next
<1>5. CASE NodeRaises \/ GraphEnds \/ GraphFails \/ Interrupt \/ UNCHANGED vars
  BY <1>5, EndLeads
<1> QED BY <1>1, <1>2, <1>3, <1>4, <1>5 DEF Next

(* For any limits: a coder that hands code to the sandbox again has been   *)
(* shown the output of the last run, unless a transient fault of its LLM   *)
(* wiped it in the visit before.                                           *)
THEOREM FeedbackReached == Spec => FeedbackReachesCoder
<1> DEFINE Fed == node = "coder" /\ node' = "sandbox_arbiter" /\ runs > 0
                    => errors = "output" \/ current = "coder"
<1>1. FeedbackInv => [Fed]_vars
  BY DEF FeedbackInv
<1>2. Init => FeedbackInv
  BY DEF Init, FeedbackInv
<1> QED BY <1>1, <1>2, TypeInit, TypeStep, FeedbackStep, PTL DEF Spec, FeedbackReachesCoder
===============================================================================
