------------------------ MODULE EditingPipelineProofs ------------------------
(***************************************************************************)
(* Proofs about EditingPipeline, for any files, outputs and limits: its    *)
(* type invariant, that every route has an edge, who writes tests, how     *)
(* often the checks send code back and with what, and what a completed     *)
(* edit has passed.                                                        *)
(***************************************************************************)
EXTENDS EditingPipeline, TLAPS

USE EditingAssumption
    DEF engineVars, workVars, editVars, feedbackVars, infraVars, endVars, historyVars

-------------------------------------------------------------------------------
(* Files and routes *)

LEMMA NodeNames ==
  /\ Writers \subseteq LlmNodes /\ LlmNodes \subseteq Nodes
  /\ Nodes = {"load_source", "analyze", "plan", "apply", "apply_tests", "apply_code",
              "regression_check", "verify"}
  /\ LlmNodes = {"analyze", "plan", "apply", "apply_tests", "apply_code"}
BY DEF Writers, LlmNodes, Nodes

(* Every route a node asks for is mapped. *)
LEMMA EdgesMapped ==
  /\ "analyze" \in Edges["load_source"]
  /\ "plan" \in Edges["analyze"]
  /\ "apply" \in Edges["plan"] /\ "apply_tests" \in Edges["plan"]
  /\ "apply_code" \in Edges["apply_tests"]
  /\ "regression_check" \in Edges["apply"] /\ "regression_check" \in Edges["apply_code"]
  /\ \A next \in {"verify", "apply", "apply_code"} : next \in Edges["regression_check"]
  /\ \A next \in {"apply", "apply_code", "apply_tests", "plan", "FINISH"} :
       next \in Edges["verify"]
  /\ \A n \in LlmNodes : n \in Edges[n] /\ "FINISH" \in Edges[n]
BY NodeNames DEF Edges

LEMMA GotoLeads ==
  ASSUME NEW n, NEW next \in Edges[n], Goto(n, next)
  PROVE  node' = next
BY DEF Goto

LEMMA FileTypes ==
  /\ NoFile \in File
  /\ \A by \in Writers \cup {"source", "earlier"}, rev \in Nat : Text(by, rev) \in File
  /\ \A by, rev : Text(by, rev).by = by /\ Text(by, rev).rev = rev
  /\ NoFiles \in FileMaps
BY DEF NoFile, Text, File, NoFiles, FileMaps

(* The linters' stamp changes neither the text of a file nor whether it is *)
(* there.                                                                  *)
LEMMA LintKeeps ==
  ASSUME NEW files \in FileMaps, NEW lint
  PROVE  /\ Linted(files, lint) \in FileMaps
         /\ \A f \in Files : /\ SameText(Linted(files, lint)[f], files[f])
                             /\ Linted(files, lint)[f] = NoFile <=> files[f] = NoFile
<1>1. ASSUME NEW f \in Files
      PROVE  /\ [files[f] EXCEPT !.linted = TRUE] \in File
             /\ SameText([files[f] EXCEPT !.linted = TRUE], files[f])
             /\ [files[f] EXCEPT !.linted = TRUE] # NoFile
  BY DEF FileMaps, File, SameText, NoFile
<1>2. \A f \in Files : files[f] \in File
  BY DEF FileMaps
<1> QED BY <1>1, <1>2 DEF Linted, FileMaps, SameText

LEMMA OnDiskType == TypeOK => OnDisk \in FileMaps
BY FileTypes DEF TypeOK, OnDisk, FileMaps

LEMMA ReadBackType ==
  ASSUME TypeOK, NEW files \in FileMaps
  PROVE  ReadBack(files) \in FileMaps
BY DEF TypeOK, ReadBack, FileMaps

(* What is read back are the texts of the manifest, as the linters left    *)
(* them.                                                                   *)
LEMMA ReadBackKeeps ==
  ASSUME TypeOK, NEW lint, NEW files, files = Linted(OnDisk, lint), NEW f \in Files
  PROVE  /\ SameText(ReadBack(files)[f], manifest[f])
         /\ ReadBack(files)[f] = NoFile <=> manifest[f] = NoFile
         /\ f \in deleted => files[f] = NoFile
         /\ f \notin deleted /\ manifest[f] # NoFile =>
              ReadBack(files)[f] = files[f] /\ SameText(files[f], manifest[f])
<1>1. SameText(files[f], OnDisk[f]) /\ (files[f] = NoFile <=> OnDisk[f] = NoFile)
  BY OnDiskType, LintKeeps
<1>2. OnDisk[f] = IF f \in deleted THEN NoFile
                  ELSE IF manifest[f] # NoFile THEN manifest[f] ELSE disk[f]
  BY DEF OnDisk
<1>3. ReadBack(files)[f] = IF manifest[f] # NoFile /\ files[f] # NoFile THEN files[f]
                                                                       ELSE manifest[f]
  BY DEF ReadBack
<1> QED BY <1>1, <1>2, <1>3 DEF SameText

LEMMA AcceptedTypes ==
  ASSUME NEW n \in Writers, NEW o \in Outputs
  PROVE  /\ Accepted(n, o).written \subseteq Files /\ Accepted(n, o).gone \subseteq Files
         /\ n # "apply_tests" => Accepted(n, o).written \subseteq CodeFiles
         /\ n = "apply_tests" => /\ Accepted(n, o).written \subseteq TestFiles
                                 /\ Accepted(n, o).gone \subseteq TestFiles
BY DEF Writers, Outputs, Accepted, Files

(* A file after a merge is gone, new, or as it was. *)
LEMMA MergeFiles ==
  ASSUME TypeOK, NEW n \in Writers, NEW o, Merge(n, o)
  PROVE  /\ manifest' \in FileMaps /\ revision' \in Nat
         /\ \A f \in Files : \/ f \in o.gone /\ manifest'[f] = NoFile
                             \/ f \in o.written /\ manifest'[f].by = n
                             \/ f \notin o.gone /\ manifest'[f] = manifest[f]
<1>1. Text(n, revision + 1) \in File /\ Text(n, revision + 1).by = n
  BY FileTypes DEF TypeOK
<1>2. \A f \in Files : manifest'[f] = IF f \in o.gone THEN NoFile
                                      ELSE IF f \in o.written THEN Text(n, revision + 1)
                                      ELSE manifest[f]
  BY DEF Merge
<1>3. manifest' \in FileMaps
  BY <1>1, FileTypes DEF Merge, TypeOK, FileMaps
<1>4. revision' \in Nat
  BY DEF Merge, TypeOK
<1> QED BY <1>1, <1>2, <1>3, <1>4

LEMMA CountsReturn ==
  ASSUME TypeOK, NEW check \in {"sandbox", "regression"}
  PROVE  /\ [returns EXCEPT ![check] = @ + 1] \in [{"sandbox", "regression"} -> Nat]
         /\ [returns EXCEPT ![check] = @ + 1][check] = returns[check] + 1
         /\ \A other \in {"sandbox", "regression"} \ {check} :
              [returns EXCEPT ![check] = @ + 1][other] = returns[other]
BY DEF TypeOK

-------------------------------------------------------------------------------
(* Types and routes *)

RouteInv == TypeOK /\ RoutesMapped

LEMMA VisitType ==
  ASSUME TypeOK, NEW n \in Nodes, Visit(n)
  PROVE  steps' \in 0..RecursionLimit /\ current' \in Nodes
BY DEF TypeOK, Visit

LEMMA RouteLlmFails ==
  ASSUME RouteInv, LlmFails
  PROVE  RouteInv'
<1> USE DEF RouteInv, RoutesMapped, TypeOK
<1>1. ASSUME NEW n \in LlmNodes, RetryNode(n) PROVE RouteInv'
  <2>1. node' = n
    BY <1>1, EdgesMapped, GotoLeads DEF RetryNode
  <2>2. steps' \in 0..RecursionLimit /\ current' \in Nodes
    BY <1>1, VisitType, NodeNames DEF RetryNode
  <2>3. retries' \in [LlmNodes -> 0..InfraMaxRetries]
    BY <1>1 DEF RetryNode
  <2> QED BY <1>1, <2>1, <2>2, <2>3, NodeNames DEF RetryNode
<1>2. ASSUME NEW n \in LlmNodes, NEW t \in BOOLEAN, GiveUp(n, t) PROVE RouteInv'
  <2>1. node' = "FINISH"
    BY <1>2, EdgesMapped, GotoLeads DEF GiveUp
  <2>2. steps' \in 0..RecursionLimit /\ current' \in Nodes
    BY <1>2, VisitType, NodeNames DEF GiveUp
  <2> QED BY <1>2, <2>1, <2>2 DEF GiveUp
<1> QED BY <1>1, <1>2 DEF LlmFails

LEMMA RoutePlanning ==
  ASSUME RouteInv, LoadSource \/ Analyze \/ Plan
  PROVE  RouteInv'
<1> USE DEF RouteInv, RoutesMapped, TypeOK
<1>1. Loaded \in FileMaps
  BY DEF Loaded, FileMaps
<1>2. CASE LoadSource
  <2>1. node' = "analyze"
    BY <1>2, EdgesMapped, GotoLeads DEF LoadSource
  <2>2. steps' \in 0..RecursionLimit /\ current' \in Nodes
    BY <1>2, VisitType, NodeNames DEF LoadSource
  <2> QED BY <1>1, <1>2, <2>1, <2>2, NodeNames DEF LoadSource
<1>3. CASE Analyze
  <2>1. node' = "plan"
    BY <1>3, EdgesMapped, GotoLeads DEF Analyze
  <2>2. steps' \in 0..RecursionLimit /\ current' \in Nodes
    BY <1>3, VisitType, NodeNames DEF Analyze
  <2> QED BY <1>3, <2>1, <2>2, NodeNames DEF Analyze
<1>4. CASE Plan
  <2>1. node' \in {"apply", "apply_tests"}
    BY <1>4, EdgesMapped, GotoLeads DEF Plan
  <2>2. steps' \in 0..RecursionLimit /\ current' \in Nodes
    BY <1>4, VisitType, NodeNames DEF Plan
  <2> QED BY <1>4, <2>1, <2>2, NodeNames DEF Plan
<1> QED BY <1>2, <1>3, <1>4

LEMMA RouteWriting ==
  ASSUME RouteInv,
         \/ \E n \in Writers : WritesNothing(n)
         \/ WriteCode("apply") \/ WriteCode("apply_code") \/ WriteTests \/ ReworkTests
  PROVE  RouteInv'
<1> USE DEF RouteInv, RoutesMapped, TypeOK
<1>1. ASSUME NEW n \in Writers, WritesNothing(n) PROVE RouteInv'
  <2>1. node' = "FINISH"
    BY <1>1, EdgesMapped, GotoLeads, NodeNames DEF WritesNothing
  <2>2. steps' \in 0..RecursionLimit /\ current' \in Nodes
    BY <1>1, VisitType, NodeNames DEF WritesNothing
  <2> QED BY <1>1, <2>1, <2>2 DEF WritesNothing
<1>2. ASSUME NEW n \in {"apply", "apply_code"}, WriteCode(n) PROVE RouteInv'
  <2>1. node' = "regression_check" /\ n \in Writers /\ n \in Nodes
    BY <1>2, EdgesMapped, GotoLeads, NodeNames DEF WriteCode, Writers
  <2>2. steps' \in 0..RecursionLimit /\ current' \in Nodes
    BY <1>2, <2>1, VisitType DEF WriteCode
  <2>3. manifest' \in FileMaps /\ revision' \in Nat /\ deleted' \in SUBSET Files
    BY <1>2, <2>1, AcceptedTypes, MergeFiles DEF WriteCode
  <2> QED BY <1>2, <2>1, <2>2, <2>3, NodeNames DEF WriteCode
<1>3. "apply_tests" \in Writers
  BY DEF Writers
<1>4. CASE WriteTests
  <2>1. node' = "apply_code"
    BY <1>4, EdgesMapped, GotoLeads DEF WriteTests
  <2>2. steps' \in 0..RecursionLimit /\ current' \in Nodes
    BY <1>4, VisitType, NodeNames DEF WriteTests
  <2>3. manifest' \in FileMaps /\ revision' \in Nat /\ deleted' \in SUBSET Files
    BY <1>3, <1>4, AcceptedTypes, MergeFiles DEF WriteTests
  <2>4. qualityLoop' \in 0..(MaxQualityLoops - 1)
    BY <1>4 DEF WriteTests, MaxQualityLoops
  <2> QED BY <1>4, <2>1, <2>2, <2>3, <2>4, NodeNames DEF WriteTests
<1>5. CASE ReworkTests
  <2>1. node' = "apply_tests"
    BY <1>5, EdgesMapped, GotoLeads, NodeNames DEF ReworkTests
  <2>2. steps' \in 0..RecursionLimit /\ current' \in Nodes
    BY <1>5, VisitType, NodeNames DEF ReworkTests
  <2>3. manifest' \in FileMaps /\ revision' \in Nat
    BY <1>3, <1>5, AcceptedTypes, MergeFiles DEF ReworkTests
  <2>4. qualityLoop' \in 0..(MaxQualityLoops - 1)
    BY <1>5 DEF ReworkTests, MaxQualityLoops
  <2> QED BY <1>5, <2>1, <2>2, <2>3, <2>4, NodeNames DEF ReworkTests
<1> QED BY <1>1, <1>2, <1>4, <1>5

(* Where the regression check leads. *)
LEMMA GateLeads ==
  ASSUME TypeOK, RegressionCheck
  PROVE  /\ node = "regression_check" /\ regressionLoop' = regressionLoop + 1
         /\ \/ GateHolds /\ node' = "verify"
            \/ /\ GateFails /\ regressionLoop + 1 < MaxRegressionLoops /\ node' = CodeNode
               /\ sentBack' = "regression"
               /\ returns' = [returns EXCEPT !["regression"] = @ + 1]
            \/ /\ GateFails /\ regressionLoop + 1 >= MaxRegressionLoops /\ node' = "verify"
               /\ UNCHANGED <<sentBack, returns>>
<1>1. node = "regression_check" /\ regressionLoop' = regressionLoop + 1
  BY DEF RegressionCheck, Visit
<1>2. CodeNode \in {"apply", "apply_code"}
  BY DEF CodeNode
<1>3. CASE GateHolds
  BY <1>1, <1>3, EdgesMapped, GotoLeads DEF GateHolds
<1>4. CASE GateFails
  BY <1>1, <1>2, <1>4, EdgesMapped, GotoLeads DEF GateFails, TypeOK
<1> QED BY <1>3, <1>4 DEF RegressionCheck

LEMMA RouteGate ==
  ASSUME RouteInv, RegressionCheck
  PROVE  RouteInv'
<1> USE DEF RouteInv, RoutesMapped, TypeOK
<1>1. node' \in {"verify", "apply", "apply_code"}
  BY GateLeads DEF CodeNode
<1>2. steps' \in 0..RecursionLimit /\ current' \in Nodes
  BY VisitType, NodeNames DEF RegressionCheck
<1>3. regressionErrors' \in BOOLEAN /\ sentBack' \in {"nobody", "sandbox", "regression"}
  BY GateLeads DEF GateHolds, GateFails
<1>4. returns' \in [{"sandbox", "regression"} -> Nat]
  BY GateLeads, CountsReturn DEF GateHolds
<1>5. held' \in [CodeFiles -> File]
  <2>1. \A c \in CodeFiles : manifest[c] \in File
    BY DEF FileMaps, Files
  <2> QED BY <2>1, GateLeads DEF GateHolds, GateFails
<1> QED BY <1>1, <1>2, <1>3, <1>4, <1>5, NodeNames DEF RegressionCheck

(* Where a verdict leads. *)
LEMMA VerdictLeads ==
  ASSUME TypeOK, NEW verdict \in Verdicts, Route(verdict)
  PROVE  \/ /\ verdict = "code_fault" /\ sandboxLoop + 1 < MaxSandboxLoops /\ node' = CodeNode
            /\ sentBack' = "sandbox"
            /\ returns' = [returns EXCEPT !["sandbox"] = @ + 1]
         \/ /\ verdict = "test_fault"
            /\ node' = IF impact = "none" THEN "plan" ELSE "apply_tests"
            /\ sentBack' = "nobody" /\ returns' = returns
         \/ node' = "FINISH" /\ sentBack' = "nobody" /\ returns' = returns
<1>1. CodeNode \in {"apply", "apply_code"}
  BY DEF CodeNode
<1>2. CASE verdict = "code_fault" /\ sandboxLoop + 1 < MaxSandboxLoops
  BY <1>1, <1>2, EdgesMapped, GotoLeads DEF Route
<1>3. CASE verdict = "test_fault"
  BY <1>3, EdgesMapped, GotoLeads DEF Route
<1>4. CASE verdict # "test_fault" /\ ~(verdict = "code_fault" /\ sandboxLoop + 1 < MaxSandboxLoops)
  BY <1>4, EdgesMapped, GotoLeads DEF Route
<1> QED BY <1>2, <1>3, <1>4

LEMMA RouteVerify ==
  ASSUME RouteInv, Verify
  PROVE  RouteInv'
<1> USE DEF RouteInv, RoutesMapped, TypeOK
<1>1. ASSUME NEW lint, SandboxBreaks(lint) PROVE RouteInv'
  <2>1. node' = "FINISH"
    BY <1>1, EdgesMapped, GotoLeads DEF SandboxBreaks
  <2>2. steps' \in 0..RecursionLimit /\ current' \in Nodes
    BY <1>1, VisitType, NodeNames DEF SandboxBreaks, RunSandbox
  <2>3. disk' \in FileMaps
    BY <1>1, OnDiskType, LintKeeps DEF SandboxBreaks
  <2> QED BY <1>1, <2>1, <2>2, <2>3 DEF SandboxBreaks, RunSandbox
<1>2. ASSUME NEW verdict \in Verdicts, NEW files \in FileMaps, Judge(verdict, files)
      PROVE  RouteInv'
  <2>1. Route(verdict)
    BY <1>2 DEF Judge
  <2>2. node' \in {"apply", "apply_code", "apply_tests", "plan", "FINISH"}
    BY <2>1, VerdictLeads DEF CodeNode
  <2>3. steps' \in 0..RecursionLimit /\ current' \in Nodes
    BY <1>2, VisitType, NodeNames DEF Judge, RunSandbox
  <2>4. returns' \in [{"sandbox", "regression"} -> Nat]
    BY <2>1, VerdictLeads, CountsReturn
  <2>5. sentBack' \in {"nobody", "sandbox", "regression"}
    BY <2>1, VerdictLeads
  <2>6. disk' \in FileMaps /\ manifest' \in FileMaps /\ verified' \in FileMaps
    BY <1>2, ReadBackType DEF Judge
  <2>7. errors' \in BOOLEAN
    BY <1>2 DEF Judge
  <2> QED BY <1>2, <2>2, <2>3, <2>4, <2>5, <2>6, <2>7, NodeNames DEF Judge, RunSandbox
<1> QED BY <1>1, <1>2, OnDiskType, LintKeeps DEF Verify

LEMMA RouteEnd ==
  ASSUME RouteInv, NodeRaises \/ GraphEnds \/ GraphFails \/ Interrupt \/ UNCHANGED vars
  PROVE  RouteInv'
<1> USE DEF RouteInv, RoutesMapped, TypeOK
<1>1. CASE NodeRaises
  BY <1>1 DEF NodeRaises
<1>2. ASSUME NEW s \in Statuses, NEW files \in FileMaps, End(s, files) PROVE RouteInv'
  BY <1>2 DEF End
<1>3. CASE GraphEnds \/ GraphFails \/ Interrupt
  BY <1>2, <1>3, FileTypes DEF GraphEnds, GraphFails, Interrupt, Statuses
<1>4. CASE UNCHANGED vars
  BY <1>4 DEF vars
<1> QED BY <1>1, <1>3, <1>4

LEMMA RouteStep == RouteInv /\ [Next]_vars => RouteInv'
BY RouteLlmFails, RoutePlanning, RouteWriting, RouteGate, RouteVerify, RouteEnd DEF Next

LEMMA RouteInit == Init => RouteInv
<1> SUFFICES ASSUME Init PROVE RouteInv
  OBVIOUS
<1>1. /\ source \in FileMaps /\ disk \in FileMaps
  BY FileTypes DEF Init, FileMaps
<1>2. held \in [CodeFiles -> File] /\ retries \in [LlmNodes -> 0..InfraMaxRetries]
  BY FileTypes DEF Init
<1>3. steps \in 0..RecursionLimit /\ qualityLoop \in 0..(MaxQualityLoops - 1)
  BY DEF Init, MaxQualityLoops
<1>4. returns \in [{"sandbox", "regression"} -> Nat]
  BY DEF Init
<1> QED BY <1>1, <1>2, <1>3, <1>4, FileTypes, NodeNames
       DEF Init, RouteInv, RoutesMapped, TypeOK, Impacts, Statuses

LEMMA RouteInvariant == Spec => []RouteInv
BY RouteInit, RouteStep, PTL DEF Spec

(* Every variable keeps its type: retries, supersteps and quality loops    *)
(* stay within their limits whatever the LLMs and the sandboxes do.        *)
THEOREM TypeCorrect == Spec => []TypeOK
<1>1. RouteInv => TypeOK
  BY DEF RouteInv
<1> QED BY <1>1, RouteInvariant, PTL

(* For any limits: no node ever asks for an edge the graph does not have.  *)
THEOREM AllRoutesMapped == Spec => []RoutesMapped
<1>1. RouteInv => RoutesMapped
  BY DEF RouteInv
<1> QED BY <1>1, RouteInvariant, PTL

-------------------------------------------------------------------------------
(* Steps of the graph *)

(* Where each action of a node comes from and leads to.                    *)
LEMMA Successors ==
  ASSUME TypeOK
  PROVE  /\ LoadSource => node = "load_source" /\ node' = "analyze"
         /\ Analyze => node = "analyze" /\ node' = "plan"
         /\ Plan => node = "plan" /\ node' = IF impact = "none" THEN "apply" ELSE "apply_tests"
         /\ \A n \in Writers : WritesNothing(n) => node = n /\ node' = "FINISH"
         /\ \A n \in {"apply", "apply_code"} :
              WriteCode(n) => node = n /\ node' = "regression_check"
         /\ WriteTests => node = "apply_tests" /\ node' = "apply_code"
         /\ ReworkTests => node = "apply_tests" /\ node' = "apply_tests"
         /\ \A n \in LlmNodes : RetryNode(n) => node = n /\ node' = n
         /\ \A n \in LlmNodes, t \in BOOLEAN : GiveUp(n, t) => node = n /\ node' = "FINISH"
<1>1. ASSUME NEW n \in Writers PROVE WritesNothing(n) => node = n /\ node' = "FINISH"
  BY <1>1, EdgesMapped, GotoLeads, NodeNames DEF WritesNothing, Visit
<1>2. ASSUME NEW n \in {"apply", "apply_code"}
      PROVE  WriteCode(n) => node = n /\ node' = "regression_check"
  BY <1>2, EdgesMapped, GotoLeads DEF WriteCode, Visit
<1>3. ASSUME NEW n \in LlmNodes PROVE RetryNode(n) => node = n /\ node' = n
  BY <1>3, EdgesMapped, GotoLeads DEF RetryNode, Visit
<1>4. ASSUME NEW n \in LlmNodes, NEW t \in BOOLEAN
      PROVE  GiveUp(n, t) => node = n /\ node' = "FINISH"
  BY <1>4, EdgesMapped, GotoLeads DEF GiveUp, Visit
<1>5. /\ LoadSource => node = "load_source" /\ node' = "analyze"
      /\ Analyze => node = "analyze" /\ node' = "plan"
      /\ Plan => node = "plan" /\ node' = IF impact = "none" THEN "apply" ELSE "apply_tests"
  BY EdgesMapped, GotoLeads DEF LoadSource, Analyze, Plan, Visit
<1>6. /\ WriteTests => node = "apply_tests" /\ node' = "apply_code"
      /\ ReworkTests => node = "apply_tests" /\ node' = "apply_tests"
  BY EdgesMapped, GotoLeads, NodeNames DEF WriteTests, ReworkTests, Visit
<1> QED BY <1>1, <1>2, <1>3, <1>4, <1>5, <1>6

(* Verify either breaks, and ends the graph, or judges files that the      *)
(* linters have been over.                                                 *)
LEMMA VerifyCases ==
  ASSUME TypeOK, Verify
  PROVE  /\ node = "verify"
         /\ \E lint \in SUBSET Files :
              \/ SandboxBreaks(lint) /\ node' = "FINISH"
              \/ \E verdict \in Verdicts :
                   Judge(verdict, Linted(OnDisk, lint)) /\ Route(verdict)
<1>1. node = "verify"
  BY DEF Verify, SandboxBreaks, Judge, RunSandbox, Visit
<1>2. PICK lint \in SUBSET {CodeFiles, TestFiles} :
        \/ SandboxBreaks(UNION lint)
        \/ \E verdict \in Verdicts : Judge(verdict, Linted(OnDisk, UNION lint))
  BY DEF Verify
<1>3. UNION lint \in SUBSET Files
  BY DEF Files
<1>4. SandboxBreaks(UNION lint) => node' = "FINISH"
  BY EdgesMapped, GotoLeads DEF SandboxBreaks
<1>5. \A verdict \in Verdicts : Judge(verdict, Linted(OnDisk, UNION lint)) => Route(verdict)
  BY DEF Judge
<1> QED BY <1>1, <1>2, <1>3, <1>4, <1>5

(* The other steps leave all but the end of the run as it is.              *)
LEMMA Ends ==
  ASSUME NodeRaises \/ GraphEnds \/ GraphFails \/ Interrupt \/ UNCHANGED vars
  PROVE  /\ UNCHANGED <<engineVars, workVars, editVars, impact, feedbackVars, sandboxLoop,
                        regressionLoop, qualityLoop, infraVars, historyVars>>
         /\ node' = node \/ node' = "raised"
         /\ status' = "completed" =>
              \/ UNCHANGED <<node, status, result>>
              \/ node' = "FINISH" /\ current = "verify" /\ ~errors /\ result' = disk
<1>1. CASE NodeRaises
  BY <1>1 DEF NodeRaises
<1>2. CASE UNCHANGED vars
  BY <1>2 DEF vars
<1>3. ASSUME NEW s, NEW files, End(s, files)
      PROVE  /\ UNCHANGED <<node, engineVars, workVars, editVars, impact, feedbackVars, sandboxLoop,
                            regressionLoop, qualityLoop, infraVars, historyVars>>
             /\ status' = s /\ result' = files
  BY <1>3 DEF End
<1>4. CASE GraphEnds
  BY <1>3, <1>4 DEF GraphEnds
<1>5. CASE GraphFails \/ Interrupt
  BY <1>3, <1>5 DEF GraphFails, Interrupt
<1> QED BY <1>1, <1>2, <1>4, <1>5

-------------------------------------------------------------------------------
(* Who writes tests *)

(* Until the tests are analysed apply_tests has written none, and it runs  *)
(* only for an edit that has an impact on them.                            *)
WriterInv ==
  /\ TestsByTestWriter
  /\ node = "load_source" => manifest = NoFiles /\ \A f \in Files : Loaded[f].by # "apply_tests"
  /\ node = "analyze" => \A t \in TestFiles : manifest[t].by # "apply_tests"
  /\ node = "apply_tests" => impact # "none"

(* A merge by one who may write the tests, or who writes code only.        *)
LEMMA WriterMerge ==
  ASSUME TypeOK, TestsByTestWriter, NEW n \in Writers, NEW o, Merge(n, o),
         UNCHANGED <<original, impact>>,
         \/ n # "apply_tests" /\ o.written \subseteq CodeFiles
         \/ n = "apply_tests" /\ impact # "none" /\ o.written \subseteq TestFiles
  PROVE  TestsByTestWriter'
<1>1. \A f \in Files : \/ manifest'[f] = NoFile
                       \/ f \in o.written /\ manifest'[f].by = n
                       \/ manifest'[f] = manifest[f]
  BY MergeFiles
<1>2. NoFile.by # "apply_tests"
  BY DEF NoFile
<1>3. ASSUME NEW t \in TestFiles
      PROVE  \/ manifest'[t] = NoFile
             \/ SameText(manifest'[t], original'[t])
             \/ manifest'[t].by = "apply_tests" /\ impact' # "none"
  BY <1>1 DEF TestsByTestWriter, SameText, Files
<1>4. ASSUME NEW c \in CodeFiles PROVE manifest'[c].by # "apply_tests"
  BY <1>1, <1>2 DEF TestsByTestWriter, Files
<1> QED BY <1>3, <1>4 DEF TestsByTestWriter

(* Files that keep their texts keep their writers.                         *)
LEMMA WriterKept ==
  ASSUME TestsByTestWriter, UNCHANGED original,
         \A f \in Files : /\ SameText(manifest'[f], manifest[f])
                          /\ manifest'[f] = NoFile <=> manifest[f] = NoFile,
         impact # "none" => impact' # "none"
  PROVE  TestsByTestWriter'
<1>1. ASSUME NEW t \in TestFiles
      PROVE  \/ manifest'[t] = NoFile
             \/ SameText(manifest'[t], original'[t])
             \/ manifest'[t].by = "apply_tests" /\ impact' # "none"
  <2>1. t \in Files
    BY DEF Files
  <2> QED BY <2>1 DEF TestsByTestWriter, SameText
<1>2. ASSUME NEW c \in CodeFiles PROVE manifest'[c].by # "apply_tests"
  <2>1. c \in Files
    BY DEF Files
  <2> QED BY <2>1 DEF TestsByTestWriter, SameText
<1> QED BY <1>1, <1>2 DEF TestsByTestWriter

LEMMA WriterStep ==
  ASSUME TypeOK, WriterInv, [Next]_vars
  PROVE  WriterInv'
<1>1. TestsByTestWriter
  BY DEF WriterInv
<1>2. ASSUME UNCHANGED <<original, manifest, impact>>,
             node' \notin {"load_source", "analyze"}, node' = "apply_tests" => impact # "none"
      PROVE  WriterInv'
  BY <1>2 DEF WriterInv, TestsByTestWriter
<1>3. ASSUME UNCHANGED <<original, manifest, impact, node, source, disk>>
      PROVE  WriterInv'
  <2>1. Loaded' = Loaded
    BY <1>3 DEF Loaded
  <2> QED BY <1>3, <2>1 DEF WriterInv, TestsByTestWriter
<1>4. CASE LoadSource
  <2>1. node = "load_source" /\ node' = "analyze"
    BY <1>4, Successors
  <2>2. manifest' = Loaded /\ original' = Loaded
    BY <1>4 DEF LoadSource
  <2>3. \A f \in Files : Loaded[f].by # "apply_tests" /\ SameText(Loaded[f], Loaded[f])
    BY <2>1 DEF WriterInv, SameText
  <2> QED BY <2>1, <2>2, <2>3 DEF WriterInv, TestsByTestWriter, Files
<1>5. CASE Analyze
  <2>1. node = "analyze" /\ node' = "plan" /\ UNCHANGED <<original, manifest>>
    BY <1>5, Successors DEF Analyze
  <2> QED BY <2>1 DEF WriterInv, TestsByTestWriter
<1>6. CASE Plan
  <2>1. node' = IF impact = "none" THEN "apply" ELSE "apply_tests"
    BY <1>6, Successors
  <2>2. UNCHANGED <<original, manifest, impact>>
    BY <1>6 DEF Plan
  <2> QED BY <1>2, <2>1, <2>2
<1>7. ASSUME NEW n \in Writers, WritesNothing(n) PROVE WriterInv'
  BY <1>2, <1>7, Successors DEF WritesNothing
<1>8. ASSUME NEW n \in {"apply", "apply_code"}, WriteCode(n) PROVE WriterInv'
  <2>1. n \in Writers /\ n # "apply_tests"
    BY <1>8 DEF Writers
  <2>2. PICK o \in Outputs : Merge(n, Accepted(n, o))
    BY <1>8 DEF WriteCode
  <2>3. UNCHANGED <<original, impact>>
    BY <1>8 DEF WriteCode
  <2>4. TestsByTestWriter'
    BY <1>1, <2>1, <2>2, <2>3, AcceptedTypes, WriterMerge
  <2> QED BY <1>8, <2>4, Successors DEF WriterInv
<1>9. CASE WriteTests \/ ReworkTests
  <2>1. node = "apply_tests" /\ node' \in {"apply_tests", "apply_code"}
    BY <1>9, Successors
  <2>2. PICK o \in Outputs : Merge("apply_tests", Accepted("apply_tests", o))
    BY <1>9 DEF WriteTests, ReworkTests
  <2>3. UNCHANGED <<original, impact>> /\ "apply_tests" \in Writers
    BY <1>9 DEF WriteTests, ReworkTests, Writers
  <2>4. TestsByTestWriter'
    BY <1>1, <2>1, <2>2, <2>3, AcceptedTypes, WriterMerge DEF WriterInv
  <2> QED BY <2>1, <2>3, <2>4 DEF WriterInv
<1>10. CASE RegressionCheck
  <2>1. node' \in {"verify", "apply", "apply_code"}
    BY <1>10, GateLeads DEF CodeNode
  <2> QED BY <1>2, <1>10, <2>1 DEF RegressionCheck
<1>11. CASE Verify
  <2>1. PICK lint \in SUBSET Files :
          \/ SandboxBreaks(lint) /\ node' = "FINISH"
          \/ \E verdict \in Verdicts :
               Judge(verdict, Linted(OnDisk, lint)) /\ Route(verdict)
    BY <1>11, VerifyCases
  <2>2. CASE SandboxBreaks(lint) /\ node' = "FINISH"
    BY <1>2, <2>2 DEF SandboxBreaks, RunSandbox
  <2>3. ASSUME NEW verdict \in Verdicts, Judge(verdict, Linted(OnDisk, lint)), Route(verdict)
        PROVE  WriterInv'
    <3>1. UNCHANGED <<original, impact>> /\ manifest' = ReadBack(Linted(OnDisk, lint))
      BY <2>3 DEF Judge, RunSandbox
    <3>2. TestsByTestWriter'
      BY <1>1, <3>1, ReadBackKeeps, WriterKept
    <3>3. node' \notin {"load_source", "analyze"} /\ (node' = "apply_tests" => impact # "none")
      BY <2>3, VerdictLeads DEF CodeNode
    <3> QED BY <3>1, <3>2, <3>3 DEF WriterInv
  <2> QED BY <2>1, <2>2, <2>3
<1>12. ASSUME NEW n \in LlmNodes, RetryNode(n) PROVE WriterInv'
  <2>1. node' = node /\ UNCHANGED <<original, manifest, impact, source, disk>>
    BY <1>12, Successors DEF RetryNode
  <2> QED BY <1>3, <2>1
<1>13. ASSUME NEW n \in LlmNodes, NEW t \in BOOLEAN, GiveUp(n, t) PROVE WriterInv'
  <2>1. node' = "FINISH"
    BY <1>13, Successors
  <2> QED BY <1>2, <1>13, <2>1 DEF GiveUp
<1>14. CASE NodeRaises \/ GraphEnds \/ GraphFails \/ Interrupt \/ UNCHANGED vars
  BY <1>3, <1>2, <1>14, Ends
<1> QED BY <1>4, <1>5, <1>6, <1>7, <1>8, <1>9, <1>10, <1>11, <1>12, <1>13, <1>14
       DEF Next, LlmFails

LEMMA WriterInit == Init => WriterInv
<1> SUFFICES ASSUME Init PROVE WriterInv
  OBVIOUS
<1>1. \A f \in Files : source[f].by # "apply_tests" /\ disk[f].by # "apply_tests"
  BY DEF Init, Text, NoFile
<1>2. \A f \in Files : Loaded[f].by # "apply_tests"
  BY <1>1 DEF Loaded
<1>3. \A f \in Files : manifest[f] = NoFile
  BY DEF Init, NoFiles
<1> QED BY <1>2, <1>3 DEF Init, WriterInv, TestsByTestWriter, NoFile, Files

(* For any files and outputs of the LLMs: code nodes write no tests, the   *)
(* test writer writes no code, and an edit that was found to have no       *)
(* impact on the tests keeps the source's tests, whatever is retried,      *)
(* sent back or replanned.                                                 *)
THEOREM TestsKept == Spec => []TestsByTestWriter
<1>1. WriterInv => TestsByTestWriter
  BY DEF WriterInv
<1>2. RouteInv => TypeOK
  BY DEF RouteInv
<1>3. Spec => []WriterInv
  BY <1>2, WriterInit, WriterStep, RouteInvariant, PTL DEF Spec
<1> QED BY <1>1, <1>3, PTL

-------------------------------------------------------------------------------
(* How often the checks send the code back *)

(* The loops count every visit, the returns included.                      *)
ReturnInv ==
  /\ ReturnsBounded
  /\ returns["sandbox"] <= sandboxLoop
  /\ returns["regression"] <= regressionLoop

(* Only the checks count, and only they keep a history.                    *)
LEMMA CheckVarsKept ==
  ASSUME [Next]_vars, ~RegressionCheck, ~Verify
  PROVE  UNCHANGED <<sandboxLoop, regressionLoop, verified, held, returns>>
<1>1. CASE LoadSource \/ Analyze \/ Plan
  BY <1>1 DEF LoadSource, Analyze, Plan
<1>2. CASE \/ \E n \in Writers : WritesNothing(n)
           \/ WriteCode("apply") \/ WriteCode("apply_code") \/ WriteTests \/ ReworkTests
  BY <1>2 DEF WritesNothing, WriteCode, WriteTests, ReworkTests
<1>3. CASE LlmFails
  BY <1>3 DEF LlmFails, RetryNode, GiveUp
<1>4. CASE NodeRaises \/ GraphEnds \/ GraphFails \/ Interrupt \/ UNCHANGED vars
  BY <1>4, Ends
<1> QED BY <1>1, <1>2, <1>3, <1>4 DEF Next

LEMMA ReturnStep ==
  ASSUME TypeOK, ReturnInv, [Next]_vars
  PROVE  ReturnInv'
<1>1. CASE RegressionCheck
  <2>1. sandboxLoop' = sandboxLoop /\ regressionLoop' = regressionLoop + 1
    BY <1>1 DEF RegressionCheck
  <2>2. CASE returns' = returns
    BY <2>1, <2>2 DEF TypeOK, ReturnInv, ReturnsBounded
  <2>3. CASE /\ returns' = [returns EXCEPT !["regression"] = @ + 1]
             /\ regressionLoop + 1 < MaxRegressionLoops
    BY <2>1, <2>3, CountsReturn DEF TypeOK, ReturnInv, ReturnsBounded
  <2> QED BY <1>1, <2>2, <2>3, GateLeads DEF GateHolds
<1>2. CASE Verify
  <2>1. PICK lint \in SUBSET Files :
          \/ SandboxBreaks(lint) /\ node' = "FINISH"
          \/ \E verdict \in Verdicts :
               Judge(verdict, Linted(OnDisk, lint)) /\ Route(verdict)
    BY <1>2, VerifyCases
  <2>2. sandboxLoop' = sandboxLoop + 1 /\ regressionLoop' = regressionLoop
    BY <2>1 DEF SandboxBreaks, Judge, RunSandbox
  <2>3. CASE SandboxBreaks(lint)
    BY <2>2, <2>3 DEF SandboxBreaks, TypeOK, ReturnInv, ReturnsBounded
  <2>4. ASSUME NEW verdict \in Verdicts, Route(verdict)
        PROVE  ReturnInv'
    BY <2>2, <2>4, VerdictLeads, CountsReturn DEF TypeOK, ReturnInv, ReturnsBounded
  <2> QED BY <2>1, <2>3, <2>4
<1>3. CASE ~RegressionCheck /\ ~Verify
  BY <1>3, CheckVarsKept DEF ReturnInv, ReturnsBounded
<1> QED BY <1>1, <1>2, <1>3

(* For any limits: each check sends the code back less often than its      *)
(* limit, however the faults of code, tests and LLMs alternate; only the   *)
(* faults of tests, which are not counted, go on for ever.                 *)
THEOREM ReturnsLimited == Spec => []ReturnsBounded
<1>1. ReturnInv => ReturnsBounded
  BY DEF ReturnInv
<1>2. RouteInv => TypeOK
  BY DEF RouteInv
<1>3. Init => ReturnInv
  BY DEF Init, ReturnInv, ReturnsBounded
<1>4. Spec => []ReturnInv
  BY <1>2, <1>3, ReturnStep, RouteInvariant, PTL DEF Spec
<1> QED BY <1>1, <1>4, PTL

-------------------------------------------------------------------------------
(* What a completed edit has passed *)

(* The end of the graph that reads as completed.                           *)
Passed == node = "FINISH" /\ current = "verify" /\ ~errors

(* A graph that has passed keeps what verify left behind.                  *)
VerifiedInv ==
  /\ Passed => /\ disk = verified
               /\ \A f \in deleted : disk[f] = NoFile
               /\ \A f \in Files \ deleted : manifest[f] \in {NoFile, disk[f]}
  /\ status = "completed" => Passed /\ result = disk

(* Only a sandbox that passes leads there.                                 *)
LEMMA PassedBySandbox ==
  ASSUME TypeOK, [Next]_vars, Passed'
  PROVE  \/ /\ Passed
            /\ UNCHANGED <<disk, manifest, deleted, verified, held, regressionLoop>>
         \/ \E lint \in SUBSET Files : Judge("pass", Linted(OnDisk, lint))
<1>1. ~LoadSource /\ ~Analyze /\ ~Plan /\ ~WriteTests /\ ~ReworkTests
  BY Successors DEF Passed
<1>2. ASSUME NEW n \in Writers PROVE ~WritesNothing(n)
  BY DEF Passed, WritesNothing
<1>3. ~WriteCode("apply") /\ ~WriteCode("apply_code")
  BY Successors DEF Passed
<1>4. ~RegressionCheck
  BY GateLeads DEF Passed, CodeNode
<1>5. ASSUME NEW n \in LlmNodes PROVE ~RetryNode(n)
  BY Successors, NodeNames DEF Passed
<1>6. ASSUME NEW n \in LlmNodes, NEW t \in BOOLEAN PROVE ~GiveUp(n, t)
  BY DEF Passed, GiveUp
<1>7. CASE Verify
  <2>1. PICK lint \in SUBSET Files :
          \/ SandboxBreaks(lint)
          \/ \E verdict \in Verdicts : Judge(verdict, Linted(OnDisk, lint))
    BY <1>7, VerifyCases
  <2>2. ~SandboxBreaks(lint)
    BY DEF Passed, SandboxBreaks
  <2>3. \A verdict \in Verdicts : Judge(verdict, Linted(OnDisk, lint)) => verdict = "pass"
    BY DEF Passed, Judge
  <2> QED BY <2>1, <2>2, <2>3
<1>8. CASE NodeRaises \/ GraphEnds \/ GraphFails \/ Interrupt \/ UNCHANGED vars
  BY <1>8, Ends DEF Passed
<1> QED BY <1>1, <1>2, <1>3, <1>4, <1>5, <1>6, <1>7, <1>8 DEF Next, LlmFails

(* A task is running while its nodes run.                                  *)
LEMMA RunningInNodes ==
  ASSUME Next
  PROVE  \/ status' = "running"
         \/ NodeRaises \/ GraphEnds \/ GraphFails \/ Interrupt
<1>1. CASE LoadSource \/ Analyze \/ Plan
  BY <1>1 DEF LoadSource, Analyze, Plan, Visit
<1>2. CASE \/ \E n \in Writers : WritesNothing(n)
           \/ WriteCode("apply") \/ WriteCode("apply_code") \/ WriteTests \/ ReworkTests
  BY <1>2 DEF WritesNothing, WriteCode, WriteTests, ReworkTests, Visit
<1>3. CASE RegressionCheck
  BY <1>3 DEF RegressionCheck, Visit
<1>4. CASE Verify
  BY <1>4 DEF Verify, SandboxBreaks, Judge, RunSandbox, Visit
<1>5. CASE LlmFails
  BY <1>5 DEF LlmFails, RetryNode, GiveUp, Visit
<1> QED BY <1>1, <1>2, <1>3, <1>4, <1>5 DEF Next

LEMMA VerifiedStep ==
  ASSUME TypeOK, VerifiedInv, [Next]_vars
  PROVE  VerifiedInv'
<1>1. ASSUME Passed'
      PROVE  /\ disk' = verified'
             /\ \A f \in deleted' : disk'[f] = NoFile
             /\ \A f \in Files \ deleted' : manifest'[f] \in {NoFile, disk'[f]}
  <2>1. CASE Passed /\ UNCHANGED <<disk, manifest, deleted, verified, held, regressionLoop>>
    BY <2>1 DEF VerifiedInv
  <2>2. ASSUME NEW lint \in SUBSET Files, NEW files, files = Linted(OnDisk, lint),
               Judge("pass", files)
        PROVE  /\ disk' = verified'
               /\ \A f \in deleted' : disk'[f] = NoFile
               /\ \A f \in Files \ deleted' : manifest'[f] \in {NoFile, disk'[f]}
    <3>1. disk' = files /\ verified' = files /\ manifest' = ReadBack(files) /\ deleted' = deleted
      BY <2>2 DEF Judge, RunSandbox
    <3>2. deleted \subseteq Files
      BY DEF TypeOK
    <3>3. \A f \in Files : /\ f \in deleted => files[f] = NoFile
                           /\ f \notin deleted => ReadBack(files)[f] \in {NoFile, files[f]}
      BY <2>2, ReadBackKeeps
    <3> QED BY <3>1, <3>2, <3>3
  <2> QED BY <1>1, <2>1, <2>2, PassedBySandbox
<1>2. ASSUME status' = "completed"
      PROVE  Passed' /\ result' = disk'
  <2>1. NodeRaises \/ GraphEnds \/ GraphFails \/ Interrupt \/ UNCHANGED vars
    BY <1>2, RunningInNodes
  <2> QED BY <1>2, <2>1, Ends DEF VerifiedInv, Passed
<1> QED BY <1>1, <1>2 DEF VerifiedInv

LEMMA VerifiedInvariant == Spec => []VerifiedInv
<1>1. RouteInv => TypeOK
  BY DEF RouteInv
<1>2. Init => VerifiedInv
  BY DEF Init, VerifiedInv, Passed
<1> QED BY <1>1, <1>2, VerifiedStep, RouteInvariant, PTL DEF Spec

(* For any files and limits: the result of a completed task is what the    *)
(* last sandbox passed, without the files that were deleted, and agrees    *)
(* with the manifest.                                                      *)
THEOREM CompletedVerified == Spec => []CompletedIsVerified
<1>1. TypeOK /\ VerifiedInv => CompletedIsVerified
  BY DEF VerifiedInv, CompletedIsVerified
<1>2. RouteInv => TypeOK
  BY DEF RouteInv
<1> QED BY <1>1, <1>2, RouteInvariant, VerifiedInvariant, PTL

(* Code that was never deleted is in the manifest if it is on the disk.    *)
OnDiskInv ==
  \A c \in CodeFiles \ deleted : manifest[c] = NoFile => disk[c] = NoFile

(* Once the source is loaded that holds for every node.  While there are   *)
(* regression loops left, verify sees the code the gate let through.       *)
GateInv ==
  /\ node = "verify" /\ regressionLoop < MaxRegressionLoops =>
       \A c \in CodeFiles : held[c] = manifest[c]
  /\ node \in Nodes \ {"load_source"} => OnDiskInv
  /\ Passed /\ regressionLoop < MaxRegressionLoops =>
       \A c \in CodeFiles \ deleted : SameText(verified[c], held[c])

LEMMA GateOpens ==
  ASSUME TypeOK, GateInv, [Next]_vars,
         node' = "verify", regressionLoop' < MaxRegressionLoops
  PROVE  \A c \in CodeFiles : held'[c] = manifest'[c]
<1>1. CASE RegressionCheck
  <2>1. GateHolds /\ UNCHANGED manifest
    BY <1>1, GateLeads DEF RegressionCheck, TypeOK, CodeNode
  <2> QED BY <2>1 DEF GateHolds
<1>2. ~Verify
  <2>1. ASSUME Verify PROVE FALSE
    BY <2>1, VerifyCases, VerdictLeads DEF CodeNode
  <2> QED BY <2>1
<1>3. CASE NodeRaises \/ GraphEnds \/ GraphFails \/ Interrupt \/ UNCHANGED vars
  BY <1>3, Ends DEF GateInv
<1>4. ~LoadSource /\ ~Analyze /\ ~Plan /\ ~WriteTests /\ ~ReworkTests
  BY Successors
<1>5. ASSUME NEW n \in Writers PROVE ~WritesNothing(n)
  BY Successors
<1>6. ~WriteCode("apply") /\ ~WriteCode("apply_code")
  BY Successors
<1>7. ~LlmFails
  BY Successors, NodeNames DEF LlmFails
<1> QED BY <1>1, <1>2, <1>3, <1>4, <1>5, <1>6, <1>7 DEF Next

LEMMA OnDiskStep ==
  ASSUME TypeOK, [Next]_vars, node # "load_source" => OnDiskInv,
         node' \in Nodes \ {"load_source"}
  PROVE  OnDiskInv'
<1>1. ASSUME UNCHANGED <<disk, manifest, deleted>>, node # "load_source" PROVE OnDiskInv'
  BY <1>1 DEF OnDiskInv
<1>2. CASE LoadSource
  BY <1>2 DEF LoadSource, OnDiskInv
<1>3. CASE Analyze \/ Plan
  BY <1>1, <1>3, Successors DEF Analyze, Plan
<1>4. ASSUME NEW n \in Writers PROVE ~WritesNothing(n)
  BY Successors, NodeNames
<1>5. ASSUME NEW n \in Writers, n # "apply_tests", NEW o \in Outputs, Merge(n, Accepted(n, o)),
             deleted' = deleted \cup Accepted(n, o).gone, disk' = disk, node # "load_source"
      PROVE  OnDiskInv'
  <2>1. \A f \in Files : \/ f \in Accepted(n, o).gone
                         \/ manifest'[f].by = n
                         \/ manifest'[f] = manifest[f]
    BY <1>5, MergeFiles
  <2>2. NoFile.by # n
    BY DEF NoFile, Writers
  <2> QED BY <1>5, <2>1, <2>2 DEF OnDiskInv, Files
<1>6. ASSUME NEW n \in {"apply", "apply_code"}, WriteCode(n) PROVE OnDiskInv'
  <2>1. n \in Writers /\ n # "apply_tests"
    BY <1>6 DEF Writers
  <2>2. node # "load_source" /\ disk' = disk
    BY <1>6, Successors DEF WriteCode
  <2> QED BY <1>5, <1>6, <2>1, <2>2 DEF WriteCode
<1>7. CASE WriteTests \/ ReworkTests
  <2>1. node # "load_source" /\ disk' = disk /\ "apply_tests" \in Writers
    BY <1>7, Successors DEF WriteTests, ReworkTests, Writers
  <2>2. PICK o \in Outputs : /\ Merge("apply_tests", Accepted("apply_tests", o))
                             /\ deleted \subseteq deleted'
    BY <1>7 DEF WriteTests, ReworkTests
  <2>3. ASSUME NEW c \in CodeFiles PROVE manifest'[c] = manifest[c]
    BY <2>1, <2>2, AcceptedTypes, MergeFiles DEF Files
  <2> QED BY <2>1, <2>2, <2>3 DEF OnDiskInv
<1>8. CASE RegressionCheck
  BY <1>1, <1>8, GateLeads DEF RegressionCheck
<1>9. CASE Verify
  <2>1. PICK lint \in SUBSET Files :
          \/ SandboxBreaks(lint) /\ node' = "FINISH"
          \/ \E verdict \in Verdicts :
               Judge(verdict, Linted(OnDisk, lint)) /\ Route(verdict)
    BY <1>9, VerifyCases
  <2>2. ~(SandboxBreaks(lint) /\ node' = "FINISH")
    BY NodeNames
  <2>3. /\ disk' = Linted(OnDisk, lint) /\ deleted' = deleted
        /\ manifest' = ReadBack(Linted(OnDisk, lint))
    BY <2>1, <2>2 DEF Judge, RunSandbox
  <2>4. ASSUME NEW c \in CodeFiles \ deleted, manifest'[c] = NoFile PROVE disk'[c] = NoFile
    <3>1. c \in Files
      BY DEF Files
    <3>2. manifest[c] = NoFile
      BY <2>3, <2>4, <3>1, ReadBackKeeps
    <3>3. disk[c] = NoFile
      BY <1>9, <3>2, VerifyCases DEF OnDiskInv
    <3>4. OnDisk[c] = NoFile
      BY <3>1, <3>2, <3>3 DEF OnDisk
    <3> QED BY <2>3, <3>1, <3>4, OnDiskType, LintKeeps
  <2> QED BY <2>3, <2>4 DEF OnDiskInv
<1>10. ASSUME NEW n \in LlmNodes, RetryNode(n) PROVE OnDiskInv'
  BY <1>1, <1>10, Successors, NodeNames DEF RetryNode
<1>11. ASSUME NEW n \in LlmNodes, NEW t \in BOOLEAN PROVE ~GiveUp(n, t)
  BY Successors, NodeNames
<1>12. CASE NodeRaises \/ GraphEnds \/ GraphFails \/ Interrupt \/ UNCHANGED vars
  BY <1>1, <1>12, Ends, NodeNames
<1> QED BY <1>2, <1>3, <1>4, <1>6, <1>7, <1>8, <1>9, <1>10, <1>11, <1>12 DEF Next, LlmFails

LEMMA GateStep ==
  ASSUME TypeOK, GateInv, [Next]_vars
  PROVE  GateInv'
<1>1. ASSUME node' = "verify", regressionLoop' < MaxRegressionLoops
      PROVE  \A c \in CodeFiles : held'[c] = manifest'[c]
  BY <1>1, GateOpens
<1>2. ASSUME node' \in Nodes \ {"load_source"}
      PROVE  OnDiskInv'
  <2>1. node \in Nodes
    <3>1. CASE NodeRaises \/ GraphEnds \/ GraphFails \/ Interrupt \/ UNCHANGED vars
      BY <1>2, <3>1, Ends, NodeNames
    <3>2. CASE ~(NodeRaises \/ GraphEnds \/ GraphFails \/ Interrupt \/ UNCHANGED vars)
      BY <3>2, Successors, GateLeads, VerifyCases, NodeNames DEF Next, LlmFails
    <3> QED BY <3>1, <3>2
  <2> QED BY <1>2, <2>1, OnDiskStep DEF GateInv
<1>3. ASSUME Passed', regressionLoop' < MaxRegressionLoops
      PROVE  \A c \in CodeFiles \ deleted' : SameText(verified'[c], held'[c])
  <2>1. CASE Passed /\ UNCHANGED <<disk, manifest, deleted, verified, held, regressionLoop>>
    BY <1>3, <2>1 DEF GateInv
  <2>2. ASSUME NEW lint \in SUBSET Files, NEW files, files = Linted(OnDisk, lint),
               Judge("pass", files)
        PROVE  \A c \in CodeFiles \ deleted' : SameText(verified'[c], held'[c])
    <3>1. /\ node = "verify" /\ verified' = files /\ held' = held
          /\ deleted' = deleted /\ regressionLoop' = regressionLoop
      BY <2>2 DEF Judge, RunSandbox, Visit
    <3>2. OnDiskInv /\ \A c \in CodeFiles : held[c] = manifest[c]
      BY <1>3, <3>1, NodeNames DEF GateInv
    <3>3. ASSUME NEW c \in CodeFiles \ deleted PROVE SameText(files[c], held[c])
      <4>1. c \in Files
        BY DEF Files
      <4>2. OnDisk[c] = manifest[c]
        BY <3>2, <4>1 DEF OnDiskInv, OnDisk
      <4>3. SameText(files[c], OnDisk[c])
        BY <2>2, <4>1, OnDiskType, LintKeeps
      <4> QED BY <3>2, <4>2, <4>3
    <3> QED BY <3>1, <3>3
  <2> QED BY <1>3, <2>1, <2>2, PassedBySandbox
<1> QED BY <1>1, <1>2, <1>3 DEF GateInv

(* For any files and limits: while regression loops are left, the code of  *)
(* a completed task is the code the original tests were run on, whatever   *)
(* the linters and the earlier runs left on the disk.                      *)
THEOREM CompletedGate == Spec => []CompletedPassedGate
<1>1. VerifiedInv /\ GateInv => CompletedPassedGate
  BY DEF VerifiedInv, GateInv, CompletedPassedGate
<1>2. RouteInv => TypeOK
  BY DEF RouteInv
<1>3. Init => GateInv
  BY DEF Init, GateInv, Passed
<1>4. Spec => []GateInv
  BY <1>2, <1>3, GateStep, RouteInvariant, PTL DEF Spec
<1> QED BY <1>1, <1>4, VerifiedInvariant, PTL

-------------------------------------------------------------------------------
(* Feedback *)

(* A code node is shown what the check that sent the code back had to say, *)
(* but for the two cases where the sandbox's output is lost or hidden.     *)
(* Elsewhere nothing has been sent back, and verify meets errors of the    *)
(* gate only when the gate is out of loops.                                *)
FeedbackInv ==
  /\ node \in {"apply", "apply_code"} /\ sentBack # "nobody" /\ Shown # sentBack =>
       sentBack = "sandbox" /\ (current = node \/ regressionLoop >= MaxRegressionLoops)
  /\ node \in {"load_source", "analyze", "plan", "apply_tests"} => sentBack = "nobody"
  /\ node = "verify" /\ regressionErrors => regressionLoop >= MaxRegressionLoops

LEMMA FeedbackStep ==
  ASSUME TypeOK, FeedbackInv, [Next]_vars
  PROVE  FeedbackInv'
<1>1. ASSUME sentBack' = "nobody", node' # "verify" PROVE FeedbackInv'
  BY <1>1 DEF FeedbackInv
<1>2. ASSUME node' \in {"FINISH", "regression_check"} PROVE FeedbackInv'
  BY <1>2 DEF FeedbackInv
<1>3. CASE LoadSource \/ Analyze \/ Plan
  <2>1. node \in {"load_source", "analyze", "plan"} /\ node' # "verify"
    BY <1>3, Successors
  <2>2. sentBack' = sentBack
    BY <1>3 DEF LoadSource, Analyze, Plan
  <2> QED BY <1>1, <2>1, <2>2 DEF FeedbackInv
<1>4. CASE WriteTests \/ ReworkTests
  <2>1. node = "apply_tests" /\ node' # "verify"
    BY <1>4, Successors
  <2>2. sentBack' = sentBack
    BY <1>4 DEF WriteTests, ReworkTests
  <2> QED BY <1>1, <2>1, <2>2 DEF FeedbackInv
<1>5. ASSUME NEW n \in Writers, WritesNothing(n) PROVE FeedbackInv'
  BY <1>2, <1>5, Successors
<1>6. ASSUME NEW n \in {"apply", "apply_code"}, WriteCode(n) PROVE FeedbackInv'
  BY <1>2, <1>6, Successors
<1>7. CASE RegressionCheck
  <2>1. CASE GateHolds /\ node' = "verify"
    BY <2>1 DEF GateHolds, FeedbackInv
  <2>2. CASE GateFails /\ node' = CodeNode /\ sentBack' = "regression"
    BY <2>2 DEF GateFails, CodeNode, FeedbackInv, Shown
  <2>3. CASE node' = "verify" /\ regressionLoop + 1 >= MaxRegressionLoops
    BY <1>7, <2>3, GateLeads DEF FeedbackInv
  <2> QED BY <1>7, <2>1, <2>2, <2>3, GateLeads
<1>8. CASE Verify
  <2>1. PICK lint \in SUBSET Files :
          \/ SandboxBreaks(lint) /\ node' = "FINISH"
          \/ \E verdict \in Verdicts :
               Judge(verdict, Linted(OnDisk, lint)) /\ Route(verdict)
    BY <1>8, VerifyCases
  <2>2. ASSUME NEW verdict \in Verdicts, Judge(verdict, Linted(OnDisk, lint)), Route(verdict)
        PROVE  FeedbackInv'
    <3>1. CASE verdict = "code_fault" /\ node' = CodeNode /\ sentBack' = "sandbox"
      <4>1. errors' = TRUE /\ UNCHANGED <<regressionErrors, regressionLoop>>
        BY <2>2, <3>1 DEF Judge, RunSandbox
      <4>2. regressionErrors => regressionLoop >= MaxRegressionLoops
        BY <1>8, VerifyCases DEF FeedbackInv
      <4> QED BY <3>1, <4>1, <4>2 DEF FeedbackInv, Shown, CodeNode
    <3>2. CASE sentBack' = "nobody" /\ node' # "verify"
      BY <1>1, <3>2
    <3> QED BY <2>2, <3>1, <3>2, VerdictLeads
  <2> QED BY <1>2, <2>1, <2>2
<1>9. ASSUME NEW n \in LlmNodes, RetryNode(n) PROVE FeedbackInv'
  <2>1. node = n /\ node' = n
    BY <1>9, Successors
  <2>2. current' = n
    BY <1>9 DEF RetryNode, Visit
  <2>3. UNCHANGED <<sentBack, regressionErrors, regressionLoop>> /\ errors' = FALSE
    BY <1>9 DEF RetryNode
  <2> QED BY <2>1, <2>2, <2>3, NodeNames DEF FeedbackInv, Shown, TypeOK
<1>10. ASSUME NEW n \in LlmNodes, NEW t \in BOOLEAN, GiveUp(n, t) PROVE FeedbackInv'
  BY <1>2, <1>10, Successors
<1>11. CASE NodeRaises \/ GraphEnds \/ GraphFails \/ Interrupt \/ UNCHANGED vars
  <2>1. Shown' = Shown
    BY <1>11, Ends DEF Shown
  <2> QED BY <1>11, <2>1, Ends DEF FeedbackInv
<1> QED BY <1>3, <1>4, <1>5, <1>6, <1>7, <1>8, <1>9, <1>10, <1>11 DEF Next, LlmFails

(* For any limits: code that a check sent back is written again with that  *)
(* check's output in the prompt; only the sandbox's output can be lost to  *)
(* a transient fault in the visit before, or hidden by a gate that is out  *)
(* of loops.                                                               *)
THEOREM FeedbackReached == Spec => FeedbackReachesCode
<1> DEFINE Fed == \A n \in {"apply", "apply_code"} :
       node = n /\ node' = "regression_check" /\ sentBack # "nobody" /\ Shown # sentBack
         => sentBack = "sandbox" /\ (current = n \/ regressionLoop >= MaxRegressionLoops)
<1>1. FeedbackInv => [Fed]_vars
  BY DEF FeedbackInv
<1>2. RouteInv => TypeOK
  BY DEF RouteInv
<1>3. Init => FeedbackInv
  BY DEF Init, FeedbackInv
<1> QED BY <1>1, <1>2, <1>3, FeedbackStep, RouteInvariant, PTL DEF Spec, FeedbackReachesCode
===============================================================================
