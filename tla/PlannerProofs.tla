---------------------------- MODULE PlannerProofs ----------------------------
(***************************************************************************)
(* Proofs about Planner, for plans, answers and faults of any number: its  *)
(* type invariant, what a cancelled and a completed workflow can rely on,  *)
(* what editing jobs start from, and how many jobs run unattended.         *)
(***************************************************************************)
EXTENDS Planner, FiniteSetTheorems, SequenceTheorems, TLAPS

USE PlannerAssumption DEF stateVars, callVars

-------------------------------------------------------------------------------
(* Plans, steps and rows *)

LEMMA PlanType ==
  ASSUME NEW p \in Plans
  PROVE  /\ p \in Seq(Steps) /\ Len(p) \in 0..MaxSteps
         /\ \A i \in DOMAIN p : p[i].status = "pending" /\ p[i].job = 0
<1>1. ASSUME NEW s \in NewSteps PROVE s \in Steps /\ s.status = "pending" /\ s.job = 0
  <2>1. PICK module \in {"coding", "editing", "other"}, from \in 0..MaxSteps :
          s = NewStep(module, from)
    BY DEF NewSteps
  <2> QED BY <2>1 DEF NewStep, Steps, StepStatus
<1>2. PICK n \in 0..MaxSteps : p \in [1..n -> NewSteps]
  BY DEF Plans
<1>3. p \in Seq(Steps) /\ Len(p) = n
  BY <1>1, <1>2
<1> QED BY <1>1, <1>2, <1>3

LEMMA SeqSet ==
  ASSUME NEW S, NEW q \in Seq(S), NEW i \in DOMAIN q, NEW e \in S, NEW r, r = [q EXCEPT ![i] = e]
  PROVE  /\ r \in Seq(S) /\ Len(r) = Len(q) /\ DOMAIN r = DOMAIN q
         /\ r[i] = e /\ \A j \in DOMAIN q \ {i} : r[j] = q[j]
<1>1. DOMAIN q = 1..Len(q) /\ i \in 1..Len(q)
  OBVIOUS
<1>2. r \in Seq(S) /\ Len(r) = Len(q)
  BY <1>1, ExceptSeq
<1>3. DOMAIN r = 1..Len(r)
  BY <1>2
<1> QED BY <1>1, <1>2, <1>3, ExceptSeq

(* A step that gets another status keeps its job.                          *)
LEMMA StatusSet ==
  ASSUME steps \in Seq(Steps), index \in DOMAIN steps, NEW s \in StepStatus,
         steps' = [steps EXCEPT ![index].status = s]
  PROVE  /\ steps' \in Seq(Steps) /\ Len(steps') = Len(steps) /\ DOMAIN steps' = DOMAIN steps
         /\ steps'[index].status = s
         /\ \A i \in DOMAIN steps : /\ steps'[i].job = steps[i].job
                                    /\ i # index => steps'[i] = steps[i]
<1>1. steps[index] \in Steps
  OBVIOUS
<1>2. /\ [steps[index] EXCEPT !.status = s] \in Steps
      /\ [steps[index] EXCEPT !.status = s].status = s
      /\ [steps[index] EXCEPT !.status = s].job = steps[index].job
  BY <1>1 DEF Steps
<1>3. steps' = [steps EXCEPT ![index] = [steps[index] EXCEPT !.status = s]]
  OBVIOUS
<1>4. PICK r \in Steps : /\ steps' = [steps EXCEPT ![index] = r]
                        /\ r.status = s /\ r.job = steps[index].job
  BY <1>2, <1>3
<1> QED BY <1>4, SeqSet

(* A step that gets a status and a job.                                    *)
WithJob(q, i, s, job) == [q EXCEPT ![i].status = s, ![i].job = job]

LEMMA JobSet ==
  ASSUME NEW q \in Seq(Steps), NEW i \in DOMAIN q, NEW s \in StepStatus,
         NEW job \in JobIds \cup {0}
  PROVE  LET p == WithJob(q, i, s, job)
         IN  /\ p \in Seq(Steps) /\ Len(p) = Len(q) /\ DOMAIN p = DOMAIN q
             /\ p[i].status = s /\ p[i].job = job
             /\ \A j \in DOMAIN q \ {i} : p[j] = q[j]
<1>1. q[i] \in Steps
  OBVIOUS
<1>2. /\ [q[i] EXCEPT !.status = s] \in Steps
      /\ [q[i] EXCEPT !.status = s].status = s
  BY <1>1 DEF Steps
<1>3. /\ [[q[i] EXCEPT !.status = s] EXCEPT !.job = job] \in Steps
      /\ [[q[i] EXCEPT !.status = s] EXCEPT !.job = job].status = s
      /\ [[q[i] EXCEPT !.status = s] EXCEPT !.job = job].job = job
  BY <1>2 DEF Steps
<1>4. WithJob(q, i, s, job) = [q EXCEPT ![i] = [[q[i] EXCEPT !.status = s] EXCEPT !.job = job]]
  BY DEF WithJob
<1>5. PICK r \in Steps : /\ WithJob(q, i, s, job) = [q EXCEPT ![i] = r]
                        /\ r.status = s /\ r.job = job
  BY <1>3, <1>4
<1> QED BY <1>5, SeqSet

(* A row that gets another status keeps its source.                        *)
LEMMA RowSet ==
  ASSUME jobs \in Seq(Rows), NEW k \in DOMAIN jobs, NEW s \in {"live"} \cup Terminal,
         jobs' = [jobs EXCEPT ![k].status = s]
  PROVE  /\ jobs' \in Seq(Rows) /\ Len(jobs') = Len(jobs) /\ DOMAIN jobs' = DOMAIN jobs
         /\ jobs'[k].status = s
         /\ \A j \in DOMAIN jobs : /\ jobs'[j].source = jobs[j].source
                                   /\ j # k => jobs'[j] = jobs[j]
<1>1. jobs[k] \in Rows
  OBVIOUS
<1>2. /\ [jobs[k] EXCEPT !.status = s] \in Rows
      /\ [jobs[k] EXCEPT !.status = s].status = s
      /\ [jobs[k] EXCEPT !.status = s].source = jobs[k].source
  BY <1>1 DEF Rows
<1>3. jobs' = [jobs EXCEPT ![k] = [jobs[k] EXCEPT !.status = s]]
  OBVIOUS
<1>4. PICK r \in Rows : /\ jobs' = [jobs EXCEPT ![k] = r]
                       /\ r.status = s /\ r.source = jobs[k].source
  BY <1>2, <1>3
<1> QED BY <1>4, SeqSet

LEMMA RowAdded ==
  ASSUME jobs \in Seq(Rows), NEW source \in JobIds \cup {0},
         jobs' = Append(jobs, [status |-> "live", source |-> source])
  PROVE  /\ jobs' \in Seq(Rows) /\ Len(jobs') = Len(jobs) + 1
         /\ DOMAIN jobs' = DOMAIN jobs \cup {Len(jobs) + 1}
         /\ Len(jobs) + 1 \notin DOMAIN jobs
         /\ \A k \in DOMAIN jobs : jobs'[k] = jobs[k]
         /\ jobs'[Len(jobs) + 1] = [status |-> "live", source |-> source]
<1>1. [status |-> "live", source |-> source] \in Rows
  BY DEF Rows
<1> QED BY <1>1

-------------------------------------------------------------------------------
(* Types and control *)

AtStep == node \in {"submit", "inspect", "decide"}

(* The graph is at work exactly while the workflow reads "running", and    *)
(* only with supersteps left.  Where a step is worked on, or the operator  *)
(* is asked about it, there is one; jobs that are referred to exist.       *)
ControlInv ==
  /\ TypeOK
  /\ steps \in Seq(Steps) /\ jobs \in Seq(Rows)
  /\ node = "done" <=> wfStatus # "running"
  /\ AtStep \/ (wfStatus = "waiting_for_operator" /\ lastNode = "decide") => index <= Len(steps)
  /\ response # 0 => node = "submit" /\ posting = None /\ response \in DOMAIN jobs
  /\ currentJob \in DOMAIN jobs \cup {0}
  /\ node = "inspect" => currentJob # 0
  /\ node \notin {"start", "done"} => supersteps < RecursionLimit

(* The jobs a round of planning may have submitted by now.                 *)
Round == IF node \in {"start", "clarify", "plan"} THEN 0
         ELSE IF node = "dispatch" THEN index - 1
         ELSE IF AtStep THEN index ELSE MaxSteps

(* Every answer starts a new round, which submits a step at most once.     *)
CountInv ==
  Len(jobs) + (IF posting = None THEN 0 ELSE 1) <= MaxSteps * answers + Round

LEMMA JobsFit ==
  ASSUME ControlInv, CountInv
  PROVE  Len(jobs) + (IF posting = None THEN 0 ELSE 1) <= MaxSteps * (MaxAnswers + 1)
<1>1. Round <= MaxSteps
  BY DEF ControlInv, TypeOK, Round, AtStep
<1>2. MaxSteps * answers + MaxSteps <= MaxSteps * (MaxAnswers + 1)
  BY DEF ControlInv, TypeOK
<1>3. MaxSteps * answers \in Int /\ MaxSteps * (MaxAnswers + 1) \in Int /\ Round \in Int
  BY DEF ControlInv, TypeOK, Round, AtStep
<1> QED BY <1>1, <1>2, <1>3 DEF CountInv, ControlInv

(* The rows of a sequence that fits have the ids of jobs.                  *)
LEMMA RowsType ==
  ASSUME NEW rows \in Seq(Rows), Len(rows) <= MaxSteps * (MaxAnswers + 1)
  PROVE  \A k \in DOMAIN rows : k \in JobIds /\ rows[k] \in Rows
BY DEF JobIds

(* Where a node that returned leads.                                       *)
LEMMA Moves ==
  ASSUME NEW n, NEW next, Goto(n, next)
  PROVE  /\ lastNode' = n /\ nextNode' = next
         /\ next = "ASK_OPERATOR" => node' = "done" /\ wfStatus' = "waiting_for_operator"
         /\ next = "FINISH" => node' = "done" /\ wfStatus' = "completed"
         /\ next \notin {"ASK_OPERATOR", "FINISH"} =>
              \/ node' = next /\ wfStatus' = wfStatus
              \/ node' = "done" /\ wfStatus' = "failed" /\ supersteps' = RecursionLimit
BY DEF Goto

(* The graph goes on only with supersteps left.                            *)
LEMMA Counted ==
  ASSUME ControlInv, node \notin {"start", "done"}, NEW n, NEW next, Goto(n, next)
  PROVE  /\ supersteps' \in 0..RecursionLimit
         /\ node' # "done" => supersteps' < RecursionLimit
BY DEF Goto, ControlInv, TypeOK

LEMMA ControlPlanning ==
  ASSUME ControlInv, Start \/ Clarify \/ MakePlan \/ PlanningRaises
  PROVE  ControlInv'
<1> USE DEF ControlInv, TypeOK, AtStep, WfStatus, Awaits
<1>1. CASE Start
  BY <1>1 DEF Start
<1>2. CASE Clarify
  <2>1. PICK next \in {"plan", "ASK_OPERATOR", "FINISH"} : Goto("clarify", next)
    BY <1>2 DEF Clarify
  <2>2. llmFailed' \in BOOLEAN
    BY <1>2 DEF Clarify
  <2> QED BY <1>2, <2>1, <2>2, Moves, Counted DEF Clarify
<1>3. CASE MakePlan
  <2>1. CASE steps' \in Plans /\ index' = 1 /\ Goto("plan", "dispatch") /\ UNCHANGED llmFailed
    <3>1. /\ steps' \in Seq(Steps) /\ Len(steps') <= MaxSteps
          /\ \A i \in DOMAIN steps' : steps'[i] \in Steps
      BY <2>1, PlanType
    <3>2. index' \in 1..(MaxSteps + 1)
      BY <2>1
    <3> QED BY <1>3, <2>1, <3>1, <3>2, Moves, Counted DEF MakePlan
  <2>2. CASE Goto("plan", "FINISH") /\ llmFailed' = TRUE /\ UNCHANGED <<steps, index>>
    BY <1>3, <2>2, Moves, Counted DEF MakePlan
  <2> QED BY <1>3, <2>1, <2>2 DEF MakePlan
<1>4. CASE PlanningRaises
  BY <1>4 DEF PlanningRaises, Raise, Fault
<1> QED BY <1>1, <1>2, <1>3, <1>4

LEMMA ControlDispatch ==
  ASSUME ControlInv,
         \/ DispatchEnds \/ DispatchUnknown \/ DispatchPosts \/ DispatchReturns \/ DispatchFails
  PROVE  ControlInv'
<1> USE DEF ControlInv, TypeOK, AtStep, WfStatus, Awaits
<1>1. CASE DispatchEnds
  BY <1>1, Moves, Counted DEF DispatchEnds
<1>2. CASE DispatchUnknown
  <2>1. index \in DOMAIN steps
    BY <1>2 DEF DispatchUnknown, Pending
  <2>2. steps' = [steps EXCEPT ![index].status = "failed"] /\ "failed" \in StepStatus
    BY <1>2 DEF DispatchUnknown, StepStatus, Terminal
  <2>3. steps' \in Seq(Steps) /\ Len(steps') = Len(steps)
    BY <2>1, <2>2, StatusSet
  <2>4. /\ steps' \in Seq(Steps) /\ Len(steps') = Len(steps)
        /\ \A i \in DOMAIN steps' : steps'[i] \in Steps
    BY <2>3
  <2> QED BY <1>2, <2>1, <2>4, Moves, Counted DEF DispatchUnknown
<1>3. CASE DispatchPosts
  <2>1. index \in DOMAIN steps /\ index <= Len(steps)
    BY <1>3 DEF DispatchPosts, Pending
  <2>2. \A i \in DOMAIN steps : steps[i].job \in JobIds \cup {0}
    BY DEF Steps
  <2>3. posting' \in JobIds \cup {0, None}
    BY <1>3, <2>2 DEF DispatchPosts, SourceJob
  <2> QED BY <1>3, <2>1, <2>3 DEF DispatchPosts
<1>4. CASE DispatchReturns
  <2>1. index \in DOMAIN steps
    BY <1>4 DEF DispatchReturns
  <2>2. steps' = WithJob(steps, index, "running", response) /\ "running" \in StepStatus
    BY <1>4 DEF DispatchReturns, WithJob, StepStatus
  <2>3. steps' \in Seq(Steps) /\ Len(steps') = Len(steps)
    BY <2>1, <2>2, JobSet
  <2>4. /\ steps' \in Seq(Steps) /\ Len(steps') = Len(steps)
        /\ \A i \in DOMAIN steps' : steps'[i] \in Steps
    BY <2>3
  <2> QED BY <1>4, <2>1, <2>4, Moves, Counted DEF DispatchReturns
<1>5. CASE DispatchFails
  <2>1. index \in DOMAIN steps
    BY <1>5 DEF DispatchFails
  <2>2. steps' = [steps EXCEPT ![index].status = "failed"] /\ "failed" \in StepStatus
    BY <1>5 DEF DispatchFails, StepStatus, Terminal
  <2>3. steps' \in Seq(Steps) /\ Len(steps') = Len(steps)
    BY <2>1, <2>2, StatusSet
  <2>4. /\ steps' \in Seq(Steps) /\ Len(steps') = Len(steps)
        /\ \A i \in DOMAIN steps' : steps'[i] \in Steps
    BY <2>3
  <2> QED BY <1>5, <2>1, <2>4, Moves, Counted DEF DispatchFails, Fault
<1> QED BY <1>1, <1>2, <1>3, <1>4, <1>5

LEMMA AskType ==
  ASSUME ControlInv, AskCancel(currentJob)
  PROVE  asked' \subseteq DOMAIN jobs /\ faults' \in 0..MaxFaults
BY DEF ControlInv, TypeOK, AskCancel, Fault

LEMMA ControlInspect ==
  ASSUME ControlInv, InspectSettled \/ InspectTimesOut \/ InspectRaises \/ Decide
  PROVE  ControlInv'
<1> USE DEF ControlInv, TypeOK, AtStep, WfStatus, Awaits
<1>1. CASE InspectSettled
  <2>1. index \in DOMAIN steps
    BY <1>1 DEF InspectSettled
  <2>2. /\ steps' = [steps EXCEPT ![index].status = jobs[currentJob].status]
        /\ jobs[currentJob].status \in StepStatus
    BY <1>1 DEF InspectSettled, StepStatus, Terminal
  <2>3. steps' \in Seq(Steps) /\ Len(steps') = Len(steps)
    BY <2>1, <2>2, StatusSet
  <2>4. /\ steps' \in Seq(Steps) /\ Len(steps') = Len(steps)
        /\ \A i \in DOMAIN steps' : steps'[i] \in Steps
    BY <2>3
  <2> QED BY <1>1, <2>1, <2>4, Moves, Counted DEF InspectSettled
<1>2. CASE InspectTimesOut
  <2>1. index \in DOMAIN steps
    BY <1>2 DEF InspectTimesOut
  <2>2. steps' = [steps EXCEPT ![index].status = "timeout"] /\ "timeout" \in StepStatus
    BY <1>2 DEF InspectTimesOut, StepStatus, Terminal
  <2>3. steps' \in Seq(Steps) /\ Len(steps') = Len(steps)
    BY <2>1, <2>2, StatusSet
  <2>4. /\ steps' \in Seq(Steps) /\ Len(steps') = Len(steps)
        /\ \A i \in DOMAIN steps' : steps'[i] \in Steps
    BY <2>3
  <2>5. asked' \subseteq DOMAIN jobs /\ faults' \in 0..MaxFaults
    BY <1>2, AskType DEF InspectTimesOut
  <2> QED BY <1>2, <2>1, <2>4, <2>5, Moves, Counted DEF InspectTimesOut
<1>3. CASE InspectRaises
  BY <1>3 DEF InspectRaises, Raise, Fault
<1>4. CASE Decide
  <2>1. index <= Len(steps)
    BY <1>4 DEF Decide
  <2>2. CASE /\ index' = index + 1
             /\ Goto("decide", IF index = Len(steps) THEN "FINISH" ELSE "dispatch")
    BY <1>4, <2>1, <2>2, Moves, Counted DEF Decide
  <2>3. CASE Goto("decide", "ASK_OPERATOR") /\ UNCHANGED index
    BY <1>4, <2>1, <2>3, Moves, Counted DEF Decide
  <2> QED BY <1>4, <2>2, <2>3 DEF Decide
<1> QED BY <1>1, <1>2, <1>3, <1>4

LEMMA ControlBackbone ==
  ASSUME ControlInv, CountInv,
         Accept \/ DropPost \/ (\E k \in DOMAIN jobs : JobSettles(k) \/ JobRunsAgain(k))
  PROVE  ControlInv'
<1> USE DEF ControlInv, TypeOK, AtStep
<1>1. CASE Accept
  <2>1. posting \in JobIds \cup {0}
    BY <1>1 DEF Accept
  <2>2. /\ jobs' \in Seq(Rows) /\ Len(jobs') = Len(jobs) + 1
        /\ DOMAIN jobs' = DOMAIN jobs \cup {Len(jobs) + 1}
    BY <1>1, <2>1, RowAdded DEF Accept
  <2>3. Len(jobs') <= MaxSteps * (MaxAnswers + 1)
    BY <1>1, <2>2, JobsFit DEF Accept
  <2>4. \A k \in DOMAIN jobs' : k \in JobIds /\ jobs'[k] \in Rows
    BY <2>2, <2>3, RowsType
  <2>5. response' \in JobIds \cup {0}
    BY <1>1, <2>2, <2>4 DEF Accept
  <2> QED BY <1>1, <2>2, <2>4, <2>5 DEF Accept, None
<1>2. CASE DropPost
  BY <1>2 DEF DropPost
<1>3. ASSUME NEW k \in DOMAIN jobs, JobSettles(k) PROVE ControlInv'
  <2>1. PICK s \in Outcomes : jobs' = [jobs EXCEPT ![k].status = s]
    BY <1>3 DEF JobSettles
  <2>2. jobs' \in Seq(Rows) /\ Len(jobs') = Len(jobs) /\ DOMAIN jobs' = DOMAIN jobs
    BY <2>1, RowSet
  <2>3. \A j \in DOMAIN jobs' : j \in JobIds /\ jobs'[j] \in Rows
    BY <2>2
  <2> QED BY <1>3, <2>2, <2>3 DEF JobSettles
<1>4. ASSUME NEW k \in DOMAIN jobs, JobRunsAgain(k) PROVE ControlInv'
  <2>1. jobs' = [jobs EXCEPT ![k].status = "live"]
    BY <1>4 DEF JobRunsAgain
  <2>2. jobs' \in Seq(Rows) /\ Len(jobs') = Len(jobs) /\ DOMAIN jobs' = DOMAIN jobs
    BY <2>1, RowSet
  <2>3. \A j \in DOMAIN jobs' : j \in JobIds /\ jobs'[j] \in Rows
    BY <2>2
  <2> QED BY <1>4, <2>2, <2>3 DEF JobRunsAgain, Fault
<1> QED BY <1>1, <1>2, <1>3, <1>4

LEMMA ControlApi ==
  ASSUME ControlInv,
         (\E choice \in {"retry", "skip", "abort"} : Answer(choice)) \/ CancelPlan \/ UNCHANGED vars
  PROVE  ControlInv'
<1> USE DEF ControlInv, TypeOK, AtStep, WfStatus, Awaits
<1>1. ASSUME NEW choice, Answer(choice) PROVE ControlInv'
  <2>1. CASE lastNode = "decide" /\ choice = "retry"
    <3>1. index \in DOMAIN steps
      BY <1>1, <2>1 DEF Answer
    <3>2. steps' = WithJob(steps, index, "pending", 0) /\ "pending" \in StepStatus
      BY <1>1, <2>1 DEF Answer, WithJob, StepStatus
    <3>3. steps' \in Seq(Steps) /\ Len(steps') = Len(steps)
      BY <3>1, <3>2, JobSet
    <3>4. \A i \in DOMAIN steps' : steps'[i] \in Steps
      BY <3>3
    <3> QED BY <1>1, <2>1, <3>3, <3>4 DEF Answer
  <2>2. CASE lastNode = "decide" /\ choice = "skip"
    <3>1. index' \in 1..(MaxSteps + 1)
      BY <1>1, <2>2 DEF Answer
    <3> QED BY <1>1, <2>2, <3>1 DEF Answer
  <2>3. ASSUME UNCHANGED <<steps, index>>, nextNode' \in {"FINISH", "clarify"}, aborted' \in BOOLEAN
        PROVE  ControlInv'
    BY <1>1, <2>3 DEF Answer
  <2> QED BY <1>1, <2>1, <2>2, <2>3 DEF Answer
<1>2. CASE CancelPlan
  <2>1. asked' \subseteq DOMAIN jobs /\ faults' \in 0..MaxFaults
    BY <1>2, AskType DEF CancelPlan
  <2> QED BY <1>2, <2>1 DEF CancelPlan
<1>3. CASE UNCHANGED vars
  BY <1>3 DEF vars
<1> QED BY <1>1, <1>2, <1>3

LEMMA ControlStep == ControlInv /\ CountInv /\ [Next]_vars => ControlInv'
BY ControlPlanning, ControlDispatch, ControlInspect, ControlBackbone, ControlApi DEF Next, Graph

RoundOK == Round \in 0..MaxSteps /\ Len(jobs) \in Nat

LEMMA RoundType == ControlInv => RoundOK
<1> SUFFICES ASSUME ControlInv PROVE RoundOK
  OBVIOUS
<1>1. index \in 1..(MaxSteps + 1) /\ Len(jobs) \in Nat
  BY DEF ControlInv, TypeOK
<1>2. AtStep => index <= MaxSteps
  BY DEF ControlInv, TypeOK
<1> QED BY <1>1, <1>2 DEF Round, RoundOK

(* What a step can do to the count of jobs.                                *)
LEMMA CountKept ==
  ASSUME ControlInv, CountInv, Len(jobs') \in Nat, UNCHANGED answers, Round' \in Int,
         Len(jobs') + (IF posting' = None THEN 0 ELSE 1) - Round'
           <= Len(jobs) + (IF posting = None THEN 0 ELSE 1) - Round
  PROVE  CountInv'
<1>1. MaxSteps * answers \in Int /\ Round \in Int /\ Len(jobs) \in Nat
  BY DEF ControlInv, TypeOK, Round, AtStep
<1> QED BY <1>1 DEF CountInv

LEMMA CountStep ==
  ASSUME ControlInv, ControlInv', CountInv, [Next]_vars
  PROVE  CountInv'
<1>1. /\ Round \in 0..MaxSteps /\ Round' \in 0..MaxSteps
      /\ Len(jobs) \in Nat /\ Len(jobs') \in Nat
  <2>1. RoundOK /\ RoundOK'
    BY RoundType, PTL
  <2> QED BY <2>1 DEF RoundOK
<1> USE DEF ControlInv, TypeOK, WfStatus, Awaits
<1>2. ASSUME UNCHANGED <<answers, posting>>, Len(jobs') = Len(jobs), Round <= Round' PROVE CountInv'
  BY <1>1, <1>2, CountKept
<1>3. CASE Start \/ Clarify \/ MakePlan \/ PlanningRaises
  <2>1. Round = 0
    BY <1>3 DEF Round, Start, Clarify, MakePlan, PlanningRaises
  <2>2. UNCHANGED <<answers, posting, jobs>>
    BY <1>3 DEF Start, Clarify, MakePlan, PlanningRaises
  <2> QED BY <1>1, <1>2, <2>1, <2>2
<1>4. CASE DispatchEnds \/ DispatchUnknown
  <2>1. UNCHANGED <<answers, posting, jobs, index>> /\ node = "dispatch"
    BY <1>4 DEF DispatchEnds, DispatchUnknown
  <2>2. node' \in {"done", "decide"}
    BY <1>4, Moves DEF DispatchEnds, DispatchUnknown
  <2> QED BY <1>1, <1>2, <2>1, <2>2 DEF Round, AtStep
<1>5. CASE DispatchPosts
  <2>1. Round' = Round + 1 /\ posting = None /\ UNCHANGED <<answers, jobs>>
    BY <1>5 DEF DispatchPosts, Round, AtStep
  <2> QED BY <1>1, <2>1, CountKept
<1>6. CASE DispatchReturns \/ DispatchFails
  <2>1. UNCHANGED <<answers, posting, jobs, index>> /\ node = "submit"
    BY <1>6 DEF DispatchReturns, DispatchFails
  <2>2. node' \in {"inspect", "decide", "done"}
    BY <1>6, Moves DEF DispatchReturns, DispatchFails
  <2> QED BY <1>1, <1>2, <2>1, <2>2 DEF Round, AtStep
<1>7. CASE InspectSettled \/ InspectTimesOut \/ InspectRaises
  <2>1. UNCHANGED <<answers, posting, jobs, index>> /\ node = "inspect"
    BY <1>7 DEF InspectSettled, InspectTimesOut, InspectRaises, Raise
  <2>2. node' \in {"decide", "done"}
    BY <1>7, Moves DEF InspectSettled, InspectTimesOut, InspectRaises, Raise
  <2> QED BY <1>1, <1>2, <2>1, <2>2 DEF Round, AtStep
<1>8. CASE Decide
  <2>1. UNCHANGED <<answers, posting, jobs>> /\ node = "decide"
    BY <1>8 DEF Decide
  <2>2. node' = "done" \/ (node' = "dispatch" /\ index' = index + 1)
    BY <1>8, Moves DEF Decide
  <2>3. Round = index /\ (node' = "done" => Round' = MaxSteps) /\ (node' = "dispatch" => Round' = index' - 1)
    BY <2>1 DEF Round, AtStep
  <2>4. index \in Int
    OBVIOUS
  <2>5. Round <= Round'
    <3>1. CASE node' = "done"
      BY <1>1, <2>3, <3>1
    <3>2. CASE node' = "dispatch" /\ index' = index + 1
      BY <1>1, <2>3, <2>4, <3>2
    <3> QED BY <2>2, <3>1, <3>2
  <2> QED BY <1>2, <2>1, <2>5
<1>9. CASE Accept
  <2>1. posting # None /\ posting' = None /\ Len(jobs') = Len(jobs) + 1
    BY <1>9 DEF Accept
  <2>2. UNCHANGED <<answers, Round>>
    BY <1>9 DEF Accept, Round, AtStep
  <2> QED BY <1>1, <2>1, <2>2, CountKept
<1>10. CASE DropPost
  <2>1. posting' = None /\ UNCHANGED <<answers, jobs, Round>>
    BY <1>10 DEF DropPost, Round, AtStep
  <2> QED BY <1>1, <2>1, CountKept
<1>11. ASSUME NEW k \in DOMAIN jobs, JobSettles(k) \/ JobRunsAgain(k) PROVE CountInv'
  <2>1. Len(jobs') = Len(jobs)
    BY <1>11 DEF JobSettles, JobRunsAgain
  <2>2. UNCHANGED <<answers, posting, Round>>
    BY <1>11 DEF JobSettles, JobRunsAgain, Round, AtStep
  <2> QED BY <1>1, <1>2, <2>1, <2>2
<1>12. ASSUME NEW choice, Answer(choice) PROVE CountInv'
  <2>1. answers' = answers + 1 /\ UNCHANGED <<posting, jobs>> /\ Round' = 0
    BY <1>12 DEF Answer, Round
  <2>2. MaxSteps * answers' = MaxSteps * answers + MaxSteps /\ MaxSteps * answers \in Int
    BY <2>1
  <2> QED BY <1>1, <2>1, <2>2 DEF CountInv
<1>13. CASE CancelPlan
  <2>1. UNCHANGED <<answers, posting, jobs>> /\ Round' = MaxSteps
    BY <1>13 DEF CancelPlan, Round, AtStep
  <2> QED BY <1>1, <1>2, <2>1
<1>14. CASE UNCHANGED vars
  BY <1>1, <1>2, <1>14 DEF vars, Round, AtStep
<1> QED BY <1>3, <1>4, <1>5, <1>6, <1>7, <1>8, <1>9, <1>10, <1>11, <1>12, <1>13, <1>14
       DEF Next, Graph

LEMMA ControlInit == Init => ControlInv /\ CountInv
<1> SUFFICES ASSUME Init PROVE ControlInv /\ CountInv
  OBVIOUS
<1>1. steps \in Seq(Steps) /\ jobs \in Seq(Rows) /\ Len(steps) = 0 /\ Len(jobs) = 0
  BY DEF Init
<1>2. MaxSteps * answers = 0
  BY DEF Init
<1>3. CountInv
  BY <1>1, <1>2 DEF Init, CountInv, Round
<1>4. /\ index \in 1..(MaxSteps + 1) /\ answers \in 0..MaxAnswers /\ faults \in 0..MaxFaults
      /\ supersteps \in 0..RecursionLimit
  BY DEF Init
<1>5. DOMAIN steps = {} /\ DOMAIN jobs = {}
  BY DEF Init
<1>6. /\ \A i \in DOMAIN steps : steps[i] \in Steps
      /\ \A k \in DOMAIN jobs : k \in JobIds /\ jobs[k] \in Rows
  BY <1>5
<1>7. /\ asked \subseteq DOMAIN jobs /\ again \subseteq DOMAIN jobs
      /\ currentJob \in JobIds \cup {0} /\ posting \in JobIds \cup {0, None}
      /\ response \in JobIds \cup {0}
  BY DEF Init
<1>8. Len(steps) <= MaxSteps
  BY <1>1
<1>9. TypeOK
  BY <1>4, <1>6, <1>7, <1>8 DEF Init, TypeOK, WfStatus, Awaits
<1> QED BY <1>1, <1>3, <1>9 DEF Init, ControlInv, AtStep

LEMMA ControlInvariant == Spec => [](ControlInv /\ CountInv)
<1>1. ControlInv /\ CountInv /\ [Next]_vars => ControlInv' /\ CountInv'
  BY ControlStep, CountStep
<1> QED BY <1>1, ControlInit, PTL DEF Spec

(* For plans and answers of any number: every variable keeps its type; a   *)
(* plan never runs past its end, and a round submits each step once.       *)
THEOREM TypeCorrect == Spec => []TypeOK
<1>1. ControlInv => TypeOK
  BY DEF ControlInv
<1> QED BY <1>1, ControlInvariant, PTL

(* A workflow that the operator cancelled submits nothing more and reads   *)
(* "cancelled" for ever: its task is gone, and no handler starts another.  *)
THEOREM CancelFinal == Spec => CancelIsFinal
<1> DEFINE Final == wfStatus = "cancelled" =>
                      wfStatus' = "cancelled" /\ (posting' # None => posting # None)
<1>1. ControlInv /\ [Next]_vars => [Final]_vars
  <2> SUFFICES ASSUME ControlInv, Next, wfStatus = "cancelled"
               PROVE  wfStatus' = "cancelled" /\ (posting' # None => posting # None)
    OBVIOUS
  <2>1. node = "done"
    BY DEF ControlInv
  <2>2. ~Graph /\ ~PlanningRaises /\ ~InspectRaises
    BY <2>1 DEF Graph, Start, Clarify, MakePlan, DispatchEnds, DispatchUnknown, DispatchPosts,
       DispatchReturns, DispatchFails, InspectSettled, InspectTimesOut, Decide, PlanningRaises,
       InspectRaises
  <2>3. CASE Accept \/ DropPost
    BY <2>3 DEF Accept, DropPost
  <2>4. ASSUME NEW k, JobSettles(k) \/ JobRunsAgain(k)
        PROVE  UNCHANGED <<wfStatus, posting>>
    BY <2>4 DEF JobSettles, JobRunsAgain
  <2>5. ASSUME NEW choice PROVE ~Answer(choice)
    BY DEF Answer
  <2>6. CASE CancelPlan
    BY <2>6 DEF CancelPlan
  <2> QED BY <2>2, <2>3, <2>4, <2>5, <2>6 DEF Next
<1> QED BY <1>1, ControlInvariant, PTL DEF Spec, CancelIsFinal

-------------------------------------------------------------------------------
(* What editing jobs start from *)

DoneJob(k) == k \in DOMAIN jobs /\ Done(k)

(* Rows stay, with their sources, and a job that is done stays done.       *)
LEMMA RowsKept ==
  ASSUME ControlInv, [Next]_vars
  PROVE  /\ DOMAIN jobs \subseteq DOMAIN jobs'
         /\ \A k \in DOMAIN jobs : jobs'[k].source = jobs[k].source
         /\ \A k : DoneJob(k) => DoneJob(k)'
<1> USE DEF DoneJob, Done
<1>1. ASSUME UNCHANGED <<jobs, again>>
      PROVE  /\ DOMAIN jobs \subseteq DOMAIN jobs'
             /\ \A k \in DOMAIN jobs : jobs'[k].source = jobs[k].source
             /\ \A k : DoneJob(k) => DoneJob(k)'
  BY <1>1
<1>2. CASE Graph \/ PlanningRaises \/ InspectRaises
  BY <1>1, <1>2 DEF Graph, Start, Clarify, MakePlan, DispatchEnds, DispatchUnknown,
     DispatchPosts, DispatchReturns, DispatchFails, InspectSettled, InspectTimesOut, Decide,
     PlanningRaises, InspectRaises
<1>3. CASE Accept
  <2>1. posting \in JobIds \cup {0} /\ jobs \in Seq(Rows)
    BY <1>3 DEF Accept, ControlInv, TypeOK
  <2>2. /\ DOMAIN jobs' = DOMAIN jobs \cup {Len(jobs) + 1}
        /\ \A k \in DOMAIN jobs : jobs'[k] = jobs[k]
    BY <1>3, <2>1, RowAdded DEF Accept
  <2> QED BY <1>3, <2>2 DEF Accept
<1>4. CASE DropPost
  BY <1>1, <1>4 DEF DropPost
<1>5. ASSUME NEW j \in DOMAIN jobs, JobSettles(j)
      PROVE  /\ DOMAIN jobs \subseteq DOMAIN jobs'
             /\ \A k \in DOMAIN jobs : jobs'[k].source = jobs[k].source
             /\ \A k : DoneJob(k) => DoneJob(k)'
  <2>1. PICK s \in Outcomes : jobs' = [jobs EXCEPT ![j].status = s]
    BY <1>5 DEF JobSettles
  <2>2. jobs \in Seq(Rows) /\ s \in Terminal
    BY DEF ControlInv
  <2>3. /\ DOMAIN jobs' = DOMAIN jobs
        /\ \A k \in DOMAIN jobs : jobs'[k].source = jobs[k].source /\ (k # j => jobs'[k] = jobs[k])
    BY <2>1, <2>2, RowSet
  <2> QED BY <1>5, <2>3 DEF JobSettles
<1>6. ASSUME NEW j \in DOMAIN jobs, JobRunsAgain(j)
      PROVE  /\ DOMAIN jobs \subseteq DOMAIN jobs'
             /\ \A k \in DOMAIN jobs : jobs'[k].source = jobs[k].source
             /\ \A k : DoneJob(k) => DoneJob(k)'
  <2>1. jobs \in Seq(Rows)
    BY DEF ControlInv
  <2>2. /\ DOMAIN jobs' = DOMAIN jobs
        /\ \A k \in DOMAIN jobs : jobs'[k].source = jobs[k].source /\ (k # j => jobs'[k] = jobs[k])
    BY <1>6, <2>1, RowSet DEF JobRunsAgain
  <2> QED BY <1>6, <2>2 DEF JobRunsAgain
<1>7. ASSUME NEW choice, Answer(choice) PROVE UNCHANGED <<jobs, again>>
  BY <1>7 DEF Answer
<1>8. CASE CancelPlan \/ UNCHANGED vars
  BY <1>1, <1>8 DEF CancelPlan, vars
<1> QED BY <1>1, <1>2, <1>3, <1>4, <1>5, <1>6, <1>7, <1>8 DEF Next

(* A plan that is being worked on: the steps before the current one are    *)
(* done, those behind it fresh; the job that is polled is the step's.      *)
AtPlan == node = "dispatch" \/ AtStep

PlanInv ==
  /\ AtPlan => \A i \in DOMAIN steps :
       /\ i < index => DoneJob(steps[i].job)
       /\ i > index \/ (i = index /\ node \in {"dispatch", "submit"}) =>
            steps[i].status = "pending" /\ steps[i].job = 0
  /\ node = "inspect" => steps[index].job = currentJob
  /\ node = "decide" /\ steps[index].status = "completed" => DoneJob(steps[index].job)

(* A step of the plan gets another status, and the graph decides on it.    *)
LEMMA PlanSettles ==
  ASSUME ControlInv, PlanInv, AtStep \/ (node = "dispatch" /\ Pending), NEW s \in StepStatus,
         steps' = [steps EXCEPT ![index].status = s],
         s = "completed" => DoneJob(steps[index].job),
         node' \in {"decide", "done"}, UNCHANGED <<index, jobs, again>>
  PROVE  PlanInv'
<1>1. steps \in Seq(Steps) /\ index \in DOMAIN steps
  BY DEF ControlInv, TypeOK, Pending
<1>2. DOMAIN steps' = DOMAIN steps /\ steps'[index].status = s
  BY <1>1, StatusSet
<1>3. \A i \in DOMAIN steps : /\ steps'[i].job = steps[i].job
                              /\ i # index => steps'[i] = steps[i]
  BY <1>1, StatusSet
<1>4. \A k : DoneJob(k) => DoneJob(k)'
  BY DEF DoneJob, Done
<1>5. AtPlan /\ index \in Int
  BY DEF AtPlan, ControlInv, TypeOK
<1>6. ASSUME NEW i \in DOMAIN steps
      PROVE  /\ i < index => DoneJob(steps[i].job)'
             /\ i > index => steps'[i].status = "pending" /\ steps'[i].job = 0
  <2>1. i \in Int
    BY DEF ControlInv
  <2> QED BY <1>3, <1>4, <1>5, <1>6, <2>1 DEF PlanInv
<1>7. s = "completed" => DoneJob(steps[index].job)'
  BY <1>1, <1>3, <1>4
<1> QED BY <1>1, <1>2, <1>6, <1>7 DEF PlanInv, AtStep

LEMMA PlanStep ==
  ASSUME ControlInv, PlanInv, [Next]_vars
  PROVE  PlanInv'
<1>1. ASSUME node' \in {"start", "clarify", "plan", "done"} PROVE PlanInv'
  BY <1>1 DEF PlanInv, AtPlan, AtStep
<1>2. \A k : DoneJob(k) => DoneJob(k)'
  BY RowsKept
<1>3. ASSUME UNCHANGED <<node, steps, index, currentJob>> PROVE PlanInv'
  BY <1>2, <1>3 DEF PlanInv, AtPlan, AtStep
<1>4. CASE Start \/ Clarify \/ PlanningRaises
  <2>1. node' \in {"clarify", "plan", "done"}
    BY <1>4, Moves DEF Start, Clarify, PlanningRaises, Raise
  <2> QED BY <1>1, <2>1
<1>5. CASE MakePlan
  <2>1. CASE Goto("plan", "FINISH")
    BY <1>1, <2>1, Moves
  <2>2. CASE steps' \in Plans /\ index' = 1 /\ Goto("plan", "dispatch")
    <3>1. /\ \A i \in DOMAIN steps' : steps'[i].status = "pending" /\ steps'[i].job = 0
          /\ DOMAIN steps' = 1..Len(steps') /\ Len(steps') \in Nat
      BY <2>2, PlanType
    <3>2. node' \in {"dispatch", "done"} /\ index' = 1
      BY <2>2, Moves
    <3>3. CASE node' = "dispatch"
      BY <3>1, <3>2, <3>3 DEF PlanInv
    <3> QED BY <1>1, <3>2, <3>3
  <2> QED BY <1>5, <2>1, <2>2 DEF MakePlan
<1>6. CASE DispatchEnds
  BY <1>1, <1>6, Moves DEF DispatchEnds
<1>7. CASE DispatchUnknown
  <2>1. steps' = [steps EXCEPT ![index].status = "failed"] /\ "failed" \in StepStatus
    BY <1>7 DEF DispatchUnknown, StepStatus, Terminal
  <2> QED BY <1>7, <2>1, PlanSettles, Moves DEF DispatchUnknown
<1>8. CASE DispatchPosts
  BY <1>2, <1>8 DEF DispatchPosts, PlanInv, AtPlan, AtStep
<1>9. CASE DispatchReturns
  <2>1. index \in DOMAIN steps /\ steps \in Seq(Steps) /\ response \in JobIds \cup {0} /\ index \in Int
    BY <1>9 DEF DispatchReturns, ControlInv, TypeOK, AtStep
  <2>2. steps' = WithJob(steps, index, "running", response) /\ "running" \in StepStatus
    BY <1>9 DEF DispatchReturns, WithJob, StepStatus
  <2>3. /\ DOMAIN steps' = DOMAIN steps /\ steps'[index].job = response
        /\ \A i \in DOMAIN steps \ {index} : steps'[i] = steps[i]
    BY <2>1, <2>2, JobSet
  <2>4. /\ node = "submit" /\ index' = index /\ currentJob' = response
        /\ node' \in {"inspect", "done"}
    BY <1>9, Moves DEF DispatchReturns
  <2>5. CASE node' = "inspect"
    BY <1>2, <2>1, <2>3, <2>4, <2>5 DEF PlanInv, AtPlan, AtStep
  <2> QED BY <1>1, <2>4, <2>5
<1>10. CASE DispatchFails
  <2>1. steps' = [steps EXCEPT ![index].status = "failed"] /\ "failed" \in StepStatus
    BY <1>10 DEF DispatchFails, StepStatus, Terminal
  <2> QED BY <1>10, <2>1, PlanSettles, Moves DEF DispatchFails, AtStep
<1>11. CASE InspectSettled
  <2>1. /\ steps' = [steps EXCEPT ![index].status = jobs[currentJob].status]
        /\ jobs[currentJob].status \in StepStatus
    BY <1>11 DEF InspectSettled, StepStatus
  <2>2. jobs[currentJob].status = "completed" => DoneJob(steps[index].job)
    BY <1>11 DEF InspectSettled, PlanInv, DoneJob, Done, ControlInv
  <2> QED BY <1>11, <2>1, <2>2, PlanSettles, Moves DEF InspectSettled, AtStep
<1>12. CASE InspectTimesOut
  <2>1. steps' = [steps EXCEPT ![index].status = "timeout"] /\ "timeout" \in StepStatus
    BY <1>12 DEF InspectTimesOut, StepStatus
  <2> QED BY <1>12, <2>1, PlanSettles, Moves DEF InspectTimesOut, AtStep
<1>13. CASE InspectRaises
  BY <1>1, <1>13 DEF InspectRaises, Raise
<1>14. CASE Decide
  <2>1. CASE Goto("decide", "ASK_OPERATOR")
    BY <1>1, <2>1, Moves
  <2>2. CASE /\ steps[index].status = "completed" /\ index' = index + 1
             /\ Goto("decide", IF index = Len(steps) THEN "FINISH" ELSE "dispatch")
    <3>1. node' \in {"done", "dispatch"}
      BY <2>2, Moves
    <3>2. index \in Int /\ \A i \in DOMAIN steps : i \in Int
      BY DEF ControlInv, TypeOK
    <3>3. node = "decide" /\ steps' = steps
      BY <1>14 DEF Decide
    <3>4. CASE node' = "dispatch"
      BY <1>2, <2>2, <3>2, <3>3, <3>4 DEF PlanInv, AtPlan, AtStep
    <3> QED BY <1>1, <3>1, <3>4
  <2> QED BY <1>14, <2>1, <2>2 DEF Decide
<1>15. CASE Accept \/ DropPost
  BY <1>3, <1>15 DEF Accept, DropPost
<1>16. ASSUME NEW k, JobSettles(k) \/ JobRunsAgain(k) PROVE PlanInv'
  BY <1>3, <1>16 DEF JobSettles, JobRunsAgain
<1>17. ASSUME NEW choice, Answer(choice) PROVE PlanInv'
  BY <1>1, <1>17 DEF Answer
<1>18. CASE CancelPlan
  BY <1>1, <1>18 DEF CancelPlan
<1>19. CASE UNCHANGED vars
  BY <1>3, <1>19 DEF vars
<1> QED BY <1>4, <1>5, <1>6, <1>7, <1>8, <1>9, <1>10, <1>11, <1>12, <1>13, <1>14, <1>15, <1>16,
       <1>17, <1>18, <1>19 DEF Next, Graph

(* Every source job, submitted or on its way, is done.                     *)
SourceInv ==
  /\ \A k \in DOMAIN jobs : jobs[k].source # 0 => DoneJob(jobs[k].source)
  /\ posting \notin {0, None} => DoneJob(posting)

LEMMA SourceStep ==
  ASSUME ControlInv, PlanInv, SourceInv, [Next]_vars
  PROVE  SourceInv'
<1>1. \A k : DoneJob(k) => DoneJob(k)'
  BY RowsKept
<1>2. \A k \in DOMAIN jobs : jobs'[k].source = jobs[k].source
  BY RowsKept
<1>3. ASSUME DOMAIN jobs' = DOMAIN jobs, posting' \in {posting, None} PROVE SourceInv'
  BY <1>1, <1>2, <1>3 DEF SourceInv
<1>4. CASE DispatchPosts
  <2>1. SourceJob(steps[index]) # 0 => DoneJob(SourceJob(steps[index]))
    <3>1. ASSUME NEW i \in DOMAIN steps, steps[i].job # 0 PROVE DoneJob(steps[i].job)
      <4>1. index \in Int /\ i \in Int
        BY DEF ControlInv, TypeOK
      <4> QED BY <1>4, <3>1, <4>1 DEF DispatchPosts, PlanInv, AtPlan
    <3> QED BY <3>1 DEF SourceJob
  <2>2. posting' = SourceJob(steps[index]) /\ jobs' = jobs
    BY <1>4 DEF DispatchPosts
  <2> QED BY <1>1, <2>1, <2>2 DEF SourceInv
<1>5. CASE Accept
  <2>1. posting \in JobIds \cup {0} /\ jobs \in Seq(Rows)
    BY <1>5 DEF Accept, ControlInv, TypeOK
  <2>2. /\ DOMAIN jobs' = DOMAIN jobs \cup {Len(jobs) + 1}
        /\ jobs'[Len(jobs) + 1] = [status |-> "live", source |-> posting]
    BY <1>5, <2>1, RowAdded DEF Accept
  <2>3. posting' = None /\ posting # None
    BY <1>5 DEF Accept
  <2> QED BY <1>1, <1>2, <2>2, <2>3 DEF SourceInv
<1>6. ASSUME NEW j \in DOMAIN jobs, JobSettles(j) \/ JobRunsAgain(j) PROVE SourceInv'
  <2>1. DOMAIN jobs' = DOMAIN jobs /\ posting' = posting
    BY <1>6 DEF JobSettles, JobRunsAgain
  <2> QED BY <1>3, <2>1
<1>7. CASE \/ Start \/ Clarify \/ MakePlan \/ DispatchEnds \/ DispatchUnknown
           \/ DispatchReturns \/ DispatchFails \/ InspectSettled \/ InspectTimesOut \/ Decide
           \/ PlanningRaises \/ InspectRaises \/ DropPost \/ CancelPlan \/ UNCHANGED vars
  BY <1>3, <1>7 DEF Start, Clarify, MakePlan, DispatchEnds, DispatchUnknown, DispatchReturns,
     DispatchFails, InspectSettled, InspectTimesOut, Decide, PlanningRaises, InspectRaises,
     DropPost, CancelPlan, vars
<1>8. ASSUME NEW choice, Answer(choice) PROVE SourceInv'
  BY <1>3, <1>8 DEF Answer
<1> QED BY <1>4, <1>5, <1>6, <1>7, <1>8 DEF Next, Graph

LEMMA WorkInvariant == Spec => [](ControlInv /\ PlanInv /\ SourceInv)
<1>1. Init => PlanInv /\ SourceInv
  BY DEF Init, PlanInv, AtPlan, AtStep, SourceInv
<1> QED BY <1>1, PlanStep, SourceStep, ControlInvariant, PTL DEF Spec

(* For plans, answers and faults of any number: whatever is retried,       *)
(* skipped or planned anew, and in whatever order the LLM names the        *)
(* sources, an editing job starts from the workspace of a job that         *)
(* completed.                                                              *)
THEOREM EditsStartFromWork == Spec => []EditsCompletedWork
<1>1. SourceInv => EditsCompletedWork
  BY DEF SourceInv, EditsCompletedWork, DoneJob
<1> QED BY <1>1, WorkInvariant, PTL

-------------------------------------------------------------------------------
(* What a completed workflow has done *)

(* A workflow reads completed only with its plan behind it, or when the    *)
(* operator or an LLM gave up.                                             *)
DoneInv ==
  /\ node = "start" /\ nextNode = "FINISH" => aborted
  /\ wfStatus = "completed" /\ ~aborted /\ ~llmFailed =>
       \A i \in DOMAIN steps : DoneJob(steps[i].job)

LEMMA DoneStep ==
  ASSUME ControlInv, PlanInv, DoneInv, [Next]_vars
  PROVE  DoneInv'
<1>1. \A k : DoneJob(k) => DoneJob(k)'
  BY RowsKept
<1>2. ASSUME node' # "start", wfStatus' # "completed" PROVE DoneInv'
  BY <1>2 DEF DoneInv
<1>3. ASSUME UNCHANGED <<node, nextNode, wfStatus, steps, aborted, llmFailed>> PROVE DoneInv'
  BY <1>1, <1>3 DEF DoneInv
<1>4. node # "done" => wfStatus = "running"
  BY DEF ControlInv
<1>5. CASE Start
  <2>1. node' # "start" /\ (wfStatus' = "completed" => aborted')
    BY <1>4, <1>5 DEF Start, DoneInv
  <2> QED BY <2>1 DEF DoneInv
<1>6. CASE Clarify \/ MakePlan
  <2>1. node' # "start" /\ (wfStatus' = "completed" => llmFailed')
    BY <1>4, <1>6, Moves DEF Clarify, MakePlan
  <2> QED BY <2>1 DEF DoneInv
<1>7. CASE PlanningRaises \/ InspectRaises
  BY <1>2, <1>7 DEF PlanningRaises, InspectRaises, Raise
<1>8. CASE DispatchEnds
  <2>1. ASSUME NEW i \in DOMAIN steps PROVE DoneJob(steps[i].job)
    <3>1. index \in 1..(MaxSteps + 1) /\ DOMAIN steps = 1..Len(steps) /\ Len(steps) \in Nat
      BY DEF ControlInv, TypeOK
    <3>2. index > Len(steps)
      BY <1>8, <3>1 DEF DispatchEnds, Pending, PlanInv, AtPlan
    <3>3. i < index
      BY <3>1, <3>2
    <3> QED BY <1>8, <3>3 DEF DispatchEnds, PlanInv, AtPlan
  <2>2. node' = "done" /\ steps' = steps
    BY <1>8, Moves DEF DispatchEnds
  <2> QED BY <1>1, <2>1, <2>2 DEF DoneInv
<1>9. CASE DispatchUnknown \/ DispatchReturns \/ DispatchFails \/ InspectSettled \/ InspectTimesOut
  <2>1. node' \in {"decide", "inspect", "done"} /\ wfStatus' \in {"running", "failed"}
    BY <1>4, <1>9, Moves
       DEF DispatchUnknown, DispatchReturns, DispatchFails, InspectSettled, InspectTimesOut
  <2> QED BY <1>2, <2>1
<1>10. CASE DispatchPosts
  BY <1>2, <1>4, <1>10 DEF DispatchPosts
<1>11. CASE Decide
  <2>1. CASE index = Len(steps) /\ steps[index].status = "completed" /\ Goto("decide", "FINISH")
    <3>1. ASSUME NEW i \in DOMAIN steps PROVE DoneJob(steps[i].job)
      <4>1. i \in 1..Len(steps) /\ Len(steps) \in Nat
        BY DEF ControlInv
      <4>2. i < index \/ i = index
        BY <2>1, <4>1
      <4> QED BY <1>11, <2>1, <4>2 DEF Decide, PlanInv, AtPlan, AtStep
    <3>2. node' = "done" /\ steps' = steps
      BY <1>11, <2>1, Moves DEF Decide
    <3> QED BY <1>1, <3>1, <3>2 DEF DoneInv
  <2>2. CASE Goto("decide", "dispatch") \/ Goto("decide", "ASK_OPERATOR")
    <3>1. node' # "start" /\ wfStatus' # "completed"
      BY <1>4, <1>11, <2>2, Moves DEF Decide
    <3> QED BY <1>2, <3>1
  <2> QED BY <1>11, <2>1, <2>2 DEF Decide
<1>12. CASE Accept \/ DropPost
  BY <1>3, <1>12 DEF Accept, DropPost
<1>13. ASSUME NEW k, JobSettles(k) \/ JobRunsAgain(k) PROVE DoneInv'
  BY <1>3, <1>13 DEF JobSettles, JobRunsAgain
<1>14. ASSUME NEW choice, Answer(choice) PROVE DoneInv'
  <2>1. wfStatus' = "running" /\ (nextNode' = "FINISH" => aborted')
    BY <1>14 DEF Answer
  <2> QED BY <2>1 DEF DoneInv
<1>15. CASE CancelPlan
  BY <1>2, <1>15 DEF CancelPlan
<1>16. CASE UNCHANGED vars
  BY <1>3, <1>16 DEF vars
<1> QED BY <1>5, <1>6, <1>7, <1>8, <1>9, <1>10, <1>11, <1>12, <1>13, <1>14, <1>15, <1>16
       DEF Next, Graph

(* For plans, answers and faults of any number: a workflow that reads      *)
(* "completed" has a job for every step of its last plan, and each of them *)
(* completed, unless the operator gave up or an LLM failed.                *)
THEOREM CompletedDone == Spec => []CompletedIsDone
<1>1. ControlInv /\ DoneInv => CompletedIsDone
  BY DEF DoneInv, CompletedIsDone, DoneJob, ControlInv
<1>2. Init => DoneInv
  BY DEF Init, DoneInv
<1>3. Spec => []DoneInv
  BY <1>2, DoneStep, WorkInvariant, PTL DEF Spec
<1> QED BY <1>1, <1>3, WorkInvariant, PTL

-------------------------------------------------------------------------------
(* Jobs that run unattended *)

(* A submission nobody waits for may still be accepted.                    *)
Owed == IF posting # None /\ node # "submit" THEN 1 ELSE 0

(* The workflow ended and may have left its last submission.               *)
Left == wfStatus = "cancelled" \/ (OutOfSteps /\ lastNode = "dispatch")

(* What jobs that run unattended are charged to.                           *)
Charged == faults + (IF Left THEN 1 ELSE 0)

StrayInv == Cardinality(Stray) + Owed <= Charged

LEMMA StrayFinite ==
  ASSUME ControlInv
  PROVE  /\ IsFiniteSet(Stray) /\ Cardinality(Stray) \in Nat
         /\ Owed \in {0, 1} /\ faults \in Nat /\ Charged \in Nat
<1>1. DOMAIN jobs = 1..Len(jobs) /\ Len(jobs) \in Nat
  BY DEF ControlInv
<1>2. IsFiniteSet(DOMAIN jobs)
  BY <1>1, FS_Interval
<1>3. Stray \subseteq DOMAIN jobs
  BY DEF Stray
<1>4. IsFiniteSet(Stray)
  BY <1>2, <1>3, FS_Subset
<1>5. Cardinality(Stray) \in Nat
  BY <1>4, FS_CardinalityType
<1>6. faults \in Nat
  BY DEF ControlInv, TypeOK
<1> QED BY <1>4, <1>5, <1>6 DEF Owed, Charged

LEMMA Sums ==
  \A strays, strays1, owed, owed1, charged, charged1 \in Int :
    /\ strays1 <= strays /\ owed1 + charged <= owed + charged1 /\ strays + owed <= charged
         => strays1 + owed1 <= charged1
    /\ strays1 <= strays + 1 /\ 1 + owed1 + charged <= owed + charged1 /\ strays + owed <= charged
         => strays1 + owed1 <= charged1
OBVIOUS

(* A step that adds no job that runs unattended.                           *)
LEMMA StrayKept ==
  ASSUME ControlInv, ControlInv', StrayInv, Stray' \subseteq Stray,
         Owed' + Charged <= Owed + Charged'
  PROVE  StrayInv'
<1>1. /\ IsFiniteSet(Stray) /\ Cardinality(Stray) \in Int
      /\ Owed \in Int /\ Owed' \in Int /\ Charged \in Int /\ Charged' \in Int
  BY StrayFinite DEF Owed, Charged, ControlInv, TypeOK
<1>2. Cardinality(Stray') <= Cardinality(Stray) /\ Cardinality(Stray') \in Int
  BY <1>1, FS_Subset, FS_CardinalityType
<1>3. Cardinality(Stray) + Owed <= Charged
  BY DEF StrayInv
<1>4. Cardinality(Stray') + Owed' <= Charged'
  BY <1>1, <1>2, <1>3, Sums
<1> QED BY <1>4 DEF StrayInv

(* A step that adds one.                                                   *)
LEMMA StrayAdded ==
  ASSUME ControlInv, ControlInv', StrayInv, NEW k, Stray' \subseteq Stray \cup {k},
         1 + Owed' + Charged <= Owed + Charged'
  PROVE  StrayInv'
<1>1. /\ IsFiniteSet(Stray) /\ Cardinality(Stray) \in Int
      /\ Owed \in Int /\ Owed' \in Int /\ Charged \in Int /\ Charged' \in Int
  BY StrayFinite DEF Owed, Charged, ControlInv, TypeOK
<1>2. /\ IsFiniteSet(Stray \cup {k})
      /\ Cardinality(Stray \cup {k}) \in {Cardinality(Stray), Cardinality(Stray) + 1}
  BY <1>1, FS_AddElement
<1>3. Cardinality(Stray') <= Cardinality(Stray \cup {k}) /\ Cardinality(Stray') \in Int
  BY <1>2, FS_Subset, FS_CardinalityType
<1>4. Cardinality(Stray) + Owed <= Charged
  BY DEF StrayInv
<1>5. Cardinality(Stray') <= Cardinality(Stray) + 1
  BY <1>1, <1>2, <1>3
<1>6. Cardinality(Stray') + Owed' <= Charged'
  BY <1>1, <1>3, <1>4, <1>5, Sums
<1> QED BY <1>6 DEF StrayInv

(* A workflow that is left at work has not ended so, and none comes back.  *)
LEMMA LeftStays ==
  ASSUME ControlInv, [Next]_vars
  PROVE  /\ node # "done" \/ wfStatus = "waiting_for_operator" => ~Left
         /\ Left => Left'
<1>1. node # "done" \/ wfStatus = "waiting_for_operator" => ~Left
  BY DEF ControlInv, Left, OutOfSteps
<1>2. CASE Graph \/ PlanningRaises \/ InspectRaises
  <2>1. node # "done"
    BY <1>2 DEF Graph, Start, Clarify, MakePlan, DispatchEnds, DispatchUnknown, DispatchPosts,
       DispatchReturns, DispatchFails, InspectSettled, InspectTimesOut, Decide, PlanningRaises,
       InspectRaises
  <2> QED BY <1>1, <2>1
<1>3. ASSUME UNCHANGED <<wfStatus, supersteps, lastNode>> PROVE Left => Left'
  BY <1>3 DEF Left, OutOfSteps
<1>4. CASE Accept \/ DropPost \/ UNCHANGED vars
  BY <1>1, <1>3, <1>4 DEF Accept, DropPost, vars
<1>5. ASSUME NEW k, JobSettles(k) \/ JobRunsAgain(k) PROVE Left => Left'
  BY <1>3, <1>5 DEF JobSettles, JobRunsAgain
<1>6. ASSUME NEW choice, Answer(choice) PROVE Left => Left'
  BY <1>1, <1>6 DEF Answer
<1>7. CASE CancelPlan
  BY <1>1, <1>7 DEF CancelPlan, Left
<1> QED BY <1>1, <1>2, <1>4, <1>5, <1>6, <1>7 DEF Next

(* What a step may add to the charges and to what is owed.                 *)
Faulted == faults' = faults + 1
Leaves  == Left' /\ ~Left

LEMMA Charges ==
  ASSUME ControlInv, ControlInv', faults' = faults \/ Faulted, Left => Left'
  PROVE  /\ Owed' = 0 \/ Owed' = Owed \/ Faulted \/ Leaves
              => Owed' + Charged <= Owed + Charged'
         /\ (Faulted \/ Leaves \/ Owed = 1) /\ (Owed' = 0 \/ (Faulted /\ Owed' = Owed))
              => 1 + Owed' + Charged <= Owed + Charged'
<1>1. faults \in Int /\ faults' \in {faults, faults + 1}
  BY DEF ControlInv, TypeOK, Faulted
<1>2. PICK old \in {0, 1}, new \in {0, 1}, was \in {0, 1}, is \in {0, 1}, more \in {0, 1} :
        /\ Owed = old /\ Owed' = new
        /\ Charged = faults + was /\ Charged' = faults + more + is
        /\ was <= is
        /\ Faulted <=> more = 1
        /\ Leaves <=> is = 1 /\ was = 0
  <2>1. Owed \in {0, 1} /\ Owed' \in {0, 1}
    BY DEF Owed
  <2>2. PICK was \in {0, 1} : /\ Charged = faults + was
                              /\ was = 1 <=> Left
    BY DEF Charged
  <2>3. PICK more \in {0, 1} : faults' = faults + more /\ (Faulted <=> more = 1)
    BY <1>1 DEF Faulted
  <2>4. PICK is \in {0, 1} : /\ Charged' = faults + more + is
                             /\ is = 1 <=> Left'
    BY <1>1, <2>3 DEF Charged
  <2> QED BY <2>1, <2>2, <2>3, <2>4 DEF Leaves
<1> QED BY <1>1, <1>2

LEMMA StrayStep ==
  ASSUME ControlInv, ControlInv', StrayInv, [Next]_vars
  PROVE  StrayInv'
<1>1. ASSUME Stray' \subseteq Stray, faults' = faults \/ Faulted,
             Owed' = 0 \/ Owed' = Owed \/ Faulted \/ Leaves
      PROVE  StrayInv'
  BY <1>1, LeftStays, Charges, StrayKept
<1>2. ASSUME NEW k, Stray' \subseteq Stray \cup {k}, faults' = faults \/ Faulted,
             Faulted \/ Leaves \/ Owed = 1, Owed' = 0 \/ (Faulted /\ Owed' = Owed)
      PROVE  StrayInv'
  BY <1>2, LeftStays, Charges, StrayAdded
<1>3. /\ node # "done" => wfStatus # "cancelled" /\ ~Left
      /\ wfStatus = "waiting_for_operator" => node = "done"
      /\ response # 0 => node = "submit" /\ posting = None
      /\ DOMAIN jobs = 1..Len(jobs)
  BY LeftStays DEF ControlInv
<1>4. ASSUME UNCHANGED <<jobs, asked, response>>, node # "inspect"
      PROVE  Stray' \subseteq Stray
  BY <1>4 DEF Stray, Live
<1>5. CASE Start
  <2>1. node' \in {"clarify", "done"}
    BY <1>5 DEF Start
  <2> QED BY <1>1, <1>3, <1>4, <1>5, <2>1 DEF Start, Owed
<1>6. CASE Clarify
  <2>1. node' \in {"plan", "done"}
    BY <1>6, Moves DEF Clarify
  <2> QED BY <1>1, <1>3, <1>4, <1>6, <2>1 DEF Clarify, Owed
<1>7. CASE MakePlan
  <2>1. node' \in {"dispatch", "done"}
    BY <1>7, Moves DEF MakePlan
  <2> QED BY <1>1, <1>3, <1>4, <1>7, <2>1 DEF MakePlan, Owed
<1>8. CASE PlanningRaises
  BY <1>1, <1>3, <1>4, <1>8 DEF PlanningRaises, Raise, Fault, Faulted
<1>9. CASE DispatchEnds \/ DispatchUnknown
  <2>1. node' \in {"decide", "done"}
    BY <1>9, Moves DEF DispatchEnds, DispatchUnknown
  <2> QED BY <1>1, <1>3, <1>4, <1>9, <2>1 DEF DispatchEnds, DispatchUnknown, Owed
<1>10. CASE DispatchPosts
  BY <1>1, <1>4, <1>10 DEF DispatchPosts, Owed
<1>11. CASE DispatchReturns
  <2>1. currentJob' = response /\ posting' = None /\ faults' = faults /\ Owed' = 0
    BY <1>3, <1>11 DEF DispatchReturns, Owed
  <2>2. CASE node' = "inspect"
    <3>1. Stray' \subseteq Stray
      BY <1>11, <2>1, <2>2 DEF DispatchReturns, Stray, Live
    <3> QED BY <1>1, <2>1, <3>1
  <2>3. CASE node' = "done" /\ wfStatus' = "failed" /\ supersteps' = RecursionLimit
    <3>1. Stray' \subseteq Stray \cup {response}
      BY <1>11 DEF DispatchReturns, Stray, Live
    <3>2. Leaves
      BY <1>3, <1>11, <2>3, Moves DEF DispatchReturns, Leaves, Left, OutOfSteps
    <3> QED BY <1>2, <2>1, <3>1, <3>2
  <2> QED BY <1>11, <2>2, <2>3, Moves DEF DispatchReturns
<1>12. CASE DispatchFails
  <2>1. node' \in {"decide", "done"} /\ Faulted
    BY <1>12, Moves DEF DispatchFails, Fault, Faulted
  <2>2. CASE response = 0
    BY <1>1, <1>3, <1>4, <1>12, <2>1, <2>2 DEF DispatchFails
  <2>3. CASE response # 0
    <3>1. Stray' \subseteq Stray \cup {response}
      BY <1>12, <2>1 DEF DispatchFails, Stray, Live
    <3>2. Owed' = 0
      BY <1>3, <1>12, <2>3 DEF DispatchFails, Owed
    <3> QED BY <1>2, <1>3, <1>12, <2>1, <3>1, <3>2 DEF DispatchFails
  <2> QED BY <2>2, <2>3
<1>13. CASE InspectSettled
  <2>1. node' \in {"decide", "done"}
    BY <1>13, Moves DEF InspectSettled
  <2>2. Stray' \subseteq Stray
    BY <1>13 DEF InspectSettled, Stray, Live, Terminal
  <2> QED BY <1>1, <1>3, <1>13, <2>1, <2>2 DEF InspectSettled, Owed
<1>14. CASE InspectTimesOut
  <2>1. node' \in {"decide", "done"} /\ Owed' = Owed
    BY <1>14, Moves DEF InspectTimesOut, Owed
  <2>2. CASE asked' = asked \cup ({currentJob} \ {0}) /\ UNCHANGED faults
    <3>1. Stray' \subseteq Stray
      BY <1>3, <1>14, <2>2 DEF InspectTimesOut, Stray, Live
    <3> QED BY <1>1, <1>3, <1>14, <2>1, <2>2, <3>1 DEF InspectTimesOut
  <2>3. CASE Fault("lost") /\ UNCHANGED asked
    <3>1. Stray' \subseteq Stray \cup {currentJob}
      BY <1>14, <2>3 DEF InspectTimesOut, Stray, Live
    <3>2. Faulted
      BY <2>3 DEF Fault, Faulted
    <3> QED BY <1>2, <1>3, <1>14, <2>1, <3>1, <3>2 DEF InspectTimesOut
  <2> QED BY <1>14, <2>2, <2>3 DEF InspectTimesOut, AskCancel
<1>15. CASE InspectRaises
  <2>1. Faulted /\ Owed' = Owed
    BY <1>15 DEF InspectRaises, Raise, Fault, Faulted, Owed
  <2>2. Stray' \subseteq Stray \cup {currentJob}
    BY <1>15 DEF InspectRaises, Raise, Stray, Live
  <2> QED BY <1>2, <1>3, <1>15, <2>1, <2>2 DEF InspectRaises
<1>16. CASE Decide
  <2>1. node' \in {"dispatch", "done"}
    BY <1>16, Moves DEF Decide
  <2> QED BY <1>1, <1>3, <1>4, <1>16, <2>1 DEF Decide, Owed
<1>17. CASE Accept
  <2>1. /\ DOMAIN jobs' = DOMAIN jobs \cup {Len(jobs) + 1}
        /\ \A k \in DOMAIN jobs : jobs'[k] = jobs[k]
    <3>1. posting \in JobIds \cup {0}
      BY <1>17 DEF Accept, ControlInv, TypeOK
    <3> QED BY <1>17, <3>1, RowAdded DEF Accept, ControlInv
  <2>2. Stray' \subseteq Stray \cup {Len(jobs) + 1}
    BY <1>3, <1>17, <2>1 DEF Accept, Stray, Live
  <2>3. Owed' = 0 /\ faults' = faults
    BY <1>17 DEF Accept, Owed
  <2>4. CASE node = "submit"
    <3>1. Stray' \subseteq Stray
      BY <1>3, <1>17, <2>1, <2>2, <2>4 DEF Accept, Stray, Live
    <3> QED BY <1>1, <1>17, <2>3, <3>1 DEF Accept
  <2>5. CASE node # "submit"
    <3>1. Owed = 1
      BY <1>17, <2>5 DEF Accept, Owed
    <3> QED BY <1>2, <1>17, <2>2, <2>3, <3>1 DEF Accept
  <2> QED BY <2>4, <2>5
<1>18. CASE DropPost
  <2>1. Stray' \subseteq Stray /\ Owed' = 0
    BY <1>18 DEF DropPost, Stray, Live, Owed
  <2> QED BY <1>1, <1>18, <2>1 DEF DropPost
<1>19. ASSUME NEW k \in DOMAIN jobs, JobSettles(k) PROVE StrayInv'
  <2>1. PICK s \in Outcomes : jobs' = [jobs EXCEPT ![k].status = s]
    BY <1>19 DEF JobSettles
  <2>2. /\ DOMAIN jobs' = DOMAIN jobs /\ jobs'[k].status = s
        /\ \A j \in DOMAIN jobs : j # k => jobs'[j] = jobs[j]
    BY <2>1, RowSet DEF ControlInv
  <2>3. Stray' \subseteq Stray
    BY <1>19, <2>2 DEF JobSettles, Stray, Live, Terminal
  <2> QED BY <1>1, <1>19, <2>3 DEF JobSettles, Owed
<1>20. ASSUME NEW k \in DOMAIN jobs, JobRunsAgain(k) PROVE StrayInv'
  <2>1. jobs' = [jobs EXCEPT ![k].status = "live"]
    BY <1>20 DEF JobRunsAgain
  <2>2. /\ DOMAIN jobs' = DOMAIN jobs
        /\ \A j \in DOMAIN jobs : j # k => jobs'[j] = jobs[j]
    BY <2>1, RowSet DEF ControlInv
  <2>3. Stray' \subseteq Stray \cup {k}
    BY <1>20, <2>2 DEF JobRunsAgain, Stray, Live
  <2>4. Faulted /\ Owed' = Owed
    BY <1>20 DEF JobRunsAgain, Fault, Faulted, Owed
  <2> QED BY <1>2, <1>20, <2>3, <2>4 DEF JobRunsAgain
<1>21. ASSUME NEW choice, Answer(choice) PROVE StrayInv'
  <2>1. node = "done" /\ node' = "start" /\ UNCHANGED <<callVars, faults>>
    BY <1>3, <1>21 DEF Answer
  <2>2. Stray' \subseteq Stray /\ Owed' = Owed
    BY <1>4, <2>1 DEF Owed
  <2> QED BY <1>1, <1>3, <1>21, <2>1, <2>2 DEF Answer
<1>22. CASE CancelPlan
  <2>1. node' = "done" /\ wfStatus' = "cancelled" /\ response' = 0 /\ UNCHANGED <<posting, jobs>>
    BY <1>22 DEF CancelPlan
  <2>2. /\ \/ asked' = asked \cup ({currentJob} \ {0}) /\ faults' = faults
           \/ asked' = asked /\ Faulted
        /\ asked \subseteq asked'
    BY <1>22 DEF CancelPlan, AskCancel, Fault, Faulted
  <2>3. node # "done" => Leaves
    BY <1>3, <2>1 DEF Leaves, Left
  <2>4. node # "submit" => Owed' = Owed
    BY <2>1 DEF Owed
  <2>5. CASE node = "submit" /\ response # 0
    <3>1. Stray' \subseteq Stray \cup {response} /\ Owed' = 0
      BY <1>3, <2>1, <2>2, <2>5 DEF Stray, Live, Owed
    <3> QED BY <1>2, <2>1, <2>2, <2>3, <2>5, <3>1
  <2>6. CASE node = "inspect" /\ asked' = asked /\ Faulted
    <3>1. Stray' \subseteq Stray \cup {currentJob}
      BY <1>3, <2>1, <2>6 DEF Stray, Live
    <3> QED BY <1>2, <2>1, <2>4, <2>6, <3>1
  <2>7. CASE ~(node = "submit" /\ response # 0) /\ ~(node = "inspect" /\ asked' = asked /\ Faulted)
    <3>1. response = 0
      BY <1>3, <2>7
    <3>2. Stray' \subseteq Stray
      BY <1>3, <2>1, <2>2, <2>7, <3>1 DEF Stray, Live
    <3> QED BY <1>1, <2>1, <2>2, <2>3, <2>4, <3>2
  <2> QED BY <2>5, <2>6, <2>7
<1>23. CASE UNCHANGED vars
  <2>1. Stray' \subseteq Stray /\ Owed' = Owed
    BY <1>23 DEF vars, Stray, Live, Owed
  <2> QED BY <1>1, <1>23, <2>1 DEF vars
<1> QED BY <1>5, <1>6, <1>7, <1>8, <1>9, <1>10, <1>11, <1>12, <1>13, <1>14, <1>15, <1>16, <1>17,
           <1>18, <1>19, <1>20, <1>21, <1>22, <1>23 DEF Next, Graph

(* For plans, answers and faults of any number: every job that runs        *)
(* unattended is owed to a call that failed or to a redelivery, one for    *)
(* each, and to the cancel of the workflow, or to its running out of       *)
(* supersteps, at most one more.                                           *)
THEOREM StraysCharged == Spec => []NoStrayJobs
<1>1. ControlInv /\ StrayInv => NoStrayJobs
  <2> SUFFICES ASSUME ControlInv, StrayInv PROVE NoStrayJobs
    OBVIOUS
  <2>1. Cardinality(Stray) \in Nat /\ Owed \in {0, 1} /\ Charged \in Nat
    BY StrayFinite
  <2>2. Cardinality(Stray) <= Charged
    BY <2>1 DEF StrayInv
  <2> QED BY <2>2 DEF NoStrayJobs, Charged, Left
<1>2. Init => StrayInv
  <2> SUFFICES ASSUME Init PROVE StrayInv
    OBVIOUS
  <2>1. Stray = {} /\ Owed = 0 /\ Charged = 0
    BY DEF Init, Stray, Owed, Charged, Left, OutOfSteps
  <2>2. Cardinality(Stray) = 0
    BY <2>1, FS_EmptySet
  <2> QED BY <2>1, <2>2 DEF StrayInv
<1>3. Spec => []StrayInv
  BY <1>2, StrayStep, WorkInvariant, PTL DEF Spec
<1> QED BY <1>1, <1>3, WorkInvariant, PTL
===============================================================================
