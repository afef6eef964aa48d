---------------------------- MODULE BackboneProofs ----------------------------
(***************************************************************************)
(* Proofs about Backbone, for any jobs, workers, requests and bounds: its  *)
(* type invariant, how long a job works on after a cancel request, which   *)
(* jobs are left with an unsettled row, and that rows behave as            *)
(* JobContract promises.                                                   *)
(***************************************************************************)
EXTENDS Backbone, FiniteSetTheorems, TLAPS

USE DEF rowVars, arqVars, taskVars, clientVars, history

-------------------------------------------------------------------------------
(* Every step keeps the variables in their types. *)

LEMMA TypeInit == Init => TypeOK
BY BackboneAssumption DEF Init, TypeOK, Statuses, Writes, Terminal, Places, Driving, Calls

LEMMA TypeSubmit ==
  ASSUME TypeOK, NEW j \in Jobs, CreateJob(j) \/ EnqueueJob(j) \/ EnqueueFails(j)
  PROVE  TypeOK'
<1> USE BackboneAssumption DEF TypeOK, Statuses
<1>1. CASE CreateJob(j)    BY <1>1 DEF CreateJob
<1>2. CASE EnqueueJob(j)   BY <1>2 DEF EnqueueJob
<1>3. CASE EnqueueFails(j) BY <1>3 DEF EnqueueFails, Fault
<1>4. QED BY <1>1, <1>2, <1>3

LEMMA TypeCancel ==
  ASSUME TypeOK, NEW j \in Jobs, NEW c \in Requests, CancelJob(c, j) \/ AbortReturns(c, j)
  PROVE  TypeOK'
<1> USE DEF TypeOK
<1>1. CASE CancelJob(c, j)    BY <1>1 DEF CancelJob
<1>2. CASE AbortReturns(c, j) BY <1>2 DEF AbortReturns
<1>3. QED BY <1>1, <1>2

LEMMA TypeLate ==
  ASSUME TypeOK, NEW c \in Calls, ServeLate(c) \/ DropLate(c)
  PROVE  TypeOK'
BY DEF TypeOK, ServeLate, DropLate, Calls, Statuses

LEMMA TypeArq ==
  ASSUME TypeOK, NEW w \in Workers, NEW j \in Jobs, Pick(w, j) \/ GiveUp(w, j) \/ Return(w, j)
  PROVE  TypeOK'
<1> USE BackboneAssumption DEF TypeOK, Places, Move
<1>1. CASE Pick(w, j)    BY <1>1 DEF Pick
<1>2. CASE GiveUp(w, j)  BY <1>2 DEF GiveUp
<1>3. CASE Return(w, j)  BY <1>3 DEF Return
<1>4. QED BY <1>1, <1>2, <1>3

LEMMA TypeWorkerFault ==
  ASSUME TypeOK, NEW w \in Workers, Crash(w) \/ Stop(w)
  PROVE  TypeOK'
<1> USE BackboneAssumption DEF TypeOK, Places, Driving, Fault
<1>1. CASE Crash(w) BY <1>1 DEF Crash
<1>2. CASE Stop(w)
  <2>1. pc' \in [Jobs -> Places]      BY <1>2 DEF Stop
  <2>2. out' \in [Jobs -> Terminal]   BY <1>2 DEF Stop, Terminal
  <2>3. stopping' \in SUBSET Jobs     BY <1>2 DEF Stop
  <2>4. QED BY <1>2, <2>1, <2>2, <2>3 DEF Stop
<1>3. QED BY <1>1, <1>2

LEMMA TypeTimeout ==
  ASSUME TypeOK, NEW j \in Jobs, JobTimeout(j) \/ KeyExpires(j)
  PROVE  TypeOK'
BY BackboneAssumption
   DEF TypeOK, Places, Driving, Terminal, Fault, Move, EndWith, JobTimeout, KeyExpires

LEMMA TypePost ==
  ASSUME TypeOK, NEW j \in Jobs, NEW s \in Writes, PostServed(j, s) \/ PostGivenUp(j, s)
  PROVE  /\ status' \in [Jobs -> Statuses]
         /\ late' \in SUBSET Calls
         /\ faults' \in 0..MaxFaults
BY BackboneAssumption DEF TypeOK, PostServed, PostGivenUp, Fault, Calls, Statuses

LEMMA TypeCheck ==
  ASSUME TypeOK, NEW j \in Jobs, NEW a \in BOOLEAN, CheckAnswers(j, a) \/ CheckFails(j)
  PROVE  faults' \in 0..MaxFaults /\ missed' \in [Jobs -> Nat]
BY BackboneAssumption DEF TypeOK, CheckAnswers, CheckFails, Fault

LEMMA TypeRunJob ==
  ASSUME TypeOK, NEW j \in Jobs, RunJob(j) \/ RunRaises(j)
  PROVE  TypeOK'
<1> USE BackboneAssumption DEF TypeOK, Places, Driving, Move, EndWith, Terminal, Writes
<1>1. CASE \E w \in Workers : RejectType(w, j)  BY <1>1 DEF RejectType
<1>2. CASE \E w \in Workers : MarkStarted(w, j) BY <1>2, TypePost DEF MarkStarted
<1>3. CASE \E w \in Workers : Return(w, j)      BY <1>3, TypeArq
<1>4. CASE CheckBeforeStart(j) BY <1>4, TypeCheck DEF CheckBeforeStart
<1>5. CASE NodeOutput(j)       BY <1>5 DEF NodeOutput
<1>6. CASE PollCancel(j)       BY <1>6, TypeCheck DEF PollCancel
<1>7. CASE Record(j)           BY <1>7 DEF Record
<1>8. CASE GraphReturns(j)     BY <1>8 DEF GraphReturns
<1>9. CASE GraphRaises(j)      BY <1>9 DEF GraphRaises
<1>10. CASE DeadlineExpires(j) BY <1>10 DEF DeadlineExpires
<1>11. CASE Finalize(j)
  <2>1. out[j] \in Writes OBVIOUS
  <2>2. QED BY <1>11, <2>1, TypePost DEF Finalize
<1>12. CASE RunRaises(j) BY <1>12 DEF RunRaises, Fault
<1>13. QED BY <1>1, <1>2, <1>3, <1>4, <1>5, <1>6, <1>7, <1>8, <1>9, <1>10, <1>11, <1>12
           DEF RunJob

LEMMA TypeStep == TypeOK /\ [Next]_vars => TypeOK'
<1> SUFFICES ASSUME TypeOK, [Next]_vars PROVE TypeOK'
  OBVIOUS
<1>1. CASE UNCHANGED vars BY <1>1 DEF vars, TypeOK
<1>2. CASE Next
  BY <1>2, TypeSubmit, TypeCancel, TypeLate, TypeArq, TypeWorkerFault, TypeTimeout,
     TypeRunJob DEF Next
<1>3. QED BY <1>1, <1>2

(* The variables of the backbone, the queue and the workers keep their     *)
(* types, whatever faults occur.                                           *)
THEOREM TypeCorrect == Spec => []TypeOK
<1>1. QED BY TypeInit, TypeStep, PTL DEF Spec

-------------------------------------------------------------------------------
(* Cancellation.  Before the request nothing is counted.  After it, a run  *)
(* that stands between its check and the record of the update owes one     *)
(* more count; every later check either answers "cancelled" or is counted  *)
(* as missed.                                                              *)
Owed(j) == IF pc[j] = "record" THEN 1 ELSE 0

CancelInv ==
  \A j \in Jobs :
    IF cancel[j] THEN worked[j] + Owed(j) <= 1 + missed[j]
                 ELSE worked[j] = 0 /\ missed[j] = 0

LEMMA CancelInvInit == Init => CancelInv
BY DEF Init, CancelInv

(* A step that counts nothing and sends no run from its check to its       *)
(* record keeps the invariant, also when it sets the flag of some jobs.    *)
LEMMA CancelInvQuiet ==
  ASSUME TypeOK, CancelInv, UNCHANGED <<worked, missed>>,
         \A j \in Jobs : cancel[j] => cancel'[j],
         \A j \in Jobs : pc'[j] = "record" => pc[j] = "record"
  PROVE  CancelInv'
<1> SUFFICES ASSUME NEW j \in Jobs
             PROVE (IF cancel[j] THEN worked[j] + Owed(j) <= 1 + missed[j]
                                 ELSE worked[j] = 0 /\ missed[j] = 0)'
  BY DEF CancelInv
<1>1. worked'[j] = worked[j] /\ missed'[j] = missed[j]
  OBVIOUS
<1>2. worked[j] \in Nat /\ missed[j] \in Nat
  BY DEF TypeOK
<1>3. Owed(j)' <= Owed(j) /\ Owed(j) \in {0, 1} /\ Owed(j)' \in {0, 1}
  BY DEF Owed
<1>4. cancel[j] => cancel'[j]
  OBVIOUS
<1>5. CASE cancel[j]
  BY <1>1, <1>2, <1>3, <1>4, <1>5 DEF CancelInv
<1>6. CASE ~cancel[j]
  BY <1>1, <1>2, <1>3, <1>6 DEF CancelInv
<1>7. QED BY <1>5, <1>6

LEMMA CancelInvCheck ==
  ASSUME TypeOK, CancelInv, NEW j \in Jobs, CheckBeforeStart(j) \/ PollCancel(j)
  PROVE  CancelInv'
<1> SUFFICES ASSUME NEW i \in Jobs
             PROVE (IF cancel[i] THEN worked[i] + Owed(i) <= 1 + missed[i]
                                 ELSE worked[i] = 0 /\ missed[i] = 0)'
  BY DEF CancelInv
<1> USE DEF TypeOK
<1>1. /\ cancel' = cancel /\ worked' = worked
      /\ pc[j] # "record"
      /\ i # j => pc'[i] = pc[i]
  BY DEF CheckBeforeStart, PollCancel, Move, EndWith
<1>2. \/ missed' = missed /\ (cancel[j] => pc'[j] # "record")
      \/ missed' = [missed EXCEPT ![j] = IF cancel[j] THEN @ + 1 ELSE @]
  BY DEF CheckBeforeStart, PollCancel, Move, EndWith, CheckAnswers, CheckFails
<1>3. worked[i] \in Nat /\ missed[i] \in Nat
  OBVIOUS
<1>4. CASE i # j
  <2>1. missed'[i] = missed[i] /\ Owed(i)' = Owed(i)
    BY <1>1, <1>2, <1>4 DEF Owed
  <2>2. QED BY <1>1, <1>3, <2>1 DEF CancelInv
<1>5. CASE i = j /\ cancel[j]
  <2>1. worked[j] <= 1 + missed[j]
    BY <1>1, <1>3, <1>5 DEF CancelInv, Owed
  <2>2. Owed(j)' + missed[j] <= missed'[j]
    BY <1>2, <1>3, <1>5 DEF Owed
  <2>3. Owed(j)' \in {0, 1} /\ missed'[j] \in {missed[j], missed[j] + 1}
    BY <1>2, <1>3, <1>5 DEF Owed
  <2>4. QED BY <1>1, <1>3, <1>5, <2>1, <2>2, <2>3
<1>6. CASE i = j /\ ~cancel[j]
  <2>1. missed'[j] = missed[j]
    BY <1>2, <1>6
  <2>2. QED BY <1>1, <1>6, <2>1 DEF CancelInv
<1>7. QED BY <1>4, <1>5, <1>6

LEMMA CancelInvRecord ==
  ASSUME TypeOK, CancelInv, NEW j \in Jobs, Record(j)
  PROVE  CancelInv'
<1> SUFFICES ASSUME NEW i \in Jobs
             PROVE (IF cancel[i] THEN worked[i] + Owed(i) <= 1 + missed[i]
                                 ELSE worked[i] = 0 /\ missed[i] = 0)'
  BY DEF CancelInv
<1> USE DEF TypeOK, Record, Move
<1>1. /\ cancel' = cancel /\ missed' = missed
      /\ worked[i] \in Nat /\ missed[i] \in Nat
  OBVIOUS
<1>2. CASE i # j
  BY <1>1, <1>2 DEF CancelInv, Owed
<1>3. CASE i = j
  <2>1. Owed(j) = 1 /\ Owed(j)' = 0
    BY DEF Owed
  <2>2. worked'[j] = IF cancel[j] THEN worked[j] + 1 ELSE worked[j]
    OBVIOUS
  <2>3. QED BY <1>1, <1>3, <2>1, <2>2 DEF CancelInv
<1>4. QED BY <1>2, <1>3

(* Every other step is quiet in the sense of CancelInvQuiet.               *)
LEMMA CancelInvStep ==
  ASSUME TypeOK, CancelInv, [Next]_vars
  PROVE  CancelInv'
<1> USE DEF TypeOK, Move, EndWith
<1> DEFINE Quiet == /\ UNCHANGED <<worked, missed>>
                    /\ \A j \in Jobs : cancel[j] => cancel'[j]
                    /\ \A j \in Jobs : pc'[j] = "record" => pc[j] = "record"
<1>q. Quiet => CancelInv'
  BY CancelInvQuiet
<1>1. CASE UNCHANGED vars
  <2>1. Quiet BY <1>1 DEF vars
  <2>2. QED BY <1>q, <2>1
<1>2. ASSUME NEW j \in Jobs, CreateJob(j) \/ EnqueueJob(j) \/ EnqueueFails(j)
      PROVE  CancelInv'
  <2>1. Quiet BY <1>2 DEF CreateJob, EnqueueJob, EnqueueFails
  <2>2. QED BY <1>q, <2>1
<1>3. ASSUME NEW j \in Jobs, NEW c \in Requests, CancelJob(c, j) \/ AbortReturns(c, j)
      PROVE  CancelInv'
  <2>1. Quiet BY <1>3 DEF CancelJob, AbortReturns
  <2>2. QED BY <1>q, <2>1
<1>4. ASSUME NEW c \in Calls, ServeLate(c) \/ DropLate(c)
      PROVE  CancelInv'
  <2>1. Quiet BY <1>4 DEF ServeLate, DropLate
  <2>2. QED BY <1>q, <2>1
<1>5. ASSUME NEW w \in Workers, NEW j \in Jobs, Pick(w, j) \/ GiveUp(w, j) \/ Return(w, j)
      PROVE  CancelInv'
  <2>1. Quiet BY <1>5 DEF Pick, GiveUp, Return
  <2>2. QED BY <1>q, <2>1
<1>6. ASSUME NEW w \in Workers, Crash(w) \/ Stop(w)
      PROVE  CancelInv'
  <2>1. Quiet
    <3>1. CASE Crash(w) BY <3>1 DEF Crash
    <3>2. CASE Stop(w) BY <3>2 DEF Stop
    <3>3. QED BY <1>6, <3>1, <3>2
  <2>2. QED BY <1>q, <2>1
<1>7. ASSUME NEW j \in Jobs, JobTimeout(j) \/ KeyExpires(j)
      PROVE  CancelInv'
  <2>1. Quiet BY <1>7 DEF JobTimeout, KeyExpires
  <2>2. QED BY <1>q, <2>1
<1>8. ASSUME NEW j \in Jobs, RunJob(j) \/ RunRaises(j)
      PROVE  CancelInv'
  <2>1. CASE CheckBeforeStart(j) \/ PollCancel(j)
    BY <2>1, CancelInvCheck
  <2>2. CASE Record(j)
    BY <2>2, CancelInvRecord
  <2>3. CASE \E w \in Workers : RejectType(w, j) \/ MarkStarted(w, j)
    <3>1. Quiet BY <2>3 DEF RejectType, MarkStarted
    <3>2. QED BY <1>q, <3>1
  <2>4. CASE \E w \in Workers : Return(w, j)
    BY <2>4, <1>5
  <2>5. CASE NodeOutput(j) \/ GraphReturns(j) \/ GraphRaises(j) \/ DeadlineExpires(j)
             \/ Finalize(j) \/ RunRaises(j)
    <3>1. Quiet
      BY <2>5 DEF NodeOutput, GraphReturns, GraphRaises, DeadlineExpires, Finalize, RunRaises
    <3>2. QED BY <1>q, <3>1
  <2>6. QED BY <1>8, <2>1, <2>2, <2>3, <2>4, <2>5 DEF RunJob
<1>9. QED BY <1>1, <1>2, <1>3, <1>4, <1>5, <1>6, <1>7, <1>8 DEF Next

(* For any number of deliveries, crashes, lost and late calls: after the   *)
(* cancel request, drive_graph accepts at most one node update more than   *)
(* the cancellation checks that failed.                                    *)
THEOREM CancelIsBounded == Spec => []CancelBounded
<1>1. TypeOK /\ CancelInv => CancelBounded
  <2> SUFFICES ASSUME TypeOK, CancelInv, NEW j \in Jobs PROVE worked[j] <= 1 + missed[j]
    BY DEF CancelBounded
  <2>1. Owed(j) \in {0, 1} BY DEF Owed
  <2>2. worked[j] \in Nat /\ missed[j] \in Nat BY DEF TypeOK
  <2>3. QED BY <2>1, <2>2 DEF CancelInv
<1>2. TypeOK /\ CancelInv /\ [Next]_vars => CancelInv'
  BY CancelInvStep
<1>3. QED BY TypeInit, TypeStep, CancelInvInit, <1>1, <1>2, PTL DEF Spec

-------------------------------------------------------------------------------
(* The row and the queue.  A job that is running is in the queue and held  *)
(* by one worker, so nobody else takes it off; it is taken off only when   *)
(* run_job has returned, and then its row is settled or accounted for.     *)

Accounted(j) == Settled(j) \/ j \in unwritten

SettleInv ==
  /\ \A j \in Jobs : pc[j] # "idle" => j \in queue /\ j \in inProgress
  /\ \A w \in Workers : \A j \in tasks[w] : pc[j] # "idle"
  /\ \A w, v \in Workers : \A j \in tasks[w] : j \in tasks[v] => w = v
  /\ \A j \in Jobs : pc[j] = "return" /\ j \notin stopping => Accounted(j)
  /\ FinishedIsSettled

LEMMA SettleInit == Init => SettleInv
BY DEF Init, SettleInv, FinishedIsSettled

(* A step that moves no job in or out of a queue or a worker, and accounts *)
(* for the row of the job that returns.                                    *)
LEMMA SettleQuiet ==
  ASSUME TypeOK, SettleInv, UNCHANGED <<queue, inProgress, tasks>>,
         stopping \subseteq stopping', posting \subseteq posting',
         \A j \in Jobs : pc'[j] = "idle" <=> pc[j] = "idle",
         \A j \in Jobs : pc'[j] = "return" /\ j \notin stopping' =>
                        pc[j] = "return" \/ Accounted(j)',
         \A j \in Jobs : Accounted(j) =>
                        Accounted(j)' \/ (pc[j] \notin {"idle", "return"} /\ pc'[j] # "return"),
         \A j \in Jobs : status'[j] # "absent" =>
                        status[j] # "absent" \/ j \in posting' \cup queue \/ Accounted(j)'
  PROVE  SettleInv'
<1>1. (\A j \in Jobs : pc[j] # "idle" => j \in queue /\ j \in inProgress)'
  BY DEF SettleInv
<1>2. (\A w \in Workers : \A j \in tasks[w] : pc[j] # "idle")'
  BY DEF SettleInv, TypeOK
<1>3. (\A w, v \in Workers : \A j \in tasks[w] : j \in tasks[v] => w = v)'
  BY DEF SettleInv
<1>4. (\A j \in Jobs : pc[j] = "return" /\ j \notin stopping => Accounted(j))'
  BY DEF SettleInv
<1>5. FinishedIsSettled'
  <2> SUFFICES ASSUME NEW j \in Jobs, status'[j] # "absent", j \notin posting' \cup queue
               PROVE  Accounted(j)'
    BY DEF FinishedIsSettled, Accounted
  <2>1. pc[j] = "idle"
    BY DEF SettleInv
  <2>2. status[j] # "absent" => Accounted(j)
    BY DEF SettleInv, FinishedIsSettled, Accounted
  <2> QED BY <2>1, <2>2
<1> QED BY <1>1, <1>2, <1>3, <1>4, <1>5 DEF SettleInv

LEMMA SettleSubmit ==
  ASSUME TypeOK, SettleInv, NEW j \in Jobs, CreateJob(j) \/ EnqueueJob(j) \/ EnqueueFails(j)
  PROVE  SettleInv'
<1>1. CASE CreateJob(j)
  <2>1. \A i \in Jobs : Accounted(i) => Accounted(i)'
    BY <1>1 DEF CreateJob, Accounted, Settled, Terminal, TypeOK
  <2>2. \A i \in Jobs : status'[i] # "absent" => status[i] # "absent" \/ i \in posting'
    BY <1>1 DEF CreateJob, TypeOK
  <2>3. UNCHANGED <<queue, inProgress, tasks, stopping, pc>> /\ posting \subseteq posting'
    BY <1>1 DEF CreateJob
  <2> QED BY <2>1, <2>2, <2>3, SettleQuiet
<1>2. CASE EnqueueJob(j)
  BY <1>2 DEF EnqueueJob, SettleInv, FinishedIsSettled, Accounted, Settled
<1>3. CASE EnqueueFails(j)
  BY <1>3 DEF EnqueueFails, SettleInv, FinishedIsSettled, Accounted, Settled
<1> QED BY <1>1, <1>2, <1>3

(* Requests and late calls.                                                *)
LEMMA SettleCalls ==
  ASSUME TypeOK, SettleInv,
         \/ \E c \in Requests, j \in Jobs : CancelJob(c, j) \/ AbortReturns(c, j)
         \/ \E c \in Calls : ServeLate(c) \/ DropLate(c)
  PROVE  SettleInv'
<1>1. CASE \E c \in Requests, j \in Jobs : CancelJob(c, j) \/ AbortReturns(c, j)
  <2>1. UNCHANGED <<queue, inProgress, tasks, stopping, pc, posting, status, unwritten>>
    BY <1>1 DEF CancelJob, AbortReturns
  <2> QED BY <2>1, SettleQuiet DEF Accounted, Settled
<1>2. ASSUME NEW c \in Calls, ServeLate(c)
      PROVE  SettleInv'
  <2>1. UNCHANGED <<queue, inProgress, tasks, stopping, pc, posting>>
    BY <1>2 DEF ServeLate
  <2>2. c.status # "running" => c.status \in Terminal
    BY DEF Calls, Writes
  <2>3. \A i \in Jobs : \/ Accounted(i)'
                        \/ status'[i] = status[i] /\ (i \in unwritten' <=> i \in unwritten)
    BY <1>2, <2>2 DEF ServeLate, Accounted, Settled, TypeOK
  <2> QED BY <2>1, <2>3, SettleQuiet DEF Accounted, Settled
<1>3. ASSUME NEW c \in Calls, DropLate(c)
      PROVE  SettleInv'
  <2>1. UNCHANGED <<queue, inProgress, tasks, stopping, pc, posting, status, unwritten>>
    BY <1>3 DEF DropLate
  <2> QED BY <2>1, SettleQuiet DEF Accounted, Settled
<1> QED BY <1>1, <1>2, <1>3

LEMMA SettleArq ==
  ASSUME TypeOK, SettleInv, NEW w \in Workers, NEW j \in Jobs,
         Pick(w, j) \/ GiveUp(w, j) \/ Return(w, j)
  PROVE  SettleInv'
<1> USE DEF SettleInv, FinishedIsSettled, Accounted, Settled
<1>1. CASE Pick(w, j)
  <2>1. /\ j \in queue /\ j \notin inProgress /\ pc[j] = "idle"
        /\ inProgress' = inProgress \cup {j}
        /\ pc' = [pc EXCEPT ![j] = "begin"] /\ tasks' = [tasks EXCEPT ![w] = @ \cup {j}]
        /\ UNCHANGED <<status, queue, posting, stopping, unwritten>>
    BY <1>1 DEF Pick, CanTake, Move
  <2>2. \A v \in Workers : j \notin tasks[v]
    BY <2>1
  <2>3. (\A v \in Workers : \A i \in tasks[v] : pc[i] # "idle")'
    BY <2>1 DEF TypeOK
  <2>4. (\A u, v \in Workers : \A i \in tasks[u] : i \in tasks[v] => u = v)'
    BY <2>1, <2>2 DEF TypeOK
  <2>5. (\A i \in Jobs : pc[i] # "idle" => i \in queue /\ i \in inProgress)'
    BY <2>1 DEF TypeOK
  <2>6. (\A i \in Jobs : pc[i] = "return" /\ i \notin stopping => Accounted(i))'
    BY <2>1 DEF TypeOK
  <2> QED BY <2>1, <2>3, <2>4, <2>5, <2>6
<1>2. CASE GiveUp(w, j)
  <2>1. j \notin inProgress /\ pc[j] = "idle"
    BY <1>2 DEF GiveUp, CanTake
  <2> QED BY <1>2, <2>1 DEF GiveUp
<1>3. CASE Return(w, j)
  <2>1. /\ j \in tasks[w] /\ pc[j] = "return"
        /\ queue' = (IF j \in stopping THEN queue ELSE queue \ {j})
        /\ stopping' = stopping \ {j} /\ inProgress' = inProgress \ {j}
        /\ pc' = [pc EXCEPT ![j] = "idle"] /\ tasks' = [tasks EXCEPT ![w] = @ \ {j}]
        /\ UNCHANGED <<status, posting, unwritten>>
    BY <1>3 DEF Return, Move
  <2>2. \A v \in Workers : j \notin tasks'[v]
    BY <2>1 DEF TypeOK
  <2>3. \A v \in Workers : tasks'[v] \subseteq tasks[v]
    BY <2>1 DEF TypeOK
  <2>4. \A i \in Jobs \ {j} : pc'[i] = pc[i] /\ (i \in queue' <=> i \in queue)
    BY <2>1 DEF TypeOK
  <2>5. (\A v \in Workers : \A i \in tasks[v] : pc[i] # "idle")'
    BY <2>1, <2>2, <2>3, <2>4 DEF TypeOK
  <2>6. pc'[j] = "idle"
    BY <2>1 DEF TypeOK
  <2>7. j \notin queue' => Settled(j) \/ j \in unwritten
    BY <2>1
  <2>8. FinishedIsSettled'
    BY <2>1, <2>4, <2>7
  <2>9. (\A i \in Jobs : pc[i] = "return" /\ i \notin stopping => Accounted(i))'
    BY <2>1, <2>4, <2>6
  <2>10. (\A i \in Jobs : pc[i] # "idle" => i \in queue /\ i \in inProgress)'
    BY <2>1, <2>4, <2>6
  <2>11. (\A u, v \in Workers : \A i \in tasks[u] : i \in tasks[v] => u = v)'
    BY <2>3
  <2> QED BY <2>5, <2>8, <2>9, <2>10, <2>11
<1> QED BY <1>1, <1>2, <1>3

LEMMA SettleKeyExpires ==
  ASSUME TypeOK, SettleInv, NEW j \in Jobs, KeyExpires(j)
  PROVE  SettleInv'
BY DEF KeyExpires, SettleInv, FinishedIsSettled, Accounted, Settled

LEMMA SettleCrash ==
  ASSUME TypeOK, SettleInv, NEW w \in Workers, Crash(w)
  PROVE  SettleInv'
<1>1. /\ UNCHANGED <<status, queue, inProgress, posting, unwritten>>
      /\ stopping' = stopping \ tasks[w] /\ tasks' = [tasks EXCEPT ![w] = {}]
      /\ \A j \in Jobs : pc'[j] = IF j \in tasks[w] THEN "idle" ELSE pc[j]
  BY DEF Crash
<1>2. (\A j \in Jobs : pc[j] # "idle" => j \in queue /\ j \in inProgress)'
  BY <1>1 DEF SettleInv
<1>3. (\A v \in Workers : \A j \in tasks[v] : pc[j] # "idle")'
  BY <1>1 DEF SettleInv, TypeOK
<1>4. (\A u, v \in Workers : \A j \in tasks[u] : j \in tasks[v] => u = v)'
  BY <1>1 DEF SettleInv, TypeOK
<1>5. (\A j \in Jobs : pc[j] = "return" /\ j \notin stopping => Accounted(j))'
  BY <1>1 DEF SettleInv, Accounted, Settled
<1>6. FinishedIsSettled'
  BY <1>1 DEF SettleInv, FinishedIsSettled, Settled
<1> QED BY <1>2, <1>3, <1>4, <1>5, <1>6 DEF SettleInv

(* A stop sends the runs it hits to where they settle their row or, noted  *)
(* as stopped, return.                                                     *)
LEMMA SettleStop ==
  ASSUME TypeOK, SettleInv, NEW w \in Workers, Stop(w)
  PROVE  SettleInv'
<1> DEFINE hit == {j \in tasks[w] : pc[j] # "return"}
<1>1. /\ UNCHANGED <<status, queue, inProgress, tasks, posting, unwritten>>
      /\ stopping' = stopping \cup hit
      /\ \A j \in Jobs : pc'[j] = IF j \notin hit THEN pc[j]
                                  ELSE IF pc[j] \in Driving THEN "finalize" ELSE "return"
  BY DEF Stop
<1>2. \A j \in Jobs : pc'[j] = "idle" <=> pc[j] = "idle"
  BY <1>1 DEF SettleInv
<1>3. \A j \in Jobs : pc'[j] = "return" /\ j \notin stopping' => pc[j] = "return"
  BY <1>1
<1> QED BY <1>1, <1>2, <1>3, SettleQuiet DEF Accounted, Settled

LEMMA SettleTimeout ==
  ASSUME TypeOK, SettleInv, NEW j \in Jobs, JobTimeout(j) \/ RunRaises(j)
  PROVE  SettleInv'
<1> USE DEF Move, EndWith
<1>1. /\ UNCHANGED <<status, queue, inProgress, tasks, posting, stopping>>
      /\ pc[j] # "idle" /\ unwritten \subseteq unwritten'
      /\ pc'[j] \in {"finalize", "return"} /\ (pc'[j] = "return" => j \in unwritten')
  BY DEF JobTimeout, RunRaises, Driving, TypeOK
<1>2. \A i \in Jobs \ {j} : pc'[i] = pc[i]
  BY DEF JobTimeout, RunRaises, TypeOK
<1> QED BY <1>1, <1>2, SettleQuiet DEF Accounted, Settled

LEMMA SettleRunJob ==
  ASSUME TypeOK, SettleInv, NEW j \in Jobs, RunJob(j)
  PROVE  SettleInv'
<1> USE DEF Move, EndWith
<1>1. CASE \E w \in Workers : RejectType(w, j)
  <2>1. /\ UNCHANGED <<status, queue, inProgress, tasks, posting, stopping>>
        /\ pc[j] = "begin" /\ pc'[j] = "return" /\ unwritten' = unwritten \cup {j}
        /\ \A i \in Jobs \ {j} : pc'[i] = pc[i]
    BY <1>1 DEF RejectType, TypeOK
  <2> QED BY <2>1, SettleQuiet DEF Accounted, Settled
<1>2. CASE \E w \in Workers : MarkStarted(w, j)
  <2>1. /\ UNCHANGED <<queue, inProgress, tasks, posting, stopping, unwritten>>
        /\ pc[j] = "begin" /\ pc'[j] = "check"
        /\ \A i \in Jobs \ {j} : pc'[i] = pc[i] /\ status'[i] = status[i]
    BY <1>2 DEF MarkStarted, PostServed, PostGivenUp, TypeOK
  <2>2. j \in queue
    BY <2>1 DEF SettleInv
  <2> QED BY <2>1, <2>2, SettleQuiet DEF Accounted, Settled
<1>3. CASE \E w \in Workers : Return(w, j)
  BY <1>3, SettleArq
<1>4. CASE CheckBeforeStart(j) \/ NodeOutput(j) \/ PollCancel(j) \/ Record(j)
             \/ GraphReturns(j) \/ GraphRaises(j) \/ DeadlineExpires(j)
  <2>1. /\ UNCHANGED <<status, queue, inProgress, tasks, posting, stopping, unwritten>>
        /\ pc[j] # "idle" /\ pc'[j] \notin {"idle", "return"}
        /\ \A i \in Jobs \ {j} : pc'[i] = pc[i]
    BY <1>4 DEF CheckBeforeStart, NodeOutput, PollCancel, Record, GraphReturns, GraphRaises,
                DeadlineExpires, CheckAnswers, CheckFails, Driving, TypeOK
  <2> QED BY <2>1, SettleQuiet DEF Accounted, Settled
<1>5. CASE Finalize(j)
  <2>1. /\ UNCHANGED <<queue, inProgress, tasks, posting, stopping>>
        /\ pc[j] = "finalize" /\ pc'[j] = "return"
        /\ \A i \in Jobs \ {j} : pc'[i] = pc[i] /\ status'[i] = status[i]
        /\ \A i \in Jobs \ {j} : i \in unwritten' <=> i \in unwritten
    BY <1>5 DEF Finalize, PostServed, PostGivenUp, TypeOK
  <2>2. status'[j] \in Terminal \/ j \in unwritten'
    BY <1>5 DEF Finalize, PostServed, TypeOK
  <2>3. j \in queue
    BY <2>1 DEF SettleInv
  <2> QED BY <2>1, <2>2, <2>3, SettleQuiet DEF Accounted, Settled
<1> QED BY <1>1, <1>2, <1>3, <1>4, <1>5 DEF RunJob

LEMMA SettleInvariant == Spec => [](TypeOK /\ SettleInv)
<1>1. TypeOK /\ SettleInv /\ [Next]_vars => SettleInv'
  <2> SUFFICES ASSUME TypeOK, SettleInv, [Next]_vars PROVE SettleInv'
    OBVIOUS
  <2>1. CASE UNCHANGED vars
    BY <2>1 DEF vars, SettleInv, FinishedIsSettled, Accounted, Settled
  <2>2. CASE Next
    BY <2>2, SettleSubmit, SettleCalls, SettleArq, SettleKeyExpires, SettleCrash,
       SettleStop, SettleTimeout, SettleRunJob DEF Next
  <2> QED BY <2>1, <2>2
<1> QED BY TypeInit, TypeStep, SettleInit, <1>1, PTL DEF Spec

(* For any number of jobs, workers, deliveries and faults: a job ARQ is    *)
(* done with has a settled row, or one of the named causes kept it from    *)
(* being settled after its last settlement.                                *)
THEOREM FinishedSettled == Spec => []FinishedIsSettled
<1>1. SettleInv => FinishedIsSettled
  BY DEF SettleInv
<1> QED BY SettleInvariant, <1>1, PTL

-------------------------------------------------------------------------------
(* The contract.  While the pool never runs out no call is served late, so *)
(* every write of a row belongs to the delivery that stands there.         *)

Stage == [j \in Jobs |-> StageOf(pc[j])]

(* Jobs that are queued have a row.                                        *)
KnownInv == \A j \in posting \cup queue : status[j] # "absent"

Prompt == late = {}

LEMMA StageMove ==
  ASSUME TypeOK, NEW j \in Jobs, NEW place, Move(j, place)
  PROVE  /\ Stage' = [Stage EXCEPT ![j] = StageOf(place)]
         /\ StageOf(place) = StageOf(pc[j]) => Stage' = Stage
BY DEF Stage, Move, TypeOK

LEMMA PostWrites ==
  ASSUME NEW j \in Jobs, NEW s, PostServed(j, s) \/ PostGivenUp(j, s)
  PROVE  status' = [status EXCEPT ![j] = s] \/ status' = status
BY DEF PostServed, PostGivenUp

LEMMA KnownStep ==
  ASSUME TypeOK, SettleInv, KnownInv, [Next]_vars
  PROVE  KnownInv'
<1> USE DEF TypeOK, KnownInv
<1>1. ASSUME \A j \in Jobs : status[j] # "absent" => status'[j] # "absent",
             posting' \cup queue' \subseteq posting \cup queue
      PROVE  KnownInv'
  BY <1>1
<1>2. ASSUME NEW j \in Jobs, CreateJob(j) PROVE KnownInv'
  BY <1>2 DEF CreateJob
<1>3. ASSUME NEW j \in Jobs, EnqueueJob(j) \/ EnqueueFails(j) PROVE KnownInv'
  BY <1>3 DEF EnqueueJob, EnqueueFails
<1>4. ASSUME NEW c \in Requests, NEW j \in Jobs, CancelJob(c, j) \/ AbortReturns(c, j)
      PROVE  KnownInv'
  BY <1>4 DEF CancelJob, AbortReturns
<1>5. ASSUME NEW c \in Calls, ServeLate(c) \/ DropLate(c) PROVE KnownInv'
  <2>1. c.status # "absent"
    BY DEF Calls, Writes, Terminal
  <2> QED BY <1>1, <1>5, <2>1 DEF ServeLate, DropLate
<1>6. ASSUME NEW w \in Workers, NEW j \in Jobs, Pick(w, j) \/ GiveUp(w, j) \/ Return(w, j)
      PROVE  KnownInv'
  BY <1>1, <1>6 DEF Pick, GiveUp, Return
<1>7. ASSUME NEW w \in Workers, Crash(w) \/ Stop(w) PROVE KnownInv'
  <2>1. UNCHANGED <<status, posting, queue>>
    BY <1>7 DEF Crash, Stop
  <2> QED BY <2>1
<1>8. ASSUME NEW j \in Jobs, JobTimeout(j) \/ KeyExpires(j) \/ RunRaises(j) PROVE KnownInv'
  BY <1>1, <1>8 DEF JobTimeout, KeyExpires, RunRaises
<1>9. ASSUME NEW j \in Jobs, RunJob(j) PROVE KnownInv'
  <2>1. CASE \E w \in Workers : MarkStarted(w, j)
    BY <1>1, <2>1 DEF MarkStarted, PostServed, PostGivenUp
  <2>2. CASE Finalize(j)
    <3>1. out[j] # "absent"
      BY DEF Terminal
    <3> QED BY <1>1, <2>2, <3>1 DEF Finalize, PostServed, PostGivenUp
  <2>3. CASE \E w \in Workers : Return(w, j)
    BY <1>6, <2>3
  <2>4. CASE (\E w \in Workers : RejectType(w, j)) \/ CheckBeforeStart(j) \/ NodeOutput(j)
             \/ PollCancel(j) \/ Record(j) \/ GraphReturns(j) \/ GraphRaises(j)
             \/ DeadlineExpires(j)
    <3>1. UNCHANGED <<status, posting, queue>>
      BY <2>4 DEF RejectType, CheckBeforeStart, NodeOutput, PollCancel, Record, GraphReturns,
                  GraphRaises, DeadlineExpires
    <3> QED BY <3>1
  <2> QED BY <1>9, <2>1, <2>2, <2>3, <2>4 DEF RunJob
<1>10. CASE UNCHANGED vars
  BY <1>10 DEF vars
<1> QED BY <1>2, <1>3, <1>4, <1>5, <1>6, <1>7, <1>8, <1>9, <1>10 DEF Next

LEMMA KnownInvariant == Spec => [](TypeOK /\ SettleInv /\ KnownInv)
<1>1. Init => KnownInv
  BY DEF Init, KnownInv
<1> QED BY <1>1, KnownStep, SettleInvariant, PTL DEF Spec

LEMMA PromptStep ==
  ASSUME TypeOK, Prompt, Reachable, [Next]_vars
  PROVE  Prompt'
<1> USE DEF Prompt
<1>1. CASE UNCHANGED vars
  BY <1>1 DEF vars
<1>2. ASSUME NEW j \in Jobs,
             CreateJob(j) \/ EnqueueJob(j) \/ EnqueueFails(j) \/ JobTimeout(j) \/ KeyExpires(j)
             \/ RunRaises(j)
      PROVE  Prompt'
  BY <1>2 DEF CreateJob, EnqueueJob, EnqueueFails, JobTimeout, KeyExpires, RunRaises
<1>3. ASSUME NEW c \in Requests, NEW j \in Jobs, CancelJob(c, j) \/ AbortReturns(c, j)
      PROVE  Prompt'
  BY <1>3 DEF CancelJob, AbortReturns
<1>4. ASSUME NEW c \in Calls, ServeLate(c) \/ DropLate(c) PROVE Prompt'
  BY <1>4 DEF ServeLate, DropLate
<1>5. ASSUME NEW w \in Workers, NEW j \in Jobs, Pick(w, j) \/ GiveUp(w, j) PROVE Prompt'
  BY <1>5 DEF Pick, GiveUp
<1>6. ASSUME NEW w \in Workers, Crash(w) \/ Stop(w) PROVE Prompt'
  BY <1>6 DEF Crash, Stop
<1>7. ASSUME NEW j \in Jobs, RunJob(j) PROVE Prompt'
  BY <1>7 DEF RunJob, RejectType, MarkStarted, Return, CheckBeforeStart, NodeOutput, PollCancel,
              Record, GraphReturns, GraphRaises, DeadlineExpires, Finalize, PostServed, PostGivenUp
<1> QED BY <1>1, <1>2, <1>3, <1>4, <1>5, <1>6, <1>7 DEF Next

-------------------------------------------------------------------------------
(* Each step of the backbone and the workers is a step of the contract or  *)
(* leaves what the contract sees as it is.                                 *)

LEMMA ContractInit == Init => Contract!Init
BY DEF Init, Contract!Init, StageOf

LEMMA ContractApi ==
  ASSUME TypeOK, NEW j \in Jobs,
         \/ CreateJob(j) \/ EnqueueJob(j) \/ EnqueueFails(j) \/ KeyExpires(j)
         \/ \E c \in Requests : CancelJob(c, j) \/ AbortReturns(c, j)
  PROVE  [Contract!Next]_(Contract!vars)
<1>1. CASE CreateJob(j)
  <2>1. Contract!Submit(j)
    BY <1>1 DEF CreateJob, Contract!Submit
  <2> QED BY <2>1 DEF Contract!Next
<1>2. CASE EnqueueJob(j) \/ EnqueueFails(j) \/ KeyExpires(j)
  BY <1>2 DEF EnqueueJob, EnqueueFails, KeyExpires, Contract!vars
<1>3. ASSUME NEW c \in Requests, CancelJob(c, j) PROVE Contract!Next
  <2>1. Contract!RequestCancel(j)
    BY <1>3 DEF CancelJob, Contract!RequestCancel
  <2> QED BY <2>1 DEF Contract!Next
<1>4. ASSUME NEW c \in Requests, AbortReturns(c, j) PROVE UNCHANGED Contract!vars
  BY <1>4 DEF AbortReturns, Contract!vars
<1> QED BY <1>1, <1>2, <1>3, <1>4

LEMMA ContractArq ==
  ASSUME TypeOK, SettleInv, KnownInv, NEW w \in Workers, NEW j \in Jobs,
         Pick(w, j) \/ GiveUp(w, j) \/ Return(w, j)
  PROVE  [Contract!Next]_(Contract!vars)
<1>1. CASE Pick(w, j)
  <2>1. Stage' = [Stage EXCEPT ![j] = "begun"]
    BY <1>1, StageMove DEF Pick, StageOf
  <2>2. status[j] # "absent" /\ pc[j] = "idle"
    BY <1>1 DEF Pick, CanTake, SettleInv, KnownInv
  <2>3. Contract!Deliver(j)
    BY <1>1, <2>1, <2>2 DEF Pick, Contract!Deliver, Stage, StageOf
  <2> QED BY <2>3 DEF Contract!Next
<1>2. CASE GiveUp(w, j)
  BY <1>2 DEF GiveUp, Contract!vars
<1>3. CASE Return(w, j)
  <2>1. Contract!Release({j})
    BY <1>3 DEF Return, Move, Contract!Release, StageOf, TypeOK
  <2> QED BY <2>1 DEF Contract!Next
<1> QED BY <1>1, <1>2, <1>3

LEMMA ContractWorkerFault ==
  ASSUME TypeOK, NEW w \in Workers, Crash(w) \/ Stop(w)
  PROVE  [Contract!Next]_(Contract!vars)
<1>1. tasks[w] \subseteq Jobs
  BY DEF TypeOK
<1>2. CASE Crash(w)
  <2>1. Contract!Release(tasks[w])
    BY <1>1, <1>2 DEF Crash, Contract!Release, StageOf
  <2> QED BY <1>1, <2>1 DEF Contract!Next
<1>3. CASE Stop(w)
  <2> DEFINE cut == {j \in tasks[w] : pc[j] # "return" /\ pc[j] \notin Driving}
  <2>1. \A j \in Jobs : StageOf(pc'[j]) = IF j \in cut THEN "settled" ELSE StageOf(pc[j])
    BY <1>1, <1>3 DEF Stop, StageOf, Driving
  <2>2. Contract!Abandon(cut)
    BY <1>3, <2>1 DEF Stop, Contract!Abandon
  <2> QED BY <1>1, <2>2 DEF Contract!Next
<1> QED BY <1>2, <1>3

(* A run that gives up without a word about the row.                       *)
LEMMA ContractAbandon ==
  ASSUME TypeOK, NEW j \in Jobs, Move(j, "return"), UNCHANGED <<status, cancel, tries>>
  PROVE  Contract!Next
<1>1. Contract!Abandon({j})
  BY DEF Move, Contract!Abandon, StageOf, TypeOK
<1> QED BY <1>1 DEF Contract!Next

(* A run that moves on between its two writes.                             *)
LEMMA ContractStay ==
  ASSUME TypeOK, NEW j \in Jobs, pc[j] \in Driving \cup {"check"},
         NEW place \in Driving \cup {"finalize"}, Move(j, place),
         UNCHANGED <<status, cancel, tries>>
  PROVE  UNCHANGED Contract!vars
<1>1. Stage' = Stage
  BY StageMove DEF StageOf, Driving
<1> QED BY <1>1 DEF Contract!vars, Stage

LEMMA ContractRunJob ==
  ASSUME TypeOK, NEW j \in Jobs, RunJob(j) \/ RunRaises(j) \/ JobTimeout(j),
         ~ \E w \in Workers : Return(w, j)
  PROVE  [Contract!Next]_(Contract!vars)
<1> USE DEF EndWith
<1>1. CASE (\E w \in Workers : RejectType(w, j)) \/ RunRaises(j)
  BY <1>1, ContractAbandon DEF RejectType, RunRaises
<1>2. ASSUME NEW w \in Workers, MarkStarted(w, j) PROVE Contract!Next
  <2>1. Stage' = [Stage EXCEPT ![j] = "announced"]
    BY <1>2, StageMove DEF MarkStarted, StageOf
  <2>2. \E s \in {"running", status[j]} : status' = [status EXCEPT ![j] = s]
    BY <1>2, PostWrites DEF MarkStarted, TypeOK
  <2>3. Contract!Announce(j)
    BY <1>2, <2>1, <2>2 DEF MarkStarted, Contract!Announce, Stage, StageOf
  <2> QED BY <2>3 DEF Contract!Next
<1>3. CASE CheckBeforeStart(j)
  BY <1>3, ContractStay DEF CheckBeforeStart, Driving
<1>4. CASE NodeOutput(j)
  BY <1>4, ContractStay DEF NodeOutput, Driving
<1>5. CASE PollCancel(j)
  BY <1>5, ContractStay DEF PollCancel, Driving
<1>6. CASE Record(j)
  BY <1>6, ContractStay DEF Record, Driving
<1>7. CASE GraphReturns(j) \/ GraphRaises(j) \/ DeadlineExpires(j)
  BY <1>7, ContractStay DEF GraphReturns, GraphRaises, DeadlineExpires, Driving
<1>8. CASE Finalize(j)
  <2>1. Stage' = [Stage EXCEPT ![j] = "settled"]
    BY <1>8, StageMove DEF Finalize, StageOf
  <2>2. \E s \in Terminal \cup {status[j]} : status' = [status EXCEPT ![j] = s]
    BY <1>8, PostWrites DEF Finalize, TypeOK
  <2>3. Contract!Settle(j)
    BY <1>8, <2>1, <2>2 DEF Finalize, Contract!Settle, Contract!Terminal, Terminal, Stage, StageOf
  <2> QED BY <2>3 DEF Contract!Next
<1>9. CASE JobTimeout(j)
  <2>1. CASE pc[j] \in Driving /\ Move(j, "finalize")
    BY <1>9, <2>1, ContractStay DEF JobTimeout
  <2>2. CASE Move(j, "return")
    BY <1>9, <2>2, ContractAbandon DEF JobTimeout
  <2> QED BY <1>9, <2>1, <2>2 DEF JobTimeout
<1> QED BY <1>1, <1>2, <1>3, <1>4, <1>5, <1>6, <1>7, <1>8, <1>9 DEF RunJob

LEMMA ContractStep ==
  ASSUME TypeOK, SettleInv, KnownInv, Prompt, [Next]_vars
  PROVE  [Contract!Next]_(Contract!vars)
<1>1. CASE UNCHANGED vars
  BY <1>1 DEF vars, Contract!vars
<1>2. ASSUME NEW c \in Calls, ServeLate(c) \/ DropLate(c) PROVE FALSE
  BY <1>2 DEF ServeLate, DropLate, Prompt
<1>3. ASSUME NEW j \in Jobs, RunJob(j) \/ RunRaises(j) \/ JobTimeout(j)
      PROVE  [Contract!Next]_(Contract!vars)
  BY <1>3, ContractRunJob, ContractArq
<1> QED BY <1>1, <1>2, <1>3, ContractApi, ContractArq, ContractWorkerFault DEF Next

(* For any jobs, workers, deliveries, crashes, stops and lost calls: as    *)
(* long as the pool does not run out, a client that polls a row sees what  *)
(* JobContract promises.                                                   *)
THEOREM ContractImplemented == Spec /\ []Reachable => ImplementsContract
<1>1. Init => Prompt
  BY DEF Init, Prompt
<1>2. Spec /\ []Reachable => []Prompt
  BY <1>1, PromptStep, KnownInvariant, PTL DEF Spec
<1> QED BY <1>2, ContractInit, ContractStep, KnownInvariant, PTL
        DEF Spec, ImplementsContract, Contract!Spec

-------------------------------------------------------------------------------
(* A settled row is not being worked for, if also no announcement is lost: *)
(* from its announcement to its settlement a delivery keeps the row at     *)
(* "running".                                                              *)

RunningInv == \A j \in Jobs : pc[j] \in Driving \cup {"check"} => status[j] = "running"

(* A step that writes no row and lets no run into the graph.               *)
LEMMA RunningQuiet ==
  ASSUME RunningInv, UNCHANGED status,
         \A j \in Jobs : pc'[j] \in Driving \cup {"check"} => pc[j] \in Driving \cup {"check"}
  PROVE  RunningInv'
BY DEF RunningInv

LEMMA RunningStep ==
  ASSUME TypeOK, Prompt, Reachable, "lost" \notin FaultKinds, RunningInv, [Next]_vars
  PROVE  RunningInv'
<1> USE DEF TypeOK, Move, EndWith
<1>1. ASSUME NEW j \in Jobs, CreateJob(j) PROVE RunningInv'
  BY <1>1 DEF CreateJob, RunningInv
<1>2. ASSUME NEW j \in Jobs,
             EnqueueJob(j) \/ EnqueueFails(j) \/ JobTimeout(j) \/ KeyExpires(j) \/ RunRaises(j)
      PROVE  RunningInv'
  <2>1. /\ UNCHANGED status
        /\ \A i \in Jobs : pc'[i] = pc[i] \/ pc'[i] \in {"finalize", "return"}
    BY <1>2 DEF EnqueueJob, EnqueueFails, JobTimeout, KeyExpires, RunRaises
  <2> QED BY <2>1, RunningQuiet DEF Driving
<1>3. ASSUME NEW c \in Requests, NEW j \in Jobs, CancelJob(c, j) \/ AbortReturns(c, j)
      PROVE  RunningInv'
  <2>1. UNCHANGED <<status, pc>>
    BY <1>3 DEF CancelJob, AbortReturns
  <2> QED BY <2>1, RunningQuiet
<1>4. ASSUME NEW c \in Calls, ServeLate(c) \/ DropLate(c) PROVE RunningInv'
  BY <1>4 DEF ServeLate, DropLate, Prompt
<1>5. ASSUME NEW w \in Workers, NEW j \in Jobs, Pick(w, j) \/ GiveUp(w, j) \/ Return(w, j)
      PROVE  RunningInv'
  <2>1. /\ UNCHANGED status
        /\ \A i \in Jobs : pc'[i] = pc[i] \/ pc'[i] \in {"begin", "idle"}
    BY <1>5 DEF Pick, GiveUp, Return
  <2> QED BY <2>1, RunningQuiet DEF Driving
<1>6. ASSUME NEW w \in Workers, Crash(w) \/ Stop(w) PROVE RunningInv'
  <2>1. /\ UNCHANGED status
        /\ \A i \in Jobs : pc'[i] = pc[i] \/ pc'[i] \in {"idle", "finalize", "return"}
    <3>1. CASE Crash(w) BY <3>1 DEF Crash
    <3>2. CASE Stop(w)  BY <3>2 DEF Stop
    <3> QED BY <1>6, <3>1, <3>2
  <2> QED BY <2>1, RunningQuiet DEF Driving
<1>7. ASSUME NEW j \in Jobs, RunJob(j) PROVE RunningInv'
  <2>1. CASE \E w \in Workers : RejectType(w, j) \/ Return(w, j)
    <3>1. /\ UNCHANGED status
          /\ \A i \in Jobs : pc'[i] = pc[i] \/ pc'[i] \in {"idle", "return"}
      BY <2>1 DEF RejectType, Return
    <3> QED BY <3>1, RunningQuiet DEF Driving
  <2>2. CASE \E w \in Workers : MarkStarted(w, j)
    <3>1. status' = [status EXCEPT ![j] = "running"] /\ pc' = [pc EXCEPT ![j] = "check"]
      BY <2>2 DEF MarkStarted, PostServed, PostGivenUp, Fault
    <3> QED BY <3>1 DEF RunningInv
  <2>3. CASE CheckBeforeStart(j) \/ NodeOutput(j) \/ PollCancel(j) \/ Record(j) \/ GraphReturns(j)
             \/ GraphRaises(j) \/ DeadlineExpires(j)
    <3>1. UNCHANGED status /\ pc[j] \in Driving \cup {"check"}
      BY <2>3 DEF CheckBeforeStart, NodeOutput, PollCancel, Record, GraphReturns, GraphRaises,
                  DeadlineExpires, Driving
    <3>2. \A i \in Jobs \ {j} : pc'[i] = pc[i]
      BY <2>3 DEF CheckBeforeStart, NodeOutput, PollCancel, Record, GraphReturns, GraphRaises,
                  DeadlineExpires
    <3> QED BY <3>1, <3>2, RunningQuiet
  <2>4. CASE Finalize(j)
    <3>1. /\ pc'[j] = "return" /\ \A i \in Jobs \ {j} : pc'[i] = pc[i] /\ status'[i] = status[i]
      BY <2>4, PostWrites DEF Finalize
    <3> QED BY <3>1 DEF RunningInv, Driving
  <2> QED BY <1>7, <2>1, <2>2, <2>3, <2>4 DEF RunJob
<1>8. CASE UNCHANGED vars
  BY <1>8, RunningQuiet DEF vars
<1> QED BY <1>1, <1>2, <1>3, <1>4, <1>5, <1>6, <1>7, <1>8 DEF Next

(* For any jobs, workers, deliveries, crashes, stops and timeouts: as long *)
(* as the calls of the workers arrive, no run of the job drives the graph  *)
(* in the workspace of a job whose row has settled.                        *)
THEOREM SettledIdle ==
  ASSUME "lost" \notin FaultKinds
  PROVE  Spec /\ []Reachable => []SettledMeansIdle
<1>1. Init => Prompt /\ RunningInv
  BY DEF Init, Prompt, RunningInv, Driving
<1>2. RunningInv => SettledMeansIdle
  BY DEF RunningInv, SettledMeansIdle, Settled, Terminal
<1>3. TypeOK /\ Prompt /\ RunningInv /\ Reachable /\ [Next]_vars => Prompt' /\ RunningInv'
  BY PromptStep, RunningStep
<1> QED BY <1>1, <1>2, <1>3, KnownInvariant, PTL DEF Spec

-------------------------------------------------------------------------------
(* The pool does not run out if it is larger than the cancel requests that *)
(* may wait in abort().                                                    *)

BlockedInv ==
  \A b, d \in blocked : b[1] \in issued /\ (b[1] = d[1] => b = d)

LEMMA BlockedStep == BlockedInv /\ [Next]_vars => BlockedInv'
<1> SUFFICES ASSUME BlockedInv, [Next]_vars PROVE BlockedInv'
  OBVIOUS
<1>1. ASSUME UNCHANGED <<issued, blocked>> PROVE BlockedInv'
  BY <1>1 DEF BlockedInv
<1>2. ASSUME NEW j \in Jobs,
             CreateJob(j) \/ EnqueueJob(j) \/ EnqueueFails(j) \/ JobTimeout(j) \/ KeyExpires(j)
             \/ RunRaises(j)
      PROVE  BlockedInv'
  BY <1>1, <1>2 DEF CreateJob, EnqueueJob, EnqueueFails, JobTimeout, KeyExpires, RunRaises
<1>3. ASSUME NEW c \in Requests, NEW j \in Jobs, CancelJob(c, j) PROVE BlockedInv'
  BY <1>3 DEF CancelJob, BlockedInv
<1>4. ASSUME NEW c \in Requests, NEW j \in Jobs, AbortReturns(c, j) PROVE BlockedInv'
  BY <1>4 DEF AbortReturns, BlockedInv
<1>5. ASSUME NEW c \in Calls, ServeLate(c) \/ DropLate(c) PROVE BlockedInv'
  BY <1>1, <1>5 DEF ServeLate, DropLate
<1>6. ASSUME NEW w \in Workers, NEW j \in Jobs, Pick(w, j) \/ GiveUp(w, j) PROVE BlockedInv'
  BY <1>1, <1>6 DEF Pick, GiveUp
<1>7. ASSUME NEW w \in Workers, Crash(w) \/ Stop(w) PROVE BlockedInv'
  BY <1>1, <1>7 DEF Crash, Stop
<1>8. ASSUME NEW j \in Jobs, RunJob(j) PROVE BlockedInv'
  BY <1>1, <1>8 DEF RunJob, RejectType, MarkStarted, Return, CheckBeforeStart, NodeOutput,
                    PollCancel, Record, GraphReturns, GraphRaises, DeadlineExpires, Finalize
<1>9. CASE UNCHANGED vars
  BY <1>1, <1>9 DEF vars
<1> QED BY <1>2, <1>3, <1>4, <1>5, <1>6, <1>7, <1>8, <1>9 DEF Next

LEMMA PoolSuffices ==
  ASSUME IsFiniteSet(Requests), Cardinality(Requests) < PoolSize
  PROVE  Spec => []Reachable
<1>1. TypeOK /\ BlockedInv => Reachable
  <2> SUFFICES ASSUME TypeOK, BlockedInv PROVE Reachable
    OBVIOUS
  <2> DEFINE client == [b \in blocked |-> b[1]]
  <2>1. client \in Injection(blocked, Requests)
    BY DEF TypeOK, BlockedInv, Injection, IsInjective
  <2>2. IsFiniteSet(blocked) /\ Cardinality(blocked) <= Cardinality(Requests)
    BY <2>1, FS_Injection DEF ExistsInjection
  <2>3. Cardinality(blocked) \in Nat /\ Cardinality(Requests) \in Nat /\ PoolSize \in Nat
    BY <2>2, FS_CardinalityType, BackboneAssumption
  <2> QED BY <2>2, <2>3 DEF Reachable
<1>2. Init => BlockedInv
  BY DEF Init, BlockedInv
<1> QED BY <1>1, <1>2, BlockedStep, TypeCorrect, PTL DEF Spec

(* The two theorems above for a pool with more connections than there are  *)
(* cancel requests.                                                        *)
THEOREM LargePool ==
  ASSUME IsFiniteSet(Requests), Cardinality(Requests) < PoolSize
  PROVE  /\ Spec => ImplementsContract
         /\ "lost" \notin FaultKinds => (Spec => []SettledMeansIdle)
<1>1. Spec => ImplementsContract
  BY PoolSuffices, ContractImplemented, PTL
<1>2. ASSUME "lost" \notin FaultKinds PROVE Spec => []SettledMeansIdle
  BY <1>2, PoolSuffices, SettledIdle, PTL
<1> QED BY <1>1, <1>2
===============================================================================
