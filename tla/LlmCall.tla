-------------------------------- MODULE LlmCall --------------------------------
(***************************************************************************)
(* The LLM calls of one task, one after the other: _invoke_with_retry.     *)
(* Each attempt hands a stream of the answer to a thread, and reads the    *)
(* chunks the thread puts into a queue; a watchdog ends the attempt when   *)
(* they stay out.  A thread is never stopped: it may hang, or go on after  *)
(* its attempt was given up.  The thread's function refers to the queue    *)
(* by the variable of the call, which every attempt sets anew, so a late   *)
(* thread puts its chunks into the queue of the attempt now under way.     *)
(*                                                                         *)
(* The task's thread pool and cancel event reach the call only if the      *)
(* state of the graph carries them, which depends on the graph engine      *)
(* (the classes of the state do not declare them).  Otherwise each attempt *)
(* has a thread of its own.                                                *)
(***************************************************************************)
EXTENDS Integers, Sequences, FiniteSets

CONSTANTS
  MaxAttempts,  \* max_attempts of the node
  Threads,      \* LLM_EXECUTOR_THREADS
  MaxChunks,    \* chunks of an answer, a bound of the model
  MaxCalls      \* calls of the task, a bound of the model

ASSUME CallAssumption ==
  /\ MaxAttempts \in Nat \ {0} /\ Threads \in Nat \ {0}
  /\ MaxChunks \in Nat /\ MaxCalls \in Nat

Errors == {"timeout", "transient", "permanent"}

VARIABLES
  carried,    \* the state carries llm_executor and cancel_event
  ended,      \* the task has ended and its executor is shut down
  cancelled,  \* cancel_event is set
  call,       \* number of the call
  phase,      \* "idle", "ready" for an attempt, "waiting" for chunks
  attempt,
  streams,    \* the streams handed to threads, in that order
  queue,      \* chunk_queue of the attempt
  gathered,   \* streams of the chunks in content
  lastError,
  answer      \* what the last call returned, or what it raised

taskVars == <<carried, ended, cancelled>>
vars == <<taskVars, call, phase, attempt, streams, queue, gathered, lastError, answer>>

StreamIds == 1..(MaxCalls * MaxAttempts)
Stream   == [call : 1..MaxCalls, state : {"pending", "running", "over", "dropped"},
             sent : 0..MaxChunks]
Message  == [kind : {"chunk", "done", "blank", "transient", "permanent"}, from : StreamIds]
Answer   == [kind : {"none", "text", "cancelled"} \cup Errors, text : SUBSET StreamIds]

Outcome(kind) == [kind |-> kind, text |-> {}]

TypeOK ==
  /\ carried \in BOOLEAN /\ ended \in BOOLEAN /\ cancelled \in BOOLEAN
  /\ call \in 0..MaxCalls
  /\ phase \in {"idle", "ready", "waiting"}
  /\ attempt \in 0..MaxAttempts
  /\ streams \in Seq(Stream) /\ Len(streams) <= call * MaxAttempts
  /\ queue \in Seq(Message)
  /\ gathered \in SUBSET StreamIds
  /\ lastError \in Errors \cup {"none"}
  /\ answer \in Answer

Init ==
  /\ carried \in BOOLEAN /\ ended = FALSE /\ cancelled = FALSE
  /\ call = 0 /\ phase = "idle" /\ attempt = 0
  /\ streams = <<>> /\ queue = <<>> /\ gathered = {}
  /\ lastError = "none" /\ answer = Outcome("none")

-------------------------------------------------------------------------------
(* The call *)

(* A node comes to its call; the thread that runs it may do so when the    *)
(* task has already ended.                                                 *)
Begin ==
  /\ phase = "idle" /\ call < MaxCalls
  /\ call' = call + 1 /\ attempt' = 0
  /\ phase' = "ready"
  /\ queue' = <<>> /\ gathered' = {}
  /\ lastError' = "none" /\ answer' = Outcome("none")
  /\ UNCHANGED <<taskVars, streams>>

CancelSeen ==
  /\ phase = "ready" /\ carried /\ cancelled
  /\ phase' = "idle" /\ answer' = Outcome("cancelled")
  /\ UNCHANGED <<taskVars, call, attempt, streams, queue, gathered, lastError>>

StartAttempt ==
  /\ phase = "ready" /\ ~(carried /\ cancelled)
  /\ attempt' = attempt + 1

(* Mutant: a call has an attempt more. *)
FailOnceMore(error) ==
  /\ lastError' = error
  /\ phase' = IF attempt' <= MaxAttempts THEN "ready" ELSE "idle"
  /\ answer' = IF attempt' <= MaxAttempts THEN answer ELSE Outcome(error)

(* An attempt fails; after the last one its error decides what is raised. *)
Fail(error) ==
  /\ lastError' = error
  /\ phase' = IF attempt' < MaxAttempts THEN "ready" ELSE "idle"
  /\ answer' = IF attempt' < MaxAttempts THEN answer ELSE Outcome(error)

(* The client cannot be built, or the executor takes no more.              *)
CannotStart ==
  /\ StartAttempt
  /\ \E error \in {"transient", "permanent"} : Fail(error)
  /\ UNCHANGED <<taskVars, call, streams, queue, gathered>>

Submit ==
  /\ StartAttempt
  /\ ~(carried /\ ended)
  /\ streams' = Append(streams, [call |-> call, sent |-> 0,
                                 state |-> IF carried THEN "pending" ELSE "running"])
  /\ queue' = <<>> /\ gathered' = {}
  /\ phase' = "waiting"
  /\ UNCHANGED <<taskVars, call, lastError, answer>>

(* An attempt leaves a stream that has no thread yet where it is, unless   *)
(* the task is cancelled.                                                  *)
Released ==
  IF carried /\ cancelled /\ streams[Len(streams)].state = "pending"
  THEN [streams EXCEPT ![Len(streams)].state = "dropped"] ELSE streams

(* Mutant: the answer is what was gathered from the queue. *)
AnswerGathered(message) == [kind |-> "text", text |-> gathered]

(* The end of a stream brings its text as a whole, which replaces what was *)
(* gathered.                                                               *)
AnswerOf(message) == [kind |-> "text", text |-> {message.from}]

(* What ends the attempt may come from an earlier one's stream.  A blank   *)
(* text counts as a transient error.                                       *)
Receive ==
  /\ phase = "waiting" /\ queue # <<>>
  /\ queue' = Tail(queue)
  /\ UNCHANGED <<taskVars, call, attempt>>
  /\ LET message == Head(queue) IN
       CASE message.kind = "chunk" ->
              /\ gathered' = gathered \cup {message.from}
              /\ UNCHANGED <<phase, streams, lastError, answer>>
         [] message.kind = "done" ->
              /\ phase' = "idle" /\ answer' = AnswerOf(message)
              /\ streams' = Released
              /\ UNCHANGED <<gathered, lastError>>
         [] OTHER ->
              /\ Fail(IF message.kind = "permanent" THEN "permanent" ELSE "transient")
              /\ streams' = Released
              /\ UNCHANGED gathered

(* Mutant: the watchdog waits for the stream to start. *)
TimeOutRunning ==
  /\ phase = "waiting"
  /\ streams[Len(streams)].state # "pending"
  /\ UNCHANGED <<taskVars, call, attempt, queue, gathered>>
  /\ Fail("timeout")
  /\ streams' = Released

(* No chunk for too long, or too long altogether; the stream goes on.      *)
TimeOut ==
  /\ phase = "waiting"
  /\ UNCHANGED <<taskVars, call, attempt, queue, gathered>>
  /\ Fail("timeout")
  /\ streams' = Released

-------------------------------------------------------------------------------
(* The threads *)

Running == {i \in DOMAIN streams : streams[i].state = "running"}
Pending == {i \in DOMAIN streams : streams[i].state = "pending"}

(* A thread of the pool takes the stream that has waited longest.          *)
Take(i) ==
  /\ i \in Pending /\ \A k \in Pending : i <= k
  /\ Cardinality(Running) < Threads
  /\ streams' = [streams EXCEPT ![i].state = "running"]
  /\ UNCHANGED <<taskVars, call, phase, attempt, queue, gathered, lastError, answer>>

(* A thread of an earlier call puts into a queue nobody reads. *)
Put(i, kind) ==
  queue' = IF phase # "idle" /\ streams[i].call = call
           THEN Append(queue, [kind |-> kind, from |-> i]) ELSE queue

SendChunk(i) ==
  /\ i \in Running /\ streams[i].sent < MaxChunks
  /\ streams' = [streams EXCEPT ![i].sent = @ + 1]
  /\ Put(i, "chunk")
  /\ UNCHANGED <<taskVars, call, phase, attempt, gathered, lastError, answer>>

(* The stream ends, or raises. *)
FinishStream(i) ==
  /\ i \in Running
  /\ streams' = [streams EXCEPT ![i].state = "over"]
  /\ \E kind \in {"done", "blank", "transient", "permanent"} : Put(i, kind)
  /\ UNCHANGED <<taskVars, call, phase, attempt, gathered, lastError, answer>>

-------------------------------------------------------------------------------
(* The task *)

(* A cancellation reaches run_swarm_task while a node may be in a call.    *)
CancelTask ==
  /\ ~ended /\ ~cancelled
  /\ cancelled' = TRUE
  /\ UNCHANGED <<carried, ended, call, phase, attempt, streams, queue, gathered, lastError, answer>>

(* Mutant: the streams that wait for a thread stay. *)
TaskEndsWaiting ==
  /\ ~ended /\ ended' = TRUE
  /\ UNCHANGED <<carried, cancelled, call, phase, attempt, streams, queue, gathered, lastError,
                 answer>>

(* run_swarm_task returns, after a cancellation, the deadline (which does  *)
(* not set the event) or the end of the graph.  The executor takes no more *)
(* and drops what waits.                                                   *)
TaskEnds ==
  /\ ~ended /\ ended' = TRUE
  /\ streams' = [i \in DOMAIN streams |->
                   IF i \in Pending THEN [streams[i] EXCEPT !.state = "dropped"] ELSE streams[i]]
  /\ UNCHANGED <<carried, cancelled, call, phase, attempt, queue, gathered, lastError, answer>>

Next ==
  \/ Begin \/ CancelSeen \/ CannotStart \/ Submit \/ Receive \/ TimeOut
  \/ \E i \in DOMAIN streams : Take(i) \/ SendChunk(i) \/ FinishStream(i)
  \/ CancelTask \/ TaskEnds

Spec == Init /\ [][Next]_vars

(* The node's thread runs and its timers expire; nothing is assumed of the *)
(* threads of the streams.                                                 *)
Fairness ==
  /\ WF_vars(CancelSeen \/ CannotStart \/ Submit)
  /\ WF_vars(TimeOut)

FairSpec == Spec /\ Fairness

-------------------------------------------------------------------------------
(* Properties *)

(* The text a call returns is the whole text of one stream of that call,   *)
(* however many threads put chunks into its queue.                         *)
AnswerIsWhole ==
  answer.kind = "text" =>
    \E i \in DOMAIN streams : /\ answer.text = {i}
                              /\ streams[i].call = call /\ streams[i].state = "over"

(* Once a task that hands its executor to its calls has ended, no stream   *)
(* starts.                                                                 *)
NothingStartsAfterEnd ==
  [][carried /\ ended => \A i \in DOMAIN streams' : streams'[i].state = "running" =>
                            i \in Running]_vars

(* A call comes to an end though every thread hangs, and with the executor *)
(* shut down under it.                                                     *)
CallEnds == phase # "idle" ~> phase = "idle"
===============================================================================
