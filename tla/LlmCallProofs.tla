----------------------------- MODULE LlmCallProofs -----------------------------
(***************************************************************************)
(* Proofs about LlmCall: its type invariant, that the answer of a call is  *)
(* the whole text of one of its streams, and that no stream starts once a  *)
(* task that hands its executor to its calls has ended.                    *)
(***************************************************************************)
EXTENDS LlmCall, TLAPS

USE CallAssumption

-------------------------------------------------------------------------------
(* What an attempt that ends does to the streams *)

LEMMA ReleasedType ==
  ASSUME TypeOK
  PROVE  /\ Released \in Seq(Stream) /\ Len(Released) = Len(streams)
         /\ DOMAIN Released = DOMAIN streams
         /\ \A i \in DOMAIN streams :
              /\ Released[i].call = streams[i].call
              /\ Released[i].state \in {streams[i].state, "dropped"}
              /\ streams[i].state = "over" => Released[i].state = "over"
<1>1. CASE carried /\ cancelled /\ streams[Len(streams)].state = "pending" /\ streams # <<>>
  <2>1. Released = [streams EXCEPT ![Len(streams)].state = "dropped"]
    BY <1>1 DEF Released
  <2>2. Len(streams) \in DOMAIN streams
    BY <1>1 DEF TypeOK
  <2>3. \A s \in Stream : [s EXCEPT !.state = "dropped"] \in Stream
    BY DEF Stream
  <2>4. \A i \in DOMAIN streams : streams[i] \in Stream
    BY DEF TypeOK
  <2> QED BY <1>1, <2>1, <2>2, <2>3, <2>4 DEF TypeOK, Stream
<1>2. CASE streams = <<>>
  <2>1. Released = streams
    BY <1>2 DEF Released
  <2> QED BY <2>1, <1>2 DEF TypeOK
<1>3. CASE ~(carried /\ cancelled /\ streams[Len(streams)].state = "pending")
  <2>1. Released = streams
    BY <1>3 DEF Released
  <2> QED BY <2>1 DEF TypeOK
<1> QED BY <1>1, <1>2, <1>3

-------------------------------------------------------------------------------
(* Types *)

(* The number of streams is bounded by the attempts, which are counted     *)
(* from anew in every call: with the place in the call it is inductive.    *)
TypeInv ==
  /\ TypeOK
  /\ phase # "idle" => call > 0 /\ Len(streams) <= (call - 1) * MaxAttempts + attempt
  /\ phase = "ready" => attempt < MaxAttempts

LEMMA Products ==
  ASSUME NEW c \in 1..MaxCalls, NEW a \in 0..MaxAttempts
  PROVE  /\ (c - 1) * MaxAttempts + a <= c * MaxAttempts
         /\ c * MaxAttempts <= MaxCalls * MaxAttempts
         /\ c * MaxAttempts \in Nat /\ (c - 1) * MaxAttempts \in Nat
<1>1. (c - 1) * MaxAttempts + MaxAttempts = c * MaxAttempts
  OBVIOUS
<1>2. (MaxCalls - c) * MaxAttempts \in Nat
  OBVIOUS
<1>3. c * MaxAttempts + (MaxCalls - c) * MaxAttempts = MaxCalls * MaxAttempts
  OBVIOUS
<1>4. c * MaxAttempts \in Nat /\ (c - 1) * MaxAttempts \in Nat /\ MaxCalls * MaxAttempts \in Nat
  OBVIOUS
<1> QED BY <1>1, <1>2, <1>3, <1>4

LEMMA StreamsNumbered ==
  ASSUME TypeOK
  PROVE  DOMAIN streams \subseteq StreamIds
<1>1. Len(streams) <= MaxCalls * MaxAttempts
  <2>1. CASE call = 0
    BY <2>1 DEF TypeOK
  <2>2. CASE call # 0
    <3>1. call \in 1..MaxCalls
      BY <2>2 DEF TypeOK
    <3>2. call * MaxAttempts <= MaxCalls * MaxAttempts
      BY <3>1, Products DEF TypeOK
    <3>3. call * MaxAttempts \in Nat /\ MaxCalls * MaxAttempts \in Nat
      BY <3>1
    <3>4. Len(streams) \in Nat /\ Len(streams) <= call * MaxAttempts
      BY DEF TypeOK
    <3> QED BY <3>2, <3>3, <3>4
  <2> QED BY <2>1, <2>2
<1>2. DOMAIN streams = 1..Len(streams) /\ Len(streams) \in Nat
  BY DEF TypeOK
<1> QED BY <1>1, <1>2 DEF StreamIds

LEMMA TypeInit == Init => TypeInv
<1> SUFFICES ASSUME Init PROVE TypeInv
  OBVIOUS
<1>1. answer \in Answer
  BY DEF Init, Outcome, Answer
<1>2. call * MaxAttempts = 0 /\ Len(streams) = 0 /\ streams \in Seq(Stream)
  BY DEF Init
<1>3. queue \in Seq(Message) /\ gathered \in SUBSET StreamIds
  BY DEF Init
<1>4. carried \in BOOLEAN /\ ended \in BOOLEAN /\ cancelled \in BOOLEAN
  BY DEF Init
<1>5. /\ call \in 0..MaxCalls /\ phase = "idle" /\ attempt \in 0..MaxAttempts
      /\ lastError \in Errors \cup {"none"}
  BY DEF Init
<1>6. Len(streams) <= call * MaxAttempts
  BY <1>2
<1> QED BY <1>1, <1>2, <1>3, <1>4, <1>5, <1>6 DEF TypeInv, TypeOK

(* An attempt that ends in an error leaves a call between attempts or over. *)
LEMMA FailType ==
  ASSUME TypeInv, NEW error \in Errors, Fail(error), attempt' \in 1..MaxAttempts
  PROVE  /\ phase' \in {"ready", "idle"} /\ lastError' \in Errors /\ answer' \in Answer
         /\ phase' = "ready" => attempt' < MaxAttempts
BY DEF Fail, TypeInv, TypeOK, Outcome, Answer

LEMMA TypeCall ==
  ASSUME TypeInv, Begin \/ CancelSeen \/ CannotStart \/ Submit \/ Receive \/ TimeOut
  PROVE  TypeInv'
<1> USE DEF taskVars
<1>1. CASE Begin
  <2>1. call \in Nat /\ (call + 1) - 1 = call /\ call * MaxAttempts + 0 = call * MaxAttempts
    BY DEF TypeInv, TypeOK
  <2>2. Len(streams) <= call * MaxAttempts
    BY DEF TypeInv, TypeOK
  <2>3. call + 1 \in 1..MaxCalls
    BY <1>1 DEF Begin, TypeInv, TypeOK
  <2>4. call * MaxAttempts + 0 <= (call + 1) * MaxAttempts
    BY <2>1, <2>3, Products
  <2>5. call * MaxAttempts \in Nat /\ (call + 1) * MaxAttempts \in Nat /\ Len(streams) \in Nat
    BY <2>1, <2>3, Products DEF TypeInv, TypeOK
  <2>6. Len(streams) <= (call + 1) * MaxAttempts
    BY <2>1, <2>2, <2>4, <2>5
  <2>7. Outcome("none") \in Answer /\ {} \in SUBSET StreamIds
    BY DEF Outcome, Answer
  <2> QED BY <1>1, <2>1, <2>2, <2>3, <2>6, <2>7 DEF Begin, TypeInv, TypeOK
<1>2. CASE CancelSeen
  BY <1>2 DEF CancelSeen, TypeInv, TypeOK, Outcome, Answer
<1>3. CASE CannotStart
  <2>1. PICK error \in {"transient", "permanent"} : Fail(error)
    BY <1>3 DEF CannotStart
  <2>2. attempt' = attempt + 1 /\ attempt' \in 1..MaxAttempts /\ call > 0
    BY <1>3 DEF CannotStart, StartAttempt, TypeInv, TypeOK
  <2>3. (call - 1) * MaxAttempts \in Nat
    BY <2>2, Products DEF TypeInv, TypeOK
  <2>4. Len(streams) <= (call - 1) * MaxAttempts + attempt'
    BY <1>3, <2>2, <2>3 DEF CannotStart, StartAttempt, TypeInv, TypeOK
  <2> QED BY <1>3, <2>1, <2>2, <2>4, FailType DEF CannotStart, TypeInv, TypeOK, Errors
<1>4. CASE Submit
  <2>1. /\ attempt' = attempt + 1 /\ attempt' \in 1..MaxAttempts
        /\ call \in 1..MaxCalls
    BY <1>4 DEF Submit, StartAttempt, TypeInv, TypeOK
  <2>2. streams' \in Seq(Stream) /\ Len(streams') = Len(streams) + 1
    BY <1>4, <2>1 DEF Submit, TypeInv, TypeOK, Stream
  <2>3. (call - 1) * MaxAttempts \in Nat
    BY <2>1, Products
  <2>4. Len(streams') <= (call - 1) * MaxAttempts + attempt'
    BY <1>4, <2>1, <2>2, <2>3 DEF Submit, StartAttempt, TypeInv, TypeOK
  <2>5. Len(streams') <= call * MaxAttempts
    <3>1. (call - 1) * MaxAttempts + attempt' <= call * MaxAttempts
      BY <2>1, Products
    <3>2. call * MaxAttempts \in Nat /\ attempt' \in Nat /\ Len(streams') \in Nat
      BY <2>1, <2>2, Products
    <3> QED BY <3>1, <3>2, <2>3, <2>4
  <2>6. <<>> \in Seq(Message) /\ {} \in SUBSET StreamIds
    OBVIOUS
  <2> QED BY <1>4, <2>1, <2>2, <2>4, <2>5, <2>6 DEF Submit, TypeInv, TypeOK
<1>5. CASE Receive
  <2>1. Head(queue) \in Message /\ queue' \in Seq(Message)
    BY <1>5 DEF Receive, TypeInv, TypeOK
  <2>2. CASE Head(queue).kind = "chunk"
    BY <1>5, <2>1, <2>2 DEF Receive, TypeInv, TypeOK, Message
  <2>3. CASE Head(queue).kind = "done"
    <3>1. /\ phase' = "idle" /\ answer' = AnswerOf(Head(queue)) /\ streams' = Released
          /\ UNCHANGED <<gathered, lastError, call, attempt, carried, ended, cancelled>>
      BY <1>5, <2>3 DEF Receive
    <3>2. AnswerOf(Head(queue)) \in Answer
      BY <2>1 DEF AnswerOf, Message, Answer
    <3>3. streams' \in Seq(Stream) /\ Len(streams') <= call * MaxAttempts
      BY <3>1, ReleasedType DEF TypeInv, TypeOK
    <3> QED BY <2>1, <3>1, <3>2, <3>3 DEF TypeInv, TypeOK
  <2>4. CASE Head(queue).kind \notin {"chunk", "done"}
    <3>1. PICK error \in Errors : Fail(error)
      BY <1>5, <2>4 DEF Receive, Errors
    <3>2. /\ streams' = Released
          /\ UNCHANGED <<gathered, call, attempt, carried, ended, cancelled>>
      BY <1>5, <2>4 DEF Receive
    <3>3. attempt' \in 0..MaxAttempts /\ phase = "waiting"
      BY <1>5, <3>2 DEF Receive, TypeInv, TypeOK
    <3> QED BY <2>1, <3>1, <3>2, <3>3, ReleasedType DEF Fail, Outcome, Answer, TypeInv, TypeOK
  <2> QED BY <2>2, <2>3, <2>4
<1>6. CASE TimeOut
  <2>1. /\ Fail("timeout") /\ streams' = Released /\ phase = "waiting"
        /\ UNCHANGED <<gathered, queue, call, attempt, carried, ended, cancelled>>
    BY <1>6 DEF TimeOut
  <2> QED BY <2>1, ReleasedType DEF Fail, Outcome, Answer, Errors, TypeInv, TypeOK
<1> QED BY <1>1, <1>2, <1>3, <1>4, <1>5, <1>6

LEMMA PutType ==
  ASSUME TypeOK, NEW i \in DOMAIN streams,
         NEW kind \in {"chunk", "done", "blank", "transient", "permanent"}, Put(i, kind)
  PROVE  queue' \in Seq(Message)
<1>1. [kind |-> kind, from |-> i] \in Message
  BY StreamsNumbered DEF Message
<1> QED BY <1>1 DEF Put, TypeOK

(* A thread changes the stream it runs and no other. *)
LEMMA OneStream ==
  ASSUME TypeOK, NEW i \in DOMAIN streams, Take(i) \/ SendChunk(i) \/ FinishStream(i)
  PROVE  /\ streams' \in Seq(Stream) /\ Len(streams') = Len(streams)
         /\ DOMAIN streams' = DOMAIN streams
         /\ \A n \in DOMAIN streams : /\ streams'[n].call = streams[n].call
                                      /\ n # i => streams'[n] = streams[n]
         /\ Take(i) => streams[i].state = "pending" /\ streams'[i].state = "running"
         /\ SendChunk(i) => streams[i].state = "running" /\ streams'[i].state = "running"
         /\ FinishStream(i) => streams[i].state = "running" /\ streams'[i].state = "over"
<1>1. streams[i] \in Stream
  BY DEF TypeOK
<1>2. ASSUME NEW s \in Stream, streams' = [streams EXCEPT ![i] = s], s.call = streams[i].call
      PROVE  /\ streams' \in Seq(Stream) /\ Len(streams') = Len(streams)
             /\ DOMAIN streams' = DOMAIN streams /\ streams'[i] = s
             /\ \A n \in DOMAIN streams : /\ streams'[n].call = streams[n].call
                                          /\ n # i => streams'[n] = streams[n]
  BY <1>2 DEF TypeOK
<1>3. CASE Take(i)
  <2> DEFINE s == [streams[i] EXCEPT !.state = "running"]
  <2>1. s \in Stream /\ s.call = streams[i].call /\ s.state = "running"
    BY <1>1 DEF Stream
  <2>2. streams' = [streams EXCEPT ![i] = s] /\ streams[i].state = "pending"
    BY <1>3 DEF Take, Pending
  <2>3. ~SendChunk(i) /\ ~FinishStream(i)
    BY <2>2 DEF SendChunk, FinishStream, Running
  <2> HIDE DEF s
  <2> QED BY <2>1, <2>2, <2>3, <1>2
<1>4. CASE SendChunk(i)
  <2> DEFINE s == [streams[i] EXCEPT !.sent = @ + 1]
  <2>1. streams[i].state = "running" /\ streams[i].sent < MaxChunks
    BY <1>4 DEF SendChunk, Running
  <2>2. s \in Stream /\ s.call = streams[i].call /\ s.state = "running"
    BY <1>1, <2>1 DEF Stream
  <2>3. streams' = [streams EXCEPT ![i] = s] /\ ~Take(i)
    BY <1>4, <2>1 DEF SendChunk, Take, Pending
  <2>4. ~FinishStream(i)
    <3>1. ASSUME FinishStream(i) PROVE FALSE
      <4>1. streams'[i].state = "over"
        BY <1>1, <3>1 DEF FinishStream, Stream
      <4>2. streams'[i] = s
        BY <2>3
      <4> QED BY <4>1, <4>2, <2>2
    <3> QED BY <3>1
  <2> HIDE DEF s
  <2> QED BY <2>1, <2>2, <2>3, <2>4, <1>2
<1>5. CASE FinishStream(i)
  <2> DEFINE s == [streams[i] EXCEPT !.state = "over"]
  <2>1. s \in Stream /\ s.call = streams[i].call /\ s.state = "over"
    BY <1>1 DEF Stream
  <2>2. streams' = [streams EXCEPT ![i] = s] /\ streams[i].state = "running" /\ ~Take(i)
    BY <1>5 DEF FinishStream, Running, Take, Pending
  <2>3. ~SendChunk(i)
    <3>1. ASSUME SendChunk(i) PROVE FALSE
      <4>1. streams'[i].state = streams[i].state
        BY <1>1, <3>1 DEF SendChunk, Stream
      <4>2. streams'[i] = s
        BY <2>2
      <4> QED BY <4>1, <4>2, <2>1, <2>2
    <3> QED BY <3>1
  <2> HIDE DEF s
  <2> QED BY <2>1, <2>2, <2>3, <1>2
<1> QED BY <1>3, <1>4, <1>5

LEMMA TypeThreads ==
  ASSUME TypeInv, NEW i \in DOMAIN streams, Take(i) \/ SendChunk(i) \/ FinishStream(i)
  PROVE  TypeInv'
<1> USE DEF taskVars
<1>1. streams' \in Seq(Stream) /\ Len(streams') = Len(streams)
  BY OneStream DEF TypeInv
<1>2. queue' \in Seq(Message)
  BY PutType DEF Take, SendChunk, FinishStream, TypeInv, TypeOK
<1>3. UNCHANGED <<taskVars, call, phase, attempt, gathered, lastError, answer>>
  BY DEF Take, SendChunk, FinishStream
<1> QED BY <1>1, <1>2, <1>3 DEF TypeInv, TypeOK

(* The executor drops what waits and leaves the rest. *)
LEMMA DroppedType ==
  ASSUME TypeOK, TaskEnds
  PROVE  /\ streams' \in Seq(Stream) /\ Len(streams') = Len(streams)
         /\ DOMAIN streams' = DOMAIN streams
         /\ \A i \in DOMAIN streams :
              /\ streams'[i].call = streams[i].call
              /\ streams[i].state # "pending" => streams'[i].state = streams[i].state
              /\ streams[i].state = "pending" => streams'[i].state = "dropped"
<1>1. \A i \in DOMAIN streams : streams[i] \in Stream
  BY DEF TypeOK
<1>2. \A s \in Stream : /\ [s EXCEPT !.state = "dropped"] \in Stream
                        /\ [s EXCEPT !.state = "dropped"].call = s.call
                        /\ [s EXCEPT !.state = "dropped"].state = "dropped"
  BY DEF Stream
<1>3. streams' = [i \in 1..Len(streams) |->
                    IF i \in Pending THEN [streams[i] EXCEPT !.state = "dropped"] ELSE streams[i]]
  BY DEF TaskEnds, TypeOK
<1>4. DOMAIN streams = 1..Len(streams) /\ Len(streams) \in Nat
  BY DEF TypeOK
<1>5. \A i \in 1..Len(streams) : streams'[i] \in Stream
  BY <1>1, <1>2, <1>3, <1>4
<1>6. streams' \in Seq(Stream) /\ Len(streams') = Len(streams)
  BY <1>3, <1>4, <1>5
<1> QED BY <1>1, <1>2, <1>3, <1>4, <1>6 DEF Pending

LEMMA TypeTask ==
  ASSUME TypeInv, CancelTask \/ TaskEnds
  PROVE  TypeInv'
<1>1. CASE CancelTask
  BY <1>1 DEF CancelTask, TypeInv, TypeOK
<1>2. CASE TaskEnds
  BY <1>2, DroppedType DEF TaskEnds, TypeInv, TypeOK
<1> QED BY <1>1, <1>2

LEMMA TypeStep == TypeInv /\ [Next]_vars => TypeInv'
<1> SUFFICES ASSUME TypeInv, [Next]_vars PROVE TypeInv'
  OBVIOUS
<1>1. CASE UNCHANGED vars
  BY <1>1 DEF vars, taskVars, TypeInv, TypeOK
<1> QED BY <1>1, TypeCall, TypeThreads, TypeTask DEF Next

LEMMA TypeAlways == Spec => []TypeInv
BY TypeInit, TypeStep, PTL DEF Spec

(* The variables of a task's calls keep their types: no call makes more    *)
(* than MaxAttempts attempts, for any limits.                              *)
THEOREM TypeCorrect == Spec => []TypeOK
<1>1. TypeInv => TypeOK
  BY DEF TypeInv
<1> QED BY <1>1, TypeAlways, PTL

-------------------------------------------------------------------------------
(* Answers *)

(* A text is in the queue only when its stream is over, and is one of the  *)
(* call that reads the queue.                                              *)
Whole(i) == i \in DOMAIN streams /\ streams[i].call = call /\ streams[i].state = "over"
WholeNext(i) ==
  i \in DOMAIN streams' /\ streams'[i].call = call' /\ streams'[i].state = "over"

(* What the queue may hold after a step: what it held, or a whole text.   *)
Queued(message) ==
  \/ \E l \in DOMAIN queue : message = queue[l]
  \/ message.kind = "done" => WholeNext(message.from)

QueueWhole == \A k \in DOMAIN queue : queue[k].kind = "done" => Whole(queue[k].from)

AnswerInv ==
  /\ TypeInv
  /\ QueueWhole
  /\ AnswerIsWhole

LEMMA AnswerInit == Init => AnswerInv
BY TypeInit DEF Init, AnswerInv, QueueWhole, AnswerIsWhole, Outcome

(* In a step of the call under way what is whole stays so, and the queue   *)
(* of another call is a new one.                                           *)
LEMMA WholeStays ==
  ASSUME TypeInv, Next, call' = call, NEW n, Whole(n)
  PROVE  WholeNext(n)
<1> USE DEF Whole, WholeNext, taskVars
<1>1. CASE Begin
  BY <1>1 DEF Begin, TypeInv, TypeOK
<1>2. CASE CancelSeen \/ CannotStart \/ CancelTask
  BY <1>2 DEF CancelSeen, CannotStart, CancelTask
<1>3. CASE Submit
  BY <1>3 DEF Submit, TypeInv, TypeOK
<1>4. CASE Receive \/ TimeOut
  <2>1. streams' \in {streams, Released}
    BY <1>4 DEF Receive, TimeOut
  <2> QED BY <2>1, ReleasedType DEF TypeInv
<1>5. ASSUME NEW i \in DOMAIN streams, Take(i) \/ SendChunk(i) \/ FinishStream(i)
      PROVE  WholeNext(n)
  BY <1>5, OneStream DEF TypeInv
<1>6. CASE TaskEnds
  BY <1>6, DroppedType DEF TypeInv
<1> QED BY <1>1, <1>2, <1>3, <1>4, <1>5, <1>6 DEF Next

(* Steps of the call under way return nothing but a whole text, and put    *)
(* nothing else into the queue.                                            *)
LEMMA AnswerStays ==
  ASSUME AnswerInv, Next, call' = call,
         \/ answer' = answer \/ answer'.kind # "text"
         \/ answer'.text = {Head(queue).from} /\ Whole(Head(queue).from),
         \A k \in DOMAIN queue' : Queued(queue'[k])
  PROVE  AnswerInv'
<1>1. TypeInv'
  BY TypeStep DEF AnswerInv
<1>2. AnswerIsWhole <=> (answer.kind = "text" => \E i : answer.text = {i} /\ Whole(i))
  BY DEF AnswerIsWhole, Whole
<1>3. AnswerIsWhole' <=> (answer'.kind = "text" => \E i : answer'.text = {i} /\ WholeNext(i))
  BY DEF AnswerIsWhole, WholeNext
<1>4. \A n : Whole(n) => WholeNext(n)
  BY WholeStays DEF AnswerInv
<1>5. AnswerIsWhole'
  BY <1>2, <1>3, <1>4 DEF AnswerInv
<1>6. QueueWhole'
  <2>1. \A k \in DOMAIN queue' : queue'[k].kind = "done" => WholeNext(queue'[k].from)
    BY <1>4 DEF AnswerInv, QueueWhole, Queued
  <2> QED BY <2>1 DEF QueueWhole, Whole, WholeNext
<1> QED BY <1>1, <1>5, <1>6 DEF AnswerInv

LEMMA PutWhole ==
  ASSUME TypeOK, NEW i \in DOMAIN streams, NEW kind, Put(i, kind), call' = call,
         kind = "done" => streams'[i].state = "over",
         i \in DOMAIN streams', streams'[i].call = streams[i].call
  PROVE  \A k \in DOMAIN queue' : Queued(queue'[k])
<1>1. CASE queue' = queue
  BY <1>1 DEF Queued
<1>2. CASE queue' # queue
  <2>1. queue' = Append(queue, [kind |-> kind, from |-> i]) /\ streams[i].call = call
    BY <1>2 DEF Put
  <2>2. queue \in Seq(Message)
    BY DEF TypeOK
  <2>3. ASSUME NEW k \in DOMAIN queue'
        PROVE  \/ k \in DOMAIN queue /\ queue'[k] = queue[k]
               \/ queue'[k] = [kind |-> kind, from |-> i]
    BY <2>1, <2>2
  <2>4. kind = "done" => WholeNext(i)
    BY <2>1 DEF WholeNext
  <2> QED BY <2>3, <2>4 DEF Queued
<1> QED BY <1>1, <1>2

LEMMA AnswerStep == AnswerInv /\ [Next]_vars => AnswerInv'
<1> SUFFICES ASSUME AnswerInv, [Next]_vars PROVE AnswerInv'
  OBVIOUS
<1> USE DEF taskVars
<1>1. CASE UNCHANGED vars
  <2>1. TypeInv'
    BY TypeStep DEF AnswerInv
  <2> QED BY <1>1, <2>1 DEF vars, AnswerInv, QueueWhole, AnswerIsWhole, Whole
<1>2. CASE Begin
  <2>1. TypeInv'
    BY TypeStep DEF AnswerInv
  <2> QED BY <1>2, <2>1 DEF Begin, AnswerInv, QueueWhole, AnswerIsWhole, Outcome
<1>3. CASE CancelSeen
  <2>1. Next /\ UNCHANGED <<call, queue>> /\ answer'.kind # "text"
    BY <1>3 DEF Next, CancelSeen, Outcome
  <2> QED BY <2>1, AnswerStays DEF Queued
<1>4. CASE CannotStart \/ TimeOut
  <2>1. PICK error \in Errors : Fail(error)
    BY <1>4 DEF CannotStart, TimeOut, Errors
  <2>2. answer' = answer \/ answer'.kind # "text"
    BY <2>1 DEF Fail, Outcome, Errors
  <2>3. Next
    BY <1>4 DEF Next
  <2>4. UNCHANGED <<call, queue>>
    BY <1>4 DEF CannotStart, TimeOut
  <2> QED BY <2>2, <2>3, <2>4, AnswerStays DEF Queued
<1>5. CASE Submit
  <2>1. Next
    BY <1>5 DEF Next
  <2>2. UNCHANGED <<call, answer>> /\ queue' = <<>>
    BY <1>5 DEF Submit
  <2> QED BY <2>1, <2>2, AnswerStays DEF Queued
<1>6. CASE Receive
  <2>1. call' = call /\ queue # <<>> /\ queue' = Tail(queue) /\ queue \in Seq(Message)
    BY <1>6 DEF Receive, AnswerInv, TypeInv, TypeOK
  <2>2. 1 \in DOMAIN queue /\ Head(queue) = queue[1]
    BY <2>1
  <2>3. \A k \in DOMAIN queue' : \E l \in DOMAIN queue : queue'[k] = queue[l]
    <3>1. \A k \in DOMAIN queue' : k + 1 \in DOMAIN queue /\ queue'[k] = queue[k + 1]
      BY <2>1
    <3> QED BY <3>1
  <2>4. \/ answer' = answer \/ answer'.kind # "text"
        \/ answer'.text = {Head(queue).from} /\ Whole(Head(queue).from)
    <3>1. CASE Head(queue).kind = "chunk"
      BY <1>6, <3>1 DEF Receive
    <3>2. CASE Head(queue).kind = "done"
      <4>1. Whole(Head(queue).from)
        BY <2>2, <3>2 DEF AnswerInv, QueueWhole
      <4>2. answer' = AnswerOf(Head(queue))
        BY <1>6, <3>2 DEF Receive
      <4> QED BY <4>1, <4>2 DEF AnswerOf
    <3>3. CASE Head(queue).kind \notin {"chunk", "done"}
      <4>1. PICK error \in Errors : Fail(error)
        BY <1>6, <3>3 DEF Receive, Errors
      <4> QED BY <4>1 DEF Fail, Outcome, Errors
    <3> QED BY <3>1, <3>2, <3>3
  <2>5. Next
    BY <1>6 DEF Next
  <2> QED BY <2>1, <2>3, <2>4, <2>5, AnswerStays DEF Queued
<1>7. ASSUME NEW i \in DOMAIN streams, Take(i) \/ SendChunk(i) \/ FinishStream(i)
      PROVE  AnswerInv'
  <2>1. Next
    BY <1>7 DEF Next
  <2>2. UNCHANGED <<call, answer>> /\ TypeOK
    BY <1>7 DEF Take, SendChunk, FinishStream, AnswerInv, TypeInv
  <2>3. \A k \in DOMAIN queue' : Queued(queue'[k])
    <3>1. i \in DOMAIN streams' /\ streams'[i].call = streams[i].call
      BY <1>7, <2>2, OneStream
    <3>2. CASE Take(i)
      BY <3>2 DEF Take, Queued
    <3>3. CASE SendChunk(i)
      <4>1. Put(i, "chunk")
        BY <3>3 DEF SendChunk
      <4> QED BY <2>2, <3>1, <4>1, PutWhole
    <3>4. CASE FinishStream(i)
      <4>1. PICK kind \in {"done", "blank", "transient", "permanent"} : Put(i, kind)
        BY <3>4 DEF FinishStream
      <4>2. streams'[i].state = "over"
        BY <2>2, <3>4, OneStream
      <4> QED BY <2>2, <3>1, <4>1, <4>2, PutWhole
    <3> QED BY <1>7, <3>2, <3>3, <3>4
  <2> QED BY <2>1, <2>2, <2>3, AnswerStays DEF Queued
<1>8. CASE CancelTask \/ TaskEnds
  <2>1. Next
    BY <1>8 DEF Next
  <2>2. UNCHANGED <<call, queue, answer>>
    BY <1>8 DEF CancelTask, TaskEnds
  <2> QED BY <2>1, <2>2, AnswerStays DEF Queued
<1> QED BY <1>1, <1>2, <1>3, <1>4, <1>5, <1>6, <1>7, <1>8 DEF Next

(* Whatever attempts were given up and threads are late, the text a call   *)
(* returns is the whole text of one stream of that call, for any limits.   *)
THEOREM AnswersWhole == Spec => []AnswerIsWhole
<1>1. AnswerInv => AnswerIsWhole
  BY DEF AnswerInv
<1> QED BY <1>1, AnswerInit, AnswerStep, PTL DEF Spec

-------------------------------------------------------------------------------
(* The end of the task *)

(* Streams wait for a thread only in a pool that is not shut down. *)
EndInv == TypeInv /\ (Pending # {} => carried /\ ~ended)

(* A step that starts nothing and lets nothing wait, once nothing may. *)
LEMMA EndStep ==
  ASSUME EndInv, [Next]_vars
  PROVE  /\ EndInv'
         /\ carried /\ ended =>
              \A i \in DOMAIN streams' : streams'[i].state = "running" => i \in Running
<1> USE DEF taskVars, Pending, Running
<1>1. TypeInv'
  BY TypeStep DEF EndInv
<1>2. CASE UNCHANGED vars
  BY <1>1, <1>2 DEF vars, EndInv
<1>3. CASE Begin \/ CancelSeen \/ CannotStart \/ CancelTask
  BY <1>1, <1>3 DEF Begin, CancelSeen, CannotStart, CancelTask, EndInv
<1>4. CASE Submit
  <2>1. /\ streams \in Seq(Stream) /\ ~(carried /\ ended) /\ UNCHANGED <<carried, ended>>
        /\ streams' = Append(streams, [call |-> call, sent |-> 0,
                         state |-> IF carried THEN "pending" ELSE "running"])
    BY <1>4 DEF Submit, EndInv, TypeInv, TypeOK
  <2>2. CASE carried
    BY <1>1, <2>1, <2>2 DEF EndInv
  <2>3. CASE ~carried
    <3>1. \A i \in DOMAIN streams' : \/ i \in DOMAIN streams /\ streams'[i] = streams[i]
                                     \/ streams'[i].state = "running"
      BY <2>1, <2>3
    <3> QED BY <1>1, <2>1, <2>3, <3>1 DEF EndInv
  <2> QED BY <2>2, <2>3
<1>5. CASE Receive \/ TimeOut
  <2>1. streams' \in {streams, Released} /\ UNCHANGED <<carried, ended>>
    BY <1>5 DEF Receive, TimeOut
  <2> QED BY <1>1, <2>1, ReleasedType DEF EndInv, TypeInv
<1>6. ASSUME NEW i \in DOMAIN streams, Take(i) \/ SendChunk(i) \/ FinishStream(i)
      PROVE  /\ EndInv'
             /\ carried /\ ended =>
                  \A k \in DOMAIN streams' : streams'[k].state = "running" => k \in Running
  <2>1. UNCHANGED <<carried, ended>>
    BY <1>6 DEF Take, SendChunk, FinishStream
  <2> QED BY <1>1, <1>6, <2>1, OneStream DEF EndInv, TypeInv
<1>7. CASE TaskEnds
  <2>1. UNCHANGED carried
    BY <1>7 DEF TaskEnds
  <2> QED BY <1>1, <1>7, <2>1, DroppedType DEF EndInv, TypeInv, TypeOK, Stream
<1> QED BY <1>2, <1>3, <1>4, <1>5, <1>6, <1>7 DEF Next

(* Once a task that hands its executor to its calls has ended, no stream   *)
(* starts, wherever a node was in its call, for any pool and limits.       *)
THEOREM NothingStarts == Spec => NothingStartsAfterEnd
<1>1. Init => EndInv
  BY TypeInit DEF Init, EndInv, Pending
<1>2. EndInv /\ [Next]_vars => EndInv'
  BY EndStep
<1>3. EndInv /\ [Next]_vars =>
        [carried /\ ended => \A i \in DOMAIN streams' :
           streams'[i].state = "running" => i \in Running]_vars
  BY EndStep
<1> QED BY <1>1, <1>2, <1>3, PTL DEF Spec, NothingStartsAfterEnd
===============================================================================
