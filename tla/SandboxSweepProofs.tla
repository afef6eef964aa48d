-------------------------- MODULE SandboxSweepProofs --------------------------
(***************************************************************************)
(* Proofs about the containers of Sandbox, for any tasks, loops and        *)
(* faults: docker refuses no name, and a cleanup leaves at most one        *)
(* container of a task behind.                                             *)
(***************************************************************************)
EXTENDS SandboxProofs, FiniteSetTheorems

USE DEF gateVars, dirVars, runnerVars

-------------------------------------------------------------------------------
(* The inductive invariant *)

(* A container its gate gave up on.  Given up by the last gate, it is in   *)
(* nobody's way, as no gate is entered any more; given up by a regression  *)
(* check, it has the number of a loop that is over.                        *)
GivenUp(t, c) ==
  \/ c.name.gate = "sandbox" /\ t \in final
  \/ /\ c.name.gate = "regression" /\ kind[t] = "editing"
     /\ c.name.loop <= loop[t]["regression"]
     /\ gate[t] = "regression" /\ thread[t] \notin {"idle", "tidy"} =>
          c.name.loop # loop[t]["regression"]

(* The thread of a task and the containers of the task: those it does not  *)
(* wait for were given up, and of those started when the task was over     *)
(* there is one at most.                                                   *)
ThreadInv(t) ==
  /\ t \in final => thread[t] = "idle"
  /\ gate[t] = "regression" => kind[t] = "editing"
  /\ t \notin crashed => \A c \in Of(t) : Awaits(t, c) \/ GivenUp(t, c)
  /\ \A c \in Of(t) : c.late => Awaits(t, c) \/ thread[t] \in {"idle", "tidy"}
  /\ \A c, d \in Of(t) : c.late /\ d.late => c = d

(* The runner and the containers: a cleanup has listed those that were     *)
(* started before it, and a cleanup that worked leaves late ones alone.    *)
SweepInv(t) ==
  /\ runner[t] = "running" => \A c \in Of(t) : ~c.late
  /\ t \in looked => /\ runner[t] # "running"
                     /\ \A c \in Of(t) : c.late \/ c.name \in listed[t]
  /\ runner[t] \in {"tidying", "over"} /\ t \notin unswept => \A c \in Of(t) : c.late

UniqueNames == \A c, d \in containers : c.name = d.name => c = d

ContainersInv == UniqueNames /\ \A t \in Tasks : ThreadInv(t) /\ SweepInv(t)

LEMMA ContainersInit == Init => ContainersInv
BY DEF Init, ContainersInv, UniqueNames, ThreadInv, SweepInv, Of

-------------------------------------------------------------------------------
(* What steps do to the containers of a task *)

(* Every container of the task was there before, by its name.              *)
Comes(t) ==
  /\ UniqueNames'
  /\ \A c \in Of(t)' : \E d \in Of(t) : d.name = c.name /\ d.late = c.late

SameThread(t) ==
  /\ kind' = kind
  /\ thread'[t] = thread[t] /\ gate'[t] = gate[t]
  /\ loop'[t] = loop[t] /\ attempt'[t] = attempt[t]
  /\ t \in final' <=> t \in final
  /\ t \in crashed' <=> t \in crashed

SameRunner(t) ==
  /\ runner'[t] = runner[t] /\ listed'[t] = listed[t]
  /\ t \in looked' <=> t \in looked
  /\ t \in unswept' <=> t \in unswept

LEMMA NameTypes ==
  ASSUME TypeOK, NEW c \in containers
  PROVE  /\ c.name.task \in Tasks /\ c.name.gate \in Gates
         /\ c.name.step \in {"install", "verify"} /\ c.name.loop \in Nat
         /\ c.late \in BOOLEAN
BY DEF TypeOK, Containers, Names

LEMMA SameNames ==
  ASSUME UniqueNames, UNCHANGED containers
  PROVE  UniqueNames' /\ \A t \in Tasks : Comes(t)
BY DEF UniqueNames, Comes, Of

LEMMA FewerNames ==
  ASSUME UniqueNames, containers' \subseteq containers
  PROVE  UniqueNames' /\ \A t \in Tasks : Comes(t)
BY DEF UniqueNames, Comes, Of

LEMMA WithoutNames ==
  ASSUME TypeOK, UniqueNames, NEW d, containers' = Without(d)
  PROVE  UniqueNames' /\ \A t \in Tasks : Comes(t)
<1>1. ASSUME NEW c \in containers'
      PROVE  \E b \in containers :
               /\ c = [b EXCEPT !.attached = @ /\ ~(Mounted(d) /\ b.dir = d)]
               /\ c.name = b.name /\ c.late = b.late
  <2>1. PICK b \in containers : c = [b EXCEPT !.attached = @ /\ ~(Mounted(d) /\ b.dir = d)]
    BY DEF Without
  <2>2. b \in Containers
    BY DEF TypeOK
  <2> QED BY <2>1, <2>2 DEF Containers
<1> QED BY <1>1 DEF UniqueNames, Comes, Of

LEMMA ThreadFrame ==
  ASSUME NEW t \in Tasks, ThreadInv(t), Comes(t), SameThread(t)
  PROVE  ThreadInv(t)'
<1>1. \A c : Awaits(t, c)' <=> Awaits(t, c)
  BY DEF Awaits, NameOf, SameThread
<1>2. ASSUME NEW c, NEW d, d.name = c.name
      PROVE  /\ Awaits(t, d) => Awaits(t, c)
             /\ GivenUp(t, d) => GivenUp(t, c)'
  BY <1>2 DEF Awaits, GivenUp, SameThread
<1>3. (t \notin crashed => \A c \in Of(t) : Awaits(t, c) \/ GivenUp(t, c))'
  BY <1>1, <1>2 DEF ThreadInv, SameThread, Comes
<1>4. (\A c \in Of(t) : c.late => Awaits(t, c) \/ thread[t] \in {"idle", "tidy"})'
  BY <1>1, <1>2 DEF ThreadInv, SameThread, Comes
<1>5. (\A c, d \in Of(t) : c.late /\ d.late => c = d)'
  BY DEF ThreadInv, Comes, UniqueNames, Of
<1> QED BY <1>3, <1>4, <1>5 DEF ThreadInv, SameThread

LEMMA SweepFrame ==
  ASSUME NEW t \in Tasks, SweepInv(t), Comes(t), SameRunner(t)
  PROVE  SweepInv(t)'
BY DEF SweepInv, SameRunner, Comes

-------------------------------------------------------------------------------
(* Steps of the thread *)

(* A thread in a gate goes on, or leaves it, and waits for no container    *)
(* that is still there.                                                    *)
LEMMA ThreadRest ==
  ASSUME TypeOK, NEW t \in Tasks, ThreadInv(t), thread[t] \notin {"idle", "tidy"}, UniqueNames',
         \A c \in Of(t)' : \E d \in Of(t) : d.name = c.name /\ d.late = c.late /\ ~Awaits(t, d),
         kind' = kind, gate'[t] = gate[t], loop'[t] = loop[t],
         t \in crashed' <=> t \in crashed,
         t \in final' => t \in final \/ thread'[t] = "idle"
  PROVE  ThreadInv(t)'
<1>1. t \notin final
  BY DEF ThreadInv
<1>2. t \notin crashed =>
        \A c \in Of(t)' : \E d \in Of(t) :
          d.name = c.name /\ GivenUp(t, d) /\ d.name.gate = "regression"
  BY <1>1 DEF ThreadInv, GivenUp
<1>3. (t \notin crashed => \A c \in Of(t) : Awaits(t, c) \/ GivenUp(t, c))'
  BY <1>2 DEF GivenUp
<1>4. \A c \in Of(t)' : ~c.late
  BY DEF ThreadInv
<1> QED BY <1>1, <1>3, <1>4 DEF ThreadInv

LEMMA NotAwaited ==
  ASSUME TypeOK, NEW t \in Tasks, thread[t] \notin {"install", "verify"}, NEW c \in containers
  PROVE  ~Awaits(t, c)
BY NameTypes DEF Awaits

(* Places of a gate where no container runs for it.                        *)
Between == {"clear", "make", "start", "mark", "open"}

LEMMA ThreadBetween ==
  ASSUME TypeOK, NEW t \in Tasks, ThreadInv(t), thread[t] \in Between, Comes(t),
         kind' = kind, gate'[t] = gate[t], loop'[t] = loop[t],
         t \in crashed' <=> t \in crashed,
         t \in final' => t \in final \/ thread'[t] = "idle"
  PROVE  ThreadInv(t)'
<1>1. \A d \in Of(t) : ~Awaits(t, d)
  BY NotAwaited DEF Between, Of
<1> QED BY <1>1, ThreadRest DEF Between, Comes

(* The thread starts a container, under a name nobody has.                 *)
LEMMA ThreadRuns ==
  ASSUME TypeOK, UniqueNames, NEW t \in Tasks, ThreadInv(t), SweepInv(t),
         NEW step \in {"install", "verify"}, thread[t] \in Between, Run(t, step),
         UNCHANGED <<kind, gate, key, loop, attempt, final, runnerVars, crashed>>
  PROVE  /\ UniqueNames' /\ ThreadInv(t)' /\ SweepInv(t)'
         /\ \A u \in Tasks \ {t} : Comes(u)
<1>1. PICK new :
        /\ containers' = containers \cup {new}
        /\ new.name = NameOf(t, step)
        /\ IF runner[t] = "running" THEN ~new.late ELSE new.late
  <2>1. PICK late \in BOOLEAN : /\ late <=> runner[t] # "running"
                                /\ late = (runner[t] # "running")
    OBVIOUS
  <2>2. containers' = containers \cup
          {[name |-> NameOf(t, step), dir |-> Dir(t), attached |-> TRUE, late |-> late]}
    BY <2>1 DEF Run
  <2> DEFINE row(b) == [name |-> NameOf(t, step), dir |-> Dir(t), attached |-> TRUE, late |-> b]
  <2>3. /\ row(TRUE).name = NameOf(t, step) /\ row(TRUE).late
        /\ row(FALSE).name = NameOf(t, step) /\ ~row(FALSE).late
    OBVIOUS
  <2>4. CASE late
    <3>1. containers' = containers \cup {row(TRUE)}
      BY <2>2, <2>4
    <3> HIDE DEF row
    <3> QED BY <2>1, <2>3, <2>4, <3>1
  <2>5. CASE ~late
    <3>1. containers' = containers \cup {row(FALSE)}
      BY <2>2, <2>5
    <3> HIDE DEF row
    <3> QED BY <2>1, <2>3, <2>5, <3>1
  <2> QED BY <2>4, <2>5
<1>2. /\ new.name.task = t /\ new.name.step = step /\ thread'[t] = step
      /\ \A c \in containers : c.name # new.name
  BY <1>1 DEF NameOf, Run, Taken, Move, TypeOK
<1>3. UniqueNames'
  BY <1>1, <1>2 DEF UniqueNames
<1>4. ASSUME NEW u \in Tasks \ {t} PROVE Comes(u)
  BY <1>1, <1>2, <1>3 DEF Comes, Of
<1>5. Of(t)' = Of(t) \cup {new}
  BY <1>1, <1>2 DEF Of
<1>6. Awaits(t, new)'
  BY <1>1, <1>2 DEF Awaits, NameOf
<1>7. t \notin final /\ \A c \in Of(t) : ~Awaits(t, c) /\ ~c.late
  BY NotAwaited DEF ThreadInv, Between, Of
<1>8. ThreadInv(t)'
  <2>1. (t \notin crashed => \A c \in Of(t) : Awaits(t, c) \/ GivenUp(t, c))'
    <3>1. ASSUME t \notin crashed, NEW c \in Of(t) PROVE GivenUp(t, c)'
      BY <1>7, <3>1 DEF ThreadInv, GivenUp, Between
    <3> QED BY <1>5, <1>6, <3>1
  <2> QED BY <1>5, <1>6, <1>7, <2>1 DEF ThreadInv
<1>9. SweepInv(t)'
  BY <1>1, <1>5 DEF SweepInv
<1> QED BY <1>3, <1>4, <1>8, <1>9

(* A step of one task.                                                     *)
LEMMA OneTask ==
  ASSUME ContainersInv, NEW t \in Tasks, UniqueNames',
         \A u \in Tasks \ {t} : Comes(u) /\ SameThread(u) /\ SameRunner(u),
         ThreadInv(t)', SweepInv(t)'
  PROVE  ContainersInv'
<1>1. \A u \in Tasks \ {t} : ThreadInv(u)' /\ SweepInv(u)'
  BY ThreadFrame, SweepFrame DEF ContainersInv
<1> QED BY <1>1 DEF ContainersInv

(* How an attempt or a gate ends.                                          *)
Exits(t) ==
  /\ \A u \in Tasks \ {t} : /\ thread'[u] = thread[u] /\ attempt'[u] = attempt[u]
                            /\ u \in final' <=> u \in final
  /\ t \in final' => t \in final \/ thread'[t] = "idle"

LEMMA MoveExits ==
  ASSUME TypeOK, NEW t \in Tasks, NEW place, Move(t, place), UNCHANGED <<attempt, final>>
  PROVE  Exits(t)
BY DEF Exits, Move, TypeOK

LEMMA LeaveExits ==
  ASSUME TypeOK, NEW t \in Tasks, NEW isFinal, Leave(t, isFinal)
  PROVE  /\ Exits(t) /\ thread'[t] \in {"idle", "tidy"}
         /\ isFinal /\ gate[t] = "sandbox" => t \in final'
BY DEF Exits, Leave, Move, TypeOK

LEMMA FailAttemptExits ==
  ASSUME TypeOK, NEW t \in Tasks, FailAttempt(t)
  PROVE  Exits(t)
<1>1. CASE attempt[t] < Attempts(t)
  BY <1>1 DEF FailAttempt, Exits, Move, TypeOK
<1>2. CASE ~(attempt[t] < Attempts(t))
  BY <1>2, LeaveExits DEF FailAttempt
<1> QED BY <1>1, <1>2

LEMMA EnterContainers ==
  ASSUME TypeOK, ContainersInv, NEW t \in Tasks, NEW g \in Gates, NEW k \in Keys,
         NEW replan \in BOOLEAN, Enter(t, g, k, replan)
  PROVE  ContainersInv'
<1>1. /\ UNCHANGED <<kind, attempt, final, containers, runnerVars, crashed>>
      /\ thread[t] = "idle" /\ t \notin final /\ runner[t] = "running"
      /\ g = "regression" => kind[t] = "editing" /\ replan = FALSE
      /\ gate'[t] = g /\ thread'[t] \in {"open", "clear"}
      /\ loop'[t] = [loop[t] EXCEPT ![g] = IF replan THEN 1 ELSE @ + 1]
      /\ \A u \in Tasks \ {t} : /\ thread'[u] = thread[u] /\ gate'[u] = gate[u]
                                /\ loop'[u] = loop[u]
  BY DEF Enter, Move, TypeOK
<1>2. UniqueNames' /\ \A u \in Tasks : Comes(u)
  BY <1>1, SameNames DEF ContainersInv
<1>3. \A u \in Tasks : SameRunner(u)
  BY <1>1 DEF SameRunner
<1>4. \A u \in Tasks \ {t} : SameThread(u)
  BY <1>1 DEF SameThread
<1>5. \A c \in Of(t) : ~Awaits(t, c) /\ ~c.late
  BY <1>1, NotAwaited DEF ContainersInv, SweepInv, Of
<1>6. ThreadInv(t)'
  <2>1. (t \notin crashed => \A c \in Of(t) : Awaits(t, c) \/ GivenUp(t, c))'
    <3>1. ASSUME t \notin crashed, NEW c \in Of(t) PROVE GivenUp(t, c)'
      <4>1. /\ c.name.gate = "regression" /\ kind[t] = "editing"
            /\ c.name.loop <= loop[t]["regression"]
        BY <1>1, <1>5, <3>1 DEF ContainersInv, ThreadInv, GivenUp
      <4>2. c.name.loop \in Nat /\ loop[t]["regression"] \in Nat
        BY NameTypes DEF Of, TypeOK, Gates
      <4>3. CASE g = "regression"
        <5>1. loop'[t]["regression"] = loop[t]["regression"] + 1
          BY <1>1, <4>3 DEF TypeOK, Gates
        <5> QED BY <1>1, <4>1, <4>2, <5>1 DEF GivenUp
      <4>4. CASE g # "regression"
        <5>1. loop'[t]["regression"] = loop[t]["regression"]
          BY <1>1, <4>4 DEF TypeOK, Gates
        <5> QED BY <1>1, <4>1, <4>4, <5>1 DEF GivenUp
      <4> QED BY <4>3, <4>4
    <3> QED BY <1>1, <3>1 DEF Of
  <2> QED BY <1>1, <1>5, <2>1 DEF ThreadInv, Of
<1>7. SweepInv(t)'
  BY <1>2, <1>3, SweepFrame DEF ContainersInv
<1> QED BY <1>2, <1>3, <1>4, <1>6, <1>7, OneTask

LEMMA BetweenContainers ==
  ASSUME TypeOK, ContainersInv, NEW t \in Tasks, thread[t] \in Between, Exits(t),
         UniqueNames', \A u \in Tasks : Comes(u),
         UNCHANGED <<kind, gate, loop, runnerVars, crashed>>
  PROVE  ContainersInv'
<1>1. \A u \in Tasks \ {t} : SameThread(u)
  BY DEF Exits, SameThread
<1>2. \A u \in Tasks : SameRunner(u)
  BY DEF SameRunner
<1>3. ThreadInv(t)'
  BY ThreadBetween DEF ContainersInv, Exits
<1>4. SweepInv(t)'
  BY <1>2, SweepFrame DEF ContainersInv
<1> QED BY <1>1, <1>2, <1>3, <1>4, OneTask

LEMMA RunContainers ==
  ASSUME TypeOK, ContainersInv, NEW t \in Tasks, NEW step \in {"install", "verify"},
         thread[t] \in Between, Run(t, step),
         UNCHANGED <<kind, gate, key, loop, attempt, final, runnerVars, crashed>>
  PROVE  ContainersInv'
<1>1. /\ UniqueNames' /\ ThreadInv(t)' /\ SweepInv(t)'
      /\ \A u \in Tasks \ {t} : Comes(u)
  BY ThreadRuns DEF ContainersInv
<1>2. \A u \in Tasks \ {t} : SameThread(u) /\ SameRunner(u)
  BY DEF Run, Move, TypeOK, SameThread, SameRunner
<1> QED BY <1>1, <1>2, OneTask

(* The gate gives its containers up.                                       *)
LEMMA TimeOutContainers ==
  ASSUME TypeOK, ContainersInv, NEW t \in Tasks, TimeOut(t)
  PROVE  ContainersInv'
<1>1. /\ Exits(t) /\ thread'[t] \in {"idle", "tidy"}
      /\ gate[t] = "sandbox" => t \in final'
      /\ thread[t] \in {"install", "verify"}
      /\ UNCHANGED <<kind, gate, loop, containers, runnerVars, crashed>>
  BY LeaveExits DEF TimeOut
<1>2. UniqueNames' /\ \A u \in Tasks : Comes(u)
  BY <1>1, SameNames DEF ContainersInv
<1>3. \A u \in Tasks : SameRunner(u)
  BY <1>1 DEF SameRunner
<1>4. \A u \in Tasks \ {t} : SameThread(u)
  BY <1>1 DEF SameThread, Exits
<1>5. ThreadInv(t)'
  <2>1. ThreadInv(t) /\ t \notin final
    BY <1>1 DEF ContainersInv, ThreadInv
  <2>2. ASSUME t \notin crashed, NEW c \in Of(t) PROVE GivenUp(t, c)'
    <3>1. CASE Awaits(t, c)
      <4>1. c.name.gate = gate[t] /\ c.name.loop = loop[t][gate[t]] /\ gate[t] \in Gates
        BY <3>1 DEF Awaits, NameOf, TypeOK
      <4>2. c.name.loop \in Nat
        BY NameTypes DEF Of
      <4> QED BY <1>1, <2>1, <4>1, <4>2 DEF GivenUp, Gates, ThreadInv
    <3>2. CASE GivenUp(t, c)
      BY <1>1, <2>1, <3>2 DEF GivenUp
    <3> QED BY <2>1, <2>2, <3>1, <3>2 DEF ThreadInv
  <2> QED BY <1>1, <2>1, <2>2 DEF ThreadInv, Of, Exits
<1>6. SweepInv(t)'
  BY <1>2, <1>3, SweepFrame DEF ContainersInv
<1> QED BY <1>2, <1>3, <1>4, <1>5, <1>6, OneTask

LEMMA TidyContainers ==
  ASSUME TypeOK, ContainersInv, NEW t \in Tasks, Tidy(t)
  PROVE  ContainersInv'
<1>1. /\ thread[t] = "tidy" /\ thread'[t] = "idle"
      /\ UNCHANGED <<kind, gate, loop, attempt, runnerVars, crashed>>
      /\ \A u \in Tasks \ {t} : thread'[u] = thread[u] /\ (u \in final' <=> u \in final)
  BY DEF Tidy, Move, TypeOK
<1>2. UniqueNames' /\ \A u \in Tasks : Comes(u)
  BY WithoutNames DEF Tidy, ContainersInv
<1>3. \A u \in Tasks : SameRunner(u)
  BY <1>1 DEF SameRunner
<1>4. \A u \in Tasks \ {t} : SameThread(u)
  BY <1>1 DEF SameThread
<1>5. ThreadInv(t)'
  <2>1. ThreadInv(t) /\ \A c \in Of(t) : ~Awaits(t, c)
    BY <1>1, NotAwaited DEF ContainersInv, Of
  <2>2. ASSUME t \notin crashed, NEW c \in Of(t)' PROVE GivenUp(t, c)'
    <3>1. PICK d \in Of(t) : d.name = c.name
      BY <1>2, <2>2 DEF Comes
    <3>2. GivenUp(t, d) /\ t \notin final
      BY <1>1, <2>1, <2>2 DEF ThreadInv
    <3> QED BY <1>1, <3>1, <3>2 DEF GivenUp
  <2>3. (\A c, d \in Of(t) : c.late /\ d.late => c = d)'
    BY <1>2, <2>1 DEF ThreadInv, Comes, UniqueNames, Of
  <2> QED BY <1>1, <2>1, <2>2, <2>3 DEF ThreadInv
<1>6. SweepInv(t)'
  BY <1>2, <1>3, SweepFrame DEF ContainersInv
<1> QED BY <1>2, <1>3, <1>4, <1>5, <1>6, OneTask

LEMMA ThreadContainers ==
  ASSUME TypeOK, ContainersInv, NEW t \in Tasks, Thread(t)
  PROVE  ContainersInv'
<1>1. CASE Clear(t)
  <2>1. Exits(t) /\ thread[t] \in Between
    BY <1>1, MoveExits DEF Clear, Between
  <2>2. UniqueNames' /\ \A u \in Tasks : Comes(u)
    BY <1>1, WithoutNames DEF Clear, ContainersInv
  <2> QED BY <1>1, <2>1, <2>2, BetweenContainers DEF Clear
<1>2. ASSUME thread[t] \in Between, Exits(t),
             UNCHANGED <<kind, gate, loop, containers, runnerVars, crashed>>
      PROVE  ContainersInv'
  <2>1. UniqueNames' /\ \A u \in Tasks : Comes(u)
    BY <1>2, SameNames DEF ContainersInv
  <2> QED BY <1>2, <2>1, BetweenContainers
<1>3. CASE ClearRaises(t)
  <2>1. Exits(t)
    <3>1. CASE Leave(t, TRUE)
      BY <3>1, LeaveExits
    <3>2. CASE Move(t, "idle") /\ final' = final \cup {t} /\ UNCHANGED attempt
      BY <3>2 DEF Exits, Move, TypeOK
    <3> QED BY <1>3, <3>1, <3>2 DEF ClearRaises
  <2> QED BY <1>2, <1>3, <2>1 DEF ClearRaises, Between
<1>4. CASE Make(t)
  BY <1>2, <1>4, MoveExits DEF Make, Between
<1>5. CASE Start(t)
  <2>1. CASE Run(t, "install") /\ UNCHANGED <<attempt, final>>
    BY <1>5, <2>1, RunContainers DEF Start, Between
  <2>2. CASE FailAttempt(t) /\ UNCHANGED containers
    BY <1>2, <1>5, <2>2, FailAttemptExits DEF Start, Between
  <2> QED BY <1>5, <2>1, <2>2 DEF Start
<1>6. CASE Mark(t)
  <2>1. Exits(t)
    BY <1>6, MoveExits, LeaveExits DEF Mark
  <2> QED BY <1>2, <1>6, <2>1 DEF Mark, Between
<1>7. CASE Open(t)
  <2>1. CASE Run(t, "verify") /\ UNCHANGED <<attempt, final>>
    BY <1>7, <2>1, RunContainers DEF Open, Between
  <2>2. CASE Leave(t, TRUE) /\ UNCHANGED containers
    BY <1>2, <1>7, <2>2, LeaveExits DEF Open, Between
  <2> QED BY <1>7, <2>1, <2>2 DEF Open
<1>8. CASE TimeOut(t)
  BY <1>8, TimeOutContainers
<1>9. CASE Tidy(t)
  BY <1>9, TidyContainers
<1> QED BY <1>1, <1>3, <1>4, <1>5, <1>6, <1>7, <1>8, <1>9 DEF Thread

-------------------------------------------------------------------------------
(* Ends of containers *)

(* The container a thread waits for ends: it had the name to itself.       *)
LEMMA AwaitedEnds ==
  ASSUME TypeOK, ContainersInv, NEW c \in containers, Awaits(c.name.task, c),
         containers' = containers \ {c}, Exits(c.name.task),
         UNCHANGED <<kind, gate, loop, runnerVars, crashed>>
  PROVE  ContainersInv'
<1> DEFINE t == c.name.task
<1>1. t \in Tasks /\ thread[t] \in {"install", "verify"}
  BY NameTypes DEF Awaits
<1>2. UniqueNames' /\ \A u \in Tasks : Comes(u)
  BY FewerNames DEF ContainersInv
<1>3. \A u \in Tasks : SameRunner(u)
  BY DEF SameRunner
<1>4. \A u \in Tasks \ {t} : SameThread(u)
  BY DEF Exits, SameThread
<1>5. PICK task \in Tasks : task = t
  BY <1>1
<1>6. ThreadInv(task)'
  <2>1. \A d \in Of(task)' : d \in Of(task) /\ ~Awaits(task, d)
    BY <1>5 DEF Of, Awaits, ContainersInv, UniqueNames
  <2> QED BY <1>1, <1>2, <1>5, <2>1, ThreadRest DEF ContainersInv, Exits
<1>7. SweepInv(task)'
  BY <1>2, <1>3, SweepFrame DEF ContainersInv
<1> QED BY <1>2, <1>3, <1>4, <1>5, <1>6, <1>7, OneTask

LEMMA EndsContainers ==
  ASSUME TypeOK, ContainersInv, NEW c \in containers, NEW ok \in BOOLEAN,
         InstallEnds(c, ok) \/ VerifyEnds(c, ok)
  PROVE  ContainersInv'
<1>1. /\ containers' = containers \ {c}
      /\ UNCHANGED <<kind, gate, loop, runnerVars, crashed>>
      /\ \/ ~Awaits(c.name.task, c) /\ UNCHANGED <<thread, attempt, final>>
         \/ Awaits(c.name.task, c) /\ Exits(c.name.task)
  <2>1. c.name.task \in Tasks
    BY NameTypes
  <2>2. CASE InstallEnds(c, ok)
    BY <2>1, <2>2, MoveExits, FailAttemptExits DEF InstallEnds
  <2>3. CASE VerifyEnds(c, ok)
    BY <2>1, <2>3, LeaveExits DEF VerifyEnds
  <2> QED BY <2>2, <2>3
<1>2. CASE UNCHANGED <<thread, attempt, final>>
  <2>1. UniqueNames' /\ \A u \in Tasks : Comes(u)
    BY <1>1, FewerNames DEF ContainersInv
  <2>2. \A u \in Tasks : SameThread(u) /\ SameRunner(u)
    BY <1>1, <1>2 DEF SameThread, SameRunner
  <2> QED BY <2>1, <2>2, ThreadFrame, SweepFrame DEF ContainersInv
<1> QED BY <1>1, <1>2, AwaitedEnds

-------------------------------------------------------------------------------
(* Steps of the runner *)

LEMMA RemoveContainers ==
  ASSUME TypeOK, ContainersInv, NEW t \in Tasks, Remove(t)
  PROVE  ContainersInv'
<1> DEFINE gone == {c \in Of(t) : c.name \in listed[t]}
<1>1. /\ t \in looked /\ containers' = containers \ gone
      /\ UNCHANGED <<kind, gate, loop, unswept, crashed>>
      /\ runner' = [runner EXCEPT ![t] = After(@)]
      /\ looked' = looked \ {t} /\ listed' = [listed EXCEPT ![t] = {}]
      /\ \/ (\A c \in gone : ~Awaits(t, c)) /\ UNCHANGED <<thread, attempt, final>>
         \/ /\ thread[t] \in {"install", "verify"} /\ Exits(t)
            /\ \E c \in gone : Awaits(t, c)
  BY LeaveExits, FailAttemptExits DEF Remove
<1>2. UniqueNames' /\ \A u \in Tasks : Comes(u)
  BY <1>1, FewerNames DEF ContainersInv
<1>3. \A u \in Tasks \ {t} : SameThread(u) /\ SameRunner(u)
  BY <1>1 DEF SameThread, SameRunner, Exits, TypeOK
<1>4. ThreadInv(t)'
  <2>1. CASE UNCHANGED <<thread, attempt, final>>
    <3>1. SameThread(t)
      BY <1>1, <2>1 DEF SameThread
    <3> QED BY <1>2, <3>1, ThreadFrame DEF ContainersInv
  <2>2. CASE /\ thread[t] \in {"install", "verify"} /\ Exits(t)
             /\ \E c \in gone : Awaits(t, c)
    <3>1. \A d \in Of(t)' : d \in Of(t) /\ ~Awaits(t, d)
      BY <1>1, <2>2 DEF Of, Awaits
    <3> QED BY <1>1, <1>2, <2>2, <3>1, ThreadRest DEF ContainersInv, Exits
  <2> QED BY <1>1, <2>1, <2>2
<1>5. SweepInv(t)'
  <2>1. \A c \in Of(t)' : c \in Of(t) /\ c.late
    BY <1>1 DEF ContainersInv, SweepInv, Of
  <2>2. runner'[t] \in {"ended", "tidying"} /\ t \notin looked'
    BY <1>1 DEF After, TypeOK
  <2> QED BY <2>1, <2>2 DEF SweepInv
<1> QED BY <1>2, <1>3, <1>4, <1>5, OneTask

LEMMA RunnerContainers ==
  ASSUME TypeOK, ContainersInv, NEW t \in Tasks,
         \/ GraphEnds(t) \/ Interrupt(t) \/ List(t) \/ CleanupFails(t) \/ CleanWorkspace(t)
  PROVE  ContainersInv'
<1>1. UNCHANGED <<kind, thread, gate, loop, attempt, final, containers, crashed>>
  BY DEF GraphEnds, Interrupt, List, CleanupFails, CleanWorkspace
<1>2. UniqueNames' /\ \A u \in Tasks : Comes(u)
  BY <1>1, SameNames DEF ContainersInv
<1>3. \A u \in Tasks : SameThread(u)
  BY <1>1 DEF SameThread
<1>4. \A u \in Tasks \ {t} : SameRunner(u)
  BY DEF GraphEnds, Interrupt, List, CleanupFails, CleanWorkspace, SameRunner, TypeOK
<1>5. Of(t)' = Of(t) /\ SweepInv(t) /\ ThreadInv(t)'
  BY <1>1, <1>2, <1>3, ThreadFrame DEF Of, ContainersInv
<1>6. SweepInv(t)'
  <2>1. CASE GraphEnds(t) \/ Interrupt(t)
    <3>1. runner[t] = "running" /\ runner'[t] \in {"cancelled", "ended"} /\ looked' = looked
      BY <2>1 DEF GraphEnds, Interrupt, TypeOK
    <3> QED BY <1>5, <3>1 DEF SweepInv
  <2>2. CASE List(t)
    <3>1. /\ runner'[t] = runner[t] /\ runner[t] \in {"cancelled", "ended"}
          /\ listed'[t] = {c.name : c \in Of(t)}
      BY <2>2 DEF List, TypeOK
    <3> QED BY <1>5, <3>1 DEF SweepInv
  <2>3. CASE CleanupFails(t)
    <3>1. /\ t \notin looked' /\ runner'[t] # "running"
          /\ runner'[t] \in {"tidying", "over"} => t \in unswept'
      BY <2>3 DEF CleanupFails, After, TypeOK
    <3> QED BY <1>5, <3>1 DEF SweepInv
  <2>4. CASE CleanWorkspace(t)
    <3>1. /\ runner[t] = "tidying" /\ runner'[t] = "over"
          /\ UNCHANGED <<listed, looked, unswept>>
      BY <2>4 DEF CleanWorkspace, TypeOK
    <3> QED BY <1>5, <3>1 DEF SweepInv
  <2> QED BY <2>1, <2>2, <2>3, <2>4
<1> QED BY <1>2, <1>3, <1>4, <1>5, <1>6, OneTask

LEMMA CrashContainers ==
  ASSUME TypeOK, ContainersInv, NEW t \in Tasks, Crash(t)
  PROVE  ContainersInv'
<1>1. /\ containers' = {[c EXCEPT !.late = @ /\ c.name.task # t] : c \in containers}
      /\ UNCHANGED <<kind, gate>>
      /\ thread'[t] = "idle" /\ t \notin final' /\ t \in crashed'
      /\ runner'[t] = "running" /\ t \notin looked'
      /\ \A u \in Tasks \ {t} : SameThread(u) /\ SameRunner(u)
  BY DEF Crash, SameThread, SameRunner, TypeOK
<1>2. ASSUME NEW c \in containers'
      PROVE  \E b \in containers :
               /\ c = [b EXCEPT !.late = @ /\ b.name.task # t]
               /\ c.name = b.name /\ c.late = (b.late /\ b.name.task # t)
  <2>1. PICK b \in containers : c = [b EXCEPT !.late = @ /\ b.name.task # t]
    BY <1>1
  <2>2. b \in Containers
    BY DEF TypeOK
  <2> QED BY <2>1, <2>2 DEF Containers
<1>3. UniqueNames'
  BY <1>2 DEF UniqueNames, ContainersInv
<1>4. \A u \in Tasks \ {t} : Comes(u)
  <2> SUFFICES ASSUME NEW u \in Tasks \ {t}, NEW c \in Of(u)'
               PROVE  \E d \in Of(u) : d.name = c.name /\ d.late = c.late
    BY <1>3 DEF Comes
  <2>1. PICK b \in containers : c.name = b.name /\ c.late = (b.late /\ b.name.task # t)
    BY <1>2 DEF Of
  <2>2. b.name.task = u /\ b.late \in BOOLEAN
    BY <2>1, NameTypes DEF Of
  <2> QED BY <2>1, <2>2 DEF Of
<1>5. \A c \in Of(t)' : ~c.late
  BY <1>2 DEF Of
<1>6. ThreadInv(t)'
  BY <1>1, <1>5 DEF ThreadInv, ContainersInv
<1>7. SweepInv(t)'
  BY <1>1, <1>5 DEF SweepInv
<1> QED BY <1>1, <1>3, <1>4, <1>6, <1>7, OneTask

-------------------------------------------------------------------------------
(* What docker and a cleanup can rely on *)

LEMMA ContainersInvariant == Spec => [](TypeOK /\ ContainersInv)
<1>1. TypeOK /\ ContainersInv /\ [Next]_vars => ContainersInv'
  <2> SUFFICES ASSUME TypeOK, ContainersInv, [Next]_vars PROVE ContainersInv'
    OBVIOUS
  <2>1. CASE UNCHANGED vars
    <3>1. UniqueNames' /\ \A u \in Tasks : Comes(u)
      BY <2>1, SameNames DEF ContainersInv, vars
    <3>2. \A u \in Tasks : SameThread(u) /\ SameRunner(u)
      BY <2>1 DEF vars, SameThread, SameRunner
    <3> QED BY <3>1, <3>2, ThreadFrame, SweepFrame DEF ContainersInv
  <2>2. ASSUME NEW t \in Tasks, Runner(t) PROVE ContainersInv'
    BY <2>2, RemoveContainers, RunnerContainers DEF Runner
  <2> QED BY <2>1, <2>2, EnterContainers, ThreadContainers, EndsContainers, RunnerContainers,
             CrashContainers DEF Next
<1> QED BY <1>1, ContainersInit, TypeCorrect, PTL DEF Spec

(* For any tasks, loops, timeouts and faults: no container a gate gave up  *)
(* on has the name of one that is started later, but after a crash.        *)
THEOREM NamesFree == Spec => []NamesAreFree
<1>1. TypeOK /\ ContainersInv => NamesAreFree
  <2> SUFFICES ASSUME TypeOK, ContainersInv, NEW t \in Tasks, t \notin crashed,
                      NEW step \in {"install", "verify"}, thread[t] \in Between,
                      Taken(NameOf(t, step))
               PROVE  FALSE
    BY DEF NamesAreFree, Between
  <2>1. PICK c \in containers : c.name = NameOf(t, step)
    BY DEF Taken
  <2>2. c \in Of(t) /\ c.name.gate = gate[t] /\ c.name.loop = loop[t][gate[t]]
    BY <2>1 DEF Of, NameOf
  <2>3. GivenUp(t, c) /\ t \notin final
    BY <2>2, NotAwaited DEF ContainersInv, ThreadInv, Between
  <2> QED BY <2>2, <2>3 DEF GivenUp, Between
<1> QED BY <1>1, ContainersInvariant, PTL

(* For any tasks, loops, interruptions and crashes: after a cleanup that   *)
(* worked a task leaves at most one container, started when it was over.   *)
THEOREM CleanupSwept == Spec => []CleanupSweeps
<1>1. ContainersInv => CleanupSweeps
  <2> SUFFICES ASSUME ContainersInv, NEW t \in Tasks, runner[t] = "over", t \notin unswept
               PROVE  Cardinality(Of(t)) <= 1 /\ \A c \in Of(t) : c.late
    BY DEF CleanupSweeps
  <2>1. \A c \in Of(t) : c.late /\ \A d \in Of(t) : c = d
    BY DEF ContainersInv, ThreadInv, SweepInv
  <2>2. CASE Of(t) = {}
    BY <2>2, FS_EmptySet
  <2>3. CASE Of(t) # {}
    <3>1. PICK c \in Of(t) : Of(t) = {c}
      BY <2>1, <2>3
    <3>2. Cardinality({c}) = 1
      BY FS_Singleton
    <3> QED BY <2>1, <3>1, <3>2
  <2> QED BY <2>1, <2>2, <2>3
<1> QED BY <1>1, ContainersInvariant, PTL
===============================================================================
