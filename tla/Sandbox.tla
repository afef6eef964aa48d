------------------------------- MODULE Sandbox -------------------------------
(***************************************************************************)
(* The gates of both graphs that run containers: the coding arbiter, and   *)
(* the regression check and the verification of an edit.  A node's thread  *)
(* fills a directory of packages with an install container and then runs a *)
(* verify container over it, each through a docker client that may time    *)
(* out and leave its container running.  Tagged tasks share directories of *)
(* a cache.  At the end of a task the runner removes its containers and    *)
(* the workspace's packages, while the thread, which nothing stops, may    *)
(* still be in its gate.  Docker and pip are modelled as the gates use     *)
(* them.                                                                   *)
(***************************************************************************)
EXTENDS Integers, FiniteSets

CONSTANTS
  Tasks,       \* tasks that run at the same time
  Keys,        \* hashes of the requirements tagged tasks come with
  Kinds,       \* the mixes of tasks to look at
  MaxLoops,    \* loops of a gate that are looked at, for each kind of task
  Unlucky,     \* tasks that may be cut short or meet a fault
  FaultKinds,  \* the faults that may occur
  MaxFaults    \* bound on the number of faults

KindNames == {"tagged", "untagged", "editing", "absent"}

ASSUME SandboxAssumption ==
  /\ Kinds \subseteq [Tasks -> KindNames]
  /\ MaxLoops \in [KindNames -> Nat] /\ MaxFaults \in Nat

VARIABLES
  kind,        \* what each task is; it does not change
  thread,      \* where the thread of the node stands in its gate
  gate,        \* the gate the thread is in, or was in last
  key,         \* hash of the requirements on disk
  loop,        \* loops of each gate
  attempt,     \* install attempt
  final,       \* tasks whose last gate sends the graph to its end
  packages,    \* what is in each directory of packages
  marked,      \* directories with the marker of a finished install
  containers,  \* containers docker runs
  runner,      \* where the runner of each task stands
  listed,      \* names a cleanup found
  looked,      \* tasks whose cleanup has listed and not removed yet
  faults,      \* faults so far
  raced,       \* history: directories filled by two tasks since they were cleared
  interrupted, \* history: tasks cut short by a deadline or a cancellation
  unswept,     \* history: tasks whose last cleanup failed
  crashed,     \* history: tasks delivered again after a crash
  lost         \* history: tasks whose runner raised while it tidied up

gateVars   == <<thread, gate, key, loop, attempt, final>>
dirVars    == <<packages, marked, raced>>
runnerVars == <<runner, listed, looked, interrupted, unswept, lost>>
vars == <<kind, gateVars, dirVars, containers, runnerVars, faults, crashed>>

Gates   == {"sandbox", "regression"}
Filling == {"clear", "make", "start", "install", "mark"}
Checking == {"open", "verify"}
Places  == {"idle", "tidy"} \cup Filling \cup Checking
Stages  == {"running", "cancelled", "ended", "tidying", "over"}

(* Directories of packages: the entries of the cache, and the task's own   *)
(* below its workspace and below the copy the regression check makes.      *)
Dirs  == ({"cache"} \X Keys) \cup (Gates \X Tasks)
Names == [task : Tasks, gate : Gates, step : {"install", "verify"},
          loop : Nat, attempt : 1..2]
(* A container sees the directory it mounted unless that was removed; late *)
(* ones were started when their task was already over.                     *)
Containers == [name : Names, dir : Dirs, attached : BOOLEAN, late : BOOLEAN]

TypeOK ==
  /\ kind \in Kinds
  /\ thread \in [Tasks -> Places]
  /\ gate \in [Tasks -> Gates]
  /\ key \in [Tasks -> Keys]
  /\ loop \in [Tasks -> [Gates -> Nat]]
  /\ attempt \in [Tasks -> 1..2]
  /\ final \in SUBSET Tasks
  /\ packages \in [Dirs -> {"none", "partial", "full"}]
  /\ marked \in SUBSET Dirs
  /\ containers \in SUBSET Containers
  /\ runner \in [Tasks -> Stages]
  /\ listed \in [Tasks -> SUBSET Names]
  /\ looked \in SUBSET Tasks
  /\ faults \in 0..MaxFaults
  /\ raced \in SUBSET Dirs
  /\ interrupted \in SUBSET Tasks /\ unswept \in SUBSET Tasks
  /\ crashed \in SUBSET Tasks /\ lost \in SUBSET Tasks

Init ==
  /\ kind \in Kinds
  /\ thread = [t \in Tasks |-> "idle"]
  /\ gate = [t \in Tasks |-> "sandbox"]
  /\ \E k \in Keys : key = [t \in Tasks |-> k]
  /\ loop = [t \in Tasks |-> [g \in Gates |-> 0]]
  /\ attempt = [t \in Tasks |-> 1]
  /\ packages = [d \in Dirs |-> "none"]
  /\ runner = [t \in Tasks |-> "running"]
  /\ listed = [t \in Tasks |-> {}]
  /\ final = {} /\ marked = {} /\ containers = {} /\ looked = {} /\ faults = 0
  /\ raced = {} /\ interrupted = {} /\ unswept = {} /\ crashed = {} /\ lost = {}

Fault(fault, t) ==
  /\ fault \in FaultKinds /\ t \in Unlucky
  /\ faults < MaxFaults
  /\ faults' = faults + 1

-------------------------------------------------------------------------------
(* Directories and names *)

Cached(t, g) == kind[t] = "tagged" /\ g = "sandbox"
DirFor(t, g, k) == IF Cached(t, g) THEN <<"cache", k>> ELSE <<g, t>>
Dir(t) == DirFor(t, gate[t], key[t])

Fillers(d) == {t \in Tasks : thread[t] \in Filling /\ Dir(t) = d}
Users(d)   == {t \in Tasks : thread[t] \in Filling \cup Checking /\ Dir(t) = d}

(* A mount of the workspace survives the removal of the packages below it; *)
(* a mount of the removed directory does not.                              *)
Mounted(d) == d[1] # "sandbox"
Without(d) == {[c EXCEPT !.attached = @ /\ ~(Mounted(d) /\ c.dir = d)] : c \in containers}

NameOf(t, step) ==
  [task |-> t, gate |-> gate[t], step |-> step, loop |-> loop[t][gate[t]],
   attempt |-> IF step = "install" THEN attempt[t] ELSE 1]
Taken(name)  == \E c \in containers : c.name = name
Of(t)        == {c \in containers : c.name.task = t}
Awaits(t, c) == thread[t] = c.name.step /\ c.name = NameOf(t, c.name.step)

-------------------------------------------------------------------------------
(* The thread of the node *)

Move(t, place) == thread' = [thread EXCEPT ![t] = place]

(* Mutant: the arbiter runs again after an infra fault. *)
LeaveAgain(t, isFinal) ==
  /\ Move(t, IF gate[t] = "regression" THEN "tidy" ELSE "idle")
  /\ attempt' = [attempt EXCEPT ![t] = 1]
  /\ UNCHANGED final

(* The gate returns.  A verdict that is final sends the graph to FINISH;   *)
(* the regression check has none, and removes its copy on the way out.     *)
Leave(t, isFinal) ==
  /\ Move(t, IF gate[t] = "regression" THEN "tidy" ELSE "idle")
  /\ attempt' = [attempt EXCEPT ![t] = 1]
  /\ final' = IF isFinal /\ gate[t] = "sandbox" THEN final \cup {t} ELSE final

Attempts(t) == IF kind[t] = "editing" THEN 1 ELSE 2

(* Mutant: attempts are not limited. *)
FailAttemptOnceMore(t) ==
  /\ attempt' = [attempt EXCEPT ![t] = @ + 1]
  /\ Move(t, "clear")
  /\ UNCHANGED final

(* An install that fails is tried once more by the coding arbiter, and is  *)
(* an infra fault then. *)
FailAttempt(t) ==
  IF attempt[t] < Attempts(t)
  THEN /\ attempt' = [attempt EXCEPT ![t] = @ + 1]
       /\ Move(t, "clear")
       /\ UNCHANGED final
  ELSE Leave(t, TRUE)

(* Mutant: any directory that is there is taken for a hit. *)
EnterAnyEntry(t, g, k, replan) ==
  LET d   == DirFor(t, g, k)
      hit == Cached(t, g) /\ packages[d] # "none"
  IN /\ kind[t] # "absent" /\ runner[t] = "running"
     /\ thread[t] = "idle" /\ t \notin final
     /\ g = "regression" => kind[t] = "editing"
     /\ k # key[t] => kind[t] = "tagged"
     /\ replan => kind[t] # "editing" /\ loop[t][g] > 0
     /\ replan \/ loop[t][g] < MaxLoops[kind[t]]
     /\ loop' = [loop EXCEPT ![t][g] = IF replan THEN 1 ELSE @ + 1]
     /\ gate' = [gate EXCEPT ![t] = g]
     /\ key' = [key EXCEPT ![t] = k]
     /\ Move(t, IF hit THEN "open" ELSE "clear")
     /\ raced' = IF ~hit /\ Fillers(d) # {} THEN raced \cup {d} ELSE raced
  /\ UNCHANGED <<kind, attempt, final, packages, marked, containers, runnerVars, faults,
                 crashed>>

(* The graph reaches gate g with requirements k on disk.  A replan of the  *)
(* coding graph starts the loops over.  A marked entry of the cache is a   *)
(* hit, and there is nothing to install.                                   *)
Enter(t, g, k, replan) ==
  LET d   == DirFor(t, g, k)
      hit == Cached(t, g) /\ d \in marked
  IN /\ kind[t] # "absent" /\ runner[t] = "running"
     /\ thread[t] = "idle" /\ t \notin final
     /\ g = "regression" => kind[t] = "editing"
     /\ k # key[t] => kind[t] = "tagged"
     /\ replan => kind[t] # "editing" /\ loop[t][g] > 0
     /\ replan \/ loop[t][g] < MaxLoops[kind[t]]
     /\ loop' = [loop EXCEPT ![t][g] = IF replan THEN 1 ELSE @ + 1]
     /\ gate' = [gate EXCEPT ![t] = g]
     /\ key' = [key EXCEPT ![t] = k]
     /\ Move(t, IF hit THEN "open" ELSE "clear")
     /\ raced' = IF ~hit /\ Fillers(d) # {} THEN raced \cup {d} ELSE raced
  /\ UNCHANGED <<kind, attempt, final, packages, marked, containers, runnerVars, faults,
                 crashed>>

Clear(t) ==
  /\ thread[t] = "clear"
  /\ packages' = [packages EXCEPT ![Dir(t)] = "none"]
  /\ marked' = marked \ {Dir(t)}
  /\ containers' = Without(Dir(t))
  /\ raced' = IF Users(Dir(t)) = {t} THEN raced \ {Dir(t)} ELSE raced
  /\ Move(t, IF Cached(t, gate[t]) THEN "make" ELSE "start")
  /\ UNCHANGED <<kind, gate, key, loop, attempt, final, runnerVars, faults, crashed>>

(* Somebody else writes or removes what the thread is about to remove. *)
Contended(t) ==
  \/ \E u \in Fillers(Dir(t)) \ {t} : thread[u] \in {"clear", "make", "mark"}
  \/ \E c \in containers :
       \/ c.attached /\ c.dir = Dir(t)
       \/ c.name.task = t /\ c.name.gate = gate[t]
  \/ runner[t] = "tidying"

(* The removal raises half way: the gate takes it for an infra fault, but  *)
(* the regression check clears its copy before it catches anything.        *)
ClearRaises(t) ==
  /\ thread[t] = "clear"
  /\ Contended(t)
  /\ packages' = [packages EXCEPT ![Dir(t)] = IF @ = "none" THEN @ ELSE "partial"]
  /\ marked' \in {marked, marked \ {Dir(t)}}
  /\ \/ Leave(t, TRUE)
     \/ /\ gate[t] = "regression"
        /\ Move(t, "idle")
        /\ final' = final \cup {t}
        /\ UNCHANGED attempt
  /\ UNCHANGED <<kind, gate, key, loop, containers, raced, runnerVars, faults, crashed>>

(* A directory that is not there is made, by makedirs or by docker. *)
Made(d) == packages' = [packages EXCEPT ![d] = IF @ = "none" THEN "partial" ELSE @]

Make(t) ==
  /\ thread[t] = "make"
  /\ Made(Dir(t))
  /\ Move(t, "start")
  /\ UNCHANGED <<kind, gate, key, loop, attempt, final, marked, raced, containers, runnerVars,
                 faults, crashed>>

(* docker run: refused when a container has the name. *)
Run(t, step) ==
  /\ ~Taken(NameOf(t, step))
  /\ containers' = containers \cup
       {[name |-> NameOf(t, step), dir |-> Dir(t), attached |-> TRUE,
         late |-> runner[t] # "running"]}
  /\ Made(Dir(t))
  /\ Move(t, step)

Start(t) ==
  /\ thread[t] = "start"
  /\ \/ Run(t, "install") /\ UNCHANGED <<attempt, final>>
     \/ /\ Taken(NameOf(t, "install"))
        /\ FailAttempt(t)
        /\ UNCHANGED <<packages, containers>>
  /\ UNCHANGED <<kind, gate, key, loop, marked, raced, runnerVars, faults, crashed>>

Mark(t) ==
  /\ thread[t] = "mark"
  /\ \/ /\ packages[Dir(t)] # "none"
        /\ marked' = marked \cup {Dir(t)}
        /\ Move(t, "open")
        /\ UNCHANGED <<attempt, final>>
     \/ /\ packages[Dir(t)] = "none"
        /\ Leave(t, TRUE)
        /\ UNCHANGED marked
  /\ UNCHANGED <<kind, gate, key, loop, packages, raced, containers, runnerVars, faults,
                 crashed>>

Open(t) ==
  /\ thread[t] = "open"
  /\ \/ Run(t, "verify") /\ UNCHANGED <<attempt, final>>
     \/ /\ Taken(NameOf(t, "verify"))
        /\ Leave(t, TRUE)
        /\ UNCHANGED <<packages, containers>>
  /\ UNCHANGED <<kind, gate, key, loop, marked, raced, runnerVars, faults, crashed>>

(* Mutant: the docker client is waited for without a limit. *)
TimeOutWhenGone(t) ==
  /\ thread[t] \in {"install", "verify"}
  /\ ~Taken(NameOf(t, thread[t]))
  /\ Leave(t, TRUE)
  /\ UNCHANGED <<kind, gate, key, loop, dirVars, containers, runnerVars, faults, crashed>>

(* subprocess.run gives up on the docker client; the container goes on. *)
TimeOut(t) ==
  /\ thread[t] \in {"install", "verify"}
  /\ Leave(t, TRUE)
  /\ UNCHANGED <<kind, gate, key, loop, dirVars, containers, runnerVars, faults, crashed>>

(* The regression check removes its copy, whatever happened; a removal     *)
(* that raises is an error of the node.                                    *)
Tidy(t) ==
  /\ thread[t] = "tidy"
  /\ packages' = [packages EXCEPT ![Dir(t)] = "none"]
  /\ containers' = Without(Dir(t))
  /\ Move(t, "idle")
  /\ \/ UNCHANGED final
     \/ (\E c \in containers : c.attached /\ c.dir = Dir(t)) /\ final' = final \cup {t}
  /\ UNCHANGED <<kind, gate, key, loop, attempt, marked, raced, runnerVars, faults, crashed>>

Thread(t) ==
  \/ Clear(t) \/ ClearRaises(t) \/ Make(t) \/ Start(t) \/ Mark(t) \/ Open(t)
  \/ TimeOut(t) \/ Tidy(t)

-------------------------------------------------------------------------------
(* Containers *)

(* Mutant: the return code of the install is not looked at. *)
InstallEndsAnyCode(c, ok) ==
  LET t == c.name.task
      d == c.dir
  IN /\ c.name.step = "install"
     /\ containers' = containers \ {c}
     /\ packages' = IF c.attached
                    THEN [packages EXCEPT ![d] = IF ok \/ @ = "full" THEN "full" ELSE "partial"]
                    ELSE packages
     /\ IF Awaits(t, c) THEN Move(t, IF Cached(t, gate[t]) THEN "mark" ELSE "open")
                        ELSE UNCHANGED thread
  /\ UNCHANGED <<kind, gate, key, loop, attempt, final, marked, raced, runnerVars, faults,
                 crashed>>

(* pip is done, and the docker client of the thread that waits returns. *)
InstallEnds(c, ok) ==
  LET t == c.name.task
      d == c.dir
  IN /\ c.name.step = "install"
     /\ containers' = containers \ {c}
     /\ packages' = IF c.attached
                    THEN [packages EXCEPT ![d] = IF ok \/ @ = "full" THEN "full" ELSE "partial"]
                    ELSE packages
     /\ \/ /\ ~Awaits(t, c)
           /\ UNCHANGED <<thread, attempt, final>>
        \/ /\ Awaits(t, c) /\ ok
           /\ Move(t, IF Cached(t, gate[t]) THEN "mark" ELSE "open")
           /\ UNCHANGED <<attempt, final>>
        \/ /\ Awaits(t, c) /\ ~ok
           /\ FailAttempt(t)
  /\ UNCHANGED <<kind, gate, key, loop, marked, raced, runnerVars, faults, crashed>>

(* The checks are done: pass and infra faults are final, faults of the     *)
(* code and of the tests are not. *)
VerifyEnds(c, isFinal) ==
  LET t == c.name.task
  IN /\ c.name.step = "verify"
     /\ containers' = containers \ {c}
     /\ IF Awaits(t, c) THEN Leave(t, isFinal) ELSE UNCHANGED <<thread, attempt, final>>
  /\ UNCHANGED <<kind, gate, key, loop, dirVars, runnerVars, faults, crashed>>

-------------------------------------------------------------------------------
(* The runner *)

(* Mutant: containers are cleaned up after an interruption only. *)
GraphEndsUnswept(t) ==
  /\ kind[t] # "absent" /\ runner[t] = "running" /\ thread[t] = "idle"
  /\ runner' = [runner EXCEPT ![t] = "tidying"]
  /\ UNCHANGED <<kind, gateVars, dirVars, containers, listed, looked, interrupted, unswept,
                 lost, faults, crashed>>

(* The graph ends between two gates. *)
GraphEnds(t) ==
  /\ kind[t] # "absent" /\ runner[t] = "running" /\ thread[t] = "idle"
  /\ runner' = [runner EXCEPT ![t] = "ended"]
  /\ UNCHANGED <<kind, gateVars, dirVars, containers, listed, looked, interrupted, unswept,
                 lost, faults, crashed>>

(* A cancellation or the deadline: the graph is over, the node's thread is *)
(* not.  After a cancellation there is a cleanup more. *)
Interrupt(t) ==
  /\ kind[t] # "absent" /\ runner[t] = "running" /\ t \in Unlucky
  /\ \E stage \in {"cancelled", "ended"} : runner' = [runner EXCEPT ![t] = stage]
  /\ interrupted' = interrupted \cup {t}
  /\ UNCHANGED <<kind, gateVars, dirVars, containers, listed, looked, unswept, lost, faults,
                 crashed>>

After(stage) == IF stage = "cancelled" THEN "ended" ELSE "tidying"

(* Mutant: the containers of the current loop alone are listed. *)
ListLoop(t) ==
  /\ runner[t] \in {"cancelled", "ended"} /\ t \notin looked
  /\ listed' = [listed EXCEPT ![t] = {c.name : c \in {x \in Of(t) :
                                                      x.name.loop = loop[t][x.name.gate]}}]
  /\ looked' = looked \cup {t}
  /\ UNCHANGED <<kind, gateVars, dirVars, containers, runner, interrupted, unswept, lost,
                 faults, crashed>>

(* cleanup_sandbox_for_task: docker ps, then docker rm of what it named. *)
List(t) ==
  /\ runner[t] \in {"cancelled", "ended"} /\ t \notin looked
  /\ listed' = [listed EXCEPT ![t] = {c.name : c \in Of(t)}]
  /\ looked' = looked \cup {t}
  /\ UNCHANGED <<kind, gateVars, dirVars, containers, runner, interrupted, unswept, lost,
                 faults, crashed>>

(* docker does not answer; the error is swallowed. *)
CleanupFails(t) ==
  /\ runner[t] \in {"cancelled", "ended"}
  /\ Fault("docker", t)
  /\ runner' = [runner EXCEPT ![t] = After(@)]
  /\ looked' = looked \ {t}
  /\ unswept' = IF runner[t] = "ended" THEN unswept \cup {t} ELSE unswept
  /\ UNCHANGED <<kind, gateVars, dirVars, containers, listed, interrupted, lost, crashed>>

(* A client whose container is removed returns with an error. *)
Remove(t) ==
  LET gone == {c \in Of(t) : c.name \in listed[t]}
  IN /\ t \in looked
     /\ containers' = containers \ gone
     /\ \/ /\ \A c \in gone : ~Awaits(t, c)
           /\ UNCHANGED <<thread, attempt, final>>
        \/ /\ thread[t] = "install" /\ \E c \in gone : Awaits(t, c)
           /\ FailAttempt(t)
        \/ /\ thread[t] = "verify" /\ \E c \in gone : Awaits(t, c)
           /\ Leave(t, TRUE)
     /\ runner' = [runner EXCEPT ![t] = After(@)]
     /\ looked' = looked \ {t}
     /\ listed' = [listed EXCEPT ![t] = {}]
  /\ UNCHANGED <<kind, gate, key, loop, dirVars, interrupted, unswept, lost, faults, crashed>>

(* cleanup_workspace_deps; the removal raises when somebody still writes   *)
(* in the workspace, and the result of the task is lost with it.           *)
CleanWorkspace(t) ==
  /\ runner[t] = "tidying"
  /\ packages' = [packages EXCEPT ![<<"sandbox", t>>] = "none"]
  /\ runner' = [runner EXCEPT ![t] = "over"]
  /\ \/ UNCHANGED lost
     \/ /\ \/ gate[t] = "sandbox" /\ thread[t] # "idle"
           \/ \E c \in Of(t) : c.name.gate = "sandbox"
        /\ lost' = lost \cup {t}
  /\ UNCHANGED <<kind, gateVars, marked, raced, containers, listed, looked, interrupted,
                 unswept, faults, crashed>>

(* The worker's process dies, and the job is delivered again.  Containers  *)
(* and directories survive it.                                             *)
Crash(t) ==
  /\ kind[t] # "absent"
  /\ Fault("crash", t)
  /\ thread' = [thread EXCEPT ![t] = "idle"]
  /\ loop' = [loop EXCEPT ![t] = [g \in Gates |-> 0]]
  /\ attempt' = [attempt EXCEPT ![t] = 1]
  /\ final' = final \ {t}
  /\ containers' = {[c EXCEPT !.late = @ /\ c.name.task # t] : c \in containers}
  /\ runner' = [runner EXCEPT ![t] = "running"]
  /\ listed' = [listed EXCEPT ![t] = {}]
  /\ looked' = looked \ {t}
  /\ interrupted' = interrupted \ {t} /\ unswept' = unswept \ {t} /\ lost' = lost \ {t}
  /\ crashed' = crashed \cup {t}
  /\ UNCHANGED <<kind, gate, key, dirVars>>

Runner(t) == List(t) \/ Remove(t) \/ CleanWorkspace(t)

Next ==
  \/ \E t \in Tasks, g \in Gates, k \in Keys, replan \in BOOLEAN : Enter(t, g, k, replan)
  \/ \E t \in Tasks : Thread(t) \/ GraphEnds(t) \/ Interrupt(t) \/ Runner(t)
                        \/ CleanupFails(t) \/ Crash(t)
  \/ \E c \in containers, ok \in BOOLEAN : InstallEnds(c, ok) \/ VerifyEnds(c, ok)

Spec == Init /\ [][Next]_vars

(* The thread runs, and its waits for containers have time limits; nothing *)
(* is assumed of the containers.                                           *)
FairSpec == Spec /\ \A t \in Tasks : WF_vars(Thread(t))

-------------------------------------------------------------------------------
(* Properties *)

(* A marked entry holds all its packages, whatever timed out, crashed or   *)
(* was removed while it was filled, unless two tasks filled it at once.    *)
MarkedIsComplete == \A d \in marked \ raced : packages[d] = "full"

(* A task that is checked sees the packages it installed or hit, so that   *)
(* the coder is not blamed for missing ones, unless two tasks filled the   *)
(* entry at once.                                                          *)
ChecksSeePackages ==
  \A t \in Tasks :
    thread[t] \in Checking /\ runner[t] = "running" /\ Dir(t) \notin raced =>
      /\ packages[Dir(t)] = "full"
      /\ \A c \in containers : Awaits(t, c) => c.attached

(* After a cleanup that worked a task leaves at most one container behind: *)
(* one the node's thread started when the task was already over.           *)
CleanupSweeps ==
  \A t \in Tasks :
    runner[t] = "over" /\ t \notin unswept =>
      Cardinality(Of(t)) <= 1 /\ \A c \in Of(t) : c.late

(* Containers a gate gave up on do not take the names of later ones:       *)
(* docker refuses a name only to a job delivered again after a crash.      *)
NamesAreFree ==
  \A t \in Tasks :
    /\ thread[t] = "start" /\ Taken(NameOf(t, "install")) => t \in crashed
    /\ thread[t] = "open" /\ Taken(NameOf(t, "verify")) => t \in crashed

(* The result of a task that ran to its end is not lost in the tidying up, *)
(* whatever containers its gates left, as long as docker answers.          *)
ResultSurvives == lost \subseteq interrupted \cup unswept

(* Every gate returns, though its containers may hang for ever.            *)
GateReturns == \A t \in Tasks : thread[t] # "idle" ~> thread[t] = "idle"
===============================================================================
