---------------------------- MODULE SandboxProofs ----------------------------
(***************************************************************************)
(* Proofs about Sandbox: its type invariant, that a marked entry of the    *)
(* cache holds all its packages, that a task that is checked sees the      *)
(* packages it installed, and that tidying up loses no result.             *)
(***************************************************************************)
EXTENDS Sandbox, TLAPS

-------------------------------------------------------------------------------
(* Directories and names *)

LEMMA DirTypes ==
  ASSUME TypeOK, NEW t \in Tasks
  PROVE  /\ Dir(t) \in Dirs
         /\ \A g \in Gates, k \in Keys : DirFor(t, g, k) \in Dirs
         /\ <<"sandbox", t>> \in Dirs
         /\ \A step \in {"install", "verify"} : NameOf(t, step) \in Names
BY DEF TypeOK, Dir, DirFor, Dirs, Gates, NameOf, Names

LEMMA WithoutType == ASSUME TypeOK, NEW d PROVE Without(d) \in SUBSET Containers
<1> SUFFICES ASSUME NEW c \in containers
             PROVE  [c EXCEPT !.attached = @ /\ ~(Mounted(d) /\ c.dir = d)] \in Containers
  BY DEF Without
<1>1. c \in Containers
  BY DEF TypeOK
<1>2. (c.attached /\ ~(Mounted(d) /\ c.dir = d)) \in BOOLEAN
  BY DEF Mounted
<1> QED BY <1>1, <1>2 DEF Containers

(* How an attempt or a gate ends keeps the types of what it changes.       *)
EndType ==
  /\ thread' \in [Tasks -> Places]
  /\ attempt' \in [Tasks -> 1..2]
  /\ final' \in SUBSET Tasks

LEMMA LeaveType ==
  ASSUME TypeOK, NEW t \in Tasks, NEW isFinal, Leave(t, isFinal)
  PROVE  EndType
BY DEF TypeOK, Leave, Move, Places, EndType

LEMMA FailAttemptType ==
  ASSUME TypeOK, NEW t \in Tasks, FailAttempt(t)
  PROVE  EndType
<1>1. CASE attempt[t] < Attempts(t)
  <2>1. attempt[t] + 1 \in 1..2
    BY <1>1 DEF TypeOK, Attempts
  <2>2. attempt' \in [Tasks -> 1..2]
    BY <1>1, <2>1 DEF FailAttempt, TypeOK
  <2>3. thread' \in [Tasks -> Places] /\ final' \in SUBSET Tasks
    BY <1>1 DEF FailAttempt, TypeOK, Move, Places, Filling
  <2> QED BY <2>2, <2>3 DEF EndType
<1>2. CASE ~(attempt[t] < Attempts(t))
  BY <1>2, LeaveType DEF FailAttempt
<1> QED BY <1>1, <1>2

LEMMA MoveType ==
  ASSUME TypeOK, NEW t \in Tasks, NEW place \in Places, Move(t, place)
  PROVE  thread' \in [Tasks -> Places]
BY DEF TypeOK, Move

LEMMA MadeType ==
  ASSUME TypeOK, NEW d, Made(d)
  PROVE  packages' \in [Dirs -> {"none", "partial", "full"}]
BY DEF TypeOK, Made

LEMMA RunType ==
  ASSUME TypeOK, NEW t \in Tasks, NEW step \in {"install", "verify"}, Run(t, step)
  PROVE  /\ containers' \in SUBSET Containers
         /\ packages' \in [Dirs -> {"none", "partial", "full"}]
         /\ thread' \in [Tasks -> Places]
<1>1. [name |-> NameOf(t, step), dir |-> Dir(t), attached |-> TRUE,
       late |-> runner[t] # "running"] \in Containers
  BY DirTypes DEF Containers
<1>2. containers \in SUBSET Containers
  BY DEF TypeOK
<1>3. containers' \in SUBSET Containers
  BY <1>1, <1>2 DEF Run
<1>4. packages' \in [Dirs -> {"none", "partial", "full"}]
  BY MadeType DEF Run
<1>5. step \in Places
  BY DEF Places, Filling, Checking
<1> QED BY <1>3, <1>4, <1>5, MoveType DEF Run

-------------------------------------------------------------------------------
(* Types *)

LEMMA TypeInit == Init => TypeOK
<1> SUFFICES ASSUME Init PROVE TypeOK
  OBVIOUS
<1>1. kind \in Kinds /\ key \in [Tasks -> Keys] /\ loop \in [Tasks -> [Gates -> Nat]]
  BY DEF Init
<1>2. /\ thread \in [Tasks -> Places] /\ gate \in [Tasks -> Gates]
      /\ attempt \in [Tasks -> 1..2] /\ runner \in [Tasks -> Stages]
      /\ listed \in [Tasks -> SUBSET Names]
      /\ packages \in [Dirs -> {"none", "partial", "full"}]
  BY DEF Init, Places, Gates, Stages
<1>3. /\ final \in SUBSET Tasks /\ marked \in SUBSET Dirs /\ containers \in SUBSET Containers
      /\ looked \in SUBSET Tasks /\ raced \in SUBSET Dirs /\ interrupted \in SUBSET Tasks
      /\ unswept \in SUBSET Tasks /\ crashed \in SUBSET Tasks /\ lost \in SUBSET Tasks
  BY DEF Init
<1>4. faults \in 0..MaxFaults
  BY SandboxAssumption DEF Init
<1> QED BY <1>1, <1>2, <1>3, <1>4 DEF TypeOK

LEMMA TypeEnter ==
  ASSUME TypeOK, NEW t \in Tasks, NEW g \in Gates, NEW k \in Keys, NEW replan \in BOOLEAN,
         Enter(t, g, k, replan)
  PROVE  TypeOK'
<1>1. thread' \in [Tasks -> Places]
  BY DEF TypeOK, Enter, Move, Places, Filling, Checking
<1>2. loop' \in [Tasks -> [Gates -> Nat]]
  BY DEF TypeOK, Enter
<1>3. gate' \in [Tasks -> Gates] /\ key' \in [Tasks -> Keys]
  BY DEF TypeOK, Enter
<1>4. raced' \in SUBSET Dirs
  BY DirTypes DEF TypeOK, Enter
<1> QED BY <1>1, <1>2, <1>3, <1>4 DEF TypeOK, Enter, runnerVars

LEMMA TypeThread ==
  ASSUME TypeOK, NEW t \in Tasks, Thread(t)
  PROVE  TypeOK'
<1> USE DEF runnerVars, dirVars
<1>1. CASE Clear(t)
  <2>1. thread' \in [Tasks -> Places]
    BY <1>1 DEF TypeOK, Clear, Move, Places, Filling
  <2>2. packages' \in [Dirs -> {"none", "partial", "full"}]
    BY <1>1 DEF TypeOK, Clear
  <2>3. containers' \in SUBSET Containers
    BY <1>1, WithoutType DEF Clear
  <2>4. marked' \in SUBSET Dirs /\ raced' \in SUBSET Dirs
    BY <1>1 DEF TypeOK, Clear
  <2> QED BY <1>1, <2>1, <2>2, <2>3, <2>4 DEF TypeOK, Clear
<1>2. CASE ClearRaises(t)
  <2>1. EndType
    BY <1>2, LeaveType DEF ClearRaises, EndType, TypeOK, Move, Places
  <2>2. packages' \in [Dirs -> {"none", "partial", "full"}] /\ marked' \in SUBSET Dirs
    BY <1>2 DEF TypeOK, ClearRaises
  <2> QED BY <1>2, <2>1, <2>2 DEF TypeOK, ClearRaises, EndType
<1>3. CASE Make(t)
  <2>1. thread' \in [Tasks -> Places]
    BY <1>3 DEF TypeOK, Make, Move, Places, Filling
  <2> QED BY <1>3, <2>1, MadeType DEF TypeOK, Make
<1>4. CASE Start(t)
  <2>1. CASE Run(t, "install") /\ UNCHANGED <<attempt, final>>
    BY <1>4, <2>1, RunType DEF TypeOK, Start
  <2>2. CASE FailAttempt(t) /\ UNCHANGED <<packages, containers>>
    <3>1. EndType
      BY <2>2, FailAttemptType
    <3> QED BY <1>4, <2>2, <3>1 DEF TypeOK, Start, EndType
  <2> QED BY <1>4, <2>1, <2>2 DEF Start
<1>5. CASE Mark(t)
  <2>1. marked' \in SUBSET Dirs
    <3>1. marked' = marked \/ marked' = marked \cup {Dir(t)}
      BY <1>5 DEF Mark
    <3>2. Dir(t) \in Dirs
      BY DirTypes
    <3>3. marked \in SUBSET Dirs
      BY DEF TypeOK
    <3> QED BY <3>1, <3>2, <3>3
  <2>2. EndType
    <3>1. CASE Move(t, "open") /\ UNCHANGED <<attempt, final>>
      BY <3>1 DEF TypeOK, Move, Places, Checking, EndType
    <3>2. CASE Leave(t, TRUE)
      BY <3>2, LeaveType
    <3> QED BY <1>5, <3>1, <3>2 DEF Mark
  <2> QED BY <1>5, <2>1, <2>2 DEF TypeOK, Mark, EndType
<1>6. CASE Open(t)
  <2>1. CASE Run(t, "verify") /\ UNCHANGED <<attempt, final>>
    BY <1>6, <2>1, RunType DEF TypeOK, Open
  <2>2. CASE Leave(t, TRUE) /\ UNCHANGED <<packages, containers>>
    <3>1. EndType
      BY <2>2, LeaveType
    <3> QED BY <1>6, <2>2, <3>1 DEF TypeOK, Open, EndType
  <2> QED BY <1>6, <2>1, <2>2 DEF Open
<1>7. CASE TimeOut(t)
  <2>1. EndType
    BY <1>7, LeaveType DEF TimeOut
  <2> QED BY <1>7, <2>1 DEF TypeOK, TimeOut, EndType
<1>8. CASE Tidy(t)
  <2>1. thread' \in [Tasks -> Places]
    BY <1>8 DEF TypeOK, Tidy, Move, Places
  <2>2. packages' \in [Dirs -> {"none", "partial", "full"}] /\ final' \in SUBSET Tasks
    BY <1>8 DEF TypeOK, Tidy
  <2>3. containers' \in SUBSET Containers
    BY <1>8, WithoutType DEF Tidy
  <2> QED BY <1>8, <2>1, <2>2, <2>3 DEF TypeOK, Tidy
<1> QED BY <1>1, <1>2, <1>3, <1>4, <1>5, <1>6, <1>7, <1>8 DEF Thread

LEMMA TypeContainers ==
  ASSUME TypeOK, NEW c \in containers, NEW ok \in BOOLEAN,
         InstallEnds(c, ok) \/ VerifyEnds(c, ok)
  PROVE  TypeOK'
<1> USE DEF runnerVars, dirVars
<1>0. c.name.task \in Tasks
  BY DEF TypeOK, Containers, Names
<1>1. CASE InstallEnds(c, ok)
  <2>1. packages' \in [Dirs -> {"none", "partial", "full"}]
    BY <1>1 DEF TypeOK, InstallEnds
  <2>2. EndType
    <3>1. CASE UNCHANGED <<thread, attempt, final>>
      BY <3>1 DEF TypeOK, EndType
    <3>2. CASE /\ Move(c.name.task, IF Cached(c.name.task, gate[c.name.task]) THEN "mark"
                                                                            ELSE "open")
               /\ UNCHANGED <<attempt, final>>
      BY <1>0, <3>2 DEF TypeOK, Move, Places, Filling, Checking, EndType
    <3>3. CASE FailAttempt(c.name.task)
      BY <1>0, <3>3, FailAttemptType
    <3> QED BY <1>1, <3>1, <3>2, <3>3 DEF InstallEnds
  <2> QED BY <1>1, <2>1, <2>2 DEF TypeOK, InstallEnds, EndType
<1>2. CASE VerifyEnds(c, ok)
  <2>1. EndType
    <3>1. CASE UNCHANGED <<thread, attempt, final>>
      BY <3>1 DEF TypeOK, EndType
    <3>2. CASE Leave(c.name.task, ok)
      BY <1>0, <3>2, LeaveType
    <3> QED BY <1>2, <3>1, <3>2 DEF VerifyEnds
  <2> QED BY <1>2, <2>1 DEF TypeOK, VerifyEnds, EndType
<1> QED BY <1>1, <1>2

LEMMA TypeRunner ==
  ASSUME TypeOK, NEW t \in Tasks,
         GraphEnds(t) \/ Interrupt(t) \/ Runner(t) \/ CleanupFails(t) \/ Crash(t)
  PROVE  TypeOK'
<1> USE DEF gateVars, dirVars, Stages
<1>1. CASE GraphEnds(t)
  BY <1>1 DEF TypeOK, GraphEnds
<1>2. CASE Interrupt(t)
  <2>1. runner' \in [Tasks -> Stages]
    BY <1>2 DEF TypeOK, Interrupt
  <2> QED BY <1>2, <2>1 DEF TypeOK, Interrupt
<1>3. CASE List(t)
  <2>1. {c.name : c \in Of(t)} \in SUBSET Names
    BY DEF TypeOK, Of, Containers
  <2>2. listed' \in [Tasks -> SUBSET Names]
    BY <1>3, <2>1 DEF TypeOK, List
  <2> QED BY <1>3, <2>2 DEF TypeOK, List
<1>4. CASE Remove(t)
  <2>1. EndType
    <3>1. CASE UNCHANGED <<thread, attempt, final>>
      BY <3>1 DEF TypeOK, EndType
    <3>2. CASE FailAttempt(t)
      BY <3>2, FailAttemptType
    <3>3. CASE Leave(t, TRUE)
      BY <3>3, LeaveType
    <3> QED BY <1>4, <3>1, <3>2, <3>3 DEF Remove
  <2>2. runner' \in [Tasks -> Stages]
    BY <1>4 DEF TypeOK, Remove, After
  <2>3. listed' \in [Tasks -> SUBSET Names]
    BY <1>4 DEF TypeOK, Remove
  <2> QED BY <1>4, <2>1, <2>2, <2>3 DEF TypeOK, Remove, EndType
<1>5. CASE CleanWorkspace(t)
  <2>1. packages' \in [Dirs -> {"none", "partial", "full"}]
    BY <1>5 DEF TypeOK, CleanWorkspace
  <2>2. runner' \in [Tasks -> Stages] /\ lost' \in SUBSET Tasks
    BY <1>5 DEF TypeOK, CleanWorkspace
  <2> QED BY <1>5, <2>1, <2>2 DEF TypeOK, CleanWorkspace
<1>6. CASE CleanupFails(t)
  <2>1. runner' \in [Tasks -> Stages] /\ unswept' \in SUBSET Tasks
    BY <1>6 DEF TypeOK, CleanupFails, After
  <2>2. faults' \in 0..MaxFaults
    BY <1>6, SandboxAssumption DEF TypeOK, CleanupFails, Fault
  <2> QED BY <1>6, <2>1, <2>2 DEF TypeOK, CleanupFails
<1>7. CASE Crash(t)
  <2>1. containers' \in SUBSET Containers
    <3>1. \A c \in containers : [c EXCEPT !.late = @ /\ c.name.task # t] \in Containers
      <4> SUFFICES ASSUME NEW c \in containers
                   PROVE  [c EXCEPT !.late = @ /\ c.name.task # t] \in Containers
        OBVIOUS
      <4>1. c \in Containers
        BY DEF TypeOK
      <4>2. (c.late /\ c.name.task # t) \in BOOLEAN
        OBVIOUS
      <4> QED BY <4>1, <4>2 DEF Containers
    <3> QED BY <1>7, <3>1 DEF Crash
  <2>2. faults' \in 0..MaxFaults
    BY <1>7, SandboxAssumption DEF TypeOK, Crash, Fault
  <2>3. /\ thread' \in [Tasks -> Places] /\ runner' \in [Tasks -> Stages]
        /\ listed' \in [Tasks -> SUBSET Names] /\ attempt' \in [Tasks -> 1..2]
    BY <1>7 DEF TypeOK, Crash, Places
  <2>4. loop' \in [Tasks -> [Gates -> Nat]]
    BY <1>7 DEF TypeOK, Crash
  <2>5. /\ final' \in SUBSET Tasks /\ looked' \in SUBSET Tasks /\ lost' \in SUBSET Tasks
        /\ interrupted' \in SUBSET Tasks /\ unswept' \in SUBSET Tasks
        /\ crashed' \in SUBSET Tasks
    BY <1>7 DEF TypeOK, Crash
  <2> QED BY <1>7, <2>1, <2>2, <2>3, <2>4, <2>5 DEF TypeOK, Crash
<1> QED BY <1>1, <1>2, <1>3, <1>4, <1>5, <1>6, <1>7 DEF Runner

LEMMA TypeStep == ASSUME TypeOK, [Next]_vars PROVE TypeOK'
<1>1. CASE \E t \in Tasks, g \in Gates, k \in Keys, replan \in BOOLEAN : Enter(t, g, k, replan)
  BY <1>1, TypeEnter
<1>2. CASE \E t \in Tasks : Thread(t)
  BY <1>2, TypeThread
<1>3. CASE \E t \in Tasks : \/ GraphEnds(t) \/ Interrupt(t) \/ Runner(t)
                           \/ CleanupFails(t) \/ Crash(t)
  BY <1>3, TypeRunner
<1>4. CASE \E c \in containers, ok \in BOOLEAN : InstallEnds(c, ok) \/ VerifyEnds(c, ok)
  BY <1>4, TypeContainers
<1>5. CASE UNCHANGED vars
  BY <1>5 DEF TypeOK, vars, gateVars, dirVars, runnerVars
<1> QED BY <1>1, <1>2, <1>3, <1>4, <1>5 DEF Next

(* Every variable keeps its type: the threads of the gates, the containers *)
(* they left and the runners that tidy up, for any number of tasks.        *)
THEOREM TypeCorrect == Spec => []TypeOK
BY TypeInit, TypeStep, PTL DEF Spec

-------------------------------------------------------------------------------
(* The invariant the properties of the packages rest on: as long as a      *)
(* directory is not raced, the one task that fills it keeps it unmarked    *)
(* until it is complete, and everybody who looks into it sees it complete. *)

Unraced(t) == Dir(t) \notin raced

OnlyCached ==
  /\ marked \subseteq {"cache"} \X Keys
  /\ \A t \in Tasks :
       /\ thread[t] = "mark" => Cached(t, gate[t])
       /\ thread[t] = "tidy" => gate[t] = "regression"

Alone ==
  \A t, u \in Tasks :
    /\ thread[t] \in Filling /\ thread[u] \in Filling
    /\ Dir(t) = Dir(u) /\ Unraced(t)
    => t = u

FillsUnmarked == \A t \in Tasks : thread[t] \in Filling /\ Unraced(t) => Dir(t) \notin marked

MarksFull ==
  \A t \in Tasks : thread[t] = "mark" /\ Unraced(t) => packages[Dir(t)] = "full"

ChecksFull ==
  \A t \in Tasks :
    thread[t] \in Checking /\ Unraced(t) /\ runner[t] = "running" => packages[Dir(t)] = "full"

ChecksMarked ==
  \A t \in Tasks :
    thread[t] \in Checking /\ Unraced(t) /\ Cached(t, gate[t]) => Dir(t) \in marked

AwaitsOwn ==
  \A t \in Tasks : \A c \in containers :
    Awaits(t, c) => c.dir = Dir(t) /\ (Unraced(t) => c.attached)

CacheInv ==
  /\ OnlyCached /\ Alone /\ FillsUnmarked /\ MarksFull /\ ChecksFull /\ ChecksMarked
  /\ AwaitsOwn /\ MarkedIsComplete

LEMMA SameDir ==
  ASSUME TypeOK, NEW t \in Tasks, NEW u \in Tasks, Dir(t) = Dir(u)
  PROVE  /\ Cached(t, gate[t]) <=> Cached(u, gate[u])
         /\ ~Cached(t, gate[t]) => t = u
<1>1. gate[t] # "cache" /\ gate[u] # "cache"
  BY DEF TypeOK, Gates
<1> QED BY <1>1 DEF Dir, DirFor

(* A directory that is filled and not raced has no other user.             *)
LEMMA OneUser ==
  ASSUME TypeOK, CacheInv, NEW t \in Tasks, thread[t] \in Filling, Unraced(t),
         NEW u \in Tasks, thread[u] \in Filling \cup Checking, Dir(u) = Dir(t)
  PROVE  u = t
<1>1. CASE thread[u] \in Filling
  BY <1>1 DEF CacheInv, Alone
<1>2. CASE thread[u] \in Checking /\ Cached(u, gate[u])
  <2>1. Dir(u) \in marked
    BY <1>2 DEF CacheInv, ChecksMarked, Unraced
  <2>2. Dir(t) \notin marked
    BY DEF CacheInv, FillsUnmarked
  <2> QED BY <2>1, <2>2
<1>3. CASE ~Cached(u, gate[u])
  BY <1>3, SameDir
<1> QED BY <1>1, <1>2, <1>3

(* A step that unmarks nothing, takes no package away and starts nobody    *)
(* filling preserves the invariant, when those it lets check or mark see   *)
(* all packages and those who wait have waited or mount their directory.   *)
Waits ==
  \A u \in Tasks : \A c \in containers' :
    Awaits(u, c)' => \/ c.dir = Dir(u) /\ c.attached
                     \/ \E b \in containers :
                          Awaits(u, b) /\ b.dir = c.dir /\ b.attached = c.attached

Kept ==
  /\ UNCHANGED <<kind, gate, key, raced, marked>>
  /\ \A d \in Dirs : packages[d] = "full" => packages'[d] = "full"
  /\ \A u \in Tasks :
       /\ thread'[u] \in Filling => thread[u] \in Filling
       /\ thread'[u] = "tidy" => thread[u] = "tidy" \/ gate[u] = "regression"
       /\ thread'[u] = "mark" =>
            \/ thread[u] = "mark"
            \/ Cached(u, gate[u]) /\ (Unraced(u) => packages'[Dir(u)] = "full")
       /\ thread'[u] \in Checking =>
            \/ thread[u] \in Checking /\ (runner'[u] = "running" => runner[u] = "running")
            \/ ~Cached(u, gate[u]) /\ (Unraced(u) => packages'[Dir(u)] = "full")
  /\ Waits

LEMMA KeptInv ==
  ASSUME TypeOK, CacheInv, Kept
  PROVE  CacheInv'
<1>1. \A u \in Tasks : Dir(u)' = Dir(u) /\ Dir(u) \in Dirs
  BY DirTypes DEF Kept, Dir, DirFor, Cached
<1>2. \A u \in Tasks : Unraced(u)' <=> Unraced(u)
  BY <1>1 DEF Kept, Unraced
<1>3. \A u \in Tasks : Cached(u, gate[u])' <=> Cached(u, gate[u])
  BY DEF Kept, Cached
<1>4. OnlyCached'
  BY <1>3 DEF Kept, CacheInv, OnlyCached
<1>5. Alone'
  BY <1>1, <1>2 DEF Kept, CacheInv, Alone
<1>6. FillsUnmarked'
  BY <1>1, <1>2 DEF Kept, CacheInv, FillsUnmarked
<1>7. MarksFull'
  BY <1>1, <1>2 DEF Kept, CacheInv, MarksFull
<1>8. ChecksFull'
  BY <1>1, <1>2 DEF Kept, CacheInv, ChecksFull
<1>9. ChecksMarked'
  BY <1>1, <1>2, <1>3 DEF Kept, CacheInv, ChecksMarked
<1>10. AwaitsOwn'
  <2> SUFFICES ASSUME NEW u \in Tasks, NEW c \in containers', Awaits(u, c)'
               PROVE  c.dir = Dir(u)' /\ (Unraced(u)' => c.attached)
    BY DEF AwaitsOwn
  <2>1. CASE c.dir = Dir(u) /\ c.attached
    BY <1>1, <2>1
  <2>2. CASE \E b \in containers : Awaits(u, b) /\ b.dir = c.dir /\ b.attached = c.attached
    BY <1>1, <1>2, <2>2 DEF CacheInv, AwaitsOwn
  <2> QED BY <2>1, <2>2 DEF Kept, Waits
<1>11. MarkedIsComplete'
  BY DEF Kept, CacheInv, MarkedIsComplete, TypeOK
<1> QED BY <1>4, <1>5, <1>6, <1>7, <1>8, <1>9, <1>10, <1>11 DEF CacheInv

(* The other tasks stand where they stood.                                 *)
Stays(t) ==
  /\ UNCHANGED <<kind, gate, key, loop>>
  /\ \A u \in Tasks \ {t} : thread'[u] = thread[u] /\ attempt'[u] = attempt[u]

LEMMA OthersWait ==
  ASSUME TypeOK', NEW t \in Tasks, Stays(t), thread'[t] \notin {"install", "verify"},
         NEW u \in Tasks, NEW c \in containers', Awaits(u, c)'
  PROVE  u # t /\ Awaits(u, c)
<1>1. c.name.step \in {"install", "verify"}
  BY DEF TypeOK, Containers, Names
<1>2. thread'[u] = c.name.step
  BY DEF Awaits
<1>3. u # t
  BY <1>1, <1>2
<1> QED BY <1>3 DEF Stays, Awaits, NameOf

(* How an attempt or a gate ends: nobody but t moves, and t gives up or    *)
(* starts over.                                                            *)
LEMMA EndsInv ==
  ASSUME TypeOK, TypeOK', CacheInv, NEW t \in Tasks, Stays(t), UNCHANGED <<raced, marked>>,
         \/ \E isFinal \in BOOLEAN : Leave(t, isFinal)
         \/ FailAttempt(t) /\ thread[t] \in Filling,
         containers' \subseteq containers,
         \A d \in Dirs : packages[d] = "full" => packages'[d] = "full",
         \A u \in Tasks : runner'[u] = "running" => runner[u] = "running"
  PROVE  CacheInv'
<1>1. \/ thread'[t] = "idle"
      \/ thread'[t] = "tidy" /\ gate[t] = "regression"
      \/ thread'[t] = "clear" /\ thread[t] \in Filling
  BY DEF Leave, FailAttempt, Move, TypeOK
<1>2. Waits
  BY <1>1, OthersWait DEF Waits
<1>3. Kept
  BY <1>1, <1>2 DEF Kept, Stays, Filling, Checking
<1> QED BY <1>3, KeptInv

-------------------------------------------------------------------------------
(* Every action preserves the invariant *)

LEMMA CacheInit == Init => CacheInv
<1> SUFFICES ASSUME Init PROVE CacheInv
  OBVIOUS
<1>1. marked = {} /\ containers = {} /\ \A t \in Tasks : thread[t] = "idle"
  BY DEF Init
<1>2. OnlyCached /\ AwaitsOwn /\ MarkedIsComplete
  BY <1>1 DEF OnlyCached, AwaitsOwn, MarkedIsComplete
<1>3. Alone /\ FillsUnmarked /\ MarksFull /\ ChecksFull /\ ChecksMarked
  BY <1>1 DEF Alone, FillsUnmarked, MarksFull, ChecksFull, ChecksMarked, Filling, Checking
<1> QED BY <1>2, <1>3 DEF CacheInv

LEMMA EnterInv ==
  ASSUME TypeOK, TypeOK', CacheInv, NEW t \in Tasks, NEW g \in Gates, NEW k \in Keys,
         NEW replan \in BOOLEAN, Enter(t, g, k, replan)
  PROVE  CacheInv'
<1> DEFINE d   == DirFor(t, g, k)
           hit == Cached(t, g) /\ d \in marked
<1>1. /\ UNCHANGED <<kind, packages, marked, containers, runner, attempt>>
      /\ raced \subseteq raced' /\ thread[t] = "idle"
  BY DEF Enter, runnerVars
<1>2. /\ thread'[t] = (IF hit THEN "open" ELSE "clear")
      /\ gate'[t] = g /\ key'[t] = k
  BY DEF Enter, Move, TypeOK
<1>3. \A u \in Tasks \ {t} : /\ thread'[u] = thread[u] /\ gate'[u] = gate[u]
                             /\ key'[u] = key[u] /\ loop'[u] = loop[u]
  BY DEF Enter, Move, TypeOK
<1>4. Dir(t)' = d /\ (Cached(t, gate[t])' <=> Cached(t, g))
  BY <1>1, <1>2 DEF Dir, DirFor, Cached
<1>5. \A u \in Tasks \ {t} : Dir(u)' = Dir(u) /\ (Cached(u, gate[u])' <=> Cached(u, gate[u]))
  BY <1>1, <1>3 DEF Dir, DirFor, Cached
<1>6. \A u \in Tasks \ {t} : Unraced(u)' => Unraced(u)
  BY <1>1, <1>5 DEF Unraced
<1>7. d \in marked => hit
  BY DEF CacheInv, OnlyCached, DirFor, Cached, Gates
<1>8. ~hit /\ d \notin raced' => \A u \in Tasks : thread[u] \in Filling => Dir(u) # d
  <2>1. ~hit => raced' = IF Fillers(d) # {} THEN raced \cup {d} ELSE raced
    BY DEF Enter
  <2> QED BY <2>1 DEF Fillers
<1>9. OnlyCached'
  BY <1>1, <1>2, <1>3, <1>5 DEF CacheInv, OnlyCached
<1>10. Alone'
  <2> SUFFICES ASSUME NEW v \in Tasks, NEW u \in Tasks, thread'[v] \in Filling,
                      thread'[u] \in Filling, Dir(v)' = Dir(u)', Unraced(v)'
               PROVE  v = u
    BY DEF Alone
  <2>1. CASE v # t /\ u # t
    BY <1>3, <1>5, <1>6, <2>1 DEF CacheInv, Alone
  <2>2. CASE v = t /\ u # t
    <3>1. ~hit
      BY <1>2, <2>2 DEF Filling
    <3> QED BY <1>3, <1>4, <1>5, <1>8, <2>2, <3>1 DEF Unraced
  <2>3. CASE v # t /\ u = t
    <3>1. ~hit
      BY <1>2, <2>3 DEF Filling
    <3> QED BY <1>3, <1>4, <1>5, <1>8, <2>3, <3>1 DEF Unraced
  <2> QED BY <2>1, <2>2, <2>3
<1>11. FillsUnmarked'
  <2> SUFFICES ASSUME NEW u \in Tasks, thread'[u] \in Filling, Unraced(u)'
               PROVE  Dir(u)' \notin marked
    BY <1>1 DEF FillsUnmarked
  <2>1. CASE u = t
    BY <1>2, <1>4, <1>7, <2>1 DEF Filling
  <2>2. CASE u # t
    BY <1>3, <1>5, <1>6, <2>2 DEF CacheInv, FillsUnmarked
  <2> QED BY <2>1, <2>2
<1>12. MarksFull'
  BY <1>1, <1>2, <1>3, <1>5, <1>6 DEF CacheInv, MarksFull
<1>13. ChecksFull'
  <2> SUFFICES ASSUME NEW u \in Tasks, thread'[u] \in Checking, Unraced(u)', runner'[u] = "running"
               PROVE  packages[Dir(u)'] = "full"
    BY <1>1 DEF ChecksFull
  <2>1. CASE u = t
    <3>1. d \in marked \ raced
      BY <1>1, <1>2, <1>4, <2>1 DEF Checking, Unraced
    <3> QED BY <1>4, <2>1, <3>1 DEF CacheInv, MarkedIsComplete
  <2>2. CASE u # t
    BY <1>1, <1>3, <1>5, <1>6, <2>2 DEF CacheInv, ChecksFull
  <2> QED BY <2>1, <2>2
<1>14. ChecksMarked'
  <2> SUFFICES ASSUME NEW u \in Tasks, thread'[u] \in Checking, Unraced(u)', Cached(u, gate[u])'
               PROVE  Dir(u)' \in marked
    BY <1>1 DEF ChecksMarked
  <2>1. CASE u = t
    BY <1>2, <1>4, <2>1 DEF Checking
  <2>2. CASE u # t
    BY <1>3, <1>5, <1>6, <2>2 DEF CacheInv, ChecksMarked
  <2> QED BY <2>1, <2>2
<1>15. AwaitsOwn'
  <2> SUFFICES ASSUME NEW u \in Tasks, NEW c \in containers, Awaits(u, c)'
               PROVE  c.dir = Dir(u)' /\ (Unraced(u)' => c.attached)
    BY <1>1 DEF AwaitsOwn
  <2>1. u # t
    BY <1>1, <1>2 DEF Awaits, TypeOK, Containers, Names
  <2>2. Awaits(u, c)
    BY <1>1, <1>3, <2>1 DEF Awaits, NameOf
  <2> QED BY <1>5, <1>6, <2>1, <2>2 DEF CacheInv, AwaitsOwn
<1>16. MarkedIsComplete'
  BY <1>1 DEF CacheInv, MarkedIsComplete
<1> QED BY <1>9, <1>10, <1>11, <1>12, <1>13, <1>14, <1>15, <1>16 DEF CacheInv

LEMMA ClearInv ==
  ASSUME TypeOK, TypeOK', CacheInv, NEW t \in Tasks, Clear(t)
  PROVE  CacheInv'
<1> DEFINE d == Dir(t)
<1>1. /\ UNCHANGED <<kind, gate, key, loop, attempt, runner>> /\ thread[t] = "clear"
      /\ marked' = marked \ {d} /\ containers' = Without(d)
      /\ packages' = [packages EXCEPT ![d] = "none"]
      /\ raced' = IF Users(d) = {t} THEN raced \ {d} ELSE raced
  BY DEF Clear, runnerVars
<1>2. thread'[t] \in {"make", "start"} /\ \A u \in Tasks \ {t} : thread'[u] = thread[u]
  BY DEF Clear, Move, TypeOK
<1>3. \A u \in Tasks : Dir(u)' = Dir(u) /\ Dir(u) \in Dirs
  BY <1>1, DirTypes DEF Dir, DirFor, Cached
<1>13. \A u \in Tasks : Cached(u, gate[u])' <=> Cached(u, gate[u])
  BY <1>1 DEF Cached
<1>4. \A u \in Tasks \ {t} : thread[u] \in Filling \cup Checking /\ Unraced(u)' =>
        Dir(u) # d /\ Unraced(u)
  <2> SUFFICES ASSUME NEW u \in Tasks \ {t}, thread[u] \in Filling \cup Checking, Unraced(u)'
               PROVE  Dir(u) # d /\ Unraced(u)
    OBVIOUS
  <2>1. CASE Dir(u) # d
    BY <1>1, <1>3, <2>1 DEF Unraced
  <2>2. CASE Dir(u) = d
    <3>1. u \in Users(d)
      BY <2>2 DEF Users
    <3>2. d \notin raced
      BY <1>1, <1>3, <2>2, <3>1 DEF Unraced
    <3>3. u = t
      BY <1>1, <2>2, <3>2, OneUser DEF Unraced, Filling
    <3> QED BY <3>3
  <2> QED BY <2>1, <2>2
<1>5. OnlyCached'
  BY <1>1, <1>2, <1>13 DEF CacheInv, OnlyCached
<1>6. Alone'
  <2> SUFFICES ASSUME NEW v \in Tasks, NEW u \in Tasks, thread'[v] \in Filling,
                      thread'[u] \in Filling, Dir(v) = Dir(u), Unraced(v)'
               PROVE  v = u
    BY <1>3 DEF Alone
  <2>1. Unraced(u)'
    BY <1>3 DEF Unraced
  <2>2. CASE v # t /\ u # t
    BY <1>2, <1>4, <2>2 DEF CacheInv, Alone
  <2>3. CASE v = t \/ u = t
    BY <1>2, <1>4, <2>1, <2>3
  <2> QED BY <2>2, <2>3
<1>7. FillsUnmarked'
  BY <1>1, <1>2, <1>3, <1>4 DEF CacheInv, FillsUnmarked
<1>8. MarksFull'
  BY <1>1, <1>2, <1>3, <1>4 DEF CacheInv, MarksFull, Filling, TypeOK
<1>9. ChecksFull'
  BY <1>1, <1>2, <1>3, <1>4 DEF CacheInv, ChecksFull, Checking, TypeOK
<1>10. ChecksMarked'
  BY <1>1, <1>2, <1>3, <1>4, <1>13 DEF CacheInv, ChecksMarked, Checking
<1>11. AwaitsOwn'
  <2> SUFFICES ASSUME NEW u \in Tasks, NEW c \in containers', Awaits(u, c)'
               PROVE  c.dir = Dir(u) /\ (Unraced(u)' => c.attached)
    BY <1>3 DEF AwaitsOwn
  <2>1. PICK b \in containers : c = [b EXCEPT !.attached = @ /\ ~(Mounted(d) /\ b.dir = d)]
    BY <1>1 DEF Without
  <2>2. b \in Containers
    BY DEF TypeOK
  <2>3. /\ c.name = b.name /\ c.dir = b.dir
        /\ c.attached = (b.attached /\ ~(Mounted(d) /\ b.dir = d))
    BY <2>1, <2>2 DEF Containers
  <2>4. b.name.step \in {"install", "verify"}
    BY <2>2 DEF Containers, Names
  <2>5. u # t
    BY <1>2, <2>3, <2>4 DEF Awaits
  <2>6. Awaits(u, b) /\ thread[u] \in {"install", "verify"}
    BY <1>1, <1>2, <2>3, <2>4, <2>5 DEF Awaits, NameOf
  <2>7. c.dir = Dir(u) /\ (Unraced(u) => b.attached)
    BY <2>3, <2>6 DEF CacheInv, AwaitsOwn
  <2>8. ASSUME Unraced(u)' PROVE c.attached
    <3>1. Dir(u) # d /\ Unraced(u)
      BY <1>4, <2>5, <2>6, <2>8 DEF Filling, Checking
    <3> QED BY <2>3, <2>7, <3>1
  <2> QED BY <2>7, <2>8
<1>12. MarkedIsComplete'
  BY <1>1 DEF CacheInv, MarkedIsComplete, TypeOK
<1> QED BY <1>5, <1>6, <1>7, <1>8, <1>9, <1>10, <1>11, <1>12 DEF CacheInv

LEMMA ClearRaisesInv ==
  ASSUME TypeOK, TypeOK', CacheInv, NEW t \in Tasks, ClearRaises(t)
  PROVE  CacheInv'
<1> DEFINE d == Dir(t)
<1>1. /\ Stays(t) /\ UNCHANGED <<raced, containers, runner>> /\ thread[t] = "clear"
      /\ marked' = marked \/ marked' = marked \ {d}
      /\ \A e \in Dirs \ {d} : packages'[e] = packages[e]
  BY DEF ClearRaises, Leave, Move, Stays, TypeOK, runnerVars
<1>2. thread'[t] = "idle" \/ (thread'[t] = "tidy" /\ gate[t] = "regression")
  BY DEF ClearRaises, Leave, Move, TypeOK
<1>3. \A u \in Tasks : Dir(u)' = Dir(u) /\ Dir(u) \in Dirs
  BY <1>1, DirTypes DEF Stays, Dir, DirFor, Cached
<1>4. \A u \in Tasks : (Cached(u, gate[u])' <=> Cached(u, gate[u])) /\ (Unraced(u)' <=> Unraced(u))
  BY <1>1, <1>3 DEF Stays, Cached, Unraced
<1>5. \A u \in Tasks \ {t} : thread[u] \in Filling \cup Checking /\ Unraced(u) => Dir(u) # d
  <2> SUFFICES ASSUME NEW u \in Tasks \ {t}, thread[u] \in Filling \cup Checking, Unraced(u),
                      Dir(u) = d
               PROVE  FALSE
    OBVIOUS
  <2>1. Unraced(t) /\ thread[t] \in Filling
    BY <1>1 DEF Unraced, Filling
  <2> QED BY <2>1, OneUser
<1>6. OnlyCached'
  BY <1>1, <1>2, <1>4 DEF Stays, CacheInv, OnlyCached
<1>7. Alone'
  BY <1>1, <1>2, <1>3, <1>4 DEF Stays, CacheInv, Alone, Filling
<1>8. FillsUnmarked'
  BY <1>1, <1>2, <1>3, <1>4 DEF Stays, CacheInv, FillsUnmarked, Filling
<1>9. MarksFull'
  BY <1>1, <1>2, <1>3, <1>4, <1>5 DEF Stays, CacheInv, MarksFull, Filling
<1>10. ChecksFull'
  BY <1>1, <1>2, <1>3, <1>4, <1>5 DEF Stays, CacheInv, ChecksFull, Checking
<1>11. ChecksMarked'
  BY <1>1, <1>2, <1>3, <1>4, <1>5 DEF Stays, CacheInv, ChecksMarked, Checking
<1>12. AwaitsOwn'
  <2> SUFFICES ASSUME NEW u \in Tasks, NEW c \in containers', Awaits(u, c)'
               PROVE  c.dir = Dir(u) /\ (Unraced(u) => c.attached)
    BY <1>3, <1>4 DEF AwaitsOwn
  <2>1. Awaits(u, c) /\ c \in containers
    BY <1>1, <1>2, OthersWait
  <2> QED BY <2>1 DEF CacheInv, AwaitsOwn
<1>13. MarkedIsComplete'
  <2> SUFFICES ASSUME NEW e \in marked \ raced, e \in marked'
               PROVE  packages'[e] = "full"
    BY <1>1 DEF MarkedIsComplete
  <2>1. e # d
    BY <1>1 DEF CacheInv, FillsUnmarked, Filling, Unraced
  <2> QED BY <1>1, <2>1 DEF CacheInv, MarkedIsComplete, TypeOK
<1> QED BY <1>6, <1>7, <1>8, <1>9, <1>10, <1>11, <1>12, <1>13 DEF CacheInv

LEMMA MadeKeeps ==
  ASSUME TypeOK, NEW e, Made(e)
  PROVE  \A d \in Dirs : packages[d] = "full" => packages'[d] = "full"
BY DEF TypeOK, Made

LEMMA MakeInv ==
  ASSUME TypeOK, TypeOK', CacheInv, NEW t \in Tasks, Make(t)
  PROVE  CacheInv'
<1>1. Stays(t) /\ thread[t] = "make" /\ thread'[t] = "start"
  BY DEF Make, Move, Stays, TypeOK
<1>2. Waits
  BY <1>1, OthersWait DEF Make, Waits
<1>3. Kept
  BY <1>1, <1>2, MadeKeeps DEF Kept, Stays, Make, Filling, Checking, runnerVars
<1> QED BY <1>3, KeptInv

LEMMA RunInv ==
  ASSUME TypeOK, TypeOK', CacheInv, NEW t \in Tasks, NEW step \in {"install", "verify"},
         Run(t, step), UNCHANGED <<kind, gate, key, loop, attempt, marked, raced, runner>>,
         thread[t] = IF step = "install" THEN "start" ELSE "open"
  PROVE  CacheInv'
<1>1. Stays(t) /\ thread'[t] = step
  BY DEF Run, Move, Stays, TypeOK
<1>2. Waits
  <2> SUFFICES ASSUME NEW u \in Tasks, NEW c \in containers', Awaits(u, c)'
               PROVE  \/ c.dir = Dir(u) /\ c.attached
                      \/ \E b \in containers :
                            Awaits(u, b) /\ b.dir = c.dir /\ b.attached = c.attached
    BY DEF Waits
  <2>1. \A s \in {"install", "verify"}, v \in Tasks : NameOf(v, s)' = NameOf(v, s)
    BY DEF NameOf
  <2>2. \/ c \in containers
        \/ c = [name |-> NameOf(t, step), dir |-> Dir(t), attached |-> TRUE,
                late |-> runner[t] # "running"]
    BY DEF Run
  <2>3. c.name.step \in {"install", "verify"}
    BY DEF TypeOK, Containers, Names
  <2>4. thread'[u] = c.name.step /\ c.name = NameOf(u, c.name.step)
    BY <2>1, <2>3 DEF Awaits
  <2>5. CASE u = t
    <3>1. c.name = NameOf(t, step)
      BY <1>1, <2>4, <2>5
    <3>2. c \notin containers
      BY <3>1 DEF Run, Taken
    <3> QED BY <2>2, <2>5, <3>2
  <2>6. CASE u # t
    <3>1. c.name.task = u
      BY <2>4 DEF NameOf
    <3>2. NameOf(t, step).task = t
      BY DEF NameOf
    <3>3. c \in containers
      BY <2>2, <2>6, <3>1, <3>2
    <3>4. Awaits(u, c)
      BY <1>1, <2>4, <2>6 DEF Awaits, Stays
    <3> QED BY <3>3, <3>4
  <2> QED BY <2>5, <2>6
<1>3. Kept
  <2>1. \A d \in Dirs : packages[d] = "full" => packages'[d] = "full"
    BY MadeKeeps DEF Run
  <2> QED BY <1>1, <1>2, <2>1 DEF Kept, Stays, Filling, Checking
<1> QED BY <1>3, KeptInv

LEMMA LeaveStays ==
  ASSUME TypeOK, NEW t \in Tasks, UNCHANGED <<kind, gate, key, loop>>,
         \/ \E isFinal \in BOOLEAN : Leave(t, isFinal)
         \/ FailAttempt(t)
  PROVE  Stays(t)
BY DEF TypeOK, Leave, FailAttempt, Move, Stays

LEMMA StartInv ==
  ASSUME TypeOK, TypeOK', CacheInv, NEW t \in Tasks, Start(t)
  PROVE  CacheInv'
<1>1. CASE Run(t, "install") /\ UNCHANGED <<attempt, final>>
  BY <1>1, RunInv DEF Start, runnerVars
<1>2. CASE FailAttempt(t) /\ UNCHANGED <<packages, containers>>
  <2>1. Stays(t)
    BY <1>2, LeaveStays DEF Start
  <2> QED BY <1>2, <2>1, EndsInv DEF Start, Filling, runnerVars
<1> QED BY <1>1, <1>2 DEF Start

LEMMA OpenInv ==
  ASSUME TypeOK, TypeOK', CacheInv, NEW t \in Tasks, Open(t)
  PROVE  CacheInv'
<1>1. CASE Run(t, "verify") /\ UNCHANGED <<attempt, final>>
  BY <1>1, RunInv DEF Open, runnerVars
<1>2. CASE Leave(t, TRUE) /\ UNCHANGED <<packages, containers>>
  <2>1. Stays(t)
    BY <1>2, LeaveStays DEF Open
  <2> QED BY <1>2, <2>1, EndsInv DEF Open, runnerVars
<1> QED BY <1>1, <1>2 DEF Open

LEMMA MarkInv ==
  ASSUME TypeOK, TypeOK', CacheInv, NEW t \in Tasks, Mark(t)
  PROVE  CacheInv'
<1> DEFINE d == Dir(t)
<1>0. thread[t] = "mark" /\ UNCHANGED <<kind, gate, key, loop, raced, packages, containers, runner>>
  BY DEF Mark, runnerVars
<1>1. CASE Leave(t, TRUE) /\ UNCHANGED marked
  <2>1. Stays(t)
    BY <1>0, <1>1, LeaveStays
  <2> QED BY <1>0, <1>1, <2>1, EndsInv
<1>2. CASE /\ marked' = marked \cup {d}
           /\ Move(t, "open") /\ UNCHANGED <<attempt, final>>
  <2>1. Stays(t) /\ thread'[t] = "open"
    BY <1>0, <1>2 DEF Stays, Move, TypeOK
  <2>2. \A u \in Tasks : Dir(u)' = Dir(u)
    BY <1>0 DEF Dir, DirFor, Cached
  <2>3. \A u \in Tasks : (Cached(u, gate[u])' <=> Cached(u, gate[u])) /\ (Unraced(u)' <=> Unraced(u))
    BY <1>0, <2>2 DEF Cached, Unraced
  <2>4. Cached(t, gate[t])
    BY <1>0 DEF CacheInv, OnlyCached
  <2>5. d \in {"cache"} \X Keys
    BY <2>4 DEF Dir, DirFor, Cached, TypeOK
  <2>6. Unraced(t) => packages[d] = "full"
    BY <1>0 DEF CacheInv, MarksFull
  <2>7. OnlyCached'
    BY <1>2, <2>1, <2>3, <2>5 DEF Stays, CacheInv, OnlyCached
  <2>8. Alone'
    BY <2>1, <2>2, <2>3 DEF Stays, CacheInv, Alone, Filling
  <2>9. FillsUnmarked'
    <3> SUFFICES ASSUME NEW u \in Tasks, thread'[u] \in Filling, Unraced(u)
                 PROVE  Dir(u) \notin marked'
      BY <2>2, <2>3 DEF FillsUnmarked
    <3>1. u # t /\ thread[u] \in Filling
      BY <2>1 DEF Stays, Filling
    <3>2. Dir(u) # d
      BY <1>0, <3>1 DEF CacheInv, Alone, Filling
    <3> QED BY <1>2, <3>1, <3>2 DEF CacheInv, FillsUnmarked
  <2>10. MarksFull'
    BY <1>0, <2>1, <2>2, <2>3 DEF Stays, CacheInv, MarksFull
  <2>11. ChecksFull'
    BY <1>0, <2>1, <2>2, <2>3, <2>6 DEF Stays, CacheInv, ChecksFull
  <2>12. ChecksMarked'
    BY <1>2, <2>1, <2>2, <2>3 DEF Stays, CacheInv, ChecksMarked
  <2>13. AwaitsOwn'
    <3> SUFFICES ASSUME NEW u \in Tasks, NEW c \in containers', Awaits(u, c)'
                 PROVE  c.dir = Dir(u) /\ (Unraced(u) => c.attached)
      BY <2>2, <2>3 DEF AwaitsOwn
    <3>1. Awaits(u, c) /\ c \in containers
      BY <1>0, <2>1, OthersWait
    <3> QED BY <3>1 DEF CacheInv, AwaitsOwn
  <2>14. MarkedIsComplete'
    BY <1>0, <1>2, <2>6 DEF CacheInv, MarkedIsComplete, Unraced
  <2> QED BY <2>7, <2>8, <2>9, <2>10, <2>11, <2>12, <2>13, <2>14 DEF CacheInv
<1> QED BY <1>1, <1>2 DEF Mark

LEMMA TimeOutInv ==
  ASSUME TypeOK, TypeOK', CacheInv, NEW t \in Tasks, TimeOut(t)
  PROVE  CacheInv'
<1>1. Stays(t)
  BY LeaveStays DEF TimeOut
<1> QED BY <1>1, EndsInv DEF TimeOut, dirVars, runnerVars

LEMMA TidyInv ==
  ASSUME TypeOK, TypeOK', CacheInv, NEW t \in Tasks, Tidy(t)
  PROVE  CacheInv'
<1> DEFINE d == Dir(t)
<1>1. /\ Stays(t) /\ UNCHANGED <<raced, marked, runner>>
      /\ thread[t] = "tidy" /\ thread'[t] = "idle" /\ containers' = Without(d)
      /\ \A e \in Dirs \ {d} : packages'[e] = packages[e]
  BY DEF Tidy, Move, Stays, TypeOK, runnerVars
<1>2. gate[t] = "regression" /\ ~Cached(t, gate[t]) /\ d = <<"regression", t>>
  BY <1>1 DEF CacheInv, OnlyCached, Cached, Dir, DirFor
<1>3. \A u \in Tasks : Dir(u)' = Dir(u) /\ Dir(u) \in Dirs
  BY <1>1, DirTypes DEF Stays, Dir, DirFor, Cached
<1>4. \A u \in Tasks : (Cached(u, gate[u])' <=> Cached(u, gate[u])) /\ (Unraced(u)' <=> Unraced(u))
  BY <1>1, <1>3 DEF Stays, Cached, Unraced
<1>5. \A u \in Tasks \ {t} : Dir(u) # d
  BY <1>2, SameDir
<1>6. OnlyCached'
  BY <1>1, <1>4 DEF Stays, CacheInv, OnlyCached
<1>7. Alone'
  BY <1>1, <1>3, <1>4 DEF Stays, CacheInv, Alone, Filling
<1>8. FillsUnmarked'
  BY <1>1, <1>3, <1>4 DEF Stays, CacheInv, FillsUnmarked, Filling
<1>9. MarksFull'
  BY <1>1, <1>3, <1>4, <1>5 DEF Stays, CacheInv, MarksFull
<1>10. ChecksFull'
  BY <1>1, <1>3, <1>4, <1>5 DEF Stays, CacheInv, ChecksFull, Checking
<1>11. ChecksMarked'
  BY <1>1, <1>3, <1>4 DEF Stays, CacheInv, ChecksMarked, Checking
<1>12. AwaitsOwn'
  <2> SUFFICES ASSUME NEW u \in Tasks, NEW c \in containers', Awaits(u, c)'
               PROVE  c.dir = Dir(u) /\ (Unraced(u) => c.attached)
    BY <1>3, <1>4 DEF AwaitsOwn
  <2>1. PICK b \in containers : c = [b EXCEPT !.attached = @ /\ ~(Mounted(d) /\ b.dir = d)]
    BY <1>1 DEF Without
  <2>2. b \in Containers
    BY DEF TypeOK
  <2>3. /\ c.name = b.name /\ c.dir = b.dir
        /\ c.attached = (b.attached /\ ~(Mounted(d) /\ b.dir = d))
    BY <2>1, <2>2 DEF Containers
  <2>4. u # t /\ Awaits(u, c)
    BY <1>1, OthersWait
  <2>5. Awaits(u, b)
    BY <2>3, <2>4 DEF Awaits
  <2>6. c.dir = Dir(u) /\ (Unraced(u) => b.attached)
    BY <2>3, <2>5 DEF CacheInv, AwaitsOwn
  <2> QED BY <1>5, <2>3, <2>4, <2>6
<1>13. MarkedIsComplete'
  <2> SUFFICES ASSUME NEW e \in marked \ raced
               PROVE  packages'[e] = "full"
    BY <1>1 DEF MarkedIsComplete
  <2>1. e # d
    BY <1>2 DEF CacheInv, OnlyCached
  <2> QED BY <1>1, <2>1 DEF CacheInv, MarkedIsComplete, TypeOK
<1> QED BY <1>6, <1>7, <1>8, <1>9, <1>10, <1>11, <1>12, <1>13 DEF CacheInv

LEMMA InstallEndsInv ==
  ASSUME TypeOK, TypeOK', CacheInv, NEW c \in containers, NEW ok \in BOOLEAN,
         InstallEnds(c, ok)
  PROVE  CacheInv'
<1> DEFINE t == c.name.task
<1>1. t \in Tasks /\ c.dir \in Dirs
  BY DEF TypeOK, Containers, Names
<1>2. /\ UNCHANGED <<kind, gate, key, loop, marked, raced, runner>>
      /\ containers' \subseteq containers /\ c.name.step = "install"
  BY DEF InstallEnds, runnerVars
<1>3. \A d \in Dirs : packages[d] = "full" => packages'[d] = "full"
  BY <1>1 DEF InstallEnds, TypeOK
<1>4. CASE ~Awaits(t, c) /\ UNCHANGED <<thread, attempt, final>>
  <2>1. Waits
    BY <1>2, <1>4 DEF Waits, Awaits, NameOf
  <2> QED BY <1>2, <1>3, <1>4, <2>1, KeptInv DEF Kept
<1>5. CASE /\ Awaits(t, c) /\ ok
           /\ Move(t, IF Cached(t, gate[t]) THEN "mark" ELSE "open")
           /\ UNCHANGED <<attempt, final>>
  <2>1. /\ Stays(t) /\ thread[t] = "install"
        /\ thread'[t] = IF Cached(t, gate[t]) THEN "mark" ELSE "open"
    BY <1>1, <1>2, <1>5 DEF Stays, Move, Awaits, TypeOK
  <2>2. Waits
    BY <1>1, <1>2, <2>1, OthersWait DEF Waits
  <2>3. Unraced(t) => packages'[Dir(t)] = "full"
    <3>1. c.dir = Dir(t) /\ (Unraced(t) => c.attached)
      BY <1>1, <1>5 DEF CacheInv, AwaitsOwn
    <3>2. c.attached => packages'[c.dir] = "full"
      BY <1>1, <1>5 DEF InstallEnds, TypeOK
    <3> QED BY <3>1, <3>2
  <2>4. Kept
    BY <1>1, <1>2, <1>3, <2>1, <2>2, <2>3 DEF Kept, Stays, Filling, Checking
  <2> QED BY <2>4, KeptInv
<1>6. CASE Awaits(t, c) /\ FailAttempt(t)
  <2>1. Stays(t)
    BY <1>1, <1>2, <1>6, LeaveStays
  <2>2. thread[t] \in Filling
    BY <1>2, <1>6 DEF Awaits, Filling
  <2> QED BY <1>1, <1>2, <1>3, <1>6, <2>1, <2>2, EndsInv
<1> QED BY <1>4, <1>5, <1>6 DEF InstallEnds

LEMMA VerifyEndsInv ==
  ASSUME TypeOK, TypeOK', CacheInv, NEW c \in containers, NEW isFinal \in BOOLEAN,
         VerifyEnds(c, isFinal)
  PROVE  CacheInv'
<1> DEFINE t == c.name.task
<1>1. t \in Tasks
  BY DEF TypeOK, Containers, Names
<1>2. /\ UNCHANGED <<kind, gate, key, loop, marked, raced, runner, packages>>
      /\ containers' \subseteq containers
  BY DEF VerifyEnds, runnerVars, dirVars
<1>3. CASE UNCHANGED <<thread, attempt, final>>
  <2>1. Waits
    BY <1>2, <1>3 DEF Waits, Awaits, NameOf
  <2> QED BY <1>2, <1>3, <2>1, KeptInv DEF Kept
<1>4. CASE Leave(t, isFinal)
  <2>1. Stays(t)
    BY <1>1, <1>2, <1>4, LeaveStays
  <2> QED BY <1>1, <1>2, <1>4, <2>1, EndsInv
<1> QED BY <1>3, <1>4 DEF VerifyEnds

LEMMA RemoveInv ==
  ASSUME TypeOK, TypeOK', CacheInv, NEW t \in Tasks, Remove(t)
  PROVE  CacheInv'
<1>1. /\ UNCHANGED <<kind, gate, key, loop, marked, raced, packages>>
      /\ containers' \subseteq containers
  BY DEF Remove, dirVars
<1>2. \A u \in Tasks : runner'[u] = "running" => runner[u] = "running"
  BY DEF Remove, After, TypeOK
<1>3. CASE UNCHANGED <<thread, attempt, final>>
  <2>1. Waits
    BY <1>1, <1>3 DEF Waits, Awaits, NameOf
  <2> QED BY <1>1, <1>2, <1>3, <2>1, KeptInv DEF Kept
<1>4. CASE thread[t] = "install" /\ FailAttempt(t)
  <2>1. Stays(t)
    BY <1>1, <1>4, LeaveStays
  <2> QED BY <1>1, <1>2, <1>4, <2>1, EndsInv DEF Filling
<1>5. CASE Leave(t, TRUE)
  <2>1. Stays(t)
    BY <1>1, <1>5, LeaveStays
  <2> QED BY <1>1, <1>2, <1>5, <2>1, EndsInv
<1> QED BY <1>3, <1>4, <1>5 DEF Remove

LEMMA CleanWorkspaceInv ==
  ASSUME TypeOK, TypeOK', CacheInv, NEW t \in Tasks, CleanWorkspace(t)
  PROVE  CacheInv'
<1> DEFINE d == <<"sandbox", t>>
<1>1. /\ UNCHANGED <<kind, gate, key, loop, thread, attempt, marked, raced, containers>>
      /\ \A e \in Dirs \ {d} : packages'[e] = packages[e]
      /\ runner'[t] = "over" /\ \A u \in Tasks \ {t} : runner'[u] = runner[u]
  BY DEF CleanWorkspace, gateVars, TypeOK
<1>2. \A u \in Tasks : Dir(u)' = Dir(u) /\ Dir(u) \in Dirs
  BY <1>1, DirTypes DEF Dir, DirFor, Cached
<1>3. \A u \in Tasks : (Cached(u, gate[u])' <=> Cached(u, gate[u])) /\ (Unraced(u)' <=> Unraced(u))
  BY <1>1, <1>2 DEF Cached, Unraced
<1>4. \A u \in Tasks : Dir(u) = d => u = t /\ ~Cached(u, gate[u])
  BY DEF Dir, DirFor
<1>5. OnlyCached' /\ Alone' /\ FillsUnmarked'
  BY <1>1, <1>2, <1>3 DEF CacheInv, OnlyCached, Alone, FillsUnmarked
<1>6. MarksFull'
  BY <1>1, <1>2, <1>3, <1>4 DEF CacheInv, OnlyCached, MarksFull
<1>7. ChecksFull'
  BY <1>1, <1>2, <1>3, <1>4 DEF CacheInv, ChecksFull
<1>8. ChecksMarked'
  BY <1>1, <1>2, <1>3 DEF CacheInv, ChecksMarked
<1>9. AwaitsOwn'
  <2>1. \A u \in Tasks, c \in containers : Awaits(u, c)' => Awaits(u, c)
    BY <1>1 DEF Awaits, NameOf
  <2> QED BY <1>1, <1>2, <1>3, <2>1 DEF CacheInv, AwaitsOwn
<1>10. MarkedIsComplete'
  <2> SUFFICES ASSUME NEW e \in marked \ raced
               PROVE  packages'[e] = "full"
    BY <1>1 DEF MarkedIsComplete
  <2>1. e # d
    BY DEF CacheInv, OnlyCached
  <2> QED BY <1>1, <2>1 DEF CacheInv, MarkedIsComplete, TypeOK
<1> QED BY <1>5, <1>6, <1>7, <1>8, <1>9, <1>10 DEF CacheInv

LEMMA CrashInv ==
  ASSUME TypeOK, TypeOK', CacheInv, NEW t \in Tasks, Crash(t)
  PROVE  CacheInv'
<1>1. /\ UNCHANGED <<kind, gate, key, packages, marked, raced>>
      /\ thread'[t] = "idle"
      /\ \A u \in Tasks \ {t} : /\ thread'[u] = thread[u] /\ attempt'[u] = attempt[u]
                               /\ loop'[u] = loop[u] /\ runner'[u] = runner[u]
  BY DEF Crash, dirVars, TypeOK
<1>2. Waits
  <2> SUFFICES ASSUME NEW u \in Tasks, NEW c \in containers', Awaits(u, c)'
               PROVE  \E b \in containers :
                        Awaits(u, b) /\ b.dir = c.dir /\ b.attached = c.attached
    BY DEF Waits
  <2>1. PICK b \in containers : c = [b EXCEPT !.late = @ /\ b.name.task # t]
    BY DEF Crash
  <2>2. b \in Containers
    BY DEF TypeOK
  <2>3. c.name = b.name /\ c.dir = b.dir /\ c.attached = b.attached
    BY <2>1, <2>2 DEF Containers
  <2>4. b.name.step \in {"install", "verify"}
    BY <2>2 DEF Containers, Names
  <2>5. u # t
    BY <1>1, <2>3, <2>4 DEF Awaits
  <2>6. Awaits(u, b)
    BY <1>1, <2>3, <2>5 DEF Awaits, NameOf
  <2> QED BY <2>3, <2>6
<1>3. Kept
  BY <1>1, <1>2 DEF Kept, Filling, Checking
<1> QED BY <1>3, KeptInv

(* The runner's other steps touch neither threads nor packages.            *)
LEMMA RunnerInv ==
  ASSUME TypeOK, TypeOK', CacheInv, NEW t \in Tasks,
         GraphEnds(t) \/ Interrupt(t) \/ List(t) \/ CleanupFails(t)
  PROVE  CacheInv'
<1>1. /\ UNCHANGED <<kind, thread, gate, key, loop, attempt, packages, marked, raced>>
      /\ containers' = containers
      /\ \A u \in Tasks : runner'[u] = "running" => runner[u] = "running"
  BY DEF GraphEnds, Interrupt, List, CleanupFails, gateVars, dirVars, After, TypeOK
<1>2. Waits
  BY <1>1 DEF Waits, Awaits, NameOf
<1> QED BY <1>1, <1>2, KeptInv DEF Kept

-------------------------------------------------------------------------------
(* The theorems *)

LEMMA CacheStep == ASSUME TypeOK, TypeOK', CacheInv, [Next]_vars PROVE CacheInv'
<1>1. CASE \E t \in Tasks, g \in Gates, k \in Keys, replan \in BOOLEAN : Enter(t, g, k, replan)
  BY <1>1, EnterInv
<1>2. CASE \E t \in Tasks : Thread(t)
  BY <1>2, ClearInv, ClearRaisesInv, MakeInv, StartInv, MarkInv, OpenInv, TimeOutInv, TidyInv
     DEF Thread
<1>3. CASE \E t \in Tasks : GraphEnds(t) \/ Interrupt(t) \/ List(t) \/ CleanupFails(t)
  BY <1>3, RunnerInv
<1>4. CASE \E t \in Tasks : Remove(t) \/ CleanWorkspace(t) \/ Crash(t)
  BY <1>4, RemoveInv, CleanWorkspaceInv, CrashInv
<1>5. CASE \E c \in containers, ok \in BOOLEAN : InstallEnds(c, ok) \/ VerifyEnds(c, ok)
  BY <1>5, InstallEndsInv, VerifyEndsInv
<1>6. CASE UNCHANGED vars
  <2>1. /\ UNCHANGED <<kind, thread, gate, key, loop, attempt, packages, marked, raced, runner>>
        /\ containers' = containers
    BY <1>6 DEF vars, gateVars, dirVars, runnerVars
  <2>2. Waits
    BY <2>1 DEF Waits, Awaits, NameOf
  <2> QED BY <2>1, <2>2, KeptInv DEF Kept
<1> QED BY <1>1, <1>2, <1>3, <1>4, <1>5, <1>6 DEF Next, Runner

THEOREM CacheInvariant == Spec => [](TypeOK /\ CacheInv)
<1>1. Init => TypeOK /\ CacheInv
  BY TypeInit, CacheInit
<1>2. TypeOK /\ CacheInv /\ [Next]_vars => (TypeOK /\ CacheInv)'
  BY TypeStep, CacheStep
<1> QED BY <1>1, <1>2, PTL DEF Spec

(* A marked entry of the cache holds all its packages, for any number of   *)
(* tasks, keys, loops and faults, unless two tasks filled it at once: the  *)
(* marker (nodes.py 1486-1490) is written by the task that alone filled    *)
(* the entry, after an install it saw succeed.                             *)
THEOREM MarkedComplete == Spec => []MarkedIsComplete
<1>1. CacheInv => MarkedIsComplete
  BY DEF CacheInv
<1> QED BY <1>1, CacheInvariant, PTL

(* A task that is checked sees the packages it installed or hit, mounted   *)
(* where its checks look for them, unless two tasks filled the entry at    *)
(* once.                                                                   *)
THEOREM ChecksComplete == Spec => []ChecksSeePackages
<1>1. CacheInv => ChecksSeePackages
  BY DEF CacheInv, ChecksSeePackages, ChecksFull, AwaitsOwn, Unraced
<1> QED BY <1>1, CacheInvariant, PTL

-------------------------------------------------------------------------------
(* Why the tidying up of an uninterrupted task cannot raise: its thread is *)
(* idle from the end of the graph on, so nothing is started once the       *)
(* containers are listed, and all of them are gone when the removal comes. *)

SweptInv ==
  /\ \A t \in Tasks \ interrupted :
       /\ runner[t] # "running" => thread[t] = "idle" /\ runner[t] # "cancelled"
       /\ t \in looked => \A c \in Of(t) : c.name \in listed[t]
       /\ runner[t] \in {"tidying", "over"} /\ t \notin unswept => Of(t) = {}
  /\ \A t \in looked : runner[t] \in {"cancelled", "ended"}
  /\ ResultSurvives

LEMMA SweptInit == Init => SweptInv
BY DEF Init, SweptInv, ResultSurvives

(* A step of t's that leaves the runners alone, and moves the thread of t  *)
(* only if the graph of t still runs or t was interrupted.                 *)
LEMMA SweptFrame ==
  ASSUME TypeOK, SweptInv, NEW t \in Tasks,
         UNCHANGED runnerVars,
         \A u \in Tasks \ {t} : thread'[u] = thread[u],
         \A c \in containers' : c.name.task # t => \E b \in containers : b.name = c.name,
         \/ runner[t] = "running" \/ t \in interrupted
         \/ /\ thread'[t] = thread[t]
            /\ \A c \in containers' : \E b \in containers : b.name = c.name
  PROVE  SweptInv'
<1>1. UNCHANGED <<runner, listed, looked, interrupted, unswept, lost>>
  BY DEF runnerVars
<1>2. ASSUME NEW u \in Tasks, u # t, NEW c \in Of(u)'
      PROVE  \E b \in Of(u) : b.name = c.name
  BY <1>2 DEF Of
<1>3. ASSUME NEW u \in Tasks \ interrupted
      PROVE  /\ runner[u] # "running" => thread'[u] = "idle" /\ runner[u] # "cancelled"
             /\ u \in looked => \A c \in Of(u)' : c.name \in listed[u]
             /\ runner[u] \in {"tidying", "over"} /\ u \notin unswept => Of(u)' = {}
  <2>1. CASE u # t
    BY <1>2, <1>3, <2>1 DEF SweptInv
  <2>2. CASE u = t /\ runner[t] = "running"
    <3>1. t \notin looked
      BY <2>2 DEF SweptInv
    <3> QED BY <2>2, <3>1
  <2>3. CASE u = t /\ t \in interrupted
    BY <2>3
  <2>4. CASE /\ u = t /\ thread'[t] = thread[t]
             /\ \A c \in containers' : \E b \in containers : b.name = c.name
    <3>1. ASSUME NEW c \in Of(u)' PROVE \E b \in Of(u) : b.name = c.name
      BY <2>4, <3>1 DEF Of
    <3> QED BY <1>3, <2>4, <3>1 DEF SweptInv
  <2> QED BY <2>1, <2>2, <2>3, <2>4
<1>4. \A u \in looked : runner[u] \in {"cancelled", "ended"}
  BY DEF SweptInv
<1>5. ResultSurvives'
  BY <1>1 DEF SweptInv, ResultSurvives
<1> QED BY <1>1, <1>3, <1>4, <1>5 DEF SweptInv

LEMMA SweptGates ==
  ASSUME TypeOK, TypeOK', SweptInv,
         \/ \E t \in Tasks, g \in Gates, k \in Keys, replan \in BOOLEAN : Enter(t, g, k, replan)
         \/ \E t \in Tasks : Thread(t)
  PROVE  SweptInv'
<1>1. ASSUME NEW t \in Tasks, NEW g \in Gates, NEW k \in Keys, NEW replan \in BOOLEAN,
             Enter(t, g, k, replan)
      PROVE  SweptInv'
  BY <1>1, SweptFrame DEF Enter, Move, TypeOK
<1>2. ASSUME NEW t \in Tasks, Thread(t)
      PROVE  SweptInv'
  <2>1. UNCHANGED runnerVars
    BY <1>2 DEF Thread, Clear, ClearRaises, Make, Start, Mark, Open, TimeOut, Tidy
  <2>2. thread[t] # "idle"
    BY <1>2 DEF Thread, Clear, ClearRaises, Make, Start, Mark, Open, TimeOut, Tidy
  <2>3. runner[t] = "running" \/ t \in interrupted
    BY <2>2 DEF SweptInv
  <2>4. \A u \in Tasks \ {t} : thread'[u] = thread[u]
    BY <1>2 DEF Thread, Clear, ClearRaises, Make, Start, Mark, Open, TimeOut, Tidy, Run,
                Leave, FailAttempt, Move, TypeOK
  <2>5. ASSUME NEW c \in containers', c.name.task # t
        PROVE  \E b \in containers : b.name = c.name
    <3>1. CASE containers' = containers
      BY <3>1
    <3>2. CASE containers' = Without(Dir(t))
      <4>1. PICK b \in containers :
              c = [b EXCEPT !.attached = @ /\ ~(Mounted(Dir(t)) /\ b.dir = Dir(t))]
        BY <3>2 DEF Without
      <4>2. b \in Containers
        BY DEF TypeOK
      <4> QED BY <4>1, <4>2 DEF Containers
    <3>3. CASE Run(t, "install") \/ Run(t, "verify")
      BY <2>5, <3>3 DEF Run, NameOf
    <3> QED BY <1>2, <3>1, <3>2, <3>3
            DEF Thread, Clear, ClearRaises, Make, Start, Mark, Open, TimeOut, Tidy
  <2> QED BY <2>1, <2>3, <2>4, <2>5, SweptFrame
<1> QED BY <1>1, <1>2

LEMMA SweptContainers ==
  ASSUME TypeOK, TypeOK', SweptInv, NEW c \in containers, NEW ok \in BOOLEAN,
         InstallEnds(c, ok) \/ VerifyEnds(c, ok)
  PROVE  SweptInv'
<1> DEFINE t == c.name.task
<1>1. t \in Tasks /\ c.name.step \in {"install", "verify"}
  BY DEF TypeOK, Containers, Names
<1>2. UNCHANGED runnerVars /\ containers' \subseteq containers
  BY DEF InstallEnds, VerifyEnds
<1>3. \A u \in Tasks \ {t} : thread'[u] = thread[u]
  BY <1>1 DEF InstallEnds, VerifyEnds, Leave, FailAttempt, Move, TypeOK
<1>4. thread'[t] = thread[t] \/ thread[t] # "idle"
  BY <1>1 DEF InstallEnds, VerifyEnds, Awaits
<1>5. runner[t] = "running" \/ t \in interrupted \/ thread'[t] = thread[t]
  BY <1>1, <1>4 DEF SweptInv
<1> QED BY <1>1, <1>2, <1>3, <1>5, SweptFrame

LEMMA SweptRunner ==
  ASSUME TypeOK, TypeOK', SweptInv, NEW t \in Tasks,
         GraphEnds(t) \/ Interrupt(t) \/ Runner(t) \/ CleanupFails(t) \/ Crash(t)
  PROVE  SweptInv'
<1>1. CASE GraphEnds(t)
  BY <1>1 DEF GraphEnds, gateVars, SweptInv, ResultSurvives, Of, TypeOK
<1>2. CASE Interrupt(t)
  <2>1. t \notin looked
    BY <1>2 DEF Interrupt, SweptInv
  <2> QED BY <1>2, <2>1 DEF Interrupt, gateVars, SweptInv, ResultSurvives, Of, TypeOK
<1>3. CASE List(t)
  <2>1. /\ UNCHANGED <<thread, containers, runner, interrupted, unswept, lost>>
        /\ runner[t] \in {"cancelled", "ended"}
        /\ listed' = [listed EXCEPT ![t] = {c.name : c \in Of(t)}]
        /\ looked' = looked \cup {t}
    BY <1>3 DEF List, gateVars
  <2>2. \A u \in Tasks : Of(u)' = Of(u)
    BY <2>1 DEF Of
  <2>3. listed'[t] = {c.name : c \in Of(t)} /\ \A u \in Tasks \ {t} : listed'[u] = listed[u]
    BY <2>1 DEF TypeOK
  <2>4. \A u \in Tasks \ interrupted : u \in looked' => \A c \in Of(u)' : c.name \in listed'[u]
    BY <2>1, <2>2, <2>3 DEF SweptInv
  <2> QED BY <2>1, <2>2, <2>4 DEF SweptInv, ResultSurvives
<1>4. CASE Remove(t)
  <2>1. /\ UNCHANGED <<interrupted, unswept, lost>>
        /\ t \in looked /\ looked' = looked \ {t}
        /\ containers' = containers \ {c \in Of(t) : c.name \in listed[t]}
    BY <1>4 DEF Remove
  <2>2. /\ runner'[t] = After(runner[t])
        /\ \A u \in Tasks \ {t} : runner'[u] = runner[u] /\ listed'[u] = listed[u]
    BY <1>4 DEF Remove, TypeOK
  <2>3. \A u \in Tasks \ {t} : thread'[u] = thread[u] /\ Of(u)' \subseteq Of(u)
    BY <1>4, <2>1 DEF Remove, Of, Leave, FailAttempt, Move, TypeOK
  <2>4. runner[t] \in {"cancelled", "ended"}
    BY <2>1 DEF SweptInv
  <2>5. ASSUME t \notin interrupted
        PROVE  /\ thread'[t] = "idle" /\ runner'[t] = "tidying" /\ Of(t)' = {}
    <3>1. thread[t] = "idle" /\ runner[t] = "ended" /\ \A c \in Of(t) : c.name \in listed[t]
      BY <2>1, <2>4, <2>5 DEF SweptInv
    <3>2. thread'[t] = "idle"
      BY <1>4, <3>1 DEF Remove
    <3> QED BY <2>1, <2>2, <3>1, <3>2 DEF Of, After
  <2>6. \A u \in looked' : runner'[u] \in {"cancelled", "ended"}
    BY <2>1, <2>2 DEF SweptInv, TypeOK
  <2>7. ASSUME NEW u \in Tasks \ interrupted
        PROVE  /\ runner'[u] # "running" => thread'[u] = "idle" /\ runner'[u] # "cancelled"
               /\ u \in looked' => \A c \in Of(u)' : c.name \in listed'[u]
               /\ runner'[u] \in {"tidying", "over"} /\ u \notin unswept => Of(u)' = {}
    <3>1. CASE u = t
      BY <2>1, <2>5, <3>1
    <3>2. CASE u # t
      BY <2>1, <2>2, <2>3, <3>2 DEF SweptInv
    <3> QED BY <3>1, <3>2
  <2> QED BY <2>1, <2>6, <2>7 DEF SweptInv, ResultSurvives
<1>5. CASE CleanWorkspace(t)
  <2>1. /\ UNCHANGED <<thread, containers, listed, looked, interrupted, unswept>>
        /\ runner[t] = "tidying" /\ runner'[t] = "over"
        /\ \A u \in Tasks \ {t} : runner'[u] = runner[u]
    BY <1>5 DEF CleanWorkspace, gateVars, TypeOK
  <2>2. \A u \in Tasks : Of(u)' = Of(u)
    BY <2>1 DEF Of
  <2>3. \/ lost' = lost
        \/ lost' = lost \cup {t} /\ (thread[t] # "idle" \/ Of(t) # {})
    BY <1>5 DEF CleanWorkspace
  <2>4. ResultSurvives'
    BY <2>1, <2>3 DEF SweptInv, ResultSurvives
  <2>5. t \notin looked
    BY <2>1 DEF SweptInv
  <2>6. \A u \in looked' : runner'[u] \in {"cancelled", "ended"}
    BY <2>1, <2>5 DEF SweptInv, TypeOK
  <2>7. ASSUME NEW u \in Tasks \ interrupted
        PROVE  /\ runner'[u] # "running" => thread[u] = "idle" /\ runner'[u] # "cancelled"
               /\ u \in looked => \A c \in Of(u) : c.name \in listed[u]
               /\ runner'[u] \in {"tidying", "over"} /\ u \notin unswept => Of(u) = {}
    <3>1. CASE u = t
      BY <2>1, <2>5, <3>1 DEF SweptInv
    <3>2. CASE u # t
      BY <2>1, <3>2 DEF SweptInv
    <3> QED BY <3>1, <3>2
  <2> QED BY <2>1, <2>2, <2>4, <2>6, <2>7 DEF SweptInv
<1>6. CASE CleanupFails(t)
  <2>1. /\ UNCHANGED <<thread, containers, listed, interrupted, lost>>
        /\ runner[t] \in {"cancelled", "ended"} /\ runner'[t] = After(runner[t])
        /\ looked' = looked \ {t}
        /\ unswept' = IF runner[t] = "ended" THEN unswept \cup {t} ELSE unswept
        /\ \A u \in Tasks \ {t} : runner'[u] = runner[u]
    BY <1>6 DEF CleanupFails, gateVars, TypeOK
  <2>2. \A u \in Tasks : Of(u)' = Of(u)
    BY <2>1 DEF Of
  <2>3. runner'[t] \in {"ended", "tidying"} /\ (runner'[t] = "tidying" => t \in unswept')
    BY <2>1 DEF After
  <2>4. \A u \in looked' : runner'[u] \in {"cancelled", "ended"}
    BY <2>1 DEF SweptInv, TypeOK
  <2>5. ASSUME NEW u \in Tasks \ interrupted
        PROVE  /\ runner'[u] # "running" => thread[u] = "idle" /\ runner'[u] # "cancelled"
               /\ u \in looked' => \A c \in Of(u) : c.name \in listed[u]
               /\ runner'[u] \in {"tidying", "over"} /\ u \notin unswept' => Of(u) = {}
    <3>1. CASE u = t
      BY <2>1, <2>3, <3>1 DEF SweptInv
    <3>2. CASE u # t
      BY <2>1, <3>2 DEF SweptInv
    <3> QED BY <3>1, <3>2
  <2>6. ResultSurvives'
    BY <2>1 DEF SweptInv, ResultSurvives
  <2> QED BY <2>1, <2>2, <2>4, <2>5, <2>6 DEF SweptInv
<1>7. CASE Crash(t)
  <2>1. /\ thread'[t] = "idle" /\ runner'[t] = "running" /\ looked' = looked \ {t}
        /\ interrupted' = interrupted \ {t} /\ unswept' = unswept \ {t} /\ lost' = lost \ {t}
        /\ \A u \in Tasks \ {t} : /\ thread'[u] = thread[u] /\ runner'[u] = runner[u]
                                 /\ listed'[u] = listed[u]
    BY <1>7 DEF Crash, TypeOK
  <2>2. ASSUME NEW u \in Tasks \ {t}, NEW c \in Of(u)' PROVE \E b \in Of(u) : b.name = c.name
    <3>1. PICK b \in containers : c = [b EXCEPT !.late = @ /\ b.name.task # t]
      BY <1>7 DEF Crash, Of
    <3>2. b.name = c.name
      BY <3>1 DEF TypeOK, Containers
    <3> QED BY <3>2 DEF Of
  <2>3. ResultSurvives'
    BY <2>1 DEF SweptInv, ResultSurvives
  <2>4. \A u \in looked' : runner'[u] \in {"cancelled", "ended"}
    BY <2>1 DEF SweptInv, TypeOK
  <2>5. ASSUME NEW u \in Tasks \ interrupted'
        PROVE  /\ runner'[u] # "running" => thread'[u] = "idle" /\ runner'[u] # "cancelled"
               /\ u \in looked' => \A c \in Of(u)' : c.name \in listed'[u]
               /\ runner'[u] \in {"tidying", "over"} /\ u \notin unswept' => Of(u)' = {}
    <3>1. CASE u = t
      BY <2>1, <3>1
    <3>2. CASE u # t
      <4>1. u \in Tasks \ interrupted /\ (u \in looked' => u \in looked)
        BY <2>1, <2>5, <3>2
      <4>2. \A c \in Of(u)' : \E b \in Of(u) : b.name = c.name
        BY <2>2, <3>2
      <4> QED BY <2>1, <3>2, <4>1, <4>2 DEF SweptInv
    <3> QED BY <3>1, <3>2
  <2> QED BY <2>3, <2>4, <2>5 DEF SweptInv
<1> QED BY <1>1, <1>2, <1>3, <1>4, <1>5, <1>6, <1>7 DEF Runner

(* The runner never loses the result of a task that was not cut short, for *)
(* any number of loops, gates and timed-out containers: its cleanup        *)
(* (nodes.py 721-741) has removed all of them when it clears the packages  *)
(* from the workspace.                                                     *)
THEOREM ResultKept == Spec => []ResultSurvives
<1>1. Init => SweptInv
  BY SweptInit
<1>2. TypeOK /\ TypeOK' /\ SweptInv /\ [Next]_vars => SweptInv'
  <2> SUFFICES ASSUME TypeOK, TypeOK', SweptInv, [Next]_vars PROVE SweptInv'
    OBVIOUS
  <2>1. CASE Next
    BY <2>1, SweptGates, SweptContainers, SweptRunner DEF Next
  <2>2. CASE UNCHANGED vars
    BY <2>2 DEF vars, gateVars, dirVars, runnerVars, SweptInv, ResultSurvives, Of
  <2> QED BY <2>1, <2>2
<1>3. SweptInv => ResultSurvives
  BY DEF SweptInv
<1> QED BY <1>1, <1>2, <1>3, TypeCorrect, PTL DEF Spec
===============================================================================
