------------------------------ MODULE EmDaemon ------------------------------
(***************************************************************************)
(* gf_em_daemon: the OS-level Execution Manager                            *)
(* (middleware/exec/src/em_daemon.cpp, em_daemon_main.cpp).                *)
(*                                                                         *)
(* One single-threaded daemon launches the processes of its table in       *)
(* dependency order, then polls: first the ModeDeclaration set-difference  *)
(* (ApplyFgSetDiff), then a sweep that reaps dead children and relaunches  *)
(* or gives up on them.  Between any two of its steps children exit, and   *)
(* the mode application rewrites the Function Group states, which are in   *)
(* shared memory under no lock.                                            *)
(*                                                                         *)
(* A process is its index in runtimes_, i.e. its place after TopoSort.     *)
(***************************************************************************)
EXTENDS Naturals

CONSTANTS
  N,                \* number of processes in the launch table
  Deps,             \* Deps[p]: depends_on
  RestartEnabled,   \* processes with restart_enabled
  MaxRestarts,      \* MaxRestarts[p]: max_restarts
  Degradable,       \* processes named *dlt_daemon* or *frame_ingest*
  FGs,              \* mode Function Groups
  States,           \* mode names
  FgOf,             \* FgOf[p]: function_group (read when active_in is not empty)
  ActiveIn,         \* ActiveIn[p]: active_in; {} = always on
  FgInitial,        \* FgInitial[g]: mode_fg_initial, NoState when it has none
  NoState,          \* the empty string
  Torn,             \* a half-written state name
  ModeApp,          \* the process that publishes the mode states (0: none)
  HasDeadline,      \* RunForMs was given a deadline
  MaxExits,         \* bound: exits of children that nobody asked to stop
  MaxPublishes,     \* bound: mode publications
  MaxSpawnFails     \* bound: Spawn failures

Proc == 1..N
AlwaysOn(p) == ActiveIn[p] = {}
FgValues == States \cup {NoState, Torn}

ASSUME ConstantsOK ==
  /\ N \in Nat \ {0}
  /\ RestartEnabled \subseteq Proc /\ Degradable \subseteq Proc
  /\ MaxRestarts \in [Proc -> Nat]
  /\ FgOf \in [Proc -> FGs] /\ ActiveIn \in [Proc -> SUBSET States]
  /\ FgInitial \in [FGs -> States \cup {NoState}]
  /\ NoState \notin States /\ Torn \notin States /\ NoState # Torn
  /\ HasDeadline \in BOOLEAN
  /\ MaxExits \in Nat /\ MaxPublishes \in Nat /\ MaxSpawnFails \in Nat

\* What TopoSort establishes before StartAll.
ASSUME DepsOrdered ==
  /\ Deps \in [Proc -> SUBSET Proc]
  /\ \A p \in Proc : \A d \in Deps[p] : d < p

\* The mode manager belongs to the machine group: nothing switches it off.
ASSUME ModeAppAlwaysOn ==
  ModeApp \in Proc \cup {0} /\ (ModeApp # 0 => AlwaysOn(ModeApp))

VARIABLES
  pc,            \* where the daemon is
  cur,           \* the table index its current loop stands at
  rc,            \* what main will return (3: not decided yet)
  shuttingDown,  \* shutting_down_
  pid,           \* Runtime.pid is a valid process id
  launches, restarts, everStarted, terminalExit, fgHeldOff,   \* Runtime
  child,         \* the kernel's view of the last child forked for a process
  store,         \* FgStateStore: what a reader finds, per FG
  writing,       \* the state the mode application is writing, or NoState
  exits, publishes, spawnFails   \* how much of each bound is used

emVars  == <<pc, cur, rc, shuttingDown>>
rtVars  == <<pid, launches, restarts, everStarted, terminalExit, fgHeldOff>>
fgVars  == <<store, writing>>
useVars == <<exits, publishes, spawnFails>>
vars == <<emVars, rtVars, child, fgVars, useVars>>

----------------------------------------------------------------------------
(* The kernel's process table: a child runs, has been sent SIGTERM, or is   *)
(* a zombie that remembers how it ended until waitpid collects it.          *)

Live == {"run", "term"}
ExitKinds == {"ok", "restart75", "fail", "signal"}
ChildStates == {"none"} \cup Live \cup ExitKinds

Terminate(p) == IF child[p] = "run" THEN "term" ELSE child[p]

----------------------------------------------------------------------------
(* The shared Function Group state *)

WantRunning(p) == AlwaysOn(p) \/ store[FgOf[p]] \in ActiveIn[p]

\* PublishFgState by the mode application rewrites the bytes of the state in
\* place.  Until the last one is written readers see a mixture that no process
\* names, unless the state is rewritten with itself.
PublishBegin(g, s) ==
  /\ ModeApp # 0 /\ child[ModeApp] \in Live
  /\ \A h \in FGs : writing[h] = NoState
  /\ publishes < MaxPublishes
  /\ writing' = [writing EXCEPT ![g] = s]
  /\ store' = [store EXCEPT ![g] = IF @ = s THEN s ELSE Torn]
  /\ publishes' = publishes + 1
  /\ UNCHANGED <<emVars, rtVars, child, exits, spawnFails>>

PublishEnd(g) ==
  /\ writing[g] # NoState /\ child[ModeApp] \in Live
  /\ store' = [store EXCEPT ![g] = writing[g]]
  /\ writing' = [writing EXCEPT ![g] = NoState]
  /\ UNCHANGED <<emVars, rtVars, child, useVars>>

\* A child ends: by itself (bounded), or because it was told to.  A mode
\* application that dies inside a write leaves the mixture behind.
ChildExit(p, kind) ==
  /\ child[p] \in Live
  /\ IF child[p] = "run"
     THEN exits < MaxExits /\ exits' = exits + 1
     ELSE exits' = exits
  /\ child' = [child EXCEPT ![p] = kind]
  /\ writing' = IF p = ModeApp THEN [g \in FGs |-> NoState] ELSE writing
  /\ UNCHANGED <<emVars, rtVars, store, publishes, spawnFails>>

----------------------------------------------------------------------------
(* Spawn *)

Spawn(p, relaunch) ==
  /\ pid' = [pid EXCEPT ![p] = TRUE]
  /\ child' = [child EXCEPT ![p] = "run"]
  /\ launches' = [launches EXCEPT ![p] = @ + 1]
  /\ restarts' = [restarts EXCEPT ![p] = IF relaunch THEN @ + 1 ELSE @]
  /\ everStarted' = [everStarted EXCEPT ![p] = TRUE]
  /\ terminalExit' = [terminalExit EXCEPT ![p] = FALSE]
  /\ UNCHANGED spawnFails

\* Binary missing, or fork failed: Spawn returns false and changes nothing.
SpawnFailure ==
  /\ spawnFails < MaxSpawnFails
  /\ spawnFails' = spawnFails + 1
  /\ UNCHANGED <<launches, restarts, everStarted>>

NextProcess == cur' = cur + 1 /\ UNCHANGED <<pc, rc, shuttingDown>>
EnterZeroBased(place) == pc' = place /\ cur' = 0   \* mutant: loop starts one early
Enter(place) == pc' = place /\ cur' = 1
Frame == UNCHANGED <<fgVars, exits, publishes>>

----------------------------------------------------------------------------
(* StartAll *)

Seed ==
  /\ pc = "seed"
  /\ store' = [g \in FGs |-> IF FgInitial[g] # NoState THEN FgInitial[g] ELSE store[g]]
  /\ Enter("start")
  /\ UNCHANGED <<rc, shuttingDown, rtVars, child, writing, useVars>>

AtStart(p) == pc = "start" /\ cur = p

StartHoldOff(p) ==
  /\ AtStart(p) /\ ~WantRunning(p)
  /\ fgHeldOff' = [fgHeldOff EXCEPT ![p] = TRUE]
  /\ terminalExit' = [terminalExit EXCEPT ![p] = FALSE]
  /\ NextProcess
  /\ UNCHANGED <<pid, launches, restarts, everStarted, child, spawnFails>> /\ Frame

StartSpawn(p) ==
  /\ AtStart(p) /\ WantRunning(p)
  /\ Spawn(p, FALSE)
  /\ NextProcess
  /\ UNCHANGED fgHeldOff /\ Frame

\* main returns 1 at once: no ShutdownAll.
StartSpawnFails(p) ==
  /\ AtStart(p) /\ WantRunning(p)
  /\ SpawnFailure
  /\ pc' = "aborted" /\ rc' = 1
  /\ UNCHANGED <<cur, shuttingDown, pid, terminalExit, fgHeldOff, child>> /\ Frame

StartDone ==
  /\ pc = "start" /\ cur = N + 1
  /\ Enter("diff")
  /\ UNCHANGED <<rc, shuttingDown, rtVars, child, fgVars, useVars>>

----------------------------------------------------------------------------
(* ApplyFgSetDiff and StopForFg *)

AtDiff(p) == pc = "diff" /\ cur = p

DiffSkip(p) ==
  /\ AtDiff(p)
  /\ \/ AlwaysOn(p)
     \/ pid[p] /\ WantRunning(p)
     \/ ~pid[p] /\ ~WantRunning(p)
  /\ NextProcess
  /\ UNCHANGED <<rtVars, child, spawnFails>> /\ Frame

DiffSpawnKeepsHeldOff(p) ==   \* mutant: fg_held_off not reset
  /\ AtDiff(p) /\ ~AlwaysOn(p) /\ ~pid[p] /\ WantRunning(p)
  /\ Spawn(p, everStarted[p])
  /\ NextProcess /\ UNCHANGED fgHeldOff /\ Frame

DiffSpawnTwice(p) ==   \* mutant: alive not tested
  /\ AtDiff(p) /\ ~AlwaysOn(p) /\ WantRunning(p)
  /\ fgHeldOff' = [fgHeldOff EXCEPT ![p] = FALSE]
  /\ Spawn(p, everStarted[p])
  /\ NextProcess /\ Frame

DiffSpawn(p) ==
  /\ AtDiff(p) /\ ~AlwaysOn(p) /\ ~pid[p] /\ WantRunning(p)
  /\ fgHeldOff' = [fgHeldOff EXCEPT ![p] = FALSE]
  /\ Spawn(p, everStarted[p])
  /\ NextProcess /\ Frame

\* Only logged: the next poll tries again.
DiffSpawnFails(p) ==
  /\ AtDiff(p) /\ ~AlwaysOn(p) /\ ~pid[p] /\ WantRunning(p)
  /\ fgHeldOff' = [fgHeldOff EXCEPT ![p] = FALSE]
  /\ SpawnFailure
  /\ NextProcess
  /\ UNCHANGED <<pid, terminalExit, child>> /\ Frame

DiffStop(p) ==
  /\ AtDiff(p) /\ pid[p] /\ ~WantRunning(p)
  /\ fgHeldOff' = [fgHeldOff EXCEPT ![p] = TRUE]
  /\ child' = [child EXCEPT ![p] = Terminate(p)]
  /\ pc' = "stop"
  /\ UNCHANGED <<cur, rc, shuttingDown, pid, launches, restarts, everStarted,
                 terminalExit, spawnFails>> /\ Frame

\* 80 ms later: collected if it has ended, else SIGKILL and a blocking wait.
FinishStop(p) ==
  /\ pc = "stop" /\ cur = p
  /\ pid' = [pid EXCEPT ![p] = FALSE]
  /\ child' = [child EXCEPT ![p] = "none"]
  /\ terminalExit' = [terminalExit EXCEPT ![p] = FALSE]
  /\ pc' = "diff" /\ cur' = cur + 1
  /\ UNCHANGED <<rc, shuttingDown, launches, restarts, everStarted, fgHeldOff,
                 spawnFails>> /\ Frame

DiffDone ==
  /\ pc = "diff" /\ cur = N + 1
  /\ Enter("reap")
  /\ UNCHANGED <<rc, shuttingDown, rtVars, child, fgVars, useVars>>

----------------------------------------------------------------------------
(* PollOnce: the reaping sweep *)

Reaping(p) == pc = "reap" /\ cur = p /\ pid[p] /\ child[p] \in ExitKinds

RelaunchableOnceMore(p) ==   \* mutant: <= max_restarts
  /\ ~fgHeldOff[p] /\ p \in RestartEnabled
  /\ restarts[p] <= MaxRestarts[p]
  /\ child[p] \in {"restart75", "signal"}

Relaunchable(p) ==
  /\ ~fgHeldOff[p] /\ p \in RestartEnabled
  /\ restarts[p] < MaxRestarts[p]
  /\ child[p] \in {"restart75", "signal"}

HarmlessNeverDegrades(p) == fgHeldOff[p] \/ child[p] = "ok"   \* mutant

\* The stop was intended, the end was normal, or the stack can do without p.
Harmless(p) == fgHeldOff[p] \/ child[p] = "ok" \/ p \in Degradable

CollectKeepsPid(p) ==   \* mutant: pid not invalidated
  /\ child' = [child EXCEPT ![p] = "none"]
  /\ terminalExit' = [terminalExit EXCEPT ![p] = ~fgHeldOff[p]]
  /\ UNCHANGED <<pid, fgHeldOff>>

Collect(p) ==
  /\ pid' = [pid EXCEPT ![p] = FALSE]
  /\ child' = [child EXCEPT ![p] = "none"]
  /\ terminalExit' = [terminalExit EXCEPT ![p] = ~fgHeldOff[p]]
  /\ UNCHANGED fgHeldOff

ReapNothing(p) ==
  /\ pc = "reap" /\ cur = p /\ (pid[p] => child[p] \in Live)
  /\ NextProcess
  /\ UNCHANGED <<rtVars, child, spawnFails>> /\ Frame

ReapRelaunch(p) ==
  /\ Reaping(p) /\ Relaunchable(p)
  /\ Spawn(p, TRUE)
  /\ NextProcess
  /\ UNCHANGED fgHeldOff /\ Frame

ReapRelaunchFails(p) ==
  /\ Reaping(p) /\ Relaunchable(p)
  /\ Collect(p) /\ SpawnFailure
  /\ pc' = "term" /\ rc' = 1
  /\ UNCHANGED <<cur, shuttingDown>> /\ Frame

ReapHarmless(p) ==
  /\ Reaping(p) /\ ~Relaunchable(p) /\ Harmless(p)
  /\ Collect(p)
  /\ NextProcess
  /\ UNCHANGED <<launches, restarts, everStarted, spawnFails>> /\ Frame

\* RouDi ends here too; reclaiming its shared memory changes nothing below.
ReapFatal(p) ==
  /\ Reaping(p) /\ ~Relaunchable(p) /\ ~Harmless(p)
  /\ Collect(p)
  /\ pc' = "term" /\ rc' = 1 /\ shuttingDown' = TRUE
  /\ UNCHANGED <<cur, launches, restarts, everStarted, spawnFails>> /\ Frame

ReapDone ==
  /\ pc = "reap" /\ cur = N + 1
  /\ Enter("check")
  /\ UNCHANGED <<rc, shuttingDown, rtVars, child, fgVars, useVars>>

----------------------------------------------------------------------------
(* RunForMs, and ShutdownAll, which main calls whatever RunForMs returns *)

AllDone == \A p \in Proc : terminalExit[p]

CheckAllDone ==
  /\ pc = "check" /\ AllDone
  /\ pc' = "term" /\ rc' = 0
  /\ UNCHANGED <<cur, shuttingDown, rtVars, child, fgVars, useVars>>

CheckDeadlineWhenIdle ==   \* mutant: the deadline waits for the children
  /\ pc = "check" /\ ~AllDone /\ HasDeadline /\ (\A p \in Proc : ~pid[p])
  /\ pc' = "term" /\ rc' = 2 /\ shuttingDown' = TRUE
  /\ UNCHANGED <<cur, rtVars, child, fgVars, useVars>>

CheckDeadline ==
  /\ pc = "check" /\ ~AllDone /\ HasDeadline
  /\ pc' = "term" /\ rc' = 2 /\ shuttingDown' = TRUE
  /\ UNCHANGED <<cur, rtVars, child, fgVars, useVars>>

CheckAgainWithoutDiff ==   \* mutant: the set-difference is applied once
  /\ pc = "check" /\ ~AllDone
  /\ Enter("reap")
  /\ UNCHANGED <<rc, shuttingDown, rtVars, child, fgVars, useVars>>

CheckAgain ==
  /\ pc = "check" /\ ~AllDone
  /\ Enter("diff")
  /\ UNCHANGED <<rc, shuttingDown, rtVars, child, fgVars, useVars>>

TermAll ==
  /\ pc = "term"
  /\ shuttingDown' = TRUE
  /\ child' = [p \in Proc |-> IF pid[p] THEN Terminate(p) ELSE child[p]]
  /\ Enter("kill")
  /\ UNCHANGED <<rc, rtVars, fgVars, useVars>>

AtKill(p) == pc = "kill" /\ cur = p

KillNone(p) ==
  /\ AtKill(p) /\ ~pid[p]
  /\ NextProcess
  /\ UNCHANGED <<rtVars, child, spawnFails>> /\ Frame

KillOne(p) ==
  /\ AtKill(p) /\ pid[p]
  /\ pid' = [pid EXCEPT ![p] = FALSE]
  /\ child' = [child EXCEPT ![p] = "none"]
  /\ terminalExit' = [terminalExit EXCEPT ![p] = TRUE]
  /\ NextProcess
  /\ UNCHANGED <<launches, restarts, everStarted, fgHeldOff, spawnFails>> /\ Frame

KillDone ==
  /\ pc = "kill" /\ cur = N + 1
  /\ pc' = "exited"
  /\ UNCHANGED <<cur, rc, shuttingDown, rtVars, child, fgVars, useVars>>

----------------------------------------------------------------------------
Ended == pc \in {"exited", "aborted"}
Stopped == Ended /\ UNCHANGED vars

\* The store outlives a daemon: it may hold anything an earlier one left.
Init ==
  /\ pc = "seed" /\ cur = 1 /\ rc = 3 /\ shuttingDown = FALSE
  /\ pid = [p \in Proc |-> FALSE]
  /\ launches = [p \in Proc |-> 0] /\ restarts = [p \in Proc |-> 0]
  /\ everStarted = [p \in Proc |-> FALSE]
  /\ terminalExit = [p \in Proc |-> FALSE] /\ fgHeldOff = [p \in Proc |-> FALSE]
  /\ child = [p \in Proc |-> "none"]
  /\ store \in [FGs -> FgValues] /\ writing = [g \in FGs |-> NoState]
  /\ exits = 0 /\ publishes = 0 /\ spawnFails = 0

StartAll ==
  \/ Seed
  \/ \E p \in Proc : StartHoldOff(p) \/ StartSpawn(p) \/ StartSpawnFails(p)
  \/ StartDone
SetDiff ==
  \/ \E p \in Proc : \/ DiffSkip(p) \/ DiffSpawn(p) \/ DiffSpawnFails(p)
                     \/ DiffStop(p) \/ FinishStop(p)
  \/ DiffDone
Reap ==
  \/ \E p \in Proc : \/ ReapNothing(p) \/ ReapRelaunch(p) \/ ReapRelaunchFails(p)
                     \/ ReapHarmless(p) \/ ReapFatal(p)
  \/ ReapDone
Shutdown == TermAll \/ (\E p \in Proc : KillNone(p) \/ KillOne(p)) \/ KillDone
Daemon == StartAll \/ SetDiff \/ Reap \/ CheckAllDone \/ CheckDeadline \/ CheckAgain \/ Shutdown

\* What happens after the daemon's end concerns no property here.
Environment ==
  /\ ~Ended
  /\ \/ \E g \in FGs : PublishEnd(g) \/ \E s \in States : PublishBegin(g, s)
     \/ \E p \in Proc, kind \in ExitKinds : ChildExit(p, kind)

Next == Daemon \/ Environment \/ Stopped

Spec == Init /\ [][Next]_vars

\* The daemon never blocks (its one blocking wait follows a SIGKILL), an app
\* finishes the few instructions of a store write, and a deadline passes.
Fairness ==
  /\ WF_vars(Daemon)
  /\ \A g \in FGs : WF_vars(PublishEnd(g))
  /\ SF_vars(CheckDeadline)

FairSpec == Spec /\ Fairness

----------------------------------------------------------------------------
(* Properties *)

\* Every variable keeps its shape.
TypeOK ==
  /\ pc \in {"seed", "start", "diff", "stop", "reap", "check", "term", "kill",
            "exited", "aborted"}
  /\ cur \in 1..(N + 1) /\ rc \in 0..3 /\ shuttingDown \in BOOLEAN
  /\ pid \in [Proc -> BOOLEAN] /\ launches \in [Proc -> Nat]
  /\ restarts \in [Proc -> Nat] /\ everStarted \in [Proc -> BOOLEAN]
  /\ terminalExit \in [Proc -> BOOLEAN] /\ fgHeldOff \in [Proc -> BOOLEAN]
  /\ child \in [Proc -> ChildStates]
  /\ store \in [FGs -> FgValues] /\ writing \in [FGs -> States \cup {NoState}]
  /\ exits \in 0..MaxExits /\ publishes \in 0..MaxPublishes
  /\ spawnFails \in 0..MaxSpawnFails

\* The daemon holds a valid pid for exactly the children the kernel still has
\* for it: none is lost without being collected, and none is waited for twice.
PidMatchesChild == \A p \in Proc : pid[p] <=> child[p] # "none"

\* Whatever ended RunForMs, main leaves no child behind.
NoOrphanAfterExit == pc = "exited" => \A p \in Proc : child[p] = "none"

\* Every launch but the first of a process is counted as a restart, whether it
\* came from a crash or from a mode switch.
LaunchAccounting ==
  \A p \in Proc : launches[p] = restarts[p] + (IF everStarted[p] THEN 1 ELSE 0)

\* max_restarts bounds the relaunches of a process outside every mode group,
\* and a process without restart_enabled is never relaunched.
RestartCap ==
  \A p \in Proc : AlwaysOn(p) =>
    restarts[p] <= (IF p \in RestartEnabled THEN MaxRestarts[p] ELSE 0)

\* A process is not launched before the always-on processes it depends on.
DependencyOrder ==
  \A p \in Proc : launches[p] > 0 =>
    \A d \in Deps[p] : AlwaysOn(d) => launches[d] > 0

\* A process held off by its mode has no child, except while StopForFg waits:
\* so the sweep never sees an intended stop, and never ends the stack for one.
HeldOffHasNoChild ==
  \A p \in Proc : fgHeldOff[p] /\ pid[p] => pc = "stop" /\ cur = p

\* When the daemon comes to SIGKILL a child, the child has had its SIGTERM.
TermBeforeKill ==
  /\ pc = "stop" => child[cur] # "run"
  /\ pc = "kill" => \A p \in Proc : child[p] # "run"

\* A fatal end has a culprit on record: a process that is down for good and
\* that is not one of the daemons the stack can lose.
FatalHasCulprit ==
  rc = 1 /\ pc # "aborted" =>
    \E p \in Proc : /\ terminalExit[p]
                    /\ p \notin Degradable \/ p \in RestartEnabled

\* Return code 0 means every process had already ended: none is cut off.
NormalEndIsComplete == rc = 0 => \A p \in Proc : child[p] = "none"

\* What the end of the daemon means: return code 0 cut nobody off, return code 1
\* has a culprit, and in either case main has left no child behind.
ReturnCodeSound == NormalEndIsComplete /\ FatalHasCulprit /\ NoOrphanAfterExit

\* At most one instance of a process exists: no launch over a live child.
NoDoubleLaunch ==
  [][\A p \in Proc : launches'[p] # launches[p] => child[p] \notin Live]_vars

\* An always-on process that has been given up stays down.
GivenUpStaysDown ==
  [][\A p \in Proc : AlwaysOn(p) /\ terminalExit[p] => launches'[p] = launches[p]]_vars

\* A mode switch stops no process of the mode it switches to.
NoNeedlessStop ==
  [][pc # "stop" /\ pc' = "stop" => writing[FgOf[cur]] \notin ActiveIn[cur]]_vars

\* Processes of disjoint modes of one group never run at the same time.
OneModeAtATime ==
  \A p, q \in Proc :
    ~AlwaysOn(p) /\ ~AlwaysOn(q) /\ FgOf[p] = FgOf[q] /\ ActiveIn[p] \cap ActiveIn[q] = {}
    => ~(child[p] = "run" /\ child[q] = "run")

\* max_restarts bounds the relaunches of every process.
RestartCapForAll == \A p \in Proc : restarts[p] <= MaxRestarts[p]

\* Once exits and mode switches cease, exactly the processes of the current
\* mode run, unless the daemon has ended.
ModeConverges ==
  <>[](\/ Ended
       \/ \A p \in Proc : ~AlwaysOn(p) =>
            (child[p] = "run" <=> store[FgOf[p]] \in ActiveIn[p]))

\* With a deadline the daemon always ends.
DeadlineEnds == HasDeadline => <>Ended
=============================================================================
