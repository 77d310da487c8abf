--------------------------- MODULE EmDaemon_proofs ---------------------------
(***************************************************************************)
(* Proofs of the safety properties of EmDaemon, for every launch table and *)
(* every bound, and of the sort of TopoSort that makes the table, for      *)
(* tables of any size: what EmDaemon assumes of its table is what the sort *)
(* guarantees of the tables it accepts.                                    *)
(***************************************************************************)
EXTENDS EmDaemon, TopoSort, FiniteSetTheorems, SequenceTheorems, TLAPS

\* Spawning is known to the table, and nothing is counted before a first launch.
StartedIsKnown ==
  \A p \in Proc : /\ pid[p] => everStarted[p]
                  /\ ~everStarted[p] => restarts[p] = 0

\* StartAll has launched the always-on processes before cur and touched
\* nothing from there on; once it is over, every always-on process has been launched.
StartedSoFar ==
  /\ pc = "seed" => \A p \in Proc : ~everStarted[p] /\ ~fgHeldOff[p]
  /\ pc \in {"start", "aborted"} =>
       \A p \in Proc : /\ p < cur /\ AlwaysOn(p) => everStarted[p]
                       /\ p >= cur => ~everStarted[p] /\ ~fgHeldOff[p]
  /\ pc \notin {"seed", "start", "aborted"} =>
       \A p \in Proc : AlwaysOn(p) => everStarted[p]

\* ShutdownAll has collected everything before cur.
KilledSoFar ==
  /\ pc = "kill" => \A p \in Proc : p < cur => ~pid[p]
  /\ pc = "exited" => \A p \in Proc : ~pid[p]

\* A process given up has no child, and StartAll gives nothing up.
GivenUpIsDown ==
  /\ \A p \in Proc : terminalExit[p] => ~pid[p]
  /\ pc \in {"seed", "start"} => \A p \in Proc : ~terminalExit[p]

\* StopForFg stands at a process with a child, and a return code is only
\* decided on the way out.
Places ==
  /\ pc = "stop" => cur \in Proc /\ pid[cur]
  /\ rc # 3 => pc \in {"term", "kill", "exited", "aborted"}

\* Where the loops stand.
ControlInv == Places /\ StartedSoFar /\ KilledSoFar
\* What the daemon believes of its children.
ChildInv == PidMatchesChild /\ HeldOffHasNoChild /\ TermBeforeKill
\* What it counts.
CountInv == StartedIsKnown /\ LaunchAccounting /\ RestartCap
\* What it gives up, and why it ends.
EndInv == GivenUpIsDown /\ FatalHasCulprit /\ NormalEndIsComplete

\* The inductive invariant.
IInv == TypeOK /\ ControlInv /\ ChildInv /\ CountInv /\ EndInv

USE DEF Proc, emVars, rtVars, fgVars, useVars, FgValues, ChildStates, Live, ExitKinds,
        NextProcess, Enter, Frame, SpawnFailure

\* Spawn leaves its variables in their types.
LEMMA SpawnTypes ==
  ASSUME TypeOK, NEW p \in Proc, NEW relaunch, Spawn(p, relaunch)
  PROVE  /\ pid' \in [Proc -> BOOLEAN] /\ launches' \in [Proc -> Nat]
         /\ restarts' \in [Proc -> Nat] /\ everStarted' \in [Proc -> BOOLEAN]
         /\ terminalExit' \in [Proc -> BOOLEAN] /\ child' \in [Proc -> ChildStates]
         /\ spawnFails' = spawnFails
<1>1. pid' \in [Proc -> BOOLEAN] /\ everStarted' \in [Proc -> BOOLEAN]
  BY DEF Spawn, TypeOK
<1>2. launches' \in [Proc -> Nat] /\ restarts' \in [Proc -> Nat]
  BY DEF Spawn, TypeOK
<1>3. terminalExit' \in [Proc -> BOOLEAN] /\ child' \in [Proc -> ChildStates]
  BY DEF Spawn, TypeOK
<1>q. QED
  BY <1>1, <1>2, <1>3 DEF Spawn

\* TypeOK is inductive.
LEMMA TypeStep == TypeOK /\ [Next]_vars => TypeOK'
<1> SUFFICES ASSUME TypeOK, [Next]_vars PROVE TypeOK'
  OBVIOUS
<1> USE ConstantsOK DEF TypeOK
<1>1. CASE Seed
  BY <1>1 DEF Seed
<1>2. ASSUME NEW p \in Proc, StartHoldOff(p) PROVE TypeOK'
  BY <1>2 DEF StartHoldOff, AtStart, WantRunning
<1>3. ASSUME NEW p \in Proc, StartSpawn(p) PROVE TypeOK'
  <2>1. PICK relaunch : Spawn(p, relaunch)
    BY <1>3 DEF StartSpawn
  <2>2. /\ pc' = pc /\ cur' \in 1..(N + 1) /\ fgHeldOff' \in [Proc -> BOOLEAN]
        /\ UNCHANGED <<rc, shuttingDown, fgVars, exits, publishes>>
    BY <1>3 DEF StartSpawn, AtStart
  <2>q. QED
    BY <2>1, <2>2, SpawnTypes
<1>4. ASSUME NEW p \in Proc, StartSpawnFails(p) PROVE TypeOK'
  BY <1>4, SMTT(20) DEF StartSpawnFails, AtStart
<1>5. CASE StartDone
  BY <1>5 DEF StartDone
<1>6. ASSUME NEW p \in Proc, DiffSkip(p) PROVE TypeOK'
  BY <1>6 DEF DiffSkip, AtDiff
<1>7. ASSUME NEW p \in Proc, DiffSpawn(p) PROVE TypeOK'
  <2>1. PICK relaunch : Spawn(p, relaunch)
    BY <1>7 DEF DiffSpawn
  <2>2. /\ pc' = pc /\ cur' \in 1..(N + 1) /\ fgHeldOff' \in [Proc -> BOOLEAN]
        /\ UNCHANGED <<rc, shuttingDown, fgVars, exits, publishes>>
    BY <1>7 DEF DiffSpawn, AtDiff
  <2>q. QED
    BY <2>1, <2>2, SpawnTypes
<1>8. ASSUME NEW p \in Proc, DiffSpawnFails(p) PROVE TypeOK'
  BY <1>8 DEF DiffSpawnFails, AtDiff
<1>9. ASSUME NEW p \in Proc, DiffStop(p) PROVE TypeOK'
  BY <1>9 DEF DiffStop, AtDiff, Terminate
<1>10. ASSUME NEW p \in Proc, FinishStop(p) PROVE TypeOK'
  BY <1>10, SMTT(20) DEF FinishStop
<1>11. CASE DiffDone
  BY <1>11 DEF DiffDone
<1>12. ASSUME NEW p \in Proc, ReapNothing(p) PROVE TypeOK'
  BY <1>12 DEF ReapNothing
<1>13. ASSUME NEW p \in Proc, ReapRelaunch(p) PROVE TypeOK'
  <2>1. PICK relaunch : Spawn(p, relaunch)
    BY <1>13 DEF ReapRelaunch
  <2>2. /\ pc' = pc /\ cur' \in 1..(N + 1) /\ fgHeldOff' \in [Proc -> BOOLEAN]
        /\ UNCHANGED <<rc, shuttingDown, fgVars, exits, publishes>>
    BY <1>13 DEF ReapRelaunch, Reaping
  <2>q. QED
    BY <2>1, <2>2, SpawnTypes
<1>14. ASSUME NEW p \in Proc, ReapRelaunchFails(p) PROVE TypeOK'
  BY <1>14, SMTT(20) DEF ReapRelaunchFails, Reaping, Relaunchable, Collect
<1>15. ASSUME NEW p \in Proc, ReapHarmless(p) PROVE TypeOK'
  BY <1>15 DEF ReapHarmless, Reaping, Collect
<1>16. ASSUME NEW p \in Proc, ReapFatal(p) PROVE TypeOK'
  BY <1>16 DEF ReapFatal, Reaping, Collect
<1>17. CASE ReapDone
  BY <1>17 DEF ReapDone
<1>18. CASE CheckAllDone
  BY <1>18 DEF CheckAllDone
<1>19. CASE CheckDeadline
  BY <1>19 DEF CheckDeadline
<1>20. CASE CheckAgain
  BY <1>20 DEF CheckAgain
<1>21. CASE TermAll
  BY <1>21 DEF TermAll, Terminate
<1>22. ASSUME NEW p \in Proc, KillNone(p) PROVE TypeOK'
  BY <1>22, SMTT(20) DEF KillNone, AtKill
<1>23. ASSUME NEW p \in Proc, KillOne(p) PROVE TypeOK'
  BY <1>23 DEF KillOne, AtKill
<1>24. CASE KillDone
  BY <1>24 DEF KillDone
<1>25. ASSUME NEW g \in FGs, NEW s \in States, PublishBegin(g, s) PROVE TypeOK'
  BY <1>25 DEF PublishBegin
<1>26. ASSUME NEW g \in FGs, PublishEnd(g) PROVE TypeOK'
  BY <1>26 DEF PublishEnd
<1>27. ASSUME NEW p \in Proc, NEW kind \in ExitKinds, ChildExit(p, kind) PROVE TypeOK'
  <2>1. child' \in [Proc -> ChildStates]
    BY <1>27 DEF ChildExit
  <2>2. writing' \in [FGs -> States \cup {NoState}]
    BY <1>27 DEF ChildExit
  <2>3. exits' \in 0..MaxExits
    BY <1>27, SMTT(20) DEF ChildExit
  <2>4. UNCHANGED <<emVars, rtVars, store, publishes, spawnFails>>
    BY <1>27 DEF ChildExit
  <2>q. QED
    BY <2>1, <2>2, <2>3, <2>4
<1>28. CASE UNCHANGED vars
  BY <1>28 DEF vars
<1> HIDE DEF TypeOK
<1>q. QED
  BY <1>1, <1>2, <1>3, <1>4, <1>5, <1>6, <1>7, <1>8, <1>9, <1>10, <1>11, <1>12, <1>13,
     <1>14, <1>15, <1>16, <1>17, <1>18, <1>19, <1>20, <1>21, <1>22, <1>23, <1>24, <1>25,
     <1>26, <1>27, <1>28
  DEF Next, Daemon, StartAll, SetDiff, Reap, Shutdown, Environment, Stopped

\* A relaunch by the sweep stays within max_restarts.
LEMMA RelaunchWithinCap ==
  ASSUME TypeOK, RestartCap, NEW p \in Proc, ReapRelaunch(p)
  PROVE  RestartCap'
<1>1. /\ restarts'[p] = restarts[p] + 1
      /\ \A o \in Proc \ {p} : restarts'[o] = restarts[o]
  BY DEF ReapRelaunch, Spawn, TypeOK
<1>2. p \in RestartEnabled /\ restarts[p] < MaxRestarts[p]
  BY DEF ReapRelaunch, Relaunchable
<1>3. restarts[p] \in Nat /\ MaxRestarts[p] \in Nat
  BY ConstantsOK DEF TypeOK
<1>4. restarts'[p] <= MaxRestarts[p]
  BY <1>1, <1>2, <1>3
<1>q. QED
  BY <1>1, <1>2, <1>4 DEF RestartCap

\* Every step preserves what is known about where the loops stand.
LEMMA ControlInvStep == IInv /\ TypeOK' /\ [Next]_vars => ControlInv'
<1> SUFFICES ASSUME IInv, TypeOK', [Next]_vars PROVE ControlInv'
  OBVIOUS
<1> USE ConstantsOK DEF IInv, TypeOK, ControlInv, Places, StartedSoFar, KilledSoFar
<1>1. CASE Seed
  BY <1>1 DEF Seed
<1>2. ASSUME NEW p \in Proc, StartHoldOff(p) PROVE ControlInv'
  <2>1. Places'
    BY <1>2 DEF StartHoldOff, AtStart, WantRunning
  <2>2. StartedSoFar'
    BY <1>2 DEF StartHoldOff, AtStart, WantRunning
  <2>3. KilledSoFar'
    BY <1>2 DEF StartHoldOff, AtStart, WantRunning
  <2>q. QED
    BY <2>1, <2>2, <2>3
<1>3. ASSUME NEW p \in Proc, StartSpawn(p) PROVE ControlInv'
  BY <1>3 DEF StartSpawn, AtStart, Spawn
<1>4. ASSUME NEW p \in Proc, StartSpawnFails(p) PROVE ControlInv'
  BY <1>4 DEF StartSpawnFails, AtStart
<1>5. CASE StartDone
  BY <1>5 DEF StartDone
<1>6. ASSUME NEW p \in Proc, DiffSkip(p) PROVE ControlInv'
  BY <1>6 DEF DiffSkip, AtDiff
<1>7. ASSUME NEW p \in Proc, DiffSpawn(p) PROVE ControlInv'
  BY <1>7 DEF DiffSpawn, AtDiff, Spawn
<1>8. ASSUME NEW p \in Proc, DiffSpawnFails(p) PROVE ControlInv'
  BY <1>8 DEF DiffSpawnFails, AtDiff
<1>9. ASSUME NEW p \in Proc, DiffStop(p) PROVE ControlInv'
  BY <1>9 DEF DiffStop, AtDiff, Terminate
<1>10. ASSUME NEW p \in Proc, FinishStop(p) PROVE ControlInv'
  BY <1>10 DEF FinishStop
<1>11. CASE DiffDone
  BY <1>11 DEF DiffDone
<1>12. ASSUME NEW p \in Proc, ReapNothing(p) PROVE ControlInv'
  BY <1>12 DEF ReapNothing
<1>13. ASSUME NEW p \in Proc, ReapRelaunch(p) PROVE ControlInv'
  BY <1>13 DEF ReapRelaunch, Reaping, Spawn
<1>14. ASSUME NEW p \in Proc, ReapRelaunchFails(p) PROVE ControlInv'
  BY <1>14 DEF ReapRelaunchFails, Reaping, Relaunchable, Collect
<1>15. ASSUME NEW p \in Proc, ReapHarmless(p) PROVE ControlInv'
  BY <1>15 DEF ReapHarmless, Reaping, Collect
<1>16. ASSUME NEW p \in Proc, ReapFatal(p) PROVE ControlInv'
  BY <1>16 DEF ReapFatal, Reaping, Collect
<1>17. CASE ReapDone
  BY <1>17 DEF ReapDone
<1>18. CASE CheckAllDone
  BY <1>18 DEF CheckAllDone
<1>19. CASE CheckDeadline
  BY <1>19 DEF CheckDeadline
<1>20. CASE CheckAgain
  BY <1>20 DEF CheckAgain
<1>21. CASE TermAll
  BY <1>21 DEF TermAll, Terminate
<1>22. ASSUME NEW p \in Proc, KillNone(p) PROVE ControlInv'
  BY <1>22 DEF KillNone, AtKill
<1>23. ASSUME NEW p \in Proc, KillOne(p) PROVE ControlInv'
  BY <1>23, SMTT(20) DEF KillOne, AtKill
<1>24. CASE KillDone
  BY <1>24 DEF KillDone
<1>25. ASSUME NEW g \in FGs, NEW s \in States, PublishBegin(g, s) PROVE ControlInv'
  BY <1>25 DEF PublishBegin
<1>26. ASSUME NEW g \in FGs, PublishEnd(g) PROVE ControlInv'
  BY <1>26 DEF PublishEnd
<1>27. ASSUME NEW p \in Proc, NEW kind \in ExitKinds, ChildExit(p, kind) PROVE ControlInv'
  BY <1>27 DEF ChildExit
<1>28. CASE UNCHANGED vars
  BY <1>28 DEF vars
<1> HIDE DEF IInv, TypeOK, ControlInv, Places, StartedSoFar, KilledSoFar
<1>q. QED
  BY <1>1, <1>2, <1>3, <1>4, <1>5, <1>6, <1>7, <1>8, <1>9, <1>10, <1>11, <1>12, <1>13,
     <1>14, <1>15, <1>16, <1>17, <1>18, <1>19, <1>20, <1>21, <1>22, <1>23, <1>24, <1>25,
     <1>26, <1>27, <1>28
  DEF Next, Daemon, StartAll, SetDiff, Reap, Shutdown, Environment, Stopped

\* Every step preserves what is known about the children the daemon holds.
LEMMA ChildInvStep == IInv /\ TypeOK' /\ [Next]_vars => ChildInv'
<1> SUFFICES ASSUME IInv, TypeOK', [Next]_vars PROVE ChildInv'
  OBVIOUS
<1> USE ConstantsOK DEF IInv, TypeOK, ChildInv, PidMatchesChild, HeldOffHasNoChild,
     TermBeforeKill, ControlInv, Places, StartedSoFar, CountInv, StartedIsKnown
<1>1. CASE Seed
  BY <1>1 DEF Seed
<1>2. ASSUME NEW p \in Proc, StartHoldOff(p) PROVE ChildInv'
  BY <1>2 DEF StartHoldOff, AtStart, WantRunning
<1>3. ASSUME NEW p \in Proc, StartSpawn(p) PROVE ChildInv'
  <2>1. PidMatchesChild'
    BY <1>3, SMTT(20) DEF StartSpawn, AtStart, Spawn
  <2>2. HeldOffHasNoChild'
    BY <1>3 DEF StartSpawn, AtStart, Spawn
  <2>3. TermBeforeKill'
    BY <1>3 DEF StartSpawn, AtStart, Spawn
  <2>q. QED
    BY <2>1, <2>2, <2>3
<1>4. ASSUME NEW p \in Proc, StartSpawnFails(p) PROVE ChildInv'
  BY <1>4 DEF StartSpawnFails, AtStart
<1>5. CASE StartDone
  BY <1>5 DEF StartDone
<1>6. ASSUME NEW p \in Proc, DiffSkip(p) PROVE ChildInv'
  BY <1>6 DEF DiffSkip, AtDiff
<1>7. ASSUME NEW p \in Proc, DiffSpawn(p) PROVE ChildInv'
  BY <1>7, SMTT(20) DEF DiffSpawn, AtDiff, Spawn
<1>8. ASSUME NEW p \in Proc, DiffSpawnFails(p) PROVE ChildInv'
  BY <1>8 DEF DiffSpawnFails, AtDiff
<1>9. ASSUME NEW p \in Proc, DiffStop(p) PROVE ChildInv'
  BY <1>9 DEF DiffStop, AtDiff, Terminate
<1>10. ASSUME NEW p \in Proc, FinishStop(p) PROVE ChildInv'
  BY <1>10 DEF FinishStop
<1>11. CASE DiffDone
  BY <1>11 DEF DiffDone
<1>12. ASSUME NEW p \in Proc, ReapNothing(p) PROVE ChildInv'
  BY <1>12 DEF ReapNothing
<1>13. ASSUME NEW p \in Proc, ReapRelaunch(p) PROVE ChildInv'
  BY <1>13, SMTT(20) DEF ReapRelaunch, Reaping, Spawn
<1>14. ASSUME NEW p \in Proc, ReapRelaunchFails(p) PROVE ChildInv'
  BY <1>14 DEF ReapRelaunchFails, Reaping, Relaunchable, Collect
<1>15. ASSUME NEW p \in Proc, ReapHarmless(p) PROVE ChildInv'
  BY <1>15 DEF ReapHarmless, Reaping, Collect
<1>16. ASSUME NEW p \in Proc, ReapFatal(p) PROVE ChildInv'
  BY <1>16 DEF ReapFatal, Reaping, Collect
<1>17. CASE ReapDone
  BY <1>17 DEF ReapDone
<1>18. CASE CheckAllDone
  BY <1>18 DEF CheckAllDone
<1>19. CASE CheckDeadline
  BY <1>19 DEF CheckDeadline
<1>20. CASE CheckAgain
  BY <1>20 DEF CheckAgain
<1>21. CASE TermAll
  BY <1>21 DEF TermAll, Terminate
<1>22. ASSUME NEW p \in Proc, KillNone(p) PROVE ChildInv'
  BY <1>22 DEF KillNone, AtKill
<1>23. ASSUME NEW p \in Proc, KillOne(p) PROVE ChildInv'
  BY <1>23 DEF KillOne, AtKill
<1>24. CASE KillDone
  BY <1>24 DEF KillDone
<1>25. ASSUME NEW g \in FGs, NEW s \in States, PublishBegin(g, s) PROVE ChildInv'
  BY <1>25 DEF PublishBegin
<1>26. ASSUME NEW g \in FGs, PublishEnd(g) PROVE ChildInv'
  BY <1>26 DEF PublishEnd
<1>27. ASSUME NEW p \in Proc, NEW kind \in ExitKinds, ChildExit(p, kind) PROVE ChildInv'
  BY <1>27 DEF ChildExit
<1>28. CASE UNCHANGED vars
  BY <1>28 DEF vars
<1> HIDE DEF IInv, TypeOK, ChildInv, PidMatchesChild, HeldOffHasNoChild, TermBeforeKill,
     ControlInv, Places, StartedSoFar, CountInv, StartedIsKnown
<1>q. QED
  BY <1>1, <1>2, <1>3, <1>4, <1>5, <1>6, <1>7, <1>8, <1>9, <1>10, <1>11, <1>12, <1>13,
     <1>14, <1>15, <1>16, <1>17, <1>18, <1>19, <1>20, <1>21, <1>22, <1>23, <1>24, <1>25,
     <1>26, <1>27, <1>28
  DEF Next, Daemon, StartAll, SetDiff, Reap, Shutdown, Environment, Stopped

\* Every step preserves what is known about the launch and restart counters.
LEMMA CountInvStep == IInv /\ TypeOK' /\ [Next]_vars => CountInv'
<1> SUFFICES ASSUME IInv, TypeOK', [Next]_vars PROVE CountInv'
  OBVIOUS
<1> USE ConstantsOK DEF IInv, TypeOK, CountInv, StartedIsKnown, LaunchAccounting,
     RestartCap, ControlInv, StartedSoFar
<1>1. CASE Seed
  BY <1>1 DEF Seed
<1>2. ASSUME NEW p \in Proc, StartHoldOff(p) PROVE CountInv'
  BY <1>2 DEF StartHoldOff, AtStart, WantRunning
<1>3. ASSUME NEW p \in Proc, StartSpawn(p) PROVE CountInv'
  <2>1. StartedIsKnown'
    BY <1>3 DEF StartSpawn, AtStart, Spawn
  <2>2. LaunchAccounting'
    <3>1. ~everStarted[p] /\ launches[p] = restarts[p]
      BY <1>3 DEF AtStart, StartSpawn
    <3>2. /\ launches'[p] = launches[p] + 1 /\ restarts'[p] = restarts[p] /\ everStarted'[p]
          /\ \A o \in Proc \ {p} : /\ launches'[o] = launches[o] /\ restarts'[o] = restarts[o]
                                   /\ everStarted'[o] = everStarted[o]
      BY <1>3 DEF StartSpawn, Spawn
    <3>q. QED
      BY <3>1, <3>2, ZenonT(30)
  <2>3. RestartCap'
    BY <1>3 DEF StartSpawn, AtStart, Spawn
  <2>q. QED
    BY <2>1, <2>2, <2>3
<1>4. ASSUME NEW p \in Proc, StartSpawnFails(p) PROVE CountInv'
  BY <1>4 DEF StartSpawnFails, AtStart
<1>5. CASE StartDone
  BY <1>5 DEF StartDone
<1>6. ASSUME NEW p \in Proc, DiffSkip(p) PROVE CountInv'
  BY <1>6 DEF DiffSkip, AtDiff
<1>7. ASSUME NEW p \in Proc, DiffSpawn(p) PROVE CountInv'
  <2>1. StartedIsKnown'
    BY <1>7 DEF DiffSpawn, AtDiff, Spawn
  <2>2. LaunchAccounting'
    BY <1>7 DEF DiffSpawn, AtDiff, Spawn
  <2>3. RestartCap'
    BY <1>7, ZenonT(30) DEF DiffSpawn, AtDiff, Spawn
  <2>q. QED
    BY <2>1, <2>2, <2>3
<1>8. ASSUME NEW p \in Proc, DiffSpawnFails(p) PROVE CountInv'
  BY <1>8 DEF DiffSpawnFails, AtDiff
<1>9. ASSUME NEW p \in Proc, DiffStop(p) PROVE CountInv'
  BY <1>9 DEF DiffStop, AtDiff, Terminate
<1>10. ASSUME NEW p \in Proc, FinishStop(p) PROVE CountInv'
  BY <1>10 DEF FinishStop
<1>11. CASE DiffDone
  BY <1>11 DEF DiffDone
<1>12. ASSUME NEW p \in Proc, ReapNothing(p) PROVE CountInv'
  BY <1>12 DEF ReapNothing
<1>13. ASSUME NEW p \in Proc, ReapRelaunch(p) PROVE CountInv'
  <2>1. StartedIsKnown'
    BY <1>13, ZenonT(30) DEF ReapRelaunch, Reaping, Spawn, Relaunchable
  <2>2. LaunchAccounting'
    BY <1>13, ZenonT(30) DEF ReapRelaunch, Reaping, Spawn, Relaunchable
  <2>3. RestartCap'
    BY <1>13, RelaunchWithinCap
  <2>q. QED
    BY <2>1, <2>2, <2>3
<1>14. ASSUME NEW p \in Proc, ReapRelaunchFails(p) PROVE CountInv'
  BY <1>14 DEF ReapRelaunchFails, Reaping, Relaunchable, Collect
<1>15. ASSUME NEW p \in Proc, ReapHarmless(p) PROVE CountInv'
  BY <1>15 DEF ReapHarmless, Reaping, Collect
<1>16. ASSUME NEW p \in Proc, ReapFatal(p) PROVE CountInv'
  BY <1>16 DEF ReapFatal, Reaping, Collect
<1>17. CASE ReapDone
  BY <1>17 DEF ReapDone
<1>18. CASE CheckAllDone
  BY <1>18 DEF CheckAllDone
<1>19. CASE CheckDeadline
  BY <1>19 DEF CheckDeadline
<1>20. CASE CheckAgain
  BY <1>20 DEF CheckAgain
<1>21. CASE TermAll
  BY <1>21 DEF TermAll, Terminate
<1>22. ASSUME NEW p \in Proc, KillNone(p) PROVE CountInv'
  BY <1>22 DEF KillNone, AtKill
<1>23. ASSUME NEW p \in Proc, KillOne(p) PROVE CountInv'
  BY <1>23 DEF KillOne, AtKill
<1>24. CASE KillDone
  BY <1>24 DEF KillDone
<1>25. ASSUME NEW g \in FGs, NEW s \in States, PublishBegin(g, s) PROVE CountInv'
  BY <1>25 DEF PublishBegin
<1>26. ASSUME NEW g \in FGs, PublishEnd(g) PROVE CountInv'
  BY <1>26 DEF PublishEnd
<1>27. ASSUME NEW p \in Proc, NEW kind \in ExitKinds, ChildExit(p, kind) PROVE CountInv'
  BY <1>27 DEF ChildExit
<1>28. CASE UNCHANGED vars
  BY <1>28 DEF vars
<1> HIDE DEF IInv, TypeOK, CountInv, StartedIsKnown, LaunchAccounting, RestartCap,
     ControlInv, StartedSoFar
<1>q. QED
  BY <1>1, <1>2, <1>3, <1>4, <1>5, <1>6, <1>7, <1>8, <1>9, <1>10, <1>11, <1>12, <1>13,
     <1>14, <1>15, <1>16, <1>17, <1>18, <1>19, <1>20, <1>21, <1>22, <1>23, <1>24, <1>25,
     <1>26, <1>27, <1>28
  DEF Next, Daemon, StartAll, SetDiff, Reap, Shutdown, Environment, Stopped

\* Every step preserves what is known about how the daemon ends.
LEMMA EndInvStep == IInv /\ TypeOK' /\ [Next]_vars => EndInv'
<1> SUFFICES ASSUME IInv, TypeOK', [Next]_vars PROVE EndInv'
  OBVIOUS
<1> USE ConstantsOK DEF IInv, TypeOK, EndInv, GivenUpIsDown, FatalHasCulprit,
     NormalEndIsComplete, ControlInv, Places, StartedSoFar, KilledSoFar, ChildInv,
     PidMatchesChild
<1>1. CASE Seed
  BY <1>1 DEF Seed
<1>2. ASSUME NEW p \in Proc, StartHoldOff(p) PROVE EndInv'
  BY <1>2 DEF StartHoldOff, AtStart, WantRunning
<1>3. ASSUME NEW p \in Proc, StartSpawn(p) PROVE EndInv'
  BY <1>3 DEF StartSpawn, AtStart, Spawn
<1>4. ASSUME NEW p \in Proc, StartSpawnFails(p) PROVE EndInv'
  BY <1>4 DEF StartSpawnFails, AtStart
<1>5. CASE StartDone
  BY <1>5 DEF StartDone
<1>6. ASSUME NEW p \in Proc, DiffSkip(p) PROVE EndInv'
  BY <1>6 DEF DiffSkip, AtDiff
<1>7. ASSUME NEW p \in Proc, DiffSpawn(p) PROVE EndInv'
  BY <1>7 DEF DiffSpawn, AtDiff, Spawn
<1>8. ASSUME NEW p \in Proc, DiffSpawnFails(p) PROVE EndInv'
  BY <1>8 DEF DiffSpawnFails, AtDiff
<1>9. ASSUME NEW p \in Proc, DiffStop(p) PROVE EndInv'
  BY <1>9 DEF DiffStop, AtDiff, Terminate
<1>10. ASSUME NEW p \in Proc, FinishStop(p) PROVE EndInv'
  BY <1>10 DEF FinishStop
<1>11. CASE DiffDone
  BY <1>11 DEF DiffDone
<1>12. ASSUME NEW p \in Proc, ReapNothing(p) PROVE EndInv'
  BY <1>12 DEF ReapNothing
<1>13. ASSUME NEW p \in Proc, ReapRelaunch(p) PROVE EndInv'
  BY <1>13 DEF ReapRelaunch, Reaping, Spawn
<1>14. ASSUME NEW p \in Proc, ReapRelaunchFails(p) PROVE EndInv'
  BY <1>14 DEF ReapRelaunchFails, Reaping, Relaunchable, Collect
<1>15. ASSUME NEW p \in Proc, ReapHarmless(p) PROVE EndInv'
  BY <1>15 DEF ReapHarmless, Reaping, Collect
<1>16. ASSUME NEW p \in Proc, ReapFatal(p) PROVE EndInv'
  BY <1>16 DEF ReapFatal, Reaping, Collect, Harmless
<1>17. CASE ReapDone
  BY <1>17 DEF ReapDone
<1>18. CASE CheckAllDone
  BY <1>18 DEF CheckAllDone, AllDone
<1>19. CASE CheckDeadline
  BY <1>19 DEF CheckDeadline
<1>20. CASE CheckAgain
  BY <1>20 DEF CheckAgain
<1>21. CASE TermAll
  BY <1>21 DEF TermAll, Terminate
<1>22. ASSUME NEW p \in Proc, KillNone(p) PROVE EndInv'
  BY <1>22 DEF KillNone, AtKill
<1>23. ASSUME NEW p \in Proc, KillOne(p) PROVE EndInv'
  BY <1>23 DEF KillOne, AtKill
<1>24. CASE KillDone
  BY <1>24 DEF KillDone
<1>25. ASSUME NEW g \in FGs, NEW s \in States, PublishBegin(g, s) PROVE EndInv'
  BY <1>25 DEF PublishBegin
<1>26. ASSUME NEW g \in FGs, PublishEnd(g) PROVE EndInv'
  BY <1>26 DEF PublishEnd
<1>27. ASSUME NEW p \in Proc, NEW kind \in ExitKinds, ChildExit(p, kind) PROVE EndInv'
  BY <1>27 DEF ChildExit
<1>28. CASE UNCHANGED vars
  BY <1>28 DEF vars
<1> HIDE DEF IInv, TypeOK, EndInv, GivenUpIsDown, FatalHasCulprit, NormalEndIsComplete,
     ControlInv, Places, StartedSoFar, KilledSoFar, ChildInv, PidMatchesChild
<1>q. QED
  BY <1>1, <1>2, <1>3, <1>4, <1>5, <1>6, <1>7, <1>8, <1>9, <1>10, <1>11, <1>12, <1>13,
     <1>14, <1>15, <1>16, <1>17, <1>18, <1>19, <1>20, <1>21, <1>22, <1>23, <1>24, <1>25,
     <1>26, <1>27, <1>28
  DEF Next, Daemon, StartAll, SetDiff, Reap, Shutdown, Environment, Stopped

\* The daemon starts where the invariant holds.
LEMMA InitHolds == Init => IInv
<1> SUFFICES ASSUME Init PROVE IInv
  OBVIOUS
<1> USE ConstantsOK DEF Init
<1>1. TypeOK
  <2>1. cur \in 1..(N + 1) /\ rc \in 0..3
    OBVIOUS
  <2>2. exits \in 0..MaxExits /\ publishes \in 0..MaxPublishes /\ spawnFails \in 0..MaxSpawnFails
    OBVIOUS
  <2>3. child \in [Proc -> ChildStates] /\ store \in [FGs -> FgValues]
        /\ writing \in [FGs -> States \cup {NoState}]
    OBVIOUS
  <2>q. QED
    BY <2>1, <2>2, <2>3 DEF TypeOK
<1>2. ControlInv
  BY DEF ControlInv, Places, StartedSoFar, KilledSoFar
<1>3. ChildInv
  BY DEF ChildInv, PidMatchesChild, HeldOffHasNoChild, TermBeforeKill
<1>4. CountInv
  BY DEF CountInv, StartedIsKnown, LaunchAccounting, RestartCap
<1>5. EndInv
  BY DEF EndInv, GivenUpIsDown, FatalHasCulprit, NormalEndIsComplete
<1>q. QED
  BY <1>1, <1>2, <1>3, <1>4, <1>5 DEF IInv

\* The inductive invariant of the daemon.
THEOREM Invariance == Spec => []IInv
<1>1. Init => IInv
  BY InitHolds
<1>2. IInv /\ [Next]_vars => IInv'
  BY TypeStep, ControlInvStep, ChildInvStep, CountInvStep, EndInvStep DEF IInv
<1>q. QED
  BY <1>1, <1>2, PTL DEF Spec

\* Every variable keeps its shape, whatever the launch table.
THEOREM TypeCorrect == Spec => []TypeOK
<1>1. IInv => TypeOK
  BY DEF IInv
<1>q. QED
  BY <1>1, Invariance, PTL

\* Runtime.pid and the kernel's process table never disagree: no child is
\* lost without being collected and none is waited for twice.
THEOREM PidsAreChildren == Spec => []PidMatchesChild
<1>1. IInv => PidMatchesChild
  BY DEF IInv, ChildInv
<1>q. QED
  BY <1>1, Invariance, PTL

\* When main returns after RunForMs, ShutdownAll has collected every child.
THEOREM NoOrphans == Spec => []NoOrphanAfterExit
<1>1. IInv => NoOrphanAfterExit
  BY DEF IInv, ControlInv, KilledSoFar, ChildInv, PidMatchesChild, NoOrphanAfterExit
<1>q. QED
  BY <1>1, Invariance, PTL

\* LaunchCount and RestartCount agree: every launch but the first is a restart.
THEOREM LaunchesAreCounted == Spec => []LaunchAccounting
<1>1. IInv => LaunchAccounting
  BY DEF IInv, CountInv
<1>q. QED
  BY <1>1, Invariance, PTL

\* PollOnce never relaunches an always-on process beyond max_restarts.
THEOREM RestartsAreCapped == Spec => []RestartCap
<1>1. IInv => RestartCap
  BY DEF IInv, CountInv
<1>q. QED
  BY <1>1, Invariance, PTL

\* StartAll and ApplyFgSetDiff launch nothing before the always-on processes it
\* depends on.
THEOREM DependenciesFirst == Spec => []DependencyOrder
<1>1. ASSUME IInv, NEW p \in Proc
      PROVE  launches[p] > 0 <=> everStarted[p]
  BY <1>1 DEF IInv, TypeOK, CountInv, LaunchAccounting, StartedIsKnown
<1>2. ASSUME IInv, NEW p \in Proc, NEW d \in Deps[p], AlwaysOn(d), everStarted[p]
      PROVE  d \in Proc /\ everStarted[d]
  <2>1. d \in Proc /\ d < p
    BY DepsOrdered
  <2>2. everStarted[d]
    BY <1>2, <2>1 DEF IInv, TypeOK, ControlInv, StartedSoFar
  <2>q. QED
    BY <2>1, <2>2
<1>3. IInv => DependencyOrder
  BY <1>1, <1>2 DEF DependencyOrder
<1>q. QED
  BY <1>3, Invariance, PTL

\* StopForFg is over before the daemon does anything else, so an intended stop
\* is never taken for a crash.
THEOREM HeldOffAreDown == Spec => []HeldOffHasNoChild
<1>1. IInv => HeldOffHasNoChild
  BY DEF IInv, ChildInv
<1>q. QED
  BY <1>1, Invariance, PTL

\* StopForFg and ShutdownAll send SIGTERM before they send SIGKILL.
THEOREM TermComesFirst == Spec => []TermBeforeKill
<1>1. IInv => TermBeforeKill
  BY DEF IInv, ChildInv
<1>q. QED
  BY <1>1, Invariance, PTL

\* RunForMs returns 1 only for a process that is down for good.
THEOREM FatalIsExplained == Spec => []FatalHasCulprit
<1>1. IInv => FatalHasCulprit
  BY DEF IInv, EndInv
<1>q. QED
  BY <1>1, Invariance, PTL

\* RunForMs returns 0 only when no child is left.
THEOREM NormalEnds == Spec => []NormalEndIsComplete
<1>1. IInv => NormalEndIsComplete
  BY DEF IInv, EndInv
<1>q. QED
  BY <1>1, Invariance, PTL

\* What the end of the daemon means, return code by return code.
THEOREM ReturnCodesMean == Spec => []ReturnCodeSound
BY NormalEnds, FatalIsExplained, NoOrphans, PTL DEF ReturnCodeSound

\* The launch count of p changes only when p is spawned: by StartAll, by
\* ApplyFgSetDiff or by PollOnce.
Launching(p) == StartSpawn(p) \/ DiffSpawn(p) \/ ReapRelaunch(p)

\* A child appears in a step of the daemon that spawns one.
LEMMA OnlySpawnLaunches ==
  ASSUME TypeOK, [Next]_vars, NEW p \in Proc, launches'[p] # launches[p]
  PROVE  Launching(p)
<1>1. CASE StartAll
  BY <1>1 DEF TypeOK, Launching, StartAll, Seed, StartHoldOff, StartSpawn, StartSpawnFails,
     StartDone, Spawn
<1>2. CASE SetDiff
  BY <1>2, ZenonT(30) DEF TypeOK, Launching, SetDiff, DiffSkip, DiffSpawn, DiffSpawnFails, DiffStop,
     FinishStop, DiffDone, Spawn
<1>3. CASE Reap
  BY <1>3, ZenonT(30) DEF TypeOK, Launching, Reap, ReapNothing, ReapRelaunch, ReapRelaunchFails,
     ReapHarmless, ReapFatal, ReapDone, Collect, Spawn
<1>4. CASE CheckAllDone \/ CheckDeadline \/ CheckAgain \/ Shutdown
  BY <1>4 DEF CheckAllDone, CheckDeadline, CheckAgain, Shutdown, TermAll, KillNone,
     KillOne, KillDone
<1>5. CASE Environment
  BY <1>5 DEF Environment, PublishBegin, PublishEnd, ChildExit
<1>6. CASE UNCHANGED vars
  BY <1>6 DEF vars
<1>q. QED
  BY <1>1, <1>2, <1>3, <1>4, <1>5, <1>6 DEF Next, Daemon, Stopped

\* No process is launched while a child of it lives.
THEOREM OneInstance == Spec => NoDoubleLaunch
<1>1. ASSUME IInv, [Next]_vars, NEW p \in Proc, launches'[p] # launches[p]
      PROVE  child[p] \notin Live
  <2>1. CASE StartSpawn(p)
    BY <1>1, <2>1 DEF StartSpawn, AtStart, IInv, TypeOK, ControlInv, StartedSoFar,
       CountInv, StartedIsKnown, ChildInv, PidMatchesChild
  <2>2. CASE DiffSpawn(p)
    BY <1>1, <2>2 DEF DiffSpawn, IInv, ChildInv, PidMatchesChild
  <2>3. CASE ReapRelaunch(p)
    BY <1>1, <2>3 DEF ReapRelaunch, Reaping
  <2>q. QED
    BY <1>1, <2>1, <2>2, <2>3, OnlySpawnLaunches DEF IInv, Launching
<1>2. IInv /\ [Next]_vars =>
        [\A p \in Proc : launches'[p] # launches[p] => child[p] \notin Live]_vars
  BY <1>1
<1>q. QED
  BY <1>2, Invariance, PTL DEF Spec, NoDoubleLaunch

\* Neither the set-difference nor the sweep brings back an always-on process
\* that has been given up.
THEOREM GivenUpIsFinal == Spec => GivenUpStaysDown
<1>1. ASSUME IInv, [Next]_vars, NEW p \in Proc, AlwaysOn(p), terminalExit[p]
      PROVE  launches'[p] = launches[p]
  <2>1. ~StartSpawn(p)
    BY <1>1 DEF StartSpawn, AtStart, IInv, EndInv, GivenUpIsDown
  <2>2. ~DiffSpawn(p)
    BY <1>1 DEF DiffSpawn
  <2>3. ~ReapRelaunch(p)
    BY <1>1 DEF ReapRelaunch, Reaping, IInv, EndInv, GivenUpIsDown
  <2>q. QED
    BY <1>1, <2>1, <2>2, <2>3, OnlySpawnLaunches DEF IInv, Launching
<1>2. IInv /\ [Next]_vars =>
        [\A p \in Proc : AlwaysOn(p) /\ terminalExit[p] => launches'[p] = launches[p]]_vars
  BY <1>1
<1>q. QED
  BY <1>2, Invariance, PTL DEF Spec, GivenUpStaysDown

----------------------------------------------------------------------------
(* TopoSort, which makes the launch table ready for StartAll: its state is  *)
(* apart from the daemon's, and its table may have any number of rows.      *)

\* The edge from u to v has been removed; the dependencies of v whose edges have not.
Removed(u, v) == \E k \in 1..qi : q[k] = u /\ ~(k = qi /\ v \in todo)
Left(v) == {d \in dependsOn[v] : ~Removed(index[d], v)}
InQ(v) == \E k \in 1..Len(q) : q[k] = v

Early == {"index", "build", "unknown"}

\* What the map of names says.
IndexInv ==
  /\ \A n \in Names : index[n] # 0 => name[index[n]] = n
  /\ sortPc \notin Early => \A v \in Row : \A d \in dependsOn[v] : index[d] \in Row

\* The queue holds no row twice, and the result is the part of it that was taken.
QueueInv ==
  /\ \A k, m \in 1..Len(q) : q[k] = q[m] => k = m
  /\ sortPc \in Early => q = << >>
  /\ sortPc \in Early \cup {"fill"} => qi = 0
  /\ sortPc = "fill" => \A k \in 1..Len(q) : q[k] < row
  /\ Len(ordered) = qi /\ \A k \in 1..qi : ordered[k] = q[k]
  /\ sortPc = "visit" => qi > 0 /\ todo \subseteq Adj(q[qi])
  /\ sortPc # "visit" => todo = {}

\* A row is in the queue exactly when its last edge is gone.
EdgeInv ==
  sortPc \notin Early =>
    /\ \A v \in Row : indeg[v] = Cardinality(Left(v))
    /\ \A v \in Row : InQ(v) => Left(v) = {}
    /\ \A v \in Row : Left(v) = {} => InQ(v) \/ (sortPc = "fill" /\ v >= row)

\* Each row in the queue comes after those it depends on.
BeforeInv ==
  \A k \in 1..Len(q) : \A d \in dependsOn[q[k]] : \E m \in 1..(k - 1) : q[m] = index[d]

\* What the verdict was based on.
VerdictInv ==
  /\ sortPc = "ordered" => qi = Len(q) /\ Len(ordered) = Rows
  /\ sortPc = "cycle" => qi = Len(q) /\ Len(ordered) # Rows

\* The inductive invariant.
SortInv == SortTypeOK /\ IndexInv /\ QueueInv /\ EdgeInv /\ BeforeInv /\ VerdictInv

USE TableIsFinite DEF SortTypeOK, table, Early

\* The edges left into a row are finitely many.
LEMMA LeftIsFinite ==
  ASSUME SortTypeOK, NEW v \in Row
  PROVE  /\ IsFiniteSet(Left(v)) /\ Cardinality(Left(v)) \in Nat
         /\ Cardinality(Left(v)) = 0 <=> Left(v) = {}
<1>1. Left(v) \in SUBSET Names
  BY DEF SortTypeOK, Left
<1>2. IsFiniteSet(Left(v))
  BY <1>1, FS_Subset
<1>q. QED
  BY <1>2, FS_CardinalityType, FS_EmptySet

\* A visit of v removes the one edge from the row that was taken into v.
LEMMA VisitRemovesOne ==
  ASSUME SortTypeOK, IndexInv, QueueInv, NEW v \in Row, Visit(v)
  PROVE  /\ \E d \in Left(v) : Left(v)' = Left(v) \ {d}
         /\ \A w \in Row \ {v} : Left(w)' = Left(w)
<1>1. /\ sortPc = "visit" /\ qi \in 1..Len(q) /\ v \in todo /\ v \in Adj(q[qi])
      /\ todo' = todo \ {v} /\ UNCHANGED <<qi, index, dependsOn>>
  BY DEF Visit, QueueInv, SortTypeOK
<1>2. \A k \in 1..qi : q'[k] = q[k]
  <2>1. \A k \in 1..Len(q) : Append(q, v)[k] = q[k]
    BY AppendProperties DEF SortTypeOK
  <2>q. QED
    BY <1>1, <2>1 DEF Visit, SortTypeOK
<1>3. ASSUME NEW u, NEW w \in Row
      PROVE  Removed(u, w)' <=> Removed(u, w) \/ (u = q[qi] /\ w = v)
  <2>1. Removed(u, w)' <=> \E k \in 1..qi : q[k] = u /\ ~(k = qi /\ w \in todo \ {v})
    BY <1>1, <1>2 DEF Removed
  <2>2. qi \in 1..qi
    BY <1>1
  <2>3. CASE w = v
    BY <1>1, <2>1, <2>2, <2>3 DEF Removed
  <2>4. CASE w # v
    BY <1>1, <2>1, <2>4 DEF Removed
  <2>q. QED
    BY <2>3, <2>4
<1>4. PICK d \in dependsOn[v] : index[d] = q[qi]
  BY <1>1 DEF Adj
<1>5. ~Removed(q[qi], v)
  BY <1>1 DEF Removed, QueueInv
<1>6. \A e \in dependsOn[v] : index[e] = q[qi] => e = d
  <2>1. \A e \in dependsOn[v] : e \in Names /\ index[e] # 0
    BY <1>1 DEF IndexInv, SortTypeOK, Row
  <2>q. QED
    BY <2>1, <1>4 DEF IndexInv
<1>7. Left(v)' = Left(v) \ {d}
  BY <1>1, <1>3, <1>4, <1>6 DEF Left
<1>8. \A w \in Row \ {v} : Left(w)' = Left(w)
  BY <1>1, <1>3 DEF Left
<1>9. d \in Left(v)
  BY <1>4, <1>5 DEF Left
<1>q. QED
  BY <1>7, <1>8, <1>9

\* So its in-degree goes down by one, and it was not in the queue.
LEMMA VisitCounts ==
  ASSUME SortTypeOK, IndexInv, QueueInv, EdgeInv, NEW v \in Row, Visit(v)
  PROVE  /\ indeg[v] > 0 /\ Cardinality(Left(v)') = indeg[v] - 1
         /\ indeg[v] = 1 <=> Left(v)' = {}
         /\ ~InQ(v)
<1>1. PICK d \in Left(v) : Left(v)' = Left(v) \ {d}
  BY VisitRemovesOne
<1>2. indeg[v] = Cardinality(Left(v)) /\ (InQ(v) => Left(v) = {})
  BY DEF EdgeInv, Visit
<1>3. Cardinality(Left(v)') = indeg[v] - 1 /\ IsFiniteSet(Left(v)')
  <2>1. IsFiniteSet(Left(v))
    BY LeftIsFinite
  <2>2. IsFiniteSet(Left(v) \ {d}) /\ Cardinality(Left(v) \ {d}) = Cardinality(Left(v)) - 1
    BY <2>1, FS_RemoveElement
  <2>q. QED
    BY <1>1, <1>2, <2>2
<1>4. Cardinality(Left(v)') = 0 <=> Left(v)' = {}
  BY <1>3, FS_EmptySet
<1>q. QED
  BY <1>1, <1>2, <1>3, <1>4, LeftIsFinite DEF SortTypeOK

\* Steps that change neither the queue nor what has been taken leave every edge as it is.
LEMMA LeftUnchanged ==
  ASSUME UNCHANGED <<dependsOn, index, q, qi, todo>>, NEW v
  PROVE  Left(v)' = Left(v) /\ InQ(v)' = InQ(v)
BY DEF Left, Removed, InQ

\* Taking a row removes no edge that matters to a row that depends on it.
LEMMA TakeLeavesEdges ==
  ASSUME SortTypeOK, QueueInv, Take, NEW v \in Row
  PROVE  Left(v)' = Left(v) /\ InQ(v)' = InQ(v)
<1> USE DEF SortTypeOK
<1>1. /\ todo = {} /\ qi' = qi + 1 /\ qi + 1 \in 1..Len(q) /\ todo' = Adj(q[qi + 1])
      /\ UNCHANGED <<dependsOn, index, q>>
  BY DEF Take, QueueInv
<1>2. ASSUME NEW d \in dependsOn[v]
      PROVE  Removed(index[d], v)' <=> Removed(index[d], v)
  <2>1. v \in Adj(q[qi + 1]) <=> \E e \in dependsOn[v] : index[e] = q[qi + 1]
    BY DEF Adj
  <2>2. Removed(index[d], v) <=> \E k \in 1..qi : q[k] = index[d]
    BY <1>1 DEF Removed
  <2>3. Removed(index[d], v)' <=>
          \E k \in 1..(qi + 1) : q[k] = index[d] /\ ~(k = qi + 1 /\ v \in Adj(q[qi + 1]))
    BY <1>1 DEF Removed
  <2>q. QED
    BY <2>1, <2>2, <2>3
<1>3. Left(v)' = Left(v)
  BY <1>1, <1>2 DEF Left
<1>q. QED
  BY <1>1, <1>3 DEF InQ

\* Fill and Visit add at most one row to the queue, at its end.
Grows(v) ==
  /\ q' \in Seq(Row) /\ Len(q') = Len(q) + 1 /\ q'[Len(q) + 1] = v
  /\ \A k \in 1..Len(q) : q'[k] = q[k]

\* One more at the end.
LEMMA AppendGrows ==
  ASSUME q \in Seq(Row), NEW v \in Row, q' = Append(q, v)
  PROVE  Grows(v)
BY AppendProperties DEF Grows

\* What one more element does to a sequence without repetitions.
LEMMA ExtendInjective ==
  ASSUME NEW n \in Nat, NEW s, NEW t, NEW v,
         \A k \in 1..n : t[k] = s[k], t[n + 1] = v,
         \A k, m \in 1..n : s[k] = s[m] => k = m, \A k \in 1..n : s[k] # v
  PROVE  \A k, m \in 1..(n + 1) : t[k] = t[m] => k = m
<1>1. \A k \in 1..(n + 1) : k \in 1..n \/ k = n + 1
  OBVIOUS
<1>q. QED
  BY <1>1

\* The elements of a longer queue.
LEMMA ExtendRange ==
  ASSUME NEW n \in Nat, NEW s, NEW t, NEW v,
         \A k \in 1..n : t[k] = s[k], t[n + 1] = v, NEW w
  PROVE  (\E k \in 1..(n + 1) : t[k] = w) <=> (\E k \in 1..n : s[k] = w) \/ w = v
<1>1. \A k \in 1..(n + 1) : k \in 1..n \/ k = n + 1
  OBVIOUS
<1>2. \A k \in 1..n : k \in 1..(n + 1)
  OBVIOUS
<1>q. QED
  BY <1>1, <1>2

\* What was in the queue stays.
LEMMA GrowsRange ==
  ASSUME q \in Seq(Row), NEW v, Grows(v), NEW w
  PROVE  InQ(w)' <=> InQ(w) \/ w = v
<1>1. /\ Len(q) \in Nat /\ Len(q') = Len(q) + 1 /\ q'[Len(q) + 1] = v
      /\ \A k \in 1..Len(q) : q'[k] = q[k]
  BY DEF Grows
<1>2. (\E k \in 1..(Len(q) + 1) : q'[k] = w) <=> (\E k \in 1..Len(q) : q[k] = w) \/ w = v
  BY ONLY <1>1, ExtendRange
<1>q. QED
  BY <1>1, <1>2 DEF InQ

\* Those already in the queue keep their places.
LEMMA GrowsKeepsOrder ==
  ASSUME q \in Seq(Row), BeforeInv, NEW v, Grows(v), UNCHANGED <<dependsOn, index>>,
         \A d \in dependsOn[v] : \E k \in 1..Len(q) : q[k] = index[d]
  PROVE  BeforeInv'
<1> SUFFICES ASSUME NEW k \in 1..Len(q'), NEW d \in dependsOn[q'[k]]
             PROVE  \E m \in 1..(k - 1) : q'[m] = index[d]
  BY DEF BeforeInv
<1>1. /\ Len(q) \in Nat /\ Len(q') = Len(q) + 1 /\ q'[Len(q) + 1] = v
      /\ \A m \in 1..Len(q) : q'[m] = q[m]
  BY DEF Grows
<1>2. CASE k = Len(q) + 1
  <2>1. PICK m \in 1..Len(q) : q[m] = index[d]
    BY <1>1, <1>2
  <2>q. QED
    BY <1>1, <1>2, <2>1
<1>3. CASE k \in 1..Len(q)
  <2>1. PICK m \in 1..(k - 1) : q[m] = index[d]
    BY <1>1, <1>3 DEF BeforeInv
  <2>2. m \in 1..Len(q)
    BY <1>1, <1>3
  <2>q. QED
    BY <1>1, <2>1, <2>2
<1>q. QED
  BY <1>1, <1>2, <1>3

\* A row that was not in the queue makes no pair.
LEMMA GrowsInjective ==
  ASSUME q \in Seq(Row), NEW v, Grows(v), ~InQ(v),
         \A k, m \in 1..Len(q) : q[k] = q[m] => k = m
  PROVE  \A k, m \in 1..Len(q') : q'[k] = q'[m] => k = m
<1>1. /\ Len(q) \in Nat /\ Len(q') = Len(q) + 1 /\ q'[Len(q) + 1] = v
      /\ \A k \in 1..Len(q) : q'[k] = q[k] /\ q[k] # v
      /\ \A k, m \in 1..Len(q) : q[k] = q[m] => k = m
  BY DEF Grows, InQ
<1>2. \A k, m \in 1..(Len(q) + 1) : q'[k] = q'[m] => k = m
  BY ONLY <1>1, ExtendInjective
<1>q. QED
  BY <1>1, <1>2

\* Every step preserves the types: an in-degree never goes below zero.
LEMMA SortTypeStep ==
  SortTypeOK /\ IndexInv /\ QueueInv /\ EdgeInv /\ [SortNext]_sortVars => SortTypeOK'
<1> SUFFICES ASSUME SortTypeOK, IndexInv, QueueInv, EdgeInv, [SortNext]_sortVars PROVE SortTypeOK'
  OBVIOUS
<1> USE DEF SortTypeOK
<1>1. CASE Index
  BY <1>1 DEF Index, Row
<1>2. CASE IndexDone
  BY <1>2 DEF IndexDone
<1>3. CASE BuildUnknown
  BY <1>3 DEF BuildUnknown
<1>4. CASE Build
  <2>1. \A v \in Row : Cardinality(dependsOn[v]) \in Nat
    BY FS_Subset, FS_CardinalityType
  <2>q. QED
    BY <1>4, <2>1 DEF Build
<1>5. CASE Fill
  <2>1. row \in Row /\ row + 1 \in 1..(Rows + 1)
    BY <1>5 DEF Fill, Row
  <2>2. q' \in Seq(Row) /\ qi' \in 0..Len(q')
    BY <1>5, <2>1, AppendGrows DEF Fill, Grows
  <2>q. QED
    BY <1>5, <2>1, <2>2 DEF Fill
<1>6. CASE FillDone
  BY <1>6 DEF FillDone
<1>7. CASE Take
  <2>1. qi + 1 \in 1..Len(q)
    BY <1>7 DEF Take
  <2>2. q[qi + 1] \in Row
    BY <2>1, ElementOfSeq
  <2>3. ordered' \in Seq(Row)
    BY <1>7, <2>2, AppendProperties DEF Take
  <2>q. QED
    BY <1>7, <2>1, <2>3 DEF Take, Adj
<1>8. CASE VisitDone
  BY <1>8 DEF VisitDone
<1>9. CASE Finish
  BY <1>9 DEF Finish
<1>10. CASE SortStopped
  BY <1>10 DEF SortStopped, sortVars
<1>11. ASSUME NEW v \in Row, Visit(v) PROVE SortTypeOK'
  <2>1. indeg[v] > 0
    BY <1>11, VisitCounts
  <2>2. q' \in Seq(Row) /\ qi' \in 0..Len(q')
    BY <1>11, AppendGrows DEF Visit, Grows
  <2>3. indeg' \in [Row -> Nat]
    BY <1>11, <2>1 DEF Visit
  <2>q. QED
    BY <1>11, <2>2, <2>3 DEF Visit
<1>12. CASE UNCHANGED sortVars
  BY <1>12 DEF sortVars
<1>q. QED
  BY <1>1, <1>2, <1>3, <1>4, <1>5, <1>6, <1>7, <1>8, <1>9, <1>10, <1>11, <1>12 DEF SortNext

\* Every step preserves what the map of names says.
LEMMA IndexInvStep == SortTypeOK /\ IndexInv /\ [SortNext]_sortVars => IndexInv'
<1> SUFFICES ASSUME SortTypeOK, IndexInv, [SortNext]_sortVars PROVE IndexInv'
  OBVIOUS
<1> USE DEF SortTypeOK, IndexInv
<1>1. CASE Index
  BY <1>1 DEF Index, Row
<1>2. CASE IndexDone
  BY <1>2 DEF IndexDone
<1>3. CASE BuildUnknown
  BY <1>3 DEF BuildUnknown
<1>4. CASE Build
  BY <1>4 DEF Build, Unknown, Row
<1>5. CASE Fill
  BY <1>5 DEF Fill
<1>6. CASE FillDone
  BY <1>6 DEF FillDone
<1>7. CASE Take
  BY <1>7 DEF Take
<1>8. CASE VisitDone
  BY <1>8 DEF VisitDone
<1>9. CASE Finish
  BY <1>9 DEF Finish
<1>10. CASE SortStopped
  BY <1>10 DEF SortStopped, sortVars
<1>11. ASSUME NEW v \in Row, Visit(v) PROVE IndexInv'
  BY <1>11 DEF Visit
<1>12. CASE UNCHANGED sortVars
  BY <1>12 DEF sortVars
<1>q. QED
  BY <1>1, <1>2, <1>3, <1>4, <1>5, <1>6, <1>7, <1>8, <1>9, <1>10, <1>11, <1>12 DEF SortNext

\* Every step preserves the shape of the queue.
LEMMA QueueInvStep ==
  SortTypeOK /\ IndexInv /\ QueueInv /\ EdgeInv /\ [SortNext]_sortVars => QueueInv'
<1> SUFFICES ASSUME SortTypeOK, IndexInv, QueueInv, EdgeInv, [SortNext]_sortVars PROVE QueueInv'
  OBVIOUS
<1> USE DEF SortTypeOK, QueueInv
<1>1. CASE Index
  BY <1>1 DEF Index
<1>2. CASE IndexDone
  BY <1>2 DEF IndexDone
<1>3. CASE BuildUnknown
  BY <1>3 DEF BuildUnknown
<1>4. CASE Build
  BY <1>4 DEF Build
<1>5. CASE Fill
  <2>1. row \in Row /\ sortPc = "fill" /\ sortPc' = "fill" /\ row' = row + 1 /\ qi' = qi /\ qi = 0
        /\ UNCHANGED <<ordered, todo>>
    BY <1>5 DEF Fill, Row
  <2>0. /\ \A k, m \in 1..Len(q) : q[k] = q[m] => k = m
        /\ \A k \in 1..Len(q) : q[k] < row /\ q[k] \in Nat
        /\ Len(q) \in Nat /\ Len(ordered) = 0 /\ todo = {}
    <3>1. \A k \in 1..Len(q) : q[k] \in Row
      BY ElementOfSeq
    <3>q. QED
      BY <2>1, <3>1 DEF Row
  <2>4. (\A k \in 1..qi : ordered[k] = q[k])'
    BY <2>1
  <2>2. CASE q' = q
    BY <2>0, <2>1, <2>2, <2>4
  <2>3. CASE q' = Append(q, row)
    <3>1. Grows(row)
      BY <2>1, <2>3, AppendGrows
    <3>4. ~InQ(row) /\ row \in Nat
      BY <2>0, <2>1 DEF InQ, Row
    <3>2. \A k, m \in 1..Len(q') : q'[k] = q'[m] => k = m
      BY <2>0, <3>1, <3>4, GrowsInjective
    <3>3. \A k \in 1..Len(q') : q'[k] < row + 1
      <4> SUFFICES ASSUME NEW k \in 1..Len(q') PROVE q'[k] < row + 1
        OBVIOUS
      <4>1. CASE k = Len(q) + 1
        BY <3>1, <3>4, <4>1 DEF Grows
      <4>2. CASE k \in 1..Len(q)
        <5>1. q'[k] = q[k]
          BY <3>1, <4>2 DEF Grows
        <5>2. q[k] < row /\ q[k] \in Nat
          BY <2>0, <4>2
        <5>q. QED
          BY ONLY <3>4, <5>1, <5>2
      <4>q. QED
        BY <2>0, <3>1, <4>1, <4>2 DEF Grows
    <3>q. QED
      BY <2>0, <2>1, <2>4, <3>2, <3>3
  <2>q. QED
    BY <1>5, <2>2, <2>3 DEF Fill
<1>6. CASE FillDone
  BY <1>6 DEF FillDone
<1>7. CASE Take
  <2>1. qi + 1 \in 1..Len(q)
    BY <1>7 DEF Take
  <2>2. q[qi + 1] \in Row
    BY <2>1, ElementOfSeq
  <2>3. Len(ordered') = qi + 1 /\ \A k \in 1..(qi + 1) : ordered'[k] = q[k]
    <3>1. ordered' = Append(ordered, q[qi + 1]) /\ q' = q
      BY <1>7 DEF Take
    <3>2. ordered \in Seq(Row) /\ Len(ordered) = qi /\ qi \in Nat
      BY <2>1
    <3>3. \A k \in 1..qi : ordered[k] = q[k]
      OBVIOUS
    <3>4. /\ Len(ordered') = qi + 1
          /\ \A k \in 1..qi : ordered'[k] = ordered[k]
          /\ ordered'[qi + 1] = q[qi + 1]
      BY ONLY <2>2, <3>1, <3>2, AppendProperties
    <3>q. QED
      BY ONLY <3>2, <3>3, <3>4
  <2>q. QED
    BY <1>7, <2>1, <2>3 DEF Take, Adj
<1>8. CASE VisitDone
  BY <1>8 DEF VisitDone, Adj
<1>9. CASE Finish
  BY <1>9 DEF Finish
<1>10. CASE SortStopped
  BY <1>10 DEF SortStopped, sortVars, Adj
<1>11. ASSUME NEW v \in Row, Visit(v) PROVE QueueInv'
  <2>1. /\ sortPc = "visit" /\ sortPc' = "visit" /\ todo' \subseteq todo /\ qi \in 1..Len(q)
        /\ UNCHANGED <<dependsOn, index, qi, ordered>>
    BY <1>11 DEF Visit
  <2>2. CASE q' = q
    BY <2>1, <2>2 DEF Adj
  <2>3. CASE q' = Append(q, v) /\ indeg[v] = 1
    <3>1. Grows(v)
      BY <2>3, AppendGrows
    <3>2. ~InQ(v)
      BY <1>11, VisitCounts
    <3>3. \A k, m \in 1..Len(q') : q'[k] = q'[m] => k = m
      BY <3>1, <3>2, GrowsInjective
    <3>4. \A k \in 1..qi : q'[k] = q[k]
      BY <2>1, <3>1 DEF Grows
    <3>5. q'[qi] = q[qi]
      BY <2>1, <3>4
    <3>6. (todo \subseteq Adj(q[qi]))'
      BY <2>1, <3>5 DEF Adj
    <3>7. (\A k \in 1..qi : ordered[k] = q[k])'
      BY <2>1, <3>4
    <3>q. QED
      BY <2>1, <3>3, <3>6, <3>7
  <2>q. QED
    BY <1>11, <2>2, <2>3 DEF Visit
<1>12. CASE UNCHANGED sortVars
  BY <1>12 DEF sortVars, Adj
<1>q. QED
  BY <1>1, <1>2, <1>3, <1>4, <1>5, <1>6, <1>7, <1>8, <1>9, <1>10, <1>11, <1>12 DEF SortNext

\* Every step preserves the link between edges, in-degrees and the queue.
LEMMA EdgeInvStep ==
  SortTypeOK /\ IndexInv /\ QueueInv /\ EdgeInv /\ [SortNext]_sortVars => EdgeInv'
<1> SUFFICES ASSUME SortTypeOK, IndexInv, QueueInv, EdgeInv, [SortNext]_sortVars PROVE EdgeInv'
  OBVIOUS
<1> USE DEF SortTypeOK, EdgeInv
<1>1. CASE Index
  BY <1>1 DEF Index
<1>2. CASE IndexDone
  BY <1>2 DEF IndexDone
<1>3. CASE BuildUnknown
  BY <1>3 DEF BuildUnknown
<1>4. CASE Build
  <2>1. \A v \in Row : Left(v)' = dependsOn[v]
    BY <1>4 DEF Build, QueueInv, Left, Removed
  <2>2. indeg' = [v \in Row |-> Cardinality(dependsOn[v])] /\ row' = 1 /\ sortPc' = "fill" /\ q' = << >>
    BY <1>4 DEF Build, QueueInv
  <2>3. \A v \in Row : ~InQ(v)' /\ v >= 1
    BY <2>2 DEF InQ, Row
  <2>q. QED
    BY <2>1, <2>2, <2>3
<1>5. CASE Fill
  <2>1. /\ row \in Row /\ sortPc = "fill" /\ sortPc' = "fill" /\ row' = row + 1 /\ qi = 0 /\ todo = {}
        /\ UNCHANGED <<dependsOn, index, qi, todo, indeg>>
    BY <1>5 DEF Fill, QueueInv, Row
  <2>2. \A v \in Row : Left(v)' = Left(v)
    BY <2>1 DEF Left, Removed
  <2>3. indeg[row] = 0 <=> Left(row) = {}
    BY <2>1, LeftIsFinite
  <2>4. CASE q' = q /\ Left(row) # {}
    <3>1. \A v \in Row : InQ(v)' = InQ(v)
      BY <2>4 DEF InQ
    <3>2. \A v \in Row : Left(v)' = {} => InQ(v)' \/ v >= row + 1
      <4> SUFFICES ASSUME NEW v \in Row, Left(v) = {} PROVE InQ(v) \/ v >= row + 1
        BY <2>2, <3>1
      <4>1. InQ(v) \/ v >= row
        BY <2>1
      <4>2. v # row /\ v \in Nat /\ row \in Nat
        BY <2>1, <2>4 DEF Row
      <4>q. QED
        BY ONLY <4>1, <4>2
    <3>3. \A v \in Row : indeg'[v] = Cardinality(Left(v)') /\ (InQ(v)' => Left(v)' = {})
      BY <2>1, <2>2, <3>1
    <3>q. QED
      BY <2>1, <3>2, <3>3
  <2>5. CASE q' = Append(q, row) /\ Left(row) = {}
    <3>1. \A v \in Row : InQ(v)' <=> InQ(v) \/ v = row
      BY <2>1, <2>5, AppendGrows, GrowsRange
    <3>2. \A v \in Row : Left(v)' = {} => InQ(v)' \/ v >= row + 1
      BY <2>1, <2>2, <3>1 DEF Row
    <3>3. \A v \in Row : indeg'[v] = Cardinality(Left(v)') /\ (InQ(v)' => Left(v)' = {})
      BY <2>1, <2>2, <2>5, <3>1
    <3>q. QED
      BY <2>1, <3>2, <3>3
  <2>q. QED
    BY <1>5, <2>3, <2>4, <2>5 DEF Fill
<1>6. CASE FillDone
  <2>1. UNCHANGED <<dependsOn, index, q, qi, todo, indeg>>
    BY <1>6 DEF FillDone
  <2>2. \A v \in Row : Left(v)' = Left(v) /\ InQ(v)' = InQ(v)
    BY <2>1, LeftUnchanged
  <2>3. sortPc = "fill" /\ sortPc' = "take" /\ \A v \in Row : ~(v >= row)
    BY <1>6 DEF FillDone, Row
  <2>q. QED
    BY <2>1, <2>2, <2>3
<1>7. CASE Take
  <2>1. \A v \in Row : Left(v)' = Left(v) /\ InQ(v)' = InQ(v)
    BY <1>7, TakeLeavesEdges
  <2>q. QED
    BY <1>7, <2>1 DEF Take
<1>8. CASE VisitDone
  <2>1. UNCHANGED <<dependsOn, index, q, qi, todo, indeg>>
    BY <1>8 DEF VisitDone
  <2>2. \A v \in Row : Left(v)' = Left(v) /\ InQ(v)' = InQ(v)
    BY <2>1, LeftUnchanged
  <2>q. QED
    BY <1>8, <2>1, <2>2 DEF VisitDone
<1>9. CASE Finish
  <2>1. UNCHANGED <<dependsOn, index, q, qi, todo, indeg>>
    BY <1>9 DEF Finish
  <2>2. \A v \in Row : Left(v)' = Left(v) /\ InQ(v)' = InQ(v)
    BY <2>1, LeftUnchanged
  <2>q. QED
    BY <1>9, <2>1, <2>2 DEF Finish
<1>10. CASE SortStopped
  <2>1. UNCHANGED <<dependsOn, index, q, qi, todo, indeg>>
    BY <1>10 DEF SortStopped, sortVars
  <2>2. \A v \in Row : Left(v)' = Left(v) /\ InQ(v)' = InQ(v)
    BY <2>1, LeftUnchanged
  <2>q. QED
    BY <1>10, <2>1, <2>2 DEF SortStopped, sortVars
<1>11. ASSUME NEW v \in Row, Visit(v) PROVE EdgeInv'
  <2>1. /\ Cardinality(Left(v)') = indeg[v] - 1
        /\ indeg[v] = 1 <=> Left(v)' = {}
    BY <1>11, VisitCounts
  <2>2. \A w \in Row \ {v} : Left(w)' = Left(w)
    BY <1>11, VisitRemovesOne
  <2>3. /\ sortPc = "visit" /\ sortPc' = "visit" /\ indeg'[v] = indeg[v] - 1
        /\ \A w \in Row \ {v} : indeg'[w] = indeg[w]
    BY <1>11 DEF Visit
  <2>4. \A w \in Row : indeg'[w] = Cardinality(Left(w)')
    BY <2>1, <2>2, <2>3
  <2>5. CASE q' = q /\ indeg[v] # 1
    <3>1. \A w \in Row : InQ(w)' = InQ(w)
      BY <2>5 DEF InQ
    <3>q. QED
      BY <1>11, VisitCounts, <2>1, <2>2, <2>3, <2>4, <2>5, <3>1
  <2>6. CASE q' = Append(q, v) /\ indeg[v] = 1
    <3>2. Grows(v) /\ Len(q) \in Nat
      BY <2>6, AppendGrows
    <3>1. \A w \in Row : InQ(w)' <=> InQ(w) \/ w = v
      BY <3>2, GrowsRange
    <3>q. QED
      BY <2>1, <2>2, <2>3, <2>4, <2>6, <3>1
  <2>q. QED
    BY <1>11, <2>5, <2>6 DEF Visit
<1>12. CASE UNCHANGED sortVars
  <2>1. UNCHANGED <<dependsOn, index, q, qi, todo, indeg>>
    BY <1>12 DEF sortVars
  <2>2. \A v \in Row : Left(v)' = Left(v) /\ InQ(v)' = InQ(v)
    BY <2>1, LeftUnchanged
  <2>q. QED
    BY <1>12, <2>1, <2>2 DEF sortVars
<1>q. QED
  BY <1>1, <1>2, <1>3, <1>4, <1>5, <1>6, <1>7, <1>8, <1>9, <1>10, <1>11, <1>12 DEF SortNext

\* Every step preserves the order of the queue.
LEMMA BeforeInvStep ==
  SortTypeOK /\ IndexInv /\ QueueInv /\ EdgeInv /\ BeforeInv /\ [SortNext]_sortVars => BeforeInv'
<1> SUFFICES ASSUME SortTypeOK, IndexInv, QueueInv, EdgeInv, BeforeInv, [SortNext]_sortVars
             PROVE BeforeInv'
  OBVIOUS
<1> USE DEF SortTypeOK, BeforeInv
<1>1. CASE Index
  BY <1>1 DEF Index, QueueInv
<1>2. CASE IndexDone
  BY <1>2 DEF IndexDone
<1>3. CASE BuildUnknown
  BY <1>3 DEF BuildUnknown
<1>4. CASE Build
  BY <1>4 DEF Build
<1>5. CASE Fill
  <2>1. /\ row \in Row /\ sortPc = "fill" /\ qi = 0 /\ UNCHANGED <<dependsOn, index>>
    BY <1>5 DEF Fill, QueueInv, Row
  <2>2. CASE q' = q
    BY <2>1, <2>2
  <2>3. CASE q' = Append(q, row) /\ indeg[row] = 0
    <3>1. Left(row) = {}
      BY <2>1, <2>3, LeftIsFinite DEF EdgeInv
    <3>2. dependsOn[row] = {}
      BY <2>1, <3>1 DEF Left, Removed
    <3>3. Grows(row)
      BY <2>1, <2>3, AppendGrows
    <3>q. QED
      BY <2>1, <3>2, <3>3, GrowsKeepsOrder
  <2>q. QED
    BY <1>5, <2>2, <2>3 DEF Fill
<1>6. CASE FillDone
  BY <1>6 DEF FillDone
<1>7. CASE Take
  BY <1>7 DEF Take
<1>8. CASE VisitDone
  BY <1>8 DEF VisitDone
<1>9. CASE Finish
  BY <1>9 DEF Finish
<1>10. CASE SortStopped
  BY <1>10 DEF SortStopped, sortVars
<1>11. ASSUME NEW v \in Row, Visit(v) PROVE BeforeInv'
  <2>1. /\ sortPc = "visit" /\ UNCHANGED <<dependsOn, index, qi>>
    BY <1>11 DEF Visit
  <2>2. CASE q' = q
    BY <2>1, <2>2
  <2>3. CASE q' = Append(q, v) /\ indeg[v] = 1
    <3>1. Left(v)' = {}
      BY <1>11, <2>3, VisitCounts
    <3>3. Grows(v)
      BY <2>3, AppendGrows
    <3>2. ASSUME NEW d \in dependsOn[v] PROVE \E k \in 1..Len(q) : q[k] = index[d]
      <4>1. PICK k \in 1..qi : q'[k] = index[d]
        BY <2>1, <3>1 DEF Left, Removed
      <4>2. k \in 1..Len(q)
        OBVIOUS
      <4>q. QED
        BY <3>3, <4>1, <4>2 DEF Grows
    <3>q. QED
      BY <2>1, <3>2, <3>3, GrowsKeepsOrder
  <2>q. QED
    BY <1>11, <2>2, <2>3 DEF Visit
<1>12. CASE UNCHANGED sortVars
  BY <1>12 DEF sortVars
<1>q. QED
  BY <1>1, <1>2, <1>3, <1>4, <1>5, <1>6, <1>7, <1>8, <1>9, <1>10, <1>11, <1>12 DEF SortNext

\* Every step preserves what the verdict is based on.
LEMMA VerdictInvStep == SortTypeOK /\ QueueInv /\ VerdictInv /\ [SortNext]_sortVars => VerdictInv'
<1> SUFFICES ASSUME SortTypeOK, QueueInv, VerdictInv, [SortNext]_sortVars PROVE VerdictInv'
  OBVIOUS
<1> USE DEF SortTypeOK, VerdictInv
<1>1. CASE Index
  BY <1>1 DEF Index
<1>2. CASE IndexDone
  BY <1>2 DEF IndexDone
<1>3. CASE BuildUnknown
  BY <1>3 DEF BuildUnknown
<1>4. CASE Build
  BY <1>4 DEF Build
<1>5. CASE Fill
  BY <1>5 DEF Fill
<1>6. CASE FillDone
  BY <1>6 DEF FillDone
<1>7. CASE Take
  BY <1>7 DEF Take
<1>8. CASE VisitDone
  BY <1>8 DEF VisitDone
<1>9. CASE Finish
  BY <1>9 DEF Finish
<1>10. CASE SortStopped
  BY <1>10 DEF SortStopped, sortVars
<1>11. ASSUME NEW v \in Row, Visit(v) PROVE VerdictInv'
  BY <1>11 DEF Visit
<1>12. CASE UNCHANGED sortVars
  BY <1>12 DEF sortVars
<1>q. QED
  BY <1>1, <1>2, <1>3, <1>4, <1>5, <1>6, <1>7, <1>8, <1>9, <1>10, <1>11, <1>12 DEF SortNext

\* The sort starts in the invariant.
LEMMA SortInitInv == SortInit => SortInv
<1> SUFFICES ASSUME SortInit PROVE SortInv
  OBVIOUS
<1>0. Len(q) = 0 /\ q \in Seq(Row)
  BY DEF SortInit
<1>1. SortTypeOK
  BY DEF SortInit, SortTypeOK
<1>2. IndexInv
  BY DEF SortInit, IndexInv
<1>3. QueueInv
  BY <1>0 DEF SortInit, QueueInv
<1>4. EdgeInv
  BY DEF SortInit, EdgeInv
<1>5. BeforeInv
  BY <1>0 DEF BeforeInv
<1>6. VerdictInv
  BY DEF SortInit, VerdictInv
<1>q. QED
  BY <1>1, <1>2, <1>3, <1>4, <1>5, <1>6 DEF SortInv

\* The invariant holds in every run.
THEOREM SortInvariance == SortSpec => []SortInv
<1>0. SortInit => SortInv
  BY SortInitInv
<1>1. SortInv /\ [SortNext]_sortVars => SortInv'
  BY SortTypeStep, IndexInvStep, QueueInvStep, EdgeInvStep, BeforeInvStep, VerdictInvStep DEF SortInv
<1>q. QED
  BY <1>0, <1>1, PTL DEF SortSpec

\* Every variable keeps its shape, whatever the table: no in-degree goes below zero.
THEOREM SortTypeCorrect == SortSpec => []SortTypeOK
<1>1. SortInv => SortTypeOK
  BY DEF SortInv
<1>q. QED
  BY SortInvariance, <1>1, PTL

\* A queue without repetitions holds every row exactly when it has Rows elements.
LEMMA QueueFills ==
  ASSUME SortTypeOK, QueueInv
  PROVE  (\A v \in Row : InQ(v)) <=> Len(q) = Rows
<1> DEFINE f == [k \in 1..Len(q) |-> q[k]]
<1>1. Len(q) \in Nat /\ \A k \in 1..Len(q) : q[k] \in Row
  BY ElementOfSeq DEF SortTypeOK
<1>2. f \in Injection(1..Len(q), Row)
  BY <1>1 DEF QueueInv, Injection, IsInjective
<1>3. \A n \in Nat : IsFiniteSet(1..n) /\ Cardinality(1..n) = n
  <2> SUFFICES ASSUME NEW n \in Nat PROVE IsFiniteSet(1..n) /\ Cardinality(1..n) = n
    OBVIOUS
  <2>1. Cardinality(1..n) = IF 1 > n THEN 0 ELSE n - 1 + 1
    BY FS_Interval
  <2>q. QED
    BY <2>1, FS_Interval
<1>6. IsFiniteSet(Row) /\ Cardinality(Row) = Rows /\ Cardinality(1..Len(q)) = Len(q)
  BY <1>1, <1>3 DEF Row
<1>4. Len(q) = Rows <=> f \in Surjection(1..Len(q), Row)
  BY <1>2, <1>6, FS_Injection
<1>5. f \in Surjection(1..Len(q), Row) <=> \A v \in Row : InQ(v)
  BY <1>1 DEF Surjection, InQ
<1>q. QED
  BY <1>4, <1>5

\* An accepted table comes out with every row once.
THEOREM AcceptedOrderIsPermutation == SortSpec => []OrderIsPermutation
<1>1. SortInv => OrderIsPermutation
  <2> SUFFICES ASSUME SortInv, sortPc = "ordered"
               PROVE  /\ Len(ordered) = Rows
                      /\ \A r \in Row : \E k \in Row : ordered[k] = r
                      /\ \A k, m \in Row : ordered[k] = ordered[m] => k = m
    BY DEF OrderIsPermutation
  <2>1. /\ Len(ordered) = Rows /\ Len(q) = Rows /\ qi = Rows
        /\ \A k \in Row : ordered[k] = q[k]
        /\ \A k, m \in Row : q[k] = q[m] => k = m
    BY DEF SortInv, VerdictInv, QueueInv, Row
  <2>2. \A r \in Row : \E k \in Row : q[k] = r
    BY <2>1, QueueFills DEF SortInv, InQ, Row
  <2>q. QED
    BY <2>1, <2>2
<1>q. QED
  BY SortInvariance, <1>1, PTL

\* In an accepted table each process comes after those it depends on.
THEOREM AcceptedOrderRespectsDependencies == SortSpec => []DependenciesComeFirst
<1>1. SortInv => DependenciesComeFirst
  <2> SUFFICES ASSUME SortInv, sortPc = "ordered", NEW k \in Row, NEW d \in dependsOn[ordered[k]]
               PROVE  \E m \in 1..(k - 1) : name[ordered[m]] = d
    BY DEF DependenciesComeFirst
  <2>1. /\ Len(q) = Rows /\ qi = Rows /\ k \in 1..Len(q)
        /\ \A m \in Row : ordered[m] = q[m]
    BY DEF SortInv, VerdictInv, QueueInv, Row
  <2>2. q[k] \in Row /\ d \in dependsOn[q[k]] /\ d \in Names
    BY <2>1, ElementOfSeq DEF SortInv, SortTypeOK
  <2>3. PICK m \in 1..(k - 1) : q[m] = index[d]
    BY <2>1, <2>2 DEF SortInv, BeforeInv
  <2>4. index[d] \in Row
    BY <2>2 DEF SortInv, IndexInv
  <2>5. name[index[d]] = d
    BY <2>2, <2>4 DEF SortInv, IndexInv, Row
  <2>6. m \in Row
    BY <2>1 DEF Row
  <2>q. QED
    BY <2>1, <2>3, <2>5, <2>6
<1>q. QED
  BY SortInvariance, <1>1, PTL

\* A table is refused as cyclic only when some of its rows wait for each other.
THEOREM RefusedTableIsCyclic == SortSpec => []CycleIsReal
<1>1. SortInv => CycleIsReal
  <2> SUFFICES ASSUME SortInv, sortPc = "cycle"
               PROVE  \E C \in SUBSET Row :
                        /\ C # {}
                        /\ \A v \in C : \E d \in dependsOn[v] : \E u \in C : name[u] = d
    BY DEF CycleIsReal
  <2> DEFINE C == {v \in Row : ~InQ(v)}
  <2>1. qi = Len(q) /\ Len(q) # Rows /\ todo = {}
    BY DEF SortInv, VerdictInv, QueueInv
  <2>2. C # {}
    BY <2>1, QueueFills DEF SortInv
  <2>3. ASSUME NEW v \in C PROVE \E d \in dependsOn[v] : \E u \in C : name[u] = d
    <3>1. v \in Row /\ Left(v) # {}
      BY DEF SortInv, EdgeInv
    <3>2. PICK d \in dependsOn[v] : ~Removed(index[d], v)
      BY <3>1 DEF Left
    <3>3. d \in Names /\ index[d] \in Row
      BY <3>1 DEF SortInv, SortTypeOK, IndexInv
    <3>4. ~InQ(index[d])
      BY <2>1, <3>2 DEF Removed, InQ
    <3>5. name[index[d]] = d
      BY <3>3 DEF SortInv, IndexInv, Row
    <3>q. QED
      BY <3>3, <3>4, <3>5
  <2>q. QED
    BY <2>2, <2>3
<1>q. QED
  BY SortInvariance, <1>1, PTL

\* Configure accepts and refuses rightly, for tables of any size.
THEOREM SortIsSound == SortSpec => []SortSound
BY AcceptedOrderIsPermutation, AcceptedOrderRespectsDependencies, RefusedTableIsCyclic, PTL
   DEF SortSound

\* The launch table an accepted order makes: a process is its place in ordered, as
\* in EmDaemon, and its Deps are the places of the rows found under its depends_on.
LaunchDeps ==
  [p \in 1..Rows |->
     {m \in 1..Rows : \E d \in dependsOn[ordered[p]] : index[d] = ordered[m]}]

\* DepsOrdered of EmDaemon, and no dependency is lost on the way.
LaunchTableIsOrdered ==
  sortPc = "ordered" =>
    /\ LaunchDeps \in [1..Rows -> SUBSET (1..Rows)]
    /\ \A p \in 1..Rows : \A d \in LaunchDeps[p] : d < p
    /\ \A p \in 1..Rows : \A d \in dependsOn[ordered[p]] :
         \E m \in LaunchDeps[p] : name[ordered[m]] = d

\* What EmDaemon assumes of its table (DepsOrdered) holds of each table that
\* TopoSort accepts, so no run of Configure leaves StartAll with another.
THEOREM AcceptedTableMeetsDepsOrdered ==
  SortSpec => []LaunchTableIsOrdered
<1>1. SortInv => LaunchTableIsOrdered
  <2> SUFFICES ASSUME SortInv, sortPc = "ordered", NEW p \in 1..Rows
               PROVE  /\ \A d \in LaunchDeps[p] : d < p
                      /\ \A d \in dependsOn[ordered[p]] :
                           \E m \in LaunchDeps[p] : name[ordered[m]] = d
    BY DEF LaunchTableIsOrdered, LaunchDeps
  <2>1. /\ Len(q) = Rows /\ Rows \in Nat
        /\ \A k \in 1..Rows : ordered[k] = q[k]
        /\ \A k, m \in 1..Rows : q[k] = q[m] => k = m
    BY DEF SortInv, VerdictInv, QueueInv
  <2>2. \A d \in dependsOn[ordered[p]] : \E m \in 1..(p - 1) : ordered[m] = index[d]
    <3>1. p \in 1..Len(q) /\ ordered[p] = q[p]
      BY <2>1
    <3>2. \A d \in dependsOn[q[p]] : \E m \in 1..(p - 1) : q[m] = index[d]
      BY <3>1 DEF SortInv, BeforeInv
    <3>3. \A m \in 1..(p - 1) : q[m] = ordered[m]
      BY <2>1
    <3>q. QED
      BY <3>1, <3>2, <3>3
  <2>3. \A d \in LaunchDeps[p] : d < p
    BY <2>1, <2>2 DEF LaunchDeps
  <2>4. ASSUME NEW d \in dependsOn[ordered[p]]
        PROVE  \E m \in LaunchDeps[p] : name[ordered[m]] = d
    <3>1. PICK m \in 1..(p - 1) : ordered[m] = index[d]
      BY <2>2
    <3>2. m \in LaunchDeps[p]
      BY <2>1, <3>1 DEF LaunchDeps
    <3>3. ordered[p] \in Row /\ d \in Names
      BY <2>1, ElementOfSeq DEF SortInv, Row
    <3>4. index[d] \in Row /\ name[index[d]] = d
      BY <3>3 DEF SortInv, IndexInv, Row
    <3>q. QED
      BY <3>1, <3>2, <3>4
  <2>q. QED
    BY <2>3, <2>4
<1>q. QED
  BY SortInvariance, <1>1, PTL

=============================================================================
