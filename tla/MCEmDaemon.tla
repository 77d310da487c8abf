----------------------------- MODULE MCEmDaemon -----------------------------
(* Small instances of EmDaemon.                                             *)
EXTENDS EmDaemon

\* The mode stack: 1 the mode application, restartable; 2 the planner of mode
\* "drive", without restart; 3 the planner of mode "park", restartable.
ModeDeps == [p \in 1..3 |-> IF p = 1 THEN {} ELSE {1}]
ModeActiveIn == [p \in 1..3 |-> CASE p = 1 -> {} [] p = 2 -> {"drive"} [] p = 3 -> {"park"}]
ModeFgOf == [p \in 1..3 |-> "DriveParkFG"]
ModeRestarts == [p \in 1..3 |-> 1]
SeededDrive == [g \in {"DriveParkFG"} |-> "drive"]
Unseeded == [g \in {"DriveParkFG"} |-> NoState]

\* The platform stack: 1 a daemon the stack can lose (dlt), 2 RouDi, 3 an
\* application restartable twice, 4 an application without restart.
PlatformDeps ==
  [p \in 1..4 |-> CASE p = 1 -> {} [] p = 2 -> {1} [] p = 3 -> {2} [] p = 4 -> {2, 3}]
PlatformRestarts == [p \in 1..4 |-> 2]
NoActiveIn == [p \in 1..4 |-> {}]
MachineFg == [p \in 1..4 |-> "MachineFG"]
NoInitial == [g \in {"MachineFG"} |-> NoState]
=============================================================================
