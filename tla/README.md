# Giraffe-Flow: TLA+ verification

Giraffe-Flow is an automotive middleware in the style of AUTOSAR Adaptive: C++
libraries and daemons under `src/middleware/`, on which the products under
`src/projects/` run as many Linux processes; the tools of its engineers under
`src/tools/`; and under `src/carla_scenarios/` the closed loop with the CARLA
simulator that the products are tried out in. This directory models the parts of
it whose correctness depends on the order in which things happen, checks the
models with TLC and proves the safety of all of them with TLAPS.

## 1. The system

On the board, the Execution Manager daemon forks every other process in dependency
order. One of them, the mode application, publishes the mode of each Function Group
(`drive`, `park`) in shared memory; the daemon polls it and starts and stops the
planners. Camera frames go from an ingest process to perception through
`gf_channel`. Faults go to the collector; the tester reads and clears them, and
installs software, over DoIP and UDS.

At the desk, GMT shows the bus: a tap on the board writes NDJSON lines, the live
bridge passes them to a window, the window records them, opens them again, and
injects them into the board; its diagnostics panel is the tester. gf-config edits
the project's documents, from which the code generators make the sources.

Around the simulator, a scenario runner plays a batch of cases: it seeds a hero and
ambient traffic, starts `giraffe_client`, which sends what the hero perceives to the
planner behind `octave_bridge` (an Octave process) and applies the commands that come
back, and writes down a verdict per case.

| component | state it keeps | operations | module |
|---|---|---|---|
| Execution Manager daemon (`exec/src/em_daemon.cpp`) | a `Runtime` per process: pid, restarts, `ever_started`, `terminal_exit`, `fg_held_off` | Configure, StartAll, ApplyFgSetDiff, PollOnce, RunForMs, ShutdownAll | `EmDaemon`, `TopoSort` |
| Function Group store (`sm/src/state_client.cpp`) | shared slots: name, state bytes | publish, read | `EmDaemon` (publication and its readers) |
| `bindings/gf_channel` | shared header and 2 or 3 planes | publish, latest, wait_seq | `GfChannel`, `LatestFrame` |
| cosim link: `giraffe_client`, `octave_bridge/io_server.py` | the command in force; the cached state and perception | tick, drain, accept, plan, reply | `CosimLink` |
| `octave_bridge` planning | the kept Octave session, four files, flags of the clean-up | plan, retry, warm, close | `OctavePeer` |
| scenario runner (`run_cases.py`, `src/lib`) | hero, seed, view, control tips, verdicts | run a batch of cases | `ScenarioBatch` |
| ambient traffic (`src/lib/_traffic.py`) | the cars of the simulator | seed, maintain, cull | `AmbientTraffic` |
| GMT session window (`gmt/.../main_window.py`) | timeline, playhead, Live, recording, inject link | open, connect, record, play, seek, follow, inject | `GmtSession` |
| GMT live bridge (`bridge_live.py`, `live_client.py`) | part of a line, one connection, part of a frame | accept, forward, poll | `LiveBridge` |
| diagnostics (`ota_panel.py`, `doip_client.py`; `diag/`) | client, workers, stream of frames; session, unlocking, transfer | connect, update, keep alive, read and clear | `DoipSession` |
| gf-config | session of four documents, history, canvas, files | edit, undo, save, open | `ConfigSession` |

What is hard here, and hardly reached by the repository's tests:

* **processes dying at any moment**: children of the daemon before, during and after
  its attempt to stop them; Octave in the middle of an answer; a case that raises with
  a camera in its hands; a tap killed in the middle of a line;
* **shared memory without locks**: mode states rewritten in place, frames guarded by a
  re-check of plain fields, a futex;
* **streams that carry no identity**: DoIP frames taken by type, commands read without
  blocking, WebSocket frames cut anywhere, four files and a number;
* **late answers**: a wait that timed out leaves its answer to the next question;
* **state that outlives what it was about**: a bridge's cache over two clients, a seed
  over two cases, the board's windows over two timelines, a canvas over edits, dirty
  marks over an undo;
* **handlers that call handlers** and fail at any depth;
* **budgets and deadlines**: restart caps, deadlines, a bubble of cars.

`PROJECT.json` lists each hazard with the line where it bites.

## 2. Plan

The order was: the launch and mode logic of the daemon first, then the frame channel
(with the abstract `LatestFrame`), the sort the daemon relies on, then the chain of the
closed loop (link, planner, runner, traffic), then the tools that talk to the board
(session window, live bridge, diagnostics) and the one that edits its configuration.
All of it is modelled and checked. Every invariant and every action property that a run
checks is proved as well: of `EmDaemon`, `TopoSort` and `ScenarioBatch` first, then of
`GfChannel` with its refinement of `LatestFrame`, of `CosimLink`, `ConfigSession`,
`DoipSession` and `OctavePeer`, and last of `LiveBridge`, `AmbientTraffic` and
`GmtSession`.

What would come next: the persistency's two slots under crashes; the weaker properties
of `GmtSession` that only `MCGmtSession_more.cfg` checks.

## 3. The modules

Each module `X` is checked through `MCX`, which gives the instance. In every module
the thread, handler or loop step that the code runs without a point where another
actor matters is one action; where another actor does matter, it is split there.
Variables and actions carry the code's names; the header of each module and the
comment of each variable say what stands for what, and `map` in `PROJECT.json` gives
the lines.

### EmDaemon (`EmDaemon_proofs`)

A process is its index in `runtimes_`. The daemon is one thread; `pc` and `cur` are its
place and loop index, and one iteration of a loop is one action. Children exit and the
mode application publishes between any two actions.

| model | code |
|---|---|
| `Seed`, `StartHoldOff`, `StartSpawn`, `StartSpawnFails`, `StartDone` | `StartAll`; a failure makes `main` return 1 without `ShutdownAll` (`pc = "aborted"`) |
| `DiffSkip`, `DiffSpawn`, `DiffSpawnFails`, `DiffStop`, `FinishStop`, `DiffDone` | `ApplyFgSetDiff`, `StopForFg`: SIGTERM and what follows the 80 ms sleep are two actions |
| `ReapNothing`, `ReapRelaunch`, `ReapRelaunchFails`, `ReapHarmless`, `ReapFatal`, `ReapDone` | `PollOnce` |
| `CheckAllDone`, `CheckDeadline`, `CheckAgain` | the loop of `RunForMs` |
| `TermAll`, `KillNone`, `KillOne`, `KillDone` | `ShutdownAll` |
| `child[p]` | the kernel's table: running, SIGTERM sent, or a zombie with its exit kind |
| `store`, `writing` | what a reader of the store finds; `Torn` while a state is rewritten, or for good when the writer dies in it |

Constants are assumed to have the right shape (`ConstantsOK`), dependencies to come
earlier in the table (`DepsOrdered`, which `TopoSort` establishes) and the mode
application to be in no mode group (`ModeAppAlwaysOn`, as in both products).

### GfChannel and LatestFrame (`GfChannel_proofs`)

`GfChannel` splits publish, latest and wait_seq at each access to shared memory. A
frame is the number of its publication, copied in two halves. Inside a phase between
fences plain accesses are made in program order (`InOrder = TRUE`) or in any order
(what the C++ and aarch64 memory models allow). The products run with two planes, and
nothing orders their plain accesses: that is the instance `ch_frames` checks. `LatestFrame`
is what a user may rely on: numbers increase, and the bytes that come with number `s` are
one frame of the last lap around the planes, the next publication included, or a mixture of
the lap's oldest with the next one, which is overwriting it (`TornByLapOnly`: never of the
frame `s` itself). With three planes and the program's order the promise is the stronger
one: one frame, of its number or the one before, that never goes back. `KeepsPromise` is
the refinement, of the promise that goes with the constants.

### TopoSort (`EmDaemon_proofs`)

`EmDaemon::TopoSort` statement by statement. A table is any assignment of names and
dependency names to rows; `index[n] = 0` means that no row is called `n`. Of two rows
with one name only the last can be waited for, in the model as in the code.

### CosimLink (`CosimLink_proofs`)

The two ends of one connection, each a loop, and the sockets between them. Messages to
the bridge arrive whole, because it reads them blocking; commands are a stream of
units, because the client reads them without blocking, and a frame may arrive in two
pieces (the real 28 and 48 bytes, in the proportion that matters). A command is the
stamp, client and hero it was planned for; the planner is its three outcomes.

### OctavePeer (`OctavePeer_proofs`)

The main thread (one plan per perception), the watcher that cleans up after a signal,
the worker of the painter, and the Octave processes. The two transports that differ in
kind are there: a pipe, and four files with the loop of `m_plan_fileloop.m` at their
other end. A view is the number of its perception and a plan the number of the view it
was computed from. A dead Octave behind the pipe is never replaced, as in the code. In
the clean-up two Octaves can share the files for a moment and answers can then be
exchanged; `AnswerMatchesQuestion` leaves that moment out and says so.

### ScenarioBatch (`ScenarioBatch_proofs`)

One process runs the cases one after another; a call on the simulator may raise at each
point where the code makes one. Around it the hero may be wrecked or destroyed, the
client may die, the window may be closed, and a signal may come. Kinds of cases are
told apart by what they seed and by whether they may collide.

### AmbientTraffic (`ScenarioBatch_proofs`)

A car is a pose relative to the hero and the traffic is a bag of poses. The simulator is
asynchronous: between any two calls of a pulse a car may drive elsewhere, so the cull,
the budget and the fill of one pulse see different worlds. `_cull_bubble` takes a list of
the cars (`todo`) and goes through it one by one (`KeepCar`, `CullCar`); cars drive in
between, on the list or off it. A car whose transform cannot be read is destroyed wherever
it stands, and the place that is remembered for it is the one read last (`read`), or, if
there is none, it stays: so a new car may appear where it stood, and `SpawnPlaceOk` speaks
only of cars that were read (`culled`). A car may refuse to be destroyed, by the cull, by the
wipe before a case (`Survivors`), or because it could not be armed (`SpawnUnarmed`), in
which case it stays and is not counted. Poses are relative to the
hero's at the start of the pulse. Slot caps only order candidates and are not modelled
further; pedestrians are left out because their code cannot run (`carla` is not
imported there). Cars that are turned may stand in the exam tube although `_traffic.py`
says "Host exam window empty."; `ExamWindowKept` speaks of those that head its way.

### GmtSession (`Gmt_proofs`)

Every handler runs to its end on the Qt thread. Handlers call each other and every send
may raise, so a handler is an operator from a state of the window to the set of states
it may leave, and handlers are composed as the code calls them. The board executes
commands and answers; peers go away; another control client may have left the board
playing. The handlers that poll take the poll as an argument: inside an answer nothing is
left to poll (`PollNothing`), and a link just made has no answer yet (`PollEarly`). The
check box "loop at end" is read as either value; a project is loaded; the messages of a
window (begin, pushes, end) are one. A send that is tried again after part of the line has
gone out sends the line from its start, and the board reads the part and the line as one:
such a link is `Garbled` until it is made anew. The board then takes from the line what
its search for each field finds (`BoardGuesses`: a frame published, the play stopped), and
what its windows hold is not followed: `BoardHoldsSession` says nothing of such a link,
the other properties do.

### LiveBridge (`Gmt_proofs`)

The tap, the pipe, the bridge's one loop, the connections with their send buffers, and
the windows. What `select()` found is kept in `ready` and used later, while the pipe,
the backlog and the windows go on. A line, and a frame, is two units, so that reads,
writes and ends can cut it in half. A window sends nothing after its request. The
end of a connection that is read together with the hello leaves a window that shows
itself connected (`"dead"`), as does a bridge that goes later: the code never tells the
user. `close()` clears the window's buffer before what came with the end is added, so
the last rows may be lost or misread; `RowsAreARun` asks for no hole only while the
link is up.

### DoipSession (`DoipSession_proofs`)

The panel's thread and a worker share a client; each asks, then waits for an
acknowledgement and an answer by frame type. The stream is two queues. A wait may time
out while the answer is still under way, S3 may fire, the link may break, the board may
be restarted, and a page may be read while an update runs: these count against
`MaxFaults`. `late` is auxiliary: when the update started, the answer to an earlier
update's last question was still under way. `Starved` is a timeout when nothing can come
any more and is not a fault. Refusals (file, write, package manager) are
nondeterministic; the panel's key is always right, so the security delay never starts;
`"dem"` stands for services 0x19 and 0x14; the settings are the same on both sides.

### ConfigSession (`ConfigSession_proofs`)

The session of four documents (req, wiring, exec, em_launch) with a dirty mark each, the
history of whole sessions, the canvas and the files. A handler is one action; a save
writes the documents one after another and each write can fail, which leaves the file as
it was, unreadable, or cut short: `load_yaml` reads an empty or shortened file as the
smaller document it starts with (`Shorter`). `stale`, `mixed` and `halfway` are auxiliary:
a file was written since the snapshot was taken, an undo went past a save, a save stopped
halfway. A source without lanes is drawn with an Out `front` that nobody entered
(`Outlets`), so a lane wire may be drawn from it that has no lane. Moving a port with
Ctrl+drag or from its menu writes the ports of the card back and prunes nothing
(`GrabPort`, `PlacePort`, `PlaceLane`). `Bindings` are the services that the wiring's
bindings ask of a module; no edit changes them, so an edit of ports can make the project
invalid. As in the code, renaming an edge, fixing or dropping a missing
one and importing ports take no snapshot, so undo takes them back with the edit before;
wiring, adding, deleting and editing ports leave the edit open, so typing that follows
is merged into it; File > Open does not ask about unsaved edits; deleting the ingest
node leaves the bridge enabled, so that validation keeps asking for its row.

## 4. The runs

| run | instance | states | shows |
|---|---|---|---|
| `em_modes` | mode application, a planner of each mode, no initial state; 2 exits, 3 publications, 1 failing spawn | 234,000 | `PidMatchesChild`, `NoDoubleLaunch`; `ModeConverges` |
| `em_platform` | 4 always-on processes with dependencies, one degradable, one restartable; 4 exits, 1 failing spawn, deadline | 98,000 | `ReturnCodeSound`, `RestartCap`; `DeadlineEnds` |
| `ch_frames` | the products' 2 planes, plain accesses in any order, 4 frames, one reader | 230,000 | `TornByLapOnly`, `KeepsPromise`; `WaiterReturns` |
| `topo` | every table of 3 rows over 3 names, repeated and unknown ones included | 112,000 | `SortSound` |
| `cosim` | 2 clients, 2 heroes, 2 stamps, 1 split frame | 290,000 | `PlansFromOneTick`, `NoTornCommand`, `NoOlderCommand`; `SessionEnds` |
| `octave` | pipe and files, 2 views, 2 Octaves, 2 attempts | 362,000 | `AnswerMatchesQuestion`, `OrphanHasCause`; `StopEnds` |
| `scenario` | AEB, follow, AEB; 2 ticks | 593,000 | `EveryCaseAccounted`, `SeedIsOfThisCase`, `NothingLeftBehind`, `PassIsEarned` |
| `traffic` | bubble of up to 5 cars over 4 poses, 3 time units | 874,000 | `BubbleRoom`, `ExamWindowKept` |
| `gmt` | one file of two frames, windows of 1, 1 Live row, 3 commands on the wire | 85,000 | `BoardHoldsSession`, `LiveKeepsOut`, `StopsWithLink`; `LossNoticed` |
| `live` | 2 windows, 2 connections, 4 lines with a noise line, a pipe of 2 and a send buffer of 3 units | 300,000 | `RowsAreARun`; `EofEnds`, `PlaceIsFreed` |
| `doip` | transfer and routine settings, 2 blocks, block counter that wraps, 2 updates, 1 fault | 58,000 | `OkMeansActivated`, `FailureHasCause`, `ActivationSound`; `Realigns`, `LossNoticed`, `WorkersEnd` |
| `config` | 2 modules, 2 services, 2 lanes; 2 edits, 1 failing write, history of 1 | 911,000 | `WiresLand`, `CleanIsOnDisk`, `DiskIsWhole`, `CanvasShowsSession` |

**Bounds, and why they are enough.** Every bound limits the environment or the user,
never the code, except where a constant of the code is made small on purpose: history
of 1 instead of 40, attempts of 2 instead of 4, a block counter that wraps after 1.
*em*: three processes are every kind of table entry the branches tell apart (always on,
in one mode, in the other), four a chain with a degradable, a restartable and a plain
process; two exits allow a crash while another is handled, four a used-up budget and a
further death; three publications a switch there and back with one in mid-pass.
*ch*: four frames let the writer go round the two planes twice and lap a reader that stalls
anywhere; readers write nothing shared, so one is enough. `MCGfChannel_three.cfg` is the
instance of three planes in program order, with 5 frames (135,000 states), for which
`NoTornFrame` and the stronger promise hold as well. *topo*: three rows make chains,
forks and a circle with a row behind it; the results are proved for every size.
*cosim*: two clients are what a cache outlives; a split is what tears a frame.
*octave*: two views make a late answer, two Octaves a replaced one. *scenario*: an AEB
case before and after another is what a leftover seed needs, two ticks are one more than
a case needs to start. *traffic*: a pose in the exam tube, one
in it but turned, one where cars are spawned and one out of the bubble are the kinds the
handlers tell apart; the theorems hold for every set of poses.
*gmt*: two frames and one row are what confuses numbers between timelines; declaring a session
anew takes three commands, and `MCGmtSession_more.cfg` allows four. *live*: three
lines that are sent are what a hole needs; one and a half frames of buffer cut a frame.
*doip*: two updates are what a leftover of the first needs; two faults were also tried
(474,000 states, safety only). *config*: a wire, an undo and a save past it.

**Deadlock** is checked where the system does not stop by itself. It is off in `ch_frames`
(a reader may wait for ever on a channel nobody publishes to) and in `cosim`, `octave`,
`scenario`, `traffic` and `doip`, whose processes end or whose bounded environment does.

**Fairness.**
*EmDaemon*: the daemon runs (its blocking `waitpid` follows a SIGKILL), an application
finishes the few instructions of a store write, and a deadline looked at again and again
has finally passed (strong fairness: the check is visited, and left, repeatedly). Nothing
is assumed of the moments when children exit. *GfChannel*: a call that has been entered
goes on; none need be made and no timeout need fire. *CosimLink*: each loop runs and what
is sent arrives. *OctavePeer*: the threads and an Octave that lives run. *ScenarioBatch*:
the process runs. *GmtSession*: only the 100 ms timer that polls the inject link.
*LiveBridge*: the bridge's loop, and a window in the middle of `connect()` sends its
request; the handshake blocks without a timeout, so a peer that connects and stays mute
would hold the tap, but GMT's own window always asks or goes. *DoipSession*: the threads,
the board, and a wait that is answered or ends; strongly for the panel's timer and
its signals, which compete with the user's clicks on one event loop.

**By hand.** The other configurations are not part of the run list.
`MC*_more.cfg` check the type invariants and weaker properties that hold:
`AmbientTraffic` (`CapsSum` among them) and `GmtSession` (`FollowExclusive` among
them). `MCConfigSession_bare.cfg` checks the properties of *config* over a project with a
source, no lane and a hanging lane wire; they hold (961,000 states). The rest show violations (section 6). Of the other modules the type invariants and
such properties are theorems, and need no run, as are all of `AmbientTraffic` but
`CapsSum`.

## 5. The proofs

`EmDaemon_proofs` proves, for every launch table, every mode configuration and every
bound, all safety properties of `EmDaemon`. The argument is one inductive invariant,

    IInv == TypeOK /\ ControlInv /\ ChildInv /\ CountInv /\ EndInv

* `ControlInv`: what the place in the program says (the index is in range where it is
  used, `stop` and `reap` stand at a process, `rc` is decided only at the end);
* `ChildInv`: a valid pid and a child of the kernel go together; a process that is held
  off has no child outside `StopForFg`; after SIGTERM no child simply runs;
* `CountInv`: launches, restarts and `ever_started` agree; always-on processes stay
  under their cap; what has been launched had its dependencies launched before;
* `EndInv`: `terminal_exit` means no child; an end with 0 or 1 has its reason.

No property is inductive alone: that the sweep never meets an intended stop needs the
link between `fg_held_off`, the pid and the place in the program, and the restart cap
needs that only the sweep relaunches an always-on process, which needs that the
set-difference skips it. One lemma per part goes through the actions of `Next`; the
action properties `NoDoubleLaunch` and `GivenUpStaysDown` follow from `IInv` and the
step. The three named assumptions on the constants are used and nothing else.

The same module proves `SortSound` of `TopoSort`, for tables of every size. Its invariant
says, for each row `v`, which edges into it are left; the in-degree of `v` is their
number, and `v` is in the queue exactly when there are none (`EdgeInv`); the queue has no
repetitions (`QueueInv`) and each of its rows comes after those it depends on
(`BeforeInv`). A queue without repetitions holds every row exactly when it is as long as
the table (`QueueFills`), which turns the comparison of sizes at the end into both
verdicts. The only assumption is that the table and the set of names are finite. The two
components meet in `AcceptedTableMeetsDepsOrdered`: when the sort has accepted a table,
what `EmDaemon` assumes as `DepsOrdered` holds of the table in the order of the queue.
The module extends both; their variables are apart, and a theorem about one says nothing
of the state of the other.

`ScenarioBatch_proofs` proves the safety properties that the `scenario` run checks, for
every batch, every duration and every `MinSamples`. The invariant is

    IInv == ShapeInv /\ VerdictInv /\ SeedInv /\ CameraInv /\ ClientInv

`VerdictInv` says how the three lists stand at each place: while the batch goes on, or
when an exception ends it, exactly the cases before `idx` have a verdict; once it ends by
itself, `EveryCaseAccounted` holds already in `finally`, before the end that the property
speaks of. `SeedInv` is `SeedIsOfThisCase` from the moment the layout is done, when the
view is still to come. `CameraInv` gives each running camera an owner: main's view, the
view of the running case, or a case that raised; and in the loop main's old view, where
it is not the case's, has lost its camera already, which is why `Judge` may forget it.
The end of a case occurs in six actions; `CloseIsAccounted` is its lemma. `PassIsEarned`
needs the invariant too: the exits by exception close the case as failed, and a skip
never becomes a pass. A second invariant, `CountInv`, rests on the first and gives `TypeOK` and
`ViewFollowsHero`: a case makes at most one hero (`HeroInv`), and the opened views are the
first `n`, with `n` below the number of the case until its loop (`ViewInv`), so that there
is always one left to open; a view that was kept, moved or built is of the case's hero.
`BatchAssumption` and, for the number of samples, `BoundAssumption` are all that is used.

The same module proves the properties of `AmbientTraffic`, for every set of poses and
every bound, period and order in which cars drive between the calls of a pulse. A bag of
cars is counted as the set of pairs of a pose and a number, so putting, taking and moving
a car are steps of one in a cardinality (`CarPut`, `CarTaken`, `CarDriven`). The invariant
has the shape of the state (`TrafficTypes`), a finite bag (`CarsInv`), the list of the cull
(`LookInv`: what it has destroyed, left and still to look at are the cars there were), the
budget (`RoomInv`: what a fill has still to add, with the cars there are, is within the cap,
but for those that came in since the count) and the exam tube (`TubeInv`: of the cars that
were looked at, it holds those that were to be destroyed and were not). `RateInv` bounds what the
pulses of a case have spawned by the time that has passed. `NumberAssumption` and
`PoseAssumption` are used.

`GfChannel_proofs` proves, for every number of planes, readers and publications and for
every order of the plain accesses, that a channel keeps the promise of `LatestFrame`
(`ImplementsLatestFrame`), that only the oldest frame of a lap is ever torn
(`OnlyTheOldestIsTorn`) and that a timestamp is at most one publication behind its number
(`TimestampsKeepUp`). No theorem of the module has a hypothesis: the instances the products
run are covered, with the promise that holds for them. There are two invariants. `LapInv`
holds always: `LapPlanes` says which frame every plane holds, from its distance behind the
writer's plane (`Dist`) and, in the plane being written, from what has been copied;
`LapReader` says that, while the number a reader loaded is the newest, the halves it copied
are of the frame its plane had, or of the next one where the plane is the oldest (`Age`
does not change until the next number is stored), and that, once the number has been seen
again, the mixture is one of the lap (`Mixed`) for good. `IInv` holds where there are three
planes and the program's order (`Ordered`), the case the two theorems split on: `WriterInv`
is the order of a publication, `PlaneInv` names the plane of the newest number (`Cur`,
which between the two stores is not the active one) and the one before it, `ReaderInv` says
that a reader copies one of these two. `MCGfChannel_two.cfg` (section 6) is the
counterexample that shows why the case is needed. `Init` maps to `Init` of `LatestFrame`,
and each step to a publication, to a read or to a stutter.

`CosimLink_proofs` proves that a plan is computed from one tick of one client, that a
command is whole and that commands keep their order, for every number of clients, ticks,
reconnects and units of a frame; `LinkAssumption` is all it uses. The invariant is

    IInv == TInv /\ PairInv /\ FlowInv /\ OrderInv

* `PairInv`: while its client lives, a perception follows the state of its tick, in the
  sockets or, when the state has been read, in the cache; only a client that owes the
  perception may have sent the state alone;
* `FlowInv`: what is between the planner and the client's buffer is one stream, and from
  every unit of it the rest of its frame follows, so that a client that stopped reading
  in the middle of a frame goes on in the middle of the same frame;
* `OrderInv`: the command in force, the frame being read, the stream, the cache and the
  messages to the bridge are stamped in this order, and none is younger than the tick.

`NoTornCommand` is not inductive without all of `FlowInv`; `NoOlderCommand` is an action
property of the step that applies a command and follows from `OrderInv` before it.

`ConfigSession_proofs` proves the four safety properties of the editor for every project,
every limit of the history and any number of edits and failed writes. The invariant is

    IInv == TInv /\ FilesInv /\ CanvasInv

* `FilesInv` says of the session, and of every snapshot on both stacks, that its wires
  land, and, unless history was mixed, that its lane wires land but for those of `Loose`
  and that what it does not mark is on disk; a snapshot older than the last write (`stale`) promises nothing of the
  files, and to restore it is what mixes history;
* `CanvasInv` (`Shows`) says what the handlers read from the canvas: the cards are the
  modules, every wire is drawn, an In is on its card or is the end of a drawn wire (a wire
  with a renamed In patches the two cards only when it adds an edge), and a missing wire
  goes from a module to a module, so that fixing it lands.

The edits are cut from the same cloth: `Sound(s, t)` says that `t` marks all that it
changes and still lands if `s` did. Each operator on sessions (`SetPorts`, `RenameFlow`,
`SetIngest`, ...) has a lemma that it is sound, and `EditRepaints` and `EditElsewhere` make
of it that the invariant is kept; only `Wire` and `WireLane` patch the canvas and have
arguments of their own. The hypothesis `ProjectRead` only says that the project opened
first has the shape of one. No check of gf-config asks that its lane wires land, and an
editor that opens hanging ones keeps them: `Loose` is the set of those lane wires and of
those that can be drawn from the Out of a source without lanes, and `WiresLand` speaks of
all the others. The canvas shows hanging lane wires too, if they have a module to go to.

`DoipSession_proofs` proves what the panel shows, and what the board activates, for every
project setting, size of the package, wrap of the block counter and number of updates and
of faults; `DoipAssumption` is all it uses. The protocol matches a frame to a question by
type and order alone, so the invariant follows each question and each answer on its way:

    IInv == TInv /\ ExitInv /\ TransferInv /\ SmoothInv

* `TInv`: who asks what and when, on which connection (`ProcInv`, `SentInv`); a question
  that is still answered came in on the link that is up (`LiveInv`);
* `ExitInv`: behind every answer to an exit that is still to be read, shown or waited for
  stands an activation: of this update, or, if it was already due when the update
  started, of some update (`Good`);
* `TransferInv`: in the queue, the questions of a transfer follow one another as the
  worker asks them (`QueueInv`), the first of them continues what the board has got so
  far (`BoardInv`), and the last is where the worker is (`AskedTr`); so what is
  complete at the exit is one package, in order, although questions of a connection that
  is gone may still stand in front;
* `SmoothInv`: while nothing excuses a failure, either the worker's question is the last
  in the queue and no frame before its answer can be mistaken for it (`Pending`), or its
  answer is the last frame and the first one the worker will take (`HasAnswer`); and the
  board is where the questions up to it bring it (`Reached`). A keep-alive or a question
  of a dead connection may still be ahead of the first question, and its late ACK is
  then taken for the question's own: the proof shows that this does no harm.

`ShownIsActivated` needs the first two parts, `ActivatesWhole` the third, and
`NoFailureWithoutCause` the last.

`OctavePeer_proofs` proves that a plan answers its view and that an Octave left behind has
a cause, for either kind of peer and any number of views, Octaves and tries;
`PeerAssumption` is all it uses. The invariant is

    IInv == TInv /\ PeerInv /\ StageInv /\ OneInv /\ OrphanInv
                 /\ PipeInv /\ FileInv /\ AnswerInv

* `PeerInv`: an Octave that is used, kept, closed or being closed has been started, and
  the loop of one that has not is fresh;
* `StageInv`, `OneInv`, `OrphanInv`: the flag is set exactly when a thread is past it; only
  the clean-up makes the planner start a second Octave; and the thread that has set the
  flag sweeps before it is done, so that what is left later was started later;
* `PipeInv`: a pipe is empty, or holds the question of this tick or its answer: a tick that
  fails does not go on with the same Octave, which is why no late answer stays in it;
* `FileInv`: while one Octave is alone (`Alone`), the numbers of the four files only grow,
  from the answer written last over the one in work to the question, and under the number
  waited for lies the answer to this question. A tick that timed out leaves its answer
  under an older number, where none is looked for.

`PlansMatch` is `AnswerInv`, which the last two parts keep; `OneOctave` and
`OrphansHaveCause` are the middle three. `Alone` and the count of the property agree by
`StartedCount`.

`Gmt_proofs` proves that what a window shows is a run of the tap's objects, for every
number of windows, lines and links, whatever lines are no objects, and every size of the
pipe and of the send buffers; `LiveAssumption` is all it uses. `RowsAreARun` speaks of the
end of a stream that three actors cut in pieces, and the invariant follows that stream:

* `TapInv`: the pipe, with the part of a line in `buf` before it, is what the tap wrote
  last, and it begins where a line does;
* `LinesInv`: the lines that are read and not forwarded go on where the last one dealt with
  ends;
* `LinkInv`, `WaitInv`, `WinInv`: nobody but its window and the bridge touches a link, and
  what is on it fits the state of both;
* `TextInv`: what a window has seen last, what it has received and not taken apart, and what
  is on its way to it are one chain of frames, which is up to date if the window is the one
  that is served;
* `GotInv`: the rows are a run.

The same module proves `BoardHoldsSession`, `LiveKeepsOut` and `StopsWithLink` of
`GmtSession`, for every set of session files and whatever they hold, every number of Live
rows, size of a board window and length of the queues; `FilesAssumption` is used.
`BoardHoldsSession` speaks of the moments when nothing is on the way, on a link where no
line was garbled. What is inductive is
`SessionInv`: the board that will have obeyed all that is on the wire (`Obeyed`) holds
frames of the present timeline, unless the link is garbled, and a link the window has is
one it shows. The proof is
composed as the handlers are. `Keeps(b, g, h)` says that going from `g` to `h` leaves the
timeline alone and the board `b` in agreement with it, keeps a link shown, and a playback
off that is without a link. Sending a command that fits the timeline keeps (`SendKeeps`),
whether it goes through or fails; so does every helper up to `Poll`, which handles any
number of answers (`HandleAllKeeps`); `Keeps` is transitive, so a handler keeps in
whatever order it calls its helpers, and wherever a failing send cuts it off. The handlers
that change the timeline do not keep, but they declare the session anew, after which the
board agrees whatever it held before (`ConfigureRebuilds`, `ApplyModelRenews`); a row
appended leaves the frames before it where they are (`RowKeepsBoard`). `RunSound` takes a
handler that returns only what it may (`Result`) to the three properties at once.

What `Obeyed` and a poll compute is defined by recursion on the number of commands and of
answers. That those functions exist, and what they preserve, is proved by induction, which
here is the fact that the natural numbers are well-founded, applied to a set
(`NatSetInduction`).

Only model-checked:

* all liveness: under fairness it is out of the prover's reach, like ENABLED;
* `CapsSum` of `AmbientTraffic`, whose caps are added up with a fold, and the type invariant
  and the weaker properties of `GmtSession` in `MCGmtSession_more.cfg`.

No module uses a RECURSIVE operator.

## 6. What disagrees with the code

Each of these configurations finds a behaviour of the code that contradicts a sentence
of the repository, or a rule a reader would expect:

| configuration | property | what the code does |
|---|---|---|
| `MCEmDaemon_overlap.cfg` | `OneModeAtATime` | `ApplyFgSetDiff` goes in table order and launches before it stops, so planners of both modes run at once; `vehicle_can_gateway/src/main.cpp:543` says "DriveParkFG set-diff keeps only one planner process alive" |
| `MCEmDaemon_cap.cfg` | `RestartCapForAll` | mode switches alone pass `max_restarts` and use up the crash budget |
| `MCEmDaemon_torn.cfg` | `NoNeedlessStop` | a state read while it is rewritten stops a planner of the mode being entered |
| `MCGfChannel_two.cfg` | `NoTornFrame` | with two buffers, which the products use, a plane made of two frames (the oldest and the next) passes both re-checks, even in program order |
| `MCScenarioBatch_wreck.cfg` | `NoCaseOnWreck` | a case that raised is not followed by the look at the hero, so the next one keeps a wreck, against "If the hero is *wrecked* (off-road / flipped / dead), destroy so the next case cold-starts" (`spawn/boundary.py:4`) |
| `MCGmtSession_loop.cfg` | `TimerOnlyWhilePlaying` | a send that fails in the wrap of a loop leaves the play timer running |
| `MCLiveBridge_midline.cfg` | `AnyEofEnds` | a tap killed in the middle of a line leaves the bridge spinning: the end of stdin counts only while `buf` is empty, against "only tap stdin EOF (or Ctrl+C) ends the bridge" (`serve_live_stdin`) |
| `MCDoipSession_routine.cfg` | `OkInEveryMode` | in routine mode the answer to a Collector page read during the update is taken for the routine's success |
| `MCDoipSession_late.cfg` | `OkIsOwn` | after five page reads that timed out while the board hung, the stream is so far behind that an update is answered with the late success of the one before it, and shown as done; the configuration follows only such behaviours (`LateSpec`) |
| `MCConfigSession_mixed.cfg` | `CleanMeansOnDisk` | undo restores the dirty marks of the snapshot, which past a save speak of older files |
| `MCConfigSession_undo.cfg` | `SnapshotIsBefore` | the snapshot before an edit of the EM table, or of a moved card, already holds the edit, against "Snapshot current session *before* a mutation." (`doc_history.py`, `checkpoint`) |

## 7. Not modelled

* of the daemon: `Load`, the parsing in `Configure`, `ReclaimStalePlatformDaemons`; of the
  store: allocation of slots and its creation; of the channel: create, open and unlink;
* the execution client, PHM and bring-up (one process, one mutex, counters), package
  management behind the activation, persistency, the collector's tables, the loopback
  bus, time synchronisation, logging, and the bindings to DDS, iceoryx and SOME/IP (thin
  adapters of external libraries);
* the numbers of perception, planning and control, in the products and in the simulation:
  layouts, judges, weather, truth packing, the semantic map;
* of GMT: plots, export, tags, language, the Foxglove bridge and the DLT log; of gf-config:
  MCU topology, `ignore_missing`, routes, label font, colours, the ARA pages other than exec
  and em_launch (their handlers are those of em_launch), legacy migrations, the dlt and
  iceoryx host rows, import into the ingest node; the dialog guarantees at least one lane.
  Of `validate_project`, `Valid` leaves out rows without a name (only a file has them:
  the tables' forms drop them) or, in em_launch, without a binary (a new row starts so),
  the always-on modules, the memory budgets, and the checks of observability and of the
  other platform documents. The same function runs at open and at save: what is left out
  refuses both alike;
* of the DoIP client: `_recv_payload` decodes the shared buffer and then deletes the
  frame, in two steps without a lock. `DoipSession` takes them as one (`Recv`); when the
  panel's thread and a worker both decode before either deletes, two frames' worth of
  bytes go, and the stream may be cut in mid-frame. `OkMeansActivated`,
  `FailureHasCause` and `Realigns` say nothing about that;
* the code generators and the scripts: offline and sequential.

These are most of the repository's lines. They display, format, parse, draw or compute;
what they do in the wrong order, a unit test shows.
