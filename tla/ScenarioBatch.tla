--------------------------- MODULE ScenarioBatch ---------------------------
(***************************************************************************)
(* The scenario batch of carla_scenarios: run_cases.py starts the giraffe  *)
(* client, runs the cases of the manifests one after the other in one      *)
(* process, carries the hero and the view over from case to case, and      *)
(* writes down a verdict per case.                                         *)
(*                                                                         *)
(* Around it move the simulator (the hero may be destroyed or wrecked),    *)
(* the giraffe client (it sends a control tip per command it applies, and  *)
(* may die), the user who closes the window, and a signal.  A call on the  *)
(* simulator may raise at any point where the code makes one.              *)
(*                                                                         *)
(* A case is of a kind: an AEB-family case seeds the hero at a constant    *)
(* velocity when it starts cold and ends at the first collision; a follow  *)
(* case has a target car but no seed; a lateral case has no target, so     *)
(* never a collision.                                                      *)
(***************************************************************************)
EXTENDS Naturals, Sequences, FiniteSets, FiniteSetsExt

CONSTANTS
    Batch,          \* the runnable cases: a sequence of kinds
    MaxTicks,       \* loop iterations before duration_s is over
    MinSamples      \* samples a judge wants before it passes a case

Kinds == {"aeb", "follow", "lateral"}

ASSUME BatchAssumption == Batch \in Seq(Kinds) /\ Batch # <<>>
ASSUME BoundAssumption == MaxTicks \in Nat \ {0} /\ MinSamples \in Nat \ {0}

Cases == DOMAIN Batch
MaxHero == Len(Batch) + 1           \* a leftover hero and one per case
MaxView == Len(Batch)               \* a case opens at most one view

VARIABLES
    pc, idx,        \* where the process stands, and the case it is on
    stop,           \* the signal handler has run
    stopOnFail, window,                  \* the options of this run
    verdict,        \* the verdict list each case is in
    hero,           \* the hero actor: number, state, constant velocity
    keep,           \* keep_ego of the case
    seeded,         \* const_vel in the case's meta: what the handoff reads
    samples, collided, hit,              \* the case's samples and done["hit"]
    client,         \* the giraffe client
    tip,            \* a tip waits in the receiver's socket
    fresh,          \* the shared receiver has counted a tip
    view, cv,       \* main's view, and the view inside the running case
    views,          \* every view object ever built
    raised,         \* the next act of the process is an exception on its way out
    lost            \* views whose case raised before it could return them

caseVars == <<keep, seeded, samples, collided, hit>>
viewVars == <<view, cv, views, lost>>
optVars  == <<stopOnFail, window>>
vars == <<pc, idx, stop, optVars, verdict, hero, caseVars, client, tip, fresh, viewVars, raised>>

NoHero == [id |-> 0, st |-> "gone", const |-> FALSE, by |-> 0]
NoView == [of |-> 0, cam |-> FALSE, display |-> FALSE]

\* A freshly spawned hero stands still under nobody's control.
NewHero == [id |-> hero.id + 1, st |-> "ok", const |-> FALSE, by |-> 0]
Released(h) == [h EXCEPT !.const = FALSE]

Init ==
    /\ pc = "start" /\ idx = 1
    /\ stop = FALSE /\ raised = FALSE
    /\ stopOnFail \in BOOLEAN /\ window \in BOOLEAN
    /\ verdict = [i \in Cases |-> "none"]
    /\ hero \in {NoHero, [NoHero EXCEPT !.id = 1, !.st = "ok", !.const = TRUE]}
    /\ keep = FALSE /\ seeded = FALSE
    /\ samples = 0 /\ collided = FALSE /\ hit = FALSE
    /\ client = "none" /\ tip = FALSE /\ fresh = FALSE
    /\ view = 0 /\ cv = 0 /\ lost = {}
    /\ views = [v \in 1..MaxView |-> NoView]

-----------------------------------------------------------------------------
(* Before the loop *)

\* _start_giraffe_client: unless the environment says 0, one client is started,
\* and never looked at again until the batch ends.
StartClient ==
    /\ pc = "start"
    /\ client' \in {"up", "none"}
    /\ pc' = "wipe"
    /\ UNCHANGED <<idx, stop, optVars, verdict, hero, caseVars, tip, fresh, viewVars, raised>>

\* reset_wrecked_ego("suite_start"), before the try: what raises here skips the
\* finally that would stop the client.
Wipe ==
    /\ pc = "wipe"
    /\ \/ pc' = "next" /\ hero' = [NoHero EXCEPT !.id = hero.id]
       \/ pc' = "aborted" /\ UNCHANGED hero
    /\ UNCHANGED <<idx, stop, optVars, verdict, caseVars, client, tip, fresh, viewVars, raised>>

-----------------------------------------------------------------------------
(* The loop over the cases *)

Rest(i) == {j \in Cases : j >= i}

CloseForgetsRest(v) ==
    LET leave == v = "fail" /\ stopOnFail
    IN /\ verdict' = [verdict EXCEPT ![idx] = v]
       /\ pc' = IF leave THEN "finally" ELSE "next"
       /\ idx' = IF leave THEN idx ELSE idx + 1
       /\ keep' = FALSE /\ seeded' = FALSE
       /\ samples' = 0 /\ collided' = FALSE /\ hit' = FALSE

\* What a case that ended does to the lists: it enters one, and a failure under
\* stop_on_fail puts the rest into skipped_remaining and leaves the loop.
Close(v) ==
    LET leave == v = "fail" /\ stopOnFail
    IN /\ verdict' = [i \in Cases |->
            IF i = idx THEN v ELSE IF leave /\ i > idx THEN "skip" ELSE verdict[i]]
       /\ pc' = IF leave THEN "finally" ELSE "next"
       /\ idx' = IF leave THEN idx ELSE idx + 1
       /\ keep' = FALSE /\ seeded' = FALSE           \* the locals of the case are gone
       /\ samples' = 0 /\ collided' = FALSE /\ hit' = FALSE

\* The head of the loop: a stop skips the rest, a hero that is still alive is kept.
NextCase ==
    /\ pc = "next"
    /\ \/ /\ idx > Len(Batch)
          /\ pc' = "finally" /\ UNCHANGED <<verdict, keep, raised>>
       \/ /\ idx <= Len(Batch) /\ stop
          /\ verdict' = [i \in Cases |-> IF i \in Rest(idx) THEN "skip" ELSE verdict[i]]
          /\ pc' = "finally" /\ UNCHANGED <<keep, raised>>
       \/ /\ idx <= Len(Batch) /\ ~stop
          /\ keep' = (idx > 1 /\ hero.st # "gone")
          /\ pc' = "load" /\ UNCHANGED <<verdict, raised>>
       \/ /\ idx <= Len(Batch) /\ ~stop
          /\ raised' = TRUE
          /\ pc' = "finally" /\ UNCHANGED <<verdict, keep>>
    /\ UNCHANGED <<idx, stop, optVars, hero, seeded, samples, collided, hit, client, tip, fresh, viewVars>>

\* _load_py runs outside the try of the case: a script that does not import takes
\* the whole batch with it, one without run_session only fails.
Load ==
    /\ pc = "load"
    /\ \/ pc' = "layout" /\ UNCHANGED <<idx, verdict, caseVars, raised>>
       \/ Close("fail") /\ UNCHANGED raised
       \/ pc' = "finally" /\ raised' = TRUE /\ UNCHANGED <<idx, verdict, caseVars>>
    /\ UNCHANGED <<stop, optVars, hero, client, tip, fresh, viewVars>>

\* The case raised: main keeps the view it had before the call, not the case's.
Raise ==
    /\ Close("fail")
    /\ lost' = lost \cup ({cv} \ {0, view})
    /\ cv' = 0
    /\ UNCHANGED <<view, raised>>

-----------------------------------------------------------------------------
(* run_session: layout, ambient traffic, view *)

\* A kept hero is only released; without one a new hero is placed, unseeded.
KeepUnreleased == IF hero.st = "gone" THEN NewHero ELSE hero
KeepLayout == IF hero.st = "gone" THEN NewHero ELSE Released(hero)

\* A cold AEB layout opens the seed window: the only place that may drive the hero.
ColdLayout == {[NewHero EXCEPT !.const = c, !.by = IF c THEN idx ELSE 0] :
                    c \in IF Batch[idx] = "aeb" THEN BOOLEAN ELSE {FALSE}}

\* Only a seed that reached its speed in two world ticks is reported as on.
SeedReported(h) == IF h.const THEN BOOLEAN ELSE {FALSE}

LayoutDone ==
    /\ pc = "layout"
    /\ hero' \in IF keep THEN {KeepLayout} ELSE ColdLayout
    /\ seeded' \in IF keep THEN {FALSE} ELSE SeedReported(hero')
    /\ pc' = "seed"
    /\ UNCHANGED <<idx, stop, optVars, verdict, keep, samples, collided, hit, client, tip, fresh, viewVars, raised>>

\* A place is taken, or the simulator does not answer: a cold layout has by then
\* destroyed the old hero, and may have placed and seeded the new one.
LayoutRaises ==
    /\ pc = "layout"
    /\ hero' \in IF keep THEN {hero} ELSE {[NoHero EXCEPT !.id = hero.id]} \cup ColdLayout
    /\ Raise
    /\ UNCHANGED <<stop, optVars, client, tip, fresh, views>>

\* ensure_ambient_traffic around the hero, modelled in AmbientTraffic.
SeedTraffic ==
    /\ pc = "seed"
    /\ \/ pc' = "view" /\ UNCHANGED <<idx, verdict, caseVars, viewVars, raised>>
       \/ Raise /\ UNCHANGED views
    /\ UNCHANGED <<stop, optVars, hero, client, tip, fresh>>

\* Building a view may fail, and then the case runs without one.
DestroyedWithCamera(vs, v) == [w \in DOMAIN vs |-> [vs[w] EXCEPT !.display = FALSE]]
Destroyed(vs, v) == [w \in DOMAIN vs |->
    [vs[w] EXCEPT !.display = FALSE, !.cam = vs[w].cam /\ w # v]]   \* pygame.quit closes every display
Opened(vs) == Cardinality({v \in DOMAIN vs : vs[v].of # 0})
OpenView(vs) ==
    LET n == Opened(vs) + 1
    IN \/ /\ views' = [vs EXCEPT ![n] = [of |-> hero.id, cam |-> TRUE, display |-> TRUE]]
          /\ cv' = n
       \/ views' = vs /\ cv' = 0

Follows == views[view].of = hero.id

\* _ensure_view: keep the view that follows this hero, retarget one that follows
\* another, and build a new one where there is none or retargeting failed.
EnsureView ==
    /\ pc = "view"
    /\ IF ~window THEN cv' = 0 /\ UNCHANGED views
       ELSE IF view = 0 THEN OpenView(views)
       ELSE IF Follows THEN cv' = view /\ UNCHANGED views
       ELSE \/ /\ views' = [views EXCEPT ![view].of = hero.id, ![view].cam = TRUE]
               /\ cv' = view
            \/ OpenView(Destroyed([views EXCEPT ![view].of = hero.id], view))
    /\ pc' = "tick"
    /\ UNCHANGED <<idx, stop, optVars, verdict, hero, caseVars, client, tip, fresh, view, lost, raised>>

-----------------------------------------------------------------------------
(* The tick loop of the case *)

\* The case's CmdProbe polls the receiver that all the cases share.
Poll ==
    /\ fresh' = (fresh \/ tip)
    /\ tip' = FALSE

\* tick_aeb_handoff, tick_vru_handoff: the first tick that sees control takes the
\* seed off a hero whose layout reported one.
Handoff(h) == IF fresh' /\ seeded THEN Released(h) ELSE h

\* freeze_actors leaves the hero to Giraffe, without the constant velocity.
Freeze(h) == Released(h)

\* The loop goes on until the signal, the hit, or the end of the duration, which may
\* come early where ticks are slow.
MoreTime == samples < MaxTicks
LoopOver == stop \/ hit \/ samples > 0

Tick ==
    /\ pc = "tick"
    /\ ~stop /\ ~hit /\ MoreTime
    /\ hero.st # "gone"                     \* gap_speed asks the simulator for it
    /\ Poll
    /\ samples' = samples + 1
    /\ \E c \in IF Batch[idx] = "lateral" THEN {FALSE} ELSE BOOLEAN :
          /\ collided' = (collided \/ c)
          /\ hit' = (c /\ Batch[idx] = "aeb")
          /\ hero' = IF hit' THEN Freeze(Handoff(hero)) ELSE Handoff(hero)
    /\ pc' = IF cv = 0 THEN "tick" ELSE "pump"
    /\ UNCHANGED <<idx, stop, optVars, verdict, keep, seeded, client, viewVars, raised>>

\* A hero or a target that is gone raises out of the loop.
TickRaises ==
    /\ pc = "tick"
    /\ ~stop /\ ~hit /\ MoreTime
    /\ Poll
    /\ Raise
    /\ UNCHANGED <<stop, optVars, hero, client, views>>

\* pump draws a frame; the user may have closed the window; a view whose display
\* another view closed cannot be drawn on.
Pump ==
    /\ pc = "pump"
    /\ \/ /\ pc' \in {"tick", "judge"} /\ views[cv].display
          /\ UNCHANGED <<idx, verdict, caseVars, viewVars, raised>>
       \/ /\ ~views[cv].display
          /\ Raise /\ UNCHANGED views
    /\ UNCHANGED <<stop, optVars, hero, client, tip, fresh>>

\* After the loop a hit freezes the actors once more.
LoopEnds ==
    /\ pc = "tick"
    /\ LoopOver
    /\ hero' = IF hit THEN Freeze(hero) ELSE hero
    /\ pc' = "judge"
    /\ UNCHANGED <<idx, stop, optVars, verdict, caseVars, client, tip, fresh, viewVars, raised>>

\* The judges: no control or a collision fails, few samples fail, and what is left
\* (headway, closing speed) may fail.
MayPassUncontrolled == ~collided /\ samples >= MinSamples
MayPass == fresh /\ ~collided /\ samples >= MinSamples

Judge ==
    /\ pc = "judge"
    /\ \E v \in {"fail"} \cup (IF MayPass THEN {"pass"} ELSE {}) : Close(v)
    /\ view' = cv /\ cv' = 0
    /\ UNCHANGED <<stop, optVars, hero, client, tip, fresh, views, lost, raised>>

\* The finally of main: the client and its tree are killed, the view destroyed.
StopClient == "none"
Finally ==
    /\ pc = "finally"
    /\ client' = StopClient
    /\ views' = IF view # 0 THEN Destroyed(views, view) ELSE views
    /\ pc' = IF raised THEN "crashed" ELSE "done"
    /\ UNCHANGED <<idx, stop, optVars, verdict, hero, caseVars, tip, fresh, view, cv, lost, raised>>

Main ==
    \/ StartClient \/ Wipe \/ NextCase \/ Load \/ LayoutDone \/ LayoutRaises \/ SeedTraffic
    \/ EnsureView \/ Tick \/ TickRaises \/ Pump \/ LoopEnds \/ Judge \/ Finally

-----------------------------------------------------------------------------
(* The surroundings *)

Ended == pc \in {"done", "crashed", "aborted"}
InBatch == pc \notin {"start", "wipe", "finally"} /\ ~Ended

\* The hero runs off the road, or something destroys it.
HeroWrecked ==
    /\ InBatch /\ hero.st = "ok"
    /\ hero' = [hero EXCEPT !.st = "wrecked"]
    /\ UNCHANGED <<pc, idx, stop, optVars, verdict, caseVars, client, tip, fresh, viewVars, raised>>

HeroGone ==
    /\ InBatch /\ hero.st # "gone"
    /\ hero' = [NoHero EXCEPT !.id = hero.id]
    /\ UNCHANGED <<pc, idx, stop, optVars, verdict, caseVars, client, tip, fresh, viewVars, raised>>

\* The client applies a command of the board and sends a tip of it, or dies.
ClientTip ==
    /\ client = "up" /\ InBatch /\ hero.st # "gone"
    /\ tip' = TRUE
    /\ UNCHANGED <<pc, idx, stop, optVars, verdict, hero, caseVars, client, fresh, viewVars, raised>>

ClientDies ==
    /\ client = "up" /\ InBatch
    /\ client' = "dead"
    /\ UNCHANGED <<pc, idx, stop, optVars, verdict, hero, caseVars, tip, fresh, viewVars, raised>>

Signal ==
    /\ ~stop /\ ~Ended
    /\ stop' = TRUE
    /\ UNCHANGED <<pc, idx, optVars, verdict, hero, caseVars, client, tip, fresh, viewVars, raised>>

Exited == Ended /\ UNCHANGED vars

Next ==
    \/ Main
    \/ HeroWrecked \/ HeroGone \/ ClientTip \/ ClientDies \/ Signal
    \/ Exited

\* The process keeps running; nothing is asked of the simulator, client or user.
Spec == Init /\ [][Next]_vars /\ WF_vars(Main)

-----------------------------------------------------------------------------
TypeOK ==
    /\ pc \in {"start", "wipe", "next", "load", "layout", "seed", "view", "tick", "pump", "judge",
               "finally", "done", "crashed", "aborted"}
    /\ idx \in 1..(Len(Batch) + 1)
    /\ {stop, stopOnFail, window, keep, seeded, collided, hit, tip, fresh, raised} \subseteq BOOLEAN
    /\ verdict \in [Cases -> {"none", "pass", "fail", "skip"}]
    /\ hero \in [id : 0..MaxHero, st : {"gone", "ok", "wrecked"}, const : BOOLEAN, by : Cases \cup {0}]
    /\ samples \in 0..MaxTicks
    /\ client \in {"none", "up", "dead"}
    /\ {view, cv} \cup lost \subseteq 0..MaxView
    /\ views \in [1..MaxView -> [of : 0..MaxHero, cam : BOOLEAN, display : BOOLEAN]]

\* When the batch ends by itself every case is in one of the three lists: the skipped
\* ones are the tail, and only a stop or a failure under stop_on_fail made them so.
\* A batch that an exception ended has written up exactly the cases before it.
EveryCaseAccounted ==
    /\ pc = "done" =>
        /\ \A i \in Cases : verdict[i] # "none"
        /\ \A i, j \in Cases : verdict[i] = "skip" /\ i < j => verdict[j] = "skip"
        /\ \A i \in Cases : verdict[i] = "skip" =>
              stop \/ (stopOnFail /\ i > 1 /\ \E j \in 1..(i - 1) : verdict[j] = "fail")
    /\ pc = "crashed" => \A i \in Cases : (verdict[i] = "none") = (i >= idx)

\* A case that passed saw a command of Giraffe in this batch and had no collision; the
\* samples of an earlier case never stand in for its own.
PassIsEarned ==
    [][\A i \in Cases : verdict'[i] = "pass" /\ verdict[i] # "pass" =>
            /\ i = idx /\ fresh /\ ~collided
            /\ samples >= MinSamples]_vars

\* The constant velocity of an AEB seed never outlives its case: whatever the case
\* before left behind, in a tick the hero is driven only by this case's own seed.
SeedIsOfThisCase ==
    pc \in {"tick", "pump", "judge"} /\ hero.const => hero.by = idx

\* The window of a running case shows the hero of that case: a view carried over
\* from the case before has been moved to the new hero.
ViewFollowsHero ==
    pc \in {"tick", "pump", "judge"} /\ cv # 0 => views[cv].of = hero.id /\ hero.id # 0

\* When the batch has ended a camera is left running only by a case that raised after
\* it had opened a view main did not know of.
CamerasHaveCause ==
    pc \in {"done", "crashed"} => \A v \in 1..MaxView : views[v].cam => v \in lost

\* The giraffe client outlives the batch only when the wipe before the try raised.
ClientStopped ==
    Ended /\ client = "up" => pc = "aborted"

\* What the end of the batch leaves to nobody: no camera and no client without one of
\* the two causes above.
NothingLeftBehind == CamerasHaveCause /\ ClientStopped

\* Whatever the simulator, the client and the user do, the batch ends.
BatchEnds == <>Ended

(***************************************************************************)
(* The rule of spawn/boundary.py: a hero that is off the road or flipped   *)
(* is destroyed before the next case, which starts cold.                   *)
(***************************************************************************)
NoCaseOnWreck ==
    [][pc = "next" /\ pc' = "load" /\ keep' => hero.st # "wrecked"]_vars

(* The rule of spawn/ic.py: a command of Giraffe releases the AEB seed. *)
HandoffReleases ==
    [][pc = "tick" /\ samples' > samples /\ fresh' => ~hero'.const]_vars
=============================================================================
