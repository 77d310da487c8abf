--------------------------- MODULE AmbientTraffic ---------------------------
(***************************************************************************)
(* The ambient traffic of carla_scenarios/src/lib/_traffic.py: a bubble of *)
(* cars around the hero that every case seeds and every tick may maintain: *)
(* cars that are far, fallen or in the way of the exam are culled, and new *)
(* ones are spawned where they may appear.                                 *)
(*                                                                         *)
(* The simulator runs on while a pulse works: between any two of its calls *)
(* a car may drive somewhere else.  A car is a pose relative to the hero,  *)
(* and the traffic is a bag of poses.  Lengths are in quarters of a metre. *)
(***************************************************************************)
EXTENDS Integers, Sequences, FiniteSets, FiniteSetsExt, Functions

CONSTANTS
    Poses,          \* [along, left, yaw, fallen] of a car as the hero sees it
    Leads,          \* how far ahead the lead of a case stands, 0 for none
    Numbers,        \* GF_TRAFFIC_NUMBER
    Period,         \* GF_TRAFFIC_MAINTAIN_S
    MaxElapsed,     \* a case lasts this long
    MaxCars         \* bounds the cars of the simulator

ASSUME NumberAssumption ==
    /\ Numbers \subseteq Nat /\ Period \in Nat \ {0}
    /\ Leads \subseteq Nat /\ MaxElapsed \in Nat /\ MaxCars \in Nat

ASSUME PoseAssumption ==
    Poses \subseteq [along : Int, left : Int, yaw : Int, fallen : BOOLEAN]

-----------------------------------------------------------------------------
(* Where a car is *)

Metre == 4
HalfLane == 7                       \* 0.5 * _LANE_W_M
Adjacent == HalfLane + 14
Carriage == 14 * Metre
Cull == 120 * Metre
ExamBehind == -(8 * Metre)
ExamAheadMin == 70 * Metre

Abs(n) == IF n < 0 THEN -n ELSE n

\* The hero looks along yaw 0; yaws are kept in -179..180.
SameDirection(p) == Abs(p.yaw) <= 55
Across(p) == Abs(p.yaw) \in 70..110

\* exam_window_end_m: the window ends 25 m behind the nearest fixture ahead.
ExamEnd(fixture) == IF fixture <= 2 THEN ExamAheadMin ELSE Max({ExamAheadMin, fixture + 25 * Metre})

InExamTube(p, end) == Abs(p.left) <= HalfLane /\ ExamBehind <= p.along /\ p.along <= end

\* Only the cars that head the hero's way are told apart by lane: a car that is turned
\* or on another carriageway counts as oncoming wherever it stands.
ClassifySpawn(p) ==
    LET side == CASE HalfLane < p.left /\ p.left <= Adjacent -> "left"
                  [] -Adjacent <= p.left /\ p.left < -HalfLane -> "right"
                  [] OTHER -> "skip"
        pace == CASE p.along >= 18 * Metre -> "ahead"
                  [] p.along <= -(18 * Metre) -> "behind"
                  [] OTHER -> "skip"
    IN IF ~SameDirection(p) \/ Abs(p.left) > Carriage THEN "oncoming"
       ELSE IF Abs(p.left) <= HalfLane THEN "host"
       ELSE IF "skip" \in {side, pace} THEN "skip"
       ELSE side \o "_" \o pace

FarAway(p) == Abs(p.along) > Cull \/ p.along * p.along + p.left * p.left > Cull * Cull

ClassifyLive(p, end) ==
    IF FarAway(p) THEN "far"
    ELSE IF Across(p) THEN "crossing"
    ELSE IF ClassifySpawn(p) = "host" /\ ~InExamTube(p, end) THEN "host_far"
    ELSE ClassifySpawn(p)

\* The band in which a new car of the slot may appear.
Bands == [right_ahead  |-> <<25, 70>>,   left_ahead   |-> <<25, 70>>,
          left_behind  |-> <<-45, -18>>, right_behind |-> <<-45, -18>>,
          oncoming     |-> <<25, 80>>,   crossing     |-> <<20, 80>>]

NoPop(p) == 0 <= p.along /\ p.along < 20 * Metre
SpawnBandOk(slot, p, end) ==
    /\ ~NoPop(p)
    /\ CASE slot \in DOMAIN Bands ->
               Bands[slot][1] * Metre <= p.along /\ p.along <= Bands[slot][2] * Metre
         [] slot = "host_far" -> end <= p.along /\ p.along <= 90 * Metre
         [] OTHER -> FALSE

\* flood_candidates: the road around the hero, and at the first fill the entries of the
\* junction ahead.
Candidates(end, light) ==
    {p \in Poses : /\ ~p.fallen
                   /\ LET slot == ClassifySpawn(p)
                          here == IF slot = "host" /\ p.along >= end THEN "host_far" ELSE slot
                      IN \/ here # "host" /\ SpawnBandOk(here, p, end)
                         \/ ~light /\ Across(p) /\ SpawnBandOk("crossing", p, ExamAheadMin)}

InSeeCone(p) == 8 * Metre <= p.along /\ p.along <= 80 * Metre /\ Abs(p.left) <= 16 * Metre

Near2(p, q, m) == (p.along - q.along) ^ 2 + (p.left - q.left) ^ 2 < (m * Metre) ^ 2

-----------------------------------------------------------------------------
(* How many cars *)

LiveStockCap(n) == IF n <= 0 THEN 0 ELSE Max({4, n \div 2})
MaxPerMaintain == 2

\* _topup_budget: below the rolling target the bubble is filled, at it only what was
\* culled is replaced.
TopupBudget(seen5, n, near, evicted) ==
    LET room == LiveStockCap(n) - near
    IN IF n <= 0 \/ room <= 0 THEN 0
       ELSE IF seen5 < n THEN Min({MaxPerMaintain, room})
       ELSE Min({MaxPerMaintain, evicted, room})

\* slot_caps_for_target: the table for 18 is scaled and rounded, then what is missing is
\* dealt out in the fill order, and what is too much is taken back from its end.
FillOrder == <<"right_ahead", "left_behind", "crossing", "left_ahead", "oncoming",
               "right_behind", "host_far">>
SlotNames == Range(FillOrder)
CapsAt18 == [s \in SlotNames |-> IF s \in {"right_ahead", "left_behind"} THEN 4 ELSE 2]

SumCaps(c) == FoldFunction(+, 0, c)
Rounded(a, b) == (2 * a + b) \div (2 * b)
Scaled(t) == [s \in SlotNames |-> Rounded(CapsAt18[s] * t, 18)]

Deal(c, extra) == [s \in SlotNames |-> c[s] +
    Cardinality({i \in 0..(extra - 1) : FillOrder[(i % 7) + 1] = s})]

\* One is taken back at a time, round after round, from the end of the order.
TakeBack(c, over) ==
    LET step[n \in 0..(7 * over)] ==
            IF n = 0 THEN c
            ELSE LET s == FillOrder[7 - ((n - 1) % 7)]
                     t == step[n - 1]
                 IN IF SumCaps(c) - SumCaps(t) < over /\ t[s] > 0 THEN [t EXCEPT ![s] = @ - 1] ELSE t
    IN step[7 * over]

SlotCaps(t) ==
    LET c == IF SumCaps(Scaled(t)) = 0 /\ t > 0
             THEN [Scaled(t) EXCEPT !["right_ahead"] = 1, !["left_behind"] = Min({1, t - 1})]
             ELSE Scaled(t)
        n == SumCaps(c)
    IN IF n <= t THEN Deal(c, t - n) ELSE TakeBack(c, n - t)

-----------------------------------------------------------------------------
VARIABLES
    number, trafficPc,     \* the target of the run; "idle", or the step of the pulse
    stock,          \* how many ambient cars stand at each pose
    lead,           \* the case's fixture
    elapsed, last,  \* the case's clock, and _maintain_last_s
    seed,           \* the pulse is the seed of a cold case
    end,            \* exam_end of the pulse
    todo,           \* the cars of _cull_bubble's list that it has not come to
    read,           \* its tf: where the car stood whose transform it read last, if any
    avoid,          \* dead: the places it remembers
    blocked,        \* where cars stood when the fill began
    evicted, budget,
    moved,          \* a car has moved since the pulse culled
    came,           \* cars the fill did not add that came into the bubble since it counted,
                    \* less those that left it
    nearAt,         \* what the fill counted
    left,           \* history: cars the cull meant to destroy and did not
    culled,         \* history: where the cars stood that it destroyed, having read where
    spawned         \* history: cars spawned in the case by its maintain pulses

Live == LiveStockCap(number)
pulse == <<end, read, avoid, culled, blocked, budget, nearAt, evicted>>
trafficVars == <<number, trafficPc, stock, lead, elapsed, last, seed, todo, pulse,
                 moved, came, left, spawned>>

\* The cars of a bag that stand at the poses of S, each told apart by a number.
CarsAt(b, S) == UNION {{p} \X (1..b[p]) : p \in S}
CountAt(b, S) == Cardinality(CarsAt(b, S))
Total(b) == CountAt(b, Poses)
NearPoses == {p \in Poses : ~FarAway(p)}
NearStock(b) == CountAt(b, NearPoses)
NoCar == [p \in Poses |-> 0]

TrafficInit ==
    /\ number \in Numbers /\ trafficPc = "idle" /\ stock = NoCar
    /\ lead \in Leads /\ elapsed = 0 /\ last = 0 /\ seed = FALSE
    /\ end = ExamAheadMin /\ todo = NoCar /\ read = {} /\ avoid = {} /\ culled = {}
    /\ blocked = {} /\ budget = 0 /\ nearAt = 0 /\ evicted = 0
    /\ moved = TRUE /\ came = 0 /\ left = 0 /\ spawned = 0

-----------------------------------------------------------------------------
(* A pulse *)

\* What a pulse knows is forgotten when it returns.
Forget ==
    /\ avoid' = {} /\ culled' = {} /\ blocked' = {} /\ budget' = 0 /\ nearAt' = 0
    /\ evicted' = 0 /\ came' = 0

\* ensure_ambient_traffic: a case begins; a cold one wipes the old stock before it seeds,
\* unless the bubble is on and the hero cannot be found.  _clear_ambient goes on when a
\* car cannot be destroyed, so any of them may survive.
Survivors == {b \in [Poses -> 0..MaxCars] : \A p \in Poses : b[p] <= stock[p]}
NewCase ==
    /\ trafficPc = "idle" /\ elapsed = MaxElapsed
    /\ lead' \in Leads
    /\ elapsed' = 0 /\ last' = 0 /\ spawned' = 0
    /\ seed' \in BOOLEAN
    /\ trafficPc' \in IF number > 0 THEN {"cull", "idle"} ELSE {"idle"}
    /\ IF seed' /\ (trafficPc' = "cull" \/ number = 0) THEN stock' \in Survivors ELSE stock' = stock
    /\ moved' = TRUE /\ left' = 0
    /\ UNCHANGED <<number, todo, pulse, came>>

\* maintain_ambient_traffic is called in every tick and works once per period; a period
\* in which the hero cannot be found is used up all the same.
Due == elapsed - last >= Period

Maintain ==
    /\ trafficPc = "idle" /\ number > 0 /\ Due
    /\ last' = elapsed /\ seed' = FALSE
    /\ trafficPc' \in {"cull", "idle"}
    /\ UNCHANGED <<number, stock, lead, elapsed, todo, pulse, moved, came, left, spawned>>

ShouldCullFar(p, e) == p.fallen \/ ClassifyLive(p, e) = "far"
ShouldCull(p, e) == p.fallen \/ ClassifyLive(p, e) \in {"far", "host"}

\* _cull_bubble: the list of the cars there are, which it goes through in the order of the
\* simulator.
CullBubble ==
    /\ trafficPc = "cull" /\ trafficPc' = "look"
    /\ end' = ExamEnd(lead) /\ todo' = stock
    /\ moved' = FALSE /\ left' = 0
    /\ UNCHANGED <<number, stock, lead, elapsed, last, seed, read, avoid, culled, blocked,
                   budget, nearAt, evicted, came, spawned>>

LookAt(p) ==
    /\ trafficPc = "look" /\ todo[p] > 0
    /\ todo' = [todo EXCEPT ![p] = @ - 1]
    /\ UNCHANGED <<number, trafficPc, lead, elapsed, last, seed, end, blocked, budget, nearAt,
                   moved, came, spawned>>

KeepCar(p) ==
    /\ LookAt(p) /\ ~ShouldCull(p, end)
    /\ read' = {p}
    /\ UNCHANGED <<stock, avoid, culled, evicted, left>>

\* A car whose transform cannot be read counts as far wherever it stands, and the place
\* remembered for it is that of the car read before; there being none, it stays.  One that
\* cannot be destroyed stays too, although its place is remembered.
CullCar(p, readable) ==
    LET place == IF readable THEN {p} ELSE read
    IN /\ LookAt(p) /\ (readable => ShouldCull(p, end))
       /\ read' = place /\ avoid' = avoid \cup place
       /\ \/ /\ place # {}
             /\ stock' = [stock EXCEPT ![p] = @ - 1] /\ evicted' = evicted + 1
             /\ culled' = IF readable THEN culled \cup {p} ELSE culled
             /\ left' = left
          \/ left' = left + 1 /\ UNCHANGED <<stock, evicted, culled>>

\* A case that keeps its hero only culls.
CullDone ==
    /\ trafficPc = "look" /\ todo = NoCar
    /\ read' = {}
    /\ IF last = 0 /\ ~seed THEN trafficPc' = "idle" /\ Forget
       ELSE trafficPc' = "budget" /\ UNCHANGED <<avoid, culled, blocked, budget, nearAt, evicted, came>>
    /\ UNCHANGED <<number, stock, lead, elapsed, last, seed, end, todo, moved, left, spawned>>

\* A seed may add eight; a maintain pulse adds by the rolling count of cars seen, which
\* is at least what can be seen now.
MaxAdd ==
    /\ trafficPc = "budget"
    /\ \E n \in IF seed THEN {Min({8, number})}
                ELSE {TopupBudget(s, number, NearStock(stock), evicted) :
                        s \in CountAt(stock, {p \in Poses : InSeeCone(p)})..Max({number, Total(stock)})} :
          IF n = 0 THEN trafficPc' = "idle" /\ Forget
          ELSE /\ trafficPc' = "count" /\ budget' = n /\ evicted' = 0
               /\ UNCHANGED <<avoid, culled, blocked, nearAt, came>>
    /\ UNCHANGED <<number, stock, lead, elapsed, last, seed, end, todo, read, moved, left, spawned>>

\* _fill_slots counts again for itself, and takes down where the cars stand.
RoomIgnored(near) == Live
Room(near) == Max({0, Live - near})

CountForFill ==
    /\ trafficPc = "count"
    /\ LET near == NearStock(stock)
           n == Min({budget, Room(near)})
       IN IF n = 0 THEN trafficPc' = "idle" /\ Forget
          ELSE /\ trafficPc' = "fill" /\ nearAt' = near /\ budget' = n
               /\ blocked' = {p \in Poses : stock[p] > 0}
               /\ UNCHANGED <<avoid, culled, evicted, came>>
    /\ UNCHANGED <<number, stock, lead, elapsed, last, seed, end, todo, read, moved, left, spawned>>

HeroPose == [along |-> 0, left |-> 0, yaw |-> 0, fallen |-> FALSE]
LeadPoses == IF lead = 0 THEN {} ELSE {[HeroPose EXCEPT !.along = lead]}

\* A place is taken when it is not near a car of the count, a car spawned since, the
\* hero, the lead, or a place that is remembered.
Free(p) ==
    /\ \A b \in blocked \cup {HeroPose} \cup LeadPoses : ~Near2(p, b, 10)
    /\ \A a \in avoid : ~Near2(p, a, 22)

\* The slot caps only order the candidates: a second pass ignores them.
Appear(p) ==
    /\ trafficPc = "fill" /\ budget > 0 /\ Total(stock) < MaxCars
    /\ Free(p)
    /\ stock' = [stock EXCEPT ![p] = @ + 1]
    /\ UNCHANGED <<number, trafficPc, lead, elapsed, last, seed, end, todo, read, avoid, culled,
                   nearAt, evicted, moved, left>>

SpawnOne ==
    /\ \E p \in Candidates(end, ~seed) : Appear(p) /\ blocked' = blocked \cup {p}
    /\ budget' = budget - 1
    /\ spawned' = IF seed THEN spawned ELSE spawned + 1
    /\ came' = came

\* A car that cannot be armed is destroyed; when that fails too it stays, uncounted.
SpawnUnarmed ==
    /\ \E p \in Candidates(end, ~seed) :
          Appear(p) /\ came' = came + Cardinality({p} \cap NearPoses)
    /\ UNCHANGED <<blocked, budget, spawned>>

\* The candidates are used up: taken, refused by the simulator, or not armed.
FillDone ==
    /\ trafficPc = "fill"
    /\ trafficPc' = "idle" /\ Forget
    /\ UNCHANGED <<number, stock, lead, elapsed, last, seed, end, todo, read, moved, left, spawned>>

-----------------------------------------------------------------------------
(* The simulator *)

\* A car drives on, or the hero does; in a cull it is one that has been looked at, or not.
Drive ==
    \E p, q \in Poses :
        /\ p # q /\ stock[p] > 0
        /\ stock' = [stock EXCEPT ![p] = @ - 1, ![q] = @ + 1]
        /\ \/ todo[p] > 0 /\ todo' = [todo EXCEPT ![p] = @ - 1, ![q] = @ + 1]
           \/ todo[p] < stock[p] /\ todo' = todo
        /\ came' = IF trafficPc = "fill"
                   THEN came + Cardinality({q} \cap NearPoses) - Cardinality({p} \cap NearPoses)
                   ELSE came
        /\ moved' = TRUE /\ left' = 0
        /\ UNCHANGED <<number, trafficPc, lead, elapsed, last, seed, pulse, spawned>>

Time ==
    /\ trafficPc = "idle" /\ elapsed < MaxElapsed
    /\ elapsed' = elapsed + 1
    /\ UNCHANGED <<number, trafficPc, stock, lead, last, seed, todo, pulse, moved, came, left, spawned>>

CullSteps ==
    \/ CullBubble \/ CullDone
    \/ \E p \in Poses : KeepCar(p) \/ \E readable \in BOOLEAN : CullCar(p, readable)
Pulse == CullSteps \/ MaxAdd \/ CountForFill \/ SpawnOne \/ SpawnUnarmed \/ FillDone
TrafficNext == NewCase \/ Maintain \/ Pulse \/ Drive \/ Time

TrafficSpec == TrafficInit /\ [][TrafficNext]_trafficVars

-----------------------------------------------------------------------------
(* Properties *)

TrafficTypeOK ==
    /\ number \in Numbers /\ trafficPc \in {"idle", "cull", "look", "budget", "count", "fill"}
    /\ stock \in [Poses -> 0..MaxCars] /\ lead \in Leads
    /\ elapsed \in 0..MaxElapsed /\ last \in 0..elapsed /\ seed \in BOOLEAN
    /\ todo \in [Poses -> 0..MaxCars] /\ \A p \in Poses : todo[p] <= stock[p]
    /\ end >= ExamAheadMin /\ read \subseteq Poses /\ avoid \subseteq Poses /\ culled \subseteq avoid
    /\ blocked \subseteq Poses
    /\ budget \in 0..Max({8, MaxPerMaintain}) /\ evicted \in 0..MaxCars /\ nearAt \in 0..MaxCars
    /\ moved \in BOOLEAN /\ came \in -MaxCars..MaxCars /\ left \in 0..MaxCars /\ spawned \in Nat

\* live_stock_cap: a fill never takes the bubble over half the target, however the cars
\* moved between the budget and the fill; only cars that drive in while it
\* spawns do, and those that could neither be armed nor destroyed.
BubbleRoom ==
    trafficPc = "fill" => NearStock(stock) <= Max({Live, nearAt}) + came

\* MAX_PER_MAINTAIN and the period: in every stretch of a case the maintain pulses spawn
\* and arm at most two cars a period, whatever the tick rate.
SpawnRate == spawned <= MaxPerMaintain * (elapsed \div Period)

\* No car that appears, armed or not, pops up 0-20 m ahead of the hero, in the exam tube
\* heading its way, or next to where a car stood that the same pulse culled, having read
\* where it was; of one it could not read it remembers another place.
SpawnPlaceOk ==
    [][trafficPc = "fill" /\ Total(stock') > Total(stock) => \A p \in Poses : stock'[p] > stock[p] =>
          /\ ~NoPop(p)
          /\ SameDirection(p) => ~InExamTube(p, end - 1)
          /\ \A c \in culled : ~Near2(p, c, 22)]_trafficVars

\* "Host exam window empty": when a pulse is over and nothing has driven since its cull
\* began, the cars in the hero's tube are turned, or are among those it meant to destroy
\* and did not.
ExamWindowKept ==
    trafficPc = "idle" /\ ~moved =>
        CountAt(stock, {p \in Poses : InExamTube(p, end - 1) /\ SameDirection(p)}) <= left

\* The slots of a fill share out exactly the live cap, although the rounded table may hold
\* fewer or more than that.
CapsSum == trafficPc = "fill" => SumCaps(SlotCaps(Live)) = Live

=============================================================================
