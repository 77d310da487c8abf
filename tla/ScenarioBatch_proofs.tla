------------------------ MODULE ScenarioBatch_proofs ------------------------
(***************************************************************************)
(* For every batch, every number of ticks and every MinSamples: each case  *)
(* is accounted for, no pass is unearned, a seed ends with its case, and   *)
(* what the batch leaves behind has its cause; the view of a case shows    *)
(* its hero.  And of the traffic around the hero, for every set of poses   *)
(* and every period: the bubble keeps its room, the exam window stays      *)
(* clear, and new cars keep their rate and their places.                   *)
(***************************************************************************)
EXTENDS ScenarioBatch, AmbientTraffic, FiniteSetTheorems, TLAPS

InCase == {"load", "layout", "seed", "view", "tick", "pump", "judge"}
Places == InCase \cup {"start", "wipe", "next", "finally", "done", "crashed", "aborted"}
Loop   == {"tick", "pump", "judge"}

Heroes == [id : Nat, st : {"gone", "ok", "wrecked"}, const : BOOLEAN, by : Nat]
Views  == [1..MaxView -> [of : Nat, cam : BOOLEAN, display : BOOLEAN]]

\* What the variables hold, and when an exception is on its way out.
ShapeInv ==
    /\ pc \in Places /\ idx \in 1..(Len(Batch) + 1)
    /\ stop \in BOOLEAN /\ stopOnFail \in BOOLEAN /\ window \in BOOLEAN /\ raised \in BOOLEAN
    /\ verdict \in [Cases -> {"none", "pass", "fail", "skip"}]
    /\ hero \in Heroes /\ views \in Views
    /\ pc \in InCase => idx <= Len(Batch)
    /\ raised => pc \in {"finally", "crashed"}
    /\ pc = "crashed" => raised

\* Every case is in a list, the skipped ones at the end, and with a reason.
Accounted ==
    /\ \A i \in Cases : verdict[i] # "none"
    /\ \A i, j \in Cases : verdict[i] = "skip" /\ i < j => verdict[j] = "skip"
    /\ \A i \in Cases : verdict[i] = "skip" =>
          stop \/ (stopOnFail /\ i > 1 /\ \E j \in 1..(i - 1) : verdict[j] = "fail")

\* While the batch goes on, or when an exception ends it, the cases before idx
\* have a verdict and the others none.
VerdictInv ==
    /\ pc \in {"finally", "done"} /\ ~raised => Accounted
    /\ pc \notin {"finally", "done"} \/ raised =>
          \A i \in Cases : verdict[i] \in IF i < idx THEN {"pass", "fail"} ELSE {"none"}

\* A hero that drives by itself, once the layout is done, does so by this case's seed.
SeedInv == pc \in {"seed", "view"} \cup Loop /\ hero.const => hero.by = idx

\* A camera belongs to main's view, to the running case's, or to one that was lost;
\* a view that the running case has given up has none.
CameraInv ==
    /\ pc \notin Loop => cv = 0
    /\ ~window => view = 0 /\ cv = 0
    /\ \A v \in 1..MaxView : views[v].cam => v \in lost \cup {view, cv}
    /\ pc \in Loop => \A v \in 1..MaxView : v = view /\ v # cv => ~views[v].cam
    /\ pc \in {"done", "crashed"} => \A v \in 1..MaxView : views[v].cam => v \in lost

\* After the finally of main no client is left.
ClientInv == pc \in {"done", "crashed"} => client = "none"

IInv == ShapeInv /\ VerdictInv /\ SeedInv /\ CameraInv /\ ClientInv

-----------------------------------------------------------------------------
LEMMA CasesAreNumbers == Len(Batch) \in Nat \ {0} /\ Cases = 1..Len(Batch) /\ MaxView = Len(Batch)
  BY BatchAssumption DEF Cases, MaxView

LEMMA InitIInv == Init => IInv
  <1> SUFFICES ASSUME Init PROVE IInv
    OBVIOUS
  <1> USE CasesAreNumbers
  <1>1. ShapeInv
    <2>1. hero \in Heroes
      <3>1. hero \in {NoHero, [id |-> 1, st |-> "ok", const |-> TRUE, by |-> 0]}
        BY DEF Init, NoHero
      <3>2. NoHero \in Heroes
        BY DEF NoHero, Heroes
      <3>3. [id |-> 1, st |-> "ok", const |-> TRUE, by |-> 0] \in Heroes
        BY DEF Heroes
      <3> QED
        BY <3>1, <3>2, <3>3
    <2>2. views \in Views
      BY DEF Init, NoView, Views
    <2>3. verdict \in [Cases -> {"none", "pass", "fail", "skip"}]
      BY DEF Init
    <2>4. /\ pc = "start" /\ idx = 1 /\ ~stop /\ ~raised
          /\ stopOnFail \in BOOLEAN /\ window \in BOOLEAN
          /\ stop \in BOOLEAN /\ raised \in BOOLEAN
      BY DEF Init
    <2> QED
      BY <2>1, <2>2, <2>3, <2>4 DEF ShapeInv, Places, InCase
  <1>2. VerdictInv
    BY DEF Init, VerdictInv
  <1>3. SeedInv
    BY DEF Init, SeedInv, Loop
  <1>4. CameraInv
    BY DEF Init, CameraInv, Loop, NoView
  <1>5. ClientInv
    BY DEF Init, ClientInv
  <1> QED
    BY <1>1, <1>2, <1>3, <1>4, <1>5 DEF IInv

\* The end of a case, whatever it ends with: the lists, and the place.
LEMMA CloseIsAccounted ==
  ASSUME IInv, pc \in InCase, NEW v \in {"pass", "fail"}, Close(v),
         UNCHANGED <<stop, optVars, raised>>
  PROVE  /\ pc' \in {"finally", "next"} /\ idx' \in 1..(Len(Batch) + 1)
         /\ verdict' \in [Cases -> {"none", "pass", "fail", "skip"}]
         /\ VerdictInv'
         /\ \A i \in Cases : verdict'[i] = "pass" /\ verdict[i] # "pass" => i = idx /\ v = "pass"
  <1> USE CasesAreNumbers
  <1> USE DEF IInv, ShapeInv, VerdictInv, InCase, Close, optVars
  <1>1. idx \in Cases /\ ~raised /\ ~raised'
    OBVIOUS
  <1>2. \A i \in Cases : verdict[i] \in IF i < idx THEN {"pass", "fail"} ELSE {"none"}
    OBVIOUS
  <1>3. CASE v = "fail" /\ stopOnFail
    <2>1. /\ pc' = "finally" /\ idx' = idx
          /\ verdict' \in [Cases -> {"none", "pass", "fail", "skip"}]
          /\ \A i \in Cases : verdict'[i] =
                IF i = idx THEN "fail" ELSE IF i > idx THEN "skip" ELSE verdict[i]
      BY <1>1, <1>3
    <2>2. Accounted'
      <3>1. \A i \in Cases : verdict'[i] # "none"
        BY <1>1, <1>2, <2>1
      <3>2. \A i \in Cases : verdict'[i] = "skip" => i > idx
        BY <1>1, <1>2, <2>1
      <3>3. \A i, j \in Cases : verdict'[i] = "skip" /\ i < j => verdict'[j] = "skip"
        BY <1>1, <2>1, <3>2
      <3>4. ASSUME NEW i \in Cases, verdict'[i] = "skip"
            PROVE  stopOnFail' /\ i > 1 /\ \E j \in 1..(i - 1) : verdict'[j] = "fail"
        <4>1. i > idx /\ idx \in 1..(i - 1) /\ verdict'[idx] = "fail"
          BY <1>1, <2>1, <3>2, <3>4
        <4> QED
          BY <1>1, <1>3, <4>1
      <3> QED
        BY <3>1, <3>3, <3>4 DEF Accounted
    <2> QED
      BY <1>1, <1>2, <2>1, <2>2
  <1>4. CASE ~(v = "fail" /\ stopOnFail)
    <2>1. /\ pc' = "next" /\ idx' = idx + 1
          /\ verdict' \in [Cases -> {"none", "pass", "fail", "skip"}]
          /\ \A i \in Cases : verdict'[i] = IF i = idx THEN v ELSE verdict[i]
      BY <1>1, <1>4
    <2> QED
      BY <1>1, <1>2, <2>1
  <1> QED
    BY <1>3, <1>4

\* The heroes that a layout, a handoff and the simulator make.
LEMMA HeroesMade ==
  ASSUME hero \in Heroes, idx \in Nat
  PROVE  /\ NewHero \in Heroes /\ ~NewHero.const
         /\ \A h \in Heroes : Released(h) \in Heroes /\ ~Released(h).const
         /\ [NoHero EXCEPT !.id = hero.id] \in Heroes /\ ~[NoHero EXCEPT !.id = hero.id].const
         /\ [hero EXCEPT !.st = "wrecked"] \in Heroes
         /\ [hero EXCEPT !.st = "wrecked"].const = hero.const
         /\ [hero EXCEPT !.st = "wrecked"].by = hero.by
         /\ \A h \in ColdLayout : h \in Heroes /\ (h.const => h.by = idx)
  <1>1. NewHero \in Heroes /\ ~NewHero.const
    BY DEF NewHero, Heroes
  <1>2. \A h \in Heroes : Released(h) \in Heroes /\ ~Released(h).const
    BY DEF Released, Heroes
  <1>3. [NoHero EXCEPT !.id = hero.id] \in Heroes /\ ~[NoHero EXCEPT !.id = hero.id].const
    BY DEF NoHero, Heroes
  <1>4. /\ [hero EXCEPT !.st = "wrecked"] \in Heroes
        /\ [hero EXCEPT !.st = "wrecked"].const = hero.const
        /\ [hero EXCEPT !.st = "wrecked"].by = hero.by
    BY DEF Heroes
  <1>5. \A h \in ColdLayout : h \in Heroes /\ (h.const => h.by = idx)
    <2> SUFFICES ASSUME NEW c \in BOOLEAN,
                        NEW h, h = [NewHero EXCEPT !.const = c, !.by = IF c THEN idx ELSE 0]
                 PROVE  h \in Heroes /\ (h.const => h.by = idx)
      BY DEF ColdLayout
    <2>1. h = [id |-> hero.id + 1, st |-> "ok", const |-> c, by |-> IF c THEN idx ELSE 0]
      BY DEF NewHero
    <2>2. (IF c THEN idx ELSE 0) \in Nat /\ hero.id + 1 \in Nat
      BY DEF Heroes
    <2>3. h \in Heroes
      <3> DEFINE n == IF c THEN idx ELSE 0
                 k == hero.id + 1
      <3>1. n \in Nat /\ k \in Nat /\ h = [id |-> k, st |-> "ok", const |-> c, by |-> n]
        BY <2>1, <2>2
      <3> HIDE DEF n, k
      <3> QED
        BY <3>1 DEF Heroes
    <2>4. h.const = c /\ h.by = IF c THEN idx ELSE 0
      BY <2>1
    <2> QED
      BY <2>3, <2>4
  <1> QED
    BY <1>1, <1>2, <1>3, <1>4, <1>5

\* A view that is destroyed has no camera; the others keep theirs.
LEMMA DestroyedViews ==
  ASSUME NEW vs \in Views, NEW x
  PROVE  /\ Destroyed(vs, x) \in Views
         /\ \A v \in 1..MaxView : Destroyed(vs, x)[v].cam = (vs[v].cam /\ v # x)
  BY DEF Destroyed, Views

\* Only the view that is opened, and then the case's, gets a camera.
LEMMA OpenedViews ==
  ASSUME hero \in Heroes, NEW vs \in Views, OpenView(vs)
  PROVE  /\ views' \in Views
         /\ \A v \in 1..MaxView : views'[v].cam => vs[v].cam \/ v = cv'
  <1>1. ASSUME NEW n, views' = [vs EXCEPT ![n] = [of |-> hero.id, cam |-> TRUE, display |-> TRUE]],
               cv' = n
        PROVE  /\ views' \in Views
               /\ \A v \in 1..MaxView : views'[v].cam => vs[v].cam \/ v = cv'
    <2>1. [of |-> hero.id, cam |-> TRUE, display |-> TRUE]
            \in [of : Nat, cam : BOOLEAN, display : BOOLEAN]
      BY DEF Heroes
    <2> QED
      BY <1>1, <2>1 DEF Views
  <1>2. CASE views' = vs /\ cv' = 0
    BY <1>2
  <1> QED
    BY <1>1, <1>2 DEF OpenView

\* No action takes a variable out of its range.
LEMMA NextShape == IInv /\ [Next]_vars => ShapeInv'
  <1> SUFFICES ASSUME IInv, [Next]_vars PROVE ShapeInv'
    OBVIOUS
  <1> USE CasesAreNumbers
      DEF IInv, ShapeInv, InCase, Places, caseVars, viewVars, optVars
  <1>1. CASE StartClient
    BY <1>1 DEF StartClient
  <1>2. CASE Wipe
    <2>1. hero' \in Heroes
      BY <1>2, HeroesMade DEF Wipe
    <2> QED
      BY <1>2, <2>1 DEF Wipe
  <1>3. CASE NextCase
    <2>1. UNCHANGED <<idx, stop, optVars, hero, views>> /\ pc' \in {"finally", "load"}
      BY <1>3 DEF NextCase
    <2>3. pc' = "load" => idx <= Len(Batch) /\ raised' = raised
      BY <1>3 DEF NextCase
    <2>4. raised' = raised \/ raised' = TRUE
      BY <1>3 DEF NextCase
    <2>2. verdict' \in [Cases -> {"none", "pass", "fail", "skip"}]
      BY <1>3 DEF NextCase
    <2> QED
      BY <1>3, <2>1, <2>2, <2>3, <2>4 DEF NextCase
  <1>4. CASE Load
    <2>1. CASE Close("fail") /\ UNCHANGED raised
      BY <1>4, <2>1, CloseIsAccounted DEF Load
    <2>2. CASE pc' = "layout" /\ UNCHANGED <<idx, verdict, caseVars, raised>>
      BY <1>4, <2>2 DEF Load
    <2>3. CASE pc' = "finally" /\ raised' = TRUE /\ UNCHANGED <<idx, verdict, caseVars>>
      BY <1>4, <2>3 DEF Load
    <2> QED
      BY <1>4, <2>1, <2>2, <2>3 DEF Load
  <1>5. CASE LayoutDone
    <2>1. hero' \in Heroes
      BY <1>5, HeroesMade DEF LayoutDone, KeepLayout
    <2> QED
      BY <1>5, <2>1 DEF LayoutDone
  <1>6. CASE LayoutRaises
    <2>1. hero' \in Heroes
      <3>1. hero' \in {hero} \cup {[NoHero EXCEPT !.id = hero.id]} \cup ColdLayout
        BY <1>6 DEF LayoutRaises
      <3> QED
        BY <3>1, HeroesMade
    <2> QED
      BY <1>6, <2>1, CloseIsAccounted DEF LayoutRaises, Raise
  <1>7. CASE SeedTraffic
    <2>1. CASE Raise /\ UNCHANGED views
      BY <1>7, <2>1, CloseIsAccounted DEF SeedTraffic, Raise
    <2> QED
      BY <1>7, <2>1 DEF SeedTraffic
  <1>8. CASE EnsureView
    <2>1. views' \in Views
      <3> DEFINE vs == [views EXCEPT ![view].of = hero.id, ![view].cam = TRUE]
                 ws == [views EXCEPT ![view].of = hero.id]
      <3>1. vs \in Views /\ ws \in Views
        <4>1. ASSUME NEW v \in 1..MaxView
              PROVE  /\ vs[v] \in [of : Nat, cam : BOOLEAN, display : BOOLEAN]
                     /\ ws[v] \in [of : Nat, cam : BOOLEAN, display : BOOLEAN]
          <5>1. views[v] \in [of : Nat, cam : BOOLEAN, display : BOOLEAN] /\ hero.id \in Nat
            BY DEF Views, Heroes
          <5>2. /\ vs[v] = IF v = view THEN [views[v] EXCEPT !.of = hero.id, !.cam = TRUE] ELSE views[v]
                /\ ws[v] = IF v = view THEN [views[v] EXCEPT !.of = hero.id] ELSE views[v]
            BY DEF Views
          <5>3. vs[v] \in [of : Nat, cam : BOOLEAN, display : BOOLEAN]
            <6>1. CASE v = view
              <7>1. vs[v] = [[views[v] EXCEPT !.of = hero.id] EXCEPT !.cam = TRUE]
                BY <6>1 DEF Views
              <7>2. [views[v] EXCEPT !.of = hero.id] \in [of : Nat, cam : BOOLEAN, display : BOOLEAN]
                BY <5>1
              <7> QED
                BY <7>1, <7>2
            <6> QED
              BY <5>1, <5>2, <6>1
          <5>4. ws[v] \in [of : Nat, cam : BOOLEAN, display : BOOLEAN]
            BY <5>1, <5>2
          <5> QED
            BY <5>3, <5>4
        <4> QED
          BY <4>1 DEF Views
      <3>2. Destroyed(ws, view) \in Views
        BY <3>1, DestroyedViews
      <3> HIDE DEF vs, ws
      <3> QED
        BY <1>8, <3>1, <3>2, OpenedViews DEF EnsureView, vs, ws
    <2> QED
      BY <1>8, <2>1 DEF EnsureView
  <1>9. CASE Tick
    <2>1. hero' \in Heroes
      BY <1>9, HeroesMade DEF Tick, Handoff, Freeze
    <2> QED
      BY <1>9, <2>1 DEF Tick
  <1>10. CASE TickRaises
    BY <1>10, CloseIsAccounted DEF TickRaises, Raise
  <1>11. CASE Pump
    <2>1. CASE Raise /\ UNCHANGED views
      BY <1>11, <2>1, CloseIsAccounted DEF Pump, Raise
    <2> QED
      BY <1>11, <2>1 DEF Pump
  <1>12. CASE LoopEnds
    <2>1. hero' \in Heroes
      BY <1>12, HeroesMade DEF LoopEnds, Freeze
    <2> QED
      BY <1>12, <2>1 DEF LoopEnds
  <1>13. CASE Judge
    BY <1>13, CloseIsAccounted DEF Judge
  <1>14. CASE Finally
    <2>1. views' \in Views
      BY <1>14, DestroyedViews DEF Finally
    <2> QED
      BY <1>14, <2>1 DEF Finally
  <1>15. CASE HeroWrecked
    BY <1>15, HeroesMade DEF HeroWrecked
  <1>16. CASE HeroGone
    BY <1>16, HeroesMade DEF HeroGone
  <1>17. CASE ClientTip
    BY <1>17 DEF ClientTip
  <1>18. CASE ClientDies
    BY <1>18 DEF ClientDies
  <1>19. CASE Signal
    BY <1>19 DEF Signal
  <1>20. CASE Exited
    BY <1>20 DEF Exited, vars
  <1>21. CASE UNCHANGED vars
    BY <1>21 DEF vars
  <1> QED
    BY <1>1, <1>2, <1>3, <1>4, <1>5, <1>6, <1>7, <1>8, <1>9, <1>10, <1>11, <1>12, <1>13, <1>14,
       <1>15, <1>16, <1>17, <1>18, <1>19, <1>20, <1>21 DEF Next, Main

\* Every action leaves each case where it belongs.
LEMMA NextVerdict == IInv /\ [Next]_vars => VerdictInv'
  <1> SUFFICES ASSUME IInv, [Next]_vars PROVE VerdictInv'
    OBVIOUS
  <1> USE CasesAreNumbers
      DEF IInv, ShapeInv, InCase, Places, caseVars, viewVars, optVars, VerdictInv
  <1>1. CASE StartClient
    <2>1. /\ pc' \notin {"finally", "done"} /\ pc \notin {"finally", "done"}
          /\ UNCHANGED <<verdict, idx>>
      BY <1>1 DEF StartClient
    <2> QED
      BY <2>1
  <1>2. CASE Wipe
    <2>1. /\ pc' \notin {"finally", "done"} /\ pc \notin {"finally", "done"}
          /\ UNCHANGED <<verdict, idx>>
      BY <1>2 DEF Wipe
    <2> QED
      BY <2>1
  <1>3. CASE NextCase
    <2>1. ~raised /\ \A i \in Cases : verdict[i] \in IF i < idx THEN {"pass", "fail"} ELSE {"none"}
      BY <1>3 DEF NextCase
    <2>2. CASE idx > Len(Batch) /\ pc' = "finally" /\ UNCHANGED <<idx, verdict, keep, raised>>
      <3>1. \A i \in Cases : verdict'[i] \in {"pass", "fail"}
        BY <2>1, <2>2
      <3> QED
        BY <2>1, <2>2, <3>1 DEF Accounted
    <2>3. CASE /\ idx <= Len(Batch) /\ stop
               /\ verdict' = [i \in Cases |-> IF i \in Rest(idx) THEN "skip" ELSE verdict[i]]
               /\ pc' = "finally" /\ UNCHANGED <<idx, stop, keep, raised>>
      <3>1. \A i \in Cases : verdict'[i] \in IF i < idx THEN {"pass", "fail"} ELSE {"skip"}
        BY <2>1, <2>3 DEF Rest
      <3> QED
        BY <2>1, <2>3, <3>1 DEF Accounted
    <2>4. CASE pc' = "load" /\ UNCHANGED <<idx, verdict, raised>>
      BY <2>1, <2>4
    <2>5. CASE raised' = TRUE /\ pc' = "finally" /\ UNCHANGED <<idx, verdict, keep>>
      BY <2>1, <2>5
    <2> QED
      BY <1>3, <2>2, <2>3, <2>4, <2>5 DEF NextCase
  <1>4. CASE Load
    <2>1. CASE Close("fail") /\ UNCHANGED raised
      BY <1>4, <2>1, CloseIsAccounted DEF Load
    <2>2. CASE pc' = "layout" /\ UNCHANGED <<idx, verdict, caseVars, raised>>
      BY <1>4, <2>2 DEF Load
    <2>3. CASE pc' = "finally" /\ raised' = TRUE /\ UNCHANGED <<idx, verdict, caseVars>>
      BY <1>4, <2>3 DEF Load
    <2> QED
      BY <1>4, <2>1, <2>2, <2>3 DEF Load
  <1>5. CASE LayoutDone
    <2>1. /\ pc' \notin {"finally", "done"} /\ pc \notin {"finally", "done"}
          /\ UNCHANGED <<verdict, idx>>
      BY <1>5 DEF LayoutDone
    <2> QED
      BY <2>1
  <1>6. CASE LayoutRaises
    BY <1>6, CloseIsAccounted DEF LayoutRaises, Raise
  <1>7. CASE SeedTraffic
    <2>1. CASE Raise /\ UNCHANGED views
      BY <1>7, <2>1, CloseIsAccounted DEF SeedTraffic, Raise
    <2>2. CASE ~Raise
      BY <1>7, <2>2 DEF SeedTraffic
    <2> QED
      BY <2>1, <2>2, <1>7 DEF SeedTraffic
  <1>8. CASE EnsureView
    <2>1. /\ pc' \notin {"finally", "done"} /\ pc \notin {"finally", "done"}
          /\ UNCHANGED <<verdict, idx>>
      BY <1>8 DEF EnsureView
    <2> QED
      BY <2>1
  <1>9. CASE Tick
    <2>1. /\ pc' \notin {"finally", "done"} /\ pc \notin {"finally", "done"}
          /\ UNCHANGED <<verdict, idx>>
      BY <1>9 DEF Tick
    <2> QED
      BY <2>1
  <1>10. CASE TickRaises
    BY <1>10, CloseIsAccounted DEF TickRaises, Raise
  <1>11. CASE Pump
    <2>1. CASE Raise /\ UNCHANGED views
      BY <1>11, <2>1, CloseIsAccounted DEF Pump, Raise
    <2>2. CASE ~Raise
      BY <1>11, <2>2 DEF Pump
    <2> QED
      BY <2>1, <2>2, <1>11 DEF Pump
  <1>12. CASE LoopEnds
    <2>1. /\ pc' \notin {"finally", "done"} /\ pc \notin {"finally", "done"}
          /\ UNCHANGED <<verdict, idx>>
      BY <1>12 DEF LoopEnds
    <2> QED
      BY <2>1
  <1>13. CASE Judge
    BY <1>13, CloseIsAccounted DEF Judge
  <1>14. CASE Finally
    <2>1. UNCHANGED <<verdict, idx, stop, stopOnFail, raised>> /\ pc = "finally"
          /\ pc' = IF raised THEN "crashed" ELSE "done"
      BY <1>14 DEF Finally
    <2>2. Accounted => Accounted'
      BY <2>1 DEF Accounted
    <2> QED
      BY <2>1, <2>2
  <1>15. CASE HeroWrecked
    <2>1. /\ pc' \notin {"finally", "done"} /\ pc \notin {"finally", "done"}
          /\ UNCHANGED <<verdict, idx>>
      BY <1>15 DEF HeroWrecked, InBatch, Ended
    <2> QED
      BY <2>1
  <1>16. CASE HeroGone
    <2>1. /\ pc' \notin {"finally", "done"} /\ pc \notin {"finally", "done"}
          /\ UNCHANGED <<verdict, idx>>
      BY <1>16 DEF HeroGone, InBatch, Ended
    <2> QED
      BY <2>1
  <1>17. CASE ClientTip
    <2>1. /\ pc' \notin {"finally", "done"} /\ pc \notin {"finally", "done"}
          /\ UNCHANGED <<verdict, idx>>
      BY <1>17 DEF ClientTip, InBatch, Ended
    <2> QED
      BY <2>1
  <1>18. CASE ClientDies
    <2>1. /\ pc' \notin {"finally", "done"} /\ pc \notin {"finally", "done"}
          /\ UNCHANGED <<verdict, idx>>
      BY <1>18 DEF ClientDies, InBatch, Ended
    <2> QED
      BY <2>1
  <1>19. CASE Signal
    <2>1. Accounted => Accounted'
      BY <1>19 DEF Signal, Accounted
    <2> QED
      BY <1>19, <2>1 DEF Signal
  <1>20. CASE Exited
    BY <1>20 DEF Exited, vars, Accounted
  <1>21. CASE UNCHANGED vars
    BY <1>21 DEF vars, Accounted
  <1> QED
    BY <1>1, <1>2, <1>3, <1>4, <1>5, <1>6, <1>7, <1>8, <1>9, <1>10, <1>11, <1>12, <1>13, <1>14,
       <1>15, <1>16, <1>17, <1>18, <1>19, <1>20, <1>21 DEF Next, Main

\* No action but the case's own layout makes the hero drive by itself.
LEMMA NextSeed == IInv /\ [Next]_vars => SeedInv'
  <1> SUFFICES ASSUME IInv, [Next]_vars PROVE SeedInv'
    OBVIOUS
  <1> USE CasesAreNumbers
      DEF IInv, ShapeInv, InCase, Places, caseVars, viewVars, optVars, SeedInv, Loop
  <1>1. CASE StartClient
    BY <1>1 DEF StartClient
  <1>2. CASE Wipe
    BY <1>2, HeroesMade DEF Wipe
  <1>3. CASE NextCase
    BY <1>3 DEF NextCase
  <1>4. CASE Load
    BY <1>4 DEF Load, Raise, Close
  <1>5. CASE LayoutDone
    BY <1>5, HeroesMade DEF LayoutDone, KeepLayout
  <1>6. CASE LayoutRaises
    BY <1>6 DEF LayoutRaises, Raise, Close
  <1>7. CASE SeedTraffic
    BY <1>7 DEF SeedTraffic, Raise, Close
  <1>8. CASE EnsureView
    BY <1>8 DEF EnsureView
  <1>9. CASE Tick
    BY <1>9, HeroesMade DEF Tick, Handoff, Freeze
  <1>10. CASE TickRaises
    BY <1>10 DEF TickRaises, Raise, Close
  <1>11. CASE Pump
    BY <1>11 DEF Pump, Raise, Close
  <1>12. CASE LoopEnds
    BY <1>12, HeroesMade DEF LoopEnds, Freeze
  <1>13. CASE Judge
    BY <1>13 DEF Judge, Raise, Close
  <1>14. CASE Finally
    BY <1>14 DEF Finally
  <1>15. CASE HeroWrecked
    BY <1>15, HeroesMade DEF HeroWrecked
  <1>16. CASE HeroGone
    BY <1>16, HeroesMade DEF HeroGone
  <1>17. CASE ClientTip
    BY <1>17 DEF ClientTip
  <1>18. CASE ClientDies
    BY <1>18 DEF ClientDies
  <1>19. CASE Signal
    BY <1>19 DEF Signal
  <1>20. CASE Exited
    BY <1>20 DEF Exited, vars
  <1>21. CASE UNCHANGED vars
    BY <1>21 DEF vars
  <1> QED
    BY <1>1, <1>2, <1>3, <1>4, <1>5, <1>6, <1>7, <1>8, <1>9, <1>10, <1>11, <1>12, <1>13, <1>14,
       <1>15, <1>16, <1>17, <1>18, <1>19, <1>20, <1>21 DEF Next, Main

\* After the finally nothing starts a client again.
LEMMA NextClient == IInv /\ [Next]_vars => ClientInv'
  <1> SUFFICES ASSUME IInv, [Next]_vars PROVE ClientInv'
    OBVIOUS
  <1> USE CasesAreNumbers
      DEF IInv, ShapeInv, InCase, Places, caseVars, viewVars, optVars, ClientInv
  <1>1. CASE StartClient
    BY <1>1 DEF StartClient
  <1>2. CASE Wipe
    BY <1>2 DEF Wipe
  <1>3. CASE NextCase
    BY <1>3 DEF NextCase
  <1>4. CASE Load
    BY <1>4 DEF Load, Raise, Close
  <1>5. CASE LayoutDone
    BY <1>5 DEF LayoutDone
  <1>6. CASE LayoutRaises
    BY <1>6 DEF LayoutRaises, Raise, Close
  <1>7. CASE SeedTraffic
    BY <1>7 DEF SeedTraffic, Raise, Close
  <1>8. CASE EnsureView
    BY <1>8 DEF EnsureView
  <1>9. CASE Tick
    BY <1>9 DEF Tick
  <1>10. CASE TickRaises
    BY <1>10 DEF TickRaises, Raise, Close
  <1>11. CASE Pump
    BY <1>11 DEF Pump, Raise, Close
  <1>12. CASE LoopEnds
    BY <1>12 DEF LoopEnds
  <1>13. CASE Judge
    BY <1>13 DEF Judge, Raise, Close
  <1>14. CASE Finally
    BY <1>14 DEF Finally, StopClient
  <1>15. CASE HeroWrecked
    BY <1>15 DEF HeroWrecked, InBatch, Ended
  <1>16. CASE HeroGone
    BY <1>16 DEF HeroGone, InBatch, Ended
  <1>17. CASE ClientTip
    BY <1>17 DEF ClientTip, InBatch, Ended
  <1>18. CASE ClientDies
    BY <1>18 DEF ClientDies, InBatch, Ended
  <1>19. CASE Signal
    BY <1>19 DEF Signal, InBatch, Ended
  <1>20. CASE Exited
    BY <1>20 DEF Exited, vars
  <1>21. CASE UNCHANGED vars
    BY <1>21 DEF vars
  <1> QED
    BY <1>1, <1>2, <1>3, <1>4, <1>5, <1>6, <1>7, <1>8, <1>9, <1>10, <1>11, <1>12, <1>13, <1>14,
       <1>15, <1>16, <1>17, <1>18, <1>19, <1>20, <1>21 DEF Next, Main

\* Every camera keeps a cause: main's view, the case's, or a case that raised.
LEMMA NextCamera == IInv /\ [Next]_vars => CameraInv'
  <1> SUFFICES ASSUME IInv, [Next]_vars PROVE CameraInv'
    OBVIOUS
  <1> USE CasesAreNumbers
      DEF IInv, ShapeInv, InCase, Places, caseVars, viewVars, optVars, CameraInv, Loop
  <1>1. CASE StartClient
    BY <1>1 DEF StartClient
  <1>2. CASE Wipe
    BY <1>2 DEF Wipe
  <1>3. CASE NextCase
    BY <1>3 DEF NextCase
  <1>4. CASE Load
    BY <1>4 DEF Load, Raise, Close
  <1>5. CASE LayoutDone
    BY <1>5 DEF LayoutDone
  <1>6. CASE LayoutRaises
    BY <1>6 DEF LayoutRaises, Raise, Close
  <1>7. CASE SeedTraffic
    BY <1>7 DEF SeedTraffic, Raise, Close
  <1>8. CASE EnsureView
    <2>1. /\ pc = "view" /\ pc' = "tick" /\ cv = 0
          /\ UNCHANGED <<view, lost, window>>
      BY <1>8 DEF EnsureView
    <2>2. \A v \in 1..MaxView : views[v].cam => v \in lost \cup {view}
      BY <2>1
    <2>3. CASE cv' = 0 /\ UNCHANGED views /\ ~window
      BY <2>1, <2>2, <2>3
    <2>4. CASE window /\ view = 0 /\ OpenView(views)
      <3>1. \A v \in 1..MaxView : views'[v].cam => views[v].cam \/ v = cv'
        BY <2>4, OpenedViews
      <3> QED
        BY <2>1, <2>2, <2>4, <3>1
    <2>5. CASE window /\ cv' = view /\ UNCHANGED views
      BY <2>1, <2>2, <2>5
    <2>6. CASE /\ window /\ views' = [views EXCEPT ![view].of = hero.id, ![view].cam = TRUE]
               /\ cv' = view
      <3>1. \A v \in 1..MaxView : v # view => views'[v] = views[v]
        BY <2>6 DEF Views
      <3> QED
        BY <2>1, <2>2, <2>6, <3>1
    <2>7. CASE window /\ OpenView(Destroyed([views EXCEPT ![view].of = hero.id], view))
      <3> DEFINE ws == [views EXCEPT ![view].of = hero.id]
      <3>1. ws \in Views /\ \A v \in 1..MaxView : ws[v].cam = views[v].cam
        <4>1. ASSUME NEW v \in 1..MaxView
              PROVE  /\ ws[v] = IF v = view THEN [views[v] EXCEPT !.of = hero.id] ELSE views[v]
                     /\ ws[v] \in [of : Nat, cam : BOOLEAN, display : BOOLEAN]
                     /\ ws[v].cam = views[v].cam
          <5>1. views[v] \in [of : Nat, cam : BOOLEAN, display : BOOLEAN] /\ hero.id \in Nat
            BY DEF Views, Heroes
          <5>2. ws[v] = IF v = view THEN [views[v] EXCEPT !.of = hero.id] ELSE views[v]
            BY DEF Views
          <5> QED
            BY <5>1, <5>2
        <4> QED
          BY <4>1 DEF Views
      <3> HIDE DEF ws
      <3>2. /\ Destroyed(ws, view) \in Views
            /\ \A v \in 1..MaxView : Destroyed(ws, view)[v].cam = (ws[v].cam /\ v # view)
        BY <3>1, DestroyedViews
      <3>3. OpenView(Destroyed(ws, view))
        BY <2>7 DEF ws
      <3>4. \A v \in 1..MaxView : views'[v].cam => (views[v].cam /\ v # view) \/ v = cv'
        BY <3>1, <3>2, <3>3, OpenedViews
      <3> QED
        BY <2>1, <2>2, <2>7, <3>4
    <2> QED
      BY <1>8, <2>3, <2>4, <2>5, <2>6, <2>7 DEF EnsureView
  <1>9. CASE Tick
    BY <1>9 DEF Tick
  <1>10. CASE TickRaises
    BY <1>10 DEF TickRaises, Raise, Close
  <1>11. CASE Pump
    BY <1>11 DEF Pump, Raise, Close
  <1>12. CASE LoopEnds
    BY <1>12 DEF LoopEnds
  <1>13. CASE Judge
    BY <1>13 DEF Judge, Close
  <1>14. CASE Finally
    <2>1. /\ pc = "finally" /\ pc' \in {"crashed", "done"} /\ cv = 0
          /\ UNCHANGED <<view, cv, lost, window>>
      BY <1>14 DEF Finally
    <2>2. \A v \in 1..MaxView : views'[v].cam => v \in lost
      <3>1. CASE view # 0 /\ views' = Destroyed(views, view)
        <4>1. \A v \in 1..MaxView : views'[v].cam = (views[v].cam /\ v # view)
          BY <3>1, DestroyedViews
        <4>2. \A v \in 1..MaxView : views[v].cam => v \in lost \cup {view, cv}
          OBVIOUS
        <4>3. \A v \in 1..MaxView : v # cv
          BY <2>1
        <4> QED
          BY <4>1, <4>2, <4>3
      <3>2. CASE view = 0 /\ UNCHANGED views
        BY <2>1, <3>2
      <3> QED
        BY <1>14, <3>1, <3>2 DEF Finally
    <2> QED
      BY <2>1, <2>2
  <1>15. CASE HeroWrecked
    BY <1>15 DEF HeroWrecked, InBatch, Ended
  <1>16. CASE HeroGone
    BY <1>16 DEF HeroGone, InBatch, Ended
  <1>17. CASE ClientTip
    BY <1>17 DEF ClientTip, InBatch, Ended
  <1>18. CASE ClientDies
    BY <1>18 DEF ClientDies, InBatch, Ended
  <1>19. CASE Signal
    BY <1>19 DEF Signal, InBatch, Ended
  <1>20. CASE Exited
    BY <1>20 DEF Exited, vars
  <1>21. CASE UNCHANGED vars
    BY <1>21 DEF vars
  <1> QED
    BY <1>1, <1>2, <1>3, <1>4, <1>5, <1>6, <1>7, <1>8, <1>9, <1>10, <1>11, <1>12, <1>13, <1>14,
       <1>15, <1>16, <1>17, <1>18, <1>19, <1>20, <1>21 DEF Next, Main

-----------------------------------------------------------------------------
\* The inductive invariant of the batch.
THEOREM IInvAlways == Spec => []IInv
  <1>1. IInv /\ [Next]_vars => IInv'
    BY NextShape, NextVerdict, NextSeed, NextCamera, NextClient DEF IInv
  <1> QED
    BY InitIInv, <1>1, PTL DEF Spec

\* EveryCaseAccounted, for every batch: run_cases.py never drops a case from the three
\* lists it reports, and skips only a tail, for a stop or a failure.
THEOREM AllAccounted == Spec => []EveryCaseAccounted
  <1>1. IInv => EveryCaseAccounted
    BY CasesAreNumbers DEF IInv, ShapeInv, VerdictInv, Accounted, EveryCaseAccounted
  <1> QED
    BY IInvAlways, <1>1, PTL

\* SeedIsOfThisCase, for every batch: the constant velocity of an AEB layout ends with
\* the case whose layout set it.
THEOREM SeedsEnd == Spec => []SeedIsOfThisCase
  <1>1. IInv => SeedIsOfThisCase
    BY DEF IInv, SeedInv, Loop, SeedIsOfThisCase
  <1> QED
    BY IInvAlways, <1>1, PTL

\* NothingLeftBehind, for every batch: after main's finally there is no client, and no
\* camera but those of cases that raised.
THEOREM LeftWithCause == Spec => []NothingLeftBehind
  <1>1. IInv => CamerasHaveCause
    BY DEF IInv, CameraInv, CamerasHaveCause
  <1>2. IInv => ClientStopped
    BY DEF IInv, ClientInv, ClientStopped, Ended
  <1> QED
    BY IInvAlways, <1>1, <1>2, PTL DEF NothingLeftBehind

\* PassIsEarned, for every batch: a case passes only at the judge, after a command of
\* the client, without a collision and with samples enough.
THEOREM PassesEarned == Spec => PassIsEarned
  <1>1. IInv /\ [Next]_vars =>
          [\A i \in Cases : verdict'[i] = "pass" /\ verdict[i] # "pass" =>
                /\ i = idx /\ fresh /\ ~collided
                /\ samples >= MinSamples]_vars
    <2> DEFINE Earned == \A i \in Cases : verdict'[i] = "pass" /\ verdict[i] # "pass" =>
            /\ i = idx /\ fresh /\ ~collided
            /\ samples >= MinSamples
    <2> SUFFICES ASSUME IInv, Next PROVE Earned
      BY DEF vars
    <2> USE DEF IInv, ShapeInv, InCase
    <2>1. CASE Judge
      <3>1. PICK v \in {"fail"} \cup (IF MayPass THEN {"pass"} ELSE {}) : Close(v)
        BY <2>1 DEF Judge
      <3>2. \A i \in Cases : verdict'[i] = "pass" /\ verdict[i] # "pass" => i = idx /\ v = "pass"
        BY <2>1, <3>1, CloseIsAccounted DEF Judge
      <3>3. v = "pass" => MayPass
        BY <3>1
      <3> QED
        BY <3>2, <3>3 DEF MayPass
    <2>2. ASSUME Close("fail"), pc \in InCase, UNCHANGED <<stop, optVars, raised>>
          PROVE  Earned
      BY <2>2, CloseIsAccounted
    <2>3. CASE LayoutRaises \/ TickRaises
      BY <2>2, <2>3 DEF LayoutRaises, TickRaises, Raise
    <2>4. CASE SeedTraffic \/ Pump
      BY <2>2, <2>4 DEF SeedTraffic, Pump, Raise
    <2>5. CASE Load
      BY <2>2, <2>5 DEF Load
    <2>6. CASE NextCase
      BY <2>6 DEF NextCase
    <2>7. CASE StartClient \/ Wipe \/ LayoutDone \/ EnsureView \/ Tick \/ LoopEnds \/ Finally
      BY <2>7 DEF StartClient, Wipe, LayoutDone, EnsureView, Tick, LoopEnds, Finally
    <2>8. CASE HeroWrecked \/ HeroGone \/ ClientTip \/ ClientDies \/ Signal \/ Exited
      BY <2>8 DEF HeroWrecked, HeroGone, ClientTip, ClientDies, Signal, Exited, vars
    <2> QED
      BY <2>1, <2>3, <2>4, <2>5, <2>6, <2>7, <2>8 DEF Next, Main
  <1> QED
    BY IInvAlways, <1>1, PTL DEF Spec, PassIsEarned

-----------------------------------------------------------------------------
(* The heroes and the views that a batch makes, counted.  The second          *)
(* invariant rests on the first.                                              *)

BeforeLoop == {"start", "wipe", "next", "load", "layout", "seed", "view"}

\* The locals of a case and what the client and the signal share.
FlagInv ==
    /\ keep \in BOOLEAN /\ seeded \in BOOLEAN /\ collided \in BOOLEAN /\ hit \in BOOLEAN
    /\ tip \in BOOLEAN /\ fresh \in BOOLEAN

LocalInv ==
    /\ samples \in 0..MaxTicks
    /\ client \in {"none", "up", "dead"}

\* At most one hero per case, and from the layout on there has been one.
HeroInv ==
    /\ hero.by \in Cases \cup {0}
    /\ hero.id <= MaxHero
    /\ pc \in {"start", "wipe", "next", "load", "layout"} => hero.id <= idx
    /\ hero.st # "gone" => hero.id # 0
    /\ pc \in {"seed", "view"} \cup Loop => hero.id # 0 /\ hero.id <= idx + 1

\* The first n views have been opened, at most one per case.
ViewsUpTo(n) ==
    /\ \A v \in 1..MaxView : views[v].of <= MaxHero /\ (views[v].of # 0 <=> v <= n)
    /\ view \in 0..n /\ cv \in 0..n /\ lost \subseteq 0..n
    /\ pc \in BeforeLoop => n < idx
    /\ pc \in Loop => n <= idx

ViewInv ==
    /\ \E n \in 0..MaxView : ViewsUpTo(n)
    /\ pc \in Loop /\ cv # 0 => views[cv].of = hero.id

CountInv == FlagInv /\ LocalInv /\ HeroInv /\ ViewInv

LEMMA InitCount == Init => CountInv
  <1> SUFFICES ASSUME Init PROVE CountInv
    OBVIOUS
  <1> USE CasesAreNumbers
  <1>1. LocalInv
    BY BoundAssumption, SMT DEF Init, LocalInv
  <1>5. FlagInv
    BY Zenon DEF Init, FlagInv
  <1>2. HeroInv
    <2>1. hero \in {NoHero, [id |-> 1, st |-> "ok", const |-> TRUE, by |-> 0]}
      BY DEF Init, NoHero
    <2> QED
      BY <2>1 DEF Init, HeroInv, NoHero, MaxHero, Loop
  <1>3. ViewsUpTo(0)
    BY DEF Init, NoView, ViewsUpTo, Loop, MaxHero
  <1>4. ViewInv
    BY <1>3 DEF Init, ViewInv, Loop
  <1> QED
    BY <1>1, <1>2, <1>4, <1>5 DEF CountInv

LEMMA NextLocal == IInv /\ CountInv /\ [Next]_vars => LocalInv'
  <1> SUFFICES ASSUME IInv, CountInv, [Next]_vars PROVE LocalInv'
    OBVIOUS
  <1> USE BoundAssumption DEF CountInv, LocalInv, caseVars, Raise, Close
  <1>1. CASE UNCHANGED client /\ (samples' = 0 \/ UNCHANGED samples)
    BY <1>1
  <1>2. CASE StartClient \/ ClientDies \/ Finally
    BY <1>2 DEF StartClient, ClientDies, Finally, StopClient
  <1>3. CASE Tick
    BY <1>3 DEF Tick, MoreTime
  <1>4. CASE Wipe \/ NextCase \/ Load \/ LayoutDone \/ LayoutRaises \/ SeedTraffic \/ EnsureView
    BY <1>1, <1>4 DEF Wipe, NextCase, Load, LayoutDone, LayoutRaises, SeedTraffic, EnsureView
  <1>5. CASE TickRaises \/ Pump \/ LoopEnds \/ Judge
    BY <1>1, <1>5 DEF TickRaises, Pump, LoopEnds, Judge
  <1>6. CASE HeroWrecked \/ HeroGone \/ ClientTip \/ Signal \/ Exited \/ UNCHANGED vars
    BY <1>1, <1>6 DEF HeroWrecked, HeroGone, ClientTip, Signal, Exited, vars
  <1> QED
    BY <1>2, <1>3, <1>4, <1>5, <1>6 DEF Next, Main

LEMMA NextFlags == IInv /\ CountInv /\ [Next]_vars => FlagInv'
  <1> SUFFICES ASSUME IInv, CountInv, [Next]_vars PROVE FlagInv'
    OBVIOUS
  <1> USE DEF CountInv, FlagInv, caseVars
  <1>1. ASSUME Close("fail"), UNCHANGED <<tip, fresh>> \/ Poll PROVE FlagInv'
    BY <1>1, Zenon DEF Close, Poll
  <1>2. CASE StartClient \/ Wipe \/ NextCase
    BY <1>2, Zenon DEF StartClient, Wipe, NextCase
  <1>3. CASE Load \/ SeedTraffic \/ Pump
    BY <1>1, <1>3, Zenon DEF Load, SeedTraffic, Pump, Raise
  <1>4. CASE LayoutDone
    BY <1>4, Zenon DEF LayoutDone, SeedReported
  <1>5. CASE LayoutRaises \/ TickRaises
    BY <1>1, <1>5, Zenon DEF LayoutRaises, TickRaises, Raise
  <1>6. CASE Tick
    <2>1. PICK c \in BOOLEAN : collided' = (collided \/ c) /\ hit' = (c /\ Batch[idx] = "aeb")
      BY <1>6, Zenon DEF Tick
    <2> QED
      BY <1>6, <2>1, Zenon DEF Tick, Poll
  <1>7. CASE Judge
    <2>1. PICK v : Close(v)
      BY <1>7, Zenon DEF Judge
    <2> QED
      BY <1>7, <2>1, Zenon DEF Judge, Close
  <1>8. CASE EnsureView \/ LoopEnds \/ Finally
    BY <1>8, Zenon DEF EnsureView, LoopEnds, Finally
  <1>9. CASE HeroWrecked \/ HeroGone \/ ClientTip \/ ClientDies \/ Signal \/ Exited \/ UNCHANGED vars
    BY <1>9, Zenon DEF HeroWrecked, HeroGone, ClientTip, ClientDies, Signal, Exited, vars
  <1> QED
    BY <1>2, <1>3, <1>4, <1>5, <1>6, <1>7, <1>8, <1>9 DEF Next, Main

\* A layout makes at most one hero, and leaves one; whoever drives it is this case.
LEMMA LayoutHeroes ==
  ASSUME IInv, CountInv, pc = "layout", NEW h,
         \/ h \in {KeepLayout} \cup ColdLayout
         \/ h = [NoHero EXCEPT !.id = hero.id]
         \/ h = hero
  PROVE  /\ h.by \in Cases \cup {0} /\ h.id <= idx + 1 /\ (h.st # "gone" => h.id # 0)
         /\ h \in {KeepLayout} \cup ColdLayout => h.id # 0
  <1> USE CasesAreNumbers DEF IInv, ShapeInv, InCase, CountInv, HeroInv, Heroes
  <1>0. hero.id \in Nat /\ hero.id <= idx /\ idx \in Nat /\ idx \in Cases
    OBVIOUS
  <1>1. CASE h = KeepLayout
    <2>1. CASE hero.st = "gone"
      BY <1>0, <1>1, <2>1 DEF KeepLayout, NewHero
    <2>2. CASE hero.st # "gone"
      <3>1. h.id = hero.id /\ h.by = hero.by /\ h.st = hero.st
        BY <1>1, <2>2 DEF KeepLayout, Released
      <3> QED
        BY <1>0, <2>2, <3>1
    <2> QED
      BY <2>1, <2>2
  <1>2. CASE h \in ColdLayout
    <2>1. PICK c \in BOOLEAN : h = [NewHero EXCEPT !.const = c, !.by = IF c THEN idx ELSE 0]
      BY <1>2 DEF ColdLayout
    <2>2. h.id = hero.id + 1 /\ h.by \in {idx, 0}
      BY <2>1 DEF NewHero
    <2> QED
      BY <1>0, <2>2
  <1>3. CASE h = [NoHero EXCEPT !.id = hero.id] /\ h \notin {KeepLayout} \cup ColdLayout
    <2>1. h.id = hero.id /\ h.by = 0 /\ h.st = "gone"
      BY <1>3 DEF NoHero
    <2> QED
      BY <1>0, <1>3, <2>1
  <1>4. CASE h = hero /\ h \notin {KeepLayout} \cup ColdLayout
    BY <1>0, <1>4
  <1> QED
    BY <1>1, <1>2, <1>3, <1>4

LEMMA NextHero == IInv /\ CountInv /\ [Next]_vars => HeroInv'
  <1> SUFFICES ASSUME IInv, CountInv, [Next]_vars PROVE HeroInv'
    OBVIOUS
  <1> USE CasesAreNumbers
      DEF IInv, ShapeInv, InCase, Places, caseVars, optVars, viewVars, CountInv, HeroInv, Loop, MaxHero
  <1>0. /\ hero.id \in Nat /\ hero.id <= Len(Batch) + 1 /\ Len(Batch)' = Len(Batch) /\ Cases' = Cases
        /\ idx \in Nat /\ idx <= Len(Batch) + 1
    BY DEF Heroes, Cases
  <1>1. CASE UNCHANGED hero /\ pc' \in Places /\ idx' \in Nat /\ idx <= idx'
             /\ (pc' \in {"start", "wipe", "next", "load", "layout"} =>
                    \/ pc \in {"start", "wipe", "next", "load", "layout"}
                    \/ idx' = idx + 1 /\ pc \in {"seed", "view"} \cup Loop)
             /\ (pc' \in {"seed", "view"} \cup Loop => pc \in {"seed", "view"} \cup Loop)
    BY <1>0, <1>1
  <1>2. CASE StartClient \/ NextCase \/ EnsureView \/ Finally
    BY <1>1, <1>2 DEF StartClient, NextCase, EnsureView, Finally
  <1>3. CASE Wipe
    <2>1. CASE hero' = [NoHero EXCEPT !.id = hero.id] /\ pc' = "next"
      <3>1. hero'.id = hero.id /\ hero'.by = 0 /\ hero'.st = "gone"
        BY <2>1 DEF NoHero
      <3> QED
        BY <1>0, <1>3, <2>1, <3>1 DEF Wipe
    <2>2. CASE UNCHANGED hero /\ pc' = "aborted"
      BY <1>0, <2>2
    <2> QED
      BY <1>3, <2>1, <2>2 DEF Wipe
  <1>4. CASE Load \/ SeedTraffic \/ TickRaises \/ Pump \/ Judge
    BY <1>1, <1>4 DEF Load, SeedTraffic, TickRaises, Pump, Judge, Raise, Close
  <1>5. CASE LayoutDone
    <2>1. hero' \in {KeepLayout} \cup ColdLayout /\ pc = "layout" /\ pc' = "seed" /\ idx' = idx
      BY <1>5 DEF LayoutDone
    <2>2. /\ hero'.by \in Cases \cup {0} /\ hero'.id <= idx + 1 /\ hero'.id # 0
      BY <2>1, LayoutHeroes
    <2>3. hero' \in Heroes /\ idx <= Len(Batch)
      BY <1>5, NextShape, <2>1
    <2> QED
      BY <1>0, <2>1, <2>2, <2>3 DEF Heroes
  <1>6. CASE LayoutRaises
    <2>1. /\ hero' \in {hero} \cup {[NoHero EXCEPT !.id = hero.id]} \cup ColdLayout /\ pc = "layout"
          /\ (pc' = "finally" /\ idx' = idx) \/ (pc' = "next" /\ idx' = idx + 1)
      BY <1>6 DEF LayoutRaises, Raise, Close
    <2>2. /\ hero'.by \in Cases \cup {0} /\ hero'.id <= idx + 1
          /\ hero'.st # "gone" => hero'.id # 0
      BY <2>1, LayoutHeroes
    <2>3. hero' \in Heroes /\ idx <= Len(Batch)
      BY <1>6, NextShape, <2>1
    <2> QED
      BY <1>0, <2>1, <2>2, <2>3 DEF Heroes
  <1>7. ASSUME hero' = hero \/ (hero'.id = hero.id /\ hero'.by = hero.by),
               pc \in Loop, pc' \in Loop, idx' = idx
        PROVE  HeroInv'
    BY <1>0, <1>7
  <1>8. CASE Tick \/ LoopEnds
    <2>1. hero' = hero \/ (hero'.id = hero.id /\ hero'.by = hero.by)
      BY <1>8 DEF Tick, LoopEnds, Handoff, Freeze, Released, Heroes
    <2> QED
      BY <1>7, <1>8, <2>1 DEF Tick, LoopEnds
  <1>9. CASE HeroWrecked
    <2>1. hero'.id = hero.id /\ hero'.by = hero.by /\ hero.st = "ok" /\ UNCHANGED <<pc, idx>>
      BY <1>9 DEF HeroWrecked, Heroes
    <2> QED
      BY <1>0, <2>1
  <1>10. CASE HeroGone
    <2>1. hero'.id = hero.id /\ hero'.by = 0 /\ hero'.st = "gone" /\ UNCHANGED <<pc, idx>>
      BY <1>10 DEF HeroGone, NoHero
    <2> QED
      BY <1>0, <2>1
  <1>11. CASE ClientTip \/ ClientDies \/ Signal \/ Exited \/ UNCHANGED vars
    BY <1>1, <1>11 DEF ClientTip, ClientDies, Signal, Exited, vars
  <1> QED
    BY <1>2, <1>3, <1>4, <1>5, <1>6, <1>8, <1>9, <1>10, <1>11 DEF Next, Main

\* Of opened views there are as many as the prefix is long.
LEMMA OpenedIs ==
  ASSUME NEW vs, DOMAIN vs = 1..MaxView, NEW n \in 0..MaxView,
         \A v \in 1..MaxView : vs[v].of # 0 <=> v <= n
  PROVE  Opened(vs) = n
  <1>1. {v \in DOMAIN vs : vs[v].of # 0} = 1..n
    BY CasesAreNumbers
  <1>2. Cardinality(1..n) = n
    BY CasesAreNumbers, FS_Interval
  <1> QED
    BY <1>1, <1>2 DEF Opened

\* What opening does to views of which the first n are open.
LEMMA OpensNext ==
  ASSUME NEW vs \in Views, NEW n \in 0..MaxView, n < MaxView, OpenView(vs),
         hero \in Heroes, hero.id # 0, hero.id <= MaxHero,
         \A v \in 1..MaxView : vs[v].of <= MaxHero /\ (vs[v].of # 0 <=> v <= n)
  PROVE  \E m \in 0..MaxView :
            /\ m \in {n, n + 1}
            /\ \A v \in 1..MaxView : views'[v].of <= MaxHero /\ (views'[v].of # 0 <=> v <= m)
            /\ cv' \in 0..m /\ (cv' # 0 => views'[cv'].of = hero.id)
  <1> USE CasesAreNumbers DEF Views, MaxHero, Heroes
  <1>1. Opened(vs) = n
    BY OpenedIs
  <1>2. CASE views' = vs /\ cv' = 0
    BY <1>2
  <1>3. CASE /\ views' = [vs EXCEPT ![n + 1] = [of |-> hero.id, cam |-> TRUE, display |-> TRUE]]
             /\ cv' = n + 1
    <2>1. n + 1 \in 1..MaxView
      OBVIOUS
    <2>2. \A v \in 1..MaxView : views'[v].of = IF v = n + 1 THEN hero.id ELSE vs[v].of
      BY <1>3
    <2> QED
      BY <1>3, <2>1, <2>2
  <1> QED
    BY <1>1, <1>2, <1>3 DEF OpenView

LEMMA NextViews == IInv /\ CountInv /\ [Next]_vars => ViewInv'
  <1> SUFFICES ASSUME IInv, CountInv, [Next]_vars PROVE ViewInv'
    OBVIOUS
  <1> USE CasesAreNumbers
      DEF IInv, ShapeInv, InCase, Places, caseVars, optVars, viewVars, CountInv, ViewInv, Loop, BeforeLoop
  <1>1. PICK n \in 0..MaxView : ViewsUpTo(n)
    OBVIOUS
  <1>2. MaxView' = MaxView /\ MaxHero' = MaxHero /\ n \in Nat /\ idx \in Nat
    BY DEF MaxView, MaxHero
  <1>3. ASSUME \/ UNCHANGED <<views, hero>>
               \/ (\A v \in 1..MaxView : views'[v].of = views[v].of) /\ pc' \notin Loop,
               view' \in 0..n, cv' \in 0..n, lost' \subseteq 0..n,
               pc' \in BeforeLoop => n < idx', pc' \in Loop => n <= idx' /\ pc \in Loop,
               pc' \in Loop => UNCHANGED cv
        PROVE  ViewInv'
    <2>1. ViewsUpTo(n)'
      BY <1>1, <1>2, <1>3 DEF ViewsUpTo
    <2> QED
      BY <1>2, <1>3, <2>1
  <1>4. ASSUME UNCHANGED views, UNCHANGED viewVars, hero'.id = hero.id,
               UNCHANGED <<pc, idx>> \/ (pc \in Loop /\ pc' \in Loop /\ idx' = idx)
        PROVE  ViewInv'
    <2>1. ViewsUpTo(n)'
      BY <1>1, <1>2, <1>4 DEF ViewsUpTo
    <2> QED
      BY <1>2, <1>4, <2>1
  <1>5. ASSUME UNCHANGED views, Raise, pc \in InCase, UNCHANGED optVars
        PROVE  ViewInv'
    <2>1. /\ pc' \in {"finally", "next"} /\ (pc' = "next" => idx' = idx + 1)
          /\ view' = view /\ cv' = 0 /\ lost' \subseteq lost \cup {cv}
      BY <1>5 DEF Raise, Close
    <2>2. n <= idx
      BY <1>1, <1>2, <1>5 DEF ViewsUpTo
    <2>3. view \in 0..n /\ cv \in 0..n /\ lost \subseteq 0..n
      BY <1>1 DEF ViewsUpTo
    <2>4. ViewsUpTo(n)'
      BY <1>1, <1>2, <1>5, <2>1, <2>2, <2>3 DEF ViewsUpTo
    <2> QED
      BY <1>2, <2>1, <2>4
  <1>6. ASSUME UNCHANGED viewVars, pc' \notin Loop, pc' \in BeforeLoop => pc \in BeforeLoop \cup Loop,
               idx' = idx \/ idx' = idx + 1,
               pc \in Loop /\ pc' \in BeforeLoop => idx' = idx + 1
        PROVE  ViewInv'
    <2>1. ViewsUpTo(n)'
      BY <1>1, <1>2, <1>6 DEF ViewsUpTo
    <2> QED
      BY <1>2, <1>6, <2>1
  <1>7. CASE StartClient \/ Wipe \/ NextCase \/ LayoutDone
    BY <1>6, <1>7 DEF StartClient, Wipe, NextCase, LayoutDone
  <1>8. CASE Load
    BY <1>6, <1>8 DEF Load, Close
  <1>9. CASE LayoutRaises
    BY <1>5, <1>9 DEF LayoutRaises
  <1>10. CASE SeedTraffic
    BY <1>5, <1>6, <1>10 DEF SeedTraffic
  <1>11. CASE EnsureView
    <2>0. /\ pc = "view" /\ pc' = "tick" /\ idx' = idx /\ hero' = hero /\ view' = view /\ lost' = lost
          /\ hero \in Heroes /\ hero.id # 0 /\ hero.id <= MaxHero /\ hero.id \in Nat
          /\ n < idx /\ idx <= MaxView /\ view \in 0..n /\ lost \subseteq 0..n
      BY <1>1, <1>11 DEF EnsureView, HeroInv, ViewsUpTo, Heroes
    <2>1. ASSUME NEW m \in 0..MaxView, m \in {n, n + 1}, cv' \in 0..m,
                 \A v \in 1..MaxView : views'[v].of <= MaxHero /\ (views'[v].of # 0 <=> v <= m),
                 cv' # 0 => views'[cv'].of = hero.id
          PROVE  ViewInv'
      <3>1. ViewsUpTo(m)'
        BY <1>2, <2>0, <2>1 DEF ViewsUpTo
      <3> QED
        BY <1>2, <2>0, <2>1, <3>1
    <2>2. \A v \in 1..MaxView : views[v].of <= MaxHero /\ (views[v].of # 0 <=> v <= n)
      BY <1>1 DEF ViewsUpTo
    <2>3. CASE cv' = 0 /\ UNCHANGED views
      BY <2>1, <2>2, <2>3
    <2>4. CASE view = 0 /\ OpenView(views)
      BY <2>0, <2>1, <2>2, <2>4, OpensNext
    <2>5. CASE view # 0 /\ Follows /\ cv' = view /\ UNCHANGED views
      BY <2>0, <2>1, <2>2, <2>5 DEF Follows
    <2> DEFINE ws == [views EXCEPT ![view].of = hero.id]
    <2>6. view # 0 =>
            /\ ws \in Views /\ view \in 1..MaxView
            /\ \A v \in 1..MaxView : ws[v].of = IF v = view THEN hero.id ELSE views[v].of
      <3> SUFFICES ASSUME view # 0
                   PROVE  /\ ws \in Views /\ view \in 1..MaxView
                          /\ \A v \in 1..MaxView : ws[v].of = IF v = view THEN hero.id ELSE views[v].of
        OBVIOUS
      <3>1. view \in 1..MaxView
        BY <2>0
      <3>2. ASSUME NEW v \in 1..MaxView
            PROVE  /\ ws[v] = IF v = view THEN [views[v] EXCEPT !.of = hero.id] ELSE views[v]
                   /\ ws[v] \in [of : Nat, cam : BOOLEAN, display : BOOLEAN]
                   /\ ws[v].of = IF v = view THEN hero.id ELSE views[v].of
        BY <2>0 DEF Views
      <3>3. ws \in Views
        BY <3>2 DEF Views
      <3> QED
        BY <3>1, <3>2, <3>3
    <2>7. CASE view # 0 /\ views' = [views EXCEPT ![view].of = hero.id, ![view].cam = TRUE] /\ cv' = view
      <3>1. \A v \in 1..MaxView : views'[v].of = IF v = view THEN hero.id ELSE views[v].of
        BY <2>0, <2>7 DEF Views
      <3>2. \A v \in 1..MaxView : views'[v].of <= MaxHero /\ (views'[v].of # 0 <=> v <= n)
        <4>1. ASSUME NEW v \in 1..MaxView
              PROVE  views'[v].of <= MaxHero /\ (views'[v].of # 0 <=> v <= n)
          <5>1. CASE v = view
            <6>1. views'[v].of = hero.id /\ v <= n
              BY <2>0, <3>1, <5>1
            <6> QED
              BY <2>0, <6>1
          <5>2. CASE v # view
            BY <2>2, <3>1, <5>2
          <5> QED
            BY <5>1, <5>2
        <4> QED
          BY <4>1
      <3>3. view \in 1..MaxView /\ view \in 0..n
        BY <2>0, <2>7
      <3> QED
        BY <2>1, <2>7, <3>1, <3>2, <3>3
    <2>8. CASE view # 0 /\ OpenView(Destroyed(ws, view))
      <3> HIDE DEF ws
      <3>1. Destroyed(ws, view) \in Views
        BY <2>6, <2>8, DestroyedViews
      <3>2. \A v \in 1..MaxView : Destroyed(ws, view)[v].of = ws[v].of
        <4>1. ASSUME NEW v \in 1..MaxView
              PROVE  Destroyed(ws, view)[v].of = ws[v].of
          <5>1. ws[v] \in [of : Nat, cam : BOOLEAN, display : BOOLEAN] /\ DOMAIN ws = 1..MaxView
            BY <2>6, <2>8 DEF Views
          <5>2. Destroyed(ws, view)[v] =
                    [ws[v] EXCEPT !.display = FALSE, !.cam = ws[v].cam /\ v # view]
            BY <5>1 DEF Destroyed
          <5> QED
            BY <5>1, <5>2
        <4> QED
          BY <4>1
      <3>3. \A v \in 1..MaxView : /\ Destroyed(ws, view)[v].of <= MaxHero
                                  /\ Destroyed(ws, view)[v].of # 0 <=> v <= n
        BY <2>0, <2>2, <2>6, <2>8, <3>2
      <3>4. n < MaxView
        BY <2>0
      <3> QED
        BY <2>0, <2>1, <2>8, <3>1, <3>3, <3>4, OpensNext
    <2> QED
      BY <1>11, <2>3, <2>4, <2>5, <2>7, <2>8 DEF EnsureView
  <1>12. CASE Tick \/ LoopEnds
    <2>1. hero'.id = hero.id
      BY <1>12 DEF Tick, LoopEnds, Handoff, Freeze, Released, Heroes
    <2> QED
      BY <1>4, <1>12, <2>1 DEF Tick, LoopEnds
  <1>13. CASE TickRaises
    BY <1>5, <1>13 DEF TickRaises
  <1>14. CASE Pump
    <2>1. CASE Raise /\ UNCHANGED views
      BY <1>5, <1>14, <2>1 DEF Pump
    <2>2. CASE pc' \in {"tick", "judge"} /\ UNCHANGED <<idx, viewVars>>
      BY <1>4, <1>14, <2>2 DEF Pump
    <2> QED
      BY <1>14, <2>1, <2>2 DEF Pump
  <1>15. CASE Judge
    <2>1. /\ pc = "judge" /\ pc' \in {"finally", "next"} /\ (pc' = "next" => idx' = idx + 1)
          /\ view' = cv /\ cv' = 0 /\ lost' = lost /\ UNCHANGED <<views, hero>>
      BY <1>15 DEF Judge, Close
    <2>2. n <= idx /\ cv \in 0..n /\ lost \subseteq 0..n
      BY <1>1, <2>1 DEF ViewsUpTo
    <2> QED
      BY <1>2, <1>3, <2>1, <2>2
  <1>16. CASE Finally
    <2>1. /\ pc' \in {"crashed", "done"} /\ UNCHANGED <<idx, view, cv, lost>>
      BY <1>16 DEF Finally
    <2>2. \A v \in 1..MaxView : views'[v].of = views[v].of
      <3>1. ASSUME NEW v \in 1..MaxView
            PROVE  Destroyed(views, view)[v].of = views[v].of
        <4>1. views[v] \in [of : Nat, cam : BOOLEAN, display : BOOLEAN] /\ DOMAIN views = 1..MaxView
          BY DEF Views
        <4>2. Destroyed(views, view)[v] =
                  [views[v] EXCEPT !.display = FALSE, !.cam = views[v].cam /\ v # view]
          BY <4>1 DEF Destroyed
        <4> QED
          BY <4>1, <4>2
      <3> QED
        BY <1>16, <3>1 DEF Finally
    <2>3. view \in 0..n /\ cv \in 0..n /\ lost \subseteq 0..n
      BY <1>1 DEF ViewsUpTo
    <2> QED
      BY <1>3, <2>1, <2>2, <2>3
  <1>17. CASE HeroWrecked \/ HeroGone
    <2>1. hero'.id = hero.id
      BY <1>17 DEF HeroWrecked, HeroGone, NoHero, Heroes
    <2> QED
      BY <1>4, <1>17, <2>1 DEF HeroWrecked, HeroGone
  <1>18. CASE ClientTip \/ ClientDies \/ Signal \/ Exited \/ UNCHANGED vars
    BY <1>4, <1>18 DEF ClientTip, ClientDies, Signal, Exited, vars
  <1> QED
    BY <1>7, <1>8, <1>9, <1>10, <1>11, <1>12, <1>13, <1>14, <1>15, <1>16, <1>17, <1>18
       DEF Next, Main

\* The second inductive invariant, of what the batch counts.
THEOREM CountInvAlways == Spec => []CountInv
  <1>1. IInv /\ CountInv /\ [Next]_vars => CountInv'
    BY NextFlags, NextLocal, NextHero, NextViews DEF CountInv
  <1> QED
    BY InitCount, IInvAlways, <1>1, PTL DEF Spec

\* TypeOK, for every batch: the shape of the state; with one hero and one view per case
\* their numbers suffice.
THEOREM TypeCorrect == Spec => []TypeOK
  <1>1. ASSUME IInv, CountInv PROVE TypeOK
    <2> USE <1>1, CasesAreNumbers DEF IInv, CountInv
    <2>1. hero \in [id : 0..MaxHero, st : {"gone", "ok", "wrecked"}, const : BOOLEAN, by : Cases \cup {0}]
      BY DEF ShapeInv, HeroInv, Heroes, MaxHero
    <2>2. PICK n \in 0..MaxView : ViewsUpTo(n)
      BY DEF ViewInv
    <2>5. {stop, stopOnFail, window, keep, seeded, collided, hit, tip, fresh, raised} \subseteq BOOLEAN
      BY Zenon DEF ShapeInv, FlagInv
    <2>3. {view, cv} \cup lost \subseteq 0..MaxView
      BY <2>2 DEF ViewsUpTo
    <2>4. views \in [1..MaxView -> [of : 0..MaxHero, cam : BOOLEAN, display : BOOLEAN]]
      <3>1. ASSUME NEW v \in 1..MaxView
            PROVE  views[v] \in [of : 0..MaxHero, cam : BOOLEAN, display : BOOLEAN]
        BY <2>2, <3>1 DEF ViewsUpTo, ShapeInv, Views, MaxHero
      <3> QED
        BY <3>1 DEF ShapeInv, Views
    <2> QED
      BY <2>1, <2>3, <2>4, <2>5 DEF TypeOK, ShapeInv, LocalInv, Places, InCase
  <1> QED
    BY IInvAlways, CountInvAlways, <1>1, PTL

\* ViewFollowsHero, for every batch: _ensure_view of run_cases.py keeps, moves or builds
\* a view, and each time the window of a running case shows that case's hero.
THEOREM ViewsFollow == Spec => []ViewFollowsHero
  <1>1. CountInv => ViewFollowsHero
    BY DEF CountInv, ViewInv, HeroInv, Loop, ViewFollowsHero
  <1> QED
    BY CountInvAlways, <1>1, PTL

-----------------------------------------------------------------------------
(* The ambient traffic that the runner seeds with a case and maintains in   *)
(* its ticks: its state is apart from the batch's, for every set of poses,  *)
(* every period and every bound.                                            *)

\* The poses at which a car stands in the exam tube and heads the hero's way.
TubePoses == {p \in Poses : InExamTube(p, end - 1) /\ SameDirection(p)}

PulseSteps == {"idle", "cull", "look", "budget", "count", "fill"}

\* The types the proofs use; the bounds of TypeOK are in the parts that follow.
TrafficTypes ==
    /\ number \in Numbers /\ trafficPc \in PulseSteps
    /\ stock \in [Poses -> Nat] /\ lead \in Leads
    /\ todo \in [Poses -> Nat] /\ \A p \in Poses : todo[p] <= stock[p]
    /\ elapsed \in 0..MaxElapsed /\ last \in 0..elapsed /\ seed \in BOOLEAN
    /\ end \in Int /\ end >= ExamAheadMin /\ read \subseteq Poses
    /\ avoid \subseteq Poses /\ culled \subseteq avoid /\ blocked \subseteq Poses
    /\ budget \in 0..8 /\ evicted \in Nat /\ nearAt \in Nat
    /\ moved \in BOOLEAN /\ came \in Int /\ left \in Nat /\ spawned \in Nat

\* The traffic is a finite bag of at most MaxCars cars, and so is what a pulse counted.
CarsInv ==
    /\ IsFiniteSet(CarsAt(stock, Poses)) /\ Total(stock) <= MaxCars
    /\ evicted <= MaxCars /\ nearAt <= MaxCars /\ left <= MaxCars

\* Each car of the list of a cull is still to be looked at, kept, or one that it destroyed
\* or meant to.
LookInv ==
    /\ trafficPc \in {"idle", "cull"} => evicted = 0
    /\ trafficPc # "look" => todo = NoCar
    /\ trafficPc = "look" => evicted + left + Total(todo) <= MaxCars

\* The cars the fill counted and those it spawned since are NearStock(stock) - came at
\* most: with the budget that is left they stay within the room it found.
RoomInv ==
    /\ trafficPc # "fill" => came = 0
    /\ trafficPc = "fill" =>
          /\ nearAt <= NearStock(stock) - came
          /\ NearStock(stock) - came <= Total(stock)
          /\ \/ NearStock(stock) - came + budget <= Live
             \/ NearStock(stock) - came + budget <= nearAt

\* Until a car drives, the tube holds no car the cull has looked at but those that it meant
\* to destroy and did not.
Looked == [p \in Poses |-> stock[p] - todo[p]]
TubeInv == ~moved => CountAt(Looked, TubePoses) <= left

\* What the maintain pulses spawned, and what the one that works may still spawn, is at
\* most two for each period up to the last pulse.  A pulse that maintains comes a period
\* after the last one; the pulse that begins a case without a seed only culls.
RateInv ==
    /\ spawned <= 2 * (last \div Period)
    /\ ~seed /\ trafficPc = "budget" => last # 0
    /\ ~seed /\ trafficPc \in {"cull", "look", "budget"} /\ last # 0 => spawned + 2 <= 2 * (last \div Period)
    /\ ~seed /\ trafficPc \in {"count", "fill"} => spawned + budget <= 2 * (last \div Period)

TrafficInv == TrafficTypes /\ CarsInv /\ LookInv /\ RoomInv /\ TubeInv

-----------------------------------------------------------------------------
(* Bags *)

\* A car of a bag is a pose and a number.
LEMMA CarsAre ==
  ASSUME NEW b, NEW S, NEW x
  PROVE  x \in CarsAt(b, S) <=> \E p \in S : \E k \in 1..b[p] : x = <<p, k>>
  BY DEF CarsAt

\* The cars of fewer poses are a part.
LEMMA CarsPart ==
  ASSUME NEW b \in [Poses -> Nat], NEW S \in SUBSET Poses, IsFiniteSet(CarsAt(b, Poses))
  PROVE  /\ IsFiniteSet(CarsAt(b, S)) /\ CountAt(b, S) \in Nat
         /\ CountAt(b, S) <= Total(b)
         /\ Total(b) \in Nat
  <1>1. CarsAt(b, S) \in SUBSET CarsAt(b, Poses)
    BY DEF CarsAt
  <1>2. /\ IsFiniteSet(CarsAt(b, S))
        /\ Cardinality(CarsAt(b, S)) <= Cardinality(CarsAt(b, Poses))
    BY <1>1, FS_Subset
  <1> QED
    BY <1>2, FS_CardinalityType DEF CountAt, Total

\* One where p is in S, none elsewhere.
OneIn(p, S) == Cardinality({p} \cap S)

\* What OneIn returns.
LEMMA OneInIs ==
  ASSUME NEW p, NEW S
  PROVE  /\ p \in S => OneIn(p, S) = 1
         /\ p \notin S => OneIn(p, S) = 0
         /\ OneIn(p, S) \in {0, 1}
  <1>1. CASE p \in S
    <2>1. {p} \cap S = {p}
      BY <1>1
    <2> QED
      BY <1>1, <2>1, FS_Singleton DEF OneIn
  <1>2. CASE p \notin S
    <2>1. {p} \cap S = {}
      BY <1>2
    <2> QED
      BY <1>2, <2>1, FS_EmptySet DEF OneIn
  <1> QED
    BY <1>1, <1>2

Put(b, p) == [b EXCEPT ![p] = @ + 1]

\* A car more at p.
LEMMA CarPut ==
  ASSUME NEW b \in [Poses -> Nat], NEW p \in Poses, NEW S \in SUBSET Poses,
         IsFiniteSet(CarsAt(b, Poses))
  PROVE  /\ Put(b, p) \in [Poses -> Nat] /\ IsFiniteSet(CarsAt(Put(b, p), Poses))
         /\ CountAt(Put(b, p), S) = CountAt(b, S) + OneIn(p, S)
         /\ CountAt(b, S) \in Nat
  <1> DEFINE c == Put(b, p)
             x == <<p, b[p] + 1>>
  <1>1. /\ c \in [Poses -> Nat] /\ c[p] = b[p] + 1 /\ b[p] \in Nat
        /\ \A q \in Poses : q # p => c[q] = b[q]
    BY DEF Put
  <1>0. 1..(b[p] + 1) = (1..b[p]) \cup {b[p] + 1} /\ b[p] + 1 \notin 1..b[p]
    BY <1>1
  <1>2. ASSUME NEW T \in SUBSET Poses, p \in T
        PROVE  CarsAt(c, T) = CarsAt(b, T) \cup {x} /\ x \notin CarsAt(b, T)
    <2>1. ASSUME NEW q \in T, q # p PROVE {q} \X (1..c[q]) = {q} \X (1..b[q])
      BY <1>1, <2>1
    <2>2. {p} \X (1..c[p]) = ({p} \X (1..b[p])) \cup {x}
      BY <1>0, <1>1
    <2> HIDE DEF c
    <2>3. ASSUME NEW y PROVE y \in CarsAt(c, T) <=> y \in CarsAt(b, T) \cup {x}
      <3>1. y \in CarsAt(c, T) <=> \E q \in T : y \in {q} \X (1..c[q])
        BY DEF CarsAt
      <3>2. y \in CarsAt(b, T) <=> \E q \in T : y \in {q} \X (1..b[q])
        BY DEF CarsAt
      <3> QED
        BY <1>2, <2>1, <2>2, <3>1, <3>2
    <2>4. x \notin CarsAt(b, T)
      BY <1>0, CarsAre
    <2> QED
      BY <2>3, <2>4
  <1>3. ASSUME NEW T \in SUBSET Poses, p \notin T
        PROVE  CarsAt(c, T) = CarsAt(b, T)
    <2>1. ASSUME NEW q \in T PROVE {q} \X (1..c[q]) = {q} \X (1..b[q])
      BY <1>1, <1>3, <2>1
    <2> HIDE DEF c
    <2> QED
      BY <2>1 DEF CarsAt
  <1> HIDE DEF c, x
  <1>4. IsFiniteSet(CarsAt(c, Poses))
    BY <1>2, FS_AddElement
  <1>5. IsFiniteSet(CarsAt(b, S)) /\ CountAt(b, S) \in Nat
    BY CarsPart
  <1>6. CASE p \in S
    <2>1. CarsAt(c, S) = CarsAt(b, S) \cup {x} /\ x \notin CarsAt(b, S)
      BY <1>2, <1>6
    <2>2. Cardinality(CarsAt(c, S)) = Cardinality(CarsAt(b, S)) + 1
      BY <1>5, <2>1, FS_AddElement
    <2> QED
      BY <1>1, <1>4, <1>5, <1>6, <2>2, OneInIs DEF CountAt, c
  <1>7. CASE p \notin S
    <2>1. CarsAt(c, S) = CarsAt(b, S)
      BY <1>3, <1>7
    <2> QED
      BY <1>1, <1>4, <1>5, <1>7, <2>1, OneInIs DEF CountAt, c
  <1> QED
    BY <1>6, <1>7

Taken(b, p) == [b EXCEPT ![p] = @ - 1]

\* A car less at p is the bag to which putting it back gives the old one.
LEMMA CarTaken ==
  ASSUME NEW b \in [Poses -> Nat], NEW p \in Poses, NEW S \in SUBSET Poses, b[p] > 0,
         IsFiniteSet(CarsAt(b, Poses))
  PROVE  /\ Taken(b, p) \in [Poses -> Nat] /\ IsFiniteSet(CarsAt(Taken(b, p), Poses))
         /\ CountAt(b, S) = CountAt(Taken(b, p), S) + OneIn(p, S)
         /\ CountAt(Taken(b, p), S) \in Nat
  <1> DEFINE c == Taken(b, p)
  <1>1. /\ c \in [Poses -> Nat] /\ c[p] = b[p] - 1 /\ b[p] \in Nat
        /\ \A q \in Poses : q # p => c[q] = b[q]
    BY DEF Taken
  <1>2. Put(c, p) = b
    <2>1. Put(c, p) \in [Poses -> Nat] /\ \A q \in Poses : Put(c, p)[q] = b[q]
      BY <1>1 DEF Put
    <2> QED
      BY <2>1
  <1> HIDE DEF c
  <1>3. CarsAt(c, Poses) \in SUBSET CarsAt(b, Poses)
    <2>1. ASSUME NEW q \in Poses PROVE 1..c[q] \subseteq 1..b[q]
      BY <1>1
    <2> QED
      BY <2>1 DEF CarsAt
  <1>4. IsFiniteSet(CarsAt(c, Poses))
    BY <1>3, FS_Subset
  <1>5. /\ CountAt(Put(c, p), S) = CountAt(c, S) + OneIn(p, S)
        /\ CountAt(c, S) \in Nat
    BY <1>1, <1>4, CarPut
  <1> QED
    BY <1>1, <1>2, <1>4, <1>5 DEF c

Driven(b, p, q) == [b EXCEPT ![p] = @ - 1, ![q] = @ + 1]

\* A car drives from p to q.
LEMMA CarDriven ==
  ASSUME NEW b \in [Poses -> Nat], NEW p \in Poses, NEW q \in Poses, p # q, b[p] > 0,
         NEW S \in SUBSET Poses, IsFiniteSet(CarsAt(b, Poses))
  PROVE  /\ Driven(b, p, q) \in [Poses -> Nat]
         /\ IsFiniteSet(CarsAt(Driven(b, p, q), Poses))
         /\ CountAt(Driven(b, p, q), S) = CountAt(b, S) + OneIn(q, S) - OneIn(p, S)
  <1> DEFINE c == Driven(b, p, q)
  <1>1. c = Put(Taken(b, p), q)
    BY DEF Put, Taken, Driven
  <1> HIDE DEF c
  <1>2. /\ Taken(b, p) \in [Poses -> Nat] /\ IsFiniteSet(CarsAt(Taken(b, p), Poses))
        /\ CountAt(b, S) = CountAt(Taken(b, p), S) + OneIn(p, S)
        /\ CountAt(Taken(b, p), S) \in Nat
    BY CarTaken
  <1>3. /\ Put(Taken(b, p), q) \in [Poses -> Nat]
        /\ IsFiniteSet(CarsAt(Put(Taken(b, p), q), Poses))
        /\ CountAt(Put(Taken(b, p), q), S) = CountAt(Taken(b, p), S) + OneIn(q, S)
    BY <1>2, CarPut
  <1>4. OneIn(p, S) \in {0, 1} /\ OneIn(q, S) \in {0, 1}
    BY OneInIs
  <1>5. CountAt(c, S) = CountAt(Taken(b, p), S) + OneIn(q, S)
    BY <1>1, <1>3
  <1>6. CountAt(c, S) = CountAt(b, S) + OneIn(q, S) - OneIn(p, S)
    BY <1>2, <1>4, <1>5
  <1> QED
    BY <1>1, <1>3, <1>6 DEF c

\* Each car is somewhere.
LEMMA AllIn ==
  ASSUME NEW p \in Poses
  PROVE  OneIn(p, Poses) = 1
  BY OneInIs

\* A bag with no more cars at any pose has no more cars.
LEMMA CarsFewer ==
  ASSUME NEW b \in [Poses -> Nat], NEW c \in [Poses -> Nat], \A p \in Poses : c[p] <= b[p],
         IsFiniteSet(CarsAt(b, Poses))
  PROVE  /\ IsFiniteSet(CarsAt(c, Poses)) /\ Total(c) \in Nat
         /\ Total(c) <= Total(b)
  <1>1. CarsAt(c, Poses) \in SUBSET CarsAt(b, Poses)
    <2>1. ASSUME NEW q \in Poses PROVE 1..c[q] \subseteq 1..b[q]
      BY <2>1
    <2> QED
      BY <2>1 DEF CarsAt
  <1> QED
    BY <1>1, FS_Subset, FS_CardinalityType DEF Total, CountAt

\* No cars at all.
LEMMA NoCars ==
  ASSUME NEW b, NEW S, \A p \in S : b[p] = 0
  PROVE  CarsAt(b, S) = {} /\ IsFiniteSet(CarsAt(b, S)) /\ CountAt(b, S) = 0
  <1>1. CarsAt(b, S) = {}
    BY DEF CarsAt
  <1> QED
    BY <1>1, FS_EmptySet DEF CountAt

-----------------------------------------------------------------------------
(* Numbers *)

\* The larger and the smaller of two.
LEMMA TwoOf ==
  ASSUME NEW a \in Int, NEW b \in Int
  PROVE  /\ Max({a, b}) \in {a, b} /\ Max({a, b}) >= a /\ Max({a, b}) >= b
         /\ Min({a, b}) \in {a, b} /\ Min({a, b}) <= a /\ Min({a, b}) <= b
  <1>1. \E x \in {a, b} : \A y \in {a, b} : x >= y
    <2>1. CASE a >= b
      BY <2>1
    <2>2. CASE b >= a
      BY <2>2
    <2> QED
      BY <2>1, <2>2
  <1>2. \E x \in {a, b} : \A y \in {a, b} : x =< y
    <2>1. CASE a <= b
      BY <2>1
    <2>2. CASE b <= a
      BY <2>2
    <2> QED
      BY <2>1, <2>2
  <1>3. Max({a, b}) \in {a, b} /\ \A y \in {a, b} : Max({a, b}) >= y
    BY <1>1 DEF Max
  <1>4. Min({a, b}) \in {a, b} /\ \A y \in {a, b} : Min({a, b}) =< y
    BY <1>2 DEF Min
  <1> QED
    BY <1>3, <1>4

\* The smallest of three.
LEMMA ThreeOf ==
  ASSUME NEW a \in Int, NEW b \in Int, NEW c \in Int
  PROVE  /\ Min({a, b, c}) \in {a, b, c} /\ Min({a, b, c}) <= a
         /\ Min({a, b, c}) <= b /\ Min({a, b, c}) <= c
  <1>1. PICK m \in {a, b, c} : m <= a /\ m <= b /\ m <= c
    <2>1. PICK x \in {a, b} : x <= a /\ x <= b
      BY TwoOf
    <2>2. PICK y \in {x, c} : y <= x /\ y <= c
      BY <2>1, TwoOf
    <2>3. y \in {a, b, c} /\ y <= a /\ y <= b /\ y <= c
      BY <2>1, <2>2
    <2> QED
      BY <2>3
  <1>2. \E x \in {a, b, c} : \A y \in {a, b, c} : x =< y
    BY <1>1
  <1>3. Min({a, b, c}) \in {a, b, c} /\ \A y \in {a, b, c} : Min({a, b, c}) =< y
    BY <1>2 DEF Min
  <1> QED
    BY <1>3

\* The live cap is a number.
LEMMA CapIs ==
  ASSUME NEW n \in Nat
  PROVE  LiveStockCap(n) \in Nat
  <1> DEFINE m == n \div 2
  <1>1. m \in Nat
    OBVIOUS
  <1>2. LiveStockCap(n) = IF n <= 0 THEN 0 ELSE Max({4, m})
    BY DEF LiveStockCap
  <1> HIDE DEF m
  <1>4. 4 \in Int /\ m \in Int
    BY <1>1
  <1>3. Max({4, m}) \in {4, m}
    BY ONLY <1>4, TwoOf, Zenon
  <1> QED
    BY <1>1, <1>2, <1>3

\* A maintain pulse adds two cars at most.
LEMMA BudgetIs ==
  ASSUME NEW n \in Nat, NEW s \in Int, NEW near \in Nat, NEW e \in Nat
  PROVE  TopupBudget(s, n, near, e) \in 0..2
  <1> DEFINE room == LiveStockCap(n) - near
  <1>1. room \in Int
    BY CapIs
  <1>2. CASE n <= 0 \/ room <= 0
    BY <1>2 DEF TopupBudget
  <1>3. CASE ~(n <= 0 \/ room <= 0) /\ s < n
    <2>1. TopupBudget(s, n, near, e) = Min({2, room})
      BY <1>3 DEF TopupBudget, MaxPerMaintain
    <2> HIDE DEF room
    <2>2. 2 \in Int /\ room \in Int
      BY <1>1
    <2>3. Min({2, room}) \in {2, room} /\ Min({2, room}) <= 2
      BY ONLY <2>2, TwoOf, Zenon
    <2> QED
      BY <1>1, <1>3, <2>1, <2>3
  <1>4. CASE ~(n <= 0 \/ room <= 0) /\ ~(s < n)
    <2>1. TopupBudget(s, n, near, e) = Min({2, e, room})
      BY <1>4 DEF TopupBudget, MaxPerMaintain
    <2> HIDE DEF room
    <2>2. Min({2, e, room}) \in {2, e, room} /\ Min({2, e, room}) <= 2
      <3>1. 2 \in Int /\ e \in Int
        OBVIOUS
      <3> QED
        BY ONLY <1>1, <3>1, ThreeOf, Zenon
    <2> QED
      BY <1>1, <1>4, <2>1, <2>2
  <1> QED
    BY <1>2, <1>3, <1>4

-----------------------------------------------------------------------------
(* The exam tube *)

\* A car that heads the hero's way in the tube is culled.
LEMMA TubeIsCulled ==
  ASSUME NEW p \in Poses, NEW e \in Int, InExamTube(p, e - 1), SameDirection(p)
  PROVE  ShouldCull(p, e)
  <1>1. p.along \in Int /\ p.left \in Int /\ p.yaw \in Int
    BY PoseAssumption
  <1>2. InExamTube(p, e) /\ Abs(p.left) <= HalfLane
    BY <1>1 DEF InExamTube
  <1>3. ~(Abs(p.left) > Carriage)
    BY <1>1, <1>2 DEF HalfLane, Carriage, Metre, Abs
  <1>4. ClassifySpawn(p) = "host"
    BY <1>2, <1>3 DEF ClassifySpawn
  <1>5. ~Across(p)
    BY <1>1 DEF SameDirection, Across, Abs
  <1>6. ClassifyLive(p, e) \in {"far", "host"}
    BY <1>2, <1>4, <1>5 DEF ClassifyLive
  <1> QED
    BY <1>6 DEF ShouldCull

\* No car is spawned there.
LEMMA TubeIsNoPlace ==
  ASSUME NEW e \in Int, NEW light, NEW p \in Candidates(e, light)
  PROVE  p \in Poses /\ ~(InExamTube(p, e - 1) /\ SameDirection(p))
  <1>0. p \in Poses
    BY DEF Candidates
  <1> SUFFICES ASSUME InExamTube(p, e - 1), SameDirection(p) PROVE FALSE
    BY <1>0
  <1>1. p.along \in Int /\ p.left \in Int /\ p.yaw \in Int
    BY <1>0, PoseAssumption
  <1>2. p.along <= e - 1 /\ Abs(p.left) <= HalfLane
    BY <1>1 DEF InExamTube
  <1>3. ~(Abs(p.left) > Carriage)
    BY <1>1, <1>2 DEF HalfLane, Carriage, Metre, Abs
  <1>4. ClassifySpawn(p) = "host"
    BY <1>2, <1>3 DEF ClassifySpawn
  <1>5. ~Across(p)
    BY <1>1 DEF SameDirection, Across, Abs
  <1>6. ~(p.along >= e)
    BY <1>1, <1>2
  <1> QED
    BY <1>4, <1>5, <1>6 DEF Candidates

-----------------------------------------------------------------------------
(* Every step keeps the invariant. *)

\* A step that leaves the cars, and what the tube is judged by, alone.
LEMMA TubeQuiet ==
  ASSUME TubeInv, UNCHANGED <<stock, todo, end, moved, left>>
  PROVE  TubeInv'
  BY DEF TubeInv, TubePoses, CountAt, Looked

\* A step that leaves the cars alone, and the counts alone or at nothing.
LEMMA CarsQuiet ==
  ASSUME CarsInv, UNCHANGED stock, evicted' \in {0, evicted}, nearAt' \in {0, nearAt},
         left' \in {0, left}, MaxCars \in Nat
  PROVE  CarsInv'
  BY DEF CarsInv, Total, CountAt

\* ensure_ambient_traffic: a new case keeps the cars, or those that could not be wiped.
LEMMA CaseKeeps ==
  ASSUME TrafficInv, NewCase
  PROVE  TrafficInv'
  <1> USE NumberAssumption DEF TrafficInv
  <1>1. stock' \in [Poses -> Nat] /\ \A p \in Poses : stock'[p] <= stock[p]
    <2>1. stock' = stock \/ stock' \in Survivors
      BY DEF NewCase
    <2>2. CASE stock' \in Survivors
      <3>1. stock' \in [Poses -> 0..MaxCars] /\ \A p \in Poses : stock'[p] <= stock[p]
        BY <2>2 DEF Survivors
      <3> QED
        BY <3>1
    <2> QED
      BY <2>1, <2>2 DEF TrafficTypes
  <1>2. /\ todo = NoCar /\ todo' = NoCar /\ evicted = 0 /\ evicted' = 0 /\ nearAt' = nearAt
        /\ trafficPc' \in {"cull", "idle"} /\ left' = 0
    BY DEF NewCase, LookInv, pulse
  <1>3. TrafficTypes'
    <2>1. \A p \in Poses : todo'[p] <= stock'[p]
      BY <1>1, <1>2 DEF NoCar
    <2>2. todo' \in [Poses -> Nat]
      BY <1>2 DEF NoCar
    <2> QED
      BY <1>1, <1>2, <2>1, <2>2 DEF NewCase, TrafficTypes, pulse, PulseSteps
  <1>4. CarsInv'
    <2>1. /\ IsFiniteSet(CarsAt(stock', Poses)) /\ Total(stock') \in Nat
          /\ Total(stock') <= Total(stock) /\ Total(stock) \in Nat
      BY <1>1, CarsFewer, CarsPart DEF TrafficTypes, CarsInv
    <2>2. Total(stock') <= MaxCars
      BY <2>1 DEF CarsInv
    <2> QED
      BY <1>2, <2>1, <2>2 DEF CarsInv, Total, CountAt
  <1>5. LookInv'
    BY <1>2 DEF LookInv
  <1>6. RoomInv'
    BY DEF NewCase, RoomInv
  <1>7. TubeInv'
    BY DEF NewCase, TubeInv
  <1> QED
    BY <1>3, <1>4, <1>5, <1>6, <1>7

\* Steps that move no car.
LEMMA QuietKeeps ==
  ASSUME TrafficInv, Maintain \/ Time \/ FillDone \/ CullDone
  PROVE  TrafficInv'
  <1> USE NumberAssumption DEF TrafficInv
  <1>0. UNCHANGED <<stock, todo, end, moved, left>>
    BY DEF Maintain, Time, FillDone, CullDone, pulse
  <1>1. TrafficTypes'
    <2>1. CASE Maintain
      <3>1. elapsed \in 0..MaxElapsed /\ elapsed \in 0..elapsed
        BY DEF TrafficTypes
      <3>2. /\ last' = elapsed /\ elapsed' = elapsed /\ seed' = FALSE
            /\ trafficPc' \in {"cull", "idle"}
        BY <2>1 DEF Maintain
      <3>3. UNCHANGED <<number, stock, lead, todo, pulse, moved, came, left, spawned>>
        BY <2>1 DEF Maintain
      <3> QED
        BY <3>1, <3>2, <3>3 DEF pulse, TrafficTypes, PulseSteps
    <2>2. CASE Time
      BY <2>2 DEF Time, pulse, TrafficTypes, PulseSteps
    <2>3. CASE FillDone
      BY <2>3 DEF FillDone, Forget, TrafficTypes, PulseSteps
    <2>4. CASE CullDone
      BY <2>4 DEF CullDone, Forget, TrafficTypes, PulseSteps
    <2> QED
      BY <2>1, <2>2, <2>3, <2>4
  <1>2. RoomInv'
    <2>1. trafficPc' # "fill" /\ came' = 0
      BY DEF Maintain, Time, FillDone, CullDone, Forget, pulse, RoomInv
    <2> QED
      BY <2>1 DEF RoomInv
  <1>3. /\ evicted' \in {0, evicted} /\ nearAt' \in {0, nearAt}
    BY DEF Maintain, Time, FillDone, CullDone, Forget, pulse
  <1>4. LookInv'
    BY <1>0 DEF Maintain, Time, FillDone, CullDone, Forget, pulse, LookInv
  <1> QED
    BY <1>0, <1>1, <1>2, <1>3, <1>4, TubeQuiet, CarsQuiet

\* exam_window_end_m is a length, and 70 m at least.
LEMMA EndIs ==
  ASSUME NEW fixture \in Nat
  PROVE  ExamEnd(fixture) \in Int /\ ExamEnd(fixture) >= ExamAheadMin
  <1> DEFINE far == fixture + 25 * Metre
  <1>1. far \in Int /\ ExamAheadMin \in Int
    BY DEF Metre, ExamAheadMin
  <1>2. ExamEnd(fixture) = IF fixture <= 2 THEN ExamAheadMin ELSE Max({ExamAheadMin, far})
    BY DEF ExamEnd
  <1> HIDE DEF far
  <1>3. /\ Max({ExamAheadMin, far}) \in {ExamAheadMin, far}
        /\ Max({ExamAheadMin, far}) >= ExamAheadMin
    BY ONLY <1>1, TwoOf, Zenon
  <1> QED
    BY <1>1, <1>2, <1>3

\* No cars are a bag.
LEMMA NoCarIs == NoCar \in [Poses -> Nat] /\ Total(NoCar) = 0 /\ \A p \in Poses : NoCar[p] = 0
  <1>1. \A p \in Poses : NoCar[p] = 0
    BY DEF NoCar
  <1> QED
    BY <1>1, NoCars DEF NoCar, Total

\* A list that is empty has all the cars looked at.
LEMMA AllLooked ==
  ASSUME stock \in [Poses -> Nat], todo = NoCar
  PROVE  Looked = stock
  <1>1. \A p \in Poses : stock[p] - todo[p] = stock[p]
    BY NoCarIs
  <1>2. Looked = [p \in Poses |-> stock[p]]
    BY <1>1 DEF Looked
  <1> QED
    BY <1>2

\* The cars that are looked at, and those that are not, are a part of the bag.
LEMMA LookedIs ==
  ASSUME TrafficTypes, CarsInv
  PROVE  /\ Looked \in [Poses -> Nat] /\ IsFiniteSet(CarsAt(Looked, Poses))
         /\ IsFiniteSet(CarsAt(todo, Poses)) /\ Total(todo) \in Nat /\ Total(todo) <= Total(stock)
  <1>1. /\ stock \in [Poses -> Nat] /\ todo \in [Poses -> Nat]
        /\ \A p \in Poses : todo[p] <= stock[p]
    BY DEF TrafficTypes
  <1>2. Looked \in [Poses -> Nat] /\ \A p \in Poses : Looked[p] <= stock[p]
    BY <1>1 DEF Looked
  <1>3. IsFiniteSet(CarsAt(stock, Poses))
    BY DEF CarsInv
  <1> QED
    BY <1>1, <1>2, <1>3, CarsFewer

\* _cull_bubble begins: no car is looked at yet.
LEMMA CullKeeps ==
  ASSUME TrafficInv, CullBubble
  PROVE  TrafficInv'
  <1> USE NumberAssumption DEF TrafficInv
  <1>1. /\ trafficPc = "cull" /\ trafficPc' = "look" /\ end' = ExamEnd(lead) /\ todo' = stock
        /\ moved' = FALSE /\ left' = 0
        /\ UNCHANGED <<number, stock, lead, elapsed, last, seed, read, avoid, culled, blocked,
                       budget, nearAt, evicted, came, spawned>>
    BY DEF CullBubble
  <1>2. end' \in Int /\ end' >= ExamAheadMin
    BY <1>1, EndIs DEF TrafficTypes
  <1>3. TrafficTypes'
    <2>1. todo' \in [Poses -> Nat] /\ \A p \in Poses : todo'[p] <= stock'[p]
      BY <1>1 DEF TrafficTypes
    <2> QED
      BY <1>1, <1>2, <2>1 DEF TrafficTypes, PulseSteps
  <1>4. CarsInv'
    BY <1>1, CarsQuiet
  <1>5. LookInv'
    <2>1. evicted' = 0 /\ left' = 0 /\ Total(todo') <= MaxCars /\ Total(todo') \in Nat
      BY <1>1, CarsPart DEF LookInv, CarsInv, TrafficTypes
    <2>2. Total(todo)' = Total(todo')
      BY DEF Total, CountAt
    <2> QED
      BY <1>1, <2>1, <2>2 DEF LookInv
  <1>6. RoomInv'
    BY <1>1 DEF RoomInv
  <1>7. TubeInv'
    <2>1. \A p \in Poses : stock[p] - stock[p] = 0
      BY DEF TrafficTypes
    <2>2. Looked' = [p \in Poses |-> stock[p] - stock[p]]
      BY <1>1 DEF Looked
    <2>3. \A p \in TubePoses' : Looked'[p] = 0
      BY <2>1, <2>2 DEF TubePoses
    <2>4. CountAt(Looked', TubePoses') = 0
      BY <2>3, NoCars
    <2> QED
      BY <1>1, <2>4 DEF TubeInv, CountAt
  <1> QED
    BY <1>3, <1>4, <1>5, <1>6, <1>7

\* A car that is looked at: one in the tube is destroyed, or counts among those that stay.
LEMMA LookKeeps ==
  ASSUME TrafficInv, NEW p \in Poses, KeepCar(p) \/ \E readable \in BOOLEAN : CullCar(p, readable)
  PROVE  TrafficInv'
  <1> USE NumberAssumption DEF TrafficInv
  <1>1. /\ trafficPc = "look" /\ todo[p] > 0 /\ todo' = Taken(todo, p)
        /\ UNCHANGED <<number, trafficPc, lead, elapsed, last, seed, end, blocked, budget, nearAt,
                       moved, came, spawned>>
    BY DEF KeepCar, CullCar, LookAt, Taken
  <1>2. \/ /\ stock' = stock /\ evicted' = evicted /\ left' = left
           /\ ~ShouldCull(p, end)
        \/ stock' = stock /\ evicted' = evicted /\ left' = left + 1
        \/ stock' = Taken(stock, p) /\ evicted' = evicted + 1 /\ left' = left
    BY DEF KeepCar, CullCar, Taken
  <1>3. read' \subseteq Poses /\ avoid' \subseteq Poses /\ culled' \subseteq avoid'
    <2>1. CASE KeepCar(p)
      BY <2>1 DEF KeepCar, TrafficTypes
    <2>2. CASE \E readable \in BOOLEAN : CullCar(p, readable)
      <3>1. PICK readable \in BOOLEAN : CullCar(p, readable)
        BY <2>2
      <3> DEFINE place == IF readable THEN {p} ELSE read
      <3>2. /\ read' = place /\ avoid' = avoid \cup place
            /\ culled' \in {culled, IF readable THEN culled \cup {p} ELSE culled}
        BY <3>1 DEF CullCar
      <3> QED
        BY <3>2 DEF TrafficTypes
    <2> QED
      BY <2>1, <2>2
  <1>4. /\ stock \in [Poses -> Nat] /\ todo \in [Poses -> Nat] /\ IsFiniteSet(CarsAt(stock, Poses))
        /\ \A q \in Poses : todo[q] <= stock[q]
        /\ stock[p] > 0 /\ evicted \in Nat /\ left \in Nat
    BY <1>1 DEF TrafficTypes, CarsInv
  <1>5. /\ Looked \in [Poses -> Nat] /\ IsFiniteSet(CarsAt(Looked, Poses))
        /\ IsFiniteSet(CarsAt(todo, Poses))
    BY LookedIs
  <1>6. /\ todo' \in [Poses -> Nat] /\ Total(todo) = Total(todo') + 1 /\ Total(todo') \in Nat
    <2>1. /\ Taken(todo, p) \in [Poses -> Nat]
          /\ CountAt(todo, Poses) = CountAt(Taken(todo, p), Poses) + OneIn(p, Poses)
          /\ CountAt(Taken(todo, p), Poses) \in Nat
      BY <1>1, <1>4, <1>5, CarTaken
    <2> QED
      BY <1>1, <2>1, AllIn DEF Total
  <1>7. /\ stock' \in [Poses -> Nat] /\ IsFiniteSet(CarsAt(stock', Poses))
        /\ Total(stock') <= Total(stock) /\ Total(stock') \in Nat /\ Total(stock) \in Nat
    <2>1. CASE stock' = stock
      BY <1>4, <2>1, CarsPart DEF Total
    <2>2. CASE stock' = Taken(stock, p)
      <3>1. stock' \in [Poses -> Nat] /\ \A q \in Poses : stock'[q] <= stock[q]
        BY <1>4, <2>2 DEF Taken
      <3> QED
        BY <1>4, <3>1, CarsFewer, CarsPart
    <2> QED
      BY <1>2, <2>1, <2>2
  <1>8. \A q \in Poses : todo'[q] <= stock'[q]
    BY <1>1, <1>2, <1>4 DEF Taken
  <1>9. /\ evicted' \in Nat /\ left' \in Nat
        /\ evicted' + left' + Total(todo') <= MaxCars
    <2>1. evicted + left + Total(todo) <= MaxCars
      BY <1>1 DEF LookInv
    <2>2. \/ evicted' = evicted /\ left' \in {left, left + 1}
          \/ evicted' = evicted + 1 /\ left' = left
      BY <1>2
    <2> QED
      BY <1>4, <1>6, <2>1, <2>2
  <1>10. TrafficTypes'
    BY <1>1, <1>3, <1>6, <1>7, <1>8, <1>9 DEF TrafficTypes
  <1>11. CarsInv'
    <2>1. Total(stock') <= MaxCars
      BY <1>7 DEF CarsInv
    <2>2. evicted' <= MaxCars /\ left' <= MaxCars
      BY <1>6, <1>9
    <2> QED
      BY <1>1, <1>7, <2>1, <2>2 DEF CarsInv, Total, CountAt
  <1>12. LookInv'
    <2>1. Total(todo)' = Total(todo')
      BY DEF Total, CountAt
    <2> QED
      BY <1>1, <1>9, <2>1 DEF LookInv
  <1>13. RoomInv'
    BY <1>1 DEF RoomInv
  <1>14. TubeInv'
    <2>1. TubePoses' = TubePoses /\ TubePoses \in SUBSET Poses
      BY <1>1 DEF TubePoses
    <2>2. CountAt(Looked, TubePoses) \in Nat
      BY <1>5, <2>1, CarsPart
    <2>3. CASE stock' = stock
      <3>1. Looked' = Put(Looked, p)
        <4>1. Put(Looked, p) \in [Poses -> Int] /\ Looked' \in [Poses -> Int]
          BY <1>4, <1>5, <1>6, <2>3 DEF Put, Looked
        <4>2. \A q \in Poses : Looked'[q] = Put(Looked, p)[q]
          BY <1>1, <1>4, <2>3 DEF Put, Looked, Taken
        <4> QED
          BY <4>1, <4>2
      <3>2. CountAt(Looked', TubePoses) = CountAt(Looked, TubePoses) + OneIn(p, TubePoses)
        BY <1>5, <2>1, <3>1, CarPut
      <3>3. left' = left /\ ~ShouldCull(p, end) => OneIn(p, TubePoses) = 0
        <4>1. end \in Int
          BY DEF TrafficTypes
        <4>2. ~ShouldCull(p, end) => p \notin TubePoses
          BY <4>1, TubeIsCulled DEF TubePoses
        <4> QED
          BY <4>2, OneInIs
      <3>4. OneIn(p, TubePoses) \in {0, 1}
        BY OneInIs
      <3>5. stock' # Taken(stock, p)
        BY <1>4, <2>3 DEF Taken
      <3>6. CountAt(Looked, TubePoses) <= left => CountAt(Looked', TubePoses) <= left'
        BY <1>2, <1>4, <2>2, <3>2, <3>3, <3>4, <3>5
      <3> QED
        BY <1>1, <2>1, <3>6 DEF TubeInv, CountAt
    <2>4. CASE stock' = Taken(stock, p)
      <3>1. Looked' = Looked
        <4>1. \A q \in Poses : stock'[q] - todo'[q] = stock[q] - todo[q]
          BY <1>1, <1>4, <2>4 DEF Taken
        <4> QED
          BY <4>1 DEF Looked
      <3>2. left' = left
        BY <1>2, <1>4, <2>4 DEF Taken
      <3> QED
        BY <1>1, <2>1, <3>1, <3>2 DEF TubeInv, CountAt
    <2> QED
      BY <1>2, <2>3, <2>4
  <1> QED
    BY <1>10, <1>11, <1>12, <1>13, <1>14

\* The budget of a pulse.
LEMMA MaxAddKeeps ==
  ASSUME TrafficInv, MaxAdd
  PROVE  TrafficInv'
  <1> USE NumberAssumption DEF TrafficInv
  <1>1. NearStock(stock) \in Nat
    BY CarsPart DEF NearStock, NearPoses, TrafficTypes, CarsInv
  <1>2. PICK n \in IF seed THEN {Min({8, number})}
                   ELSE {TopupBudget(s, number, NearStock(stock), evicted) :
                           s \in CountAt(stock, {p \in Poses : InSeeCone(p)})..Max({number, Total(stock)})} :
          \/ n = 0 /\ trafficPc' = "idle" /\ Forget
          \/ trafficPc' = "count" /\ budget' = n /\ evicted' = 0 /\ UNCHANGED <<avoid, culled, blocked, nearAt, came>>
    BY DEF MaxAdd
  <1>3. n \in 0..8
    <2>0. number \in Nat /\ evicted \in Nat
      BY DEF TrafficTypes
    <2>1. CASE seed
      <3>1. 8 \in Int /\ number \in Int
        BY <2>0
      <3>2. Min({8, number}) \in {8, number} /\ Min({8, number}) <= 8
        BY ONLY <3>1, TwoOf, Zenon
      <3> QED
        BY <1>2, <2>0, <2>1, <3>2
    <2>2. CASE ~seed
      <3>3. PICK s \in CountAt(stock, {p \in Poses : InSeeCone(p)})..
                    Max({number, Total(stock)}) :
              n = TopupBudget(s, number, NearStock(stock), evicted)
        BY <1>2, <2>2, Zenon
      <3>1. s \in Int
        OBVIOUS
      <3>2. n \in 0..2
        BY <1>1, <2>0, <3>1, <3>3, BudgetIs
      <3> QED
        BY <3>2
    <2> QED
      BY <2>1, <2>2
  <1>4. /\ UNCHANGED <<number, stock, lead, elapsed, last, seed, end, todo, read, moved, left, spawned>>
        /\ trafficPc = "budget"
    BY DEF MaxAdd
  <1>5. TrafficTypes'
    BY <1>2, <1>3, <1>4 DEF TrafficTypes, Forget, PulseSteps
  <1>6. RoomInv'
    BY <1>2, <1>4 DEF RoomInv, Forget
  <1>7. evicted' \in {0, evicted} /\ nearAt' \in {0, nearAt}
    BY <1>2 DEF Forget
  <1>8. LookInv'
    BY <1>2, <1>4 DEF LookInv, Forget
  <1> QED
    BY <1>4, <1>5, <1>6, <1>7, <1>8, TubeQuiet, CarsQuiet

\* _fill_slots counts again: what it may add fits the room, or there is none.
LEMMA CountKeeps ==
  ASSUME TrafficInv, CountForFill
  PROVE  TrafficInv'
  <1> USE NumberAssumption DEF TrafficInv
  <1> DEFINE near == NearStock(stock)
             room == Room(near)
             n == Min({budget, room})
  <1>1. near \in Nat /\ near <= Total(stock)
    BY CarsPart DEF NearStock, NearPoses, TrafficTypes, CarsInv
  <1>2. Live \in Nat /\ budget \in 0..8
    BY CapIs DEF TrafficTypes, Live
  <1>3. room = Max({0, Live - near})
    BY DEF Room
  <1>4. /\ UNCHANGED <<number, stock, lead, elapsed, last, seed, end, todo, read, moved, left, spawned>>
        /\ trafficPc = "count"
        /\ \/ n = 0 /\ trafficPc' = "idle" /\ Forget
           \/ /\ trafficPc' = "fill" /\ nearAt' = near /\ budget' = n
              /\ blocked' = {p \in Poses : stock[p] > 0}
              /\ UNCHANGED <<avoid, culled, evicted, came>>
    BY DEF CountForFill
  <1>5. /\ NearStock(stock)' = near /\ Total(stock)' = Total(stock)
        /\ Live' = Live
    BY <1>4 DEF NearStock, NearPoses, CountAt, Total, Live
  <1> HIDE DEF near, room, n
  <1>6. 0 \in Int /\ Live - near \in Int
    BY <1>1, <1>2
  <1>7. room \in {0, Live - near} /\ room >= 0
    BY ONLY <1>3, <1>6, TwoOf, Zenon
  <1>8. budget \in Int /\ room \in Int
    BY <1>2, <1>6, <1>7
  <1>9. n \in {budget, room} /\ n <= budget /\ n <= room
    <2>1. n = Min({budget, room})
      BY DEF n
    <2> QED
      BY ONLY <1>8, <2>1, TwoOf, Zenon
  <1>10. n \in 0..8 /\ (near + n <= Live \/ near + n <= near)
    BY <1>1, <1>2, <1>7, <1>9
  <1>11. came = 0
    BY <1>4 DEF RoomInv
  <1>12. TrafficTypes'
    BY <1>1, <1>4, <1>10 DEF TrafficTypes, Forget, PulseSteps
  <1>13. RoomInv'
    <2>1. CASE trafficPc' = "idle" /\ Forget
      BY <2>1 DEF RoomInv, Forget
    <2>2. CASE trafficPc' = "fill" /\ nearAt' = near /\ budget' = n /\ came' = came
      <3>1. NearStock(stock)' - came' = near
        BY <1>1, <1>5, <1>11, <2>2
      <3> QED
        BY <1>1, <1>5, <1>10, <1>11, <2>2, <3>1 DEF RoomInv
    <2> QED
      BY <1>4, <2>1, <2>2
  <1>14. CarsInv'
    <2>1. evicted' \in {0, evicted} /\ nearAt' \in {0, near}
      BY <1>4 DEF Forget
    <2>2. near <= MaxCars /\ 0 <= MaxCars
      <3>1. Total(stock) \in Nat /\ Total(stock) <= MaxCars
        BY CarsPart DEF TrafficTypes, CarsInv
      <3> QED
        BY <1>1, <3>1
    <2> QED
      BY <1>4, <1>5, <2>1, <2>2 DEF CarsInv, CountAt
  <1>15. LookInv'
    BY <1>4 DEF LookInv, Forget
  <1> QED
    BY <1>4, <1>12, <1>13, <1>14, <1>15, TubeQuiet

\* A car more: a place of the budget less, or one that is not counted.
LEMMA SpawnKeeps ==
  ASSUME TrafficInv, SpawnOne \/ SpawnUnarmed
  PROVE  TrafficInv'
  <1> USE NumberAssumption DEF TrafficInv
  <1>1. PICK p \in Candidates(end, ~seed) :
          /\ Appear(p)
          /\ \/ /\ blocked' = blocked \cup {p} /\ budget' = budget - 1 /\ came' = came
                /\ spawned' \in {spawned, spawned + 1}
             \/ /\ came' = came + OneIn(p, NearPoses)
                /\ UNCHANGED <<blocked, budget, spawned>>
    BY DEF SpawnOne, SpawnUnarmed, OneIn
  <1>2. /\ trafficPc = "fill" /\ trafficPc' = "fill" /\ budget > 0
        /\ Total(stock) < MaxCars
        /\ stock' = Put(stock, p)
        /\ UNCHANGED <<number, lead, elapsed, last, seed, end, todo, read, avoid, culled,
                       nearAt, evicted, moved, left>>
    BY <1>1 DEF Appear, Put
  <1>3. p \in Poses /\ p \notin TubePoses
    <2>1. end \in Int
      BY DEF TrafficTypes
    <2> QED
      BY <2>1, TubeIsNoPlace DEF TubePoses
  <1>4. /\ stock \in [Poses -> Nat] /\ IsFiniteSet(CarsAt(stock, Poses))
        /\ stock' = Put(stock, p)
    BY <1>2 DEF TrafficTypes, CarsInv
  <1>5. stock' \in [Poses -> Nat] /\ IsFiniteSet(CarsAt(stock', Poses))
    BY <1>3, <1>4, CarPut
  <1>6. ASSUME NEW S \in SUBSET Poses
        PROVE  /\ CountAt(stock', S) = CountAt(stock, S) + OneIn(p, S)
               /\ CountAt(stock, S) \in Nat
    BY <1>3, <1>4, CarPut
  <1>7. Total(stock') = Total(stock) + 1 /\ Total(stock) \in Nat
    BY <1>3, <1>6, AllIn DEF Total
  <1>8. NearPoses \in SUBSET Poses /\ TubePoses \in SUBSET Poses
    BY DEF NearPoses, TubePoses
  <1>9. /\ NearStock(stock') = NearStock(stock) + OneIn(p, NearPoses)
        /\ NearStock(stock) \in Nat /\ OneIn(p, NearPoses) \in {0, 1}
    BY <1>6, <1>8, OneInIs DEF NearStock
  <1>10. CountAt(stock', TubePoses) = CountAt(stock, TubePoses)
    <2>1. OneIn(p, TubePoses) = 0
      BY <1>3, OneInIs
    <2> QED
      BY <1>6, <1>8, <2>1
  <1>11. TrafficTypes'
    <2>1. todo = NoCar /\ todo' = NoCar
      BY <1>2 DEF LookInv
    <2>2. todo' \in [Poses -> Nat] /\ \A q \in Poses : todo'[q] <= stock'[q]
      BY <1>5, <2>1, NoCarIs
    <2>3. budget' \in 0..8 /\ came' \in Int /\ spawned' \in Nat /\ blocked' \subseteq Poses
      BY <1>1, <1>2, <1>3, <1>9 DEF TrafficTypes
    <2> QED
      BY <1>2, <1>5, <2>2, <2>3 DEF TrafficTypes
  <1>12. CarsInv'
    <2>1. Total(stock') <= MaxCars
      BY <1>2, <1>7
    <2> QED
      BY <1>2, <1>5, <2>1 DEF CarsInv, Total, CountAt
  <1>13. RoomInv'
    <2>1. /\ NearStock(stock)' = NearStock(stock')
          /\ Total(stock)' = Total(stock')
          /\ Live' = Live
      BY <1>2 DEF NearStock, NearPoses, CountAt, Total, Live
    <2>2. /\ nearAt <= NearStock(stock) - came
          /\ NearStock(stock) - came <= Total(stock)
          /\ \/ NearStock(stock) - came + budget <= Live
             \/ NearStock(stock) - came + budget <= nearAt
      BY <1>2 DEF RoomInv
    <2>3. came \in Int /\ budget \in Nat /\ nearAt \in Nat /\ Live \in Nat
      BY CapIs DEF TrafficTypes, Live
    <2> DEFINE a == NearStock(stock)
               b == NearStock(stock')
               t == Total(stock)
               u == Total(stock')
               one == OneIn(p, NearPoses)
    <2>4. a \in Nat /\ b = a + one /\ one \in {0, 1} /\ t \in Nat /\ u = t + 1
      BY <1>7, <1>9
    <2>7. \/ came' = came /\ budget' = budget - 1
          \/ came' = came + one /\ budget' = budget
      BY <1>1
    <2> HIDE DEF a, b, t, u, one
    <2>5. /\ nearAt <= a - came /\ a - came <= t
          /\ a - came + budget <= Live \/ a - came + budget <= nearAt
      BY <2>2 DEF a, t
    <2>6. /\ nearAt <= b - came' /\ b - came' <= u
          /\ b - came' + budget' <= Live \/ b - came' + budget' <= nearAt
      <3>1. CASE came' = came /\ budget' = budget - 1
        BY <2>3, <2>4, <2>5, <3>1
      <3>2. CASE came' = came + one /\ budget' = budget
        BY <2>3, <2>4, <2>5, <3>2
      <3> QED
        BY <2>7, <3>1, <3>2
    <2> QED
      BY <1>2, <2>1, <2>6 DEF RoomInv, b, u
  <1>14. TubeInv'
    <2>1. /\ TubePoses' = TubePoses
          /\ CountAt(Looked, TubePoses)' = CountAt(Looked', TubePoses')
      BY <1>2 DEF TubePoses, CountAt
    <2>2. todo = NoCar /\ todo' = NoCar
      BY <1>2 DEF LookInv
    <2>3. Looked = stock /\ Looked' = stock'
      <3>1. Looked = stock
        BY <1>4, <2>2, AllLooked
      <3>2. \A q \in Poses : stock'[q] - todo'[q] = stock'[q]
        BY <1>5, <2>2, NoCarIs
      <3>3. Looked' = [q \in Poses |-> stock'[q]]
        BY <3>2 DEF Looked
      <3> QED
        BY <1>5, <3>1, <3>3
    <2> QED
      BY <1>2, <1>10, <2>1, <2>3 DEF TubeInv
  <1>15. LookInv'
    BY <1>2 DEF LookInv
  <1> QED
    BY <1>11, <1>12, <1>13, <1>14, <1>15

\* A car that drives in or out of the bubble in a fill is counted in came.
LEMMA DriveKeeps ==
  ASSUME TrafficInv, Drive
  PROVE  TrafficInv'
  <1> USE NumberAssumption DEF TrafficInv
  <1>1. PICK p \in Poses, q \in Poses :
          /\ p # q /\ stock[p] > 0
          /\ stock' = [stock EXCEPT ![p] = @ - 1, ![q] = @ + 1]
          /\ \/ todo[p] > 0 /\ todo' = [todo EXCEPT ![p] = @ - 1, ![q] = @ + 1]
             \/ todo[p] < stock[p] /\ todo' = todo
          /\ came' = IF trafficPc = "fill" THEN came + OneIn(q, NearPoses) - OneIn(p, NearPoses) ELSE came
    BY DEF Drive, OneIn
  <1>2. /\ moved' = TRUE /\ left' = 0
        /\ UNCHANGED <<number, trafficPc, lead, elapsed, last, seed, pulse, spawned>>
    BY DEF Drive
  <1>3. /\ stock \in [Poses -> Nat] /\ IsFiniteSet(CarsAt(stock, Poses))
        /\ stock' = Driven(stock, p, q)
    BY <1>1 DEF TrafficTypes, CarsInv, Driven
  <1>5. ASSUME NEW S \in SUBSET Poses
        PROVE  /\ CountAt(stock', S) = CountAt(stock, S) + OneIn(q, S) - OneIn(p, S)
               /\ CountAt(stock, S) \in Nat
               /\ stock' \in [Poses -> Nat] /\ IsFiniteSet(CarsAt(stock', Poses))
    <2>1. p # q /\ stock[p] > 0
      BY <1>1
    <2>2. /\ Driven(stock, p, q) \in [Poses -> Nat]
          /\ IsFiniteSet(CarsAt(Driven(stock, p, q), Poses))
          /\ CountAt(Driven(stock, p, q), S) = CountAt(stock, S) + OneIn(q, S) - OneIn(p, S)
      <3>1. stock \in [Poses -> Nat] /\ IsFiniteSet(CarsAt(stock, Poses))
        BY <1>3
      <3>2. p \in Poses /\ q \in Poses /\ S \in SUBSET Poses
        OBVIOUS
      <3> QED
        BY ONLY <2>1, <3>1, <3>2, CarDriven, Zenon
    <2> QED
      BY <1>3, <2>2, CarsPart
  <1>4. stock' \in [Poses -> Nat] /\ IsFiniteSet(CarsAt(stock', Poses))
    BY <1>5
  <1>6. Total(stock') = Total(stock) /\ Total(stock) \in Nat
    <2>1. OneIn(p, Poses) = 1 /\ OneIn(q, Poses) = 1
      BY AllIn
    <2> QED
      BY <1>5, <2>1 DEF Total
  <1>7. /\ NearStock(stock') = NearStock(stock) + OneIn(q, NearPoses) - OneIn(p, NearPoses)
        /\ NearStock(stock) \in Nat
    <2>1. NearPoses \in SUBSET Poses
      BY DEF NearPoses
    <2> QED
      BY <1>5, <2>1 DEF NearStock
  <1>8. OneIn(p, NearPoses) \in {0, 1} /\ OneIn(q, NearPoses) \in {0, 1}
    BY OneInIs
  <1>9. came' \in Int
    BY <1>1, <1>8 DEF TrafficTypes
  <1>14. /\ todo' \in [Poses -> Nat] /\ Total(todo') = Total(todo) /\ Total(todo) \in Nat
         /\ todo = NoCar => todo' = NoCar
    <2>1. /\ todo \in [Poses -> Nat] /\ IsFiniteSet(CarsAt(todo, Poses)) /\ Total(todo) \in Nat
      BY LookedIs DEF TrafficTypes
    <2>2. CASE todo' = todo
      BY <2>1, <2>2
    <2>3. CASE todo[p] > 0 /\ todo' = Driven(todo, p, q)
      <3>1. /\ Driven(todo, p, q) \in [Poses -> Nat]
            /\ CountAt(Driven(todo, p, q), Poses) =
                 CountAt(todo, Poses) + OneIn(q, Poses) - OneIn(p, Poses)
        BY <1>1, <2>1, <2>3, CarDriven
      <3>2. OneIn(p, Poses) = 1 /\ OneIn(q, Poses) = 1
        BY AllIn
      <3>3. todo # NoCar
        BY <2>3, NoCarIs
      <3> QED
        BY <2>1, <2>3, <3>1, <3>2, <3>3 DEF Total
    <2> QED
      BY <1>1, <2>2, <2>3 DEF Driven
  <1>15. \A r \in Poses : todo'[r] <= stock'[r]
    <2>1. /\ todo \in [Poses -> Nat] /\ \A r \in Poses : todo[r] <= stock[r]
      BY DEF TrafficTypes
    <2>2. \A r \in Poses : stock'[r] = IF r = q THEN stock[q] + 1
                                       ELSE IF r = p THEN stock[p] - 1 ELSE stock[r]
      BY <1>1, <1>3 DEF Driven
    <2>3. CASE todo[p] > 0 /\ todo' = [todo EXCEPT ![p] = @ - 1, ![q] = @ + 1]
      <3>1. \A r \in Poses : todo'[r] = IF r = q THEN todo[q] + 1
                                        ELSE IF r = p THEN todo[p] - 1 ELSE todo[r]
        BY <1>1, <2>1, <2>3
      <3> QED
        BY <1>3, <2>1, <2>2, <3>1
    <2>4. CASE todo[p] < stock[p] /\ todo' = todo
      BY <1>3, <2>1, <2>2, <2>4
    <2> QED
      BY <1>1, <2>3, <2>4
  <1>10. TrafficTypes'
    BY <1>2, <1>4, <1>9, <1>14, <1>15 DEF TrafficTypes, pulse
  <1>11. CarsInv'
    <2>1. Total(stock') <= MaxCars
      BY <1>6 DEF CarsInv
    <2> QED
      BY <1>2, <1>4, <2>1, NumberAssumption DEF CarsInv, Total, CountAt, pulse
  <1>12. RoomInv'
    <2>1. CASE trafficPc # "fill"
      BY <1>1, <1>2, <2>1 DEF RoomInv
    <2>2. CASE trafficPc = "fill"
      <3>1. NearStock(stock') - came' = NearStock(stock) - came
        <4> DEFINE one == OneIn(q, NearPoses)
                   two == OneIn(p, NearPoses)
                   a == NearStock(stock)
        <4>1. /\ one \in {0, 1} /\ two \in {0, 1} /\ a \in Nat /\ came \in Int
              /\ NearStock(stock') = a + one - two /\ came' = came + one - two
          BY <1>1, <1>7, <1>8, <2>2 DEF TrafficTypes
        <4> HIDE DEF one, two, a
        <4>2. NearStock(stock') - came' = a - came
          BY <4>1
        <4> QED
          BY <4>2 DEF a
      <3>2. /\ NearStock(stock)' = NearStock(stock')
            /\ Total(stock)' = Total(stock')
            /\ Live' = Live /\ budget' = budget /\ nearAt' = nearAt
            /\ trafficPc' = trafficPc
        BY <1>2
           DEF NearStock, NearPoses, CountAt, Total, Live, pulse
      <3> QED
        BY <1>6, <2>2, <3>1, <3>2 DEF RoomInv
    <2> QED
      BY <2>1, <2>2
  <1>13. TubeInv'
    BY <1>2 DEF TubeInv
  <1>16. LookInv'
    <2>1. Total(todo)' = Total(todo')
      BY DEF Total, CountAt
    <2>2. CASE trafficPc = "look"
      <3>1. evicted + left + Total(todo) <= MaxCars /\ evicted \in Nat /\ left \in Nat
        BY <2>2 DEF LookInv, TrafficTypes
      <3>2. evicted + 0 + Total(todo) <= MaxCars
        BY <1>14, <3>1
      <3> QED
        BY <1>2, <1>14, <2>1, <2>2, <3>2 DEF LookInv, pulse
    <2>3. CASE trafficPc # "look"
      BY <1>2, <1>14, <2>3 DEF LookInv, pulse
    <2> QED
      BY <2>2, <2>3
  <1> QED
    BY <1>10, <1>11, <1>12, <1>13, <1>16

\* A car that drives is one more nowhere.
LEMMA DriveTotal ==
  ASSUME TrafficInv, Drive
  PROVE  Total(stock') = Total(stock) /\ Total(stock) \in Nat
  <1>1. PICK p \in Poses, q \in Poses :
          p # q /\ stock[p] > 0 /\ stock' = Driven(stock, p, q)
    BY DEF Drive, Driven
  <1>2. stock \in [Poses -> Nat] /\ IsFiniteSet(CarsAt(stock, Poses))
    BY DEF TrafficInv, TrafficTypes, CarsInv
  <1>3. CountAt(Driven(stock, p, q), Poses) =
          CountAt(stock, Poses) + OneIn(q, Poses) - OneIn(p, Poses)
    BY <1>1, <1>2, CarDriven
  <1>4. OneIn(p, Poses) = 1 /\ OneIn(q, Poses) = 1 /\ CountAt(stock, Poses) \in Nat
    BY <1>2, AllIn, CarsPart
  <1> QED
    BY <1>1, <1>3, <1>4 DEF Total

\* Every step keeps the invariant.
LEMMA TrafficStep == TrafficInv /\ [TrafficNext]_trafficVars => TrafficInv'
  <1>1. ASSUME TrafficInv, UNCHANGED trafficVars PROVE TrafficInv'
    BY <1>1
       DEF TrafficInv, TrafficTypes, CarsInv, LookInv, RoomInv, TubeInv, TubePoses, Looked,
           trafficVars, pulse, Total, CountAt, NearStock, NearPoses, Live
  <1> QED
    BY <1>1, CaseKeeps, QuietKeeps, CullKeeps, LookKeeps, MaxAddKeeps, CountKeeps, SpawnKeeps,
       DriveKeeps
       DEF TrafficNext, Pulse, CullSteps

\* The first state has it.
LEMMA TrafficStarts == TrafficInit => TrafficInv
  <1> SUFFICES ASSUME TrafficInit PROVE TrafficInv
    OBVIOUS
  <1> USE NumberAssumption
  <1>1. TrafficTypes
    <2>1. /\ number \in Numbers /\ stock = NoCar /\ todo = NoCar /\ lead \in Leads
          /\ elapsed \in 0..MaxElapsed /\ last \in 0..elapsed
      BY DEF TrafficInit
    <2>5. /\ stock \in [Poses -> Nat] /\ todo \in [Poses -> Nat]
          /\ \A p \in Poses : todo[p] <= stock[p]
      BY <2>1, NoCarIs
    <2>2. end \in Int /\ end >= ExamAheadMin
      BY DEF TrafficInit, ExamAheadMin, Metre
    <2>3. /\ trafficPc \in PulseSteps /\ seed \in BOOLEAN /\ read \subseteq Poses
          /\ avoid \subseteq Poses /\ culled \subseteq avoid /\ blocked \subseteq Poses
          /\ moved \in BOOLEAN
      BY DEF TrafficInit, PulseSteps
    <2>4. /\ budget \in 0..8 /\ evicted \in Nat /\ nearAt \in Nat
          /\ came \in Int /\ left \in Nat /\ spawned \in Nat
      <3>1. budget = 0 /\ evicted = 0 /\ nearAt = 0 /\ came = 0 /\ left = 0 /\ spawned = 0
        BY DEF TrafficInit
      <3> QED
        BY <3>1
    <2> QED
      BY <2>1, <2>2, <2>3, <2>4, <2>5 DEF TrafficTypes
  <1>2. CarsInv
    <2>1. IsFiniteSet(CarsAt(stock, Poses)) /\ CountAt(stock, Poses) = 0
      <3>1. \A p \in Poses : stock[p] = 0
        BY NoCarIs DEF TrafficInit
      <3> QED
        BY <3>1, NoCars
    <2>2. evicted = 0 /\ nearAt = 0 /\ left = 0
      BY DEF TrafficInit
    <2> QED
      BY <2>1, <2>2 DEF CarsInv, Total
  <1>3. LookInv /\ RoomInv /\ TubeInv
    BY DEF TrafficInit, LookInv, RoomInv, TubeInv
  <1> QED
    BY <1>1, <1>2, <1>3 DEF TrafficInv

\* The inductive invariant holds in every run, for every set of poses and every bound.
THEOREM TrafficInvariance ==
  TrafficSpec => []TrafficInv
  <1>1. TrafficInit => TrafficInv
    BY TrafficStarts
  <1>2. TrafficInv /\ [TrafficNext]_trafficVars => TrafficInv'
    BY TrafficStep
  <1> QED
    BY <1>1, <1>2, PTL DEF TrafficSpec

-----------------------------------------------------------------------------
(* The pulses and the clock *)

\* What a quotient is.
LEMMA DivIs ==
  ASSUME NEW a \in Nat, NEW n \in Nat \ {0}
  PROVE  a \div n \in Nat /\ n * (a \div n) <= a /\ a < n * (a \div n) + n
  BY SMTT(20)

\* Factors compare as their products do.
LEMMA MulLess ==
  ASSUME NEW x \in Int, NEW y \in Int, NEW n \in Nat \ {0}, n * x < n * y
  PROVE  x < y
  BY SMTT(20)

\* One more of n is n more.
LEMMA MulPlus ==
  ASSUME NEW x \in Int, NEW n \in Nat \ {0}
  PROVE  n * (x + 1) = n * x + n /\ n * x \in Int
  BY SMTT(20)

\* A period later the quotient is greater, and it never goes back.
LEMMA DivGrows ==
  ASSUME NEW a \in Nat, NEW b \in Nat, NEW n \in Nat \ {0}
  PROVE  /\ a - b >= n => a \div n >= (b \div n) + 1
         /\ b <= a => b \div n <= a \div n
  <1> DEFINE x == a \div n
             y == b \div n
  <1>1. x \in Nat /\ a < n * x + n
    BY DivIs
  <1>2. y \in Nat /\ n * y <= b
    BY DivIs
  <1> HIDE DEF x, y
  <1>3. n * (x + 1) = n * x + n /\ n * x \in Int /\ x + 1 \in Int
    BY <1>1, MulPlus
  <1>4. n * y \in Int
    BY <1>2, MulPlus
  <1>5. ASSUME a - b >= n PROVE y < x
    <2>1. n * y < n * x
      BY <1>1, <1>2, <1>3, <1>4, <1>5
    <2> QED
      BY <1>1, <1>2, <2>1, MulLess
  <1>6. ASSUME b <= a PROVE y < x + 1
    <2>1. n * y < n * (x + 1)
      BY <1>1, <1>2, <1>3, <1>4, <1>6
    <2> QED
      BY <1>2, <1>3, <2>1, MulLess
  <1>7. /\ a - b >= n => x >= y + 1
        /\ b <= a => y <= x
    BY <1>1, <1>2, <1>5, <1>6
  <1> QED
    BY <1>7 DEF x, y

\* A maintain pulse that goes on has at most two cars to add.
LEMMA AddIs ==
  ASSUME TrafficInv, MaxAdd, ~seed
  PROVE  trafficPc' = "idle" \/ (trafficPc' = "count" /\ budget' \in 0..2)
  <1> USE NumberAssumption DEF TrafficInv
  <1>1. NearStock(stock) \in Nat
    BY CarsPart DEF NearStock, NearPoses, TrafficTypes, CarsInv
  <1>2. PICK n \in IF seed THEN {Min({8, number})}
                   ELSE {TopupBudget(s, number, NearStock(stock), evicted) :
                           s \in CountAt(stock, {p \in Poses : InSeeCone(p)})..Max({number, Total(stock)})} :
          \/ n = 0 /\ trafficPc' = "idle" /\ Forget
          \/ trafficPc' = "count" /\ budget' = n /\ evicted' = 0 /\ UNCHANGED <<avoid, culled, blocked, nearAt, came>>
    BY DEF MaxAdd
  <1>3. PICK s \in CountAt(stock, {p \in Poses : InSeeCone(p)})..
                Max({number, Total(stock)}) :
          n = TopupBudget(s, number, NearStock(stock), evicted)
    BY <1>2, Zenon
  <1>4. s \in Int /\ number \in Nat /\ evicted \in Nat
    BY DEF TrafficTypes
  <1>5. n \in 0..2
    BY <1>1, <1>3, <1>4, BudgetIs
  <1> QED
    BY <1>2, <1>5

\* A pulse of maintain comes a period after the last, so two more cars fit the count.
LEMMA RateKeeps ==
  ASSUME TrafficInv, RateInv, TrafficNext
  PROVE  RateInv'
  <1> USE NumberAssumption DEF TrafficInv
  <1> DEFINE y == last \div Period
  <1>0. /\ last \in Nat /\ elapsed \in Nat /\ spawned \in Nat /\ budget \in Nat /\ seed \in BOOLEAN
        /\ Period \in Nat \ {0}
    BY DEF TrafficTypes
  <1>1. y \in Nat
    BY <1>0, DivIs
  <1>2. /\ spawned <= 2 * y
        /\ ~seed /\ trafficPc = "budget" => last # 0
        /\ ~seed /\ trafficPc \in {"cull", "look", "budget"} /\ last # 0 => spawned + 2 <= 2 * y
        /\ ~seed /\ trafficPc \in {"count", "fill"} => spawned + budget <= 2 * y
    BY DEF RateInv
  <1>3. ASSUME last' = last,
               /\ spawned' <= 2 * y
               /\ ~seed' /\ trafficPc' = "budget" => last # 0
               /\ ~seed' /\ trafficPc' \in {"cull", "look", "budget"} /\ last # 0 => spawned' + 2 <= 2 * y
               /\ ~seed' /\ trafficPc' \in {"count", "fill"} => spawned' + budget' <= 2 * y
        PROVE  RateInv'
    BY <1>3 DEF RateInv
  <1>4. CASE NewCase
    <2>1. /\ last' = 0 /\ spawned' = 0 /\ trafficPc' \in {"cull", "idle"}
      BY <1>4 DEF NewCase
    <2>2. last' \div Period \in Nat
      BY <1>0, <2>1, DivIs
    <2> DEFINE z == last' \div Period
    <2> HIDE DEF z
    <2>3. z \in Nat
      BY <2>2 DEF z
    <2>4. spawned' <= 2 * z
      BY <2>1, <2>3
    <2> QED
      BY <2>1, <2>4 DEF RateInv, z
  <1>5. CASE Maintain
    <2>1. /\ last' = elapsed /\ spawned' = spawned /\ trafficPc' \in {"cull", "idle"}
          /\ elapsed - last >= Period
      BY <1>5 DEF Maintain, Due
    <2> DEFINE z == last' \div Period
    <2>2. z \in Nat
      BY <1>0, <2>1, DivIs
    <2>3. z >= y + 1
      BY <1>0, <2>1, DivGrows
    <2> HIDE DEF y, z
    <2>4. spawned' <= 2 * z /\ spawned' + 2 <= 2 * z
      BY <1>0, <1>1, <1>2, <2>1, <2>2, <2>3
    <2> QED
      BY <2>1, <2>4 DEF RateInv, z
  <1> HIDE DEF y
  <1>6. CASE CullSteps
    <2>1. /\ last' = last /\ seed' = seed /\ spawned' = spawned
          /\ \/ trafficPc = "cull" /\ trafficPc' = "look"
             \/ trafficPc = "look" /\ trafficPc' = "look"
             \/ /\ trafficPc = "look"
                /\ trafficPc' = IF last = 0 /\ ~seed THEN "idle" ELSE "budget"
      BY <1>6 DEF CullSteps, CullBubble, KeepCar, CullCar, LookAt, CullDone
    <2> QED
      BY <1>2, <1>3, <2>1
  <1>7. CASE MaxAdd
    <2>1. /\ last' = last /\ seed' = seed /\ spawned' = spawned /\ trafficPc = "budget"
          /\ trafficPc' \in {"idle", "count"}
      BY <1>7 DEF MaxAdd
    <2>2. ~seed /\ trafficPc' = "count" => budget' \in 0..2
      BY <1>7, AddIs
    <2>3. ~seed /\ trafficPc' = "count" => spawned' + budget' <= 2 * y
      BY <1>0, <1>1, <1>2, <2>1, <2>2
    <2> QED
      BY <1>2, <1>3, <2>1, <2>3
  <1>8. CASE CountForFill
    <2>1. /\ last' = last /\ seed' = seed /\ spawned' = spawned /\ trafficPc = "count"
          /\ \/ trafficPc' = "idle"
             \/ trafficPc' = "fill" /\ budget' = Min({budget, Room(NearStock(stock))})
      BY <1>8 DEF CountForFill
    <2>2. Room(NearStock(stock)) \in Int /\ budget \in Int
      <3>1. NearStock(stock) \in Nat
        BY CarsPart DEF NearStock, NearPoses, TrafficTypes, CarsInv
      <3>2. 0 \in Int /\ Live - NearStock(stock) \in Int
        BY <3>1, CapIs DEF TrafficTypes, Live
      <3>3. Max({0, Live - NearStock(stock)}) \in {0, Live - NearStock(stock)}
        BY ONLY <3>2, TwoOf, Zenon
      <3> QED
        BY <1>0, <3>2, <3>3 DEF Room
    <2>3. /\ Min({budget, Room(NearStock(stock))}) \in {budget, Room(NearStock(stock))}
          /\ Min({budget, Room(NearStock(stock))}) <= budget
      BY ONLY <2>2, TwoOf, Zenon
    <2>4. trafficPc' = "fill" => budget' \in Int /\ budget' <= budget
      BY <2>1, <2>2, <2>3
    <2>5. ~seed /\ trafficPc' = "fill" => spawned' + budget' <= 2 * y
      BY <1>0, <1>1, <1>2, <2>1, <2>4
    <2> QED
      BY <1>2, <1>3, <2>1, <2>5
  <1>9. CASE SpawnOne
    <2>1. /\ last' = last /\ seed' = seed /\ trafficPc = "fill" /\ trafficPc' = "fill"
          /\ budget' = budget - 1
          /\ budget > 0 /\ spawned' = IF seed THEN spawned ELSE spawned + 1
      BY <1>9 DEF SpawnOne, Appear
    <2>2. spawned' <= 2 * y /\ (~seed => spawned' + budget' <= 2 * y)
      BY <1>0, <1>1, <1>2, <2>1
    <2> QED
      BY <1>2, <1>3, <2>1, <2>2
  <1>10. CASE FillDone \/ Time
    <2>1. last' = last /\ seed' = seed /\ spawned' = spawned /\ trafficPc' = "idle"
      BY <1>10 DEF FillDone, Time
    <2> QED
      BY <1>2, <1>3, <2>1
  <1>11. CASE Drive \/ SpawnUnarmed
    <2>1. /\ last' = last /\ seed' = seed /\ spawned' = spawned /\ trafficPc' = trafficPc
          /\ budget' = budget
      BY <1>11 DEF Drive, SpawnUnarmed, Appear, pulse
    <2> QED
      BY <1>2, <1>3, <2>1
  <1> QED
    BY <1>4, <1>5, <1>6, <1>7, <1>8, <1>9, <1>10, <1>11 DEF TrafficNext, Pulse

\* No pulse has spawned anything.
LEMMA RateStarts == TrafficInit => RateInv
  <1> SUFFICES ASSUME TrafficInit PROVE RateInv
    OBVIOUS
  <1> USE NumberAssumption
  <1>1. last = 0 /\ spawned = 0 /\ trafficPc = "idle"
    BY DEF TrafficInit
  <1>2. last \div Period \in Nat
    BY <1>1, DivIs
  <1> QED
    BY <1>1, <1>2 DEF RateInv

\* The whole invariant, with the count of the maintain pulses.
THEOREM RateInvariance ==
  TrafficSpec => [](TrafficInv /\ RateInv)
  <1>1. TrafficInit => TrafficInv /\ RateInv
    BY TrafficStarts, RateStarts
  <1>2. (TrafficInv /\ RateInv) /\ [TrafficNext]_trafficVars => (TrafficInv /\ RateInv)'
    <2> SUFFICES ASSUME TrafficInv, RateInv, [TrafficNext]_trafficVars PROVE TrafficInv' /\ RateInv'
      OBVIOUS
    <2>1. TrafficInv'
      BY TrafficStep
    <2>2. CASE UNCHANGED trafficVars
      <3>1. /\ last' = last /\ seed' = seed /\ trafficPc' = trafficPc /\ spawned' = spawned
            /\ budget' = budget
        BY <2>2 DEF trafficVars, pulse
      <3> DEFINE y == last \div Period
      <3>2. y' = y
        BY <3>1
      <3> HIDE DEF y
      <3> QED
        BY <2>1, <3>1, <3>2 DEF RateInv, y
    <2> QED
      BY <2>1, <2>2, RateKeeps
  <1> QED
    BY <1>1, <1>2, PTL DEF TrafficSpec

-----------------------------------------------------------------------------
(* What the traffic promises *)

\* The cars that drove in apart, the bubble is within what the fill found.
LEMMA RoomBounds == TrafficInv => BubbleRoom
  <1> SUFFICES ASSUME TrafficInv, trafficPc = "fill" PROVE NearStock(stock) <= Max({Live, nearAt}) + came
    BY DEF BubbleRoom
  <1> USE NumberAssumption DEF TrafficInv
  <1>1. /\ \/ NearStock(stock) - came + budget <= Live
           \/ NearStock(stock) - came + budget <= nearAt
    BY DEF RoomInv
  <1>2. /\ NearStock(stock) \in Nat /\ came \in Int /\ budget \in Nat
        /\ Live \in Int /\ nearAt \in Int
    BY CarsPart, CapIs DEF NearStock, NearPoses, TrafficTypes, CarsInv, Live
  <1>3. /\ Max({Live, nearAt}) \in {Live, nearAt}
        /\ Max({Live, nearAt}) >= Live
        /\ Max({Live, nearAt}) >= nearAt
    <2>1. Live \in Int /\ nearAt \in Int
      BY <1>2
    <2> QED
      BY ONLY <2>1, TwoOf, Zenon
  <1> QED
    BY <1>1, <1>2, <1>3

\* The cars of one pose are as many as the bag says.
LEMMA CarsOfPose ==
  ASSUME NEW b \in [Poses -> Nat], NEW p \in Poses
  PROVE  CountAt(b, {p}) = b[p]
  <1>1. CarsAt(b, {p}) = {p} \X (1..b[p])
    BY DEF CarsAt
  <1>2. IsFiniteSet({p}) /\ Cardinality({p}) = 1
    BY FS_Singleton
  <1>3. b[p] \in Nat
    OBVIOUS
  <1>4. IsFiniteSet(1..b[p]) /\ Cardinality(1..b[p]) = b[p]
    <2>1. 1 \in Int /\ b[p] \in Int
      BY <1>3
    <2>2. IsFiniteSet(1..b[p]) /\ Cardinality(1..b[p]) = IF 1 > b[p] THEN 0 ELSE b[p] - 1 + 1
      BY ONLY <2>1, FS_Interval, Zenon
    <2> QED
      BY <1>3, <2>2
  <1>5. Cardinality({p} \X (1..b[p])) = Cardinality({p}) * Cardinality(1..b[p])
    BY <1>2, <1>4, FS_Product, Zenon
  <1>6. Cardinality({p} \X (1..b[p])) = b[p]
    <2>1. 1 * b[p] = b[p]
      BY <1>3
    <2> QED
      BY <1>2, <1>4, <1>5, <2>1, Zenon
  <1> QED
    BY <1>1, <1>6 DEF CountAt

\* The bounds of TypeOK, from the parts of the invariant.
LEMMA TypesBounds == TrafficInv => TrafficTypeOK
  <1> SUFFICES ASSUME TrafficInv PROVE TrafficTypeOK
    OBVIOUS
  <1> USE NumberAssumption DEF TrafficInv
  <1>1. stock \in [Poses -> Nat] /\ Total(stock) \in Nat /\ Total(stock) <= MaxCars
    BY CarsPart DEF TrafficTypes, CarsInv
  <1>2. stock \in [Poses -> 0..MaxCars]
    <2>1. ASSUME NEW p \in Poses PROVE stock[p] \in 0..MaxCars
      <3>1. CountAt(stock, {p}) = stock[p] /\ stock[p] \in Nat
        BY <1>1, CarsOfPose
      <3>2. CountAt(stock, {p}) <= Total(stock)
        BY <1>1, CarsPart DEF CarsInv
      <3> QED
        BY <1>1, <3>1, <3>2
    <2> QED
      BY <1>1, <2>1
  <1>3. budget \in 0..Max({8, MaxPerMaintain})
    <2>1. 8 \in Int /\ MaxPerMaintain \in Int
      BY DEF MaxPerMaintain
    <2>2. /\ Max({8, MaxPerMaintain}) \in {8, MaxPerMaintain}
          /\ Max({8, MaxPerMaintain}) >= 8
      BY ONLY <2>1, TwoOf, Zenon
    <2>3. budget \in 0..8
      BY DEF TrafficTypes
    <2> QED
      BY <2>1, <2>2, <2>3
  <1>4. evicted \in 0..MaxCars /\ nearAt \in 0..MaxCars
    BY DEF TrafficTypes, CarsInv
  <1>5. came \in -MaxCars..MaxCars
    <2>1. came \in Int /\ nearAt \in Nat
      BY DEF TrafficTypes
    <2>2. CASE trafficPc # "fill"
      BY <2>2 DEF RoomInv
    <2>3. CASE trafficPc = "fill"
      <3>1. /\ nearAt <= NearStock(stock) - came
            /\ NearStock(stock) - came <= Total(stock)
        BY <2>3 DEF RoomInv
      <3>2. NearStock(stock) \in Nat /\ NearStock(stock) <= Total(stock)
        BY <1>1, CarsPart DEF NearStock, NearPoses, CarsInv
      <3>3. -MaxCars <= came /\ came <= MaxCars
        BY <1>1, <2>1, <3>1, <3>2
      <3> QED
        BY <2>1, <3>3
    <2> QED
      BY <2>2, <2>3
  <1>6. /\ number \in Numbers /\ trafficPc \in PulseSteps
        /\ lead \in Leads /\ elapsed \in 0..MaxElapsed /\ last \in 0..elapsed /\ seed \in BOOLEAN
        /\ end >= ExamAheadMin /\ read \subseteq Poses
        /\ avoid \subseteq Poses /\ culled \subseteq avoid /\ blocked \subseteq Poses
        /\ moved \in BOOLEAN /\ spawned \in Nat
    BY DEF TrafficTypes
  <1>7. todo \in [Poses -> 0..MaxCars] /\ \A p \in Poses : todo[p] <= stock[p]
    <2>1. todo \in [Poses -> Nat] /\ \A p \in Poses : todo[p] <= stock[p]
      BY DEF TrafficTypes
    <2>2. \A p \in Poses : todo[p] \in 0..MaxCars
      BY <1>2, <2>1
    <2> QED
      BY <2>1, <2>2
  <1>8. left \in 0..MaxCars
    BY DEF TrafficTypes, CarsInv
  <1> QED
    BY <1>2, <1>3, <1>4, <1>5, <1>6, <1>7, <1>8 DEF TrafficTypeOK, PulseSteps

\* The last pulse was not after the present.
LEMMA RateBounds == TrafficInv /\ RateInv => SpawnRate
  <1> SUFFICES ASSUME TrafficInv, RateInv PROVE SpawnRate
    OBVIOUS
  <1> USE NumberAssumption DEF TrafficInv
  <1>1. last \in Nat /\ elapsed \in Nat /\ last <= elapsed /\ spawned \in Nat
    BY DEF TrafficTypes
  <1>2. last \div Period <= elapsed \div Period
    BY <1>1, DivGrows
  <1>3. last \div Period \in Nat /\ elapsed \div Period \in Nat
    BY <1>1, DivIs
  <1>4. spawned <= 2 * (last \div Period)
    BY DEF RateInv
  <1> DEFINE x == last \div Period
             y == elapsed \div Period
  <1>5. x \in Nat /\ y \in Nat /\ x <= y /\ spawned <= 2 * x
    BY <1>2, <1>3, <1>4
  <1> HIDE DEF x, y
  <1>6. spawned <= 2 * y
    BY <1>1, <1>5
  <1> QED
    BY <1>6 DEF SpawnRate, MaxPerMaintain, y

\* A car that appears stands where a candidate of the fill may.
LEMMA PlaceKept ==
  ASSUME TrafficInv, [TrafficNext]_trafficVars, trafficPc = "fill", Total(stock') > Total(stock),
         NEW p \in Poses, stock'[p] > stock[p]
  PROVE  /\ ~NoPop(p)
         /\ SameDirection(p) => ~InExamTube(p, end - 1)
         /\ \A c \in culled : ~Near2(p, c, 22)
  <1> USE NumberAssumption DEF TrafficInv
  <1>1. stock \in [Poses -> Nat] /\ end \in Int /\ culled \subseteq avoid
    BY DEF TrafficTypes
  <1>2. SpawnOne \/ SpawnUnarmed
    <2>1. stock' # stock
      BY <1>1
    <2>2. ~UNCHANGED trafficVars /\ ~FillDone
      BY <2>1 DEF trafficVars, FillDone
    <2>3. ~Drive
      BY DriveTotal
    <2>4. /\ ~NewCase /\ ~Maintain /\ ~CullSteps /\ ~MaxAdd
          /\ ~CountForFill /\ ~Time
      BY DEF NewCase, Maintain, CullSteps, CullBubble, KeepCar, CullCar, LookAt, CullDone, MaxAdd,
             CountForFill, Time
    <2> QED
      BY <2>2, <2>3, <2>4 DEF TrafficNext, Pulse
  <1>3. PICK q \in Candidates(end, ~seed) : Free(q) /\ stock' = [stock EXCEPT ![q] = @ + 1]
    BY <1>2 DEF SpawnOne, SpawnUnarmed, Appear
  <1>4. p = q
    BY <1>1, <1>3
  <1>5. ~NoPop(p)
    BY <1>3, <1>4 DEF Candidates, SpawnBandOk
  <1>6. SameDirection(p) => ~InExamTube(p, end - 1)
    BY <1>1, <1>3, <1>4, TubeIsNoPlace
  <1>7. \A c \in culled : ~Near2(p, c, 22)
    BY <1>1, <1>3, <1>4 DEF Free
  <1> QED
    BY <1>5, <1>6, <1>7

\* TypeOK of AmbientTraffic, for every set of poses and every bound: no more cars than the
\* simulator holds, and no count of them greater.
THEOREM TrafficTypeCorrect ==
  TrafficSpec => []TrafficTypeOK
  <1>1. TrafficSpec => []TrafficInv
    BY TrafficInvariance
  <1>2. TrafficInv => TrafficTypeOK
    BY TypesBounds
  <1> QED
    BY <1>1, <1>2, PTL

\* live_stock_cap: a fill of _fill_slots never takes the bubble over the cap, or over what it
\* found there if that was more, however cars moved since the budget was made; only cars
\* that drive in while it spawns do.
THEOREM BubbleKeepsItsRoom ==
  TrafficSpec => []BubbleRoom
  <1>1. TrafficSpec => []TrafficInv
    BY TrafficInvariance
  <1>2. TrafficInv => BubbleRoom
    BY RoomBounds
  <1> QED
    BY <1>1, <1>2, PTL

\* What the tube holds is what the cull meant to destroy and did not.
LEMMA TubeBounds == TrafficInv => ExamWindowKept
  <1> SUFFICES ASSUME TrafficInv, trafficPc = "idle", ~moved
               PROVE  CountAt(stock, TubePoses) <= left
    BY DEF ExamWindowKept, TubePoses
  <1>1. Looked = stock
    BY AllLooked DEF TrafficInv, TrafficTypes, LookInv
  <1> QED
    BY <1>1 DEF TrafficInv, TubeInv

\* "Host exam window empty": when a pulse is over and nothing has driven since its cull, no
\* car heads the hero's way in its tube but those that _cull_bubble meant to destroy and did
\* not.
THEOREM ExamWindowStaysClear ==
  TrafficSpec => []ExamWindowKept
  <1>1. TrafficSpec => []TrafficInv
    BY TrafficInvariance
  <1> QED
    BY <1>1, TubeBounds, PTL

\* MAX_PER_MAINTAIN and the period: at every moment of a case the maintain pulses have spawned
\* at most two cars for each period that has passed, at whatever rate maintain is called.
THEOREM SpawnsKeepTheRate ==
  TrafficSpec => []SpawnRate
  <1>1. TrafficSpec => [](TrafficInv /\ RateInv)
    BY RateInvariance
  <1>2. (TrafficInv /\ RateInv) => SpawnRate
    BY RateBounds
  <1> QED
    BY <1>1, <1>2, PTL

\* A car that a fill adds, armed or not, stands 0-20 m ahead never, in the exam tube only
\* turned, and never next to where a car stood that the same pulse destroyed, having read
\* where it was.  Of a car that cannot be read _cull_bubble remembers another place: a new one
\* may stand where it stood.
THEOREM SpawnsKeepTheirPlaces ==
  TrafficSpec => SpawnPlaceOk
  <1>1. TrafficInv /\ [TrafficNext]_trafficVars =>
          [trafficPc = "fill" /\ Total(stock') > Total(stock) => \A p \in Poses : stock'[p] > stock[p] =>
            /\ ~NoPop(p)
            /\ SameDirection(p) => ~InExamTube(p, end - 1)
            /\ \A c \in culled : ~Near2(p, c, 22)]_trafficVars
    BY PlaceKept, Zenon
  <1>2. TrafficSpec => []TrafficInv
    BY TrafficInvariance
  <1> QED
    BY <1>1, <1>2, PTL DEF TrafficSpec, SpawnPlaceOk

=============================================================================
