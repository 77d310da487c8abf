-------------------------- MODULE OctavePeer_proofs --------------------------
(***************************************************************************)
(* For either kind of peer, any number of perceptions, of Octave processes *)
(* and of attempts: a plan answers the view it is sent for, and an Octave  *)
(* that outlives the bridge has a cause.                                   *)
(***************************************************************************)
EXTENDS OctavePeer, SequenceTheorems, FiniteSetTheorems, TLAPS

Peers  == 1..MaxOct
Views  == 0..MaxViews
Places == {"session", "write", "number", "read", "out", "reply", "serve", "raise", "finally", "ended"}
Asking == {"write", "number", "read", "out"}       \* inside tick
Over   == {"raise", "finally", "ended"}            \* no tick any more

\* The places of _cleanup behind the test of the flag, and behind setting it.
Late   == {"bev", "srv", "close", "kill", "sweep"}
Stages == {"off", "enter", "mark", "done"} \cup Late

Fresh == [at |-> "boot", last |-> 0, n |-> 0, vec |-> 0]

-----------------------------------------------------------------------------
(* The shape of the state, and which Octaves are talked about *)

TInv ==
  /\ ipc \in Ipc /\ pc \in Places /\ view \in Views /\ answer \in Views
  /\ warming \in BOOLEAN /\ booting \in BOOLEAN /\ stop \in BOOLEAN /\ cleaned \in BOOLEAN /\ srvStop \in BOOLEAN
  /\ tries \in 0..MaxTries /\ (pc \in Asking => tries < MaxTries)
  /\ using \in 0..MaxOct /\ session \in 0..MaxOct /\ seq \in Nat
  /\ oct \in [Peers -> {"none", "run", "dead"}] /\ closed \subseteq Peers
  /\ ask \in [Peers -> Seq(Views)] /\ said \in [Peers -> Seq(Views)]
  /\ file \in [inBin : Views, inSeq : Nat, outBin : Views, outSeq : Nat]
  /\ loop \in [Peers -> [at : {"boot", "wait", "in", "out", "seq"}, last : Nat, n : Nat, vec : Views]]
  /\ cleaner \in [Threads -> Stages] /\ closing \in [Threads -> 0..MaxOct]
  /\ bev \in [stop : BOOLEAN, queue : Seq(Views), at : {"get", "feed", "ended"}] /\ Len(bev.queue) <= 1

PeerInv ==
  /\ session # 0 => session \in Started
  /\ closed \subseteq Started
  /\ \A t \in Threads : closing[t] # 0 => closing[t] \in Started
  /\ pc \in Asking \cup {"reply"} => using \in Started
  /\ \A o \in Peers \ Started : loop[o] = Fresh
  /\ warming => pc \in Asking \cup Over
  /\ pc \in {"number", "out"} => ipc = "file"

-----------------------------------------------------------------------------
(* Who cleans up, and what is left then *)

Alone == \A o, p \in Started : o = p

StageInv ==
  /\ cleaner["main"] # "off" => pc \in {"finally", "ended"}
  /\ cleaner["watch"] # "off" => ~booting
  /\ \A t \in Threads : cleaner[t] \in Late \cup {"done"} => cleaned
  /\ cleaned => \E t \in Threads : cleaner[t] \in Late \cup {"done"}
  /\ pc = "ended" => cleaner["main"] = "done"
  /\ ~booting => Started # {}

\* Only the clean-up makes the planner start a second Octave.
OneInv ==
  ~cleaned => /\ Alone
              /\ pc = "session" /\ session = 0 => Started = {}
              /\ pc \in {"serve", "reply"} \/ (pc \in Asking /\ ~warming) => session # 0

\* The clean-up that has set the flag sweeps before it is done.
OrphanInv ==
  cleaned /\ Alone => (\E t \in Threads : cleaner[t] \in Late) \/ \A o \in Peers : oct[o] # "run"

-----------------------------------------------------------------------------
(* What is on its way between the planner and Octave *)

\* Of an Octave's pipe: empty, or the question or its answer and nothing else.
Idle(o)     == ask[o] = <<>> /\ said[o] = <<>>
Holds(o, v) == \/ ask[o] = <<v>> /\ said[o] = <<>>
               \/ ask[o] = <<>> /\ said[o] = <<v>>

PipeInv ==
  \A o \in Peers : Idle(o) \/ /\ ipc = "stdio" /\ o = using /\ pc \in {"read"} \cup Over
                              /\ Holds(o, Question)

\* Of the files, and the loop l at their other end: the numbers only grow, and under the
\* number of the question that is waited for there is its answer.
FilesAre(l) ==
  /\ file.outSeq <= l.last /\ l.last <= l.n /\ l.n <= file.inSeq /\ file.inSeq <= seq
  /\ l.at = "boot" => l.n = 0
  /\ l.at \in {"in", "out", "seq"} <=> l.last # l.n
  /\ pc \in {"number", "read", "out"} => file.inBin = Question /\ seq >= 1
  /\ pc = "number" => file.inSeq < seq
  /\ pc \in {"read", "out"} => file.inSeq = seq
  /\ pc \in {"read", "out"} /\ l.n = seq =>
       /\ l.at \in {"out", "seq"} => l.vec = Question
       /\ l.at \in {"seq", "wait"} => file.outBin = Question
  /\ pc = "out" => file.outSeq = seq
FileInv == ipc = "file" /\ Alone => \A o \in Started : FilesAre(loop[o])

AnswerInv == pc = "reply" /\ Alone => answer = view

IInv == TInv /\ PeerInv /\ StageInv /\ OneInv /\ OrphanInv /\ PipeInv /\ FileInv /\ AnswerInv

-----------------------------------------------------------------------------
(* Shapes *)

LEMMA Bounds == MaxViews \in Nat \ {0} /\ MaxOct \in Nat \ {0} /\ MaxTries \in Nat \ {0}
                /\ Ipc \subseteq {"stdio", "file"}
  BY PeerAssumption

LEMMA SeqOps ==
  ASSUME NEW s \in Seq(Views)
  PROVE  /\ s # <<>> => Head(s) \in Views /\ Tail(s) \in Seq(Views)
         /\ \A v \in Views : Append(s, v) \in Seq(Views)
  BY HeadTailProperties, AppendProperties

LEMMA Asked == ASSUME TInv PROVE Question \in Views
  BY Bounds DEF TInv, Question, Views

LEMMA Kills ==
  ASSUME TInv, NEW o \in Started, oct' = Kill(o)
  PROVE  /\ Started' = Started /\ oct' \in [Peers -> {"none", "run", "dead"}]
         /\ \A p \in Peers : oct'[p] = IF p = o THEN "dead" ELSE oct[p]
  BY DEF TInv, Started, Kill, Peers

LEMMA TypesHold == ASSUME TInv, PeerInv, Next PROVE TInv'
  <1> USE DEF tick, octs, ends
  <1>1. CASE UseSession
    <2>1. pc' \in Places /\ using' \in 0..MaxOct /\ booting' \in BOOLEAN
      BY <1>1 DEF UseSession, TInv, Places
    <2>2. tries' \in 0..MaxTries /\ tries' < MaxTries
      BY <1>1, Bounds DEF UseSession
    <2> QED
      BY <1>1, <2>1, <2>2 DEF UseSession, TInv
  <1>2. CASE StartOctave
    <2>1. PICK o \in Peers : oct' = [oct EXCEPT ![o] = "run"] /\ using' = o
      BY <1>2 DEF StartOctave, Peers
    <2>2. oct' \in [Peers -> {"none", "run", "dead"}] /\ using' \in 0..MaxOct
      BY <2>1, Bounds DEF TInv, Peers
    <2>3. file' \in [inBin : Views, inSeq : Nat, outBin : Views, outSeq : Nat]
      BY <1>2 DEF StartOctave, TInv
    <2>4. pc' \in Places /\ tries' \in 0..MaxTries /\ tries' < MaxTries /\ seq' \in Nat
      BY <1>2, Bounds DEF StartOctave, Places
    <2> QED
      BY <1>2, <2>2, <2>3, <2>4 DEF StartOctave, TInv
  <1>3. CASE WriteStdio
    <2>1. Question \in Views /\ using \in Peers
      BY <1>3, Asked DEF WriteStdio, PeerInv, Started, Asking, Peers
    <2>2. ask' \in [Peers -> Seq(Views)]
      <3>1. ask' = ask \/ ask' = [ask EXCEPT ![using] = Append(ask[using], Question)]
        BY <1>3 DEF WriteStdio
      <3>2. ask \in [Peers -> Seq(Views)] /\ Append(ask[using], Question) \in Seq(Views)
        BY <2>1, SeqOps DEF TInv
      <3> QED
        BY <2>1, <3>1, <3>2
    <2>3. tries' \in 0..MaxTries /\ pc' \in Places /\ (pc' \in Asking => tries' < MaxTries)
      BY <1>3, Bounds DEF WriteStdio, OsError, TInv, Places, Asking
    <2> QED
      BY <1>3, <2>2, <2>3 DEF WriteStdio, TInv
  <1>4. CASE WriteIn
    <2>1. file' \in [inBin : Views, inSeq : Nat, outBin : Views, outSeq : Nat]
      <3>1. file \in [inBin : Views, inSeq : Nat, outBin : Views, outSeq : Nat] /\ Question \in Views
        BY Asked DEF TInv
      <3>2. file' = [file EXCEPT !.inBin = Question]
        BY <1>4 DEF WriteIn
      <3> QED
        BY <3>1, <3>2
    <2>2. seq' \in Nat
      BY <1>4 DEF WriteIn, TInv
    <2> QED
      BY <1>4, <2>1, <2>2 DEF WriteIn, TInv, Places, Asking
  <1>5. CASE WriteNumber
    BY <1>5 DEF WriteNumber, TInv, Places, Asking
  <1>6. ASSUME NEW a \in Views, Answered(a), pc \in Asking PROVE session' \in 0..MaxOct /\ pc' \in Places
                          /\ pc' \notin Asking /\ warming' \in BOOLEAN /\ answer' \in Views
    BY <1>6 DEF Answered, TInv, Places, Asking
  <1>7. CASE ReadStdio
    <2>1. using \in Peers /\ said[using] \in Seq(Views) /\ said[using] # <<>> /\ pc \in Asking
      BY <1>7 DEF ReadStdio, PeerInv, Started, Asking, Peers, TInv
    <2>2. Head(said[using]) \in Views /\ said' \in [Peers -> Seq(Views)]
      BY <1>7, <2>1, SeqOps DEF ReadStdio, TInv
    <2>3. Answered(Head(said[using]))
      BY <1>7 DEF ReadStdio
    <2> QED
      BY <1>6, <1>7, <2>1, <2>2, <2>3 DEF ReadStdio, TInv
  <1>8. CASE ReadEof \/ PollFile \/ FileExited
    BY <1>8 DEF ReadEof, PollFile, FileExited, TInv, Places, Asking
  <1>9. CASE WarmTimeout
    <2>1. using \in Started /\ using \in Peers
      BY <1>9 DEF WarmTimeout, PeerInv, Started, Asking, Peers
    <2>2. oct' \in [Peers -> {"none", "run", "dead"}]
      BY <1>9, <2>1, Kills DEF WarmTimeout
    <2> QED
      BY <1>9, <2>1, <2>2 DEF WarmTimeout, TInv, Places, Asking
  <1>10. CASE ReadOut
    <2>1. file.outBin \in Views /\ pc \in Asking /\ Answered(file.outBin)
      BY <1>10 DEF ReadOut, TInv, Asking
    <2> QED
      BY <1>6, <1>10, <2>1 DEF ReadOut, TInv
  <1>11. CASE FileTimeout
    BY <1>11, Bounds DEF FileTimeout, OsError, TInv, Places, Asking
  <1>12. CASE Perception
    BY <1>12, Bounds DEF Perception, TInv, Places, Asking, Views
  <1>13. CASE Reply \/ Worker
    <2>1. /\ UNCHANGED <<ipc, tick, session, octs, ends>> /\ (pc' = pc \/ pc' = "serve")
      BY <1>13 DEF Reply, Worker, BevGet, BevFeed
    <2>2. bev' \in [stop : BOOLEAN, queue : Seq(Views), at : {"get", "feed", "ended"}] /\ Len(bev'.queue) <= 1
      <3>1. /\ bev \in [stop : BOOLEAN, queue : Seq(Views), at : {"get", "feed", "ended"}] /\ Len(bev.queue) <= 1
            /\ <<>> \in Seq(Views) /\ <<view>> \in Seq(Views) /\ Len(<<>>) <= 1 /\ Len(<<view>>) <= 1
        BY DEF TInv
      <3>2. ASSUME NEW s \in Seq(Views), Len(s) <= 1, NEW p \in {"feed", "ended"},
                   bev' = [bev EXCEPT !.queue = s] \/ bev' = [bev EXCEPT !.queue = s, !.at = p]
            PROVE  bev' \in [stop : BOOLEAN, queue : Seq(Views), at : {"get", "feed", "ended"}] /\ Len(bev'.queue) <= 1
        <4>1. bev'.queue = s
          BY <3>1, <3>2
        <4> QED
          BY <3>1, <3>2, <4>1
      <3>3. CASE Reply
        <4>1. bev' = bev \/ bev' = [bev EXCEPT !.queue = <<view>>]
          BY <3>3 DEF Reply
        <4> QED
          BY <3>1, <3>2, <4>1
      <3>4. CASE BevGet
        <4>1. PICK p \in {"feed", "ended"} :
                bev' = [bev EXCEPT !.at = "ended"] \/ bev' = [bev EXCEPT !.queue = <<>>, !.at = p]
          BY <3>4 DEF BevGet
        <4>2. CASE bev' = [bev EXCEPT !.queue = <<>>, !.at = p]
          BY <3>1, <3>2, <4>2
        <4> QED
          BY <3>1, <4>1, <4>2
      <3>5. CASE BevFeed
        BY <3>1, <3>5 DEF BevFeed
      <3> QED
        BY <1>13, <3>3, <3>4, <3>5 DEF Worker
    <2> QED
      BY <2>1, <2>2 DEF TInv, Places, Asking
  <1>14. CASE LeaveServe \/ MainEnds \/ Signal \/ WatchStops
    <2>1. cleaner' \in [Threads -> Stages]
      <3>1. \E t : cleaner' = cleaner \/ cleaner' = [cleaner EXCEPT ![t] = "enter"]
        BY <1>14 DEF LeaveServe, MainEnds, Signal, WatchStops
      <3> QED
        BY <3>1 DEF TInv, Stages
    <2>3. pc' \in Places /\ (pc' = pc \/ pc' \notin Asking) /\ stop' \in BOOLEAN
      BY <1>14 DEF LeaveServe, MainEnds, Signal, WatchStops, TInv, Places, Asking
    <2>2. UNCHANGED <<ipc, tick, session, octs, closing, cleaned, srvStop, bev>>
      BY <1>14 DEF LeaveServe, MainEnds, Signal, WatchStops
    <2> QED
      BY <2>1, <2>2, <2>3 DEF TInv
  <1>15. ASSUME NEW t \in Threads, Cleanup(t) PROVE TInv'
    <2>1. cleaner' \in [Threads -> Stages]
      BY <1>15 DEF Cleanup, EnterCleanup, MarkCleaned, StopBev, StopServer, ForgetSession,
         CloseOctave, Sweep, TInv, Stages, Late
    <2>2. CASE EnterCleanup(t) \/ MarkCleaned(t) \/ StopServer(t)
      BY <2>1, <2>2 DEF EnterCleanup, MarkCleaned, StopServer, TInv
    <2>3. CASE StopBev(t)
      <3>1. bev' \in [stop : BOOLEAN, queue : Seq(Views), at : {"get", "feed", "ended"}] /\ Len(bev'.queue) <= 1
        <4>1. 0 \in Views /\ <<0>> \in Seq(Views)
          BY Bounds DEF Views
        <4>2. bev' = [bev EXCEPT !.stop = TRUE, !.queue = IF bev.queue = <<>> THEN <<0>> ELSE bev.queue]
          BY <2>3 DEF StopBev
        <4> DEFINE s == IF bev.queue = <<>> THEN <<0>> ELSE bev.queue
        <4>3. s \in Seq(Views) /\ Len(s) <= 1
          <5>1. Len(<<0>>) = 1
            OBVIOUS
          <5> QED
            BY <4>1, <5>1 DEF TInv
        <4>4. bev \in [stop : BOOLEAN, queue : Seq(Views), at : {"get", "feed", "ended"}]
              /\ bev' = [bev EXCEPT !.stop = TRUE, !.queue = s]
          BY <4>2 DEF TInv
        <4> HIDE DEF s
        <4>5. bev'.queue = s
          BY <4>4
        <4> QED
          BY <4>3, <4>4, <4>5
      <3> QED
        BY <2>1, <2>3, <3>1 DEF StopBev, TInv
    <2>4. CASE ForgetSession(t)
      <3>1. closing' \in [Threads -> 0..MaxOct] /\ session' \in 0..MaxOct
        BY <2>4, Bounds DEF ForgetSession, TInv
      <3> QED
        BY <2>1, <2>4, <3>1 DEF ForgetSession, TInv
    <2>5. CASE CloseOctave(t)
      <3>1. oct' \in [Peers -> {"none", "run", "dead"}] /\ closed' \subseteq Peers
        <4>1. CASE closing[t] = 0
          BY <2>5, <4>1 DEF CloseOctave, TInv
        <4>2. CASE closing[t] # 0
          <5>1. closing[t] \in Started /\ closing[t] \in Peers
            BY <4>2 DEF PeerInv, Started, Peers
          <5>2. oct' = Kill(closing[t]) /\ closed' = closed \cup {closing[t]}
            BY <2>5, <4>2 DEF CloseOctave
          <5> QED
            BY <5>1, <5>2, Kills DEF TInv
        <4> QED
          BY <4>1, <4>2
      <3> QED
        BY <2>1, <2>5, <3>1 DEF CloseOctave, TInv
    <2>6. CASE Sweep(t)
      BY <2>1, <2>6 DEF Sweep, TInv, Peers
    <2> QED
      BY <1>15, <2>2, <2>3, <2>4, <2>5, <2>6 DEF Cleanup
  <1>16. CASE \E o \in Peers : StdioLoop(o)
    <2>1. PICK o \in Peers : StdioLoop(o)
      BY <1>16
    <2>2. o \in Started /\ ask[o] \in Seq(Views) /\ said[o] \in Seq(Views)
      BY <2>1 DEF StdioLoop, Alive, Started, Peers, TInv
    <2>3. /\ ask' \in [Peers -> Seq(Views)] /\ said' \in [Peers -> Seq(Views)]
          /\ oct' \in [Peers -> {"none", "run", "dead"}]
      <3>1. CASE ask[o] # <<>> /\ said' = [said EXCEPT ![o] = Append(@, Head(ask[o]))]
                 /\ ask' = [ask EXCEPT ![o] = Tail(@)] /\ UNCHANGED oct
        BY <2>2, <3>1, SeqOps DEF TInv
      <3>2. CASE oct' = Kill(o) /\ UNCHANGED <<ask, said>>
        BY <2>2, <3>2, Kills DEF TInv
      <3> QED
        BY <2>1, <3>1, <3>2 DEF StdioLoop
    <2> QED
      BY <2>1, <2>3 DEF StdioLoop, TInv
  <1>17. CASE \E o \in Peers : FileLoop(o)
    <2>1. PICK o \in Peers : FileLoop(o)
      BY <1>17
    <2>2. /\ file' \in [inBin : Views, inSeq : Nat, outBin : Views, outSeq : Nat]
          /\ loop' \in [Peers -> [at : {"boot", "wait", "in", "out", "seq"}, last : Nat, n : Nat, vec : Views]]
      <3>1. /\ file \in [inBin : Views, inSeq : Nat, outBin : Views, outSeq : Nat]
            /\ loop \in [Peers -> [at : {"boot", "wait", "in", "out", "seq"}, last : Nat, n : Nat, vec : Views]]
        BY DEF TInv
      <3>2. loop[o] \in [at : {"boot", "wait", "in", "out", "seq"}, last : Nat, n : Nat, vec : Views]
        BY <3>1
      <3>3. CASE loop[o].at = "boot"
        BY <2>1, <3>1, <3>2, <3>3 DEF FileLoop
      <3>4. CASE loop[o].at = "wait"
        BY <2>1, <3>1, <3>2, <3>4 DEF FileLoop
      <3>5. CASE loop[o].at = "in"
        BY <2>1, <3>1, <3>2, <3>5 DEF FileLoop
      <3>6. CASE loop[o].at = "out"
        BY <2>1, <3>1, <3>2, <3>6 DEF FileLoop
      <3>7. CASE loop[o].at = "seq"
        BY <2>1, <3>1, <3>2, <3>7 DEF FileLoop
      <3> QED
        BY <3>2, <3>3, <3>4, <3>5, <3>6, <3>7
    <2> QED
      BY <2>1, <2>2 DEF FileLoop, TInv
  <1>18. CASE OctaveDies
    <2>1. PICK o \in Peers : Alive(o) /\ oct' = Kill(o)
      BY <1>18 DEF OctaveDies, Peers
    <2>2. o \in Started
      BY <2>1 DEF Alive, Started, Peers
    <2>3. oct' \in [Peers -> {"none", "run", "dead"}]
      BY <2>1, <2>2, Kills
    <2> QED
      BY <1>18, <2>3 DEF OctaveDies, TInv
  <1> QED
    BY <1>1, <1>2, <1>3, <1>4, <1>5, <1>7, <1>8, <1>9, <1>10, <1>11, <1>12, <1>13, <1>14,
       <1>15, <1>16, <1>17, <1>18 DEF Next, Main, Watcher, Octave, Peers, Threads

-----------------------------------------------------------------------------
(* The Octaves there are *)

LEMMA StartsOne ==
  ASSUME TInv, StartOctave
  PROVE  \E o \in Peers : /\ o \notin Started /\ oct' = [oct EXCEPT ![o] = "run"] /\ using' = o
                          /\ Started' = Started \cup {o} /\ \A p \in 1..(o - 1) : p \in Started
  <1>1. PICK o \in Peers : oct[o] = "none" /\ (\A p \in 1..o - 1 : oct[p] # "none")
                           /\ oct' = [oct EXCEPT ![o] = "run"] /\ using' = o
    BY DEF StartOctave, Peers
  <1>2. o \notin Started /\ \A p \in 1..(o - 1) : p \in Started
    BY <1>1, Bounds DEF Started, Peers
  <1>3. Started' = Started \cup {o}
    BY <1>1 DEF TInv, Started, Peers
  <1> QED
    BY <1>1, <1>2, <1>3

\* An Octave is started by the planner, and by nobody else.
LEMMA StartedStay ==
  ASSUME TInv, PeerInv, Next, ~StartOctave
  PROVE  /\ Started' = Started /\ \A o \in Peers : oct'[o] = oct[o] \/ (oct'[o] = "dead" /\ oct[o] # "none")
         /\ Alone' <=> Alone
  <1> DEFINE Kept == Started' = Started /\ \A o \in Peers : oct'[o] = oct[o] \/ (oct'[o] = "dead" /\ oct[o] # "none")
  <1>1. ASSUME oct' = oct PROVE Kept
    BY <1>1 DEF Started
  <1>2. ASSUME NEW o \in Started, oct' = Kill(o) PROVE Kept
    BY <1>2, Kills DEF Started, Peers
  <1> HIDE DEF Kept
  <1> SUFFICES Kept
    BY DEF Alone, Kept
  <1>3. CASE WarmTimeout
    <2>1. using \in Started /\ oct' = Kill(using)
      BY <1>3 DEF WarmTimeout, PeerInv, Asking
    <2> QED
      BY <1>2, <2>1
  <1>4. ASSUME NEW t \in Threads, Cleanup(t) PROVE Kept
    <2>1. CASE EnterCleanup(t) \/ MarkCleaned(t) \/ StopBev(t) \/ StopServer(t) \/ ForgetSession(t)
      BY <1>1, <2>1 DEF EnterCleanup, MarkCleaned, StopBev, StopServer, ForgetSession, octs
    <2>2. CASE CloseOctave(t)
      BY <1>1, <1>2, <2>2 DEF CloseOctave, PeerInv
    <2>3. CASE Sweep(t)
      BY <2>3 DEF Sweep, TInv, Started, Peers, Kept
    <2> QED
      BY <1>4, <2>1, <2>2, <2>3 DEF Cleanup
  <1>5. CASE Octave \/ OctaveDies
    <2>1. PICK o \in 1..MaxOct : Alive(o) /\ (oct' = oct \/ oct' = Kill(o))
      BY <1>5 DEF Octave, OctaveDies, StdioLoop, FileLoop
    <2>2. o \in Started
      BY <2>1 DEF Alive, Started
    <2> QED
      BY <1>1, <1>2, <2>1, <2>2
  <1>7. CASE Worker \/ Perception \/ Signal \/ WatchStops
    BY <1>1, <1>7 DEF Worker, BevGet, BevFeed, Perception, Signal, WatchStops, octs
  <1>8. CASE \/ UseSession \/ WriteStdio \/ WriteIn \/ WriteNumber \/ ReadStdio \/ ReadEof \/ PollFile \/ ReadOut
             \/ FileTimeout \/ FileExited \/ Reply \/ LeaveServe \/ MainEnds
    BY <1>1, <1>8 DEF UseSession, WriteStdio, WriteIn, WriteNumber, ReadStdio, ReadEof,
       PollFile, ReadOut, FileTimeout, FileExited, Reply, LeaveServe, MainEnds, octs
  <1> QED
    BY <1>3, <1>4, <1>5, <1>7, <1>8 DEF Next, Main, Watcher, Threads

LEMMA PeerHolds == ASSUME TInv, PeerInv, Next PROVE PeerInv'
  <1> USE DEF tick, octs, ends
  <1>1. CASE StartOctave
    <2>1. PICK o \in Peers : using' = o /\ Started' = Started \cup {o}
      BY <1>1, StartsOne
    <2>2. /\ pc' = "write" /\ UNCHANGED <<ipc, session, closed, closing, loop>>
      BY <1>1 DEF StartOctave
    <2> QED
      BY <2>1, <2>2 DEF PeerInv, Asking
  <1>2. ASSUME ~StartOctave PROVE Started' = Started
    BY <1>2, StartedStay
  <1>3. ASSUME Started' = Started, session' = session \/ (session' = using /\ using \in Started),
               UNCHANGED <<ipc, closed, closing, loop, using, warming>>,
               pc' \in Asking \cup {"reply"} => using \in Started, warming => pc' \in Asking \cup Over,
               pc' \in {"number", "out"} => ipc = "file"
        PROVE  PeerInv'
    BY <1>3 DEF PeerInv
  <1>4. CASE UseSession
    <2>1. pc = "session" /\ using' = session /\ session # 0 /\ pc' \in {"serve", "write"}
          /\ UNCHANGED <<ipc, session, closed, closing, loop, warming>>
      BY <1>4 DEF UseSession
    <2>2. Started' = Started
      BY <1>2, <1>4, <2>1 DEF StartOctave
    <2>3. ~warming
      BY <2>1 DEF PeerInv, Asking, Over
    <2> QED
      BY <2>1, <2>2, <2>3 DEF PeerInv, Asking, Over
  <1>5. CASE WriteStdio
    BY <1>3, <1>5, StartedStay DEF WriteStdio, OsError, StartOctave, PeerInv, Asking, Over
  <1>6. CASE WriteIn \/ WriteNumber
    BY <1>3, <1>6, StartedStay DEF WriteIn, WriteNumber, StartOctave, PeerInv, Asking, Over
  <1>7. CASE ReadStdio \/ ReadOut
    <2>1. pc \in Asking /\ UNCHANGED <<ipc, closed, closing, loop, using>> /\ \E a : Answered(a)
      BY <1>7 DEF ReadStdio, ReadOut, Asking
    <2>2. /\ ~warming' /\ pc' \in {"session", "reply"} /\ (session' = session \/ session' = using)
      BY <2>1 DEF Answered, TInv
    <2>3. Started' = Started /\ using \in Started
      BY <1>2, <1>7, <2>1 DEF ReadStdio, ReadOut, StartOctave, PeerInv
    <2> QED
      BY <2>1, <2>2, <2>3 DEF PeerInv, Asking
  <1>8. CASE ReadEof \/ PollFile \/ FileExited
    BY <1>3, <1>8, StartedStay DEF ReadEof, PollFile, FileExited, StartOctave, PeerInv, Asking,
       Over
  <1>9. CASE WarmTimeout
    <2>1. using \in Started /\ closed' = closed \cup {using} /\ pc' = "raise"
          /\ UNCHANGED <<ipc, session, closing, loop, using, warming>>
      BY <1>9 DEF WarmTimeout, PeerInv, Asking
    <2>2. Started' = Started
      BY <1>2, <1>9 DEF WarmTimeout, StartOctave
    <2> QED
      BY <2>1, <2>2 DEF PeerInv, Asking, Over
  <1>10. CASE FileTimeout
    BY <1>3, <1>10, StartedStay DEF FileTimeout, OsError, StartOctave, PeerInv, Asking, Over
  <1>11. CASE Perception \/ Reply \/ LeaveServe \/ MainEnds
    <2>1. UNCHANGED <<ipc, session, closed, closing, loop, using, warming>> /\ pc' \notin Asking \cup {"reply"}
          /\ (pc' \notin Over => pc \notin Asking \cup Over) /\ ~StartOctave
      BY <1>11 DEF Perception, Reply, LeaveServe, MainEnds, StartOctave, Asking, Over
    <2>2. Started' = Started
      BY <1>2, <2>1
    <2>3. warming => pc' \in Over
      BY <2>1 DEF PeerInv, Over
    <2> QED
      BY <1>3, <2>1, <2>2, <2>3 DEF Asking
  <1>12. CASE Worker \/ Signal \/ WatchStops
    <2>1. UNCHANGED <<ipc, pc, session, closed, closing, loop, using, warming>>
      BY <1>12 DEF Worker, BevGet, BevFeed, Signal, WatchStops
    <2>2. Started' = Started
      BY <1>12 DEF Worker, BevGet, BevFeed, Signal, WatchStops, Started
    <2> QED
      BY <1>3, <2>1, <2>2 DEF PeerInv
  <1>13. ASSUME NEW t \in Threads, Cleanup(t) PROVE PeerInv'
    <2>1. Started' = Started
      BY <1>13, <1>2 DEF Cleanup, EnterCleanup, MarkCleaned, StopBev, StopServer,
         ForgetSession, CloseOctave, Sweep, StartOctave
    <2>2. UNCHANGED <<ipc, pc, loop, using, warming>>
      BY <1>13 DEF Cleanup, EnterCleanup, MarkCleaned, StopBev, StopServer, ForgetSession,
         CloseOctave, Sweep
    <2>3. CASE ForgetSession(t)
      BY <2>1, <2>2, <2>3 DEF ForgetSession, PeerInv, TInv
    <2>4. CASE CloseOctave(t)
      BY <2>1, <2>2, <2>4 DEF CloseOctave, PeerInv
    <2>5. CASE EnterCleanup(t) \/ MarkCleaned(t) \/ StopBev(t) \/ StopServer(t) \/ Sweep(t)
      BY <2>1, <2>2, <2>5 DEF EnterCleanup, MarkCleaned, StopBev, StopServer, Sweep, PeerInv
    <2> QED
      BY <1>13, <2>3, <2>4, <2>5 DEF Cleanup
  <1>14. CASE OctaveDies \/ \E o \in Peers : StdioLoop(o)
    <2>1. UNCHANGED <<ipc, pc, session, closed, closing, loop, using, warming>>
      BY <1>14 DEF OctaveDies, StdioLoop
    <2>2. CASE StartOctave
      BY <1>1, <2>2
    <2>3. CASE ~StartOctave
      BY <1>2, <1>3, <2>1, <2>3 DEF PeerInv
    <2> QED
      BY <2>2, <2>3
  <1>15. CASE \E o \in Peers : FileLoop(o)
    <2>1. PICK o \in Peers : FileLoop(o)
      BY <1>15
    <2>2. UNCHANGED <<ipc, pc, session, oct, closed, closing, using, warming>> /\ o \in Started
      BY <2>1 DEF FileLoop, Alive, Started, Peers
    <2>3. \A p \in Peers : p # o => loop'[p] = loop[p]
      BY <2>1 DEF FileLoop, TInv
    <2>4. Started' = Started
      BY <2>2 DEF Started
    <2> QED
      BY <2>2, <2>3, <2>4 DEF PeerInv
  <1> QED
    BY <1>1, <1>4, <1>5, <1>6, <1>7, <1>8, <1>9, <1>10, <1>11, <1>12, <1>13, <1>14, <1>15
       DEF Next, Main, Watcher, Octave, Peers, Threads

-----------------------------------------------------------------------------
(* The clean-up *)

\* The actions outside the clean-up touch neither its flag nor its threads.
Outside ==
  /\ UNCHANGED <<cleaned, closing>> /\ booting' \in {booting, FALSE}
  /\ \/ cleaner' = cleaner /\ (pc = "finally" => pc' = "finally" \/ cleaner["main"] = "done")
        /\ (pc' \in {"finally", "ended"} <=> pc \in {"finally", "ended"})
     \/ cleaner' = [cleaner EXCEPT !["main"] = "enter"] /\ pc' = "finally" /\ cleaner["main"] = "off" /\ booting' = booting
     \/ cleaner' = [cleaner EXCEPT !["watch"] = "enter"] /\ pc' = pc /\ ~booting /\ cleaner["watch"] = "off"
  /\ pc' = "ended" => pc = "ended" \/ cleaner["main"] = "done"
  /\ booting' # booting => Started # {}

LEMMA StepsOutside ==
  ASSUME TInv, PeerInv, StageInv, Next, ~\E t \in Threads : Cleanup(t)
  PROVE  Outside
  <1> USE DEF tick, octs, ends
  <1>1. /\ "main" \in Threads /\ "watch" \in Threads /\ cleaner \in [Threads -> Stages] /\ booting \in BOOLEAN
        /\ pc \notin {"finally", "ended"} => cleaner["main"] = "off"
    BY DEF TInv, StageInv, Threads
  <1>2. CASE UseSession
    BY <1>2 DEF UseSession, Outside, PeerInv
  <1>3. CASE LeaveServe
    BY <1>1, <1>3 DEF LeaveServe, Outside
  <1>4. CASE WatchStops
    BY <1>1, <1>4 DEF WatchStops, Outside
  <1>5. CASE MainEnds
    BY <1>1, <1>5 DEF MainEnds, Outside
  <1>6. CASE StartOctave \/ WriteStdio \/ WriteIn \/ WriteNumber \/ ReadEof \/ PollFile \/ FileTimeout \/ FileExited
             \/ WarmTimeout \/ Perception \/ Reply
    BY <1>6 DEF StartOctave, WriteStdio, WriteIn, WriteNumber, ReadEof, PollFile, FileTimeout,
       FileExited, WarmTimeout, Perception, Reply, OsError, Outside
  <1>7. CASE ReadStdio \/ ReadOut
    <2>1. (\E a : Answered(a)) /\ pc \in Asking /\ UNCHANGED <<cleaned, closing, booting, cleaner>>
      BY <1>7 DEF ReadStdio, ReadOut, Asking
    <2>2. pc' \in {"session", "reply"}
      BY <2>1 DEF Answered
    <2> QED
      BY <2>1, <2>2 DEF Outside, Asking
  <1>8. CASE Worker \/ Signal \/ OctaveDies
    BY <1>8 DEF Worker, BevGet, BevFeed, Signal, OctaveDies, Outside
  <1>9. CASE Octave
    BY <1>9 DEF Octave, StdioLoop, FileLoop, Outside
  <1> QED
    BY <1>2, <1>3, <1>4, <1>5, <1>6, <1>7, <1>8, <1>9 DEF Next, Main, Watcher, Threads

\* A step of the clean-up, by the stage it is in.
LEMMA CleanupStages ==
  ASSUME TInv, NEW t \in Threads, Cleanup(t)
  PROVE  /\ pc' = pc /\ booting' = booting /\ (t = "watch" => pc # "ended")
         /\ \/ cleaner[t] = "enter" /\ cleaner' = [cleaner EXCEPT ![t] = "done"] /\ cleaned /\ cleaned'
               /\ session' = session
            \/ cleaner[t] = "enter" /\ cleaner' = [cleaner EXCEPT ![t] = "mark"] /\ cleaned' = cleaned /\ session' = session
            \/ cleaner[t] = "mark" /\ cleaner' = [cleaner EXCEPT ![t] = "bev"] /\ cleaned' /\ session' = session
            \/ cleaner[t] \in Late /\ (\E s \in Late : cleaner' = [cleaner EXCEPT ![t] = s]) /\ cleaned' = cleaned
            \/ cleaner[t] = "sweep" /\ cleaner' = [cleaner EXCEPT ![t] = "done"] /\ cleaned' = cleaned
               /\ session' = session /\ \A o \in Peers : oct'[o] # "run"
  <1> USE DEF tick, octs, ends
  <1>1. pc' = pc /\ booting' = booting /\ (t = "watch" => pc # "ended")
    BY DEF Cleanup, EnterCleanup, MarkCleaned, StopBev, StopServer, ForgetSession, CloseOctave,
       Sweep, Running
  <1>2. CASE EnterCleanup(t)
    BY <1>1, <1>2 DEF EnterCleanup, TInv
  <1>3. CASE MarkCleaned(t)
    BY <1>1, <1>3 DEF MarkCleaned
  <1>4. CASE StopBev(t) \/ StopServer(t) \/ ForgetSession(t) \/ CloseOctave(t)
    BY <1>1, <1>4 DEF StopBev, StopServer, ForgetSession, CloseOctave, Late
  <1>5. CASE Sweep(t)
    BY <1>1, <1>5 DEF Sweep, Peers, TInv
  <1> QED
    BY <1>2, <1>3, <1>4, <1>5 DEF Cleanup

LEMMA StageHolds == ASSUME TInv, PeerInv, StageInv, Next PROVE StageInv'
  <1>1. /\ "main" \in Threads /\ "watch" \in Threads /\ cleaner \in [Threads -> Stages] /\ booting \in BOOLEAN
        /\ \A t \in Threads : t = "main" \/ t = "watch"
    BY DEF TInv, Threads
  <1>2. Started # {} => Started' # {}
    <2>1. CASE StartOctave
      BY <2>1, StartsOne
    <2>2. CASE ~StartOctave
      BY <2>2, StartedStay
    <2> QED
      BY <2>1, <2>2
  <1>3. CASE \E t \in Threads : Cleanup(t)
    <2>1. PICK t \in Threads : Cleanup(t)
      BY <1>3
    <2>2. /\ pc' = pc /\ booting' = booting
          /\ \/ cleaner[t] = "enter" /\ cleaner' = [cleaner EXCEPT ![t] = "done"] /\ cleaned /\ cleaned'
             \/ cleaner[t] = "enter" /\ cleaner' = [cleaner EXCEPT ![t] = "mark"] /\ cleaned' = cleaned
             \/ cleaner[t] = "mark" /\ cleaner' = [cleaner EXCEPT ![t] = "bev"] /\ cleaned'
             \/ cleaner[t] \in Late /\ (\E s \in Late : cleaner' = [cleaner EXCEPT ![t] = s]) /\ cleaned' = cleaned
             \/ cleaner[t] = "sweep" /\ cleaner' = [cleaner EXCEPT ![t] = "done"] /\ cleaned' = cleaned
      BY <2>1, CleanupStages
    <2> QED
      BY <1>1, <1>2, <2>2 DEF StageInv, Late
  <1>4. CASE ~\E t \in Threads : Cleanup(t)
    <2>1. Outside
      BY <1>4, StepsOutside
    <2>2. /\ cleaned' = cleaned /\ (~booting' => Started' # {}) /\ (~booting => ~booting')
          /\ pc' = "ended" => cleaner["main"] = "done"
      <3>1. cleaned' = cleaned /\ (booting' = booting \/ booting' = FALSE) /\ (pc' = "ended" => cleaner["main"] = "done")
        BY <2>1 DEF Outside, StageInv
      <3>2. ~booting' => Started' # {}
        BY <1>1, <1>2, <2>1, <3>1 DEF Outside, StageInv
      <3> QED
        BY <1>1, <3>1, <3>2
    <2>3. CASE cleaner' = cleaner /\ (pc' \in {"finally", "ended"} <=> pc \in {"finally", "ended"})
      BY <2>2, <2>3 DEF StageInv
    <2>4. CASE cleaner' = [cleaner EXCEPT !["main"] = "enter"] /\ pc' = "finally" /\ cleaner["main"] = "off"
      <3>1. cleaner'["main"] = "enter" /\ cleaner'["watch"] = cleaner["watch"]
        BY <1>1, <2>4
      <3> QED
        BY <1>1, <2>2, <2>4, <3>1 DEF StageInv, Late
    <2>5. CASE cleaner' = [cleaner EXCEPT !["watch"] = "enter"] /\ pc' = pc /\ ~booting /\ cleaner["watch"] = "off"
      <3>1. cleaner'["watch"] = "enter" /\ cleaner'["main"] = cleaner["main"]
        BY <1>1, <2>5
      <3> QED
        BY <1>1, <2>2, <2>5, <3>1 DEF StageInv, Late
    <2> QED
      BY <2>1, <2>3, <2>4, <2>5 DEF Outside
  <1> QED
    BY <1>3, <1>4

LEMMA OneHolds == ASSUME TInv, PeerInv, StageInv, OneInv, Next PROVE OneInv'
  <1> USE DEF tick, octs, ends
  <1> SUFFICES ASSUME ~cleaned'
               PROVE  /\ Alone' /\ (pc' = "session" /\ session' = 0 => Started' = {})
                      /\ pc' \in {"serve", "reply"} \/ (pc' \in Asking /\ ~warming') => session' # 0
    BY DEF OneInv
  <1>1. CASE StartOctave
    <2>1. cleaned' = cleaned /\ pc = "session" /\ session = 0 /\ pc' = "write" /\ warming'
      BY <1>1 DEF StartOctave
    <2>2. Started = {}
      BY <2>1 DEF OneInv
    <2>3. PICK o \in Peers : Started' = Started \cup {o}
      BY <1>1, StartsOne
    <2> QED
      BY <2>1, <2>2, <2>3 DEF Alone
  <1>2. CASE \E t \in Threads : Cleanup(t)
    <2>1. PICK t \in Threads : Cleanup(t)
      BY <1>2
    <2>2. ~cleaned
      BY <2>1, CleanupStages DEF TInv
    <2>3. cleaner[t] \notin Late
      BY <2>2 DEF StageInv
    <2>4. pc' = pc /\ session' = session
      BY <2>1, <2>3, CleanupStages DEF Late
    <2>5. warming' = warming /\ ~StartOctave
      BY <2>1 DEF Cleanup, EnterCleanup, MarkCleaned, StopBev, StopServer, ForgetSession,
         CloseOctave, Sweep, StartOctave
    <2> QED
      BY <2>2, <2>4, <2>5, StartedStay DEF OneInv
  <1>3. CASE ~StartOctave /\ ~\E t \in Threads : Cleanup(t)
    <2>1. ~cleaned /\ Alone' /\ Started' = Started
      BY <1>3, StepsOutside, StartedStay DEF Outside, OneInv
    <2>2. /\ pc = "session" /\ session = 0 => Started = {}
          /\ pc \in {"serve", "reply"} \/ (pc \in Asking /\ ~warming) => session # 0
      BY <2>1 DEF OneInv
    <2>3. CASE UseSession
      BY <2>1, <2>3 DEF UseSession, Asking
    <2>4. CASE ReadStdio \/ ReadOut
      <3>1. (\E a : Answered(a)) /\ pc \in Asking /\ UNCHANGED using
        BY <2>4 DEF ReadStdio, ReadOut, Asking
      <3>2. using # 0
        BY <3>1, Bounds DEF PeerInv, Started
      <3>3. pc' \in {"session", "reply"} /\ session' # 0
        BY <2>2, <3>1, <3>2 DEF Answered
      <3> QED
        BY <2>1, <3>3
    <2>5. CASE Perception
      BY <2>1, <2>2, <2>5 DEF Perception, Asking
    <2>6. CASE WriteStdio \/ WriteIn \/ WriteNumber \/ ReadEof \/ PollFile \/ FileTimeout \/ FileExited \/ WarmTimeout
      <3>1. pc \in Asking /\ session' = session /\ warming' = warming /\ pc' \in Asking \cup {"serve", "raise"}
            /\ (pc' = "serve" => ~warming)
        BY <2>6 DEF WriteStdio, WriteIn, WriteNumber, ReadEof, PollFile, FileTimeout,
           FileExited, WarmTimeout, OsError, Asking
      <3> QED
        BY <2>1, <2>2, <3>1 DEF Asking
    <2>7. CASE Reply \/ LeaveServe \/ MainEnds \/ Worker \/ Signal \/ WatchStops \/ OctaveDies
      BY <2>1, <2>2, <2>7 DEF Reply, LeaveServe, MainEnds, Worker, BevGet, BevFeed, Signal,
         WatchStops, OctaveDies, Asking
    <2>8. CASE Octave
      BY <2>1, <2>2, <2>8 DEF Octave, StdioLoop, FileLoop
    <2> QED
      BY <1>3, <2>3, <2>4, <2>5, <2>6, <2>7, <2>8 DEF Next, Main, Watcher, Threads
  <1> QED
    BY <1>1, <1>2, <1>3

LEMMA OrphanHolds == ASSUME TInv, PeerInv, StageInv, OrphanInv, Next PROVE OrphanInv'
  <1> SUFFICES ASSUME cleaned', Alone'
               PROVE  (\E t \in Threads : cleaner'[t] \in Late) \/ \A o \in Peers : oct'[o] # "run"
    BY DEF OrphanInv
  <1>1. cleaner \in [Threads -> Stages] /\ \A t \in Threads : t = "main" \/ t = "watch"
    BY DEF TInv, Threads
  <1>2. CASE StartOctave
    <2>1. cleaned /\ pc = "session"
      BY <1>2 DEF StartOctave, ends
    <2>2. PICK t \in Threads : cleaner[t] \in Late \cup {"done"}
      BY <2>1 DEF StageInv
    <2>3. cleaner["watch"] # "off"
      BY <1>1, <2>1, <2>2 DEF StageInv, Late
    <2>4. Started # {}
      BY <2>3 DEF StageInv
    <2>5. PICK o \in Peers : o \notin Started /\ Started' = Started \cup {o}
      BY <1>2, StartsOne
    <2> QED
      BY <2>4, <2>5 DEF Alone
  <1>3. CASE \E t \in Threads : Cleanup(t)
    <2>1. PICK t \in Threads : Cleanup(t)
      BY <1>3
    <2>2. ~StartOctave
      BY <2>1 DEF Cleanup, EnterCleanup, MarkCleaned, StopBev, StopServer, ForgetSession,
         CloseOctave, Sweep, StartOctave, ends, octs, tick
    <2>3. Alone /\ \A o \in Peers : oct'[o] = oct[o] \/ oct'[o] = "dead"
      BY <2>2, StartedStay
    <2>4. cleaned => (\E u \in Threads : cleaner[u] \in Late) \/ \A o \in Peers : oct'[o] # "run"
      BY <2>3 DEF OrphanInv
    <2>5. \/ cleaner[t] = "enter" /\ (\E s \in {"done", "mark"} : cleaner' = [cleaner EXCEPT ![t] = s]) /\ cleaned
          \/ \E s \in Late : cleaner' = [cleaner EXCEPT ![t] = s]
          \/ \A o \in Peers : oct'[o] # "run"
      BY <2>1, CleanupStages DEF Late
    <2> QED
      BY <1>1, <2>4, <2>5 DEF Late
  <1>4. CASE ~StartOctave /\ ~\E t \in Threads : Cleanup(t)
    <2>1. cleaned /\ Alone /\ \A o \in Peers : oct'[o] = oct[o] \/ oct'[o] = "dead"
      BY <1>4, StartedStay, StepsOutside DEF Outside
    <2>2. (\E t \in Threads : cleaner[t] \in Late) => (\E t \in Threads : cleaner'[t] \in Late)
      <3>1. Outside
        BY <1>4, StepsOutside
      <3> QED
        BY <1>1, <3>1 DEF Outside, Late
    <2> QED
      BY <2>1, <2>2 DEF OrphanInv
  <1> QED
    BY <1>2, <1>3, <1>4

-----------------------------------------------------------------------------
(* The question and its answer *)

LEMMA PipeHolds == ASSUME TInv, PeerInv, PipeInv, Next PROVE PipeInv'
  <1> USE DEF tick, octs, ends
  <1>1. ASSUME UNCHANGED <<ipc, ask, said, using, view, warming>>, pc \in {"read"} \cup Over => pc' \in {"read"} \cup Over
        PROVE  PipeInv'
    BY <1>1 DEF PipeInv, Idle, Holds, Question
  <1>2. CASE UseSession \/ StartOctave
    <2>1. pc = "session" /\ UNCHANGED <<ipc, ask, said>>
      BY <1>2 DEF UseSession, StartOctave
    <2> QED
      BY <2>1 DEF PipeInv, Idle, Over
  <1>3. CASE WriteStdio
    <2>1. pc = "write" /\ ipc = "stdio" /\ UNCHANGED <<ipc, said, using, view, warming>>
          /\ (ask' = ask \/ (ask' = [ask EXCEPT ![using] = Append(ask[using], Question)] /\ pc' = "read"))
      BY <1>3 DEF WriteStdio
    <2>2. \A o \in Peers : Idle(o)
      BY <2>1 DEF PipeInv, Over
    <2>3. using \in Peers /\ Question' = Question /\ Append(<<>>, Question) = <<Question>>
      BY <2>1 DEF PeerInv, Asking, Started, Peers, Question
    <2>4. \A o \in Peers : o # using => Idle(o)'
      BY <2>1, <2>2, <2>3 DEF Idle, TInv
    <2>5. Idle(using)' \/ (pc' = "read" /\ Holds(using, Question)')
      BY <2>1, <2>2, <2>3 DEF Idle, Holds, TInv
    <2> QED
      BY <2>1, <2>3, <2>4, <2>5 DEF PipeInv
  <1>4. CASE ReadStdio
    <2>1. /\ pc = "read" /\ said[using] # <<>> /\ UNCHANGED <<ipc, ask>> /\ said' = [said EXCEPT ![using] = Tail(said[using])]
      BY <1>4 DEF ReadStdio
    <2>2. using \in Peers
      BY <2>1 DEF PeerInv, Asking, Started, Peers
    <2>3. Holds(using, Question)
      BY <2>1, <2>2 DEF PipeInv, Idle
    <2>4. ask[using] = <<>> /\ Tail(said[using]) = <<>>
      <3>1. ask[using] = <<>> /\ said[using] = <<Question>>
        BY <2>1, <2>3 DEF Holds
      <3> QED
        BY <3>1
    <2>5. \A o \in Peers : Idle(o)'
      BY <2>1, <2>2, <2>4 DEF PipeInv, Idle, TInv
    <2> QED
      BY <2>5 DEF PipeInv
  <1>5. CASE ReadOut \/ Reply \/ Perception
    <2>1. pc \notin {"read"} \cup Over /\ UNCHANGED <<ipc, ask, said>>
      BY <1>5 DEF ReadOut, Reply, Perception, Over
    <2> QED
      BY <2>1 DEF PipeInv, Idle
  <1>6. CASE WriteIn \/ WriteNumber \/ ReadEof \/ FileExited \/ WarmTimeout \/ LeaveServe \/ MainEnds
    BY <1>1, <1>6 DEF WriteIn, WriteNumber, ReadEof, FileExited, WarmTimeout, LeaveServe,
       MainEnds, Over
  <1>7. CASE PollFile \/ FileTimeout
    <2>1. ipc = "file" /\ UNCHANGED <<ipc, ask, said>>
      BY <1>7 DEF PollFile, FileTimeout
    <2> QED
      BY <2>1 DEF PipeInv, Idle
  <1>8. CASE Worker \/ Signal \/ WatchStops \/ OctaveDies
    BY <1>1, <1>8 DEF Worker, BevGet, BevFeed, Signal, WatchStops, OctaveDies
  <1>9. ASSUME NEW t \in Threads, Cleanup(t) PROVE PipeInv'
    BY <1>1, <1>9 DEF Cleanup, EnterCleanup, MarkCleaned, StopBev, StopServer, ForgetSession,
       CloseOctave, Sweep
  <1>10. CASE \E o \in Peers : FileLoop(o)
    BY <1>1, <1>10 DEF FileLoop
  <1>11. CASE \E o \in Peers : StdioLoop(o)
    <2>1. PICK o \in Peers : StdioLoop(o)
      BY <1>11
    <2>2. UNCHANGED <<ipc, pc, using, view, warming>>
      BY <2>1 DEF StdioLoop
    <2>3. CASE UNCHANGED <<ask, said>>
      BY <1>1, <2>2, <2>3
    <2>4. CASE ask[o] # <<>> /\ said' = [said EXCEPT ![o] = Append(said[o], Head(ask[o]))]
               /\ ask' = [ask EXCEPT ![o] = Tail(ask[o])]
      <3>1. ipc = "stdio" /\ o = using /\ pc \in {"read"} \cup Over /\ Holds(o, Question)
        BY <2>4 DEF PipeInv, Idle
      <3>2. ask[o] = <<Question>> /\ said[o] = <<>>
        BY <2>4, <3>1 DEF Holds
      <3>3. ask'[o] = <<>> /\ said'[o] = <<Question>>
        <4>1. Tail(<<Question>>) = <<>> /\ Append(<<>>, Head(<<Question>>)) = <<Question>>
          OBVIOUS
        <4> QED
          BY <2>4, <3>2, <4>1 DEF TInv
      <3>4. \A p \in Peers : p # o => ask'[p] = ask[p] /\ said'[p] = said[p]
        BY <2>4 DEF TInv
      <3>5. Question' = Question
        BY <2>2 DEF Question
      <3>6. ASSUME NEW p \in Peers
            PROVE  Idle(p)' \/ (ipc' = "stdio" /\ p = using' /\ pc' \in {"read"} \cup Over /\ Holds(p, Question)')
        <4>1. CASE p = o
          BY <2>2, <3>1, <3>3, <3>5, <4>1 DEF Holds
        <4>2. CASE p # o
          BY <2>2, <3>1, <3>4, <4>2 DEF PipeInv, Idle
        <4> QED
          BY <4>1, <4>2
      <3> QED
        BY <3>6 DEF PipeInv
    <2> QED
      BY <2>1, <2>3, <2>4 DEF StdioLoop
  <1> QED
    BY <1>2, <1>3, <1>4, <1>5, <1>6, <1>7, <1>8, <1>9, <1>10, <1>11
       DEF Next, Main, Watcher, Octave, Peers, Threads

LEMMA AnswerHolds == ASSUME TInv, PeerInv, PipeInv, FileInv, AnswerInv, Next PROVE AnswerInv'
  <1> USE DEF tick, octs, ends
  <1> SUFFICES ASSUME pc' = "reply", Alone' PROVE answer' = view'
    BY DEF AnswerInv
  <1>1. ~StartOctave /\ Alone
    <2>1. ~StartOctave
      BY DEF StartOctave
    <2> QED
      BY <2>1, StartedStay
  <1>2. CASE ReadStdio
    <2>1. pc = "read" /\ ipc = "stdio" /\ said[using] # <<>> /\ Answered(Head(said[using])) /\ view' = view
      BY <1>2 DEF ReadStdio
    <2>2. using \in Peers
      BY <2>1 DEF PeerInv, Asking, Started, Peers
    <2>3. said[using] = <<Question>>
      BY <2>1, <2>2 DEF PipeInv, Idle, Holds
    <2>4. Head(<<Question>>) = Question
      OBVIOUS
    <2>5. ~warming /\ answer' = Head(said[using])
      BY <2>1 DEF Answered
    <2> QED
      BY <2>1, <2>3, <2>4, <2>5 DEF Question
  <1>3. CASE ReadOut
    <2>1. pc = "out" /\ Answered(file.outBin) /\ view' = view /\ ipc = "file"
      BY <1>3 DEF ReadOut, PeerInv
    <2>2. using \in Started /\ FilesAre(loop[using])
      BY <1>1, <2>1 DEF PeerInv, Asking, FileInv
    <2>3. loop[using] \in [at : {"boot", "wait", "in", "out", "seq"}, last : Nat, n : Nat, vec : Views] /\ seq \in Nat
          /\ file.outSeq \in Nat /\ file.inSeq \in Nat
      BY <2>2 DEF TInv, Started, Peers
    <2>4. loop[using].n = seq /\ loop[using].at \in {"seq", "wait"}
      BY <2>1, <2>2, <2>3 DEF FilesAre
    <2>5. file.outBin = Question
      BY <2>1, <2>2, <2>4 DEF FilesAre
    <2>6. ~warming /\ answer' = file.outBin
      BY <2>1 DEF Answered
    <2> QED
      BY <2>1, <2>5, <2>6 DEF Question
  <1>4. CASE pc = "reply" /\ UNCHANGED <<answer, view>>
    BY <1>1, <1>4 DEF AnswerInv
  <1>5. ASSUME NEW t \in Threads, Cleanup(t) PROVE pc = "reply" /\ UNCHANGED <<answer, view>>
    BY <1>5 DEF Cleanup, EnterCleanup, MarkCleaned, StopBev, StopServer, ForgetSession,
       CloseOctave, Sweep
  <1>6. CASE Worker \/ Signal \/ WatchStops \/ OctaveDies \/ Octave
    BY <1>4, <1>6 DEF Worker, BevGet, BevFeed, Signal, WatchStops, OctaveDies, Octave,
       StdioLoop, FileLoop
  <1>7. CASE \/ UseSession \/ WriteStdio \/ WriteIn \/ WriteNumber \/ ReadEof \/ PollFile \/ FileTimeout \/ FileExited
             \/ WarmTimeout \/ Reply \/ Perception \/ LeaveServe \/ MainEnds
    BY <1>7 DEF UseSession, WriteStdio, WriteIn, WriteNumber, ReadEof, PollFile, FileTimeout,
       FileExited, OsError, WarmTimeout, Reply, Perception, LeaveServe, MainEnds
  <1> QED
    BY <1>1, <1>2, <1>3, <1>4, <1>5, <1>6, <1>7 DEF Next, Main, Watcher, Threads

LEMMA FileHolds == ASSUME TInv, PeerInv, FileInv, Next PROVE FileInv'
  <1> USE DEF tick, octs, ends
  <1> DEFINE Shape == [at : {"boot", "wait", "in", "out", "seq"}, last : Nat, n : Nat, vec : Views]
  <1> SUFFICES ASSUME ipc' = "file", Alone', NEW o \in Started' PROVE FilesAre(loop[o])'
    BY DEF FileInv
  <1>1. /\ file \in [inBin : Views, inSeq : Nat, outBin : Views, outSeq : Nat] /\ seq \in Nat
        /\ loop \in [Peers -> Shape] /\ pc \in Places
    BY DEF TInv
  <1>2. ipc = "file"
    BY DEF Next, Main, Watcher, Worker, Octave, Cleanup, UseSession, StartOctave, WriteStdio,
       WriteIn, WriteNumber, ReadStdio, ReadEof, PollFile, ReadOut, FileTimeout, FileExited,
       Reply, LeaveServe, MainEnds, EnterCleanup, MarkCleaned, StopBev, StopServer,
       ForgetSession, CloseOctave, Sweep, WatchStops, BevGet, BevFeed, StdioLoop, FileLoop,
       WarmTimeout, Perception, Signal, OctaveDies
  <1>3. CASE StartOctave
    <2>1. PICK p \in Peers : p \notin Started /\ Started' = Started \cup {p}
      BY <1>3, StartsOne
    <2>2. o = p
      BY <2>1 DEF Alone
    <2>3. loop'[o] = Fresh /\ pc' = "write" /\ file'.inSeq = 0 /\ file'.outSeq = 0 /\ seq' = 0
      BY <1>1, <1>2, <1>3, <2>1, <2>2 DEF StartOctave, PeerInv
    <2> QED
      BY <2>3 DEF FilesAre, Fresh
  <1>4. CASE ~StartOctave
    <2> DEFINE l == loop[o]
    <2>1. o \in Started /\ o \in Peers /\ FilesAre(l) /\ l \in Shape
      <3>1. Started' = Started /\ Alone
        BY <1>4, StartedStay
      <3> QED
        BY <1>1, <1>2, <3>1 DEF FileInv, Started, Peers
    <2>2. ASSUME UNCHANGED <<file, seq, loop, view, warming>>, pc' \in {"number", "read", "out"} => pc' = pc
          PROVE  FilesAre(loop[o])'
      BY <2>1, <2>2 DEF FilesAre, Question
    <2>3. CASE UseSession \/ ReadEof \/ FileExited \/ WarmTimeout \/ Reply \/ LeaveServe \/ MainEnds
      BY <2>2, <2>3 DEF UseSession, ReadEof, FileExited, WarmTimeout, Reply, LeaveServe, MainEnds
    <2>4. CASE WriteStdio \/ ReadStdio \/ \E p \in Peers : StdioLoop(p)
      BY <1>2, <2>4 DEF WriteStdio, ReadStdio, StdioLoop
    <2>5. CASE FileTimeout
      BY <2>2, <2>5 DEF FileTimeout, OsError
    <2>6. CASE ReadOut \/ Perception
      <3>1. UNCHANGED <<file, seq, loop>> /\ pc' \notin {"number", "read", "out"}
        BY <2>6 DEF ReadOut, Perception, Answered
      <3> QED
        BY <2>1, <3>1 DEF FilesAre
    <2>7. CASE WriteIn
      <3>1. /\ seq' = seq + 1 /\ file' = [file EXCEPT !.inBin = Question] /\ pc' = "number" /\ loop' = loop
            /\ Question' = Question
        BY <2>7 DEF WriteIn, Question
      <3>2. file'.inBin = Question /\ file'.inSeq = file.inSeq /\ file'.outSeq = file.outSeq
        BY <1>1, <3>1
      <3> QED
        BY <1>1, <2>1, <3>1, <3>2 DEF FilesAre
    <2>8. CASE WriteNumber
      <3>1. /\ pc = "number" /\ file' = [file EXCEPT !.inSeq = seq] /\ pc' = "read" /\ seq' = seq /\ loop' = loop
            /\ Question' = Question
        BY <2>8 DEF WriteNumber, Question
      <3>2. file'.inBin = file.inBin /\ file'.inSeq = seq /\ file'.outSeq = file.outSeq
        BY <1>1, <3>1
      <3> QED
        BY <1>1, <2>1, <3>1, <3>2 DEF FilesAre
    <2>9. CASE PollFile
      <3>1. pc = "read" /\ pc' = "out" /\ file.outSeq = seq /\ UNCHANGED <<file, seq, loop>> /\ Question' = Question
        BY <2>9 DEF PollFile, SeesNumber, Question
      <3> QED
        BY <2>1, <3>1 DEF FilesAre
    <2>10. CASE Worker \/ Signal \/ WatchStops \/ OctaveDies
      BY <2>2, <2>10 DEF Worker, BevGet, BevFeed, Signal, WatchStops, OctaveDies
    <2>11. ASSUME NEW t \in Threads, Cleanup(t) PROVE FilesAre(loop[o])'
      BY <2>2, <2>11 DEF Cleanup, EnterCleanup, MarkCleaned, StopBev, StopServer,
         ForgetSession, CloseOctave, Sweep
    <2>12. CASE \E p \in Peers : FileLoop(p)
      <3>1. PICK p \in Peers : FileLoop(p)
        BY <2>12
      <3>2. p = o
        <4>1. p \in Started /\ Alone
          BY <1>4, <3>1, StartedStay DEF FileLoop, Alive, Started, Peers
        <4> QED
          BY <2>1, <4>1 DEF Alone
      <3>3. UNCHANGED <<pc, seq>> /\ Question' = Question
        BY <3>1 DEF FileLoop, Question
      <3> DEFINE m == loop'[o]
      <3>4. CASE l.at = "boot"
        <4>1. /\ m.at = "wait" /\ m.last = l.last /\ m.n = l.n /\ m.vec = l.vec
              /\ file'.inBin = file.inBin /\ file'.inSeq = file.inSeq /\ file'.outSeq = 0
          BY <1>1, <2>1, <3>1, <3>2, <3>4 DEF FileLoop
        <4> QED
          BY <1>1, <2>1, <3>3, <3>4, <4>1 DEF FilesAre
      <3>5. CASE l.at = "wait"
        <4>1. /\ m.at = "in" /\ m.last = l.last /\ m.n = file.inSeq /\ file.inSeq > l.last /\ file' = file
          BY <1>1, <2>1, <3>1, <3>2, <3>5 DEF FileLoop
        <4> QED
          BY <1>1, <2>1, <3>3, <3>5, <4>1 DEF FilesAre
      <3>6. CASE l.at = "in"
        <4>1. /\ m.at = "out" /\ m.last = l.last /\ m.n = l.n /\ m.vec = file.inBin /\ file' = file
          BY <1>1, <2>1, <3>1, <3>2, <3>6 DEF FileLoop
        <4> QED
          BY <1>1, <2>1, <3>3, <3>6, <4>1 DEF FilesAre
      <3>7. CASE l.at = "out"
        <4>1. /\ m.at = "seq" /\ m.last = l.last /\ m.n = l.n /\ m.vec = l.vec
              /\ file'.inBin = file.inBin /\ file'.inSeq = file.inSeq /\ file'.outSeq = file.outSeq
              /\ file'.outBin = l.vec
          BY <1>1, <2>1, <3>1, <3>2, <3>7 DEF FileLoop
        <4> QED
          BY <1>1, <2>1, <3>3, <3>7, <4>1 DEF FilesAre
      <3>8. CASE l.at = "seq"
        <4>1. /\ m.at = "wait" /\ m.last = l.n /\ m.n = l.n /\ m.vec = l.vec
              /\ file'.inBin = file.inBin /\ file'.inSeq = file.inSeq /\ file'.outSeq = l.n
              /\ file'.outBin = file.outBin
          BY <1>1, <2>1, <3>1, <3>2, <3>8 DEF FileLoop
        <4> QED
          BY <1>1, <2>1, <3>3, <3>8, <4>1 DEF FilesAre
      <3> QED
        BY <2>1, <3>4, <3>5, <3>6, <3>7, <3>8
    <2> QED
      BY <1>4, <2>3, <2>4, <2>5, <2>6, <2>7, <2>8, <2>9, <2>10, <2>11, <2>12
         DEF Next, Main, Watcher, Octave, Peers, Threads
  <1> QED
    BY <1>3, <1>4

-----------------------------------------------------------------------------
(* The theorems *)

LEMMA Starts == Init => IInv
  <1> SUFFICES ASSUME Init PROVE IInv
    OBVIOUS
  <1>1. /\ \A o \in Peers : oct[o] = "none" /\ ask[o] = <<>> /\ said[o] = <<>> /\ loop[o] = Fresh
        /\ Started = {} /\ "main" \in Threads /\ "watch" \in Threads
    BY DEF Init, Started, Peers, Fresh, Threads
  <1>2. TInv
    <2>1. /\ ipc \in Ipc /\ pc \in Places /\ view \in Views /\ answer \in Views /\ tries \in 0..MaxTries
          /\ using \in 0..MaxOct /\ session \in 0..MaxOct /\ seq \in Nat /\ pc \notin Asking
      BY Bounds DEF Init, Places, Views, Asking
    <2>2. /\ oct \in [Peers -> {"none", "run", "dead"}] /\ closed \subseteq Peers
          /\ ask \in [Peers -> Seq(Views)] /\ said \in [Peers -> Seq(Views)]
      BY DEF Init, Peers
    <2>3. /\ file \in [inBin : Views, inSeq : Nat, outBin : Views, outSeq : Nat]
          /\ loop \in [Peers -> [at : {"boot", "wait", "in", "out", "seq"}, last : Nat, n : Nat, vec : Views]]
      BY Bounds DEF Init, Views, Peers
    <2>4. cleaner \in [Threads -> Stages] /\ closing \in [Threads -> 0..MaxOct]
      BY Bounds DEF Init, Stages
    <2>5. bev \in [stop : BOOLEAN, queue : Seq(Views), at : {"get", "feed", "ended"}] /\ Len(bev.queue) <= 1
      BY DEF Init
    <2> QED
      BY <2>1, <2>2, <2>3, <2>4, <2>5 DEF Init, TInv
  <1>3. PeerInv /\ StageInv /\ OneInv /\ OrphanInv
    BY <1>1 DEF Init, PeerInv, StageInv, OneInv, OrphanInv, Alone, Late, Asking
  <1>4. PipeInv /\ FileInv /\ AnswerInv
    BY <1>1 DEF Init, PipeInv, Idle, FileInv, AnswerInv
  <1> QED
    BY <1>2, <1>3, <1>4 DEF IInv

LEMMA Steps == IInv /\ [Next]_vars => IInv'
  <1> SUFFICES ASSUME IInv, [Next]_vars PROVE IInv'
    OBVIOUS
  <1>1. CASE Next
    BY <1>1, TypesHold, PeerHolds, StageHolds, OneHolds, OrphanHolds, PipeHolds, FileHolds,
       AnswerHolds DEF IInv
  <1>2. CASE UNCHANGED vars
    <2> USE <1>2 DEF vars, tick, octs, ends
    <2>1. TInv'
      BY DEF IInv, TInv
    <2>2. Started' = Started
      BY DEF Started
    <2>3. PeerInv' /\ StageInv' /\ OneInv' /\ OrphanInv'
      BY <2>2 DEF IInv, PeerInv, StageInv, OneInv, OrphanInv, Alone
    <2>4. PipeInv'
      BY DEF IInv, PipeInv, Idle, Holds, Question
    <2>5. FileInv' /\ AnswerInv'
      BY <2>2 DEF IInv, FileInv, FilesAre, AnswerInv, Alone, Question
    <2> QED
      BY <2>1, <2>3, <2>4, <2>5 DEF IInv
  <1> QED
    BY <1>1, <1>2

\* The invariant holds in every state.
THEOREM Invariant == Spec => []IInv
  BY Starts, Steps, PTL DEF Spec

LEMMA StartedCount == Alone <=> Cardinality(Started) <= 1
  <1>1. IsFiniteSet(Started)
    <2>1. IsFiniteSet(1..MaxOct) /\ Started \subseteq 1..MaxOct
      BY Bounds, FS_Interval DEF Started
    <2> QED
      BY <2>1, FS_Subset
  <1>2. Cardinality(Started) \in Nat
    BY <1>1, FS_CardinalityType
  <1>3. ASSUME Alone PROVE Cardinality(Started) <= 1
    <2>1. CASE Started = {}
      BY <2>1, FS_EmptySet
    <2>2. CASE Started # {}
      <3>1. PICK o \in Started : TRUE
        BY <2>2
      <3>2. Started = {o}
        BY <1>3, <3>1 DEF Alone
      <3> QED
        BY <3>2, FS_Singleton
    <2> QED
      BY <2>1, <2>2
  <1>4. ASSUME Cardinality(Started) <= 1 PROVE Alone
    <2>1. CASE Cardinality(Started) = 0
      BY <1>1, <2>1, FS_EmptySet DEF Alone
    <2>2. CASE Cardinality(Started) = 1
      <3>1. \E o : Started = {o}
        BY <1>1, <2>2, FS_Singleton
      <3> QED
        BY <3>1 DEF Alone
    <2> QED
      BY <1>2, <1>4, <2>1, <2>2
  <1> QED
    BY <1>3, <1>4

\* Every variable keeps its shape: in a pipe there is at most one message, and what is
\* closed has been started (octave_bridge/runtime.py).
THEOREM TypeCorrect == Spec => []TypeOK
  <1>1. ASSUME IInv PROVE TypeOK
    <2>1. \A o \in Peers : Len(ask[o]) + Len(said[o]) <= 1
      <3>1. ASSUME NEW o \in Peers PROVE Idle(o) \/ Holds(o, Question)
        BY <1>1 DEF IInv, PipeInv
      <3>2. ASSUME NEW o \in Peers, Holds(o, Question) PROVE Len(ask[o]) + Len(said[o]) <= 1
        <4>1. Len(<<>>) = 0 /\ Len(<<Question>>) = 1
          OBVIOUS
        <4>2. CASE ask[o] = <<Question>> /\ said[o] = <<>>
          BY ONLY <4>1, <4>2
        <4>3. CASE ask[o] = <<>> /\ said[o] = <<Question>>
          BY ONLY <4>1, <4>3
        <4> QED
          BY <3>2, <4>2, <4>3 DEF Holds
      <3>3. ASSUME NEW o \in Peers, Idle(o) PROVE Len(ask[o]) + Len(said[o]) <= 1
        BY <3>3 DEF Idle
      <3> QED
        BY <3>1, <3>2, <3>3
    <2> QED
      BY <1>1, <2>1 DEF IInv, TInv, PeerInv, TypeOK, Peers, Views, Places
  <1> QED
    BY <1>1, Invariant, PTL

\* A plan goes out for the view it was computed from, whatever timed out, was retried or
\* answered late, while there is one Octave (plan_tick, _FilePeer, m_plan_fileloop).
THEOREM PlansMatch == Spec => []AnswerMatchesQuestion
  <1>1. ASSUME IInv PROVE AnswerMatchesQuestion
    <2>1. Cardinality(Started) = 1 => Alone
      BY StartedCount
    <2> QED
      BY <1>1, <2>1 DEF IInv, AnswerInv, AnswerMatchesQuestion
  <1> QED
    BY <1>1, Invariant, PTL

\* Before the clean-up the bridge never runs a second Octave (_session).
THEOREM OneOctave == Spec => []OneOctaveUnlessCleaning
  <1>1. ASSUME IInv PROVE OneOctaveUnlessCleaning
    BY <1>1, StartedCount DEF IInv, OneInv, OneOctaveUnlessCleaning
  <1> QED
    BY <1>1, Invariant, PTL

\* An Octave that outlives the bridge was started after the clean-up took the session, or
\* the process ended under the watcher's clean-up (_cleanup, close_octave, kill_matching).
THEOREM OrphansHaveCause == Spec => []OrphanHasCause
  <1>1. ASSUME IInv PROVE OrphanHasCause
    <2>1. SUFFICES ASSUME pc = "ended", NEW o \in Peers, Alive(o), ~(Cardinality(Started) > 1)
                   PROVE  cleaner["watch"] \in {"mark", "bev", "srv", "close", "kill", "sweep"}
      BY DEF OrphanHasCause, Peers
    <2>2. "main" \in Threads /\ cleaner["main"] = "done" /\ cleaned
      BY <1>1, <2>1 DEF IInv, StageInv, Threads
    <2>3. Alone
      <3>1. IsFiniteSet(1..MaxOct) /\ Started \subseteq 1..MaxOct
        BY Bounds, FS_Interval DEF Started
      <3>2. Cardinality(Started) \in Nat
        BY <3>1, FS_Subset, FS_CardinalityType
      <3> QED
        BY <2>1, <3>2, StartedCount
    <2>4. PICK t \in Threads : cleaner[t] \in Late
      BY <1>1, <2>1, <2>2, <2>3 DEF IInv, OrphanInv, Alive
    <2> QED
      BY <2>2, <2>4 DEF Threads, Late
  <1> QED
    BY <1>1, Invariant, PTL
=============================================================================
