------------------------- MODULE DoipSession_proofs -------------------------
(***************************************************************************)
(* For every project setting, size of the package, wrap of the block       *)
(* counter, number of updates and of faults: what the panel shows of an    *)
(* update, and what the board activates, is true.                          *)
(***************************************************************************)
EXTENDS DoipSession, SequenceTheorems, FiniteSetTheorems, TLAPS

Question == [q : Questions, blk : 0..Blocks, run : 0..MaxRuns, live : BOOLEAN]

-----------------------------------------------------------------------------
(* The questions of an update, by number *)

Opens    == IF cfg.sec THEN 4 ELSE 2      \* the first after session and security
LastStep == IF cfg.mode = "routine" THEN Opens ELSE Opens + Blocks + 1

StepAt(i) ==
  IF i = 1 THEN "session"
  ELSE IF i < Opens THEN (IF i = 2 THEN "seed" ELSE "key")
  ELSE IF cfg.mode = "routine" THEN "routine"
  ELSE IF i = Opens THEN "start" ELSE IF i = LastStep THEN "exit" ELSE "block"

BlockAt(i) == IF StepAt(i) = "block" THEN i - Opens ELSE 0

\* The worker is asking its question number step, of an update.
Asking == worker = "ota" /\ step # 0

-----------------------------------------------------------------------------
(* The panel and its worker, and the questions they have sent *)

ProcInv ==
  /\ worker = "none" => step = 0 /\ posted = "none"
  /\ worker # "none" => (posted = "none" <=> step # 0)
  /\ posted \in {"connect_ok", "connect_err"} => worker = "connect"
  /\ posted \in {"ota_ok", "ota_err"} => worker = "ota"
  /\ step = 0 => call["worker"] = NoCall
  /\ Asking => call["worker"].q = StepAt(step)
  /\ worker = "connect" /\ step # 0 =>
       IF link = "none" THEN call["worker"] = NoCall /\ step = 1
       ELSE call["worker"].q = ConnectSteps[step]
  /\ worker = "ota" => client /\ run >= 1
  /\ worker = "connect" => ~client
  /\ client => link # "none"
  /\ ~client => call["gui"] = NoCall
  /\ ~client /\ worker = "none" => link = "none"
  /\ posted = "connect_ok" => link # "none"
  /\ posted = "connect_err" => link = "none"
  /\ call["gui"].q \in GuiQuestions \cup {"none"}
  /\ worker = "ota" => ~timer /\ call["gui"].q \in Pages \cup {"none"}
  /\ \A th \in Threads : call[th].q = "none" <=> call[th].wait = "none"
  /\ \A th \in Threads : call[th].wait = "route" <=> call[th].q = "route"
  /\ link = "none" => rx = <<>>
  /\ acked => tx # <<>>

OfUpdate == {"routine", "start", "block", "exit"}
SentInv ==
  \A i \in 1..Len(tx) :
     /\ tx[i].q \in OfUpdate => tx[i].run >= 1
     /\ tx[i].q = "block" => tx[i].blk >= 1
     /\ tx[i].q = "routine" => cfg.mode = "routine"

\* An answer goes out on the connection its question came in on.
LiveInv == \A i \in 1..Len(tx) : tx[i].live => link = "up"

TInv == TypeOK /\ ProcInv /\ SentInv /\ LiveInv

-----------------------------------------------------------------------------
(* What an exit answers *)

Good == IF late THEN activated # {} ELSE run \in activated

ExitInv ==
  /\ \A i \in 1..Len(tx) : tx[i].run <= run
  /\ \A i \in 1..Len(tx) : tx[i].live /\ tx[i].q = "exit" => late \/ tx[i].run = run
  /\ \A i \in 1..Len(rx) : rx[i] = "exit" => Good
  /\ posted = "ota_ok" /\ cfg.mode = "transfer" => Good
  /\ OkMeansActivated

-----------------------------------------------------------------------------
(* What reaches the board of a transfer *)

Transfer == {"start", "block", "exit"}
Tr(s, i) == s[i].q \in Transfer

\* The question behind the first n blocks of update r.
Continues(q, r, n) ==
  q.run = r /\ IF n < Blocks THEN q.q = "block" /\ q.blk = n + 1 ELSE q.q = "exit"

\* What may follow a question of a transfer, and a transfer the board is in.
Follows(p, q) ==
  \/ q.q = "start"
  \/ p.q = "start" /\ Continues(q, p.run, 0)
  \/ p.q = "block" /\ Continues(q, p.run, p.blk)
Resumes(x, q) ==
  \/ q.q = "start"
  \/ x.got = <<>> /\ Continues(q, q.run, 0)
  \/ x.got # <<>> /\ Continues(q, x.got[1][1], Len(x.got))

\* The bytes are those of one update from its first block on.
Partial(x) ==
  /\ Len(x.got) <= Blocks /\ x.next = SeqNo(Len(x.got) + 1)
  /\ \A b \in 1..Len(x.got) : x.got[b] = <<x.got[1][1], b>>

FirstTr(s, i) == Tr(s, i) /\ \A k \in 1..(i - 1) : ~Tr(s, k)
LastTr(s, i)  == Tr(s, i) /\ \A k \in (i + 1)..Len(s) : ~Tr(s, k)
Adjacent(s, i, j) == i < j /\ Tr(s, i) /\ Tr(s, j) /\ \A k \in (i + 1)..(j - 1) : ~Tr(s, k)
NoTr(s) == \A i \in 1..Len(s) : ~Tr(s, i)

QueueInv(s) == \A i, j \in 1..Len(s) : Adjacent(s, i, j) => Follows(s[i], s[j])
BoardInv(x, s) ==
  x.on => /\ Partial(x) /\ GateOk
          /\ \A i \in 1..Len(s) : FirstTr(s, i) => Resumes(x, s[i])

\* Where the worker is in the transfer is where the last question is, or the board.
LastIs(s, q, r, b) ==
  \A i \in 1..Len(s) : LastTr(s, i) => s[i].q = q /\ s[i].run = r /\ s[i].blk = b
BoardIs(x, q, r, b) ==
  x.on => q # "exit" /\ Len(x.got) = b /\ (x.got # <<>> => x.got[1][1] = r)
AskedTr ==
  Asking /\ link = "up" /\ StepAt(step) \in Transfer =>
    /\ LastIs(tx, StepAt(step), run, BlockAt(step))
    /\ NoTr(tx) => BoardIs(xfer, StepAt(step), run, BlockAt(step))

TransferInv == QueueInv(tx) /\ BoardInv(xfer, tx) /\ AskedTr

-----------------------------------------------------------------------------
(* An update without trouble *)

\* The board will say nothing to the client for it.
Quiet(q) == ~q.live \/ q.q = "keepalive"
Wait == call["worker"].wait

AnswerTo(q) == IF q = "routine" THEN "routine_ok" ELSE q
Question0(i) == [q |-> StepAt(i), blk |-> BlockAt(i), run |-> run, live |-> TRUE]

\* Between an ACK that is still to be read and the end of s there is no answer.
NoneBehindAck(s, n) == \A i, j \in 1..n : i < j /\ s[i] = "ack" => s[j] \notin Answers

\* Of the questions t, the first acknowledged or not, the last is the worker's q, number
\* n, and of the frames s none can be taken for its answer by one that waits for w.
Pending(t, k, s, w, q, n) ==
  /\ t # <<>> /\ t[Len(t)] = q
  /\ n > 1 => Len(t) = 1
  /\ \A i \in 1..(Len(t) - 1) : i > 1 \/ ~k => Quiet(t[i])
  /\ Len(t) > 1 /\ k /\ ~Quiet(t[1]) => w = "ack" /\ \A i \in 1..Len(s) : s[i] # "ack"
  /\ w = "diag" => \A i \in 1..Len(s) : s[i] \notin Answers
  /\ w = "ack" => NoneBehindAck(s, Len(s))
  /\ w = "ack" /\ Len(t) = 1 /\ k => \E i \in 1..Len(s) : s[i] = "ack"

\* The answer a is the last frame, and the first that the worker will take for it.
HasAnswer(t, s, w, a) ==
  /\ t = <<>> /\ s # <<>> /\ s[Len(s)] = a
  /\ w = "diag" => \A i \in 1..(Len(s) - 1) : s[i] \notin Answers
  /\ w = "ack" => NoneBehindAck(s, Len(s) - 1) /\ \E i \in 1..(Len(s) - 1) : s[i] = "ack"

\* What the board has been brought to by the first n questions.
Reached(n) ==
  /\ n >= 1 /\ cfg.prog => session = "prog"
  /\ cfg.sec /\ n = 2 => seed
  /\ cfg.sec /\ n >= 3 => unlocked
  /\ cfg.mode = "transfer" /\ Opens <= n /\ n <= Opens + Blocks =>
       /\ xfer.on /\ Len(xfer.got) = n - Opens /\ xfer.next = SeqNo(n - Opens + 1)

Smooth ==
  /\ link = "up" /\ call["gui"] = NoCall /\ Wait \in {"ack", "diag"}
  /\ \/ Pending(tx, acked, rx, Wait, Question0(step), step) /\ Reached(step - 1)
     \/ HasAnswer(tx, rx, Wait, AnswerTo(StepAt(step))) /\ Reached(step)
SmoothInv == ~trouble => posted # "ota_err" /\ (Asking => Smooth)
-----------------------------------------------------------------------------
(* Facts about the constants and the list of questions *)

LEMMA Bounds == /\ Blocks \in Nat \ {0} /\ SeqMax \in Nat \ {0} /\ MaxRuns \in Nat \ {0}
                /\ MaxFaults \in Nat
                /\ \A c \in Configs : c.mode \in {"transfer", "routine"} /\ c.prog \in BOOLEAN
                                      /\ c.sec \in BOOLEAN
  BY DoipAssumption

LEMMA StepTypes ==
  ASSUME cfg \in Configs
  PROVE  /\ Opens \in {2, 4} /\ LastStep \in Nat /\ LastStep >= 2
         /\ \A i \in 1..LastStep : /\ StepAt(i) \in Questions \ GuiQuestions
                                   /\ StepAt(i) \notin {"route", "present"}
                                   /\ BlockAt(i) \in 0..Blocks
                                   /\ StepAt(i) = "block" => BlockAt(i) >= 1
                                   /\ StepAt(i) = "routine" => cfg.mode = "routine"
  <1>1. Opens \in {2, 4} /\ LastStep \in Nat /\ LastStep >= 2
    BY Bounds DEF Opens, LastStep
  <1>2. ASSUME NEW i \in 1..LastStep
        PROVE  /\ StepAt(i) \in Questions \ GuiQuestions /\ StepAt(i) \notin {"route", "present"}
               /\ StepAt(i) = "routine" => cfg.mode = "routine"
    BY DEF StepAt, Questions, GuiQuestions, Pages
  <1>3. ASSUME NEW i \in 1..LastStep
        PROVE  /\ BlockAt(i) \in 0..Blocks
               /\ StepAt(i) = "block" => BlockAt(i) >= 1
    <2>1. CASE StepAt(i) = "block"
      <3>1. i \in Nat /\ i > Opens /\ i < LastStep /\ LastStep = Opens + Blocks + 1
        BY <1>1, <2>1, Bounds DEF StepAt, LastStep
      <3> QED
        BY <1>1, <2>1, <3>1, Bounds DEF BlockAt
    <2>2. CASE StepAt(i) # "block"
      BY <2>2, Bounds DEF BlockAt
    <2> QED
      BY <2>1, <2>2
  <1> QED
    BY ONLY <1>1, <1>2, <1>3

\* The list of questions, question by question.
LEMMA OtaShape ==
  ASSUME cfg \in Configs
  PROVE  /\ OtaSteps \in Seq(Questions) /\ Len(OtaSteps) = LastStep
         /\ \A i \in 1..LastStep : OtaSteps[i] = StepAt(i)
  <1> DEFINE mid == IF cfg.sec THEN <<"seed", "key">> ELSE <<>>
             opening == <<"session">> \o mid
             blocks == [i \in 1..Blocks |-> "block"]
             tail == <<"start">> \o blocks \o <<"exit">>
             rest == IF cfg.mode = "routine" THEN <<"routine">> ELSE tail
  <1>1. OtaSteps = opening \o rest
    BY DEF OtaSteps
  <1>2. /\ opening \in Seq(Questions) /\ Len(opening) = Opens - 1 /\ opening[1] = "session"
        /\ cfg.sec => opening[2] = "seed" /\ opening[3] = "key"
    <2>1. {"session", "seed", "key"} \subseteq Questions
      BY DEF Questions
    <2>2. CASE cfg.sec
      BY <2>1, <2>2 DEF Opens
    <2>3. CASE ~cfg.sec
      BY <2>1, <2>3 DEF Opens
    <2> QED
      BY <2>2, <2>3
  <1>3. blocks \in Seq(Questions) /\ Len(blocks) = Blocks /\ \A b \in 1..Blocks : blocks[b] = "block"
    BY Bounds DEF Questions
  <1> HIDE DEF blocks
  <1>4. /\ tail \in Seq(Questions) /\ Len(tail) = Blocks + 2 /\ tail[1] = "start"
        /\ \A b \in 1..Blocks : tail[b + 1] = "block"
        /\ tail[Blocks + 2] = "exit"
    <2> DEFINE front == <<"start">> \o blocks
    <2>1. <<"start">> \in Seq(Questions) /\ <<"exit">> \in Seq(Questions)
          /\ Len(<<"start">>) = 1 /\ Len(<<"exit">>) = 1
      BY DEF Questions
    <2>2. /\ front \in Seq(Questions) /\ Len(front) = Blocks + 1 /\ front[1] = "start"
          /\ \A b \in 1..Blocks : front[b + 1] = "block"
      BY <1>3, <2>1, Bounds
    <2> HIDE DEF front
    <2>3. tail = front \o <<"exit">>
      BY DEF front
    <2> HIDE DEF tail
    <2> QED
      BY <2>1, <2>2, <2>3, Bounds
  <1> HIDE DEF tail, opening
  <1>5. Opens \in {2, 4} /\ (cfg.sec <=> Opens = 4) /\ (Opens = 2 \/ Opens = 4)
    BY Bounds DEF Opens
  <1>6. CASE cfg.mode = "routine"
    <2>1. OtaSteps = opening \o <<"routine">> /\ <<"routine">> \in Seq(Questions)
          /\ LastStep = Opens
      BY <1>1, <1>6 DEF Questions, LastStep
    <2>2. OtaSteps \in Seq(Questions) /\ Len(OtaSteps) = LastStep
      BY <1>2, <1>5, <2>1
    <2>3. ASSUME NEW i \in 1..LastStep PROVE OtaSteps[i] = StepAt(i)
      <3>1. OtaSteps[i] = IF i < Opens THEN opening[i] ELSE "routine"
        BY <1>2, <1>5, <2>1
      <3> QED
        BY <1>2, <1>5, <1>6, <2>1, <3>1 DEF StepAt
    <2> QED
      BY <2>2, <2>3
  <1>7. CASE cfg.mode # "routine"
    <2>1. OtaSteps = opening \o tail /\ LastStep = Opens + Blocks + 1
      BY <1>1, <1>7 DEF LastStep
    <2>2. OtaSteps \in Seq(Questions) /\ Len(OtaSteps) = LastStep
      BY <1>2, <1>4, <1>5, <2>1, Bounds
    <2>3. ASSUME NEW i \in 1..LastStep PROVE OtaSteps[i] = StepAt(i)
      <3>1. OtaSteps[i] = IF i < Opens THEN opening[i] ELSE tail[i - Opens + 1]
        BY <1>2, <1>4, <1>5, <2>1, Bounds
      <3>2. CASE i < Opens
        BY <1>2, <1>5, <3>1, <3>2 DEF StepAt
      <3>3. CASE i = Opens
        BY <1>4, <1>5, <1>7, <3>1, <3>3 DEF StepAt
      <3>4. CASE i = LastStep
        <4>1. i - Opens + 1 = Blocks + 2 /\ i > Opens /\ i # 1
          BY <1>5, <2>1, <3>4, Bounds
        <4> QED
          BY <1>4, <1>5, <1>7, <3>1, <3>4, <4>1 DEF StepAt
      <3>5. CASE i > Opens /\ i < LastStep
        <4>1. i - Opens \in 1..Blocks /\ i # 1
          BY <1>5, <2>1, <3>5, Bounds
        <4> QED
          BY <1>4, <1>5, <1>7, <3>1, <3>5, <4>1 DEF StepAt
      <3>6. i < Opens \/ i = Opens \/ i = LastStep \/ (i > Opens /\ i < LastStep)
        BY <1>5, <2>1, Bounds
      <3> QED
        BY ONLY <3>2, <3>3, <3>4, <3>5, <3>6
    <2> QED
      BY <2>2, <2>3
  <1> QED
    BY <1>6, <1>7

\* The block a question carries, counted by the code, is the block of its number.
LEMMA BlockShape ==
  ASSUME cfg \in Configs, NEW i \in 1..LastStep
  PROVE  BlockOf(OtaSteps, i) = BlockAt(i)
  <1>1. OtaSteps[i] = StepAt(i)
    BY OtaShape
  <1>2. CASE StepAt(i) # "block"
    BY <1>1, <1>2 DEF BlockOf, BlockAt
  <1>3. CASE StepAt(i) = "block"
    <2>1. Opens \in {2, 4} /\ i \in Nat /\ i > Opens /\ i < LastStep /\ cfg.mode # "routine"
          /\ LastStep \in Nat
      BY <1>3, StepTypes, Bounds DEF StepAt, LastStep
    <2>2. ASSUME NEW j \in 1..i PROVE OtaSteps[j] = "block" <=> j \in (Opens + 1)..i
      <3>1. j \in 1..LastStep /\ j < LastStep
        BY ONLY <2>1, j \in 1..i, i \in 1..LastStep
      <3>2. OtaSteps[j] = StepAt(j)
        BY <3>1, OtaShape
      <3>3. j <= Opens => StepAt(j) # "block"
        BY <2>1 DEF StepAt
      <3>4. j > Opens => StepAt(j) = "block"
        BY <2>1, <3>1 DEF StepAt
      <3> QED
        BY <2>1, <3>2, <3>3, <3>4
    <2>3. {j \in 1..i : OtaSteps[j] = "block"} = (Opens + 1)..i
      BY <2>1, <2>2
    <2>4. Cardinality((Opens + 1)..i) = i - Opens
      BY <2>1, FS_Interval
    <2> QED
      BY <1>1, <1>3, <2>3, <2>4 DEF BlockOf, BlockAt
  <1> QED
    BY <1>2, <1>3

-----------------------------------------------------------------------------
(* What happens to the questions and to the frames *)

\* t has the questions of s, or only its first, answered or not.
Relabels(s, t) ==
  /\ Len(t) \in {0, 1, Len(s)} /\ Len(t) <= Len(s)
  /\ \A i \in 1..Len(t) : t[i] = s[i] \/ t[i] = [s[i] EXCEPT !.live = FALSE]

LEMMA QueueOps ==
  ASSUME NEW s \in Seq(Question)
  PROVE  /\ Len(s) \in Nat /\ \A i \in 1..Len(s) : s[i] \in Question
         /\ s # <<>> <=> Len(s) >= 1
         /\ s # <<>> => /\ Tail(s) \in Seq(Question) /\ Len(Tail(s)) = Len(s) - 1
                        /\ \A i \in 1..(Len(s) - 1) : Tail(s)[i] = s[i + 1]
         /\ \A q \in Question : /\ Append(s, q) \in Seq(Question)
                                /\ Len(Append(s, q)) = Len(s) + 1
                                /\ \A i \in 1..Len(s) : Append(s, q)[i] = s[i]
                                /\ Append(s, q)[Len(s) + 1] = q
  <1>1. Len(s) \in Nat /\ (\A i \in 1..Len(s) : s[i] \in Question) /\ (s # <<>> <=> Len(s) >= 1)
    BY EmptySeq
  <1>2. s # <<>> => /\ Tail(s) \in Seq(Question) /\ Len(Tail(s)) = Len(s) - 1
                    /\ \A i \in 1..(Len(s) - 1) : Tail(s)[i] = s[i + 1]
    BY <1>1, HeadTailProperties
  <1>3. \A q \in Question : /\ Append(s, q) \in Seq(Question)
                            /\ Len(Append(s, q)) = Len(s) + 1
                            /\ \A i \in 1..Len(s) : Append(s, q)[i] = s[i]
                            /\ Append(s, q)[Len(s) + 1] = q
    BY AppendProperties
  <1> QED
    BY <1>1, <1>2, <1>3

LEMMA FrameOps ==
  ASSUME NEW s \in Seq(Frames)
  PROVE  /\ Len(s) \in Nat /\ \A i \in 1..Len(s) : s[i] \in Frames
         /\ s # <<>> <=> Len(s) >= 1
         /\ s # <<>> => /\ Tail(s) \in Seq(Frames) /\ Len(Tail(s)) = Len(s) - 1
                        /\ Head(s) = s[1]
                        /\ \A i \in 1..(Len(s) - 1) : Tail(s)[i] = s[i + 1]
         /\ \A f \in Frames : /\ Append(s, f) \in Seq(Frames) /\ Len(Append(s, f)) = Len(s) + 1
                              /\ \A i \in 1..Len(s) : Append(s, f)[i] = s[i]
                              /\ Append(s, f)[Len(s) + 1] = f
  <1>1. Len(s) \in Nat /\ (\A i \in 1..Len(s) : s[i] \in Frames) /\ (s # <<>> <=> Len(s) >= 1)
    BY EmptySeq
  <1>2. s # <<>> => /\ Tail(s) \in Seq(Frames) /\ Len(Tail(s)) = Len(s) - 1
                    /\ Head(s) = s[1]
                    /\ \A i \in 1..(Len(s) - 1) : Tail(s)[i] = s[i + 1]
    BY <1>1, HeadTailProperties
  <1>3. \A f \in Frames : /\ Append(s, f) \in Seq(Frames) /\ Len(Append(s, f)) = Len(s) + 1
                          /\ \A i \in 1..Len(s) : Append(s, f)[i] = s[i]
                          /\ Append(s, f)[Len(s) + 1] = f
    BY AppendProperties
  <1> QED
    BY <1>1, <1>2, <1>3

\* The questions of a connection that is gone.
LEMMA OrphanOps ==
  ASSUME TypeOK, acked => tx # <<>>, NEW kept \in BOOLEAN
  PROVE  /\ Orphaned(kept) \in Seq(Question) /\ Relabels(tx, Orphaned(kept))
         /\ \A i \in 1..Len(Orphaned(kept)) : ~Orphaned(kept)[i].live
         /\ acked => Orphaned(kept) # <<>>
  <1> DEFINE old == [i \in DOMAIN tx |-> [tx[i] EXCEPT !.live = FALSE]]
  <1>1. /\ tx \in Seq(Question) /\ Len(tx) \in Nat /\ DOMAIN tx = 1..Len(tx)
        /\ \A i \in 1..Len(tx) : tx[i] \in Question
    <2>1. tx \in Seq(Question)
      BY DEF TypeOK, Question
    <2> QED
      BY <2>1
  <1>2. old \in Seq(Question) /\ Len(old) = Len(tx)
        /\ \A i \in 1..Len(tx) : old[i] = [tx[i] EXCEPT !.live = FALSE]
    <2>1. \A i \in 1..Len(tx) : [tx[i] EXCEPT !.live = FALSE] \in Question
      BY <1>1 DEF Question
    <2> QED
      BY <1>1, <2>1
  <1>3. \A i \in 1..Len(tx) : old[i].live = FALSE
    BY <1>1, <1>2 DEF Question
  <1> HIDE DEF old
  <1>4. Orphaned(kept) = IF kept THEN old ELSE IF acked THEN <<old[1]>> ELSE <<>>
    BY DEF Orphaned, old
  <1>5. acked => Len(tx) >= 1
    BY <1>1, EmptySeq
  <1>6. CASE kept
    BY <1>1, <1>2, <1>3, <1>4, <1>5, <1>6, EmptySeq DEF Relabels
  <1>7. CASE ~kept /\ acked
    <2>1. Orphaned(kept) = <<old[1]>> /\ old[1] \in Question /\ 1 \in 1..Len(tx)
      BY <1>1, <1>2, <1>4, <1>5, <1>7
    <2> QED
      BY <1>1, <1>2, <1>3, <1>5, <2>1 DEF Relabels
  <1>8. CASE ~kept /\ ~acked
    BY <1>1, <1>4, <1>8 DEF Relabels
  <1> QED
    BY <1>6, <1>7, <1>8

-----------------------------------------------------------------------------
(* What a wait comes to *)

waitHolds == <<cfg, dialog, result, acked, boardVars, updateVars>>

\* A frame is dropped, or it is the ACK.
Takes(th) ==
  /\ call[th] # NoCall /\ rx # <<>> /\ rx' = Tail(rx)
  /\ \/ ~Awaited(call[th].wait, Head(rx)) /\ call' = call
     \/ /\ call[th].wait = "ack" /\ Head(rx) = "ack"
        /\ call' = [call EXCEPT ![th].wait = "diag"]
  /\ UNCHANGED <<link, tx, client, worker, posted, timer, step, trouble, faults>>

\* The panel's call is over; the client stays, or is closed.
GuiEnds ==
  /\ call["gui"] # NoCall /\ call' = [call EXCEPT !["gui"] = NoCall]
  /\ timer' = (timer \/ call["gui"].q = "still_there")
  /\ rx' = rx \/ (rx # <<>> /\ rx' = Tail(rx))
  /\ UNCHANGED <<client, link, tx, worker, posted, step>>
GuiGivesUp ==
  /\ call["gui"] # NoCall /\ call["gui"].q \notin Pages
  /\ call' = [call EXCEPT !["gui"] = NoCall]
  /\ timer' = FALSE /\ client' = FALSE /\ CloseClient
  /\ UNCHANGED <<worker, posted, step>>

\* The worker is given the frame a it waits for.
Given(a) ==
  /\ call["worker"] # NoCall /\ call["worker"].wait # "ack" /\ Awaited(call["worker"].wait, a)
  /\ rx # <<>> /\ a = Head(rx) /\ rx' = Tail(rx)
  /\ UNCHANGED <<link, client, worker, timer, trouble, faults>>

\* It asks the next question, ends with its verdict on a, or fails.
WorkerAsks(a) ==
  /\ Given(a) /\ step' = step + 1 /\ UNCHANGED posted
  /\ \/ /\ worker = "ota" /\ Accepts(StepAt(step), a) /\ step + 1 \in 1..LastStep
        /\ Ask("worker", StepAt(step + 1), BlockAt(step + 1), run)
     \/ worker = "connect" /\ step = 1 /\ Ask("worker", "present", 0, run)
WorkerEnds(a) ==
  /\ Given(a) /\ UNCHANGED tx
  /\ \/ worker = "ota" /\ ~Accepts(StepAt(step), a) /\ Post("ota_err")
     \/ /\ worker = "ota" /\ Accepts(StepAt(step), a) /\ step = LastStep
        /\ Post(IF VerdictOk(a) THEN "ota_ok" ELSE "ota_err")
     \/ worker = "connect" /\ step = 2 /\ Post("connect_ok")
WorkerGivesUp ==
  /\ call["worker"] # NoCall
  /\ \/ worker = "ota" /\ Post("ota_err") /\ UNCHANGED <<link, rx, tx>>
     \/ worker = "connect" /\ Post("connect_err") /\ CloseClient
  /\ \/ trouble'
     \/ rx = <<>> /\ ~\E i \in DOMAIN tx : tx[i].live
     \/ link = "broken"
  /\ UNCHANGED <<client, worker, timer>>

WaitEnds ==
  \/ \E th \in Threads : Takes(th)
  \/ GuiEnds \/ GuiGivesUp \/ WorkerGivesUp
  \/ \E a \in Frames : WorkerAsks(a) \/ WorkerEnds(a)

\* Time and faults in a wait: only a fault makes trouble.
Excused == (trouble' = trouble /\ faults' = faults) \/ Fault

LEMMA WorkersAre ==
  ASSUME TInv, call["worker"] # NoCall
  PROVE  /\ step \in 1..Len(WorkerSteps) /\ worker \in {"ota", "connect"} /\ link # "none"
         /\ worker = "ota" => /\ Len(WorkerSteps) = LastStep /\ WorkerSteps[step] = StepAt(step)
                              /\ step + 1 \in 1..LastStep =>
                                    /\ WorkerSteps[step + 1] = StepAt(step + 1)
                                    /\ BlockOf(WorkerSteps, step + 1) = BlockAt(step + 1)
         /\ worker = "connect" => /\ Len(WorkerSteps) = 2
                                  /\ WorkerSteps[1] = "route" /\ WorkerSteps[2] = "present"
                                  /\ BlockOf(WorkerSteps, 2) = 0
  <1>1. step \in 1..Len(WorkerSteps) /\ worker \in {"ota", "connect"} /\ link # "none"
    <2>1. step \in 0..Len(WorkerSteps) /\ step # 0 /\ worker # "none"
          /\ worker \in {"none", "ota", "connect"} /\ link # "none"
      BY DEF TInv, TypeOK, ProcInv
    <2>2. Len(WorkerSteps) \in Nat
      <3>1. cfg \in Configs
        BY DEF TInv, TypeOK
      <3>2. Len(OtaSteps) \in Nat
        BY <3>1, OtaShape, StepTypes
      <3> QED
        BY <3>2 DEF WorkerSteps, ConnectSteps
    <2> QED
      BY <2>1, <2>2
  <1>2. CASE worker = "ota"
    <2>1. WorkerSteps = OtaSteps /\ cfg \in Configs
      BY <1>2 DEF WorkerSteps, TInv, TypeOK
    <2> QED
      BY <1>1, <1>2, <2>1, OtaShape, BlockShape
  <1>3. CASE worker = "connect"
    BY <1>1, <1>3 DEF WorkerSteps, ConnectSteps, BlockOf
  <1> QED
    BY <1>1, <1>2, <1>3

LEMMA WaitsAre ==
  ASSUME TInv, \/ Window \/ \E th \in Threads : Waits(th)
  PROVE  WaitEnds /\ Excused /\ UNCHANGED waitHolds
  <1>1. Excused /\ UNCHANGED waitHolds
    BY DEF Window, Waits, Recv, TimeOut, Starved, LinkError, Excused, waitHolds
  <1>2. ASSUME NEW ok \in BOOLEAN, NEW left, GuiDone(ok, left), call["gui"] # NoCall,
               left = rx \/ (rx # <<>> /\ left = Tail(rx))
        PROVE  GuiEnds \/ GuiGivesUp
    <2>1. timer \in BOOLEAN
      BY DEF TInv, TypeOK
    <2>2. CASE ok \/ call["gui"].q \in Pages
      BY <1>2, <2>1, <2>2 DEF GuiDone, GuiEnds
    <2>3. CASE ~(ok \/ call["gui"].q \in Pages)
      BY <1>2, <2>3 DEF GuiDone, GuiGivesUp, Disconnect
    <2> QED
      BY <2>2, <2>3
  <1>3. CASE Window
    <2>1. call["gui"] # NoCall
      BY <1>3 DEF Window, InWindow, NoCall
    <2> QED
      BY <1>1, <1>2, <1>3, <2>1 DEF Window, WaitEnds
  <1>4. ASSUME NEW th \in Threads, TimeOut(th) \/ Starved(th) \/ LinkError(th) PROVE WaitEnds
    <2>1. call[th] # NoCall /\ Failed(th)
          /\ \/ trouble'
             \/ rx = <<>> /\ ~\E i \in DOMAIN tx : tx[i].live
             \/ link = "broken"
      BY <1>4 DEF TimeOut, Starved, LinkError, Fault
    <2>2. CASE th = "gui"
      BY <1>2, <2>1, <2>2 DEF Failed, WaitEnds
    <2>3. CASE th = "worker"
      <3>1. WorkerFails /\ call["worker"] # NoCall
        BY <2>1, <2>3 DEF Failed
      <3>2. worker \in {"ota", "connect"}
        BY <3>1, WorkersAre
      <3> QED
        BY <2>1, <3>1, <3>2 DEF WorkerFails, WorkerGivesUp, WaitEnds
    <2> QED
      BY <2>2, <2>3 DEF Threads
  <1>5. ASSUME NEW th \in Threads, Recv(th) PROVE WaitEnds
    <2> DEFINE f == Head(rx)
    <2>1. rx # <<>> /\ call[th] # NoCall /\ f \in Frames
      <3>1. rx \in Seq(Frames) /\ rx # <<>> /\ call[th] # NoCall
        BY <1>5 DEF Recv, TInv, TypeOK
      <3> QED
        BY <3>1
    <2>2. trouble' = trouble /\ faults' = faults
      BY <1>5 DEF Recv
    <2>3. CASE ~Awaited(call[th].wait, f)
      <3>1. Takes(th)
        BY <1>5, <2>1, <2>2, <2>3 DEF Recv, Takes
      <3> QED
        BY <3>1 DEF WaitEnds
    <2>4. CASE Awaited(call[th].wait, f) /\ call[th].wait = "ack"
      <3>1. Takes(th)
        BY <1>5, <2>1, <2>2, <2>4 DEF Recv, Takes, Awaited
      <3> QED
        BY <3>1 DEF WaitEnds
    <2>5. CASE Awaited(call[th].wait, f) /\ call[th].wait # "ack" /\ th = "gui"
      <3>1. GuiDone(TRUE, Tail(rx)) /\ call["gui"] # NoCall
        BY <1>5, <2>1, <2>5 DEF Recv
      <3> QED
        BY <1>2, <2>1, <3>1 DEF WaitEnds
    <2>6. CASE Awaited(call[th].wait, f) /\ call[th].wait # "ack" /\ th = "worker"
      <3>1. /\ rx' = Tail(rx) /\ link' = link /\ WorkerGoesOn(f) /\ call["worker"] # NoCall
            /\ call["worker"].wait # "ack" /\ Awaited(call["worker"].wait, f)
        BY <1>5, <2>1, <2>6 DEF Recv
      <3>2. Given(f)
        BY <2>1, <2>2, <3>1 DEF Given, WorkerGoesOn
      <3> HIDE DEF f
      <3>3. /\ step \in 1..Len(WorkerSteps) /\ worker \in {"ota", "connect"}
            /\ worker = "ota" => /\ Len(WorkerSteps) = LastStep /\ WorkerSteps[step] = StepAt(step)
                                 /\ step + 1 \in 1..LastStep =>
                                       /\ WorkerSteps[step + 1] = StepAt(step + 1)
                                       /\ BlockOf(WorkerSteps, step + 1) = BlockAt(step + 1)
            /\ worker = "connect" => /\ Len(WorkerSteps) = 2
                                     /\ WorkerSteps[1] = "route" /\ WorkerSteps[2] = "present"
                                     /\ BlockOf(WorkerSteps, 2) = 0
        BY <3>1, WorkersAre
      <3>4. CASE worker = "ota" /\ ~Accepts(WorkerSteps[step], f)
        BY <2>1, <3>1, <3>2, <3>3, <3>4 DEF WorkerGoesOn, WorkerEnds, WaitEnds
      <3>5. CASE worker = "ota" /\ Accepts(WorkerSteps[step], f) /\ step = Len(WorkerSteps)
        BY <2>1, <3>1, <3>2, <3>3, <3>5 DEF WorkerGoesOn, WorkerEnds, WaitEnds
      <3>6. CASE worker = "ota" /\ Accepts(WorkerSteps[step], f) /\ step # Len(WorkerSteps)
        <4>1. step' = step + 1 /\ AskStep(step + 1, run) /\ posted' = posted
          BY <3>1, <3>6 DEF WorkerGoesOn
        <4>2. step + 1 \in 1..LastStep
          <5>1. LastStep \in Nat
            BY StepTypes DEF TInv, TypeOK
          <5> QED
            BY <3>3, <3>6, <5>1
        <4>3. WorkerAsks(f)
          BY <3>2, <3>3, <3>6, <4>1, <4>2 DEF WorkerAsks, AskStep
        <4> QED
          BY <2>1, <4>3 DEF WaitEnds
      <3>7. CASE worker = "connect" /\ step = 2
        BY <2>1, <3>1, <3>2, <3>3, <3>7 DEF WorkerGoesOn, WorkerEnds, WaitEnds
      <3>8. CASE worker = "connect" /\ step = 1
        <4>1. step' = 2 /\ AskStep(2, run) /\ posted' = posted
          BY <3>1, <3>3, <3>8 DEF WorkerGoesOn
        <4>2. WorkerAsks(f)
          BY <3>2, <3>3, <3>8, <4>1 DEF WorkerAsks, AskStep
        <4> QED
          BY <2>1, <4>2 DEF WaitEnds
      <3>9. worker = "connect" => step \in {1, 2}
        <4>1. worker = "connect" => step \in 1..2
          BY ONLY <3>3
        <4> QED
          BY ONLY <4>1
      <3> QED
        BY <3>3, <3>4, <3>5, <3>6, <3>7, <3>8, <3>9
    <2> QED
      BY <2>3, <2>4, <2>5, <2>6 DEF Threads
  <1> QED
    BY <1>1, <1>3, <1>4, <1>5 DEF Waits

-----------------------------------------------------------------------------
(* The invariant of the panel, its worker and the questions *)

LEMMA Typed ==
  ASSUME TypeOK
  PROVE  /\ cfg \in Configs /\ tx \in Seq(Question) /\ rx \in Seq(Frames)
         /\ step \in Nat /\ run \in 0..MaxRuns /\ run \in Nat
         /\ call["gui"] \in [q : Questions \cup {"none"}, wait : {"none", "route", "ack", "diag"}]
         /\ call["worker"] \in [q : Questions \cup {"none"}, wait : {"none", "route", "ack", "diag"}]
         /\ DOMAIN call = Threads /\ "gui" \in Threads /\ "worker" \in Threads
         /\ DOMAIN tx = 1..Len(tx) /\ DOMAIN rx = 1..Len(rx) /\ Len(tx) \in Nat /\ Len(rx) \in Nat
  <1>1. cfg \in Configs /\ tx \in Seq(Question) /\ rx \in Seq(Frames) /\ run \in 0..MaxRuns
    BY DEF TypeOK, Question
  <1>2. /\ call \in [Threads -> [q : Questions \cup {"none"}, wait : {"none", "route", "ack", "diag"}]]
        /\ "gui" \in Threads /\ "worker" \in Threads
    BY DEF TypeOK, Threads
  <1>3. step \in Nat
    BY DEF TypeOK
  <1>4. run \in Nat
    BY <1>1, Bounds
  <1> QED
    BY <1>1, <1>2, <1>3, <1>4

LEMMA ListsStay ==
  ASSUME cfg \in Configs, cfg' = cfg
  PROVE  /\ Len(WorkerSteps)' = IF worker' = "connect" THEN 2 ELSE LastStep
         /\ LastStep' = LastStep /\ Opens' = Opens
         /\ StepAt(step)' = StepAt(step') /\ BlockAt(step)' = BlockAt(step')
  <1>1. OtaSteps' = OtaSteps
    BY DEF OtaSteps
  <1>2. Len(OtaSteps) = LastStep
    BY OtaShape
  <1>3. LastStep' = LastStep /\ Opens' = Opens
    BY DEF LastStep, Opens
  <1>4. StepAt(step)' = StepAt(step')
    BY <1>3 DEF StepAt
  <1>5. BlockAt(step)' = BlockAt(step')
    BY <1>3, <1>4 DEF BlockAt
  <1>6. Len(WorkerSteps)' = IF worker' = "connect" THEN 2 ELSE LastStep
    BY <1>1, <1>2 DEF WorkerSteps, ConnectSteps
  <1> QED
    BY <1>3, <1>4, <1>5, <1>6

\* A question asked: of a type, by a thread, behind the ones that were there.
LEMMA AskIs ==
  ASSUME TypeOK, NEW th \in Threads, NEW q \in Questions, NEW b \in 0..Blocks,
         NEW r \in 0..MaxRuns, Ask(th, q, b, r)
  PROVE  /\ [q |-> q, blk |-> b, run |-> r, live |-> TRUE] \in Question
         /\ tx' = IF link' = "up" THEN Append(tx, [q |-> q, blk |-> b, run |-> r, live |-> TRUE])
                  ELSE tx
         /\ tx' \in Seq(Question) /\ Len(tx') >= Len(tx)
         /\ call' \in [Threads -> [q : Questions \cup {"none"}, wait : {"none", "route", "ack", "diag"}]]
         /\ call'[th] = [q |-> q, wait |-> IF q = "route" THEN "route" ELSE "ack"]
         /\ \A t \in Threads : t # th => call'[t] = call[t]
         /\ \A i \in 1..Len(tx') : \/ i <= Len(tx) /\ tx'[i] = tx[i]
                                   \/ tx'[i] = [q |-> q, blk |-> b, run |-> r, live |-> TRUE]
  <1> DEFINE new == [q |-> q, blk |-> b, run |-> r, live |-> TRUE]
  <1>1. new \in Question
    BY DEF Question
  <1>2. tx \in Seq(Question) /\ Len(tx) \in Nat
    BY Typed
  <1>3. tx' = IF link' = "up" THEN Append(tx, new) ELSE tx
    BY DEF Ask
  <1>4. /\ call' \in [Threads -> [q : Questions \cup {"none"}, wait : {"none", "route", "ack", "diag"}]]
        /\ call'[th] = [q |-> q, wait |-> IF q = "route" THEN "route" ELSE "ack"]
        /\ \A t \in Threads : t # th => call'[t] = call[t]
    BY DEF Ask, TypeOK
  <1> HIDE DEF new
  <1>5. CASE link' = "up"
    <2>1. tx' = Append(tx, new)
      BY <1>3, <1>5
    <2>2. /\ tx' \in Seq(Question) /\ Len(tx') = Len(tx) + 1
          /\ \A i \in 1..Len(tx) : tx'[i] = tx[i]
          /\ tx'[Len(tx) + 1] = new
      BY ONLY <1>1, <1>2, <2>1, QueueOps
    <2>3. \A i \in 1..Len(tx') : (i <= Len(tx) /\ tx'[i] = tx[i]) \/ tx'[i] = new
      BY ONLY <1>2, <2>2
    <2> QED
      BY <1>1, <1>2, <1>3, <1>4, <2>2, <2>3 DEF new
  <1>6. CASE link' # "up"
    BY <1>1, <1>2, <1>3, <1>4, <1>6 DEF new
  <1> QED
    BY <1>5, <1>6

\* What that does to the queue.
LEMMA AskTx ==
  ASSUME TypeOK, NEW th \in Threads, NEW q \in Questions, NEW b \in 0..Blocks,
         NEW r \in 0..MaxRuns, NEW e, e = [q |-> q, blk |-> b, run |-> r, live |-> TRUE],
         Ask(th, q, b, r)
  PROVE  /\ e \in Question
         /\ tx' = IF link' = "up" THEN Append(tx, e) ELSE tx
         /\ \A i \in 1..Len(tx') : (i <= Len(tx) /\ tx'[i] = tx[i]) \/ tx'[i] = e
  <1>1. e \in Question /\ tx \in Seq(Question) /\ Len(tx) \in Nat
    BY Typed DEF Question
  <1>2. tx' = IF link' = "up" THEN Append(tx, e) ELSE tx
    BY DEF Ask
  <1>3. CASE link' = "up"
    <2>1. tx' = Append(tx, e)
      BY <1>2, <1>3
    <2>2. /\ Len(tx') = Len(tx) + 1 /\ tx'[Len(tx) + 1] = e
          /\ \A i \in 1..Len(tx) : tx'[i] = tx[i]
      BY ONLY <1>1, <2>1, QueueOps
    <2>3. \A i \in 1..Len(tx') : (i <= Len(tx) /\ tx'[i] = tx[i]) \/ tx'[i] = e
      BY ONLY <1>1, <2>2
    <2> QED
      BY <1>1, <1>2, <2>3
  <1>4. CASE link' # "up"
    BY <1>1, <1>2, <1>4
  <1> QED
    BY <1>3, <1>4

\* The other ways in which a step changes the queue of questions.
LEMMA DropFirst ==
  ASSUME TypeOK, tx # <<>>
  PROVE  /\ Tail(tx) \in Seq(Question) /\ Len(Tail(tx)) = Len(tx) - 1 /\ tx[1] \in Question
         /\ \A i \in 1..Len(Tail(tx)) : i + 1 \in 1..Len(tx) /\ Tail(tx)[i] = tx[i + 1]
  <1>1. tx \in Seq(Question) /\ Len(tx) \in Nat /\ Len(tx) >= 1
    BY Typed, QueueOps
  <1>2. tx[1] \in Question /\ Tail(tx) \in Seq(Question) /\ Len(Tail(tx)) = Len(tx) - 1
        /\ \A i \in 1..(Len(tx) - 1) : Tail(tx)[i] = tx[i + 1]
    BY <1>1, QueueOps
  <1> QED
    BY <1>1, <1>2

LEMMA Closing ==
  ASSUME TypeOK, acked => tx # <<>>, CloseClient \/ (\E kept \in BOOLEAN : tx' = Orphaned(kept))
  PROVE  /\ tx' \in Seq(Question) /\ Relabels(tx, tx') /\ (acked => tx' # <<>>)
         /\ \A i \in 1..Len(tx') : ~tx'[i].live
  BY OrphanOps DEF CloseClient

\* What the board says, when it says something.
LEMMA SayIs ==
  ASSUME TypeOK, NEW f \in Frames, Say(f)
  PROVE  rx' \in Seq(Frames) /\ (rx' = rx \/ (tx[1].live /\ rx' = Append(rx, f)))
  BY Typed, FrameOps DEF Say

LEMMA HandlingIs ==
  ASSUME TypeOK, NEW qs \in SUBSET Questions, NEW a \in Answers \cup {"none"}, Handling(qs, a)
  PROVE  /\ tx # <<>> /\ acked /\ tx[1].q \in qs /\ tx' = Tail(tx) /\ acked' = FALSE
         /\ tx' \in Seq(Question) /\ rx' \in Seq(Frames)
         /\ rx' = rx \/ (a # "none" /\ tx[1].live /\ rx' = Append(rx, a))
         /\ UNCHANGED <<cfg, panelVars, call, step, link, updateVars, faults>>
  <1>1. /\ tx # <<>> /\ acked /\ tx[1].q \in qs /\ Answered(a) /\ tx' = Tail(tx) /\ acked' = FALSE
        /\ UNCHANGED <<cfg, panelVars, call, step, link, updateVars, faults>>
    BY DEF Handling
  <1>2. tx' \in Seq(Question)
    BY <1>1, DropFirst
  <1>3. rx' \in Seq(Frames) /\ (rx' = rx \/ (a # "none" /\ tx[1].live /\ rx' = Append(rx, a)))
    <2>1. CASE a = "none"
      BY <1>1, <2>1, Typed DEF Answered
    <2>2. CASE a # "none"
      <3>1. a \in Frames /\ Say(a)
        BY <1>1, <2>2 DEF Answered, Frames
      <3> QED
        BY <2>2, <3>1, SayIs
    <2> QED
      BY <2>1, <2>2
  <1> QED
    BY <1>1, <1>2, <1>3

\* A block that a transfer is open for is the next of the update the transfer holds.
LEMMA BlockFits ==
  ASSUME TInv, TransferInv, tx # <<>>, tx[1].q = "block", xfer.on
  PROVE  /\ Len(xfer.got) < Blocks /\ tx[1].blk = Len(xfer.got) + 1 /\ SeqNo(tx[1].blk) = xfer.next
         /\ tx[1].run \in 1..MaxRuns /\ tx[1].blk \in 1..Blocks
         /\ xfer.got # <<>> => xfer.got[1][1] = tx[1].run
  <1>1. tx \in Seq(Question) /\ Len(tx) \in Nat /\ 1 \in 1..Len(tx) /\ tx[1] \in Question
    BY Typed, QueueOps DEF TInv
  <1>2. tx[1].run \in 0..MaxRuns /\ tx[1].blk \in 0..Blocks /\ tx[1].run >= 1 /\ tx[1].blk >= 1
    BY <1>1 DEF Question, TInv, SentInv, OfUpdate
  <1>3. FirstTr(tx, 1)
    <2>1. Tr(tx, 1) /\ 1..(1 - 1) = {}
      BY DEF Tr, Transfer
    <2> QED
      BY <2>1 DEF FirstTr
  <1>4. Resumes(xfer, tx[1]) /\ Partial(xfer)
    BY <1>1, <1>3 DEF TransferInv, BoardInv
  <1>5. Len(xfer.got) \in Nat /\ xfer.got \in Seq((1..MaxRuns) \X (1..Blocks))
    BY DEF TInv, TypeOK
  <1>6. CASE xfer.got = <<>>
    <2>1. Continues(tx[1], tx[1].run, 0) /\ Len(xfer.got) = 0
      BY <1>4, <1>6 DEF Resumes
    <2>2. tx[1].blk = 1
      BY <2>1, Bounds DEF Continues
    <2> QED
      BY <1>2, <1>4, <1>6, <2>1, <2>2, Bounds DEF Partial
  <1>7. CASE xfer.got # <<>>
    <2>1. Continues(tx[1], xfer.got[1][1], Len(xfer.got))
      BY <1>4, <1>7 DEF Resumes
    <2>2. Len(xfer.got) < Blocks /\ tx[1].blk = Len(xfer.got) + 1 /\ tx[1].run = xfer.got[1][1]
      BY <2>1 DEF Continues
    <2> QED
      BY <1>2, <1>4, <1>5, <2>2, Bounds DEF Partial
  <1> QED
    BY <1>6, <1>7

LEMMA TypesHold == ASSUME TInv, TransferInv, Next PROVE TypeOK'
  <1> DEFINE Calls == [Threads -> [q : Questions \cup {"none"}, wait : {"none", "route", "ack", "diag"}]]
             XferOK(x) == /\ x \in [on : BOOLEAN, next : 0..SeqMax, got : Seq((1..MaxRuns) \X (1..Blocks))]
                          /\ Len(x.got) <= Blocks
             PanelOK == /\ {client, timer, dialog} \subseteq BOOLEAN
                        /\ worker \in {"none", "connect", "ota"}
                        /\ posted \in {"none", "connect_ok", "connect_err", "ota_ok", "ota_err"}
                        /\ result \in {"none", "running", "ok", "err"}
             StepOK == step \in 0..(IF worker = "connect" THEN 2 ELSE LastStep)
             NetOK == /\ link \in {"none", "up", "broken"} /\ rx \in Seq(Frames)
                      /\ tx \in Seq(Question) /\ acked \in BOOLEAN
             BoardOK == /\ {unlocked, seed} \subseteq BOOLEAN
                        /\ session \in {"default", "prog", "ext"} /\ activated \subseteq 1..MaxRuns
             UpdateOK == {trouble, late} \subseteq BOOLEAN /\ run \in 0..MaxRuns /\ faults \in 0..MaxFaults
  <1>1. /\ cfg \in Configs /\ PanelOK /\ StepOK /\ NetOK /\ BoardOK /\ XferOK(xfer) /\ UpdateOK
        /\ call \in Calls /\ (acked => tx # <<>>)
    <2>1. Len(WorkerSteps) = IF worker = "connect" THEN 2 ELSE LastStep
      BY OtaShape DEF WorkerSteps, ConnectSteps, TInv, TypeOK
    <2> QED
      BY <2>1 DEF TInv, TypeOK, Question, ProcInv
  <1>2. ASSUME cfg' = cfg, PanelOK', StepOK', NetOK', BoardOK', XferOK(xfer'), UpdateOK', call' \in Calls
        PROVE  TypeOK'
    <2>1. /\ cfg' \in Configs /\ Len(WorkerSteps)' = IF worker' = "connect" THEN 2 ELSE LastStep
          /\ LastStep' = LastStep
      BY <1>1, <1>2, ListsStay
    <2>2. (step \in 0..Len(WorkerSteps))'
      BY <1>2, <2>1
    <2>3. tx' \in Seq([q : Questions, blk : 0..Blocks, run : 0..MaxRuns, live : BOOLEAN])
      BY <1>2 DEF Question
    <2> QED
      BY <1>2, <2>1, <2>2, <2>3 DEF TypeOK
  <1>3. ASSUME UNCHANGED cfg PROVE LastStep' = LastStep
    BY <1>1, <1>3, ListsStay
  <1>4. LastStep \in Nat /\ LastStep >= 2
    BY <1>1, StepTypes
  <1>5. TypeOK
    BY DEF TInv
  <1> HIDE DEF Calls, XferOK, NetOK, UpdateOK
  <1>6. ASSUME Excused, UNCHANGED updateVars PROVE UpdateOK'
    <2>1. faults \in 0..MaxFaults /\ MaxFaults \in Nat /\ {trouble, late} \subseteq BOOLEAN /\ run \in 0..MaxRuns
      BY <1>1, Bounds DEF UpdateOK
    <2>2. run' = run /\ late' = late
      BY <1>6 DEF updateVars
    <2>3. trouble' \in BOOLEAN /\ faults' \in 0..MaxFaults
      <3>1. CASE trouble' = trouble /\ faults' = faults
        BY <2>1, <3>1
      <3>2. CASE Fault
        <4>1. faults < MaxFaults /\ faults' = faults + 1 /\ trouble' = TRUE
          BY <3>2 DEF Fault
        <4>2. faults' \in 0..MaxFaults
          BY ONLY <2>1, <4>1
        <4> QED
          BY <4>1, <4>2
      <3> QED
        BY <1>6, <3>1, <3>2 DEF Excused
    <2> QED
      BY <2>1, <2>2, <2>3 DEF UpdateOK
  <1>7. ASSUME WaitEnds, Excused, UNCHANGED waitHolds PROVE TypeOK'
    <2>1. UNCHANGED <<cfg, dialog, result, acked, session, unlocked, seed, xfer, activated>> /\ UpdateOK'
      BY <1>6, <1>7 DEF waitHolds, boardVars
    <2>2. BoardOK' /\ XferOK(xfer') /\ LastStep' = LastStep
      BY <1>1, <1>3, <2>1
    <2>3. rx # <<>> => Tail(rx) \in Seq(Frames) /\ Head(rx) \in Frames
      BY <1>1 DEF NetOK
    <2>4. NoCall \in [q : Questions \cup {"none"}, wait : {"none", "route", "ack", "diag"}]
      BY DEF NoCall
    <2>5. \A th \in Threads : [call EXCEPT ![th] = NoCall] \in Calls /\ [call EXCEPT ![th].wait = "diag"] \in Calls
      <3>1. "diag" \in {"none", "route", "ack", "diag"}
        OBVIOUS
      <3> QED
        BY <1>1, <2>4, <3>1 DEF Calls
    <2>6. /\ CloseClient => NetOK'
          /\ (link' = link /\ tx' = tx /\ (rx' = rx \/ (rx # <<>> /\ rx' = Tail(rx)))) => NetOK'
      <3>1. CASE CloseClient
        <4>1. tx' \in Seq(Question)
          BY <1>1, <1>5, <3>1, Closing
        <4> QED
          BY <1>1, <2>1, <3>1, <4>1 DEF CloseClient, NetOK
      <3>2. CASE link' = link /\ tx' = tx /\ (rx' = rx \/ (rx # <<>> /\ rx' = Tail(rx)))
        BY <1>1, <2>1, <2>3, <3>2 DEF NetOK
      <3> QED
        BY <3>1, <3>2
    <2>7. ASSUME NEW th \in Threads, Takes(th) PROVE TypeOK'
      <3>1. NetOK' /\ call' \in Calls
        BY <1>1, <2>5, <2>6, <2>7 DEF Takes
      <3> QED
        BY <1>1, <1>2, <2>1, <2>2, <2>7, <3>1 DEF Takes
    <2>8. CASE GuiEnds
      <3>1. NetOK' /\ call' \in Calls
        <4>1. /\ link' = link /\ tx' = tx /\ (rx' = rx \/ (rx # <<>> /\ rx' = Tail(rx)))
              /\ call' = [call EXCEPT !["gui"] = NoCall]
          BY <2>8 DEF GuiEnds
        <4>2. "gui" \in Threads
          BY DEF Threads
        <4> QED
          BY ONLY <2>5, <2>6, <4>1, <4>2
      <3> QED
        BY <1>1, <1>2, <2>1, <2>2, <2>8, <3>1 DEF GuiEnds
    <2>9. CASE GuiGivesUp
      <3>1. NetOK' /\ call' \in Calls
        BY <1>1, <2>5, <2>6, <2>9 DEF GuiGivesUp, Threads
      <3> QED
        BY <1>1, <1>2, <2>1, <2>2, <2>9, <3>1 DEF GuiGivesUp
    <2>10. CASE WorkerGivesUp
      <3>1. NetOK' /\ call' \in Calls
        <4>1. /\ CloseClient \/ (link' = link /\ tx' = tx /\ rx' = rx)
              /\ call' = [call EXCEPT !["worker"] = NoCall]
          BY <2>10 DEF WorkerGivesUp, Post
        <4>2. "worker" \in Threads
          BY DEF Threads
        <4> QED
          BY ONLY <2>5, <2>6, <4>1, <4>2
      <3>2. StepOK' /\ PanelOK'
        BY <1>1, <1>4, <2>1, <2>2, <2>10 DEF WorkerGivesUp, Post
      <3> QED
        BY <1>2, <2>1, <2>2, <3>1, <3>2
    <2>11. ASSUME NEW a \in Frames, WorkerEnds(a) PROVE TypeOK'
      <3>1. NetOK' /\ call' \in Calls
        BY <1>1, <2>5, <2>6, <2>11 DEF WorkerEnds, Given, Post, Threads
      <3>2. StepOK' /\ PanelOK'
        BY <1>1, <1>4, <2>1, <2>2, <2>11 DEF WorkerEnds, Given, Post
      <3> QED
        BY <1>2, <2>1, <2>2, <3>1, <3>2
    <2>12. ASSUME NEW a \in Frames, WorkerAsks(a) PROVE TypeOK'
      <3>1. tx' \in Seq(Question) /\ call' \in Calls
        <4>1. run \in 0..MaxRuns /\ "worker" \in Threads /\ 0 \in 0..Blocks /\ "present" \in Questions
          BY <1>1, Bounds DEF UpdateOK, Threads, Questions
        <4>2. CASE worker = "ota"
          <5>1. step + 1 \in 1..LastStep /\ Ask("worker", StepAt(step + 1), BlockAt(step + 1), run)
            BY <2>12, <4>2 DEF WorkerAsks
          <5>2. StepAt(step + 1) \in Questions /\ BlockAt(step + 1) \in 0..Blocks
            BY <1>1, <5>1, StepTypes
          <5> QED
            BY <1>5, <4>1, <5>1, <5>2, AskIs DEF Calls
        <4>3. CASE worker # "ota"
          <5>1. Ask("worker", "present", 0, run)
            BY <2>12, <4>3 DEF WorkerAsks
          <5> QED
            BY <1>5, <4>1, <5>1, AskIs DEF Calls
        <4> QED
          BY <4>2, <4>3
      <3>2. NetOK'
        BY <1>1, <2>1, <2>3, <2>12, <3>1 DEF WorkerAsks, Given, NetOK
      <3>3. StepOK' /\ PanelOK'
        BY <1>1, <1>4, <2>1, <2>2, <2>12 DEF WorkerAsks, Given
      <3> QED
        BY <1>2, <2>1, <2>2, <3>1, <3>2, <3>3
    <2> QED
      BY <1>7, <2>7, <2>8, <2>9, <2>10, <2>11, <2>12 DEF WaitEnds
  <1>8. ASSUME UNCHANGED <<cfg, session, unlocked, seed, xfer, activated>>
        PROVE  BoardOK' /\ XferOK(xfer') /\ LastStep' = LastStep
    BY <1>1, <1>3, <1>8
  <1>9. CASE Connect
    <2>1. NetOK' /\ UpdateOK'
      BY <1>1, <1>9 DEF Connect, netVars, updateVars, NetOK, UpdateOK
    <2> QED
      BY <1>1, <1>2, <1>8, <1>9, <2>1 DEF Connect, boardVars
  <1>10. CASE TcpConnect
    <2>1. /\ worker = "connect" /\ step = 1 /\ AskStep(1, run) /\ link' = "up"
          /\ UNCHANGED <<cfg, panelVars, step, rx, acked, boardVars, updateVars, trouble, faults>>
      BY <1>10 DEF TcpConnect
    <2>2. Ask("worker", "route", 0, run)
      BY <2>1 DEF AskStep, WorkerSteps, ConnectSteps, BlockOf
    <2>3. "worker" \in Threads /\ "route" \in Questions /\ run \in 0..MaxRuns /\ 0 \in 0..Blocks
      BY <1>1, Bounds DEF Threads, Questions, UpdateOK
    <2>4. NetOK' /\ call' \in Calls
      BY <1>1, <1>5, <2>1, <2>2, <2>3, AskIs DEF NetOK, Calls
    <2>5. UpdateOK'
      BY <1>1, <2>1 DEF UpdateOK, updateVars
    <2>6. BoardOK' /\ XferOK(xfer') /\ LastStep' = LastStep /\ PanelOK'
      BY <1>1, <1>8, <2>1 DEF boardVars, panelVars
    <2>7. StepOK'
      BY <1>1, <2>1, <2>6 DEF panelVars
    <2> QED
      BY <1>2, <2>1, <2>4, <2>5, <2>6, <2>7
  <1>11. CASE TcpRefused
    <2>1. call' \in Calls
      BY <1>1, <1>11 DEF TcpRefused, Post, Calls, NoCall
    <2>2. NetOK' /\ UpdateOK'
      BY <1>1, <1>11 DEF TcpRefused, netVars, updateVars, NetOK, UpdateOK
    <2>3. StepOK'
      BY <1>1, <1>4, <1>8, <1>11 DEF TcpRefused, Post, boardVars
    <2> QED
      BY <1>1, <1>2, <1>8, <1>11, <2>1, <2>2, <2>3 DEF TcpRefused, Post, boardVars
  <1>12. CASE UserDisconnects
    <2>1. CloseClient /\ acked' = acked
      BY <1>12 DEF UserDisconnects, Disconnect
    <2>2. tx' \in Seq(Question)
      BY <1>1, <1>5, <2>1, Closing
    <2>3. NetOK' /\ UpdateOK'
      BY <1>1, <1>12, <2>1, <2>2 DEF UserDisconnects, CloseClient, updateVars, NetOK, UpdateOK
    <2> QED
      BY <1>1, <1>2, <1>8, <1>12, <2>3 DEF UserDisconnects, Disconnect, boardVars
  <1>13. CASE Start
    <2>1. /\ run < MaxRuns /\ run' = run + 1 /\ worker' = "ota" /\ step' = 1 /\ timer' = FALSE
          /\ result' = "running" /\ link' = link /\ Ask("worker", OtaSteps[1], 0, run + 1)
          /\ late' \in BOOLEAN /\ trouble' \in BOOLEAN
          /\ UNCHANGED <<cfg, client, posted, dialog, rx, acked, boardVars, faults>>
      BY <1>13 DEF Start, ExitDue, Misaligned
    <2>2. run' \in 0..MaxRuns /\ run + 1 \in 0..MaxRuns /\ 0 \in 0..Blocks
      BY <1>1, <2>1, Bounds DEF UpdateOK
    <2>3. OtaSteps[1] \in Questions /\ "worker" \in Threads
      BY <1>1, <1>4, OtaShape DEF Threads
    <2>4. tx' \in Seq(Question) /\ call' \in Calls
      BY <1>5, <2>1, <2>2, <2>3, AskIs DEF Calls
    <2>5. NetOK' /\ UpdateOK'
      BY <1>1, <2>1, <2>2, <2>4 DEF NetOK, UpdateOK
    <2>6. BoardOK' /\ XferOK(xfer') /\ LastStep' = LastStep
      BY <1>8, <2>1 DEF boardVars
    <2>7. PanelOK' /\ StepOK'
      <3>1. step' \in 0..LastStep
        BY <1>4, <2>1
      <3>2. StepOK'
        BY <2>1, <2>6, <3>1
      <3>3. PanelOK'
        BY <1>1, <2>1
      <3> QED
        BY <3>2, <3>3
    <2> QED
      BY <1>2, <2>1, <2>4, <2>5, <2>6, <2>7
  <1>14. ASSUME NEW q \in GuiQuestions, Ask("gui", q, 0, run), UNCHANGED <<link, rx, acked>>
         PROVE  NetOK' /\ call' \in Calls
    <2>1. "gui" \in Threads /\ q \in Questions /\ run \in 0..MaxRuns /\ 0 \in 0..Blocks
      BY <1>1, Bounds DEF Threads, Questions, UpdateOK
    <2> QED
      BY <1>1, <1>5, <1>14, <2>1, AskIs DEF NetOK, Calls
  <1>15. CASE KeepAlive
    <2>1. NetOK' /\ call' \in Calls
      BY <1>14, <1>15 DEF KeepAlive, GuiQuestions
    <2>2. UpdateOK'
      BY <1>1, <1>15 DEF KeepAlive, UpdateOK, updateVars
    <2> QED
      BY <1>1, <1>2, <1>8, <1>15, <2>1, <2>2 DEF KeepAlive, boardVars, panelVars
  <1>16. ASSUME NEW q \in Pages, AskPage(q), UNCHANGED <<rx, acked, updateVars>>
         PROVE  NetOK' /\ call' \in Calls /\ UpdateOK'
    <2>1. NetOK' /\ call' \in Calls
      BY <1>14, <1>16 DEF AskPage, GuiQuestions
    <2>2. UpdateOK'
      BY <1>6, <1>16 DEF AskPage, Excused
    <2> QED
      BY <2>1, <2>2
  <1>17. ASSUME NEW q \in Pages, ReadPage(q) PROVE TypeOK'
    <2>1. NetOK' /\ call' \in Calls /\ UpdateOK'
      BY <1>16, <1>17 DEF ReadPage
    <2> QED
      BY <1>1, <1>2, <1>8, <1>17, <2>1 DEF ReadPage, boardVars, panelVars
  <1>18. CASE ClearAsked
    <2>1. NetOK' /\ UpdateOK'
      BY <1>1, <1>18 DEF ClearAsked, netVars, updateVars, NetOK, UpdateOK
    <2> QED
      BY <1>1, <1>2, <1>8, <1>18, <2>1 DEF ClearAsked, boardVars
  <1>19. ASSUME NEW yes \in BOOLEAN, ClearAnswered(yes) PROVE TypeOK'
    <2>1. NetOK' /\ call' \in Calls /\ UpdateOK'
      <3>1. CASE yes /\ client
        BY <1>16, <1>19, <3>1 DEF ClearAnswered, Pages
      <3>2. CASE ~(yes /\ client)
        BY <1>1, <1>19, <3>2 DEF ClearAnswered, NetOK, UpdateOK, updateVars
      <3> QED
        BY <3>1, <3>2
    <2> QED
      BY <1>1, <1>2, <1>8, <1>19, <2>1 DEF ClearAnswered, boardVars
  <1>20. CASE OnConnect
    <2>1. NetOK' /\ UpdateOK'
      BY <1>1, <1>20 DEF OnConnect, netVars, updateVars, NetOK, UpdateOK
    <2>2. step = 0
      BY <1>20 DEF OnConnect, TInv, ProcInv
    <2> QED
      BY <1>1, <1>2, <1>4, <1>8, <1>20, <2>1, <2>2 DEF OnConnect, boardVars
  <1>21. CASE OnOk
    <2>1. NetOK' /\ UpdateOK'
      BY <1>1, <1>21 DEF OnOk, netVars, updateVars, NetOK, UpdateOK
    <2>2. step = 0
      BY <1>21 DEF OnOk, TInv, ProcInv
    <2> QED
      BY <1>1, <1>2, <1>4, <1>8, <1>21, <2>1, <2>2 DEF OnOk, boardVars
  <1>22. CASE OnErr
    <2>1. NetOK' /\ call' \in Calls
      BY <1>14, <1>22 DEF OnErr, GuiQuestions
    <2>2. step = 0
      BY <1>22 DEF OnErr, TInv, ProcInv
    <2>3. UpdateOK'
      BY <1>1, <1>22 DEF OnErr, UpdateOK, updateVars
    <2> QED
      BY <1>1, <1>2, <1>4, <1>8, <1>22, <2>1, <2>2, <2>3 DEF OnErr, boardVars
  <1>23. ASSUME UNCHANGED <<cfg, panelVars, call, step, late, run>>, trouble' \in BOOLEAN,
                faults' = faults, NetOK', BoardOK', XferOK(xfer')
         PROVE  TypeOK'
    <2>1. UpdateOK' /\ call' \in Calls /\ cfg' = cfg
      BY <1>1, <1>23 DEF UpdateOK
    <2>2. PanelOK' /\ StepOK'
      BY <1>1, <1>3, <1>23 DEF panelVars
    <2> QED
      BY <1>2, <1>23, <2>1, <2>2
  <1>24. CASE BoardAck
    <2>1. /\ tx # <<>> /\ UNCHANGED <<cfg, panelVars, call, step, link, boardVars, updateVars, trouble, faults>>
          /\ \/ Say("route") /\ tx' = Tail(tx) /\ acked' = FALSE
             \/ Say("ack") /\ acked' = TRUE /\ tx' = tx
      BY <1>24 DEF BoardAck
    <2>2. rx' \in Seq(Frames)
      <3>1. "route" \in Frames /\ "ack" \in Frames
        BY DEF Frames
      <3> QED
        BY <1>5, <2>1, <3>1, SayIs
    <2>3. tx' \in Seq(Question) /\ acked' \in BOOLEAN
      BY <1>1, <1>5, <2>1, DropFirst DEF NetOK
    <2>4. NetOK'
      BY <1>1, <2>1, <2>2, <2>3 DEF NetOK
    <2>5. UNCHANGED <<late, run, session, unlocked, seed, xfer, activated>> /\ trouble' \in BOOLEAN
      BY <1>1, <2>1 DEF updateVars, boardVars, UpdateOK
    <2> QED
      BY <1>1, <1>8, <1>23, <2>1, <2>4, <2>5
  <1>25. ASSUME NEW qs \in SUBSET Questions, NEW a \in Answers \cup {"none"}, Handling(qs, a),
                trouble' \in BOOLEAN, BoardOK', XferOK(xfer')
         PROVE  TypeOK'
    <2>1. /\ acked' = FALSE /\ tx' \in Seq(Question) /\ rx' \in Seq(Frames)
          /\ UNCHANGED <<cfg, panelVars, call, step, link, updateVars, faults>>
      BY <1>5, <1>25, HandlingIs
    <2>2. NetOK'
      BY <1>1, <2>1 DEF NetOK
    <2> QED
      BY <1>23, <1>25, <2>1, <2>2 DEF updateVars
  <1>26. trouble \in BOOLEAN /\ XferOK(NoXfer)
         /\ \A on \in BOOLEAN : XferOK([NoXfer EXCEPT !.on = on])
    <2>1. 1 \in 0..SeqMax /\ <<>> \in Seq((1..MaxRuns) \X (1..Blocks)) /\ Len(<<>>) <= Blocks
      BY Bounds
    <2> QED
      BY <1>1, <2>1 DEF UpdateOK, NoXfer, XferOK
  <1>27. CASE HandlePlain
    <2>1. PICK q \in {"keepalive", "still_there", "present"} \cup Pages :
            Handling({q}, CASE q = "keepalive" -> "none" [] q = "still_there" -> "present" [] OTHER -> q)
      BY <1>27 DEF HandlePlain
    <2>2. {q} \in SUBSET Questions
          /\ (CASE q = "keepalive" -> "none" [] q = "still_there" -> "present" [] OTHER -> q)
             \in Answers \cup {"none"}
      BY DEF Questions, GuiQuestions, Pages, Answers
    <2>3. UNCHANGED <<session, unlocked, seed, xfer, activated, trouble>>
      BY <1>27 DEF HandlePlain, boardVars
    <2> QED
      BY <1>1, <1>25, <1>26, <2>1, <2>2, <2>3
  <1>28. {"session", "seed", "key", "start", "block", "exit", "routine"} \subseteq Questions
         /\ {"session", "seed", "key", "nrc", "start", "block", "exit", "routine_ok", "routine_fail"}
            \subseteq Answers
    BY DEF Questions, Answers
  <1>29. CASE HandleSession
    <2>1. BoardOK' /\ XferOK(xfer') /\ trouble' \in BOOLEAN
      BY <1>1, <1>26, <1>29 DEF HandleSession
    <2> QED
      BY <1>25, <1>28, <1>29, <2>1 DEF HandleSession
  <1>30. CASE HandleSeed
    <2>1. BoardOK' /\ XferOK(xfer') /\ trouble' \in BOOLEAN
      BY <1>1, <1>26, <1>30 DEF HandleSeed
    <2> QED
      BY <1>25, <1>28, <1>30, <2>1 DEF HandleSeed
  <1>31. CASE HandleKey
    <2>1. BoardOK' /\ XferOK(xfer') /\ trouble' \in BOOLEAN
      BY <1>1, <1>26, <1>31 DEF HandleKey
    <2> QED
      BY <1>25, <1>28, <1>31, <2>1 DEF HandleKey
  <1>32. CASE HandleStart
    <2>1. PICK opens \in BOOLEAN :
            /\ Handling({"start"}, IF GateOk /\ opens THEN "start" ELSE "nrc")
            /\ xfer' = IF ~GateOk THEN xfer ELSE [NoXfer EXCEPT !.on = opens]
            /\ trouble' = (trouble \/ ~opens)
            /\ UNCHANGED <<session, unlocked, seed, activated>>
      BY <1>32 DEF HandleStart
    <2>2. BoardOK' /\ XferOK(xfer') /\ trouble' \in BOOLEAN
      BY <1>1, <1>26, <2>1
    <2> QED
      BY <1>25, <1>28, <2>1, <2>2
  <1>33. ASSUME tx # <<>> PROVE tx[1] \in Question
    BY <1>5, <1>33, DropFirst
  <1>34. CASE HandleExit
    <2>1. PICK accepted \in BOOLEAN :
            LET complete == xfer.on /\ Len(xfer.got) = Blocks
            IN  /\ Handling({"exit"}, IF complete /\ accepted THEN "exit" ELSE "nrc")
                /\ activated' = IF complete /\ accepted THEN activated \cup {tx[1].run} ELSE activated
                /\ xfer' = NoXfer
                /\ trouble' = (trouble \/ ~accepted)
                /\ UNCHANGED <<session, unlocked, seed>>
      BY <1>34 DEF HandleExit
    <2>2. tx # <<>> /\ tx[1].q = "exit"
      BY <2>1 DEF Handling
    <2>3. tx[1].run \in 1..MaxRuns
      <3>1. tx[1].run \in 0..MaxRuns /\ 1 \in 1..Len(tx)
        BY <1>1, <1>33, <2>2, QueueOps DEF Question, NetOK
      <3>2. tx[1].run >= 1
        BY <2>2, <3>1 DEF TInv, SentInv, OfUpdate
      <3> QED
        BY <3>1, <3>2, Bounds
    <2>4. BoardOK' /\ XferOK(xfer') /\ trouble' \in BOOLEAN
      BY <1>1, <1>26, <2>1, <2>3
    <2> QED
      BY <1>25, <1>28, <2>1, <2>4
  <1>35. CASE HandleRoutine
    <2>1. PICK accepted \in BOOLEAN :
            /\ Handling({"routine"}, IF accepted THEN "routine_ok" ELSE "routine_fail")
            /\ activated' = IF accepted THEN activated \cup {tx[1].run} ELSE activated
            /\ trouble' = (trouble \/ ~accepted)
            /\ UNCHANGED <<session, unlocked, seed, xfer>>
      BY <1>35 DEF HandleRoutine
    <2>2. tx # <<>> /\ tx[1].q = "routine"
      BY <2>1 DEF Handling
    <2>3. tx[1].run \in 1..MaxRuns
      <3>1. tx[1].run \in 0..MaxRuns /\ 1 \in 1..Len(tx)
        BY <1>1, <1>33, <2>2, QueueOps DEF Question, NetOK
      <3>2. tx[1].run >= 1
        BY <2>2, <3>1 DEF TInv, SentInv, OfUpdate
      <3> QED
        BY <3>1, <3>2, Bounds
    <2>4. BoardOK' /\ XferOK(xfer') /\ trouble' \in BOOLEAN
      BY <1>1, <1>26, <2>1, <2>3
    <2> QED
      BY <1>25, <1>28, <2>1, <2>4
  <1>36. CASE HandleBlock
    <2> DEFINE inOrder == xfer.on /\ SeqNo(tx[1].blk) = xfer.next
    <2>1. PICK written \in BOOLEAN :
            /\ Handling({"block"}, IF inOrder /\ written THEN "block" ELSE "nrc")
            /\ xfer' = IF ~inOrder THEN xfer
                       ELSE IF ~written THEN NoXfer
                       ELSE [xfer EXCEPT !.next = NextSeq(@),
                                         !.got = Append(@, <<tx[1].run, tx[1].blk>>)]
            /\ trouble' = (trouble \/ ~written)
            /\ UNCHANGED <<session, unlocked, seed, activated>>
      BY <1>36 DEF HandleBlock
    <2>2. tx # <<>> /\ tx[1].q = "block"
      BY <2>1 DEF Handling
    <2>3. CASE inOrder /\ written
      <3>1. /\ Len(xfer.got) < Blocks /\ <<tx[1].run, tx[1].blk>> \in (1..MaxRuns) \X (1..Blocks)
        BY <2>2, <2>3, BlockFits
      <3>2. /\ xfer \in [on : BOOLEAN, next : 0..SeqMax, got : Seq((1..MaxRuns) \X (1..Blocks))]
        BY <1>1 DEF XferOK
      <3>3. NextSeq(xfer.next) \in 0..SeqMax
        BY <3>2, Bounds DEF NextSeq
      <3>4. Append(xfer.got, <<tx[1].run, tx[1].blk>>) \in Seq((1..MaxRuns) \X (1..Blocks))
            /\ Len(Append(xfer.got, <<tx[1].run, tx[1].blk>>)) = Len(xfer.got) + 1
            /\ Len(xfer.got) \in Nat
        BY <3>1, <3>2
      <3>5. xfer' = [xfer EXCEPT !.next = NextSeq(@), !.got = Append(@, <<tx[1].run, tx[1].blk>>)]
        BY <2>1, <2>3
      <3>6. /\ xfer' \in [on : BOOLEAN, next : 0..SeqMax, got : Seq((1..MaxRuns) \X (1..Blocks))]
            /\ xfer'.got = Append(xfer.got, <<tx[1].run, tx[1].blk>>)
        BY <3>2, <3>3, <3>4, <3>5
      <3>7. XferOK(xfer')
        BY <3>1, <3>4, <3>6, Bounds DEF XferOK
      <3>8. BoardOK' /\ trouble' \in BOOLEAN
        BY <1>1, <1>26, <2>1
      <3> QED
        BY <1>25, <1>28, <2>1, <3>7, <3>8
    <2>4. CASE ~(inOrder /\ written)
      <3>1. XferOK(xfer')
        BY <1>1, <1>26, <2>1, <2>4
      <3>2. BoardOK' /\ trouble' \in BOOLEAN
        BY <1>1, <1>26, <2>1
      <3> QED
        BY <1>25, <1>28, <2>1, <3>1, <3>2
    <2> QED
      BY <2>3, <2>4
  <1>37. ASSUME UNCHANGED <<cfg, panelVars, call, step, updateVars>>, Fault, NetOK', BoardOK', XferOK(xfer')
         PROVE  TypeOK'
    <2>1. UpdateOK' /\ call' \in Calls /\ cfg' = cfg
      BY <1>1, <1>6, <1>37 DEF Excused
    <2>2. PanelOK' /\ StepOK'
      BY <1>1, <1>3, <1>37 DEF panelVars
    <2> QED
      BY <1>2, <1>37, <2>1, <2>2
  <1>38. CASE S3
    <2>1. NetOK'
      BY <1>1, <1>38 DEF S3, netVars, NetOK
    <2>2. BoardOK' /\ XferOK(xfer')
      BY <1>1, <1>26, <1>38 DEF S3, AbortTransfer
    <2> QED
      BY <1>37, <1>38, <2>1, <2>2 DEF S3
  <1>39. CASE LinkLost
    <2>1. tx' \in Seq(Question)
      BY <1>1, <1>5, <1>39, Closing DEF LinkLost
    <2>2. NetOK'
      BY <1>1, <1>39, <2>1 DEF LinkLost, NetOK
    <2>3. BoardOK' /\ XferOK(xfer')
      BY <1>1, <1>39 DEF LinkLost, boardVars
    <2> QED
      BY <1>37, <1>39, <2>2, <2>3 DEF LinkLost
  <1>40. CASE BoardRestart
    <2>1. NetOK'
      <3>1. tx' = <<>> /\ acked' = FALSE /\ rx' = rx /\ link' \in {link, "broken"}
        BY <1>40 DEF BoardRestart
      <3>2. <<>> \in Seq(Question)
        OBVIOUS
      <3> QED
        BY <1>1, <3>1, <3>2 DEF NetOK
    <2>2. BoardOK' /\ XferOK(xfer')
      BY <1>1, <1>26, <1>40 DEF BoardRestart
    <2> QED
      BY <1>37, <1>40, <2>1, <2>2 DEF BoardRestart
  <1>41. CASE Window \/ \E th \in Threads : Waits(th)
    BY <1>7, <1>41, WaitsAre
  <1> QED
    <2>1. "dem" \in Pages /\ "dump" \in Pages
      BY DEF Pages
    <2> QED
      BY <1>9, <1>10, <1>11, <1>12, <1>13, <1>15, <1>17, <1>18, <1>19, <1>20, <1>21, <1>22,
         <1>24, <1>27, <1>29, <1>30, <1>31, <1>32, <1>34, <1>35, <1>36, <1>38, <1>39, <1>40,
         <1>41, <2>1
         DEF Next, Clicks, Answer, Panel, Board, Faults

LEMMA SentHolds == ASSUME TInv, Next PROVE SentInv'
  <1> DEFINE Fresh(e) == /\ e.q \in OfUpdate => e.run >= 1
                         /\ e.q = "block" => e.blk >= 1
                         /\ e.q = "routine" => cfg.mode = "routine"
             Same(e, f) == e.q = f.q /\ e.run = f.run /\ e.blk = f.blk
  <1>1. TypeOK /\ cfg \in Configs /\ tx \in Seq(Question) /\ Len(tx) \in Nat
        /\ (acked => tx # <<>>) /\ \A i \in 1..Len(tx) : Fresh(tx[i]) /\ tx[i] \in Question
    BY Typed, QueueOps DEF TInv, SentInv, ProcInv
  <1>2. cfg' = cfg
    BY WaitsAre DEF Next, Clicks, Answer, Panel, Connect, UserDisconnects, Start, ReadPage,
       ClearAsked, ClearAnswered, OnConnect, OnOk, OnErr, KeepAlive, TcpConnect, TcpRefused,
       waitHolds, Board, BoardAck, HandlePlain, HandleSession, HandleSeed, HandleKey,
       HandleStart, HandleBlock, HandleExit, HandleRoutine, Handling, Faults, S3, LinkLost,
       BoardRestart
  <1>3. ASSUME \A i \in 1..Len(tx') : Fresh(tx'[i]) \/ \E j \in 1..Len(tx) : Same(tx'[i], tx[j])
        PROVE  SentInv'
    BY <1>1, <1>2, <1>3 DEF SentInv
  <1>4. ASSUME tx' = tx PROVE SentInv'
    BY <1>1, <1>3, <1>4
  <1>5. ASSUME CloseClient \/ \E kept \in BOOLEAN : tx' = Orphaned(kept) PROVE SentInv'
    <2>1. Relabels(tx, tx')
      BY <1>1, <1>5, Closing
    <2>2. ASSUME NEW i \in 1..Len(tx') PROVE i \in 1..Len(tx) /\ Same(tx'[i], tx[i])
      <3>1. i \in 1..Len(tx)
        BY <1>1, <2>1 DEF Relabels
      <3> QED
        BY <1>1, <2>1, <3>1 DEF Relabels, Question
    <2> QED
      BY <1>3, <2>2
  <1>6. ASSUME tx # <<>>, tx' = Tail(tx) PROVE SentInv'
    <2>1. \A i \in 1..Len(tx') : i + 1 \in 1..Len(tx) /\ Same(tx'[i], tx[i + 1])
      BY <1>1, <1>6, DropFirst
    <2> QED
      BY <1>3, <2>1
  <1>7. ASSUME NEW th \in Threads, NEW q \in Questions, NEW b \in 0..Blocks, NEW r \in 0..MaxRuns,
               Ask(th, q, b, r), Fresh([q |-> q, blk |-> b, run |-> r, live |-> TRUE])
        PROVE  SentInv'
    <2>1. \A i \in 1..Len(tx') : \/ i <= Len(tx) /\ tx'[i] = tx[i]
                                 \/ tx'[i] = [q |-> q, blk |-> b, run |-> r, live |-> TRUE]
      BY <1>1, <1>7, AskIs
    <2>2. ASSUME NEW i \in 1..Len(tx') PROVE Fresh(tx'[i])
      <3>1. CASE i <= Len(tx) /\ tx'[i] = tx[i]
        <4>1. i \in 1..Len(tx)
          BY <1>1, <3>1
        <4> QED
          BY <1>1, <3>1, <4>1
      <3>2. CASE tx'[i] = [q |-> q, blk |-> b, run |-> r, live |-> TRUE]
        BY <1>7, <3>2
      <3> QED
        BY <2>1, <3>1, <3>2
    <2> QED
      BY <1>3, <2>2
  <1> HIDE DEF Same
  <1>8. ASSUME NEW th \in Threads, NEW q \in Questions \ OfUpdate, NEW r \in 0..MaxRuns, Ask(th, q, 0, r)
        PROVE  SentInv'
    <2>1. Fresh([q |-> q, blk |-> 0, run |-> r, live |-> TRUE])
      BY DEF OfUpdate
    <2> QED
      BY <1>7, <1>8, <2>1, Bounds
  <1>9. run \in 0..MaxRuns /\ "gui" \in Threads /\ "worker" \in Threads
        /\ GuiQuestions \cup {"route", "present", "session"} \subseteq Questions \ OfUpdate
    BY <1>1, Typed DEF Threads, Questions, GuiQuestions, Pages, OfUpdate
  <1> HIDE DEF Fresh
  <1>10. CASE Window \/ \E th \in Threads : Waits(th)
    <2>1. WaitEnds
      BY <1>10, WaitsAre
    <2>2. ASSUME NEW a \in Frames, WorkerAsks(a) PROVE SentInv'
      <3>1. CASE worker = "ota"
        <4>1. step + 1 \in 1..LastStep /\ Ask("worker", StepAt(step + 1), BlockAt(step + 1), run)
          BY <2>2, <3>1 DEF WorkerAsks
        <4>2. /\ StepAt(step + 1) \in Questions /\ BlockAt(step + 1) \in 0..Blocks
              /\ StepAt(step + 1) = "block" => BlockAt(step + 1) >= 1
              /\ StepAt(step + 1) = "routine" => cfg.mode = "routine"
          BY <1>1, <4>1, StepTypes
        <4>3. run >= 1
          BY <3>1 DEF TInv, ProcInv
        <4>4. Fresh([q |-> StepAt(step + 1), blk |-> BlockAt(step + 1), run |-> run, live |-> TRUE])
          BY <4>2, <4>3 DEF Fresh
        <4> QED
          BY <1>7, <1>9, <4>1, <4>2, <4>4
      <3>2. CASE worker # "ota"
        BY <1>8, <1>9, <2>2, <3>2 DEF WorkerAsks
      <3> QED
        BY <3>1, <3>2
    <2>3. CASE WorkerGivesUp
      BY <1>4, <1>5, <2>3 DEF WorkerGivesUp
    <2> QED
      BY <1>4, <1>5, <2>1, <2>2, <2>3 DEF WaitEnds, Takes, GuiEnds, GuiGivesUp, WorkerEnds
  <1>11. CASE Connect \/ TcpRefused \/ ClearAsked \/ OnConnect \/ OnOk \/ S3
    BY <1>4, <1>11 DEF Connect, TcpRefused, ClearAsked, OnConnect, OnOk, S3, netVars
  <1>12. CASE TcpConnect
    <2>1. Ask("worker", "route", 0, run)
      BY <1>12 DEF TcpConnect, AskStep, WorkerSteps, ConnectSteps, BlockOf
    <2> QED
      BY <1>8, <1>9, <2>1
  <1>13. CASE UserDisconnects \/ LinkLost
    BY <1>5, <1>13 DEF UserDisconnects, Disconnect, LinkLost
  <1>14. CASE Start
    <2>1. OtaSteps[1] = "session" /\ run + 1 \in 0..MaxRuns
      <3>1. 1 \in 1..LastStep
        BY <1>1, StepTypes
      <3> QED
        BY <1>1, <1>9, <1>14, <3>1, OtaShape, Bounds DEF Start, StepAt
    <2> QED
      BY <1>8, <1>9, <1>14, <2>1 DEF Start
  <1>15. CASE KeepAlive \/ OnErr
    BY <1>8, <1>9, <1>15 DEF KeepAlive, OnErr, GuiQuestions
  <1>16. ASSUME NEW q \in Pages, AskPage(q) PROVE SentInv'
    BY <1>8, <1>9, <1>16 DEF AskPage, GuiQuestions
  <1>17. CASE ReadPage("dem") \/ ReadPage("dump") \/ Answer
    BY <1>4, <1>16, <1>17 DEF ReadPage, Answer, ClearAnswered, Pages
  <1>18. CASE BoardAck
    BY <1>4, <1>6, <1>18 DEF BoardAck
  <1>19. CASE HandlePlain \/ HandleSession \/ HandleSeed \/ HandleKey \/ HandleStart \/ HandleBlock
              \/ HandleExit \/ HandleRoutine
    BY <1>6, <1>19 DEF HandlePlain, HandleSession, HandleSeed, HandleKey, HandleStart,
       HandleBlock, HandleExit, HandleRoutine, Handling
  <1>20. CASE BoardRestart
    <2>1. tx' = <<>>
      BY <1>20 DEF BoardRestart
    <2> QED
      BY <1>3, <2>1
  <1> QED
    BY <1>10, <1>11, <1>12, <1>13, <1>14, <1>15, <1>17, <1>18, <1>19, <1>20
       DEF Next, Clicks, Panel, Board, Faults

LEMMA LiveHolds == ASSUME TInv, Next PROVE LiveInv'
  <1>1. TypeOK /\ tx \in Seq(Question) /\ Len(tx) \in Nat /\ (acked => tx # <<>>) /\ LiveInv
    BY Typed DEF TInv, ProcInv
  <1>2. ASSUME link' = link, tx' = tx PROVE LiveInv'
    BY <1>1, <1>2 DEF LiveInv
  <1>3. ASSUME CloseClient \/ \E kept \in BOOLEAN : tx' = Orphaned(kept) PROVE LiveInv'
    BY <1>1, <1>3, Closing DEF LiveInv
  <1>4. ASSUME link' = link, tx # <<>>, tx' = Tail(tx) PROVE LiveInv'
    <2>1. \A i \in 1..Len(tx') : i + 1 \in 1..Len(tx) /\ tx'[i] = tx[i + 1]
      BY <1>1, <1>4, DropFirst
    <2> QED
      BY <1>1, <1>4, <2>1 DEF LiveInv
  <1>5. ASSUME NEW th, NEW q, NEW b, NEW r, Ask(th, q, b, r), link' = link \/ link' = "up" PROVE LiveInv'
    <2>1. CASE link' = "up"
      BY <2>1 DEF LiveInv
    <2>2. CASE link' # "up"
      BY <1>2, <1>5, <2>2 DEF Ask
    <2> QED
      BY <2>1, <2>2
  <1>6. CASE Window \/ \E th \in Threads : Waits(th)
    <2>1. WaitEnds
      BY <1>6, WaitsAre
    <2>2. ASSUME NEW a \in Frames, WorkerAsks(a) PROVE LiveInv'
      BY <1>5, <2>2 DEF WorkerAsks, Given
    <2>3. CASE WorkerGivesUp
      BY <1>2, <1>3, <2>3 DEF WorkerGivesUp
    <2> QED
      BY <1>2, <1>3, <2>1, <2>2, <2>3 DEF WaitEnds, Takes, GuiEnds, GuiGivesUp, WorkerEnds, Given
  <1>7. CASE Connect \/ TcpRefused \/ ClearAsked \/ OnConnect \/ OnOk \/ S3
    BY <1>2, <1>7 DEF Connect, TcpRefused, ClearAsked, OnConnect, OnOk, S3, netVars
  <1>8. CASE TcpConnect \/ Start \/ KeepAlive \/ OnErr
    BY <1>5, <1>8 DEF TcpConnect, AskStep, Start, KeepAlive, OnErr
  <1>9. CASE UserDisconnects \/ LinkLost
    BY <1>3, <1>9 DEF UserDisconnects, Disconnect, LinkLost
  <1>10. CASE ReadPage("dem") \/ ReadPage("dump") \/ Answer
    BY <1>2, <1>5, <1>10 DEF ReadPage, Answer, ClearAnswered, AskPage
  <1>11. CASE BoardAck
    BY <1>2, <1>4, <1>11 DEF BoardAck
  <1>12. CASE HandlePlain \/ HandleSession \/ HandleSeed \/ HandleKey \/ HandleStart \/ HandleBlock
              \/ HandleExit \/ HandleRoutine
    BY <1>4, <1>12 DEF HandlePlain, HandleSession, HandleSeed, HandleKey, HandleStart,
       HandleBlock, HandleExit, HandleRoutine, Handling
  <1>13. CASE BoardRestart
    BY <1>13 DEF BoardRestart, LiveInv
  <1> QED
    BY <1>6, <1>7, <1>8, <1>9, <1>10, <1>11, <1>12, <1>13 DEF Next, Clicks, Panel, Board, Faults

LEMMA ProcHolds == ASSUME TInv, Next PROVE ProcInv'
  <1>1. /\ TypeOK /\ cfg \in Configs /\ tx \in Seq(Question) /\ (acked => tx # <<>>)
        /\ rx \in Seq(Frames) /\ step \in Nat /\ run \in Nat /\ LastStep \in Nat /\ LastStep >= 2
        /\ "gui" \in Threads /\ "worker" \in Threads /\ Threads = {"gui", "worker"}
        /\ run \in 0..MaxRuns /\ 0 \in 0..Blocks
    BY Typed, StepTypes, Bounds DEF TInv, ProcInv, Threads
  <1> DEFINE CallOK(c) == /\ c.q = "none" <=> c.wait = "none"
                          /\ c.wait = "route" <=> c.q = "route"
             PanelOK == /\ worker = "none" => step = 0 /\ posted = "none"
                        /\ worker # "none" => (posted = "none" <=> step # 0)
                        /\ posted \in {"connect_ok", "connect_err"} => worker = "connect"
                        /\ posted \in {"ota_ok", "ota_err"} => worker = "ota"
                        /\ worker = "ota" => client /\ run >= 1
                        /\ worker = "connect" => ~client
                        /\ client => link # "none"
                        /\ ~client /\ worker = "none" => link = "none"
                        /\ posted = "connect_ok" => link # "none"
                        /\ posted = "connect_err" => link = "none"
             WorkerOK == /\ step = 0 => call["worker"] = NoCall
                         /\ Asking => call["worker"].q = StepAt(step)
                         /\ worker = "connect" /\ step # 0 =>
                              IF link = "none" THEN call["worker"] = NoCall /\ step = 1
                              ELSE call["worker"].q = ConnectSteps[step]
                         /\ CallOK(call["worker"])
             GuiOK == /\ ~client => call["gui"] = NoCall
                      /\ call["gui"].q \in GuiQuestions \cup {"none"}
                      /\ worker = "ota" => ~timer /\ call["gui"].q \in Pages \cup {"none"}
                      /\ CallOK(call["gui"])
             NetOK == /\ link = "none" => rx = <<>>
                      /\ acked => tx # <<>>
  <1>2. PanelOK /\ WorkerOK /\ GuiOK /\ NetOK
    BY <1>1 DEF TInv, ProcInv
  <1>3. ASSUME PanelOK', WorkerOK', GuiOK', NetOK' PROVE ProcInv'
    BY <1>1, <1>3 DEF ProcInv
  <1>4. ASSUME NEW th \in Threads, NEW c, call' = [call EXCEPT ![th] = c]
        PROVE  call'[th] = c /\ \A t \in Threads : t # th => call'[t] = call[t]
    BY <1>1, <1>4, Typed
  <1>5. NoCall.q = "none" /\ CallOK(NoCall)
    BY DEF NoCall
  <1>6. ASSUME UNCHANGED <<cfg, worker, step, link>>, call'["worker"] = call["worker"]
        PROVE  WorkerOK' /\ (Asking' <=> Asking)
    <2>1. StepAt(step)' = StepAt(step)
      BY <1>1, <1>6, ListsStay
    <2> QED
      BY <1>2, <1>6, <2>1 DEF Asking
  <1>7. ASSUME CloseClient \/ (\E kept \in BOOLEAN : tx' = Orphaned(kept)), acked' = acked
        PROVE  acked' => tx' # <<>>
    BY <1>1, <1>7, Closing
  <1>8. ASSUME NEW th \in Threads, NEW q \in Questions, NEW b \in 0..Blocks, NEW r \in 0..MaxRuns,
               Ask(th, q, b, r)
        PROVE  /\ call'[th] = [q |-> q, wait |-> IF q = "route" THEN "route" ELSE "ack"]
               /\ \A t \in Threads : t # th => call'[t] = call[t]
               /\ acked' = acked => (acked' => tx' # <<>>)
    <2>1. tx' \in Seq(Question) /\ Len(tx') >= Len(tx)
      BY <1>1, <1>8, AskIs
    <2>2. tx # <<>> => tx' # <<>>
      BY <1>1, <2>1, QueueOps
    <2> QED
      BY <1>1, <1>8, <2>2, AskIs
  <1>9. \A q \in Questions : q # "none"
    BY DEF Questions, GuiQuestions, Pages
  <1>10. \A q \in Questions : CallOK([q |-> q, wait |-> IF q = "route" THEN "route" ELSE "ack"])
    BY <1>9
  <1>11. GuiQuestions \cup {"route", "present", "session"} \subseteq Questions /\ Pages \subseteq GuiQuestions
    BY DEF Questions, GuiQuestions, Pages
  <1> HIDE DEF CallOK
  <1>12. ASSUME WaitEnds, UNCHANGED waitHolds PROVE ProcInv'
    <2>1. UNCHANGED <<cfg, acked, run>>
      BY <1>12 DEF waitHolds, updateVars
    <2>3. ASSUME rx' = rx \/ (rx # <<>> /\ rx' = Tail(rx)), link' = link, tx' = tx PROVE NetOK'
      BY <1>2, <2>1, <2>3
    <2>4. ASSUME CloseClient PROVE NetOK' /\ link' = "none"
      BY <1>7, <2>1, <2>4 DEF CloseClient
    <2>5. ASSUME NEW th \in Threads, Takes(th) PROVE ProcInv'
      <3>1. UNCHANGED <<link, tx, client, worker, posted, timer, step>> /\ rx # <<>> /\ rx' = Tail(rx)
        BY <2>5 DEF Takes
      <3>2. \A t \in Threads : call'[t] = call[t] \/ (call[t].wait = "ack" /\ call'[t] = [call[t] EXCEPT !.wait = "diag"])
        <4>1. CASE call' = call
          BY <4>1
        <4>2. CASE call[th].wait = "ack" /\ call' = [call EXCEPT ![th].wait = "diag"]
          BY <1>1, <4>2, Typed
        <4> QED
          BY <2>5, <4>1, <4>2 DEF Takes
      <3>3. \A t \in Threads : /\ call'[t].q = call[t].q
                               /\ CallOK(call[t]) => CallOK(call'[t])
                               /\ call[t] = NoCall => call'[t] = NoCall
        <4>1. \A t \in Threads : call[t] \in [q : Questions \cup {"none"}, wait : {"none", "route", "ack", "diag"}]
          BY <1>1, Typed
        <4>2. ASSUME NEW t \in Threads, call[t].wait = "ack", call'[t] = [call[t] EXCEPT !.wait = "diag"]
              PROVE  /\ call'[t].q = call[t].q
                     /\ CallOK(call[t]) => CallOK(call'[t])
                     /\ call[t] # NoCall
          <5>1. call'[t].q = call[t].q /\ call'[t].wait = "diag"
            BY <4>1, <4>2
          <5>2. CallOK(call[t]) => CallOK(call'[t])
            BY <4>2, <5>1 DEF CallOK
          <5>3. NoCall.wait = "none"
            BY DEF NoCall
          <5> QED
            BY <4>2, <5>1, <5>2, <5>3
        <4> QED
          BY <3>2, <4>2
      <3>4. StepAt(step)' = StepAt(step)
        BY <1>1, <2>1, <3>1, ListsStay
      <3>5. call'["worker"].q = call["worker"].q /\ CallOK(call'["worker"])
            /\ (call["worker"] = NoCall => call'["worker"] = NoCall)
        BY <1>1, <1>2, <3>3
      <3>6. WorkerOK'
        BY <1>2, <3>1, <3>4, <3>5 DEF Asking
      <3>7. call'["gui"].q = call["gui"].q /\ CallOK(call'["gui"])
            /\ (call["gui"] = NoCall => call'["gui"] = NoCall)
        BY <1>1, <1>2, <3>3
      <3>8. GuiOK'
        BY <1>2, <3>1, <3>7 DEF Asking
      <3>9. PanelOK' /\ NetOK'
        BY <1>2, <2>1, <2>3, <3>1
      <3> QED
        BY <1>3, <3>6, <3>8, <3>9
    <2>6. CASE GuiEnds
      <3>1. /\ call'["gui"] = NoCall /\ call'["worker"] = call["worker"]
            /\ UNCHANGED <<client, link, tx, worker, posted, step>>
            /\ timer' = (timer \/ call["gui"].q = "still_there")
            /\ rx' = rx \/ (rx # <<>> /\ rx' = Tail(rx))
        BY <1>1, <1>4, <2>6 DEF GuiEnds
      <3>2. WorkerOK' /\ (Asking' <=> Asking)
        BY <1>6, <2>1, <3>1
      <3>3. PanelOK' /\ NetOK'
        BY <1>2, <2>1, <2>3, <3>1
      <3>4. GuiOK'
        <4>1. "still_there" \notin Pages \cup {"none"}
          BY DEF Pages
        <4> QED
          BY <1>2, <1>5, <3>1, <4>1
      <3> QED
        BY <1>3, <3>2, <3>3, <3>4
    <2>7. CASE GuiGivesUp
      <3>1. /\ call["gui"] # NoCall /\ call["gui"].q \notin Pages
            /\ call'["gui"] = NoCall /\ call'["worker"] = call["worker"]
            /\ UNCHANGED <<worker, posted, step>> /\ client' = FALSE /\ CloseClient
        BY <1>1, <1>4, <2>7 DEF GuiGivesUp
      <3>2. client /\ call["gui"].q # "none"
        <4>1. call["gui"] \in [q : Questions \cup {"none"}, wait : {"none", "route", "ack", "diag"}]
          BY <1>1, Typed
        <4>2. call["gui"].q # "none"
          BY <1>2, <3>1, <4>1 DEF NoCall, CallOK
        <4> QED
          BY <1>2, <3>1, <4>2
      <3>3. NetOK' /\ link' = "none"
        BY <2>4, <3>1
      <3>4. worker = "none" /\ step = 0 /\ posted = "none" /\ call["worker"] = NoCall
        <4>1. worker # "connect" /\ worker # "ota" /\ worker \in {"none", "connect", "ota"}
          BY <1>1, <1>2, <3>1, <3>2 DEF TypeOK
        <4> QED
          BY <1>2, <4>1
      <3>5. PanelOK' /\ WorkerOK' /\ GuiOK'
        BY <1>2, <1>5, <3>1, <3>3, <3>4 DEF Asking
      <3> QED
        BY <1>3, <3>3, <3>5
    <2>8. CASE WorkerGivesUp
      <3>1. /\ call'["worker"] = NoCall /\ call'["gui"] = call["gui"] /\ step' = 0
            /\ UNCHANGED <<client, worker, timer>>
            /\ \/ worker = "ota" /\ posted' = "ota_err" /\ UNCHANGED <<link, rx, tx>>
               \/ worker = "connect" /\ posted' = "connect_err" /\ CloseClient
        BY <1>1, <1>4, <2>8 DEF WorkerGivesUp, Post
      <3>2. NetOK' /\ (worker = "connect" => link' = "none") /\ (worker = "ota" => link' = link)
        BY <2>3, <2>4, <3>1
      <3>3. WorkerOK' /\ PanelOK' /\ GuiOK'
        BY <1>2, <1>5, <2>1, <3>1, <3>2 DEF Asking
      <3> QED
        BY <1>3, <3>2, <3>3
    <2>9. ASSUME NEW a \in Frames, WorkerEnds(a) PROVE ProcInv'
      <3>1. /\ call'["worker"] = NoCall /\ call'["gui"] = call["gui"] /\ step' = 0
            /\ UNCHANGED <<client, worker, timer, link, tx>> /\ rx # <<>> /\ rx' = Tail(rx)
            /\ call["worker"] # NoCall
            /\ \/ worker = "ota" /\ posted' \in {"ota_ok", "ota_err"}
               \/ worker = "connect" /\ posted' = "connect_ok"
        BY <1>1, <1>4, <2>9 DEF WorkerEnds, Post, Given
      <3>2. link # "none"
        BY <1>2, <3>1
      <3>3. NetOK' /\ WorkerOK' /\ PanelOK' /\ GuiOK'
        BY <1>2, <1>5, <2>1, <2>3, <3>1, <3>2 DEF Asking
      <3> QED
        BY <1>3, <3>3
    <2>10. ASSUME NEW a \in Frames, WorkerAsks(a) PROVE ProcInv'
      <3>1. /\ UNCHANGED <<client, worker, timer, link, posted>> /\ rx # <<>> /\ rx' = Tail(rx)
            /\ call["worker"] # NoCall /\ step' = step + 1
        BY <2>10 DEF WorkerAsks, Given
      <3>2. ASSUME NEW q \in Questions, NEW b \in 0..Blocks, Ask("worker", q, b, run)
            PROVE  /\ call'["worker"].q = q /\ CallOK(call'["worker"])
                   /\ call'["gui"] = call["gui"] /\ (acked' => tx' # <<>>)
        <4>1. /\ call'["worker"] = [q |-> q, wait |-> IF q = "route" THEN "route" ELSE "ack"]
              /\ call'["gui"] = call["gui"] /\ (acked' => tx' # <<>>)
          BY <1>1, <1>8, <2>1, <3>2
        <4> QED
          BY <1>10, <4>1
      <3>3. step # 0 /\ link # "none"
        BY <1>2, <3>1
      <3>4. CASE worker = "ota"
        <4>1. step + 1 \in 1..LastStep /\ Ask("worker", StepAt(step + 1), BlockAt(step + 1), run)
          BY <2>10, <3>4 DEF WorkerAsks
        <4>2. StepAt(step + 1) \in Questions /\ BlockAt(step + 1) \in 0..Blocks
          BY <1>1, <4>1, StepTypes
        <4>3. /\ call'["worker"].q = StepAt(step + 1) /\ CallOK(call'["worker"])
              /\ call'["gui"] = call["gui"] /\ (acked' => tx' # <<>>)
          BY <3>2, <4>1, <4>2
        <4>4. StepAt(step)' = StepAt(step + 1)
          BY <1>1, <2>1, <3>1, ListsStay
        <4>5. NetOK' /\ PanelOK' /\ GuiOK'
          BY <1>1, <1>2, <2>1, <3>1, <3>3, <3>4, <4>3 DEF Asking
        <4>6. WorkerOK'
          BY <1>1, <3>1, <3>4, <4>3, <4>4 DEF Asking
        <4> QED
          BY <1>3, <4>5, <4>6
      <3>5. CASE worker # "ota"
        <4>1. worker = "connect" /\ step = 1 /\ Ask("worker", "present", 0, run)
          BY <2>10, <3>5 DEF WorkerAsks
        <4>2. /\ call'["worker"].q = "present" /\ CallOK(call'["worker"])
              /\ call'["gui"] = call["gui"] /\ (acked' => tx' # <<>>)
          BY <1>1, <1>11, <3>2, <4>1
        <4>3. NetOK' /\ PanelOK' /\ GuiOK'
          BY <1>1, <1>2, <2>1, <3>1, <3>3, <4>1, <4>2 DEF Asking
        <4>4. WorkerOK'
          BY <1>1, <3>1, <3>3, <4>1, <4>2 DEF Asking, ConnectSteps
        <4> QED
          BY <1>3, <4>3, <4>4
      <3> QED
        BY <3>4, <3>5
    <2> QED
      BY <1>12, <2>5, <2>6, <2>7, <2>8, <2>9, <2>10 DEF WaitEnds
  <1>13. CASE Window \/ \E th \in Threads : Waits(th)
    BY <1>12, <1>13, WaitsAre
  <1>14. CASE Connect
    <2>1. /\ worker = "none" /\ ~client /\ worker' = "connect" /\ step' = 1
          /\ UNCHANGED <<cfg, client, posted, timer, dialog, result, call, netVars, run>>
      BY <1>14 DEF Connect, updateVars
    <2>2. NetOK' /\ PanelOK' /\ GuiOK'
      BY <1>2, <2>1 DEF netVars
    <2>3. WorkerOK'
      BY <1>2, <2>1 DEF netVars, Asking
    <2> QED
      BY <1>3, <2>2, <2>3
  <1>15. CASE TcpConnect
    <2>1. /\ worker = "connect" /\ step = 1 /\ link = "none" /\ link' = "up" /\ AskStep(1, run)
          /\ UNCHANGED <<cfg, panelVars, step, rx, acked, run>>
      BY <1>15 DEF TcpConnect, updateVars
    <2>2. Ask("worker", "route", 0, run)
      BY <2>1 DEF AskStep, WorkerSteps, ConnectSteps, BlockOf
    <2>3. /\ call'["worker"] = [q |-> "route", wait |-> "route"] /\ call'["gui"] = call["gui"]
          /\ acked' => tx' # <<>>
      BY <1>1, <1>8, <1>11, <2>1, <2>2
    <2>4. NetOK' /\ PanelOK' /\ GuiOK'
      BY <1>2, <2>1, <2>3 DEF panelVars
    <2>5. WorkerOK'
      BY <1>2, <2>1, <2>3 DEF panelVars, Asking, ConnectSteps, CallOK
    <2> QED
      BY <1>3, <2>4, <2>5
  <1>16. CASE TcpRefused
    <2>1. /\ worker = "connect" /\ link = "none" /\ posted' = "connect_err" /\ step' = 0
          /\ call'["worker"] = NoCall /\ call'["gui"] = call["gui"]
          /\ UNCHANGED <<cfg, client, worker, timer, link, rx, tx, acked, run>>
      BY <1>1, <1>4, <1>16 DEF TcpRefused, Post, netVars, updateVars
    <2>2. NetOK' /\ PanelOK' /\ GuiOK' /\ WorkerOK'
      BY <1>2, <1>5, <2>1 DEF Asking
    <2> QED
      BY <1>3, <2>2
  <1>17. CASE UserDisconnects
    <2>1. /\ GuiIdle /\ worker = "none" /\ client' = FALSE /\ CloseClient
          /\ UNCHANGED <<cfg, worker, posted, call, step, acked, run>>
      BY <1>17 DEF UserDisconnects, Disconnect, updateVars
    <2>2. NetOK' /\ link' = "none"
      BY <1>7, <2>1 DEF CloseClient
    <2>3. PanelOK' /\ GuiOK' /\ WorkerOK'
      BY <1>2, <2>1, <2>2 DEF Asking, GuiIdle
    <2> QED
      BY <1>3, <2>2, <2>3
  <1>18. CASE Start
    <2>1. /\ GuiIdle /\ worker = "none" /\ client /\ run' = run + 1 /\ worker' = "ota" /\ step' = 1
          /\ timer' = FALSE /\ link' = link /\ Ask("worker", OtaSteps[1], 0, run + 1) /\ run < MaxRuns
          /\ UNCHANGED <<cfg, client, posted, rx, acked>>
      BY <1>18 DEF Start
    <2>2. OtaSteps[1] = "session" /\ StepAt(step)' = "session"
      <3>1. 1 \in 1..LastStep
        BY <1>1
      <3>2. StepAt(1) = "session" /\ StepAt(step)' = StepAt(1)
        BY <1>1, <2>1, ListsStay DEF StepAt
      <3> QED
        BY <1>1, <3>1, <3>2, OtaShape
    <2>3. run + 1 \in 0..MaxRuns
      BY <1>1, <2>1, Bounds
    <2>4. /\ call'["worker"] = [q |-> "session", wait |-> "ack"] /\ call'["gui"] = call["gui"]
          /\ acked' => tx' # <<>>
      BY <1>1, <1>8, <1>11, <2>1, <2>2, <2>3
    <2>5. NetOK' /\ PanelOK' /\ GuiOK'
      BY <1>1, <1>2, <1>5, <2>1, <2>4 DEF GuiIdle
    <2>6. WorkerOK'
      BY <2>1, <2>2, <2>4 DEF Asking, CallOK
    <2> QED
      BY <1>3, <2>5, <2>6
  <1>19. ASSUME NEW q \in GuiQuestions, Ask("gui", q, 0, run), UNCHANGED <<cfg, client, worker, step, link, rx, acked, run>>,
                worker' = "ota" => ~timer' /\ q \in Pages, client
         PROVE  WorkerOK' /\ GuiOK' /\ NetOK'
    <2>1. /\ call'["gui"] = [q |-> q, wait |-> IF q = "route" THEN "route" ELSE "ack"]
          /\ call'["worker"] = call["worker"] /\ (acked' => tx' # <<>>) /\ q \in Questions
      BY <1>1, <1>8, <1>11, <1>19
    <2>2. CallOK(call'["gui"])
      BY <1>10, <2>1
    <2>3. WorkerOK'
      BY <1>6, <1>19, <2>1
    <2> QED
      BY <1>2, <1>19, <2>1, <2>2, <2>3
  <1>20. CASE KeepAlive
    <2>1. /\ timer /\ client /\ Ask("gui", "keepalive", 0, run) /\ "keepalive" \in GuiQuestions
          /\ UNCHANGED <<cfg, client, worker, posted, timer, step, link, rx, acked, run>>
      BY <1>20 DEF KeepAlive, panelVars, updateVars, GuiQuestions
    <2>2. worker # "ota"
      BY <1>2, <2>1
    <2>3. WorkerOK' /\ GuiOK' /\ NetOK'
      BY <1>19, <2>1, <2>2
    <2>4. PanelOK'
      BY <1>2, <2>1
    <2> QED
      BY <1>3, <2>3, <2>4
  <1>21. ASSUME NEW q \in Pages, AskPage(q), client, UNCHANGED <<cfg, client, worker, posted, timer, step, rx, acked, updateVars>>
         PROVE  ProcInv'
    <2>1. /\ Ask("gui", q, 0, run) /\ q \in GuiQuestions /\ link' = link /\ run' = run
      BY <1>21 DEF AskPage, updateVars, GuiQuestions
    <2>2. worker' = "ota" => ~timer'
      BY <1>2, <1>21
    <2>3. WorkerOK' /\ GuiOK' /\ NetOK'
      BY <1>19, <1>21, <2>1, <2>2
    <2>4. PanelOK'
      BY <1>2, <1>21, <2>1
    <2> QED
      BY <1>3, <2>3, <2>4
  <1>22. CASE ReadPage("dem") \/ ReadPage("dump")
    BY <1>21, <1>22 DEF ReadPage, panelVars, Pages
  <1>23. ASSUME UNCHANGED <<cfg, client, worker, posted, timer, call, step, link, rx, run>>, acked' => tx' # <<>>
         PROVE  ProcInv'
    <2>1. WorkerOK'
      BY <1>6, <1>23
    <2>2. PanelOK' /\ GuiOK' /\ NetOK'
      BY <1>2, <1>23
    <2> QED
      BY <1>3, <2>1, <2>2
  <1>24. CASE Answer \/ ClearAsked
    <2>1. CASE ClearAsked
      BY <1>1, <1>23, <2>1 DEF ClearAsked, netVars, updateVars
    <2>2. CASE ClearAnswered(TRUE) /\ client
      BY <1>21, <2>2 DEF ClearAnswered, Pages
    <2>3. CASE ClearAnswered(FALSE) \/ (ClearAnswered(TRUE) /\ ~client)
      BY <1>1, <1>23, <2>3 DEF ClearAnswered, updateVars
    <2> QED
      BY <1>24, <2>1, <2>2, <2>3 DEF Answer
  <1>25. CASE OnConnect
    <2>1. /\ GuiIdle /\ posted \in {"connect_ok", "connect_err"} /\ posted' = "none" /\ worker' = "none"
          /\ client' = (posted = "connect_ok") /\ UNCHANGED <<cfg, call, step, link, rx, tx, acked, run>>
      BY <1>25 DEF OnConnect, netVars, updateVars
    <2>2. worker = "connect" /\ step = 0
      BY <1>2, <2>1
    <2>3. PanelOK' /\ GuiOK' /\ NetOK' /\ WorkerOK'
      BY <1>2, <1>5, <2>1, <2>2 DEF Asking, GuiIdle
    <2> QED
      BY <1>3, <2>3
  <1>26. CASE OnOk
    <2>1. /\ GuiIdle /\ posted = "ota_ok" /\ posted' = "none" /\ worker' = "none"
          /\ UNCHANGED <<cfg, client, call, step, link, rx, tx, acked, run>>
      BY <1>26 DEF OnOk, netVars, updateVars
    <2>2. worker = "ota" /\ step = 0 /\ client
      BY <1>2, <2>1
    <2>3. PanelOK' /\ GuiOK' /\ NetOK' /\ WorkerOK'
      BY <1>2, <1>5, <2>1, <2>2 DEF Asking, GuiIdle
    <2> QED
      BY <1>3, <2>3
  <1>27. CASE OnErr
    <2>1. /\ posted = "ota_err" /\ posted' = "none" /\ worker' = "none"
          /\ Ask("gui", "still_there", 0, run) /\ "still_there" \in GuiQuestions
          /\ UNCHANGED <<cfg, client, timer, step, link, rx, acked, run>>
      BY <1>27 DEF OnErr, updateVars, GuiQuestions
    <2>2. worker = "ota" /\ step = 0 /\ client
      BY <1>2, <2>1
    <2>3. /\ call'["gui"] = [q |-> "still_there", wait |-> "ack"] /\ call'["worker"] = call["worker"]
          /\ acked' => tx' # <<>>
      BY <1>1, <1>8, <1>11, <2>1
    <2>4. PanelOK' /\ GuiOK' /\ NetOK' /\ WorkerOK'
      BY <1>2, <2>1, <2>2, <2>3 DEF Asking, CallOK
    <2> QED
      BY <1>3, <2>4
  <1>28. link = "none" => \A i \in 1..Len(tx) : ~tx[i].live
    BY DEF TInv, LiveInv
  <1>29. ASSUME UNCHANGED <<cfg, panelVars, call, step, run>>, link' = link,
                link = "none" => rx' = <<>>, acked' => tx' # <<>>
         PROVE  ProcInv'
    <2>1. WorkerOK'
      BY <1>6, <1>29 DEF panelVars
    <2>2. PanelOK' /\ GuiOK' /\ NetOK'
      BY <1>2, <1>29 DEF panelVars
    <2> QED
      BY <1>3, <2>1, <2>2
  <1>30. ASSUME tx # <<>>, link = "none" PROVE ~tx[1].live
    <2>1. 1 \in 1..Len(tx)
      BY <1>1, <1>30, QueueOps
    <2> QED
      BY <1>28, <1>30, <2>1
  <1>31. CASE BoardAck
    <2>1. /\ tx # <<>> /\ UNCHANGED <<cfg, panelVars, call, step, link, updateVars>>
          /\ \/ Say("route") /\ acked' = FALSE
             \/ Say("ack") /\ acked' = TRUE /\ tx' = tx
      BY <1>31 DEF BoardAck
    <2>2. link = "none" => rx' = <<>>
      BY <1>2, <1>30, <2>1 DEF Say
    <2> QED
      BY <1>29, <2>1, <2>2 DEF updateVars
  <1>32. ASSUME NEW qs, NEW a, Handling(qs, a) PROVE ProcInv'
    <2>1. /\ tx # <<>> /\ acked' = FALSE /\ (rx' = rx \/ Say(a))
          /\ UNCHANGED <<cfg, panelVars, call, step, link, updateVars>>
      BY <1>32 DEF Handling, Answered
    <2>2. link = "none" => rx' = <<>>
      BY <1>2, <1>30, <2>1 DEF Say
    <2> QED
      BY <1>29, <2>1, <2>2 DEF updateVars
  <1>33. CASE HandlePlain \/ HandleSession \/ HandleSeed \/ HandleKey \/ HandleStart \/ HandleBlock
              \/ HandleExit \/ HandleRoutine
    BY <1>32, <1>33 DEF HandlePlain, HandleSession, HandleSeed, HandleKey, HandleStart,
       HandleBlock, HandleExit, HandleRoutine
  <1>34. CASE S3
    BY <1>2, <1>29, <1>34 DEF S3, netVars, updateVars
  <1>35. ASSUME UNCHANGED <<cfg, panelVars, call, step, run, rx>>, link' = IF link = "up" THEN "broken" ELSE link,
                acked' => tx' # <<>>
         PROVE  ProcInv'
    <2>1. link' = "none" <=> link = "none"
      BY <1>35
    <2>2. StepAt(step)' = StepAt(step)
      BY <1>1, <1>35, ListsStay
    <2>3. PanelOK' /\ GuiOK' /\ NetOK'
      BY <1>2, <1>35, <2>1 DEF panelVars
    <2>4. WorkerOK'
      BY <1>2, <1>35, <2>1, <2>2 DEF panelVars, Asking
    <2> QED
      BY <1>3, <2>3, <2>4
  <1>36. CASE LinkLost
    <2>1. link = "up" /\ link' = "broken" /\ acked' = acked
          /\ UNCHANGED <<cfg, panelVars, call, step, run, rx>>
      BY <1>36 DEF LinkLost, updateVars
    <2>2. acked' => tx' # <<>>
      BY <1>7, <1>36, <2>1 DEF LinkLost
    <2> QED
      BY <1>35, <2>1, <2>2
  <1>37. CASE BoardRestart
    BY <1>35, <1>37 DEF BoardRestart, updateVars
  <1> QED
    BY <1>13, <1>14, <1>15, <1>16, <1>17, <1>18, <1>20, <1>22, <1>24, <1>25, <1>26, <1>27,
       <1>31, <1>33, <1>34, <1>36, <1>37 DEF Next, Clicks, Panel, Board, Faults
-----------------------------------------------------------------------------
(* An update shown as done was activated *)

LEMMA ExitHolds == ASSUME TInv, ExitInv, Next PROVE ExitInv'
  <1> DEFINE SentOK == \A i \in 1..Len(tx) :
                         /\ tx[i].run <= run
                         /\ tx[i].live /\ tx[i].q = "exit" => late \/ tx[i].run = run
             ReadOK == \A i \in 1..Len(rx) : rx[i] = "exit" => Good
             ShownOK == (posted = "ota_ok" /\ cfg.mode = "transfer" => Good) /\ OkMeansActivated
             Still == UNCHANGED <<run, late, activated>>
  <1>1. /\ TypeOK /\ cfg \in Configs /\ tx \in Seq(Question) /\ Len(tx) \in Nat /\ rx \in Seq(Frames)
        /\ Len(rx) \in Nat /\ (acked => tx # <<>>) /\ run \in Nat /\ run \in 0..MaxRuns
        /\ 0 \in 0..Blocks /\ "gui" \in Threads /\ "worker" \in Threads
        /\ \A i \in 1..Len(tx) : tx[i] \in Question
    BY Typed, QueueOps, Bounds DEF TInv, ProcInv
  <1>2. SentOK /\ ReadOK /\ ShownOK
    BY DEF ExitInv
  <1>3. ASSUME SentOK', ReadOK', ShownOK' PROVE ExitInv'
    BY <1>3 DEF ExitInv
  <1>4. ASSUME UNCHANGED <<run, late>>, activated \subseteq activated' PROVE Good => Good'
    BY <1>4 DEF Good
  <1>5. OkMeansActivated <=> (result = "ok" /\ cfg.mode = "transfer" => Good)
    BY DEF OkMeansActivated, Good
  <1>6. ASSUME UNCHANGED <<cfg, posted, result, run, late>>, activated \subseteq activated' PROVE ShownOK'
    BY <1>2, <1>4, <1>6 DEF OkMeansActivated, Good
  <1>7. ASSUME UNCHANGED <<rx, run, late>>, activated \subseteq activated' PROVE ReadOK'
    BY <1>2, <1>4, <1>7
  <1>8. ASSUME UNCHANGED <<tx, run, late>> PROVE SentOK'
    BY <1>2, <1>8
  <1>9. ASSUME tx # <<>>, tx' = Tail(tx), UNCHANGED <<run, late>> PROVE SentOK'
    <2>1. \A i \in 1..Len(tx') : i + 1 \in 1..Len(tx) /\ tx'[i] = tx[i + 1]
      BY <1>1, <1>9, DropFirst
    <2> QED
      BY <1>2, <1>9, <2>1
  <1>10. ASSUME CloseClient \/ (\E kept \in BOOLEAN : tx' = Orphaned(kept)), UNCHANGED <<run, late>>
         PROVE  SentOK'
    <2>1. Relabels(tx, tx') /\ \A i \in 1..Len(tx') : ~tx'[i].live
      BY <1>1, <1>10, Closing
    <2>2. ASSUME NEW i \in 1..Len(tx') PROVE tx'[i].run <= run
      <3>1. i \in 1..Len(tx) /\ tx[i] \in Question
        BY <1>1, <2>1 DEF Relabels
      <3>2. tx'[i].run = tx[i].run
        BY <2>1, <3>1 DEF Relabels, Question
      <3> QED
        BY <1>2, <3>1, <3>2
    <2> QED
      BY <1>10, <2>1, <2>2
  <1>11. ASSUME NEW th \in Threads, NEW q \in Questions, NEW b \in 0..Blocks, NEW r \in 0..MaxRuns,
                Ask(th, q, b, r), r = run', \/ UNCHANGED <<run, late>>
                                            \/ run' = run + 1 /\ late' = ExitDue
         PROVE  SentOK'
    <2>1. \A i \in 1..Len(tx') : \/ i <= Len(tx) /\ tx'[i] = tx[i]
                                 \/ tx'[i] = [q |-> q, blk |-> b, run |-> r, live |-> TRUE]
      <3>1. /\ TypeOK /\ th \in Threads /\ q \in Questions /\ b \in 0..Blocks /\ r \in 0..MaxRuns
            /\ Ask(th, q, b, r)
        BY <1>1, <1>11
      <3> QED
        BY ONLY <3>1, AskTx
    <2>2. ASSUME NEW i \in 1..Len(tx') PROVE /\ tx'[i].run <= run'
                                             /\ tx'[i].live /\ tx'[i].q = "exit" => late' \/ tx'[i].run = run'
      <3>1. run' \in Nat /\ run <= run'
        BY <1>1, <1>11
      <3>2. CASE i <= Len(tx) /\ tx'[i] = tx[i]
        <4>1. i \in 1..Len(tx) /\ tx[i].run \in Nat
          BY <1>1, <3>2, Bounds DEF Question
        <4>2. tx[i].run <= run /\ (tx[i].live /\ tx[i].q = "exit" => late \/ tx[i].run = run)
          BY <1>2, <4>1
        <4>3. tx[i].live /\ tx[i].q = "exit" => ExitDue
          BY <1>1, <4>1, Typed DEF ExitDue, Unanswered
        <4>4. tx'[i].run <= run'
          BY ONLY <1>1, <3>1, <3>2, <4>1, <4>2
        <4> QED
          BY <1>11, <3>2, <4>2, <4>3, <4>4
      <3>3. CASE tx'[i] = [q |-> q, blk |-> b, run |-> r, live |-> TRUE]
        <4>1. tx'[i].run = run'
          BY <1>11, <3>3
        <4> QED
          BY <3>1, <4>1
      <3> QED
        BY <2>1, <3>2, <3>3
    <2> QED
      BY <2>2
  <1>12. ASSUME rx # <<>>, rx' = Tail(rx), UNCHANGED <<run, late>>, activated \subseteq activated' PROVE ReadOK'
    <2>1. \A i \in 1..Len(rx') : i + 1 \in 1..Len(rx) /\ rx'[i] = rx[i + 1]
      BY <1>1, <1>12, FrameOps
    <2> QED
      BY <1>2, <1>4, <1>12, <2>1
  <1>13. ASSUME NEW f \in Frames, tx[1].live /\ f = "exit" => Good', Say(f),
                UNCHANGED <<run, late>>, activated \subseteq activated'
         PROVE  ReadOK'
    <2>1. CASE ~tx[1].live
      BY <1>7, <1>13, <2>1 DEF Say
    <2>2. CASE tx[1].live
      <3>1. rx' = Append(rx, f) /\ Len(rx') = Len(rx) + 1 /\ rx'[Len(rx) + 1] = f
            /\ \A i \in 1..Len(rx) : rx'[i] = rx[i]
        BY <1>1, <1>13, <2>2, FrameOps DEF Say
      <3>2. \A i \in 1..Len(rx') : i \in 1..Len(rx) \/ i = Len(rx) + 1
        BY <1>1, <3>1
      <3> QED
        BY <1>2, <1>4, <1>13, <2>2, <3>1, <3>2
    <2> QED
      BY <2>1, <2>2
  <1>14. ASSUME rx' = <<>> PROVE ReadOK'
    BY <1>14
  <1>15. CASE Window \/ \E th \in Threads : Waits(th)
    <2>1. WaitEnds /\ Still /\ UNCHANGED <<cfg, result>>
      BY <1>15, WaitsAre DEF waitHolds, updateVars, boardVars
    <2>2. ASSUME NEW a \in Frames, WorkerAsks(a) PROVE ExitInv'
      <3>1. ReadOK' /\ ShownOK'
        BY <1>6, <1>12, <2>1, <2>2 DEF WorkerAsks, Given
      <3>2. CASE worker = "ota"
        <4>1. step + 1 \in 1..LastStep /\ Ask("worker", StepAt(step + 1), BlockAt(step + 1), run)
          BY <2>2, <3>2 DEF WorkerAsks
        <4>2. StepAt(step + 1) \in Questions /\ BlockAt(step + 1) \in 0..Blocks
          BY <1>1, <4>1, StepTypes
        <4> QED
          BY <1>1, <1>3, <1>11, <2>1, <3>1, <4>1, <4>2
      <3>3. CASE worker # "ota"
        <4>1. Ask("worker", "present", 0, run) /\ "present" \in Questions
          BY <2>2, <3>3 DEF WorkerAsks, Questions
        <4> QED
          BY <1>1, <1>3, <1>11, <2>1, <3>1, <4>1
      <3> QED
        BY <3>2, <3>3
    <2>3. ASSUME NEW a \in Frames, WorkerEnds(a) PROVE ExitInv'
      <3>1. ReadOK' /\ SentOK'
        BY <1>8, <1>12, <2>1, <2>3 DEF WorkerEnds, Given
      <3>2. posted' = "ota_ok" /\ cfg.mode = "transfer" => a = "exit"
        BY <2>3 DEF WorkerEnds, Post, VerdictOk
      <3>3. a = rx[1] /\ 1 \in 1..Len(rx)
        BY <1>1, <2>3, FrameOps DEF WorkerEnds, Given
      <3>4. ShownOK'
        BY <1>2, <1>4, <2>1, <3>2, <3>3 DEF OkMeansActivated, Good
      <3> QED
        BY <1>3, <3>1, <3>4
    <2>4. CASE WorkerGivesUp
      <3>1. posted' # "ota_ok"
        BY <2>4 DEF WorkerGivesUp, Post
      <3>2. ShownOK'
        BY <1>2, <1>4, <2>1, <3>1 DEF OkMeansActivated, Good
      <3>3. SentOK' /\ ReadOK'
        BY <1>7, <1>8, <1>10, <1>14, <2>1, <2>4 DEF WorkerGivesUp, CloseClient
      <3> QED
        BY <1>3, <3>2, <3>3
    <2>5. ASSUME NEW th \in Threads, Takes(th) PROVE ExitInv'
      BY <1>3, <1>6, <1>8, <1>12, <2>1, <2>5 DEF Takes
    <2>6. CASE GuiEnds
      BY <1>3, <1>6, <1>7, <1>8, <1>12, <2>1, <2>6 DEF GuiEnds
    <2>7. CASE GuiGivesUp
      BY <1>3, <1>6, <1>10, <1>14, <2>1, <2>7 DEF GuiGivesUp, CloseClient
    <2> QED
      BY <2>1, <2>2, <2>3, <2>4, <2>5, <2>6, <2>7 DEF WaitEnds
  <1>16. CASE Connect \/ ClearAsked \/ S3
    BY <1>3, <1>6, <1>7, <1>8, <1>16 DEF Connect, ClearAsked, S3, netVars, panelVars,
       updateVars, boardVars
  <1>17. CASE OnConnect \/ TcpRefused
    <2>1. UNCHANGED <<cfg, result, tx, rx, run, late, activated>> /\ posted' # "ota_ok"
      BY <1>17 DEF OnConnect, TcpRefused, Post, netVars, updateVars, boardVars
    <2>2. ShownOK'
      BY <1>2, <1>4, <2>1 DEF OkMeansActivated, Good
    <2> QED
      BY <1>3, <1>7, <1>8, <2>1, <2>2
  <1>18. CASE OnOk
    <2>1. UNCHANGED <<cfg, tx, rx, run, late, activated>> /\ posted = "ota_ok" /\ posted' = "none"
      BY <1>18 DEF OnOk, netVars, updateVars, boardVars
    <2>2. ShownOK'
      BY <1>2, <1>4, <2>1 DEF OkMeansActivated, Good
    <2> QED
      BY <1>3, <1>7, <1>8, <2>1, <2>2
  <1>19. CASE OnErr
    <2>1. /\ Ask("gui", "still_there", 0, run) /\ posted' = "none" /\ result' = "err"
          /\ UNCHANGED <<cfg, rx, run, late, activated>>
      BY <1>19 DEF OnErr, updateVars, boardVars
    <2>2. SentOK' /\ ReadOK'
      BY <1>1, <1>7, <1>11, <2>1 DEF Questions, GuiQuestions
    <2>3. ShownOK'
      BY <2>1 DEF OkMeansActivated
    <2> QED
      BY <1>3, <2>2, <2>3
  <1>20. CASE Start
    <2>1. /\ Ask("worker", OtaSteps[1], 0, run + 1) /\ run < MaxRuns /\ run' = run + 1 /\ late' = ExitDue
          /\ result' = "running" /\ worker = "none" /\ UNCHANGED <<cfg, posted, rx, activated>>
      BY <1>20 DEF Start, boardVars
    <2>2. OtaSteps[1] \in Questions /\ run + 1 \in 0..MaxRuns
      <3>1. 1 \in 1..LastStep
        BY <1>1, StepTypes
      <3> QED
        BY <1>1, <2>1, <3>1, OtaShape, Bounds
    <2>3. SentOK'
      BY <1>1, <1>11, <2>1, <2>2
    <2>4. ReadOK'
      <3>1. ASSUME NEW i \in 1..Len(rx), rx[i] = "exit" PROVE ExitDue /\ activated # {}
        BY <1>1, <1>2, <3>1, Typed DEF ExitDue, Good
      <3> QED
        BY <2>1, <3>1 DEF Good
    <2>5. ShownOK'
      <3>1. posted = "none"
        BY <2>1 DEF TInv, ProcInv
      <3> QED
        BY <2>1, <3>1 DEF OkMeansActivated
    <2> QED
      BY <1>3, <2>3, <2>4, <2>5
  <1>21. ASSUME NEW th \in Threads, NEW q \in Questions, Ask(th, q, 0, run),
                UNCHANGED <<cfg, posted, result, rx, run, late, activated>>
         PROVE  ExitInv'
    <2>1. SentOK' /\ ReadOK' /\ ShownOK'
      BY <1>1, <1>6, <1>7, <1>11, <1>21
    <2> QED
      BY <1>3, <2>1
  <1>22. CASE TcpConnect
    <2>1. Ask("worker", "route", 0, run)
      BY <1>22 DEF TcpConnect, AskStep, WorkerSteps, ConnectSteps, BlockOf
    <2> QED
      BY <1>1, <1>21, <1>22, <2>1 DEF TcpConnect, panelVars, updateVars, boardVars, Questions
  <1>23. CASE KeepAlive
    BY <1>1, <1>21, <1>23 DEF KeepAlive, panelVars, updateVars, boardVars, Questions,
       GuiQuestions
  <1>24. CASE ReadPage("dem") \/ ReadPage("dump")
    BY <1>1, <1>21, <1>24 DEF ReadPage, AskPage, panelVars, updateVars, boardVars, Questions,
       GuiQuestions, Pages
  <1>25. CASE Answer
    <2>1. UNCHANGED <<cfg, posted, result, rx, run, late, activated>>
      BY <1>25 DEF Answer, ClearAnswered, updateVars, boardVars
    <2>2. tx' = tx \/ Ask("gui", "dem", 0, run)
      BY <1>25 DEF Answer, ClearAnswered, AskPage
    <2>3. "dem" \in Questions
      BY DEF Questions, GuiQuestions, Pages
    <2> QED
      BY <1>1, <1>3, <1>6, <1>7, <1>8, <1>21, <2>1, <2>2, <2>3
  <1>26. CASE UserDisconnects
    <2>1. CloseClient /\ UNCHANGED <<cfg, posted, result, run, late, activated>>
      BY <1>26 DEF UserDisconnects, Disconnect, updateVars, boardVars
    <2> QED
      BY <1>3, <1>6, <1>10, <1>14, <2>1 DEF CloseClient
  <1>27. CASE LinkLost
    BY <1>3, <1>6, <1>7, <1>10, <1>27 DEF LinkLost, panelVars, updateVars, boardVars
  <1>28. CASE BoardRestart
    <2>1. tx' = <<>> /\ UNCHANGED <<cfg, posted, result, rx, run, late, activated>>
      BY <1>28 DEF BoardRestart, panelVars, updateVars
    <2>2. SentOK'
      BY <2>1
    <2> QED
      BY <1>3, <1>6, <1>7, <2>1, <2>2
  <1>29. CASE BoardAck
    <2>1. /\ tx # <<>> /\ UNCHANGED <<cfg, posted, result, run, late, activated>>
          /\ \/ Say("route") /\ tx' = Tail(tx)
             \/ Say("ack") /\ tx' = tx
      BY <1>29 DEF BoardAck, panelVars, updateVars, boardVars
    <2>2. "route" \in Frames /\ "ack" \in Frames
      BY DEF Frames
    <2>3. ReadOK'
      BY <1>13, <2>1, <2>2
    <2> QED
      BY <1>3, <1>6, <1>8, <1>9, <2>1, <2>3
  <1>30. ASSUME NEW qs, NEW a \in Answers \cup {"none"}, Handling(qs, a), activated \subseteq activated',
                tx[1].live /\ a = "exit" => Good'
         PROVE  ExitInv'
    <2>1. /\ tx # <<>> /\ tx' = Tail(tx) /\ Answered(a) /\ UNCHANGED <<cfg, posted, result, run, late>>
      BY <1>30 DEF Handling, panelVars, updateVars
    <2>2. ReadOK'
      BY <1>7, <1>13, <1>30, <2>1 DEF Answered, Frames
    <2> QED
      BY <1>3, <1>6, <1>9, <1>30, <2>1, <2>2
  <1>31. {"session", "seed", "key", "nrc", "start", "block", "exit", "routine_ok", "routine_fail", "dem",
          "dump", "present"} \subseteq Answers
    BY DEF Answers
  <1>32. CASE HandlePlain
    <2>1. PICK q \in {"keepalive", "still_there", "present"} \cup Pages :
            Handling({q}, CASE q = "keepalive" -> "none" [] q = "still_there" -> "present" [] OTHER -> q)
      BY <1>32 DEF HandlePlain
    <2>2. (CASE q = "keepalive" -> "none" [] q = "still_there" -> "present" [] OTHER -> q)
             \in {"none", "present", "dem", "dump"}
      BY DEF Pages
    <2>3. activated' = activated
      BY <1>32 DEF HandlePlain, boardVars
    <2> HIDE DEF Good
    <2> QED
      BY <1>30, <1>31, <2>1, <2>2, <2>3
  <1>33. CASE HandleSession \/ HandleSeed \/ HandleKey \/ HandleStart \/ HandleBlock
    <2> DEFINE Plain == {"session", "seed", "key", "nrc", "start", "block"}
    <2>1. activated' = activated
      BY <1>33 DEF HandleSession, HandleSeed, HandleKey, HandleStart, HandleBlock
    <2>2. ASSUME NEW qs, NEW a \in Plain, Handling(qs, a) PROVE ExitInv'
      BY <1>30, <1>31, <2>1, <2>2
    <2>3. CASE HandleSession
      BY <2>2, <2>3 DEF HandleSession
    <2>4. CASE HandleSeed
      BY <2>2, <2>4 DEF HandleSeed
    <2>5. CASE HandleKey
      <3>1. (IF seed THEN "key" ELSE "nrc") \in Plain
        OBVIOUS
      <3> QED
        BY <2>2, <2>5, <3>1 DEF HandleKey
    <2>6. CASE HandleStart
      <3>1. PICK opens \in BOOLEAN : Handling({"start"}, IF GateOk /\ opens THEN "start" ELSE "nrc")
        BY <2>6 DEF HandleStart
      <3>2. (IF GateOk /\ opens THEN "start" ELSE "nrc") \in Plain
        OBVIOUS
      <3> QED
        BY <2>2, <3>1, <3>2
    <2>7. CASE HandleBlock
      <3>1. PICK a \in {"block", "nrc"} : Handling({"block"}, a)
        BY <2>7 DEF HandleBlock
      <3> QED
        BY <2>2, <3>1
    <2> QED
      BY <1>33, <2>3, <2>4, <2>5, <2>6, <2>7
  <1>34. CASE HandleExit
    <2>1. PICK a \in {"exit", "nrc"} :
            /\ Handling({"exit"}, a) /\ activated \subseteq activated'
            /\ a = "exit" => tx[1].run \in activated'
      BY <1>34 DEF HandleExit
    <2>2. tx # <<>> /\ tx[1].q = "exit" /\ UNCHANGED <<run, late>>
      BY <2>1 DEF Handling, updateVars
    <2>3. tx[1].live => late \/ tx[1].run = run
      <3>1. 1 \in 1..Len(tx)
        BY <1>1, <2>2, QueueOps
      <3> QED
        BY <1>2, <2>2, <3>1
    <2>4. tx[1].live /\ a = "exit" => Good'
      BY <2>1, <2>2, <2>3 DEF Good
    <2> QED
      BY <1>30, <1>31, <2>1, <2>4
  <1>35. CASE HandleRoutine
    <2>1. PICK a \in {"routine_ok", "routine_fail"} :
            Handling({"routine"}, a) /\ activated \subseteq activated'
      BY <1>35 DEF HandleRoutine
    <2> QED
      BY <1>30, <1>31, <2>1
  <1> QED
    BY <1>15, <1>16, <1>17, <1>18, <1>19, <1>20, <1>22, <1>23, <1>24, <1>25, <1>26, <1>27,
       <1>28, <1>29, <1>32, <1>33, <1>34, <1>35 DEF Next, Clicks, Panel, Board, Faults

-----------------------------------------------------------------------------
(* The block counter, and the transfer questions of a queue *)

\* The remainder of the next number is the next remainder, or 0.
LEMMA WrapsAt ==
  ASSUME NEW k \in Nat, k >= 2, NEW m \in Nat
  PROVE  (m + 1) % k = IF m % k = k - 1 THEN 0 ELSE (m % k) + 1
  <1>1. m % k \in 0..(k - 1) /\ m \div k \in Int
    BY Z3
  <1>2. PICK q \in Int, r \in Int : q = m \div k /\ r = m % k
    BY <1>1
  <1>3. m = k * q + r
    BY <1>2, Z3
  <1>4. ASSUME NEW x \in Int, NEW p \in Int, NEW s \in 0..(k - 1), x = k * p + s PROVE x % k = s
    BY <1>4, Z3
  <1>5. CASE r = k - 1
    <2>1. k * (q + 1) = k * q + k
      OBVIOUS
    <2>2. m + 1 = k * (q + 1) + 0
      BY <1>1, <1>3, <1>5, <2>1
    <2>3. m + 1 \in Int /\ q + 1 \in Int /\ 0 \in 0..(k - 1)
      BY <1>2
    <2>4. (m + 1) % k = 0
      BY ONLY <1>4, <2>2, <2>3, Zenon
    <2> QED
      BY <1>2, <1>5, <2>4
  <1>6. CASE r # k - 1
    <2>1. m + 1 = k * q + (r + 1) /\ r + 1 \in 0..(k - 1) /\ m + 1 \in Int
      BY <1>1, <1>2, <1>3, <1>6
    <2>2. (m + 1) % k = r + 1
      BY ONLY <1>4, <2>1, q \in Int, Zenon
    <2> QED
      BY <1>2, <1>6, <2>2
  <1> QED
    BY <1>5, <1>6

LEMMA TailTr ==
  ASSUME NEW s \in Seq(Question), s # <<>>, QueueInv(s)
  PROVE  /\ QueueInv(Tail(s))
         /\ \A i \in 1..Len(Tail(s)) :
               /\ i + 1 \in 1..Len(s) /\ Tail(s)[i] = s[i + 1]
               /\ FirstTr(Tail(s), i) => IF Tr(s, 1) THEN Follows(s[1], s[i + 1]) ELSE FirstTr(s, i + 1)
               /\ LastTr(Tail(s), i) => LastTr(s, i + 1)
         /\ NoTr(Tail(s)) => IF Tr(s, 1) THEN LastTr(s, 1) ELSE NoTr(s)
  <1> DEFINE t == Tail(s)
  <1>1. Len(s) \in Nat /\ Len(s) >= 1 /\ Len(t) = Len(s) - 1
        /\ \A i \in 1..Len(t) : i + 1 \in 1..Len(s) /\ t[i] = s[i + 1]
    BY QueueOps
  <1> HIDE DEF t
  <1>2. \A i \in 1..Len(t) : Tr(t, i) <=> Tr(s, i + 1)
    BY <1>1 DEF Tr
  <1>3. ASSUME NEW k \in 2..Len(s) PROVE k - 1 \in 1..Len(t) /\ (Tr(s, k) <=> Tr(t, k - 1))
    <2>1. k - 1 \in 1..Len(t) /\ (k - 1) + 1 = k
      BY <1>1
    <2> QED
      BY <1>2, <2>1
  <1>4. ASSUME NEW i \in 1..Len(t), NEW j \in 1..Len(t), Adjacent(t, i, j)
        PROVE  Adjacent(s, i + 1, j + 1)
    <2>1. i < j /\ Tr(s, i + 1) /\ Tr(s, j + 1)
      BY <1>2, <1>4 DEF Adjacent
    <2>2. ASSUME NEW k \in (i + 2)..j PROVE ~Tr(s, k)
      <3>1. k \in 2..Len(s) /\ k - 1 \in (i + 1)..(j - 1)
        BY ONLY <1>1, i \in 1..Len(t), j \in 1..Len(t), k \in (i + 2)..j
      <3> QED
        BY <1>3, <1>4, <3>1 DEF Adjacent
    <2>3. ((i + 1) + 1)..((j + 1) - 1) = (i + 2)..j
      BY <1>1
    <2> QED
      BY <1>1, <2>1, <2>2, <2>3 DEF Adjacent
  <1>5. QueueInv(t)
    <2>1. ASSUME NEW i \in 1..Len(t), NEW j \in 1..Len(t), Adjacent(t, i, j) PROVE Follows(t[i], t[j])
      BY <1>1, <1>4, <2>1 DEF QueueInv
    <2> QED
      BY <2>1 DEF QueueInv
  <1>6. ASSUME NEW i \in 1..Len(t), FirstTr(t, i)
        PROVE  IF Tr(s, 1) THEN Follows(s[1], s[i + 1]) ELSE FirstTr(s, i + 1)
    <2>1. Tr(s, i + 1) /\ i + 1 \in 1..Len(s)
      BY <1>1, <1>2, <1>6 DEF FirstTr
    <2>2. ASSUME NEW k \in 2..i PROVE ~Tr(s, k)
      <3>1. k \in 2..Len(s) /\ k - 1 \in 1..(i - 1)
        BY ONLY <1>1, i \in 1..Len(t), k \in 2..i
      <3> QED
        BY <1>3, <1>6, <3>1 DEF FirstTr
    <2>3. CASE Tr(s, 1)
      <3>1. (1 + 1)..((i + 1) - 1) = 2..i /\ 1 < i + 1 /\ 1 \in 1..Len(s)
        BY <1>1
      <3>2. Adjacent(s, 1, i + 1)
        BY <2>1, <2>2, <2>3, <3>1 DEF Adjacent
      <3> QED
        BY <2>1, <2>3, <3>1, <3>2 DEF QueueInv
    <2>4. CASE ~Tr(s, 1)
      <3>1. \A k \in 1..((i + 1) - 1) : k = 1 \/ k \in 2..i
        BY <1>1
      <3>2. \A k \in 1..((i + 1) - 1) : ~Tr(s, k)
        BY <2>2, <2>4, <3>1
      <3> QED
        BY <2>1, <2>4, <3>2 DEF FirstTr
    <2> QED
      BY <2>3, <2>4
  <1>7. ASSUME NEW i \in 1..Len(t), LastTr(t, i) PROVE LastTr(s, i + 1)
    <2>1. Tr(s, i + 1)
      BY <1>2, <1>7 DEF LastTr
    <2>2. ASSUME NEW k \in ((i + 1) + 1)..Len(s) PROVE ~Tr(s, k)
      <3>1. k \in 2..Len(s) /\ k - 1 \in (i + 1)..Len(t)
        BY ONLY <1>1, i \in 1..Len(t), k \in ((i + 1) + 1)..Len(s)
      <3> QED
        BY <1>3, <1>7, <3>1 DEF LastTr
    <2> QED
      BY <2>1, <2>2 DEF LastTr
  <1>8. ASSUME NoTr(t) PROVE IF Tr(s, 1) THEN LastTr(s, 1) ELSE NoTr(s)
    <2>1. \A k \in 2..Len(s) : ~Tr(s, k)
      BY <1>3, <1>8 DEF NoTr
    <2>2. CASE Tr(s, 1)
      BY <2>1, <2>2 DEF LastTr
    <2>3. CASE ~Tr(s, 1)
      <3>1. \A k \in 1..Len(s) : k = 1 \/ k \in 2..Len(s)
        BY <1>1
      <3> QED
        BY <2>1, <2>3, <3>1 DEF NoTr
    <2> QED
      BY <2>2, <2>3
  <1> QED
    BY <1>1, <1>5, <1>6, <1>7, <1>8 DEF t

LEMMA AppendTr ==
  ASSUME NEW s \in Seq(Question), QueueInv(s), NEW e \in Question,
         e.q \in Transfer => \A i \in 1..Len(s) : LastTr(s, i) => Follows(s[i], e)
  PROVE  /\ QueueInv(Append(s, e))
         /\ \A i \in 1..Len(Append(s, e)) :
               /\ FirstTr(Append(s, e), i) =>
                    \/ i \in 1..Len(s) /\ Append(s, e)[i] = s[i] /\ FirstTr(s, i)
                    \/ Append(s, e)[i] = e /\ e.q \in Transfer /\ NoTr(s)
               /\ LastTr(Append(s, e), i) =>
                    IF e.q \in Transfer THEN Append(s, e)[i] = e
                    ELSE i \in 1..Len(s) /\ Append(s, e)[i] = s[i] /\ LastTr(s, i)
         /\ NoTr(Append(s, e)) => e.q \notin Transfer /\ NoTr(s)
  <1> DEFINE t == Append(s, e)
             n == Len(s)
  <1>1. n \in Nat /\ Len(t) = n + 1 /\ t[n + 1] = e /\ \A i \in 1..n : t[i] = s[i]
    BY QueueOps
  <1> HIDE DEF t, n
  <1>2. (\A i \in 1..n : Tr(t, i) <=> Tr(s, i)) /\ (Tr(t, n + 1) <=> e.q \in Transfer)
    BY <1>1 DEF Tr
  <1>3. \A i \in 1..Len(t) : i \in 1..n \/ i = n + 1
    BY <1>1
  <1>4. NoTr(t) => e.q \notin Transfer /\ NoTr(s)
    BY <1>1, <1>2 DEF NoTr, n
  <1>5. ASSUME NEW i \in 1..Len(t), FirstTr(t, i)
        PROVE  \/ i \in 1..n /\ t[i] = s[i] /\ FirstTr(s, i)
               \/ t[i] = e /\ e.q \in Transfer /\ NoTr(s)
    <2>1. CASE i \in 1..n
      <3>1. \A k \in 1..(i - 1) : k \in 1..n
        BY <1>1, <2>1
      <3> QED
        BY <1>1, <1>2, <1>5, <2>1, <3>1 DEF FirstTr
    <2>2. CASE i = n + 1
      <3>1. 1..(i - 1) = 1..n
        BY <1>1, <2>2
      <3> QED
        BY <1>1, <1>2, <1>5, <2>2, <3>1 DEF FirstTr, NoTr, n
    <2> QED
      BY <1>3, <2>1, <2>2
  <1>6. ASSUME NEW i \in 1..Len(t), LastTr(t, i)
        PROVE  IF e.q \in Transfer THEN t[i] = e ELSE i \in 1..n /\ t[i] = s[i] /\ LastTr(s, i)
    <2>1. CASE i \in 1..n
      <3>1. n + 1 \in (i + 1)..Len(t) /\ \A k \in (i + 1)..n : k \in (i + 1)..Len(t) /\ k \in 1..n
        BY <1>1, <2>1
      <3>2. e.q \notin Transfer
        BY <1>2, <1>6, <3>1 DEF LastTr
      <3>3. LastTr(s, i)
        BY <1>2, <1>6, <2>1, <3>1 DEF LastTr, n
      <3> QED
        BY <1>1, <2>1, <3>2, <3>3
    <2>2. CASE i = n + 1
      BY <1>1, <1>2, <1>6, <2>2 DEF LastTr
    <2> QED
      BY <1>3, <2>1, <2>2
  <1>7. QueueInv(t)
    <2>1. ASSUME NEW i \in 1..Len(t), NEW j \in 1..Len(t), Adjacent(t, i, j) PROVE Follows(t[i], t[j])
      <3>1. i \in 1..n /\ i < j
        BY <1>1, <2>1 DEF Adjacent
      <3>2. CASE j \in 1..n
        <4>1. \A k \in (i + 1)..(j - 1) : k \in 1..n
          BY <1>1, <3>1, <3>2
        <4>2. Adjacent(s, i, j)
          BY <1>2, <2>1, <3>1, <3>2, <4>1 DEF Adjacent
        <4> QED
          BY <1>1, <3>1, <3>2, <4>2 DEF QueueInv, n
      <3>3. CASE j = n + 1
        <4>1. (i + 1)..(j - 1) = (i + 1)..n /\ \A k \in (i + 1)..n : k \in 1..n
          BY <1>1, <3>1, <3>3
        <4>2. LastTr(s, i) /\ e.q \in Transfer
          BY <1>2, <2>1, <3>1, <3>3, <4>1 DEF Adjacent, LastTr, n
        <4> QED
          BY <1>1, <3>1, <3>3, <4>2 DEF n
      <3> QED
        BY <1>3, <3>2, <3>3
    <2> QED
      BY <2>1 DEF QueueInv
  <1> QED
    BY <1>4, <1>5, <1>6, <1>7 DEF t, n

LEMMA RelabelTr ==
  ASSUME NEW s \in Seq(Question), NEW t \in Seq(Question), Relabels(s, t), QueueInv(s)
  PROVE  /\ QueueInv(t)
         /\ \A i \in 1..Len(t) : FirstTr(t, i) =>
               /\ i \in 1..Len(s) /\ FirstTr(s, i)
               /\ t[i].q = s[i].q /\ t[i].run = s[i].run /\ t[i].blk = s[i].blk
  <1>1. Len(s) \in Nat /\ Len(t) \in {0, 1, Len(s)} /\ Len(t) <= Len(s)
        /\ \A i \in 1..Len(s) : s[i] \in Question
    BY QueueOps DEF Relabels
  <1>2. \A i \in 1..Len(t) : /\ i \in 1..Len(s)
                             /\ t[i].q = s[i].q /\ t[i].run = s[i].run /\ t[i].blk = s[i].blk
    <2>1. ASSUME NEW i \in 1..Len(t)
          PROVE  i \in 1..Len(s) /\ (t[i] = s[i] \/ t[i] = [s[i] EXCEPT !.live = FALSE])
      BY <1>1 DEF Relabels
    <2>2. ASSUME NEW q \in Question, NEW p, p = [q EXCEPT !.live = FALSE]
          PROVE  p.q = q.q /\ p.run = q.run /\ p.blk = q.blk
      BY <2>2 DEF Question
    <2> QED
      BY <1>1, <2>1, <2>2
  <1>3. \A i \in 1..Len(t) : Tr(t, i) <=> Tr(s, i)
    BY <1>2 DEF Tr
  <1>4. ASSUME NEW i \in 1..Len(t), FirstTr(t, i) PROVE FirstTr(s, i)
    <2>1. \A k \in 1..(i - 1) : k \in 1..Len(t)
      BY <1>1
    <2> QED
      BY <1>3, <1>4, <2>1 DEF FirstTr
  <1>5. ASSUME NEW i \in 1..Len(t), NEW j \in 1..Len(t), Adjacent(t, i, j) PROVE Follows(t[i], t[j])
    <2>1. \A k \in (i + 1)..(j - 1) : k \in 1..Len(t)
      BY <1>1
    <2>2. Adjacent(s, i, j)
      BY <1>3, <1>5, <2>1 DEF Adjacent
    <2>3. Follows(s[i], s[j])
      BY <1>2, <2>2 DEF QueueInv
    <2> QED
      BY <1>2, <2>3 DEF Follows, Continues
  <1> QED
    BY <1>2, <1>4, <1>5 DEF QueueInv

\* In a transfer the worker's next question continues the one before.
LEMMA NextStep ==
  ASSUME cfg \in Configs, NEW i \in 1..LastStep, i + 1 \in 1..LastStep,
         StepAt(i + 1) \in {"block", "exit"}, NEW e, e.q = StepAt(i + 1), e.blk = BlockAt(i + 1)
  PROVE  /\ StepAt(i) \in {"start", "block"} /\ (StepAt(i) = "start" => BlockAt(i) = 0)
         /\ Continues(e, e.run, BlockAt(i))
  <1>1. cfg.mode # "routine" /\ Opens \in {2, 4} /\ LastStep = Opens + Blocks + 1 /\ Blocks \in Nat \ {0}
    BY StepTypes, Bounds DEF StepAt, LastStep
  <1>2. i \in Nat /\ i >= Opens /\ i < LastStep
    BY <1>1 DEF StepAt
  <1>3. StepAt(i) = IF i = Opens THEN "start" ELSE "block"
    BY <1>1, <1>2 DEF StepAt
  <1>4. BlockAt(i) = i - Opens
    BY <1>1, <1>2, <1>3 DEF BlockAt
  <1>5. StepAt(i + 1) = IF i + 1 = LastStep THEN "exit" ELSE "block"
    BY <1>1, <1>2 DEF StepAt
  <1>6. i - Opens < Blocks <=> i + 1 # LastStep
    BY <1>1, <1>2
  <1>7. StepAt(i + 1) = "block" => BlockAt(i + 1) = (i - Opens) + 1
    BY <1>1, <1>2 DEF BlockAt
  <1> QED
    BY <1>1, <1>2, <1>3, <1>4, <1>5, <1>6, <1>7 DEF Continues

-----------------------------------------------------------------------------
(* What reaches the board of a transfer is one update, block by block *)

LEMMA TransferHolds == ASSUME TInv, TransferInv, Next PROVE TransferInv'
  <1> DEFINE Gate == UNCHANGED <<cfg, session, unlocked>>
             Board0 == Gate /\ xfer' = xfer
             Place == UNCHANGED <<cfg, worker, step, link, run>>
             AtStart(x, s) == \A i \in 1..Len(s) : FirstTr(s, i) => Resumes(x, s[i])
  <1>1. /\ TypeOK /\ cfg \in Configs /\ tx \in Seq(Question) /\ Len(tx) \in Nat /\ (acked => tx # <<>>)
        /\ run \in 0..MaxRuns /\ run \in Nat /\ 0 \in 0..Blocks /\ "gui" \in Threads /\ "worker" \in Threads
        /\ LastStep \in Nat /\ tx' \in Seq(Question)
    <2>1. tx' \in Seq(Question)
      BY TypesHold DEF TypeOK, Question
    <2> QED
      BY <2>1, Typed, StepTypes, Bounds DEF TInv, ProcInv
  <1>2. QueueInv(tx) /\ BoardInv(xfer, tx) /\ AskedTr
    BY DEF TransferInv
  <1>3. ASSUME cfg' = cfg, worker' # "ota" \/ step' = 0 \/ link' # "up" \/ StepAt(step') \notin Transfer
        PROVE  AskedTr'
    <2>1. StepAt(step)' = StepAt(step')
      BY <1>1, <1>3, ListsStay
    <2> QED
      BY <1>3, <2>1 DEF AskedTr, Asking
  <1>4. ASSUME Place, Asking /\ link = "up" /\ StepAt(step) \in Transfer =>
                        /\ LastIs(tx', StepAt(step), run, BlockAt(step))
                        /\ NoTr(tx') => BoardIs(xfer', StepAt(step), run, BlockAt(step))
        PROVE  AskedTr'
    <2>1. StepAt(step)' = StepAt(step) /\ BlockAt(step)' = BlockAt(step)
      BY <1>1, <1>4, ListsStay
    <2>2. Asking' = Asking
      BY <1>4 DEF Asking
    <2> QED
      BY <1>4, <2>1, <2>2 DEF AskedTr
  <1>5. ASSUME Gate \/ (GateOk => GateOk'), QueueInv(tx'), AskedTr',
               xfer'.on => Partial(xfer') /\ GateOk /\ AtStart(xfer', tx')
        PROVE  TransferInv'
    <2>1. GateOk => GateOk'
      BY <1>5 DEF GateOk
    <2> QED
      BY <1>5, <2>1 DEF TransferInv, BoardInv
  <1>6. ASSUME Board0, tx' = tx, AskedTr' PROVE TransferInv'
    BY <1>2, <1>5, <1>6 DEF BoardInv
  <1>7. ASSUME Place, tx' = tx, xfer' = xfer PROVE AskedTr'
    BY <1>2, <1>4, <1>7 DEF AskedTr
  <1>8. ASSUME Board0, CloseClient \/ (\E kept \in BOOLEAN : tx' = Orphaned(kept)), AskedTr'
        PROVE  TransferInv'
    <2>1. Relabels(tx, tx')
      BY <1>1, <1>8, Closing
    <2>2. /\ QueueInv(tx')
          /\ \A i \in 1..Len(tx') : FirstTr(tx', i) =>
               /\ i \in 1..Len(tx) /\ FirstTr(tx, i)
               /\ tx'[i].q = tx[i].q /\ tx'[i].run = tx[i].run /\ tx'[i].blk = tx[i].blk
      BY <1>1, <1>2, <2>1, RelabelTr
    <2>3. xfer.on => AtStart(xfer, tx')
      BY <1>2, <2>2 DEF BoardInv, Resumes, Continues
    <2> QED
      BY <1>2, <1>5, <1>8, <2>2, <2>3 DEF BoardInv
  \* A question outside the transfer.
  <1>9. ASSUME Board0, NEW th \in Threads, NEW q \in Questions \ Transfer, NEW b \in 0..Blocks,
               NEW r \in 0..MaxRuns, Ask(th, q, b, r)
        PROVE  /\ AskedTr' => TransferInv'
               /\ Place => AskedTr'
    <2> DEFINE e == [q |-> q, blk |-> b, run |-> r, live |-> TRUE]
    <2>1. e \in Question /\ (tx' = Append(tx, e) \/ tx' = tx)
      <3>1. TypeOK /\ q \in Questions /\ Ask(th, q, b, r)
        BY <1>1, <1>9
      <3>2. e \in Question
        BY <3>1 DEF Question
      <3>3. tx' = IF link' = "up" THEN Append(tx, e) ELSE tx
        BY <3>1 DEF Ask
      <3> QED
        BY ONLY <3>2, <3>3
    <2>2. e.q \notin Transfer
      BY <1>9
    <2> HIDE DEF e
    <2>3. CASE tx' = tx
      BY <1>6, <1>7, <1>9, <2>3
    <2>4. CASE tx' = Append(tx, e)
      <3>1. /\ QueueInv(tx')
            /\ \A i \in 1..Len(tx') :
                 /\ FirstTr(tx', i) => i \in 1..Len(tx) /\ tx'[i] = tx[i] /\ FirstTr(tx, i)
                 /\ LastTr(tx', i) => i \in 1..Len(tx) /\ tx'[i] = tx[i] /\ LastTr(tx, i)
            /\ NoTr(tx') => NoTr(tx)
        BY <1>1, <1>2, <2>1, <2>2, <2>4, AppendTr
      <3>2. xfer.on => AtStart(xfer, tx')
        BY <1>2, <3>1 DEF BoardInv
      <3>3. AskedTr' => TransferInv'
        BY <1>2, <1>5, <1>9, <3>1, <3>2 DEF BoardInv
      <3>4. Place => AskedTr'
        BY <1>2, <1>4, <1>9, <3>1 DEF AskedTr, LastIs
      <3> QED
        BY <3>3, <3>4
    <2> QED
      BY <2>1, <2>3, <2>4
  <1>10. ASSUME NEW a \in Frames, WorkerAsks(a), worker = "ota", Board0, run' = run PROVE TransferInv'
    <2> DEFINE e == [q |-> StepAt(step + 1), blk |-> BlockAt(step + 1), run |-> run, live |-> TRUE]
    <2>1. /\ step' = step + 1 /\ step + 1 \in 1..LastStep /\ link' = link /\ worker' = worker
          /\ Ask("worker", StepAt(step + 1), BlockAt(step + 1), run) /\ cfg' = cfg
      BY <1>10 DEF WorkerAsks, Given
    <2>2. step \in 1..LastStep
      <3>1. call["worker"] # NoCall
        BY <1>10 DEF WorkerAsks, Given
      <3> QED
        BY <1>10, <3>1, WorkersAre
    <2>3. StepAt(step + 1) \in Questions /\ BlockAt(step + 1) \in 0..Blocks
      BY <1>1, <2>1, StepTypes
    <2>4. e \in Question /\ tx' = IF link' = "up" THEN Append(tx, e) ELSE tx
      <3>1. TypeOK /\ Ask("worker", StepAt(step + 1), BlockAt(step + 1), run) /\ run \in 0..MaxRuns
            /\ "worker" \in Threads
        BY <1>1, <2>1
      <3> QED
        BY ONLY <2>3, <3>1, AskTx
    <2>5. e.q = StepAt(step + 1) /\ e.blk = BlockAt(step + 1) /\ e.run = run
      OBVIOUS
    <2> HIDE DEF e
    <2>6. CASE StepAt(step + 1) \notin Transfer
      <3>1. AskedTr'
        BY <1>3, <2>1, <2>6
      <3> QED
        BY <1>1, <1>9, <1>10, <2>1, <2>3, <2>6, <3>1
    <2>7. CASE link # "up"
      BY <1>3, <1>6, <1>10, <2>1, <2>4, <2>7
    <2>8. CASE StepAt(step + 1) \in Transfer /\ link = "up"
      <3>1. tx' = Append(tx, e) /\ e.q \in Transfer
        BY <2>1, <2>4, <2>5, <2>8
      <3>2. /\ \A i \in 1..Len(tx) : LastTr(tx, i) => Follows(tx[i], e)
            /\ NoTr(tx) /\ xfer.on => Resumes(xfer, e)
        <4>1. CASE e.q = "start"
          BY <4>1 DEF Follows, Resumes
        <4>2. CASE e.q # "start"
          <5>1. e.q \in {"block", "exit"}
            BY <3>1, <4>2 DEF Transfer
          <5>2. /\ StepAt(step) \in {"start", "block"} /\ (StepAt(step) = "start" => BlockAt(step) = 0)
                /\ Continues(e, run, BlockAt(step))
            BY <1>1, <2>1, <2>2, <2>5, <5>1, NextStep
          <5>3. /\ LastIs(tx, StepAt(step), run, BlockAt(step))
                /\ NoTr(tx) => BoardIs(xfer, StepAt(step), run, BlockAt(step))
            BY <1>2, <1>10, <2>2, <2>8, <5>2 DEF AskedTr, Asking, Transfer
          <5>4. ASSUME NEW i \in 1..Len(tx), LastTr(tx, i) PROVE Follows(tx[i], e)
            <6>1. tx[i].q = StepAt(step) /\ tx[i].run = run /\ tx[i].blk = BlockAt(step)
              BY <5>3, <5>4 DEF LastIs
            <6> QED
              BY <5>2, <6>1 DEF Follows
          <5>5. ASSUME NoTr(tx), xfer.on PROVE Resumes(xfer, e)
            <6>1. Len(xfer.got) = BlockAt(step) /\ (xfer.got # <<>> => xfer.got[1][1] = run)
              BY <5>3, <5>5 DEF BoardIs
            <6>2. xfer.got = <<>> => BlockAt(step) = 0
              BY <6>1
            <6> QED
              BY <2>5, <5>2, <6>1, <6>2 DEF Resumes
          <5> QED
            BY <5>4, <5>5
        <4> QED
          BY <4>1, <4>2
      <3>3. /\ QueueInv(tx')
            /\ \A i \in 1..Len(tx') :
                 /\ FirstTr(tx', i) =>
                      \/ i \in 1..Len(tx) /\ tx'[i] = tx[i] /\ FirstTr(tx, i)
                      \/ tx'[i] = e /\ NoTr(tx)
                 /\ LastTr(tx', i) => tx'[i] = e
            /\ ~NoTr(tx')
        BY <1>1, <1>2, <2>4, <3>1, <3>2, AppendTr
      <3>4. xfer.on => AtStart(xfer, tx')
        BY <1>2, <3>2, <3>3 DEF BoardInv
      <3>5. AskedTr'
        <4>1. StepAt(step)' = StepAt(step + 1) /\ BlockAt(step)' = BlockAt(step + 1)
          BY <1>1, <2>1, ListsStay
        <4>2. LastIs(tx', StepAt(step + 1), run, BlockAt(step + 1))
          BY <2>5, <3>3 DEF LastIs
        <4> QED
          BY <1>10, <3>3, <4>1, <4>2 DEF AskedTr
      <3> QED
        BY <1>2, <1>5, <1>10, <3>3, <3>4, <3>5 DEF BoardInv
    <2> QED
      BY <2>6, <2>7, <2>8
  <1>11. CASE Window \/ \E th \in Threads : Waits(th)
    <2>1. WaitEnds /\ Board0 /\ run' = run
      BY <1>11, WaitsAre DEF waitHolds, updateVars, boardVars
    <2>2. ASSUME NEW a \in Frames, WorkerAsks(a) PROVE TransferInv'
      <3>1. CASE worker = "ota"
        BY <1>10, <2>1, <2>2, <3>1
      <3>2. CASE worker # "ota"
        <4>1. Ask("worker", "present", 0, run) /\ worker' # "ota" /\ "present" \in Questions \ Transfer
          BY <2>2, <3>2 DEF WorkerAsks, Given, Questions, Transfer
        <4>2. AskedTr'
          BY <1>3, <2>1, <4>1
        <4> QED
          BY <1>1, <1>9, <2>1, <4>1, <4>2
      <3> QED
        BY <3>1, <3>2
    <2>3. ASSUME NEW a \in Frames, WorkerEnds(a) PROVE TransferInv'
      <3>1. step' = 0 /\ tx' = tx
        BY <2>3 DEF WorkerEnds, Post
      <3> QED
        BY <1>3, <1>6, <2>1, <3>1
    <2>4. CASE WorkerGivesUp
      <3>1. step' = 0 /\ (tx' = tx \/ CloseClient)
        BY <2>4 DEF WorkerGivesUp, Post
      <3> QED
        BY <1>3, <1>6, <1>8, <2>1, <3>1
    <2>5. CASE GuiEnds \/ \E th \in Threads : Takes(th)
      <3>1. UNCHANGED <<worker, step, link, tx>>
        BY <2>5 DEF GuiEnds, Takes
      <3> QED
        BY <1>6, <1>7, <2>1, <3>1
    <2>6. CASE GuiGivesUp
      <3>1. CloseClient /\ link' # "up"
        BY <2>6 DEF GuiGivesUp, CloseClient
      <3> QED
        BY <1>3, <1>8, <2>1, <3>1
    <2> QED
      BY <2>1, <2>2, <2>3, <2>4, <2>5, <2>6 DEF WaitEnds
  <1>12. CASE Connect \/ ClearAsked \/ TcpRefused \/ OnConnect \/ OnOk
    <2>1. tx' = tx /\ Board0 /\ link' = link /\ run' = run
      BY <1>12 DEF Connect, ClearAsked, TcpRefused, OnConnect, OnOk, netVars, boardVars,
         updateVars
    <2>2. (worker' = worker /\ step' = step) \/ worker' # "ota" \/ step' = 0
      BY <1>12 DEF Connect, ClearAsked, TcpRefused, OnConnect, OnOk, Post
    <2> QED
      BY <1>3, <1>6, <1>7, <2>1, <2>2
  <1>13. CASE Start
    <2>1. Ask("worker", OtaSteps[1], 0, run + 1) /\ run < MaxRuns /\ step' = 1 /\ Board0
      BY <1>13 DEF Start, boardVars
    <2>2. OtaSteps[1] = "session" /\ StepAt(1) = "session" /\ "session" \in Questions \ Transfer
      <3>1. 1 \in 1..LastStep
        BY <1>1, StepTypes
      <3> QED
        BY <1>1, <3>1, OtaShape DEF StepAt, Questions, Transfer
    <2>3. AskedTr'
      BY <1>3, <2>1, <2>2
    <2>4. run + 1 \in 0..MaxRuns
      BY <1>1, <2>1, Bounds
    <2> QED
      BY <1>1, <1>9, <2>1, <2>2, <2>3, <2>4
  <1>14. {"route", "keepalive", "still_there", "dem", "dump"} \subseteq Questions \ Transfer
    BY DEF Questions, GuiQuestions, Pages, Transfer
  <1>15. CASE TcpConnect
    <2>1. Ask("worker", "route", 0, run) /\ Board0 /\ worker' # "ota"
      BY <1>15 DEF TcpConnect, AskStep, WorkerSteps, ConnectSteps, BlockOf, panelVars, boardVars
    <2>2. AskedTr'
      BY <1>3, <2>1
    <2> QED
      BY <1>1, <1>9, <1>14, <2>1, <2>2
  <1>16. CASE OnErr
    <2>1. Ask("gui", "still_there", 0, run) /\ Board0 /\ worker' # "ota"
      BY <1>16 DEF OnErr, boardVars
    <2>2. AskedTr'
      BY <1>3, <2>1
    <2> QED
      BY <1>1, <1>9, <1>14, <2>1, <2>2
  <1>17. CASE KeepAlive \/ ReadPage("dem") \/ ReadPage("dump") \/ Answer
    <2>1. Board0 /\ Place
      BY <1>17 DEF KeepAlive, ReadPage, Answer, ClearAnswered, AskPage, panelVars, boardVars,
         updateVars
    <2>2. tx' = tx \/ Ask("gui", "keepalive", 0, run) \/ Ask("gui", "dem", 0, run) \/ Ask("gui", "dump", 0, run)
      BY <1>17 DEF KeepAlive, ReadPage, Answer, ClearAnswered, AskPage
    <2>3. ASSUME NEW q \in {"keepalive", "dem", "dump"}, Ask("gui", q, 0, run) PROVE TransferInv'
      BY <1>1, <1>9, <1>14, <2>1, <2>3
    <2> QED
      BY <1>6, <1>7, <2>1, <2>2, <2>3
  <1>18. CASE UserDisconnects \/ LinkLost
    <2>1. /\ CloseClient \/ \E kept \in BOOLEAN : tx' = Orphaned(kept)
          /\ Board0 /\ link' # "up"
      BY <1>18 DEF UserDisconnects, Disconnect, CloseClient, LinkLost, boardVars
    <2> QED
      BY <1>3, <1>8, <2>1
  <1>19. CASE S3 \/ BoardRestart
    <2>1. xfer'.on = FALSE /\ cfg' = cfg
      BY <1>19 DEF S3, AbortTransfer, BoardRestart, NoXfer
    <2>2. CASE S3
      <3>1. tx' = tx /\ Place
        BY <2>2 DEF S3, netVars, panelVars, updateVars
      <3> QED
        BY <1>2, <1>4, <2>1, <3>1 DEF AskedTr, BoardIs, TransferInv, BoardInv
    <2>3. CASE BoardRestart
      <3>1. tx' = <<>> /\ link' # "up"
        BY <2>3 DEF BoardRestart
      <3>2. QueueInv(tx')
        BY <3>1 DEF QueueInv
      <3> QED
        BY <1>3, <2>1, <3>1, <3>2 DEF TransferInv, BoardInv
    <2> QED
      BY <1>19, <2>2, <2>3
  \* A question taken from the queue.
  <1>20. ASSUME tx # <<>>, tx' = Tail(tx)
         PROVE  /\ QueueInv(tx') /\ 1 \in 1..Len(tx) /\ tx[1] \in Question
                /\ \A i \in 1..Len(tx') :
                      /\ i + 1 \in 1..Len(tx) /\ tx'[i] = tx[i + 1]
                      /\ FirstTr(tx', i) => IF Tr(tx, 1) THEN Follows(tx[1], tx[i + 1]) ELSE FirstTr(tx, i + 1)
                      /\ LastTr(tx', i) => LastTr(tx, i + 1)
                /\ NoTr(tx') => IF Tr(tx, 1) THEN LastTr(tx, 1) ELSE NoTr(tx)
    <2>1. 1 \in 1..Len(tx)
      BY <1>1, <1>20, EmptySeq
    <2> QED
      BY <1>1, <1>2, <1>20, <2>1, TailTr
  <1>21. ASSUME tx # <<>>, tx' = Tail(tx), Place, GateOk => GateOk', tx[1].q \notin Transfer, xfer' = xfer
         PROVE  TransferInv'
    <2>1. ~Tr(tx, 1)
      BY <1>21 DEF Tr
    <2>2. xfer.on => AtStart(xfer, tx')
      BY <1>2, <1>20, <1>21, <2>1 DEF BoardInv
    <2>3. AskedTr'
      <3>1. ASSUME Asking, link = "up", StepAt(step) \in Transfer
            PROVE  /\ LastIs(tx', StepAt(step), run, BlockAt(step))
                   /\ NoTr(tx') => BoardIs(xfer', StepAt(step), run, BlockAt(step))
        BY <1>2, <1>20, <1>21, <2>1, <3>1 DEF AskedTr, LastIs
      <3> QED
        BY <1>4, <1>21, <3>1
    <2> QED
      BY <1>2, <1>5, <1>20, <1>21, <2>2, <2>3 DEF BoardInv
  <1>22. ASSUME tx # <<>>, tx' = Tail(tx), Place, UNCHANGED <<session, unlocked>>, tx[1].q \in Transfer,
                xfer'.on => /\ Partial(xfer') /\ GateOk
                            /\ \A q \in Question : Follows(tx[1], q) => Resumes(xfer', q)
                            /\ BoardIs(xfer', tx[1].q, tx[1].run, IF tx[1].q = "start" THEN 0 ELSE tx[1].blk)
         PROVE  TransferInv'
    <2>1. Tr(tx, 1)
      BY <1>22 DEF Tr
    <2>2. xfer'.on => AtStart(xfer', tx')
      BY <1>1, <1>20, <1>22, <2>1, QueueOps
    <2>3. AskedTr'
      <3>1. ASSUME Asking, link = "up", StepAt(step) \in Transfer
            PROVE  /\ LastIs(tx', StepAt(step), run, BlockAt(step))
                   /\ NoTr(tx') => BoardIs(xfer', StepAt(step), run, BlockAt(step))
        <4>1. LastIs(tx, StepAt(step), run, BlockAt(step))
          BY <1>2, <3>1 DEF AskedTr
        <4>2. LastIs(tx', StepAt(step), run, BlockAt(step))
          BY <1>20, <1>22, <4>1 DEF LastIs
        <4>3. ASSUME NoTr(tx') PROVE BoardIs(xfer', StepAt(step), run, BlockAt(step))
          <5>1. tx[1].q = StepAt(step) /\ tx[1].run = run /\ tx[1].blk = BlockAt(step)
            BY <1>20, <1>22, <2>1, <4>1, <4>3 DEF LastIs
          <5>2. tx[1].q = "start" => BlockAt(step) = 0
            BY <5>1 DEF BlockAt
          <5> QED
            BY <1>22, <5>1, <5>2 DEF BoardIs
        <4> QED
          BY <4>2, <4>3
      <3> QED
        BY <1>4, <1>22, <3>1
    <2> QED
      BY <1>5, <1>20, <1>22, <2>2, <2>3
  <1>23. CASE BoardAck
    <2>1. tx # <<>> /\ Place /\ Board0
      BY <1>23 DEF BoardAck, panelVars, boardVars, updateVars
    <2>2. tx' = tx \/ (tx' = Tail(tx) /\ tx[1].q = "route")
      BY <1>23 DEF BoardAck
    <2>3. "route" \notin Transfer /\ (GateOk => GateOk')
      BY <2>1 DEF Transfer, GateOk
    <2> QED
      BY <1>6, <1>7, <1>21, <2>1, <2>2, <2>3
  <1>24. ASSUME NEW qs, NEW a, Handling(qs, a)
         PROVE  tx # <<>> /\ tx' = Tail(tx) /\ Place /\ tx[1].q \in qs
    BY <1>24 DEF Handling, panelVars, updateVars
  <1>25. CASE HandlePlain
    <2>1. PICK q \in {"keepalive", "still_there", "present"} \cup Pages :
            Handling({q}, CASE q = "keepalive" -> "none" [] q = "still_there" -> "present" [] OTHER -> q)
      BY <1>25 DEF HandlePlain
    <2>2. q \notin Transfer
      BY DEF Pages, Transfer
    <2>3. tx # <<>> /\ tx' = Tail(tx) /\ Place /\ tx[1].q = q
      BY <1>24, <2>1
    <2>4. xfer' = xfer /\ (GateOk => GateOk')
      BY <1>25, <2>3 DEF HandlePlain, boardVars, GateOk
    <2> QED
      BY <1>21, <2>2, <2>3, <2>4
  <1>26. CASE HandleSession \/ HandleSeed \/ HandleKey \/ HandleRoutine
    <2>1. tx # <<>> /\ tx' = Tail(tx) /\ Place /\ tx[1].q \in {"session", "seed", "key", "routine"}
      <3>1. CASE HandleSession
        BY <1>24, <3>1 DEF HandleSession
      <3>2. CASE HandleSeed
        BY <1>24, <3>2 DEF HandleSeed
      <3>3. CASE HandleKey
        BY <1>24, <3>3 DEF HandleKey
      <3>4. CASE HandleRoutine
        BY <1>24, <3>4 DEF HandleRoutine
      <3> QED
        BY <1>26, <3>1, <3>2, <3>3, <3>4
    <2>2. /\ xfer' = xfer
          /\ session' = session \/ session' = (IF cfg.prog THEN "prog" ELSE "ext")
          /\ unlocked => unlocked'
      <3>1. CASE HandleSession
        BY <3>1 DEF HandleSession
      <3>2. CASE HandleKey
        BY <3>2 DEF HandleKey
      <3>3. CASE HandleSeed \/ HandleRoutine
        BY <3>3 DEF HandleSeed, HandleRoutine
      <3> QED
        BY <1>26, <3>1, <3>2, <3>3
    <2>3. GateOk => GateOk'
      BY <2>1, <2>2 DEF GateOk
    <2>4. tx[1].q \notin Transfer
      BY <2>1 DEF Transfer
    <2> QED
      BY <1>21, <2>1, <2>2, <2>3, <2>4
  <1>27. CASE HandleStart
    <2>1. PICK opens \in BOOLEAN :
            /\ Handling({"start"}, IF GateOk /\ opens THEN "start" ELSE "nrc")
            /\ xfer' = IF ~GateOk THEN xfer ELSE [NoXfer EXCEPT !.on = opens]
            /\ UNCHANGED <<session, unlocked>>
      BY <1>27 DEF HandleStart
    <2>2. tx # <<>> /\ tx' = Tail(tx) /\ Place /\ tx[1].q = "start" /\ "start" \in Transfer
      BY <1>24, <2>1 DEF Transfer
    <2>3. ASSUME xfer'.on PROVE GateOk /\ xfer'.next = 1 /\ xfer'.got = <<>>
      <3>1. GateOk
        BY <1>2, <2>1, <2>3 DEF BoardInv
      <3> QED
        BY <2>1, <3>1 DEF NoXfer
    <2>4. ASSUME xfer'.on PROVE Partial(xfer')
      <3>1. Len(xfer'.got) = 0 /\ SeqNo(1) = 1
        BY <2>3, <2>4, Bounds DEF SeqNo
      <3> QED
        BY <2>3, <2>4, <3>1, Bounds DEF Partial
    <2>5. ASSUME xfer'.on, NEW q \in Question, Follows(tx[1], q) PROVE Resumes(xfer', q)
      BY <2>2, <2>3, <2>5 DEF Follows, Resumes, Continues
    <2>6. xfer'.on => BoardIs(xfer', "start", tx[1].run, 0)
      BY <2>3 DEF BoardIs
    <2> QED
      BY <1>22, <2>1, <2>2, <2>3, <2>4, <2>5, <2>6
  <1>28. CASE HandleBlock
    <2>1. PICK written \in BOOLEAN :
            /\ Handling({"block"}, IF xfer.on /\ SeqNo(tx[1].blk) = xfer.next /\ written THEN "block" ELSE "nrc")
            /\ xfer' = IF ~(xfer.on /\ SeqNo(tx[1].blk) = xfer.next) THEN xfer
                       ELSE IF ~written THEN NoXfer
                       ELSE [xfer EXCEPT !.next = NextSeq(xfer.next), !.got = Append(xfer.got, <<tx[1].run, tx[1].blk>>)]
            /\ UNCHANGED <<session, unlocked>>
      BY <1>28 DEF HandleBlock
    <2>2. tx # <<>> /\ tx' = Tail(tx) /\ Place /\ tx[1].q = "block" /\ "block" \in Transfer
      BY <1>24, <2>1 DEF Transfer
    <2> DEFINE n == Len(xfer.got)
    <2>3. ASSUME xfer'.on
          PROVE  /\ xfer.on /\ GateOk /\ Partial(xfer) /\ n < Blocks /\ tx[1].blk = n + 1
                 /\ xfer.got # <<>> => xfer.got[1][1] = tx[1].run
                 /\ xfer'.next = NextSeq(xfer.next)
                 /\ xfer'.got = Append(xfer.got, <<tx[1].run, tx[1].blk>>)
                 /\ tx[1].run \in 1..MaxRuns /\ tx[1].blk \in 1..Blocks
      <3>1. xfer.on
        BY <2>1, <2>3 DEF NoXfer
      <3>2. /\ n < Blocks /\ tx[1].blk = n + 1 /\ SeqNo(tx[1].blk) = xfer.next
            /\ xfer.got # <<>> => xfer.got[1][1] = tx[1].run
            /\ tx[1].run \in 1..MaxRuns /\ tx[1].blk \in 1..Blocks
        BY <2>2, <3>1, BlockFits
      <3>3. xfer \in [on : BOOLEAN, next : 0..SeqMax, got : Seq((1..MaxRuns) \X (1..Blocks))]
        BY <1>1 DEF TypeOK
      <3>4. written
        BY <2>1, <2>3, <3>1, <3>2 DEF NoXfer
      <3>5. xfer'.next = NextSeq(xfer.next) /\ xfer'.got = Append(xfer.got, <<tx[1].run, tx[1].blk>>)
        BY <2>1, <3>1, <3>2, <3>3, <3>4
      <3> QED
        BY <1>2, <3>1, <3>2, <3>5 DEF BoardInv
    <2>4. ASSUME xfer'.on
          PROVE  /\ n \in Nat /\ Len(xfer'.got) = n + 1 /\ xfer'.got[n + 1] = <<tx[1].run, n + 1>>
                 /\ \A b \in 1..n : xfer'.got[b] = xfer.got[b]
                 /\ xfer'.got[1][1] = tx[1].run
      <3>1. xfer.got \in Seq((1..MaxRuns) \X (1..Blocks)) /\ <<tx[1].run, tx[1].blk>> \in (1..MaxRuns) \X (1..Blocks)
        BY <1>1, <2>3, <2>4 DEF TypeOK
      <3>2. /\ n \in Nat /\ Len(xfer'.got) = n + 1 /\ xfer'.got[n + 1] = <<tx[1].run, n + 1>>
            /\ \A b \in 1..n : xfer'.got[b] = xfer.got[b]
        <4>1. xfer'.got = Append(xfer.got, <<tx[1].run, tx[1].blk>>) /\ tx[1].blk = n + 1
          BY <2>3, <2>4
        <4>2. /\ n \in Nat /\ Len(xfer'.got) = n + 1 /\ xfer'.got[n + 1] = <<tx[1].run, tx[1].blk>>
              /\ \A b \in 1..n : xfer'.got[b] = xfer.got[b]
          BY ONLY <3>1, <4>1, AppendProperties
        <4> QED
          BY <4>1, <4>2
      <3>3. xfer'.got[1][1] = tx[1].run
        <4>1. CASE n = 0
          BY <3>2, <4>1
        <4>2. CASE n # 0
          <5>1. 1 \in 1..n /\ xfer.got # <<>>
            BY <3>1, <3>2, <4>2
          <5> QED
            BY <2>3, <2>4, <3>2, <5>1
        <4> QED
          BY <4>1, <4>2
      <3> QED
        BY <3>2, <3>3
    <2>5. ASSUME xfer'.on PROVE Partial(xfer')
      <3>1. xfer.next = SeqNo(n + 1) /\ \A b \in 1..n : xfer.got[b] = <<xfer.got[1][1], b>>
        BY <2>3, <2>5 DEF Partial
      <3>2. xfer'.next = SeqNo(n + 2)
        <4>1. SeqMax \in Nat /\ n \in Nat
          BY <2>4, <2>5, Bounds
        <4>2. xfer'.next = IF (n + 1) % (SeqMax + 1) = SeqMax THEN 0 ELSE ((n + 1) % (SeqMax + 1)) + 1
          BY <2>3, <2>5, <3>1 DEF NextSeq, SeqNo
        <4>3. (n + 2) % (SeqMax + 1) = IF (n + 1) % (SeqMax + 1) = SeqMax THEN 0 ELSE ((n + 1) % (SeqMax + 1)) + 1
          <5>1. SeqMax + 1 \in Nat /\ SeqMax + 1 >= 2 /\ n + 1 \in Nat
            BY <4>1, Bounds
          <5>2. (n + 1) + 1 = n + 2 /\ (SeqMax + 1) - 1 = SeqMax
            BY <4>1
          <5> QED
            BY ONLY <5>1, <5>2, WrapsAt
        <4> QED
          BY <4>2, <4>3 DEF SeqNo
      <3>3. ASSUME NEW b \in 1..(n + 1) PROVE xfer'.got[b] = <<xfer'.got[1][1], b>>
        <4>1. CASE b \in 1..n
          <5>1. xfer.got # <<>>
            BY <2>4, <2>5, <4>1
          <5> QED
            BY <2>3, <2>4, <2>5, <3>1, <4>1, <5>1
        <4>2. CASE b = n + 1
          BY <2>4, <2>5, <4>2
        <4> QED
          BY <2>4, <2>5, <4>1, <4>2
      <3>4. n + 1 <= Blocks /\ (n + 1) + 1 = n + 2
        BY <2>3, <2>4, <2>5, Bounds
      <3> QED
        BY <2>4, <2>5, <3>2, <3>3, <3>4 DEF Partial
    <2>6. ASSUME xfer'.on, NEW q \in Question, Follows(tx[1], q) PROVE Resumes(xfer', q)
      <3>1. q.q = "start" \/ Continues(q, tx[1].run, n + 1)
        BY <2>2, <2>3, <2>6 DEF Follows
      <3>2. xfer'.got # <<>>
        BY <2>4, <2>6
      <3> QED
        BY <2>4, <2>6, <3>1, <3>2 DEF Resumes
    <2>7. xfer'.on => BoardIs(xfer', "block", tx[1].run, tx[1].blk)
      BY <2>3, <2>4 DEF BoardIs
    <2> QED
      BY <1>22, <2>1, <2>2, <2>3, <2>5, <2>6, <2>7
  <1>29. CASE HandleExit
    <2>1. PICK a : Handling({"exit"}, a)
      BY <1>29 DEF HandleExit
    <2>2. tx # <<>> /\ tx' = Tail(tx) /\ Place /\ tx[1].q = "exit" /\ "exit" \in Transfer
      BY <1>24, <2>1 DEF Transfer
    <2>3. xfer'.on = FALSE /\ UNCHANGED <<session, unlocked>>
      BY <1>29 DEF HandleExit, NoXfer
    <2> QED
      BY <1>22, <2>2, <2>3
  <1> QED
    BY <1>11, <1>12, <1>13, <1>15, <1>16, <1>17, <1>18, <1>19, <1>23, <1>25, <1>26, <1>27,
       <1>28, <1>29
       DEF Next, Clicks, Panel, Board, Faults
\* A step that activates a package does so at the end of its transfer.
LEMMA ActivationStep ==
  ASSUME TInv, TransferInv, [Next]_vars
  PROVE  cfg.mode = "transfer" => \A r \in activated' \ activated : xfer.got = Whole(r) /\ GateOk
  <1> SUFFICES ASSUME cfg.mode = "transfer", NEW r \in activated' \ activated
               PROVE  xfer.got = Whole(r) /\ GateOk
    OBVIOUS
  <1>1. activated' # activated
    OBVIOUS
  <1>2. ASSUME Window \/ \E th \in Threads : Waits(th) PROVE activated' = activated
    BY <1>2, WaitsAre DEF waitHolds, boardVars
  <1>3. Next
    BY <1>1 DEF vars, boardVars
  <1>4. HandleExit \/ HandleRoutine
    <2>1. ASSUME Clicks \/ Answer \/ Panel \/ KeepAlive \/ TcpConnect \/ TcpRefused PROVE activated' = activated
      BY <2>1 DEF Clicks, Answer, Panel, Connect, UserDisconnects, Start, ReadPage, ClearAsked,
         ClearAnswered, OnConnect, OnOk, OnErr, KeepAlive, TcpConnect, TcpRefused, boardVars
    <2>2. ASSUME Faults PROVE activated' = activated
      BY <2>2 DEF Faults, S3, LinkLost, BoardRestart, boardVars
    <2>3. ASSUME BoardAck \/ HandlePlain \/ HandleSession \/ HandleSeed \/ HandleKey \/ HandleStart \/ HandleBlock
          PROVE  activated' = activated
      BY <2>3 DEF BoardAck, HandlePlain, HandleSession, HandleSeed, HandleKey, HandleStart,
         HandleBlock, boardVars
    <2> QED
      BY <1>1, <1>2, <1>3, <2>1, <2>2, <2>3 DEF Next, Board
  <1>5. tx \in Seq(Question) /\ (tx # <<>> => 1 \in 1..Len(tx))
    <2>1. tx \in Seq(Question)
      BY Typed DEF TInv
    <2> QED
      BY <2>1, EmptySeq
  <1>6. CASE HandleRoutine
    <2>1. PICK a : Handling({"routine"}, a)
      BY <1>6 DEF HandleRoutine
    <2>2. tx # <<>> /\ tx[1].q = "routine"
      BY <2>1 DEF Handling
    <2> QED
      BY <1>5, <2>2 DEF TInv, SentInv
  <1>7. CASE HandleExit
    <2>1. PICK a : Handling({"exit"}, a)
      BY <1>7 DEF HandleExit
    <2>2. tx # <<>> /\ tx[1].q = "exit" /\ 1 \in 1..Len(tx)
      BY <1>5, <2>1 DEF Handling
    <2>3. xfer.on /\ Len(xfer.got) = Blocks /\ r = tx[1].run
      BY <1>7 DEF HandleExit
    <2>4. FirstTr(tx, 1)
      <3>1. Tr(tx, 1) /\ 1..(1 - 1) = {}
        BY <2>2 DEF Tr, Transfer
      <3> QED
        BY <3>1 DEF FirstTr
    <2>5. Partial(xfer) /\ GateOk /\ Resumes(xfer, tx[1])
      BY <2>2, <2>3, <2>4 DEF TransferInv, BoardInv
    <2>6. xfer.got \in Seq((1..MaxRuns) \X (1..Blocks))
      BY DEF TInv, TypeOK
    <2>7. xfer.got[1][1] = r
      <3>1. xfer.got # <<>>
        BY <2>3, Bounds
      <3> QED
        BY <2>2, <2>3, <2>5, <3>1 DEF Resumes, Continues
    <2>8. \A b \in 1..Blocks : xfer.got[b] = <<r, b>>
      BY <2>3, <2>5, <2>7 DEF Partial
    <2>9. xfer.got = [b \in 1..Blocks |-> xfer.got[b]]
      BY <2>3, <2>6
    <2> QED
      BY <2>5, <2>8, <2>9 DEF Whole
  <1> QED
    BY <1>4, <1>6, <1>7

-----------------------------------------------------------------------------
(* An update that meets no trouble does not fail *)

\* The worker drops a frame, or takes the ACK.
LEMMA PendingTakes ==
  ASSUME NEW t, NEW k, NEW q, NEW n, NEW s \in Seq(Frames), s # <<>>,
         NEW w \in {"ack", "diag"}, Pending(t, k, s, w, q, n)
  PROVE  /\ ~Awaited(w, s[1]) => Pending(t, k, Tail(s), w, q, n)
         /\ w = "ack" /\ s[1] = "ack" => Pending(t, k, Tail(s), "diag", q, n)
         /\ w = "diag" => s[1] \notin Answers
  <1> DEFINE u == Tail(s)
  <1>1. /\ Len(s) \in Nat /\ Len(u) = Len(s) - 1 /\ 1 \in 1..Len(s)
        /\ \A i \in 1..Len(u) : i + 1 \in 1..Len(s) /\ u[i] = s[i + 1]
    BY FrameOps
  <1> HIDE DEF u
  <1>2. ASSUME NoneBehindAck(s, Len(s)) PROVE NoneBehindAck(u, Len(u))
    <2>1. ASSUME NEW i \in 1..Len(u), NEW j \in 1..Len(u), i < j, u[i] = "ack" PROVE u[j] \notin Answers
      <3>1. i + 1 \in 1..Len(s) /\ j + 1 \in 1..Len(s) /\ i + 1 < j + 1 /\ s[i + 1] = "ack" /\ u[j] = s[j + 1]
        BY <1>1, <2>1
      <3> QED
        BY <1>2, <3>1 DEF NoneBehindAck
    <2> QED
      BY <2>1 DEF NoneBehindAck
  <1>3. ASSUME ~Awaited(w, s[1]) PROVE Pending(t, k, u, w, q, n)
    <2>1. w = "ack" => s[1] # "ack"
      BY <1>3 DEF Awaited
    <2>2. ASSUME w = "ack", NEW i \in 1..Len(s), s[i] = "ack" PROVE \E j \in 1..Len(u) : u[j] = "ack"
      <3>1. i # 1
        BY <2>1, <2>2
      <3>2. i - 1 \in 1..Len(u) /\ (i - 1) + 1 = i
        BY <1>1, <3>1
      <3>3. u[i - 1] = s[(i - 1) + 1]
        BY <1>1, <3>2
      <3> QED
        BY <2>2, <3>2, <3>3
    <2>3. /\ t # <<>> /\ t[Len(t)] = q /\ (n > 1 => Len(t) = 1)
          /\ \A i \in 1..(Len(t) - 1) : i > 1 \/ ~k => Quiet(t[i])
      BY DEF Pending
    <2>4. Len(t) > 1 /\ k /\ ~Quiet(t[1]) => w = "ack" /\ \A i \in 1..Len(u) : u[i] # "ack"
      BY <1>1 DEF Pending
    <2>5. w = "diag" => \A i \in 1..Len(u) : u[i] \notin Answers
      BY <1>1 DEF Pending
    <2>6. w = "ack" => NoneBehindAck(u, Len(u))
      BY <1>2 DEF Pending
    <2>7. w = "ack" /\ Len(t) = 1 /\ k => \E i \in 1..Len(u) : u[i] = "ack"
      BY <2>2 DEF Pending
    <2> QED
      BY <2>3, <2>4, <2>5, <2>6, <2>7 DEF Pending
  <1>4. ASSUME w = "ack", s[1] = "ack" PROVE Pending(t, k, u, "diag", q, n)
    <2>1. /\ t # <<>> /\ t[Len(t)] = q /\ (n > 1 => Len(t) = 1)
          /\ \A i \in 1..(Len(t) - 1) : i > 1 \/ ~k => Quiet(t[i])
      BY DEF Pending
    <2>2. ~(Len(t) > 1 /\ k /\ ~Quiet(t[1]))
      BY <1>1, <1>4 DEF Pending
    <2>3. ASSUME NEW i \in 1..Len(u) PROVE u[i] \notin Answers
      <3>1. NoneBehindAck(s, Len(s))
        BY <1>4 DEF Pending
      <3>2. 1 < i + 1 /\ i + 1 \in 1..Len(s) /\ u[i] = s[i + 1]
        BY <1>1
      <3> QED
        BY <1>1, <1>4, <3>1, <3>2 DEF NoneBehindAck
    <2> QED
      BY <2>1, <2>2, <2>3 DEF Pending
  <1>5. ASSUME w = "diag" PROVE s[1] \notin Answers
    BY <1>1, <1>5 DEF Pending
  <1> QED
    BY <1>3, <1>4, <1>5 DEF u

LEMMA AnswerTakes ==
  ASSUME NEW t, NEW a \in Answers, NEW s \in Seq(Frames), NEW w \in {"ack", "diag"}, HasAnswer(t, s, w, a)
  PROVE  /\ ~Awaited(w, s[1]) => HasAnswer(t, Tail(s), w, a)
         /\ w = "ack" /\ s[1] = "ack" => HasAnswer(t, Tail(s), "diag", a)
         /\ w = "diag" /\ s[1] \in Answers => s[1] = a /\ Tail(s) = <<>>
  <1> DEFINE u == Tail(s)
  <1>1. /\ Len(s) \in Nat /\ Len(u) = Len(s) - 1 /\ 1 \in 1..Len(s) /\ u \in Seq(Frames)
        /\ \A i \in 1..Len(u) : i + 1 \in 1..Len(s) /\ u[i] = s[i + 1]
        /\ t = <<>> /\ s # <<>> /\ s[Len(s)] = a
    BY FrameOps DEF HasAnswer
  <1>2. a # "ack"
    BY DEF Answers
  <1> HIDE DEF u
  <1>3. ASSUME Len(s) > 1 PROVE u # <<>> /\ u[Len(u)] = a
    <2>1. Len(u) \in 1..Len(u) /\ Len(u) + 1 = Len(s) /\ Len(u) >= 1
      BY <1>1, <1>3
    <2> QED
      BY <1>1, <2>1, FrameOps
  <1>4. ASSUME ~Awaited(w, s[1]) PROVE HasAnswer(t, u, w, a)
    <2>1. w = "ack" => s[1] # "ack"
      BY <1>4 DEF Awaited
    <2>2. Len(s) > 1
      <3>1. CASE w = "diag"
        BY <1>1, <1>4, <3>1 DEF Awaited
      <3>2. CASE w = "ack"
        BY <1>1, <3>2 DEF HasAnswer
      <3> QED
        BY <3>1, <3>2
    <2>3. w = "diag" => \A i \in 1..(Len(u) - 1) : u[i] \notin Answers
      <3>1. ASSUME w = "diag", NEW i \in 1..(Len(u) - 1) PROVE u[i] \notin Answers
        <4>1. i \in 1..Len(u) /\ i + 1 \in 1..(Len(s) - 1)
          BY <1>1
        <4> QED
          BY <1>1, <3>1, <4>1 DEF HasAnswer
      <3> QED
        BY <3>1
    <2>4. ASSUME w = "ack" PROVE NoneBehindAck(u, Len(u) - 1) /\ \E i \in 1..(Len(u) - 1) : u[i] = "ack"
      <3>1. ASSUME NEW i \in 1..(Len(u) - 1), NEW j \in 1..(Len(u) - 1), i < j, u[i] = "ack"
            PROVE  u[j] \notin Answers
        <4>1. /\ i + 1 \in 1..(Len(s) - 1) /\ j + 1 \in 1..(Len(s) - 1) /\ i + 1 < j + 1
              /\ s[i + 1] = "ack" /\ u[j] = s[j + 1]
          <5>1. i \in 1..Len(u) /\ j \in 1..Len(u)
            BY <1>1
          <5> QED
            BY <1>1, <3>1, <5>1
        <4> QED
          BY <2>4, <4>1 DEF HasAnswer, NoneBehindAck
      <3>2. PICK i \in 1..(Len(s) - 1) : s[i] = "ack"
        BY <2>4 DEF HasAnswer
      <3>3. i # 1
        BY <2>1, <2>4, <3>2
      <3>4. i - 1 \in 1..(Len(u) - 1) /\ i - 1 \in 1..Len(u) /\ (i - 1) + 1 = i
        BY <1>1, <3>3
      <3>5. u[i - 1] = s[(i - 1) + 1]
        BY <1>1, <3>4
      <3> QED
        BY <3>1, <3>2, <3>4, <3>5 DEF NoneBehindAck
    <2> QED
      BY <1>1, <1>3, <2>2, <2>3, <2>4 DEF HasAnswer
  <1>5. ASSUME w = "ack", s[1] = "ack" PROVE HasAnswer(t, u, "diag", a)
    <2>1. Len(s) > 1
      BY <1>1, <1>2, <1>5
    <2>2. ASSUME NEW i \in 1..(Len(u) - 1) PROVE u[i] \notin Answers
      <3>1. 1 \in 1..(Len(s) - 1) /\ i + 1 \in 1..(Len(s) - 1) /\ 1 < i + 1 /\ u[i] = s[i + 1]
        BY <1>1, <2>1
      <3>2. NoneBehindAck(s, Len(s) - 1)
        BY <1>5 DEF HasAnswer
      <3> QED
        BY <1>5, <3>1, <3>2 DEF NoneBehindAck
    <2> QED
      BY <1>1, <1>3, <2>1, <2>2 DEF HasAnswer
  <1>6. ASSUME w = "diag", s[1] \in Answers PROVE s[1] = a /\ u = <<>>
    <2>1. Len(s) = 1
      <3>1. Len(s) > 1 => 1 \in 1..(Len(s) - 1)
        BY <1>1
      <3> QED
        BY <1>1, <1>6, <3>1 DEF HasAnswer
    <2> QED
      BY <1>1, <2>1, FrameOps
  <1> QED
    BY <1>4, <1>5, <1>6 DEF u

\* The board acknowledges the first question.
LEMMA PendingAcked ==
  ASSUME NEW t \in Seq(Question), NEW s \in Seq(Frames), NEW w \in {"ack", "diag"}, NEW q \in Question,
         NEW n, Pending(t, FALSE, s, w, q, n), q.live
  PROVE  /\ t[1].live => Pending(t, TRUE, Append(s, "ack"), w, q, n)
         /\ ~t[1].live => Pending(t, TRUE, s, w, q, n)
         /\ Len(t) > 1 => Quiet(t[1]) /\ Pending(Tail(t), FALSE, s, w, q, n)
         /\ Len(t) <= 1 => t[1] = q
  <1> DEFINE v == IF t[1].live THEN Append(s, "ack") ELSE s
  <1>1. Len(t) \in Nat /\ Len(t) >= 1 /\ t[Len(t)] = q
    BY QueueOps DEF Pending
  <1>2. Len(t) > 1 => Quiet(t[1])
    <2>1. Len(t) > 1 => 1 \in 1..(Len(t) - 1)
      BY <1>1
    <2> QED
      BY <2>1 DEF Pending
  <1>3. Len(s) \in Nat /\ "ack" \in Frames /\ "ack" \notin Answers
    BY FrameOps DEF Frames, Answers
  <1>4. /\ Len(v) \in Nat /\ Len(v) >= Len(s)
        /\ \A i \in 1..Len(v) : (i \in 1..Len(s) /\ v[i] = s[i]) \/ (i = Len(s) + 1 /\ i = Len(v) /\ v[i] = "ack")
        /\ t[1].live => Len(v) \in 1..Len(v) /\ v[Len(v)] = "ack"
        /\ \A i \in 1..Len(s) : i \in 1..Len(v) /\ v[i] = s[i]
    <2>1. CASE t[1].live
      <3>1. v = Append(s, "ack")
        BY <2>1
      <3>2. Len(v) = Len(s) + 1 /\ (\A i \in 1..Len(s) : v[i] = s[i]) /\ v[Len(s) + 1] = "ack"
        BY ONLY <1>3, <3>1, s \in Seq(Frames), FrameOps
      <3> QED
        BY <1>3, <3>2
    <2>2. CASE ~t[1].live
      BY <1>3, <2>2
    <2> QED
      BY <2>1, <2>2
  <1> HIDE DEF v
  <1>5. Pending(t, TRUE, v, w, q, n)
    <2>1. t # <<>> /\ t[Len(t)] = q /\ (n > 1 => Len(t) = 1)
          /\ \A i \in 1..(Len(t) - 1) : Quiet(t[i])
      BY DEF Pending
    <2>2. ~(Len(t) > 1 /\ ~Quiet(t[1]))
      BY <1>2
    <2>3. w = "diag" => \A i \in 1..Len(v) : v[i] \notin Answers
      BY <1>3, <1>4 DEF Pending
    <2>4. w = "ack" => NoneBehindAck(v, Len(v))
      <3>1. ASSUME w = "ack", NEW i \in 1..Len(v), NEW j \in 1..Len(v), i < j, v[i] = "ack"
            PROVE  v[j] \notin Answers
        <4>1. CASE v[j] = "ack"
          BY <1>3, <4>1
        <4>2. CASE j \in 1..Len(s) /\ v[j] = s[j]
          <5>1. i \in 1..Len(s) /\ s[i] = "ack"
            BY <1>3, <1>4, <3>1, <4>2
          <5> QED
            BY <3>1, <4>2, <5>1 DEF Pending, NoneBehindAck
        <4> QED
          BY <1>4, <4>1, <4>2
      <3> QED
        BY <3>1 DEF NoneBehindAck
    <2>5. Len(t) = 1 => \E i \in 1..Len(v) : v[i] = "ack"
      <3>1. Len(t) = 1 => t[1].live
        BY <1>1
      <3> QED
        BY <1>4, <3>1
    <2> QED
      BY <2>1, <2>2, <2>3, <2>4, <2>5 DEF Pending
  <1>6. ASSUME Len(t) > 1 PROVE Pending(Tail(t), FALSE, s, w, q, n)
    <2> DEFINE u == Tail(t)
    <2>1. Len(u) = Len(t) - 1 /\ u # <<>> /\ \A i \in 1..Len(u) : u[i] = t[i + 1]
      <3>1. Len(u) = Len(t) - 1 /\ \A i \in 1..(Len(t) - 1) : u[i] = t[i + 1]
        BY <1>1, QueueOps
      <3> HIDE DEF u
      <3> QED
        BY <1>1, <1>6, <3>1
    <2> HIDE DEF u
    <2>2. u[Len(u)] = q /\ ~(n > 1)
      <3>1. Len(u) \in 1..Len(u) /\ Len(u) + 1 = Len(t)
        BY <1>1, <1>6, <2>1
      <3>2. n > 1 => Len(t) = 1
        BY DEF Pending
      <3> QED
        BY <1>1, <1>6, <2>1, <3>1, <3>2
    <2>3. \A i \in 1..(Len(u) - 1) : Quiet(u[i])
      <3>1. ASSUME NEW i \in 1..(Len(u) - 1) PROVE Quiet(u[i])
        <4>1. i \in 1..Len(u) /\ i + 1 \in 1..(Len(t) - 1)
          BY <1>1, <2>1
        <4> QED
          BY <2>1, <4>1 DEF Pending
      <3> QED
        BY <3>1
    <2>4. /\ w = "diag" => \A i \in 1..Len(s) : s[i] \notin Answers
          /\ w = "ack" => NoneBehindAck(s, Len(s))
      BY DEF Pending
    <2> QED
      BY <2>1, <2>2, <2>3, <2>4 DEF Pending, u
  <1>7. Len(t) <= 1 => t[1] = q
    BY <1>1
  <1> QED
    BY <1>2, <1>5, <1>6, <1>7 DEF v

\* The board has dealt with the first question: one that is not the worker's, or the worker's.
LEMMA PendingHandled ==
  ASSUME NEW t \in Seq(Question), NEW s \in Seq(Frames), NEW w \in {"ack", "diag"}, NEW q \in Question,
         NEW n, Pending(t, TRUE, s, w, q, n), q.live, NEW a \in Answers
  PROVE  /\ Len(t) > 1 => /\ ~(n > 1)
                          /\ Quiet(t[1]) => Pending(Tail(t), FALSE, s, w, q, n)
                          /\ ~Quiet(t[1]) => Pending(Tail(t), FALSE, Append(s, a), w, q, n)
         /\ Len(t) <= 1 => /\ t[1] = q
                           /\ HasAnswer(Tail(t), Append(s, a), w, a)
  <1>1. Len(t) \in Nat /\ Len(t) >= 1 /\ t[Len(t)] = q
    BY QueueOps DEF Pending
  <1>2. Len(s) \in Nat /\ a \in Frames /\ a # "ack"
    BY FrameOps DEF Frames, Answers
  <1> DEFINE v == Append(s, a)
             u == Tail(t)
  <1>3. Len(v) = Len(s) + 1 /\ (\A i \in 1..Len(s) : v[i] = s[i]) /\ v[Len(s) + 1] = a
        /\ v \in Seq(Frames) /\ v # <<>>
    BY ONLY <1>2, s \in Seq(Frames), FrameOps
  <1>4. Len(u) = Len(t) - 1 /\ \A i \in 1..Len(u) : u[i] = t[i + 1]
    BY <1>1, QueueOps
  <1>5. Len(t) = 1 => u = <<>>
    BY <1>1, <1>4, QueueOps
  <1> HIDE DEF u, v
  <1>6. ASSUME Len(t) > 1, NEW f \in Seq(Frames),
               w = "diag" => \A i \in 1..Len(f) : f[i] \notin Answers, w = "ack" => NoneBehindAck(f, Len(f))
        PROVE  Pending(u, FALSE, f, w, q, n)
    <2>1. u # <<>>
      BY <1>1, <1>4, <1>6
    <2>2. u[Len(u)] = q /\ ~(n > 1)
      <3>1. Len(u) \in 1..Len(u) /\ Len(u) + 1 = Len(t)
        BY <1>1, <1>4, <1>6
      <3>2. n > 1 => Len(t) = 1
        BY DEF Pending
      <3> QED
        BY <1>1, <1>4, <1>6, <3>1, <3>2
    <2>3. \A i \in 1..(Len(u) - 1) : Quiet(u[i])
      <3>1. ASSUME NEW i \in 1..(Len(u) - 1) PROVE Quiet(u[i])
        <4>1. i \in 1..Len(u) /\ i + 1 \in 1..(Len(t) - 1) /\ i + 1 > 1
          BY <1>1, <1>4
        <4> QED
          BY <1>4, <4>1 DEF Pending
      <3> QED
        BY <3>1
    <2> QED
      BY <1>6, <2>1, <2>2, <2>3 DEF Pending
  <1>7. ASSUME Len(t) > 1
        PROVE  /\ ~(n > 1)
               /\ Quiet(t[1]) => Pending(u, FALSE, s, w, q, n)
               /\ ~Quiet(t[1]) => Pending(u, FALSE, v, w, q, n)
    <2>1. ~(n > 1)
      BY <1>1, <1>7 DEF Pending
    <2>2. /\ w = "diag" => \A i \in 1..Len(s) : s[i] \notin Answers
          /\ w = "ack" => NoneBehindAck(s, Len(s))
      BY DEF Pending
    <2>3. ASSUME ~Quiet(t[1])
          PROVE  /\ w = "diag" => \A i \in 1..Len(v) : v[i] \notin Answers
                 /\ w = "ack" => NoneBehindAck(v, Len(v))
      <3>1. w = "ack" /\ \A i \in 1..Len(s) : s[i] # "ack"
        BY <1>7, <2>3 DEF Pending
      <3>2. \A i \in 1..Len(v) : (i \in 1..Len(s) /\ v[i] = s[i]) \/ v[i] = a
        BY <1>2, <1>3
      <3>3. \A i \in 1..Len(v) : v[i] # "ack"
        BY <1>2, <3>1, <3>2
      <3> QED
        BY <3>1, <3>3 DEF NoneBehindAck
    <2> QED
      BY <1>3, <1>6, <1>7, <2>1, <2>2, <2>3
  <1>8. ASSUME Len(t) <= 1 PROVE t[1] = q /\ HasAnswer(u, v, w, a)
    <2>1. Len(t) = 1 /\ t[1] = q /\ u = <<>>
      <3>1. Len(t) = 1
        <4>1. Len(t) \in Nat /\ Len(t) >= 1 /\ Len(t) <= 1
          BY <1>1, <1>8
        <4>2. \A m \in Nat : m >= 1 /\ m <= 1 => m = 1
          OBVIOUS
        <4> QED
          BY ONLY <4>1, <4>2
      <3> QED
        BY <1>1, <1>5, <3>1
    <2>2. (Len(v) - 1 = Len(s)) /\ v[Len(v)] = a
      BY <1>2, <1>3
    <2>3. w = "diag" => \A i \in 1..(Len(v) - 1) : v[i] \notin Answers
      BY <1>3, <2>2 DEF Pending
    <2>4. w = "ack" => NoneBehindAck(v, Len(v) - 1)
      <3>1. ASSUME w = "ack", NEW i \in 1..Len(s), NEW j \in 1..Len(s), i < j, v[i] = "ack" PROVE v[j] \notin Answers
        <4>1. s[i] = "ack" /\ v[j] = s[j]
          BY <1>3, <3>1
        <4> QED
          BY <3>1, <4>1 DEF Pending, NoneBehindAck
      <3> QED
        BY <2>2, <3>1 DEF NoneBehindAck
    <2>5. w = "ack" => \E i \in 1..(Len(v) - 1) : v[i] = "ack"
      <3>1. w = "ack" => \E i \in 1..Len(s) : s[i] = "ack"
        BY <2>1 DEF Pending
      <3> QED
        BY <1>3, <2>2, <3>1
    <2> QED
      BY <1>3, <2>1, <2>2, <2>3, <2>4, <2>5 DEF HasAnswer
  <1> QED
    BY <1>7, <1>8 DEF u, v

\* Which of its questions the worker asks tells how far it is.
LEMMA WhichStep ==
  ASSUME cfg \in Configs, NEW i \in 1..LastStep
  PROVE  /\ i \in Nat /\ i >= 1 /\ Opens \in {2, 4} /\ (cfg.sec <=> Opens = 4)
         /\ StepAt(i) = "session" => i = 1
         /\ StepAt(i) = "seed" => i = 2 /\ cfg.sec
         /\ StepAt(i) = "key" => i = 3 /\ cfg.sec
         /\ StepAt(i) = "routine" => i = Opens /\ cfg.mode = "routine"
         /\ StepAt(i) = "start" => i = Opens /\ cfg.mode = "transfer"
         /\ StepAt(i) = "block" => i > Opens /\ i <= Opens + Blocks /\ cfg.mode = "transfer"
         /\ StepAt(i) = "exit" => i = Opens + Blocks + 1 /\ cfg.mode = "transfer"
  <1>1. i \in Nat /\ i >= 1 /\ Opens \in {2, 4} /\ LastStep \in Nat /\ i <= LastStep
    BY StepTypes
  <1>2. (cfg.sec <=> Opens = 4) /\ cfg.mode \in {"transfer", "routine"} /\ Blocks \in Nat
    BY Bounds DEF Opens
  <1>3. /\ StepAt(i) = "session" => i = 1
        /\ StepAt(i) = "seed" => i = 2 /\ i < Opens
        /\ StepAt(i) = "key" => i # 1 /\ i # 2 /\ i < Opens
        /\ StepAt(i) = "routine" => cfg.mode = "routine" /\ ~(i < Opens)
        /\ StepAt(i) = "start" => i = Opens /\ cfg.mode # "routine"
        /\ StepAt(i) = "block" => ~(i < Opens) /\ i # Opens /\ i # LastStep /\ cfg.mode # "routine"
        /\ StepAt(i) = "exit" => i = LastStep /\ cfg.mode # "routine"
    BY DEF StepAt
  <1>4. LastStep = IF cfg.mode = "routine" THEN Opens ELSE Opens + Blocks + 1
    BY DEF LastStep
  <1> QED
    BY <1>1, <1>2, <1>3, <1>4

LEMMA NextSeqIs ==
  ASSUME NEW m \in Nat PROVE NextSeq(SeqNo(m)) = SeqNo(m + 1)
  <1>1. SeqMax + 1 \in Nat /\ SeqMax + 1 >= 2 /\ (SeqMax + 1) - 1 = SeqMax
    BY Bounds
  <1>2. (m + 1) % (SeqMax + 1) = IF m % (SeqMax + 1) = SeqMax THEN 0 ELSE (m % (SeqMax + 1)) + 1
    BY ONLY <1>1, m \in Nat, WrapsAt
  <1> QED
    BY <1>2 DEF NextSeq, SeqNo

\* Before the transfer, or the routine, the gate is open.
LEMMA GateReached ==
  ASSUME cfg \in Configs, NEW n \in Nat, n >= Opens - 1, Reached(n)
  PROVE  GateOk
  <1>1. n >= 1 /\ (cfg.sec => n >= 3)
    BY Bounds DEF Opens
  <1> QED
    BY <1>1 DEF Reached, GateOk

LEMMA SmoothHolds == ASSUME TInv, SmoothInv, Next PROVE SmoothInv'
  <1> DEFINE Q == Question0(step)
             A == AnswerTo(StepAt(step))
             Place == UNCHANGED <<cfg, worker, step, run>>
             Board0 == UNCHANGED <<cfg, session, unlocked, seed, xfer>>
  <1> SUFFICES ASSUME ~trouble' PROVE posted' # "ota_err" /\ (Asking' => Smooth')
    BY DEF SmoothInv
  <1>1. /\ TypeOK /\ cfg \in Configs /\ tx \in Seq(Question) /\ Len(tx) \in Nat /\ (acked => tx # <<>>)
        /\ rx \in Seq(Frames) /\ run \in 0..MaxRuns /\ run \in Nat /\ LastStep \in Nat /\ step \in Nat
        /\ trouble \in BOOLEAN /\ acked \in BOOLEAN /\ DOMAIN call = Threads /\ Threads = {"gui", "worker"}
        /\ DOMAIN tx = 1..Len(tx) /\ DOMAIN rx = 1..Len(rx)
    BY Typed, StepTypes DEF TInv, ProcInv, TypeOK, Threads
  <1>2. ~trouble => posted # "ota_err" /\ (Asking => Smooth)
    BY DEF SmoothInv
  <1>3. Asking => step \in 1..LastStep /\ Q \in Question /\ Q.live /\ A \in Answers /\ A # "nrc"
                  /\ call["worker"] # NoCall
    <2>1. SUFFICES ASSUME Asking PROVE step \in 1..LastStep /\ Q \in Question /\ Q.live /\ A \in Answers
                                       /\ A # "nrc" /\ call["worker"] # NoCall
      OBVIOUS
    <2>2. call["worker"].q = StepAt(step)
      BY <2>1 DEF TInv, ProcInv
    <2>3. step \in 1..LastStep
      <3>1. Len(WorkerSteps) = LastStep
        BY <1>1, <2>1, OtaShape DEF WorkerSteps, Asking
      <3> QED
        BY <1>1, <2>1, <3>1 DEF TypeOK, Asking
    <2>4. StepAt(step) \in Questions \ GuiQuestions /\ StepAt(step) \notin {"route", "present"} /\ BlockAt(step) \in 0..Blocks
      BY <1>1, <2>3, StepTypes
    <2>5. Q \in Question /\ Q.live
      BY <1>1, <2>4 DEF Question0, Question
    <2>6. A \in Answers /\ A # "nrc"
      BY <2>4 DEF AnswerTo, Answers, Questions, GuiQuestions, Pages
    <2>7. call["worker"] # NoCall
      BY <2>2, <2>4 DEF NoCall, Questions, GuiQuestions, Pages
    <2> QED
      BY <2>3, <2>5, <2>6, <2>7
  <1>4. ASSUME Place PROVE Question0(step)' = Q /\ AnswerTo(StepAt(step))' = A /\ (Asking' <=> Asking)
    BY <1>1, <1>4, ListsStay DEF Question0, AnswerTo, Asking
  <1>5. ASSUME Board0, step' = step PROVE Reached(step)' = Reached(step) /\ Reached(step - 1)' = Reached(step - 1)
    BY <1>5 DEF Reached, Opens
  <1>6. ASSUME ~trouble, posted' = posted, Place, Asking => Smooth' PROVE posted' # "ota_err" /\ (Asking' => Smooth')
    BY <1>2, <1>4, <1>6
  \* What the smooth update is, before and after a step in which the worker stays where it is.
  <1>7. ASSUME Asking, ~trouble
        PROVE  /\ link = "up" /\ call["gui"] = NoCall /\ Wait \in {"ack", "diag"}
               /\ \/ Pending(tx, acked, rx, Wait, Q, step) /\ Reached(step - 1)
                  \/ HasAnswer(tx, rx, Wait, A) /\ Reached(step)
    BY <1>2, <1>7 DEF Smooth
  <1>8. ASSUME Place, link' = "up", call'["gui"] = NoCall, call'["worker"].wait \in {"ack", "diag"},
               \/ Pending(tx', acked', rx', call'["worker"].wait, Q, step) /\ Reached(step - 1)'
               \/ HasAnswer(tx', rx', call'["worker"].wait, A) /\ Reached(step)'
        PROVE  Smooth'
    <2>1. Question0(step)' = Q /\ AnswerTo(StepAt(step))' = A /\ step' = step
      BY <1>4, <1>8
    <2> HIDE DEF Q, A
    <2> QED
      BY <1>8, <2>1 DEF Smooth, Wait
  <1> HIDE DEF Q, A
  <1>9. CASE Window \/ \E th \in Threads : Waits(th)
    <2>1. WaitEnds /\ Excused /\ Board0 /\ UNCHANGED <<acked, run>>
      BY <1>9, WaitsAre DEF waitHolds, updateVars, boardVars
    <2>2. ~trouble
      BY <2>1 DEF Excused, Fault
    <2>3. Reached(step) /\ step' = step => Reached(step)'
      BY <1>5, <2>1
    <2>4. CASE Takes("worker")
      <3>1. /\ rx # <<>> /\ rx' = Tail(rx) /\ Head(rx) = rx[1] /\ posted' = posted /\ Place /\ link' = link /\ tx' = tx
            /\ \/ ~Awaited(Wait, rx[1]) /\ call' = call
               \/ Wait = "ack" /\ rx[1] = "ack" /\ call' = [call EXCEPT !["worker"].wait = "diag"]
        BY <1>1, <2>1, <2>4, FrameOps DEF Takes, Wait
      <3>2. ASSUME Asking PROVE Smooth'
        <4>1. /\ link' = "up" /\ call'["gui"] = NoCall /\ call'["worker"].wait \in {"ack", "diag"}
              /\ \/ ~Awaited(Wait, rx[1]) /\ call'["worker"].wait = Wait
                 \/ Wait = "ack" /\ rx[1] = "ack" /\ call'["worker"].wait = "diag"
          <5>1. /\ link' = "up" /\ call["gui"] = NoCall /\ Wait \in {"ack", "diag"}
                /\ call' = call \/ call' = [call EXCEPT !["worker"].wait = "diag"]
            BY <1>7, <2>2, <3>1, <3>2
          <5>2. call["worker"] \in [q : Questions \cup {"none"}, wait : {"none", "route", "ack", "diag"}]
            BY <1>1, Typed
          <5>3. CASE ~Awaited(Wait, rx[1]) /\ call' = call
            BY <5>1, <5>3 DEF Wait
          <5>4. CASE Wait = "ack" /\ rx[1] = "ack" /\ call' = [call EXCEPT !["worker"].wait = "diag"]
            <6>1. call'["gui"] = call["gui"] /\ call'["worker"] = [call["worker"] EXCEPT !.wait = "diag"]
              BY <1>1, <5>4
            <6>2. call'["worker"].wait = "diag"
              BY <5>2, <6>1
            <6> QED
              BY <5>1, <5>4, <6>1, <6>2
          <5> QED
            BY <3>1, <5>3, <5>4
        <4>2. Reached(step)' = Reached(step) /\ Reached(step - 1)' = Reached(step - 1)
          BY <1>5, <2>1, <3>1
        <4>3. CASE Pending(tx, acked, rx, Wait, Q, step) /\ Reached(step - 1)
          <5>1. Pending(tx', acked', rx', call'["worker"].wait, Q, step)
            BY <1>1, <1>7, <2>1, <2>2, <3>1, <3>2, <4>1, <4>3, PendingTakes
          <5> QED
            BY <1>8, <3>1, <4>1, <4>2, <4>3, <5>1
        <4>4. CASE HasAnswer(tx, rx, Wait, A) /\ Reached(step)
          <5>1. HasAnswer(tx', rx', call'["worker"].wait, A)
            <6>1. rx \in Seq(Frames) /\ A \in Answers /\ Wait \in {"ack", "diag"} /\ tx' = tx /\ rx' = Tail(rx)
              BY <1>1, <1>3, <1>7, <2>2, <3>1, <3>2
            <6>2. /\ ~Awaited(Wait, rx[1]) => HasAnswer(tx, Tail(rx), Wait, A)
                  /\ Wait = "ack" /\ rx[1] = "ack" => HasAnswer(tx, Tail(rx), "diag", A)
              BY ONLY <4>4, <6>1, AnswerTakes
            <6> QED
              BY ONLY <4>1, <6>1, <6>2
          <5> QED
            BY <1>8, <3>1, <4>1, <4>2, <4>4, <5>1
        <4> QED
          BY <1>7, <2>2, <3>2, <4>3, <4>4
      <3> QED
        BY <1>6, <2>2, <3>1, <3>2
    <2>5. CASE Takes("gui") \/ GuiEnds \/ GuiGivesUp
      <3>1. call["gui"] # NoCall /\ posted' = posted /\ Place
        BY <2>1, <2>5 DEF Takes, GuiEnds, GuiGivesUp
      <3> QED
        BY <1>6, <1>7, <2>2, <3>1
    <2>6. CASE WorkerGivesUp
      <3>1. step' = 0 /\ (worker = "connect" => posted' = "connect_err") /\ call["worker"] # NoCall
        BY <2>6 DEF WorkerGivesUp, Post
      <3>2. worker \in {"ota", "connect"} /\ step # 0
        BY <1>1, <3>1, WorkersAre DEF TInv, ProcInv
      <3>3. CASE worker = "ota"
        <4>1. Asking
          BY <3>2, <3>3 DEF Asking
        <4>2. ~(rx = <<>> /\ ~\E i \in DOMAIN tx : tx[i].live)
          <5>1. CASE Pending(tx, acked, rx, Wait, Q, step)
            <6>1. Len(tx) \in 1..Len(tx) /\ tx[Len(tx)] = Q
              BY <1>1, <5>1, QueueOps DEF Pending
            <6> QED
              BY <1>1, <1>3, <4>1, <6>1
          <5>2. CASE HasAnswer(tx, rx, Wait, A)
            BY <5>2 DEF HasAnswer
          <5> QED
            BY <1>7, <2>2, <4>1, <5>1, <5>2
        <4> QED
          BY <1>7, <2>2, <2>6, <4>1, <4>2 DEF WorkerGivesUp
      <3>4. CASE worker = "connect"
        BY <3>1, <3>4 DEF Asking
      <3> QED
        BY <3>2, <3>3, <3>4
    <2>7. ASSUME NEW a \in Frames, Given(a), worker = "ota"
          PROVE  Asking => a = A /\ rx' = <<>> /\ tx = <<>> /\ Reached(step) /\ link = "up" /\ call["gui"] = NoCall
      <3>1. ASSUME Asking PROVE a = A /\ rx' = <<>> /\ tx = <<>> /\ Reached(step)
        <4>1. Wait = "diag" /\ rx # <<>> /\ a = rx[1] /\ a \in Answers /\ rx' = Tail(rx)
          BY <1>1, <1>7, <2>2, <2>7, <3>1, FrameOps DEF Given, Awaited, Wait
        <4>2. CASE Pending(tx, acked, rx, Wait, Q, step)
          BY <1>1, <4>1, <4>2, PendingTakes
        <4>3. CASE HasAnswer(tx, rx, Wait, A) /\ Reached(step)
          <5>1. rx[1] = A /\ Tail(rx) = <<>>
            BY <1>1, <1>3, <3>1, <4>1, <4>3, AnswerTakes
          <5> QED
            BY <4>1, <4>3, <5>1 DEF HasAnswer
        <4> QED
          BY <1>7, <2>2, <3>1, <4>2, <4>3
      <3> QED
        BY <1>7, <2>2, <3>1
    <2>8. ASSUME Asking PROVE Accepts(StepAt(step), A) /\ (step = LastStep => VerdictOk(A))
      <3>1. A # "nrc" /\ A = AnswerTo(StepAt(step)) /\ step \in 1..LastStep
        BY <1>3, <2>8 DEF A
      <3>2. Accepts(StepAt(step), A)
        BY <3>1 DEF Accepts, AnswerTo
      <3>3. step = LastStep => StepAt(step) = IF cfg.mode = "routine" THEN "routine" ELSE "exit"
        BY <1>1, <3>1, Bounds DEF StepAt, LastStep, Opens
      <3> QED
        BY <3>1, <3>2, <3>3 DEF VerdictOk, AnswerTo
    <2>9. ASSUME NEW a \in Frames, WorkerEnds(a) PROVE posted' # "ota_err" /\ ~Asking'
      <3>1. Given(a) /\ step' = 0
        BY <2>9 DEF WorkerEnds, Post
      <3>2. CASE worker = "ota"
        <4>1. Asking
          <5>1. step # 0
            BY <3>1 DEF Given, TInv, ProcInv
          <5> QED
            BY <3>2, <5>1 DEF Asking
        <4> QED
          BY <2>7, <2>8, <2>9, <3>1, <3>2, <4>1 DEF WorkerEnds, Post, Asking
      <3>3. CASE worker # "ota"
        BY <2>9, <3>1, <3>3 DEF WorkerEnds, Post, Asking
      <3> QED
        BY <3>2, <3>3
    <2>10. ASSUME NEW a \in Frames, WorkerAsks(a) PROVE posted' # "ota_err" /\ (Asking' => Smooth')
      <3>1. Given(a) /\ step' = step + 1 /\ posted' = posted /\ worker' = worker /\ link' = link
        BY <2>10 DEF WorkerAsks, Given
      <3>2. CASE worker = "ota"
        <4>1. step # 0
          BY <3>1 DEF Given, TInv, ProcInv
        <4>2. Asking /\ rx' = <<>> /\ tx = <<>> /\ Reached(step) /\ link = "up" /\ call["gui"] = NoCall
          BY <2>7, <3>1, <3>2, <4>1 DEF Asking
        <4>3. Ask("worker", StepAt(step + 1), BlockAt(step + 1), run) /\ step + 1 \in 1..LastStep
          BY <2>10, <3>2 DEF WorkerAsks
        <4> DEFINE e == [q |-> StepAt(step + 1), blk |-> BlockAt(step + 1), run |-> run, live |-> TRUE]
        <4>4. tx' = <<e>> /\ call'["gui"] = NoCall /\ call'["worker"].wait = "ack"
          <5>1. tx' = Append(<<>>, e) /\ StepAt(step + 1) # "route"
            BY <1>1, <3>1, <4>2, <4>3, StepTypes DEF Ask
          <5>2. call' = [call EXCEPT !["worker"] = [q |-> StepAt(step + 1), wait |-> "ack"]]
            BY <4>3, <5>1 DEF Ask
          <5> QED
            BY <1>1, <4>2, <5>1, <5>2
        <4>5. Question0(step)' = e
          BY <1>1, <2>1, <3>1, ListsStay DEF Question0
        <4>6. acked' = FALSE
          BY <1>1, <2>1, <4>2
        <4> HIDE DEF e
        <4>7. Pending(<<e>>, FALSE, <<>>, "ack", e, step + 1)
          BY DEF Pending, NoneBehindAck
        <4>8. Reached(step - 1)'
          <5>1. step' - 1 = step
            BY <1>1, <3>1
          <5> QED
            BY <2>1, <4>2, <5>1 DEF Reached, Opens
        <4> QED
          BY <1>2, <2>2, <3>1, <4>2, <4>4, <4>5, <4>6, <4>7, <4>8 DEF Smooth, Wait
      <3>3. CASE worker # "ota"
        BY <1>2, <2>2, <3>1, <3>3 DEF Asking
      <3> QED
        BY <3>2, <3>3
    <2> QED
      BY <2>1, <2>4, <2>5, <2>6, <2>9, <2>10, <1>1 DEF WaitEnds
  <1>10. CASE Connect \/ TcpConnect \/ TcpRefused \/ UserDisconnects
    <2>1. /\ posted' = posted \/ posted' = "connect_err"
          /\ trouble' = trouble
          /\ worker' # "ota"
      BY <1>10 DEF Connect, TcpConnect, TcpRefused, UserDisconnects, Post, panelVars
    <2> QED
      BY <1>2, <2>1 DEF Asking
  <1>11. CASE OnConnect \/ OnOk \/ OnErr
    BY <1>11 DEF OnConnect, OnOk, OnErr, Asking
  <1>12. CASE KeepAlive \/ ReadPage("dem") \/ ReadPage("dump") \/ Answer
    <2>1. ~Busy \/ UNCHANGED <<link, call, tx, trouble, faults>>
      BY <1>12 DEF KeepAlive, ReadPage, Answer, ClearAnswered, AskPage, Fault
    <2>2. posted' = posted /\ Place /\ (~trouble' => ~trouble)
      BY <1>12 DEF KeepAlive, ReadPage, Answer, ClearAnswered, AskPage, Fault, panelVars,
         updateVars
    <2>3. CASE ~Busy
      <3>1. ~Asking
        BY <2>3 DEF Asking, Busy
      <3> QED
        BY <1>6, <2>2, <3>1
    <2>4. CASE UNCHANGED <<link, call, tx, trouble, faults>>
      <3>1. CASE Answer
        <4>1. Board0 /\ UNCHANGED <<rx, acked>>
          BY <3>1 DEF Answer, ClearAnswered, boardVars
        <4>2. Reached(step)' = Reached(step) /\ Reached(step - 1)' = Reached(step - 1)
          BY <1>5, <2>2, <4>1
        <4>3. Asking => Smooth'
          BY <1>7, <1>8, <2>2, <2>4, <4>1, <4>2 DEF Wait
        <4> QED
          BY <1>6, <2>2, <4>3
      <3>2. CASE ~Answer
        <4>1. ~Busy
          BY <1>12, <2>4, <3>2, <1>1 DEF KeepAlive, ReadPage, AskPage, Fault, TypeOK
        <4> QED
          BY <2>3, <4>1
      <3> QED
        BY <3>1, <3>2
    <2> QED
      BY <2>1, <2>3, <2>4
  <1>13. CASE ClearAsked
    <2>1. Board0 /\ Place /\ UNCHANGED <<posted, call, trouble, link, rx, tx, acked>>
      BY <1>13 DEF ClearAsked, netVars, boardVars, updateVars
    <2>2. Reached(step)' = Reached(step) /\ Reached(step - 1)' = Reached(step - 1)
      BY <1>5, <2>1
    <2>3. Asking => Smooth'
      BY <1>7, <1>8, <2>1, <2>2 DEF Wait
    <2> QED
      BY <1>6, <2>1, <2>3
  <1>14. CASE Faults
    BY <1>14 DEF Faults, S3, LinkLost, BoardRestart, Fault
  <1>15. CASE Start
    <2>1. /\ GuiIdle /\ worker = "none" /\ client /\ run < MaxRuns /\ run' = run + 1 /\ link' = link
          /\ worker' = "ota" /\ step' = 1 /\ Ask("worker", OtaSteps[1], 0, run + 1) /\ ~Misaligned
          /\ link # "broken" /\ UNCHANGED <<cfg, posted, rx, acked, session, unlocked, seed, xfer>>
      BY <1>15 DEF Start, boardVars
    <2>2. posted' # "ota_err" /\ link = "up"
      BY <1>1, <2>1 DEF TInv, ProcInv, TypeOK
    <2>3. OtaSteps[1] = "session" /\ StepAt(1) = "session"
      <3>1. 1 \in 1..LastStep
        BY <1>1, StepTypes
      <3> QED
        BY <1>1, <3>1, OtaShape DEF StepAt
    <2> DEFINE e == [q |-> "session", blk |-> 0, run |-> run + 1, live |-> TRUE]
    <2>4. e \in Question
      BY <1>1, <2>1, Bounds DEF Question, Questions
    <2>5. /\ tx' = Append(tx, e) /\ call' = [call EXCEPT !["worker"] = [q |-> "session", wait |-> "ack"]]
      BY <2>1, <2>2, <2>3 DEF Ask
    <2>6. call'["gui"] = NoCall /\ call'["worker"].wait = "ack"
      BY <1>1, <2>1, <2>5 DEF GuiIdle
    <2>7. Question0(step)' = e
      BY <1>1, <2>1, <2>3, ListsStay DEF Question0, BlockAt
    <2> HIDE DEF e
    <2>8. /\ Len(tx') = Len(tx) + 1 /\ tx'[Len(tx) + 1] = e /\ tx' # <<>>
          /\ \A i \in 1..Len(tx) : tx'[i] = tx[i]
      BY <1>1, <2>4, <2>5, QueueOps
    <2>9. \A i \in 1..Len(tx) : i \in Unanswered <=> ~Quiet(tx[i])
      BY <1>1, QueueOps DEF Unanswered, Quiet, Question
    <2>10. /\ \A i \in 1..Len(tx) : i > 1 \/ ~acked => Quiet(tx[i])
           /\ ~(\A i \in 1..Len(tx) : Quiet(tx[i])) => \A i \in 1..Len(rx) : rx[i] # "ack"
           /\ NoneBehindAck(rx, Len(rx))
      <3>1. \A i \in 1..Len(tx) : i > 1 \/ ~acked => Quiet(tx[i])
        BY <2>1, <2>9 DEF Misaligned
      <3>2. ~(\A i \in 1..Len(tx) : Quiet(tx[i])) => \A i \in 1..Len(rx) : rx[i] # "ack"
        BY <1>1, <2>1, <2>9 DEF Misaligned
      <3>3. NoneBehindAck(rx, Len(rx))
        BY <1>1, <2>1 DEF Misaligned, NoneBehindAck
      <3> QED
        BY <3>1, <3>2, <3>3
    <2>11. Pending(tx', acked, rx, "ack", e, 1)
      <3>1. Len(tx') - 1 = Len(tx) /\ tx'[Len(tx')] = e /\ tx' # <<>>
        BY <1>1, <2>8
      <3>2. \A i \in 1..(Len(tx') - 1) : i > 1 \/ ~acked => Quiet(tx'[i])
        BY <2>8, <2>10, <3>1
      <3>3. Len(tx') > 1 /\ acked /\ ~Quiet(tx'[1]) => \A i \in 1..Len(rx) : rx[i] # "ack"
        <4>1. Len(tx') > 1 => 1 \in 1..Len(tx) /\ tx'[1] = tx[1]
          BY <1>1, <2>8
        <4> QED
          BY <2>10, <4>1
      <3>4. Len(tx') = 1 => ~acked
        <4>1. tx # <<>> => Len(tx) >= 1
          BY <1>1, QueueOps
        <4>2. acked => Len(tx) >= 1
          BY <1>1, <4>1
        <4>3. Len(tx') = Len(tx) + 1 /\ Len(tx) \in Nat
          BY <1>1, <2>8
        <4>4. \A m \in Nat : m + 1 = 1 => ~(m >= 1)
          OBVIOUS
        <4> QED
          BY <4>2, <4>3, <4>4
      <3> QED
        BY <2>10, <3>1, <3>2, <3>3, <3>4 DEF Pending
    <2>12. Reached(step - 1)'
      <3>1. step' - 1 = 0 /\ Opens' \in {2, 4}
        BY <1>1, <2>1, ListsStay, StepTypes
      <3> QED
        BY <3>1 DEF Reached
    <2>13. Smooth'
      BY <2>1, <2>2, <2>6, <2>7, <2>11, <2>12 DEF Smooth, Wait
    <2> QED
      BY <2>2, <2>13
  <1>16. CASE BoardAck
    <2>1. /\ tx # <<>> /\ acked = FALSE /\ Place /\ Board0 /\ UNCHANGED <<posted, call, link, trouble>>
          /\ IF tx[1].q = "route" THEN Say("route") /\ tx' = Tail(tx) /\ acked' = FALSE
             ELSE Say("ack") /\ acked' = TRUE /\ tx' = tx
      BY <1>1, <1>16 DEF BoardAck, panelVars, boardVars, updateVars
    <2>2. Reached(step)' = Reached(step) /\ Reached(step - 1)' = Reached(step - 1)
      BY <1>5, <2>1
    <2>3. ASSUME Asking PROVE Smooth'
      <3>1. Pending(tx, FALSE, rx, Wait, Q, step) /\ Reached(step - 1)
        BY <1>7, <2>1, <2>3 DEF HasAnswer
      <3>2. Wait \in {"ack", "diag"} /\ Q \in Question /\ Q.live
        BY <1>3, <1>7, <2>1, <2>3
      <3>3. /\ tx[1].live => Pending(tx, TRUE, Append(rx, "ack"), Wait, Q, step)
            /\ ~tx[1].live => Pending(tx, TRUE, rx, Wait, Q, step)
            /\ Len(tx) > 1 => Quiet(tx[1]) /\ Pending(Tail(tx), FALSE, rx, Wait, Q, step)
            /\ Len(tx) <= 1 => tx[1] = Q
        <4>1. tx \in Seq(Question) /\ rx \in Seq(Frames)
          BY <1>1
        <4> QED
          BY ONLY <3>1, <3>2, <4>1, PendingAcked
      <3>4. Pending(tx', acked', rx', Wait, Q, step)
        <4>1. CASE tx[1].q # "route"
          BY <2>1, <3>3, <4>1 DEF Say
        <4>2. CASE tx[1].q = "route"
          <5>1. Q.q # "route"
            BY <1>1, <1>3, <2>3, StepTypes DEF Q, Question0
          <5>2. Len(tx) > 1
            BY <1>1, <3>3, <4>2, <5>1
          <5>3. rx' = rx
            BY <2>1, <3>3, <4>2, <5>2 DEF Say, Quiet
          <5> QED
            BY <2>1, <3>3, <4>2, <5>2, <5>3
        <4> QED
          BY <4>1, <4>2
      <3> QED
        BY <1>7, <1>8, <2>1, <2>2, <2>3, <3>1, <3>4 DEF Wait
    <2> QED
      BY <1>6, <2>1, <2>3
  \* A question the board has dealt with: what it takes to bring the update a step further.
  <1>17. ASSUME NEW qs \in SUBSET Questions, NEW a \in Answers \cup {"none"}, Handling(qs, a), ~trouble,
                a = "none" => tx[1].q = "keepalive", tx[1].q = "keepalive" => a = "none",
                Asking /\ tx[1] = Q /\ Reached(step - 1) => a = A /\ Reached(step)'
         PROVE  posted' # "ota_err" /\ (Asking' => Smooth')
    <2>1. /\ tx # <<>> /\ acked /\ tx' = Tail(tx) /\ acked' = FALSE /\ Answered(a)
          /\ UNCHANGED <<cfg, panelVars, call, step, link, updateVars, faults>>
      BY <1>17 DEF Handling
    <2>2. Place /\ posted' = posted /\ call' = call /\ link' = link
      BY <2>1 DEF panelVars, updateVars
    <2>3. rx' = IF a # "none" /\ tx[1].live THEN Append(rx, a) ELSE rx
      BY <2>1 DEF Answered, Say
    <2>4. ASSUME Asking PROVE Smooth'
      <3>1. Pending(tx, TRUE, rx, Wait, Q, step) /\ Reached(step - 1)
        BY <1>1, <1>7, <1>17, <2>1, <2>4 DEF HasAnswer
      <3>2. Wait \in {"ack", "diag"} /\ Q \in Question /\ Q.live /\ tx \in Seq(Question) /\ rx \in Seq(Frames)
            /\ A \in Answers
        BY <1>1, <1>3, <1>7, <1>17, <2>4
      <3>3. ASSUME NEW f \in Answers
            PROVE  /\ Len(tx) > 1 => /\ ~(step > 1)
                                     /\ Quiet(tx[1]) => Pending(Tail(tx), FALSE, rx, Wait, Q, step)
                                     /\ ~Quiet(tx[1]) => Pending(Tail(tx), FALSE, Append(rx, f), Wait, Q, step)
                   /\ Len(tx) <= 1 => tx[1] = Q /\ HasAnswer(Tail(tx), Append(rx, f), Wait, f)
        BY ONLY <3>1, <3>2, <3>3, PendingHandled
      <3>6. /\ Len(tx) > 1 => ~(step > 1) /\ (Quiet(tx[1]) => Pending(Tail(tx), FALSE, rx, Wait, Q, step))
            /\ Len(tx) <= 1 => tx[1] = Q /\ HasAnswer(Tail(tx), Append(rx, A), Wait, A)
        <4>1. A \in Answers
          BY <3>2
        <4> QED
          BY ONLY <3>3, <4>1
      <3>4. CASE Len(tx) > 1
        <4>1. Pending(tx', acked', rx', Wait, Q, step)
          <5>1. CASE Quiet(tx[1])
            <6>1. rx' = rx
              BY <1>17, <2>3, <5>1 DEF Quiet
            <6> QED
              BY <2>1, <3>4, <3>6, <5>1, <6>1
          <5>2. CASE ~Quiet(tx[1])
            <6>1. a \in Answers /\ rx' = Append(rx, a)
              BY <1>17, <2>3, <5>2 DEF Quiet
            <6> QED
              BY <2>1, <3>3, <3>4, <5>2, <6>1
          <5> QED
            BY <5>1, <5>2
        <4>2. Reached(step - 1)'
          <5>1. step' = 1 /\ Opens' \in {2, 4}
            <6>1. step = 1
              <7>1. ~(step > 1) /\ step \in 1..LastStep
                BY <1>3, <2>4, <3>4, <3>6
              <7> QED
                BY <1>1, <7>1
            <6> QED
              BY <1>1, <2>2, <6>1, ListsStay, StepTypes
          <5> QED
            BY <5>1 DEF Reached
        <4> QED
          BY <1>7, <1>8, <1>17, <2>2, <2>4, <4>1, <4>2 DEF Wait
      <3>5. CASE ~(Len(tx) > 1)
        <4>0. \A m \in Nat : ~(m > 1) => m <= 1
          OBVIOUS
        <4>5. Len(tx) <= 1
          BY <1>1, <3>5, <4>0
        <4>1. tx[1] = Q
          BY <3>6, <4>5
        <4>2. a = A /\ Reached(step)'
          BY <1>17, <2>4, <3>1, <4>1
        <4>3. rx' = Append(rx, A)
          BY <2>3, <3>2, <4>1, <4>2 DEF Answers
        <4>4. HasAnswer(tx', rx', Wait, A)
          BY <2>1, <3>6, <4>3, <4>5
        <4> QED
          BY <1>7, <1>8, <1>17, <2>2, <2>4, <4>2, <4>4 DEF Wait
      <3> QED
        BY <3>4, <3>5
    <2> QED
      BY <1>6, <1>17, <2>2, <2>4
  \* What that question has brought the board to.
  <1>18. ASSUME cfg' = cfg, step' = step, step >= 1, cfg.prog => session' = "prog",
                cfg.sec /\ step = 2 => seed', cfg.sec /\ step >= 3 => unlocked',
                cfg.mode = "transfer" /\ Opens <= step /\ step <= Opens + Blocks =>
                  xfer'.on /\ Len(xfer'.got) = step - Opens /\ xfer'.next = SeqNo(step - Opens + 1)
         PROVE  Reached(step)'
    <2>1. Opens' = Opens
      BY <1>1, <1>18, ListsStay
    <2> QED
      BY <1>18, <2>1 DEF Reached, SeqNo
  <1>19. ASSUME Asking, tx[1] = Q
         PROVE  /\ StepAt(step) = tx[1].q /\ BlockAt(step) = tx[1].blk /\ step \in 1..LastStep
                /\ tx[1].q \in Questions \ GuiQuestions /\ tx[1].q \notin {"route", "present"}
    BY <1>1, <1>3, <1>19, StepTypes DEF Q, Question0
  <1>20. ASSUME NEW qs, NEW a, Handling(qs, a) PROVE tx[1].q \in qs /\ cfg' = cfg /\ step' = step
    BY <1>20 DEF Handling
  <1>21. CASE HandlePlain
    <2>1. PICK q \in {"keepalive", "still_there", "present"} \cup Pages :
            Handling({q}, CASE q = "keepalive" -> "none" [] q = "still_there" -> "present" [] OTHER -> q)
      BY <1>21 DEF HandlePlain
    <2> DEFINE a == CASE q = "keepalive" -> "none" [] q = "still_there" -> "present" [] OTHER -> q
    <2>2. a \in Answers \cup {"none"} /\ (a = "none" <=> q = "keepalive") /\ {q} \in SUBSET Questions
      BY DEF Answers, Pages, Questions, GuiQuestions
    <2>3. Handling({q}, a) /\ tx[1].q = q /\ ~trouble
      BY <1>20, <1>21, <2>1 DEF HandlePlain
    <2>4. ~(Asking /\ tx[1] = Q)
      BY <1>19, <2>3 DEF GuiQuestions, Pages
    <2> HIDE DEF a
    <2> QED
      BY <1>17, <2>2, <2>3, <2>4
  <1>22. CASE HandleSession
    <2>1. /\ Handling({"session"}, "session") /\ session' = (IF cfg.prog THEN "prog" ELSE "ext") /\ ~trouble
          /\ tx[1].q = "session" /\ cfg' = cfg /\ step' = step
      BY <1>20, <1>22 DEF HandleSession
    <2>2. {"session"} \in SUBSET Questions /\ "session" \in Answers
      BY DEF Questions, Answers
    <2>3. ASSUME Asking, tx[1] = Q PROVE "session" = A /\ Reached(step)'
      <3>1. StepAt(step) = "session" /\ step = 1 /\ Opens \in {2, 4}
        BY <1>1, <1>19, <2>1, <2>3, WhichStep
      <3>2. "session" = A
        BY <3>1 DEF A, AnswerTo
      <3>3. Reached(step)'
        BY <1>18, <2>1, <3>1
      <3> QED
        BY <3>2, <3>3
    <2> QED
      BY <1>17, <2>1, <2>2, <2>3
  <1>23. CASE HandleSeed
    <2>1. /\ Handling({"seed"}, "seed") /\ seed' /\ session' = session /\ ~trouble
          /\ tx[1].q = "seed" /\ cfg' = cfg /\ step' = step
      BY <1>20, <1>23 DEF HandleSeed
    <2>2. {"seed"} \in SUBSET Questions /\ "seed" \in Answers
      BY DEF Questions, Answers
    <2>3. ASSUME Asking, tx[1] = Q, Reached(step - 1) PROVE "seed" = A /\ Reached(step)'
      <3>1. StepAt(step) = "seed" /\ step = 2 /\ Opens = 4
        BY <1>1, <1>19, <2>1, <2>3, WhichStep
      <3>2. "seed" = A
        BY <3>1 DEF A, AnswerTo
      <3>3. cfg.prog => session = "prog"
        BY <2>3, <3>1 DEF Reached
      <3>4. Reached(step)'
        BY <1>18, <2>1, <3>1, <3>3
      <3> QED
        BY <3>2, <3>4
    <2> QED
      BY <1>17, <2>1, <2>2, <2>3
  <1>24. CASE HandleKey
    <2> DEFINE a == IF seed THEN "key" ELSE "nrc"
    <2>1. /\ Handling({"key"}, a) /\ unlocked' = (unlocked \/ seed) /\ session' = session /\ ~trouble
          /\ tx[1].q = "key" /\ cfg' = cfg /\ step' = step
      BY <1>20, <1>24 DEF HandleKey
    <2>2. {"key"} \in SUBSET Questions /\ a \in Answers /\ "none" \notin Answers
      BY DEF Questions, Answers
    <2>3. ASSUME Asking, tx[1] = Q, Reached(step - 1) PROVE a = A /\ Reached(step)'
      <3>1. StepAt(step) = "key" /\ step = 3 /\ Opens = 4 /\ cfg.sec
        BY <1>1, <1>19, <2>1, <2>3, WhichStep
      <3>2. (cfg.prog => session = "prog") /\ seed
        BY <2>3, <3>1 DEF Reached
      <3>3. a = A
        BY <3>1, <3>2 DEF A, AnswerTo
      <3>4. unlocked'
        BY <2>1, <3>2
      <3>5. Reached(step)'
        BY <1>18, <2>1, <3>1, <3>2, <3>4
      <3> QED
        BY <3>3, <3>5
    <2> HIDE DEF a
    <2> QED
      BY <1>17, <2>1, <2>2, <2>3
  <1>25. CASE HandleStart
    <2>1. PICK opens \in BOOLEAN :
            /\ Handling({"start"}, IF GateOk /\ opens THEN "start" ELSE "nrc")
            /\ xfer' = IF ~GateOk THEN xfer ELSE [NoXfer EXCEPT !.on = opens]
            /\ trouble' = (trouble \/ ~opens) /\ UNCHANGED <<session, unlocked, seed>>
      BY <1>25 DEF HandleStart
    <2> DEFINE a == IF GateOk /\ opens THEN "start" ELSE "nrc"
    <2>2. ~trouble /\ opens
      BY <2>1
    <2>3. Handling({"start"}, a)
      BY <2>1
    <2>4. /\ Handling({"start"}, a) /\ ~trouble /\ opens
          /\ tx[1].q = "start" /\ cfg' = cfg /\ step' = step /\ session' = session /\ unlocked' = unlocked
      BY <1>20, <2>1, <2>2, <2>3
    <2>5. {"start"} \in SUBSET Questions /\ a \in Answers /\ "none" \notin Answers
      BY DEF Questions, Answers
    <2>6. ASSUME Asking, tx[1] = Q, Reached(step - 1) PROVE a = A /\ Reached(step)'
      <3>1. StepAt(step) = "start" /\ step = Opens /\ Opens \in {2, 4} /\ (cfg.sec <=> Opens = 4)
        BY <1>1, <1>19, <2>4, <2>6, WhichStep
      <3>2. GateOk
        BY <1>1, <2>6, <3>1, GateReached
      <3>3. a = A
        BY <2>4, <3>1, <3>2 DEF A, AnswerTo
      <3>4. xfer' = [on |-> TRUE, next |-> 1, got |-> <<>>]
        BY <2>1, <2>4, <3>2 DEF NoXfer
      <3>5. xfer'.on /\ Len(xfer'.got) = 0 /\ xfer'.next = 1 /\ SeqNo(1) = 1
        <4>1. SeqNo(1) = 1
          BY Bounds DEF SeqNo
        <4> QED
          BY <3>4, <4>1
      <3>6. step - Opens = 0 /\ step - Opens + 1 = 1 /\ step >= 1
        BY <3>1
      <3>7. Reached(step)'
        BY <1>18, <2>4, <3>1, <3>2, <3>5, <3>6 DEF GateOk
      <3> QED
        BY <3>3, <3>7
    <2> HIDE DEF a
    <2> QED
      BY <1>17, <2>4, <2>5, <2>6
  <1>26. CASE HandleBlock
    <2> DEFINE inOrder == xfer.on /\ SeqNo(tx[1].blk) = xfer.next
    <2>1. PICK written \in BOOLEAN :
            /\ Handling({"block"}, IF inOrder /\ written THEN "block" ELSE "nrc")
            /\ xfer' = IF ~inOrder THEN xfer
                       ELSE IF ~written THEN NoXfer
                       ELSE [xfer EXCEPT !.next = NextSeq(xfer.next), !.got = Append(xfer.got, <<tx[1].run, tx[1].blk>>)]
            /\ trouble' = (trouble \/ ~written) /\ UNCHANGED <<session, unlocked, seed>>
      BY <1>26 DEF HandleBlock
    <2> DEFINE a == IF inOrder /\ written THEN "block" ELSE "nrc"
    <2>2. ~trouble /\ written
      BY <2>1
    <2>3. Handling({"block"}, a)
      BY <2>1
    <2>4. /\ Handling({"block"}, a) /\ ~trouble /\ written
          /\ tx[1].q = "block" /\ cfg' = cfg /\ step' = step /\ session' = session /\ unlocked' = unlocked
      BY <1>20, <2>1, <2>2, <2>3
    <2>5. {"block"} \in SUBSET Questions /\ a \in Answers /\ "none" \notin Answers
      BY DEF Questions, Answers
    <2>6. ASSUME Asking, tx[1] = Q, Reached(step - 1) PROVE a = A /\ Reached(step)'
      <3>1. /\ StepAt(step) = "block" /\ step \in Nat /\ step > Opens /\ step <= Opens + Blocks
            /\ cfg.mode = "transfer" /\ Opens \in {2, 4} /\ (cfg.sec <=> Opens = 4) /\ Blocks \in Nat
        BY <1>1, <1>19, <2>4, <2>6, WhichStep, Bounds
      <3> DEFINE b == step - Opens
      <3>2. b \in Nat /\ (step - 1) - Opens = b - 1 /\ (step - 1) - Opens + 1 = b /\ Opens <= step - 1
            /\ step - 1 <= Opens + Blocks /\ step - 1 >= Opens - 1 /\ step - 1 \in Nat
        BY <3>1
      <3>3. tx[1].blk = b
        BY <1>19, <2>6, <3>1 DEF BlockAt
      <3>4. xfer.on /\ Len(xfer.got) = b - 1 /\ xfer.next = SeqNo(b)
        BY <2>6, <3>1, <3>2 DEF Reached
      <3>5. GateOk
        BY <1>1, <2>6, <3>2, GateReached
      <3> HIDE DEF b
      <3>6. a = A
        BY <2>4, <3>1, <3>3, <3>4 DEF A, AnswerTo
      <3>7. xfer'.on /\ xfer'.next = NextSeq(xfer.next) /\ xfer'.got = Append(xfer.got, <<tx[1].run, tx[1].blk>>)
        <4>1. xfer \in [on : BOOLEAN, next : 0..SeqMax, got : Seq((1..MaxRuns) \X (1..Blocks))]
          BY <1>1 DEF TypeOK
        <4>2. xfer' = [xfer EXCEPT !.next = NextSeq(xfer.next), !.got = Append(xfer.got, <<tx[1].run, tx[1].blk>>)]
          BY <2>1, <2>4, <3>3, <3>4
        <4> QED
          BY <3>4, <4>1, <4>2
      <3>8. Len(xfer'.got) = b
        <4>1. xfer.got \in Seq((1..MaxRuns) \X (1..Blocks))
          BY <1>1 DEF TypeOK
        <4>2. Len(xfer'.got) = Len(xfer.got) + 1
          BY <3>7, <4>1
        <4> QED
          BY <3>2, <3>4, <4>2
      <3>9. xfer'.next = SeqNo(b + 1)
        BY <3>2, <3>4, <3>7, NextSeqIs
      <3>10. step >= 1 /\ ~(step = 2 /\ cfg.sec)
        BY <3>1
      <3>11. Reached(step)'
        BY <1>18, <2>4, <3>5, <3>7, <3>8, <3>9, <3>10 DEF GateOk, b
      <3> QED
        BY <3>6, <3>11
    <2> HIDE DEF a
    <2> QED
      BY <1>17, <2>4, <2>5, <2>6
  <1>27. CASE HandleExit
    <2> DEFINE complete == xfer.on /\ Len(xfer.got) = Blocks
    <2>1. PICK accepted \in BOOLEAN :
            /\ Handling({"exit"}, IF complete /\ accepted THEN "exit" ELSE "nrc")
            /\ trouble' = (trouble \/ ~accepted) /\ UNCHANGED <<session, unlocked, seed>>
      BY <1>27 DEF HandleExit
    <2> DEFINE a == IF complete /\ accepted THEN "exit" ELSE "nrc"
    <2>2. ~trouble /\ accepted
      BY <2>1
    <2>3. Handling({"exit"}, a)
      BY <2>1
    <2>4. /\ Handling({"exit"}, a) /\ ~trouble /\ accepted
          /\ tx[1].q = "exit" /\ cfg' = cfg /\ step' = step /\ session' = session /\ unlocked' = unlocked
      BY <1>20, <2>1, <2>2, <2>3
    <2>5. {"exit"} \in SUBSET Questions /\ a \in Answers /\ "none" \notin Answers
      BY DEF Questions, Answers
    <2>6. ASSUME Asking, tx[1] = Q, Reached(step - 1) PROVE a = A /\ Reached(step)'
      <3>1. /\ StepAt(step) = "exit" /\ step = Opens + Blocks + 1 /\ Blocks \in Nat \ {0}
            /\ cfg.mode = "transfer" /\ Opens \in {2, 4} /\ (cfg.sec <=> Opens = 4)
        BY <1>1, <1>19, <2>4, <2>6, WhichStep, Bounds
      <3>2. /\ (step - 1) - Opens = Blocks /\ Opens <= step - 1 /\ step - 1 <= Opens + Blocks
            /\ step - 1 >= Opens - 1 /\ step - 1 \in Nat /\ step >= 1 /\ ~(step <= Opens + Blocks)
            /\ step # 2
        BY <3>1
      <3>3. complete
        BY <2>6, <3>1, <3>2 DEF Reached
      <3>4. GateOk
        BY <1>1, <2>6, <3>2, GateReached
      <3>5. a = A
        BY <2>4, <3>1, <3>3 DEF A, AnswerTo
      <3>6. Reached(step)'
        BY <1>18, <2>4, <3>2, <3>4 DEF GateOk
      <3> QED
        BY <3>5, <3>6
    <2> HIDE DEF a
    <2> QED
      BY <1>17, <2>4, <2>5, <2>6
  <1>28. CASE HandleRoutine
    <2>1. PICK accepted \in BOOLEAN :
            /\ Handling({"routine"}, IF accepted THEN "routine_ok" ELSE "routine_fail")
            /\ trouble' = (trouble \/ ~accepted) /\ UNCHANGED <<session, unlocked, seed, xfer>>
      BY <1>28 DEF HandleRoutine
    <2>2. ~trouble /\ accepted
      BY <2>1
    <2>3. Handling({"routine"}, "routine_ok")
      BY <2>1, <2>2
    <2>4. /\ Handling({"routine"}, "routine_ok") /\ ~trouble
          /\ tx[1].q = "routine" /\ cfg' = cfg /\ step' = step /\ session' = session /\ unlocked' = unlocked
      BY <1>20, <2>1, <2>2, <2>3
    <2>5. {"routine"} \in SUBSET Questions /\ "routine_ok" \in Answers
      BY DEF Questions, Answers
    <2>6. ASSUME Asking, tx[1] = Q, Reached(step - 1) PROVE "routine_ok" = A /\ Reached(step)'
      <3>1. /\ StepAt(step) = "routine" /\ step = Opens /\ cfg.mode = "routine" /\ Opens \in {2, 4}
            /\ (cfg.sec <=> Opens = 4)
        BY <1>1, <1>19, <2>4, <2>6, WhichStep
      <3>2. step - 1 \in Nat /\ step - 1 >= Opens - 1 /\ step >= 1 /\ (cfg.sec => step # 2)
        BY <3>1
      <3>3. GateOk
        BY <1>1, <2>6, <3>2, GateReached
      <3>4. "routine_ok" = A
        BY <3>1 DEF A, AnswerTo
      <3>5. Reached(step)'
        BY <1>18, <2>4, <3>1, <3>2, <3>3 DEF GateOk
      <3> QED
        BY <3>4, <3>5
    <2> QED
      BY <1>17, <2>4, <2>5, <2>6
  <1>29. Next <=> \/ Window \/ \E th \in Threads : Waits(th)
                  \/ Connect \/ TcpConnect \/ TcpRefused \/ UserDisconnects
                  \/ OnConnect \/ OnOk \/ OnErr
                  \/ KeepAlive \/ ReadPage("dem") \/ ReadPage("dump") \/ Answer
                  \/ ClearAsked \/ Faults \/ Start \/ BoardAck \/ HandlePlain \/ HandleSession \/ HandleSeed
                  \/ HandleKey \/ HandleStart \/ HandleBlock \/ HandleExit \/ HandleRoutine
    BY DEF Next, Clicks, Panel, Board
  <1> QED
    BY <1>9, <1>10, <1>11, <1>12, <1>13, <1>14, <1>15, <1>16, <1>21, <1>22, <1>23, <1>24,
       <1>25, <1>26, <1>27, <1>28, <1>29
-----------------------------------------------------------------------------
(* The theorems *)

IInv == TInv /\ ExitInv /\ TransferInv /\ SmoothInv

LEMMA Starts == Init => IInv
  <1> SUFFICES ASSUME Init PROVE IInv
    OBVIOUS
  <1>1. /\ Len(<<>>) = 0 /\ 1..0 = {} /\ tx = <<>> /\ rx = <<>> /\ Blocks \in Nat
        /\ xfer = [on |-> FALSE, next |-> 1, got |-> <<>>]
    BY Bounds DEF Init, NoXfer
  <1>2. call["gui"] = NoCall /\ call["worker"] = NoCall /\ NoCall.q = "none" /\ NoCall.wait = "none"
    BY DEF Init, NoCall, Threads
  <1>3. TypeOK
    <2>1. call \in [Threads -> [q : Questions \cup {"none"}, wait : {"none", "route", "ack", "diag"}]]
      BY DEF Init, NoCall
    <2>2. xfer \in [on : BOOLEAN, next : 0..SeqMax, got : Seq((1..MaxRuns) \X (1..Blocks))] /\ Len(xfer.got) <= Blocks
      BY <1>1, Bounds
    <2>3. step \in 0..Len(WorkerSteps) /\ run \in 0..MaxRuns /\ faults \in 0..MaxFaults
      <3>1. Len(WorkerSteps) \in Nat
        <4>1. cfg \in Configs /\ WorkerSteps = OtaSteps
          BY DEF Init, WorkerSteps
        <4> QED
          BY <4>1, OtaShape, StepTypes
      <3> QED
        BY <3>1, Bounds DEF Init
    <2>4. rx \in Seq(Frames) /\ tx \in Seq([q : Questions, blk : 0..Blocks, run : 0..MaxRuns, live : BOOLEAN])
      BY <1>1
    <2>5. /\ cfg \in Configs /\ {client, timer, dialog, acked, unlocked, seed, trouble, late} \subseteq BOOLEAN
          /\ worker = "none" /\ posted = "none" /\ result = "none" /\ link = "none" /\ session = "default"
          /\ activated \subseteq 1..MaxRuns
      BY DEF Init
    <2> QED
      BY <2>1, <2>2, <2>3, <2>4, <2>5 DEF TypeOK
  <1>4. ProcInv
    BY <1>1, <1>2 DEF Init, ProcInv, Threads, Asking, GuiQuestions
  <1>5. SentInv /\ LiveInv /\ ExitInv
    BY <1>1 DEF Init, SentInv, LiveInv, ExitInv, OkMeansActivated
  <1>6. TransferInv
    BY <1>1 DEF Init, TransferInv, QueueInv, BoardInv, AskedTr
  <1>7. SmoothInv
    BY DEF Init, SmoothInv, Asking
  <1> QED
    BY <1>3, <1>4, <1>5, <1>6, <1>7 DEF IInv, TInv

LEMMA Steps == IInv /\ [Next]_vars => IInv'
  <1> SUFFICES ASSUME IInv, [Next]_vars PROVE IInv'
    OBVIOUS
  <1>1. CASE Next
    BY <1>1, TypesHold, ProcHolds, SentHolds, LiveHolds, ExitHolds, TransferHolds,
       SmoothHolds DEF IInv, TInv
  <1>2. CASE UNCHANGED vars
    <2> USE <1>2 DEF vars, panelVars, netVars, boardVars, updateVars
    <2>1. TypeOK'
      <3>1. TypeOK /\ WorkerSteps' = WorkerSteps
        BY DEF IInv, TInv, WorkerSteps, OtaSteps
      <3> QED
        BY ONLY <3>1, UNCHANGED vars DEF TypeOK, vars, panelVars, netVars, boardVars, updateVars
    <2>2. ProcInv' /\ SentInv' /\ LiveInv'
      BY DEF IInv, TInv, ProcInv, SentInv, LiveInv, Asking, StepAt, Opens, LastStep
    <2>3. ExitInv'
      BY DEF IInv, ExitInv, Good, OkMeansActivated
    <2>4. TransferInv'
      BY DEF IInv, TransferInv, QueueInv, BoardInv, AskedTr, GateOk, Asking, StepAt, BlockAt,
         Opens, LastStep
    <2>5. SmoothInv'
      <3>1. SmoothInv /\ Asking' = Asking /\ Wait' = Wait
        BY DEF IInv, Asking, Wait
      <3>2. Reached(step)' = Reached(step) /\ Reached(step - 1)' = Reached(step - 1)
        BY DEF Reached, Opens
      <3>3. Question0(step)' = Question0(step) /\ AnswerTo(StepAt(step))' = AnswerTo(StepAt(step))
        BY DEF Question0, AnswerTo, StepAt, BlockAt, Opens, LastStep
      <3>4. Smooth' = Smooth
        BY <3>1, <3>2, <3>3 DEF Smooth
      <3> QED
        BY <3>1, <3>4 DEF SmoothInv
    <2> QED
      BY <2>1, <2>2, <2>3, <2>4, <2>5 DEF IInv, TInv
  <1> QED
    BY <1>1, <1>2

\* The invariant holds in every state.
THEOREM Invariant == Spec => []IInv
  BY Starts, Steps, PTL DEF Spec

\* Every variable keeps its shape, whatever is late, lost or given to the
\* other thread (DoipClient, OtaPanel, UdsDispatcher).
THEOREM TypeCorrect == Spec => []TypeOK
  <1>1. IInv => TypeOK
    BY DEF IInv, TInv
  <1> QED
    BY <1>1, Invariant, PTL

\* The panel shows an update as done only when the board activated it, or,
\* when the answer to an earlier exit was still due, that one (_OtaWorker).
THEOREM ShownIsActivated == Spec => []OkMeansActivated
  <1>1. IInv => OkMeansActivated
    BY DEF IInv, ExitInv
  <1> QED
    BY <1>1, Invariant, PTL

\* The board activates the whole package of one update, in the session and
\* with the unlocking the project asks for (UdsDispatcher).
THEOREM ActivatesWhole == Spec => ActivationSound
  <1>1. IInv /\ [Next]_vars =>
          (cfg.mode = "transfer" => \A r \in activated' \ activated : xfer.got = Whole(r) /\ GateOk)
    BY ActivationStep DEF IInv
  <1>2. IInv /\ [Next]_vars =>
          [cfg.mode = "transfer" => \A r \in activated' \ activated : xfer.got = Whole(r) /\ GateOk]_vars
    BY <1>1
  <1> QED
    BY <1>2, Invariant, PTL DEF Spec, ActivationSound

\* An update that met nothing that excuses it does not fail (_OtaWorker).
THEOREM NoFailureWithoutCause == Spec => []FailureHasCause
  <1>1. IInv => FailureHasCause
    BY DEF IInv, SmoothInv, FailureHasCause
  <1> QED
    BY <1>1, Invariant, PTL
=============================================================================
