----------------------------- MODULE Gmt_proofs -----------------------------
(***************************************************************************)
(* The two parts of GMT that keep state across a connection, each for      *)
(* every value of its constants.                                           *)
(*                                                                         *)
(* LiveBridge: what a window shows is a run of the tap's objects, for      *)
(* every number of windows, lines and links, whatever lines are no         *)
(* objects, and every size of the pipe and of the send buffers.  The       *)
(* argument follows the stream.  The pipe and the part of a line in buf    *)
(* are what the tap wrote last (TapInv), the lines read and not forwarded  *)
(* go on where the last one dealt with ends (LinesInv), nobody but a       *)
(* link's window and the bridge touches a link (LinkInv, WaitInv, WinInv), *)
(* and what a window has seen last, has received and has on its way is one *)
(* chain of frames, up to date if the window is the one served (TextInv).  *)
(*                                                                         *)
(* GmtSession: for every set of session files, whatever they hold, every   *)
(* number of Live rows and every length of the queues, the board that has  *)
(* obeyed what is on the wire holds frames of the present timeline         *)
(* (SessionInv).  Each helper of the window Keeps that, so that a handler  *)
(* does, in whatever order it calls them and wherever a send fails; a      *)
(* handler that changes the timeline declares it anew (ApplyModelRenews).  *)
(***************************************************************************)
EXTENDS LiveBridge, GmtSession, FiniteSetTheorems, SequenceTheorems, WellFoundedInduction, TLAPS

Lines  == 0..MaxLines
Units  == [line : Lines, half : {1, 2}]
Places == {"select", "accept", "shake", "client", "read", "forward", "ended"}
States == {"off", "asking", "waiting", "hello", "on", "dead"}
Links  == [asked : BOOLEAN, gone : BOOLEAN, out : Seq(Units), shut : BOOLEAN]
Wins   == [state : States, link : Nat, raw : Seq(Units), got : Seq(Lines)]
Objects == (1..MaxLines) \ Noise

-----------------------------------------------------------------------------
\* The types the proof needs.
TInv ==
    /\ tapUp \in BOOLEAN /\ written \in Nat /\ made \in Nat /\ shaking \in Nat /\ conn \in Nat
    /\ pipe \in Seq(Units) /\ buf \in Seq(Units) /\ lines \in Seq(Lines) /\ backlog \in Seq(Nat)
    /\ pc \in Places /\ ready \subseteq {"srv", "fd", "conn"}
    /\ links \in [1..MaxLinks -> Links] /\ win \in [Windows -> Wins]

\* The k-th unit of the tap; what is written and not split into lines yet; how far it is.
UnitAt(k) == Unit(((k - 1) \div 2) + 1, ((k - 1) % 2) + 1)
Come == buf \o pipe
ReadUp == written - Len(Come)

\* The stream is what the tap wrote, and lines are split off where they end.
TapInv ==
    /\ written <= 2 * MaxLines /\ ReadUp \in Nat /\ ReadUp % 2 = 0
    /\ \A i \in 1..Len(Come) : Come[i] = UnitAt(ReadUp + i)
    /\ Len(buf) <= 1 /\ Len(pipe) <= PipeCap

\* Lines dealt with: forwarded, passed over, or lost to a window that was dropped.
Sent == (ReadUp \div 2) - Len(lines)

\* The lines read and not forwarded are the next ones.
LinesInv ==
    /\ pc # "forward" => lines = <<>>
    /\ Sent \in Nat /\ \A i \in 1..Len(lines) : lines[i] = Sent + i

\* A link is in the backlog, in its handshake, or served, once and in one of them.
LinkInv ==
    /\ made <= MaxLinks
    /\ shaking # 0 <=> pc = "shake"
    /\ shaking # 0 => conn = 0 /\ shaking \in 1..made
    /\ conn # 0 => conn \in 1..made /\ links[conn].asked /\ ~links[conn].shut
    /\ \A i \in 1..Len(backlog) : backlog[i] \in 1..made /\ backlog[i] \notin {conn, shaking}
    /\ \A i, j \in 1..Len(backlog) : backlog[i] = backlog[j] => i = j
    /\ Len(backlog) <= Backlog
    /\ pc = "accept" /\ "srv" \in ready => backlog # <<>>
    /\ \A l \in 1..made : Len(links[l].out) <= SendCap
    /\ \A l \in (made + 1)..MaxLinks : links[l].out = <<>>

Waits(l) == l = shaking \/ \E i \in 1..Len(backlog) : backlog[i] = l

\* A link that waits carries nothing.
WaitInv == \A l \in 1..made : Waits(l) => links[l].out = <<>> /\ ~links[l].shut

\* A window has a link of its own, and is as far as the link is.
WinOk(w) ==
    /\ win[w].state # "off" =>
          /\ win[w].link \in 1..made /\ ~links[win[w].link].gone
          /\ \A v \in Windows \ {w} : win[v].state # "off" => win[v].link # win[w].link
    /\ win[w].state = "asking" => links[win[w].link].out = <<>> /\ ~links[win[w].link].asked
    /\ win[w].state \in {"hello", "on"} => ~Waits(win[w].link)
    /\ win[w].state \in {"off", "asking", "waiting", "hello"} => win[w].got = <<>>
    /\ win[w].state \in {"off", "asking", "waiting"} => win[w].raw = <<>>
WinInv == \A w \in Windows : WinOk(w)

\* No object between two lines.
Silent(m, n) == \A k \in (m + 1)..(n - 1) : k \in Noise
\* Halves take turns, lines go up, a second half follows its first, and nothing but lines
\* that are no objects is left out between a frame and the next.
Chain(t) ==
    /\ \A i \in 1..Len(t) : t[i] \in {Accepted, Hello} \/ t[i].line \in Objects
    /\ \A i, j \in 1..Len(t), d \in Nat :
          /\ j = i + 2 * d => t[j].half = t[i].half
          /\ j = i + 2 * d + 1 => t[j].half # t[i].half
    /\ \A i, j \in 1..Len(t) : i < j =>
          IF t[i].half = 1 /\ j = i + 1 THEN t[j].line = t[i].line ELSE t[i].line < t[j].line
    /\ \A i \in 1..(Len(t) - 1) :
          t[i].half = 2 /\ t[i] # Hello => Silent(t[i].line, t[i+1].line)

\* What a window took apart last, and that with what it received and has on its way.
Seen(w) == IF win[w].state = "hello" THEN Accepted
           ELSE IF win[w].got = <<>> THEN Hello ELSE Unit(win[w].got[Len(win[w].got)], 2)
Text(w) == IF win[w].state = "waiting" THEN links[win[w].link].out
           ELSE <<Seen(w)>> \o (win[w].raw \o links[win[w].link].out)

\* The newest unit of a text: nothing that may be sent is left out behind it.
UpToDate(t) ==
    /\ t # <<>> /\ t[Len(t)].half = 2 /\ t[Len(t)].line <= Sent
    /\ t[Len(t)] = Hello \/ Silent(t[Len(t)].line, Sent + 1)

Reads(w) == win[w].state \in {"waiting", "hello", "on"}
\* What a window is going to see goes on with what it saw.
TextOk(w) ==
    Reads(w) => /\ Chain(Text(w))
                /\ win[w].state = "waiting" /\ Text(w) # <<>> => Text(w)[1] = Accepted
                /\ win[w].link = conn => UpToDate(Text(w))
TextInv == \A w \in Windows : TextOk(w)

\* The rows of a window are objects of the tap, in order, and without a hole while it is up.
GotOk(w) == LET got == win[w].got IN
        /\ \A i \in 1..Len(got) : got[i] \in Objects
        /\ \A i \in 1..(Len(got) - 1) :
              got[i] < got[i+1] /\ (win[w].state = "on" => Silent(got[i], got[i+1]))
GotInv == \A w \in Windows : GotOk(w)

IInv == TInv /\ TapInv /\ LinesInv /\ LinkInv /\ WaitInv /\ WinInv /\ TextInv /\ GotInv

-----------------------------------------------------------------------------
(* Texts *)

\* The bounds are what the module assumes of them.
LEMMA Bounds == MaxLines \in Nat /\ MaxLinks \in Nat /\ PipeCap \in Nat \ {0} /\ SendCap \in Nat \ {0, 1}
  BY LiveAssumption

\* Lines are numbers; those that are objects of the tap start at 1.
LEMMA LinesMade ==
  /\ 0 \in Lines /\ \A n \in Lines : n \in Nat /\ n <= MaxLines
  /\ \A n \in Nat : n <= MaxLines => n \in Lines
  /\ \A n \in Objects : n \in Lines /\ n \in Nat \ {0}
  BY Bounds DEF Lines, Objects

\* Units, and the two that come before any frame.
LEMMA UnitsMade ==
  /\ Accepted \in Units /\ Hello \in Units /\ Accepted # Hello
  /\ Accepted.line = 0 /\ Accepted.half = 1 /\ Hello.line = 0 /\ Hello.half = 2
  /\ \A n \in Lines : \A h \in {1, 2} : Unit(n, h) \in Units
  /\ \A n \in Nat : \A h \in {1, 2} : Unit(n, h).line = n /\ Unit(n, h).half = h
  /\ \A u \in Units : u.line \in Lines /\ u.line \in Nat /\ u.half \in {1, 2} /\ u = Unit(u.line, u.half)
  BY LinesMade DEF Accepted, Hello, Unit, Units

\* A row is two units.
LEMMA RowMade ==
  ASSUME NEW n \in Lines
  PROVE  Row(n) \in Seq(Units) /\ Len(Row(n)) = 2 /\ Row(n)[1] = Unit(n, 1) /\ Row(n)[2] = Unit(n, 2)
  BY UnitsMade DEF Row

\* A part of a chain is a chain.
LEMMA ChainPart ==
  ASSUME NEW t \in Seq(Units), Chain(t), NEW s \in Seq(Units), NEW k \in Nat,
         k + Len(s) <= Len(t), \A i \in 1..Len(s) : s[i] = t[k + i]
  PROVE  Chain(s)
  <1>1. \A i \in 1..Len(s) : k + i \in 1..Len(t) /\ s[i] = t[k + i]
    OBVIOUS
  <1>2. \A i \in 1..Len(s) : s[i] \in {Accepted, Hello} \/ s[i].line \in Objects
    BY <1>1 DEF Chain
  <1>3. \A i, j \in 1..Len(s), d \in Nat :
          /\ j = i + 2 * d => s[j].half = s[i].half
          /\ j = i + 2 * d + 1 => s[j].half # s[i].half
    <2> SUFFICES ASSUME NEW i \in 1..Len(s), NEW j \in 1..Len(s), NEW d \in Nat
                 PROVE  /\ j = i + 2 * d => s[j].half = s[i].half
                        /\ j = i + 2 * d + 1 => s[j].half # s[i].half
      OBVIOUS
    <2> DEFINE a == k + i
               b == k + j
    <2>1. a \in 1..Len(t) /\ b \in 1..Len(t) /\ s[i] = t[a] /\ s[j] = t[b]
      BY <1>1
    <2>3. i \in Nat /\ j \in Nat
      OBVIOUS
    <2>4. (j = i + 2 * d => b = a + 2 * d) /\ (j = i + 2 * d + 1 => b = a + 2 * d + 1)
      BY <2>3
    <2> HIDE DEF a, b
    <2>2. /\ b = a + 2 * d => t[b].half = t[a].half
          /\ b = a + 2 * d + 1 => t[b].half # t[a].half
      BY <2>1 DEF Chain
    <2> QED
      BY <2>1, <2>2, <2>4
  <1>4. \A i, j \in 1..Len(s) : i < j =>
          IF s[i].half = 1 /\ j = i + 1 THEN s[j].line = s[i].line ELSE s[i].line < s[j].line
    <2> SUFFICES ASSUME NEW i \in 1..Len(s), NEW j \in 1..Len(s), i < j
                 PROVE  IF s[i].half = 1 /\ j = i + 1 THEN s[j].line = s[i].line ELSE s[i].line < s[j].line
      OBVIOUS
    <2> DEFINE a == k + i
               b == k + j
    <2>0. i \in Nat /\ j \in Nat /\ a < b /\ (j = i + 1 <=> b = a + 1)
      OBVIOUS
    <2>1. /\ a \in 1..Len(t) /\ b \in 1..Len(t) /\ s[i] = t[a] /\ s[j] = t[b]
          /\ a < b /\ (j = i + 1 <=> b = a + 1)
      BY <1>1, <2>0
    <2> HIDE DEF a, b
    <2>2. IF t[a].half = 1 /\ b = a + 1 THEN t[b].line = t[a].line ELSE t[a].line < t[b].line
      BY <2>1 DEF Chain
    <2> QED
      BY <2>1, <2>2
  <1>5. \A i \in 1..(Len(s) - 1) :
          s[i].half = 2 /\ s[i] # Hello => Silent(s[i].line, s[i+1].line)
    <2> SUFFICES ASSUME NEW i \in 1..(Len(s) - 1), s[i].half = 2, s[i] # Hello
                 PROVE  Silent(s[i].line, s[i+1].line)
      OBVIOUS
    <2>1. k + i \in 1..(Len(t) - 1) /\ s[i] = t[k + i] /\ s[i + 1] = t[(k + i) + 1]
      BY <1>1
    <2>2. Silent(t[k + i].line, t[(k + i) + 1].line)
      BY <2>1 DEF Chain
    <2> QED
      BY <2>1, <2>2
  <1> QED
    BY <1>2, <1>3, <1>4, <1>5 DEF Chain

\* What is sent next goes on with the chain.
LEMMA ChainGrows ==
  ASSUME NEW t \in Seq(Units), Chain(t), NEW n \in Objects, n \in Nat, t # <<>>,
         t[Len(t)].half = 2, t[Len(t)].line < n,
         t[Len(t)] = Hello \/ Silent(t[Len(t)].line, n)
  PROVE  Chain(t \o Row(n))
  <1> DEFINE s == t \o Row(n)
             m == Len(t)
  <1>1. /\ s \in Seq(Units) /\ Len(s) = m + 2 /\ m \in Nat \ {0}
        /\ \A i \in 1..m : s[i] = t[i]
        /\ s[m + 1] = Unit(n, 1) /\ s[m + 2] = Unit(n, 2)
    <2>1. /\ Row(n) \in Seq(Units) /\ Len(Row(n)) = 2 /\ Row(n)[1] = Unit(n, 1)
          /\ Row(n)[2] = Unit(n, 2) /\ m \in Nat \ {0}
      BY LinesMade, RowMade
    <2>2. /\ s \in Seq(Units) /\ Len(s) = m + Len(Row(n))
          /\ \A i \in 1..(m + Len(Row(n))) : s[i] = IF i <= m THEN t[i] ELSE Row(n)[i - m]
      BY <2>1, ConcatProperties, Zenon DEF s, m
    <2>3. (m + 1) - m = 1 /\ (m + 2) - m = 2 /\ m + 1 \in 1..(m + 2) /\ m + 2 \in 1..(m + 2)
      BY <2>1
    <2> HIDE DEF s, m
    <2>4. \A i \in 1..(m + 2) : s[i] = IF i <= m THEN t[i] ELSE Row(n)[i - m]
      BY <2>1, <2>2
    <2>5. \A i \in 1..m : s[i] = t[i]
      BY <2>1, <2>4
    <2>6. s[m + 1] = Row(n)[1] /\ s[m + 2] = Row(n)[2]
      BY <2>1, <2>3, <2>4
    <2> QED
      BY <2>1, <2>2, <2>5, <2>6
  <1>2. \A i \in 1..m : t[i] \in Units
    OBVIOUS
  <1>3. s[m + 1].line = n /\ s[m + 1].half = 1 /\ s[m + 2].line = n /\ s[m + 2].half = 2
    BY <1>1, UnitsMade
  <1>4. \A i \in 1..m : t[i].line < n
    <2> SUFFICES ASSUME NEW i \in 1..m PROVE t[i].line < n
      OBVIOUS
    <2>1. CASE i = m
      BY <2>1
    <2>2. CASE i # m
      <3>1. i \in 1..Len(t) /\ m \in 1..Len(t) /\ i < m
        BY <1>1, <2>2
      <3>2. IF t[i].half = 1 /\ m = i + 1 THEN t[m].line = t[i].line ELSE t[i].line < t[m].line
        BY <3>1 DEF Chain
      <3>3. t[i].line \in Nat /\ t[m].line \in Nat
        BY <1>2, <3>1, UnitsMade
      <3>4. t[i].line <= t[m].line
        BY <3>2, <3>3
      <3> QED
        BY <1>1, <3>3, <3>4
    <2> QED
      BY <2>1, <2>2
  <1> HIDE DEF s, m
  <1>5. \A i \in 1..(m + 2) : i \in 1..m \/ i = m + 1 \/ i = m + 2
    BY <1>1
  <1>6. \A i \in 1..Len(s) : s[i] \in {Accepted, Hello} \/ s[i].line \in Objects
    BY <1>1, <1>3, <1>5 DEF Chain, m
  <1>7. \A i, j \in 1..Len(s), d \in Nat :
          /\ j = i + 2 * d => s[j].half = s[i].half
          /\ j = i + 2 * d + 1 => s[j].half # s[i].half
    <2>1. \A i, j \in 1..m, d \in Nat :
            /\ j = i + 2 * d => t[j].half = t[i].half
            /\ j = i + 2 * d + 1 => t[j].half # t[i].half
      BY DEF Chain, m
    <2>2. m \in 1..m /\ t[m].half = 2
      BY <1>1 DEF m
    <2>3. \A i \in 1..m, d \in Nat : m = i + 2 * d => t[i].half = 2
      BY <2>1, <2>2
    <2>4. \A i \in 1..m, d \in Nat : m = i + 2 * d + 1 => t[i].half = 1
      <3> SUFFICES ASSUME NEW i \in 1..m, NEW d \in Nat, m = i + 2 * d + 1
                   PROVE  t[i].half = 1
        OBVIOUS
      <3>1. t[m].half # t[i].half
        BY <2>1, <2>2
      <3>2. t[i].half \in {1, 2}
        BY <1>2, UnitsMade
      <3> QED
        BY <2>2, <3>1, <3>2
    <2>5. ASSUME NEW i \in 1..(m + 2), NEW j \in 1..(m + 2), NEW d \in Nat, j = i + 2 * d
          PROVE  s[j].half = s[i].half
      <3>1. CASE d = 0
        <4>1. i = j
          BY <1>1, <2>5, <3>1
        <4> QED
          BY <4>1
      <3>2. CASE d # 0 /\ j \in 1..m
        <4>1. i \in 1..m
          BY <1>1, <2>5, <3>2
        <4> QED
          BY <1>1, <2>1, <2>5, <3>2, <4>1
      <3>3. CASE d # 0 /\ j = m + 1
        <4>1. d - 1 \in Nat /\ i \in 1..m /\ m = i + 2 * (d - 1) + 1
          BY <1>1, <2>5, <3>3
        <4>2. t[i].half = 1
          BY <2>4, <4>1
        <4> QED
          BY <1>1, <1>3, <3>3, <4>1, <4>2
      <3>4. CASE d # 0 /\ j = m + 2
        <4>1. d - 1 \in Nat /\ i \in 1..m /\ m = i + 2 * (d - 1)
          BY <1>1, <2>5, <3>4
        <4>2. t[i].half = 2
          BY <2>3, <4>1
        <4> QED
          BY <1>1, <1>3, <3>4, <4>1, <4>2
      <3> QED
        BY <1>5, <3>1, <3>2, <3>3, <3>4
    <2>6. ASSUME NEW i \in 1..(m + 2), NEW j \in 1..(m + 2), NEW d \in Nat, j = i + 2 * d + 1
          PROVE  s[j].half # s[i].half
      <3>1. CASE j \in 1..m
        <4>1. i \in 1..m
          BY <1>1, <2>6, <3>1
        <4> QED
          BY <1>1, <2>1, <2>6, <3>1, <4>1
      <3>2. CASE j = m + 1
        <4>1. i \in 1..m /\ m = i + 2 * d
          BY <1>1, <2>6, <3>2
        <4>2. t[i].half = 2
          BY <2>3, <4>1
        <4> QED
          BY <1>1, <1>3, <3>2, <4>1, <4>2
      <3>3. CASE j = m + 2 /\ d = 0
        <4>1. i = m + 1
          BY <1>1, <2>6, <3>3
        <4> QED
          BY <1>3, <3>3, <4>1
      <3>4. CASE j = m + 2 /\ d # 0
        <4>1. d - 1 \in Nat /\ i \in 1..m /\ m = i + 2 * (d - 1) + 1
          BY <1>1, <2>6, <3>4
        <4>2. t[i].half = 1
          BY <2>4, <4>1
        <4> QED
          BY <1>1, <1>3, <3>4, <4>1, <4>2
      <3> QED
        BY <1>5, <3>1, <3>2, <3>3, <3>4
    <2>7. \A i, j \in 1..(m + 2), d \in Nat : j = i + 2 * d => s[j].half = s[i].half
      BY <2>5
    <2>8. \A i, j \in 1..(m + 2), d \in Nat : j = i + 2 * d + 1 => s[j].half # s[i].half
      BY <2>6
    <2>9. Len(s) = m + 2
      BY <1>1
    <2> QED
      BY <2>7, <2>8, <2>9
  <1>8. \A i, j \in 1..Len(s) : i < j =>
          IF s[i].half = 1 /\ j = i + 1 THEN s[j].line = s[i].line ELSE s[i].line < s[j].line
    <2> SUFFICES ASSUME NEW i \in 1..(m + 2), NEW j \in 1..(m + 2), i < j
                 PROVE  IF s[i].half = 1 /\ j = i + 1 THEN s[j].line = s[i].line ELSE s[i].line < s[j].line
      BY <1>1
    <2>1. CASE j \in 1..m
      BY <1>1, <2>1 DEF Chain, m
    <2>2. CASE j \in {m + 1, m + 2} /\ i \in 1..m
      <3>1. s[j].line = n /\ s[i].line < n
        BY <1>1, <1>3, <1>4, <2>2
      <3>2. ~(s[i].half = 1 /\ j = i + 1)
        BY <1>1, <2>2 DEF m
      <3> QED
        BY <3>1, <3>2
    <2>3. CASE i = m + 1 /\ j = m + 2
      <3>1. j = i + 1
        BY <1>1, <2>3
      <3> QED
        BY <1>3, <2>3, <3>1
    <2> QED
      BY <1>1, <1>5, <2>1, <2>2, <2>3
  <1>9. \A i \in 1..(Len(s) - 1) :
          s[i].half = 2 /\ s[i] # Hello => Silent(s[i].line, s[i+1].line)
    <2> SUFFICES ASSUME NEW i \in 1..(m + 1), s[i].half = 2, s[i] # Hello
                 PROVE  Silent(s[i].line, s[i+1].line)
      BY <1>1
    <2>1. CASE i \in 1..(m - 1)
      <3>1. i \in 1..m /\ i + 1 \in 1..m /\ i \in 1..(Len(t) - 1)
        BY <1>1, <2>1 DEF m
      <3>2. s[i] = t[i] /\ s[i+1] = t[i+1]
        BY <1>1, <3>1
      <3>3. t[i].half = 2 /\ t[i] # Hello => Silent(t[i].line, t[i+1].line)
        BY <3>1 DEF Chain
      <3> QED
        BY <3>2, <3>3
    <2>2. CASE i = m
      BY <1>1, <1>3, <2>2 DEF m
    <2>3. CASE i = m + 1
      BY <1>3, <2>3
    <2> QED
      BY <1>1, <2>1, <2>2, <2>3
  <1> QED
    BY <1>6, <1>7, <1>8, <1>9 DEF Chain, s

\* A number is twice its half, and one more if it is odd.
LEMMA Halves ==
  ASSUME NEW n \in Nat
  PROVE  n \div 2 \in Nat /\ n % 2 \in {0, 1} /\ n = 2 * (n \div 2) + (n % 2)
  OBVIOUS

\* The half of twice a number, and of one more.
LEMMA Doubles ==
  ASSUME NEW n \in Nat
  PROVE  /\ (2 * n) \div 2 = n /\ (2 * n + 1) \div 2 = n
         /\ (2 * n) % 2 = 0 /\ (2 * n + 1) % 2 = 1
  OBVIOUS

\* Whole frames, and what is left.
LEMMA RowsOf ==
  ASSUME NEW t \in Seq(Units)
  PROVE  /\ Rows(t) \in Seq(Lines) /\ Len(Rows(t)) = Len(t) \div 2 /\ Len(t) \div 2 \in Nat
         /\ \A i \in 1..(Len(t) \div 2) : 2 * i \in 1..Len(t) /\ Rows(t)[i] = t[2 * i].line
         /\ Rest(t) \in Seq(Units) /\ Len(Rest(t)) = Len(t) % 2 /\ Len(t) % 2 \in {0, 1}
         /\ Len(t) = 2 * (Len(t) \div 2) + (Len(t) % 2)
         /\ \A i \in 1..Len(Rest(t)) : Rest(t)[i] = t[2 * (Len(t) \div 2) + i]
  <1>1. /\ Len(t) \in Nat /\ Len(t) \div 2 \in Nat /\ Len(t) % 2 \in {0, 1}
        /\ Len(t) = 2 * (Len(t) \div 2) + (Len(t) % 2)
    BY Halves, LenProperties
  <1>2. \A i \in 1..(Len(t) \div 2) : 2 * i \in 1..Len(t) /\ t[2 * i].line \in Lines
    BY <1>1, UnitsMade
  <1>3. Rows(t) \in Seq(Lines) /\ Len(Rows(t)) = Len(t) \div 2
    BY <1>1, <1>2 DEF Rows
  <1>4. \A i \in 1..(Len(t) \div 2) : Rows(t)[i] = t[2 * i].line
    BY DEF Rows
  <1>5. /\ Rest(t) \in Seq(Units) /\ Len(Rest(t)) = Len(t) % 2
        /\ \A i \in 1..Len(Rest(t)) : Rest(t)[i] = t[2 * (Len(t) \div 2) + i]
    <2> DEFINE m == 2 * (Len(t) \div 2)
    <2>1. m \in Nat /\ m <= Len(t) /\ Len(t) - m = Len(t) % 2
      BY <1>1
    <2> HIDE DEF m
    <2>2. Rest(t) = SubSeq(t, m + 1, Len(t))
      BY DEF Rest, m
    <2>3. /\ SubSeq(t, m + 1, Len(t)) \in Seq(Units)
          /\ Len(SubSeq(t, m + 1, Len(t))) = Len(t) - m
          /\ \A i \in 1..(Len(t) - m) : SubSeq(t, m + 1, Len(t))[i] = t[m + i]
      BY <1>1, <2>1, SubSeqProperties
    <2> QED
      BY <1>1, <2>1, <2>2, <2>3 DEF m
  <1> QED
    BY <1>1, <1>2, <1>3, <1>4, <1>5

\* The rows of an aligned part of a chain behind its first unit, an end of a frame.
LEMMA RowsOfPart ==
  ASSUME NEW t \in Seq(Units), Chain(t), t # <<>>, t[1].half = 2,
         NEW s \in Seq(Units), Aligned(s), NEW k \in Nat \ {0},
         k + Len(s) <= Len(t), \A i \in 1..Len(s) : s[i] = t[k + i]
  PROVE  LET r == Rows(s) IN
         /\ \A i \in 1..Len(r) : r[i] \in Objects /\ t[1].line < r[i]
         /\ \A i \in 1..(Len(r) - 1) : r[i] < r[i+1] /\ Silent(r[i], r[i+1])
         /\ k = 1 /\ r # <<>> /\ t[1] # Hello => Silent(t[1].line, r[1])
  <1> DEFINE r == Rows(s)
             m == Len(s) \div 2
  <1>1. /\ r \in Seq(Lines) /\ Len(r) = m /\ m \in Nat
        /\ \A i \in 1..m : 2 * i \in 1..Len(s) /\ r[i] = s[2 * i].line
    BY RowsOf
  <1> HIDE DEF r, m
  <1>2. ASSUME NEW i \in 1..m PROVE k + 2 * i \in 1..Len(t) /\ r[i] = t[k + 2 * i].line
    <2> DEFINE j == 2 * i
    <2>1. j \in 1..Len(s) /\ r[i] = s[j].line
      BY <1>1
    <2> HIDE DEF j
    <2>2. k + j \in 1..Len(t) /\ s[j] = t[k + j]
      BY <2>1
    <2> QED
      BY <2>1, <2>2 DEF j
  <1>3. \A i \in 1..m : t[k + 2 * i].half = 2 /\ t[k + (2 * i - 1)].half = 1
    <2> SUFFICES ASSUME NEW i \in 1..m
                 PROVE  t[k + 2 * i].half = 2 /\ t[k + (2 * i - 1)].half = 1
      OBVIOUS
    <2>1. 2 * i \in 1..Len(s) /\ i - 1 \in Nat /\ 1 + 2 * (i - 1) = 2 * i - 1 /\ 1 \in 1..Len(s)
          /\ 1 + 2 * (i - 1) + 1 = 2 * i
      BY <1>1
    <2>2. s[1].half = 1
      BY <2>1 DEF Aligned
    <2>3. k + 1 \in 1..Len(t) /\ t[k + 1].half = 1
      BY <2>1, <2>2
    <2> DEFINE a == k + 1
               b == k + (2 * i - 1)
               c == k + 2 * i
               d == i - 1
    <2>8. c \in 1..Len(t) /\ i \in Nat /\ d \in Nat /\ a \in Nat /\ 1 <= a
      BY <1>2, <2>1
    <2>9. b = a + 2 * d /\ c = a + 2 * d + 1
      BY <2>8
    <2>4. a \in 1..Len(t) /\ b \in 1..Len(t) /\ c \in 1..Len(t) /\ d \in Nat
          /\ b = a + 2 * d /\ c = a + 2 * d + 1
      BY <2>3, <2>8, <2>9
    <2>5. t[a].half = 1 /\ t[c] \in Units
      BY <1>2, <2>3
    <2> HIDE DEF a, b, c, d
    <2>6. t[b].half = t[a].half /\ t[c].half # t[a].half
      BY <2>4 DEF Chain
    <2>7. t[c].half = 2 /\ t[b].half = 1
      BY <2>5, <2>6, UnitsMade
    <2> QED
      BY <2>7 DEF b, c
  <1>4. ASSUME NEW i \in 1..m PROVE r[i] \in Objects /\ t[1].line < r[i]
    <2>1. 1 \in 1..Len(t) /\ k + 2 * i \in 1..Len(t) /\ 1 < k + 2 * i
      BY <1>2
    <2>2. t[1].line < t[k + 2 * i].line /\ t[1] \in Units
      BY <2>1 DEF Chain
    <2>3. t[k + 2 * i] \in {Accepted, Hello} \/ t[k + 2 * i].line \in Objects
      BY <2>1 DEF Chain
    <2>4. t[k + 2 * i] \notin {Accepted, Hello}
      BY <2>2, UnitsMade
    <2> QED
      BY <1>2, <2>2, <2>3, <2>4
  <1>5. ASSUME NEW i \in 1..(m - 1) PROVE r[i] < r[i+1] /\ Silent(r[i], r[i+1])
    <2>0. m \in Nat
      BY <1>1
    <2>1. i \in 1..m /\ i + 1 \in 1..m /\ 2 * (i + 1) = 2 * i + 2
      BY <2>0
    <2>2. /\ k + 2 * i \in 1..(Len(t) - 1) /\ k + (2 * i + 2) \in 1..Len(t)
          /\ k + 2 * i < k + (2 * i + 2) /\ (k + 2 * i) + 1 \in 1..Len(t)
          /\ (k + 2 * i) + 1 = k + (2 * (i + 1) - 1)
          /\ ((k + 2 * i) + 1) + 1 = k + (2 * i + 2)
      BY <1>2, <2>1
    <2>3. r[i] = t[k + 2 * i].line /\ r[i + 1] = t[k + (2 * i + 2)].line
      BY <1>2, <2>1
    <2>4. t[k + 2 * i].half = 2 /\ t[(k + 2 * i) + 1].half = 1
      BY <1>3, <2>1, <2>2
    <2>5. t[k + 2 * i].line < t[k + (2 * i + 2)].line
      <3> DEFINE a == k + 2 * i
                 b == k + (2 * i + 2)
      <3>1. a \in 1..Len(t) /\ b \in 1..Len(t) /\ a < b
        BY <2>2
      <3>2. t[a].half # 1
        BY <2>4
      <3> HIDE DEF a, b
      <3>3. IF t[a].half = 1 /\ b = a + 1 THEN t[b].line = t[a].line ELSE t[a].line < t[b].line
        BY <3>1 DEF Chain
      <3> QED
        BY <3>2, <3>3 DEF a, b
    <2>6. t[((k + 2 * i) + 1) + 1].line = t[(k + 2 * i) + 1].line
      BY <2>2, <2>4 DEF Chain
    <2>7. t[k + 2 * i] # Hello
      BY <1>4, <2>1, <2>3, UnitsMade DEF Objects
    <2>8. Silent(t[k + 2 * i].line, t[(k + 2 * i) + 1].line)
      BY <2>2, <2>4, <2>7 DEF Chain
    <2> QED
      BY <2>2, <2>3, <2>5, <2>6, <2>8
  <1>6. ASSUME k = 1, r # <<>>, t[1] # Hello PROVE Silent(t[1].line, r[1])
    <2>1. 1 \in 1..m
      BY <1>1, <1>6
    <2>0. k + 2 * 1 = 3 /\ k + (2 * 1 - 1) = 2
      BY <1>6
    <2>2. r[1] = t[3].line /\ 3 \in 1..Len(t) /\ t[2].half = 1
      BY <1>2, <1>3, <2>0, <2>1
    <2>3. 1 \in 1..(Len(t) - 1) /\ 2 \in 1..Len(t)
      BY <2>2
    <2>4. t[3].line = t[2].line
      BY <2>2, <2>3 DEF Chain
    <2>5. Silent(t[1].line, t[1 + 1].line)
      BY <1>6, <2>3 DEF Chain
    <2> QED
      BY <2>2, <2>4, <2>5
  <1> QED
    BY <1>1, <1>4, <1>5, <1>6 DEF r
-----------------------------------------------------------------------------
(* Links and types *)

\* A link that is closed is as it was otherwise.
LEMMA LinkClosed ==
  ASSUME NEW ls \in [1..MaxLinks -> Links], NEW l
  PROVE  /\ Close(ls, l) \in [1..MaxLinks -> Links]
         /\ \A k \in 1..MaxLinks :
               /\ Close(ls, l)[k].asked = ls[k].asked /\ Close(ls, l)[k].gone = ls[k].gone
               /\ Close(ls, l)[k].out = ls[k].out
               /\ k # l => Close(ls, l)[k] = ls[k]
  BY DEF Close, Links

Filled(ls, l, o) == [ls EXCEPT ![l].out = o]

\* Something else is on the way to the window of a link.
LEMMA LinkFilled ==
  ASSUME NEW ls \in [1..MaxLinks -> Links], NEW l, NEW o \in Seq(Units)
  PROVE  Filled(ls, l, o) \in [1..MaxLinks -> Links]
  BY DEF Links, Filled

\* The request of a window arrives.
LEMMA LinkAsked ==
  ASSUME NEW ls \in [1..MaxLinks -> Links], NEW l, NEW new, new = [ls EXCEPT ![l].asked = TRUE]
  PROVE  /\ new \in [1..MaxLinks -> Links]
         /\ \A k \in 1..MaxLinks :
               /\ new[k].gone = ls[k].gone /\ new[k].shut = ls[k].shut /\ new[k].out = ls[k].out
               /\ k # l => new[k] = ls[k]
  BY DEF Links

\* A link is made.
LEMMA LinkMade ==
  ASSUME NEW ls \in [1..MaxLinks -> Links], NEW l, NEW new, new = [ls EXCEPT ![l] = Fresh]
  PROVE  /\ new \in [1..MaxLinks -> Links]
         /\ \A k \in 1..MaxLinks : new[k] = IF k = l THEN Fresh ELSE ls[k]
  BY EmptySeq DEF Links, Fresh

\* A window closes its end, and what was on its way is gone.
LEMMA LinkLeft ==
  ASSUME NEW ls \in [1..MaxLinks -> Links], NEW l,
         NEW new, new = [ls EXCEPT ![l] = [@ EXCEPT !.gone = TRUE, !.out = <<>>]]
  PROVE  /\ new \in [1..MaxLinks -> Links]
         /\ \A k \in 1..MaxLinks :
               /\ new[k].asked = ls[k].asked /\ new[k].shut = ls[k].shut
               /\ k = l => new[k].out = <<>>
               /\ k # l => new[k] = ls[k]
  <1> DEFINE Left(r) == [r EXCEPT !.gone = TRUE, !.out = <<>>]
  <1>1. ASSUME NEW r \in Links
        PROVE  /\ Left(r) \in Links /\ Left(r).asked = r.asked /\ Left(r).shut = r.shut
               /\ Left(r).out = <<>>
    BY EmptySeq DEF Links
  <1>2. \A k \in 1..MaxLinks : new[k] = IF k = l THEN Left(ls[k]) ELSE ls[k]
    OBVIOUS
  <1>3. \A k \in 1..MaxLinks : ls[k] \in Links
    OBVIOUS
  <1>4. new = [k \in 1..MaxLinks |-> new[k]]
    OBVIOUS
  <1> HIDE DEF Left
  <1>5. \A k \in 1..MaxLinks : new[k] \in Links
    BY <1>1, <1>2, <1>3
  <1>6. new \in [1..MaxLinks -> Links]
    BY <1>4, <1>5, Zenon
  <1> QED
    BY <1>1, <1>2, <1>3, <1>6

\* The end of the bridge closes links and does nothing else to them.
LEMMA LinksEnd ==
  ASSUME TInv, Exit
  PROVE  /\ links' \in [1..MaxLinks -> Links]
         /\ \A k \in 1..MaxLinks :
               /\ links'[k].asked = links[k].asked /\ links'[k].gone = links[k].gone
               /\ links'[k].out = links[k].out
  BY DEF TInv, Exit, Links

\* What is sent of a line.
Frame == links[conn].out \o Row(Head(lines))

\* The next line is a number, and its frame two units more.
LEMMA FrameMade ==
  ASSUME TInv, LinkInv, lines # <<>>, conn # 0
  PROVE  /\ links[conn].out \in Seq(Units) /\ Head(lines) \in Lines /\ Head(lines) = lines[1]
         /\ Frame \in Seq(Units) /\ Len(Frame) = Len(links[conn].out) + 2
         /\ conn \in 1..made /\ conn \in 1..MaxLinks
  <1>1. conn \in 1..made /\ conn \in 1..MaxLinks
    BY Bounds DEF TInv, LinkInv
  <1>2. Head(lines) \in Lines /\ Head(lines) = lines[1]
    BY DEF TInv
  <1>3. links[conn].out \in Seq(Units)
    BY <1>1 DEF TInv, Links
  <1>4. Row(Head(lines)) \in Seq(Units) /\ Len(Row(Head(lines))) = 2
    BY <1>2, RowMade
  <1> QED
    <2> DEFINE a == links[conn].out
               b == Row(Head(lines))
    <2>1. a \in Seq(Units) /\ b \in Seq(Units)
      BY <1>3, <1>4
    <2>2. Frame = a \o b
      BY DEF Frame
    <2>3. Len(b) = 2
      BY <1>4
    <2> HIDE DEF a, b
    <2>4. a \o b \in Seq(Units) /\ Len(a \o b) = Len(a) + Len(b)
      BY <2>1, ConcatProperties
    <2>5. Frame \in Seq(Units) /\ Len(Frame) = Len(a) + 2
      BY <2>2, <2>3, <2>4
    <2> QED
      BY <1>1, <1>2, <1>3, <2>5 DEF a

\* What a line that is sent, or sent in part, does to the links.
LEMMA LinkSent ==
  ASSUME TInv, LinkInv, SendOk \/ SendFails
  PROVE  /\ links' \in [1..MaxLinks -> Links]
         /\ \A k \in 1..MaxLinks :
               /\ links'[k].asked = links[k].asked /\ links'[k].gone = links[k].gone
               /\ k # conn => links'[k] = links[k]
         /\ links[conn].gone => links'[conn].out = links[conn].out
         /\ ~links[conn].gone => links'[conn].out = IF SendOk THEN Frame ELSE SubSeq(Frame, 1, SendCap)
         /\ SendOk => links'[conn].shut = links[conn].shut
         /\ Len(links'[conn].out) <= SendCap
  <1>1. lines # <<>> /\ conn # 0
    BY DEF SendOk, SendFails, Sending
  <1>2. /\ links[conn].out \in Seq(Units) /\ Frame \in Seq(Units) /\ conn \in 1..MaxLinks
        /\ Len(Frame) = Len(links[conn].out) + 2 /\ Len(links[conn].out) <= SendCap
        /\ Len(links[conn].out) \in Nat
    BY <1>1, FrameMade DEF LinkInv
  <1>3. CASE links[conn].gone
    <2>1. links \in [1..MaxLinks -> Links]
      BY DEF TInv
    <2>2. CASE SendOk
      <3>1. links' = links
        BY <1>3, <2>2 DEF SendOk
      <3> QED
        BY <1>2, <1>3, <2>1, <3>1
    <2>3. CASE SendFails /\ ~SendOk
      <3>1. links' = Close(links, conn)
        BY <1>3, <2>3 DEF SendFails
      <3> QED
        <4>1. links' \in [1..MaxLinks -> Links]
          BY <2>1, <3>1, LinkClosed
        <4>2. ASSUME NEW k \in 1..MaxLinks
              PROVE  /\ links'[k].asked = links[k].asked /\ links'[k].gone = links[k].gone
                     /\ links'[k].out = links[k].out /\ (k # conn => links'[k] = links[k])
          BY <2>1, <3>1 DEF Close, Links
        <4> QED
          BY <1>2, <1>3, <2>3, <4>1, <4>2
    <2> QED
      BY <2>2, <2>3
  <1>4. CASE ~links[conn].gone /\ SendOk
    <2>1. links' = Filled(links, conn, Frame) /\ Len(Frame) <= SendCap
      BY <1>2, <1>4, Bounds DEF SendOk, Fits, Frame, Filled
    <2>2. links \in [1..MaxLinks -> Links]
      BY DEF TInv
    <2>5. Frame \in Seq(Units)
      BY <1>2
    <2>4. links' \in [1..MaxLinks -> Links]
      BY <2>1, <2>2, <2>5, LinkFilled
    <2>3. ASSUME NEW k \in 1..MaxLinks
          PROVE  /\ links'[k].asked = links[k].asked /\ links'[k].gone = links[k].gone
                 /\ links'[k].shut = links[k].shut
                 /\ k = conn => links'[k].out = Frame
                 /\ k # conn => links'[k] = links[k]
      BY <2>1, <2>2, <2>5 DEF Filled, Links
    <2> QED
      BY <1>2, <1>4, <2>1, <2>3, <2>4
  <1>5. CASE ~links[conn].gone /\ SendFails
    <2> DEFINE f == SubSeq(Frame, 1, SendCap)
               mid == Filled(links, conn, f)
    <2>1. links' = Close(mid, conn) /\ Len(links[conn].out) + 2 > SendCap
      BY <1>2, <1>5, Bounds DEF SendFails, Fits, Frame, Filled
    <2>2. f \in Seq(Units) /\ Len(f) <= SendCap
      BY <1>2, <2>1, Bounds, SubSeqProperties
    <2>3. ~SendOk
      BY <1>2, <1>5, <2>1, Bounds DEF SendOk, Fits
    <2>4. links \in [1..MaxLinks -> Links]
      BY DEF TInv
    <2> HIDE DEF f
    <2>7. mid \in [1..MaxLinks -> Links]
      BY <2>2, <2>4, LinkFilled
    <2>5. ASSUME NEW k \in 1..MaxLinks
          PROVE  /\ mid[k].asked = links[k].asked /\ mid[k].gone = links[k].gone
                 /\ mid[k].shut = links[k].shut
                 /\ k = conn => mid[k].out = f
                 /\ k # conn => mid[k] = links[k]
      BY <2>2, <2>4 DEF Filled, Links
    <2> HIDE DEF mid
    <2>8. links' \in [1..MaxLinks -> Links]
      BY <2>1, <2>7, LinkClosed
    <2>6. ASSUME NEW k \in 1..MaxLinks
          PROVE  /\ links'[k].asked = mid[k].asked /\ links'[k].gone = mid[k].gone
                 /\ links'[k].out = mid[k].out
                 /\ k # conn => links'[k] = mid[k]
      BY <2>1, <2>7, LinkClosed
    <2> QED
      BY <1>2, <1>5, <2>2, <2>3, <2>5, <2>6, <2>8 DEF f
  <1> QED
    BY <1>3, <1>4, <1>5

-----------------------------------------------------------------------------
(* What arrives at a window *)

LinkOf(w) == links[win[w].link]

\* What is read is taken off the link of the window.
LEMMA LinkRead ==
  ASSUME TInv, LinkInv, WinInv, NEW w \in Windows, win[w].state # "off",
         NEW n \in Nat, NEW fin \in BOOLEAN, Receive(w, n, fin)
  PROVE  /\ links' \in [1..MaxLinks -> Links]
         /\ \A k \in 1..MaxLinks :
               /\ links'[k].asked = links[k].asked /\ links'[k].gone = links[k].gone
               /\ links'[k].shut = links[k].shut
               /\ k # win[w].link => links'[k] = links[k]
         /\ win[w].link \in 1..made /\ win[w].link \in 1..MaxLinks
         /\ LinkOf(w).out \in Seq(Units) /\ n <= Len(LinkOf(w).out)
         /\ SubSeq(LinkOf(w).out, 1, n) \in Seq(Units)
         /\ SubSeq(LinkOf(w).out, n + 1, Len(LinkOf(w).out)) \in Seq(Units)
         /\ links'[win[w].link].out = SubSeq(LinkOf(w).out, n + 1, Len(LinkOf(w).out))
         /\ fin => n = Len(LinkOf(w).out)
  <1> DEFINE l == win[w].link
             o == links[l].out
             q == SubSeq(o, n + 1, Len(o))
  <1>1. l \in 1..made /\ l \in 1..MaxLinks /\ l \in Nat
    BY Bounds DEF WinInv, WinOk, LinkInv, TInv
  <1>2. links \in [1..MaxLinks -> Links]
    BY DEF TInv
  <1>3. o \in Seq(Units)
    BY <1>1, <1>2 DEF Links
  <1>4. n <= Len(o) /\ links' = Filled(links, l, q) /\ (fin => n = Len(o))
    BY DEF Receive, Filled
  <1> HIDE DEF l
  <1>5. q \in Seq(Units) /\ SubSeq(o, 1, n) \in Seq(Units)
    BY <1>3, <1>4, SubSeqProperties
  <1> HIDE DEF q
  <1>6. links' \in [1..MaxLinks -> Links]
    BY <1>2, <1>4, <1>5, LinkFilled
  <1>7. ASSUME NEW k \in 1..MaxLinks
        PROVE  /\ links'[k].asked = links[k].asked /\ links'[k].gone = links[k].gone
               /\ links'[k].shut = links[k].shut
               /\ k = l => links'[k].out = q
               /\ k # l => links'[k] = links[k]
    BY <1>2, <1>4, <1>5 DEF Filled, Links
  <1> HIDE DEF o
  <1>8. LinkOf(w).out = o
    BY DEF LinkOf, l, o
  <1> QED
    BY <1>1, <1>3, <1>4, <1>5, <1>6, <1>7, <1>8 DEF l, q

\* A window is as if it had never connected.
LEMMA WinOff ==
  ASSUME TInv, NEW w, win' = [win EXCEPT ![w] = Off]
  PROVE  /\ win' \in [Windows -> Wins] /\ Off \in Wins
         /\ \A v \in Windows : v # w => win'[v] = win[v]
         /\ w \in Windows => win'[w] = Off
  <1>1. Off \in Wins
    BY EmptySeq DEF Off, Wins, States
  <1> QED
    BY <1>1 DEF TInv

\* The answer to the handshake is taken off.
LEMMA AnsweredWin ==
  ASSUME TInv, LinkInv, WinInv, NEW w \in Windows, NEW n \in Nat, Answered(w, n)
  PROVE  /\ win' \in [Windows -> Wins]
         /\ \A v \in Windows : v # w => win'[v] = win[v]
         /\ win[w].state = "waiting" /\ win'[w].state = "hello"
         /\ win'[w].link = win[w].link /\ win'[w].got = win[w].got
         /\ win'[w].raw = SubSeq(LinkOf(w).out, 2, n)
         /\ win'[w].raw \in Seq(Units) /\ n > 0
  <1>1. win[w].state = "waiting" /\ n > 0 /\ Receive(w, n, FALSE)
    BY DEF Answered
  <1>2. LinkOf(w).out \in Seq(Units) /\ n <= Len(LinkOf(w).out)
    BY <1>1, LinkRead
  <1> DEFINE q == SubSeq(LinkOf(w).out, 2, n)
  <1>3. q \in Seq(Units)
    BY <1>2, SubSeqProperties
  <1>4. win' = [win EXCEPT ![w].state = "hello", ![w].raw = q]
    BY DEF Answered, LinkOf
  <1> HIDE DEF q
  <1>5. win \in [Windows -> Wins]
    BY DEF TInv
  <1>6. win' \in [Windows -> Wins]
    BY <1>3, <1>4, <1>5 DEF Wins, States
  <1>7. \A v \in Windows : v # w => win'[v] = win[v]
    BY <1>4, <1>5
  <1>8. /\ win'[w].state = "hello" /\ win'[w].raw = q
        /\ win'[w].link = win[w].link /\ win'[w].got = win[w].got
    BY <1>4, <1>5 DEF Wins
  <1> QED
    BY <1>1, <1>3, <1>6, <1>7, <1>8 DEF q

\* What a window takes apart: with the end of the link, only what came last.
LEMMA RawIs ==
  ASSUME TInv, LinkInv, WinInv, NEW w \in Windows, win[w].state # "off",
         NEW n \in Nat, NEW fin \in BOOLEAN, Receive(w, n, fin)
  PROVE  /\ Raw(w, n, fin) \in Seq(Units) /\ win[w].raw \in Seq(Units)
         /\ ~fin => Raw(w, n, fin) = win[w].raw \o SubSeq(LinkOf(w).out, 1, n)
         /\ fin => Raw(w, n, fin) = LinkOf(w).out
  <1>1. /\ LinkOf(w).out \in Seq(Units) /\ SubSeq(LinkOf(w).out, 1, n) \in Seq(Units)
        /\ fin => n = Len(LinkOf(w).out)
    BY LinkRead
  <1>2. win[w].raw \in Seq(Units)
    BY DEF TInv, Wins
  <1>3. CASE ~fin
    <2>1. Raw(w, n, fin) = win[w].raw \o SubSeq(LinkOf(w).out, 1, n)
      BY <1>3 DEF Raw, LinkOf
    <2> QED
      BY <1>1, <1>2, <1>3, <2>1, ConcatProperties
  <1>4. CASE fin
    <2>1. Raw(w, n, fin) = <<>> \o SubSeq(LinkOf(w).out, 1, n)
      BY <1>4 DEF Raw, LinkOf
    <2>2. SubSeq(LinkOf(w).out, 1, n) = LinkOf(w).out
      BY <1>1, <1>4, SubSeqFull
    <2>3. Raw(w, n, fin) = LinkOf(w).out
      BY <1>1, <2>1, <2>2, ConcatEmptySeq
    <2> QED
      BY <1>1, <1>2, <1>4, <2>3
  <1> QED
    BY <1>3, <1>4

\* A window waits for the hello, gets it, or gives up.
LEMMA GreetedWin ==
  ASSUME TInv, LinkInv, WinInv, NEW w \in Windows, NEW n \in Nat, NEW fin \in BOOLEAN,
         Greeted(w, n, fin)
  PROVE  /\ win' \in [Windows -> Wins] /\ win[w].state = "hello" /\ Receive(w, n, fin)
         /\ \A v \in Windows : v # w => win'[v] = win[v]
         /\ \/ /\ Raw(w, n, fin) # <<>> /\ Head(Raw(w, n, fin)) = Hello
               /\ win'[w].state = IF fin THEN "dead" ELSE "on"
               /\ ~fin => win'[w].raw = Tail(Raw(w, n, fin))
               /\ win'[w].link = win[w].link /\ win'[w].got = win[w].got
            \/ fin /\ win'[w] = Off
            \/ /\ ~fin /\ win'[w].state = "hello" /\ win'[w].raw = Raw(w, n, fin)
               /\ win'[w].link = win[w].link /\ win'[w].got = win[w].got
  <1> DEFINE raw == Raw(w, n, fin)
  <1>1. win[w].state = "hello" /\ Receive(w, n, fin)
    BY DEF Greeted
  <1>2. raw \in Seq(Units)
    BY <1>1, RawIs
  <1>3. win \in [Windows -> Wins]
    BY DEF TInv
  <1>4. CASE raw # <<>> /\ Head(raw) = Hello
    <2> DEFINE st == IF fin THEN "dead" ELSE "on"
               q == IF fin THEN <<>> ELSE Tail(raw)
    <2>1. win' = [win EXCEPT ![w].state = st, ![w].raw = q]
      BY <1>4 DEF Greeted
    <2>2. st \in States
      BY DEF States
    <2>3. q \in Seq(Units)
      BY <1>2, <1>4, EmptySeq, HeadTailProperties
    <2>4. ~fin => q = Tail(raw)
      OBVIOUS
    <2> HIDE DEF st, q
    <2>5. win' \in [Windows -> Wins]
      BY <1>3, <2>1, <2>2, <2>3 DEF Wins
    <2>6. \A v \in Windows : v # w => win'[v] = win[v]
      BY <1>3, <2>1
    <2>7. /\ win'[w].state = st /\ win'[w].raw = q
          /\ win'[w].link = win[w].link /\ win'[w].got = win[w].got
      BY <1>3, <2>1 DEF Wins
    <2> QED
      BY <1>1, <1>4, <2>4, <2>5, <2>6, <2>7 DEF st
  <1>5. CASE ~(raw # <<>> /\ Head(raw) = Hello) /\ fin
    <2>1. win' = [win EXCEPT ![w] = Off]
      BY <1>5 DEF Greeted
    <2> QED
      BY <1>1, <1>5, <2>1, WinOff
  <1>6. CASE ~(raw # <<>> /\ Head(raw) = Hello) /\ ~fin
    <2>1. win' = [win EXCEPT ![w].raw = raw]
      BY <1>6 DEF Greeted
    <2> HIDE DEF raw
    <2>2. win' \in [Windows -> Wins]
      BY <1>2, <1>3, <2>1 DEF Wins
    <2>3. \A v \in Windows : v # w => win'[v] = win[v]
      BY <1>3, <2>1
    <2>4. /\ win'[w].state = "hello" /\ win'[w].raw = raw
          /\ win'[w].link = win[w].link /\ win'[w].got = win[w].got
      BY <1>1, <1>3, <2>1 DEF Wins
    <2> QED
      BY <1>1, <1>6, <2>2, <2>3, <2>4 DEF raw
  <1> QED
    BY <1>4, <1>5, <1>6

\* A window takes frames off what it received.
LEMMA PollWin ==
  ASSUME TInv, LinkInv, WinInv, NEW w \in Windows, NEW n \in Nat, NEW fin \in BOOLEAN,
         PollRows(w, n, fin)
  PROVE  /\ win' \in [Windows -> Wins] /\ win[w].state = "on" /\ Receive(w, n, fin)
         /\ \A v \in Windows : v # w => win'[v] = win[v]
         /\ win'[w].state = (IF fin THEN "dead" ELSE "on") /\ win'[w].link = win[w].link
         /\ \E skip \in 0..Len(Raw(w, n, fin)) :
               LET text == SubSeq(Raw(w, n, fin), skip + 1, Len(Raw(w, n, fin))) IN
               /\ text \in Seq(Units) /\ Aligned(text)
               /\ Aligned(Raw(w, n, fin)) => skip = 0
               /\ win'[w].got = win[w].got \o Rows(text)
               /\ ~fin => win'[w].raw = Rest(text)
  <1> DEFINE raw == Raw(w, n, fin)
  <1>1. win[w].state = "on" /\ Receive(w, n, fin)
    BY DEF PollRows
  <1>2. raw \in Seq(Units)
    BY <1>1, RawIs
  <1>3. win \in [Windows -> Wins] /\ win[w].got \in Seq(Lines)
    BY DEF TInv, Wins
  <1>4. PICK skip \in (IF Aligned(raw) THEN {0} ELSE 1..Len(raw)) :
          LET text == SubSeq(raw, skip + 1, Len(raw)) IN
             /\ Aligned(text)
             /\ win' = [win EXCEPT
                   ![w].state = IF fin THEN "dead" ELSE @,
                   ![w].got = @ \o Rows(text),
                   ![w].raw = IF fin THEN <<>> ELSE Rest(text)]
    BY DEF PollRows
  <1> DEFINE text == SubSeq(raw, skip + 1, Len(raw))
             st == IF fin THEN "dead" ELSE "on"
             gt == win[w].got \o Rows(text)
             q == IF fin THEN <<>> ELSE Rest(text)
  <1>5. skip \in 0..Len(raw) /\ (Aligned(raw) => skip = 0)
    BY <1>2, <1>4
  <1>6. text \in Seq(Units)
    BY <1>2, <1>5, SubSeqProperties
  <1>7. Rows(text) \in Seq(Lines) /\ Rest(text) \in Seq(Units)
    BY <1>6, RowsOf
  <1>8. gt \in Seq(Lines) /\ q \in Seq(Units) /\ st \in States
    BY <1>3, <1>7, ConcatProperties, EmptySeq DEF States
  <1>9. win' = [win EXCEPT ![w].state = st, ![w].got = gt, ![w].raw = q]
    BY <1>1, <1>3, <1>4
  <1>10. Aligned(text)
    BY <1>4
  <1>11. (~fin => q = Rest(text)) /\ gt = win[w].got \o Rows(text)
    OBVIOUS
  <1> HIDE DEF st, gt, q
  <1>12. win' \in [Windows -> Wins]
    BY <1>3, <1>8, <1>9 DEF Wins
  <1>13. \A v \in Windows : v # w => win'[v] = win[v]
    BY <1>3, <1>9
  <1>14. /\ win'[w].state = st /\ win'[w].raw = q /\ win'[w].got = gt
         /\ win'[w].link = win[w].link
    BY <1>3, <1>9 DEF Wins
  <1>15. ~fin => win'[w].raw = Rest(text)
    BY <1>11, <1>14
  <1> QED
    BY <1>1, <1>5, <1>6, <1>10, <1>11, <1>12, <1>13, <1>14, <1>15 DEF st

\* The oldest link of the backlog is accepted.
LEMMA Accepts ==
  ASSUME TInv, LinkInv, Accept, conn = 0 /\ "srv" \in ready
  PROVE  /\ backlog # <<>> /\ shaking' = backlog[1] /\ shaking' \in 1..made /\ pc' = "shake"
         /\ backlog' \in Seq(Nat) /\ Len(backlog') = Len(backlog) - 1
         /\ \A i \in 1..Len(backlog') : i + 1 \in 1..Len(backlog) /\ backlog'[i] = backlog[i + 1]
  <1>1. backlog # <<>> /\ shaking' = Head(backlog) /\ backlog' = Tail(backlog) /\ pc' = "shake"
    BY DEF Accept, LinkInv
  <1>2. backlog \in Seq(Nat)
    BY DEF TInv
  <1>3. /\ Head(backlog) = backlog[1] /\ 1 \in 1..Len(backlog)
        /\ Tail(backlog) \in Seq(Nat) /\ Len(Tail(backlog)) = Len(backlog) - 1
        /\ \A i \in 1..Len(Tail(backlog)) : Tail(backlog)[i] = backlog[i + 1]
    BY <1>1, <1>2, HeadTailProperties
  <1> QED
    BY <1>1, <1>2, <1>3 DEF LinkInv

\* The unit the tap writes next.
LEMMA NextLine ==
  ASSUME TInv, written < 2 * MaxLines
  PROVE  (written \div 2) + 1 \in Lines /\ (written % 2) + 1 \in {1, 2}
  <1> DEFINE d == written \div 2
             h == written % 2
  <1>1. d \in Nat /\ h \in {0, 1} /\ written = 2 * d + h
    BY Halves DEF TInv
  <1> HIDE DEF d, h
  <1>2. d + 1 \in Nat /\ d + 1 <= MaxLines /\ h + 1 \in {1, 2}
    BY <1>1, Bounds
  <1>3. d + 1 \in Lines
    BY <1>2, LinesMade
  <1> QED
    BY <1>2, <1>3 DEF d, h

\* Types are kept.
LEMMA TypeStep ==
  ASSUME IInv, [BridgeNext]_bridgeVars
  PROVE  TInv'
  <1> TInv /\ LinkInv /\ TapInv
    BY DEF IInv
  <1>1. CASE TapWrites
    <2>1. Unit((written \div 2) + 1, (written % 2) + 1) \in Units
      <3>1. (written \div 2) + 1 \in Lines /\ (written % 2) + 1 \in {1, 2}
        BY <1>1, NextLine DEF TapWrites
      <3> QED
        BY <3>1, UnitsMade
    <2> QED
      BY <1>1, <2>1 DEF TapWrites, TInv, bridge
  <1>2. CASE TapEnds
    BY <1>2 DEF TapEnds, TInv, bridge
  <1>3. CASE Select \/ ReadNothing \/ ForwardDone
    BY <1>3 DEF Select, ReadNothing, ForwardDone, Ready, TInv, Places, tap
  <1>4. CASE Accept
    <2>1. CASE conn = 0 /\ "srv" \in ready
      <3>1. shaking' \in Nat /\ backlog' \in Seq(Nat)
        BY <1>4, <2>1, Accepts DEF TInv
      <3> QED
        BY <1>4, <3>1 DEF Accept, TInv, Places, tap
    <2>2. CASE ~(conn = 0 /\ "srv" \in ready)
      BY <1>4, <2>2 DEF Accept, TInv, Places, tap
    <2> QED
      BY <2>1, <2>2
  <1>5. CASE ShakeOk
    <2>1. <<Accepted, Hello>> \in Seq(Units)
      BY UnitsMade
    <2>2. links' = Filled(links, shaking, <<Accepted, Hello>>)
      BY <1>5 DEF ShakeOk, Filled
    <2>3. links' \in [1..MaxLinks -> Links]
      BY <2>1, <2>2, LinkFilled DEF TInv
    <2> QED
      BY <1>5, <2>3 DEF ShakeOk, TInv, Places, tap
  <1>6. CASE ShakeFails \/ Client
    <2>1. links' \in {links, Close(links, shaking), Close(links, conn)}
      BY <1>6 DEF ShakeFails, Client
    <2>2. links' \in [1..MaxLinks -> Links]
      <3>1. links \in [1..MaxLinks -> Links]
        BY DEF TInv
      <3>2. Close(links, shaking) \in [1..MaxLinks -> Links]
        BY <3>1, LinkClosed
      <3>3. Close(links, conn) \in [1..MaxLinks -> Links]
        BY <3>1, LinkClosed
      <3> QED
        BY <2>1, <3>1, <3>2, <3>3
    <2>3. CASE ShakeFails
      BY <2>2, <2>3 DEF ShakeFails, TInv, Places, tap
    <2>4. CASE Client
      BY <2>2, <2>4 DEF Client, TInv, Places, tap
    <2> QED
      BY <1>6, <2>3, <2>4
  <1>7. CASE Read
    <2> PICK n \in 1..Len(pipe) : LET text == buf \o SubSeq(pipe, 1, n) IN
             /\ lines' = Rows(text) /\ buf' = Rest(text)
             /\ pipe' = SubSeq(pipe, n + 1, Len(pipe))
      BY <1>7 DEF Read
    <2>1. buf \o SubSeq(pipe, 1, n) \in Seq(Units) /\ SubSeq(pipe, n + 1, Len(pipe)) \in Seq(Units)
      BY SubSeqProperties, ConcatProperties DEF TInv
    <2>2. lines' \in Seq(Lines) /\ buf' \in Seq(Units) /\ pipe' \in Seq(Units)
      BY <2>1, RowsOf
    <2> QED
      BY <1>7, <2>2 DEF Read, TInv, Places
  <1>8. CASE Exit /\ UNCHANGED <<tap, buf, made, win>>
    BY <1>8, LinksEnd, EmptySeq DEF Exit, TInv, Places, tap
  <1>9. CASE Skip
    BY <1>9 DEF Skip, TInv, tap
  <1>10. CASE SendOk \/ SendFails
    <2>1. links' \in [1..MaxLinks -> Links]
      BY <1>10, LinkSent
    <2>2. lines' \in Seq(Lines) /\ conn' \in Nat
      <3>1. lines # <<>> /\ lines' = Tail(lines) /\ conn' \in {0, conn}
        BY <1>10 DEF SendOk, SendFails, Sending
      <3> QED
        BY <3>1, HeadTailProperties DEF TInv
    <2>3. UNCHANGED <<tap, buf, pc, ready, shaking, backlog, made, win>>
      BY <1>10 DEF SendOk, SendFails
    <2> QED
      BY <2>1, <2>2, <2>3 DEF TInv, tap
  <1>11. ASSUME NEW w \in Windows, Connect(w) PROVE TInv'
    <2>1. links' \in [1..MaxLinks -> Links]
      BY <1>11, LinkMade DEF Connect, TInv
    <2>2. [state |-> "asking", link |-> made + 1, raw |-> <<>>, got |-> <<>>] \in Wins
      BY EmptySeq DEF Wins, States, TInv
    <2> QED
      BY <1>11, <2>1, <2>2 DEF Connect, TInv, tap, bridge
  <1>12. ASSUME NEW w \in Windows, Leave(w) PROVE TInv'
    <2>1. links' \in [1..MaxLinks -> Links]
      BY <1>12, LinkLeft DEF Leave, TInv
    <2>2. Off \in Wins
      BY EmptySeq DEF Off, Wins, States
    <2> QED
      BY <1>12, <2>1, <2>2 DEF Leave, TInv, tap, bridge
  <1>13. ASSUME NEW w \in Windows, Ask(w) PROVE TInv'
    <2>1. links' \in [1..MaxLinks -> Links]
      BY <1>13, LinkAsked DEF Ask, TInv
    <2>2. win' \in [Windows -> Wins]
      BY <1>13 DEF Ask, TInv, Wins, States
    <2> QED
      BY <1>13, <2>1, <2>2 DEF Ask, TInv, tap, bridge
  <1>14. ASSUME NEW w \in Windows, Arrives(w) PROVE TInv'
    <2> WinInv
      BY DEF IInv
    <2>1. 0..SendCap \subseteq Nat
      OBVIOUS
    <2>2. ASSUME NEW n \in Nat, NEW fin \in BOOLEAN, Receive(w, n, fin), win' \in [Windows -> Wins],
                 win[w].state # "off"
          PROVE  TInv'
      <3>1. links' \in [1..MaxLinks -> Links]
        BY <2>2, LinkRead
      <3> QED
        BY <2>2, <3>1 DEF Receive, TInv, tap, bridge
    <2>3. CASE Refused(w)
      BY <2>2, <2>3, WinOff DEF Refused, TInv
    <2>4. ASSUME NEW n \in 0..SendCap, Answered(w, n) PROVE TInv'
      <3>1. win' \in [Windows -> Wins] /\ Receive(w, n, FALSE) /\ win[w].state # "off" /\ n \in Nat
        BY <2>1, <2>4, AnsweredWin DEF Answered
      <3> QED
        BY <2>2, <3>1
    <2>5. ASSUME NEW n \in 0..SendCap, NEW fin \in BOOLEAN, Greeted(w, n, fin) PROVE TInv'
      <3>1. win' \in [Windows -> Wins] /\ Receive(w, n, fin) /\ win[w].state # "off" /\ n \in Nat
        BY <2>1, <2>5, GreetedWin
      <3> QED
        BY <2>2, <3>1
    <2>6. ASSUME NEW n \in 0..SendCap, NEW fin \in BOOLEAN, PollRows(w, n, fin) PROVE TInv'
      <3>1. win' \in [Windows -> Wins] /\ Receive(w, n, fin) /\ win[w].state # "off" /\ n \in Nat
        BY <2>1, <2>6, PollWin
      <3> QED
        BY <2>2, <3>1
    <2> QED
      BY <1>14, <2>3, <2>4, <2>5, <2>6, Zenon DEF Arrives
  <1>15. CASE UNCHANGED bridgeVars
    BY <1>15 DEF bridgeVars, tap, bridge, TInv
  <1> QED
    BY <1>1, <1>2, <1>3, <1>4, <1>5, <1>6, <1>7, <1>8, <1>9, <1>10, <1>11, <1>12, <1>13, <1>14,
       <1>15
       DEF BridgeNext, Loop, StdinEnds, Interrupt, Ended, Exit
-----------------------------------------------------------------------------
(* The stream from the tap to the lines *)

\* Two texts, one behind the other.
LEMMA Concats ==
  ASSUME NEW a \in Seq(Units), NEW b \in Seq(Units)
  PROVE  /\ a \o b \in Seq(Units) /\ Len(a \o b) = Len(a) + Len(b)
         /\ Len(a) \in Nat /\ Len(b) \in Nat
         /\ \A i \in 1..Len(a) : (a \o b)[i] = a[i]
         /\ \A i \in 1..Len(b) : (a \o b)[Len(a) + i] = b[i]
  <1>1. /\ a \o b \in Seq(Units) /\ Len(a \o b) = Len(a) + Len(b)
        /\ \A i \in 1..(Len(a) + Len(b)) : (a \o b)[i] = IF i <= Len(a) THEN a[i] ELSE b[i - Len(a)]
    BY ConcatProperties
  <1>2. Len(a) \in Nat /\ Len(b) \in Nat
    OBVIOUS
  <1>3. ASSUME NEW i \in 1..Len(b) PROVE (a \o b)[Len(a) + i] = b[i]
    <2>1. Len(a) + i \in 1..(Len(a) + Len(b)) /\ ~(Len(a) + i <= Len(a)) /\ (Len(a) + i) - Len(a) = i
      BY <1>2
    <2> QED
      BY <1>1, <2>1
  <1>4. ASSUME NEW i \in 1..Len(a) PROVE (a \o b)[i] = a[i]
    <2>1. i \in 1..(Len(a) + Len(b)) /\ i <= Len(a)
      BY <1>2
    <2> QED
      BY <1>1, <2>1
  <1> QED
    BY <1>1, <1>2, <1>3, <1>4

\* A chunk of the pipe makes the text, and the lines taken from it leave the rest to come.
LEMMA ChunkTaken ==
  ASSUME NEW b \in Seq(Units), NEW p \in Seq(Units), NEW n \in 0..Len(p)
  PROVE  LET text == b \o SubSeq(p, 1, n)
             left == SubSeq(p, n + 1, Len(p))
             m == Len(text) \div 2
             come == Rest(text) \o left
         IN  /\ text \in Seq(Units) /\ m \in Nat /\ 2 * m <= Len(b \o p)
             /\ left \in Seq(Units) /\ Len(left) = Len(p) - n
             /\ \A i \in 1..Len(text) : text[i] = (b \o p)[i]
             /\ Len(text) <= Len(b \o p)
             /\ Len(come) = Len(b \o p) - 2 * m
             /\ \A i \in 1..Len(come) : come[i] = (b \o p)[2 * m + i]
  <1> DEFINE part == SubSeq(p, 1, n)
             left == SubSeq(p, n + 1, Len(p))
             text == b \o part
             m == Len(text) \div 2
             come == Rest(text) \o left
             all == b \o p
  <1>1. /\ part \in Seq(Units) /\ Len(part) = n /\ \A i \in 1..n : part[i] = p[i]
        /\ left \in Seq(Units) /\ Len(left) = Len(p) - n
        /\ \A i \in 1..(Len(p) - n) : left[i] = p[n + i]
        /\ n \in Nat /\ n <= Len(p) /\ Len(p) \in Nat /\ Len(b) \in Nat
    BY SubSeqProperties
  <1> HIDE DEF part, left
  <1>2. /\ text \in Seq(Units) /\ Len(text) = Len(b) + n
        /\ \A i \in 1..Len(b) : text[i] = b[i]
        /\ \A i \in 1..n : text[Len(b) + i] = part[i]
    BY <1>1, Concats
  <1>3. /\ all \in Seq(Units) /\ Len(all) = Len(b) + Len(p)
        /\ \A i \in 1..Len(b) : all[i] = b[i]
        /\ \A i \in 1..Len(p) : all[Len(b) + i] = p[i]
    BY <1>1, Concats
  <1> HIDE DEF text, all
  <1>4. /\ m \in Nat /\ Len(text) = 2 * m + Len(Rest(text)) /\ Rest(text) \in Seq(Units)
        /\ \A i \in 1..Len(Rest(text)) : Rest(text)[i] = text[2 * m + i]
    BY <1>2, RowsOf
  <1>5. /\ come \in Seq(Units) /\ Len(come) = Len(Rest(text)) + Len(left) /\ Len(Rest(text)) \in Nat
        /\ \A i \in 1..Len(Rest(text)) : come[i] = Rest(text)[i]
        /\ \A i \in 1..Len(left) : come[Len(Rest(text)) + i] = left[i]
    BY <1>1, <1>4, Concats
  <1> HIDE DEF m, come
  <1>6. ASSUME NEW i \in 1..Len(text) PROVE text[i] = all[i]
    <2>1. CASE i \in 1..Len(b)
      BY <1>2, <1>3, <2>1
    <2>2. CASE i \notin 1..Len(b)
      <3> DEFINE j == i - Len(b)
      <3>1. j \in 1..n /\ j \in 1..Len(p) /\ i = Len(b) + j
        BY <1>1, <1>2, <2>2
      <3> HIDE DEF j
      <3> QED
        BY <1>1, <1>2, <1>3, <3>1
    <2> QED
      BY <2>1, <2>2
  <1>9. /\ 2 * m \in Nat /\ Len(Rest(text)) \in Nat /\ 2 * m + Len(Rest(text)) = Len(b) + n
        /\ Len(come) = Len(Rest(text)) + (Len(p) - n)
    <2>1. 2 * m \in Nat
      BY <1>4
    <2>2. Len(Rest(text)) \in Nat
      BY <1>5
    <2>3. 2 * m + Len(Rest(text)) = Len(b) + n
      BY <1>2, <1>4
    <2>4. Len(come) = Len(Rest(text)) + (Len(p) - n)
      BY <1>1, <1>5
    <2> QED
      BY <2>1, <2>2, <2>3, <2>4
  <1>7. ASSUME NEW i \in 1..Len(come) PROVE come[i] = all[2 * m + i]
    <2>1. CASE i \in 1..Len(Rest(text))
      <3>1. 2 * m + i \in 1..Len(text)
        BY <1>1, <1>2, <1>4, <1>5, <2>1
      <3> QED
        BY <1>4, <1>5, <1>6, <2>1, <3>1
    <2>2. CASE i \notin 1..Len(Rest(text))
      <3> DEFINE j == i - Len(Rest(text))
      <3>1. j \in 1..Len(left) /\ i = Len(Rest(text)) + j /\ j \in 1..(Len(p) - n)
        BY <1>1, <1>5, <2>2
      <3> HIDE DEF j
      <3>2. come[i] = p[n + j] /\ n + j \in 1..Len(p)
        BY <1>1, <1>5, <3>1
      <3>3. 2 * m + i = Len(b) + (n + j)
        <4>1. j \in Nat /\ n \in Nat /\ Len(b) \in Nat
          BY <1>1, <3>1
        <4>2. 2 * m + (Len(Rest(text)) + j) = (2 * m + Len(Rest(text))) + j
          BY <1>9, <4>1
        <4>3. (Len(b) + n) + j = Len(b) + (n + j)
          BY <4>1
        <4> QED
          BY <1>9, <3>1, <4>2, <4>3
      <3> QED
        BY <1>3, <3>2, <3>3
    <2> QED
      BY <2>1, <2>2
  <1>8. Len(come) = Len(all) - 2 * m /\ 2 * m <= Len(all) /\ Len(text) <= Len(all)
    <2>1. n <= Len(p) /\ n \in Nat /\ Len(p) \in Nat /\ Len(b) \in Nat
      BY <1>1
    <2> DEFINE c == Len(come)
               k == 2 * m
               r == Len(Rest(text))
    <2>4. /\ k \in Nat /\ r \in Nat /\ k + r = Len(b) + n
          /\ c = r + (Len(p) - n) /\ Len(all) = Len(b) + Len(p)
      BY <1>3, <1>9
    <2> HIDE DEF c, k, r
    <2>5. k <= Len(all) /\ c = Len(all) - k
      BY <2>1, <2>4
    <2>2. 2 * m <= Len(all) /\ Len(come) = Len(all) - 2 * m
      BY <2>5 DEF c, k
    <2>3. Len(text) <= Len(all)
      BY <1>2, <1>3, <2>1
    <2> QED
      BY <2>2, <2>3
  <1> QED
    BY <1>1, <1>2, <1>4, <1>6, <1>7, <1>8 DEF text, m, come, left, part, all

\* The second half of a line is the line's.
LEMMA UnitAtIs ==
  ASSUME NEW r \in Nat, NEW i \in Nat \ {0}
  PROVE  UnitAt(2 * r + 2 * i).line = r + i
  <1> DEFINE k == r + (i - 1)
  <1>1. k \in Nat /\ (2 * r + 2 * i) - 1 = 2 * k + 1 /\ k + 1 = r + i
    OBVIOUS
  <1> HIDE DEF k
  <1>2. (2 * k + 1) \div 2 = k
    BY <1>1, Doubles
  <1> QED
    BY <1>1, <1>2 DEF UnitAt, Unit

\* How far the lines have been dealt with.
SentSame == TapInv' /\ LinesInv' /\ Sent' = Sent
SentOne  == TapInv' /\ LinesInv' /\ Sent' = Sent + 1 /\ lines # <<>> /\ lines[1] = Sent + 1

\* A step that moves nothing in the stream.
LEMMA TapQuiet ==
  ASSUME TInv, TapInv, LinesInv, UNCHANGED <<written, pipe, buf, lines>>,
         pc' # "forward" => lines = <<>>
  PROVE  SentSame
  <1>1. Come' = Come /\ ReadUp' = ReadUp
    BY DEF Come, ReadUp
  <1>2. Sent' = Sent
    BY <1>1 DEF Sent
  <1>3. TapInv'
    BY <1>1 DEF TapInv
  <1>4. LinesInv'
    BY <1>2 DEF LinesInv
  <1> QED
    BY <1>2, <1>3, <1>4 DEF SentSame

\* The tap writes the next unit of the stream.
LEMMA TapFills ==
  ASSUME TInv, TapInv, LinesInv, TapWrites
  PROVE  SentSame
  <1> DEFINE u == Unit((written \div 2) + 1, (written % 2) + 1)
             c == Len(Come)
  <1>1. /\ pipe \in Seq(Units) /\ buf \in Seq(Units) /\ written \in Nat /\ u \in Units
        /\ written < 2 * MaxLines /\ Len(pipe) < PipeCap
        /\ pipe' = Append(pipe, u) /\ written' = written + 1 /\ buf' = buf /\ lines' = lines /\ pc' = pc
    <2>1. (written \div 2) + 1 \in Lines /\ (written % 2) + 1 \in {1, 2} /\ written \in Nat
      BY NextLine DEF TInv, TapWrites
    <2>2. u \in Units
      BY <2>1, UnitsMade
    <2> HIDE DEF u
    <2> QED
      BY <2>1, <2>2 DEF TapWrites, TInv, bridge, u
  <1> HIDE DEF u
  <1>2. /\ Come \in Seq(Units) /\ c \in Nat /\ c = Len(buf) + Len(pipe)
        /\ Len(pipe) \in Nat /\ Len(buf) \in Nat
        /\ Come' \in Seq(Units) /\ Len(Come') = c + 1
        /\ \A i \in 1..c : Come'[i] = Come[i]
        /\ Come'[c + 1] = u /\ Len(pipe') = Len(pipe) + 1
    <2>1. /\ Come \in Seq(Units) /\ c = Len(buf) + Len(pipe)
          /\ Len(pipe) \in Nat /\ Len(buf) \in Nat
      BY <1>1, Concats DEF Come
    <2>2. Come' = Append(Come, u)
      <3>1. Come' = buf \o Append(pipe, u)
        BY <1>1 DEF Come
      <3>2. Append(pipe, u) = pipe \o <<u>> /\ Append(Come, u) = Come \o <<u>> /\ <<u>> \in Seq(Units)
        BY <1>1, <2>1, AppendIsConcat
      <3>3. (buf \o pipe) \o <<u>> = buf \o (pipe \o <<u>>)
        <4>1. buf \in Seq(Units) /\ pipe \in Seq(Units) /\ <<u>> \in Seq(Units)
          BY <1>1, <3>2
        <4> QED
          BY <4>1, ConcatAssociative
      <3> QED
        BY <3>1, <3>2, <3>3 DEF Come
    <2>3. Len(pipe') = Len(pipe) + 1
      BY <1>1
    <2> HIDE DEF c
    <2>4. c = Len(Come) /\ c \in Nat
      BY <2>1 DEF c
    <2>5. /\ Append(Come, u) \in Seq(Units) /\ Len(Append(Come, u)) = Len(Come) + 1
          /\ \A i \in 1..Len(Come) : Append(Come, u)[i] = Come[i]
          /\ Append(Come, u)[Len(Come) + 1] = u
      BY <1>1, <2>1, AppendProperties
    <2> QED
      BY <2>1, <2>2, <2>3, <2>4, <2>5 DEF c
  <1> HIDE DEF c
  <1>3. c = Len(Come)
    BY DEF c
  <1>4. ReadUp' = ReadUp /\ ReadUp + (c + 1) = written + 1 /\ ReadUp \in Nat
    <2>1. ReadUp = written - c /\ ReadUp' = (written + 1) - (c + 1)
      BY <1>1, <1>2, <1>3 DEF ReadUp
    <2>2. ReadUp \in Nat
      BY DEF TapInv
    <2> QED
      BY <1>1, <1>2, <2>1, <2>2
  <1>5. u = UnitAt(ReadUp + (c + 1))
    <2>1. (written + 1) - 1 = written
      BY <1>1
    <2> QED
      BY <1>4, <2>1 DEF u, UnitAt
  <1>6. \A i \in 1..Len(Come') : Come'[i] = UnitAt(ReadUp' + i)
    <2>1. \A i \in 1..c : Come[i] = UnitAt(ReadUp + i)
      BY <1>3 DEF TapInv
    <2>2. \A i \in 1..(c + 1) : i \in 1..c \/ i = c + 1
      BY <1>2
    <2> QED
      BY <1>2, <1>4, <1>5, <2>1, <2>2
  <1>7. TapInv'
    <2>1. written' <= 2 * MaxLines /\ ReadUp' \in Nat /\ ReadUp' % 2 = 0
      BY <1>1, <1>4, Bounds DEF TapInv
    <2>2. Len(buf') <= 1 /\ Len(pipe') <= PipeCap
      BY <1>1, <1>2, Bounds DEF TapInv
    <2> QED
      BY <1>6, <2>1, <2>2 DEF TapInv
  <1>8. Sent' = Sent
    BY <1>1, <1>4 DEF Sent
  <1>9. LinesInv'
    BY <1>1, <1>8 DEF LinesInv
  <1> QED
    BY <1>7, <1>8, <1>9 DEF SentSame

\* The lines read go on where those dealt with end.
LEMMA LinesTaken ==
  ASSUME TInv, TapInv, LinesInv, Read
  PROVE  SentSame
  <1>0. PICK n \in 1..Len(pipe) : LET text == buf \o SubSeq(pipe, 1, n) IN
             /\ lines' = Rows(text) /\ buf' = Rest(text)
             /\ pipe' = SubSeq(pipe, n + 1, Len(pipe))
    BY DEF Read
  <1> DEFINE text == buf \o SubSeq(pipe, 1, n)
             m == Len(text) \div 2
             r == ReadUp \div 2
  <1>1. /\ pipe \in Seq(Units) /\ buf \in Seq(Units) /\ written \in Nat /\ Len(buf) <= 1
        /\ lines = <<>> /\ written' = written /\ pc' = "forward"
    BY DEF TInv, TapInv, LinesInv, Read
  <1>2. lines' = Rows(text) /\ buf' = Rest(text) /\ pipe' = SubSeq(pipe, n + 1, Len(pipe))
    BY <1>0
  <1>3. /\ text \in Seq(Units) /\ m \in Nat /\ 2 * m <= Len(Come)
        /\ Len(pipe') = Len(pipe) - n
        /\ \A i \in 1..Len(text) : text[i] = Come[i]
        /\ Len(text) <= Len(Come)
        /\ Len(Come') = Len(Come) - 2 * m
        /\ \A i \in 1..Len(Come') : Come'[i] = Come[2 * m + i]
    <2>1. /\ text \in Seq(Units) /\ m \in Nat /\ 2 * m <= Len(buf \o pipe)
          /\ Len(SubSeq(pipe, n + 1, Len(pipe))) = Len(pipe) - n
          /\ \A i \in 1..Len(text) : text[i] = (buf \o pipe)[i]
          /\ Len(text) <= Len(buf \o pipe)
          /\ Len(Rest(text) \o SubSeq(pipe, n + 1, Len(pipe))) = Len(buf \o pipe) - 2 * m
          /\ \A i \in 1..Len(Rest(text) \o SubSeq(pipe, n + 1, Len(pipe))) :
                (Rest(text) \o SubSeq(pipe, n + 1, Len(pipe)))[i] = (buf \o pipe)[2 * m + i]
      <3>1. n \in 0..Len(pipe)
        BY <1>1
      <3> QED
        BY <1>1, <3>1, ChunkTaken, Zenon
    <2>2. Come = buf \o pipe /\ Come' = Rest(text) \o SubSeq(pipe, n + 1, Len(pipe))
      BY <1>2 DEF Come
    <2> QED
      BY <1>2, <2>1, <2>2, Zenon
  <1> HIDE DEF text
  <1>4. /\ Len(Rows(text)) = m /\ Len(Rest(text)) \in {0, 1}
        /\ \A i \in 1..m : 2 * i \in 1..Len(text) /\ Rows(text)[i] = text[2 * i].line
    BY <1>3, RowsOf
  <1> HIDE DEF m
  <1>5. r \in Nat /\ ReadUp = 2 * r /\ Len(Come) \in Nat /\ ReadUp \in Nat
        /\ \A i \in 1..Len(Come) : Come[i] = UnitAt(ReadUp + i)
    <2>1. Come \in Seq(Units)
      BY <1>1, Concats DEF Come
    <2> QED
      BY <2>1, Halves DEF TapInv
  <1>6. ReadUp' = ReadUp + 2 * m /\ ReadUp' = 2 * (r + m) /\ r + m \in Nat /\ 2 * m \in Nat
    <2>1. 2 * m \in Nat /\ r + m \in Nat /\ 2 * (r + m) = 2 * r + 2 * m
      BY <1>3, <1>5
    <2>2. ReadUp = written - Len(Come) /\ ReadUp' = written - Len(Come')
      BY <1>1 DEF ReadUp
    <2>3. Len(Come') = Len(Come) - 2 * m /\ Len(Come) \in Nat /\ written \in Nat
      BY <1>1, <1>3, <1>5
    <2>4. ReadUp' = ReadUp + 2 * m
      <3>1. ReadUp' = written - (Len(Come) - 2 * m)
        BY <2>2, <2>3
      <3>2. written - (Len(Come) - 2 * m) = (written - Len(Come)) + 2 * m
        BY <2>1, <2>3
      <3> QED
        BY <2>2, <3>1, <3>2
    <2> QED
      BY <1>5, <2>1, <2>4
  <1> HIDE DEF r
  <1>7. ReadUp' \div 2 = r + m /\ ReadUp' % 2 = 0 /\ ReadUp' \in Nat
    BY <1>6, Doubles
  <1>8. Sent' = Sent /\ Sent = r /\ Sent \in Nat
    <2>1. Len(lines') = m /\ Len(lines) = 0
      BY <1>1, <1>2, <1>4
    <2>2. Sent' = (r + m) - m
      BY <1>7, <2>1 DEF Sent
    <2>3. Sent = r - 0
      BY <2>1 DEF Sent, r
    <2> QED
      BY <1>3, <1>5, <2>2, <2>3
  <1>9. ASSUME NEW i \in 1..Len(lines') PROVE lines'[i] = Sent' + i
    <2>1. i \in 1..m /\ i \in Nat \ {0}
      BY <1>2, <1>3, <1>4
    <2>2. lines'[i] = Come[2 * i].line /\ 2 * i \in 1..Len(Come)
      <3>1. lines'[i] = text[2 * i].line /\ 2 * i \in 1..Len(text)
        BY <1>2, <1>4, <2>1
      <3>2. 2 * i \in 1..Len(Come) /\ text[2 * i] = Come[2 * i]
        BY <1>3, <1>5, <3>1
      <3> QED
        BY <3>1, <3>2
    <2>3. lines'[i] = UnitAt(2 * r + 2 * i).line
      BY <1>5, <2>2
    <2> QED
      BY <1>5, <1>8, <2>1, <2>3, UnitAtIs
  <1>10. LinesInv'
    BY <1>1, <1>8, <1>9 DEF LinesInv
  <1>11. ASSUME NEW i \in 1..Len(Come') PROVE Come'[i] = UnitAt(ReadUp' + i)
    <2>1. 2 * m + i \in 1..Len(Come)
      BY <1>3, <1>5, <1>6
    <2>2. ReadUp + (2 * m + i) = ReadUp' + i
      BY <1>5, <1>6
    <2> QED
      BY <1>3, <1>5, <2>1, <2>2
  <1>12. TapInv'
    <2>1. Len(buf') <= 1
      <3>1. CASE Len(buf') = 0
        BY <3>1
      <3>2. CASE Len(buf') = 1
        BY <3>2
      <3> QED
        BY <1>2, <1>4, <3>1, <3>2
    <2>3. Len(pipe') <= PipeCap
      <3>1. Len(pipe) \in Nat /\ Len(pipe) <= PipeCap /\ PipeCap \in Nat /\ n \in Nat
        BY <1>1, Bounds DEF TapInv
      <3> QED
        BY <1>3, <3>1
    <2>2. written' <= 2 * MaxLines
      BY <1>1 DEF TapInv
    <2> QED
      BY <1>7, <1>11, <2>1, <2>2, <2>3 DEF TapInv
  <1> QED
    BY <1>8, <1>10, <1>12 DEF SentSame

\* The next line is dealt with.
LEMMA LineTaken ==
  ASSUME TInv, TapInv, LinesInv, pc = "forward", pc' = pc, lines # <<>>, lines' = Tail(lines),
         UNCHANGED <<written, pipe, buf>>
  PROVE  SentOne
  <1>1. Come' = Come /\ ReadUp' = ReadUp
    BY DEF Come, ReadUp
  <1>2. TapInv'
    BY <1>1 DEF TapInv
  <1>3. lines \in Seq(Lines) /\ Len(lines) \in Nat \ {0} /\ ReadUp \div 2 \in Nat
    BY Halves DEF TInv, TapInv
  <1>4. /\ Len(lines') = Len(lines) - 1
        /\ \A i \in 1..Len(lines') : lines'[i] = lines[i + 1] /\ i + 1 \in 1..Len(lines)
    BY <1>3, HeadTailProperties
  <1>5. Sent' = Sent + 1 /\ lines[1] = Sent + 1 /\ Sent \in Nat
    BY <1>1, <1>3, <1>4 DEF Sent, LinesInv
  <1>6. ASSUME NEW i \in 1..Len(lines') PROVE lines'[i] = Sent' + i
    <2>1. lines'[i] = Sent + (i + 1)
      BY <1>4 DEF LinesInv
    <2> QED
      BY <1>3, <1>4, <1>5, <2>1
  <1> QED
    BY <1>2, <1>5, <1>6 DEF SentOne, LinesInv

\* At its end the bridge forgets its lines.
LEMMA TapStops ==
  ASSUME TInv, TapInv, LinesInv, Exit, UNCHANGED <<written, pipe, buf>>
  PROVE  TapInv' /\ LinesInv'
  <1>1. Come' = Come /\ ReadUp' = ReadUp
    BY DEF Come, ReadUp
  <1>2. TapInv'
    BY <1>1 DEF TapInv
  <1>3. lines' = <<>> /\ ReadUp \div 2 \in Nat
    BY Halves DEF Exit, TapInv
  <1>4. Sent' \in Nat
    BY <1>1, <1>3 DEF Sent
  <1> QED
    BY <1>2, <1>3, <1>4 DEF LinesInv

-----------------------------------------------------------------------------
(* Who waits, who is served *)

PlaceInv == LinkInv /\ WaitInv /\ WinInv

\* A step that does nothing to links and windows.
LEMMA PlaceQuiet ==
  ASSUME TInv, PlaceInv, UNCHANGED <<shaking, conn, backlog, links, made, win>>,
         pc' = "shake" <=> pc = "shake",
         pc' = "accept" /\ "srv" \in ready' => backlog # <<>>
  PROVE  PlaceInv'
  <1>1. LinkInv'
    BY DEF PlaceInv, LinkInv
  <1>2. WaitInv' /\ WinInv'
    BY DEF PlaceInv, WaitInv, WinInv, WinOk, Waits
  <1> QED
    BY <1>1, <1>2 DEF PlaceInv

\* The link that was waiting longest is shaken hands with.
LEMMA PlaceAccepts ==
  ASSUME TInv, PlaceInv, Accept
  PROVE  PlaceInv'
  <1> LinkInv /\ WaitInv /\ WinInv
    BY DEF PlaceInv
  <1>1. CASE conn = 0 /\ "srv" \in ready
    <2>1. /\ backlog # <<>> /\ shaking' = backlog[1] /\ shaking' \in 1..made /\ pc' = "shake"
          /\ backlog' \in Seq(Nat) /\ Len(backlog') = Len(backlog) - 1
          /\ \A i \in 1..Len(backlog') : i + 1 \in 1..Len(backlog) /\ backlog'[i] = backlog[i + 1]
          /\ UNCHANGED <<conn, links, made, win>>
      BY <1>1, Accepts DEF Accept
    <2>2. backlog \in Seq(Nat) /\ Len(backlog) \in Nat \ {0} /\ 1 \in 1..Len(backlog) /\ made \in Nat
      BY <2>1 DEF TInv
    <2>3. \A i \in 1..Len(backlog') : backlog'[i] # shaking'
      <3> SUFFICES ASSUME NEW i \in 1..Len(backlog'), backlog[i + 1] = backlog[1] PROVE FALSE
        BY <2>1
      <3>1. i + 1 \in 1..Len(backlog) /\ i + 1 # 1
        BY <2>1
      <3> QED
        BY <2>2, <3>1 DEF LinkInv
    <2>4. \A l \in 1..made : Waits(l)' => Waits(l)
      BY <2>1, <2>2 DEF Waits
    <2>5. \A i, j \in 1..Len(backlog') : backlog'[i] = backlog'[j] => i = j
      <3> SUFFICES ASSUME NEW i \in 1..Len(backlog'), NEW j \in 1..Len(backlog'),
                          backlog'[i] = backlog'[j]
                   PROVE  i = j
        OBVIOUS
      <3>1. i + 1 = j + 1
        BY <2>1 DEF LinkInv
      <3> QED
        BY <3>1
    <2>6. LinkInv'
      BY <1>1, <2>1, <2>2, <2>3, <2>5 DEF LinkInv, Backlog
    <2>7. WaitInv'
      BY <2>1, <2>4 DEF WaitInv
    <2>8. WinInv'
      BY <2>1, <2>4 DEF WinInv, WinOk
    <2> QED
      BY <2>6, <2>7, <2>8 DEF PlaceInv
  <1>2. CASE ~(conn = 0 /\ "srv" \in ready)
    BY <1>2, PlaceQuiet DEF Accept, PlaceInv, LinkInv
  <1> QED
    BY <1>1, <1>2

\* What the place of a link that is neither made nor left needs.
LEMMA PlaceKept ==
  ASSUME TInv, PlaceInv, links' \in [1..MaxLinks -> Links], UNCHANGED <<made, win>>,
         \A k \in 1..MaxLinks : links'[k].gone = links[k].gone,
         \A k \in 1..made : Waits(k)' => Waits(k) /\ links'[k] = links[k],
         \A k \in 1..MaxLinks : links'[k].asked = links[k].asked,
         \A k \in 1..MaxLinks : (k \in 1..made /\ links[k].asked) \/ links'[k].out = links[k].out
  PROVE  WaitInv' /\ WinInv'
  <1> LinkInv /\ WaitInv /\ WinInv
    BY DEF PlaceInv
  <1>1. WaitInv'
    BY DEF WaitInv
  <1>2. ASSUME NEW w \in Windows PROVE WinOk(w)'
    <2>1. WinOk(w)
      BY DEF WinInv
    <2>2. win[w].state # "off" => win[w].link \in 1..made /\ win[w].link \in 1..MaxLinks
      BY <2>1, Bounds DEF WinOk, LinkInv, TInv
    <2> QED
      BY <2>1, <2>2 DEF WinOk
  <1> QED
    BY <1>1, <1>2 DEF WinInv

\* Links are made within the bound.
LEMMA Made ==
  ASSUME TInv, LinkInv
  PROVE  made \in Nat /\ made <= MaxLinks /\ MaxLinks \in Nat /\ SendCap \in Nat \ {0, 1}
         /\ \A k \in 1..made : k \in 1..MaxLinks /\ k \in Nat \ {0}
  BY Bounds DEF TInv, LinkInv

\* The answer and the hello are on their way on an empty link.
LEMMA PlaceShaken ==
  ASSUME TInv, PlaceInv, ShakeOk
  PROVE  /\ PlaceInv' /\ shaking \in 1..made /\ shaking \in 1..MaxLinks /\ conn = 0
         /\ links'[shaking].out = <<Accepted, Hello>>
         /\ \A k \in 1..MaxLinks : k # shaking => links'[k] = links[k]
  <1> LinkInv /\ WaitInv /\ WinInv
    BY DEF PlaceInv
  <1>1. shaking # 0 /\ shaking \in 1..made /\ shaking \in 1..MaxLinks /\ conn = 0
    BY Made DEF ShakeOk, LinkInv
  <1> DEFINE o == <<Accepted, Hello>>
  <1>2. o \in Seq(Units) /\ Len(o) = 2
    BY UnitsMade
  <1>3. links' = Filled(links, shaking, o) /\ links \in [1..MaxLinks -> Links]
    BY DEF ShakeOk, Filled, TInv
  <1> HIDE DEF o
  <1>4. links' \in [1..MaxLinks -> Links]
    BY <1>2, <1>3, LinkFilled
  <1>5. ASSUME NEW k \in 1..MaxLinks
        PROVE  /\ links'[k].asked = links[k].asked /\ links'[k].gone = links[k].gone
               /\ links'[k].shut = links[k].shut
               /\ k = shaking => links'[k].out = o
               /\ k # shaking => links'[k] = links[k]
    BY <1>2, <1>3 DEF Filled, Links
  <1>6. links[shaking].asked /\ ~links[shaking].shut
    BY <1>1 DEF ShakeOk, WaitInv, Waits
  <1>7. conn' = shaking /\ shaking' = 0 /\ pc' = "client" /\ UNCHANGED <<ready, backlog, made, win>>
    BY DEF ShakeOk
  <1>8. LinkInv'
    <2>1. links'[shaking].asked /\ ~links'[shaking].shut
      BY <1>1, <1>5, <1>6
    <2>2. \A l \in 1..made : Len(links'[l].out) <= SendCap
      <3> SUFFICES ASSUME NEW l \in 1..made PROVE Len(links'[l].out) <= SendCap
        OBVIOUS
      <3>1. CASE l = shaking
        <4>1. links'[l].out = o /\ Len(o) = 2
          BY <1>1, <1>2, <1>5, <3>1
        <4> QED
          BY <4>1, Bounds
      <3>2. CASE l # shaking
        <4>1. links'[l] = links[l]
          BY <1>5, <3>2, Made
        <4> QED
          BY <4>1 DEF LinkInv
      <3> QED
        BY <3>1, <3>2
    <2>3. \A l \in (made + 1)..MaxLinks : links'[l].out = <<>>
      <3>1. \A l \in (made + 1)..MaxLinks : l \in 1..MaxLinks /\ l # shaking
        BY <1>1, Made
      <3> QED
        BY <1>5, <3>1 DEF LinkInv
    <2>4. \A i \in 1..Len(backlog) : backlog[i] \in 1..made /\ backlog[i] \notin {shaking, 0}
      BY Made DEF LinkInv
    <2> QED
      BY <1>1, <1>7, <2>1, <2>2, <2>3, <2>4 DEF LinkInv
  <1>9. \A k \in 1..made : Waits(k)' => Waits(k) /\ links'[k] = links[k]
    BY <1>1, <1>5, <1>7, Made DEF Waits, LinkInv
  <1>10. WaitInv' /\ WinInv'
    BY <1>1, <1>4, <1>5, <1>6, <1>7, <1>9, PlaceKept
  <1> QED
    BY <1>1, <1>5, <1>8, <1>10 DEF PlaceInv, o

\* A link that is closed stays as it was otherwise.
LEMMA PlaceClosed ==
  ASSUME TInv, PlaceInv, links' \in [1..MaxLinks -> Links], UNCHANGED <<made, win>>,
         \A k \in 1..MaxLinks : /\ links'[k].asked = links[k].asked
                                /\ links'[k].gone = links[k].gone
                                /\ links'[k].out = links[k].out,
         conn' \in {0, conn}, shaking' \in {0, shaking}, backlog' \in {<<>>, backlog},
         conn' # 0 => links'[conn] = links[conn],
         \A k \in 1..made : Waits(k)' => links'[k] = links[k],
         shaking' # 0 <=> pc' = "shake", pc' # "accept"
  PROVE  PlaceInv'
  <1> LinkInv /\ WaitInv /\ WinInv
    BY DEF PlaceInv
  <1>1. LinkInv'
    <2>1. conn' # 0 => conn' \in 1..made' /\ links'[conn'].asked /\ ~links'[conn'].shut
      BY DEF LinkInv
    <2>2. \A l \in 1..made : Len(links'[l].out) <= SendCap
      BY Made DEF LinkInv
    <2>3. \A l \in (made + 1)..MaxLinks : links'[l].out = <<>>
      <3>1. \A l \in (made + 1)..MaxLinks : l \in 1..MaxLinks
        BY Made
      <3> QED
        BY <3>1 DEF LinkInv
    <2>4. /\ \A i \in 1..Len(backlog') : backlog'[i] \in 1..made /\ backlog'[i] \notin {conn', shaking'}
          /\ \A i, j \in 1..Len(backlog') : backlog'[i] = backlog'[j] => i = j
          /\ Len(backlog') <= Backlog
      <3>1. CASE backlog' = backlog
        BY <3>1, Made DEF LinkInv
      <3>2. CASE backlog' = <<>>
        BY <3>2 DEF Backlog
      <3> QED
        BY <3>1, <3>2
    <2>5. shaking' # 0 => conn' = 0 /\ shaking' \in 1..made
      BY DEF LinkInv
    <2> QED
      BY <2>1, <2>2, <2>3, <2>4, <2>5 DEF LinkInv
  <1>2. \A k \in 1..made : Waits(k)' => Waits(k)
    BY Made DEF Waits
  <1>3. WaitInv' /\ WinInv'
    BY <1>2, PlaceKept
  <1> QED
    BY <1>1, <1>3 DEF PlaceInv

\* The steps of the bridge that close links.
LEMMA PlaceCloses ==
  ASSUME TInv, PlaceInv, ShakeFails \/ Client \/ (Exit /\ UNCHANGED <<made, win>>)
  PROVE  /\ PlaceInv' /\ conn' \in {0, conn} /\ UNCHANGED win
         /\ \A k \in 1..MaxLinks : links'[k].out = links[k].out
  <1> LinkInv /\ WaitInv /\ WinInv
    BY DEF PlaceInv
  <1>0. links \in [1..MaxLinks -> Links]
    BY DEF TInv
  <1>1. CASE ShakeFails
    <2>1. links' = Close(links, shaking) /\ shaking' = 0 /\ pc' = "client" /\ conn' = conn
          /\ UNCHANGED <<backlog, made, win>> /\ shaking # 0 /\ conn = 0
      BY <1>1 DEF ShakeFails, LinkInv
    <2>2. links' \in [1..MaxLinks -> Links]
      BY <1>0, <2>1, LinkClosed
    <2>3. ASSUME NEW k \in 1..MaxLinks
          PROVE  /\ links'[k].asked = links[k].asked /\ links'[k].gone = links[k].gone
                 /\ links'[k].out = links[k].out /\ (k # shaking => links'[k] = links[k])
      BY <1>0, <2>1, LinkClosed
    <2>4. \A k \in 1..made : Waits(k)' => links'[k] = links[k]
      BY <2>1, <2>3, Made DEF Waits, LinkInv
    <2>5. PlaceInv'
      BY <2>1, <2>2, <2>3, <2>4, PlaceClosed
    <2> QED
      BY <2>1, <2>3, <2>5
  <1>2. CASE Client /\ conn # 0 /\ "conn" \in ready
    <2>1. links' = Close(links, conn) /\ conn' = 0 /\ pc = "client" /\ pc' = "read"
          /\ UNCHANGED <<shaking, backlog, made, win>>
      BY <1>2 DEF Client
    <2>2. links' \in [1..MaxLinks -> Links]
      BY <1>0, <2>1, LinkClosed
    <2>3. ASSUME NEW k \in 1..MaxLinks
          PROVE  /\ links'[k].asked = links[k].asked /\ links'[k].gone = links[k].gone
                 /\ links'[k].out = links[k].out /\ (k # conn => links'[k] = links[k])
      BY <1>0, <2>1, LinkClosed
    <2>4. \A k \in 1..made : Waits(k)' => links'[k] = links[k]
      <3>1. shaking = 0
        BY <2>1 DEF LinkInv
      <3> QED
        BY <2>1, <2>3, <3>1, Made DEF Waits, LinkInv
    <2>5. shaking' # 0 <=> pc' = "shake"
      BY <2>1 DEF LinkInv
    <2>6. PlaceInv'
      BY <2>1, <2>2, <2>3, <2>4, <2>5, PlaceClosed
    <2> QED
      BY <2>1, <2>3, <2>6
  <1>3. CASE Client /\ ~(conn # 0 /\ "conn" \in ready)
    <2>1. UNCHANGED <<shaking, conn, backlog, links, made, win>> /\ pc = "client" /\ pc' = "read"
      BY <1>3 DEF Client
    <2>2. PlaceInv'
      BY <2>1, PlaceQuiet
    <2> QED
      BY <2>1, <2>2
  <1>4. CASE Exit /\ UNCHANGED <<made, win>>
    <2>1. /\ conn' = 0 /\ shaking' = 0 /\ backlog' = <<>> /\ pc' = "ended"
          /\ UNCHANGED <<made, win>>
      BY <1>4 DEF Exit
    <2>2. links' \in [1..MaxLinks -> Links]
      BY <1>4, LinksEnd
    <2>3. ASSUME NEW k \in 1..MaxLinks
          PROVE  /\ links'[k].asked = links[k].asked /\ links'[k].gone = links[k].gone
                 /\ links'[k].out = links[k].out
      BY <1>4, LinksEnd
    <2>4. \A k \in 1..made : ~Waits(k)'
      BY <2>1, Made DEF Waits
    <2>5. PlaceInv'
      BY <2>1, <2>2, <2>3, <2>4, PlaceClosed
    <2> QED
      BY <2>1, <2>3, <2>5
  <1> QED
    BY <1>1, <1>2, <1>3, <1>4

\* The steps of the bridge that send.
LEMMA PlaceSends ==
  ASSUME TInv, PlaceInv, SendOk \/ SendFails
  PROVE  /\ PlaceInv' /\ UNCHANGED win /\ lines # <<>> /\ conn \in 1..made
         /\ conn' \in {0, conn} /\ (conn' = conn => SendOk \/ links[conn].gone)
         /\ links' \in [1..MaxLinks -> Links]
         /\ \A k \in 1..MaxLinks : k # conn => links'[k] = links[k]
         /\ links[conn].gone \/ links'[conn].out = (IF SendOk THEN Frame ELSE SubSeq(Frame, 1, SendCap))
  <1> LinkInv /\ WaitInv /\ WinInv
    BY DEF PlaceInv
  <1>1. /\ links' \in [1..MaxLinks -> Links]
        /\ \A k \in 1..MaxLinks :
              /\ links'[k].asked = links[k].asked /\ links'[k].gone = links[k].gone
              /\ k # conn => links'[k] = links[k]
        /\ ~links[conn].gone => links'[conn].out = IF SendOk THEN Frame ELSE SubSeq(Frame, 1, SendCap)
        /\ SendOk => links'[conn].shut = links[conn].shut
        /\ Len(links'[conn].out) <= SendCap
    BY LinkSent
  <1>2. /\ lines # <<>> /\ conn # 0 /\ conn' \in {0, conn} /\ pc = "forward"
        /\ UNCHANGED <<pc, ready, shaking, backlog, made, win>>
        /\ conn' = conn => SendOk
    <2>1. CASE SendOk
      BY <2>1 DEF SendOk, Sending
    <2>2. CASE SendFails
      BY <2>2 DEF SendFails, Sending
    <2> QED
      BY <2>1, <2>2
  <1>3. conn \in 1..made /\ conn \in 1..MaxLinks /\ links[conn].asked /\ ~links[conn].shut /\ shaking = 0
    BY <1>2, Made DEF LinkInv
  <1>4. \A k \in 1..made : Waits(k)' => Waits(k) /\ links'[k] = links[k]
    BY <1>1, <1>2, <1>3, Made DEF Waits, LinkInv
  <1>5. \A k \in 1..MaxLinks : (k \in 1..made /\ links[k].asked) \/ links'[k].out = links[k].out
    BY <1>1, <1>3
  <1>6. WaitInv' /\ WinInv'
    BY <1>1, <1>2, <1>4, <1>5, PlaceKept
  <1>7. LinkInv'
    <2>1. conn' # 0 => conn' \in 1..made' /\ links'[conn'].asked /\ ~links'[conn'].shut
      BY <1>1, <1>2, <1>3
    <2>2. \A l \in 1..made : Len(links'[l].out) <= SendCap
      <3> SUFFICES ASSUME NEW l \in 1..made PROVE Len(links'[l].out) <= SendCap
        OBVIOUS
      <3>1. CASE l = conn
        BY <1>1, <3>1
      <3>2. CASE l # conn
        <4>1. links'[l] = links[l]
          BY <1>1, <3>2, Made
        <4> QED
          BY <4>1 DEF LinkInv
      <3> QED
        BY <3>1, <3>2
    <2>3. \A l \in (made + 1)..MaxLinks : links'[l].out = <<>>
      <3>1. \A l \in (made + 1)..MaxLinks : l \in 1..MaxLinks /\ l # conn
        BY <1>3, Made
      <3> QED
        BY <1>1, <3>1 DEF LinkInv
    <2>4. \A i \in 1..Len(backlog') : backlog'[i] \in 1..made /\ backlog'[i] \notin {conn', shaking'}
      BY <1>2, Made DEF LinkInv
    <2>5. shaking' = 0 /\ pc' = "forward"
      BY <1>2, <1>3
    <2> QED
      BY <1>2, <2>1, <2>2, <2>3, <2>4, <2>5 DEF LinkInv
  <1> QED
    BY <1>1, <1>2, <1>3, <1>6, <1>7 DEF PlaceInv

\* What the link of one window may come to.
LEMMA PlaceOfOne ==
  ASSUME TInv, PlaceInv, NEW w \in Windows, win[w].state # "off",
         links' \in [1..MaxLinks -> Links], win' \in [Windows -> Wins],
         UNCHANGED <<pc, ready, shaking, conn, backlog, made>>,
         \A k \in 1..MaxLinks : k # win[w].link => links'[k] = links[k],
         links'[win[w].link].asked \/ ~links[win[w].link].asked, links'[win[w].link].shut = links[win[w].link].shut,
         Len(links'[win[w].link].out) <= Len(links[win[w].link].out),
         \A v \in Windows : v # w => win'[v] = win[v],
         \/ win'[w] = Off
         \/ /\ win'[w].state \in {"waiting", "hello", "on", "dead"} /\ win'[w].link = win[w].link
            /\ links'[win[w].link].gone = links[win[w].link].gone
            /\ win'[w].state \in {"hello", "on"} => ~Waits(win[w].link)
            /\ win'[w].state \in {"waiting", "hello"} => win'[w].got = <<>>
            /\ win'[w].state = "waiting" => win'[w].raw = <<>>
  PROVE  PlaceInv'
  <1> PICK l : l = win[w].link
    OBVIOUS
  <1> LinkInv /\ WaitInv /\ WinInv
    BY DEF PlaceInv
  <1>1. l \in 1..made /\ l \in 1..MaxLinks
    BY Made DEF WinInv, WinOk
  <1>2. links'[l].out \in Seq(Units) /\ links[l].out \in Seq(Units)
    BY <1>1 DEF Links, TInv
  <1>3. LinkInv'
    <2>1. conn' # 0 => conn' \in 1..made' /\ links'[conn'].asked /\ ~links'[conn'].shut
      <3>1. CASE conn # 0 /\ conn = l
        BY <3>1 DEF LinkInv
      <3>2. CASE conn # 0 /\ conn # l
        BY <3>2, Made DEF LinkInv
      <3> QED
        BY <3>1, <3>2
    <2>2. \A k \in 1..made : Len(links'[k].out) <= SendCap
      <3> SUFFICES ASSUME NEW k \in 1..made PROVE Len(links'[k].out) <= SendCap
        OBVIOUS
      <3>1. CASE k = l
        <4>1. Len(links[l].out) <= SendCap
          BY <1>1 DEF LinkInv
        <4> QED
          BY <1>2, <3>1, <4>1, Bounds
      <3>2. CASE k # l
        <4>1. links'[k] = links[k]
          BY <3>2, Made
        <4> QED
          BY <4>1 DEF LinkInv
      <3> QED
        BY <3>1, <3>2
    <2>3. \A k \in (made + 1)..MaxLinks : links'[k].out = <<>>
      <3>1. \A k \in (made + 1)..MaxLinks : k \in 1..MaxLinks /\ k # l
        BY <1>1, Made
      <3> QED
        BY <3>1 DEF LinkInv
    <2> QED
      BY <2>1, <2>2, <2>3 DEF LinkInv
  <1>4. \A k \in 1..made : Waits(k)' <=> Waits(k)
    BY DEF Waits
  <1>5. WaitInv'
    <2> SUFFICES ASSUME NEW k \in 1..made, Waits(k) PROVE links'[k].out = <<>> /\ ~links'[k].shut
      BY <1>4 DEF WaitInv
    <2>1. links[k].out = <<>> /\ ~links[k].shut
      BY DEF WaitInv
    <2>2. CASE k # l
      BY <2>1, <2>2, Made
    <2>3. CASE k = l
      <3>1. Len(links'[l].out) = 0
        BY <1>2, <2>1, <2>3
      <3> QED
        BY <1>2, <2>1, <2>3, <3>1, EmptySeq
    <2> QED
      BY <2>2, <2>3
  <1>6. WinInv'
    <2> SUFFICES ASSUME NEW v \in Windows PROVE WinOk(v)'
      BY DEF WinInv
    <2>1. WinOk(v) /\ WinOk(w)
      BY DEF WinInv
    <2>2. CASE v # w
      <3>1. win'[v] = win[v] /\ (win[v].state # "off" => win[v].link # l)
        BY <2>1, <2>2 DEF WinOk
      <3>2. win[v].state # "off" => /\ win[v].link \in 1..made /\ links'[win[v].link] = links[win[v].link]
                                    /\ (Waits(win[v].link)' <=> Waits(win[v].link))
        BY <1>4, <2>1, <3>1, Made DEF WinOk
      <3>3. win'[w].state # "off" => win'[w].link = l
        BY DEF Off
      <3>4. \A u \in Windows \ {v} :
              win'[u].state # "off" /\ win'[v].state # "off" => win'[u].link # win'[v].link
        <4> SUFFICES ASSUME NEW u \in Windows \ {v}, win'[u].state # "off", win[v].state # "off"
                     PROVE  win'[u].link # win[v].link
          BY <3>1
        <4>1. CASE u = w
          BY <3>1, <3>3, <4>1
        <4>2. CASE u # w
          BY <2>1, <4>2 DEF WinOk
        <4> QED
          BY <4>1, <4>2
      <3> QED
        BY <2>1, <3>1, <3>2, <3>4 DEF WinOk
    <2>3. CASE v = w /\ win'[w] = Off
      BY <2>3 DEF WinOk, Off
    <2>4. CASE v = w /\ win'[w] # Off
      <3>1. \A u \in Windows \ {w} : win'[u].state # "off" => win'[u].link # l
        BY <2>1, <2>4 DEF WinOk
      <3>2. ~links'[l].gone
        BY <2>1, <2>4 DEF WinOk
      <3>3. win'[w].state \in {"hello", "on"} => ~Waits(l)'
        BY <1>1, <1>4, <2>4
      <3> QED
        BY <1>1, <2>4, <3>1, <3>2, <3>3 DEF WinOk
    <2> QED
      BY <2>2, <2>3, <2>4
  <1> QED
    BY <1>3, <1>5, <1>6 DEF PlaceInv

\* A new link waits in the backlog, and nobody else has it.
LEMMA PlaceConnects ==
  ASSUME TInv, PlaceInv, NEW w \in Windows, Connect(w)
  PROVE  /\ PlaceInv' /\ links' \in [1..MaxLinks -> Links] /\ win' \in [Windows -> Wins]
         /\ win'[w].state = "asking" /\ win'[w].got = <<>>
         /\ \A v \in Windows : v # w => win'[v] = win[v]
         /\ \A k \in 1..made : links'[k] = links[k]
  <1> LinkInv /\ WaitInv /\ WinInv
    BY DEF PlaceInv
  <1> DEFINE l == made + 1
             r == [state |-> "asking", link |-> l, raw |-> <<>>, got |-> <<>>]
  <1>1. /\ win[w].state = "off" /\ pc # "ended" /\ made < MaxLinks /\ Len(backlog) < Backlog
        /\ made' = l /\ backlog' = Append(backlog, l) /\ links' = [links EXCEPT ![l] = Fresh]
        /\ win' = [win EXCEPT ![w] = r]
        /\ UNCHANGED <<pc, ready, shaking, conn>>
    BY DEF Connect, bridge
  <1>2. r \in Wins /\ r.state = "asking" /\ r.link = l /\ r.raw = <<>> /\ r.got = <<>>
    BY EmptySeq DEF Wins, States, TInv
  <1>3. l \in 1..MaxLinks /\ l \in Nat /\ made \in Nat /\ l = made + 1
    BY <1>1, Made
  <1> HIDE DEF l, r
  <1>4. /\ links' \in [1..MaxLinks -> Links] /\ links'[l] = Fresh
        /\ \A k \in 1..MaxLinks : k # l => links'[k] = links[k]
    BY <1>1, <1>3, LinkMade DEF TInv
  <1>5. /\ win' \in [Windows -> Wins] /\ win'[w] = r
        /\ \A v \in Windows : v # w => win'[v] = win[v]
    BY <1>1, <1>2 DEF TInv
  <1>6. \A k \in 1..made : k # l /\ links'[k] = links[k]
    BY <1>3, <1>4, Made
  <1>7. backlog \in Seq(Nat) /\ Len(backlog) \in Nat
    BY DEF TInv
  <1>8. /\ Len(backlog') = Len(backlog) + 1 /\ backlog'[Len(backlog) + 1] = l
        /\ \A i \in 1..Len(backlog) : backlog'[i] = backlog[i]
        /\ \A i \in 1..Len(backlog') : i \in 1..Len(backlog) \/ i = Len(backlog) + 1
    BY <1>1, <1>3, <1>7, AppendProperties
  <1>9. Fresh.out = <<>> /\ ~Fresh.shut /\ ~Fresh.asked /\ ~Fresh.gone
    BY DEF Fresh
  <1>10. \A k \in 1..made : Waits(k)' => Waits(k)
    BY <1>1, <1>6, <1>8 DEF Waits
  <1>11. \A k \in 1..made' : k \in 1..made \/ k = l
    BY <1>1, <1>3
  <1>12. l \notin {conn, shaking}
    BY <1>3 DEF LinkInv
  <1>13. LinkInv'
    <2>1. conn' # 0 => conn' \in 1..made' /\ links'[conn'].asked /\ ~links'[conn'].shut
      BY <1>1, <1>3, <1>6 DEF LinkInv
    <2>2. \A k \in 1..made' : Len(links'[k].out) <= SendCap
      BY <1>4, <1>6, <1>9, <1>11, Bounds DEF LinkInv
    <2>3. \A k \in (made' + 1)..MaxLinks : links'[k].out = <<>>
      <3>1. \A k \in (made' + 1)..MaxLinks : k \in 1..MaxLinks /\ k # l /\ k \in (made + 1)..MaxLinks
        BY <1>1, <1>3, Bounds
      <3> QED
        BY <1>4, <3>1 DEF LinkInv
    <2>4. /\ \A i \in 1..Len(backlog') : backlog'[i] \in 1..made' /\ backlog'[i] \notin {conn', shaking'}
          /\ Len(backlog') <= Backlog
      <3>1. \A i \in 1..Len(backlog) : backlog'[i] \in 1..made' /\ backlog'[i] \notin {conn', shaking'}
        BY <1>1, <1>3, <1>8 DEF LinkInv
      <3>2. l \in 1..made'
        BY <1>1, <1>3
      <3> QED
        BY <1>1, <1>7, <1>8, <1>12, <3>1, <3>2 DEF Backlog
    <2>5. \A i, j \in 1..Len(backlog') : backlog'[i] = backlog'[j] => i = j
      <3>1. \A i \in 1..Len(backlog) : backlog'[i] # l /\ backlog'[i] = backlog[i]
        BY <1>6, <1>8 DEF LinkInv
      <3> QED
        BY <1>8, <3>1 DEF LinkInv
    <2>6. shaking' # 0 => conn' = 0 /\ shaking' \in 1..made'
      BY <1>1, <1>3 DEF LinkInv
    <2>7. pc' = "accept" /\ "srv" \in ready' => backlog' # <<>>
      BY <1>7, <1>8
    <2>8. made' <= MaxLinks
      BY <1>1, <1>3
    <2> QED
      BY <1>1, <2>1, <2>2, <2>3, <2>4, <2>5, <2>6, <2>7, <2>8 DEF LinkInv
  <1>14. WaitInv'
    BY <1>4, <1>6, <1>9, <1>10, <1>11 DEF WaitInv
  <1>15. WinInv'
    <2> SUFFICES ASSUME NEW v \in Windows PROVE WinOk(v)'
      BY DEF WinInv
    <2>1. \A u \in Windows : win[u].state # "off" =>
             /\ win[u].link \in 1..made /\ win[u].link # l
             /\ links'[win[u].link] = links[win[u].link]
             /\ \A k \in 1..made : k = win[u].link => (Waits(k)' => Waits(k))
      BY <1>6, <1>10 DEF WinInv, WinOk
    <2>2. CASE v # w
      <3>1. win'[v] = win[v] /\ WinOk(v)
        BY <1>5, <2>2 DEF WinInv
      <3>2. win[v].state # "off" => win[v].link \in 1..made'
        BY <1>1, <1>3, <2>1
      <3>3. \A u \in Windows \ {v} :
              win'[u].state # "off" /\ win'[v].state # "off" => win'[u].link # win'[v].link
        <4> SUFFICES ASSUME NEW u \in Windows \ {v}, win'[u].state # "off", win[v].state # "off"
                     PROVE  win'[u].link # win[v].link
          BY <3>1
        <4>1. CASE u = w
          BY <1>2, <1>5, <2>1, <4>1
        <4>2. CASE u # w
          BY <1>5, <3>1, <4>2 DEF WinOk
        <4> QED
          BY <4>1, <4>2
      <3>4. win[v].state # "off" => (Waits(win[v].link)' => Waits(win[v].link))
        BY <1>10, <2>1, <3>1
      <3> QED
        BY <2>1, <3>1, <3>2, <3>3, <3>4 DEF WinOk
    <2>3. CASE v = w
      <3>1. l \in 1..made'
        BY <1>1, <1>3
      <3>2. \A u \in Windows \ {w} : win'[u].state # "off" => win'[u].link # l
        BY <1>5, <2>1
      <3> QED
        BY <1>2, <1>4, <1>5, <1>9, <2>3, <3>1, <3>2 DEF WinOk
    <2> QED
      BY <2>2, <2>3
  <1> QED
    BY <1>2, <1>4, <1>5, <1>6, <1>13, <1>14, <1>15 DEF PlaceInv

\* The window whose request arrives was waiting on a link of its own.
LEMMA PlaceAsks ==
  ASSUME TInv, PlaceInv, NEW w \in Windows, Ask(w)
  PROVE  /\ PlaceInv' /\ win[w].state = "asking" /\ win'[w].state = "waiting"
         /\ win'[w].link = win[w].link /\ win'[w].got = win[w].got
         /\ \A v \in Windows : v # w => win'[v] = win[v]
         /\ \A k \in 1..MaxLinks : links'[k].out = links[k].out
  <1> LinkInv /\ WaitInv /\ WinInv
    BY DEF PlaceInv
  <1> DEFINE l == win[w].link
  <1>1. /\ win[w].state = "asking" /\ links' = [links EXCEPT ![l].asked = TRUE]
        /\ win' = [win EXCEPT ![w].state = "waiting"]
        /\ UNCHANGED <<pc, ready, shaking, conn, backlog, made>>
    BY DEF Ask, bridge
  <1> HIDE DEF l
  <1>2. links \in [1..MaxLinks -> Links] /\ win \in [Windows -> Wins]
    BY DEF TInv
  <1>3. l \in 1..made /\ l \in 1..MaxLinks /\ win[w].raw = <<>> /\ win[w].got = <<>>
    BY <1>1, Made DEF l, WinInv, WinOk
  <1>4. links' \in [1..MaxLinks -> Links]
    BY <1>1, <1>2, LinkAsked
  <1>5. ASSUME NEW k \in 1..MaxLinks
        PROVE  /\ links'[k].gone = links[k].gone /\ links'[k].shut = links[k].shut
               /\ links'[k].out = links[k].out
               /\ k = l => links'[k].asked
               /\ k # l => links'[k] = links[k]
    BY <1>1, <1>2 DEF Links
  <1>6. /\ win' \in [Windows -> Wins]
        /\ win'[w].state = "waiting" /\ win'[w].link = win[w].link
        /\ win'[w].raw = win[w].raw /\ win'[w].got = win[w].got
    BY <1>1, <1>2 DEF Wins, States
  <1>7. \A v \in Windows : v # w => win'[v] = win[v]
    BY <1>1, <1>2
  <1>8. /\ Len(links'[l].out) <= Len(links[l].out) /\ links'[l].gone = links[l].gone
        /\ links'[l].asked /\ links'[l].shut = links[l].shut
    <2>1. links[l].out \in Seq(Units)
      BY <1>2, <1>3 DEF Links
    <2> QED
      BY <1>3, <1>5, <2>1
  <1>9. PlaceInv'
    <2>1. \A k \in 1..MaxLinks : k # win[w].link => links'[k] = links[k]
      BY <1>5 DEF l
    <2>2. /\ links'[win[w].link].asked \/ ~links[win[w].link].asked
          /\ links'[win[w].link].shut = links[win[w].link].shut
          /\ Len(links'[win[w].link].out) <= Len(links[win[w].link].out)
          /\ links'[win[w].link].gone = links[win[w].link].gone
      BY <1>8 DEF l
    <2>3. win'[w].got = <<>> /\ win'[w].raw = <<>>
      BY <1>3, <1>6
    <2> QED
      BY <1>1, <1>4, <1>6, <1>7, <2>1, <2>2, <2>3, PlaceOfOne
  <1> QED
    BY <1>1, <1>5, <1>6, <1>7, <1>9

\* A window that leaves gives its link up.
LEMMA PlaceLeaves ==
  ASSUME TInv, PlaceInv, NEW w \in Windows, Leave(w)
  PROVE  /\ PlaceInv' /\ win'[w] = Off /\ win[w].state # "off"
         /\ \A v \in Windows : v # w => win'[v] = win[v]
         /\ \A k \in 1..MaxLinks : k # win[w].link => links'[k] = links[k]
  <1> LinkInv /\ WaitInv /\ WinInv
    BY DEF PlaceInv
  <1> DEFINE l == win[w].link
  <1>1. /\ win[w].state # "off" /\ links' = [links EXCEPT ![l] = [@ EXCEPT !.gone = TRUE, !.out = <<>>]]
        /\ win' = [win EXCEPT ![w] = Off]
        /\ UNCHANGED <<pc, ready, shaking, conn, backlog, made>>
    BY DEF Leave, bridge
  <1> HIDE DEF l
  <1>2. links \in [1..MaxLinks -> Links] /\ win \in [Windows -> Wins]
    BY DEF TInv
  <1>3. l \in 1..made /\ l \in 1..MaxLinks
    BY <1>1, Made DEF l, WinInv, WinOk
  <1>4. /\ links' \in [1..MaxLinks -> Links]
        /\ \A k \in 1..MaxLinks :
               /\ links'[k].asked = links[k].asked /\ links'[k].shut = links[k].shut
               /\ k = l => links'[k].out = <<>>
               /\ k # l => links'[k] = links[k]
    <2>1. links' \in [1..MaxLinks -> Links]
      BY <1>1, <1>2, LinkLeft
    <2>2. ASSUME NEW k \in 1..MaxLinks
          PROVE  /\ links'[k].asked = links[k].asked /\ links'[k].shut = links[k].shut
                 /\ k = l => links'[k].out = <<>>
                 /\ k # l => links'[k] = links[k]
      BY <1>1, <1>2 DEF Links
    <2> QED
      BY <2>1, <2>2
  <1>5. /\ win' \in [Windows -> Wins] /\ win'[w] = Off
        /\ \A v \in Windows : v # w => win'[v] = win[v]
    BY <1>1, WinOff
  <1>6. /\ Len(links'[l].out) <= Len(links[l].out)
        /\ links'[l].asked = links[l].asked /\ links'[l].shut = links[l].shut
    <2>1. links[l].out \in Seq(Units) /\ links'[l].out = <<>>
      BY <1>2, <1>3, <1>4 DEF Links
    <2> QED
      BY <1>3, <1>4, <2>1
  <1>7. PlaceInv'
    <2>1. \A k \in 1..MaxLinks : k # win[w].link => links'[k] = links[k]
      BY <1>4 DEF l
    <2>2. /\ links'[win[w].link].asked \/ ~links[win[w].link].asked
          /\ links'[win[w].link].shut = links[win[w].link].shut
          /\ Len(links'[win[w].link].out) <= Len(links[win[w].link].out)
      BY <1>6 DEF l
    <2> QED
      BY <1>1, <1>4, <1>5, <2>1, <2>2, PlaceOfOne
  <1> QED
    BY <1>1, <1>4, <1>5, <1>7 DEF l

\* A window that receives takes from its own link.
LEMMA PlaceReceives ==
  ASSUME TInv, PlaceInv, NEW w \in Windows, win[w].state \in {"waiting", "hello", "on"},
         NEW n \in Nat, NEW fin \in BOOLEAN, Receive(w, n, fin), win' \in [Windows -> Wins],
         \A v \in Windows : v # w => win'[v] = win[v],
         \/ win'[w] = Off
         \/ /\ win'[w].state \in {"hello", "on", "dead"} /\ win'[w].link = win[w].link
            /\ win[w].state = "waiting" => n > 0
            /\ win'[w].state = "hello" => win'[w].got = <<>>
  PROVE  PlaceInv'
  <1> LinkInv /\ WaitInv /\ WinInv
    BY DEF PlaceInv
  <1> DEFINE l == win[w].link
             o == links[l].out
  <1>1. /\ links' \in [1..MaxLinks -> Links]
        /\ \A k \in 1..MaxLinks :
              /\ links'[k].asked = links[k].asked /\ links'[k].gone = links[k].gone
              /\ links'[k].shut = links[k].shut
              /\ k # l => links'[k] = links[k]
        /\ l \in 1..made /\ l \in 1..MaxLinks
        /\ o \in Seq(Units) /\ n <= Len(o)
        /\ SubSeq(o, n + 1, Len(o)) \in Seq(Units)
        /\ links'[l].out = SubSeq(o, n + 1, Len(o))
    BY LinkRead DEF LinkOf
  <1>2. Len(links'[l].out) <= Len(links[l].out)
    <2>1. Len(SubSeq(o, n + 1, Len(o))) = IF n + 1 <= Len(o) THEN Len(o) - (n + 1) + 1 ELSE 0
      BY <1>1, SubSeqProperties
    <2>2. Len(o) \in Nat
      BY <1>1
    <2> HIDE DEF o
    <2>3. Len(SubSeq(o, n + 1, Len(o))) <= Len(o)
      BY <2>1, <2>2
    <2> QED
      BY <1>1, <2>3 DEF o
  <1>3. UNCHANGED <<pc, ready, shaking, conn, backlog, made>>
    BY DEF Receive, bridge
  <1>4. win'[w] # Off => ~Waits(l)
    <2>1. CASE win[w].state = "waiting"
      <3>1. win'[w] # Off => Len(o) # 0
        BY <1>1, <2>1
      <3>2. win'[w] # Off => o # <<>>
        BY <1>1, <3>1
      <3> QED
        BY <1>1, <3>2 DEF WaitInv
    <2>2. CASE win[w].state \in {"hello", "on"}
      BY <2>2 DEF WinInv, WinOk
    <2> QED
      BY <2>1, <2>2
  <1>5. links'[l].asked = links[l].asked /\ links'[l].gone = links[l].gone /\ links'[l].shut = links[l].shut
    BY <1>1
  <1> HIDE DEF l
  <1>6. l = win[w].link
    BY DEF l
  <1> QED
    BY <1>1, <1>2, <1>3, <1>4, <1>5, <1>6, PlaceOfOne

-----------------------------------------------------------------------------
(* What is on its way to a window *)

\* Three texts in a row.
LEMMA Assoc ==
  ASSUME NEW a \in Seq(Units), NEW b \in Seq(Units), NEW c \in Seq(Units)
  PROVE  (a \o b) \o c = a \o (b \o c)
  BY ConcatAssociative

\* What a full socket takes of a frame.
LEMMA Cut ==
  ASSUME NEW s \in Seq(Units), NEW n \in Nat, n <= Len(s)
  PROVE  /\ SubSeq(s, 1, n) \in Seq(Units) /\ Len(SubSeq(s, 1, n)) = n
         /\ \A i \in 1..n : SubSeq(s, 1, n)[i] = s[i]
  <1>1. \A i \in 1..n : s[i] \in Units
    OBVIOUS
  <1>2. /\ SubSeq(s, 1, n) \in Seq(Units)
        /\ Len(SubSeq(s, 1, n)) = IF 1 <= n THEN n - 1 + 1 ELSE 0
        /\ \A i \in 1..(n - 1 + 1) : SubSeq(s, 1, n)[i] = s[1 + i - 1]
    BY <1>1, SubSeqProperties
  <1> QED
    BY <1>2

\* What is read and what is left.
LEMMA Split ==
  ASSUME NEW o \in Seq(Units), NEW n \in Nat, n <= Len(o)
  PROVE  /\ SubSeq(o, 1, n) \in Seq(Units) /\ SubSeq(o, n + 1, Len(o)) \in Seq(Units)
         /\ SubSeq(o, 1, n) \o SubSeq(o, n + 1, Len(o)) = o
  <1> DEFINE a == SubSeq(o, 1, n)
             b == SubSeq(o, n + 1, Len(o))
  <1>1. /\ a \in Seq(Units) /\ Len(a) = n /\ \A i \in 1..n : a[i] = o[i]
        /\ b \in Seq(Units) /\ Len(b) = Len(o) - n /\ \A i \in 1..(Len(o) - n) : b[i] = o[n + i]
        /\ Len(o) \in Nat
    BY SubSeqProperties
  <1> HIDE DEF a, b
  <1>2. /\ a \o b \in Seq(Units) /\ Len(a \o b) = Len(a) + Len(b)
        /\ \A i \in 1..Len(a) : (a \o b)[i] = a[i]
        /\ \A i \in 1..Len(b) : (a \o b)[Len(a) + i] = b[i]
    BY <1>1, Concats
  <1>3. Len(a \o b) = Len(o)
    BY <1>1, <1>2
  <1>4. ASSUME NEW i \in 1..Len(o) PROVE (a \o b)[i] = o[i]
    <2>1. CASE i <= n
      BY <1>1, <1>2, <2>1
    <2>2. CASE ~(i <= n)
      <3> DEFINE j == i - n
      <3>1. j \in 1..(Len(o) - n) /\ i = n + j
        BY <1>1, <2>2
      <3> HIDE DEF j
      <3> QED
        BY <1>1, <1>2, <3>1
    <2> QED
      BY <2>1, <2>2
  <1>5. a \o b = o
    BY <1>2, <1>3, <1>4, SeqEqual
  <1> QED
    BY <1>1, <1>5 DEF a, b

Prefix(s, t) == Len(s) <= Len(t) /\ \A i \in 1..Len(s) : s[i] = t[i]

\* A prefix stays one behind what comes before it.
LEMMA PrefixBehind ==
  ASSUME NEW a \in Seq(Units), NEW b \in Seq(Units), NEW f \in Seq(Units), Prefix(f, b)
  PROVE  a \o f \in Seq(Units) /\ a \o b \in Seq(Units) /\ Prefix(a \o f, a \o b)
  <1>1. /\ a \o f \in Seq(Units) /\ Len(a \o f) = Len(a) + Len(f)
        /\ Len(a) \in Nat /\ Len(f) \in Nat
        /\ \A i \in 1..Len(a) : (a \o f)[i] = a[i]
        /\ \A i \in 1..Len(f) : (a \o f)[Len(a) + i] = f[i]
    BY Concats
  <1>2. /\ a \o b \in Seq(Units) /\ Len(a \o b) = Len(a) + Len(b) /\ Len(b) \in Nat
        /\ \A i \in 1..Len(a) : (a \o b)[i] = a[i]
        /\ \A i \in 1..Len(b) : (a \o b)[Len(a) + i] = b[i]
    BY Concats
  <1>0. Len(f) <= Len(b) /\ \A i \in 1..Len(f) : f[i] = b[i]
    BY DEF Prefix
  <1>3. ASSUME NEW i \in 1..Len(a \o f) PROVE (a \o f)[i] = (a \o b)[i]
    <2>1. CASE i \in 1..Len(a)
      BY <1>1, <1>2, <2>1
    <2>2. CASE i \notin 1..Len(a)
      <3> DEFINE j == i - Len(a)
      <3>1. j \in 1..Len(f) /\ i = Len(a) + j /\ j \in 1..Len(b)
        BY <1>0, <1>1, <1>2, <2>2
      <3> HIDE DEF j
      <3> QED
        BY <1>0, <1>1, <1>2, <3>1
    <2> QED
      BY <2>1, <2>2
  <1> QED
    BY <1>0, <1>1, <1>2, <1>3 DEF Prefix

\* A window that reads has a link of its own, and a text.
LEMMA TextMade ==
  ASSUME TInv, PlaceInv, NEW w \in Windows, Reads(w)
  PROVE  /\ win[w].link \in 1..made /\ win[w].link \in 1..MaxLinks /\ win[w].state # "off"
         /\ ~links[win[w].link].gone
         /\ links[win[w].link].out \in Seq(Units) /\ win[w].raw \in Seq(Units)
         /\ win[w].got \in Seq(Lines) /\ Seen(w) \in Units /\ <<Seen(w)>> \in Seq(Units)
         /\ Text(w) \in Seq(Units)
  <1> LinkInv /\ WaitInv /\ WinInv
    BY DEF PlaceInv
  <1>1. win[w].state # "off" /\ win[w].link \in 1..made /\ ~links[win[w].link].gone
    BY DEF Reads, WinInv, WinOk
  <1>2. win[w].link \in 1..MaxLinks
    BY <1>1, Made
  <1>3. links[win[w].link].out \in Seq(Units)
    BY <1>2 DEF TInv, Links
  <1>4. win[w].raw \in Seq(Units) /\ win[w].got \in Seq(Lines)
    BY DEF TInv, Wins
  <1>5. Seen(w) \in Units
    <2>1. CASE win[w].got = <<>>
      BY <2>1, UnitsMade DEF Seen
    <2>2. CASE win[w].got # <<>>
      <3>1. win[w].got[Len(win[w].got)] \in Lines
        BY <1>4, <2>2
      <3> QED
        BY <2>2, <3>1, UnitsMade DEF Seen
    <2> QED
      BY <2>1, <2>2
  <1>6. <<Seen(w)>> \in Seq(Units)
    BY <1>5
  <1>7. Text(w) \in Seq(Units)
    <2>1. win[w].raw \o links[win[w].link].out \in Seq(Units)
      BY <1>3, <1>4, Concats
    <2>2. <<Seen(w)>> \o (win[w].raw \o links[win[w].link].out) \in Seq(Units)
      BY <1>6, <2>1, Concats
    <2> QED
      BY <1>3, <2>2 DEF Text
  <1> QED
    BY <1>1, <1>2, <1>3, <1>4, <1>5, <1>6, <1>7

\* A window a step leaves alone, and the link it has.
LEMMA TextKept ==
  ASSUME TInv, PlaceInv, NEW w \in Windows, TextOk(w), win'[w] = win[w],
         Reads(w) => links'[win[w].link].out = links[win[w].link].out,
         Reads(w) /\ win[w].link = conn' => win[w].link = conn /\ Sent' = Sent
  PROVE  TextOk(w)'
  <1>1. Reads(w)' <=> Reads(w)
    BY DEF Reads
  <1>2. CASE Reads(w)
    <2>1. Text(w)' = Text(w)
      BY <1>2 DEF Text, Seen
    <2>2. Chain(Text(w)) /\ (win[w].state = "waiting" /\ Text(w) # <<>> => Text(w)[1] = Accepted)
      BY <1>2 DEF TextOk
    <2>3. win'[w].link = conn' => UpToDate(Text(w))'
      BY <1>2, <2>1 DEF TextOk, UpToDate
    <2> QED
      BY <2>1, <2>2, <2>3 DEF TextOk
  <1>3. CASE ~Reads(w)
    BY <1>1, <1>3 DEF TextOk
  <1> QED
    BY <1>2, <1>3

\* The rows of a window are as they were.
LEMMA GotKept ==
  ASSUME NEW w \in Windows, GotOk(w), win'[w].got = win[w].got,
         win'[w].state = "on" => win[w].state = "on" \/ win[w].got = <<>>
  PROVE  GotOk(w)'
  <1>1. CASE win[w].got = <<>>
    BY <1>1 DEF GotOk
  <1>2. CASE win[w].got # <<>>
    BY <1>2 DEF GotOk
  <1> QED
    BY <1>1, <1>2

\* One more line that is none.
LEMMA SilentGrows ==
  ASSUME NEW m \in Nat, NEW s \in Nat, Silent(m, s + 1), s + 1 \in Noise
  PROVE  Silent(m, (s + 1) + 1)
  <1>1. ASSUME NEW k \in (m + 1)..(((s + 1) + 1) - 1) PROVE k \in Noise
    <2>1. k = s + 1 \/ k \in (m + 1)..((s + 1) - 1)
      OBVIOUS
    <2> QED
      BY <2>1 DEF Silent
  <1> QED
    BY <1>1 DEF Silent

\* A line is passed over: it is no object, or nobody is served.
LEMMA TextSkips ==
  ASSUME TInv, TapInv, LinesInv, PlaceInv, TextInv, Skip
  PROVE  TextInv'
  <1>1. /\ SentOne /\ UNCHANGED <<conn, links, win>>
    BY LineTaken DEF Skip, tap
  <1>2. conn = 0 \/ Sent + 1 \in Noise
    <2>1. Head(lines) = lines[1]
      BY <1>1 DEF TInv, SentOne
    <2> QED
      BY <1>1, <2>1 DEF Skip, SentOne
  <1>3. Sent \in Nat /\ Sent' = Sent + 1
    BY <1>1 DEF SentOne, LinesInv
  <1>4. ASSUME NEW w \in Windows PROVE TextOk(w)'
    <2>1. TextOk(w) /\ win'[w] = win[w]
      BY <1>1 DEF TextInv
    <2>2. CASE Reads(w) /\ win[w].link = conn
      <3>1. conn \in 1..made /\ Text(w) \in Seq(Units) /\ LinkInv
        BY <2>2, TextMade DEF PlaceInv
      <3>2. Sent + 1 \in Noise
        BY <1>2, <3>1, Made
      <3>3. UpToDate(Text(w)) /\ Chain(Text(w))
        BY <2>1, <2>2 DEF TextOk
      <3> DEFINE u == Text(w)[Len(Text(w))]
      <3>4. u \in Units /\ u.line \in Nat
        BY <3>1, <3>3, UnitsMade DEF UpToDate
      <3>5. Silent(u.line, Sent + 1) => Silent(u.line, (Sent + 1) + 1)
        BY <1>3, <3>2, <3>4, SilentGrows
      <3>6. Text(w)' = Text(w)
        BY <1>1, <2>1 DEF Text, Seen
      <3>7. UpToDate(Text(w))'
        <4>1. u.line <= Sent /\ u.half = 2 /\ (u = Hello \/ Silent(u.line, Sent + 1)) /\ Text(w) # <<>>
          BY <3>3 DEF UpToDate
        <4>2. u.line <= Sent'
          BY <1>3, <3>4, <4>1
        <4> QED
          BY <1>3, <3>5, <3>6, <4>1, <4>2 DEF UpToDate
      <3> QED
        BY <2>1, <2>2, <3>3, <3>6, <3>7 DEF TextOk
    <2>3. CASE ~(Reads(w) /\ win[w].link = conn)
      <3>1. Reads(w) => links'[win[w].link].out = links[win[w].link].out
        BY <1>1
      <3>2. Reads(w) /\ win[w].link = conn' => win[w].link = conn /\ Sent' = Sent
        BY <1>1, <2>3
      <3> QED
        BY <2>1, <3>1, <3>2, TextKept
    <2> QED
      BY <2>2, <2>3
  <1> QED
    BY <1>4 DEF TextInv

\* The answer and the hello make a chain.
LEMMA FirstChain == Chain(<<Accepted, Hello>>)
  <1> DEFINE t == <<Accepted, Hello>>
  <1>1. Len(t) = 2 /\ t[1] = Accepted /\ t[2] = Hello
    OBVIOUS
  <1> HIDE DEF t
  <1>2. t[1].half = 1 /\ t[2].half = 2 /\ t[1].line = 0 /\ t[2].line = 0
    BY <1>1, UnitsMade
  <1>3. \A i \in 1..Len(t) : i = 1 \/ i = 2
    BY <1>1
  <1>4. \A i, j \in 1..Len(t), d \in Nat :
          /\ j = i + 2 * d => t[j].half = t[i].half
          /\ j = i + 2 * d + 1 => t[j].half # t[i].half
    <2> SUFFICES ASSUME NEW i \in 1..Len(t), NEW j \in 1..Len(t), NEW d \in Nat
                 PROVE  /\ j = i + 2 * d => t[j].half = t[i].half
                        /\ j = i + 2 * d + 1 => t[j].half # t[i].half
      OBVIOUS
    <2>1. j = i + 2 * d => i = j
      BY <1>1
    <2>2. j = i + 2 * d + 1 => i = 1 /\ j = 2
      BY <1>1
    <2> QED
      BY <1>2, <2>1, <2>2
  <1>5. \A i, j \in 1..Len(t) : i < j =>
          IF t[i].half = 1 /\ j = i + 1 THEN t[j].line = t[i].line ELSE t[i].line < t[j].line
    <2> SUFFICES ASSUME NEW i \in 1..Len(t), NEW j \in 1..Len(t), i < j
                 PROVE  t[i].half = 1 /\ j = i + 1 /\ t[j].line = t[i].line
      OBVIOUS
    <2>1. i = 1 /\ j = 2
      BY <1>3
    <2> QED
      BY <1>2, <2>1
  <1>6. \A i \in 1..(Len(t) - 1) :
          t[i].half = 2 /\ t[i] # Hello => Silent(t[i].line, t[i+1].line)
    <2>1. \A i \in 1..(Len(t) - 1) : i = 1
      BY <1>1
    <2> QED
      BY <1>2, <2>1
  <1>7. \A i \in 1..Len(t) : t[i] \in {Accepted, Hello} \/ t[i].line \in Objects
    BY <1>1, <1>3
  <1>8. Chain(t)
    BY <1>4, <1>5, <1>6, <1>7 DEF Chain
  <1> QED
    BY <1>8 DEF t

\* The answer and the hello.
LEMMA TextShaken ==
  ASSUME TInv, LinesInv, PlaceInv, TextInv, ShakeOk, Sent' = Sent
  PROVE  TextInv'
  <1>1. /\ shaking \in 1..made /\ shaking \in 1..MaxLinks /\ conn = 0
        /\ links'[shaking].out = <<Accepted, Hello>>
        /\ \A k \in 1..MaxLinks : k # shaking => links'[k] = links[k]
        /\ conn' = shaking /\ win' = win
    BY PlaceShaken DEF ShakeOk
  <1>2. ASSUME NEW w \in Windows PROVE TextOk(w)'
    <2>1. TextOk(w) /\ win'[w] = win[w]
      BY <1>1 DEF TextInv
    <2>2. CASE Reads(w) /\ win[w].link = shaking
      <3>1. Waits(win[w].link)
        BY <2>2 DEF Waits
      <3>2. win[w].state = "waiting"
        BY <2>2, <3>1 DEF Reads, PlaceInv, WinInv, WinOk
      <3>3. Text(w)' = <<Accepted, Hello>>
        BY <1>1, <2>1, <2>2, <3>2 DEF Text
      <3> DEFINE t == <<Accepted, Hello>>
      <3>4. t # <<>> /\ t[1] = Accepted /\ t[Len(t)] = Hello
        OBVIOUS
      <3>5. Hello.half = 2 /\ Hello.line <= Sent'
        BY UnitsMade DEF LinesInv
      <3>6. UpToDate(Text(w))'
        BY <3>3, <3>4, <3>5 DEF UpToDate
      <3> QED
        BY <3>3, <3>4, <3>6, FirstChain DEF TextOk
    <2>3. CASE ~(Reads(w) /\ win[w].link = shaking)
      <3>1. Reads(w) => links'[win[w].link].out = links[win[w].link].out
        BY <1>1, <2>3, TextMade
      <3>2. Reads(w) /\ win[w].link = conn' => FALSE
        BY <1>1, <2>3
      <3> QED
        BY <2>1, <3>1, <3>2, TextKept
    <2> QED
      BY <2>2, <2>3
  <1> QED
    BY <1>2 DEF TextInv

\* More on its way to a window is more at the end of what it is going to see.
LEMMA TextFilled ==
  ASSUME TInv, PlaceInv, NEW w \in Windows, Reads(w), win'[w] = win[w],
         NEW r \in Seq(Units), NEW f \in Seq(Units), links'[win[w].link].out = f,
         Prefix(f, links[win[w].link].out \o r)
  PROVE  /\ Text(w)' \in Seq(Units) /\ Prefix(Text(w)', Text(w) \o r)
         /\ f = links[win[w].link].out \o r => Text(w)' = Text(w) \o r
  <1> DEFINE to == links[win[w].link].out
             ts == <<Seen(w)>>
             tr == win[w].raw
  <1>1. to \in Seq(Units) /\ ts \in Seq(Units) /\ tr \in Seq(Units) /\ Seen(w)' = Seen(w)
    BY TextMade DEF Seen
  <1>2. /\ Text(w) = IF win[w].state = "waiting" THEN to ELSE ts \o (tr \o to)
        /\ Text(w)' = IF win[w].state = "waiting" THEN f ELSE ts \o (tr \o f)
    BY <1>1 DEF Text
  <1>3. Prefix(f, to \o r)
    OBVIOUS
  <1> HIDE DEF to, ts, tr
  <1>4. to \o r \in Seq(Units) /\ tr \o to \in Seq(Units)
    BY <1>1, Concats
  <1>5. CASE win[w].state = "waiting"
    BY <1>2, <1>3, <1>5 DEF to
  <1>6. CASE win[w].state # "waiting"
    <2>1. tr \o f \in Seq(Units) /\ tr \o (to \o r) \in Seq(Units) /\ Prefix(tr \o f, tr \o (to \o r))
      BY <1>1, <1>3, <1>4, PrefixBehind
    <2>2. ts \o (tr \o f) \in Seq(Units) /\ Prefix(ts \o (tr \o f), ts \o (tr \o (to \o r)))
      BY <1>1, <2>1, PrefixBehind
    <2>3. (tr \o to) \o r = tr \o (to \o r)
      <3>1. \A x \in Seq(Units) : (tr \o to) \o x = tr \o (to \o x)
        BY <1>1, Assoc
      <3> QED
        BY <3>1
    <2>4. (ts \o (tr \o to)) \o r = ts \o ((tr \o to) \o r)
      <3>1. \A x \in Seq(Units) : (ts \o (tr \o to)) \o x = ts \o ((tr \o to) \o x)
        BY <1>1, <1>4, Assoc
      <3> QED
        BY <3>1
    <2>5. Text(w) \o r = ts \o (tr \o (to \o r)) /\ Text(w)' = ts \o (tr \o f)
      BY <1>2, <1>6, <2>3, <2>4
    <2> QED
      BY <2>2, <2>5 DEF to
  <1> QED
    BY <1>5, <1>6

\* The next object goes to the window served, or part of it does and the window is dropped.
LEMMA TextSends ==
  ASSUME TInv, TapInv, LinesInv, PlaceInv, TextInv, SendOk \/ SendFails
  PROVE  TextInv'
  <1> DEFINE n == Sent + 1
  <1>1. SentOne /\ UNCHANGED win /\ Sending
    BY LineTaken DEF SendOk, SendFails, Sending, tap
  <1>2. /\ lines # <<>> /\ conn \in 1..made /\ conn \in 1..MaxLinks
        /\ conn' \in {0, conn} /\ (conn' = conn => SendOk \/ links[conn].gone)
        /\ links' \in [1..MaxLinks -> Links]
        /\ \A k \in 1..MaxLinks : k # conn => links'[k] = links[k]
        /\ links[conn].gone \/ links'[conn].out = (IF SendOk THEN Frame ELSE SubSeq(Frame, 1, SendCap))
    BY PlaceSends, Made DEF PlaceInv
  <1>3. Sent \in Nat /\ Sent' = n /\ lines[1] = n /\ Head(lines) = n /\ n \in Nat
    <2>1. Head(lines) = lines[1]
      BY <1>2 DEF TInv
    <2> QED
      BY <1>1, <2>1 DEF SentOne, LinesInv
  <1>4. n \in Objects
    <2>1. n \notin Noise
      BY <1>1, <1>3 DEF Sending
    <2>2. ReadUp \in Nat /\ ReadUp <= 2 * MaxLines
      <3>1. Come \in Seq(Units)
        BY Concats DEF Come, TInv
      <3> QED
        BY <3>1, Bounds DEF TapInv, ReadUp, TInv
    <2>3. ReadUp \div 2 \in Nat /\ ReadUp \div 2 <= MaxLines
      BY <2>2, Halves, Bounds
    <2>4. Len(lines) \in Nat \ {0} /\ Sent = (ReadUp \div 2) - Len(lines)
      BY <1>2 DEF TInv, Sent
    <2>5. n <= MaxLines
      <3> HIDE DEF n
      <3>1. Sent + Len(lines) = ReadUp \div 2
        BY <2>3, <2>4, <1>3
      <3> QED
        BY <2>3, <2>4, <3>1, <1>3, Bounds DEF n
    <2> QED
      BY <1>3, <2>1, <2>5, Bounds DEF Objects
  <1> HIDE DEF n
  <1>5. ASSUME NEW w \in Windows PROVE TextOk(w)'
    <2>1. TextOk(w) /\ win'[w] = win[w]
      BY <1>1 DEF TextInv
    <2>2. CASE Reads(w) /\ win[w].link = conn
      <3> DEFINE o == links[conn].out
                 t == Text(w)
      <3>1. /\ ~links[conn].gone /\ o \in Seq(Units) /\ t \in Seq(Units)
        BY <2>2, TextMade
      <3>2. Chain(t) /\ UpToDate(t) /\ (win[w].state = "waiting" /\ t # <<>> => t[1] = Accepted)
        BY <2>1, <2>2 DEF TextOk
      <3>3. Row(n) \in Seq(Units) /\ Len(Row(n)) = 2 /\ Row(n)[2] = Unit(n, 2)
        BY <1>4, LinesMade, RowMade
      <3>4. Frame = o \o Row(n) /\ Frame \in Seq(Units) /\ Len(Frame) = Len(o) + 2
        <4>1. Frame = o \o Row(n)
          BY <1>3 DEF Frame
        <4> HIDE DEF o
        <4>2. o \o Row(n) \in Seq(Units) /\ Len(o \o Row(n)) = Len(o) + Len(Row(n))
          BY <3>1, <3>3, Concats, Zenon
        <4> QED
          BY <3>3, <4>1, <4>2
      <3> HIDE DEF o, t
      <3>5. t # <<>> /\ t[Len(t)].half = 2 /\ t[Len(t)].line < n /\ t[Len(t)].line \in Nat
            /\ (t[Len(t)] = Hello \/ Silent(t[Len(t)].line, n)) /\ Len(t) \in Nat \ {0}
        <4>1. t # <<>> /\ t[Len(t)].half = 2 /\ t[Len(t)].line <= Sent
              /\ (t[Len(t)] = Hello \/ Silent(t[Len(t)].line, n))
          BY <3>2 DEF UpToDate, n
        <4>2. Len(t) \in Nat \ {0} /\ t[Len(t)] \in Units
          BY <3>1, <4>1
        <4> QED
          BY <1>3, <4>1, <4>2, UnitsMade DEF n
      <3>6. Chain(t \o Row(n))
        BY <1>3, <1>4, <3>1, <3>2, <3>5, ChainGrows
      <3>7. /\ t \o Row(n) \in Seq(Units) /\ Len(t \o Row(n)) = Len(t) + 2
            /\ \A i \in 1..Len(t) : (t \o Row(n))[i] = t[i]
            /\ (t \o Row(n))[Len(t) + 2] = Unit(n, 2)
        <4>1. /\ t \o Row(n) \in Seq(Units) /\ Len(t \o Row(n)) = Len(t) + Len(Row(n))
              /\ \A i \in 1..Len(t) : (t \o Row(n))[i] = t[i]
              /\ \A i \in 1..Len(Row(n)) : (t \o Row(n))[Len(t) + i] = Row(n)[i]
          BY <3>1, <3>3, Concats, Zenon
        <4> QED
          BY <3>3, <4>1
      <3>8. CASE SendOk
        <4>1. links'[conn].out = Frame
          BY <1>2, <3>1, <3>8
        <4>2. Text(w)' = t \o Row(n)
          <5>1. links'[win[w].link].out = o \o Row(n) /\ o \o Row(n) \in Seq(Units)
            BY <2>2, <3>4, <4>1
          <5>2. o = links[win[w].link].out
            BY <2>2 DEF o
          <5>3. Prefix(o \o Row(n), links[win[w].link].out \o Row(n))
            BY <5>1, <5>2 DEF Prefix
          <5>4. Text(w)' = Text(w) \o Row(n)
            BY <2>1, <2>2, <3>3, <5>1, <5>2, <5>3, TextFilled
          <5> QED
            BY <5>4 DEF t
        <4>3. UpToDate(Text(w))'
          <5> DEFINE u == Text(w)'
          <5>1. Len(u) = Len(t) + 2 /\ u[Len(u)] = Unit(n, 2) /\ u # <<>>
            BY <3>5, <3>7, <4>2
          <5>2. u[Len(u)].half = 2 /\ u[Len(u)].line = n
            BY <1>3, <5>1, UnitsMade
          <5>3. (n + 1)..((n + 1) - 1) = {}
            BY <1>3
          <5>4. Silent(n, n + 1)
            BY <5>3 DEF Silent
          <5> QED
            BY <1>3, <5>1, <5>2, <5>4 DEF UpToDate
        <4>4. (t \o Row(n))[1] = t[1]
          BY <3>5, <3>7
        <4>5. Reads(w)' /\ win'[w] = win[w]
          BY <2>1, <2>2 DEF Reads
        <4>6. win[w].state = "waiting" => Text(w)'[1] = Accepted
          BY <3>2, <3>5, <4>2, <4>4
        <4>8. Chain(Text(w)')
          BY <3>6, <4>2
        <4>7. Chain(Text(w))'
          BY <4>8 DEF Chain, Silent
        <4> QED
          BY <4>3, <4>5, <4>6, <4>7, Zenon DEF TextOk
      <3>9. CASE ~SendOk
        <4> DEFINE f == SubSeq(Frame, 1, SendCap)
        <4>1. links'[conn].out = f /\ SendFails /\ ~Fits
          BY <1>1, <1>2, <3>1, <3>9 DEF SendFails, SendOk
        <4>2. f \in Seq(Units) /\ Prefix(f, Frame)
          <5>1. SendCap <= Len(Frame) /\ Len(Frame) \in Nat
            BY <3>1, <3>4, <4>1, Bounds DEF Fits, o
          <5>3. SendCap \in Nat
            BY Bounds
          <5>2. /\ f \in Seq(Units) /\ Len(f) = SendCap /\ \A i \in 1..SendCap : f[i] = Frame[i]
            BY <3>4, <5>1, <5>3, Cut
          <5> QED
            BY <5>1, <5>2 DEF Prefix
        <4> HIDE DEF f
        <4>3. Text(w)' \in Seq(Units) /\ Prefix(Text(w)', t \o Row(n))
          <5>1. Frame = links[win[w].link].out \o Row(n) /\ links'[win[w].link].out = f
            BY <2>2, <3>4, <4>1 DEF o
          <5>2. Text(w)' \in Seq(Units) /\ Prefix(Text(w)', Text(w) \o Row(n))
            BY <2>1, <2>2, <3>3, <4>2, <5>1, TextFilled
          <5> QED
            BY <5>2 DEF t
        <4>4. Chain(Text(w)')
          <5> DEFINE u == t \o Row(n)
                     v == Text(w)'
          <5>1. u \in Seq(Units) /\ v \in Seq(Units) /\ Chain(u) /\ 0 \in Nat
            BY <3>6, <3>7, <4>3
          <5>2. 0 + Len(v) <= Len(u) /\ \A i \in 1..Len(v) : v[i] = u[0 + i]
            BY <4>3, <5>1 DEF Prefix
          <5> HIDE DEF u, v
          <5>3. Chain(v)
            BY <5>1, <5>2, ChainPart, Zenon
          <5> QED
            BY <5>3 DEF v
        <4>5. Chain(Text(w))'
          BY <4>4 DEF Chain, Silent
        <4>6. Text(w)' # <<>> => Text(w)'[1] = t[1]
          <5> DEFINE v == Text(w)'
          <5>1. v # <<>> => 1 \in 1..Len(v)
            BY <4>3
          <5>2. (t \o Row(n))[1] = t[1]
            BY <3>5, <3>7
          <5> QED
            BY <4>3, <5>1, <5>2 DEF Prefix
        <4>7. win'[w].link # conn'
          BY <1>2, <2>1, <2>2, <3>1, <3>9
        <4> QED
          BY <2>1, <3>2, <3>5, <4>5, <4>6, <4>7, Zenon DEF TextOk
      <3> QED
        BY <3>8, <3>9
    <2>3. CASE ~(Reads(w) /\ win[w].link = conn)
      <3>1. Reads(w) => links'[win[w].link].out = links[win[w].link].out
        BY <1>2, <2>3, TextMade
      <3>2. Reads(w) /\ win[w].link = conn' => FALSE
        <4>1. Reads(w) => win[w].link \in 1..made /\ win[w].link # conn
          BY <2>3, TextMade
        <4> QED
          BY <1>2, <4>1
      <3> QED
        BY <2>1, <3>1, <3>2, TextKept
    <2> QED
      BY <2>2, <2>3
  <1> QED
    BY <1>5 DEF TextInv

\* The other windows do not notice what one does.
LEMMA TextOthers ==
  ASSUME TInv, PlaceInv, TextInv, NEW w \in Windows, Sent' = Sent, conn' = conn,
         \A v \in Windows : v # w => win'[v] = win[v],
         \A k \in 1..made :
            win[w].state = "off" \/ k # win[w].link => links'[k].out = links[k].out,
         TextOk(w)'
  PROVE  TextInv'
  <1>1. ASSUME NEW v \in Windows, v # w PROVE TextOk(v)'
    <2>1. TextOk(v) /\ win'[v] = win[v]
      BY <1>1 DEF TextInv
    <2>2. Reads(v) => links'[win[v].link].out = links[win[v].link].out
      <3> SUFFICES ASSUME Reads(v) PROVE links'[win[v].link].out = links[win[v].link].out
        OBVIOUS
      <3>1. win[v].link \in 1..made /\ win[v].state # "off"
        BY TextMade
      <3>2. win[w].state = "off" \/ win[v].link # win[w].link
        BY <1>1, <3>1 DEF PlaceInv, WinInv, WinOk
      <3> QED
        BY <3>1, <3>2
    <2>3. Reads(v) /\ win[v].link = conn' => win[v].link = conn /\ Sent' = Sent
      OBVIOUS
    <2> QED
      BY <2>1, <2>2, <2>3, TextKept
  <1> QED
    BY <1>1 DEF TextInv

\* So does nothing.
LEMMA EmptyChain == Chain(<<>>)
  <1> DEFINE t == <<>>
  <1>1. Len(t) = 0 /\ 1..Len(t) = {} /\ 1..(Len(t) - 1) = {}
    OBVIOUS
  <1> HIDE DEF t
  <1>2. Chain(t)
    BY <1>1 DEF Chain
  <1> QED
    BY <1>2 DEF t

\* A window connects, asks, or leaves.
LEMMA TextTurns ==
  ASSUME TInv, PlaceInv, TextInv, Sent' = Sent, NEW w \in Windows, Connect(w) \/ Ask(w) \/ Leave(w)
  PROVE  TextInv'
  <1>1. /\ conn' = conn
        /\ \A v \in Windows : v # w => win'[v] = win[v]
        /\ \A k \in 1..made :
              win[w].state = "off" \/ k # win[w].link => links'[k].out = links[k].out
    <2>1. conn' = conn
      BY DEF Connect, Ask, Leave, bridge
    <2>2. CASE Connect(w)
      BY <2>1, <2>2, PlaceConnects
    <2>3. CASE Ask(w)
      BY <2>1, <2>3, PlaceAsks, Made DEF PlaceInv
    <2>4. CASE Leave(w)
      BY <2>1, <2>4, PlaceLeaves, Made DEF PlaceInv
    <2> QED
      BY <2>2, <2>3, <2>4
  <1>2. TextOk(w)'
    <2>1. CASE Connect(w) \/ Leave(w)
      <3>1. win'[w].state \in {"asking", "off"}
        BY <2>1, PlaceConnects, PlaceLeaves DEF Off
      <3> QED
        BY <3>1 DEF TextOk, Reads
    <2>2. CASE Ask(w)
      <3>1. /\ win[w].state = "asking" /\ win'[w].state = "waiting" /\ win'[w].link = win[w].link
            /\ \A k \in 1..MaxLinks : links'[k].out = links[k].out
        BY <2>2, PlaceAsks
      <3>2. /\ win[w].link \in 1..made /\ win[w].link \in 1..MaxLinks
            /\ links[win[w].link].out = <<>> /\ ~links[win[w].link].asked
        BY <3>1, Made DEF PlaceInv, WinInv, WinOk
      <3>3. Text(w)' = <<>>
        BY <3>1, <3>2 DEF Text
      <3>4. win'[w].link # conn'
        <4>1. conn # 0 => links[conn].asked
          BY DEF PlaceInv, LinkInv
        <4>2. win[w].link # 0
          BY <3>2, Made DEF PlaceInv
        <4> QED
          BY <1>1, <3>1, <3>2, <4>1, <4>2
      <3>5. Chain(Text(w)')
        BY <3>3, EmptyChain
      <3>6. Chain(Text(w))'
        BY <3>5 DEF Chain, Silent
      <3> QED
        BY <3>3, <3>4, <3>6 DEF TextOk
    <2> QED
      BY <2>1, <2>2
  <1> QED
    BY <1>1, <1>2, TextOthers

\* A window has read on: what it is going to see is the end of what it was.
LEMMA TextReadOn ==
  ASSUME TInv, PlaceInv, TextInv, Sent' = Sent, NEW w \in Windows, conn' = conn, Reads(w),
         win'[w].link = win[w].link, win'[w].state \in {"hello", "on"},
         NEW k \in Nat, Text(w)' \in Seq(Units), Text(w)' # <<>>,
         k + Len(Text(w)') = Len(Text(w)),
         \A i \in 1..Len(Text(w)') : Text(w)'[i] = Text(w)[k + i]
  PROVE  TextOk(w)'
  <1> DEFINE t == Text(w)
             s == Text(w)'
  <1>1. t \in Seq(Units) /\ Chain(t) /\ (win[w].link = conn => UpToDate(t))
    BY TextMade DEF TextInv, TextOk
  <1>2. /\ s \in Seq(Units) /\ s # <<>> /\ k + Len(s) = Len(t) /\ k + Len(s) <= Len(t)
        /\ \A i \in 1..Len(s) : s[i] = t[k + i]
    BY <1>1
  <1> HIDE DEF s, t
  <1>3. Chain(s)
    BY <1>1, <1>2, ChainPart, Zenon
  <1>4. s[Len(s)] = t[Len(t)] /\ Len(s) \in 1..Len(s)
    <2>1. Len(s) \in 1..Len(s)
      BY <1>2
    <2> QED
      BY <1>2, <2>1
  <1>5. Chain(Text(w))'
    BY <1>3 DEF Chain, Silent, s
  <1>6. win'[w].link = conn' => UpToDate(Text(w))'
    <2> SUFFICES ASSUME win[w].link = conn PROVE UpToDate(Text(w))'
      OBVIOUS
    <2>1. UpToDate(t)
      BY <1>1
    <2>2. s # <<>> /\ s[Len(s)] = t[Len(t)]
      BY <1>2, <1>4
    <2> HIDE DEF s, t
    <2>3. s = Text(w)'
      BY DEF s
    <2> QED
      BY <2>1, <2>2, <2>3 DEF UpToDate, Silent
  <1> QED
    BY <1>5, <1>6 DEF TextOk

\* The first unit of what is there, the rest that arrived, and what did not.
LEMMA FirstTaken ==
  ASSUME NEW o \in Seq(Units), NEW n \in 1..Len(o)
  PROVE  <<o[1]>> \o (SubSeq(o, 2, n) \o SubSeq(o, n + 1, Len(o))) = o
  <1> DEFINE f == <<o[1]>>
             a == SubSeq(o, 2, n)
             b == SubSeq(o, n + 1, Len(o))
  <1>1. n \in Nat /\ n <= Len(o) /\ 1 \in 1..Len(o) /\ n \in 1..Len(o)
    OBVIOUS
  <1>2. SubSeq(o, 1, n) = f \o a
    BY <1>1, SubSeqRecursiveFirst
  <1>3. f \in Seq(Units) /\ a \in Seq(Units) /\ b \in Seq(Units) /\ SubSeq(o, 1, n) \o b = o
    BY <1>1, Split, SubSeqProperties
  <1> HIDE DEF f, a, b
  <1>4. (f \o a) \o b = f \o (a \o b)
    BY <1>3, Assoc
  <1>5. f \o (a \o b) = o
    BY <1>2, <1>3, <1>4
  <1> QED
    BY <1>5 DEF f, a, b

\* The answer to the handshake is the first thing a window sees.
LEMMA TextAnswered ==
  ASSUME TInv, PlaceInv, TextInv, Sent' = Sent, NEW w \in Windows, NEW n \in Nat, Answered(w, n)
  PROVE  TextInv'
  <1> LinkInv /\ WinInv
    BY DEF PlaceInv
  <1> DEFINE o == LinkOf(w).out
  <1>1. /\ win[w].state = "waiting" /\ win'[w].state = "hello" /\ win'[w].link = win[w].link
        /\ win'[w].raw = SubSeq(o, 2, n) /\ n > 0 /\ Receive(w, n, FALSE) /\ Reads(w)
        /\ \A v \in Windows : v # w => win'[v] = win[v]
    BY AnsweredWin DEF Answered, Reads
  <1>2. /\ o \in Seq(Units) /\ n <= Len(o)
        /\ links'[win[w].link].out = SubSeq(o, n + 1, Len(o))
        /\ \A k \in 1..made : k # win[w].link => links'[k] = links[k]
    BY <1>1, LinkRead, Made
  <1>3. conn' = conn
    BY <1>1 DEF Receive, bridge
  <1>4. Text(w) = o
    BY <1>1 DEF Text, LinkOf
  <1>5. o[1] = Accepted /\ n \in 1..Len(o) /\ o # <<>>
    <2>1. o # <<>> /\ n \in 1..Len(o)
      BY <1>1, <1>2
    <2> QED
      BY <1>1, <1>4, <2>1 DEF TextInv, TextOk
  <1>6. Text(w)' = <<Accepted>> \o (SubSeq(o, 2, n) \o SubSeq(o, n + 1, Len(o)))
    BY <1>1, <1>2 DEF Text, Seen
  <1>7. Text(w)' = o
    <2>1. <<o[1]>> \o (SubSeq(o, 2, n) \o SubSeq(o, n + 1, Len(o))) = o
      BY <1>2, <1>5, FirstTaken
    <2> QED
      BY <1>5, <1>6, <2>1
  <1>8. TextOk(w)'
    <2>1. /\ 0 \in Nat /\ Text(w)' \in Seq(Units) /\ Text(w)' # <<>>
          /\ 0 + Len(Text(w)') = Len(Text(w))
          /\ \A i \in 1..Len(Text(w)') : Text(w)'[i] = Text(w)[0 + i]
      BY <1>2, <1>4, <1>5, <1>7
    <2>2. win'[w].state \in {"hello", "on"}
      BY <1>1
    <2> QED
      BY <1>1, <1>3, <2>1, <2>2, TextReadOn
  <1> QED
    BY <1>1, <1>2, <1>3, <1>8, TextOthers

\* What a window holds: what it had received, and what arrives and what does not.
LEMMA RawGrows ==
  ASSUME TInv, PlaceInv, NEW w \in Windows, win[w].state # "off",
         NEW n \in Nat, Receive(w, n, FALSE)
  PROVE  /\ Raw(w, n, FALSE) \in Seq(Units) /\ links'[win[w].link].out \in Seq(Units)
         /\ win[w].raw \o links[win[w].link].out \in Seq(Units)
         /\ Raw(w, n, FALSE) \o links'[win[w].link].out = win[w].raw \o links[win[w].link].out
  <1> LinkInv /\ WinInv
    BY DEF PlaceInv
  <1> DEFINE o == LinkOf(w).out
             a == SubSeq(o, 1, n)
             b == SubSeq(o, n + 1, Len(o))
             raw == win[w].raw
  <1>1. /\ o \in Seq(Units) /\ n <= Len(o) /\ links'[win[w].link].out = b
        /\ a \in Seq(Units) /\ b \in Seq(Units)
    BY LinkRead
  <1>2. Raw(w, n, FALSE) = raw \o a /\ raw \in Seq(Units) /\ Raw(w, n, FALSE) \in Seq(Units)
    BY RawIs
  <1>3. a \o b = o
    BY <1>1, Split
  <1>4. LinkOf(w).out = links[win[w].link].out
    BY DEF LinkOf
  <1> HIDE DEF a, b, raw
  <1>5. (raw \o a) \o b = raw \o (a \o b)
    <2>1. raw \in Seq(Units) /\ a \in Seq(Units) /\ b \in Seq(Units)
      BY <1>1, <1>2
    <2> QED
      BY <2>1, Assoc
  <1>6. raw \o o \in Seq(Units)
    BY <1>1, <1>2, Concats
  <1> QED
    BY <1>1, <1>2, <1>3, <1>4, <1>5, <1>6 DEF raw

\* One unit in front of a text.
LEMMA InFront ==
  ASSUME NEW u \in Units, NEW s \in Seq(Units)
  PROVE  /\ <<u>> \o s \in Seq(Units) /\ <<u>> \o s # <<>> /\ Len(<<u>> \o s) = 1 + Len(s)
         /\ (<<u>> \o s)[1] = u
         /\ \A i \in 1..Len(s) : (<<u>> \o s)[1 + i] = s[i]
  <1> DEFINE f == <<u>>
  <1>1. f \in Seq(Units) /\ Len(f) = 1 /\ f[1] = u
    OBVIOUS
  <1> HIDE DEF f
  <1>2. /\ f \o s \in Seq(Units) /\ Len(f \o s) = Len(f) + Len(s) /\ Len(s) \in Nat
        /\ \A i \in 1..Len(f) : (f \o s)[i] = f[i]
        /\ \A i \in 1..Len(s) : (f \o s)[Len(f) + i] = s[i]
    BY <1>1, Concats
  <1>3. f \o s # <<>>
    BY <1>1, <1>2
  <1>4. (f \o s)[1] = u
    BY <1>1, <1>2
  <1> QED
    BY <1>1, <1>2, <1>3, <1>4 DEF f

\* The hello is the second.
LEMMA TextGreeted ==
  ASSUME TInv, PlaceInv, TextInv, Sent' = Sent,
         NEW w \in Windows, NEW n \in Nat, NEW fin \in BOOLEAN, Greeted(w, n, fin)
  PROVE  TextInv'
  <1> LinkInv /\ WinInv
    BY DEF PlaceInv
  <1> DEFINE raw == Raw(w, n, fin)
             b == links'[win[w].link].out
             y == win[w].raw \o links[win[w].link].out
  <1>1. /\ win[w].state = "hello" /\ Receive(w, n, fin) /\ Reads(w)
        /\ \A v \in Windows : v # w => win'[v] = win[v]
        /\ \/ /\ raw # <<>> /\ Head(raw) = Hello
              /\ win'[w].state = IF fin THEN "dead" ELSE "on"
              /\ ~fin => win'[w].raw = Tail(raw)
              /\ win'[w].link = win[w].link /\ win'[w].got = win[w].got
           \/ fin /\ win'[w] = Off
           \/ /\ ~fin /\ win'[w].state = "hello" /\ win'[w].raw = raw
              /\ win'[w].link = win[w].link /\ win'[w].got = win[w].got
    BY GreetedWin DEF Reads
  <1>2. \A k \in 1..made : k # win[w].link => links'[k] = links[k]
    BY <1>1, LinkRead, Made
  <1>3. conn' = conn
    BY <1>1 DEF Receive, bridge
  <1>4. Text(w) = <<Accepted>> \o y /\ win[w].got = <<>>
    BY <1>1 DEF Text, Seen, WinInv, WinOk
  <1>5. CASE fin
    <2>1. win'[w].state \in {"off", "dead"}
      <3>1. win'[w] = Off => win'[w].state = "off"
        BY DEF Off
      <3>2. win'[w].state = "dead" \/ win'[w] = Off
        BY <1>1, <1>5
      <3> QED
        BY <3>1, <3>2
    <2>2. TextOk(w)'
      BY <2>1 DEF TextOk, Reads
    <2> QED
      BY <1>1, <1>2, <1>3, <2>2, TextOthers
  <1>6. CASE ~fin
    <2>1. /\ raw \in Seq(Units) /\ b \in Seq(Units) /\ y \in Seq(Units) /\ raw \o b = y
      BY <1>1, <1>6, RawGrows
    <2> HIDE DEF raw, b, y
    <2>2. TextOk(w)'
      <3>1. CASE win'[w].state = "hello"
        <4>1. win'[w].raw = raw
          BY <1>1, <1>6, <3>1
        <4>2. Text(w)' = <<Accepted>> \o (raw \o b)
          BY <1>1, <1>6, <3>1, <4>1 DEF Text, Seen, b
        <4>3. Text(w)' = Text(w)
          BY <1>4, <2>1, <4>2
        <4>4. Text(w) \in Seq(Units) /\ Text(w) # <<>>
          BY <1>4, <2>1, InFront, UnitsMade
        <4>5. /\ 0 \in Nat /\ Text(w)' \in Seq(Units) /\ Text(w)' # <<>>
              /\ 0 + Len(Text(w)') = Len(Text(w))
              /\ \A i \in 1..Len(Text(w)') : Text(w)'[i] = Text(w)[0 + i]
          BY <4>3, <4>4
        <4>6. win'[w].link = win[w].link /\ win'[w].state \in {"hello", "on"}
          BY <1>1, <1>6, <3>1 DEF Off
        <4> QED
          BY <1>1, <1>3, <4>5, <4>6, TextReadOn
      <3>2. CASE win'[w].state # "hello"
        <4>1. /\ raw # <<>> /\ Head(raw) = Hello /\ win'[w].state = "on" /\ win'[w].raw = Tail(raw)
              /\ win'[w].link = win[w].link /\ win'[w].got = <<>>
          BY <1>1, <1>4, <1>6, <3>2
        <4> DEFINE f == <<Hello>>
                   r == Tail(raw)
        <4>2. Text(w)' = f \o (r \o b)
          BY <4>1 DEF Text, Seen, b
        <4>3. f \in Seq(Units) /\ r \in Seq(Units) /\ raw = f \o r
          <5>1. f \in Seq(Units)
            BY UnitsMade
          <5>2. /\ r \in Seq(Units) /\ Len(r) = Len(raw) - 1
                /\ \A i \in 1..Len(r) : r[i] = raw[i + 1]
            BY <2>1, <4>1, HeadTailProperties
          <5>3. raw[1] = Hello /\ Len(raw) \in Nat \ {0}
            BY <2>1, <4>1
          <5> HIDE DEF r
          <5>4. /\ f \o r \in Seq(Units) /\ Len(f \o r) = 1 + Len(r) /\ (f \o r)[1] = Hello
                /\ \A i \in 1..Len(r) : (f \o r)[1 + i] = r[i]
            BY <5>2, InFront, UnitsMade
          <5>5. ASSUME NEW i \in 1..Len(raw) PROVE raw[i] = (f \o r)[i]
            <6>1. CASE i = 1
              BY <5>3, <5>4, <6>1
            <6>2. CASE i # 1
              <7> DEFINE j == i - 1
              <7>1. j \in 1..Len(r) /\ i = 1 + j /\ i = j + 1
                BY <5>2, <5>3, <6>2
              <7> HIDE DEF j
              <7> QED
                BY <5>2, <5>4, <7>1
            <6> QED
              BY <6>1, <6>2
          <5>6. Len(raw) = Len(f \o r)
            BY <5>2, <5>3, <5>4
          <5>7. raw = f \o r
            BY <2>1, <5>4, <5>5, <5>6, SeqEqual
          <5> QED
            BY <5>1, <5>2, <5>7 DEF r
        <4> HIDE DEF f, r
        <4>4. (f \o r) \o b = f \o (r \o b)
          <5>1. f \in Seq(Units) /\ r \in Seq(Units) /\ b \in Seq(Units)
            BY <2>1, <4>3
          <5> QED
            BY <5>1, Assoc
        <4>5. Text(w)' = y
          BY <2>1, <4>2, <4>3, <4>4
        <4>6. Len(Text(w)) = 1 + Len(y) /\ \A i \in 1..Len(y) : Text(w)[1 + i] = y[i]
          BY <1>4, <2>1, InFront, UnitsMade
        <4>7. y # <<>>
          <5>1. r \o b \in Seq(Units)
            BY <2>1, <4>3, Concats
          <5> QED
            BY <4>2, <4>5, <5>1, InFront, UnitsMade DEF f
        <4>8. /\ 1 \in Nat /\ Text(w)' \in Seq(Units) /\ Text(w)' # <<>>
              /\ 1 + Len(Text(w)') = Len(Text(w))
              /\ \A i \in 1..Len(Text(w)') : Text(w)'[i] = Text(w)[1 + i]
          BY <2>1, <4>5, <4>6, <4>7
        <4>9. win'[w].link = win[w].link /\ win'[w].state \in {"hello", "on"}
          BY <4>1
        <4> QED
          BY <1>1, <1>3, <4>8, <4>9, TextReadOn
      <3> QED
        BY <3>1, <3>2
    <2> QED
      BY <1>1, <1>2, <1>3, <2>2, TextOthers
  <1> QED
    BY <1>5, <1>6

\* The last row, or the hello, was whole.
LEMMA SeenHalf ==
  ASSUME TInv, NEW w \in Windows, win[w].state = "on"
  PROVE  Seen(w).half = 2
  <1>1. win[w].got \in Seq(Lines)
    BY DEF TInv, Wins
  <1>2. CASE win[w].got = <<>>
    BY <1>2, UnitsMade DEF Seen
  <1>3. CASE win[w].got # <<>>
    <2>1. win[w].got[Len(win[w].got)] \in Lines
      BY <1>1, <1>3
    <2>2. Seen(w) = Unit(win[w].got[Len(win[w].got)], 2)
      BY <1>3 DEF Seen
    <2> QED
      BY <2>1, <2>2, LinesMade, UnitsMade
  <1> QED
    BY <1>2, <1>3

\* What follows on the last row, and on the hello, starts a frame.
LEMMA PollAligned ==
  ASSUME TInv, PlaceInv, TextInv, NEW w \in Windows, win[w].state = "on",
         NEW n \in Nat, Receive(w, n, FALSE)
  PROVE  /\ Text(w) \in Seq(Units) /\ Chain(Text(w)) /\ Text(w) # <<>> /\ Text(w)[1] = Seen(w)
         /\ Seen(w) \in Units /\ Seen(w).half = 2
         /\ Aligned(Raw(w, n, FALSE)) /\ 1 + Len(Raw(w, n, FALSE)) <= Len(Text(w))
         /\ \A i \in 1..Len(Raw(w, n, FALSE)) : Raw(w, n, FALSE)[i] = Text(w)[1 + i]
  <1> DEFINE raw == Raw(w, n, FALSE)
             b == links'[win[w].link].out
             y == win[w].raw \o links[win[w].link].out
             t == Text(w)
  <1>1. Reads(w) /\ win[w].state # "off"
    BY DEF Reads
  <1>2. raw \in Seq(Units) /\ b \in Seq(Units) /\ y \in Seq(Units) /\ raw \o b = y
    BY <1>1, RawGrows
  <1>3. Seen(w) \in Units /\ win[w].got \in Seq(Lines) /\ Chain(t)
    BY <1>1, TextMade DEF TextInv, TextOk
  <1>4. Seen(w).half = 2
    BY SeenHalf
  <1>5. t = <<Seen(w)>> \o y
    BY DEF Text
  <1> HIDE DEF raw, b, y, t
  <1>6. /\ t \in Seq(Units) /\ t # <<>> /\ Len(t) = 1 + Len(y) /\ t[1] = Seen(w)
        /\ \A i \in 1..Len(y) : t[1 + i] = y[i]
    BY <1>2, <1>3, <1>5, InFront
  <1>7. /\ Len(y) = Len(raw) + Len(b) /\ Len(raw) \in Nat /\ Len(b) \in Nat
        /\ \A i \in 1..Len(raw) : y[i] = raw[i]
    BY <1>2, Concats
  <1>8. \A i \in 1..Len(raw) : i \in 1..Len(y) /\ raw[i] = t[1 + i]
    BY <1>6, <1>7
  <1>9. 1 + Len(raw) <= Len(t)
    BY <1>6, <1>7
  <1>10. Aligned(raw)
    <2> SUFFICES ASSUME raw # <<>> PROVE raw[1].half = 1
      BY <1>2 DEF Aligned
    <2>1. 1 \in 1..Len(raw) /\ 1 \in 1..Len(t) /\ 2 \in 1..Len(t) /\ 0 \in Nat /\ 2 = 1 + 2 * 0 + 1
      BY <1>2, <1>7, <1>9
    <2>2. t[2].half # t[1].half
      BY <1>3, <2>1 DEF Chain
    <2>3. raw[1] = t[2] /\ t[2] \in Units
      BY <1>6, <1>8, <2>1
    <2> QED
      BY <1>4, <1>6, <2>2, <2>3, UnitsMade
  <1> QED
    BY <1>3, <1>4, <1>6, <1>8, <1>9, <1>10 DEF raw, t

\* So nothing is skipped while the link is up.
LEMMA PollTakes ==
  ASSUME TInv, PlaceInv, NEW w \in Windows, NEW n \in Nat, PollRows(w, n, FALSE),
         Aligned(Raw(w, n, FALSE))
  PROVE  /\ Raw(w, n, FALSE) \in Seq(Units)
         /\ win'[w].got = win[w].got \o Rows(Raw(w, n, FALSE))
         /\ win'[w].raw = Rest(Raw(w, n, FALSE))
  <1> LinkInv /\ WinInv
    BY DEF PlaceInv
  <1> DEFINE raw == Raw(w, n, FALSE)
  <1>1. win[w].state = "on" /\ Receive(w, n, FALSE)
    BY DEF PollRows
  <1>2. raw \in Seq(Units)
    BY <1>1, RawIs
  <1>3. \E skip \in 0..Len(raw) :
           LET text == SubSeq(raw, skip + 1, Len(raw)) IN
             /\ Aligned(raw) => skip = 0
             /\ win'[w].got = win[w].got \o Rows(text)
             /\ win'[w].raw = Rest(text)
    BY PollWin, FALSE \in BOOLEAN
  <1>4. SubSeq(raw, 0 + 1, Len(raw)) = raw
    <2>1. SubSeq(raw, 1, Len(raw)) = raw
      BY <1>2, SubSeqFull, Zenon
    <2>2. 0 + 1 = 1
      OBVIOUS
    <2> QED
      BY <2>1, <2>2
  <1> QED
    BY <1>2, <1>3, <1>4

\* Frames are taken off the beginning of what is there.
LEMMA TextPolled ==
  ASSUME TInv, PlaceInv, TextInv, Sent' = Sent,
         NEW w \in Windows, NEW n \in Nat, NEW fin \in BOOLEAN, PollRows(w, n, fin)
  PROVE  TextInv'
  <1> LinkInv /\ WinInv
    BY DEF PlaceInv
  <1>1. /\ win[w].state = "on" /\ Receive(w, n, fin) /\ Reads(w)
        /\ win'[w].state = (IF fin THEN "dead" ELSE "on") /\ win'[w].link = win[w].link
        /\ \A v \in Windows : v # w => win'[v] = win[v]
    BY PollWin DEF Reads
  <1>2. \A k \in 1..made : k # win[w].link => links'[k] = links[k]
    BY <1>1, LinkRead, Made
  <1>3. conn' = conn
    BY <1>1 DEF Receive, bridge
  <1>5. CASE fin
    <2>1. TextOk(w)'
      BY <1>1, <1>5 DEF TextOk, Reads
    <2> QED
      BY <1>1, <1>2, <1>3, <2>1, TextOthers
  <1>6. CASE ~fin
    <2> DEFINE raw == Raw(w, n, FALSE)
               b == links'[win[w].link].out
               o == links[win[w].link].out
               p == win[w].raw
               t == Text(w)
               m == Len(raw) \div 2
    <2>1. /\ t \in Seq(Units) /\ Chain(t) /\ t # <<>> /\ t[1] = Seen(w)
          /\ Seen(w) \in Units /\ Seen(w).half = 2 /\ Aligned(raw)
          /\ 1 + Len(raw) <= Len(t) /\ \A i \in 1..Len(raw) : raw[i] = t[1 + i]
      BY <1>1, <1>6, PollAligned
    <2>2. /\ raw \in Seq(Units) /\ win'[w].got = win[w].got \o Rows(raw)
          /\ win'[w].raw = Rest(raw)
      BY <1>6, <2>1, PollTakes
    <2>3. /\ o \in Seq(Units) /\ n \in 0..Len(o) /\ b = SubSeq(o, n + 1, Len(o))
          /\ raw = p \o SubSeq(o, 1, n) /\ p \in Seq(Units)
      <3>1. o = LinkOf(w).out
        BY DEF LinkOf
      <3>2. /\ o \in Seq(Units) /\ n <= Len(o) /\ b = SubSeq(o, n + 1, Len(o))
        BY <1>1, <3>1, LinkRead
      <3>3. raw = p \o SubSeq(o, 1, n) /\ p \in Seq(Units)
        BY <1>1, <1>6, <3>1, RawIs
      <3>4. n \in 0..Len(o)
        BY <3>2
      <3> QED
        BY <3>2, <3>3, <3>4
    <2> DEFINE y == p \o o
               z == Rest(raw) \o b
    <2>4. /\ m \in Nat /\ 2 * m <= Len(y) /\ Len(z) = Len(y) - 2 * m
          /\ \A i \in 1..Len(z) : z[i] = y[2 * m + i]
      <3>1. LET text == p \o SubSeq(o, 1, n)
                k == Len(text) \div 2
                come == Rest(text) \o SubSeq(o, n + 1, Len(o))
            IN  /\ k \in Nat /\ 2 * k <= Len(p \o o)
                /\ Len(come) = Len(p \o o) - 2 * k
                /\ \A i \in 1..Len(come) : come[i] = (p \o o)[2 * k + i]
        BY <2>3, ChunkTaken, Zenon
      <3> QED
        BY <2>3, <3>1
    <2>5. y \in Seq(Units) /\ t = <<Seen(w)>> \o y /\ Text(w)' = <<Seen(w)'>> \o z
      <3>1. y \in Seq(Units)
        BY <2>3, Concats
      <3>2. t = <<Seen(w)>> \o y
        BY <1>1 DEF Text
      <3>3. Text(w)' = <<Seen(w)'>> \o z
        BY <1>1, <1>6, <2>2 DEF Text
      <3> QED
        BY <3>1, <3>2, <3>3
    <2>6. /\ Len(Rows(raw)) = m /\ Rows(raw) \in Seq(Lines) /\ Rest(raw) \in Seq(Units)
          /\ \A i \in 1..m : 2 * i \in 1..Len(raw) /\ Rows(raw)[i] = raw[2 * i].line
      BY <2>2, RowsOf
    <2>7. z \in Seq(Units) /\ b \in Seq(Units)
      <3>1. b \in Seq(Units)
        BY <1>1, <1>6, RawGrows
      <3> QED
        BY <2>6, <3>1, Concats
    <2> HIDE DEF raw, b, o, p, t, m, y, z
    <2>8. Len(t) = 1 + Len(y) /\ \A i \in 1..Len(y) : t[1 + i] = y[i]
      BY <2>1, <2>5, InFront
    <2>9. 2 * m \in Nat /\ Len(y) \in Nat /\ Len(z) \in Nat
      BY <2>4, <2>5, <2>7
    <2>10. Seen(w)' \in Units /\ Seen(w)' = t[2 * m + 1] /\ 2 * m + 1 \in 1..Len(t)
      <3>1. 2 * m + 1 \in 1..Len(t)
        BY <2>4, <2>8, <2>9
      <3>2. t[2 * m + 1] \in Units
        BY <2>1, <3>1
      <3>3. Seen(w)' = t[2 * m + 1]
        <4>1. CASE m = 0
          <5>1. Rows(raw) = <<>>
            BY <2>6, <4>1
          <5>2. win'[w].got = win[w].got
            <6>1. win[w].got \in Seq(Lines)
              BY DEF TInv, Wins
            <6> QED
              BY <2>2, <5>1, <6>1, ConcatEmptySeq
          <5>3. Seen(w)' = Seen(w)
            BY <1>1, <1>6, <5>2 DEF Seen
          <5>4. 2 * m + 1 = 1
            BY <4>1
          <5> QED
            BY <2>1, <5>3, <5>4
        <4>2. CASE m # 0
          <5> DEFINE g == win'[w].got
          <5>1. g # <<>> /\ g[Len(g)] = Rows(raw)[m]
            <6> DEFINE h == win[w].got
                       r == Rows(raw)
            <6>1. h \in Seq(Lines) /\ r \in Seq(Lines) /\ Len(r) = m /\ m \in Nat \ {0}
              BY <2>4, <2>6, <4>2 DEF TInv, Wins
            <6>2. g = h \o r
              BY <2>2
            <6> HIDE DEF g, h, r
            <6>3. /\ Len(g) = Len(h) + m /\ Len(h) \in Nat /\ g \in Seq(Lines)
                  /\ \A i \in 1..(Len(h) + m) : g[i] = IF i <= Len(h) THEN h[i] ELSE r[i - Len(h)]
              <7>1. Len(h) \in Nat
                BY <6>1
              <7>2. /\ Len(h \o r) = Len(h) + Len(r) /\ h \o r \in Seq(Lines)
                    /\ \A i \in 1..(Len(h) + Len(r)) :
                          (h \o r)[i] = IF i <= Len(h) THEN h[i] ELSE r[i - Len(h)]
                BY <6>1, ConcatProperties, Zenon
              <7> QED
                BY <6>1, <6>2, <7>1, <7>2
            <6>4. Len(g) \in 1..(Len(h) + m) /\ ~(Len(g) <= Len(h)) /\ Len(g) - Len(h) = m
              BY <6>1, <6>3
            <6> QED
              BY <6>3, <6>4 DEF r
          <5>2. m \in 1..m /\ 2 * m \in 1..Len(raw) /\ Rows(raw)[m] = raw[2 * m].line
            <6>1. m \in 1..m
              BY <2>4, <4>2
            <6> QED
              BY <2>6, <6>1
          <5>3. raw[2 * m] = t[1 + 2 * m] /\ 1 + 2 * m = 2 * m + 1
            <6>1. 2 * m \in 1..Len(raw) /\ m \in Nat
              BY <2>4, <5>2
            <6>2. 1 + 2 * m = 2 * m + 1
              BY <6>1
            <6>3. raw[2 * m] = t[1 + 2 * m]
              <7>1. ASSUME NEW i \in 1..Len(raw) PROVE raw[i] = t[1 + i]
                BY <2>1
              <7> HIDE DEF raw
              <7> QED
                BY <6>1, <7>1, Zenon
            <6> QED
              BY <6>2, <6>3
          <5>4. Seen(w)' = Unit(g[Len(g)], 2)
            BY <1>1, <1>6, <5>1 DEF Seen
          <5>5. t[2 * m + 1].half = 2
            <6> DEFINE e == 2 * m + 1
            <6>1. 1 \in 1..Len(t) /\ e \in 1..Len(t) /\ e = 1 + 2 * m
              BY <2>1, <2>9, <3>1
            <6>2. t[e].half = t[1].half
              BY <2>1, <2>4, <6>1 DEF Chain
            <6> QED
              BY <2>1, <6>2
          <5> QED
            BY <3>2, <5>1, <5>2, <5>3, <5>4, <5>5, UnitsMade
        <4> QED
          BY <4>1, <4>2
      <3> QED
        BY <3>1, <3>2, <3>3
    <2>11. /\ Text(w)' \in Seq(Units) /\ Text(w)' # <<>> /\ Len(Text(w)') = 1 + Len(z)
           /\ Text(w)'[1] = Seen(w)'
           /\ \A i \in 1..Len(z) : Text(w)'[1 + i] = z[i]
      BY <2>5, <2>7, <2>10, InFront
    <2>12. 2 * m + Len(Text(w)') = Len(t)
      <3> DEFINE k == 2 * m
      <3> HIDE DEF k
      <3>1. k \in Nat /\ Len(z) = Len(y) - k
        BY <2>4, <2>9 DEF k
      <3>2. k + (1 + Len(z)) = 1 + Len(y)
        BY <2>9, <3>1
      <3> QED
        BY <2>8, <2>11, <3>2 DEF k
    <2>13. ASSUME NEW i \in 1..Len(Text(w)') PROVE Text(w)'[i] = t[2 * m + i]
      <3>1. CASE i = 1
        BY <2>10, <2>11, <3>1
      <3>2. CASE i # 1
        <4> DEFINE j == i - 1
                   k == 2 * m
        <4>1. j \in 1..Len(z) /\ i = 1 + j
          BY <2>9, <2>11, <3>2
        <4> HIDE DEF j, k
        <4>2. k \in Nat /\ Len(z) = Len(y) - k /\ z[j] = y[k + j]
          BY <2>4, <2>9, <4>1 DEF k
        <4>3. k + j \in 1..Len(y) /\ 1 + (k + j) = k + i
          BY <2>9, <4>1, <4>2
        <4>4. t[1 + (k + j)] = y[k + j]
          BY <2>8, <4>3
        <4> QED
          BY <2>11, <4>1, <4>2, <4>3, <4>4 DEF k
      <3> QED
        BY <3>1, <3>2
    <2>14. TextOk(w)'
      <3>1. 2 * m \in Nat /\ win'[w].state \in {"hello", "on"}
        BY <1>1, <1>6, <2>9
      <3>2. \A i \in 1..Len(Text(w)') : Text(w)'[i] = Text(w)[2 * m + i]
        BY <2>13 DEF t
      <3>3. 2 * m + Len(Text(w)') = Len(Text(w))
        BY <2>12 DEF t
      <3> QED
        BY <1>1, <1>3, <2>11, <3>1, <3>2, <3>3, TextReadOn
    <2> QED
      BY <1>1, <1>2, <1>3, <2>14, TextOthers
  <1> QED
    BY <1>5, <1>6

\* The rows a window has are those it had, and those it just read.
LEMMA GotGrows ==
  ASSUME TInv, NEW w \in Windows, GotOk(w), win[w].state = "on", NEW r \in Seq(Lines),
         win'[w].got = win[w].got \o r, win'[w].state \in {"on", "dead"},
         \A i \in 1..Len(r) : r[i] \in Objects /\ Seen(w).line < r[i],
         \A i \in 1..(Len(r) - 1) : r[i] < r[i+1] /\ Silent(r[i], r[i+1]),
         win'[w].state = "on" /\ r # <<>> /\ Seen(w) # Hello => Silent(Seen(w).line, r[1])
  PROVE  GotOk(w)'
  <1> DEFINE h == win[w].got
             g == win'[w].got
             c == Len(h)
             m == Len(r)
             on == win'[w].state = "on"
  <1>1. /\ h \in Seq(Lines) /\ c \in Nat /\ m \in Nat
        /\ \A i \in 1..c : h[i] \in Objects /\ h[i] \in Nat
        /\ \A i \in 1..(c - 1) : h[i] < h[i+1] /\ Silent(h[i], h[i+1])
    <2>1. h \in Seq(Lines) /\ c \in Nat
      BY DEF TInv, Wins
    <2>2. m \in Nat
      OBVIOUS
    <2>3. \A i \in 1..c : h[i] \in Objects
      BY DEF GotOk
    <2>4. \A i \in 1..c : h[i] \in Nat
      BY <2>3, LinesMade
    <2>5. \A i \in 1..(c - 1) : h[i] < h[i+1] /\ Silent(h[i], h[i+1])
      BY DEF GotOk
    <2> QED
      BY <2>1, <2>2, <2>3, <2>4, <2>5
  <1>2. c # 0 => Seen(w).line = h[c] /\ Seen(w) # Hello
    <2> SUFFICES ASSUME c # 0 PROVE Seen(w).line = h[c] /\ Seen(w) # Hello
      OBVIOUS
    <2>1. c \in 1..c /\ h # <<>>
      BY <1>1
    <2>2. h[c] \in Nat /\ h[c] \in Objects
      BY <1>1, <2>1
    <2>3. Seen(w) = Unit(h[c], 2)
      BY <2>1 DEF Seen
    <2>4. h[c] # 0
      BY <2>2, Bounds DEF Objects
    <2> QED
      BY <2>2, <2>3, <2>4, UnitsMade
  <1>3. g = h \o r
    OBVIOUS
  <1>4. /\ \A i \in 1..m : r[i] \in Objects /\ Seen(w).line < r[i]
        /\ \A i \in 1..(m - 1) : r[i] < r[i+1] /\ Silent(r[i], r[i+1])
        /\ on /\ m # 0 /\ Seen(w) # Hello => Silent(Seen(w).line, r[1])
    OBVIOUS
  <1>5. r \in Seq(Lines)
    OBVIOUS
  <1> HIDE DEF h, g, c, m, on
  <1>6. /\ Len(g) = c + m
        /\ \A i \in 1..c : g[i] = h[i]
        /\ \A i \in 1..m : g[c + i] = r[i]
    <2>1. c = Len(h) /\ m = Len(r)
      BY DEF c, m
    <2>2. /\ Len(h \o r) = Len(h) + Len(r)
          /\ \A i \in 1..(Len(h) + Len(r)) :
                (h \o r)[i] = IF i <= Len(h) THEN h[i] ELSE r[i - Len(h)]
      BY <1>1, <1>5, ConcatProperties, Zenon
    <2>3. Len(g) = c + m /\ \A i \in 1..(c + m) : g[i] = IF i <= c THEN h[i] ELSE r[i - c]
      BY <1>3, <2>1, <2>2
    <2>4. ASSUME NEW i \in 1..c PROVE g[i] = h[i]
      <3>1. i \in 1..(c + m) /\ i <= c
        BY <1>1
      <3> QED
        BY <2>3, <3>1
    <2>5. ASSUME NEW i \in 1..m PROVE g[c + i] = r[i]
      <3>1. c + i \in 1..(c + m) /\ ~(c + i <= c) /\ (c + i) - c = i
        BY <1>1
      <3> QED
        BY <2>3, <3>1
    <2> QED
      BY <2>3, <2>4, <2>5
  <1>7. ASSUME NEW i \in 1..Len(g) PROVE g[i] \in Objects
    <2>1. CASE i \in 1..c
      BY <1>1, <1>6, <2>1
    <2>2. CASE i \notin 1..c
      <3> DEFINE j == i - c
      <3>1. j \in 1..m /\ i = c + j
        BY <1>1, <1>6, <2>2
      <3> HIDE DEF j
      <3> QED
        BY <1>4, <1>6, <3>1
    <2> QED
      BY <2>1, <2>2
  <1>8. ASSUME NEW i \in 1..(Len(g) - 1) PROVE g[i] < g[i+1] /\ (on => Silent(g[i], g[i+1]))
    <2>1. CASE i \in 1..(c - 1)
      <3>1. i \in 1..c /\ i + 1 \in 1..c
        BY <1>1, <2>1
      <3> QED
        BY <1>1, <1>6, <2>1, <3>1
    <2>2. CASE i = c
      <3>1. c \in 1..c /\ c # 0 /\ 1 \in 1..m /\ m # 0
        BY <1>1, <1>6, <2>2
      <3>2. g[c] = h[c] /\ g[c + 1] = r[1] /\ Seen(w).line = h[c] /\ Seen(w) # Hello
        BY <1>2, <1>6, <3>1
      <3>3. h[c] < r[1] /\ (on => Silent(h[c], r[1]))
        BY <1>4, <3>1, <3>2
      <3> QED
        BY <2>2, <3>2, <3>3
    <2>3. CASE i \notin 1..c
      <3> DEFINE j == i - c
      <3>1. j \in 1..(m - 1) /\ i = c + j /\ j \in 1..m /\ j + 1 \in 1..m /\ i + 1 = c + (j + 1)
        BY <1>1, <1>6, <2>3
      <3> HIDE DEF j
      <3>2. g[i] = r[j] /\ g[i + 1] = r[j + 1]
        BY <1>6, <3>1
      <3> QED
        BY <1>4, <3>1, <3>2
    <2>4. i \in 1..(c - 1) \/ i = c \/ i \notin 1..c
      BY <1>1
    <2> QED
      BY <2>1, <2>2, <2>3, <2>4
  <1>9. /\ \A i \in 1..Len(g) : g[i] \in Objects
        /\ \A i \in 1..(Len(g) - 1) :
              g[i] < g[i+1] /\ (win'[w].state = "on" => Silent(g[i], g[i+1]))
    BY <1>7, <1>8 DEF on
  <1>10. g = win'[w].got
    BY DEF g
  <1> QED
    BY <1>9, <1>10 DEF GotOk, Silent, Objects

\* What a window takes for rows are rows of the tap.
LEMMA GotPolled ==
  ASSUME TInv, PlaceInv, TextInv, GotInv,
         NEW w \in Windows, NEW n \in Nat, NEW fin \in BOOLEAN, PollRows(w, n, fin)
  PROVE  GotInv'
  <1> LinkInv /\ WinInv
    BY DEF PlaceInv
  <1> DEFINE t == Text(w)
             raw == Raw(w, n, fin)
  <1>1. /\ win[w].state = "on" /\ Receive(w, n, fin) /\ Reads(w)
        /\ win'[w].state = (IF fin THEN "dead" ELSE "on") /\ win'[w].link = win[w].link
        /\ \A v \in Windows : v # w => win'[v] = win[v]
    BY PollWin DEF Reads
  <1>2. raw \in Seq(Units)
    BY <1>1, RawIs
  <1>3. t \in Seq(Units) /\ Chain(t) /\ GotOk(w) /\ Seen(w) \in Units
    BY <1>1, TextMade DEF TextInv, TextOk, GotInv
  <1>4. t = <<Seen(w)>> \o (win[w].raw \o links[win[w].link].out)
    BY <1>1 DEF Text
  <1>5. win[w].raw \in Seq(Units) /\ links[win[w].link].out \in Seq(Units)
    BY <1>1, TextMade
  <1>6. t # <<>> /\ t[1] = Seen(w) /\ Seen(w).half = 2
    <2> DEFINE tail == win[w].raw \o links[win[w].link].out
    <2>1. tail \in Seq(Units)
      BY <1>5, Concats
    <2> HIDE DEF tail
    <2>2. /\ Len(<<Seen(w)>> \o tail) = 1 + Len(tail) /\ (<<Seen(w)>> \o tail)[1] = Seen(w)
          /\ Len(tail) \in Nat
      BY <1>3, <2>1, InFront
    <2>3. t = <<Seen(w)>> \o tail
      BY <1>4 DEF tail
    <2>4. t[1] = Seen(w) /\ Len(t) # 0
      BY <2>2, <2>3
    <2> HIDE DEF t
    <2>5. t # <<>>
      BY <2>4
    <2> QED
      BY SeenHalf, <1>1, <2>4, <2>5
  <1>7. GotOk(w)'
    <2>1. CASE ~fin
      <3> DEFINE x == Raw(w, n, FALSE)
                 r == Rows(x)
      <3>1. Aligned(x) /\ 1 + Len(x) <= Len(t) /\ \A i \in 1..Len(x) : x[i] = t[1 + i]
        BY <1>1, <2>1, PollAligned
      <3>2. x \in Seq(Units) /\ win'[w].got = win[w].got \o r
        BY <2>1, <3>1, PollTakes
      <3> HIDE DEF t, x
      <3>3. r \in Seq(Lines)
        BY <3>2, RowsOf
      <3>4. /\ \A i \in 1..Len(r) : r[i] \in Objects /\ t[1].line < r[i]
            /\ \A i \in 1..(Len(r) - 1) : r[i] < r[i+1] /\ Silent(r[i], r[i+1])
            /\ r # <<>> /\ t[1] # Hello => Silent(t[1].line, r[1])
        <4>1. 1 \in Nat \ {0} /\ t[1].half = 2
          BY <1>6
        <4> QED
          BY <1>3, <1>6, <3>1, <3>2, <4>1, RowsOfPart
      <3> HIDE DEF r
      <3>5. /\ \A i \in 1..Len(r) : r[i] \in Objects /\ Seen(w).line < r[i]
            /\ \A i \in 1..(Len(r) - 1) : r[i] < r[i+1] /\ Silent(r[i], r[i+1])
            /\ win'[w].state = "on" /\ r # <<>> /\ Seen(w) # Hello => Silent(Seen(w).line, r[1])
        BY <1>6, <3>4
      <3>6. win'[w].state \in {"on", "dead"}
        BY <1>1
      <3> QED
        BY <1>1, <1>3, <3>2, <3>3, <3>5, <3>6, GotGrows
    <2>2. CASE fin
      <3> DEFINE o == links[win[w].link].out
                 p == win[w].raw
      <3>1. raw = o
        BY <1>1, <2>2, RawIs DEF LinkOf
      <3>2. \E skip \in 0..Len(raw) :
               LET text == SubSeq(raw, skip + 1, Len(raw)) IN
               /\ text \in Seq(Units) /\ Aligned(text)
               /\ win'[w].got = win[w].got \o Rows(text)
        BY PollWin
      <3>3. PICK skip \in 0..Len(o) :
               LET text == SubSeq(o, skip + 1, Len(o)) IN
               /\ text \in Seq(Units) /\ Aligned(text)
               /\ win'[w].got = win[w].got \o Rows(text)
        BY <3>1, <3>2
      <3> DEFINE x == SubSeq(o, skip + 1, Len(o))
                 y == p \o o
                 r == Rows(x)
                 k == (1 + Len(p)) + skip
      <3>4. x \in Seq(Units) /\ Aligned(x) /\ win'[w].got = win[w].got \o r
        BY <3>3
      <3>5. /\ Len(x) = Len(o) - skip /\ Len(o) \in Nat /\ skip \in Nat /\ skip <= Len(o)
            /\ \A i \in 1..Len(x) : x[i] = o[skip + i]
        BY <1>5, SubSeqProperties
      <3>6. p \in Seq(Units) /\ o \in Seq(Units) /\ t = <<Seen(w)>> \o y
        BY <1>4, <1>5
      <3> HIDE DEF o, p, t, x, y
      <3>7. /\ y \in Seq(Units) /\ Len(y) = Len(p) + Len(o) /\ Len(p) \in Nat
            /\ \A i \in 1..Len(o) : y[Len(p) + i] = o[i]
        BY <3>6, Concats DEF y
      <3>8. Len(t) = 1 + Len(y) /\ \A i \in 1..Len(y) : t[1 + i] = y[i]
        <4>1. Seen(w) \in Units
          BY <1>3
        <4>2. /\ Len(<<Seen(w)>> \o y) = 1 + Len(y)
              /\ \A i \in 1..Len(y) : (<<Seen(w)>> \o y)[1 + i] = y[i]
          BY <3>7, <4>1, InFront, Zenon
        <4> QED
          BY <3>6, <4>2
      <3>9. k \in Nat \ {0} /\ k + Len(x) <= Len(t)
        BY <3>5, <3>7, <3>8
      <3>10. ASSUME NEW i \in 1..Len(x) PROVE x[i] = t[k + i]
        <4> DEFINE a == skip + i
                   b == Len(p) + a
        <4>1. a \in 1..Len(o) /\ b \in 1..Len(y) /\ k + i = 1 + b
          BY <3>5, <3>7
        <4>2. y[Len(p) + a] = o[a] /\ x[i] = o[a]
          BY <3>5, <3>7, <4>1
        <4> HIDE DEF a, b, k
        <4>3. t[1 + b] = y[b]
          BY <3>8, <4>1
        <4> QED
          BY <4>1, <4>2, <4>3 DEF b
      <3>11. r \in Seq(Lines)
        BY <3>4, RowsOf
      <3> HIDE DEF k
      <3>12. \A i \in 1..Len(x) : x[i] = t[k + i]
        BY <3>10
      <3>13. /\ \A i \in 1..Len(r) : r[i] \in Objects /\ t[1].line < r[i]
             /\ \A i \in 1..(Len(r) - 1) : r[i] < r[i+1] /\ Silent(r[i], r[i+1])
        <4>1. t[1].half = 2
          BY <1>6
        <4> QED
          BY <1>3, <1>6, <3>4, <3>9, <3>12, <4>1, RowsOfPart
      <3> HIDE DEF r
      <3>14. /\ \A i \in 1..Len(r) : r[i] \in Objects /\ Seen(w).line < r[i]
             /\ \A i \in 1..(Len(r) - 1) : r[i] < r[i+1] /\ Silent(r[i], r[i+1])
        BY <1>6, <3>13
      <3>15. win'[w].state = "dead"
        BY <1>1, <2>2
      <3>16. win'[w].state = "on" /\ r # <<>> /\ Seen(w) # Hello => Silent(Seen(w).line, r[1])
        BY <3>15
      <3>17. win'[w].state \in {"on", "dead"}
        BY <3>15
      <3> QED
        BY <1>1, <1>3, <3>4, <3>11, <3>14, <3>16, <3>17, GotGrows
    <2> QED
      BY <2>1, <2>2
  <1>8. ASSUME NEW v \in Windows, v # w PROVE GotOk(v)'
    BY <1>1, <1>8, GotKept DEF GotInv
  <1> QED
    BY <1>7, <1>8 DEF GotInv

-----------------------------------------------------------------------------
(* Every step *)

Kept == TapInv' /\ LinesInv' /\ PlaceInv' /\ TextInv' /\ GotInv'

\* Nothing a window sees changes.
LEMMA TextQuiet ==
  ASSUME TInv, PlaceInv, TextInv, GotInv, win' = win,
         conn' = 0 \/ (conn' = conn /\ Sent' = Sent),
         \A k \in 1..MaxLinks : links'[k].out = links[k].out
  PROVE  TextInv' /\ GotInv'
  <1>1. ASSUME NEW w \in Windows PROVE TextOk(w)'
    <2>1. TextOk(w) /\ win'[w] = win[w]
      BY DEF TextInv
    <2>2. Reads(w) => links'[win[w].link].out = links[win[w].link].out
      BY TextMade
    <2>3. Reads(w) /\ win[w].link = conn' => win[w].link = conn /\ Sent' = Sent
      <3>1. Reads(w) => win[w].link # 0
        BY TextMade, Made DEF PlaceInv
      <3> QED
        BY <3>1
    <2> QED
      BY <2>1, <2>2, <2>3, TextKept
  <1>2. ASSUME NEW w \in Windows PROVE GotOk(w)'
    BY GotKept DEF GotInv
  <1> QED
    BY <1>1, <1>2 DEF TextInv, GotInv

\* No window gets a row.
LEMMA GotSame ==
  ASSUME GotInv, win' = win
  PROVE  GotInv'
  <1>1. ASSUME NEW w \in Windows PROVE GotOk(w)'
    BY GotKept DEF GotInv
  <1> QED
    BY <1>1 DEF GotInv

\* The steps of the tap and of the bridge that send nothing.
LEMMA QuietKeeps ==
  ASSUME IInv, TapWrites \/ TapEnds \/ Select \/ Read \/ ReadNothing \/ ForwardDone \/ UNCHANGED bridgeVars
  PROVE  Kept
  <1> TInv /\ TapInv /\ LinesInv /\ TextInv /\ GotInv /\ PlaceInv
    BY DEF IInv, PlaceInv
  <1>1. SentSame
    <2>1. CASE TapWrites
      BY <2>1, TapFills
    <2>2. CASE Read
      BY <2>2, LinesTaken
    <2>3. CASE TapEnds \/ Select \/ ReadNothing \/ ForwardDone \/ UNCHANGED bridgeVars
      <3>1. UNCHANGED <<written, pipe, buf, lines>>
        BY <2>3 DEF TapEnds, Select, ReadNothing, ForwardDone, bridgeVars, tap, bridge
      <3>2. pc' # "forward" => lines = <<>>
        BY <2>3 DEF LinesInv, TapEnds, Select, ReadNothing, ForwardDone, bridgeVars, tap, bridge
      <3> QED
        BY <3>1, <3>2, TapQuiet
    <2> QED
      BY <2>1, <2>2, <2>3
  <1>2. UNCHANGED <<shaking, conn, backlog, links, made, win>>
    BY DEF TapWrites, TapEnds, Select, Read, ReadNothing, ForwardDone, bridgeVars, tap, bridge
  <1>3. PlaceInv'
    <2>1. pc' = "shake" <=> pc = "shake"
      BY DEF TapWrites, TapEnds, Select, Read, ReadNothing, ForwardDone, bridgeVars, tap, bridge
    <2>2. pc' = "accept" /\ "srv" \in ready' => backlog # <<>>
      <3>1. CASE Select
        BY <3>1 DEF Select, Ready
      <3>2. CASE Read \/ ReadNothing \/ ForwardDone
        BY <3>2 DEF Read, ReadNothing, ForwardDone
      <3>3. CASE TapWrites \/ TapEnds \/ UNCHANGED bridgeVars
        <4>1. pc' = pc /\ ready' = ready
          BY <3>3 DEF TapWrites, TapEnds, bridgeVars, bridge
        <4> QED
          BY <4>1 DEF PlaceInv, LinkInv
      <3> QED
        BY <3>1, <3>2, <3>3
    <2> QED
      BY <1>2, <2>1, <2>2, PlaceQuiet
  <1>4. TextInv' /\ GotInv'
    BY <1>1, <1>2, TextQuiet DEF SentSame
  <1> QED
    BY <1>1, <1>3, <1>4 DEF Kept, SentSame

\* The steps of the bridge that accept, greet and close.
LEMMA LinksKeep ==
  ASSUME IInv, Accept \/ ShakeOk \/ ShakeFails \/ Client \/ (Exit /\ UNCHANGED <<tap, buf, made, win>>)
  PROVE  Kept
  <1> TInv /\ TapInv /\ LinesInv /\ TextInv /\ GotInv /\ PlaceInv
    BY DEF IInv, PlaceInv
  <1>1. CASE Accept \/ ShakeOk \/ ShakeFails \/ Client
    <2>1. UNCHANGED <<written, pipe, buf, lines>> /\ pc # "forward"
      BY <1>1 DEF Accept, ShakeOk, ShakeFails, Client, tap
    <2>2. SentSame
      BY <2>1, TapQuiet DEF LinesInv
    <2>3. CASE Accept
      <3>1. UNCHANGED <<conn, links, win>>
        BY <2>3 DEF Accept
      <3>2. PlaceInv'
        BY <2>3, PlaceAccepts
      <3>3. TextInv' /\ GotInv'
        BY <2>2, <3>1, TextQuiet DEF SentSame
      <3> QED
        BY <2>2, <3>2, <3>3 DEF Kept, SentSame
    <2>4. CASE ShakeOk
      <3>1. PlaceInv' /\ TextInv'
        BY <2>2, <2>4, PlaceShaken, TextShaken DEF SentSame
      <3>2. GotInv'
        BY <2>4, GotSame DEF ShakeOk
      <3> QED
        BY <2>2, <3>1, <3>2 DEF Kept, SentSame
    <2>5. CASE ShakeFails \/ Client
      <3>1. /\ PlaceInv' /\ conn' \in {0, conn} /\ UNCHANGED win
            /\ \A k \in 1..MaxLinks : links'[k].out = links[k].out
        BY <2>5, PlaceCloses
      <3>2. TextInv' /\ GotInv'
        BY <2>2, <3>1, TextQuiet DEF SentSame
      <3> QED
        BY <2>2, <3>1, <3>2 DEF Kept, SentSame
    <2> QED
      BY <1>1, <2>3, <2>4, <2>5
  <1>2. CASE Exit /\ UNCHANGED <<tap, buf, made, win>>
    <2>1. TapInv' /\ LinesInv'
      BY <1>2, TapStops DEF tap
    <2>2. /\ PlaceInv' /\ UNCHANGED win
          /\ \A k \in 1..MaxLinks : links'[k].out = links[k].out
      BY <1>2, PlaceCloses
    <2>3. conn' = 0
      BY <1>2 DEF Exit
    <2>4. TextInv' /\ GotInv'
      BY <2>2, <2>3, TextQuiet
    <2> QED
      BY <2>1, <2>2, <2>4 DEF Kept
  <1> QED
    BY <1>1, <1>2

\* The steps of the bridge that take a line.
LEMMA LinesKeep ==
  ASSUME IInv, Skip \/ SendOk \/ SendFails
  PROVE  Kept
  <1> TInv /\ TapInv /\ LinesInv /\ TextInv /\ GotInv /\ PlaceInv
    BY DEF IInv, PlaceInv
  <1>1. SentOne /\ win' = win
    BY LineTaken DEF Skip, SendOk, SendFails, Sending, tap
  <1>2. GotInv'
    BY <1>1, GotSame
  <1>3. CASE Skip
    <2>1. /\ UNCHANGED <<shaking, conn, backlog, links, made, win>>
          /\ pc' = "shake" <=> pc = "shake"
          /\ pc' = "accept" /\ "srv" \in ready' => backlog # <<>>
      BY <1>3 DEF Skip
    <2>2. PlaceInv'
      BY <2>1, PlaceQuiet
    <2>3. TextInv'
      BY <1>3, TextSkips
    <2> QED
      BY <1>1, <1>2, <2>2, <2>3 DEF Kept, SentOne
  <1>4. CASE SendOk \/ SendFails
    <2>1. PlaceInv' /\ TextInv'
      BY <1>4, PlaceSends, TextSends
    <2> QED
      BY <1>1, <1>2, <2>1 DEF Kept, SentOne
  <1> QED
    BY <1>3, <1>4

\* A window without rows shows none that is wrong.
LEMMA NoRows ==
  ASSUME NEW w \in Windows, win'[w].got = <<>>
  PROVE  GotOk(w)'
  BY DEF GotOk

\* The steps of a window that say something.
LEMMA TurnsKeep ==
  ASSUME IInv, NEW w \in Windows, Connect(w) \/ Ask(w) \/ Leave(w)
  PROVE  Kept
  <1> TInv /\ TapInv /\ LinesInv /\ TextInv /\ GotInv /\ PlaceInv
    BY DEF IInv, PlaceInv
  <1>1. SentSame
    <2>1. UNCHANGED <<written, pipe, buf, lines, pc>>
      BY DEF Connect, Ask, Leave, tap, bridge
    <2> QED
      BY <2>1, TapQuiet DEF LinesInv
  <1>2. /\ PlaceInv' /\ \A v \in Windows : v # w => win'[v] = win[v]
        /\ win'[w].got = <<>> \/ (win'[w].got = win[w].got /\ win'[w].state # "on")
    <2>1. CASE Connect(w)
      BY <2>1, PlaceConnects
    <2>2. CASE Ask(w)
      BY <2>2, PlaceAsks
    <2>3. CASE Leave(w)
      BY <2>3, PlaceLeaves DEF Off
    <2> QED
      BY <2>1, <2>2, <2>3
  <1>3. TextInv'
    BY <1>1, TextTurns DEF SentSame
  <1>4. GotInv'
    <2>1. GotOk(w)'
      BY <1>2, NoRows, GotKept DEF GotInv
    <2>2. ASSUME NEW v \in Windows, v # w PROVE GotOk(v)'
      BY <1>2, <2>2, GotKept DEF GotInv
    <2> QED
      BY <2>1, <2>2 DEF GotInv
  <1> QED
    BY <1>1, <1>2, <1>3, <1>4 DEF Kept, SentSame

\* The steps of a window that hear something.
LEMMA ArrivesKeeps ==
  ASSUME IInv, NEW w \in Windows, Arrives(w)
  PROVE  Kept
  <1> TInv /\ TapInv /\ LinesInv /\ TextInv /\ GotInv /\ PlaceInv /\ LinkInv /\ WinInv
    BY DEF IInv, PlaceInv
  <1>1. ASSUME NEW n \in Nat, NEW fin \in BOOLEAN, Receive(w, n, fin)
        PROVE  SentSame /\ conn' = conn
    <2>1. UNCHANGED <<written, pipe, buf, lines, pc, conn>>
      BY <1>1 DEF Receive, tap, bridge
    <2> QED
      BY <2>1, TapQuiet DEF LinesInv
  <1>2. ASSUME win'[w].got = <<>> \/ (win'[w].got = win[w].got /\ win'[w].state # "on"),
               \A v \in Windows : v # w => win'[v] = win[v]
        PROVE  GotInv'
    <2>1. GotOk(w)'
      BY <1>2, NoRows, GotKept DEF GotInv
    <2>2. ASSUME NEW v \in Windows, v # w PROVE GotOk(v)'
      BY <1>2, <2>2, GotKept DEF GotInv
    <2> QED
      BY <2>1, <2>2 DEF GotInv
  <1>3. CASE Refused(w)
    <2>1. /\ win[w].state = "waiting" /\ Receive(w, 0, TRUE) /\ win' = [win EXCEPT ![w] = Off]
      BY <1>3 DEF Refused
    <2>2. win' \in [Windows -> Wins] /\ win'[w] = Off /\ \A v \in Windows : v # w => win'[v] = win[v]
      BY <2>1, WinOff
    <2>3. SentSame /\ conn' = conn
      BY <1>1, <2>1
    <2>4. PlaceInv'
      BY <2>1, <2>2, PlaceReceives
    <2>5. Off.state = "off" /\ Off.got = <<>>
      BY DEF Off
    <2>6. TextInv'
      <3>1. TextOk(w)'
        BY <2>2, <2>5 DEF TextOk, Reads
      <3>2. \A k \in 1..made : k # win[w].link => links'[k] = links[k]
        BY <2>1, LinkRead, Made
      <3> QED
        BY <2>1, <2>2, <2>3, <3>1, <3>2, TextOthers DEF SentSame
    <2>7. GotInv'
      BY <1>2, <2>2, <2>5
    <2> QED
      BY <2>3, <2>4, <2>6, <2>7 DEF Kept, SentSame
  <1>4. ASSUME NEW n \in 0..SendCap, Answered(w, n) PROVE Kept
    <2>0. n \in Nat
      OBVIOUS
    <2>1. /\ win' \in [Windows -> Wins] /\ \A v \in Windows : v # w => win'[v] = win[v]
          /\ win[w].state = "waiting" /\ win'[w].state = "hello" /\ win'[w].link = win[w].link
          /\ win'[w].got = win[w].got /\ n > 0 /\ Receive(w, n, FALSE)
      BY <1>4, <2>0, AnsweredWin DEF Answered
    <2>2. win[w].got = <<>>
      BY <2>1 DEF WinInv, WinOk
    <2>3. SentSame
      BY <1>1, <2>0, <2>1
    <2>4. PlaceInv'
      BY <2>0, <2>1, <2>2, PlaceReceives
    <2>5. TextInv'
      BY <1>4, <2>0, <2>3, TextAnswered DEF SentSame
    <2>6. GotInv'
      BY <1>2, <2>1, <2>2
    <2> QED
      BY <2>3, <2>4, <2>5, <2>6 DEF Kept, SentSame
  <1>5. ASSUME NEW n \in 0..SendCap, NEW fin \in BOOLEAN, Greeted(w, n, fin) PROVE Kept
    <2>0. n \in Nat
      OBVIOUS
    <2>1. /\ win' \in [Windows -> Wins] /\ win[w].state = "hello" /\ Receive(w, n, fin)
          /\ \A v \in Windows : v # w => win'[v] = win[v]
          /\ \/ /\ win'[w].state \in {"dead", "on", "hello"}
                /\ win'[w].link = win[w].link /\ win'[w].got = win[w].got
             \/ win'[w] = Off
      BY <1>5, <2>0, GreetedWin
    <2>2. win[w].got = <<>> /\ win[w].state \in {"waiting", "hello", "on"}
      BY <2>1 DEF WinInv, WinOk
    <2>3. SentSame
      BY <1>1, <2>0, <2>1
    <2>4. PlaceInv'
      BY <2>0, <2>1, <2>2, PlaceReceives
    <2>5. TextInv'
      BY <1>5, <2>0, <2>3, TextGreeted DEF SentSame
    <2>6. win'[w].got = <<>>
      BY <2>1, <2>2 DEF Off
    <2>7. GotInv'
      BY <1>2, <2>1, <2>6
    <2> QED
      BY <2>3, <2>4, <2>5, <2>7 DEF Kept, SentSame
  <1>6. ASSUME NEW n \in 0..SendCap, NEW fin \in BOOLEAN, PollRows(w, n, fin) PROVE Kept
    <2>0. n \in Nat
      OBVIOUS
    <2>1. /\ win' \in [Windows -> Wins] /\ win[w].state = "on" /\ Receive(w, n, fin)
          /\ \A v \in Windows : v # w => win'[v] = win[v]
          /\ win'[w].state \in {"dead", "on"} /\ win'[w].link = win[w].link
      BY <1>6, <2>0, PollWin
    <2>3. SentSame
      BY <1>1, <2>0, <2>1
    <2>4. PlaceInv'
      BY <2>0, <2>1, PlaceReceives
    <2>5. TextInv'
      BY <1>6, <2>0, <2>3, TextPolled DEF SentSame
    <2>6. GotInv'
      BY <1>6, <2>0, GotPolled
    <2> QED
      BY <2>3, <2>4, <2>5, <2>6 DEF Kept, SentSame
  <1> QED
    BY <1>3, <1>4, <1>5, <1>6, Zenon DEF Arrives

\* One step keeps the whole of it.
LEMMA Step ==
  ASSUME IInv, [BridgeNext]_bridgeVars
  PROVE  IInv'
  <1>1. TInv'
    BY TypeStep
  <1> SUFFICES Kept
    BY <1>1 DEF Kept, IInv, PlaceInv
  <1>2. CASE TapWrites \/ TapEnds \/ Select \/ Read \/ ReadNothing \/ ForwardDone \/ UNCHANGED bridgeVars
    BY <1>2, QuietKeeps, Zenon
  <1>3. CASE Accept \/ ShakeOk \/ ShakeFails \/ Client
    BY <1>3, LinksKeep, Zenon
  <1>4. CASE StdinEnds \/ Interrupt
    <2>1. Exit /\ UNCHANGED <<tap, buf, made, win>>
      BY <1>4 DEF StdinEnds, Interrupt, Exit
    <2> QED
      BY <2>1, LinksKeep, Zenon
  <1>5. CASE Skip \/ SendOk \/ SendFails
    BY <1>5, LinesKeep, Zenon
  <1>6. ASSUME NEW w \in Windows, Connect(w) \/ Ask(w) \/ Leave(w) PROVE Kept
    BY <1>6, TurnsKeep
  <1>7. ASSUME NEW w \in Windows, Arrives(w) PROVE Kept
    BY <1>7, ArrivesKeeps
  <1> QED
    BY <1>2, <1>3, <1>4, <1>5, <1>6, <1>7, Zenon DEF BridgeNext, Loop, Ended

\* It holds at the start.
LEMMA InitInv ==
  ASSUME BridgeInit
  PROVE  IInv
  <1>1. TInv
    <2>1. Fresh \in Links /\ Off \in Wins
      BY EmptySeq DEF Fresh, Off, Links, Wins, States
    <2> QED
      BY <2>1, EmptySeq DEF BridgeInit, TInv, Places
  <1>2. TapInv
    <2>1. Come = <<>> /\ Len(Come) = 0
      BY DEF BridgeInit, Come
    <2>2. ReadUp = 0
      <3>1. written = 0
        BY DEF BridgeInit
      <3>2. ReadUp = 0 - 0
        BY <2>1, <3>1 DEF ReadUp
      <3> QED
        BY <3>2
    <2>3. 0 % 2 = 0
      OBVIOUS
    <2>4. \A i \in 1..Len(Come) : Come[i] = UnitAt(ReadUp + i)
      BY <2>1
    <2> QED
      BY <2>2, <2>3, <2>4, Bounds DEF BridgeInit, TapInv
  <1>3. LinesInv
    <2>1. Come = <<>> /\ Len(Come) = 0
      BY DEF BridgeInit, Come
    <2>2. written = 0 /\ lines = <<>> /\ Len(lines) = 0
      BY DEF BridgeInit
    <2>3. Sent = 0
      <3>1. ReadUp = 0 - 0
        BY <2>1, <2>2 DEF ReadUp
      <3>2. ReadUp \div 2 = 0
        BY <3>1
      <3>3. Sent = 0 - 0
        BY <2>2, <3>2 DEF Sent
      <3> QED
        BY <3>3
    <2> QED
      BY <2>3 DEF BridgeInit, LinesInv
  <1>4. LinkInv
    <2>1. \A l \in (0 + 1)..MaxLinks : links[l].out = <<>>
      BY Bounds DEF BridgeInit, Fresh
    <2> QED
      BY <2>1, Bounds DEF BridgeInit, LinkInv, Backlog
  <1>5. WaitInv
    BY DEF BridgeInit, WaitInv
  <1>6. ASSUME NEW w \in Windows PROVE WinOk(w) /\ TextOk(w) /\ GotOk(w)
    <2>1. win[w] = Off
      BY DEF BridgeInit
    <2>2. win[w].state = "off" /\ win[w].got = <<>> /\ win[w].raw = <<>>
      BY <2>1 DEF Off
    <2> QED
      BY <2>2 DEF WinOk, TextOk, GotOk, Reads
  <1> QED
    BY <1>1, <1>2, <1>3, <1>4, <1>5, <1>6 DEF IInv, WinInv, TextInv, GotInv

-----------------------------------------------------------------------------
\* The inductive invariant holds in every run: of the pipe, the lines not yet forwarded,
\* the links and their two ends, and what each window has seen, has received and still gets.
THEOREM Invariant == BridgeSpec => []IInv
  <1>1. BridgeInit => IInv
    BY InitInv
  <1>2. IInv /\ [BridgeNext]_bridgeVars => IInv'
    BY Step
  <1> QED
    BY <1>1, <1>2, PTL DEF BridgeSpec

\* What a window shows are objects of the tap, whole and in order, and without a hole as
\* long as its link is up: whatever the pipe, the frames, the windows and the ends of links
\* do, and for any number of windows, lines and links and any size of the buffers.
THEOREM RowsAlwaysARun == BridgeSpec => []RowsAreARun
  <1>1. IInv => RowsAreARun
    BY DEF IInv, GotInv, GotOk, Silent, Objects, RowsAreARun
  <1> QED
    BY <1>1, Invariant, PTL

\* A text within a bound, as the type invariant puts it.
LEMMA SomeOf ==
  ASSUME NEW s \in Seq(Units), NEW c \in Nat, Len(s) <= c
  PROVE  s \in UNION {[1..k -> [line : 0..MaxLines, half : {1, 2}]] : k \in 0..c}
  <1> DEFINE k == Len(s)
  <1>1. k \in 0..c /\ s \in [1..k -> Units]
    OBVIOUS
  <1>2. [1..k -> Units] \in {[1..j -> Units] : j \in 0..c}
    BY <1>1
  <1> QED
    BY <1>1, <1>2 DEF Units, Lines

\* Type correctness of the bridge, and its bounds: of the pipe, of the part of a line, of the
\* backlog and of what is on its way to a window.
THEOREM TypeCorrect == BridgeSpec => []BridgeTypeOK
  <1>1. IInv => BridgeTypeOK
    <2> SUFFICES ASSUME IInv PROVE BridgeTypeOK
      OBVIOUS
    <2> TInv /\ TapInv /\ LinkInv
      BY DEF IInv
    <2> DEFINE some(n) == UNION {[1..k -> [line : 0..MaxLines, half : {1, 2}]] : k \in 0..n}
    <2>1. pipe \in some(PipeCap) /\ buf \in some(1)
      BY SomeOf, Bounds DEF TInv, TapInv
    <2>2. ASSUME NEW l \in 1..MaxLinks PROVE links[l].out \in some(SendCap)
      <3>1. links[l].out \in Seq(Units)
        BY DEF TInv, Links
      <3>2. Len(links[l].out) <= SendCap
        <4>1. CASE l \in 1..made
          BY <4>1 DEF LinkInv
        <4>2. CASE l \notin 1..made
          <5>1. l \in (made + 1)..MaxLinks
            BY <4>2 DEF TInv
          <5>2. links[l].out = <<>> /\ Len(<<>>) = 0
            BY <5>1 DEF LinkInv
          <5> QED
            BY <5>2, Bounds
        <4> QED
          BY <4>1, <4>2
      <3> QED
        BY <3>1, <3>2, SomeOf, Bounds
    <2>3. shaking \in 0..made /\ conn \in 0..made /\ made \in 0..MaxLinks /\ Len(backlog) <= Backlog
      BY Bounds DEF TInv, LinkInv
    <2>4. tapUp \in BOOLEAN /\ written \in 0..(2 * MaxLines) /\ ready \subseteq {"srv", "fd", "conn"}
      BY Bounds DEF TInv, TapInv
    <2>5. /\ pc \in {"select", "accept", "shake", "client", "read", "forward", "ended"}
          /\ \A w \in Windows :
                win[w].state \in {"off", "asking", "waiting", "hello", "on", "dead"}
      BY DEF TInv, Places, Wins, States
    <2> QED
      BY <2>1, <2>2, <2>3, <2>4, <2>5 DEF BridgeTypeOK
  <1> QED
    BY <1>1, Invariant, PTL

-----------------------------------------------------------------------------
(* The session window.  First, induction over the natural numbers, from the well-founded
   order on them: what holds of 0 and of n + 1 when of n, as membership of a set. *)

LEMMA NatSetInduction ==
  ASSUME NEW S, 0 \in S, \A n \in Nat : n \in S => n + 1 \in S
  PROVE  \A n \in Nat : n \in S
<1>1. SUFFICES ASSUME Nat \ S # {} PROVE FALSE
  OBVIOUS
<1> DEFINE R == OpToRel(<, Nat)
<1>2. PICK x \in Nat \ S : \A y \in Nat \ S : ~(<<y, x>> \in R)
  <2>1. IsWellFoundedOn(R, Nat)
    BY NatLessThanWellFounded
  <2>2. Nat \ S \subseteq Nat
    OBVIOUS
  <2> HIDE DEF R
  <2>q. QED
    BY <2>1, <2>2, <1>1, WFMin
<1>3. \A y \in Nat : y < x => <<y, x>> \in R
  BY DEF OpToRel
<1>4. x # 0
  OBVIOUS
<1>5. x - 1 \in Nat /\ x - 1 < x
  BY <1>4
<1>6. x - 1 \in S
  BY <1>2, <1>3, <1>5
<1>q. QED
  BY <1>5, <1>6

-----------------------------------------------------------------------------
(* Extremes *)

LEMMA LeastOf ==
  ASSUME NEW a \in Int, NEW c \in Int, NEW S \in SUBSET (a..c), S # {}
  PROVE  \E m \in S : \A y \in S : m <= y
<1>1. SUFFICES ASSUME \A m \in S : \E y \in S : y < m PROVE FALSE
  BY SMT
<1> DEFINE U == {n \in Nat : \A k \in 0..n : a + k \notin S}
<1>2. 0 \in U
  <2>1. a + 0 \notin S
    BY <1>1
  <2>q. QED
    BY <2>1
<1>3. ASSUME NEW n \in Nat, n \in U PROVE n + 1 \in U
  <2>1. \A k \in 0..n : a + k \notin S
    BY <1>3
  <2>2. a + (n + 1) \notin S
    <3>1. SUFFICES ASSUME a + (n + 1) \in S PROVE FALSE
      OBVIOUS
    <3>2. PICK y \in S : y < a + (n + 1)
      BY <1>1, <3>1
    <3>3. y \in Int /\ a <= y /\ y - a \in 0..n /\ a + (y - a) = y
      BY <3>2
    <3>q. QED
      BY <2>1, <3>2, <3>3
  <2>q. QED
    BY <2>1, <2>2
<1> HIDE DEF U
<1>4. \A n \in Nat : n \in U
  BY <1>2, <1>3, NatSetInduction
<1>5. PICK y : y \in S
  OBVIOUS
<1>6. y - a \in Nat /\ a + (y - a) = y
  BY <1>5
<1>q. QED
  BY <1>4, <1>5, <1>6 DEF U

LEMMA GreatestOf ==
  ASSUME NEW a \in Int, NEW c \in Int, NEW S \in SUBSET (a..c), S # {}
  PROVE  Max(S) \in S /\ \A y \in S : y <= Max(S)
<1> DEFINE T == {x \in (-c)..(-a) : -x \in S}
<1>1. T \in SUBSET ((-c)..(-a)) /\ T # {}
  <2>1. PICK y : y \in S
    OBVIOUS
  <2>2. -y \in T
    BY <2>1
  <2>q. QED
    BY <2>2
<1>2. -c \in Int /\ -a \in Int
  OBVIOUS
<1>3. PICK m \in T : \A y \in T : m <= y
  <2> HIDE DEF T
  <2>q. QED
    BY <1>1, <1>2, LeastOf
<1>4. -m \in S /\ \A y \in S : -m >= y
  <2>1. \A y \in S : -y \in T
    OBVIOUS
  <2>q. QED
    BY <1>3, <2>1
<1>5. \E x \in S : \A y \in S : x >= y
  BY <1>4
<1>6. Max(S) \in S /\ \A y \in S : Max(S) >= y
  BY <1>5 DEF Max
<1>q. QED
  BY <1>6

LEMMA Two ==
  ASSUME NEW a \in Int, NEW c \in Int
  PROVE  Max({a, c}) \in Int /\ Min({a, c}) \in Int
<1>1. \E x \in {a, c} : \A y \in {a, c} : x >= y
  OBVIOUS
<1>2. \E x \in {a, c} : \A y \in {a, c} : x <= y
  OBVIOUS
<1>q. QED
  BY <1>1, <1>2 DEF Max, Min

-----------------------------------------------------------------------------
(* The board and the commands on their way to it *)

\* f holds the board b after each of the first n commands.
IsRun(f, b, cmds, n) ==
  f = [k \in 0..n |-> IF k = 0 THEN b ELSE Obey(f[k - 1], cmds[k])]

LEMMA RunExists ==
  ASSUME NEW b, NEW cmds
  PROVE  \A n \in Nat : \E f : IsRun(f, b, cmds, n)
<1> DEFINE S == {n \in Nat : \E f : IsRun(f, b, cmds, n)}
<1>1. 0 \in S
  <2> DEFINE f == [k \in 0..0 |-> b]
  <2>1. IsRun(f, b, cmds, 0)
    BY DEF IsRun
  <2>q. QED
    BY <2>1
<1>2. ASSUME NEW n \in Nat, n \in S PROVE n + 1 \in S
  <2>1. PICK f : IsRun(f, b, cmds, n)
    BY <1>2
  <2> DEFINE h == [k \in 0..(n + 1) |-> IF k <= n THEN f[k] ELSE Obey(f[n], cmds[k])]
  <2>2. \A k \in 0..n : f[k] = IF k = 0 THEN b ELSE Obey(f[k - 1], cmds[k])
    BY <2>1, Zenon DEF IsRun
  <2>3. \A k \in 0..(n + 1) : h[k] = IF k = 0 THEN b ELSE Obey(h[k - 1], cmds[k])
    <3>1. ASSUME NEW k \in 0..(n + 1) PROVE h[k] = IF k = 0 THEN b ELSE Obey(h[k - 1], cmds[k])
      <4>1. CASE k = 0
        BY <4>1, <2>2
      <4>2. CASE k \in 1..n
        <5>1. k \in 0..n /\ k - 1 \in 0..n /\ k # 0
          BY <4>2
        <5>2. h[k] = f[k] /\ h[k - 1] = f[k - 1]
          BY <5>1
        <5>q. QED
          BY <5>1, <5>2, <2>2
      <4>3. CASE k = n + 1
        <5>1. h[k] = Obey(f[n], cmds[k]) /\ h[n] = f[n]
          BY <4>3
        <5>q. QED
          BY <4>3, <5>1
      <4>q. QED
        BY <4>1, <4>2, <4>3
    <3>q. QED
      BY <3>1
  <2>4. h = [k \in 0..(n + 1) |-> h[k]]
    BY Zenon
  <2>5. IsRun(h, b, cmds, n + 1)
    <3> HIDE DEF h
    <3>q. QED
      BY <2>3, <2>4 DEF IsRun
  <2>q. QED
    BY <2>5
<1> HIDE DEF S
<1>3. \A n \in Nat : n \in S
  BY <1>1, <1>2, NatSetInduction
<1>q. QED
  BY <1>3 DEF S

LEMMA ObeyedIs ==
  ASSUME NEW b, NEW cmds, Len(cmds) \in Nat
  PROVE  \E f : IsRun(f, b, cmds, Len(cmds)) /\ Obeyed(b, cmds) = f[Len(cmds)]
<1> DEFINE f == CHOOSE f : f = [k \in 0..Len(cmds) |-> IF k = 0 THEN b ELSE Obey(f[k - 1], cmds[k])]
<1>0. \E h : h = [k \in 0..Len(cmds) |-> IF k = 0 THEN b ELSE Obey(h[k - 1], cmds[k])]
  <2>1. PICK h : IsRun(h, b, cmds, Len(cmds))
    BY RunExists
  <2>q. QED
    BY <2>1 DEF IsRun
<1>1. IsRun(f, b, cmds, Len(cmds))
  BY <1>0, Zenon DEF IsRun
<1>2. Obeyed(b, cmds) = f[Len(cmds)]
  BY Zenon DEF Obeyed
<1>q. QED
  BY <1>1, <1>2

LEMMA RunSteps ==
  ASSUME NEW f, NEW b, NEW cmds, NEW n \in Nat, IsRun(f, b, cmds, n)
  PROVE  f[0] = b /\ \A k \in 1..n : f[k] = Obey(f[k - 1], cmds[k])
<1>1. \A k \in 0..n : f[k] = IF k = 0 THEN b ELSE Obey(f[k - 1], cmds[k])
  BY Zenon DEF IsRun
<1>q. QED
  BY <1>1

LEMMA ObeyedNone ==
  ASSUME NEW b
  PROVE  Obeyed(b, <<>>) = b
<1>1. Len(<<>>) = 0
  OBVIOUS
<1>2. PICK f : IsRun(f, b, <<>>, 0) /\ Obeyed(b, <<>>) = f[0]
  BY <1>1, ObeyedIs
<1>q. QED
  BY <1>2, RunSteps

\* One command more is one step more.
LEMMA ObeyedAppend ==
  ASSUME NEW X, NEW b, NEW cmds \in Seq(X), NEW c \in X
  PROVE  Obeyed(b, Append(cmds, c)) = Obey(Obeyed(b, cmds), c)
<1> DEFINE n == Len(cmds)  more == Append(cmds, c)
<1>1. /\ n \in Nat /\ Len(more) = n + 1 /\ more[n + 1] = c
      /\ \A k \in 1..n : more[k] = cmds[k]
  BY AppendProperties, LenProperties
<1>2. PICK f : IsRun(f, b, cmds, n) /\ Obeyed(b, cmds) = f[n]
  BY <1>1, ObeyedIs
<1>3. PICK h : IsRun(h, b, more, n + 1) /\ Obeyed(b, more) = h[n + 1]
  <2> HIDE DEF more, n
  <2>1. Len(more) \in Nat
    BY <1>1
  <2>q. QED
    BY <1>1, <2>1, ObeyedIs
<1> HIDE DEF more, n
<1>4. f[0] = b /\ \A k \in 1..n : f[k] = Obey(f[k - 1], cmds[k])
  BY <1>1, <1>2, RunSteps
<1>5. h[0] = b /\ \A k \in 1..(n + 1) : h[k] = Obey(h[k - 1], more[k])
  <2>1. n + 1 \in Nat
    BY <1>1
  <2>q. QED
    BY <1>3, <2>1, RunSteps
<1> DEFINE S == {k \in Nat : k <= n => h[k] = f[k]}
<1>6. 0 \in S
  BY <1>4, <1>5
<1>7. ASSUME NEW k \in Nat, k \in S PROVE k + 1 \in S
  <2>1. SUFFICES ASSUME k + 1 <= n PROVE h[k + 1] = f[k + 1]
    OBVIOUS
  <2>2. k + 1 \in 1..n /\ k + 1 \in 1..(n + 1) /\ (k + 1) - 1 = k /\ h[k] = f[k]
    BY <1>1, <1>7, <2>1
  <2>3. h[k + 1] = Obey(h[k], more[k + 1]) /\ f[k + 1] = Obey(f[k], cmds[k + 1])
    BY <1>4, <1>5, <2>2
  <2>q. QED
    BY <1>1, <2>2, <2>3
<1> HIDE DEF S
<1>8. n \in S
  BY <1>1, <1>6, <1>7, NatSetInduction
<1>9. h[n] = f[n]
  BY <1>1, <1>8 DEF S
<1>10. n + 1 \in 1..(n + 1) /\ (n + 1) - 1 = n
  BY <1>1
<1>11. h[n + 1] = Obey(h[n], c)
  BY <1>1, <1>5, <1>10
<1>q. QED
  BY <1>2, <1>3, <1>9, <1>11 DEF more

-----------------------------------------------------------------------------
(* The window and the board *)

Fields == {"path", "src", "live", "ready", "slider", "playing", "timer", "follow", "ws", "observe",
           "log", "client", "conn", "followPh", "helper", "shown", "syncing", "asking", "err",
           "out", "in"}

Commands == [op : {"session", "reset", "window", "inject", "garbled"}, n : Int, slot : Slots \cup {None},
             frames : SUBSET (Int \X (Files \cup {Live}))]
Answers == [op : {"published", "eof"}] \cup [op : {"need_window"}, slot : Slots, from : Int]

\* What the handlers ask of the fields.
Typed(g) ==
    /\ DOMAIN g = Fields
    /\ g.src \in Files \cup {None} /\ g.live \in Nat /\ g.slider \in Int
    /\ g.client \in {None, "open", "closed"}
    /\ g.helper.next \in Int /\ DOMAIN g.helper = {"base", "next"}
    /\ g.out \in Seq(Commands) /\ g.in \in Seq(Answers)

BoardTyped(b) ==
    /\ DOMAIN b = {"win", "declared", "playing"} /\ DOMAIN b.win = Slots /\ b.declared \in Int
    /\ \A s \in Slots : \A fr \in b.win[s] : fr[1] \in Int

\* The board b holds frames of the timeline of g only.
Holds(b, g) ==
    /\ b.declared <= Len0(g)
    /\ \A s \in Slots : \A fr \in b.win[s] : fr[1] < Len0(g) /\ fr[2] = SourceOf(g, fr[1])

\* ... and so it will when all that was sent has arrived, if no line of it was garbled.
Legible(g) == g.client = "open" /\ g.out # Garbled
BoardOk(b, g) == Legible(g) => Holds(Obeyed(b, g.out), g)

\* A window with a link shows it; one without a link does not play.
Linked(g) == g.client # None => g.conn
StopsIfGone(g) == g.client = None => ~g.playing

\* A handler that leaves the timeline alone takes the window from g to h.
Same(g, h) ==
    /\ Typed(h)
    /\ h.src = g.src /\ h.live = g.live /\ h.path = g.path /\ h.ws = g.ws /\ h.observe = g.observe
    /\ (Linked(g) => Linked(h)) /\ (StopsIfGone(g) => StopsIfGone(h))
Keeps(b, g, h) == Same(g, h) /\ (BoardOk(b, g) => BoardOk(b, h))

LEMMA KeepsSelf ==
  ASSUME NEW b, NEW g, Typed(g)
  PROVE  Keeps(b, g, g)
BY DEF Keeps, Same

LEMMA KeepsTrans ==
  ASSUME NEW b, NEW g, NEW h, NEW k, Keeps(b, g, h), Keeps(b, h, k)
  PROVE  Keeps(b, g, k)
BY DEF Keeps, Same

LEMMA KeepsTyped ==
  ASSUME NEW b, NEW g, NEW h, Keeps(b, g, h)
  PROVE  Typed(h) /\ Same(g, h)
BY DEF Keeps, Same

\* The timeline has its length, and depends on the source and the rows only.
LEMMA LenIsNat ==
  ASSUME NEW g, Typed(g)
  PROVE  Len0(g) \in Nat /\ Frames(g) \in Seq(BOOLEAN)
<1>1. (IF g.src = None THEN <<>> ELSE Content[g.src]) \in Seq(BOOLEAN)
  <2>1. <<>> \in Seq(BOOLEAN)
    OBVIOUS
  <2>2. g.src # None => Content[g.src] \in Seq(BOOLEAN)
    BY FilesAssumption DEF Typed
  <2>q. QED
    BY <2>1, <2>2
<1>2. [k \in 1..g.live |-> TRUE] \in Seq(BOOLEAN)
  <2>1. [k \in 1..g.live |-> TRUE] \in [1..g.live -> BOOLEAN] /\ g.live \in Nat
    BY DEF Typed
  <2>q. QED
    BY <2>1, SeqDef
<1>3. Frames(g) \in Seq(BOOLEAN)
  BY <1>1, <1>2, ConcatProperties DEF Frames
<1>q. QED
  BY <1>3, LenProperties DEF Len0

LEMMA SameTimeline ==
  ASSUME NEW g, NEW h, h.src = g.src, h.live = g.live
  PROVE  /\ Frames(h) = Frames(g) /\ Len0(h) = Len0(g)
         /\ \A k : SourceOf(h, k) = SourceOf(g, k) /\ Injectable(h, k) = Injectable(g, k)
BY DEF Frames, Len0, SourceOf, Injectable

LEMMA HoldsSame ==
  ASSUME NEW b, NEW g, NEW h, h.src = g.src, h.live = g.live, Holds(b, g)
  PROVE  Holds(b, h)
BY SameTimeline DEF Holds

\* Fields nobody but the user looks at.
LEMMA PlainKeeps ==
  ASSUME NEW b, NEW g, Typed(g), NEW h, Typed(h),
         h.src = g.src, h.live = g.live, h.path = g.path, h.ws = g.ws, h.observe = g.observe,
         h.client = g.client, h.conn = g.conn, h.out = g.out, h.playing = g.playing
  PROVE  Keeps(b, g, h)
<1>1. Same(g, h)
  BY DEF Same, Linked, StopsIfGone
<1>2. BoardOk(b, g) => BoardOk(b, h)
  BY HoldsSame DEF BoardOk, Legible
<1>q. QED
  BY <1>1, <1>2 DEF Keeps

\* A link that is gone asks nothing of the board.
LEMMA GoneKeeps ==
  ASSUME NEW b, NEW g, NEW h, Same(g, h), h.client # "open"
  PROVE  Keeps(b, g, h)
BY DEF Keeps, BoardOk, Legible

LEMMA PlainFields ==
  ASSUME NEW b, NEW g, Typed(g), NEW v
  PROVE  /\ Keeps(b, g, [g EXCEPT !.syncing = v]) /\ Keeps(b, g, [g EXCEPT !.asking = v])
         /\ Keeps(b, g, [g EXCEPT !.err = v]) /\ Keeps(b, g, [g EXCEPT !.shown = v])
         /\ Keeps(b, g, [g EXCEPT !.timer = v]) /\ Keeps(b, g, [g EXCEPT !.follow = v])
         /\ Keeps(b, g, [g EXCEPT !.followPh = v])
         /\ Keeps(b, g, [g EXCEPT !.log = v]) /\ Keeps(b, g, [g EXCEPT !.helper = NoHelper])
         /\ v \in Int => Keeps(b, g, [g EXCEPT !.slider = v])
         /\ v \in Seq(Answers) => Keeps(b, g, [g EXCEPT !.in = v])
<1>1. Keeps(b, g, [g EXCEPT !.syncing = v])
  BY PlainKeeps DEF Typed, Fields
<1>2. Keeps(b, g, [g EXCEPT !.asking = v])
  BY PlainKeeps DEF Typed, Fields
<1>3. Keeps(b, g, [g EXCEPT !.err = v])
  BY PlainKeeps DEF Typed, Fields
<1>4. Keeps(b, g, [g EXCEPT !.shown = v])
  BY PlainKeeps DEF Typed, Fields
<1>5. Keeps(b, g, [g EXCEPT !.timer = v])
  BY PlainKeeps DEF Typed, Fields
<1>6. Keeps(b, g, [g EXCEPT !.follow = v])
  BY PlainKeeps DEF Typed, Fields
<1>7. Keeps(b, g, [g EXCEPT !.followPh = v])
  BY PlainKeeps DEF Typed, Fields
<1>8. Keeps(b, g, [g EXCEPT !.log = v])
  BY PlainKeeps DEF Typed, Fields
<1>9. Keeps(b, g, [g EXCEPT !.helper = NoHelper])
  BY PlainKeeps DEF Typed, Fields, NoHelper
<1>10. v \in Int => Keeps(b, g, [g EXCEPT !.slider = v])
  BY PlainKeeps DEF Typed, Fields
<1>11. v \in Seq(Answers) => Keeps(b, g, [g EXCEPT !.in = v])
  BY PlainKeeps DEF Typed, Fields
<1>q. QED
  BY <1>1, <1>2, <1>3, <1>4, <1>5, <1>6, <1>7, <1>8, <1>9, <1>10, <1>11

-----------------------------------------------------------------------------
(* Sending *)

\* A command that fits the timeline of g.
FitsTimeline(g, c) ==
    /\ c \in Commands
    /\ c.op = "session" => c.n <= Len0(g)
    /\ c.op = "window" => \A fr \in c.frames : fr[1] < Len0(g) /\ fr[2] = SourceOf(g, fr[1])

LEMMA GarbledIsSent == Garbled \in Seq(Commands) /\ Garbled # <<>>
<1>1. Cmd("garbled") \in Commands
  BY DEF Cmd, Commands
<1>q. QED
  BY <1>1 DEF Garbled

LEMMA ObeyTyped ==
  ASSUME NEW b, BoardTyped(b), NEW c \in Commands
  PROVE  BoardTyped(Obey(b, c))
BY DEF BoardTyped, Obey, Commands

LEMMA ObeyHolds ==
  ASSUME NEW b, BoardTyped(b), NEW g, Holds(b, g), NEW c, FitsTimeline(g, c)
  PROVE  Holds(Obey(b, c), g)
<1>1. CASE c.op = "session"
  BY <1>1 DEF BoardTyped, Obey, Holds, FitsTimeline
<1>2. CASE c.op = "reset"
  BY <1>2 DEF BoardTyped, Obey, Holds, FitsTimeline
<1>3. CASE c.op = "window"
  BY <1>3 DEF BoardTyped, Obey, Holds, FitsTimeline
<1>4. CASE c.op = "inject"
  BY <1>4 DEF BoardTyped, Obey, Holds, FitsTimeline
<1>5. CASE c.op = "garbled"
  BY <1>5 DEF Obey
<1>q. QED
  BY <1>1, <1>2, <1>3, <1>4, <1>5 DEF FitsTimeline, Commands

LEMMA ObeyedTyped ==
  ASSUME NEW b, BoardTyped(b), NEW cmds \in Seq(Commands)
  PROVE  BoardTyped(Obeyed(b, cmds))
<1> DEFINE n == Len(cmds)
<1>1. n \in Nat /\ \A k \in 1..n : cmds[k] \in Commands
  BY LenProperties, ElementOfSeq
<1>2. PICK f : IsRun(f, b, cmds, n) /\ Obeyed(b, cmds) = f[n]
  BY <1>1, ObeyedIs
<1> HIDE DEF n
<1>3. f[0] = b /\ \A k \in 1..n : f[k] = Obey(f[k - 1], cmds[k])
  BY <1>1, <1>2, RunSteps
<1> DEFINE S == {k \in Nat : k <= n => BoardTyped(f[k])}
<1>4. 0 \in S
  BY <1>3
<1>5. ASSUME NEW k \in Nat, k \in S PROVE k + 1 \in S
  <2>1. SUFFICES ASSUME k + 1 <= n PROVE BoardTyped(f[k + 1])
    OBVIOUS
  <2>2. k + 1 \in 1..n /\ (k + 1) - 1 = k /\ BoardTyped(f[k])
    BY <1>1, <1>5, <2>1
  <2>3. f[k + 1] = Obey(f[k], cmds[k + 1]) /\ cmds[k + 1] \in Commands
    BY <1>1, <1>3, <2>2
  <2>q. QED
    BY <2>2, <2>3, ObeyTyped
<1> HIDE DEF S
<1>6. n \in S
  BY <1>1, <1>4, <1>5, NatSetInduction
<1>q. QED
  BY <1>1, <1>2, <1>6 DEF S

LEMMA ObeyedSend ==
  ASSUME NEW b, NEW g, Typed(g), NEW c \in Commands
  PROVE  Obeyed(b, Append(g.out, c)) = Obey(Obeyed(b, g.out), c)
<1>1. g.out \in Seq(Commands)
  BY DEF Typed
<1>q. QED
  BY <1>1, ObeyedAppend

\* What a send leaves: on a link that is still legible, the command after the others.
LEMMA SendLeaves ==
  ASSUME NEW g, Typed(g), NEW c \in Commands, NEW h \in Send(g, c)
  PROVE  /\ Same(g, h) /\ h.helper = g.helper
         /\ Legible(h) => Legible(g) /\ h.out = Append(g.out, c)
         /\ h.playing = g.playing /\ h.conn = g.conn /\ (h.client = None <=> g.client = None)
         /\ h.err => g.err \/ h.client # "open"
<1>1. Append(g.out, c) \in Seq(Commands)
  BY AppendProperties DEF Typed
<1>2. CASE g.client # "open"
  <2>1. h = [g EXCEPT !.err = TRUE]
    BY <1>2 DEF Send
  <2>q. QED
    BY <1>2, <2>1 DEF Typed, Fields, Same, Linked, StopsIfGone, Legible
<1>3. CASE g.client = "open" /\ g.out # Garbled /\ h = [g EXCEPT !.out = Append(g.out, c)]
  BY <1>1, <1>3 DEF Typed, Fields, Same, Linked, StopsIfGone, Legible
<1>4. CASE g.client = "open" /\ h = [g EXCEPT !.err = TRUE, !.client = "closed"]
  BY <1>4 DEF Typed, Fields, Same, Linked, StopsIfGone, Legible, None
<1>5. CASE g.client = "open" /\ h = [g EXCEPT !.out = Garbled]
  BY <1>5, GarbledIsSent DEF Typed, Fields, Same, Linked, StopsIfGone, Legible
<1>6. \/ g.client # "open"
      \/ /\ g.client = "open"
         /\ \/ g.out # Garbled /\ h = [g EXCEPT !.out = Append(g.out, c)]
            \/ h = [g EXCEPT !.out = Garbled]
            \/ h = [g EXCEPT !.err = TRUE, !.client = "closed"]
  BY DEF Send, Typed
<1>q. QED
  BY <1>2, <1>3, <1>4, <1>5, <1>6

LEMMA SendKeeps ==
  ASSUME NEW b, BoardTyped(b), NEW g, Typed(g), NEW c, FitsTimeline(g, c), NEW h \in Send(g, c)
  PROVE  Keeps(b, g, h)
<1>0. c \in Commands
  BY DEF FitsTimeline
<1>1. Same(g, h) /\ (Legible(h) => Legible(g) /\ h.out = Append(g.out, c))
  BY <1>0, SendLeaves
<1>2. ASSUME BoardOk(b, g), Legible(h) PROVE Holds(Obeyed(b, h.out), h)
  <2>1. h.out = Append(g.out, c) /\ Holds(Obeyed(b, g.out), g)
    BY <1>1, <1>2 DEF BoardOk
  <2>2. g.out \in Seq(Commands)
    BY DEF Typed
  <2>3. Obeyed(b, h.out) = Obey(Obeyed(b, g.out), c)
    BY <1>0, <2>1, <2>2, ObeyedAppend
  <2>4. Holds(Obeyed(b, h.out), g)
    BY <2>1, <2>2, <2>3, ObeyedTyped, ObeyHolds
  <2>q. QED
    BY <1>1, <2>4, HoldsSame DEF Same
<1>q. QED
  BY <1>1, <1>2 DEF Keeps, BoardOk

\* What is declared fits, and so does what declares it.
LEMMA DeclaredFits ==
  ASSUME NEW g, Typed(g), NEW h, h.src = g.src, h.live = g.live
  PROVE  FitsTimeline(h, [Cmd("session") EXCEPT !.n = Len0(g)]) /\ FitsTimeline(h, Cmd("reset"))
<1>1. Len0(h) = Len0(g) /\ Len0(g) \in Nat
  BY LenIsNat, SameTimeline
<1>q. QED
  BY <1>1 DEF FitsTimeline, Cmd, Commands

LEMMA ConfigureIs ==
  ASSUME NEW g, NEW h \in ConfigureSession(g)
  PROVE  \E x \in Send(g, [Cmd("session") EXCEPT !.n = Len0(g)]) :
           \/ x.err /\ h = x
           \/ ~x.err /\ \E y \in Send(x, Cmd("reset")) :
                \/ y.err /\ h = y
                \/ ~y.err /\ h = [y EXCEPT !.helper = NoHelper]
BY DEF ConfigureSession, Then

LEMMA ConfigureKeeps ==
  ASSUME NEW b, BoardTyped(b), NEW g, Typed(g), NEW h \in ConfigureSession(g)
  PROVE  Keeps(b, g, h)
<1>1. PICK x \in Send(g, [Cmd("session") EXCEPT !.n = Len0(g)]) :
         \/ x.err /\ h = x
         \/ ~x.err /\ \E y \in Send(x, Cmd("reset")) :
              \/ y.err /\ h = y
              \/ ~y.err /\ h = [y EXCEPT !.helper = NoHelper]
  BY ConfigureIs
<1>2. Keeps(b, g, x) /\ Typed(x) /\ Same(g, x)
  BY DeclaredFits, SendKeeps, KeepsTyped
<1>3. ASSUME NEW y \in Send(x, Cmd("reset")) PROVE Keeps(b, g, y) /\ Typed(y)
  <2>1. FitsTimeline(x, Cmd("reset"))
    BY <1>2, DeclaredFits
  <2>q. QED
    BY <1>2, <2>1, SendKeeps, KeepsTrans, KeepsTyped
<1>4. ASSUME NEW y \in Send(x, Cmd("reset")) PROVE Keeps(b, g, [y EXCEPT !.helper = NoHelper])
  BY <1>3, PlainFields, KeepsTrans
<1>q. QED
  BY <1>1, <1>2, <1>3, <1>4

\* A session declared anew leaves a board without frames of another one.
LEMMA ConfigureRebuilds ==
  ASSUME NEW b, BoardTyped(b), NEW g, Typed(g), ~g.err, NEW h \in ConfigureSession(g)
  PROVE  Same(g, h) /\ BoardOk(b, h)
<1> DEFINE session == [Cmd("session") EXCEPT !.n = Len0(g)]
           reset == Cmd("reset")
<1>0. /\ session \in Commands /\ session.op = "session" /\ session.n = Len0(g)
      /\ reset \in Commands /\ reset.op = "reset"
  BY LenIsNat DEF Cmd, Commands
<1>1. PICK x \in Send(g, session) :
         \/ x.err /\ h = x
         \/ ~x.err /\ \E y \in Send(x, reset) :
              \/ y.err /\ h = y
              \/ ~y.err /\ h = [y EXCEPT !.helper = NoHelper]
  BY ConfigureIs
<1> HIDE DEF session, reset
<1>2. /\ Same(g, x) /\ Typed(x)
      /\ Legible(x) => x.out = Append(g.out, session)
      /\ x.err => x.client # "open"
  BY <1>0, SendLeaves DEF Same
<1>3. ASSUME x.err, h = x PROVE Same(g, h) /\ BoardOk(b, h)
  BY <1>2, <1>3 DEF BoardOk, Legible
<1>4. ASSUME ~x.err, NEW y \in Send(x, reset)
      PROVE  /\ Same(g, y) /\ Typed(y) /\ BoardOk(b, y)
  <2>1. /\ Same(x, y) /\ Typed(y)
        /\ Legible(y) => Legible(x) /\ y.out = Append(x.out, reset)
    BY <1>0, <1>2, SendLeaves DEF Same
  <2>2. Same(g, y)
    BY <1>2, <2>1 DEF Same
  <2>3. ASSUME Legible(y) PROVE Holds(Obeyed(b, y.out), y)
    <3>1. /\ x.out = Append(g.out, session) /\ y.out = Append(x.out, reset)
          /\ g.out \in Seq(Commands) /\ x.out \in Seq(Commands)
      BY <1>2, <2>1, <2>3 DEF Typed
    <3>2. BoardTyped(Obeyed(b, g.out))
      BY <3>1, ObeyedTyped
    <3>3. Obeyed(b, x.out) = Obey(Obeyed(b, g.out), session)
      BY <1>0, <3>1, ObeyedAppend
    <3>4. Obeyed(b, y.out) = Obey(Obeyed(b, x.out), reset)
      <4>1. Obeyed(b, Append(x.out, reset)) = Obey(Obeyed(b, x.out), reset)
        BY <1>0, <1>2, ObeyedSend
      <4>q. QED
        BY <3>1, <4>1
    <3>5. /\ Obeyed(b, y.out).declared = Len0(g)
          /\ Obeyed(b, y.out).win = [s \in Slots |-> {}]
      BY <1>0, <3>2, <3>3, <3>4 DEF Obey, BoardTyped
    <3>6. Len0(y) = Len0(g) /\ Len0(g) \in Nat
      BY <2>2, SameTimeline, LenIsNat DEF Same
    <3>q. QED
      BY <3>5, <3>6 DEF Holds
  <2>q. QED
    BY <2>1, <2>2, <2>3 DEF BoardOk
<1>5. ASSUME ~x.err, NEW y \in Send(x, reset), h = [y EXCEPT !.helper = NoHelper]
      PROVE  Same(g, h) /\ BoardOk(b, h)
  <2>1. Keeps(b, y, h)
    BY <1>4, <1>5, PlainFields
  <2>q. QED
    BY <1>4, <1>5, <2>1 DEF Keeps, Same
<1>q. QED
  BY <1>1, <1>3, <1>4, <1>5

\* A window that is filled holds frames of the timeline.
LEMMA FillKeeps ==
  ASSUME NEW b, BoardTyped(b), NEW g, Typed(g), NEW slot \in Slots, NEW from \in Int,
         NEW h \in FillWindow(g, slot, from)
  PROVE  Keeps(b, g, h)
<1> DEFINE egos == {i \in from..(Len0(g) - 1) : Injectable(g, i)}
           taken == {i \in egos : Cardinality({j \in egos : j < i}) < WindowMax}
           next == IF Cardinality(egos) >= WindowMax THEN Max(taken) + 1 ELSE Len0(g)
           frames == {<<i, SourceOf(g, i)>> : i \in taken}
           window == [op |-> "window", n |-> 0, slot |-> slot, frames |-> frames]
<1>1. CASE from >= Len0(g)
  BY <1>1, KeepsSelf DEF FillWindow
<1>2. CASE ~(from >= Len0(g))
  <2>1. PICK x \in Send(g, window) :
           \/ x.err /\ h = x
           \/ ~x.err /\ h = [x EXCEPT !.helper.base[slot] = from, !.helper.next = next]
    BY <1>2 DEF FillWindow, Then
  <2>2. Len0(g) \in Nat
    BY LenIsNat
  <2>3. next \in Int
    <3>1. CASE Cardinality(egos) >= WindowMax
      <4>1. egos \in SUBSET (from..(Len0(g) - 1)) /\ from \in Int /\ Len0(g) - 1 \in Int
        BY <2>2
      <4>2. egos # {}
        <5>1. Cardinality({}) = 0 /\ ~(0 >= WindowMax)
          BY FS_EmptySet, BoundAssumption
        <5> HIDE DEF egos
        <5>q. QED
          BY <3>1, <5>1
      <4>3. PICK m \in egos : \A y \in egos : m <= y
        <5> HIDE DEF egos
        <5>q. QED
          BY <4>1, <4>2, LeastOf
      <4>4. {j \in egos : j < m} = {}
        BY <4>1, <4>3
      <4>5. m \in taken
        <5>1. Cardinality({j \in egos : j < m}) < WindowMax
          <6>1. Cardinality({}) = 0 /\ 0 < WindowMax
            BY FS_EmptySet, BoundAssumption
          <6> HIDE DEF egos
          <6>q. QED
            BY <4>4, <6>1
        <5> HIDE DEF egos
        <5>q. QED
          BY <4>3, <5>1
      <4>6. taken \in SUBSET (from..(Len0(g) - 1)) /\ taken # {}
        BY <4>1, <4>5
      <4>7. Max(taken) \in taken
        <5> HIDE DEF taken, egos
        <5>q. QED
          BY <4>1, <4>6, GreatestOf
      <4>8. Max(taken) \in Int
        <5> HIDE DEF taken, egos
        <5>q. QED
          BY <4>1, <4>6, <4>7
      <4>q. QED
        BY <3>1, <4>8
    <3>2. CASE ~(Cardinality(egos) >= WindowMax)
      BY <2>2, <3>2
    <3>q. QED
      BY <3>1, <3>2
  <2>4. FitsTimeline(g, window)
    <3>1. \A i \in taken : i \in Int /\ i < Len0(g) /\ SourceOf(g, i) \in Files \cup {Live}
      BY <2>2 DEF SourceOf, Typed
    <3> HIDE DEF taken
    <3>2. frames \in SUBSET (Int \X (Files \cup {Live}))
      BY <3>1
    <3>3. \A fr \in frames : fr[1] < Len0(g) /\ fr[2] = SourceOf(g, fr[1])
      BY <3>1
    <3> HIDE DEF frames
    <3>q. QED
      BY <3>2, <3>3 DEF FitsTimeline, Commands
  <2> HIDE DEF window, next
  <2>5. Keeps(b, g, x) /\ Typed(x)
    BY <2>4, SendKeeps, KeepsTyped
  <2>6. ASSUME h = [x EXCEPT !.helper.base[slot] = from, !.helper.next = next] PROVE Keeps(b, g, h)
    <3>1. Typed(h)
      BY <2>3, <2>5, <2>6 DEF Typed, Fields
    <3>2. Keeps(b, x, h)
      BY <2>5, <2>6, <3>1, PlainKeeps DEF Typed, Fields
    <3>q. QED
      BY <2>5, <3>2, KeepsTrans
  <2>q. QED
    BY <2>1, <2>5, <2>6
<1>q. QED
  BY <1>1, <1>2

LEMMA EnsureKeeps ==
  ASSUME NEW b, BoardTyped(b), NEW g, Typed(g), NEW i \in Int, NEW h \in EnsureWindows(g, i)
  PROVE  Keeps(b, g, h)
<1>1. PICK x \in FillWindow(g, "A", i) :
         \/ x.err /\ h = x
         \/ ~x.err /\ h \in (IF x.helper.next < Len0(x) THEN FillWindow(x, "B", x.helper.next) ELSE {x})
  BY DEF EnsureWindows, Then
<1>2. Keeps(b, g, x) /\ Typed(x)
  BY FillKeeps, KeepsTyped DEF Slots
<1>3. ASSUME h \in FillWindow(x, "B", x.helper.next) PROVE Keeps(b, g, h)
  <2>1. x.helper.next \in Int /\ "B" \in Slots
    BY <1>2 DEF Typed, Slots
  <2>2. Keeps(b, x, h)
    BY <1>2, <1>3, <2>1, FillKeeps
  <2>q. QED
    BY <1>2, <2>2, KeepsTrans
<1>q. QED
  BY <1>1, <1>2, <1>3

-----------------------------------------------------------------------------
(* Handlers *)

\* What Then makes of e.
Goes(e, h, S) == IF e.err THEN h = e ELSE h \in S

LEMMA DeclaredKeeps ==
  ASSUME NEW b, BoardTyped(b), NEW g, Typed(g),
         NEW h \in Then(ConfigureSession(g), LAMBDA s : EnsureWindows(s, 0))
  PROVE  Keeps(b, g, h)
<1>1. PICK c \in ConfigureSession(g) : h = c \/ h \in EnsureWindows(c, 0)
  BY DEF Then
<1>2. Keeps(b, g, c) /\ Typed(c)
  BY ConfigureKeeps, KeepsTyped
<1>3. 0 \in Int
  OBVIOUS
<1>q. QED
  BY <1>1, <1>2, <1>3, EnsureKeeps, KeepsTrans

LEMMA InjectFits ==
  ASSUME NEW g, NEW i \in Int
  PROVE  FitsTimeline(g, [Cmd("inject") EXCEPT !.n = i])
BY DEF FitsTimeline, Cmd, Commands

\* A disconnect takes the playback with it.
LEMMA DisconnectKeeps ==
  ASSUME NEW b, NEW g, Typed(g), NEW h \in DisconnectInject(g)
  PROVE  Keeps(b, g, h)
<1> DEFINE k == PausePlayback(g)
<1>1. Typed(k) /\ ~k.playing /\ k.src = g.src /\ k.live = g.live /\ k.path = g.path /\ k.ws = g.ws
      /\ k.observe = g.observe
  BY DEF PausePlayback, Typed, Fields
<1>2. h = [k EXCEPT !.client = None, !.helper = NoHelper, !.asking = FALSE,
                    !.conn = FALSE, !.followPh = FALSE, !.shown = FALSE]
  BY DEF DisconnectInject
<1> HIDE DEF k
<1>3. Same(g, h) /\ h.client = None
  BY <1>1, <1>2 DEF Same, Typed, Fields, Linked, StopsIfGone, NoHelper
<1>q. QED
  BY <1>3, GoneKeeps DEF None

LEMMA CaughtKeeps ==
  ASSUME NEW b, NEW g, Typed(g), NEW h \in DisconnectInject([g EXCEPT !.err = FALSE])
  PROVE  Keeps(b, g, h)
<1>1. Keeps(b, g, [g EXCEPT !.err = FALSE]) /\ Typed([g EXCEPT !.err = FALSE])
  BY PlainFields, KeepsTyped
<1>q. QED
  BY <1>1, DisconnectKeeps, KeepsTrans

LEMMA NothingPolls ==
  ASSUME NEW b, NEW g, Typed(g), NEW h \in PollNothing(g)
  PROVE  Keeps(b, g, h)
<1>1. CASE h = g
  BY <1>1, KeepsSelf
<1>2. CASE g.client = "open" /\ h = [g EXCEPT !.client = "closed", !.in = <<>>]
  <2>1. Same(g, h)
    BY <1>2 DEF Same, Typed, Fields, Linked, StopsIfGone, None
  <2>2. h.client = "closed"
    BY <1>2 DEF Typed, Fields
  <2>q. QED
    BY <2>1, <2>2, GoneKeeps
<1>q. QED
  BY <1>1, <1>2 DEF PollNothing

LEMMA CoverNothingKeeps ==
  ASSUME NEW b, BoardTyped(b), NEW g, Typed(g), NEW i \in Int, NEW h \in Cover(g, i, PollNothing)
  PROVE  Keeps(b, g, h)
<1>1. h = g \/ \E e \in EnsureWindows(g, i) : Goes(e, h, PollNothing(e))
  BY DEF Cover, Then, Goes
<1>2. ASSUME NEW e \in EnsureWindows(g, i), Goes(e, h, PollNothing(e)) PROVE Keeps(b, g, h)
  <2>1. Keeps(b, g, e) /\ Typed(e)
    BY EnsureKeeps, KeepsTyped
  <2>2. h = e \/ h \in PollNothing(e)
    BY <1>2 DEF Goes
  <2>q. QED
    BY <2>1, <2>2, NothingPolls, KeepsTrans
<1>q. QED
  BY <1>1, <1>2, KeepsSelf

LEMMA FrameNothingKeeps ==
  ASSUME NEW b, BoardTyped(b), NEW g, Typed(g), NEW i \in Int, NEW h \in SendFrame(g, i, PollNothing)
  PROVE  Keeps(b, g, h)
<1>1. h = g \/ \E e \in Send(g, [Cmd("inject") EXCEPT !.n = i]) : Goes(e, h, PollNothing(e))
  BY DEF SendFrame, Then, Goes
<1>2. ASSUME NEW e \in Send(g, [Cmd("inject") EXCEPT !.n = i]), Goes(e, h, PollNothing(e)) PROVE Keeps(b, g, h)
  <2>1. Keeps(b, g, e) /\ Typed(e)
    BY InjectFits, SendKeeps, KeepsTyped
  <2>2. h = e \/ h \in PollNothing(e)
    BY <1>2 DEF Goes
  <2>q. QED
    BY <2>1, <2>2, NothingPolls, KeepsTrans
<1>q. QED
  BY <1>1, <1>2, KeepsSelf

LEMMA InjectNothingKeeps ==
  ASSUME NEW b, BoardTyped(b), NEW g, Typed(g), NEW i \in Int, NEW h \in InjectSeekWith(g, i, PollNothing)
  PROVE  Keeps(b, g, h)
<1>1. \/ h = g
      \/ h = RecordResult(g)
      \/ \E c \in Catch(Then(Cover([g EXCEPT !.syncing = TRUE], i, PollNothing),
                               LAMBDA s : SendFrame(s, i, PollNothing)), DisconnectInject) :
           h = [c EXCEPT !.syncing = FALSE]
  BY DEF InjectSeekWith
<1>2. CASE h = RecordResult(g)
  BY <1>2, PlainFields DEF RecordResult
<1>3. ASSUME NEW c \in Catch(Then(Cover([g EXCEPT !.syncing = TRUE], i, PollNothing),
                                LAMBDA s : SendFrame(s, i, PollNothing)), DisconnectInject),
             h = [c EXCEPT !.syncing = FALSE]
      PROVE  Keeps(b, g, h)
  <2>1. PICK x \in Then(Cover([g EXCEPT !.syncing = TRUE], i, PollNothing),
                       LAMBDA s : SendFrame(s, i, PollNothing)) :
           c = x \/ c \in DisconnectInject([x EXCEPT !.err = FALSE])
    BY DEF Catch
  <2>2. PICK y \in Cover([g EXCEPT !.syncing = TRUE], i, PollNothing) : x = y \/ x \in SendFrame(y, i, PollNothing)
    BY <2>1 DEF Then
  <2>3. Keeps(b, g, [g EXCEPT !.syncing = TRUE]) /\ Typed([g EXCEPT !.syncing = TRUE])
    BY PlainFields, KeepsTyped
  <2>4. Keeps(b, g, y) /\ Typed(y)
    BY <2>2, <2>3, CoverNothingKeeps, KeepsTrans, KeepsTyped
  <2>5. Keeps(b, g, x) /\ Typed(x)
    BY <2>2, <2>4, FrameNothingKeeps, KeepsTrans, KeepsTyped
  <2>6. Keeps(b, g, c) /\ Typed(c)
    BY <2>1, <2>5, CaughtKeeps, KeepsTrans, KeepsTyped
  <2>7. Keeps(b, c, h)
    BY <1>3, <2>6, PlainFields
  <2>q. QED
    BY <2>6, <2>7, KeepsTrans
<1>q. QED
  BY <1>1, <1>2, <1>3, KeepsSelf

LEMMA SeekNothingKeeps ==
  ASSUME NEW b, BoardTyped(b), NEW g, Typed(g), NEW i \in Int, NEW h \in SeekWith(g, i, PollNothing)
  PROVE  Keeps(b, g, h)
<1> DEFINE at == Max({0, Min({i, Len0(g) - 1})})
<1>1. at \in Int
  <2>1. Len0(g) - 1 \in Int
    BY LenIsNat
  <2>2. Min({i, Len0(g) - 1}) \in Int
    BY <2>1, Two
  <2>q. QED
    BY <2>2, Two
<1>2. h = g \/ h \in InjectSeekWith([g EXCEPT !.slider = at], at, PollNothing)
  BY DEF SeekWith
<1> HIDE DEF at
<1>3. Keeps(b, g, [g EXCEPT !.slider = at]) /\ Typed([g EXCEPT !.slider = at])
  BY <1>1, PlainFields, KeepsTyped
<1>4. ASSUME h \in InjectSeekWith([g EXCEPT !.slider = at], at, PollNothing) PROVE Keeps(b, g, h)
  BY <1>1, <1>3, <1>4, InjectNothingKeeps, KeepsTrans
<1>q. QED
  BY <1>2, <1>4, KeepsSelf

LEMMA RedeclareNothingKeeps ==
  ASSUME NEW b, BoardTyped(b), NEW g, Typed(g), NEW h \in Redeclare(g, PollNothing)
  PROVE  Keeps(b, g, h)
<1>1. \/ h = g
      \/ \E y \in Then(ConfigureSession(g), LAMBDA s : EnsureWindows(s, 0)) : h = y \/ h \in PollNothing(y)
  BY DEF Redeclare, Then
<1>2. ASSUME NEW y \in Then(ConfigureSession(g), LAMBDA s : EnsureWindows(s, 0)) PROVE Keeps(b, g, y)
  BY DeclaredKeeps
<1>3. ASSUME NEW y \in Then(ConfigureSession(g), LAMBDA s : EnsureWindows(s, 0)), h \in PollNothing(y)
      PROVE  Keeps(b, g, h)
  BY <1>2, <1>3, NothingPolls, KeepsTrans, KeepsTyped
<1>q. QED
  BY <1>1, <1>2, <1>3, KeepsSelf

LEMMA StartNothingKeeps ==
  ASSUME NEW b, BoardTyped(b), NEW g, Typed(g), NEW h \in SeekToStart(g, PollNothing)
  PROVE  Keeps(b, g, h)
<1>1. \/ \E r \in SeekWith([g EXCEPT !.timer = FALSE], 0, PollNothing) : h = TimerOn(r)
      \/ h \in SeekWith(g, 0, PollNothing)
  BY DEF SeekToStart
<1>2. ASSUME NEW r \in SeekWith([g EXCEPT !.timer = FALSE], 0, PollNothing), h = TimerOn(r)
      PROVE  Keeps(b, g, h)
  <2>1. Keeps(b, g, [g EXCEPT !.timer = FALSE]) /\ Typed([g EXCEPT !.timer = FALSE])
    BY PlainFields, KeepsTyped
  <2>2. Keeps(b, g, r) /\ Typed(r)
    BY <2>1, SeekNothingKeeps, KeepsTrans, KeepsTyped
  <2>3. Keeps(b, r, h)
    BY <1>2, <2>2, PlainFields DEF TimerOn
  <2>q. QED
    BY <2>2, <2>3, KeepsTrans
<1>3. ASSUME h \in SeekWith(g, 0, PollNothing) PROVE Keeps(b, g, h)
  BY <1>3, SMT, SeekNothingKeeps
<1>q. QED
  BY <1>1, <1>2, <1>3

LEMMA RestartNothingKeeps ==
  ASSUME NEW b, BoardTyped(b), NEW g, Typed(g), NEW h \in RestartLoopWith(g, PollNothing)
  PROVE  Keeps(b, g, h)
<1>1. PICK s \in Redeclare([g EXCEPT !.shown = FALSE], PollNothing) :
         h \in DisconnectInject([s EXCEPT !.err = FALSE]) \/ h \in SeekToStart(s, PollNothing)
  BY DEF RestartLoopWith
<1>2. Keeps(b, g, [g EXCEPT !.shown = FALSE]) /\ Typed([g EXCEPT !.shown = FALSE])
  BY PlainFields, KeepsTyped
<1>3. Keeps(b, g, s) /\ Typed(s)
  BY <1>1, <1>2, RedeclareNothingKeeps, KeepsTrans, KeepsTyped
<1>4. Keeps(b, s, h)
  BY <1>1, <1>3, CaughtKeeps, StartNothingKeeps
<1>q. QED
  BY <1>3, <1>4, KeepsTrans

-----------------------------------------------------------------------------
(* What arrives *)

LEMMA NeedWindowKeeps ==
  ASSUME NEW b, BoardTyped(b), NEW g, Typed(g), NEW m, m.slot \in Slots, m.from \in Int,
         NEW h \in NeedWindow(g, m)
  PROVE  Keeps(b, g, h)
<1>1. \/ h = g
      \/ \E e \in FillWindow(g, m.slot, m.from) :
           h = e \/ h \in DisconnectInject([e EXCEPT !.err = FALSE])
  BY DEF NeedWindow, Catch
<1>2. ASSUME NEW e \in FillWindow(g, m.slot, m.from),
             h = e \/ h \in DisconnectInject([e EXCEPT !.err = FALSE])
      PROVE  Keeps(b, g, h)
  <2>1. Keeps(b, g, e) /\ Typed(e)
    BY FillKeeps, KeepsTyped
  <2>q. QED
    BY <1>2, <2>1, CaughtKeeps, KeepsTrans
<1>q. QED
  BY <1>1, <1>2, KeepsSelf

LEMMA EofKeeps ==
  ASSUME NEW b, BoardTyped(b), NEW g, Typed(g), NEW h \in Eof(g)
  PROVE  Keeps(b, g, h)
<1>1. \/ h = g
      \/ \E e \in RestartLoopWith([g EXCEPT !.asking = TRUE], PollNothing) :
           h = [e EXCEPT !.asking = FALSE]
  BY DEF Eof
<1>2. ASSUME NEW e \in RestartLoopWith([g EXCEPT !.asking = TRUE], PollNothing),
             h = [e EXCEPT !.asking = FALSE]
      PROVE  Keeps(b, g, h)
  <2>1. Keeps(b, g, [g EXCEPT !.asking = TRUE]) /\ Typed([g EXCEPT !.asking = TRUE])
    BY PlainFields, KeepsTyped
  <2>2. Keeps(b, g, e) /\ Typed(e)
    BY <2>1, RestartNothingKeeps, KeepsTrans, KeepsTyped
  <2>3. Keeps(b, e, h)
    BY <1>2, <2>2, PlainFields
  <2>q. QED
    BY <2>2, <2>3, KeepsTrans
<1>q. QED
  BY <1>1, <1>2, KeepsSelf

LEMMA MsgKeeps ==
  ASSUME NEW b, BoardTyped(b), NEW g, Typed(g), NEW m \in Answers, NEW h \in HandleMsg(g, m)
  PROVE  Keeps(b, g, h)
<1>1. CASE m.op = "published"
  <2>1. h = RecordResult(g)
    BY <1>1 DEF HandleMsg
  <2>q. QED
    BY <2>1, PlainFields DEF RecordResult
<1>2. CASE m.op = "need_window"
  <2>1. h \in NeedWindow(g, m) /\ m.slot \in Slots /\ m.from \in Int
    BY <1>2 DEF HandleMsg, Answers
  <2>q. QED
    BY <2>1, NeedWindowKeeps
<1>3. CASE m.op = "eof"
  <2>1. h \in Eof(g)
    BY <1>3 DEF HandleMsg
  <2>q. QED
    BY <2>1, EofKeeps
<1>q. QED
  BY <1>1, <1>2, <1>3 DEF Answers

\* f holds the states the window may be in after each of the first n answers.
IsPoll(f, g, n) ==
  f = [k \in 0..n |-> IF k = 0 THEN {[g EXCEPT !.in = <<>>]}
                      ELSE UNION {HandleMsg(s, g.in[k]) : s \in f[k - 1]}]

LEMMA PollExists ==
  ASSUME NEW g
  PROVE  \A n \in Nat : \E f : IsPoll(f, g, n)
<1> DEFINE S == {n \in Nat : \E f : IsPoll(f, g, n)}
           Next1(T, k) == UNION {HandleMsg(s, g.in[k]) : s \in T}
<1>1. 0 \in S
  <2> DEFINE f == [k \in 0..0 |-> {[g EXCEPT !.in = <<>>]}]
  <2>1. IsPoll(f, g, 0)
    BY DEF IsPoll
  <2>q. QED
    BY <2>1
<1>2. ASSUME NEW n \in Nat, n \in S PROVE n + 1 \in S
  <2>1. PICK f : IsPoll(f, g, n)
    BY <1>2
  <2> DEFINE h == [k \in 0..(n + 1) |-> IF k <= n THEN f[k] ELSE Next1(f[n], k)]
  <2>2. \A k \in 0..n : f[k] = IF k = 0 THEN {[g EXCEPT !.in = <<>>]} ELSE Next1(f[k - 1], k)
    BY <2>1, Zenon DEF IsPoll
  <2> HIDE DEF Next1
  <2>3. \A k \in 0..(n + 1) : h[k] = IF k = 0 THEN {[g EXCEPT !.in = <<>>]} ELSE Next1(h[k - 1], k)
    <3>1. ASSUME NEW k \in 0..(n + 1)
          PROVE  h[k] = IF k = 0 THEN {[g EXCEPT !.in = <<>>]} ELSE Next1(h[k - 1], k)
      <4>1. CASE k = 0
        BY <4>1, <2>2
      <4>2. CASE k \in 1..n
        <5>1. k \in 0..n /\ k - 1 \in 0..n /\ k # 0
          BY <4>2
        <5>2. h[k] = f[k] /\ h[k - 1] = f[k - 1]
          BY <5>1
        <5>q. QED
          BY <5>1, <5>2, <2>2
      <4>3. CASE k = n + 1
        <5>1. h[k] = Next1(f[n], k) /\ h[n] = f[n]
          BY <4>3
        <5>q. QED
          BY <4>3, <5>1
      <4>q. QED
        BY <4>1, <4>2, <4>3
    <3>q. QED
      BY <3>1
  <2>4. h = [k \in 0..(n + 1) |-> h[k]]
    BY Zenon
  <2>5. IsPoll(h, g, n + 1)
    <3>1. h = [k \in 0..(n + 1) |-> IF k = 0 THEN {[g EXCEPT !.in = <<>>]} ELSE Next1(h[k - 1], k)]
      <4> HIDE DEF h
      <4>q. QED
        BY <2>3, <2>4
    <3> HIDE DEF h
    <3>q. QED
      BY <3>1, Zenon DEF IsPoll, Next1
  <2>q. QED
    BY <2>5
<1> HIDE DEF S
<1>3. \A n \in Nat : n \in S
  BY <1>1, <1>2, NatSetInduction
<1>q. QED
  BY <1>3 DEF S

LEMMA HandleAllIs ==
  ASSUME NEW g, Len(g.in) \in Nat
  PROVE  \E f : IsPoll(f, g, Len(g.in)) /\ HandleAll(g) = f[Len(g.in)]
<1> DEFINE f == CHOOSE f : f = [k \in 0..Len(g.in) |->
                    IF k = 0 THEN {[g EXCEPT !.in = <<>>]}
                    ELSE UNION {HandleMsg(s, g.in[k]) : s \in f[k - 1]}]
<1>0. \E h : h = [k \in 0..Len(g.in) |->
                    IF k = 0 THEN {[g EXCEPT !.in = <<>>]}
                    ELSE UNION {HandleMsg(s, g.in[k]) : s \in h[k - 1]}]
  <2>1. PICK h : IsPoll(h, g, Len(g.in))
    BY PollExists
  <2>q. QED
    BY <2>1 DEF IsPoll
<1>1. IsPoll(f, g, Len(g.in))
  BY <1>0, Zenon DEF IsPoll
<1>2. HandleAll(g) = f[Len(g.in)]
  BY Zenon DEF HandleAll
<1>q. QED
  BY <1>1, <1>2

\* However many answers there are, and whatever each of them does to the window.
LEMMA HandleAllKeeps ==
  ASSUME NEW b, BoardTyped(b), NEW g, Typed(g), NEW h \in HandleAll(g)
  PROVE  Keeps(b, g, h)
<1> DEFINE n == Len(g.in)
<1>1. n \in Nat /\ \A k \in 1..n : g.in[k] \in Answers
  <2>1. g.in \in Seq(Answers)
    BY DEF Typed
  <2>q. QED
    BY <2>1, LenProperties, ElementOfSeq
<1>2. PICK f : IsPoll(f, g, n) /\ HandleAll(g) = f[n]
  BY <1>1, HandleAllIs
<1> HIDE DEF n
<1>3. \A k \in 0..n : f[k] = IF k = 0 THEN {[g EXCEPT !.in = <<>>]}
                             ELSE UNION {HandleMsg(s, g.in[k]) : s \in f[k - 1]}
  BY <1>2, Zenon DEF IsPoll
<1> DEFINE S == {k \in Nat : k <= n => \A x \in f[k] : Keeps(b, g, x)}
<1>4. 0 \in S
  <2>0. 0 \in 0..n
    BY <1>1
  <2>1. f[0] = {[g EXCEPT !.in = <<>>]}
    BY <1>3, <2>0, Zenon
  <2>2. <<>> \in Seq(Answers)
    OBVIOUS
  <2>3. Keeps(b, g, [g EXCEPT !.in = <<>>])
    BY <2>2, PlainFields
  <2>q. QED
    BY <2>1, <2>3
<1>5. ASSUME NEW k \in Nat, k \in S PROVE k + 1 \in S
  <2>1. SUFFICES ASSUME k + 1 <= n, NEW x \in f[k + 1] PROVE Keeps(b, g, x)
    OBVIOUS
  <2>2. k + 1 \in 1..n /\ k + 1 \in 0..n /\ k + 1 # 0 /\ (k + 1) - 1 = k
    BY <1>1, <2>1
  <2>3. PICK s \in f[k] : x \in HandleMsg(s, g.in[k + 1])
    <3>1. f[k + 1] = UNION {HandleMsg(s, g.in[k + 1]) : s \in f[(k + 1) - 1]}
      BY <1>3, <2>2, Zenon
    <3>2. x \in UNION {HandleMsg(s, g.in[k + 1]) : s \in f[k]}
      BY <2>1, <2>2, <3>1
    <3>q. QED
      BY <3>2, Zenon
  <2>4. Keeps(b, g, s) /\ Typed(s)
    BY <1>1, <1>5, <2>2, KeepsTyped
  <2>5. Keeps(b, s, x)
    BY <1>1, <2>2, <2>3, <2>4, MsgKeeps
  <2>q. QED
    BY <2>4, <2>5, KeepsTrans
<1> HIDE DEF S
<1>6. n \in S
  BY <1>1, <1>4, <1>5, NatSetInduction
<1>q. QED
  BY <1>1, <1>2, <1>6 DEF S

LEMMA AllPolls ==
  ASSUME NEW b, BoardTyped(b), NEW g, Typed(g), NEW h \in Poll(g)
  PROVE  Keeps(b, g, h)
BY HandleAllKeeps, NothingPolls DEF Poll

LEMMA EarlyPolls ==
  ASSUME NEW b, NEW g, Typed(g), NEW h \in PollEarly(g)
  PROVE  Keeps(b, g, h)
BY KeepsSelf DEF PollEarly

LEMMA CoverAllKeeps ==
  ASSUME NEW b, BoardTyped(b), NEW g, Typed(g), NEW i \in Int, NEW h \in Cover(g, i, Poll)
  PROVE  Keeps(b, g, h)
<1>1. h = g \/ \E e \in EnsureWindows(g, i) : Goes(e, h, Poll(e))
  BY DEF Cover, Then, Goes
<1>2. ASSUME NEW e \in EnsureWindows(g, i), Goes(e, h, Poll(e)) PROVE Keeps(b, g, h)
  <2>1. Keeps(b, g, e) /\ Typed(e)
    BY EnsureKeeps, KeepsTyped
  <2>2. h = e \/ h \in Poll(e)
    BY <1>2 DEF Goes
  <2>q. QED
    BY <2>1, <2>2, AllPolls, KeepsTrans
<1>q. QED
  BY <1>1, <1>2, KeepsSelf

LEMMA FrameAllKeeps ==
  ASSUME NEW b, BoardTyped(b), NEW g, Typed(g), NEW i \in Int, NEW h \in SendFrame(g, i, Poll)
  PROVE  Keeps(b, g, h)
<1>1. h = g \/ \E e \in Send(g, [Cmd("inject") EXCEPT !.n = i]) : Goes(e, h, Poll(e))
  BY DEF SendFrame, Then, Goes
<1>2. ASSUME NEW e \in Send(g, [Cmd("inject") EXCEPT !.n = i]), Goes(e, h, Poll(e)) PROVE Keeps(b, g, h)
  <2>1. Keeps(b, g, e) /\ Typed(e)
    BY InjectFits, SendKeeps, KeepsTyped
  <2>2. h = e \/ h \in Poll(e)
    BY <1>2 DEF Goes
  <2>q. QED
    BY <2>1, <2>2, AllPolls, KeepsTrans
<1>q. QED
  BY <1>1, <1>2, KeepsSelf

LEMMA InjectAllKeeps ==
  ASSUME NEW b, BoardTyped(b), NEW g, Typed(g), NEW i \in Int, NEW h \in InjectSeekWith(g, i, Poll)
  PROVE  Keeps(b, g, h)
<1>1. \/ h = g
      \/ h = RecordResult(g)
      \/ \E c \in Catch(Then(Cover([g EXCEPT !.syncing = TRUE], i, Poll),
                               LAMBDA s : SendFrame(s, i, Poll)), DisconnectInject) :
           h = [c EXCEPT !.syncing = FALSE]
  BY DEF InjectSeekWith
<1>2. CASE h = RecordResult(g)
  BY <1>2, PlainFields DEF RecordResult
<1>3. ASSUME NEW c \in Catch(Then(Cover([g EXCEPT !.syncing = TRUE], i, Poll),
                                LAMBDA s : SendFrame(s, i, Poll)), DisconnectInject),
             h = [c EXCEPT !.syncing = FALSE]
      PROVE  Keeps(b, g, h)
  <2>1. PICK x \in Then(Cover([g EXCEPT !.syncing = TRUE], i, Poll),
                       LAMBDA s : SendFrame(s, i, Poll)) :
           c = x \/ c \in DisconnectInject([x EXCEPT !.err = FALSE])
    BY DEF Catch
  <2>2. PICK y \in Cover([g EXCEPT !.syncing = TRUE], i, Poll) : x = y \/ x \in SendFrame(y, i, Poll)
    BY <2>1 DEF Then
  <2>3. Keeps(b, g, [g EXCEPT !.syncing = TRUE]) /\ Typed([g EXCEPT !.syncing = TRUE])
    BY PlainFields, KeepsTyped
  <2>4. Keeps(b, g, y) /\ Typed(y)
    BY <2>2, <2>3, CoverAllKeeps, KeepsTrans, KeepsTyped
  <2>5. Keeps(b, g, x) /\ Typed(x)
    BY <2>2, <2>4, FrameAllKeeps, KeepsTrans, KeepsTyped
  <2>6. Keeps(b, g, c) /\ Typed(c)
    BY <2>1, <2>5, CaughtKeeps, KeepsTrans, KeepsTyped
  <2>7. Keeps(b, c, h)
    BY <1>3, <2>6, PlainFields
  <2>q. QED
    BY <2>6, <2>7, KeepsTrans
<1>q. QED
  BY <1>1, <1>2, <1>3, KeepsSelf

LEMMA SeekAllKeeps ==
  ASSUME NEW b, BoardTyped(b), NEW g, Typed(g), NEW i \in Int, NEW h \in SeekWith(g, i, Poll)
  PROVE  Keeps(b, g, h)
<1> DEFINE at == Max({0, Min({i, Len0(g) - 1})})
<1>1. at \in Int
  <2>1. Len0(g) - 1 \in Int
    BY LenIsNat
  <2>2. Min({i, Len0(g) - 1}) \in Int
    BY <2>1, Two
  <2>q. QED
    BY <2>2, Two
<1>2. h = g \/ h \in InjectSeekWith([g EXCEPT !.slider = at], at, Poll)
  BY DEF SeekWith
<1> HIDE DEF at
<1>3. Keeps(b, g, [g EXCEPT !.slider = at]) /\ Typed([g EXCEPT !.slider = at])
  BY <1>1, PlainFields, KeepsTyped
<1>4. ASSUME h \in InjectSeekWith([g EXCEPT !.slider = at], at, Poll) PROVE Keeps(b, g, h)
  BY <1>1, <1>3, <1>4, InjectAllKeeps, KeepsTrans
<1>q. QED
  BY <1>2, <1>4, KeepsSelf

LEMMA RedeclareAllKeeps ==
  ASSUME NEW b, BoardTyped(b), NEW g, Typed(g), NEW h \in Redeclare(g, Poll)
  PROVE  Keeps(b, g, h)
<1>1. \/ h = g
      \/ \E y \in Then(ConfigureSession(g), LAMBDA s : EnsureWindows(s, 0)) : h = y \/ h \in Poll(y)
  BY DEF Redeclare, Then
<1>2. ASSUME NEW y \in Then(ConfigureSession(g), LAMBDA s : EnsureWindows(s, 0)) PROVE Keeps(b, g, y)
  BY DeclaredKeeps
<1>3. ASSUME NEW y \in Then(ConfigureSession(g), LAMBDA s : EnsureWindows(s, 0)), h \in Poll(y)
      PROVE  Keeps(b, g, h)
  BY <1>2, <1>3, AllPolls, KeepsTrans, KeepsTyped
<1>q. QED
  BY <1>1, <1>2, <1>3, KeepsSelf

LEMMA StartAllKeeps ==
  ASSUME NEW b, BoardTyped(b), NEW g, Typed(g), NEW h \in SeekToStart(g, Poll)
  PROVE  Keeps(b, g, h)
<1>1. \/ \E r \in SeekWith([g EXCEPT !.timer = FALSE], 0, Poll) : h = TimerOn(r)
      \/ h \in SeekWith(g, 0, Poll)
  BY DEF SeekToStart
<1>2. ASSUME NEW r \in SeekWith([g EXCEPT !.timer = FALSE], 0, Poll), h = TimerOn(r)
      PROVE  Keeps(b, g, h)
  <2>1. Keeps(b, g, [g EXCEPT !.timer = FALSE]) /\ Typed([g EXCEPT !.timer = FALSE])
    BY PlainFields, KeepsTyped
  <2>2. Keeps(b, g, r) /\ Typed(r)
    BY <2>1, SeekAllKeeps, KeepsTrans, KeepsTyped
  <2>3. Keeps(b, r, h)
    BY <1>2, <2>2, PlainFields DEF TimerOn
  <2>q. QED
    BY <2>2, <2>3, KeepsTrans
<1>3. ASSUME h \in SeekWith(g, 0, Poll) PROVE Keeps(b, g, h)
  BY <1>3, SMT, SeekAllKeeps
<1>q. QED
  BY <1>1, <1>2, <1>3

LEMMA RestartAllKeeps ==
  ASSUME NEW b, BoardTyped(b), NEW g, Typed(g), NEW h \in RestartLoopWith(g, Poll)
  PROVE  Keeps(b, g, h)
<1>1. PICK s \in Redeclare([g EXCEPT !.shown = FALSE], Poll) :
         h \in DisconnectInject([s EXCEPT !.err = FALSE]) \/ h \in SeekToStart(s, Poll)
  BY DEF RestartLoopWith
<1>2. Keeps(b, g, [g EXCEPT !.shown = FALSE]) /\ Typed([g EXCEPT !.shown = FALSE])
  BY PlainFields, KeepsTyped
<1>3. Keeps(b, g, s) /\ Typed(s)
  BY <1>1, <1>2, RedeclareAllKeeps, KeepsTrans, KeepsTyped
<1>4. Keeps(b, s, h)
  BY <1>1, <1>3, CaughtKeeps, StartAllKeeps
<1>q. QED
  BY <1>3, <1>4, KeepsTrans

LEMMA CoverEarlyKeeps ==
  ASSUME NEW b, BoardTyped(b), NEW g, Typed(g), NEW i \in Int, NEW h \in Cover(g, i, PollEarly)
  PROVE  Keeps(b, g, h)
<1>1. h = g \/ \E e \in EnsureWindows(g, i) : Goes(e, h, PollEarly(e))
  BY DEF Cover, Then, Goes
<1>2. ASSUME NEW e \in EnsureWindows(g, i), Goes(e, h, PollEarly(e)) PROVE Keeps(b, g, h)
  <2>1. Keeps(b, g, e) /\ Typed(e)
    BY EnsureKeeps, KeepsTyped
  <2>2. h = e \/ h \in PollEarly(e)
    BY <1>2 DEF Goes
  <2>q. QED
    BY <2>1, <2>2, EarlyPolls, KeepsTrans
<1>q. QED
  BY <1>1, <1>2, KeepsSelf

LEMMA FrameEarlyKeeps ==
  ASSUME NEW b, BoardTyped(b), NEW g, Typed(g), NEW i \in Int, NEW h \in SendFrame(g, i, PollEarly)
  PROVE  Keeps(b, g, h)
<1>1. h = g \/ \E e \in Send(g, [Cmd("inject") EXCEPT !.n = i]) : Goes(e, h, PollEarly(e))
  BY DEF SendFrame, Then, Goes
<1>2. ASSUME NEW e \in Send(g, [Cmd("inject") EXCEPT !.n = i]), Goes(e, h, PollEarly(e)) PROVE Keeps(b, g, h)
  <2>1. Keeps(b, g, e) /\ Typed(e)
    BY InjectFits, SendKeeps, KeepsTyped
  <2>2. h = e \/ h \in PollEarly(e)
    BY <1>2 DEF Goes
  <2>q. QED
    BY <2>1, <2>2, EarlyPolls, KeepsTrans
<1>q. QED
  BY <1>1, <1>2, KeepsSelf

LEMMA InjectEarlyKeeps ==
  ASSUME NEW b, BoardTyped(b), NEW g, Typed(g), NEW i \in Int, NEW h \in InjectSeekWith(g, i, PollEarly)
  PROVE  Keeps(b, g, h)
<1>1. \/ h = g
      \/ h = RecordResult(g)
      \/ \E c \in Catch(Then(Cover([g EXCEPT !.syncing = TRUE], i, PollEarly),
                               LAMBDA s : SendFrame(s, i, PollEarly)), DisconnectInject) :
           h = [c EXCEPT !.syncing = FALSE]
  BY DEF InjectSeekWith
<1>2. CASE h = RecordResult(g)
  BY <1>2, PlainFields DEF RecordResult
<1>3. ASSUME NEW c \in Catch(Then(Cover([g EXCEPT !.syncing = TRUE], i, PollEarly),
                                LAMBDA s : SendFrame(s, i, PollEarly)), DisconnectInject),
             h = [c EXCEPT !.syncing = FALSE]
      PROVE  Keeps(b, g, h)
  <2>1. PICK x \in Then(Cover([g EXCEPT !.syncing = TRUE], i, PollEarly),
                       LAMBDA s : SendFrame(s, i, PollEarly)) :
           c = x \/ c \in DisconnectInject([x EXCEPT !.err = FALSE])
    BY DEF Catch
  <2>2. PICK y \in Cover([g EXCEPT !.syncing = TRUE], i, PollEarly) : x = y \/ x \in SendFrame(y, i, PollEarly)
    BY <2>1 DEF Then
  <2>3. Keeps(b, g, [g EXCEPT !.syncing = TRUE]) /\ Typed([g EXCEPT !.syncing = TRUE])
    BY PlainFields, KeepsTyped
  <2>4. Keeps(b, g, y) /\ Typed(y)
    BY <2>2, <2>3, CoverEarlyKeeps, KeepsTrans, KeepsTyped
  <2>5. Keeps(b, g, x) /\ Typed(x)
    BY <2>2, <2>4, FrameEarlyKeeps, KeepsTrans, KeepsTyped
  <2>6. Keeps(b, g, c) /\ Typed(c)
    BY <2>1, <2>5, CaughtKeeps, KeepsTrans, KeepsTyped
  <2>7. Keeps(b, c, h)
    BY <1>3, <2>6, PlainFields
  <2>q. QED
    BY <2>6, <2>7, KeepsTrans
<1>q. QED
  BY <1>1, <1>2, <1>3, KeepsSelf

-----------------------------------------------------------------------------
(* The playhead *)

LEMMA SeekIndexKeeps ==
  ASSUME NEW b, BoardTyped(b), NEW g, Typed(g), NEW i \in Int, NEW h \in SeekIndex(g, i)
  PROVE  Keeps(b, g, h)
BY SeekAllKeeps DEF SeekIndex

LEMMA SetSliderKeeps ==
  ASSUME NEW b, BoardTyped(b), NEW g, Typed(g), NEW v \in Int, NEW h \in SetSlider(g, v)
  PROVE  Keeps(b, g, h)
<1> DEFINE moved == [g EXCEPT !.slider = v]
<1>1. \/ h = g
      \/ h \in SeekIndex([moved EXCEPT !.follow = FALSE], v)
      \/ h \in SeekIndex([moved EXCEPT !.follow = TRUE], v)
      \/ h \in SeekIndex(moved, v)
  BY DEF SetSlider
<1>2. Keeps(b, g, moved) /\ Typed(moved)
  BY PlainFields, KeepsTyped
<1> HIDE DEF moved
<1>3. ASSUME NEW f PROVE Keeps(b, g, [moved EXCEPT !.follow = f]) /\ Typed([moved EXCEPT !.follow = f])
  BY <1>2, PlainFields, KeepsTrans, KeepsTyped
<1>4. CASE h \in SeekIndex([moved EXCEPT !.follow = FALSE], v)
  BY <1>3, <1>4, SeekIndexKeeps, KeepsTrans
<1>5. CASE h \in SeekIndex([moved EXCEPT !.follow = TRUE], v)
  BY <1>3, <1>5, SeekIndexKeeps, KeepsTrans
<1>6. CASE h \in SeekIndex(moved, v)
  BY <1>2, <1>6, SeekIndexKeeps, KeepsTrans
<1>q. QED
  BY <1>1, <1>4, <1>5, <1>6, KeepsSelf

LEMMA FollowOnKeeps ==
  ASSUME NEW b, BoardTyped(b), NEW g, Typed(g), NEW h \in FollowOn(g)
  PROVE  Keeps(b, g, h)
<1> DEFINE on == [g EXCEPT !.follow = TRUE]
<1>1. h = g \/ h \in SeekIndex(on, Len0(g) - 1) \/ h = on
  BY DEF FollowOn
<1>2. Keeps(b, g, on) /\ Typed(on)
  BY PlainFields, KeepsTyped
<1>3. Len0(g) - 1 \in Int
  BY LenIsNat
<1> HIDE DEF on
<1>4. ASSUME h \in SeekIndex(on, Len0(g) - 1) PROVE Keeps(b, g, h)
  BY <1>2, <1>3, <1>4, SeekIndexKeeps, KeepsTrans
<1>q. QED
  BY <1>1, <1>2, <1>4, KeepsSelf

LEMMA JumpEndKeeps ==
  ASSUME NEW b, BoardTyped(b), NEW g, Typed(g), NEW h \in JumpEnd(g)
  PROVE  Keeps(b, g, h)
<1>1. PICK s : /\ s = g \/ s \in FollowOn(g)
               /\ h = s \/ h \in SetSlider(s, Len0(s) - 1)
  BY DEF JumpEnd, Then
<1>2. Keeps(b, g, s) /\ Typed(s)
  BY <1>1, FollowOnKeeps, KeepsSelf, KeepsTyped
<1>3. Len0(s) - 1 \in Int
  BY <1>2, LenIsNat
<1>4. ASSUME h \in SetSlider(s, Len0(s) - 1) PROVE Keeps(b, g, h)
  BY <1>2, <1>3, <1>4, SetSliderKeeps, KeepsTrans
<1>q. QED
  BY <1>1, <1>2, <1>4

-----------------------------------------------------------------------------
(* A new timeline *)

\* What a handler makes of g is window and board in agreement.
Renewed(b, g, h) ==
    /\ Typed(h) /\ Linked(h) /\ (StopsIfGone(g) => StopsIfGone(h)) /\ BoardOk(b, h)
    /\ h.src = g.src /\ h.live = g.live /\ h.path = g.path

LEMMA RenewedKeeps ==
  ASSUME NEW b, NEW g, NEW h, NEW k, Renewed(b, g, h), Keeps(b, h, k)
  PROVE  Renewed(b, g, k)
BY DEF Renewed, Keeps, Same

\* Whatever the board held of an earlier timeline, the session declared anew replaces it.
LEMMA ApplyModelRenews ==
  ASSUME NEW b, BoardTyped(b), NEW g, Typed(g), Linked(g), ~g.err, NEW h \in ApplyModel(g)
  PROVE  Renewed(b, g, h)
<1>1. PICK s : /\ \/ (~g.conn \/ g.client # "open") /\ s = g
                  \/ \E c \in ConfigureSession(g) :
                       \/ s = c
                       \/ s = [c EXCEPT !.shown = FALSE]
                       \/ s \in EnsureWindows([c EXCEPT !.shown = FALSE], 0)
               /\ h \in DisconnectInject([s EXCEPT !.err = FALSE]) \/ h \in SeekIndex(s, 0)
  BY DEF ApplyModel, Then
<1>2. Renewed(b, g, s)
  <2>1. CASE (~g.conn \/ g.client # "open") /\ s = g
    BY <2>1 DEF Renewed, Linked, BoardOk, Legible, None
  <2>2. ASSUME NEW c \in ConfigureSession(g),
               \/ s = c
               \/ s = [c EXCEPT !.shown = FALSE]
               \/ s \in EnsureWindows([c EXCEPT !.shown = FALSE], 0)
        PROVE  Renewed(b, g, s)
    <3>1. Same(g, c) /\ BoardOk(b, c)
      BY ConfigureRebuilds
    <3>2. Renewed(b, g, c) /\ Typed(c)
      BY <3>1 DEF Renewed, Same
    <3>3. Renewed(b, g, [c EXCEPT !.shown = FALSE]) /\ Typed([c EXCEPT !.shown = FALSE])
      BY <3>2, PlainFields, RenewedKeeps, KeepsTyped
    <3>4. ASSUME s \in EnsureWindows([c EXCEPT !.shown = FALSE], 0) PROVE Renewed(b, g, s)
      <4>1. Keeps(b, [c EXCEPT !.shown = FALSE], s)
        BY <3>3, <3>4, SMT, EnsureKeeps
      <4>q. QED
        BY <3>3, <4>1, RenewedKeeps
    <3>q. QED
      BY <2>2, <3>2, <3>3, <3>4
  <2>q. QED
    BY <1>1, <2>1, <2>2
<1>3. Typed(s)
  BY <1>2 DEF Renewed
<1>4. ASSUME h \in SeekIndex(s, 0) PROVE Keeps(b, s, h)
  BY <1>3, <1>4, SMT, SeekIndexKeeps
<1>5. Keeps(b, s, h)
  BY <1>1, <1>3, <1>4, CaughtKeeps
<1>q. QED
  BY <1>2, <1>5, RenewedKeeps

\* A row appended leaves the frames before it where they are.
LEMMA RowKeepsBoard ==
  ASSUME NEW b, BoardTyped(b), NEW g, Typed(g), NEW h, Typed(h),
         h.src = g.src, h.live = g.live + 1, Holds(b, g)
  PROVE  Holds(b, h)
<1> DEFINE old == IF g.src = None THEN <<>> ELSE Content[g.src]
<1>1. old \in Seq(BOOLEAN)
  <2>1. <<>> \in Seq(BOOLEAN)
    OBVIOUS
  <2>2. g.src # None => Content[g.src] \in Seq(BOOLEAN)
    BY FilesAssumption DEF Typed
  <2>q. QED
    BY <2>1, <2>2
<1>2. g.live \in Nat /\ h.live \in Nat
  BY DEF Typed
<1>3. ASSUME NEW n \in Nat PROVE [k \in 1..n |-> TRUE] \in Seq(BOOLEAN) /\ Len([k \in 1..n |-> TRUE]) = n
  <2>1. [k \in 1..n |-> TRUE] \in [1..n -> BOOLEAN] /\ DOMAIN [k \in 1..n |-> TRUE] = 1..n
    OBVIOUS
  <2>2. [k \in 1..n |-> TRUE] \in Seq(BOOLEAN)
    BY <2>1, SeqDef
  <2>q. QED
    BY <2>1, <2>2, LenProperties
<1>4. Frames(g) = old \o [k \in 1..g.live |-> TRUE] /\ Frames(h) = old \o [k \in 1..h.live |-> TRUE]
  BY DEF Frames
<1> HIDE DEF old
<1>5. Len(old) \in Nat /\ Len0(g) = Len(old) + g.live /\ Len0(h) = Len(old) + h.live
  BY <1>1, <1>2, <1>3, <1>4, ConcatProperties, LenProperties DEF Len0
<1>6. Len0(h) = Len0(g) + 1 /\ Len0(g) \in Nat
  BY <1>2, <1>5
<1>7. \A k : SourceOf(h, k) = SourceOf(g, k)
  BY DEF SourceOf
<1>8. b.declared <= Len0(h)
  BY <1>6 DEF Holds, BoardTyped
<1>9. \A s \in Slots : \A fr \in b.win[s] : fr[2] = SourceOf(h, fr[1]) /\ fr[1] < Len0(g)
  BY <1>7 DEF Holds
<1>10. \A s \in Slots : \A fr \in b.win[s] : fr[1] < Len0(h)
  BY <1>6, <1>9 DEF BoardTyped
<1>q. QED
  BY <1>8, <1>9, <1>10 DEF Holds

-----------------------------------------------------------------------------
(* The session *)

\* The window between handlers, and what is on its way in both directions.
Quiet == Typed(gui) /\ ~gui.err /\ inbox \in Seq(Answers) /\ wire \in Seq(Commands)

\* The board that has obeyed what is on the wire holds frames of the present timeline.
SessionInv == Quiet /\ BoardTyped(board) /\ Linked(gui) /\ (peer => BoardOk(board, G))

\* The steps that LiveKeepsOut and StopsWithLink ask for.
TimelineKept ==
    LET loaded == gui'.live = 0 /\ gui'.src \in Files /\ gui'.path
        grown == gui'.src = gui.src /\ gui'.live = gui.live + 1 /\ ~gui.observe
        wiped == ~gui.path /\ ~gui.conn /\ gui.ws = None
    IN <<gui.src, gui.live>>' # <<gui.src, gui.live>> => loaded \/ grown \/ wiped
PlaybackStops == gui.client # None /\ gui'.client = None => ~gui'.playing
Sound == SessionInv' /\ TimelineKept /\ PlaybackStops

\* What a handler may return.
Result(r) ==
    /\ Typed(r) /\ Linked(r)
    /\ peer => BoardOk(board, r)
    /\ gui.client # None => StopsIfGone(r)
    /\ \/ r.src = gui.src /\ r.live = gui.live
       \/ r.live = 0 /\ r.src \in Files /\ r.path
       \/ r.src = gui.src /\ r.live = gui.live + 1 /\ ~gui.observe
       \/ ~gui.path /\ ~gui.conn /\ gui.ws = None

LEMMA ResultKeeps ==
  ASSUME NEW g, Result(g), NEW h, Keeps(board, g, h)
  PROVE  Result(h)
BY DEF Result, Keeps, Same

LEMMA ResultPlain ==
  ASSUME NEW g, Result(g), NEW h, Typed(h),
         h.src = g.src, h.live = g.live, h.client = g.client, h.conn = g.conn, h.out = g.out,
         h.playing = g.playing,
         h.path = g.path \/ (g.src = gui.src /\ g.live = gui.live)
  PROVE  Result(h)
<1>1. peer => BoardOk(board, h)
  BY HoldsSame DEF Result, BoardOk, Legible
<1>q. QED
  BY <1>1 DEF Result, Linked, StopsIfGone

LEMMA StartOfHandler ==
  ASSUME SessionInv
  PROVE  /\ Typed(G) /\ Linked(G) /\ Result(G) /\ ~G.err
         /\ G.src = gui.src /\ G.live = gui.live /\ G.path = gui.path /\ G.ws = gui.ws
         /\ G.client = gui.client /\ G.conn = gui.conn /\ G.playing = gui.playing
         /\ G.observe = gui.observe /\ G.slider = gui.slider /\ G.ready = gui.ready
         /\ StopsIfGone(gui) => StopsIfGone(G)
<1>1. /\ Typed(G) /\ Linked(G) /\ ~G.err
      /\ G.src = gui.src /\ G.live = gui.live /\ G.path = gui.path /\ G.ws = gui.ws
      /\ G.client = gui.client /\ G.conn = gui.conn /\ G.playing = gui.playing
      /\ G.observe = gui.observe /\ G.slider = gui.slider /\ G.ready = gui.ready
  BY DEF SessionInv, Quiet, Typed, Fields, Linked, G
<1>2. Result(G) /\ (StopsIfGone(gui) => StopsIfGone(G))
  BY <1>1 DEF Result, SessionInv, StopsIfGone
<1>q. QED
  BY <1>1, <1>2

\* A handler that returns what it may leaves the session sound.
LEMMA RunSound ==
  ASSUME SessionInv, NEW S, \A r \in S : Result(r), Run(S)
  PROVE  Sound
<1>1. PICK r \in S :
         /\ gui' = [r EXCEPT !.err = FALSE, !.out = <<>>, !.in = <<>>]
         /\ wire' = IF r.client # "open" \/ ~peer THEN <<>> ELSE r.out
         /\ inbox' = IF r.client # "open" THEN <<>> ELSE r.in
         /\ \/ board' = board
            \/ wire' = Garbled /\ board' = [Idle EXCEPT !.playing = board.playing]
         /\ peer' = peer
  BY DEF Run
<1>2. Result(r)
  BY <1>1
<1>3. /\ DOMAIN gui' = Fields /\ ~gui'.err /\ gui'.src = r.src /\ gui'.live = r.live
      /\ gui'.path = r.path /\ gui'.client = r.client /\ gui'.conn = r.conn
      /\ gui'.playing = r.playing
  BY <1>1, <1>2 DEF Result, Typed, Fields
<1>4. Typed(gui')
  BY <1>1, <1>2 DEF Result, Typed, Fields
<1>5. inbox' \in Seq(Answers) /\ wire' \in Seq(Commands)
  <2>1. <<>> \in Seq(Answers) /\ <<>> \in Seq(Commands)
    OBVIOUS
  <2>q. QED
    BY <1>1, <1>2, <2>1 DEF Result, Typed
<1>6. Linked(gui')
  BY <1>2, <1>3 DEF Result, Linked
<1>7. ASSUME peer' PROVE BoardOk(board', G')
  <2>1. G' = [gui' EXCEPT !.in = inbox', !.out = wire']
    BY DEF G
  <2>2. G'.client = r.client /\ G'.src = r.src /\ G'.live = r.live /\ G'.out = wire'
    BY <1>3, <2>1 DEF Fields
  <2>3. Legible(G') => /\ Legible(r) /\ wire' = r.out /\ Holds(Obeyed(board, r.out), r)
                       /\ board' = board
    BY <1>1, <1>2, <1>7, <2>2 DEF Result, BoardOk, Legible
  <2>4. Legible(G') => Holds(Obeyed(board, r.out), G')
    BY <2>2, <2>3, HoldsSame
  <2>q. QED
    BY <1>1, <2>2, <2>3, <2>4 DEF BoardOk
<1>8. SessionInv'
  <2>1. BoardTyped([Idle EXCEPT !.playing = board.playing])
    BY DEF Idle, BoardTyped
  <2>2. BoardTyped(board')
    BY <1>1, <2>1 DEF SessionInv
  <2>q. QED
    BY <1>1, <1>3, <1>4, <1>5, <1>6, <1>7, <2>2 DEF SessionInv, Quiet
<1>9. TimelineKept
  BY <1>2, <1>3 DEF TimelineKept, Result
<1>10. PlaybackStops
  BY <1>2, <1>3 DEF PlaybackStops, Result, StopsIfGone
<1>q. QED
  BY <1>8, <1>9, <1>10 DEF Sound

\* A handler that leaves the timeline alone.
LEMMA KeeperSound ==
  ASSUME SessionInv, NEW S, \A r \in S : Keeps(board, G, r), Run(S)
  PROVE  Sound
<1>1. \A r \in S : Result(r)
  BY StartOfHandler, ResultKeeps
<1>q. QED
  BY <1>1, RunSound

LEMMA LoadFileResult ==
  ASSUME SessionInv, NEW g, Typed(g), Linked(g), ~g.err, gui.client # None => StopsIfGone(g), NEW f \in Files,
         NEW r \in LoadFile(g, f)
  PROVE  Result(r)
<1> DEFINE h == [Loaded(g, f) EXCEPT !.path = TRUE]
<1>2. r \in ApplyModel(h)
  BY DEF LoadFile
<1>0. h = [Loaded(g, f) EXCEPT !.path = TRUE]
  OBVIOUS
<1> HIDE DEF h
<1>1. /\ Typed(h) /\ h.src = f /\ h.live = 0 /\ h.path = TRUE /\ h.client = g.client
      /\ h.conn = g.conn /\ h.playing = g.playing /\ h.err = g.err
  <2>1. f \in Files \cup {None}
    OBVIOUS
  <2>q. QED
    BY <1>0, <2>1 DEF Loaded, Typed, Fields
<1>3. Renewed(board, h, r)
  BY <1>1, <1>2, ApplyModelRenews DEF Linked, SessionInv
<1>q. QED
  BY <1>1, <1>3 DEF Renewed, Result, StopsIfGone

LEMMA OpenSound ==
  ASSUME SessionInv, OpenSession \/ OpenSessionFails
  PROVE  Sound
<1>1. ASSUME NEW f \in Files, Run(LoadFile(G, f)) PROVE Sound
  <2>1. \A r \in LoadFile(G, f) : Result(r)
    BY StartOfHandler, LoadFileResult DEF StopsIfGone
  <2>q. QED
    BY <1>1, <2>1, RunSound
<1>2. ASSUME Run({[G EXCEPT !.path = TRUE]}) PROVE Sound
  <2>1. Typed([G EXCEPT !.path = TRUE])
    BY StartOfHandler DEF Typed, Fields
  <2>2. Result([G EXCEPT !.path = TRUE])
    BY <2>1, StartOfHandler, ResultPlain DEF Typed, Fields
  <2>q. QED
    BY <1>2, <2>2, RunSound
<1>q. QED
  BY <1>1, <1>2 DEF OpenSession, OpenSessionFails

LEMMA LoadProjectSound ==
  ASSUME SessionInv, LoadProject
  PROVE  Sound
<1>1. G.slider \in Int /\ BoardTyped(board) /\ Typed(G)
  BY StartOfHandler DEF Typed, SessionInv
<1>2. \A s \in SeekIndex(G, G.slider) : Keeps(board, G, s)
  BY <1>1, SeekIndexKeeps
<1>3. ASSUME NEW f \in Files, Run(Then(SeekIndex(G, G.slider), LAMBDA s : LoadFile(s, f)))
      PROVE  Sound
  <2>1. ASSUME NEW r \in Then(SeekIndex(G, G.slider), LAMBDA s : LoadFile(s, f)) PROVE Result(r)
    <3>1. PICK s \in SeekIndex(G, G.slider) :
             (s.err /\ r = s) \/ (~s.err /\ r \in LoadFile(s, f))
      BY DEF Then
    <3>2. Keeps(board, G, s) /\ Result(s)
      BY <1>2, StartOfHandler, ResultKeeps
    <3>3. Typed(s) /\ Linked(s) /\ (gui.client # None => StopsIfGone(s))
      BY <3>2 DEF Result
    <3>q. QED
      BY <3>1, <3>2, <3>3, LoadFileResult
  <2>q. QED
    BY <1>3, <2>1, RunSound
<1>q. QED
  BY <1>2, <1>3, KeeperSound DEF LoadProject

LEMMA ConnectLiveSound ==
  ASSUME SessionInv, ConnectLive
  PROVE  Sound
<1> DEFINE keep == Preserve(gui)
           g == [G EXCEPT !.observe = keep, !.follow = @ /\ ~Sync(G) /\ ~keep]
           begun == IF keep THEN {g} ELSE MemorySession(g)
<1>1. Result(g) /\ Typed(g) /\ Linked(g) /\ ~g.err /\ (gui.client # None => StopsIfGone(g))
  <2>1. Typed(g)
    BY StartOfHandler DEF Typed, Fields
  <2>2. /\ g.src = G.src /\ g.live = G.live /\ g.path = G.path /\ g.client = G.client
        /\ g.conn = G.conn /\ g.playing = G.playing /\ g.err = G.err /\ g.out = G.out
    BY StartOfHandler DEF Typed, Fields
  <2> HIDE DEF g
  <2>3. Result(g)
    BY <2>1, <2>2, StartOfHandler, ResultPlain
  <2>q. QED
    BY <2>1, <2>2, <2>3, StartOfHandler DEF Result
<1>2. gui.ws = None
  BY DEF ConnectLive
<1>3. ASSUME NEW s \in begun PROVE Result(s)
  <2>1. CASE keep
    BY <2>1, <1>1, <1>3
  <2>2. CASE ~keep
    <3> DEFINE h == [Loaded(g, None) EXCEPT !.log = NoLog, !.path = FALSE]
    <3>1. s \in ApplyModel(h)
      BY <1>3, <2>2 DEF MemorySession
    <3>0. h = [Loaded(g, None) EXCEPT !.log = NoLog, !.path = FALSE]
      OBVIOUS
    <3> HIDE DEF h, g
    <3>2. /\ Typed(h) /\ h.client = g.client /\ h.conn = g.conn /\ h.playing = g.playing
          /\ h.err = g.err
      <4>1. None \in Files \cup {None}
        OBVIOUS
      <4>q. QED
        BY <1>1, <3>0, <4>1 DEF Loaded, Typed, Fields, NoLog
    <3>3. Linked(h) /\ (gui.client # None => StopsIfGone(h))
      BY <1>1, <3>2 DEF Linked, StopsIfGone
    <3>4. Renewed(board, h, s)
      BY <1>1, <3>1, <3>2, <3>3, ApplyModelRenews DEF SessionInv
    <3>5. ~gui.path /\ ~gui.conn
      BY <2>2 DEF Preserve
    <3>q. QED
      BY <1>2, <3>3, <3>4, <3>5 DEF Renewed, Result
  <2>q. QED
    BY <2>1, <2>2
<1>4. \/ Run({[s EXCEPT !.ws = "open"] : s \in begun})
      \/ Run({[s EXCEPT !.observe = FALSE, !.log = NoLog] : s \in begun})
  BY DEF ConnectLive
<1> HIDE DEF begun, g, keep
<1>5. ASSUME NEW s \in begun
      PROVE  Result([s EXCEPT !.ws = "open"]) /\ Result([s EXCEPT !.observe = FALSE, !.log = NoLog])
  <2>1. Result(s) /\ Typed(s)
    BY <1>3 DEF Result
  <2>2. Typed([s EXCEPT !.ws = "open"]) /\ Typed([s EXCEPT !.observe = FALSE, !.log = NoLog])
    BY <2>1 DEF Typed, Fields
  <2>3. Result([s EXCEPT !.ws = "open"])
    BY <2>1, <2>2, ResultPlain DEF Typed, Fields
  <2>4. Result([s EXCEPT !.observe = FALSE, !.log = NoLog])
    BY <2>1, <2>2, ResultPlain DEF Typed, Fields
  <2>q. QED
    BY <2>3, <2>4
<1>6. CASE Run({[s EXCEPT !.ws = "open"] : s \in begun})
  <2>1. \A r \in {[s EXCEPT !.ws = "open"] : s \in begun} : Result(r)
    BY <1>5
  <2>q. QED
    BY <1>6, <2>1, RunSound
<1>7. CASE Run({[s EXCEPT !.observe = FALSE, !.log = NoLog] : s \in begun})
  <2>1. \A r \in {[s EXCEPT !.observe = FALSE, !.log = NoLog] : s \in begun} : Result(r)
    BY <1>5
  <2>q. QED
    BY <1>7, <2>1, RunSound
<1>q. QED
  BY <1>4, <1>6, <1>7

\* The fields of a recording.
LEMMA DisconnectLiveSound ==
  ASSUME SessionInv, DisconnectLive
  PROVE  Sound
<1>1. Typed(LiveOff(G))
  BY StartOfHandler DEF LiveOff, Typed, Fields
<1>2. Result(LiveOff(G))
  BY <1>1, StartOfHandler, ResultPlain DEF LiveOff, Typed, Fields
<1>q. QED
  BY <1>2, RunSound DEF DisconnectLive

LEMMA ToggleRecordSound ==
  ASSUME SessionInv, ToggleRecord
  PROVE  Sound
<1>1. Typed(StartRecord(G)) /\ Typed(StopRecord(G))
  BY StartOfHandler DEF StartRecord, StopRecord, Typed, Fields
<1>2. Result(StartRecord(G))
  BY <1>1, StartOfHandler, ResultPlain DEF StartRecord, Typed, Fields
<1>3. Result(StopRecord(G))
  BY <1>1, StartOfHandler, ResultPlain DEF StopRecord, Typed, Fields
<1>4. Run({StartRecord(G)}) \/ Run({StopRecord(G)})
  BY DEF ToggleRecord
<1>q. QED
  BY <1>2, <1>3, <1>4, RunSound

LEMMA WsTickSound ==
  ASSUME SessionInv, WsTick
  PROVE  Sound
<1> DEFINE g == IF gui.observe THEN G ELSE EnsureMeta(G)
           kept == [g EXCEPT !.log.rows = @ \/ g.log.on]
           grown == [kept EXCEPT !.live = @ + 1]
           last == Len0(grown) - 1
<1>1. Typed(g) /\ /\ g.src = G.src /\ g.live = G.live /\ g.path = G.path /\ g.client = G.client
      /\ g.conn = G.conn /\ g.playing = G.playing /\ g.out = G.out /\ g.observe = G.observe
  BY StartOfHandler DEF EnsureMeta, Typed, Fields
<1> HIDE DEF g
<1>2. Typed(kept) /\ /\ kept.src = G.src /\ kept.live = G.live /\ kept.path = G.path
      /\ kept.client = G.client /\ kept.conn = G.conn /\ kept.playing = G.playing
      /\ kept.out = G.out /\ kept.observe = G.observe
  BY <1>1 DEF Typed, Fields
<1>3. Run(IF g.observe THEN {kept} ELSE AppendRow(kept))
  BY DEF WsTick, g
<1> HIDE DEF kept
<1>4. Result(kept)
  BY <1>2, StartOfHandler, ResultPlain
<1>5. CASE g.observe
  BY <1>3, <1>4, <1>5, RunSound
<1>6. CASE ~g.observe
  <2>1. /\ Typed(grown) /\ grown.src = G.src /\ grown.live = G.live + 1
        /\ grown.client = G.client /\ grown.conn = G.conn /\ grown.playing = G.playing
        /\ grown.out = G.out
    BY <1>2 DEF Typed, Fields
  <2>2. \A r \in AppendRow(kept) : r = grown \/ r \in SeekIndex(grown, last) \/ r = [grown EXCEPT !.slider = last]
    BY DEF AppendRow
  <2> HIDE DEF grown
  <2>3. last \in Int
    BY <2>1, LenIsNat
  <2> HIDE DEF last
  <2>4. Result(grown)
    <3>1. peer => BoardOk(board, grown)
      <4>1. SUFFICES ASSUME peer, Legible(grown) PROVE Holds(Obeyed(board, grown.out), grown)
        BY DEF BoardOk
      <4>2. Holds(Obeyed(board, G.out), G) /\ Typed(G) /\ G.out \in Seq(Commands)
        BY <2>1, <4>1, StartOfHandler DEF Result, BoardOk, Legible, Typed
      <4>3. BoardTyped(Obeyed(board, G.out))
        BY <4>2, ObeyedTyped DEF SessionInv
      <4>q. QED
        BY <2>1, <4>2, <4>3, RowKeepsBoard
    <3>2. G.src = gui.src /\ G.live = gui.live /\ ~gui.observe
      BY <1>1, <1>6, StartOfHandler
    <3>3. Linked(grown) /\ (gui.client # None => StopsIfGone(grown))
      BY <2>1, StartOfHandler DEF Linked, StopsIfGone
    <3>q. QED
      BY <2>1, <3>1, <3>2, <3>3 DEF Result
  <2>5. Result([grown EXCEPT !.slider = last])
    BY <2>1, <2>3, <2>4, PlainFields, ResultKeeps
  <2>6. ASSUME NEW r \in SeekIndex(grown, last) PROVE Result(r)
    BY <2>1, <2>3, <2>4, <2>6, SeekIndexKeeps, ResultKeeps DEF SessionInv
  <2>7. \A r \in AppendRow(kept) : Result(r)
    BY <2>2, <2>4, <2>5, <2>6
  <2>q. QED
    BY <1>3, <1>6, <2>7, RunSound
<1>q. QED
  BY <1>5, <1>6

LEMMA InjectTickSound ==
  ASSUME SessionInv, InjectTick \/ UserDisconnects
  PROVE  Sound
<1>1. BoardTyped(board) /\ Typed(G)
  BY StartOfHandler DEF SessionInv
<1>2. \A r \in DisconnectInject(G) : Keeps(board, G, r)
  BY <1>1, DisconnectKeeps
<1>3. \A r \in OnInjectTick(G) : Keeps(board, G, r)
  BY <1>1, <1>2, AllPolls DEF OnInjectTick
<1>q. QED
  BY <1>2, <1>3, KeeperSound DEF InjectTick, UserDisconnects

LEMMA TogglePlayheadSound ==
  ASSUME SessionInv, ToggleFollowPlayhead
  PROVE  Sound
<1> DEFINE on == [G EXCEPT !.followPh = TRUE, !.follow = FALSE]
<1>1. BoardTyped(board) /\ Typed(G)
  BY StartOfHandler DEF SessionInv
<1>2. Keeps(board, G, on) /\ Typed(on)
  <2>1. Typed(on)
    BY <1>1 DEF Typed, Fields
  <2>2. Keeps(board, G, on)
    BY <1>1, <2>1, PlainKeeps DEF Typed, Fields
  <2>q. QED
    BY <2>1, <2>2
<1>3. Keeps(board, G, [G EXCEPT !.followPh = FALSE])
  BY <1>1, PlainFields
<1>4. \/ Run({[G EXCEPT !.followPh = FALSE]})
      \/ Run({on})
      \/ Run(InjectSeek(on, on.slider))
  BY DEF ToggleFollowPlayhead
<1> HIDE DEF on
<1>5. on.slider \in Int
  BY <1>2 DEF Typed
<1>6. \A r \in InjectSeek(on, on.slider) : Keeps(board, G, r)
  BY <1>1, <1>2, <1>5, InjectAllKeeps, KeepsTrans DEF InjectSeek
<1>q. QED
  BY <1>2, <1>3, <1>4, <1>6, KeeperSound

\* Playing is switched on or off; the link is left alone.
LEMMA TogglePlayResult ==
  ASSUME SessionInv
  PROVE  Result(TogglePlay(G))
<1> DEFINE h == TogglePlay(G)
<1>1. Typed(G)
  BY StartOfHandler
<1>2. /\ Typed(h) /\ h.src = G.src /\ h.live = G.live /\ h.path = G.path /\ h.client = G.client
      /\ h.conn = G.conn /\ h.out = G.out
  BY <1>1 DEF TogglePlay, Typed, Fields
<1> HIDE DEF h
<1>3. peer => BoardOk(board, h)
  BY <1>2, StartOfHandler, HoldsSame DEF Result, BoardOk, Legible
<1>4. Result(h)
  BY <1>2, <1>3, StartOfHandler DEF Result, Linked, StopsIfGone
<1>q. QED
  BY <1>4 DEF h

LEMMA PlayTickSound ==
  ASSUME SessionInv, PlayTick \/ UserPlays
  PROVE  Sound
<1>1. BoardTyped(board) /\ Typed(G)
  BY StartOfHandler DEF SessionInv
<1>2. G.slider + 1 \in Int
  BY <1>1 DEF Typed
<1>3. \A r \in SetSlider(G, G.slider + 1) : Result(r)
  BY <1>1, <1>2, SetSliderKeeps, StartOfHandler, ResultKeeps
<1>4. \A r \in RestartLoop(G) : Result(r)
  BY <1>1, RestartAllKeeps, StartOfHandler, ResultKeeps DEF RestartLoop
<1>5. \A r \in Tick(G) : r = TogglePlay(G) \/ r \in SetSlider(G, G.slider + 1) \/ r \in RestartLoop(G)
  BY DEF Tick
<1>6. \A r \in Tick(G) : Result(r)
  BY <1>3, <1>4, <1>5, TogglePlayResult
<1>7. \A r \in {TogglePlay(G)} : Result(r)
  BY TogglePlayResult
<1>q. QED
  BY <1>6, <1>7, RunSound DEF PlayTick, UserPlays

LEMMA PlayheadSound ==
  ASSUME SessionInv,
         \/ ToggleFollow \/ Drag \/ StepBack \/ JumpStart \/ UserJumpsToEnd \/ SeekTo
  PROVE  Sound
<1> DEFINE off == [G EXCEPT !.follow = FALSE]
<1>1. BoardTyped(board) /\ Typed(G)
  BY StartOfHandler DEF SessionInv
<1>2. Keeps(board, G, off) /\ Typed(off) /\ off.slider \in Int /\ off.slider - 1 \in Int /\ 0 \in Int
  <2>1. Keeps(board, G, off)
    BY <1>1, PlainFields
  <2> HIDE DEF off
  <2>2. Typed(off)
    BY <2>1, KeepsTyped
  <2>3. off.slider \in Int
    BY <2>2 DEF Typed
  <2>q. QED
    BY <2>1, <2>2, <2>3
<1>3. \A i \in 0..(Len0(gui) - 1) : i \in Int
  OBVIOUS
<1> HIDE DEF off
<1>4. ASSUME NEW i \in Int
      PROVE  /\ \A r \in SetSlider(G, i) : Keeps(board, G, r)
             /\ \A r \in SetSlider(off, i) : Keeps(board, G, r)
             /\ \A r \in SeekIndex(G, i) : Keeps(board, G, r)
             /\ \A r \in SeekIndex(off, i) : Keeps(board, G, r)
  BY <1>1, <1>2, SetSliderKeeps, SeekIndexKeeps, KeepsTrans
<1>5. CASE ToggleFollow
  <2>1. Run({off}) \/ Run(FollowOn(G))
    BY <1>5 DEF ToggleFollow, off
  <2>2. (\A r \in {off} : Keeps(board, G, r)) /\ \A r \in FollowOn(G) : Keeps(board, G, r)
    BY <1>1, <1>2, FollowOnKeeps
  <2>q. QED
    BY <2>1, <2>2, KeeperSound
<1>6. CASE Drag
  BY <1>3, <1>4, <1>6, KeeperSound DEF Drag
<1>7. CASE StepBack
  <2>1. Run(SetSlider(off, off.slider - 1)) \/ Run({off})
    BY <1>7 DEF StepBack, off
  <2>2. (\A r \in {off} : Keeps(board, G, r)) /\ \A r \in SetSlider(off, off.slider - 1) : Keeps(board, G, r)
    BY <1>2, <1>4
  <2>q. QED
    BY <2>1, <2>2, KeeperSound
<1>8. CASE JumpStart
  <2>1. Run(SetSlider(off, 0))
    BY <1>8 DEF JumpStart, off
  <2>q. QED
    BY <1>2, <1>4, <2>1, KeeperSound
<1>9. CASE UserJumpsToEnd
  BY <1>1, <1>9, JumpEndKeeps, KeeperSound DEF UserJumpsToEnd
<1>10. CASE SeekTo
  BY <1>3, <1>4, <1>10, KeeperSound DEF SeekTo, off
<1>q. QED
  BY <1>5, <1>6, <1>7, <1>8, <1>9, <1>10

\* The link is made: whatever the board was left with, the new session replaces it.
LEMMA ConnectInjectSound ==
  ASSUME SessionInv, ConnectInject
  PROVE  Sound
<1> DEFINE fresh == [gui EXCEPT !.client = "open", !.helper = NoHelper]
           declared == Then(ConfigureSession(fresh), LAMBDA s : EnsureWindows(s, 0))
<1>1. PICK r \in InjectConnected(fresh) :
               /\ gui' = [r EXCEPT !.err = FALSE, !.out = <<>>]
               /\ wire' = (IF r.client = "open" THEN r.out ELSE <<>>) /\ inbox' = <<>>
               /\ peer' = TRUE
               /\ \E p \in BOOLEAN :
                    board' = [win |-> [s \in Slots |-> {<<0, Other>>}], declared |-> 0, playing |-> p]
  BY DEF ConnectInject
<1>2. PICK s \in declared :
        \/ s.err /\ r = [s EXCEPT !.client = None, !.helper = NoHelper]
        \/ r \in InjectSeekWith(InjectUpQuiet(s), s.slider, PollEarly)
  BY DEF InjectConnected
<1>3. BoardTyped(board')
  <2>1. PICK p \in BOOLEAN :
          board' = [win |-> [z \in Slots |-> {<<0, Other>>}], declared |-> 0, playing |-> p]
    BY <1>1
  <2>q. QED
    BY <2>1 DEF BoardTyped
<1>4. gui.client = None /\ Typed(gui)
  BY DEF ConnectInject, SessionInv, Quiet, Linked
<1>5. /\ Typed(fresh) /\ ~fresh.err /\ fresh.src = gui.src /\ fresh.live = gui.live
  BY <1>4 DEF Typed, Fields, NoHelper, SessionInv, Quiet
<1>6. /\ Typed(s) /\ BoardOk(board', s) /\ s.src = gui.src /\ s.live = gui.live
  <2>1. PICK c \in ConfigureSession(fresh) : s = c \/ s \in EnsureWindows(c, 0)
    BY <1>2 DEF Then
  <2> HIDE DEF fresh
  <2>2. Same(fresh, c) /\ BoardOk(board', c) /\ Typed(c)
    BY <1>3, <1>5, ConfigureRebuilds DEF Same
  <2>3. ASSUME s \in EnsureWindows(c, 0) PROVE Keeps(board', c, s)
    BY <1>3, <2>2, <2>3, SMT, EnsureKeeps
  <2>4. Keeps(board', c, s)
    BY <2>1, <2>2, <2>3, KeepsSelf
  <2>q. QED
    BY <1>5, <2>2, <2>4 DEF Keeps, Same
<1> HIDE DEF declared, fresh
<1>7. Typed(r) /\ Linked(r) /\ BoardOk(board', r) /\ r.src = gui.src /\ r.live = gui.live
  <2>1. CASE s.err /\ r = [s EXCEPT !.client = None, !.helper = NoHelper]
    BY <1>6, <2>1 DEF Typed, Fields, NoHelper, Linked, BoardOk, Legible, None
  <2>2. CASE r \in InjectSeekWith(InjectUpQuiet(s), s.slider, PollEarly)
    <3> DEFINE up == InjectUpQuiet(s)
    <3>1. /\ Typed(up) /\ up.src = s.src /\ up.live = s.live /\ up.client = s.client
          /\ up.out = s.out /\ up.conn
      BY <1>6 DEF InjectUpQuiet, InjectUp, Typed, Fields
    <3>2. r \in InjectSeekWith(up, s.slider, PollEarly) /\ s.slider \in Int
      BY <1>6, <2>2 DEF Typed
    <3> HIDE DEF up
    <3>3. Linked(up) /\ BoardOk(board', up)
      BY <1>6, <3>1, HoldsSame DEF Linked, BoardOk, Legible
    <3>4. Keeps(board', up, r)
      BY <1>3, <3>1, <3>2, InjectEarlyKeeps
    <3>q. QED
      BY <1>6, <3>1, <3>3, <3>4 DEF Keeps, Same
  <2>q. QED
    BY <1>2, <2>1, <2>2
<1>8. /\ Typed(gui') /\ ~gui'.err /\ gui'.src = r.src /\ gui'.live = r.live
      /\ gui'.client = r.client /\ gui'.conn = r.conn
  BY <1>1, <1>7 DEF Typed, Fields
<1>9. inbox' \in Seq(Answers) /\ wire' \in Seq(Commands)
  <2>1. <<>> \in Seq(Answers) /\ <<>> \in Seq(Commands)
    OBVIOUS
  <2>q. QED
    BY <1>1, <1>7, <2>1 DEF Typed
<1>10. BoardOk(board', G')
  <2>1. G' = [gui' EXCEPT !.in = inbox', !.out = wire'] /\ DOMAIN gui' = Fields
    BY <1>8 DEF G, Typed
  <2>2. G'.client = r.client /\ G'.src = r.src /\ G'.live = r.live /\ G'.out = wire'
    BY <1>8, <2>1 DEF Fields
  <2>3. Legible(G') => Legible(r) /\ wire' = r.out /\ Holds(Obeyed(board', r.out), r)
    BY <1>1, <1>7, <2>2 DEF BoardOk, Legible
  <2>4. Legible(G') => Holds(Obeyed(board', r.out), G')
    BY <2>2, <2>3, HoldsSame
  <2>q. QED
    BY <2>2, <2>3, <2>4 DEF BoardOk
<1>11. SessionInv'
  BY <1>3, <1>7, <1>8, <1>9, <1>10 DEF SessionInv, Quiet, Linked
<1>q. QED
  BY <1>4, <1>7, <1>8, <1>11 DEF Sound, TimelineKept, PlaybackStops

-----------------------------------------------------------------------------
(* The board *)

\* Whether it plays makes no difference to what it holds.
LEMMA ObeyedPlaying ==
  ASSUME NEW b, BoardTyped(b), NEW c, BoardTyped(c), b.win = c.win, b.declared = c.declared,
         NEW cmds \in Seq(Commands)
  PROVE  Obeyed(b, cmds).win = Obeyed(c, cmds).win /\ Obeyed(b, cmds).declared = Obeyed(c, cmds).declared
<1> DEFINE n == Len(cmds)
<1>1. n \in Nat /\ \A k \in 1..n : cmds[k] \in Commands
  BY LenProperties, ElementOfSeq
<1>2. PICK f : IsRun(f, b, cmds, n) /\ Obeyed(b, cmds) = f[n]
  BY <1>1, ObeyedIs
<1>3. PICK h : IsRun(h, c, cmds, n) /\ Obeyed(c, cmds) = h[n]
  BY <1>1, ObeyedIs
<1> HIDE DEF n
<1>4. f[0] = b /\ \A k \in 1..n : f[k] = Obey(f[k - 1], cmds[k])
  BY <1>1, <1>2, RunSteps
<1>5. h[0] = c /\ \A k \in 1..n : h[k] = Obey(h[k - 1], cmds[k])
  BY <1>1, <1>3, RunSteps
<1> DEFINE Alike(x, y) == BoardTyped(x) /\ BoardTyped(y) /\ x.win = y.win /\ x.declared = y.declared
           S == {k \in Nat : k <= n => Alike(f[k], h[k])}
<1>6. 0 \in S
  BY <1>4, <1>5
<1>7. ASSUME NEW x, NEW y, Alike(x, y), NEW m \in Commands PROVE Alike(Obey(x, m), Obey(y, m))
  <2>1. BoardTyped(Obey(x, m)) /\ BoardTyped(Obey(y, m))
    BY <1>7, ObeyTyped
  <2>2. Obey(x, m).win = Obey(y, m).win /\ Obey(x, m).declared = Obey(y, m).declared
    BY <1>7 DEF Obey, BoardTyped, Commands
  <2>q. QED
    BY <2>1, <2>2
<1> HIDE DEF Alike
<1>8. ASSUME NEW k \in Nat, k \in S PROVE k + 1 \in S
  <2>1. SUFFICES ASSUME k + 1 <= n PROVE Alike(f[k + 1], h[k + 1])
    OBVIOUS
  <2>2. k + 1 \in 1..n /\ (k + 1) - 1 = k /\ Alike(f[k], h[k])
    BY <1>1, <1>8, <2>1
  <2>3. f[k + 1] = Obey(f[k], cmds[k + 1]) /\ h[k + 1] = Obey(h[k], cmds[k + 1])
        /\ cmds[k + 1] \in Commands
    BY <1>1, <1>4, <1>5, <2>2
  <2>q. QED
    BY <1>7, <2>2, <2>3
<1> HIDE DEF S
<1>9. n \in S
  BY <1>1, <1>6, <1>8, NatSetInduction
<1>q. QED
  BY <1>1, <1>2, <1>3, <1>9 DEF S, Alike

LEMMA BoardHandlesSound ==
  ASSUME SessionInv, BoardHandles
  PROVE  Sound
<1>1. /\ board' = Obeyed(board, wire) /\ wire' = <<>> /\ gui' = gui /\ peer' = peer
      /\ peer /\ gui.client = "open" /\ wire # Garbled
  BY DEF BoardHandles, Listening
<1>2. BoardTyped(board')
  BY <1>1, ObeyedTyped DEF SessionInv, Quiet
<1>3. inbox' \in Seq(Answers)
  <2> DEFINE n == Cardinality({j \in DOMAIN wire : wire[j].op = "inject"})
             told == [k \in 1..n |-> [op |-> "published"]]
  <2>1. n \in Nat
    <3>1. Len(wire) \in Nat /\ DOMAIN wire = 1..Len(wire)
      BY LenProperties DEF SessionInv, Quiet
    <3>2. IsFiniteSet(DOMAIN wire)
      BY <3>1, FS_Interval
    <3>q. QED
      BY <3>2, FS_Subset, FS_CardinalityType
  <2>2. inbox' = inbox \o told
    BY DEF BoardHandles
  <2> HIDE DEF n
  <2>3. told \in [1..n -> Answers]
    BY DEF Answers
  <2>4. told \in Seq(Answers)
    BY <2>1, <2>3, SeqDef
  <2> HIDE DEF told
  <2>q. QED
    BY <2>2, <2>4, ConcatProperties DEF SessionInv, Quiet
<1>4. BoardOk(board', G')
  <2>1. Holds(Obeyed(board, wire), G)
    <3>1. G.out = wire /\ G.client = "open"
      BY <1>1 DEF SessionInv, Quiet, Typed, Fields, G
    <3>q. QED
      BY <1>1, <3>1 DEF SessionInv, BoardOk, Legible
  <2>2. G'.out = <<>> /\ G'.src = G.src /\ G'.live = G.live
    BY <1>1 DEF SessionInv, Quiet, Typed, Fields, G
  <2>3. Obeyed(board', G'.out) = Obeyed(board, wire)
    BY <1>1, <2>2, ObeyedNone
  <2>q. QED
    BY <2>1, <2>2, <2>3, HoldsSame DEF BoardOk
<1>5. wire' \in Seq(Commands)
  BY <1>1
<1>q. QED
  BY <1>1, <1>2, <1>3, <1>4, <1>5 DEF Sound, SessionInv, Quiet, TimelineKept, PlaybackStops, Linked

\* A garbled line stays on the link: nothing is said of what the board holds then.
LEMMA BoardGuessesSound ==
  ASSUME SessionInv, BoardGuesses
  PROVE  Sound
<1>1. gui' = gui /\ wire' = wire /\ peer' = peer /\ wire = Garbled
  BY DEF BoardGuesses
<1>2. BoardTyped(board')
  BY DEF BoardGuesses, SessionInv, BoardTyped
<1>3. inbox' \in Seq(Answers)
  <2>1. [op |-> "published"] \in Answers
    BY DEF Answers
  <2>2. inbox' = inbox \/ inbox' = Append(inbox, [op |-> "published"])
    BY DEF BoardGuesses
  <2>q. QED
    BY <2>1, <2>2, AppendProperties DEF SessionInv, Quiet
<1>4. BoardOk(board', G')
  <2>1. G'.out = Garbled
    BY <1>1 DEF SessionInv, Quiet, Typed, Fields, G
  <2>q. QED
    BY <2>1 DEF BoardOk, Legible
<1>q. QED
  BY <1>1, <1>2, <1>3, <1>4 DEF Sound, SessionInv, Quiet, TimelineKept, PlaybackStops, Linked

LEMMA BoardPlaysSound ==
  ASSUME SessionInv, BoardPlays
  PROVE  Sound
<1>1. /\ gui' = gui /\ wire' = wire /\ peer' = peer
      /\ \E p : board' = [board EXCEPT !.playing = p]
  BY DEF BoardPlays
<1>2. BoardTyped(board') /\ board'.win = board.win /\ board'.declared = board.declared
  BY <1>1 DEF SessionInv, BoardTyped
<1>3. inbox' \in Seq(Answers)
  <2> DEFINE published == [op |-> "published"]
             eof == [op |-> "eof"]
             need(s) == [op |-> "need_window", slot |-> s, from |-> 1]
  <2>1. PICK s \in Slots :
          \E batch \in {<<published>>, <<need(s), published>>, <<need(s)>>, <<published, eof>>} :
            inbox' = inbox \o batch
    BY DEF BoardPlays
  <2>2. published \in Answers /\ eof \in Answers /\ need(s) \in Answers
    BY DEF Answers
  <2> HIDE DEF published, eof, need
  <2>3. /\ <<published>> \in Seq(Answers) /\ <<need(s), published>> \in Seq(Answers)
        /\ <<need(s)>> \in Seq(Answers) /\ <<published, eof>> \in Seq(Answers)
    BY <2>2
  <2>4. PICK batch \in Seq(Answers) : inbox' = inbox \o batch
    BY <2>1, <2>3
  <2>5. inbox \in Seq(Answers)
    BY DEF SessionInv, Quiet
  <2>q. QED
    BY <2>4, <2>5, ConcatProperties
<1>4. peer' => BoardOk(board', G')
  <2>1. SUFFICES ASSUME peer, Legible(G') PROVE Holds(Obeyed(board', G'.out), G')
    BY <1>1 DEF BoardOk
  <2>2. G'.out = wire /\ G.out = wire /\ G'.src = G.src /\ G'.live = G.live /\ G'.client = G.client
    BY <1>1 DEF SessionInv, Quiet, Typed, Fields, G
  <2>3. Holds(Obeyed(board, wire), G')
    BY <2>1, <2>2, HoldsSame DEF SessionInv, BoardOk, Legible
  <2>4. /\ Obeyed(board', wire).win = Obeyed(board, wire).win
        /\ Obeyed(board', wire).declared = Obeyed(board, wire).declared
    BY <1>2, ObeyedPlaying DEF SessionInv, Quiet
  <2>q. QED
    BY <2>2, <2>3, <2>4 DEF Holds
<1>q. QED
  BY <1>1, <1>2, <1>3, <1>4 DEF Sound, SessionInv, Quiet, TimelineKept, PlaybackStops, Linked

LEMMA PeerDiesSound ==
  ASSUME SessionInv, InjectPeerDies
  PROVE  Sound
<1>1. gui' = gui /\ ~peer' /\ wire' = <<>> /\ inbox' = <<>>
  BY DEF InjectPeerDies
<1>2. <<>> \in Seq(Answers) /\ <<>> \in Seq(Commands)
  OBVIOUS
<1>3. BoardTyped(board')
  BY DEF InjectPeerDies, Idle, BoardTyped
<1>q. QED
  BY <1>1, <1>2, <1>3 DEF Sound, SessionInv, Quiet, TimelineKept, PlaybackStops, Linked

-----------------------------------------------------------------------------
(* The theorems of the session window *)

LEMMA SessionBegins ==
  Init => SessionInv
<1> SUFFICES ASSUME Init PROVE SessionInv
  OBVIOUS
<1>1. <<>> \in Seq(Answers) /\ <<>> \in Seq(Commands)
  OBVIOUS
<1>2. Quiet
  BY <1>1 DEF Init, Quiet, Typed, Fields, NoHelper, None
<1>3. BoardTyped(board) /\ Linked(gui) /\ ~peer
  BY DEF Init, Idle, BoardTyped, Linked, None
<1>q. QED
  BY <1>2, <1>3 DEF SessionInv

LEMMA SessionStep ==
  ASSUME SessionInv, [Next]_vars
  PROVE  SessionInv' /\ [TimelineKept]_gui /\ [PlaybackStops]_gui
<1>1. ASSUME Next PROVE Sound
  BY <1>1, OpenSound, LoadProjectSound, ConnectLiveSound, DisconnectLiveSound,
     ToggleRecordSound, WsTickSound, ConnectInjectSound, InjectTickSound,
     TogglePlayheadSound, PlayTickSound, PlayheadSound, BoardHandlesSound,
     BoardGuessesSound, BoardPlaysSound, PeerDiesSound
  DEF Next
<1>2. CASE UNCHANGED vars
  <2>1. gui' = gui /\ wire' = wire /\ inbox' = inbox /\ board' = board /\ peer' = peer
    BY <1>2 DEF vars
  <2>2. G' = G
    BY <2>1 DEF G
  <2>q. QED
    BY <2>1, <2>2 DEF SessionInv, Quiet, Linked
<1>q. QED
  BY <1>1, <1>2 DEF Sound

\* Under every order of loads, connects, seeks, answers and lost links, the board that has
\* obeyed all that is on its way to it holds frames of the timeline the window shows.
THEOREM SessionAgrees == Spec => []SessionInv
<1>1. SessionInv /\ [Next]_vars => SessionInv'
  BY SessionStep
<1>q. QED
  BY <1>1, SessionBegins, PTL DEF Spec

LEMMA AgreedBoard == SessionInv => BoardHoldsSession
<1> SUFFICES ASSUME SessionInv, Listening, wire = <<>>
             PROVE  /\ board.declared <= Len0(gui)
                    /\ \A s \in Slots : \A fr \in board.win[s] :
                          fr[1] < Len0(gui) /\ fr[2] = SourceOf(gui, fr[1])
  BY DEF BoardHoldsSession
<1>1. G.out = <<>> /\ G.client = "open" /\ G.src = gui.src /\ G.live = gui.live /\ peer
  BY DEF SessionInv, Quiet, Typed, Fields, G, Listening
<1>2. Holds(board, G)
  BY <1>1, ObeyedNone, GarbledIsSent DEF SessionInv, BoardOk, Legible
<1>3. Holds(board, gui)
  BY <1>1, <1>2, HoldsSame
<1>q. QED
  BY <1>3 DEF Holds

\* With nothing on the way, the board's windows hold frames of the present timeline under
\* their present numbers, and no more were declared than there are (configure_session,
\* fill_window).
THEOREM BoardAlwaysHoldsSession == Spec => []BoardHoldsSession
BY SessionAgrees, AgreedBoard, PTL

\* Live leaves a timeline alone that was open, or being injected, when it connected
\* (_connect_live): no handler, however deep its polls, changes it otherwise.
THEOREM TimelineIsKept == Spec => LiveKeepsOut
<1>1. SessionInv /\ [Next]_vars => [TimelineKept]_gui
  BY SessionStep
<1>2. SessionInv /\ [Next]_vars => SessionInv'
  BY SessionStep
<1>3. LiveKeepsOut <=> [][TimelineKept]_gui
  BY DEF LiveKeepsOut, TimelineKept
<1>q. QED
  BY <1>1, <1>2, <1>3, SessionBegins, PTL DEF Spec

\* However the inject link ends, the playback is off with it (_disconnect_inject).
THEOREM LostLinkStopsPlayback == Spec => StopsWithLink
<1>1. SessionInv /\ [Next]_vars => [PlaybackStops]_gui
  BY SessionStep
<1>2. SessionInv /\ [Next]_vars => SessionInv'
  BY SessionStep
<1>3. StopsWithLink <=> [][PlaybackStops]_gui
  BY DEF StopsWithLink, PlaybackStops
<1>q. QED
  BY <1>1, <1>2, <1>3, SessionBegins, PTL DEF Spec
=============================================================================
