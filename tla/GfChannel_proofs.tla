-------------------------- MODULE GfChannel_proofs --------------------------
(***************************************************************************)
(* For every number of planes, readers and publications, in any order of   *)
(* the plain accesses: a channel tears no frame but the oldest and keeps   *)
(* the promise of LatestFrame, which is the stronger one, of whole frames, *)
(* where there are three planes and the accesses keep the program's order. *)
(***************************************************************************)
EXTENDS GfChannel, TLAPS

Ordered == InOrder = TRUE /\ Buffers >= 3

\* Whatever reader r does.
Reads(r) == LatestBegin(r) \/ Latest(r) \/ WaitBegin(r) \/ Wait(r) \/ WaitTimeout(r)

Succ(i) == (i + 1) % Buffers

\* The frame seq has been announced, and active names its buffer.
Quiet == wpc \in {"idle", "notify", "wake"}
Announced == Quiet \/ (wpc = "header" /\ "seq" \notin wtodo)

\* The buffer of the frame whose number seq is.
Cur == IF seq = frame THEN widx ELSE active

\* The futex word lags a publication behind while there is one.
CountInv == notify = IF wpc \in {"copy", "header", "notify"} THEN frame - 1 ELSE frame

\* The program order of a publication: copy, timestamp, seq, active.
WriterInv ==
  /\ wpc # "idle" => frame >= 1
  /\ wpc = "copy" => wtodo \subseteq Halves /\ wtodo # {}
  /\ wpc = "header" => wtodo \in {Header, Checked, {"active"}}
  /\ seq = IF Announced THEN frame ELSE frame - 1
  /\ IF Quiet THEN active = widx ELSE widx = Succ(active)
  /\ timestamp >= seq
  /\ wpc = "header" /\ wtodo # Header => timestamp = frame

\* The current buffer holds the frame seq, the one before it the frame before, and
\* the writer's buffer what has been copied so far.
PlaneInv ==
  /\ \A h \in Halves : plane[Cur][h] = seq
  /\ seq >= 1 => \A i \in Index : Succ(i) = Cur => \A h \in Halves : plane[i][h] = seq - 1
  /\ wpc = "copy" => \A h \in Halves \ wtodo : plane[widx][h] = frame
  /\ wpc = "header" => \A h \in Halves : plane[widx][h] = frame

\* While the number a reader loaded is still the newest, its index is the current
\* buffer or the one before, and its copy is of the frame that one holds; once it has
\* seen the number again the copy is whole for good.
Held(r) == IF ridx[r] = Cur THEN seq ELSE seq - 1
ReaderInv(r) ==
  /\ last[r] <= rseq[r] /\ rseq[r] <= seq
  /\ rpc[r] = "load" => rtodo[r] \in {Checked, {"active"}, {}}
  /\ rpc[r] = "copy" => rtodo[r] \subseteq Halves /\ rtodo[r] # {}
  /\ rpc[r] = "check" => rtodo[r] \in {Checked, {"active"}, {}}
  /\ rpc[r] \in {"copy", "check"} => last[r] < rseq[r]
  /\ /\ rseq[r] = seq
     /\ rpc[r] \in {"copy", "check"} \/ (rpc[r] = "load" /\ rtodo[r] = {})
     => ridx[r] = Cur \/ Succ(ridx[r]) = Cur
  /\ rpc[r] = "copy" /\ rseq[r] = seq => \A h \in Halves \ rtodo[r] : copy[r][h] = Held(r)
  /\ rpc[r] = "check" /\ rtodo[r] = Checked /\ rseq[r] = seq =>
        \A h \in Halves : copy[r][h] = Held(r)
  /\ rpc[r] = "check" /\ rtodo[r] # Checked =>
        copy[r].lo = copy[r].hi /\ copy[r].lo \in {rseq[r] - 1, rseq[r]}

\* What a reader was given: a whole frame, of its number or the one before.
GotInv(r) ==
  /\ got[r].seq = last[r]
  /\ got[r].lo = got[r].hi /\ got[r].lo \in {last[r] - 1, last[r]}

TInv == TypeOK /\ CountInv
IInv == TInv /\ WriterInv /\ PlaneInv /\ \A r \in Readers : ReaderInv(r) /\ GotInv(r)
----------------------------------------------------------------------------
\* One step around the ring reaches another buffer, and two steps do not come back.
LEMMA SuccInRing ==
  /\ \A i \in Index : Succ(i) \in Index /\ Succ(i) # i
  /\ \A i, j \in Index : Succ(i) = Succ(j) => i = j
  /\ Buffers >= 3 => \A i \in Index : Succ(Succ(i)) # i
  <1>1. \A i \in Index : Succ(i) = IF i = Buffers - 1 THEN 0 ELSE i + 1
    BY GfChannelConstants DEF Succ, Index
  <1>2. Buffers \in Nat /\ Buffers >= 2
    BY GfChannelConstants
  <1> QED
    BY <1>1, <1>2 DEF Index

LEMMA TypesHold == Spec => []TInv
  <1> USE GfChannelConstants DEF TInv, TypeOK, CountInv, Frames, Index
  <1>1. Init => TInv
    BY DEF Init
  <1>2. TInv /\ [Next]_vars => TInv'
    <2> SUFFICES ASSUME TInv, [Next]_vars PROVE TInv'
      OBVIOUS
    <2> USE DEF header, writer, latest
    <2>1. CASE PublishBegin
      <3>1. (active + 1) % Buffers \in Index
        BY SuccInRing DEF Succ
      <3> QED
        BY <2>1, <3>1 DEF PublishBegin
    <2>2. ASSUME NEW h \in Halves, PublishCopy(h) PROVE TInv'
      BY <2>2 DEF PublishCopy
    <2>3. ASSUME NEW x \in Header, PublishStore(x) PROVE TInv'
      BY <2>3 DEF PublishStore, Header
    <2>4. CASE PublishNotify
      BY <2>4 DEF PublishNotify
    <2>5. CASE PublishWake
      BY <2>5 DEF PublishWake
    <2>6. ASSUME NEW r \in Readers, Reads(r)
          PROVE  TInv'
      <3> USE <2>6 DEF Goto
      <3>1. CASE LatestBegin(r)
        BY <3>1 DEF LatestBegin, Checked
      <3>2. ASSUME NEW x \in Checked, LatestLoad(r, x) PROVE TInv'
        BY <3>2 DEF LatestLoad
      <3>3. CASE LatestNothing(r)
        BY <3>3 DEF LatestNothing
      <3>4. CASE LatestNew(r)
        BY <3>4 DEF LatestNew
      <3>5. ASSUME NEW h \in Halves, LatestCopy(r, h) PROVE TInv'
        <4>1. plane[ridx[r]][h] \in Frames
          OBVIOUS
        <4>2. copy' \in [Readers -> [Halves -> Frames]]
          BY <3>5, <4>1 DEF LatestCopy
        <4>3. rpc' \in [Readers -> {"out", "load", "copy", "check", "wait", "snap", "recheck",
                                    "futex", "asleep"}]
          BY <3>5 DEF LatestCopy
        <4>4. rtodo' \in [Readers -> SUBSET (Halves \cup Checked)]
          <5>1. Checked \in SUBSET (Halves \cup Checked)
                  /\ rtodo[r] \ {h} \in SUBSET (Halves \cup Checked)
            OBVIOUS
          <5> QED
            BY <3>5, <5>1 DEF LatestCopy
        <4> QED
          BY <3>5, <4>2, <4>3, <4>4 DEF LatestCopy
      <3>6. ASSUME NEW x \in Checked, LatestCheck(r, x) \/ LatestChanged(r, x) PROVE TInv'
        <4>1. CASE LatestCheck(r, x)
          BY <4>1 DEF LatestCheck
        <4>2. CASE LatestChanged(r, x)
          BY <4>2 DEF LatestChanged
        <4> QED
          BY <3>6, <4>1, <4>2
      <3>7. CASE LatestReturn(r)
        <4>1. copy[r].lo \in Frames /\ copy[r].hi \in Frames
          <5>1. copy[r] \in [Halves -> Frames]
            OBVIOUS
          <5> QED
            BY <5>1 DEF Halves
        <4>2. got' \in [Readers -> [seq : Frames, timestamp : Frames, lo : Frames, hi : Frames]]
          BY <3>7, <4>1 DEF LatestReturn
        <4> QED
          BY <3>7, <4>2 DEF LatestReturn
      <3>8. CASE WaitBegin(r) \/ Wait(r) \/ WaitTimeout(r)
        <4>1. CASE WaitBegin(r) \/ WaitTimeout(r)
          BY <4>1 DEF WaitBegin, WaitTimeout
        <4>2. CASE WaitAdvanced(r) \/ WaitSnap(r) \/ WaitRecheck(r)
          BY <4>2 DEF WaitAdvanced, WaitSnap, WaitRecheck
        <4>3. CASE WaitLoadNotify(r)
          BY <4>3 DEF WaitLoadNotify
        <4>4. CASE WaitFutex(r)
          BY <4>4 DEF WaitFutex
        <4> QED
          BY <3>8, <4>1, <4>2, <4>3, <4>4 DEF Wait
      <3> QED
        BY <3>1, <3>2, <3>3, <3>4, <3>5, <3>6, <3>7, <3>8 DEF Latest, Reads
    <2>7. CASE UNCHANGED vars
      BY <2>7 DEF vars
    <2> QED
      BY <2>1, <2>2, <2>3, <2>4, <2>5, <2>6, <2>7 DEF Next, Publish, Reads
  <1> QED
    BY <1>1, <1>2, PTL DEF Spec

\* A call of one reader leaves the others alone.
LEMMA OthersUntouched ==
  ASSUME TInv, NEW r \in Readers, Reads(r), NEW q \in Readers, q # r
  PROVE  /\ rpc'[q] = rpc[q] /\ rtodo'[q] = rtodo[q] /\ rseq'[q] = rseq[q]
         /\ ridx'[q] = ridx[q] /\ copy'[q] = copy[q] /\ last'[q] = last[q]
         /\ got'[q] = got[q]
  BY DEF Reads, LatestBegin, Latest, LatestLoad, LatestNothing, LatestNew,
     LatestCopy, LatestCheck, LatestChanged, LatestReturn, WaitBegin, Wait, WaitTimeout,
     WaitAdvanced, WaitSnap, WaitLoadNotify, WaitRecheck, WaitFutex, latest, Goto, TInv,
     TypeOK

----------------------------------------------------------------------------
(* Any number of planes, and any order of the plain accesses.               *)

\* The frame d publications before f, and how many planes back from the writer's the
\* plane i is, as the writer sees it and as one sees it who knows the number seq.
Back(f, d) == IF f >= d THEN f - d ELSE 0
Dist(i) == IF i <= widx THEN widx - i ELSE widx - i + Buffers
Age(i) == IF seq = frame THEN Dist(i) ELSE IF Dist(i) = 0 THEN Buffers - 1 ELSE Dist(i) - 1

\* The order that the fences leave: copy, header, notify.
LapWriter ==
  /\ wpc # "idle" => frame >= 1
  /\ wpc = "copy" => wtodo \subseteq Halves /\ wtodo # {}
  /\ wpc = "header" => wtodo \subseteq Header /\ wtodo # {}
  /\ seq = IF Announced THEN frame ELSE frame - 1
  /\ Quiet \/ (wpc = "header" /\ "active" \notin wtodo) => active = widx
  /\ wpc \in {"copy", "header"} /\ ~(wpc = "header" /\ "active" \notin wtodo)
       => widx = Succ(active)
  /\ timestamp =
       IF Quiet \/ (wpc = "header" /\ "timestamp" \notin wtodo) THEN frame ELSE frame - 1
  /\ InOrder /\ wpc = "header" /\ "timestamp" \in wtodo => "seq" \in wtodo

\* Every plane holds the newest frame that was written to it; the one being written holds
\* the frame of the last lap where it has not been copied yet.
LapPlanes ==
  \A i \in Index : \A h \in Halves :
    plane[i][h] = IF wpc = "copy" /\ i = widx /\ h \in wtodo THEN Back(frame, Buffers)
                  ELSE Back(frame, Dist(i))

\* What a reader's copy may hold while the number it loaded is still the newest, and what
\* it holds for good once the number has been seen again.
Seen(r, h) ==
  \/ copy[r][h] = Back(seq, Age(ridx[r]))
  \/ Age(ridx[r]) = Buffers - 1 /\ copy[r][h] = seq + 1
Mixed(s, lo, hi) ==
  \/ lo = hi /\ lo \in Oldest(s) .. s + 1
  \/ {lo, hi} = {Oldest(s), s + 1}

LapReader(r) ==
  /\ last[r] <= rseq[r] /\ rseq[r] <= seq
  /\ rpc[r] \in {"copy", "check"} => last[r] < rseq[r]
  /\ rpc[r] = "copy" /\ rseq[r] = seq => \A h \in Halves \ rtodo[r] : Seen(r, h)
  /\ rpc[r] = "check" /\ "seq" \in rtodo[r] /\ rseq[r] = seq => \A h \in Halves : Seen(r, h)
  /\ rpc[r] = "check" /\ "seq" \notin rtodo[r] => Mixed(rseq[r], copy[r].lo, copy[r].hi)

LapGot(r) ==
  /\ got[r].seq = last[r]
  /\ Mixed(got[r].seq, got[r].lo, got[r].hi)
  /\ got[r].timestamp + 1 >= got[r].seq /\ (InOrder => got[r].timestamp >= got[r].seq)

LapInv == TInv /\ LapWriter /\ LapPlanes /\ \A r \in Readers : LapReader(r) /\ LapGot(r)

\* Distances around the ring, and what one step of the writer does to them.
LEMMA RingDistance ==
  ASSUME widx \in Index
  PROVE  \A i \in Index : Dist(i) \in 0 .. Buffers - 1 /\ (Dist(i) = 0 <=> i = widx)
  BY GfChannelConstants DEF Dist, Index

LEMMA RingStep ==
  ASSUME widx \in Index, widx' = Succ(widx)
  PROVE  \A i \in Index :
           /\ Dist(i)' = IF i = widx' THEN 0 ELSE Dist(i) + 1
           /\ i = widx' <=> Dist(i) = Buffers - 1
  <1>1. Succ(widx) = IF widx = Buffers - 1 THEN 0 ELSE widx + 1
    <2>1. \A i \in Index : Succ(i) = IF i = Buffers - 1 THEN 0 ELSE i + 1
      BY GfChannelConstants DEF Succ, Index
    <2> QED
      BY <2>1
  <1>2. widx' \in Index
    BY <1>1, GfChannelConstants DEF Index
  <1>3. \A i \in Index : Dist(i)' = IF i <= widx' THEN widx' - i ELSE widx' - i + Buffers
    BY DEF Dist
  <1> QED
    BY ONLY <1>1, <1>2, <1>3, widx \in Index, widx' = Succ(widx), GfChannelConstants
       DEF Dist, Index

\* A frame a lap back is the oldest.
LEMMA BackInRing ==
  ASSUME NEW f \in Nat, NEW d \in 0 .. Buffers - 1
  PROVE  /\ Back(f + 1, d + 1) = Back(f, d) /\ Back(f, d) \in Oldest(f) .. f
         /\ d = Buffers - 1 => Back(f, d) = Oldest(f) /\ Back(f + 1, Buffers) = Back(f, d)
  BY GfChannelConstants DEF Back, Oldest

\* A publication carries the planes one further, and does not change their age for those
\* who know the number until it stores the next one.
LEMMA PublishKeepsLap ==
  ASSUME TInv, LapWriter, LapPlanes, Publish
  PROVE  /\ LapWriter' /\ LapPlanes'
         /\ \/ seq' = seq /\ \A i \in Index : Age(i)' = Age(i)
            \/ seq' = seq + 1 /\ seq' <= MaxFrames
  <1> USE GfChannelConstants
  <1> USE DEF TInv, TypeOK, LapWriter, Announced, Quiet, Frames
  <1>1. CASE PublishBegin
    <2>1. /\ widx' = Succ(widx) /\ frame' = frame + 1 /\ seq = frame /\ active = widx
          /\ UNCHANGED <<seq, active, timestamp, plane>>
          /\ wpc = "idle" /\ wpc' = "copy" /\ wtodo' = Halves
      BY <1>1 DEF PublishBegin, Succ, header
    <2>3. LapWriter'
      BY <2>1 DEF Halves
    <2>4. \A i \in Index : /\ Dist(i)' = IF i = widx' THEN 0 ELSE Dist(i) + 1
                           /\ i = widx' <=> Dist(i) = Buffers - 1
      BY <2>1, RingStep
    <2>5. \A i \in Index : Dist(i) \in 0 .. Buffers - 1
      BY RingDistance
    <2>6. \A i \in Index : Age(i)' = Age(i)
      <3> SUFFICES ASSUME NEW i \in Index PROVE Age(i)' = Age(i)
        OBVIOUS
      <3>1. frame \in Nat /\ seq = frame /\ seq' = seq /\ frame' = frame + 1
        BY <2>1
      <3>2. Age(i) = Dist(i) /\ Age(i)' = IF Dist(i)' = 0 THEN Buffers - 1 ELSE Dist(i)' - 1
        BY ONLY <3>1 DEF Age
      <3> QED
        BY ONLY <2>4, <2>5, <3>2, GfChannelConstants, i \in Index
    <2>7. LapPlanes'
      <3> SUFFICES ASSUME NEW i \in Index, NEW h \in Halves
                   PROVE  plane[i][h] = IF i = widx' THEN Back(frame + 1, Buffers)
                                        ELSE Back(frame + 1, Dist(i)')
        BY <2>1 DEF LapPlanes
      <3>1. plane[i][h] = Back(frame, Dist(i))
        BY <2>1 DEF LapPlanes
      <3>2. frame \in Nat /\ Dist(i) \in 0 .. Buffers - 1
        BY <2>5
      <3> QED
        BY ONLY <2>4, <3>1, <3>2, BackInRing, i \in Index
    <2> QED
      BY <2>1, <2>3, <2>6, <2>7
  <1>2. ASSUME NEW h \in Halves, PublishCopy(h)
        PROVE  LapWriter' /\ LapPlanes' /\ seq' = seq /\ \A i \in Index : Age(i)' = Age(i)
    <2>1. /\ wpc = "copy" /\ h \in wtodo /\ UNCHANGED <<seq, active, timestamp, frame, widx>>
          /\ \/ wtodo = {h} /\ wpc' = "header" /\ wtodo' = Header
             \/ wtodo # {h} /\ wpc' = "copy" /\ wtodo' = wtodo \ {h}
      BY <1>2 DEF PublishCopy, header
    <2>2. LapWriter'
      <3>1. CASE wtodo = {h}
        BY <2>1, <3>1 DEF Header
      <3>2. CASE wtodo # {h}
        <4>1. wtodo \ {h} # {} /\ wtodo \ {h} \subseteq Halves
          BY <2>1, <3>2
        <4> QED
          BY <2>1, <3>2, <4>1
      <3> QED
        BY <3>1, <3>2
    <2>3. \A i \in Index : Age(i)' = Age(i) /\ Dist(i)' = Dist(i)
      BY <2>1 DEF Age, Dist
    <2>4. \A i \in Index : \A g \in Halves :
            plane'[i][g] = IF i = widx /\ g = h THEN frame ELSE plane[i][g]
      BY <1>2 DEF PublishCopy
    <2>5. Dist(widx) = 0 /\ Back(frame, 0) = frame
      BY DEF Dist, Back, Index
    <2>6. LapPlanes'
      <3> SUFFICES ASSUME NEW i \in Index, NEW g \in Halves
                   PROVE  plane'[i][g] = IF wpc' = "copy" /\ i = widx' /\ g \in wtodo'
                                         THEN Back(frame', Buffers) ELSE Back(frame', Dist(i)')
        BY DEF LapPlanes
      <3>1. plane[i][g] = IF i = widx /\ g \in wtodo THEN Back(frame, Buffers)
                          ELSE Back(frame, Dist(i))
        BY <2>1 DEF LapPlanes
      <3>2. CASE i = widx /\ g = h
        BY <2>1, <2>3, <2>4, <2>5, <3>2 DEF Back
      <3>3. CASE ~(i = widx /\ g = h)
        <4>1. plane'[i][g] = plane[i][g]
          BY <2>4, <3>3
        <4>2. i = widx => (wpc' = "copy" /\ g \in wtodo' <=> g \in wtodo)
          BY <2>1, <3>3
        <4> QED
          BY <2>1, <2>3, <3>1, <4>1, <4>2 DEF Back
      <3> QED
        BY <3>2, <3>3
    <2> QED
      BY <2>1, <2>2, <2>3, <2>6
  <1>3. ASSUME NEW x \in Header, PublishStore(x)
        PROVE  /\ LapWriter' /\ LapPlanes'
               /\ \/ seq' = seq /\ \A i \in Index : Age(i)' = Age(i)
                  \/ seq' = seq + 1 /\ seq' <= MaxFrames
    <2>1. /\ wpc = "header" /\ x \in wtodo /\ wtodo' = wtodo \ {x}
          /\ wpc' = IF wtodo = {x} THEN "notify" ELSE wpc
          /\ UNCHANGED <<plane, frame, widx>>
          /\ InOrder => \A y \in wtodo : Position[x] <= Position[y]
      BY <1>3 DEF PublishStore, Enabled
    <2>2. LapPlanes'
      BY <2>1 DEF LapPlanes, Dist
    <2>3. CASE x = "timestamp"
      <3>1. timestamp' = frame /\ UNCHANGED <<seq, active>>
        BY <1>3, <2>3 DEF PublishStore
      <3>2. LapWriter'
        BY <2>1, <2>3, <3>1 DEF Header
      <3> QED
        BY <2>1, <2>2, <3>1, <3>2 DEF Age, Dist
    <2>4. CASE x = "seq"
      <3>1. seq' = frame /\ UNCHANGED <<timestamp, active>>
        BY <1>3, <2>4 DEF PublishStore
      <3>2. InOrder => "timestamp" \notin wtodo
        BY <2>1, <2>4 DEF Position
      <3>3. LapWriter' /\ seq = frame - 1
        BY <2>1, <2>4, <3>1, <3>2 DEF Header
      <3> QED
        BY <2>1, <2>2, <3>1, <3>3
    <2>5. CASE x = "active"
      <3>1. active' = widx /\ UNCHANGED <<timestamp, seq>>
        BY <1>3, <2>5 DEF PublishStore
      <3>2. LapWriter'
        BY <2>1, <2>5, <3>1 DEF Header
      <3> QED
        BY <2>1, <2>2, <3>1, <3>2 DEF Age, Dist
    <2> QED
      BY <2>3, <2>4, <2>5 DEF Header
  <1>4. CASE PublishNotify \/ PublishWake
    <2>1. /\ wpc \in {"notify", "wake"} /\ wpc' \in {"wake", "idle"}
          /\ UNCHANGED <<seq, active, timestamp, plane, frame, widx, wtodo>>
      BY <1>4 DEF PublishNotify, PublishWake, header
    <2>2. LapWriter'
      BY <2>1
    <2>3. LapPlanes'
      BY <2>1 DEF LapPlanes, Dist
    <2> QED
      BY <2>1, <2>2, <2>3 DEF Age, Dist
  <1> QED
    BY <1>1, <1>2, <1>3, <1>4 DEF Publish

\* The writer leaves a reader what it knows.
LEMMA PublishKeepsLapReaders ==
  ASSUME TInv, LapWriter, LapPlanes, Publish, NEW r \in Readers, LapReader(r), LapGot(r)
  PROVE  LapReader(r)' /\ LapGot(r)'
  <1> USE DEF TInv, TypeOK, Frames
  <1>1. \/ seq' = seq /\ \A i \in Index : Age(i)' = Age(i)
        \/ seq' = seq + 1
    BY PublishKeepsLap
  <1>2. UNCHANGED <<rtodo, rseq, ridx, copy, last, got>>
    BY DEF Publish, PublishBegin, PublishCopy, PublishStore, PublishNotify, PublishWake,
       header, writer, latest
  <1>3. rpc'[r] = rpc[r] \/ (rpc[r] = "asleep" /\ rpc'[r] = "wait")
    BY DEF Publish, PublishBegin, PublishCopy, PublishStore, PublishNotify, PublishWake
  <1>4. LapGot(r)'
    BY <1>2 DEF LapGot, Mixed, Oldest
  <1>5. CASE seq' = seq /\ \A i \in Index : Age(i)' = Age(i)
    <2>1. \A h \in Halves : Seen(r, h)' = Seen(r, h)
      <3>1. Age(ridx[r])' = Age(ridx[r])
        BY <1>2, <1>5
      <3> QED
        BY <1>2, <1>5, <3>1 DEF Seen, Back
    <2> QED
      BY <1>2, <1>3, <1>4, <1>5, <2>1 DEF LapReader, Mixed, Oldest
  <1>6. CASE seq' = seq + 1
    <2>1. rseq'[r] # seq' /\ rseq'[r] <= seq'
      BY <1>2, <1>6 DEF LapReader
    <2> QED
      BY <1>2, <1>3, <1>4, <2>1 DEF LapReader, Mixed, Oldest
  <1> QED
    BY <1>1, <1>5, <1>6

\* A call of a reader keeps what is known of its copy.
LEMMA ReadsKeepLap ==
  ASSUME TInv, LapWriter, LapPlanes, NEW r \in Readers, LapReader(r), LapGot(r), Reads(r)
  PROVE  LapReader(r)' /\ LapGot(r)'
  <1> USE GfChannelConstants
  <1> USE DEF TInv, TypeOK, Frames, Goto
  <1>1. UNCHANGED <<seq, timestamp, plane, wpc, frame, widx, wtodo>>
    BY DEF Reads, LatestBegin, Latest, LatestLoad, LatestNothing, LatestNew,
       LatestCopy, LatestCheck, LatestChanged, LatestReturn, WaitBegin, Wait, WaitTimeout,
       WaitAdvanced, WaitSnap, WaitLoadNotify, WaitRecheck, WaitFutex, header, writer
  <1>2. \A i \in Index : Age(i)' = Age(i)
    BY <1>1 DEF Age, Dist
  <1>0. ASSUME last'[r] = last[r], got'[r] = got[r] PROVE LapGot(r)'
    BY <1>0 DEF LapGot, Mixed, Oldest
  <1>3. CASE LatestBegin(r) \/ WaitBegin(r) \/ Wait(r) \/ WaitTimeout(r) \/ LatestNothing(r)
              \/ \E x \in Checked : LatestChanged(r, x)
    <2>1. UNCHANGED <<rseq, ridx, copy, last, got>> /\ rpc'[r] \notin {"copy", "check"}
      BY <1>3 DEF LatestBegin, WaitBegin, Wait, WaitTimeout, LatestNothing, LatestChanged,
         WaitAdvanced, WaitSnap, WaitLoadNotify, WaitRecheck, WaitFutex, latest
    <2> QED
      BY <1>1, <2>1 DEF LapReader, LapGot, Mixed, Oldest
  <1>4. ASSUME NEW x \in Checked, LatestLoad(r, x) PROVE LapReader(r)' /\ LapGot(r)'
    <2>1. rpc'[r] = "load" /\ UNCHANGED <<last, got>> /\ rseq'[r] \in {rseq[r], seq}
      BY <1>4 DEF LatestLoad
    <2>2. last[r] <= rseq'[r] /\ rseq'[r] <= seq
      BY <2>1 DEF LapReader
    <2> QED
      BY <1>0, <1>1, <2>1, <2>2 DEF LapReader
  <1>5. CASE LatestNew(r)
    <2>1. rpc'[r] = "copy" /\ rtodo'[r] = Halves /\ UNCHANGED <<rseq, ridx, copy, last, got>>
            /\ rseq[r] # last[r]
      BY <1>5 DEF LatestNew
    <2>2. last[r] < rseq[r]
      <3>1. last[r] \in Nat /\ rseq[r] \in Nat /\ last[r] <= rseq[r]
        BY DEF LapReader
      <3> QED
        BY ONLY <2>1, <3>1
    <2>3. Halves \ Halves = {}
      OBVIOUS
    <2> QED
      BY <1>0, <1>1, <2>1, <2>2, <2>3 DEF LapReader
  <1>6. ASSUME NEW h \in Halves, LatestCopy(r, h) PROVE LapReader(r)' /\ LapGot(r)'
    <2>1. rpc[r] = "copy" /\ UNCHANGED <<rseq, ridx, last, got>> /\ ridx[r] \in Index
      BY <1>6 DEF LatestCopy
    <2>2. \A g \in Halves : copy'[r][g] = IF g = h THEN plane[ridx[r]][h] ELSE copy[r][g]
      BY <1>6 DEF LatestCopy
    <2>3. \A g \in Halves \ {h} : Seen(r, g)' = Seen(r, g)
      <3>1. Age(ridx[r])' = Age(ridx[r])
        BY <1>2, <2>1
      <3> QED
        BY <1>1, <2>1, <2>2, <3>1 DEF Seen, Back
    <2>4. Seen(r, h)'
      <3> DEFINE i == ridx[r]
      <3>1. copy'[r][h] = plane[i][h] /\ Age(i)' = Age(i)
        BY <1>2, <2>1, <2>2
      <3>2. Dist(i) \in 0 .. Buffers - 1 /\ (i = widx <=> Dist(i) = 0)
        BY <2>1, RingDistance
      <3>3. plane[i][h] = IF wpc = "copy" /\ i = widx /\ h \in wtodo THEN Back(frame, Buffers)
                          ELSE Back(frame, Dist(i))
        BY <2>1 DEF LapPlanes
      <3>4. seq = frame \/ (seq = frame - 1 /\ frame >= 1)
        BY DEF LapWriter, Announced, Quiet
      <3>5. wpc = "copy" => seq = frame - 1
        BY DEF LapWriter, Announced, Quiet
      <3>6. plane[i][h] = Back(seq, Age(i)) \/ (Age(i) = Buffers - 1 /\ plane[i][h] = seq + 1)
        <4>1. CASE wpc = "copy" /\ i = widx /\ h \in wtodo
          BY <3>2, <3>3, <3>4, <3>5, <4>1 DEF Back, Age
        <4>2. CASE ~(wpc = "copy" /\ i = widx /\ h \in wtodo)
          <5> HIDE DEF i
          <5>1. plane[i][h] = Back(frame, Dist(i))
            BY <3>3, <4>2
          <5>2. CASE seq = frame
            BY <5>1, <5>2 DEF Age
          <5>3. CASE seq = frame - 1 /\ frame >= 1 /\ Dist(i) = 0
            BY <5>1, <5>3 DEF Age, Back
          <5>4. CASE seq = frame - 1 /\ frame >= 1 /\ Dist(i) # 0
            <6>1. seq # frame /\ seq \in Nat /\ frame = seq + 1 /\ Dist(i) \in 1 .. Buffers - 1
              BY <3>2, <5>4
            <6>2. Age(i) = Dist(i) - 1
              BY ONLY <5>4, <6>1 DEF Age
            <6> QED
              BY ONLY <5>1, <6>1, <6>2 DEF Back
          <5> QED
            BY <3>4, <5>2, <5>3, <5>4
        <4> QED
          BY <4>1, <4>2
      <3> QED
        BY <1>1, <2>1, <3>1, <3>6 DEF Seen, Back
    <2>5. CASE rtodo[r] = {h}
      <3>1. rpc'[r] = "check"
              /\ rtodo'[r] = Checked /\ "seq" \in Checked
        BY <1>6, <2>5 DEF LatestCopy, Checked
      <3> QED
        BY <1>0, <1>1, <2>1, <2>3, <2>4, <2>5, <3>1 DEF LapReader, Mixed, Oldest
    <2>6. CASE rtodo[r] # {h}
      <3>1. rpc'[r] = "copy" /\ rtodo'[r] = rtodo[r] \ {h}
        BY <1>6, <2>6 DEF LatestCopy
      <3> QED
        BY <1>0, <1>1, <2>1, <2>3, <2>4, <3>1 DEF LapReader, Mixed, Oldest
    <2> QED
      BY <2>5, <2>6
  <1>7. ASSUME NEW x \in Checked, LatestCheck(r, x) PROVE LapReader(r)' /\ LapGot(r)'
    <2>1. /\ rpc[r] = "check" /\ rpc'[r] = "check" /\ rtodo'[r] = rtodo[r] \ {x}
          /\ x \in rtodo[r] /\ UNCHANGED <<rseq, ridx, copy, last, got>>
      BY <1>7 DEF LatestCheck, Enabled
    <2>2. \A h \in Halves : Seen(r, h)' = Seen(r, h)
      <3>1. Age(ridx[r])' = Age(ridx[r])
        BY <1>2, <2>1
      <3> QED
        BY <1>1, <2>1, <3>1 DEF Seen, Back
    <2>3. CASE x = "active"
      <3>1. "seq" \in rtodo'[r] <=> "seq" \in rtodo[r]
        BY <2>1, <2>3
      <3> QED
        BY <1>1, <2>1, <2>2, <3>1 DEF LapReader, LapGot, Mixed, Oldest
    <2>4. CASE x = "seq"
      <3>1. rseq[r] = seq /\ Seen(r, "lo") /\ Seen(r, "hi")
        BY <1>7, <2>1, <2>4 DEF LatestCheck, Same, LapReader, Halves
      <3>2. Age(ridx[r]) \in 0 .. Buffers - 1
        <4>1. Dist(ridx[r]) \in 0 .. Buffers - 1
          BY RingDistance
        <4> QED
          BY ONLY <4>1, GfChannelConstants DEF Age
      <3>3. copy[r]["lo"] = copy[r].lo /\ copy[r]["hi"] = copy[r].hi
        OBVIOUS
      <3>4. Mixed(seq, copy[r].lo, copy[r].hi)
        <4>0. seq \in Nat /\ Back(seq, Age(ridx[r])) \in Oldest(seq) .. seq
              /\ Oldest(seq) \in Nat
          BY <3>2, BackInRing DEF Oldest
        <4>1. CASE Age(ridx[r]) # Buffers - 1
          BY <3>1, <4>0, <4>1 DEF Seen, Mixed
        <4>2. CASE Age(ridx[r]) = Buffers - 1
          <5>1. Back(seq, Age(ridx[r])) = Oldest(seq) /\ Oldest(seq) \in 0 .. seq
            BY <3>2, <4>0, <4>2, BackInRing
          <5>2. copy[r].lo \in {Oldest(seq), seq + 1} /\ copy[r].hi \in {Oldest(seq), seq + 1}
            BY <3>1, <5>1 DEF Seen
          <5>3. Oldest(seq) \in Oldest(seq) .. seq + 1 /\ seq + 1 \in Oldest(seq) .. seq + 1
            BY <5>1
          <5> QED
            BY <5>2, <5>3 DEF Mixed
        <4> QED
          BY <4>1, <4>2
      <3> QED
        BY <1>1, <2>1, <2>4, <3>1, <3>4 DEF LapReader, LapGot, Mixed, Oldest
    <2> QED
      BY <2>3, <2>4 DEF Checked
  <1>8. CASE LatestReturn(r)
    <2>1. /\ rpc[r] = "check" /\ rtodo[r] = {} /\ rpc'[r] = "out" /\ UNCHANGED rseq
          /\ last'[r] = rseq[r]
          /\ got'[r] = [seq |-> rseq[r], timestamp |-> timestamp, lo |-> copy[r].lo,
                        hi |-> copy[r].hi]
      BY <1>8 DEF LatestReturn, latest
    <2>2. timestamp + 1 >= seq /\ (InOrder => timestamp >= seq)
      BY DEF LapWriter, Announced, Quiet
    <2>3. rseq[r] <= seq /\ last[r] < rseq[r] /\ Mixed(rseq[r], copy[r].lo, copy[r].hi)
      BY <2>1 DEF LapReader
    <2>4. LapReader(r)'
      BY <1>1, <2>1, <2>3 DEF LapReader
    <2>5. timestamp + 1 >= rseq[r] /\ (InOrder => timestamp >= rseq[r])
      <3>1. seq \in Nat /\ rseq[r] \in Nat /\ timestamp \in Nat
        OBVIOUS
      <3> QED
        BY ONLY <2>2, <2>3, <3>1
    <2>6. LapGot(r)'
      <3> DEFINE mix == Mixed(rseq[r], copy[r].lo, copy[r].hi)
      <3>1. Mixed(got[r].seq, got[r].lo, got[r].hi)' <=> mix
        BY <2>1 DEF Mixed, Oldest
      <3> HIDE DEF mix
      <3> QED
        BY <2>1, <2>3, <2>5, <3>1 DEF LapGot, mix
    <2> QED
      BY <2>4, <2>6
  <1> QED
    BY <1>3, <1>4, <1>5, <1>6, <1>7, <1>8 DEF Latest, Reads

LEMMA LapAlways == Spec => []LapInv
  <1>1. Init => LapWriter /\ LapPlanes /\ \A r \in Readers : LapReader(r) /\ LapGot(r)
    <2> SUFFICES ASSUME Init
                 PROVE  LapWriter /\ LapPlanes /\ \A r \in Readers : LapReader(r) /\ LapGot(r)
      OBVIOUS
    <2> USE GfChannelConstants DEF Init, Index
    <2>1. LapWriter
      BY DEF LapWriter, Announced, Quiet
    <2>2. LapPlanes
      BY DEF LapPlanes, Dist, Back
    <2>3. ASSUME NEW r \in Readers PROVE LapReader(r) /\ LapGot(r)
      BY DEF LapReader, LapGot, Mixed, Oldest
    <2> QED
      BY <2>1, <2>2, <2>3
  <1>2. LapInv /\ TInv' /\ [Next]_vars => LapInv'
    <2> SUFFICES ASSUME LapInv, TInv', [Next]_vars PROVE LapInv'
      OBVIOUS
    <2> USE DEF LapInv
    <2>1. CASE Publish
      BY <2>1, PublishKeepsLap, PublishKeepsLapReaders
    <2>2. ASSUME NEW r \in Readers, Reads(r) PROVE LapInv'
      <3>1. UNCHANGED <<seq, active, timestamp, plane, wpc, frame, widx, wtodo>>
        BY <2>2 DEF Reads, LatestBegin, Latest, LatestLoad, LatestNothing, LatestNew,
           LatestCopy, LatestCheck, LatestChanged, LatestReturn, WaitBegin, Wait, WaitTimeout,
           WaitAdvanced, WaitSnap, WaitLoadNotify, WaitRecheck, WaitFutex, header, writer
      <3>2. LapWriter' /\ LapPlanes'
        BY <3>1 DEF LapWriter, LapPlanes, Announced, Quiet, Dist, Back, Succ
      <3>3. ASSUME NEW q \in Readers, q # r
            PROVE  /\ rpc'[q] = rpc[q] /\ rtodo'[q] = rtodo[q] /\ rseq'[q] = rseq[q]
                   /\ ridx'[q] = ridx[q] /\ copy'[q] = copy[q] /\ last'[q] = last[q]
                   /\ got'[q] = got[q]
        BY <2>2, <3>3, OthersUntouched
      <3>4. ASSUME NEW q \in Readers PROVE LapReader(q)' /\ LapGot(q)'
        <4>1. CASE q = r
          BY <2>2, <4>1, ReadsKeepLap
        <4>2. CASE q # r
          <5>1. \A h \in Halves : Seen(q, h)' = Seen(q, h)
            BY <3>1, <3>3, <4>2 DEF Seen, Age, Dist, Back
          <5>2. LapGot(q)'
            BY <3>3, <4>2 DEF LapGot, Mixed, Oldest
          <5> QED
            BY <3>1, <3>3, <4>2, <5>1, <5>2 DEF LapReader, Mixed, Oldest
        <4> QED
          BY <4>1, <4>2
      <3> QED
        BY <3>2, <3>4
    <2>3. CASE UNCHANGED vars
      <3>1. UNCHANGED <<header, plane, writer, rpc, latest, last, got>>
        BY <2>3 DEF vars
      <3>2. LapWriter' /\ LapPlanes'
        BY <3>1 DEF header, writer, LapWriter, LapPlanes, Announced, Quiet, Dist, Back, Succ
      <3>3. ASSUME NEW q \in Readers PROVE LapReader(q)' /\ LapGot(q)'
        <4>1. \A h \in Halves : Seen(q, h)' = Seen(q, h)
          BY <3>1 DEF header, writer, latest, Seen, Age, Dist, Back
        <4>2. LapGot(q)'
          BY <3>1 DEF LapGot, Mixed, Oldest
        <4> QED
          BY <3>1, <4>1, <4>2 DEF header, latest, LapReader, Mixed, Oldest
      <3> QED
        BY <3>2, <3>3
    <2> QED
      BY <2>1, <2>2, <2>3 DEF Next, Reads
  <1> QED
    BY <1>1, <1>2, TypesHold, PTL DEF Spec, LapInv

----------------------------------------------------------------------------
(* Three planes or more, and the program's order.                           *)

\* The next access of a phase in program order.
LEMMA InProgramOrder ==
  ASSUME Ordered
  PROVE  /\ Enabled(Header) = {"timestamp"} /\ Enabled(Checked) = {"seq"}
         /\ Enabled({"active"}) = {"active"}
  BY DEF Ordered, Enabled, Position, Header, Checked

\* A publication keeps its order and its planes; the number it announces is the next.
LEMMA PublishKeepsPlanes ==
  ASSUME Ordered, TInv, WriterInv, PlaneInv, Publish
  PROVE  /\ WriterInv' /\ PlaneInv'
         /\ \/ seq' = seq /\ Cur' = Cur
            \/ seq' = seq + 1 /\ seq' <= MaxFrames
         /\ timestamp' >= seq'
  <1> USE GfChannelConstants, InProgramOrder, SuccInRing
  <1> USE DEF TInv, TypeOK, WriterInv, PlaneInv, Announced, Quiet, Cur, Frames, header, writer
  <1>1. CASE PublishBegin
    <2>1. widx' = Succ(active) /\ active' = active /\ frame' = frame + 1 /\ seq = frame
      BY <1>1 DEF PublishBegin, Succ
    <2>2. WriterInv'
      BY <1>1, <2>1 DEF PublishBegin, Halves
    <2>3. Cur' = Cur /\ seq' = seq /\ plane' = plane
      BY <1>1, <2>1 DEF PublishBegin
    <2> QED
      BY <1>1, <2>1, <2>2, <2>3 DEF PublishBegin
  <1>2. ASSUME NEW h \in Halves, PublishCopy(h)
        PROVE  WriterInv' /\ PlaneInv' /\ seq' = seq /\ Cur' = Cur /\ timestamp' >= seq'
    <2>1. WriterInv' /\ seq' = seq /\ Cur' = Cur /\ timestamp' >= seq'
      <3>1. CASE wtodo = {h}
        BY <1>2, <3>1 DEF PublishCopy, Header
      <3>2. CASE wtodo # {h}
        <4>1. wtodo \ {h} # {} /\ wtodo \ {h} \subseteq Halves
          BY <1>2, <3>2 DEF PublishCopy
        <4> QED
          BY <1>2, <3>2, <4>1 DEF PublishCopy
      <3> QED
        BY <3>1, <3>2
    <2>2. Cur = active /\ widx = Succ(active) /\ seq = frame - 1 /\ wpc = "copy"
      BY <1>2 DEF PublishCopy
    <2>3. \A i \in Index : i # widx => plane'[i] = plane[i]
      BY <1>2 DEF PublishCopy
    <2>4. plane'[widx][h] = frame /\ \A g \in Halves : g # h => plane'[widx][g] = plane[widx][g]
      BY <1>2 DEF PublishCopy
    <2>5. Cur # widx /\ \A i \in Index : Succ(i) = Cur => i # widx
      BY <2>2 DEF Ordered
    <2>6. (wpc' = "copy" /\ wtodo' = wtodo \ {h}) \/ (wpc' = "header" /\ wtodo = {h})
      BY <1>2 DEF PublishCopy
    <2>7. UNCHANGED <<seq, frame, widx, active>> /\ Cur \in Index
      BY <1>2 DEF PublishCopy
    <2>8. \A g \in Halves : plane'[Cur'][g] = seq'
      BY <2>1, <2>3, <2>5, <2>7
    <2>9. seq' >= 1 => \A i \in Index : Succ(i) = Cur' =>
            \A g \in Halves : plane'[i][g] = seq' - 1
      BY <2>1, <2>3, <2>5
    <2>10. wpc' = "copy" => \A g \in Halves \ wtodo' : plane'[widx'][g] = frame'
      BY <2>2, <2>4, <2>6, <2>7
    <2>11. wpc' = "header" => \A g \in Halves : plane'[widx'][g] = frame'
      BY <2>2, <2>4, <2>6, <2>7
    <2> QED
      BY <2>1, <2>8, <2>9, <2>10, <2>11
  <1>3. ASSUME NEW x \in Header, PublishStore(x)
        PROVE  /\ WriterInv' /\ PlaneInv' /\ timestamp' >= seq'
               /\ \/ seq' = seq /\ Cur' = Cur
                  \/ seq' = seq + 1 /\ seq' <= MaxFrames
    <2> USE DEF PublishStore
    <2>1. wpc = "header" /\ plane' = plane /\ UNCHANGED <<widx, frame>>
      BY <1>3
    <2>2. CASE wtodo = Header
      <3>1. x = "timestamp" /\ wtodo' = Checked /\ wpc' = "header"
        BY <1>3, <2>2 DEF Header, Checked
      <3>2. timestamp' = frame /\ UNCHANGED <<seq, active>>
        BY <1>3, <3>1
      <3>3. WriterInv' /\ Cur' = Cur
        BY <2>1, <2>2, <3>1, <3>2 DEF Header, Checked
      <3> QED
        BY <2>1, <2>2, <3>1, <3>2, <3>3
    <2>3. CASE wtodo = Checked
      <3>1. x = "seq" /\ wtodo' = {"active"} /\ wpc' = "header" /\ seq' = frame
              /\ UNCHANGED <<active, timestamp>>
        BY <1>3, <2>3 DEF Checked
      <3>2. seq = frame - 1 /\ Cur = active /\ widx = Succ(active) /\ Cur' = widx
        BY <2>1, <2>3, <3>1 DEF Checked
      <3>3. WriterInv'
        <4>1. timestamp = frame
          BY <2>1, <2>3 DEF Checked, Header
        <4>2. Announced' /\ ~Quiet'
          BY <3>1
        <4> QED
          BY <2>1, <3>1, <3>2, <4>1, <4>2
      <3>4. PlaneInv'
        BY <2>1, <3>1, <3>2
      <3>5. seq' = seq + 1 /\ seq' <= MaxFrames /\ timestamp' >= seq'
        BY <2>1, <2>3, <3>1, <3>2, <3>3
      <3> QED
        BY <3>3, <3>4, <3>5
    <2>4. CASE wtodo = {"active"}
      <3>1. x = "active" /\ wtodo' = {} /\ wpc' = "notify" /\ active' = widx
              /\ UNCHANGED <<seq, timestamp>>
        BY <1>3, <2>4
      <3>2. seq = frame /\ Cur = widx /\ Cur' = widx
        BY <2>1, <2>4, <3>1
      <3> QED
        BY <2>1, <2>4, <3>1, <3>2
    <2> QED
      BY <2>1, <2>2, <2>3, <2>4
  <1>4. CASE PublishNotify
    BY <1>4 DEF PublishNotify
  <1>5. CASE PublishWake
    BY <1>5 DEF PublishWake
  <1> QED
    BY <1>1, <1>2, <1>3, <1>4, <1>5 DEF Publish

\* The writer leaves a reader what it knows: either the newest number has moved on,
\* or neither the number nor its buffer has changed.
LEMMA PublishKeepsReaders ==
  ASSUME Ordered, TInv, WriterInv, PlaneInv, Publish,
         NEW r \in Readers, ReaderInv(r), GotInv(r)
  PROVE  ReaderInv(r)' /\ GotInv(r)'
  <1> USE DEF TInv, TypeOK, Frames
  <1>1. \/ seq' = seq /\ Cur' = Cur
        \/ seq' = seq + 1
    BY PublishKeepsPlanes
  <1>2. UNCHANGED <<latest, last, got>>
    BY DEF Publish, PublishBegin, PublishCopy, PublishStore, PublishNotify, PublishWake,
       header, writer, latest
  <1>3. rpc'[r] = rpc[r] \/ (rpc[r] = "asleep" /\ rpc'[r] = "wait")
    BY DEF Publish, PublishBegin, PublishCopy, PublishStore, PublishNotify, PublishWake
  <1>4. GotInv(r)'
    BY <1>2 DEF GotInv
  <1>5. ReaderInv(r)'
    <2>1. UNCHANGED <<rtodo, rseq, ridx, copy, last>>
      BY <1>2 DEF latest
    <2>2. CASE seq' = seq /\ Cur' = Cur
      BY <1>3, <2>1, <2>2 DEF ReaderInv, Held
    <2>3. CASE seq' = seq + 1
      <3>1. rseq'[r] # seq' /\ rseq'[r] <= seq'
        BY <2>1, <2>3 DEF ReaderInv
      <3> QED
        BY <1>3, <2>1, <3>1 DEF ReaderInv
    <2> QED
      BY <1>1, <2>2, <2>3
  <1> QED
    BY <1>4, <1>5

\* A reader keeps its own invariant, and does not touch those of the others.
LEMMA ReaderKeepsReaders ==
  ASSUME Ordered, TInv, WriterInv, PlaneInv, NEW r \in Readers, ReaderInv(r), GotInv(r),
         Reads(r)
  PROVE  ReaderInv(r)' /\ GotInv(r)'
  <1> USE GfChannelConstants, InProgramOrder, SuccInRing
  <1> USE DEF TInv, TypeOK, Frames, ReaderInv, GotInv, Goto, header, writer, latest
  <1>1. CASE LatestBegin(r)
    <2>1. rpc'[r] = "load" /\ rtodo'[r] = Checked /\ Checked # {}
      BY <1>1 DEF LatestBegin, Checked
    <2> QED
      BY <1>1, <2>1 DEF LatestBegin
  <1>2. ASSUME NEW x \in Checked, LatestLoad(r, x) PROVE ReaderInv(r)' /\ GotInv(r)'
    <2>1. UNCHANGED <<seq, active, widx, frame, copy, last, got, rpc>> /\ Cur' = Cur
            /\ rpc[r] = "load"
      BY <1>2 DEF LatestLoad, Cur
    <2>2. CASE rtodo[r] = Checked
      <3>1. x = "seq" /\ rtodo'[r] = {"active"} /\ rseq'[r] = seq
        BY <1>2, <2>2 DEF LatestLoad, Checked
      <3> QED
        BY <2>1, <3>1
    <2>3. CASE rtodo[r] = {"active"}
      <3>1. rtodo'[r] = {} /\ ridx'[r] = active /\ rseq' = rseq
        BY <1>2, <2>3 DEF LatestLoad
      <3>2. active = Cur \/ Succ(active) = Cur
        BY DEF WriterInv, Cur
      <3> QED
        BY <2>1, <3>1, <3>2
    <2> QED
      BY <1>2, <2>1, <2>2, <2>3 DEF LatestLoad, Enabled
  <1>3. CASE LatestNothing(r)
    BY <1>3 DEF LatestNothing, Cur, Held
  <1>4. CASE LatestNew(r)
    <2>1. Halves # {} /\ Halves \ Halves = {}
      BY DEF Halves
    <2>2. last[r] < rseq[r]
      <3>1. last[r] \in Nat /\ rseq[r] \in Nat
        OBVIOUS
      <3>2. rseq[r] \notin {0, last[r]} /\ last[r] <= rseq[r]
        BY <1>4 DEF LatestNew
      <3> QED
        BY ONLY <3>1, <3>2
    <2> QED
      BY <1>4, <2>1, <2>2 DEF LatestNew, Cur, Held
  <1>5. ASSUME NEW h \in Halves, LatestCopy(r, h) PROVE ReaderInv(r)' /\ GotInv(r)'
    <2>1. UNCHANGED <<seq, active, widx, frame, plane, last, got, rseq, ridx>> /\ Cur' = Cur
            /\ rpc[r] = "copy"
      BY <1>5 DEF LatestCopy, Cur
    <2>2. \A g \in Halves : copy'[r][g] = IF g = h THEN plane[ridx[r]][h] ELSE copy[r][g]
      BY <1>5 DEF LatestCopy
    <2>3. rseq[r] = seq => plane[ridx[r]][h] = Held(r)
      BY <2>1 DEF PlaneInv, Held
    <2>4. Held(r)' = Held(r)
      BY <2>1 DEF Held
    <2>5. CASE rtodo[r] = {h}
      <3>1. rpc'[r] = "check" /\ rtodo'[r] = Checked
        BY <1>5, <2>5 DEF LatestCopy
      <3>2. rseq[r] = seq => \A g \in Halves : copy'[r][g] = Held(r)
        BY <2>1, <2>2, <2>3, <2>5
      <3> QED
        BY <2>1, <2>4, <3>1, <3>2 DEF Checked
    <2>6. CASE rtodo[r] # {h}
      <3>1. rpc'[r] = "copy" /\ rtodo'[r] = rtodo[r] \ {h}
        BY <1>5, <2>6 DEF LatestCopy
      <3>2. rseq[r] = seq => \A g \in Halves \ rtodo'[r] : copy'[r][g] = Held(r)
        BY <2>1, <2>2, <2>3, <3>1
      <3>3. rtodo'[r] # {} /\ rtodo'[r] \subseteq Halves
        BY <1>5, <2>6, <3>1 DEF LatestCopy
      <3> QED
        BY <2>1, <2>4, <3>1, <3>2, <3>3
    <2> QED
      BY <2>5, <2>6
  <1>6. ASSUME NEW x \in Checked, LatestCheck(r, x) PROVE ReaderInv(r)' /\ GotInv(r)'
    <2>1. UNCHANGED <<seq, active, widx, frame, copy, last, got, rseq, ridx, rpc>>
            /\ Cur' = Cur /\ rpc[r] = "check"
      BY <1>6 DEF LatestCheck, Cur
    <2>2. CASE rtodo[r] = Checked
      <3>1. x = "seq" /\ rtodo'[r] = {"active"} /\ rseq[r] = seq
        BY <1>6, <2>2 DEF LatestCheck, Checked, Same
      <3>2. \A h \in Halves : copy[r][h] = Held(r)
        BY <2>1, <2>2, <3>1
      <3>3. copy[r].lo = copy[r].hi /\ copy[r].lo \in {rseq[r] - 1, rseq[r]}
        BY <3>1, <3>2 DEF Halves, Held
      <3> QED
        BY <2>1, <3>1, <3>3 DEF Checked
    <2>3. CASE rtodo[r] = {"active"}
      <3>1. rtodo'[r] = {}
        BY <1>6, <2>3 DEF LatestCheck
      <3> QED
        BY <2>1, <2>3, <3>1 DEF Checked
    <2> QED
      BY <1>6, <2>1, <2>2, <2>3 DEF LatestCheck
  <1>7. ASSUME NEW x \in Checked, LatestChanged(r, x) PROVE ReaderInv(r)' /\ GotInv(r)'
    BY <1>7 DEF LatestChanged, Cur, Held
  <1>8. CASE LatestReturn(r)
    <2>1. copy[r].lo = copy[r].hi /\ copy[r].lo \in {rseq[r] - 1, rseq[r]}
      BY <1>8 DEF LatestReturn, Checked
    <2>2. timestamp >= seq
      BY DEF WriterInv
    <2>3. rpc'[r] = "out" /\ last'[r] = rseq[r] /\ UNCHANGED <<rseq, seq>>
          /\ got'[r] = [seq |-> rseq[r], timestamp |-> timestamp, lo |-> copy[r].lo,
            hi |-> copy[r].hi]
      BY <1>8 DEF LatestReturn
    <2> QED
      BY <2>1, <2>2, <2>3
  <1>9. CASE WaitBegin(r) \/ Wait(r) \/ WaitTimeout(r)
    BY <1>9 DEF WaitBegin, Wait, WaitTimeout, WaitAdvanced, WaitSnap, WaitLoadNotify,
       WaitRecheck, WaitFutex
  <1> QED
    BY <1>1, <1>2, <1>3, <1>4, <1>5, <1>6, <1>7, <1>8, <1>9 DEF Latest, Reads

LEMMA InvAlways == ASSUME Ordered PROVE Spec => []IInv
  <1>1. Init => WriterInv /\ PlaneInv /\ \A r \in Readers : ReaderInv(r) /\ GotInv(r)
    <2> SUFFICES ASSUME Init
                 PROVE  WriterInv /\ PlaneInv /\ \A r \in Readers : ReaderInv(r) /\ GotInv(r)
      OBVIOUS
    <2> USE GfChannelConstants DEF Init, Index
    <2>1. WriterInv
      BY DEF WriterInv, Announced, Quiet
    <2>2. PlaneInv
      BY DEF PlaneInv, Cur
    <2>3. ASSUME NEW r \in Readers PROVE ReaderInv(r) /\ GotInv(r)
      BY DEF ReaderInv, GotInv
    <2> QED
      BY <2>1, <2>2, <2>3
  <1>2. IInv /\ TInv' /\ [Next]_vars => IInv'
    <2> SUFFICES ASSUME IInv, TInv', [Next]_vars PROVE IInv'
      OBVIOUS
    <2> USE DEF IInv
    <2>1. CASE Publish
      BY <2>1, PublishKeepsPlanes, PublishKeepsReaders
    <2>2. ASSUME NEW r \in Readers, Reads(r)
          PROVE  IInv'
      <3> DEFINE mine == <<rpc, rtodo, rseq, ridx, copy, last, got>>
      <3>1. UNCHANGED <<seq, active, timestamp, plane, wpc, frame, widx, wtodo>>
        BY <2>2 DEF Reads, LatestBegin, Latest, LatestLoad, LatestNothing, LatestNew,
           LatestCopy, LatestCheck, LatestChanged, LatestReturn, WaitBegin, Wait, WaitTimeout,
           WaitAdvanced, WaitSnap, WaitLoadNotify, WaitRecheck, WaitFutex, header, writer
      <3>2. WriterInv' /\ PlaneInv' /\ Cur' = Cur
        BY <3>1 DEF WriterInv, PlaneInv, Announced, Quiet, Cur
      <3>3. ASSUME NEW q \in Readers, q # r
            PROVE  /\ rpc'[q] = rpc[q] /\ rtodo'[q] = rtodo[q] /\ rseq'[q] = rseq[q]
                   /\ ridx'[q] = ridx[q] /\ copy'[q] = copy[q] /\ last'[q] = last[q]
                     /\ got'[q] = got[q]
        BY <2>2, <3>3, OthersUntouched
      <3>4. ASSUME NEW q \in Readers PROVE ReaderInv(q)' /\ GotInv(q)'
        <4>1. CASE q = r
          BY <2>2, <4>1, ReaderKeepsReaders
        <4>2. CASE q # r
          BY <3>1, <3>2, <3>3, <4>2 DEF ReaderInv, GotInv, Held
        <4> QED
          BY <4>1, <4>2
      <3> QED
        BY <3>2, <3>4
    <2>3. CASE UNCHANGED vars
      BY <2>3 DEF vars, header, writer, latest, WriterInv, PlaneInv, Announced, Quiet, Cur,
         ReaderInv, GotInv, Held
    <2> QED
      BY <2>1, <2>2, <2>3 DEF Next, Reads
  <1> QED
    BY <1>1, <1>2, TypesHold, PTL DEF Spec, IInv

----------------------------------------------------------------------------
\* TypeOK, for every number of buffers and whatever order the accesses take.
THEOREM TypeCorrect == Spec => []TypeOK
  <1>1. TInv => TypeOK
    BY DEF TInv
  <1> QED
    BY TypesHold, <1>1, PTL

\* TornByLapOnly: however many planes and in whatever order the plain accesses take
\* effect, the frame of the number returned by gf_channel_latest is never torn, only the
\* oldest one can be, by the next publication; with three planes and fences that hold none.
THEOREM OnlyTheOldestIsTorn == Spec => []TornByLapOnly
  <1>1. LapInv => \A r \in Readers : Mixed(got[r].seq, got[r].lo, got[r].hi)
    BY DEF LapInv, LapGot
  <1>2. ASSUME InOrder, Buffers >= 3
        PROVE  Spec => [](\A r \in Readers : got[r].lo = got[r].hi
                                              /\ got[r].lo \in {got[r].seq - 1, got[r].seq})
    <2>1. IInv => \A r \in Readers : got[r].lo = got[r].hi
                                      /\ got[r].lo \in {got[r].seq - 1, got[r].seq}
      BY DEF IInv, GotInv, TInv, TypeOK, Frames
    <2>2. Ordered
      BY <1>2, GfChannelConstants DEF Ordered
    <2> QED
      BY <2>1, <2>2, InvAlways, PTL
  <1>3. CASE InOrder /\ Buffers >= 3
    <2>1. (\A r \in Readers : Mixed(got[r].seq, got[r].lo, got[r].hi))
          /\ (\A r \in Readers : got[r].lo = got[r].hi
                                  /\ got[r].lo \in {got[r].seq - 1, got[r].seq})
          => TornByLapOnly
      BY DEF TornByLapOnly, Mixed
    <2>2. Spec => [](\A r \in Readers : got[r].lo = got[r].hi
                                         /\ got[r].lo \in {got[r].seq - 1, got[r].seq})
      BY <1>2, <1>3
    <2> QED
      BY <1>1, <2>1, <2>2, LapAlways, PTL
  <1>4. CASE ~(InOrder /\ Buffers >= 3)
    <2>1. (\A r \in Readers : Mixed(got[r].seq, got[r].lo, got[r].hi)) => TornByLapOnly
      BY <1>4 DEF TornByLapOnly, Mixed
    <2> QED
      BY <1>1, <2>1, LapAlways, PTL
  <1> QED
    BY <1>3, <1>4

\* TimestampNotOlder: however many planes, the timestamp returned is at most one
\* publication behind the number, and not behind it where the accesses keep the program's
\* order, for gf_channel_publish stores it first.
THEOREM TimestampsKeepUp == Spec => []TimestampNotOlder
  <1>1. LapInv => TimestampNotOlder
    BY DEF LapInv, LapGot, TimestampNotOlder
  <1> QED
    BY LapAlways, <1>1, PTL

\* What the readers hold, as LatestFrame sees it.
taken == [r \in Readers |-> [seq |-> got[r].seq, from |-> {got[r].lo, got[r].hi}]]

\* The mixtures of a lap are those that LatestFrame allows.
LEMMA MixedIsFrom ==
  ASSUME NEW s \in Nat, NEW lo \in Nat, NEW hi \in Nat, Mixed(s, lo, hi),
         ~(InOrder /\ Buffers >= 3)
  PROVE  {lo, hi} \in Promise!From(s)
  <1>1. Promise!Oldest(s) = Oldest(s)
    BY DEF Promise!Oldest, Oldest
  <1>2. CASE lo = hi /\ lo \in Oldest(s) .. s + 1
    <2>1. {lo, hi} = {lo} /\ lo \in Promise!Lap(s)
      BY <1>1, <1>2 DEF Promise!Lap
    <2> QED
      BY <2>1 DEF Promise!From
  <1>3. CASE {lo, hi} = {Oldest(s), s + 1}
    BY <1>1, <1>3 DEF Promise!From
  <1> QED
    BY <1>2, <1>3 DEF Mixed

\* Returning from gf_channel_latest takes a frame, as LatestFrame allows it.
LEMMA ReturnTakes ==
  ASSUME LapInv, (InOrder /\ Buffers >= 3) => IInv, NEW r \in Readers, LatestReturn(r)
  PROVE  Promise!Take(r)
  <1> USE DEF LapInv, TInv, TypeOK, Frames
  <1> DEFINE frames == {copy[r].lo, copy[r].hi}
  <1>1. /\ got' = [got EXCEPT ![r] = [seq |-> rseq[r], timestamp |-> timestamp,
                                      lo |-> copy[r].lo, hi |-> copy[r].hi]]
        /\ seq' = seq /\ rpc[r] = "check" /\ rtodo[r] = {}
    BY DEF LatestReturn, header
  <1>2. rseq[r] \in taken[r].seq + 1 .. seq
    <2>1. taken[r].seq = last[r] /\ last[r] < rseq[r] /\ rseq[r] <= seq
      BY <1>1 DEF LapReader, LapGot, taken
    <2> QED
      BY <2>1
  <1>3. copy[r].lo \in Nat /\ copy[r].hi \in Nat
    <2>1. copy[r] \in [Halves -> Frames]
      OBVIOUS
    <2> QED
      BY <2>1, GfChannelConstants DEF Halves
  <1>4. taken' = [taken EXCEPT ![r] = [seq |-> rseq[r], from |-> frames]]
    BY <1>1 DEF taken
  <1>5. /\ frames \in Promise!From(rseq[r])
        /\ (InOrder /\ Buffers >= 3) => \A f \in taken[r].from, g \in frames : f <= g
    <2>1. CASE InOrder /\ Buffers >= 3
      <3>1. IInv
        BY <2>1
      <3>2. copy[r].lo = copy[r].hi /\ copy[r].lo \in {rseq[r] - 1, rseq[r]}
              /\ last[r] < rseq[r]
        BY <1>1, <3>1 DEF IInv, ReaderInv, Checked
      <3>3. got[r].lo = got[r].hi /\ got[r].lo <= last[r] /\ got[r].lo \in Nat
        <4>1. got[r].lo \in Nat /\ last[r] \in Nat
          OBVIOUS
        <4>2. got[r].lo = got[r].hi /\ got[r].lo \in {last[r] - 1, last[r]}
          BY <3>1 DEF IInv, GotInv
        <4> QED
          BY ONLY <4>1, <4>2
      <3>4. frames = {copy[r].lo} /\ taken[r].from = {got[r].lo}
        BY <3>2, <3>3 DEF taken
      <3>5. got[r].lo <= copy[r].lo
        BY <1>3, <3>2, <3>3
      <3>6. frames \in Promise!From(rseq[r])
        BY <2>1, <3>2, <3>4 DEF Promise!From
      <3> HIDE DEF frames
      <3> QED
        BY <3>4, <3>5, <3>6
    <2>2. CASE ~(InOrder /\ Buffers >= 3)
      <3>1. Mixed(rseq[r], copy[r].lo, copy[r].hi)
        BY <1>1 DEF LapReader
      <3>2. rseq[r] \in Nat
        OBVIOUS
      <3> QED
        BY <1>3, <2>2, <3>1, <3>2, MixedIsFrom
    <2> QED
      BY <2>1, <2>2
  <1> HIDE DEF frames
  <1>6. UNCHANGED seq
    BY <1>1
  <1> QED
    BY ONLY <1>2, <1>4, <1>5, <1>6 DEF Promise!Take, taken

\* The step from one action of the channel to LatestFrame: storing seq publishes,
\* returning from gf_channel_latest takes, everything else is unseen.
LEMMA StepsKeepPromise ==
  ASSUME LapInv, (InOrder /\ Buffers >= 3) => IInv, Next
  PROVE  [Promise!Next]_<<seq, taken>>
  <1>1. CASE Publish
    <2>1. UNCHANGED taken
      BY <1>1 DEF Publish, PublishBegin, PublishCopy, PublishStore, PublishNotify, PublishWake,
         taken
    <2>2. seq' = seq \/ (seq' = seq + 1 /\ seq < MaxFrames)
      BY <1>1, PublishKeepsLap, GfChannelConstants DEF LapInv, TInv, TypeOK, Frames
    <2> QED
      BY <2>1, <2>2 DEF Promise!Next, Promise!Publish, taken
  <1>2. ASSUME NEW r \in Readers, Reads(r), ~LatestReturn(r)
        PROVE  UNCHANGED <<seq, taken>>
    BY <1>2 DEF Reads, LatestBegin, Latest, LatestLoad, LatestNothing, LatestNew, LatestCopy,
       LatestCheck, LatestChanged, WaitBegin, Wait, WaitTimeout, WaitAdvanced, WaitSnap,
       WaitLoadNotify, WaitRecheck, WaitFutex, header, taken
  <1> QED
    BY <1>1, <1>2, ReturnTakes DEF Next, Promise!Next, Reads

\* KeepsPromise: for every number of planes, readers and publications, and in every order
\* of the plain accesses, the channel implements LatestFrame: numbers increase, and the
\* bytes that come with one are of its lap; with three planes and the program's order they
\* are one frame, of the number or the one before, never older than the last one taken.
THEOREM ImplementsLatestFrame == Spec => KeepsPromise
  <1> DEFINE Strict == (InOrder /\ Buffers >= 3) => IInv
  <1>1. Init => Promise!Init
    <2> SUFFICES ASSUME Init PROVE Promise!Init
      OBVIOUS
    <2>1. \A r \in Readers : got[r].seq = 0 /\ {got[r].lo, got[r].hi} = {0}
      BY DEF Init
    <2> QED
      BY <2>1 DEF Init, Promise!Init
  <1>2. LapInv /\ Strict /\ [Next]_vars => [Promise!Next]_<<seq, taken>>
    BY StepsKeepPromise DEF vars, header, taken
  <1>3. Spec => []Strict
    <2>1. CASE InOrder /\ Buffers >= 3
      <3>1. Ordered
        BY <2>1, GfChannelConstants DEF Ordered
      <3>2. IInv => Strict
        OBVIOUS
      <3> QED
        BY <3>1, <3>2, InvAlways, PTL
    <2>2. CASE ~(InOrder /\ Buffers >= 3)
      <3>1. Strict
        BY <2>2
      <3> QED
        BY <3>1, PTL
    <2> QED
      BY <2>1, <2>2
  <1> HIDE DEF Strict
  <1> QED
    BY <1>1, <1>2, <1>3, LapAlways, PTL DEF Spec, KeepsPromise, Promise!Spec, taken
=============================================================================
