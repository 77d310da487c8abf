----------------------------- MODULE GfChannel -----------------------------
(***************************************************************************)
(* GfChannel: a latest-frame channel in POSIX shared memory                *)
(* (middleware/bindings/gf_channel/src/gf_channel.cpp).                    *)
(*                                                                         *)
(* One writer copies a frame into the buffer after the active one and then *)
(* stores the header fields; readers load the header, copy the active      *)
(* buffer and load the header again.  There is no lock: the fields are     *)
(* plain variables, ordered only by the fences between the phases.  A      *)
(* frame is the number of its publication, copied in two halves.           *)
(***************************************************************************)
EXTENDS Naturals

CONSTANTS
  Buffers,      \* number of planes: 2 or 3
  Readers,      \* processes that call gf_channel_latest and gf_channel_wait_seq
  InOrder,      \* plain accesses between two fences keep the program's order
  MaxFrames     \* bound: publications

ASSUME GfChannelConstants ==
  /\ Buffers \in Nat /\ Buffers >= 2
  /\ InOrder \in BOOLEAN
  /\ MaxFrames \in Nat

Index == 0..(Buffers - 1)
Frames == 0..MaxFrames     \* 0: the zeroes of gf_channel_create
Halves == {"lo", "hi"}
Header == {"timestamp", "seq", "active"}
Checked == {"seq", "active"}

VARIABLES
  seq, active, timestamp, notify,   \* ChannelHeader
  plane,                            \* the buffers
  wpc, frame, widx, wtodo,          \* writer: phase, frame, buffer, accesses left
  rpc, rtodo,                       \* readers: phase, accesses left
  rseq, ridx, copy, snap,           \* their local variables
  last, got                         \* inout_last_seq, and the last frame returned

header == <<seq, active, timestamp, notify>>
writer == <<wpc, frame, widx, wtodo>>
latest == <<rtodo, rseq, ridx, copy>>
vars == <<header, plane, writer, rpc, latest, snap, last, got>>

\* The accesses of a phase that may be made next.
PositionTimestampLast ==   \* mutant: the timestamp is stored after the frame is announced
  [seq |-> 1, active |-> 2, timestamp |-> 3]
Position == [timestamp |-> 1, seq |-> 2, active |-> 3]
Enabled(todo) ==
  {x \in todo : InOrder => \A y \in todo : Position[x] <= Position[y]}

----------------------------------------------------------------------------
(* gf_channel_publish *)

PublishIntoActive ==   \* mutant: the active buffer is overwritten
  /\ wpc = "idle" /\ frame < MaxFrames
  /\ frame' = frame + 1
  /\ widx' = active
  /\ wpc' = "copy" /\ wtodo' = Halves
  /\ UNCHANGED <<header, plane, rpc, latest, snap, last, got>>

PublishBegin ==
  /\ wpc = "idle" /\ frame < MaxFrames
  /\ frame' = frame + 1
  /\ widx' = (active + 1) % Buffers
  /\ wpc' = "copy" /\ wtodo' = Halves
  /\ UNCHANGED <<header, plane, rpc, latest, snap, last, got>>

PublishCopy(h) ==
  /\ wpc = "copy" /\ h \in wtodo
  /\ plane' = [plane EXCEPT ![widx][h] = frame]
  /\ IF wtodo = {h}
     THEN wpc' = "header" /\ wtodo' = Header
     ELSE wpc' = wpc /\ wtodo' = wtodo \ {h}
  /\ UNCHANGED <<header, frame, widx, rpc, latest, snap, last, got>>

PublishStore(x) ==
  /\ wpc = "header" /\ x \in Enabled(wtodo)
  /\ CASE x = "timestamp" -> timestamp' = frame /\ UNCHANGED <<seq, active>>
       [] x = "seq"       -> seq' = frame /\ UNCHANGED <<timestamp, active>>
       [] x = "active"    -> active' = widx /\ UNCHANGED <<timestamp, seq>>
  /\ wtodo' = wtodo \ {x}
  /\ wpc' = IF wtodo = {x} THEN "notify" ELSE wpc
  /\ UNCHANGED <<notify, plane, frame, widx, rpc, latest, snap, last, got>>

PublishNotify ==
  /\ wpc = "notify"
  /\ notify' = notify + 1
  /\ wpc' = "wake"
  /\ UNCHANGED <<seq, active, timestamp, plane, frame, widx, wtodo, rpc, latest, snap,
                 last, got>>

\* FUTEX_WAKE of every waiter.
PublishWake ==
  /\ wpc = "wake"
  /\ rpc' = [r \in Readers |-> IF rpc[r] = "asleep" THEN "wait" ELSE rpc[r]]
  /\ wpc' = "idle"
  /\ UNCHANGED <<header, plane, frame, widx, wtodo, latest, snap, last, got>>

----------------------------------------------------------------------------
(* gf_channel_latest *)

Goto(r, place) == rpc' = [rpc EXCEPT ![r] = place]

LatestBegin(r) ==
  /\ rpc[r] = "out"
  /\ Goto(r, "load") /\ rtodo' = [rtodo EXCEPT ![r] = Checked]
  /\ UNCHANGED <<header, plane, writer, rseq, ridx, copy, snap, last, got>>

LatestLoad(r, x) ==
  /\ rpc[r] = "load" /\ x \in Enabled(rtodo[r])
  /\ rtodo' = [rtodo EXCEPT ![r] = @ \ {x}]
  /\ IF x = "seq"
     THEN rseq' = [rseq EXCEPT ![r] = seq] /\ ridx' = ridx
     ELSE ridx' = [ridx EXCEPT ![r] = active] /\ rseq' = rseq
  /\ UNCHANGED <<header, plane, writer, rpc, copy, snap, last, got>>

\* No frame yet, or none since the last: return 0.
LatestNothing(r) ==
  /\ rpc[r] = "load" /\ rtodo[r] = {} /\ rseq[r] \in {0, last[r]}
  /\ Goto(r, "out")
  /\ UNCHANGED <<header, plane, writer, latest, snap, last, got>>

LatestNew(r) ==
  /\ rpc[r] = "load" /\ rtodo[r] = {} /\ rseq[r] \notin {0, last[r]}
  /\ Goto(r, "copy") /\ rtodo' = [rtodo EXCEPT ![r] = Halves]
  /\ UNCHANGED <<header, plane, writer, rseq, ridx, copy, snap, last, got>>

LatestCopy(r, h) ==
  /\ rpc[r] = "copy" /\ h \in rtodo[r]
  /\ copy' = [copy EXCEPT ![r][h] = plane[ridx[r]][h]]
  /\ IF rtodo[r] = {h}
     THEN Goto(r, "check") /\ rtodo' = [rtodo EXCEPT ![r] = Checked]
     ELSE rpc' = rpc /\ rtodo' = [rtodo EXCEPT ![r] = @ \ {h}]
  /\ UNCHANGED <<header, plane, writer, rseq, ridx, snap, last, got>>

SameActiveOnly(r, x) == x = "active" => active = ridx[r]   \* mutant: seq not checked
Same(r, x) == IF x = "seq" THEN seq = rseq[r] ELSE active = ridx[r]

LatestCheck(r, x) ==
  /\ rpc[r] = "check" /\ x \in Enabled(rtodo[r])
  /\ Same(r, x)
  /\ rtodo' = [rtodo EXCEPT ![r] = @ \ {x}]
  /\ UNCHANGED <<header, plane, writer, rpc, rseq, ridx, copy, snap, last, got>>

LatestChanged(r, x) ==
  /\ rpc[r] = "check" /\ x \in Enabled(rtodo[r])
  /\ ~Same(r, x)
  /\ Goto(r, "out") /\ rtodo' = [rtodo EXCEPT ![r] = {}]
  /\ UNCHANGED <<header, plane, writer, rseq, ridx, copy, snap, last, got>>

LatestReturn(r) ==
  /\ rpc[r] = "check" /\ rtodo[r] = {}
  /\ last' = [last EXCEPT ![r] = rseq[r]]
  /\ got' = [got EXCEPT ![r] = [seq |-> rseq[r], timestamp |-> timestamp,
                                lo |-> copy[r].lo, hi |-> copy[r].hi]]
  /\ Goto(r, "out")
  /\ UNCHANGED <<header, plane, writer, latest, snap>>

----------------------------------------------------------------------------
(* gf_channel_wait_seq *)

Advanced(r) == seq \notin {0, last[r]}

WaitBegin(r) ==
  /\ rpc[r] = "out" /\ Goto(r, "wait")
  /\ UNCHANGED <<header, plane, writer, latest, snap, last, got>>

\* Return 1: at the head of the loop, or after the futex word has been read.
WaitAdvanced(r) ==
  /\ rpc[r] \in {"wait", "recheck"} /\ Advanced(r)
  /\ Goto(r, "out")
  /\ UNCHANGED <<header, plane, writer, latest, snap, last, got>>

WaitSnap(r) ==
  /\ rpc[r] = "wait" /\ ~Advanced(r)
  /\ Goto(r, "snap")
  /\ UNCHANGED <<header, plane, writer, latest, snap, last, got>>

WaitLoadNotifyNoRecheck(r) ==   \* mutant: seq is not read after the futex word
  /\ rpc[r] = "snap"
  /\ snap' = [snap EXCEPT ![r] = notify]
  /\ Goto(r, "futex")
  /\ UNCHANGED <<header, plane, writer, latest, last, got>>

WaitLoadNotify(r) ==
  /\ rpc[r] = "snap"
  /\ snap' = [snap EXCEPT ![r] = notify]
  /\ Goto(r, "recheck")
  /\ UNCHANGED <<header, plane, writer, latest, last, got>>

WaitRecheck(r) ==
  /\ rpc[r] = "recheck" /\ ~Advanced(r)
  /\ Goto(r, "futex")
  /\ UNCHANGED <<header, plane, writer, latest, snap, last, got>>

\* FUTEX_WAIT sleeps only while the futex word still has the value read.
WaitFutex(r) ==
  /\ rpc[r] = "futex"
  /\ Goto(r, IF notify = snap[r] THEN "asleep" ELSE "wait")
  /\ UNCHANGED <<header, plane, writer, latest, snap, last, got>>

\* Return 0.  No fairness asks for it, so a wait with timeout_ms = UINT32_MAX is
\* covered.  A signal can also end FUTEX_WAIT, which only repeats the loop.
WaitTimeout(r) ==
  /\ rpc[r] \in {"snap", "futex", "asleep"}
  /\ Goto(r, "out")
  /\ UNCHANGED <<header, plane, writer, latest, snap, last, got>>

----------------------------------------------------------------------------
\* gf_channel_create zeroes the mapping; gf_channel_open copies nothing.
Init ==
  /\ seq = 0 /\ active = 0 /\ timestamp = 0 /\ notify = 0
  /\ plane = [i \in Index |-> [h \in Halves |-> 0]]
  /\ wpc = "idle" /\ frame = 0 /\ widx = 0 /\ wtodo = {}
  /\ rpc = [r \in Readers |-> "out"] /\ rtodo = [r \in Readers |-> {}]
  /\ rseq = [r \in Readers |-> 0] /\ ridx = [r \in Readers |-> 0]
  /\ copy = [r \in Readers |-> [h \in Halves |-> 0]]
  /\ snap = [r \in Readers |-> 0] /\ last = [r \in Readers |-> 0]
  /\ got = [r \in Readers |-> [seq |-> 0, timestamp |-> 0, lo |-> 0, hi |-> 0]]

Publish ==
  \/ PublishBegin \/ PublishNotify \/ PublishWake
  \/ \E h \in Halves : PublishCopy(h)
  \/ \E x \in Header : PublishStore(x)

Latest(r) ==
  \/ LatestNothing(r) \/ LatestNew(r) \/ LatestReturn(r)
  \/ \E h \in Halves : LatestCopy(r, h)
  \/ \E x \in Checked : LatestLoad(r, x) \/ LatestCheck(r, x) \/ LatestChanged(r, x)

Wait(r) ==
  \/ WaitAdvanced(r) \/ WaitSnap(r) \/ WaitLoadNotify(r) \/ WaitRecheck(r) \/ WaitFutex(r)

Next ==
  \/ Publish
  \/ \E r \in Readers : LatestBegin(r) \/ Latest(r) \/ WaitBegin(r) \/ Wait(r) \/ WaitTimeout(r)

Spec == Init /\ [][Next]_vars

\* A call that has been entered runs on; whether one is made is the caller's affair.
Fairness ==
  /\ WF_vars(Publish /\ wpc # "idle")
  /\ \A r \in Readers : WF_vars(Latest(r)) /\ WF_vars(Wait(r))

FairSpec == Spec /\ Fairness

----------------------------------------------------------------------------
(* Properties *)

\* Every variable keeps its shape, and the writer's buffer index stays in range.
TypeOK ==
  /\ seq \in Frames /\ active \in Index /\ timestamp \in Frames /\ notify \in Frames
  /\ plane \in [Index -> [Halves -> Frames]]
  /\ wpc \in {"idle", "copy", "header", "notify", "wake"}
  /\ frame \in Frames /\ widx \in Index /\ wtodo \in SUBSET (Halves \cup Header)
  /\ rpc \in [Readers -> {"out", "load", "copy", "check", "wait", "snap", "recheck",
                          "futex", "asleep"}]
  /\ rtodo \in [Readers -> SUBSET (Halves \cup Checked)]
  /\ rseq \in [Readers -> Frames] /\ ridx \in [Readers -> Index]
  /\ copy \in [Readers -> [Halves -> Frames]]
  /\ snap \in [Readers -> Frames] /\ last \in [Readers -> Frames]
  /\ got \in [Readers -> [seq : Frames, timestamp : Frames, lo : Frames, hi : Frames]]

\* What gf_channel_latest returns is one frame, not parts of two.  With three planes and
\* the program's order only.
NoTornFrame == \A r \in Readers : got[r].lo = got[r].hi

\* The oldest frame still in a plane while frame s is the newest announced: the one the
\* next publication overwrites.
Oldest(s) == IF s + 1 >= Buffers THEN s + 1 - Buffers ELSE 0

\* With any number of planes and any order of the plain accesses: the only frame that can
\* be torn is the oldest one, by the publication that comes next, so that the frame whose
\* number is returned is never mixed with another; and nothing older than the planes hold
\* or newer than the next publication is returned.  With three planes and the program's
\* order the frame is whole, and that of its number or the one before.
TornByLapOnly ==
  \A r \in Readers : LET g == got[r] IN
    /\ \/ g.lo = g.hi /\ g.lo \in Oldest(g.seq) .. g.seq + 1
       \/ {g.lo, g.hi} = {Oldest(g.seq), g.seq + 1}
    /\ InOrder /\ Buffers >= 3 => g.lo = g.hi /\ g.lo \in {g.seq - 1, g.seq}

\* The timestamp returned is at most one publication behind the number returned with it,
\* and not behind it at all when the accesses keep the program's order.
TimestampNotOlder ==
  \A r \in Readers :
    got[r].timestamp + 1 >= got[r].seq /\ (InOrder => got[r].timestamp >= got[r].seq)

\* The channel keeps the promise of LatestFrame: the whole frames of three planes in
\* program order, the weaker one of a lap otherwise.
Promise == INSTANCE LatestFrame WITH
  newest <- seq,
  held <- [r \in Readers |-> [seq |-> got[r].seq, from |-> {got[r].lo, got[r].hi}]],
  Planes <- Buffers,
  Whole <- (InOrder /\ Buffers >= 3)
KeepsPromise == Promise!Spec

\* No wake-up is lost: a waiter for whom the sequence number has advanced returns.
WaiterReturns ==
  \A r \in Readers :
    rpc[r] \in {"wait", "snap", "recheck", "futex", "asleep"} /\ Advanced(r) ~> rpc[r] = "out"
=============================================================================
