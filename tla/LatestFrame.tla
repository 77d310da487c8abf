---------------------------- MODULE LatestFrame ----------------------------
(***************************************************************************)
(* What a GfChannel promises a reader, whatever the timing: the sequence   *)
(* numbers it takes increase, frames in between may be skipped, and the    *)
(* bytes that come with a number are                                       *)
(*   - where the channel keeps frames whole, one frame: of that number or  *)
(*     the one before, and never older than the frame taken last;          *)
(*   - otherwise one frame of the last lap around the planes, the next one *)
(*     included, or a mixture of the lap's oldest with the next one, which *)
(*     is overwriting it.                                                  *)
(***************************************************************************)
EXTENDS Naturals

CONSTANTS
  Readers, MaxFrames,
  Planes,   \* frames kept
  Whole     \* frames are kept whole

VARIABLES
  newest,   \* the sequence number of the newest frame
  held      \* held[r]: the number r took last, and the frames its bytes are from

\* The oldest frame kept while s is the newest, and what the bytes taken with s may be of.
Oldest(s) == IF s + 1 >= Planes THEN s + 1 - Planes ELSE 0
Lap(s) == Oldest(s) .. s + 1
From(s) ==
  IF Whole THEN {{s - 1}, {s}}
  ELSE {{f} : f \in Lap(s)} \cup {{Oldest(s), s + 1}}

Init ==
  /\ newest = 0
  /\ held = [r \in Readers |-> [seq |-> 0, from |-> {0}]]

Publish == newest < MaxFrames /\ newest' = newest + 1 /\ UNCHANGED held

Take(r) ==
  \E s \in held[r].seq + 1 .. newest : \E frames \in From(s) :
    /\ Whole => \A f \in held[r].from, g \in frames : f <= g
    /\ held' = [held EXCEPT ![r] = [seq |-> s, from |-> frames]]
    /\ UNCHANGED newest

Next == Publish \/ \E r \in Readers : Take(r)

Spec == Init /\ [][Next]_<<newest, held>>
=============================================================================
