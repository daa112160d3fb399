------------------------------ MODULE Segments ------------------------------
(***************************************************************************)
(* Segments of an event processor, and the tokens that say how far each    *)
(* has got.  A mask is 2^k - 1, so "hash & mask" is the remainder modulo   *)
(* mask + 1.  Events are the positions 1, 2, ... of the log; a token is at *)
(* p when it has passed the events up to p, and at 0 where the code has no *)
(* token yet.                                                              *)
(***************************************************************************)
EXTENDS Integers, FiniteSetsExt

CONSTANT Depth   \* how often the whole can be halved; the code's is 31

ASSUME DepthAssumption == Depth \in Nat

\* Arithmetic, said here because provers know nothing of exponents.
ASSUME PowersAssumption ==
  /\ \A a, b \in 0..Depth : a <= b => 2^a > 0 /\ 2^b % 2^a = 0
  /\ 2^0 = 1
  /\ \A k \in 0..Depth : 2^(k + 1) = 2 * 2^k

Masks == {2^k - 1 : k \in 0..Depth}
Ids == 0..(2^Depth - 1)
Segment == {s \in [id : Ids, mask : Masks] : s.id <= s.mask}

FirstHalf(s) == [id |-> s.id, mask |-> 2 * s.mask + 1]
SecondHalf(s) == [id |-> s.id + s.mask + 1, mask |-> 2 * s.mask + 1]

\* The two halves of a segment differ in the top bit of their mask.
HalfBit(s) == (s.mask + 1) \div 2
MergeableSegmentId(s) == IF s.id >= HalfBit(s) THEN s.id - HalfBit(s) ELSE s.id + HalfBit(s)

Ancestor(a, s) == a.mask < s.mask /\ s.id % (a.mask + 1) = a.id

\* The walk down from the whole halves a segment when its second half is there.
Halved(s, ids) == 2 * s.mask + 1 \in Masks /\ SecondHalf(s).id \in ids

SegmentsOf(ids) ==
  IF ids = {} THEN {}
  ELSE {s \in Segment :
          /\ ~Halved(s, ids)
          /\ \A a \in Segment : Ancestor(a, s) => Halved(a, ids)}

InSegment(s, hash) == hash % (s.mask + 1) = s.id

-----------------------------------------------------------------------------
\* reset is where a replay ends; equal to at when there is none.  The halves
\* of a segment just merged are there while they have got to different places.
Plain(p) == [at |-> p, reset |-> p, mask |-> 0, halves |-> {}]

Replaying(t) == t.reset > t.at
Merged(t) == t.halves # {}

ReplayToken(reached, start) == [at |-> start, reset |-> reached, mask |-> 0, halves |-> {}]

\* Mutant: the merged segment goes on from the half that is ahead ...
MergedTokenAhead(mask, halves) == Plain(Max({h.at : h \in halves}))

\* ... or from the half that is behind, with the other's progress forgotten.
MergedTokenBehind(mask, halves) == Plain(Min({h.at : h \in halves}))

MergedToken(mask, halves) ==
  LET behind == Min({h.at : h \in halves})
  IN IF \A h \in halves : h.at = behind
       THEN Plain(behind)
       ELSE [at |-> behind, reset |-> behind, mask |-> mask, halves |-> halves]

HandledByMergedHalf(t, hash, e) ==
  \E h \in t.halves : hash % (t.mask + 1) = h.segment /\ h.at >= e

\* Where a reset says the segment had got to: the half that is ahead.
ReachedBy(t) == IF Merged(t) THEN Max({h.at : h \in t.halves}) ELSE t.reset

AdvanceTokenTo(t, p) ==
  IF Merged(t) THEN MergedToken(t.mask, {[segment |-> h.segment, at |-> Max({h.at, p})] : h \in t.halves})
  ELSE IF p < t.reset THEN ReplayToken(t.reset, p)
  ELSE Plain(p)
=============================================================================
