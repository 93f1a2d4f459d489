---------------------------- MODULE LineDetector ----------------------------
(***************************************************************************)
(* How lines are found along a ring of points around a roof plane          *)
(* (reconstruction/LineDetector.cpp, LineDetectorBase.cpp): regions of     *)
(* points on one line grow, large ones first, and the segments of the ring *)
(* are read off the places where one region ends and another begins.       *)
(*                                                                         *)
(* Whether a point is near enough to the line fitted so far is left open.  *)
(* A region is the set of its points; its number only tells it apart, and  *)
(* a region that is undone uses up a number and leaves nothing else.       *)
(***************************************************************************)
EXTENDS Integers, SequencesExt

CONSTANTS
  Rings,                 \* the numbers of points of rings
  min_point_count_range  \* <<lowest, highest>>

ASSUME RingsAssumption == Rings \subseteq Nat \ {0}

ASSUME RangeAssumption ==
  /\ min_point_count_range \in (Nat \ {0}) \X Nat
  /\ min_point_count_range[1] <= min_point_count_range[2]

VARIABLES
  cfg,                   \* [remove_overlap, perform_chaining]
  ringsize,
  min_segment_count,     \* of this pass, one below the range when all are done
  segment_shapes,        \* the regions that were kept
  sorted_segments,       \* pairs of the first and the last point of a line
  n_segments             \* how many segments the ring has given, -1: not chained

ring == <<cfg, ringsize, min_segment_count, segment_shapes, sorted_segments, n_segments>>

points == 0 .. ringsize - 1
Before(i) == (i - 1) % ringsize
After(i) == (i + 1) % ringsize

(* The region a point is in, or none. *)
point_segment_idx(i) == UNION {r \in segment_shapes : i \in r}
unsegmented == {}

NoRing == 0

RingInit ==
  /\ cfg = [remove_overlap |-> TRUE, perform_chaining |-> TRUE]
  /\ ringsize = NoRing /\ min_segment_count = 0
  /\ segment_shapes = {} /\ sorted_segments = {}
  /\ n_segments = -1

BeginRing ==
  /\ ringsize = NoRing /\ n_segments = -1
  /\ cfg' \in [remove_overlap : BOOLEAN, perform_chaining : BOOLEAN]
  /\ ringsize' \in Rings
  /\ min_segment_count' = min_point_count_range[2]
  /\ UNCHANGED <<segment_shapes, sorted_segments, n_segments>>

(* The regions that may grow from a seed over points that are still free:  *)
(* from each point to those nearest in space, which may be anywhere on the *)
(* ring, as far as they are near the line.                                 *)
GrownFrom(seed, free) == {r \in SUBSET free : seed \in r}

IsLargeEnough(r) == Cardinality(r) >= min_segment_count

(* A region is kept if it is not too small. *)
GrowRegion ==
  /\ min_segment_count >= min_point_count_range[1]
  /\ LET free == points \ UNION segment_shapes IN
     \E seed \in free : \E r \in GrownFrom(seed, free) :
       /\ IsLargeEnough(r)
       /\ segment_shapes' = segment_shapes \cup {r}
  /\ UNCHANGED <<cfg, ringsize, min_segment_count, sorted_segments, n_segments>>

(* All seeds of a pass were tried; the next one asks for one point less.   *)
NextPass ==
  /\ min_segment_count >= min_point_count_range[1]
  /\ min_segment_count' = min_segment_count - 1
  /\ UNCHANGED <<cfg, ringsize, segment_shapes, sorted_segments, n_segments>>

(* What one point adds to the places where regions begin and end.          *)
Boundary(i) ==
  LET cur == point_segment_idx(i)
      prev == point_segment_idx(Before(i))
      last == IF prev # unsegmented THEN <<<<Before(i), prev>>>> ELSE <<>>
      first == IF cur # unsegmented THEN <<<<i, cur>>>> ELSE <<>>
  IN IF cur = prev THEN <<>> ELSE last \o first

perfect_aligned == point_segment_idx(0) # unsegmented /\ point_segment_idx(ringsize - 1) = unsegmented

(* A bug TLC must tell from the code: once the segment through the first  *)
(* point is put in order, the list is not turned any more.                 *)
NotTurned(ids) == ids

(* A segment that runs through the first point of the ring has its last    *)
(* point first: its first point is moved before it.                        *)
StartWithFirst(ids) == IF perfect_aligned THEN ids ELSE <<Last(ids)>> \o Front(ids)

(* The list is turned until it does not begin within the region that ends it. *)
Turned(ids) ==
  LET turns == CHOOSE k \in 0 .. Len(ids) - 1 :
                 /\ k > 0 => Head(ids)[2] = Last(ids)[2]
                 /\ \A j \in 1 .. k : ids[j][2] = Head(ids)[2]
                 /\ Head(ids)[2] = Last(ids)[2] => ids[k + 1][2] # Head(ids)[2]
  IN SubSeq(ids, turns + 1, Len(ids)) \o SubSeq(ids, 1, turns)

(* The places where regions begin and end, in the order of the ring.       *)
Boundaries ==
  LET ids[n \in 0 .. ringsize] == IF n = 0 THEN <<>> ELSE ids[n - 1] \o Boundary(n - 1)
  IN ids[ringsize]

new_ring_ids == Turned(StartWithFirst(Boundaries))

(* The first and the last place of each region in the list. *)
MergedByRegion(ids) ==
  LET Positions(r) == {k \in DOMAIN ids : ids[k][2] = r}
  IN {<<ids[Min(Positions(r))][1], ids[Max(Positions(r))][1]>> : r \in {ids[k][2] : k \in DOMAIN ids}}

(* A segment goes if the one before it, even one that goes too, ends behind *)
(* its first point.                                                        *)
Previous(s, segments) ==
  {p \in segments : p[1] < s[1] /\ \A q \in segments : q[1] < s[1] => q[1] <= p[1]}
WithoutOverlap(segments) == {s \in segments : \A p \in Previous(s, segments) : p[2] <= s[1]}

(* Neighbouring segments meet in a corner, are joined by a third one, or    *)
(* add nothing if they lie on one line. Of points that coincide one is kept, *)
(* and a ring of fewer than three points is dropped.                       *)
ChainLengths(n) == IF n < 2 THEN {0} ELSE {0} \cup 3 .. 2 * n

DetectLinesRing ==
  /\ min_segment_count < min_point_count_range[1]
  /\ n_segments = -1
  /\ \E segments \in {IF Cardinality(segment_shapes) > 1 THEN MergedByRegion(new_ring_ids) ELSE {}} :
       sorted_segments' = IF cfg.remove_overlap THEN WithoutOverlap(segments) ELSE segments
  /\ n_segments' \in IF cfg.perform_chaining THEN ChainLengths(Cardinality(sorted_segments'))
                     ELSE {Cardinality(sorted_segments')}
  /\ UNCHANGED <<cfg, ringsize, min_segment_count, segment_shapes>>

Detected == n_segments >= 0

DetectNext == ringsize # NoRing /\ (GrowRegion \/ NextPass \/ DetectLinesRing)

(* One ring; the next one has a detector of its own. *)
RingSpec == RingInit /\ [][BeginRing \/ DetectNext]_ring
-----------------------------------------------------------------------------
IsRun(r) == Cardinality({i \in r : Before(i) \notin r}) = 1

(* The segments of a ring run forward: each begins where its region begins *)
(* and ends where its region ends, never the other way round, wherever the *)
(* ring happens to start. If no region comes in pieces, there is exactly   *)
(* one segment for each (detect_lines_ring, whose rotation of the list of  *)
(* boundaries this is about).                                              *)
SegmentsFollowRing ==
  Detected =>
    /\ \A s \in sorted_segments : \E r \in segment_shapes :
         s[1] \in r /\ s[2] \in r /\ Before(s[1]) \notin r /\ After(s[2]) \notin r
    /\ (Cardinality(segment_shapes) > 1 /\ \A r \in segment_shapes : IsRun(r)) =>
         \A r \in segment_shapes : \E s \in sorted_segments : s[1] \in r
=============================================================================
