------------------------------- MODULE MCLines -------------------------------
(***************************************************************************)
(* PlaneDetection, LineDetector and LineRegulariser one after the other, as *)
(* reconstruct_building calls them.  The ring around a plane is its alpha  *)
(* shape, which may be any ring, so that the lines of one roof show all;   *)
(* the segments of a ring become edges, next to lines where planes         *)
(* intersect.                                                              *)
(***************************************************************************)
EXTENDS MCPlaneDetection, LineDetector, LineRegulariser

MCRings == 3 .. 6
MCRange == <<1, 3>>

Edge(angle, sqlength, offset, from, to) ==
  [angle |-> angle, sqlength |-> sqlength, offset |-> offset, from |-> from, to |-> to, priority |-> 0]
Intersection(angle, offset, from, to) == [Edge(angle, 2, offset, from, to) EXCEPT !.priority = 2]

(* Edges that are close to one another one by one but not all together, in  *)
(* direction and in place, one that goes on where another ends, and one     *)
(* that differs from the first by a direction just below 180 degrees.      *)
Edges ==
  {Edge(0, 1, 0, 0, 4), Edge(6, 3, 1, 1, 6), Edge(12, 2, 2, 0, 3), Edge(5, 2, 3, 0, 4),
   Edge(4, 1, 0, 6, 8), Edge(179, 2, 0, 0, 4)}
Intersections == {Intersection(2, 0, 2, 5), Intersection(3, 1, 1, 3), Intersection(8, 5, 0, 9)}

MCLine == Edges \cup Intersections
MaxLines == 4
MCInputLines == {L \in SUBSET MCLine : Cardinality(L) <= MaxLines}
MCGarbage == {<<0, 0>>, <<9, 1>>}

FeaturesInit == PlanesInit /\ RingInit /\ Init

(* The detector of a ring is gone when its segments were added to the edges. *)
EndRing ==
  /\ Detected /\ ringsize # NoRing
  /\ ringsize' = NoRing /\ min_segment_count' = 0 /\ segment_shapes' = {} /\ sorted_segments' = {}
  /\ cfg' = [remove_overlap |-> TRUE, perform_chaining |-> TRUE]
  /\ n_segments' = Smallest({n_segments, MaxLines})
  /\ UNCHANGED vars

(* Segments too short to count are skipped. *)
HandOver ==
  /\ ringsize = NoRing /\ n_segments >= 0
  /\ \E L \in MCInputLines : Cardinality(L \cap Edges) <= n_segments /\ Compute(L)
  /\ n_segments' = 0
  /\ UNCHANGED <<cfg, ringsize, min_segment_count, segment_shapes, sorted_segments>>

Regularising == MergeClosest \/ EndAngles \/ NextAngleCluster \/ Regularise

LinesNext ==
  \/ stage = "done" /\ roof = Flats(5) /\ phase = "waiting" /\ BeginRing /\ UNCHANGED vars
  \/ DetectNext /\ UNCHANGED vars
  \/ EndRing
  \/ HandOver
  \/ Regularising /\ UNCHANGED ring

FeaturesNext ==
  \/ PlanesNext /\ UNCHANGED <<ring, vars>>
  \/ LinesNext /\ UNCHANGED detectorVars

FeaturesSpec == FeaturesInit /\ [][FeaturesNext]_<<detectorVars, ring, vars>>
=============================================================================
