------------------------------- MODULE MCRoof -------------------------------
(* Instances of RoofExtruder for TLC, on a grid of five by five cells. *)
EXTENDS RoofExtruder

MCNoData == -1000

Rect(x1, y1, x2, y2) == (x1 .. x2) \X (y1 .. y2)
Flat(h) == [a |-> 0, b |-> 0, d |-> h]
Plane(a, b, d) == [a |-> a, b |-> b, d |-> d]

(* Which of a sequence of sets a cell is in, the first that has it. *)
PatchOf(sets) ==
  [c \in Cells |-> IF \E k \in DOMAIN sets : c \in sets[k]
                   THEN CHOOSE k \in DOMAIN sets : c \in sets[k] /\ \A l \in 1 .. k - 1 : c \notin sets[l]
                   ELSE 0]

SiteWith(turned, lods, outer, holes, patches, roofs, grounds, pixel, step) ==
  [outer : {outer}, holes : {holes}, patch : {PatchOf(patches)}, roofs : {roofs}, grounds : {grounds},
   pixel : {pixel}, ground : {0}, step : {step}, lod : lods,
   turned : turned]

Site(outer, holes, patches, roofs, grounds, pixel, step) ==
  SiteWith({FALSE}, {12, 13, 22}, outer, holes, patches, roofs, grounds, pixel, step)

Full == Rect(1, 1, 5, 5)
Everywhere(h) == [c \in Full |-> h]

(* Two roofs and the ground, one roof below the ground in a part; the lines go on outside. *)
Gable ==
  Site(Rect(1, 1, 4, 3), <<>>, <<Rect(0, 0, 2, 6), Rect(3, 0, 4, 2)>>,
       <<Plane(2, 0, -4), Flat(6)>>, <<Flat(0)>>,
       [c \in Rect(1, 1, 4, 2) |-> IF c = <<1, 1>> THEN MCNoData ELSE c[1] + c[2]], 2)

(* Holes: one inside, one that touches the exterior, one that touches the first. *)
Courtyards ==
  Site(Full, <<{<<3, 3>>}, {<<5, 1>>}, {<<2, 2>>}, {<<4, 1>>}>>, <<Rect(1, 1, 5, 2)>>,
       <<Flat(4), Flat(8)>>, <<Flat(0)>>, Everywhere(4), 3)

(* A face inside of a face, and ground around a roof inside of roofs. *)
Nested ==
  Site(Full, <<>>, <<{<<3, 3>>}, Rect(2, 2, 4, 4)>>,
       <<Flat(4), Flat(8)>>, <<Flat(0), Flat(1)>>, Everywhere(5), 2)

(* Four faces in a row whose levels are close. *)
Terraces ==
  Site(Rect(1, 1, 5, 2), <<>>, <<Rect(1, 1, 1, 2), Rect(2, 1, 3, 2), Rect(4, 1, 4, 2)>>,
       <<Flat(4), Flat(6), Flat(9)>>, <<>>,
       [c \in Rect(1, 1, 5, 2) |-> IF c = <<4, 1>> THEN MCNoData ELSE <<5, 7, 7, 9, 13>>[c[1]]], 3)

NoPlanes ==
  Site(Rect(1, 1, 3, 3), <<{<<2, 2>>}>>, <<Rect(1, 1, 2, 5)>>, <<>>, <<>>, Everywhere(3), 1)

(* Four roofs around a vertex at heights that follow each other; the first *)
(* and the last cross on an edge that leads to it, from either end. Only   *)
(* LoD2.2 has the heights of planes.                                       *)
Pinwheel ==
  SiteWith(BOOLEAN, {22}, Rect(1, 1, 4, 4), <<>>,
           <<Rect(3, 3, 4, 4), Rect(1, 3, 2, 4), Rect(1, 1, 2, 2)>>,
           <<Flat(12), Plane(8, 0, -16), Flat(4), Flat(8)>>, <<>>, Everywhere(6), 2)

(* The same junction with planes in order and levels that alternate. *)
Alternating ==
  Site(Rect(1, 1, 4, 4), <<>>, <<Rect(3, 3, 4, 4), Rect(1, 3, 2, 4), Rect(1, 1, 2, 2)>>,
       <<Flat(4), Flat(8), Flat(12), Flat(16)>>, <<>>,
       [c \in Rect(1, 1, 4, 4) |-> IF (c[1] > 2) = (c[2] > 2) THEN 5 ELSE 10], 2)

(* Roofs whose heights are taken for the same next to others that are not. *)
Kerbs ==
  Site(Rect(2, 2, 3, 3), <<>>, <<{<<2, 2>>}, {<<3, 2>>}, {<<2, 3>>}>>,
       <<Flat(3), Flat(4), Flat(8)>>, <<>>, [c \in Rect(2, 2, 3, 3) |-> 2 + c[1] + 2 * c[2]], 2)

MCSites == Kerbs \cup Pinwheel \cup Alternating \cup Gable \cup Courtyards \cup Nested \cup Terraces \cup NoPlanes

=============================================================================
