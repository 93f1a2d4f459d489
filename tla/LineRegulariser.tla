--------------------------- MODULE LineRegulariser ---------------------------
(***************************************************************************)
(* How the lines found along roof planes are made regular                  *)
(* (reconstruction/LineRegulariser.cpp, LineRegulariserBase.hpp and .cpp): *)
(* lines of almost one direction, then those of them that almost lie on    *)
(* one another, are put into clusters, the closest two first, and each     *)
(* cluster gives one segment.                                              *)
(*                                                                         *)
(* A line has an angle, its squared length and, across and along the       *)
(* direction it shares with its cluster, an offset and an interval: the    *)
(* small angles within a cluster are left out when its lines are compared. *)
(* Means are fractions, so nothing is rounded.                             *)
(***************************************************************************)
EXTENDS Integers, FiniteSets

CONSTANTS
  Line,              \* [angle, sqlength, offset, from, to, priority]
  InputLines,        \* the sets of lines to be tried
  angle_threshold,
  dist_threshold,    \* a squared distance
  extension,
  Garbage            \* intervals that points that were never set may span

ASSUME LineAssumption ==
  /\ Line \subseteq [angle : 0 .. 180, sqlength : Nat \ {0}, offset : Int, from : Int, to : Int, priority : {0, 2}]
  /\ InputLines \subseteq {L \in SUBSET Line : IsFiniteSet(L)}

VARIABLES
  merge_intersection_lines,
  lines,                 \* all lines
  phase,                 \* "waiting"; what clusters are made of, "angle" or "dist"; "done"
  clusters,              \* the clusters of the table, each named by its first line
  cluster_lines,         \* cluster -> its lines
  cluster_to_dist_pairs, \* cluster -> the pairs it holds a handle of
  distances,             \* the heap: pair of clusters -> distance
  angle_clusters,        \* sets of lines
  todo,                  \* the angle clusters still to be divided
  dist_clusters,
  exact_regularised_edges

table == <<clusters, cluster_lines, cluster_to_dist_pairs, distances>>
vars == <<merge_intersection_lines, lines, phase, table, angle_clusters, todo, dist_clusters, exact_regularised_edges>>

-----------------------------------------------------------------------------
(* Distances between clusters.                                             *)

SumOver(f) ==
  LET sum[T \in SUBSET DOMAIN f] ==
        IF T = {} THEN 0 ELSE LET x == CHOOSE x \in T : TRUE IN f[x] + sum[T \ {x}]
  IN sum[DOMAIN f]
Smallest(S) == CHOOSE x \in S : \A y \in S : x <= y
Largest(S) == CHOOSE x \in S : \A y \in S : x >= y
Abs(x) == IF x < 0 THEN -x ELSE x

(* The mean angle, each line weighing as much as its squared length, and    *)
(* the mean offset of the end points.                                      *)
MeanAngle(S) == [num |-> SumOver([l \in S |-> l.angle * l.sqlength]), den |-> SumOver([l \in S |-> l.sqlength])]
Centroid(S) == [num |-> SumOver([l \in S |-> l.offset]), den |-> Cardinality(S)]

Difference(a, b) == [num |-> Abs(a.num * b.den - b.num * a.den), den |-> a.den * b.den]

(* Angles just above 0 and just below 180 degrees are far apart.           *)
AngleDistance(A, B) == Difference(MeanAngle(A), MeanAngle(B))

From(S) == Smallest({l.from : l \in S})
To(S) == Largest({l.to : l \in S})
Gap(A, B) == Largest({0, From(B) - To(A), From(A) - To(B)})

(* The squared distance of the segments that cover two clusters.           *)
DistDistance(A, B) ==
  LET across == Difference(Centroid(A), Centroid(B)) IN
  [num |-> across.num * across.num + Gap(A, B) * Gap(A, B) * across.den * across.den,
   den |-> across.den * across.den]

Distance(kind, A, B) == IF kind = "angle" THEN AngleDistance(A, B) ELSE DistDistance(A, B)
IsBelow(d, threshold) == d.num < threshold * d.den
IsNotAbove(d, e) == d.num * e.den <= e.num * d.den
Threshold(kind) == IF kind = "angle" THEN angle_threshold ELSE dist_threshold

-----------------------------------------------------------------------------
(* The table of distances.                                                 *)

Pairs(C) == {p \in SUBSET C : \E a, b \in C : a # b /\ p = {a, b}}

(* The distance of the two clusters of a pair, the first of them in front. *)
DistanceOf(kind, members, p) ==
  LET first == CHOOSE a \in p : TRUE
      second == CHOOSE b \in p : b # first
  IN Distance(kind, members[first], members[second])

(* Every line a cluster, every pair a place in the heap, and a handle of it *)
(* with both clusters.                                                     *)
MakeTable(kind, S) ==
  /\ clusters' = S
  /\ cluster_lines' = [c \in S |-> {c}]
  /\ cluster_to_dist_pairs' = [c \in S |-> {p \in Pairs(S) : c \in p}]
  /\ distances' = [p \in Pairs(S) |-> DistanceOf(kind, cluster_lines', p)]

(* Both clusters of a pair still hold the handle: its use_count is 2.      *)
IsShared(p, holders, handles) == \E a, b \in holders : a # b /\ p \in handles[a] /\ p \in handles[b]

(* The pairs that leave the heap with a cluster.                            *)
ErasedWith(rhs) == {p \in cluster_to_dist_pairs[rhs] : IsShared(p, clusters, cluster_to_dist_pairs)}
(* A bug TLC must tell from the code: the distances of the cluster that     *)
(* grew are left as they are.                                              *)
NothingUpdated(lhs, rhs) == {}

(* The pairs whose distance is computed again.                              *)
UpdatedFor(lhs, rhs) ==
  {p \in cluster_to_dist_pairs[lhs] : IsShared(p, clusters \ {rhs}, cluster_to_dist_pairs)}

Merge(kind, lhs, rhs) ==
  LET left == clusters \ {rhs}
      grown == [c \in left |-> IF c = lhs THEN cluster_lines[lhs] \cup cluster_lines[rhs] ELSE cluster_lines[c]]
  IN /\ clusters' = left
     /\ cluster_lines' = grown
     /\ cluster_to_dist_pairs' =
          [c \in left |-> IF c = lhs
                          THEN {p \in cluster_to_dist_pairs[lhs] : IsShared(p, left, cluster_to_dist_pairs)}
                          ELSE cluster_to_dist_pairs[c]]
     /\ distances' =
          [p \in DOMAIN distances \ ErasedWith(rhs) |->
             IF p \in UpdatedFor(lhs, rhs) THEN DistanceOf(kind, grown, p) ELSE distances[p]]

IsClosest(p) == \A q \in DOMAIN distances : IsNotAbove(distances[p], distances[q])

MergeClosest ==
  /\ phase \in {"angle", "dist"}
  /\ \E p \in DOMAIN distances :
       /\ IsClosest(p)
       /\ IsBelow(distances[p], Threshold(phase))
       /\ \E lhs, rhs \in p : lhs # rhs /\ Merge(phase, lhs, rhs)
  /\ UNCHANGED <<merge_intersection_lines, lines, phase, angle_clusters, todo, dist_clusters, exact_regularised_edges>>

(* The closest pair is not close enough, or there is none. *)
NothingToMerge == \A p \in DOMAIN distances : ~IsBelow(distances[p], Threshold(phase))

(* A bug TLC must tell from the code: a cluster that was compared with no   *)
(* other is not counted.                                                   *)
ManyMade == IF Cardinality(clusters) > 1 THEN {cluster_lines[c] : c \in clusters} ELSE {}

Made == {cluster_lines[c] : c \in clusters}

-----------------------------------------------------------------------------
Init ==
  /\ merge_intersection_lines = FALSE
  /\ lines = {}
  /\ phase = "waiting"
  /\ clusters = {}
  /\ cluster_lines = <<>>
  /\ cluster_to_dist_pairs = <<>>
  /\ distances = <<>>
  /\ angle_clusters = {}
  /\ todo = {}
  /\ dist_clusters = {}
  /\ exact_regularised_edges = {}

(* compute: the lines of both kinds are added and clustering begins.        *)
Compute(L) ==
  /\ phase = "waiting"
  /\ merge_intersection_lines' \in BOOLEAN
  /\ lines' = L
  /\ phase' = "angle"
  /\ MakeTable("angle", L)
  /\ UNCHANGED <<angle_clusters, todo, dist_clusters, exact_regularised_edges>>

(* perform_angle_clustering is through. *)
EndAngles ==
  /\ phase = "angle"
  /\ NothingToMerge
  /\ angle_clusters' = Made
  /\ todo' = Made
  /\ phase' = "dist"
  /\ MakeTable("dist", {})
  /\ UNCHANGED <<merge_intersection_lines, lines, dist_clusters, exact_regularised_edges>>

(* perform_distance_clustering goes on to the next angle cluster. *)
NextAngleCluster ==
  /\ phase = "dist"
  /\ NothingToMerge
  /\ dist_clusters' = dist_clusters \cup Made
  /\ \E next \in todo :
       /\ todo' = todo \ {next}
       /\ MakeTable("dist", next)
  /\ UNCHANGED <<merge_intersection_lines, lines, phase, angle_clusters, exact_regularised_edges>>

-----------------------------------------------------------------------------
(* The segments.                                                           *)

(* The lines of the highest priority in a cluster; the others among those   *)
(* that are no intersections.                                              *)
PrioLines(D) == {l \in D : \A k \in D : k.priority <= l.priority}
OtherLines(D) == {l \in D : l.priority # 2}

(* The segment on a line that covers others, and a little more. Without     *)
(* any others its ends are points that were never set.                     *)
CalcSegment(centroid, covered, garbage) ==
  [centroid |-> centroid,
   from |-> (IF covered = {} THEN garbage[1] ELSE From(covered)) - extension,
   to |-> (IF covered = {} THEN garbage[2] ELSE To(covered)) + extension]

KeepsIntersections(D) ==
  ~merge_intersection_lines /\ Cardinality(PrioLines(D)) > 1 /\ \A l \in PrioLines(D) : l.priority = 2

Covered(D) == D

SegmentsOf(D, garbage) ==
  IF KeepsIntersections(D)
  THEN {CalcSegment(Centroid({l}), OtherLines(D), garbage) : l \in PrioLines(D)}
  ELSE {CalcSegment(Centroid(PrioLines(D)), Covered(D), garbage)}

Regularise ==
  /\ phase = "dist"
  /\ NothingToMerge
  /\ todo = {}
  /\ dist_clusters' = dist_clusters \cup Made
  /\ phase' = "done"
  /\ \E garbage \in Garbage :
       exact_regularised_edges' = UNION {SegmentsOf(D, garbage) : D \in dist_clusters'}
  /\ MakeTable("done", {})
  /\ UNCHANGED <<merge_intersection_lines, lines, angle_clusters, todo>>

Next == (\E L \in InputLines : Compute(L)) \/ MergeClosest \/ EndAngles \/ NextAngleCluster \/ Regularise
Spec == Init /\ [][Next]_vars
-----------------------------------------------------------------------------
(* Whatever was merged, the heap holds the pairs of the clusters that are   *)
(* left and no others, each at the distance the two have now: no handle of  *)
(* a pair that was erased is used again, no distance is that of clusters as *)
(* they were (DistanceTable::merge, whose use counts tell which handles     *)
(* are stale).                                                             *)
TableIsCurrent ==
  /\ DOMAIN distances = Pairs(clusters)
  /\ \A p \in DOMAIN distances : distances[p] = DistanceOf(phase, cluster_lines, p)

(* In the end every line is in one cluster and in no other, whether it was  *)
(* merged or not, alone in its direction or not, and however the clusters  *)
(* of directions were divided (perform_distance_clustering).               *)
EachLineInOneCluster ==
  phase = "done" =>
    /\ UNION dist_clusters = lines
    /\ \A A, B \in dist_clusters : A # B => A \cap B = {}

(* When clustering is over no two clusters of directions are closer than    *)
(* the threshold, nor any two clusters of lines within one of directions,  *)
(* although a cluster moves whenever it grows.                             *)
ClustersAreApart ==
  phase = "done" =>
    /\ \A A, B \in angle_clusters : A # B => ~IsBelow(AngleDistance(A, B), angle_threshold)
    /\ \A G \in angle_clusters : \A A, B \in {D \in dist_clusters : D \subseteq G} :
         A # B => ~IsBelow(DistDistance(A, B), dist_threshold)

=============================================================================
