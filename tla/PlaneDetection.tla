--------------------------- MODULE PlaneDetection ---------------------------
(***************************************************************************)
(* How planes are found in the points of a building                        *)
(* (reconstruction/PlaneDetector.cpp, RegionGrower.hpp,                    *)
(* PlaneDetectorBase.hpp): regions grow from seeds over the neighbours of  *)
(* their points, those that stay too small are undone, and what is left    *)
(* becomes the numbered roof planes and the statistics of the roof.        *)
(*                                                                         *)
(* Distances and fitted planes are abstracted: a point certainly lies on   *)
(* one surface, and perhaps on some more, as the planes that are fitted    *)
(* again and again drift.                                                  *)
(***************************************************************************)
EXTENDS Integers, Sequences, FiniteSets

CONSTANTS
  Roofs,             \* the point clouds: neighbours, surfaces and their kinds
  min_plane_points,
  max_plane_count

ASSUME DetectorAssumption == min_plane_points \in Nat \ {0, 1, 2} /\ max_plane_count \in Nat \ {0}
ASSUME RoofsAssumption ==
  \A r \in Roofs : /\ IsFiniteSet(DOMAIN r.neighbours)
                   /\ \A p \in DOMAIN r.neighbours : r.neighbours[p] \subseteq DOMAIN r.neighbours

VARIABLES
  roof,
  stage,
  seeds,             \* the points that region growing has not started from
  region_ids,        \* point -> id of its region, or 0
  regions,           \* the regions; the first one stands for no region
  cur_region_id,
  candidates,        \* points of the region that grows whose neighbours are to be tried
  handles_in_region,
  adjacencies,       \* pairs of ids of regions
  plane_id,          \* point -> number of its roof plane, or 0
  pts_per_roofplane, \* number -> the points of the plane
  roof_elevations,   \* the points whose elevations count
  counts,            \* of points and of planes, by kind
  plane_adjacencies, \* pairs of numbers, the higher one first
  roof_type

growing == <<seeds, region_ids, regions, cur_region_id, candidates, handles_in_region, adjacencies>>
planes == <<plane_id, pts_per_roofplane, roof_elevations, counts, plane_adjacencies, roof_type>>
detectorVars == <<roof, stage, growing, planes>>

cloud == DOMAIN roof.neighbours
Neighbours(p) == roof.neighbours[p]
Region(id, surface) == [id |-> id, surface |-> surface, inliers |-> {}]
CurrentRegion == regions[Len(regions)]

(* The points that fit a surface for certain, and those that may. *)
Fitting(surface, tried) == {p \in tried : roof.on[p] = surface}
MayFit(surface, tried) == {p \in tried : surface \in roof.near[p]}

NoCounts == [total_plane |-> 0, total_pt |-> 0, horiz |-> 0, slant |-> 0, wall_pt |-> 0]

PlanesInit ==
  /\ roof \in Roofs
  /\ stage = CASE roof.use_ransac -> "ransac"
               [] ~roof.use_ransac /\ Cardinality(cloud) > min_plane_points -> "seed"
               [] OTHER -> "label"
  /\ seeds = cloud
  /\ region_ids = [p \in cloud |-> 0]
  /\ regions = IF stage = "seed" THEN <<Region(0, 0)>> ELSE <<>>
  /\ cur_region_id = 1
  /\ candidates = <<>> /\ handles_in_region = {}
  /\ adjacencies = {}
  /\ plane_id = [p \in cloud |-> 0]
  /\ pts_per_roofplane = <<>>
  /\ roof_elevations = {}
  /\ counts = NoCounts
  /\ plane_adjacencies = {}
  /\ roof_type = "undefined"

(***************************************************************************)
(* grow_regions_with_limits.  The seeds come in the order of the quality   *)
(* of the planes around them, which may be any.                            *)
(***************************************************************************)
SkipSeed ==
  /\ stage = "seed"
  /\ \E s \in seeds : region_ids[s] # 0 /\ seeds' = seeds \ {s}
  /\ UNCHANGED <<roof, stage, region_ids, regions, cur_region_id, candidates, handles_in_region,
                 adjacencies, planes>>

StartRegion ==
  /\ stage = "seed"
  /\ \E s \in seeds :
       /\ region_ids[s] = 0
       /\ roof.any_order \/ \A t \in seeds : s <= t
       /\ seeds' = seeds \ {s}
       /\ regions' = Append(regions, Region(cur_region_id, roof.on[s]))
       /\ candidates' = <<s>>
       /\ handles_in_region' = {s}
       /\ region_ids' = [region_ids EXCEPT ![s] = cur_region_id]
  /\ stage' = "grow"
  /\ UNCHANGED <<roof, cur_region_id, adjacencies, planes>>

(* The neighbours of a candidate that no region has, and that fit, join;   *)
(* the first that is tried brings the candidate, the seed, with it.        *)
GrowFrom(p, joining) ==
  LET free == {n \in Neighbours(p) : region_ids[n] = 0}
      others == {region_ids[n] : n \in Neighbours(p) \ free} \ {cur_region_id}
      seed == IF CurrentRegion.inliers = {} /\ free # {} THEN {p} ELSE {}
  IN /\ joining \in SUBSET free
     /\ Fitting(CurrentRegion.surface, free) \subseteq joining
     /\ joining \subseteq Fitting(CurrentRegion.surface, free) \cup MayFit(CurrentRegion.surface, free)
     /\ \E s \in [1 .. Cardinality(joining) -> joining] :
          /\ \A j, k \in DOMAIN s : j < k => s[j] < s[k]
          /\ candidates' = Tail(candidates) \o s
     /\ handles_in_region' = handles_in_region \cup joining
     /\ region_ids' = [n \in cloud |-> IF n \in joining THEN cur_region_id ELSE region_ids[n]]
     /\ regions' = [regions EXCEPT ![Len(regions)].inliers = @ \cup seed \cup joining]
     /\ adjacencies' = adjacencies \cup {<<cur_region_id, o>> : o \in others}

TryNeighbours ==
  /\ stage = "grow" /\ candidates # <<>>
  /\ \E joining \in SUBSET Neighbours(Head(candidates)) : GrowFrom(Head(candidates), joining)
  /\ UNCHANGED <<roof, stage, seeds, cur_region_id, planes>>

(* A mutant: the points of a region that is undone keep its id. *)
ForgetToFree(handles) == region_ids

FreedIds(handles) == [p \in cloud |-> IF p \in handles THEN 0 ELSE region_ids[p]]

(* The region has grown: it is undone if it is too small.  The limit counts *)
(* the first region too, and stops the detection as soon as it is reached. *)
EndRegion ==
  /\ stage = "grow" /\ candidates = <<>>
  /\ IF Cardinality(handles_in_region) < min_plane_points
     THEN /\ regions' = SubSeq(regions, 1, Len(regions) - 1)
          /\ adjacencies' = {a \in adjacencies : a[1] # cur_region_id}
          /\ region_ids' = FreedIds(handles_in_region)
     ELSE UNCHANGED <<regions, adjacencies, region_ids>>
  /\ cur_region_id' = cur_region_id + 1
  /\ handles_in_region' = {}
  /\ stage' = IF Len(regions') >= max_plane_count THEN "aborted" ELSE "seed"
  /\ UNCHANGED <<roof, seeds, candidates, planes>>

SeedsAreUsed ==
  /\ stage = "seed" /\ seeds = {}
  /\ stage' = "label"
  /\ UNCHANGED <<roof, growing, planes>>

(* With use_ransac the library finds shapes of enough points, in any order. *)
Ransac ==
  /\ stage = "ransac"
  /\ \E surfaces \in SUBSET {roof.on[p] : p \in cloud} :
       /\ \A s \in surfaces : Cardinality(Fitting(s, cloud)) >= min_plane_points
       /\ \E order \in [1 .. Cardinality(surfaces) -> surfaces] :
            /\ \A j, k \in DOMAIN order : order[j] = order[k] => j = k
            /\ regions' = [k \in DOMAIN order |->
                             [id |-> k, surface |-> order[k], inliers |-> Fitting(order[k], cloud)]]
  /\ stage' = "label"
  /\ UNCHANGED <<roof, seeds, region_ids, cur_region_id, candidates, handles_in_region,
                 adjacencies, planes>>

(***************************************************************************)
(* detect, after the regions have grown.                                   *)
(***************************************************************************)
Grown == {k \in DOMAIN regions : regions[k].id # 0}
Kind(k) == roof.kind[regions[k].surface]
NotWalls == {k \in Grown : Kind(k) # "wall"}

(* A mutant: planes have the numbers of their regions. *)
RegionNumber(k) == k - 1

(* The planes that are no walls are numbered in the order of their regions. *)
ShapeId(k) == Cardinality({j \in NotWalls : j <= k})

TotalPoints(ks) == Cardinality(UNION {regions[k].inliers : k \in ks})

(* Elevations of small planes do not count, unless the roof is small too. *)
Counts(k) ==
  \/ roof.use_ransac
  \/ Cardinality(regions[k].inliers) > 4 * min_plane_points
  \/ TotalPoints(DOMAIN regions) <= 4 * min_plane_points

LabelPlanes ==
  /\ stage = "label"
  /\ plane_id' = [p \in cloud |->
                    IF \E k \in NotWalls : p \in regions[k].inliers
                    THEN ShapeId(CHOOSE k \in NotWalls : p \in regions[k].inliers) ELSE 0]
  /\ pts_per_roofplane' =
       [id \in {ShapeId(k) : k \in NotWalls} |->
          regions[CHOOSE k \in NotWalls : ShapeId(k) = id].inliers]
  /\ roof_elevations' = UNION {regions[k].inliers : k \in {j \in NotWalls : Counts(j)}}
  /\ counts' = [total_plane |-> Len(regions),
                total_pt |-> TotalPoints(IF roof.use_ransac THEN NotWalls ELSE DOMAIN regions),
                horiz |-> Cardinality({k \in Grown : Kind(k) = "horizontal"}),
                slant |-> Cardinality({k \in Grown : Kind(k) = "slanted"}),
                wall_pt |-> TotalPoints(Grown \ NotWalls)]
  /\ stage' = IF roof.regularise THEN "regularise" ELSE "adjacency"
  /\ UNCHANGED <<roof, growing, plane_adjacencies, roof_type>>

(* Regularisation makes planes equal, or turns them into walls: equal ones *)
(* get one number, in the order of a hash table, and walls get none, while *)
(* their points keep the old one.                                          *)
RenumberedLabel(id, number) == IF number[id] = 0 THEN id ELSE number[id]

MergedPoints(ids) == UNION {pts_per_roofplane[id] : id \in ids}

RegularisePlanes ==
  /\ stage = "regularise"
  /\ LET ids == DOMAIN pts_per_roofplane
     IN \E number \in [ids -> 0 .. Cardinality(ids)] :
          LET used == {number[id] : id \in ids} \ {0}
          IN /\ used = 1 .. Cardinality(used)
             /\ pts_per_roofplane' = [n \in used |-> MergedPoints({id \in ids : number[id] = n})]
             /\ plane_id' = [p \in cloud |-> IF plane_id[p] = 0 THEN 0
                                              ELSE RenumberedLabel(plane_id[p], number)]
  /\ stage' = "adjacency"
  /\ UNCHANGED <<roof, growing, roof_elevations, counts, plane_adjacencies, roof_type>>

OnOtherPlanes(p) == {n \in Neighbours(p) : plane_id[n] \notin {0, plane_id[p]}}

FindAdjacencies ==
  /\ stage = "adjacency"
  /\ plane_adjacencies' =
       UNION {{IF plane_id[p] > plane_id[n] THEN <<plane_id[p], plane_id[n]>>
               ELSE <<plane_id[n], plane_id[p]>> : n \in OnOtherPlanes(p)} :
              p \in {q \in cloud : plane_id[q] # 0}}
  /\ stage' = "type"
  /\ UNCHANGED <<roof, growing, plane_id, pts_per_roofplane, roof_elevations, counts, roof_type>>

TypeOf(c) ==
  CASE c.total_plane = 0 -> "no points"
    [] c.total_plane > 0 /\ c.slant > 0 -> "slanted"
    [] c.total_plane > 0 /\ c.slant = 0 /\ c.horiz = 1 -> "horizontal"
    [] c.total_plane > 0 /\ c.slant = 0 /\ c.horiz > 1 -> "multiple horizontal"
    [] OTHER -> "no planes"

SetRoofType ==
  /\ stage = "type"
  /\ roof_type' = TypeOf(counts)
  /\ stage' = "done"
  /\ UNCHANGED <<roof, growing, plane_id, pts_per_roofplane, roof_elevations, counts,
                 plane_adjacencies>>

Ended == stage \in {"done", "aborted"} /\ UNCHANGED detectorVars

PlanesNext ==
  \/ SkipSeed \/ StartRegion \/ TryNeighbours \/ EndRegion \/ SeedsAreUsed \/ Ransac
  \/ LabelPlanes \/ RegularisePlanes \/ FindAdjacencies \/ SetRoofType
  \/ Ended

PlanesSpec == PlanesInit /\ [][PlanesNext]_detectorVars
-----------------------------------------------------------------------------
(* Between two seeds the ids of the points and the points of the regions   *)
(* say the same, no region is too small, and nothing is left of those that *)
(* were undone, in the adjacencies either.                                 *)
RegionsAreClean ==
  stage = "seed" =>
    LET ids == {regions[k].id : k \in Grown}
    IN /\ {region_ids[p] : p \in cloud} \subseteq ids \cup {0}
       /\ \A k \in Grown : /\ regions[k].inliers = {p \in cloud : region_ids[p] = regions[k].id}
                           /\ Cardinality(regions[k].inliers) >= min_plane_points
       /\ \A a \in adjacencies : {a[1], a[2]} \subseteq ids

(* The labels of the points are those of the planes: dense numbers, every  *)
(* one with points, and adjacencies between planes that exist, after       *)
(* planes were merged and numbered anew too, as long as none of them has   *)
(* become a wall by that.                                                  *)
LabelsMatchPlanes ==
  LET ids == DOMAIN pts_per_roofplane
      labelled == {p \in cloud : plane_id[p] # 0}
  IN stage = "done" =>
       /\ ids = 1 .. Cardinality(ids)
       /\ \A a \in plane_adjacencies : a[2] < a[1]
       /\ labelled = MergedPoints(ids) =>
            /\ \A id \in ids :
                 pts_per_roofplane[id] = {p \in cloud : plane_id[p] = id} /\ pts_per_roofplane[id] # {}
            /\ \A a \in plane_adjacencies : {a[1], a[2]} \subseteq ids

=============================================================================
