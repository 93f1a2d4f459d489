------------------------ MODULE PlanesAndLinesProofs ------------------------
(***************************************************************************)
(* Theorems about PlaneDetection, LineRegulariser and LineDetector, for    *)
(* every point cloud, set of lines and ring and all thresholds.            *)
(*                                                                         *)
(* Planes: an invariant of the regions while they grow, and from it what   *)
(* the labels of points and the numbers of planes are.  Lines: the heap of *)
(* distances is right after every merge, so that the lines stay            *)
(* partitioned and the clusters end apart.  That needs sums of integers to *)
(* be integers, an induction over finite sets that is carried out by a     *)
(* minimal counterexample.  Rings: the places where regions begin and end  *)
(* take turns, in pairs that stay together when their list is turned.      *)
(***************************************************************************)
EXTENDS PlaneDetection, LineDetector, LineRegulariser,
        FiniteSetTheorems, SequenceTheorems, WellFoundedInduction, TLAPS

(* Regions, while they grow.                                               *)

Surfaces == {roof.on[p] : p \in cloud}
RegionSet == [id : Nat, surface : Surfaces \cup {0}, inliers : SUBSET cloud]
Points(id) == {p \in cloud : region_ids[p] = id}
RegionIds == {regions[k].id : k \in Grown}

GrowthTypes ==
  /\ regions \in Seq(RegionSet)
  /\ cur_region_id \in Nat \ {0}
  /\ region_ids \in [cloud -> Nat]
  /\ candidates \in Seq(cloud)
  /\ seeds \subseteq cloud

(* Regions have ids in the order in which they were begun, none higher than *)
(* the next one; the points of one that is complete are those with its id.  *)
RegionsInv ==
  /\ \A j, k \in DOMAIN regions : j < k => regions[j].id < regions[k].id
  /\ \A k \in DOMAIN regions : /\ regions[k].id <= cur_region_id
                               /\ stage = "seed" => regions[k].id # cur_region_id
  /\ regions # <<>> /\ regions[1].id = 0
  /\ \A k \in Grown : regions[k].id # cur_region_id =>
       regions[k].inliers = Points(regions[k].id) /\ Cardinality(regions[k].inliers) >= min_plane_points

IdsInv ==
  /\ \A p \in cloud : region_ids[p] \in RegionIds \cup {0}
  /\ \A a \in adjacencies : {a[1], a[2]} \subseteq RegionIds /\ a[2] # cur_region_id

(* The region that grows: the handles are the points with its id; the      *)
(* inliers are the same, but for a seed that has found no free neighbour.  *)
CurrentInv ==
  stage = "grow" =>
    /\ CurrentRegion.id = cur_region_id
    /\ handles_in_region = Points(cur_region_id)
    /\ handles_in_region # {}
    /\ \/ CurrentRegion.inliers = handles_in_region
       \/ /\ CurrentRegion.inliers = {}
          /\ \E s \in cloud : handles_in_region = {s} /\ candidates \in {<<>>, <<s>>}

GrowInv == stage \in {"seed", "grow"} => GrowthTypes /\ RegionsInv /\ IdsInv /\ CurrentInv

-----------------------------------------------------------------------------
LEMMA CloudIsFinite ==
  ASSUME roof \in Roofs
  PROVE  IsFiniteSet(cloud) /\ \A p \in cloud : Neighbours(p) \subseteq cloud
BY RoofsAssumption DEF cloud, Neighbours

LEMMA FunctionIsSeq ==
  ASSUME NEW S, NEW n \in Nat, NEW f \in [1 .. n -> S]
  PROVE  f \in Seq(S) /\ Len(f) = n /\ (n # 0 => f # <<>>)
<1>1. f \in Seq(S)
  BY SeqDef
<1>2. DOMAIN f = 1 .. Len(f) /\ Len(f) \in Nat
  BY <1>1, LenProperties
<1>3. Len(f) = n
  BY <1>2
<1> QED
  BY <1>1, <1>3, EmptySeq

LEMMA RegionsAreTyped ==
  ASSUME GrowthTypes
  PROVE  /\ Len(regions) \in Nat /\ DOMAIN regions = 1 .. Len(regions)
         /\ \A k \in DOMAIN regions : /\ regions[k] \in RegionSet
                                      /\ regions[k].id \in Nat
                                      /\ regions[k].inliers \subseteq cloud
<1>1. Len(regions) \in Nat /\ DOMAIN regions = 1 .. Len(regions)
  BY LenProperties DEF GrowthTypes
<1>2. \A k \in DOMAIN regions : regions[k] \in RegionSet
  BY <1>1, ElementOfSeq DEF GrowthTypes
<1> QED
  BY <1>1, <1>2 DEF RegionSet

LEMMA GrowthBegins ==
  ASSUME PlanesInit
  PROVE  GrowInv
<1> SUFFICES ASSUME stage = "seed" PROVE GrowthTypes /\ RegionsInv /\ IdsInv /\ CurrentInv
  BY DEF GrowInv, PlanesInit
<1>1. /\ regions = <<Region(0, 0)>> /\ cur_region_id = 1 /\ region_ids = [p \in cloud |-> 0]
      /\ candidates = <<>> /\ seeds = cloud /\ adjacencies = {}
  BY DEF PlanesInit
<1>2. Region(0, 0) \in RegionSet
  BY DEF Region, RegionSet
<1>3. DOMAIN regions = {1} /\ regions[1].id = 0 /\ regions # <<>>
  BY <1>1 DEF Region
<1>4. Grown = {}
  BY <1>3 DEF Grown
<1>5. GrowthTypes
  BY <1>1, <1>2 DEF GrowthTypes
<1>6. RegionsInv
  BY <1>1, <1>3, <1>4 DEF RegionsInv
<1>7. IdsInv
  BY <1>1 DEF IdsInv
<1> QED
  BY <1>5, <1>6, <1>7 DEF CurrentInv

LEMMA SkipSeedKeeps ==
  ASSUME GrowInv, SkipSeed
  PROVE  GrowInv'
BY DEF GrowInv, SkipSeed, GrowthTypes, RegionsInv, IdsInv, CurrentInv, RegionSet, Surfaces, cloud, Points, Grown, RegionIds, CurrentRegion

LEMMA StartRegionKeeps ==
  ASSUME GrowInv, StartRegion
  PROVE  GrowInv'
<1>1. /\ stage = "seed" /\ stage' = "grow"
      /\ UNCHANGED <<roof, cur_region_id, adjacencies>>
  BY DEF StartRegion
<1>2. PICK s \in seeds :
        /\ region_ids[s] = 0
        /\ seeds' = seeds \ {s}
        /\ regions' = Append(regions, Region(cur_region_id, roof.on[s]))
        /\ candidates' = <<s>>
        /\ handles_in_region' = {s}
        /\ region_ids' = [region_ids EXCEPT ![s] = cur_region_id]
  BY DEF StartRegion
<1>i. GrowthTypes /\ RegionsInv /\ IdsInv
  BY <1>1 DEF GrowInv
<1>c. cloud' = cloud /\ RegionSet' = RegionSet
  BY <1>1 DEF cloud, RegionSet, Surfaces
<1>s. s \in cloud
  BY <1>i DEF GrowthTypes
<1> DEFINE new == Region(cur_region_id, roof.on[s])
           n == Len(regions)
<1>3. new \in RegionSet /\ new.id = cur_region_id /\ new.inliers = {}
  BY <1>i, <1>s DEF GrowthTypes, Region, RegionSet, Surfaces
<1> HIDE DEF new
<1>4. /\ regions' \in Seq(RegionSet) /\ n \in Nat /\ DOMAIN regions = 1 .. n /\ DOMAIN regions' = 1 .. n + 1
      /\ \A k \in 1 .. n : regions'[k] = regions[k]
      /\ regions'[n + 1] = new /\ Len(regions') = n + 1 /\ regions' # <<>>
  BY <1>2, <1>3, <1>i, AppendProperties DEF GrowthTypes, new
<1>5. GrowthTypes'
  BY <1>1, <1>2, <1>4, <1>i, <1>s, <1>c DEF GrowthTypes
<1>6. \A k \in 1 .. n : regions[k].id \in Nat
  BY <1>i, RegionsAreTyped
<1>7. Grown' = Grown \cup {n + 1} /\ Grown \subseteq 1 .. n
  BY <1>3, <1>4, <1>i DEF Grown, GrowthTypes
<1>8. \A id \in Nat \ {0, cur_region_id} : {p \in cloud : region_ids'[p] = id} = Points(id)
  BY <1>2, <1>s, <1>i DEF Points, GrowthTypes
<1>9. {p \in cloud : region_ids'[p] = cur_region_id} = {s}
  <2>1. \A p \in cloud : region_ids[p] # cur_region_id
    BY <1>1, <1>i DEF IdsInv, RegionIds, RegionsInv, Grown, GrowthTypes
  <2> QED
    BY <2>1, <1>2, <1>s, <1>i DEF GrowthTypes
<1>10. RegionsInv'
  <2>1. \A j, k \in DOMAIN regions' : j < k => regions'[j].id < regions'[k].id
    BY <1>1, <1>3, <1>4, <1>6, <1>i DEF RegionsInv, GrowthTypes
  <2>2. \A k \in DOMAIN regions' : regions'[k].id <= cur_region_id
    BY <1>3, <1>4, <1>i DEF RegionsInv, GrowthTypes
  <2>3. regions'[1].id = 0
    BY <1>4, <1>i DEF RegionsInv, GrowthTypes
  <2>4. ASSUME NEW k \in Grown', regions'[k].id # cur_region_id
        PROVE  regions'[k].inliers = {p \in cloud : region_ids'[p] = regions'[k].id}
               /\ Cardinality(regions'[k].inliers) >= min_plane_points
    <3>1. k \in Grown /\ regions'[k] = regions[k]
      BY <2>4, <1>3, <1>4, <1>7
    <3>2. regions[k].id \in Nat \ {0, cur_region_id}
      BY <3>1, <2>4, <1>6, <1>7 DEF Grown
    <3>3. regions[k].inliers = Points(regions[k].id) /\ Cardinality(regions[k].inliers) >= min_plane_points
      BY <3>1, <3>2, <1>i DEF RegionsInv
    <3>4. {p \in cloud : region_ids'[p] = regions[k].id} = Points(regions[k].id)
      BY <3>2, <1>8
    <3> QED
      BY <3>1, <3>3, <3>4
  <2> QED
    BY <2>1, <2>2, <2>3, <2>4, <1>1, <1>4, <1>c DEF RegionsInv, Points
<1>11. IdsInv'
  <2>1. RegionIds' = RegionIds \cup {cur_region_id}
    BY <1>3, <1>4, <1>7 DEF RegionIds
  <2> QED
    BY <2>1, <1>1, <1>2, <1>s, <1>c, <1>i DEF IdsInv, GrowthTypes
<1>12. CurrentInv'
  BY <1>1, <1>2, <1>3, <1>4, <1>9, <1>s, <1>c DEF CurrentInv, CurrentRegion, Points
<1> QED
  BY <1>5, <1>10, <1>11, <1>12 DEF GrowInv

(* A joining point is free and in the cloud. *)
LEMMA TryNeighboursKeeps ==
  ASSUME roof \in Roofs, GrowInv, TryNeighbours
  PROVE  GrowInv'
<1> DEFINE p == Head(candidates)
           cur == cur_region_id
           n == Len(regions)
<1>1. /\ stage = "grow" /\ stage' = "grow" /\ candidates # <<>>
      /\ UNCHANGED <<roof, seeds, cur_region_id>>
  BY DEF TryNeighbours
<1>i. GrowthTypes /\ RegionsInv /\ IdsInv /\ CurrentInv
  BY <1>1 DEF GrowInv
<1>c. cloud' = cloud /\ RegionSet' = RegionSet
  BY <1>1 DEF cloud, RegionSet, Surfaces
<1>2. PICK joining \in SUBSET Neighbours(p) : GrowFrom(p, joining)
  BY DEF TryNeighbours
<1> DEFINE free == {q \in Neighbours(p) : region_ids[q] = 0}
           others == {region_ids[q] : q \in Neighbours(p) \ free} \ {cur}
           seed == IF CurrentRegion.inliers = {} /\ free # {} THEN {p} ELSE {}
<1>3. /\ joining \subseteq free
      /\ handles_in_region' = handles_in_region \cup joining
      /\ region_ids' = [q \in cloud |-> IF q \in joining THEN cur ELSE region_ids[q]]
      /\ regions' = [regions EXCEPT ![n].inliers = @ \cup seed \cup joining]
      /\ adjacencies' = adjacencies \cup {<<cur, o>> : o \in others}
  BY <1>2 DEF GrowFrom
<1>4. PICK s \in [1 .. Cardinality(joining) -> joining] : candidates' = Tail(candidates) \o s
  BY <1>2 DEF GrowFrom
<1>5. p \in cloud /\ Tail(candidates) \in Seq(cloud)
  BY <1>1, <1>i, HeadTailProperties DEF GrowthTypes
<1>6. joining \subseteq cloud /\ Neighbours(p) \subseteq cloud /\ IsFiniteSet(joining)
  BY <1>5, CloudIsFinite, FS_Subset
<1>7. Cardinality(joining) \in Nat /\ s \in Seq(joining) /\ s \in Seq(cloud)
  <2>1. Cardinality(joining) \in Nat
    BY <1>6, FS_CardinalityType
  <2>2. s \in [1 .. Cardinality(joining) -> cloud]
    BY <1>6
  <2> QED
    BY <2>1, <2>2, SeqDef
<1>8. candidates' \in Seq(cloud)
  BY <1>4, <1>5, <1>7, ConcatProperties
<1>t. /\ n \in Nat /\ DOMAIN regions = 1 .. n
      /\ \A k \in DOMAIN regions : /\ regions[k] \in RegionSet
                                   /\ regions[k].id \in Nat
                                   /\ regions[k].inliers \subseteq cloud
  BY <1>i, RegionsAreTyped
<1>n. n \in 1 .. n
  BY <1>i, <1>t, EmptySeq DEF RegionsInv, GrowthTypes
<1> DEFINE grown == [regions[n] EXCEPT !.inliers = @ \cup seed \cup joining]
<1>9. /\ grown \in RegionSet /\ grown.id = regions[n].id
      /\ grown.inliers = regions[n].inliers \cup seed \cup joining
  BY <1>t, <1>n, <1>5, <1>6 DEF RegionSet
<1>10. regions' = [regions EXCEPT ![n] = grown]
  BY <1>3
<1> HIDE DEF grown
<1>11. /\ regions' \in Seq(RegionSet) /\ DOMAIN regions' = 1 .. n /\ Len(regions') = n /\ regions' # <<>>
       /\ \A k \in 1 .. n : regions'[k] = IF k = n THEN grown ELSE regions[k]
  <2>1. regions \in [1 .. n -> RegionSet]
    BY <1>i, LenProperties DEF GrowthTypes
  <2>2. regions' \in [1 .. n -> RegionSet]
    BY <2>1, <1>9, <1>10
  <2>3. regions' \in Seq(RegionSet) /\ Len(regions') = n /\ regions' # <<>>
    BY <2>2, <1>t, <1>n, FunctionIsSeq
  <2>4. DOMAIN regions' = 1 .. n /\ \A k \in 1 .. n : regions'[k] = IF k = n THEN grown ELSE regions[k]
    BY <1>10, <1>t
  <2> QED
    BY <2>3, <2>4
<1>12. \A k \in 1 .. n : regions'[k].id = regions[k].id
  BY <1>9, <1>11
<1>13. Grown' = Grown /\ Grown \subseteq 1 .. n
  BY <1>11, <1>12, <1>t DEF Grown
<1>14. RegionIds' = RegionIds
  BY <1>12, <1>13 DEF RegionIds
<1>15. region_ids' \in [cloud -> Nat]
  BY <1>3, <1>i DEF GrowthTypes
<1>16. GrowthTypes'
  BY <1>1, <1>8, <1>11, <1>15, <1>c, <1>i DEF GrowthTypes
<1>17. \A q \in joining : region_ids[q] = 0
  BY <1>3
<1>18. \A id \in Nat \ {0, cur} : {q \in cloud : region_ids'[q] = id} = Points(id)
  BY <1>3, <1>17 DEF Points
<1>19. {q \in cloud : region_ids'[q] = cur} = Points(cur) \cup joining
  BY <1>3, <1>6 DEF Points
<1>20. RegionsInv'
  <2>1. \A j, k \in DOMAIN regions' : j < k => regions'[j].id < regions'[k].id
    BY <1>11, <1>12, <1>t, <1>i DEF RegionsInv
  <2>2. \A k \in DOMAIN regions' : regions'[k].id <= cur
    BY <1>11, <1>12, <1>t, <1>i DEF RegionsInv
  <2>3. regions'[1].id = 0
    BY <1>12, <1>n, <1>i DEF RegionsInv
  <2>4. ASSUME NEW k \in Grown, regions'[k].id # cur
        PROVE  regions'[k].inliers = {q \in cloud : region_ids'[q] = regions'[k].id}
               /\ Cardinality(regions'[k].inliers) >= min_plane_points
    <3>1. regions'[k] = regions[k]
      <4>1. regions[n].id = cur
        BY <1>1, <1>i DEF CurrentInv, CurrentRegion
      <4> QED
        BY <4>1, <2>4, <1>11, <1>12, <1>13
    <3>2. regions[k].id \in Nat \ {0, cur}
      BY <3>1, <2>4, <1>13, <1>t DEF Grown
    <3>3. regions[k].inliers = Points(regions[k].id) /\ Cardinality(regions[k].inliers) >= min_plane_points
      BY <3>2, <1>i DEF RegionsInv
    <3>4. {q \in cloud : region_ids'[q] = regions[k].id} = Points(regions[k].id)
      BY <3>2, <1>18
    <3> QED
      BY <3>1, <3>3, <3>4
  <2> QED
    BY <2>1, <2>2, <2>3, <2>4, <1>1, <1>11, <1>13, <1>c DEF RegionsInv, Points
<1>21. IdsInv'
  <2>1. cur \in RegionIds
    BY <1>1, <1>i, <1>n, <1>t DEF CurrentInv, CurrentRegion, RegionIds, Grown, GrowthTypes
  <2>2. \A o \in others : o \in RegionIds /\ o # cur
    BY <1>6, <1>i DEF IdsInv
  <2>3. \A q \in cloud : region_ids'[q] \in RegionIds \cup {0}
    BY <2>1, <1>3, <1>i DEF IdsInv
  <2>4. ASSUME NEW a \in adjacencies'
        PROVE  {a[1], a[2]} \subseteq RegionIds /\ a[2] # cur
    <3>1. CASE a \in adjacencies
      BY <3>1, <1>i DEF IdsInv
    <3>2. CASE a \notin adjacencies
      <4>1. PICK o \in others : a = <<cur, o>>
        BY <3>2, <1>3
      <4> QED
        BY <4>1, <2>1, <2>2
    <3> QED
      BY <3>1, <3>2
  <2> QED
    BY <2>3, <2>4, <1>1, <1>14, <1>c DEF IdsInv
<1>22. CurrentInv'
  <2>1. CurrentRegion = regions[n] /\ CurrentRegion' = grown
    BY <1>11, <1>n DEF CurrentRegion
  <2>2. grown.id = cur /\ handles_in_region' = {q \in cloud : region_ids'[q] = cur} /\ handles_in_region' # {}
    BY <2>1, <1>1, <1>3, <1>9, <1>19, <1>i DEF CurrentInv
  <2>3. CASE CurrentRegion.inliers = handles_in_region
    <3>1. seed = {}
      BY <2>3, <1>1, <1>i DEF CurrentInv
    <3>2. grown.inliers = handles_in_region'
      BY <3>1, <2>1, <2>3, <1>3, <1>9
    <3> QED
      BY <3>2, <2>1, <2>2, <1>1, <1>c DEF CurrentInv, Points
  <2>4. CASE /\ CurrentRegion.inliers = {}
             /\ \E t \in cloud : handles_in_region = {t} /\ candidates \in {<<>>, <<t>>}
    <3>1. handles_in_region = {p} /\ candidates = <<p>>
      BY <2>4, <1>1
    <3>2. CASE free # {}
      <4>1. grown.inliers = handles_in_region'
        BY <3>1, <3>2, <2>1, <2>4, <1>3, <1>9
      <4> QED
        BY <4>1, <2>1, <2>2, <1>1, <1>c DEF CurrentInv, Points
    <3>3. CASE free = {}
      <4>1. joining = {} /\ Cardinality(joining) = 0 /\ seed = {}
        BY <3>3, <1>3, FS_EmptySet
      <4>2. s = <<>>
        BY <4>1, <1>7, EmptySeq
      <4>3. Tail(candidates) = <<>>
        <5>1. Len(Tail(candidates)) = 0
          BY <3>1, <1>1, <1>i, HeadTailProperties DEF GrowthTypes
        <5> QED
          BY <5>1, <1>5, EmptySeq
      <4>4. candidates' = <<>>
        BY <4>2, <4>3, <1>4
      <4>5. grown.inliers = {} /\ handles_in_region' = {p}
        BY <4>1, <3>1, <2>1, <2>4, <1>3, <1>9
      <4> QED
        BY <4>4, <4>5, <2>1, <2>2, <1>1, <1>5, <1>c DEF CurrentInv, Points
    <3> QED
      BY <3>2, <3>3
  <2> QED
    BY <2>3, <2>4, <1>1, <1>i DEF CurrentInv
<1> QED
  BY <1>16, <1>20, <1>21, <1>22 DEF GrowInv

LEMMA EndRegionKeeps ==
  ASSUME roof \in Roofs, GrowInv, EndRegion
  PROVE  GrowInv'
<1> DEFINE n == Len(regions)
<1> SUFFICES ASSUME stage' = "seed" PROVE GrowthTypes' /\ RegionsInv' /\ IdsInv' /\ CurrentInv'
  BY DEF GrowInv, EndRegion
<1>1. /\ stage = "grow"
      /\ cur_region_id' = cur_region_id + 1
      /\ UNCHANGED <<roof, seeds, candidates>>
  BY DEF EndRegion
<1>i. GrowthTypes /\ RegionsInv /\ IdsInv /\ CurrentInv
  BY <1>1 DEF GrowInv
<1>c. cloud' = cloud /\ RegionSet' = RegionSet
  BY <1>1 DEF cloud, RegionSet, Surfaces
<1>t. /\ n \in Nat /\ DOMAIN regions = 1 .. n /\ cur_region_id \in Nat \ {0}
      /\ \A k \in DOMAIN regions : /\ regions[k] \in RegionSet
                                   /\ regions[k].id \in Nat
                                   /\ regions[k].inliers \subseteq cloud
  BY <1>i, RegionsAreTyped DEF GrowthTypes
<1>n. n \in 1 .. n /\ regions[n].id = cur_region_id /\ n # 1
  <2>1. n \in 1 .. n /\ regions[n].id = cur_region_id
    BY <1>1, <1>i, <1>t, EmptySeq DEF RegionsInv, GrowthTypes, CurrentInv, CurrentRegion
  <2> QED
    BY <2>1, <1>t, <1>i DEF RegionsInv
<1>2. \A k \in 1 .. n : regions[k].id <= cur_region_id /\ (k # n => regions[k].id < cur_region_id)
  <2>1. /\ \A j, k \in 1 .. n : j < k => regions[j].id < regions[k].id
        /\ \A k \in 1 .. n : regions[k].id <= cur_region_id
    BY <1>t, <1>i DEF RegionsInv
  <2> HIDE DEF n
  <2> QED
    BY <2>1, <1>n, <1>t
<1>u. \A k \in 1 .. n : /\ k \in Nat /\ regions[k].id \in Nat /\ regions[k].id <= cur_region_id + 1 /\ regions[k].id # cur_region_id + 1
                        /\ k = n \/ (k \in 1 .. n - 1 /\ regions[k].id # cur_region_id)
  <2> SUFFICES ASSUME NEW k \in 1 .. n
               PROVE  /\ k \in Nat /\ regions[k].id \in Nat /\ regions[k].id <= cur_region_id + 1 /\ regions[k].id # cur_region_id + 1
                      /\ k = n \/ (k \in 1 .. n - 1 /\ regions[k].id # cur_region_id)
    OBVIOUS
  <2>1. k \in Nat /\ regions[k].id \in Nat /\ cur_region_id \in Nat
    BY <1>t
  <2>2. regions[k].id <= cur_region_id /\ (k # n => regions[k].id < cur_region_id)
    BY <1>2
  <2> HIDE DEF n
  <2> QED
    BY <2>1, <2>2, <1>t
<1>3. CurrentInv'
  BY DEF CurrentInv
<1>4. CASE Cardinality(handles_in_region) < min_plane_points
  <2>1. /\ regions' = SubSeq(regions, 1, n - 1)
        /\ adjacencies' = {a \in adjacencies : a[1] # cur_region_id}
        /\ region_ids' = [p \in cloud |-> IF p \in handles_in_region THEN 0 ELSE region_ids[p]]
    BY <1>4 DEF EndRegion, FreedIds
  <2>2. /\ regions' \in Seq(RegionSet) /\ Len(regions') = n - 1
        /\ \A k \in 1 .. n - 1 : regions'[k] = regions[k]
    <3>1. \A k \in 1 .. n - 1 : regions[k] \in RegionSet
      BY <1>t
    <3>2. /\ SubSeq(regions, 1, n - 1) \in Seq(RegionSet)
          /\ Len(SubSeq(regions, 1, n - 1)) = IF 1 <= n - 1 THEN n - 1 - 1 + 1 ELSE 0
          /\ \A k \in 1 .. n - 1 - 1 + 1 : SubSeq(regions, 1, n - 1)[k] = regions[1 + k - 1]
      BY <3>1, <1>t, SubSeqProperties
    <3>3. 1 <= n - 1 /\ n - 1 - 1 + 1 = n - 1 /\ \A k \in 1 .. n - 1 : 1 + k - 1 = k
      BY <1>n, <1>t
    <3> QED
      BY <3>2, <3>3, <2>1
  <2>3. DOMAIN regions' = 1 .. n - 1 /\ regions' # <<>> /\ 1 \in 1 .. n - 1
    BY <2>2, <1>n, <1>t, LenProperties, EmptySeq
  <2>4. region_ids' \in [cloud -> Nat]
    BY <2>1, <1>i DEF GrowthTypes
  <2>5. GrowthTypes'
    BY <2>2, <2>4, <1>1, <1>i, <1>t, <1>c DEF GrowthTypes
  <2>6. Grown' = Grown \ {n} /\ Grown \subseteq 1 .. n
    BY <2>2, <2>3, <1>t, <1>n, <1>u DEF Grown
  <2>7. \A id \in Nat \ {0, cur_region_id} : {p \in cloud : region_ids'[p] = id} = Points(id)
    BY <2>1, <1>1, <1>i DEF CurrentInv, Points
  <2>8. RegionsInv'
    <3>1. \A j, k \in DOMAIN regions' : j < k => regions'[j].id < regions'[k].id
      BY <2>2, <2>3, <1>t, <1>i DEF RegionsInv
    <3>2. \A k \in DOMAIN regions' : regions'[k].id <= cur_region_id + 1 /\ regions'[k].id # cur_region_id + 1
      BY <2>2, <2>3, <1>u
    <3>3. regions'[1].id = 0
      BY <2>2, <2>3, <1>i DEF RegionsInv
    <3>4. ASSUME NEW k \in Grown'
          PROVE  regions'[k].inliers = {p \in cloud : region_ids'[p] = regions'[k].id}
                 /\ Cardinality(regions'[k].inliers) >= min_plane_points
      <4>1. k \in Grown /\ k \in 1 .. n - 1 /\ regions'[k] = regions[k]
        BY <2>2, <2>3, <2>6, <1>u
      <4>2. regions[k].id \in Nat \ {0, cur_region_id}
        BY <4>1, <1>u DEF Grown
      <4>3. regions[k].inliers = Points(regions[k].id) /\ Cardinality(regions[k].inliers) >= min_plane_points
        BY <4>1, <4>2, <1>i DEF RegionsInv
      <4>4. {p \in cloud : region_ids'[p] = regions[k].id} = Points(regions[k].id)
        BY <4>2, <2>7
      <4> QED
        BY <4>1, <4>3, <4>4
    <3> QED
      BY <3>1, <3>2, <3>3, <3>4, <2>3, <1>1, <1>c DEF RegionsInv, Points
  <2>9. RegionIds' = RegionIds \ {cur_region_id}
    <3>1. RegionIds' = {regions[k].id : k \in Grown \ {n}}
      BY <2>2, <2>6, <1>u DEF RegionIds
    <3>2. \A k \in Grown \ {n} : regions[k].id # cur_region_id
      BY <2>6, <1>u
    <3> QED
      BY <3>1, <3>2, <1>n DEF RegionIds
  <2>10. IdsInv'
    <3>1. \A p \in cloud : region_ids'[p] \in RegionIds' \cup {0}
      BY <2>1, <2>9, <1>1, <1>i DEF IdsInv, CurrentInv, Points
    <3>2. \A a \in adjacencies' : {a[1], a[2]} \subseteq RegionIds' /\ a[2] # cur_region_id + 1
      <4>1. \A id \in RegionIds : id # cur_region_id + 1
        BY <1>u, <2>6 DEF RegionIds
      <4> QED
        BY <4>1, <2>1, <2>9, <1>i DEF IdsInv
    <3> QED
      BY <3>1, <3>2, <1>1, <1>c DEF IdsInv
  <2> QED
    BY <2>5, <2>8, <2>10, <1>3
<1>5. CASE Cardinality(handles_in_region) >= min_plane_points
  <2>1. UNCHANGED <<regions, adjacencies, region_ids>>
    <3>1. ~ (Cardinality(handles_in_region) < min_plane_points)
      <4>1. Cardinality(handles_in_region) \in Nat
        BY <1>1, <1>i, CloudIsFinite, FS_Subset, FS_CardinalityType DEF CurrentInv, Points
      <4> QED
        BY <4>1, <1>5, DetectorAssumption
    <3> QED
      BY <3>1 DEF EndRegion
  <2>2. GrowthTypes'
    BY <2>1, <1>1, <1>i, <1>t, <1>c DEF GrowthTypes
  <2>3. Grown' = Grown /\ Grown \subseteq 1 .. n /\ RegionIds' = RegionIds
    BY <2>1, <1>t DEF Grown, RegionIds
  <2>4. regions[n].inliers = handles_in_region
    <3>1. ASSUME NEW s, handles_in_region = {s} PROVE FALSE
      <4>1. Cardinality(handles_in_region) = 1
        BY <3>1, FS_Singleton
      <4> QED
        BY <4>1, <1>5, DetectorAssumption
    <3> QED
      BY <3>1, <1>1, <1>i DEF CurrentInv, CurrentRegion
  <2>5. RegionsInv'
    <3>1. ASSUME NEW k \in Grown
          PROVE  regions[k].inliers = Points(regions[k].id) /\ Cardinality(regions[k].inliers) >= min_plane_points
      BY <2>3, <2>4, <1>1, <1>u, <1>5, <1>n, <1>i DEF RegionsInv, CurrentInv
    <3>2. \A k \in DOMAIN regions : regions[k].id <= cur_region_id + 1 /\ regions[k].id # cur_region_id + 1
      BY <1>u, <1>t
    <3>3. \A k \in Grown : regions[k].inliers = {p \in cloud : region_ids[p] = regions[k].id}
      BY <3>1 DEF Points
    <3> QED
      BY <3>1, <3>2, <3>3, <2>1, <2>3, <1>1, <1>c, <1>i DEF RegionsInv, Points
  <2>6. IdsInv'
    <3>1. \A id \in RegionIds : id # cur_region_id + 1
      BY <1>u, <2>3 DEF RegionIds
    <3> QED
      BY <3>1, <2>1, <2>3, <1>1, <1>c, <1>i DEF IdsInv
  <2> QED
    BY <2>2, <2>5, <2>6, <1>3
<1>6. Cardinality(handles_in_region) \in Nat
  BY <1>1, <1>i, CloudIsFinite, FS_Subset, FS_CardinalityType DEF CurrentInv, Points
<1> QED
  BY <1>4, <1>5, <1>6, DetectorAssumption

LEMMA OthersKeepRegions ==
  ASSUME GrowInv,
         \/ SeedsAreUsed \/ Ransac \/ LabelPlanes \/ RegularisePlanes \/ FindAdjacencies \/ SetRoofType
  PROVE  GrowInv'
BY DEF GrowInv, SeedsAreUsed, Ransac, LabelPlanes, RegularisePlanes, FindAdjacencies, SetRoofType

LEMMA GrowthKept ==
  ASSUME roof \in Roofs, GrowInv, [PlanesNext]_detectorVars
  PROVE  (roof \in Roofs)' /\ GrowInv'
<1>1. ASSUME UNCHANGED detectorVars
      PROVE  GrowInv' /\ roof' = roof
  BY <1>1 DEF detectorVars, growing, GrowInv, GrowthTypes, RegionsInv, IdsInv, CurrentInv, RegionSet, Surfaces, cloud,
              Points, Grown, RegionIds, CurrentRegion
<1>2. roof' = roof
  BY <1>1 DEF PlanesNext, SkipSeed, StartRegion, TryNeighbours, EndRegion, SeedsAreUsed, Ransac, LabelPlanes,
              RegularisePlanes, FindAdjacencies, SetRoofType, Ended
<1> QED
  BY <1>1, <1>2, SkipSeedKeeps, StartRegionKeeps, TryNeighboursKeeps, EndRegionKeeps, OthersKeepRegions
  DEF PlanesNext, Ended

(* Between two seeds every region consists of the points that have its id, *)
(* has enough of them, and nothing is left of the regions that were undone. *)
THEOREM RegionsStayClean == PlanesSpec => []RegionsAreClean
<1>1. PlanesInit => roof \in Roofs /\ GrowInv
  BY GrowthBegins DEF PlanesInit
<1>2. roof \in Roofs /\ GrowInv /\ [PlanesNext]_detectorVars => (roof \in Roofs)' /\ GrowInv'
  BY GrowthKept
<1>3. GrowInv => RegionsAreClean
  <2> SUFFICES ASSUME GrowInv, stage = "seed" PROVE RegionsAreClean
    BY DEF RegionsAreClean
  <2>1. GrowthTypes /\ RegionsInv /\ IdsInv
    BY DEF GrowInv
  <2>2. \A k \in Grown : /\ regions[k].inliers = {p \in cloud : region_ids[p] = regions[k].id}
                         /\ Cardinality(regions[k].inliers) >= min_plane_points
    BY <2>1 DEF RegionsInv, Grown, Points
  <2>3. {region_ids[p] : p \in cloud} \subseteq RegionIds \cup {0}
    BY <2>1 DEF IdsInv
  <2>4. \A a \in adjacencies : {a[1], a[2]} \subseteq RegionIds
    BY <2>1 DEF IdsInv
  <2> QED
    BY <2>2, <2>3, <2>4 DEF RegionsAreClean, RegionIds
<1> QED
  BY <1>1, <1>2, <1>3, PTL DEF PlanesSpec

-----------------------------------------------------------------------------
(* The numbers of the planes.                                              *)

(* The positions in a finite set of numbers are dense, and no two of them   *)
(* are the same.                                                           *)
LEMMA RanksAreDense ==
  ASSUME NEW S, S \subseteq Nat, IsFiniteSet(S)
  PROVE  /\ Cardinality(S) \in Nat
         /\ {Cardinality({j \in S : j <= k}) : k \in S} = 1 .. Cardinality(S)
         /\ \A k, l \in S : Cardinality({j \in S : j <= k}) = Cardinality({j \in S : j <= l}) => k = l
<1> DEFINE Upto(k) == {j \in S : j <= k}
           rank == [k \in S |-> Cardinality(Upto(k))]
           n == Cardinality(S)
<1>1. n \in Nat
  BY FS_CardinalityType
<1>2. \A k \in S : IsFiniteSet(Upto(k)) /\ Cardinality(Upto(k)) \in Nat /\ Cardinality(Upto(k)) <= n /\ Upto(k) # {}
  <2> SUFFICES ASSUME NEW k \in S
               PROVE  IsFiniteSet(Upto(k)) /\ Cardinality(Upto(k)) \in Nat /\ Cardinality(Upto(k)) <= n /\ Upto(k) # {}
    OBVIOUS
  <2>1. Upto(k) \in SUBSET S /\ k \in Upto(k)
    OBVIOUS
  <2> QED
    BY <2>1, FS_Subset, FS_CardinalityType
<1>3. \A k \in S : rank[k] \in 1 .. n
  <2> SUFFICES ASSUME NEW k \in S PROVE Cardinality(Upto(k)) \in 1 .. n
    OBVIOUS
  <2>1. Cardinality(Upto(k)) # 0
    BY <1>2, FS_EmptySet
  <2> QED
    BY <1>1, <1>2, <2>1
<1>4. ASSUME NEW k \in S, NEW l \in S, k < l
      PROVE  rank[k] < rank[l]
  <2>0. k \in Nat /\ l \in Nat /\ \A j \in S : j \in Nat /\ (j <= k => j <= l)
    BY <1>4
  <2>1. Upto(k) \in SUBSET Upto(l) /\ l \in Upto(l) /\ l \notin Upto(k)
    <3>1. Upto(k) \subseteq Upto(l)
      BY <2>0
    <3>2. l \in Upto(l)
      BY <2>0
    <3>3. l \notin Upto(k)
      BY <1>4, <2>0
    <3> QED
      BY <3>1, <3>2, <3>3
  <2>2. Cardinality(Upto(k)) <= Cardinality(Upto(l)) /\ Cardinality(Upto(k)) # Cardinality(Upto(l))
    BY <2>1, <1>2, FS_Subset
  <2> HIDE DEF Upto
  <2> QED
    BY <2>2, <1>2
<1>5. \A k, l \in S : rank[k] = rank[l] => k = l
  <2> SUFFICES ASSUME NEW k \in S, NEW l \in S, k # l PROVE rank[k] # rank[l]
    OBVIOUS
  <2>1. k \in Nat /\ l \in Nat /\ rank[k] \in 1 .. n /\ rank[l] \in 1 .. n
    BY <1>3
  <2> HIDE DEF rank, n
  <2> QED
    BY <2>1, <1>4
<1>6. rank \in Injection(S, 1 .. n)
  BY <1>3, <1>5 DEF Injection, IsInjective
<1>7. IsFiniteSet(1 .. n) /\ Cardinality(1 .. n) = n
  <2>1. IsFiniteSet(1 .. n) /\ Cardinality(1 .. n) = IF 1 > n THEN 0 ELSE n - 1 + 1
    BY <1>1, FS_Interval
  <2> HIDE DEF n
  <2> QED
    BY <2>1, <1>1
<1>8. rank \in Surjection(S, 1 .. n)
  BY <1>6, <1>7, FS_Injection
<1>9. {rank[k] : k \in S} = 1 .. n
  BY <1>3, <1>8 DEF Surjection
<1> QED
  BY <1>1, <1>5, <1>9

(* What the planes are made from: points of the cloud, none of two regions. *)
FoundInv ==
  stage = "label" =>
    /\ Len(regions) \in Nat /\ DOMAIN regions = 1 .. Len(regions)
    /\ \A k \in Grown : regions[k].inliers \subseteq cloud /\ regions[k].inliers # {}
    /\ \A j, k \in Grown : j # k => regions[j].inliers \cap regions[k].inliers = {}

NumbersInv ==
  stage \in {"regularise", "adjacency", "type", "done"} =>
    LET ids == DOMAIN pts_per_roofplane
    IN /\ IsFiniteSet(ids) /\ ids = 1 .. Cardinality(ids)
       /\ plane_id \in [cloud -> Nat]
       /\ \/ stage # "regularise" /\ {p \in cloud : plane_id[p] # 0} # MergedPoints(ids)
          \/ /\ \A id \in ids : pts_per_roofplane[id] = {p \in cloud : plane_id[p] = id} /\ pts_per_roofplane[id] # {}
             /\ \A p \in cloud : plane_id[p] \in ids \cup {0}

AdjacencyInv ==
  stage \in {"type", "done"} =>
    /\ \A a \in plane_adjacencies : a[2] < a[1]
    /\ {p \in cloud : plane_id[p] # 0} = MergedPoints(DOMAIN pts_per_roofplane) =>
         \A a \in plane_adjacencies : {a[1], a[2]} \subseteq DOMAIN pts_per_roofplane

LEMMA PlanesAreFound ==
  ASSUME roof \in Roofs, GrowInv, FoundInv, [PlanesNext]_detectorVars
  PROVE  FoundInv'
<1> SUFFICES ASSUME stage' = "label" PROVE FoundInv'
  BY DEF FoundInv
<1>1. SeedsAreUsed \/ Ransac \/ UNCHANGED detectorVars
  BY DEF PlanesNext, SkipSeed, StartRegion, TryNeighbours, EndRegion, LabelPlanes,
         RegularisePlanes, FindAdjacencies, SetRoofType, Ended
<1>2. CASE UNCHANGED detectorVars
  BY <1>2 DEF detectorVars, growing, FoundInv, Grown, cloud
<1>3. CASE SeedsAreUsed
  <2>1. stage = "seed" /\ UNCHANGED <<roof, regions>>
    BY <1>3 DEF SeedsAreUsed, growing
  <2>2. GrowthTypes /\ RegionsInv
    BY <2>1 DEF GrowInv
  <2>3. Len(regions) \in Nat /\ DOMAIN regions = 1 .. Len(regions)
        /\ \A k \in DOMAIN regions : regions[k].id \in Nat
    BY <2>2, RegionsAreTyped
  <2>4. ASSUME NEW k \in Grown
        PROVE  regions[k].inliers = Points(regions[k].id) /\ regions[k].inliers \subseteq cloud /\ regions[k].inliers # {}
    <3>1. regions[k].inliers = Points(regions[k].id) /\ Cardinality(regions[k].inliers) >= min_plane_points
      BY <2>1, <2>2 DEF RegionsInv, Grown
    <3>2. regions[k].inliers # {}
      BY <3>1, FS_EmptySet, DetectorAssumption
    <3> QED
      BY <3>1, <3>2 DEF Points
  <2>5. ASSUME NEW j \in Grown, NEW k \in Grown, j # k
        PROVE  regions[j].inliers \cap regions[k].inliers = {}
    <3>1. regions[j].id # regions[k].id
      BY <2>2, <2>3, <2>5 DEF RegionsInv, Grown
    <3> QED
      BY <3>1, <2>4 DEF Points
  <2> QED
    BY <2>1, <2>3, <2>4, <2>5 DEF FoundInv, Grown, cloud
<1>4. CASE Ransac
  <2>1. roof' = roof
    BY <1>4 DEF Ransac
  <2>2. PICK surfaces \in SUBSET {roof.on[p] : p \in cloud} :
          /\ \A s \in surfaces : Cardinality(Fitting(s, cloud)) >= min_plane_points
          /\ \E order \in [1 .. Cardinality(surfaces) -> surfaces] :
               /\ \A j, k \in DOMAIN order : order[j] = order[k] => j = k
               /\ regions' = [k \in DOMAIN order |->
                                [id |-> k, surface |-> order[k], inliers |-> Fitting(order[k], cloud)]]
    BY <1>4 DEF Ransac
  <2>3. PICK order \in [1 .. Cardinality(surfaces) -> surfaces] :
          /\ \A j, k \in DOMAIN order : order[j] = order[k] => j = k
          /\ regions' = [k \in DOMAIN order |->
                           [id |-> k, surface |-> order[k], inliers |-> Fitting(order[k], cloud)]]
    BY <2>2
  <2>4. Cardinality(surfaces) \in Nat
    <3>1. IsFiniteSet({roof.on[p] : p \in cloud})
      <4> DEFINE on == [p \in cloud |-> roof.on[p]]
      <4>1. on \in Surjection(cloud, {roof.on[p] : p \in cloud})
        BY DEF Surjection
      <4> QED
        BY <4>1, CloudIsFinite, FS_Surjection
    <3> QED
      BY <3>1, FS_Subset, FS_CardinalityType
  <2> DEFINE n == Cardinality(surfaces)
  <2>5. /\ DOMAIN regions' = 1 .. n
        /\ \A k \in 1 .. n : regions'[k].inliers = Fitting(order[k], cloud) /\ order[k] \in surfaces
    BY <2>3
  <2>6. Len(regions') = n
    <3>1. regions' \in [1 .. n -> {regions'[k] : k \in 1 .. n}]
      BY <2>3
    <3> QED
      BY <3>1, <2>4, FunctionIsSeq
  <2>7. \A k \in 1 .. n : regions'[k].inliers \subseteq cloud /\ regions'[k].inliers # {}
    <3> SUFFICES ASSUME NEW k \in 1 .. n
                 PROVE  Fitting(order[k], cloud) \subseteq cloud /\ Fitting(order[k], cloud) # {}
      BY <2>5
    <3>1. Cardinality(Fitting(order[k], cloud)) >= min_plane_points
      BY <2>2, <2>5
    <3>2. Fitting(order[k], cloud) # {}
      <4>1. Cardinality({}) = 0 /\ ~ (0 >= min_plane_points)
        BY FS_EmptySet, DetectorAssumption
      <4> QED
        BY <3>1, <4>1
    <3> QED
      BY <3>2 DEF Fitting
  <2>8. \A j, k \in 1 .. n : j # k => regions'[j].inliers \cap regions'[k].inliers = {}
    BY <2>3, <2>5 DEF Fitting
  <2> HIDE DEF n
  <2>9. Grown' \subseteq 1 .. n /\ cloud' = cloud
    BY <2>1, <2>5 DEF Grown, cloud
  <2> QED
    BY <2>4, <2>5, <2>6, <2>7, <2>8, <2>9 DEF FoundInv, n
<1> QED
  BY <1>1, <1>2, <1>3, <1>4

(* Every plane that is no wall has a number, and no other number is used. *)
LEMMA PlanesAreLabelled ==
  ASSUME roof \in Roofs, FoundInv, LabelPlanes
  PROVE  NumbersInv'
<1> DEFINE pts == pts_per_roofplane'
           count == Cardinality(NotWalls)
<1>1. /\ stage = "label" /\ roof' = roof
      /\ plane_id' = [p \in cloud |->
                        IF \E k \in NotWalls : p \in regions[k].inliers
                        THEN ShapeId(CHOOSE k \in NotWalls : p \in regions[k].inliers) ELSE 0]
      /\ pts = [id \in {ShapeId(k) : k \in NotWalls} |->
                  regions[CHOOSE k \in NotWalls : ShapeId(k) = id].inliers]
  BY DEF LabelPlanes
<1>2. cloud' = cloud
  BY <1>1 DEF cloud
<1>f. /\ Len(regions) \in Nat /\ DOMAIN regions = 1 .. Len(regions)
      /\ \A k \in Grown : regions[k].inliers \subseteq cloud /\ regions[k].inliers # {}
      /\ \A j, k \in Grown : j # k => regions[j].inliers \cap regions[k].inliers = {}
  BY <1>1 DEF FoundInv
<1>3. NotWalls \subseteq Grown /\ NotWalls \subseteq Nat /\ IsFiniteSet(NotWalls)
  <2>1. NotWalls \subseteq Grown /\ Grown \subseteq 1 .. Len(regions)
    BY <1>f DEF NotWalls, Grown
  <2>2. IsFiniteSet(1 .. Len(regions)) /\ 1 .. Len(regions) \subseteq Nat
    <3>1. 1 \in Int /\ Len(regions) \in Int
      BY <1>f
    <3>2. IsFiniteSet(1 .. Len(regions))
      BY <3>1, FS_Interval
    <3> QED
      BY <3>2
  <2> QED
    BY <2>1, <2>2, FS_Subset
<1>4. /\ count \in Nat
      /\ {ShapeId(k) : k \in NotWalls} = 1 .. count
      /\ \A k, l \in NotWalls : ShapeId(k) = ShapeId(l) => k = l
  BY <1>3, RanksAreDense DEF ShapeId
<1> HIDE DEF count
<1>5. DOMAIN pts = 1 .. count /\ IsFiniteSet(DOMAIN pts) /\ Cardinality(DOMAIN pts) = count
  <2>1. DOMAIN pts = 1 .. count
    BY <1>1, <1>4
  <2>2. IsFiniteSet(1 .. count) /\ Cardinality(1 .. count) = IF 1 > count THEN 0 ELSE count - 1 + 1
    BY <1>4, FS_Interval
  <2>3. Cardinality(1 .. count) = count
    BY <2>2, <1>4
  <2> QED
    BY <2>1, <2>2, <2>3
<1>6. \A k \in NotWalls : pts[ShapeId(k)] = regions[k].inliers
  <2> SUFFICES ASSUME NEW k \in NotWalls PROVE pts[ShapeId(k)] = regions[k].inliers
    OBVIOUS
  <2> DEFINE chosen == CHOOSE l \in NotWalls : ShapeId(l) = ShapeId(k)
  <2>1. chosen \in NotWalls /\ ShapeId(chosen) = ShapeId(k)
    OBVIOUS
  <2>2. chosen = k
    <3> HIDE DEF chosen
    <3> QED
      BY <2>1, <1>4
  <2> QED
    BY <2>2, <1>1
<1>7. ASSUME NEW k \in NotWalls, NEW p \in regions[k].inliers
      PROVE  p \in cloud /\ plane_id'[p] = ShapeId(k)
  <2> DEFINE chosen == CHOOSE l \in NotWalls : p \in regions[l].inliers
  <2>1. chosen \in NotWalls /\ p \in regions[chosen].inliers
    BY <1>7
  <2>2. p \in cloud
    BY <1>f, <1>3, <1>7
  <2>3. chosen = k
    <3> HIDE DEF chosen
    <3> QED
      BY <2>1, <1>f, <1>3, <1>7
  <2> QED
    BY <2>2, <2>3, <1>1, <1>7
<1>8. ASSUME NEW p \in cloud, \A k \in NotWalls : p \notin regions[k].inliers
      PROVE  plane_id'[p] = 0
  BY <1>8, <1>1
<1>9. \A p \in cloud : plane_id'[p] \in DOMAIN pts \cup {0}
  BY <1>4, <1>5, <1>7, <1>8
<1>10. plane_id' \in [cloud -> Nat]
  <2>1. \A p \in cloud : plane_id'[p] \in Nat
    BY <1>4, <1>5, <1>9
  <2> QED
    BY <2>1, <1>1
<1>11. ASSUME NEW id \in DOMAIN pts
       PROVE  pts[id] = {p \in cloud : plane_id'[p] = id} /\ pts[id] # {}
  <2>1. PICK k \in NotWalls : id = ShapeId(k)
    BY <1>4, <1>5
  <2>2. pts[id] = regions[k].inliers /\ pts[id] # {}
    BY <2>1, <1>6, <1>f, <1>3
  <2>3. ASSUME NEW p \in cloud, plane_id'[p] = id
        PROVE  p \in regions[k].inliers
    <3>1. id # 0
      BY <1>4, <1>5
    <3>2. PICK l \in NotWalls : p \in regions[l].inliers
      BY <3>1, <2>3, <1>8
    <3>3. ShapeId(l) = ShapeId(k)
      BY <3>2, <2>1, <2>3, <1>7
    <3>4. l = k
      BY <3>3, <1>4
    <3> QED
      BY <3>2, <3>4
  <2> QED
    BY <2>1, <2>2, <2>3, <1>7
<1> QED
  BY <1>2, <1>5, <1>9, <1>10, <1>11 DEF NumbersInv

(* Planes that become one keep the points of both, unless one of them has   *)
(* become a wall, whose points keep a number that is not theirs any more.  *)
LEMMA PlanesAreRenumbered ==
  ASSUME NumbersInv, RegularisePlanes
  PROVE  NumbersInv'
<1> DEFINE ids == DOMAIN pts_per_roofplane
           pts == pts_per_roofplane'
<1>1. stage = "regularise" /\ stage' = "adjacency" /\ roof' = roof
  BY DEF RegularisePlanes
<1>2. /\ IsFiniteSet(ids) /\ ids = 1 .. Cardinality(ids) /\ plane_id \in [cloud -> Nat]
      /\ \A id \in ids : pts_per_roofplane[id] = {p \in cloud : plane_id[p] = id} /\ pts_per_roofplane[id] # {}
      /\ \A p \in cloud : plane_id[p] \in ids \cup {0}
  BY <1>1 DEF NumbersInv
<1>3. PICK number \in [ids -> 0 .. Cardinality(ids)] :
        LET used == {number[id] : id \in ids} \ {0}
        IN /\ used = 1 .. Cardinality(used)
           /\ pts = [n \in used |-> MergedPoints({id \in ids : number[id] = n})]
           /\ plane_id' = [p \in cloud |-> IF plane_id[p] = 0 THEN 0
                                            ELSE RenumberedLabel(plane_id[p], number)]
  BY DEF RegularisePlanes
<1> DEFINE used == {number[id] : id \in ids} \ {0}
<1>4. /\ used = 1 .. Cardinality(used)
      /\ pts = [n \in used |-> MergedPoints({id \in ids : number[id] = n})]
      /\ plane_id' = [p \in cloud |-> IF plane_id[p] = 0 THEN 0 ELSE RenumberedLabel(plane_id[p], number)]
  BY <1>3
<1>5. Cardinality(ids) \in Nat /\ IsFiniteSet(0 .. Cardinality(ids))
  BY <1>2, FS_CardinalityType, FS_Interval
<1>6. used \subseteq 0 .. Cardinality(ids) /\ 0 \notin used
  OBVIOUS
<1>7. IsFiniteSet(used) /\ DOMAIN pts = used /\ cloud' = cloud
  BY <1>1, <1>4, <1>5, <1>6, FS_Subset DEF cloud
<1>8. \A id \in ids : id \in Nat \ {0}
  BY <1>2, <1>5
<1>9. \A p \in cloud : plane_id'[p] = IF plane_id[p] = 0 THEN 0
                                       ELSE IF number[plane_id[p]] = 0 THEN plane_id[p] ELSE number[plane_id[p]]
  BY <1>4 DEF RenumberedLabel
<1>10. \A p \in cloud : plane_id[p] # 0 => plane_id[p] \in ids /\ number[plane_id[p]] \in used \cup {0}
  BY <1>2
<1>n. \A n \in used : n \in Nat \ {0}
  BY <1>5, <1>6
<1>11. plane_id' \in [cloud -> Nat] /\ \A p \in cloud : plane_id'[p] = 0 <=> plane_id[p] = 0
  <2>1. \A p \in cloud : plane_id'[p] \in Nat /\ (plane_id'[p] = 0 <=> plane_id[p] = 0)
    BY <1>8, <1>9, <1>10, <1>n
  <2> QED
    BY <2>1, <1>4
<1> HIDE DEF used
<1>12. ASSUME NEW n \in used
       PROVE  pts[n] = {p \in cloud : plane_id[p] # 0 /\ number[plane_id[p]] = n} /\ pts[n] # {}
  <2> DEFINE merged == {id \in ids : number[id] = n}
  <2>1. pts[n] = UNION {pts_per_roofplane[id] : id \in merged}
    BY <1>4 DEF MergedPoints
  <2>2. ASSUME NEW p
        PROVE  p \in pts[n] <=> p \in cloud /\ plane_id[p] # 0 /\ number[plane_id[p]] = n
    <3>1. p \in pts[n] <=> \E id \in merged : p \in pts_per_roofplane[id]
      BY <2>1
    <3>2. \A id \in merged : p \in pts_per_roofplane[id] <=> p \in cloud /\ plane_id[p] = id
      BY <1>2
    <3> QED
      BY <3>1, <3>2, <1>8, <1>10
  <2>3. PICK id \in ids : number[id] = n
    BY DEF used
  <2>4. pts[n] # {}
    BY <2>1, <2>3, <1>2
  <2> QED
    BY <2>2, <2>4
<1>13. CASE {p \in cloud : plane_id'[p] # 0} = UNION {pts[n] : n \in used}
  <2>1. \A p \in cloud : plane_id[p] # 0 => number[plane_id[p]] # 0
    <3> SUFFICES ASSUME NEW p \in cloud, plane_id[p] # 0 PROVE number[plane_id[p]] # 0
      OBVIOUS
    <3>1. PICK n \in used : p \in pts[n]
      BY <1>11, <1>13
    <3> QED
      BY <3>1, <1>12, <1>n
  <2>2. \A p \in cloud : plane_id'[p] = IF plane_id[p] = 0 THEN 0 ELSE number[plane_id[p]]
    BY <2>1, <1>9
  <2>3. \A p \in cloud : plane_id'[p] \in used \cup {0}
    BY <2>2, <1>10
  <2>4. ASSUME NEW n \in used
        PROVE  pts[n] = {p \in cloud : plane_id'[p] = n} /\ pts[n] # {}
    <3>1. \A p \in cloud : plane_id'[p] = n <=> plane_id[p] # 0 /\ number[plane_id[p]] = n
      BY <2>2, <1>n
    <3> QED
      BY <3>1, <1>12
  <2> QED
    BY <2>3, <2>4, <1>1, <1>4, <1>7, <1>11 DEF NumbersInv
<1>14. CASE {p \in cloud : plane_id'[p] # 0} # UNION {pts[n] : n \in used}
  BY <1>1, <1>4, <1>7, <1>11, <1>14 DEF NumbersInv, MergedPoints
<1> QED
  BY <1>13, <1>14

(* The labels of neighbours are numbers of planes, where labels are true. *)
LEMMA AdjacenciesAreOfPlanes ==
  ASSUME roof \in Roofs, NumbersInv, FindAdjacencies
  PROVE  AdjacencyInv' /\ NumbersInv'
<1> DEFINE ids == DOMAIN pts_per_roofplane
<1>1. /\ stage = "adjacency" /\ stage' = "type"
      /\ UNCHANGED <<roof, plane_id, pts_per_roofplane>>
      /\ plane_adjacencies' =
           UNION {{IF plane_id[p] > plane_id[n] THEN <<plane_id[p], plane_id[n]>>
                   ELSE <<plane_id[n], plane_id[p]>> : n \in OnOtherPlanes(p)} :
                  p \in {q \in cloud : plane_id[q] # 0}}
  BY DEF FindAdjacencies
<1>2. cloud' = cloud
  BY <1>1 DEF cloud
<1>3. NumbersInv'
  BY <1>1, <1>2 DEF NumbersInv, MergedPoints
<1>4. /\ plane_id \in [cloud -> Nat]
      /\ \/ {p \in cloud : plane_id[p] # 0} # MergedPoints(ids)
         \/ \A p \in cloud : plane_id[p] \in ids \cup {0}
  BY <1>1 DEF NumbersInv
<1>5. ASSUME NEW a \in plane_adjacencies'
      PROVE  \E p, n \in cloud : /\ plane_id[p] # 0 /\ plane_id[n] # 0 /\ plane_id[p] # plane_id[n]
                                 /\ a = IF plane_id[p] > plane_id[n] THEN <<plane_id[p], plane_id[n]>>
                                        ELSE <<plane_id[n], plane_id[p]>>
  <2>1. PICK p \in cloud : /\ plane_id[p] # 0
                           /\ a \in {IF plane_id[p] > plane_id[n] THEN <<plane_id[p], plane_id[n]>>
                                     ELSE <<plane_id[n], plane_id[p]>> : n \in OnOtherPlanes(p)}
    BY <1>1
  <2>2. PICK n \in OnOtherPlanes(p) : a = IF plane_id[p] > plane_id[n] THEN <<plane_id[p], plane_id[n]>>
                                          ELSE <<plane_id[n], plane_id[p]>>
    BY <2>1
  <2>3. n \in cloud /\ plane_id[n] # 0 /\ plane_id[n] # plane_id[p]
    BY CloudIsFinite DEF OnOtherPlanes
  <2> QED
    BY <2>1, <2>2, <2>3
<1>6. ASSUME NEW a \in plane_adjacencies'
      PROVE  /\ a[2] < a[1]
             /\ (\A p \in cloud : plane_id[p] \in ids \cup {0}) => {a[1], a[2]} \subseteq ids
  <2>1. PICK p \in cloud, n \in cloud :
          /\ plane_id[p] # 0 /\ plane_id[n] # 0 /\ plane_id[p] # plane_id[n]
          /\ a = IF plane_id[p] > plane_id[n] THEN <<plane_id[p], plane_id[n]>>
                 ELSE <<plane_id[n], plane_id[p]>>
    BY <1>5
  <2>2. plane_id[p] \in Nat /\ plane_id[n] \in Nat
    BY <1>4
  <2>3. CASE plane_id[p] > plane_id[n]
    BY <2>1, <2>2, <2>3
  <2>4. CASE plane_id[n] > plane_id[p]
    BY <2>1, <2>2, <2>4
  <2> QED
    BY <2>1, <2>2, <2>3, <2>4
<1> QED
  BY <1>1, <1>2, <1>3, <1>4, <1>6 DEF AdjacencyInv, MergedPoints

LEMMA LabelsKept ==
  ASSUME roof \in Roofs, FoundInv, NumbersInv, AdjacencyInv, [PlanesNext]_detectorVars
  PROVE  NumbersInv' /\ AdjacencyInv'
<1>1. ASSUME UNCHANGED <<roof, planes>>, stage' = stage
      PROVE  NumbersInv' /\ AdjacencyInv'
  BY <1>1 DEF planes, NumbersInv, AdjacencyInv, MergedPoints, cloud
<1>2. CASE SkipSeed \/ StartRegion \/ TryNeighbours \/ EndRegion \/ SeedsAreUsed \/ Ransac
  BY <1>2 DEF SkipSeed, StartRegion, TryNeighbours, EndRegion, SeedsAreUsed, Ransac, NumbersInv, AdjacencyInv
<1>3. CASE LabelPlanes
  BY <1>3, PlanesAreLabelled DEF LabelPlanes, AdjacencyInv
<1>4. CASE RegularisePlanes
  BY <1>4, PlanesAreRenumbered DEF RegularisePlanes, AdjacencyInv
<1>5. CASE FindAdjacencies
  BY <1>5, AdjacenciesAreOfPlanes
<1>6. CASE SetRoofType
  BY <1>6 DEF SetRoofType, NumbersInv, AdjacencyInv, MergedPoints, cloud
<1>7. CASE UNCHANGED detectorVars
  BY <1>1, <1>7 DEF detectorVars
<1> QED
  BY <1>2, <1>3, <1>4, <1>5, <1>6, <1>7 DEF PlanesNext, Ended

(* The numbers of the planes are dense, and say of every point the plane    *)
(* it is in, after planes were merged as well; adjacencies are of planes.  *)
THEOREM LabelsStayTrue == PlanesSpec => []LabelsMatchPlanes
<1>1. PlanesInit => roof \in Roofs /\ GrowInv /\ FoundInv /\ NumbersInv /\ AdjacencyInv
  <2> SUFFICES ASSUME PlanesInit
               PROVE  roof \in Roofs /\ GrowInv /\ FoundInv /\ NumbersInv /\ AdjacencyInv
    OBVIOUS
  <2>1. stage \in {"ransac", "seed", "label"} /\ roof \in Roofs
    BY DEF PlanesInit
  <2>2. FoundInv
    <3> SUFFICES ASSUME stage = "label" PROVE FoundInv
      BY DEF FoundInv
    <3>1. regions = <<>>
      BY DEF PlanesInit
    <3> QED
      BY <3>1 DEF FoundInv, Grown
  <2> QED
    BY <2>1, <2>2, GrowthBegins DEF NumbersInv, AdjacencyInv
<1>2. /\ roof \in Roofs /\ GrowInv /\ FoundInv /\ NumbersInv /\ AdjacencyInv
      /\ [PlanesNext]_detectorVars
      => (roof \in Roofs /\ GrowInv /\ FoundInv /\ NumbersInv /\ AdjacencyInv)'
  BY GrowthKept, PlanesAreFound, LabelsKept
<1>3. NumbersInv /\ AdjacencyInv => LabelsMatchPlanes
  BY DEF NumbersInv, AdjacencyInv, LabelsMatchPlanes
<1> QED
  BY <1>1, <1>2, <1>3, PTL DEF PlanesSpec

-----------------------------------------------------------------------------
(* The table of distances.                                                 *)

(* What a handle stands for: a pair of two clusters, one of which holds it. *)
IsHandle(p, c) == \E d : d # c /\ p = {c, d}

(* Clusters hold handles of all pairs they are in; the others among their   *)
(* handles are stale, for the second cluster is gone.                      *)
HandlesInv ==
  /\ cluster_lines = [c \in clusters |-> cluster_lines[c]]
  /\ cluster_to_dist_pairs = [c \in clusters |-> cluster_to_dist_pairs[c]]
  /\ \A c \in clusters : \A p \in cluster_to_dist_pairs[c] : IsHandle(p, c)
  /\ \A p \in Pairs(clusters) : \A c \in p : p \in cluster_to_dist_pairs[c]

TableInv == HandlesInv /\ TableIsCurrent

-----------------------------------------------------------------------------
(* A handle two clusters of a set hold is that of the two. *)
LEMMA SharedIsPair ==
  ASSUME NEW C, C \subseteq clusters, HandlesInv, NEW p, IsShared(p, C, cluster_to_dist_pairs)
  PROVE  p \in Pairs(C)
<1>1. PICK a \in C, b \in C : a # b /\ p \in cluster_to_dist_pairs[a] /\ p \in cluster_to_dist_pairs[b]
  BY DEF IsShared
<1>2. IsHandle(p, a) /\ IsHandle(p, b)
  BY <1>1 DEF HandlesInv
<1>3. p = {a, b}
  BY <1>1, <1>2 DEF IsHandle
<1> QED
  BY <1>1, <1>3 DEF Pairs

(* Two clusters that are both there share the handle of their pair. *)
LEMMA PairIsShared ==
  ASSUME NEW C, C \subseteq clusters, HandlesInv, NEW p \in Pairs(C)
  PROVE  /\ IsShared(p, C, cluster_to_dist_pairs)
         /\ \A c \in p : p \in cluster_to_dist_pairs[c]
<1>1. PICK a \in C, b \in C : a # b /\ p = {a, b}
  BY DEF Pairs
<1>2. p \in Pairs(clusters)
  BY <1>1 DEF Pairs
<1>3. \A c \in p : p \in cluster_to_dist_pairs[c]
  BY <1>2 DEF HandlesInv
<1> QED
  BY <1>1, <1>3 DEF IsShared

(* The distance of a pair depends on the lines of its two clusters alone. *)
LEMMA DistanceDependsOnPair ==
  ASSUME NEW C, NEW p \in Pairs(C), NEW kind, NEW f, NEW g, \A c \in p : f[c] = g[c]
  PROVE  DistanceOf(kind, f, p) = DistanceOf(kind, g, p)
<1> DEFINE first == CHOOSE a \in p : TRUE
           second == CHOOSE b \in p : b # first
<1>1. PICK a \in C, b \in C : a # b /\ p = {a, b}
  BY DEF Pairs
<1>2. first \in p
  BY <1>1
<1> HIDE DEF first
<1>3. \E x \in p : x # first
  BY <1>1
<1>4. second \in p
  BY <1>3
<1> HIDE DEF second
<1>5. Distance(kind, f[first], f[second]) = Distance(kind, g[first], g[second])
  BY <1>2, <1>4
<1> QED
  BY <1>5 DEF DistanceOf, first, second

-----------------------------------------------------------------------------
LEMMA MakeTableIsRight ==
  ASSUME NEW kind, NEW S, MakeTable(kind, S), phase' = kind
  PROVE  TableInv'
<1>1. \A p \in Pairs(S) : \A c \in p : c \in S /\ IsHandle(p, c)
  BY DEF Pairs, IsHandle
<1>2. HandlesInv'
  BY <1>1 DEF MakeTable, HandlesInv
<1>3. TableIsCurrent'
  BY DEF MakeTable, TableIsCurrent
<1> QED
  BY <1>2, <1>3 DEF TableInv

LEMMA MergeKeepsTable ==
  ASSUME TableInv, phase' = phase, NEW lhs \in clusters, NEW rhs \in clusters, lhs # rhs, Merge(phase, lhs, rhs)
  PROVE  TableInv'
<1> DEFINE left == clusters \ {rhs}
           grown == [c \in left |-> IF c = lhs THEN cluster_lines[lhs] \cup cluster_lines[rhs] ELSE cluster_lines[c]]
<1>0. /\ clusters' = left
      /\ cluster_lines' = grown
      /\ cluster_to_dist_pairs' =
           [c \in left |-> IF c = lhs
                           THEN {p \in cluster_to_dist_pairs[lhs] : IsShared(p, left, cluster_to_dist_pairs)}
                           ELSE cluster_to_dist_pairs[c]]
      /\ distances' =
           [p \in DOMAIN distances \ ErasedWith(rhs) |->
              IF p \in UpdatedFor(lhs, rhs) THEN DistanceOf(phase, grown, p) ELSE distances[p]]
  BY DEF Merge
<1>i. HandlesInv /\ TableIsCurrent /\ DOMAIN distances = Pairs(clusters)
  BY DEF TableInv, TableIsCurrent
<1>l. left \subseteq clusters
  OBVIOUS
<1>1. \A p \in Pairs(clusters) : p \in ErasedWith(rhs) <=> rhs \in p
  <2> SUFFICES ASSUME NEW p \in Pairs(clusters)
               PROVE  p \in ErasedWith(rhs) <=> rhs \in p
    OBVIOUS
  <2>1. p \in cluster_to_dist_pairs[rhs] => rhs \in p
    BY <1>i DEF HandlesInv, IsHandle
  <2>2. IsShared(p, clusters, cluster_to_dist_pairs) /\ \A c \in p : p \in cluster_to_dist_pairs[c]
    BY <1>i, PairIsShared
  <2> QED
    BY <2>1, <2>2 DEF ErasedWith
<1>2. Pairs(clusters) \ ErasedWith(rhs) = Pairs(left)
  <2>1. ASSUME NEW p \in Pairs(clusters), rhs \notin p
        PROVE  p \in Pairs(left)
    BY <2>1 DEF Pairs
  <2>2. ASSUME NEW p \in Pairs(left)
        PROVE  p \in Pairs(clusters) /\ rhs \notin p
    BY <2>2 DEF Pairs
  <2> QED
    BY <1>1, <2>1, <2>2
<1>3. \A p \in Pairs(left) : p \in UpdatedFor(lhs, rhs) <=> lhs \in p
  <2> SUFFICES ASSUME NEW p \in Pairs(left)
               PROVE  p \in UpdatedFor(lhs, rhs) <=> lhs \in p
    OBVIOUS
  <2>1. p \in cluster_to_dist_pairs[lhs] => lhs \in p
    BY <1>i DEF HandlesInv, IsHandle
  <2>2. IsShared(p, left, cluster_to_dist_pairs) /\ \A c \in p : p \in cluster_to_dist_pairs[c]
    BY <1>i, <1>l, PairIsShared
  <2> QED
    BY <2>1, <2>2 DEF UpdatedFor
<1>4. TableIsCurrent'
  <2>1. DOMAIN distances' = Pairs(left)
    BY <1>0, <1>2, <1>i
  <2>2. ASSUME NEW p \in Pairs(left)
        PROVE  distances'[p] = DistanceOf(phase, grown, p)
    <3>1. CASE lhs \in p
      BY <3>1, <1>0, <1>2, <1>3, <1>i
    <3>2. CASE lhs \notin p
      <4>1. distances'[p] = distances[p]
        BY <3>2, <1>0, <1>2, <1>3, <1>i
      <4>2. p \in Pairs(clusters) /\ \A c \in p : c \in left /\ c # lhs
        BY <3>2 DEF Pairs
      <4>3. distances[p] = DistanceOf(phase, cluster_lines, p)
        BY <4>2, <1>i DEF TableIsCurrent
      <4>4. \A c \in p : cluster_lines[c] = grown[c]
        BY <4>2
      <4>5. DistanceOf(phase, cluster_lines, p) = DistanceOf(phase, grown, p)
        BY <4>2, <4>4, DistanceDependsOnPair
      <4> QED
        BY <4>1, <4>3, <4>5
    <3> QED
      BY <3>1, <3>2
  <2> QED
    BY <2>1, <2>2, <1>0 DEF TableIsCurrent
<1>5. HandlesInv'
  <2>1. /\ cluster_lines' = [c \in clusters' |-> cluster_lines'[c]]
        /\ cluster_to_dist_pairs' = [c \in clusters' |-> cluster_to_dist_pairs'[c]]
    BY <1>0
  <2>2. ASSUME NEW c \in left, NEW p \in cluster_to_dist_pairs'[c]
        PROVE  IsHandle(p, c)
    <3>1. p \in cluster_to_dist_pairs[c]
      BY <1>0, <2>2
    <3> QED
      BY <3>1, <1>i, <1>l DEF HandlesInv
  <2>3. ASSUME NEW p \in Pairs(left), NEW c \in p
        PROVE  p \in cluster_to_dist_pairs'[c]
    <3>1. IsShared(p, left, cluster_to_dist_pairs) /\ p \in cluster_to_dist_pairs[c]
      BY <1>i, <1>l, PairIsShared
    <3>2. c \in left
      BY DEF Pairs
    <3> QED
      BY <3>1, <3>2, <1>0
  <2> QED
    BY <2>1, <2>2, <2>3, <1>0 DEF HandlesInv
<1> QED
  BY <1>4, <1>5 DEF TableInv

-----------------------------------------------------------------------------
(* The heap is current throughout: whatever was merged in whatever order,   *)
(* it never holds a pair of a cluster that is gone, and every distance in   *)
(* it is that of the two clusters as they are (DistanceTable::merge).       *)
THEOREM HeapStaysCurrent == Spec => []TableIsCurrent
<1>1. Init => TableInv
  <2> SUFFICES ASSUME Init PROVE TableInv
    OBVIOUS
  <2>1. Pairs(clusters) = {}
    BY DEF Init, Pairs
  <2>2. DOMAIN distances = {} /\ DOMAIN cluster_lines = {} /\ DOMAIN cluster_to_dist_pairs = {}
    BY DEF Init
  <2>3. HandlesInv
    BY <2>1 DEF Init, HandlesInv
  <2> QED
    BY <2>1, <2>2, <2>3 DEF TableInv, TableIsCurrent
<1>2. TableInv /\ [Next]_vars => TableInv'
  <2> SUFFICES ASSUME TableInv, [Next]_vars PROVE TableInv'
    OBVIOUS
  <2>1. ASSUME NEW L \in InputLines, Compute(L) PROVE TableInv'
    BY <2>1, MakeTableIsRight DEF Compute
  <2>2. ASSUME MergeClosest PROVE TableInv'
    <3>1. PICK p \in DOMAIN distances : \E lhs, rhs \in p : lhs # rhs /\ Merge(phase, lhs, rhs)
      BY <2>2 DEF MergeClosest
    <3>2. PICK lhs \in p, rhs \in p : lhs # rhs /\ Merge(phase, lhs, rhs)
      BY <3>1
    <3>3. p \in Pairs(clusters)
      BY DEF TableInv, TableIsCurrent
    <3>4. lhs \in clusters /\ rhs \in clusters
      BY <3>3 DEF Pairs
    <3>5. phase' = phase
      BY <2>2 DEF MergeClosest
    <3> QED
      BY <3>2, <3>4, <3>5, MergeKeepsTable
  <2>3. ASSUME EndAngles PROVE TableInv'
    BY <2>3, MakeTableIsRight DEF EndAngles
  <2>4. ASSUME NextAngleCluster PROVE TableInv'
    <3>1. PICK next \in todo : MakeTable("dist", next)
      BY <2>4 DEF NextAngleCluster
    <3>2. phase' = "dist"
      BY <2>4 DEF NextAngleCluster
    <3> QED
      BY <3>1, <3>2, MakeTableIsRight
  <2>5. ASSUME Regularise PROVE TableInv'
    BY <2>5, MakeTableIsRight DEF Regularise
  <2>6. ASSUME UNCHANGED vars PROVE TableInv'
    BY <2>6 DEF vars, table, TableInv, HandlesInv, TableIsCurrent
  <2> QED
    BY <2>1, <2>2, <2>3, <2>4, <2>5, <2>6 DEF Next
<1>3. TableInv => TableIsCurrent
  BY DEF TableInv
<1> QED
  BY <1>1, <1>2, <1>3, PTL DEF Spec

-----------------------------------------------------------------------------
(* What the lines are divided into at any time: the clusters that are done, *)
(* those that are being made, and clusters of directions still to divide.  *)
Parts == dist_clusters \cup Made \cup todo

Disjoint(S) == \A A, B \in S : A # B => A \cap B = {}

(* The parts are a partition of the lines. No part counts *)
(* twice; which sets are empty depends on how far it is.        *)
PartsInv ==
  /\ UNION Parts = lines
  /\ Disjoint(Parts)
  /\ {} \notin Parts
  /\ todo \cap (dist_clusters \cup Made) = {} /\ dist_clusters \cap Made = {}
  /\ \A c, d \in clusters : c # d => cluster_lines[c] \cap cluster_lines[d] = {}
  /\ phase \in {"waiting", "angle"} => todo = {} /\ dist_clusters = {}
  /\ phase \in {"waiting", "done"} => clusters = {}
  /\ phase = "done" => todo = {}

(* Every line a part of its own. *)
LEMMA Singles ==
  ASSUME NEW S
  PROVE  /\ UNION {{l} : l \in S} = S
         /\ Disjoint({{l} : l \in S})
         /\ {} \notin {{l} : l \in S}
<1>1. UNION {{l} : l \in S} = S
  OBVIOUS
<1>2. ASSUME NEW a \in S, NEW b \in S, {a} # {b}
      PROVE  {a} \cap {b} = {}
  <2>1. a # b
    BY <1>2
  <2> QED
    BY <2>1
<1>3. Disjoint({{l} : l \in S})
  BY <1>2 DEF Disjoint
<1> QED
  BY <1>1, <1>3

LEMMA NewTableParts ==
  ASSUME NEW kind, NEW S, MakeTable(kind, S)
  PROVE  /\ clusters' = S
         /\ Made' = {{l} : l \in S}
         /\ \A c, d \in clusters' : c # d => cluster_lines'[c] \cap cluster_lines'[d] = {}
BY DEF MakeTable, Made

LEMMA MergeKeepsParts ==
  ASSUME PartsInv, NEW kind, NEW lhs \in clusters, NEW rhs \in clusters, lhs # rhs, Merge(kind, lhs, rhs),
         UNCHANGED <<lines, phase, todo, dist_clusters>>, phase \in {"angle", "dist"}
  PROVE  PartsInv'
<1> DEFINE both == cluster_lines[lhs] \cup cluster_lines[rhs]
<1>1. /\ clusters' = clusters \ {rhs}
      /\ \A c \in clusters' : cluster_lines'[c] = IF c = lhs THEN both ELSE cluster_lines[c]
  BY DEF Merge
<1>2. Made' = {both} \cup {cluster_lines[c] : c \in clusters \ {lhs, rhs}}
  BY <1>1 DEF Made
<1>3. /\ cluster_lines[lhs] \in Made /\ cluster_lines[rhs] \in Made
      /\ Made = {cluster_lines[lhs], cluster_lines[rhs]} \cup {cluster_lines[c] : c \in clusters \ {lhs, rhs}}
  BY DEF Made
<1>4. cluster_lines[lhs] # {} /\ cluster_lines[rhs] # {}
  BY <1>3 DEF PartsInv, Parts
<1>5. ASSUME NEW c \in clusters \ {lhs, rhs}
      PROVE  both \cap cluster_lines[c] = {}
  BY DEF PartsInv
<1>6. ASSUME NEW A \in todo
      PROVE  both \cap A = {}
  BY <1>3 DEF PartsInv, Parts, Disjoint
<1>7. ASSUME NEW A \in dist_clusters
      PROVE  both \cap A = {}
  BY <1>3 DEF PartsInv, Parts, Disjoint
<1>8. UNION Parts' = lines'
  <2> DEFINE others == {cluster_lines[c] : c \in clusters \ {lhs, rhs}}
  <2> DEFINE rest == dist_clusters \cup todo \cup others
  <2>1. /\ Parts' = rest \cup {cluster_lines[lhs] \cup cluster_lines[rhs]}
        /\ Parts = rest \cup {cluster_lines[lhs], cluster_lines[rhs]}
    BY <1>2, <1>3 DEF Parts
  <2> HIDE DEF rest
  <2>2. ASSUME NEW x
        PROVE  /\ x \in UNION Parts' <=> x \in UNION rest \/ x \in both
               /\ x \in UNION Parts <=> x \in UNION rest \/ x \in both
    BY <2>1
  <2>3. UNION Parts' = UNION Parts
    BY <2>2
  <2> QED
    BY <2>3 DEF PartsInv
<1>9. Disjoint(Parts')
  <2> SUFFICES ASSUME NEW A \in Parts', NEW B \in Parts', A # B
               PROVE  A \cap B = {}
    BY DEF Disjoint
  <2>1. ASSUME NEW C \in Parts', C # both
        PROVE  C \in Parts /\ both \cap C = {}
    BY <2>1, <1>2, <1>3, <1>5, <1>6, <1>7 DEF Parts
  <2> QED
    BY <2>1 DEF PartsInv, Disjoint
<1>10. {} \notin Parts'
  BY <1>2, <1>3, <1>4 DEF Parts, PartsInv
<1>11. todo' \cap (dist_clusters' \cup Made') = {} /\ dist_clusters' \cap Made' = {}
  BY <1>2, <1>3, <1>4, <1>6, <1>7 DEF PartsInv
<1>12. \A c, d \in clusters' : c # d => cluster_lines'[c] \cap cluster_lines'[d] = {}
  BY <1>1, <1>5 DEF PartsInv
<1> QED
  BY <1>8, <1>9, <1>10, <1>11, <1>12 DEF PartsInv

(* The parts are a partition throughout. *)
LEMMA PartsArePartition == Spec => []PartsInv
<1>1. Init => PartsInv
  BY DEF Init, PartsInv, Parts, Made, Disjoint
<1>2. PartsInv /\ TableIsCurrent /\ [Next]_vars => PartsInv'
  <2> SUFFICES ASSUME PartsInv, TableIsCurrent, [Next]_vars PROVE PartsInv'
    OBVIOUS
  <2>1. ASSUME NEW L \in InputLines, Compute(L) PROVE PartsInv'
    <3>1. phase = "waiting" /\ phase' = "angle" /\ lines' = L /\ UNCHANGED <<todo, dist_clusters>>
      BY <2>1 DEF Compute
    <3>2. /\ clusters' = L
          /\ Made' = {{l} : l \in L}
          /\ \A c, d \in clusters' : c # d => cluster_lines'[c] \cap cluster_lines'[d] = {}
      BY <2>1, NewTableParts DEF Compute
    <3>3. todo' = {} /\ dist_clusters' = {}
      BY <3>1 DEF PartsInv
    <3>4. Parts' = {{l} : l \in L}
      BY <3>2, <3>3 DEF Parts
    <3>5. UNION Parts' = lines' /\ Disjoint(Parts') /\ {} \notin Parts'
      BY <3>1, <3>4, Singles
    <3> QED
      BY <3>1, <3>2, <3>3, <3>5 DEF PartsInv
  <2>2. ASSUME MergeClosest PROVE PartsInv'
    <3>1. PICK p \in DOMAIN distances : \E lhs, rhs \in p : lhs # rhs /\ Merge(phase, lhs, rhs)
      BY <2>2 DEF MergeClosest
    <3>2. PICK lhs \in p, rhs \in p : lhs # rhs /\ Merge(phase, lhs, rhs)
      BY <3>1
    <3>3. lhs \in clusters /\ rhs \in clusters
      BY DEF TableIsCurrent, Pairs
    <3>4. phase \in {"angle", "dist"} /\ UNCHANGED <<lines, phase, todo, dist_clusters>>
      BY <2>2 DEF MergeClosest
    <3> QED
      BY <3>2, <3>3, <3>4, MergeKeepsParts
  <2>3. ASSUME EndAngles PROVE PartsInv'
    <3>1. /\ phase = "angle" /\ phase' = "dist" /\ todo' = Made
          /\ UNCHANGED <<lines, dist_clusters>> /\ MakeTable("dist", {})
      BY <2>3 DEF EndAngles
    <3>2. clusters' = {} /\ Made' = {}
      BY <3>1, NewTableParts
    <3>3. todo = {} /\ dist_clusters = {}
      BY <3>1 DEF PartsInv
    <3>4. Parts' = Parts
      BY <3>1, <3>2, <3>3 DEF Parts
    <3> QED
      BY <3>1, <3>2, <3>3, <3>4 DEF PartsInv
  <2>4. ASSUME NextAngleCluster PROVE PartsInv'
    <3>1. phase = "dist" /\ UNCHANGED <<lines, phase>> /\ dist_clusters' = dist_clusters \cup Made
      BY <2>4 DEF NextAngleCluster
    <3>2. PICK next \in todo : todo' = todo \ {next} /\ MakeTable("dist", next)
      BY <2>4 DEF NextAngleCluster
    <3>3. /\ clusters' = next
          /\ Made' = {{l} : l \in next}
          /\ \A c, d \in clusters' : c # d => cluster_lines'[c] \cap cluster_lines'[d] = {}
      BY <3>2, NewTableParts
    <3>4. Parts' = (Parts \ {next}) \cup {{l} : l \in next}
      BY <3>1, <3>2, <3>3 DEF Parts, PartsInv
    <3>5. ASSUME NEW A \in Parts, A # next
          PROVE  A \cap next = {}
      BY <3>2, <3>5 DEF PartsInv, Parts, Disjoint
    <3>6. UNION Parts' = lines'
      <4>1. UNION {{l} : l \in next} = next
        OBVIOUS
      <4>2. next \in Parts
        BY <3>2 DEF Parts
      <4>3. UNION Parts' = UNION Parts
        BY <3>4, <4>1, <4>2
      <4> QED
        BY <4>3, <3>1 DEF PartsInv
    <3>7. Disjoint(Parts')
      <4> SUFFICES ASSUME NEW A \in Parts', NEW B \in Parts', A # B
                   PROVE  A \cap B = {}
        BY DEF Disjoint
      <4>1. CASE A \in Parts \ {next} /\ B \in Parts \ {next}
        BY <4>1 DEF PartsInv, Disjoint
      <4>2. CASE A \in Parts \ {next} /\ \E l \in next : B = {l}
        BY <4>2, <3>5
      <4>3. CASE B \in Parts \ {next} /\ \E l \in next : A = {l}
        BY <4>3, <3>5
      <4>4. CASE (\E l \in next : A = {l}) /\ \E l \in next : B = {l}
        BY <4>4, Singles DEF Disjoint
      <4> QED
        BY <4>1, <4>2, <4>3, <4>4, <3>4
    <3>8. {} \notin Parts'
      BY <3>4 DEF PartsInv
    <3>9. todo' \cap (dist_clusters' \cup Made') = {} /\ dist_clusters' \cap Made' = {}
      <4>1. ASSUME NEW l \in next
            PROVE  {l} \notin todo' /\ {l} \notin dist_clusters'
        BY <3>1, <3>2, <3>5 DEF Parts, PartsInv
      <4>2. todo' \cap dist_clusters' = {}
        BY <3>1, <3>2 DEF PartsInv
      <4>3. todo' \cap Made' = {} /\ dist_clusters' \cap Made' = {}
        BY <4>1, <3>3
      <4> QED
        BY <4>2, <4>3
    <3> QED
      BY <3>1, <3>3, <3>6, <3>7, <3>8, <3>9 DEF PartsInv
  <2>5. ASSUME Regularise PROVE PartsInv'
    <3>1. /\ phase' = "done" /\ todo = {} /\ todo' = {} /\ dist_clusters' = dist_clusters \cup Made
          /\ UNCHANGED lines /\ MakeTable("done", {})
      BY <2>5 DEF Regularise
    <3>2. clusters' = {} /\ Made' = {}
      BY <3>1, NewTableParts
    <3>3. Parts' = Parts
      BY <3>1, <3>2 DEF Parts
    <3> QED
      BY <3>1, <3>2, <3>3 DEF PartsInv
  <2>6. ASSUME UNCHANGED vars PROVE PartsInv'
    BY <2>6 DEF vars, table, PartsInv, Parts, Made, Disjoint
  <2> QED
    BY <2>1, <2>2, <2>3, <2>4, <2>5, <2>6 DEF Next
<1> QED
  BY <1>1, <1>2, HeapStaysCurrent, PTL DEF Spec

(* Nothing is lost and nothing counts twice when lines are merged and       *)
(* angle clusters are divided (perform_angle_clustering,                   *)
(* perform_distance_clustering).                                           *)
THEOREM LinesStayPartitioned == Spec => []EachLineInOneCluster
<1>1. PartsInv => EachLineInOneCluster
  <2> SUFFICES ASSUME PartsInv, phase = "done" PROVE UNION dist_clusters = lines /\ Disjoint(dist_clusters)
    BY DEF EachLineInOneCluster, Disjoint
  <2>1. Made = {} /\ todo = {}
    BY DEF PartsInv, Made
  <2>2. Parts = dist_clusters
    BY <2>1 DEF Parts
  <2> QED
    BY <2>2 DEF PartsInv
<1> QED
  BY <1>1, PartsArePartition, PTL

-----------------------------------------------------------------------------
(* Induction over finite sets and numbers.                                 *)

(* A non-empty set of subsets of a finite set has a minimal element. *)
LEMMA MinimalSubset ==
  ASSUME NEW S, IsFiniteSet(S), NEW C, C \subseteq SUBSET S, C # {}
  PROVE  \E A \in C : \A B \in C : B \subseteq A => B = A
<1>1. C \subseteq FiniteSubsetsOf(S)
  BY FS_FiniteSubsetsOfFinite
<1>2. PICK A \in C : \A B \in C : ~ (<<B, A>> \in StrictSubsetOrdering(S))
  BY <1>1, FS_StrictSubsetOrderingWellFounded, WFMin
<1> QED
  BY <1>2 DEF StrictSubsetOrdering

(* A non-empty set of natural numbers has a least one. *)
LEMMA LeastNumber ==
  ASSUME NEW T, T \subseteq Nat, T # {}
  PROVE  \E n \in T : \A m \in T : n <= m
<1>1. PICK k \in T : TRUE
  OBVIOUS
<1> DEFINE C == {0 .. m : m \in {x \in T : x <= k}}
<1>2. IsFiniteSet(0 .. k)
  BY FS_Interval
<1>3. C \subseteq SUBSET (0 .. k)
  OBVIOUS
<1>4. C # {}
  OBVIOUS
<1>5. \A m \in T : m <= k => 0 .. m \in C
  OBVIOUS
<1>6. \A B \in C : \E n \in T : B = 0 .. n /\ n <= k
  OBVIOUS
<1> HIDE DEF C
<1>7. PICK A \in C : \A B \in C : B \subseteq A => B = A
  <2> DEFINE S == 0 .. k
  <2>1. IsFiniteSet(S) /\ C \subseteq SUBSET S
    BY <1>2, <1>3
  <2> HIDE DEF S
  <2> QED
    BY <2>1, <1>4, MinimalSubset
<1>8. PICK n \in T : A = 0 .. n /\ n <= k
  BY <1>6
<1>9. ASSUME NEW m \in T, m < n PROVE FALSE
  <2>1. 0 .. m \in C /\ 0 .. m \subseteq A
    BY <1>5, <1>8, <1>9
  <2>2. n \notin 0 .. m /\ n \in A
    BY <1>8, <1>9
  <2> QED
    BY <1>7, <2>1, <2>2
<1> QED
  BY <1>9

-----------------------------------------------------------------------------
(* Sums. *)
FirstOf(T) == CHOOSE x \in T : TRUE

(* The equation that defines a sum has a solution for the sets of up to n elements. *)
SumUpto(f, n) ==
  \E g : \A T \in SUBSET DOMAIN f :
    Cardinality(T) <= n => g[T] = IF T = {} THEN 0 ELSE f[FirstOf(T)] + g[T \ {FirstOf(T)}]

LEMMA SumsExist ==
  ASSUME NEW f, IsFiniteSet(DOMAIN f), NEW n \in Nat
  PROVE  SumUpto(f, n)
<1> DEFINE Bad == {k \in Nat : ~SumUpto(f, k)}
<1> SUFFICES ASSUME Bad # {} PROVE FALSE
  OBVIOUS
<1>1. PICK k \in Bad : \A m \in Bad : k <= m
  <2>1. Bad \subseteq Nat
    OBVIOUS
  <2> HIDE DEF Bad
  <2> QED
    BY <2>1, LeastNumber
<1> DEFINE D == DOMAIN f
<1>2. \A T \in SUBSET D : IsFiniteSet(T) /\ Cardinality(T) \in Nat /\ (Cardinality(T) = 0 <=> T = {})
  BY FS_Subset, FS_CardinalityType, FS_EmptySet
<1>3. CASE k = 0
  <2> DEFINE g == [T \in SUBSET D |-> 0]
  <2>1. \A T \in SUBSET D : Cardinality(T) <= 0 => T = {} /\ g[T] = 0
    BY <1>2
  <2>2. SumUpto(f, 0)
    BY <2>1 DEF SumUpto
  <2> QED
    BY <2>2, <1>3
<1>4. CASE k # 0
  <2>1. k - 1 \in Nat /\ SumUpto(f, k - 1)
    BY <1>1, <1>4
  <2>2. PICK g : \A T \in SUBSET D :
          Cardinality(T) <= k - 1 => g[T] = IF T = {} THEN 0 ELSE f[FirstOf(T)] + g[T \ {FirstOf(T)}]
    BY <2>1 DEF SumUpto
  <2> DEFINE h == [T \in SUBSET D |-> IF Cardinality(T) <= k - 1 THEN g[T]
                                       ELSE f[FirstOf(T)] + g[T \ {FirstOf(T)}]]
  <2>3. ASSUME NEW T \in SUBSET D, T # {}, Cardinality(T) <= k
        PROVE  h[T] = f[FirstOf(T)] + h[T \ {FirstOf(T)}]
    <3> DEFINE U == T \ {FirstOf(T)}
    <3>1. FirstOf(T) \in T
      BY <2>3 DEF FirstOf
    <3>2. Cardinality(U) = Cardinality(T) - 1 /\ U \in SUBSET D
      BY <3>1, <1>2, FS_RemoveElement
    <3>3. Cardinality(U) <= k - 1
      BY <3>2, <2>3, <1>2
    <3>4. h[U] = g[U]
      BY <3>2, <3>3
    <3>5. h[T] = f[FirstOf(T)] + g[U]
      BY <2>2, <2>3
    <3> QED
      BY <3>4, <3>5
  <2>4. h[{}] = 0
    <3>1. Cardinality({}) <= k - 1
      BY <2>1, FS_EmptySet
    <3> QED
      BY <3>1, <2>2
  <2> HIDE DEF h
  <2>5. SumUpto(f, k)
    BY <2>3, <2>4 DEF SumUpto
  <2> QED
    BY <2>5
<1> QED
  BY <1>3, <1>4

(* The sum of integers is one. *)
LEMMA SumIsInteger ==
  ASSUME NEW S, IsFiniteSet(S), NEW f \in [S -> Int]
  PROVE  SumOver(f) \in Int
<1> DEFINE Step(g) == [T \in SUBSET S |-> IF T = {} THEN 0
                                          ELSE LET x == CHOOSE x \in T : TRUE IN f[x] + g[T \ {x}]]
           sum == CHOOSE g : g = Step(g)
<1>1. SumOver(f) = sum[S]
  BY DEF SumOver
<1>2. \E g : g = Step(g)
  <2>1. Cardinality(S) \in Nat /\ SumUpto(f, Cardinality(S))
    BY FS_CardinalityType, SumsExist
  <2>2. PICK g : \A T \in SUBSET S : g[T] = IF T = {} THEN 0 ELSE f[FirstOf(T)] + g[T \ {FirstOf(T)}]
    BY <2>1, FS_Subset DEF SumUpto
  <2> DEFINE h == [T \in SUBSET S |-> g[T]]
  <2>3. \A T \in SUBSET S : h[T] = IF T = {} THEN 0 ELSE f[FirstOf(T)] + h[T \ {FirstOf(T)}]
    BY <2>2 DEF FirstOf
  <2>4. h = Step(h)
    BY <2>3 DEF FirstOf
  <2> QED
    BY <2>4
<1>3. sum = Step(sum)
  <2> HIDE DEF Step
  <2> QED
    BY <1>2
<1> HIDE DEF sum
<1> DEFINE Bad == {T \in SUBSET S : sum[T] \notin Int}
<1>4. ASSUME Bad # {} PROVE FALSE
  <2>1. Bad \subseteq SUBSET S
    OBVIOUS
  <2>2. PICK A \in Bad : \A B \in Bad : B \subseteq A => B = A
    <3> HIDE DEF Bad
    <3> QED
      BY <2>1, <1>4, MinimalSubset
  <2>3. A # {}
    BY <1>3
  <2>4. FirstOf(A) \in A
    BY <2>3 DEF FirstOf
  <2>5. sum[A] = f[FirstOf(A)] + sum[A \ {FirstOf(A)}]
    BY <1>3, <2>3 DEF FirstOf
  <2>6. A \ {FirstOf(A)} \notin Bad
    BY <2>2, <2>4
  <2>7. sum[A \ {FirstOf(A)}] \in Int
    BY <2>6
  <2> QED
    BY <2>4, <2>5, <2>7
<1> QED
  BY <1>1, <1>4

-----------------------------------------------------------------------------
(* How far two clusters are apart does not depend on which comes first.    *)

LEMMA DifferenceIsSymmetric ==
  ASSUME NEW a, NEW b, a.num \in Int, a.den \in Int, b.num \in Int, b.den \in Int
  PROVE  Difference(a, b) = Difference(b, a)
<1>1. Abs(a.num * b.den - b.num * a.den) = Abs(b.num * a.den - a.num * b.den)
  <2>1. \A x, y \in Int : Abs(x - y) = Abs(y - x)
    BY DEF Abs
  <2>2. a.num * b.den \in Int /\ b.num * a.den \in Int
    OBVIOUS
  <2> QED
    BY <2>1, <2>2
<1>2. a.den * b.den = b.den * a.den
  OBVIOUS
<1> QED
  BY <1>1, <1>2 DEF Difference

LEMMA MeansAreFractions ==
  ASSUME NEW S, IsFiniteSet(S), S \subseteq Line
  PROVE  /\ MeanAngle(S).num \in Int /\ MeanAngle(S).den \in Int
         /\ Centroid(S).num \in Int /\ Centroid(S).den \in Int
<1>1. \A l \in S : l.angle \in Int /\ l.sqlength \in Int /\ l.offset \in Int
  BY LineAssumption
<1>2. \A l \in S : l.angle * l.sqlength \in Int
  BY <1>1
<1>3. /\ SumOver([l \in S |-> l.angle * l.sqlength]) \in Int
      /\ SumOver([l \in S |-> l.sqlength]) \in Int
      /\ SumOver([l \in S |-> l.offset]) \in Int
  <2>1. /\ [l \in S |-> l.angle * l.sqlength] \in [S -> Int]
        /\ [l \in S |-> l.sqlength] \in [S -> Int]
        /\ [l \in S |-> l.offset] \in [S -> Int]
    BY <1>1, <1>2
  <2> QED
    BY <2>1, SumIsInteger
<1>4. Cardinality(S) \in Int
  BY FS_CardinalityType
<1> QED
  BY <1>3, <1>4 DEF MeanAngle, Centroid

LEMMA DistanceIsSymmetric ==
  ASSUME NEW kind, NEW A, IsFiniteSet(A), A \subseteq Line, NEW B, IsFiniteSet(B), B \subseteq Line
  PROVE  Distance(kind, A, B) = Distance(kind, B, A)
<1>1. AngleDistance(A, B) = AngleDistance(B, A)
  BY MeansAreFractions, DifferenceIsSymmetric DEF AngleDistance
<1>2. Difference(Centroid(A), Centroid(B)) = Difference(Centroid(B), Centroid(A))
  BY MeansAreFractions, DifferenceIsSymmetric
<1>3. Gap(A, B) = Gap(B, A)
  <2>1. {0, From(B) - To(A), From(A) - To(B)} = {0, From(A) - To(B), From(B) - To(A)}
    OBVIOUS
  <2> QED
    BY <2>1 DEF Gap
<1>4. DistDistance(A, B) = DistDistance(B, A)
  BY <1>2, <1>3 DEF DistDistance
<1> QED
  BY <1>1, <1>4 DEF Distance

-----------------------------------------------------------------------------
(* Sets of lines as they are clustered. *)
Clusterable(S) == S \subseteq Line /\ IsFiniteSet(S)
TooClose(kind, A, B) == IsBelow(Distance(kind, A, B), Threshold(kind))

(* When no pair of the heap is close enough, no two clusters are. *)
LEMMA MadeAreApart ==
  ASSUME TableIsCurrent, NothingToMerge, \A c \in clusters : Clusterable(cluster_lines[c])
  PROVE  \A A, B \in Made : A # B => ~TooClose(phase, A, B)
<1> SUFFICES ASSUME NEW c \in clusters, NEW d \in clusters, c # d
             PROVE  ~TooClose(phase, cluster_lines[c], cluster_lines[d])
  BY DEF Made
<1> DEFINE p == {c, d}
           first == CHOOSE a \in p : TRUE
           second == CHOOSE b \in p : b # first
<1>1. p \in Pairs(clusters)
  BY DEF Pairs
<1>2. p \in DOMAIN distances /\ distances[p] = DistanceOf(phase, cluster_lines, p)
  BY <1>1 DEF TableIsCurrent
<1>3. ~IsBelow(DistanceOf(phase, cluster_lines, p), Threshold(phase))
  BY <1>2 DEF NothingToMerge
<1>4. DistanceOf(phase, cluster_lines, p) = Distance(phase, cluster_lines[first], cluster_lines[second])
  BY DEF DistanceOf
<1>5. first \in p
  OBVIOUS
<1> HIDE DEF first
<1>6. second \in p /\ second # first
  <2>1. \E b \in p : b # first
    BY <1>5
  <2> QED
    BY <2>1
<1> HIDE DEF second
<1>7. (first = c /\ second = d) \/ (first = d /\ second = c)
  BY <1>5, <1>6
<1>8. Distance(phase, cluster_lines[c], cluster_lines[d]) = Distance(phase, cluster_lines[d], cluster_lines[c])
  BY DistanceIsSymmetric DEF Clusterable
<1> QED
  BY <1>3, <1>4, <1>7, <1>8 DEF TooClose

-----------------------------------------------------------------------------
(* Clusters of lines are within one of directions; the one that is being    *)
(* divided has none yet that is done.                                      *)
LinesInv ==
  /\ phase \in {"waiting", "angle", "dist", "done"}
  /\ \A c \in clusters : Clusterable(cluster_lines[c])
  /\ \A G \in angle_clusters : Clusterable(G)

DivisionInv ==
  phase \in {"dist", "done"} =>
    /\ Disjoint(angle_clusters)
    /\ todo \subseteq angle_clusters
    /\ \A A, B \in angle_clusters : A # B => ~TooClose("angle", A, B)
    /\ \A D \in dist_clusters : \E G \in angle_clusters \ todo : D \subseteq G
    /\ Made = {} \/ \E G \in angle_clusters \ todo :
                       /\ \A D \in Made : D \subseteq G
                       /\ \A D \in dist_clusters : D \cap G = {}
    /\ \A G \in angle_clusters : \A A, B \in {D \in dist_clusters : D \subseteq G} :
         A # B => ~TooClose("dist", A, B)

LEMMA LinesInvKept ==
  ASSUME LinesInv, DivisionInv, TableIsCurrent, [Next]_vars
  PROVE  LinesInv'
<1>1. ASSUME NEW S, NEW kind, MakeTable(kind, S), Clusterable(S)
      PROVE  \A c \in clusters' : Clusterable(cluster_lines'[c])
  <2>1. clusters' = S /\ \A c \in S : cluster_lines'[c] = {c}
    BY <1>1 DEF MakeTable
  <2>2. \A c \in S : Clusterable({c})
    BY <1>1, FS_Singleton DEF Clusterable
  <2> QED
    BY <2>1, <2>2
<1>2. ASSUME NEW L \in InputLines, Compute(L)
      PROVE  LinesInv'
  <2>1. Clusterable(L) /\ MakeTable("angle", L) /\ phase' = "angle" /\ angle_clusters' = angle_clusters
    BY <1>2, LineAssumption DEF Compute, Clusterable
  <2> QED
    BY <2>1, <1>1 DEF LinesInv
<1>3. ASSUME MergeClosest
      PROVE  LinesInv'
  <2>1. /\ phase' = phase /\ angle_clusters' = angle_clusters
        /\ \E p \in DOMAIN distances : \E lhs, rhs \in p : lhs # rhs /\ Merge(phase, lhs, rhs)
    BY <1>3 DEF MergeClosest
  <2>p. PICK p \in DOMAIN distances : \E lhs, rhs \in p : lhs # rhs /\ Merge(phase, lhs, rhs)
    BY <2>1
  <2>2. PICK lhs \in p, rhs \in p : lhs # rhs /\ Merge(phase, lhs, rhs)
    BY <2>p
  <2>3. lhs \in clusters /\ rhs \in clusters
    BY DEF TableIsCurrent, Pairs
  <2>4. /\ clusters' = clusters \ {rhs}
        /\ \A c \in clusters' : cluster_lines'[c] = IF c = lhs THEN cluster_lines[lhs] \cup cluster_lines[rhs]
                                                    ELSE cluster_lines[c]
    BY <2>2 DEF Merge
  <2>5. Clusterable(cluster_lines[lhs] \cup cluster_lines[rhs])
    BY <2>3, FS_Union DEF LinesInv, Clusterable
  <2> QED
    BY <2>1, <2>4, <2>5 DEF LinesInv
<1>4. ASSUME EndAngles
      PROVE  LinesInv'
  <2>1. angle_clusters' = Made /\ phase' = "dist" /\ MakeTable("dist", {})
    BY <1>4 DEF EndAngles
  <2>2. clusters' = {}
    BY <2>1 DEF MakeTable
  <2> QED
    BY <2>1, <2>2 DEF LinesInv, Made
<1>5. ASSUME NextAngleCluster
      PROVE  LinesInv'
  <2>1. /\ phase = "dist" /\ phase' = phase /\ angle_clusters' = angle_clusters
        /\ \E next \in todo : MakeTable("dist", next)
    BY <1>5 DEF NextAngleCluster
  <2>2. PICK next \in todo : MakeTable("dist", next)
    BY <2>1
  <2>3. Clusterable(next)
    BY <2>1 DEF LinesInv, DivisionInv
  <2> QED
    BY <2>1, <2>2, <2>3, <1>1 DEF LinesInv
<1>6. ASSUME Regularise
      PROVE  LinesInv'
  <2>1. phase' = "done" /\ angle_clusters' = angle_clusters /\ MakeTable("done", {})
    BY <1>6 DEF Regularise
  <2>2. clusters' = {}
    BY <2>1 DEF MakeTable
  <2> QED
    BY <2>1, <2>2 DEF LinesInv
<1>7. ASSUME UNCHANGED vars
      PROVE  LinesInv'
  BY <1>7 DEF vars, table, LinesInv
<1> QED
  BY <1>2, <1>3, <1>4, <1>5, <1>6, <1>7 DEF Next

(* What was divided goes to what is done: clusters of another angle cluster *)
(* are not within this one, and those of this one are apart.               *)
LEMMA DividedAreApart ==
  ASSUME LinesInv, PartsInv, DivisionInv, TableIsCurrent, NothingToMerge, phase = "dist"
  PROVE  /\ \A D \in dist_clusters \cup Made : \E G \in angle_clusters \ todo : D \subseteq G
         /\ \A G \in angle_clusters : \A A, B \in {D \in dist_clusters \cup Made : D \subseteq G} :
              A # B => ~TooClose("dist", A, B)
<1>1. \A A, B \in Made : A # B => ~TooClose("dist", A, B)
  BY MadeAreApart DEF LinesInv
<1>2. /\ Disjoint(angle_clusters)
      /\ \A D \in dist_clusters : \E G \in angle_clusters \ todo : D \subseteq G
      /\ Made = {} \/ \E G \in angle_clusters \ todo :
                         /\ \A D \in Made : D \subseteq G
                         /\ \A D \in dist_clusters : D \cap G = {}
      /\ \A G \in angle_clusters : \A A, B \in {D \in dist_clusters : D \subseteq G} :
           A # B => ~TooClose("dist", A, B)
  BY DEF DivisionInv
<1>3. {} \notin Made /\ {} \notin dist_clusters
  BY DEF PartsInv, Parts
<1>4. CASE Made = {}
  BY <1>2, <1>4
<1>5. CASE Made # {}
  <2>1. PICK H \in angle_clusters \ todo :
          /\ \A D \in Made : D \subseteq H
          /\ \A D \in dist_clusters : D \cap H = {}
    BY <1>2, <1>5
  <2>2. ASSUME NEW G \in angle_clusters, NEW D \in Made, D \subseteq G
        PROVE  G = H
    <3>1. PICK l \in D : TRUE
      BY <1>3
    <3>2. l \in G \cap H
      BY <2>1, <2>2, <3>1
    <3> QED
      BY <3>2, <1>2 DEF Disjoint
  <2>3. ASSUME NEW D \in dist_clusters
        PROVE  ~(D \subseteq H)
    BY <2>1, <1>3
  <2>4. ASSUME NEW G \in angle_clusters, NEW A \in dist_clusters \cup Made, NEW B \in dist_clusters \cup Made,
               A \subseteq G, B \subseteq G, A # B
        PROVE  ~TooClose("dist", A, B)
    <3>1. CASE G = H
      BY <3>1, <2>3, <2>4, <1>1
    <3>2. CASE G # H
      BY <3>2, <2>2, <2>4, <1>2
    <3> QED
      BY <3>1, <3>2
  <2> QED
    BY <2>1, <2>4, <1>2
<1> QED
  BY <1>4, <1>5

LEMMA DivisionKept ==
  ASSUME LinesInv, PartsInv, DivisionInv, TableIsCurrent, [Next]_vars
  PROVE  DivisionInv'
<1>2. ASSUME NEW L \in InputLines, Compute(L)
      PROVE  DivisionInv'
  BY <1>2 DEF Compute, DivisionInv
<1>3. ASSUME MergeClosest
      PROVE  DivisionInv'
  <2>1. /\ UNCHANGED <<phase, angle_clusters, todo, dist_clusters>>
        /\ \E p \in DOMAIN distances : \E lhs, rhs \in p : lhs # rhs /\ Merge(phase, lhs, rhs)
    BY <1>3 DEF MergeClosest
  <2>p. PICK p \in DOMAIN distances : \E lhs, rhs \in p : lhs # rhs /\ Merge(phase, lhs, rhs)
    BY <2>1
  <2>2. PICK lhs \in p, rhs \in p : lhs # rhs /\ Merge(phase, lhs, rhs)
    BY <2>p
  <2>3. lhs \in clusters /\ rhs \in clusters
    BY DEF TableIsCurrent, Pairs
  <2>4. /\ clusters' = clusters \ {rhs}
        /\ \A c \in clusters' : cluster_lines'[c] = IF c = lhs THEN cluster_lines[lhs] \cup cluster_lines[rhs]
                                                    ELSE cluster_lines[c]
    BY <2>2 DEF Merge
  <2>5. ASSUME NEW G, \A D \in Made : D \subseteq G
        PROVE  \A D \in Made' : D \subseteq G
    <3>1. \A c \in clusters : cluster_lines[c] \subseteq G
      BY <2>5 DEF Made
    <3>2. \A c \in clusters' : cluster_lines'[c] \subseteq G
      BY <3>1, <2>3, <2>4
    <3> QED
      BY <3>2 DEF Made
  <2>6. Made # {}
    BY <2>3 DEF Made
  <2> QED
    BY <2>1, <2>5, <2>6 DEF DivisionInv, TooClose
<1>4. ASSUME EndAngles
      PROVE  DivisionInv'
  <2>1. /\ phase = "angle" /\ NothingToMerge /\ angle_clusters' = Made /\ todo' = Made /\ phase' = "dist"
        /\ MakeTable("dist", {}) /\ dist_clusters' = dist_clusters
    BY <1>4 DEF EndAngles
  <2>2. dist_clusters = {} /\ Made' = {}
    BY <2>1, NewTableParts DEF PartsInv
  <2>3. \A A, B \in Made : A # B => ~TooClose("angle", A, B)
    BY <2>1, MadeAreApart DEF LinesInv
  <2>4. Disjoint(Made)
    BY DEF PartsInv, Parts, Disjoint
  <2> QED
    BY <2>1, <2>2, <2>3, <2>4 DEF DivisionInv, Disjoint, TooClose
<1>5. ASSUME NextAngleCluster
      PROVE  DivisionInv'
  <2>1. /\ phase = "dist" /\ NothingToMerge /\ dist_clusters' = dist_clusters \cup Made
        /\ UNCHANGED <<phase, angle_clusters>>
        /\ \E next \in todo : todo' = todo \ {next} /\ MakeTable("dist", next)
    BY <1>5 DEF NextAngleCluster
  <2>2. PICK next \in todo : todo' = todo \ {next} /\ MakeTable("dist", next)
    BY <2>1
  <2>3. Made' = {{l} : l \in next}
    BY <2>2, NewTableParts
  <2>4. /\ \A D \in dist_clusters' : \E G \in angle_clusters \ todo : D \subseteq G
        /\ \A G \in angle_clusters : \A A, B \in {D \in dist_clusters' : D \subseteq G} :
             A # B => ~TooClose("dist", A, B)
    BY <2>1, DividedAreApart
  <2>5. /\ Disjoint(angle_clusters) /\ todo \subseteq angle_clusters
        /\ \A A, B \in angle_clusters : A # B => ~TooClose("angle", A, B)
    BY <2>1 DEF DivisionInv
  <2>6. next \in angle_clusters' \ todo' /\ \A D \in Made' : D \subseteq next
    BY <2>1, <2>2, <2>3, <2>5
  <2>7. \A D \in dist_clusters' : D \cap next = {}
    BY <2>2, <2>4, <2>5 DEF Disjoint
  <2>8. \A D \in dist_clusters' : \E G \in angle_clusters' \ todo' : D \subseteq G
    BY <2>1, <2>2, <2>4
  <2> QED
    BY <2>1, <2>2, <2>4, <2>5, <2>6, <2>7, <2>8 DEF DivisionInv, Disjoint, TooClose
<1>6. ASSUME Regularise
      PROVE  DivisionInv'
  <2>1. /\ phase = "dist" /\ NothingToMerge /\ dist_clusters' = dist_clusters \cup Made /\ phase' = "done"
        /\ UNCHANGED <<angle_clusters, todo>> /\ MakeTable("done", {})
    BY <1>6 DEF Regularise
  <2>2. Made' = {}
    BY <2>1, NewTableParts
  <2>3. /\ \A D \in dist_clusters' : \E G \in angle_clusters \ todo : D \subseteq G
        /\ \A G \in angle_clusters : \A A, B \in {D \in dist_clusters' : D \subseteq G} :
             A # B => ~TooClose("dist", A, B)
    BY <2>1, DividedAreApart
  <2>4. /\ Disjoint(angle_clusters) /\ todo \subseteq angle_clusters
        /\ \A A, B \in angle_clusters : A # B => ~TooClose("angle", A, B)
    BY <2>1 DEF DivisionInv
  <2> QED
    BY <2>1, <2>2, <2>3, <2>4 DEF DivisionInv, Disjoint, TooClose
<1>7. ASSUME UNCHANGED vars
      PROVE  DivisionInv'
  BY <1>7 DEF vars, table, DivisionInv, Made, Disjoint, TooClose
<1> QED
  BY <1>2, <1>3, <1>4, <1>5, <1>6, <1>7 DEF Next

(* In the end no two clusters of directions, and no two clusters of lines   *)
(* within one of them, are closer than the threshold, however clusters     *)
(* moved when they grew.                                                   *)
THEOREM ClustersEndApart == Spec => []ClustersAreApart
<1>1. Init => LinesInv /\ DivisionInv
  BY DEF Init, LinesInv, DivisionInv
<1>2. LinesInv /\ PartsInv /\ DivisionInv /\ TableIsCurrent /\ [Next]_vars => LinesInv' /\ DivisionInv'
  BY LinesInvKept, DivisionKept
<1>3. DivisionInv => ClustersAreApart
  <2> SUFFICES ASSUME DivisionInv, phase = "done" PROVE ClustersAreApart
    BY DEF ClustersAreApart
  <2>1. \A A, B : TooClose("angle", A, B) <=> IsBelow(AngleDistance(A, B), angle_threshold)
    BY DEF TooClose, Distance, Threshold
  <2>2. \A A, B : TooClose("dist", A, B) <=> IsBelow(DistDistance(A, B), dist_threshold)
    BY DEF TooClose, Distance, Threshold
  <2> QED
    BY <2>1, <2>2 DEF DivisionInv, ClustersAreApart
<1> QED
  BY <1>1, <1>2, <1>3, PartsArePartition, HeapStaysCurrent, PTL DEF Spec

-----------------------------------------------------------------------------
(* Steps along a ring. *)

(* What holds of the first of n steps, and of each when it holds of the one *)
(* before, holds of the last.                                              *)
LEMMA StepsStay ==
  ASSUME NEW n \in Nat, NEW h, NEW P, h[0] \in P[0],
         \A i \in 1 .. n : h[i - 1] \in P[i - 1] => h[i] \in P[i]
  PROVE  h[n] \in P[n]
<1> SUFFICES ASSUME h[n] \notin P[n] PROVE FALSE
  OBVIOUS
<1> DEFINE T == {i \in 0 .. n : h[i] \notin P[i]}
<1>1. T \subseteq Nat /\ T # {}
  OBVIOUS
<1>2. PICK m \in T : \A i \in T : m <= i
  <2> HIDE DEF T
  <2> QED
    BY <1>1, LeastNumber
<1>3. m # 0 /\ m \in 1 .. n /\ m - 1 \in 0 .. n
  OBVIOUS
<1>4. h[m - 1] \in P[m - 1]
  BY <1>2, <1>3
<1> QED
  BY <1>3, <1>4

(* Steps that stay in a set can be taken one after the other. *)
LEMMA StepsExist ==
  ASSUME NEW X, NEW base \in X, NEW n \in Nat, NEW step \in [1 .. n -> [X -> X]]
  PROVE  \E g \in [0 .. n -> X] : g[0] = base /\ \A i \in 1 .. n : g[i] = step[i][g[i - 1]]
<1> DEFINE Taken(m) == {g \in [0 .. m -> X] :
                          g[0] = base /\ \A i \in 1 .. m : g[i] = step[i][g[i - 1]]}
<1> DEFINE T == {m \in 0 .. n : Taken(m) = {}}
<1>1. CASE T = {}
  <2>1. n \notin T /\ n \in 0 .. n
    BY <1>1
  <2> QED
    BY <2>1
<1>2. CASE T # {}
  <2>1. PICK m \in T : \A i \in T : m <= i
    <3>1. T \subseteq Nat
      OBVIOUS
    <3> HIDE DEF T
    <3> QED
      BY <3>1, <1>2, LeastNumber
  <2>2. m # 0
    <3>1. [i \in 0 .. 0 |-> base] \in Taken(0)
      OBVIOUS
    <3> QED
      BY <3>1
  <2>3. m \in 1 .. n /\ m - 1 \in 0 .. n
    BY <2>2
  <2>4. m - 1 \notin T
    <3> HIDE DEF T
    <3> QED
      BY <2>1, <2>3
  <2>5. PICK g \in [0 .. m - 1 -> X] : g[0] = base /\ \A i \in 1 .. m - 1 : g[i] = step[i][g[i - 1]]
    BY <2>3, <2>4
  <2> DEFINE next == [i \in 0 .. m |-> IF i = m THEN step[m][g[m - 1]] ELSE g[i]]
  <2>6. step[m][g[m - 1]] \in X
    BY <2>3
  <2>7. next \in [0 .. m -> X] /\ next[0] = base
    BY <2>3, <2>5, <2>6
  <2>8. \A i \in 1 .. m : next[i] = step[i][next[i - 1]]
    <3> TAKE i \in 1 .. m
    <3>1. CASE i = m
      BY <2>3, <3>1
    <3>2. CASE i # m
      BY <2>3, <2>5, <3>2
    <3> QED
      BY <3>1, <3>2
  <2>9. next \in Taken(m)
    BY <2>7, <2>8
  <2> QED
    BY <2>9
<1> QED
  BY <1>1, <1>2

-----------------------------------------------------------------------------
(***************************************************************************)
(* LineDetector: regions on a ring do not overlap.                         *)
(***************************************************************************)
IsRing ==
  /\ ringsize \in Nat \ {0}
  /\ segment_shapes \subseteq SUBSET points
  /\ unsegmented \notin segment_shapes
  /\ \A r, q \in segment_shapes : r # q => r \cap q = {}

(* The points in the order of the ring. *)
LEMMA RingOrder ==
  ASSUME ringsize \in Nat \ {0}, NEW i \in points
  PROVE  /\ Before(i) = IF i = 0 THEN ringsize - 1 ELSE i - 1
         /\ After(i) = IF i = ringsize - 1 THEN 0 ELSE i + 1
         /\ Before(i) \in points /\ After(i) \in points
<1> USE DEF points
<1>1. \A n \in Nat \ {0} : \A k \in 0 .. n - 1 : k % n = k
  OBVIOUS
<1>2. \A n \in Nat \ {0} : \A k \in Int : k = -1 => k % n = n - 1
  OBVIOUS
<1>3. \A n \in Nat \ {0} : \A k \in Nat : k = n => k % n = 0
  OBVIOUS
<1>4. Before(i) = IF i = 0 THEN ringsize - 1 ELSE i - 1
  <2>1. CASE i = 0
    <3>1. i - 1 \in Int /\ i - 1 = -1
      BY <2>1
    <3> QED
      BY <2>1, <3>1, <1>2 DEF Before
  <2>2. CASE i # 0
    BY <2>2, <1>1 DEF Before
  <2> QED
    BY <2>1, <2>2
<1>5. After(i) = IF i = ringsize - 1 THEN 0 ELSE i + 1
  <2>1. CASE i = ringsize - 1
    <3>1. i + 1 \in Nat /\ i + 1 = ringsize
      BY <2>1
    <3> QED
      BY <2>1, <3>1, <1>3 DEF After
  <2>2. CASE i # ringsize - 1
    BY <2>2, <1>1 DEF After
  <2> QED
    BY <2>1, <2>2
<1> QED
  BY <1>4, <1>5

(* A point is in one region or in none. *)
LEMMA RegionOfPoint ==
  ASSUME IsRing, NEW i
  PROVE  /\ \A r \in segment_shapes : i \in r <=> point_segment_idx(i) = r
         /\ point_segment_idx(i) \in segment_shapes \cup {unsegmented}
         /\ point_segment_idx(i) # unsegmented => i \in point_segment_idx(i)
<1> USE DEF IsRing, unsegmented
<1>1. CASE \E r \in segment_shapes : i \in r
  <2>1. PICK r \in segment_shapes : i \in r
    BY <1>1
  <2>2. {q \in segment_shapes : i \in q} = {r}
    BY <2>1
  <2>3. point_segment_idx(i) = r
    BY <2>2 DEF point_segment_idx
  <2> QED
    BY <2>1, <2>3
<1>2. CASE ~ \E r \in segment_shapes : i \in r
  <2>1. {q \in segment_shapes : i \in q} = {}
    BY <1>2
  <2>2. point_segment_idx(i) = {}
    BY <2>1 DEF point_segment_idx
  <2> QED
    BY <1>2, <2>2
<1> QED
  BY <1>1, <1>2

(* Between a point outside of a region and one behind it inside, the region begins. *)
LEMMA RegionBegins ==
  ASSUME NEW r, NEW a \in Nat, NEW b \in Nat, a < b, a \notin r, b \in r
  PROVE  \E i \in a + 1 .. b : i \in r /\ i - 1 \notin r
<1> DEFINE T == {i \in a + 1 .. b : i \in r}
<1>1. T \subseteq Nat /\ b \in T
  OBVIOUS
<1>2. PICK i \in T : \A j \in T : i <= j
  <2> HIDE DEF T
  <2> QED
    BY <1>1, LeastNumber
<1>3. i - 1 \notin r
  <2>1. CASE i = a + 1
    BY <2>1
  <2>2. CASE i # a + 1
    BY <2>2, <1>2
  <2> QED
    BY <2>1, <2>2
<1> QED
  BY <1>2, <1>3

(* A region that is not the whole ring begins somewhere. *)
LEMMA RegionHasBegin ==
  ASSUME IsRing, NEW r \in segment_shapes, NEW a \in points, a \notin r
  PROVE  \E i \in points : i \in r /\ Before(i) \notin r
<1>1. PICK b \in r : b \in points
  <2>1. r # {} /\ r \subseteq points
    BY DEF IsRing, unsegmented
  <2> QED
    BY <2>1
<1>2. a \in Nat /\ b \in Nat /\ ringsize \in Nat /\ a < ringsize /\ b < ringsize
  BY <1>1 DEF points, IsRing
<1>3. CASE 0 \in r
  <2>1. CASE ringsize - 1 \notin r
    BY <2>1, <1>2, <1>3, RingOrder DEF points, IsRing
  <2>2. CASE ringsize - 1 \in r
    <3>1. a < ringsize - 1 /\ ringsize - 1 \in Nat
      BY <2>2, <1>2
    <3>2. PICK i \in a + 1 .. ringsize - 1 : i \in r /\ i - 1 \notin r
      BY <1>2, <3>1, <2>2, RegionBegins
    <3>3. i \in points /\ i # 0
      BY <3>2, <1>2 DEF points
    <3> QED
      BY <3>2, <3>3, RingOrder DEF IsRing
  <2> QED
    BY <2>1, <2>2
<1>4. CASE 0 \notin r
  <2>1. 0 < b
    BY <1>1, <1>2, <1>4
  <2>2. PICK i \in 0 + 1 .. b : i \in r /\ i - 1 \notin r
    BY <1>1, <1>2, <1>4, <2>1, RegionBegins
  <2>3. i \in points /\ i # 0
    BY <2>2, <1>2 DEF points
  <2> QED
    BY <2>2, <2>3, RingOrder DEF IsRing
<1> QED
  BY <1>3, <1>4

(***************************************************************************)
(* The places where regions begin and end take turns.                      *)
(***************************************************************************)
Places == points \X segment_shapes
Opens(e) == e[1] \in e[2] /\ Before(e[1]) \notin e[2]
Closes(e) == e[1] \in e[2] /\ After(e[1]) \notin e[2]

(* A list begins with the end of the region of the last point, if there is one. *)
Shift == IF point_segment_idx(ringsize - 1) = unsegmented THEN 0 ELSE 1

(* A list of places that ends within a region, or within none.             *)
Alternates(ids, region) ==
  /\ ids \in Seq(Places)
  /\ \A k \in 1 .. Len(ids) : IF (k + Shift) % 2 = 1 THEN Opens(ids[k]) ELSE Closes(ids[k])
  /\ \A k \in 1 .. Len(ids) - 1 : (k + Shift) % 2 = 1 => ids[k][2] = ids[k + 1][2]
  /\ region # unsegmented <=> (Len(ids) + Shift) % 2 = 1
  /\ region # unsegmented =>
       IF ids = <<>> THEN region = point_segment_idx(ringsize - 1) ELSE region = ids[Len(ids)][2]
  /\ Shift = 1 /\ ids # <<>> => ids[1][2] = point_segment_idx(ringsize - 1)

LEMMA OpenNext ==
  ASSUME NEW ids, Alternates(ids, unsegmented), NEW e \in Places, Opens(e), e[2] # unsegmented
  PROVE  Alternates(Append(ids, e), e[2])
<1> DEFINE new == Append(ids, e)
           n == Len(ids)
<1>1. /\ ids \in Seq(Places) /\ n \in Nat
      /\ new \in Seq(Places) /\ Len(new) = n + 1 /\ new # <<>>
      /\ \A k \in 1 .. n : new[k] = ids[k]
      /\ new[n + 1] = e
      /\ ids = <<>> <=> n = 0
  BY AppendProperties, LenProperties, EmptySeq DEF Alternates
<1>2. Shift \in {0, 1}
  BY DEF Shift
<1>3. (n + Shift) % 2 = 0
  BY <1>1, <1>2 DEF Alternates
<1>4. (n + 1 + Shift) % 2 = 1
  BY <1>1, <1>2, <1>3
<1>5. n # 0 \/ Shift = 0
  BY <1>2, <1>3
<1> HIDE DEF new, n
<1>6. \A k \in 1 .. Len(new) : IF (k + Shift) % 2 = 1 THEN Opens(new[k]) ELSE Closes(new[k])
  <2> TAKE k \in 1 .. Len(new)
  <2>1. CASE k = n + 1
    BY <2>1, <1>1, <1>4
  <2>2. CASE k \in 1 .. n
    BY <2>2, <1>1 DEF Alternates, n
  <2> QED
    BY <2>1, <2>2, <1>1
<1>7. \A k \in 1 .. Len(new) - 1 : (k + Shift) % 2 = 1 => new[k][2] = new[k + 1][2]
  <2> TAKE k \in 1 .. Len(new) - 1
  <2>1. CASE k = n
    BY <2>1, <1>3
  <2>2. CASE k \in 1 .. n - 1
    <3>1. k \in 1 .. n /\ k + 1 \in 1 .. n
      BY <2>2, <1>1
    <3>2. new[k] = ids[k] /\ new[k + 1] = ids[k + 1]
      BY <3>1, <1>1
    <3> QED
      BY <2>2, <3>2 DEF Alternates, n
  <2> QED
    BY <2>1, <2>2, <1>1
<1>8. Shift = 1 => new[1][2] = point_segment_idx(ringsize - 1)
  BY <1>1, <1>5 DEF Alternates
<1> QED
  BY <1>1, <1>4, <1>6, <1>7, <1>8 DEF Alternates, new

LEMMA CloseNext ==
  ASSUME NEW ids, NEW e \in Places, e[2] # unsegmented, Alternates(ids, e[2]), Closes(e)
  PROVE  Alternates(Append(ids, e), unsegmented)
<1> DEFINE new == Append(ids, e)
           n == Len(ids)
<1>1. /\ ids \in Seq(Places) /\ n \in Nat
      /\ new \in Seq(Places) /\ Len(new) = n + 1 /\ new # <<>>
      /\ \A k \in 1 .. n : new[k] = ids[k]
      /\ new[n + 1] = e
      /\ ids = <<>> <=> n = 0
  BY AppendProperties, LenProperties, EmptySeq DEF Alternates
<1>2. Shift \in {0, 1}
  BY DEF Shift
<1>3. (n + Shift) % 2 = 1
  BY <1>1, <1>2 DEF Alternates
<1>4. (n + 1 + Shift) % 2 = 0
  BY <1>1, <1>2, <1>3
<1>5. IF n = 0 THEN e[2] = point_segment_idx(ringsize - 1) ELSE e[2] = ids[n][2]
  BY <1>1 DEF Alternates
<1> HIDE DEF new, n
<1>6. \A k \in 1 .. Len(new) : IF (k + Shift) % 2 = 1 THEN Opens(new[k]) ELSE Closes(new[k])
  <2> TAKE k \in 1 .. Len(new)
  <2>1. CASE k = n + 1
    BY <2>1, <1>1, <1>4
  <2>2. CASE k \in 1 .. n
    BY <2>2, <1>1 DEF Alternates, n
  <2> QED
    BY <2>1, <2>2, <1>1
<1>7. \A k \in 1 .. Len(new) - 1 : (k + Shift) % 2 = 1 => new[k][2] = new[k + 1][2]
  <2> TAKE k \in 1 .. Len(new) - 1
  <2>1. CASE k = n
    <3>1. new[k] = ids[n] /\ new[k + 1] = e
      BY <2>1, <1>1
    <3> QED
      BY <2>1, <3>1, <1>5, <1>1
  <2>2. CASE k \in 1 .. n - 1
    <3>1. k \in 1 .. n /\ k + 1 \in 1 .. n
      BY <2>2, <1>1
    <3>2. new[k] = ids[k] /\ new[k + 1] = ids[k + 1]
      BY <3>1, <1>1
    <3> QED
      BY <2>2, <3>2 DEF Alternates, n
  <2> QED
    BY <2>1, <2>2, <1>1
<1>8. Shift = 1 => new[1][2] = point_segment_idx(ringsize - 1)
  <2>1. CASE n = 0
    BY <2>1, <1>1, <1>5
  <2>2. CASE n # 0
    BY <2>2, <1>1 DEF Alternates
  <2> QED
    BY <2>1, <2>2
<1>9. (Len(new) + Shift) % 2 # 1
  BY <1>1, <1>4, <1>2
<1>10. Alternates(new, unsegmented)
  BY <1>1, <1>6, <1>7, <1>8, <1>9 DEF Alternates
<1> QED
  BY <1>10 DEF new

(* What one point adds to the list. *)
LEMMA OneOrNone ==
  ASSUME NEW S, NEW x, NEW there \in BOOLEAN, there => x \in S
  PROVE  LET s == IF there THEN <<x>> ELSE <<>>
         IN s \in Seq(S) /\ Len(s) = IF there THEN 1 ELSE 0
<1>1. CASE there
  BY <1>1
<1>2. CASE ~there
  BY <1>2, EmptySeq
<1> QED
  BY <1>1, <1>2

LEMMA BoundaryIsOfPlaces ==
  ASSUME IsRing, NEW i \in points
  PROVE  LET cur == point_segment_idx(i)
             prev == point_segment_idx(Before(i))
             last == IF prev # unsegmented THEN <<<<Before(i), prev>>>> ELSE <<>>
             first == IF cur # unsegmented THEN <<<<i, cur>>>> ELSE <<>>
         IN /\ last \in Seq(Places) /\ first \in Seq(Places)
            /\ Boundary(i) \in Seq(Places)
            /\ cur # prev /\ cur # unsegmented =>
                 Len(Boundary(i)) \in Nat \ {0} /\ Boundary(i)[Len(Boundary(i))] = <<i, cur>>
<1> DEFINE cur == point_segment_idx(i)
           prev == point_segment_idx(Before(i))
           e == <<Before(i), prev>>
           f == <<i, cur>>
           last == IF prev # unsegmented THEN <<e>> ELSE <<>>
           first == IF cur # unsegmented THEN <<f>> ELSE <<>>
<1>1. /\ Before(i) \in points
      /\ cur \in segment_shapes \cup {unsegmented} /\ prev \in segment_shapes \cup {unsegmented}
  BY RegionOfPoint, RingOrder DEF IsRing
<1>2. (prev # unsegmented => e \in Places) /\ (cur # unsegmented => f \in Places)
  BY <1>1 DEF Places
<1>3. Boundary(i) = IF cur = prev THEN <<>> ELSE last \o first
  BY DEF Boundary
<1> HIDE DEF e, f, cur, prev
<1>4. /\ last \in Seq(Places) /\ first \in Seq(Places)
      /\ Len(first) = IF cur # unsegmented THEN 1 ELSE 0
  BY <1>2, OneOrNone
<1>5. cur # unsegmented => first[1] = f
  OBVIOUS
<1> HIDE DEF last, first
<1>6. last \o first \in Seq(Places) /\ Len(last \o first) = Len(last) + Len(first)
      /\ \A k \in 1 .. Len(last) + Len(first) :
           (last \o first)[k] = IF k <= Len(last) THEN last[k] ELSE first[k - Len(last)]
  BY <1>4, ConcatProperties
<1>7. Len(last) \in Nat
  BY <1>4, LenProperties
<1>8. Boundary(i) \in Seq(Places)
  BY <1>3, <1>6, EmptySeq
<1>9. ASSUME cur # prev, cur # unsegmented
      PROVE  Len(Boundary(i)) \in Nat \ {0} /\ Boundary(i)[Len(Boundary(i))] = f
  <2>1. Boundary(i) = last \o first /\ Len(first) = 1
    BY <1>3, <1>4, <1>9
  <2>2. Len(Boundary(i)) = Len(last) + 1
    BY <1>6, <2>1
  <2>3. (last \o first)[Len(last) + 1] = first[1]
    BY <1>6, <1>7, <2>1
  <2> QED
    BY <1>5, <1>7, <1>9, <2>1, <2>2, <2>3
<1> QED
  BY <1>4, <1>8, <1>9 DEF last, first, e, f, cur, prev

LEMMA BoundaryKeeps ==
  ASSUME IsRing, NEW i \in points, NEW ids, Alternates(ids, point_segment_idx(Before(i)))
  PROVE  Alternates(ids \o Boundary(i), point_segment_idx(i))
<1> DEFINE cur == point_segment_idx(i)
           prev == point_segment_idx(Before(i))
           last == IF prev # unsegmented THEN <<<<Before(i), prev>>>> ELSE <<>>
           first == IF cur # unsegmented THEN <<<<i, cur>>>> ELSE <<>>
<1>1. /\ Before(i) \in points /\ i \in points
      /\ After(Before(i)) = i
  BY RingOrder DEF IsRing, points
<1>2. /\ cur \in segment_shapes \cup {unsegmented} /\ prev \in segment_shapes \cup {unsegmented}
      /\ cur # unsegmented => i \in cur
      /\ prev # unsegmented => Before(i) \in prev
      /\ cur # prev /\ prev # unsegmented => i \notin prev
      /\ cur # prev /\ cur # unsegmented => Before(i) \notin cur
  BY RegionOfPoint
<1>3. ids \in Seq(Places)
  BY DEF Alternates
<1>4. Boundary(i) = IF cur = prev THEN <<>> ELSE last \o first
  BY DEF Boundary
<1>5. CASE cur = prev
  BY <1>3, <1>4, <1>5, ConcatEmptySeq
<1>6. CASE cur # prev
  <2> DEFINE e == <<Before(i), prev>>
             f == <<i, cur>>
             closed == IF prev # unsegmented THEN Append(ids, e) ELSE ids
             opened == IF cur # unsegmented THEN Append(closed, f) ELSE closed
  <2>1. Alternates(closed, unsegmented)
    <3>1. CASE prev # unsegmented
      <4>1. e \in Places /\ e[2] = prev /\ e[2] # unsegmented /\ Closes(e)
        BY <1>1, <1>2, <1>6, <3>1 DEF Places, Closes
      <4> HIDE DEF e
      <4>2. Alternates(Append(ids, e), unsegmented)
        BY <4>1, CloseNext
      <4> QED
        BY <4>2, <3>1
    <3>2. CASE prev = unsegmented
      BY <3>2
    <3> QED
      BY <3>1, <3>2
  <2>2. closed \in Seq(Places)
    BY <2>1 DEF Alternates
  <2>3. Alternates(opened, cur)
    <3>1. CASE cur # unsegmented
      <4>1. f \in Places /\ f[2] = cur /\ f[2] # unsegmented /\ Opens(f)
        BY <1>1, <1>2, <1>6, <3>1 DEF Places, Opens
      <4> HIDE DEF f, closed
      <4>2. Alternates(Append(closed, f), cur)
        BY <2>1, <4>1, OpenNext
      <4> QED
        BY <4>2, <3>1
    <3>2. CASE cur = unsegmented
      BY <2>1, <3>2
    <3> QED
      BY <3>1, <3>2
  <2>4. last \in Seq(Places) /\ first \in Seq(Places)
    BY BoundaryIsOfPlaces
  <2>5. ids \o (last \o first) = (ids \o last) \o first
    <3> HIDE DEF last, first
    <3> QED
      BY <1>3, <2>4, ConcatAssociative
  <2>6. \A s \in Seq(Places) : \A x \in Places : s \o <<x>> = Append(s, x)
    OBVIOUS
  <2>7. ids \o last = closed
    <3>1. CASE prev # unsegmented
      <4>1. e \in Places
        BY <1>1, <1>2, <3>1 DEF Places
      <4> HIDE DEF e
      <4>2. ids \o <<e>> = Append(ids, e)
        BY <4>1, <1>3, <2>6
      <4> QED
        BY <4>2, <3>1 DEF e
    <3>2. CASE prev = unsegmented
      BY <3>2, <1>3, ConcatEmptySeq
    <3> QED
      BY <3>1, <3>2
  <2>8. closed \o first = opened
    <3>1. CASE cur # unsegmented
      <4>1. f \in Places
        BY <1>1, <1>2, <3>1 DEF Places
      <4> HIDE DEF f, closed
      <4>2. closed \o <<f>> = Append(closed, f)
        BY <4>1, <2>2, <2>6
      <4> QED
        BY <4>2, <3>1 DEF f
    <3>2. CASE cur = unsegmented
      <4> HIDE DEF closed
      <4> QED
        BY <3>2, <2>2, ConcatEmptySeq
    <3> QED
      BY <3>1, <3>2
  <2> HIDE DEF last, first, closed, opened, cur, prev
  <2>9. ids \o Boundary(i) = opened
    BY <1>4, <1>6, <2>5, <2>7, <2>8
  <2> QED
    BY <2>3, <2>9 DEF cur
<1> QED
  BY <1>5, <1>6

(* The place where a region begins is in the list once its point is reached. *)
BeginIsIn(ids, i) ==
  point_segment_idx(i) # unsegmented /\ point_segment_idx(Before(i)) # point_segment_idx(i) =>
    \E k \in DOMAIN ids : ids[k] = <<i, point_segment_idx(i)>>

HasBegins(ids, n) == \A i \in 0 .. n - 1 : BeginIsIn(ids, i)

LEMMA BoundaryAdds ==
  ASSUME IsRing, NEW i \in points, NEW ids, Alternates(ids, point_segment_idx(Before(i))), HasBegins(ids, i)
  PROVE  HasBegins(ids \o Boundary(i), i + 1)
<1> DEFINE cur == point_segment_idx(i)
           prev == point_segment_idx(Before(i))
           new == ids \o Boundary(i)
<1>1. /\ ids \in Seq(Places) /\ Before(i) \in points
      /\ cur \in segment_shapes \cup {unsegmented} /\ prev \in segment_shapes \cup {unsegmented}
  BY RegionOfPoint, RingOrder DEF Alternates, IsRing
<1>2. /\ Boundary(i) \in Seq(Places)
      /\ cur # prev /\ cur # unsegmented =>
           Len(Boundary(i)) \in Nat \ {0} /\ Boundary(i)[Len(Boundary(i))] = <<i, cur>>
  BY BoundaryIsOfPlaces
<1> DEFINE added == Boundary(i)
<1>3. /\ new \in Seq(Places) /\ Len(new) = Len(ids) + Len(added)
      /\ \A k \in 1 .. Len(ids) + Len(added) : new[k] = IF k <= Len(ids) THEN ids[k] ELSE added[k - Len(ids)]
  <2>1. added \in Seq(Places)
    BY <1>2
  <2> HIDE DEF added
  <2> QED
    BY <1>1, <2>1, ConcatProperties DEF added
<1>4. Len(ids) \in Nat /\ Len(added) \in Nat /\ DOMAIN ids = 1 .. Len(ids) /\ DOMAIN new = 1 .. Len(new)
  BY <1>1, <1>2, <1>3, LenProperties
<1>5. ASSUME cur # unsegmented, prev # cur PROVE \E k \in DOMAIN new : new[k] = <<i, cur>>
  <2> DEFINE f == <<i, cur>>
  <2>3. Len(added) > 0 /\ added[Len(added)] = f
    BY <1>2, <1>5
  <2> HIDE DEF f, added, new
  <2>4. Len(new) \in DOMAIN new /\ new[Len(new)] = f
    BY <1>3, <1>4, <2>3
  <2> QED
    BY <2>4 DEF f
<1> HIDE DEF new, added
<1>6. ASSUME NEW j \in 0 .. i PROVE BeginIsIn(new, j)
  <2>1. CASE j = i
    BY <2>1, <1>5 DEF BeginIsIn
  <2>2. CASE j # i
    <3>1. j \in 0 .. i - 1
      BY <2>2 DEF points, IsRing
    <3>2. BeginIsIn(ids, j)
      BY <3>1 DEF HasBegins
    <3>3. \A k \in DOMAIN ids : k \in DOMAIN new /\ new[k] = ids[k]
      BY <1>3, <1>4
    <3> QED
      BY <3>2, <3>3 DEF BeginIsIn
  <2> QED
    BY <2>1, <2>2
<1>7. i \in Nat
  BY DEF points, IsRing
<1>8. \A j \in 0 .. (i + 1) - 1 : BeginIsIn(new, j)
  <2> TAKE j \in 0 .. (i + 1) - 1
  <2>1. j \in 0 .. i
    BY <1>7
  <2> QED
    BY <1>6, <2>1
<1>9. HasBegins(new, i + 1)
  BY <1>8 DEF HasBegins
<1> QED
  BY <1>9 DEF new

(* The whole list. *)
LEMMA BoundariesAlternate ==
  ASSUME IsRing
  PROVE  Alternates(Boundaries, point_segment_idx(ringsize - 1)) /\ HasBegins(Boundaries, ringsize)
<1> DEFINE n == ringsize
           X == Seq(Places)
           step == [k \in 1 .. n |-> [ids \in X |-> ids \o Boundary(k - 1)]]
           Direct(g) == [k \in 0 .. n |-> IF k = 0 THEN <<>> ELSE g[k - 1] \o Boundary(k - 1)]
           f == CHOOSE g : g = Direct(g)
           Behind(k) == IF k = 0 THEN n - 1 ELSE k - 1
           P == [k \in 0 .. n |-> {ids \in X : /\ Alternates(ids, point_segment_idx(Behind(k)))
                                               /\ HasBegins(ids, k)}]
<1>1. n \in Nat /\ n - 1 \in points /\ \A k \in 1 .. n : k - 1 \in points
  BY DEF IsRing, points
<1>2. Boundaries = f[n]
  BY DEF Boundaries
<1>3. <<>> \in X
  BY EmptySeq
<1>4. step \in [1 .. n -> [X -> X]] /\ \A k \in 1 .. n : \A ids \in X : step[k][ids] = ids \o Boundary(k - 1)
  <2>1. \A k \in 1 .. n : Boundary(k - 1) \in X
    BY <1>1, BoundaryIsOfPlaces
  <2>2. \A s, t \in X : s \o t \in X
    BY ConcatProperties
  <2> QED
    BY <2>1, <2>2
<1>5. PICK g \in [0 .. n -> X] : g[0] = <<>> /\ \A k \in 1 .. n : g[k] = step[k][g[k - 1]]
  <2> DEFINE base == <<>>
  <2>1. base \in X
    BY <1>3
  <2>2. step \in [1 .. n -> [X -> X]]
    BY <1>4
  <2> HIDE DEF X, base
  <2>3. ASSUME NEW m \in Nat, NEW s \in [1 .. m -> [X -> X]]
        PROVE  \E g \in [0 .. m -> X] : g[0] = base /\ \A k \in 1 .. m : g[k] = s[k][g[k - 1]]
    BY <2>1, StepsExist, SMT
  <2>4. n \in Nat
    BY <1>1
  <2> HIDE DEF step, n
  <2>5. \E g \in [0 .. n -> X] : g[0] = base /\ \A k \in 1 .. n : g[k] = step[k][g[k - 1]]
    BY <2>2, <2>3, <2>4, SMT
  <2> QED
    BY <2>5 DEF base
<1>6. \A k \in 1 .. n : k - 1 \in 0 .. n
  BY <1>1
<1>7. \A k \in 1 .. n : g[k] = g[k - 1] \o Boundary(k - 1)
  <2> HIDE DEF X, n, step
  <2> QED
    BY <1>4, <1>5, <1>6
<1>8. g = Direct(g)
  <2>1. \A k \in 0 .. n : g[k] = IF k = 0 THEN <<>> ELSE g[k - 1] \o Boundary(k - 1)
    <3> TAKE k \in 0 .. n
    <3>1. CASE k = 0
      BY <3>1, <1>5
    <3>2. CASE k # 0
      <4>1. k \in 1 .. n
        BY <3>2, <1>1
      <4> QED
        BY <4>1, <3>2, <1>7
    <3> QED
      BY <3>1, <3>2
  <2> QED
    BY <2>1, <1>5
<1>9. f = Direct(f)
  <2> HIDE DEF Direct
  <2> QED
    BY <1>8
<1>10. f[0] = <<>> /\ \A k \in 1 .. n : f[k] = f[k - 1] \o Boundary(k - 1)
  <2>1. \A k \in 0 .. n : f[k] = IF k = 0 THEN <<>> ELSE f[k - 1] \o Boundary(k - 1)
    <3> HIDE DEF f
    <3> QED
      BY <1>9
  <2> HIDE DEF f, Direct, n
  <2>2. 0 \in 0 .. n /\ \A k \in 1 .. n : k \in 0 .. n /\ k # 0
    BY <1>1
  <2> QED
    BY <2>1, <2>2
<1> HIDE DEF f
<1>11. f[0] \in P[0]
  <2>1. Alternates(<<>>, point_segment_idx(n - 1))
    BY EmptySeq DEF Alternates, Shift
  <2>2. HasBegins(<<>>, 0)
    BY DEF HasBegins
  <2> QED
    BY <1>1, <1>3, <1>10, <2>1, <2>2
<1>12. ASSUME NEW k \in 1 .. n, f[k - 1] \in P[k - 1] PROVE f[k] \in P[k]
  <2> DEFINE ids == f[k - 1]
  <2>1. k - 1 \in points /\ k - 1 \in 0 .. n
    BY <1>1
  <2>2. Before(k - 1) = Behind(k - 1)
    BY <2>1, RingOrder DEF IsRing
  <2>3. ids \in X /\ Alternates(ids, point_segment_idx(Before(k - 1))) /\ HasBegins(ids, k - 1)
    BY <1>12, <2>1, <2>2
  <2> DEFINE i == k - 1
  <2>4. /\ Alternates(ids \o Boundary(i), point_segment_idx(i))
        /\ HasBegins(ids \o Boundary(i), i + 1)
    <3> HIDE DEF i, ids
    <3> QED
      BY <2>1, <2>3, BoundaryKeeps, BoundaryAdds DEF i
  <2>5. i + 1 = k /\ Behind(k) = i
    OBVIOUS
  <2>6. f[k] \in X /\ Alternates(f[k], point_segment_idx(Behind(k))) /\ HasBegins(f[k], k)
    <3>1. f[k] = ids \o Boundary(i)
      BY <1>10
    <3> HIDE DEF i, ids, Behind
    <3>2. ids \o Boundary(i) \in X
      BY <2>4 DEF Alternates
    <3> QED
      BY <2>4, <2>5, <3>1, <3>2
  <2> QED
    BY <2>6
<1>13. f[n] \in P[n]
  <2> HIDE DEF P, n
  <2> QED
    BY <1>1, <1>11, <1>12, StepsStay
<1>14. Behind(n) = n - 1 /\ n \in 0 .. n
  BY <1>1 DEF IsRing
<1> QED
  BY <1>2, <1>13, <1>14

(***************************************************************************)
(* Read around, the list has pairs of a begin and the next end.  Turning   *)
(* it keeps them, and once it is cut between two regions it begins with a  *)
(* begin.                                                                  *)
(***************************************************************************)
NextPlace(ids, k) == IF k = Len(ids) THEN 1 ELSE k + 1

IsPair(ids, k) ==
  /\ Opens(ids[k]) /\ Closes(ids[NextPlace(ids, k)])
  /\ ids[k][2] = ids[NextPlace(ids, k)][2]

IsPaired(ids, shift) ==
  /\ ids \in Seq(Places) /\ Len(ids) > 0 /\ Len(ids) % 2 = 0
  /\ \A k \in 1 .. Len(ids) : (k + shift) % 2 = 1 => IsPair(ids, k)

HasRegions(ids) == \A r \in segment_shapes : \E k \in 1 .. Len(ids) : ids[k][2] = r

LEMMA AnotherRegion ==
  ASSUME Cardinality(segment_shapes) > 1, NEW x
  PROVE  \E r \in segment_shapes : r # x
<1> SUFFICES ASSUME \A r \in segment_shapes : r = x PROVE FALSE
  OBVIOUS
<1>1. segment_shapes # {}
  BY FS_EmptySet
<1>2. segment_shapes = {x}
  BY <1>1
<1>3. Cardinality({x}) = 1
  BY FS_Singleton
<1> QED
  BY <1>2, <1>3

LEMMA BoundariesArePaired ==
  ASSUME IsRing, Cardinality(segment_shapes) > 1
  PROVE  /\ \E shift \in {0, 1} : IsPaired(Boundaries, shift)
         /\ HasRegions(Boundaries)
<1> DEFINE ids == Boundaries
           n == Len(ids)
           region == point_segment_idx(ringsize - 1)
<1>1. Alternates(ids, region) /\ HasBegins(ids, ringsize)
  BY BoundariesAlternate
<1> HIDE DEF ids
<1>2. ids \in Seq(Places) /\ n \in Nat /\ DOMAIN ids = 1 .. n /\ (ids = <<>> <=> n = 0)
  BY <1>1, LenProperties, EmptySeq DEF Alternates
<1>3. \A r \in segment_shapes : \E q \in segment_shapes : q # r
  BY AnotherRegion
<1>4. HasRegions(ids)
  <2> SUFFICES ASSUME NEW r \in segment_shapes PROVE \E k \in 1 .. n : ids[k][2] = r
    BY DEF HasRegions
  <2>1. PICK q \in segment_shapes : q # r
    BY <1>3
  <2>2. q # {} /\ q \subseteq points /\ q \cap r = {}
    BY <2>1 DEF IsRing, unsegmented
  <2>3. PICK a \in points : a \notin r
    BY <2>2
  <2>4. PICK i \in points : i \in r /\ Before(i) \notin r
    BY <2>3, RegionHasBegin
  <2>5. point_segment_idx(i) = r /\ point_segment_idx(Before(i)) # r /\ r # unsegmented
    BY <2>4, RegionOfPoint DEF IsRing
  <2>6. BeginIsIn(ids, i)
    BY <1>1 DEF HasBegins, points
  <2>7. PICK k \in DOMAIN ids : ids[k] = <<i, point_segment_idx(i)>>
    BY <2>5, <2>6 DEF BeginIsIn
  <2> QED
    BY <1>2, <2>5, <2>7
<1>5. n > 0
  <2>1. segment_shapes # {}
    BY FS_EmptySet
  <2> QED
    BY <1>2, <1>4, <2>1 DEF HasRegions
<1>6. Shift \in {0, 1} /\ (Shift = 1 <=> region # unsegmented)
  BY DEF Shift
<1>7. region # unsegmented <=> (n + Shift) % 2 = 1
  BY <1>1 DEF Alternates
<1>8. n % 2 = 0
  BY <1>2, <1>6, <1>7
<1>9. ASSUME NEW k \in 1 .. n, (k + Shift) % 2 = 1 PROVE IsPair(ids, k)
  <2>1. Opens(ids[k])
    BY <1>1, <1>9 DEF Alternates
  <2>2. CASE k = n
    <3>1. Shift = 1 /\ region # unsegmented
      BY <1>6, <1>7, <1>9, <2>2
    <3>2. ids[1][2] = region /\ ids[n][2] = region
      BY <1>1, <1>2, <1>5, <3>1 DEF Alternates
    <3>3. (1 + Shift) % 2 # 1 /\ 1 \in 1 .. n
      BY <1>2, <1>5, <3>1
    <3>4. Closes(ids[1])
      BY <1>1, <3>3 DEF Alternates
    <3> QED
      BY <2>1, <2>2, <3>2, <3>4 DEF IsPair, NextPlace
  <2>3. CASE k # n
    <3>1. k \in 1 .. n - 1 /\ k + 1 \in 1 .. n /\ (k + 1 + Shift) % 2 # 1
      <4> HIDE DEF n
      <4>1. k \in 1 .. n - 1 /\ k + 1 \in 1 .. n
        BY <1>2, <2>3
      <4>2. CASE Shift = 0
        BY <4>1, <4>2, <1>9
      <4>3. CASE Shift = 1
        BY <4>1, <4>3, <1>9
      <4> QED
        BY <1>6, <4>1, <4>2, <4>3
    <3>2. ids[k][2] = ids[k + 1][2]
      BY <1>1, <1>9, <3>1 DEF Alternates
    <3>3. Closes(ids[k + 1])
      BY <1>1, <3>1 DEF Alternates
    <3> QED
      BY <2>1, <2>3, <3>2, <3>3 DEF IsPair, NextPlace
  <2> QED
    BY <2>2, <2>3
<1>10. IsPaired(ids, Shift)
  BY <1>2, <1>5, <1>8, <1>9 DEF IsPaired
<1> QED
  BY <1>4, <1>6, <1>10 DEF ids

(* What is at a place of a list that was turned. *)
TurnedBy(ids, k) == SubSeq(ids, k + 1, Len(ids)) \o SubSeq(ids, 1, k)

LEMMA TurnedAt ==
  ASSUME NEW S, NEW ids \in Seq(S), NEW k \in 0 .. Len(ids)
  PROVE  /\ TurnedBy(ids, k) \in Seq(S)
         /\ Len(TurnedBy(ids, k)) = Len(ids)
         /\ \A j \in 1 .. Len(ids) :
              TurnedBy(ids, k)[j] = ids[IF j + k <= Len(ids) THEN j + k ELSE j + k - Len(ids)]
<1> DEFINE n == Len(ids)
           s == SubSeq(ids, k + 1, n)
           t == SubSeq(ids, 1, k)
<1>1. n \in Nat /\ k \in Nat /\ k <= n
  BY LenProperties
<1>2. \A i \in 1 .. n : ids[i] \in S
  BY ElementOfSeq
<1>3. s \in Seq(S) /\ Len(s) = n - k /\ \A i \in 1 .. n - k : s[i] = ids[k + i]
  <2>1. k + 1 \in Int /\ n \in Int /\ \A i \in k + 1 .. n : ids[i] \in S
    BY <1>1, <1>2
  <2>2. /\ s \in Seq(S)
        /\ Len(s) = IF k + 1 <= n THEN n - (k + 1) + 1 ELSE 0
        /\ \A i \in 1 .. n - (k + 1) + 1 : s[i] = ids[k + 1 + i - 1]
    <3> HIDE DEF n
    <3> QED
      BY <2>1, SubSeqProperties
  <2> HIDE DEF s, n
  <2>3. n - (k + 1) + 1 = n - k /\ \A i \in 1 .. n - k : k + 1 + i - 1 = k + i
    BY <1>1
  <2> QED
    BY <1>1, <2>2, <2>3
<1>4. t \in Seq(S) /\ Len(t) = k /\ \A i \in 1 .. k : t[i] = ids[i]
  <2>1. 1 \in Int /\ k \in Int /\ \A i \in 1 .. k : ids[i] \in S
    BY <1>1, <1>2
  <2>2. /\ t \in Seq(S)
        /\ Len(t) = IF 1 <= k THEN k - 1 + 1 ELSE 0
        /\ \A i \in 1 .. k - 1 + 1 : t[i] = ids[1 + i - 1]
    BY <2>1, SubSeqProperties
  <2> HIDE DEF t
  <2>3. k - 1 + 1 = k /\ \A i \in 1 .. k : 1 + i - 1 = i
    BY <1>1
  <2> QED
    BY <1>1, <2>2, <2>3
<1> HIDE DEF s, t, n
<1>5. /\ s \o t \in Seq(S) /\ Len(s \o t) = (n - k) + k
      /\ \A j \in 1 .. (n - k) + k : (s \o t)[j] = IF j <= n - k THEN s[j] ELSE t[j - (n - k)]
  <2>1. /\ s \o t \in Seq(S) /\ Len(s \o t) = Len(s) + Len(t)
        /\ \A j \in 1 .. Len(s) + Len(t) : (s \o t)[j] = IF j <= Len(s) THEN s[j] ELSE t[j - Len(s)]
    BY <1>3, <1>4, ConcatProperties
  <2>2. Len(s) = n - k /\ Len(t) = k
    BY <1>3, <1>4
  <2> QED
    BY <2>1, <2>2
<1>6. \A j \in 1 .. n : (s \o t)[j] = ids[IF j + k <= n THEN j + k ELSE j + k - n]
  <2> TAKE j \in 1 .. n
  <2>1. CASE j <= n - k
    <3>1. j \in 1 .. n - k /\ k + j = j + k /\ j + k <= n /\ j \in 1 .. (n - k) + k
      BY <1>1, <2>1
    <3> QED
      BY <1>3, <1>5, <2>1, <3>1
  <2>2. CASE ~(j <= n - k)
    <3>1. j - (n - k) \in 1 .. k /\ j - (n - k) = j + k - n /\ ~(j + k <= n) /\ j \in 1 .. (n - k) + k
      BY <1>1, <2>2
    <3> QED
      BY <1>4, <1>5, <2>2, <3>1
  <2> QED
    BY <2>1, <2>2
<1>7. (n - k) + k = n
  BY <1>1
<1>8. /\ s \o t \in Seq(S) /\ Len(s \o t) = n
      /\ \A j \in 1 .. n : (s \o t)[j] = ids[IF j + k <= n THEN j + k ELSE j + k - n]
  BY <1>5, <1>6, <1>7
<1> QED
  BY <1>8 DEF TurnedBy, s, t, n

LEMMA TurnedStaysPaired ==
  ASSUME NEW ids, NEW shift \in {0, 1}, IsPaired(ids, shift), HasRegions(ids), NEW k \in 0 .. Len(ids) - 1
  PROVE  /\ \E other \in {0, 1} : IsPaired(TurnedBy(ids, k), other)
         /\ HasRegions(TurnedBy(ids, k))
<1> DEFINE n == Len(ids)
           new == TurnedBy(ids, k)
           Source(j) == IF j + k <= n THEN j + k ELSE j + k - n
           other == (shift + k) % 2
<1>1. n \in Nat /\ n > 0 /\ n % 2 = 0 /\ k \in Nat /\ k < n /\ k \in 0 .. n
  BY LenProperties DEF IsPaired
<1>2. new \in Seq(Places) /\ Len(new) = n /\ \A j \in 1 .. n : new[j] = ids[Source(j)]
  BY <1>1, TurnedAt DEF IsPaired
<1> HIDE DEF new, n
<1>3. \A j \in 1 .. n : Source(j) \in 1 .. n
  BY <1>1
<1>4. \A j \in 1 .. n : Source(NextPlace(new, j)) = NextPlace(ids, Source(j)) /\ NextPlace(new, j) \in 1 .. n
  BY <1>1, <1>2 DEF NextPlace, n
<1>5. other \in {0, 1}
  BY <1>1
<1>6. ASSUME NEW j \in 1 .. n, (j + other) % 2 = 1 PROVE (Source(j) + shift) % 2 = 1
  <2>1. CASE j + k <= n
    <3>1. CASE shift = 0
      BY <1>1, <1>6, <2>1, <3>1
    <3>2. CASE shift = 1
      BY <1>1, <1>6, <2>1, <3>2
    <3> QED
      BY <3>1, <3>2
  <2>2. CASE ~(j + k <= n)
    <3>1. CASE shift = 0
      BY <1>1, <1>6, <2>2, <3>1
    <3>2. CASE shift = 1
      BY <1>1, <1>6, <2>2, <3>2
    <3> QED
      BY <3>1, <3>2
  <2> QED
    BY <2>1, <2>2
<1>7. ASSUME NEW j \in 1 .. n, (j + other) % 2 = 1 PROVE IsPair(new, j)
  <2> DEFINE i == Source(j)
  <2>1. i \in 1 .. n /\ (i + shift) % 2 = 1
    BY <1>3, <1>6, <1>7
  <2>2. new[j] = ids[i] /\ new[NextPlace(new, j)] = ids[NextPlace(ids, i)]
    BY <1>2, <1>4
  <2> HIDE DEF i
  <2>3. IsPair(ids, i)
    BY <2>1 DEF IsPaired, n
  <2> QED
    BY <2>2, <2>3 DEF IsPair
<1>8. IsPaired(new, other)
  <2> HIDE DEF other
  <2> QED
    BY <1>1, <1>2, <1>7 DEF IsPaired
<1>9. HasRegions(new)
  <2> SUFFICES ASSUME NEW r \in segment_shapes PROVE \E j \in 1 .. n : new[j][2] = r
    BY <1>2 DEF HasRegions
  <2>1. PICK i \in 1 .. n : ids[i][2] = r
    BY DEF HasRegions, n
  <2> DEFINE j == IF i > k THEN i - k ELSE i - k + n
  <2>2. j \in 1 .. n /\ Source(j) = i
    BY <1>1
  <2> QED
    BY <1>2, <2>1, <2>2
<1> QED
  BY <1>5, <1>8, <1>9 DEF new

(* The list is turned until its ends are of different regions.             *)
LEMMA TurnedEnds ==
  ASSUME NEW ids, NEW shift \in {0, 1}, IsPaired(ids, shift), HasRegions(ids), Cardinality(segment_shapes) > 1
  PROVE  LET new == Turned(ids)
         IN /\ \E other \in {0, 1} : IsPaired(new, other)
            /\ HasRegions(new)
            /\ new[1][2] # new[Len(new)][2]
<1> DEFINE n == Len(ids)
           IsTurn(k) == /\ k > 0 => Head(ids)[2] = Last(ids)[2]
                        /\ \A j \in 1 .. k : ids[j][2] = Head(ids)[2]
                        /\ Head(ids)[2] = Last(ids)[2] => ids[k + 1][2] # Head(ids)[2]
           turns == CHOOSE k \in 0 .. n - 1 : IsTurn(k)
<1>1. /\ ids \in Seq(Places) /\ n \in Nat /\ n > 0 /\ ids # <<>>
      /\ Head(ids) = ids[1] /\ Last(ids) = ids[n]
  BY LenProperties, EmptySeq DEF IsPaired, Last
<1>2. Turned(ids) = TurnedBy(ids, turns)
  BY DEF Turned, TurnedBy
<1>3. \E k \in 0 .. n - 1 : IsTurn(k)
  <2>1. CASE ids[1][2] # ids[n][2]
    <3>1. IsTurn(0)
      BY <1>1, <2>1
    <3> QED
      BY <1>1, <3>1
  <2>2. CASE ids[1][2] = ids[n][2]
    <3> DEFINE T == {k \in 1 .. n : ids[k][2] # ids[1][2]}
    <3>1. T # {}
      <4>1. PICK r \in segment_shapes : r # ids[1][2]
        BY AnotherRegion
      <4>2. PICK k \in 1 .. n : ids[k][2] = r
        BY DEF HasRegions
      <4> QED
        BY <4>1, <4>2
    <3>2. T \subseteq Nat
      OBVIOUS
    <3>3. PICK k \in T : \A j \in T : k <= j
      <4> HIDE DEF T
      <4> QED
        BY <3>1, <3>2, LeastNumber
    <3>4. k \in 1 .. n /\ ids[k][2] # ids[1][2] /\ \A j \in 1 .. k - 1 : ids[j][2] = ids[1][2]
      BY <3>3, <1>1
    <3>5. k - 1 \in 0 .. n - 1 /\ (k - 1) + 1 = k
      BY <3>4, <1>1
    <3>6. IsTurn(k - 1)
      BY <3>4, <3>5, <2>2, <1>1
    <3> QED
      BY <3>5, <3>6
  <2> QED
    BY <2>1, <2>2
<1>4. turns \in 0 .. n - 1 /\ IsTurn(turns)
  <2> HIDE DEF IsTurn
  <2> QED
    BY <1>3
<1> HIDE DEF turns
<1> DEFINE new == TurnedBy(ids, turns)
<1>5. (\E other \in {0, 1} : IsPaired(new, other)) /\ HasRegions(new)
  BY <1>4, TurnedStaysPaired
<1>6. /\ Len(new) = n
      /\ \A j \in 1 .. n : new[j] = ids[IF j + turns <= n THEN j + turns ELSE j + turns - n]
  BY <1>1, <1>4, TurnedAt
<1> HIDE DEF new, n
<1>7. new[1] = ids[turns + 1] /\ new[n] = ids[IF turns = 0 THEN n ELSE turns]
  <2>1. turns \in Nat /\ 1 \in 1 .. n /\ n \in 1 .. n /\ 1 + turns <= n /\ 1 + turns = turns + 1
    BY <1>1, <1>4
  <2>2. new[1] = ids[turns + 1]
    BY <1>6, <2>1
  <2>3. CASE turns = 0
    <3>1. n + turns <= n /\ n + turns = n
      BY <2>1, <2>3
    <3>2. new[n] = ids[n]
      BY <1>6, <2>1, <3>1
    <3> QED
      BY <2>2, <2>3, <3>2
  <2>4. CASE turns # 0
    <3>1. ~(n + turns <= n) /\ n + turns - n = turns
      BY <2>1, <2>4
    <3>2. new[n] = ids[turns]
      BY <1>6, <2>1, <3>1
    <3> QED
      BY <2>2, <2>4, <3>2
  <2> QED
    BY <2>3, <2>4
<1>8. new[1][2] # new[n][2]
  <2>1. CASE turns = 0
    BY <1>1, <1>4, <1>7, <2>1
  <2>2. CASE turns # 0
    <3>1. turns > 0 /\ turns \in 1 .. turns
      BY <1>1, <1>4, <2>2
    <3> QED
      BY <1>1, <1>4, <1>7, <2>2, <3>1
  <2> QED
    BY <2>1, <2>2
<1> QED
  BY <1>2, <1>5, <1>6, <1>8 DEF new

(* The list as it is read. *)
BeginsAndEnds(ids) ==
  /\ ids \in Seq(Places) /\ HasRegions(ids)
  /\ \A k \in 1 .. Len(ids) :
       IF k % 2 = 1 THEN k < Len(ids) /\ Opens(ids[k]) /\ ids[k][2] = ids[k + 1][2] ELSE Closes(ids[k])
  /\ \A k \in 1 .. Len(ids) : k % 2 = 0 => ids[k - 1][2] = ids[k][2]

LEMMA RingIdsBeginAndEnd ==
  ASSUME IsRing, Cardinality(segment_shapes) > 1
  PROVE  BeginsAndEnds(new_ring_ids)
<1>1. PICK shift \in {0, 1} : IsPaired(Boundaries, shift)
  BY BoundariesArePaired
<1>2. HasRegions(Boundaries)
  BY BoundariesArePaired
<1> DEFINE ids == Boundaries
           n == Len(ids)
           begun == StartWithFirst(ids)
<1> HIDE DEF ids
<1>3. ids \in Seq(Places) /\ n \in Nat /\ n > 0
  BY <1>1, LenProperties DEF IsPaired, ids
<1>4. (\E other \in {0, 1} : IsPaired(begun, other)) /\ HasRegions(begun)
  <2>1. CASE perfect_aligned
    BY <1>1, <1>2, <2>1 DEF StartWithFirst, ids
  <2>2. CASE ~perfect_aligned
    <3>1. begun = <<ids[n]>> \o SubSeq(ids, 1, n - 1)
      BY <2>2 DEF StartWithFirst, Last, Front
    <3>2. SubSeq(ids, n - 1 + 1, n) = <<ids[n]>>
      <4>1. n \in 1 .. n /\ n - 1 + 1 = n /\ n + 1 \in Int /\ n < n + 1
        BY <1>3
      <4>2. SubSeq(ids, n, n) = <<ids[n]>> \o SubSeq(ids, n + 1, n)
        BY <1>3, <4>1, SubSeqRecursiveFirst
      <4>3. SubSeq(ids, n + 1, n) = <<>>
        BY <1>3, <4>1, SubSeqEmpty
      <4>4. <<ids[n]>> \in Seq(Places)
        BY <1>3, <4>1, ElementOfSeq
      <4> QED
        BY <4>1, <4>2, <4>3, <4>4, ConcatEmptySeq
    <3>3. begun = TurnedBy(ids, n - 1) /\ n - 1 \in 0 .. n - 1
      BY <1>3, <3>1, <3>2 DEF TurnedBy
    <3> QED
      BY <1>1, <1>2, <3>3, TurnedStaysPaired DEF ids
  <2> QED
    BY <2>1, <2>2
<1> HIDE DEF begun
<1> DEFINE new == Turned(begun)
           m == Len(new)
<1>5. (\E other \in {0, 1} : IsPaired(new, other)) /\ HasRegions(new) /\ new[1][2] # new[m][2]
  BY <1>4, TurnedEnds
<1> HIDE DEF new
<1>6. PICK other \in {0, 1} : IsPaired(new, other)
  BY <1>5
<1>7. new \in Seq(Places) /\ m \in Nat /\ m > 0 /\ m % 2 = 0
  BY <1>6, LenProperties DEF IsPaired
<1>8. other = 0
  <2> SUFFICES ASSUME other = 1 PROVE FALSE
    BY <1>6
  <2>1. (m + other) % 2 = 1 /\ m \in 1 .. m
    BY <1>7
  <2>2. IsPair(new, m)
    BY <1>6, <2>1 DEF IsPaired
  <2> QED
    BY <1>5, <2>2 DEF IsPair, NextPlace
<1>9. \A k \in 1 .. m : k % 2 = 1 => k < m /\ IsPair(new, k) /\ NextPlace(new, k) = k + 1
  <2> TAKE k \in 1 .. m
  <2> HAVE k % 2 = 1
  <2>1. k # m /\ (k + other) % 2 = 1
    <3> HIDE DEF m
    <3> QED
      BY <1>7, <1>8
  <2>2. IsPair(new, k)
    BY <1>6, <2>1 DEF IsPaired
  <2>3. k < m
    BY <1>7, <2>1
  <2> QED
    BY <2>1, <2>2, <2>3 DEF NextPlace
<1>10. ASSUME NEW k \in 1 .. m, k % 2 # 1
       PROVE  Closes(new[k]) /\ new[k - 1][2] = new[k][2]
  <2>1. k - 1 \in 1 .. m /\ (k - 1) % 2 = 1 /\ (k - 1) + 1 = k
    <3> HIDE DEF m
    <3> QED
      BY <1>7, <1>10
  <2> QED
    BY <1>9, <2>1 DEF IsPair
<1>11. \A k \in 1 .. m : k % 2 = 0 => k % 2 # 1
  OBVIOUS
<1>12. \A k \in 1 .. m : k % 2 = 1 => Opens(new[k]) /\ new[k][2] = new[k + 1][2]
  BY <1>9 DEF IsPair
<1>13. BeginsAndEnds(new)
  BY <1>5, <1>7, <1>9, <1>10, <1>11, <1>12 DEF BeginsAndEnds
<1> QED
  BY <1>13 DEF new_ring_ids, new, begun, ids

(* The segments: from the begin of a region to an end of it. *)
IsSegment(s, r) ==
  /\ s[1] \in r /\ s[2] \in r /\ Before(s[1]) \notin r /\ After(s[2]) \notin r
  /\ s[1] \in points /\ s[2] \in points

LEMMA SegmentsAreRight ==
  ASSUME IsRing, NEW ids, BeginsAndEnds(ids)
  PROVE  /\ \A s \in MergedByRegion(ids) : \E r \in segment_shapes : IsSegment(s, r)
         /\ \A r \in segment_shapes : \E s \in MergedByRegion(ids) : IsSegment(s, r)
<1> DEFINE n == Len(ids)
           Positions(r) == {k \in DOMAIN ids : ids[k][2] = r}
           Segment(r) == <<ids[Min(Positions(r))][1], ids[Max(Positions(r))][1]>>
<1>1. /\ ids \in Seq(Places) /\ n \in Nat /\ DOMAIN ids = 1 .. n
      /\ \A k \in 1 .. n : ids[k] \in Places
  BY LenProperties, ElementOfSeq DEF BeginsAndEnds
<1>2. MergedByRegion(ids) = {Segment(r) : r \in {ids[k][2] : k \in DOMAIN ids}}
  BY DEF MergedByRegion
<1>3. {ids[k][2] : k \in DOMAIN ids} = segment_shapes
  <2>1. \A k \in DOMAIN ids : ids[k][2] \in segment_shapes
    BY <1>1 DEF Places
  <2>2. \A r \in segment_shapes : \E k \in DOMAIN ids : ids[k][2] = r
    BY <1>1 DEF BeginsAndEnds, HasRegions
  <2> QED
    BY <2>1, <2>2
<1>4. ASSUME NEW r \in segment_shapes PROVE IsSegment(Segment(r), r)
  <2> DEFINE T == Positions(r)
             a == Min(T)
             z == Max(T)
  <2>1. T \subseteq 1 .. n /\ T \subseteq Nat /\ T # {}
    BY <1>1, <1>3
  <2>2. a \in T /\ \A k \in T : a <= k
    <3>1. \E x \in T : \A y \in T : x <= y
      <4> HIDE DEF T
      <4> QED
        BY <2>1, LeastNumber
    <3> HIDE DEF T
    <3> QED
      BY <3>1 DEF Min
  <2>3. z \in T /\ \A k \in T : z >= k
    <3> DEFINE U == {n - k : k \in T}
    <3>1. U \subseteq Nat /\ U # {}
      BY <1>1, <2>1
    <3>2. PICK u \in U : \A y \in U : u <= y
      <4> HIDE DEF U
      <4> QED
        BY <3>1, LeastNumber
    <3>3. PICK x \in T : u = n - x
      OBVIOUS
    <3>4. \A y \in T : x >= y
      <4> TAKE y \in T
      <4>1. n - x <= n - y
        BY <3>2, <3>3
      <4> HIDE DEF T
      <4> QED
        BY <1>1, <2>1, <4>1
    <3> HIDE DEF T
    <3> QED
      BY <3>4 DEF Max
  <2>4. /\ a \in 1 .. n /\ ids[a][2] = r /\ z \in 1 .. n /\ ids[z][2] = r
        /\ \A k \in 1 .. n : ids[k][2] = r => a <= k /\ k <= z
    BY <1>1, <2>1, <2>2, <2>3
  <2> HIDE DEF a, z, T
  <2>5. Opens(ids[a])
    <3> SUFFICES ASSUME a % 2 # 1 PROVE FALSE
      BY <2>4 DEF BeginsAndEnds
    <3>1. a % 2 = 0 /\ a - 1 \in 1 .. n /\ ~(a <= a - 1)
      BY <1>1, <2>4
    <3>2. ids[a - 1][2] = r
      BY <2>4, <3>1 DEF BeginsAndEnds
    <3> QED
      BY <2>4, <3>1, <3>2
  <2>6. Closes(ids[z])
    <3> SUFFICES ASSUME z % 2 = 1 PROVE FALSE
      BY <2>4 DEF BeginsAndEnds
    <3>1. z < n /\ ids[z + 1][2] = r
      BY <2>4 DEF BeginsAndEnds
    <3>2. z + 1 \in 1 .. n /\ ~(z + 1 <= z)
      BY <1>1, <2>4, <3>1
    <3> QED
      BY <2>4, <3>1, <3>2
  <2>7. ids[a][1] \in points /\ ids[z][1] \in points
    BY <1>1, <2>4 DEF Places
  <2> QED
    BY <2>4, <2>5, <2>6, <2>7 DEF IsSegment, Opens, Closes, a, z, T
<1> QED
  BY <1>2, <1>3, <1>4

(* Regions in one piece begin once, and end before the next one begins.    *)
LEMMA RunBeginsOnce ==
  ASSUME IsRing, NEW r \in segment_shapes, IsRun(r), NEW i \in r, NEW j \in r,
         Before(i) \notin r, Before(j) \notin r
  PROVE  i = j
<1> DEFINE begins == {k \in r : Before(k) \notin r}
<1>1. r \subseteq points /\ IsFiniteSet(points)
  BY FS_Interval DEF IsRing, points
<1>2. IsFiniteSet(begins) /\ Cardinality(begins) = 1
  BY <1>1, FS_Subset DEF IsRun
<1>3. i \in begins /\ j \in begins
  OBVIOUS
<1> HIDE DEF begins
<1>4. \E x : begins = {x}
  BY <1>2, FS_Singleton
<1> QED
  BY <1>3, <1>4

LEMMA RunsAreInOrder ==
  ASSUME IsRing, NEW q \in segment_shapes, NEW r \in segment_shapes, IsRun(q),
         NEW p, IsSegment(p, q), NEW s, IsSegment(s, r), p[1] < s[1]
  PROVE  p[2] <= s[1]
<1>1. p[1] \in Nat /\ p[2] \in Nat /\ s[1] \in Nat /\ p[2] < ringsize /\ ringsize \in Nat \ {0}
  BY DEF IsSegment, points, IsRing
<1>2. s[1] \notin q
  <2>1. CASE q = r
    <3>1. p[1] = s[1]
      BY <2>1, RunBeginsOnce DEF IsSegment
    <3> QED
      BY <1>1, <3>1
  <2>2. CASE q # r
    BY <2>2 DEF IsRing, IsSegment
  <2> QED
    BY <2>1, <2>2
<1> SUFFICES ASSUME s[1] < p[2] PROVE FALSE
  BY <1>1
<1>3. PICK i \in s[1] + 1 .. p[2] : i \in q /\ i - 1 \notin q
  BY <1>1, <1>2, RegionBegins DEF IsSegment
<1>4. i \in points /\ i # 0 /\ p[1] < i
  BY <1>1, <1>3 DEF points
<1>5. Before(i) = i - 1
  BY <1>1, <1>4, RingOrder
<1>6. p[1] = i
  BY <1>3, <1>5, RunBeginsOnce DEF IsSegment
<1> QED
  BY <1>1, <1>4, <1>6

LEMMA RunsDoNotOverlap ==
  ASSUME IsRing, \A r \in segment_shapes : IsRun(r),
         NEW segments, \A s \in segments : \E r \in segment_shapes : IsSegment(s, r)
  PROVE  WithoutOverlap(segments) = segments
<1> SUFFICES ASSUME NEW s \in segments, NEW p \in Previous(s, segments) PROVE p[2] <= s[1]
  BY DEF WithoutOverlap
<1>1. p \in segments /\ p[1] < s[1]
  BY DEF Previous
<1>2. PICK q \in segment_shapes : IsSegment(p, q)
  BY <1>1
<1>3. PICK r \in segment_shapes : IsSegment(s, r)
  OBVIOUS
<1> QED
  BY <1>1, <1>2, <1>3, RunsAreInOrder

RingInv ==
  /\ ringsize \in Rings \cup {NoRing}
  /\ min_segment_count \in Int
  /\ IF ringsize = NoRing THEN segment_shapes = {} /\ ~Detected ELSE IsRing
  /\ Detected => min_segment_count < min_point_count_range[1]
  /\ SegmentsFollowRing

LEMMA RingStarts == RingInit => RingInv
BY DEF RingInit, RingInv, Detected, SegmentsFollowRing

LEMMA RingBegins == ASSUME RingInv, BeginRing PROVE RingInv'
<1>1. /\ ringsize' \in Rings /\ ringsize' # NoRing /\ ringsize' \in Nat \ {0}
      /\ segment_shapes' = {} /\ n_segments' = -1
      /\ min_segment_count' \in Int
  BY RingsAssumption, RangeAssumption DEF BeginRing, RingInv, NoRing
<1>2. ~Detected'
  BY <1>1 DEF Detected
<1>3. IsRing'
  BY <1>1 DEF IsRing
<1> QED
  BY <1>1, <1>2, <1>3 DEF RingInv, SegmentsFollowRing

LEMMA RegionIsGrown == ASSUME RingInv, ringsize # NoRing, GrowRegion PROVE RingInv'
<1>1. /\ ringsize' = ringsize /\ n_segments' = n_segments /\ min_segment_count' = min_segment_count
      /\ min_segment_count >= min_point_count_range[1]
  BY DEF GrowRegion
<1>2. PICK seed \in points \ UNION segment_shapes : \E r \in GrownFrom(seed, points \ UNION segment_shapes) :
        segment_shapes' = segment_shapes \cup {r}
  BY DEF GrowRegion
<1>3. PICK r \in GrownFrom(seed, points \ UNION segment_shapes) : segment_shapes' = segment_shapes \cup {r}
  BY <1>2
<1>4. r \subseteq points \ UNION segment_shapes /\ seed \in r
  BY DEF GrownFrom
<1>5. ~Detected /\ ~Detected'
  BY <1>1, RangeAssumption DEF RingInv, Detected
<1>6. IsRing'
  <2>1. IsRing
    BY DEF RingInv
  <2>2. points' = points
    BY <1>1 DEF points
  <2>3. segment_shapes' \subseteq SUBSET points /\ {} \notin segment_shapes'
    BY <1>3, <1>4, <2>1 DEF IsRing, unsegmented
  <2>4. \A s, q \in segment_shapes' : s # q => s \cap q = {}
    BY <1>3, <1>4, <2>1 DEF IsRing
  <2> QED
    BY <1>1, <2>1, <2>2, <2>3, <2>4 DEF IsRing, unsegmented
<1> QED
  BY <1>1, <1>5, <1>6 DEF RingInv, SegmentsFollowRing

LEMMA PassIsEnded == ASSUME RingInv, ringsize # NoRing, NextPass PROVE RingInv'
<1>1. /\ ringsize' = ringsize /\ n_segments' = n_segments /\ segment_shapes' = segment_shapes
      /\ min_segment_count' = min_segment_count - 1
      /\ min_segment_count >= min_point_count_range[1]
  BY DEF NextPass
<1>2. ~Detected /\ ~Detected'
  BY <1>1, RangeAssumption DEF RingInv, Detected
<1>3. IsRing' /\ min_segment_count' \in Int
  BY <1>1 DEF RingInv, IsRing, points
<1> QED
  BY <1>1, <1>2, <1>3 DEF RingInv, SegmentsFollowRing

LEMMA RingIsDetected == ASSUME RingInv, ringsize # NoRing, DetectLinesRing PROVE RingInv'
<1> DEFINE all == IF Cardinality(segment_shapes) > 1 THEN MergedByRegion(new_ring_ids) ELSE {}
           new == sorted_segments'
<1>1. /\ ringsize' = ringsize /\ segment_shapes' = segment_shapes /\ min_segment_count' = min_segment_count
      /\ min_segment_count < min_point_count_range[1]
      /\ new = IF cfg.remove_overlap THEN WithoutOverlap(all) ELSE all
  BY DEF DetectLinesRing
<1>2. IsRing /\ IsRing'
  BY <1>1 DEF RingInv, IsRing, points
<1>3. \A s \in all : \E r \in segment_shapes : IsSegment(s, r)
  BY <1>2, RingIdsBeginAndEnd, SegmentsAreRight
<1>4. Cardinality(segment_shapes) > 1 => \A r \in segment_shapes : \E s \in all : IsSegment(s, r)
  BY <1>2, RingIdsBeginAndEnd, SegmentsAreRight
<1> HIDE DEF all, new
<1>5. new \subseteq all
  BY <1>1 DEF WithoutOverlap
<1>6. \A s \in new : \E r \in segment_shapes :
        s[1] \in r /\ s[2] \in r /\ Before(s[1]) \notin r /\ After(s[2]) \notin r
  BY <1>3, <1>5 DEF IsSegment
<1>7. ASSUME Cardinality(segment_shapes) > 1, \A r \in segment_shapes : IsRun(r)
      PROVE  \A r \in segment_shapes : \E s \in new : s[1] \in r
  <2>1. new = all
    BY <1>1, <1>2, <1>3, <1>7, RunsDoNotOverlap
  <2> QED
    BY <1>4, <1>7, <2>1 DEF IsSegment
<1>8. SegmentsFollowRing'
  BY <1>1, <1>6, <1>7 DEF SegmentsFollowRing, IsRun, Before, After, new
<1> QED
  BY <1>1, <1>2, <1>8 DEF RingInv

LEMMA RingSteps == RingInv /\ [BeginRing \/ DetectNext]_ring => RingInv'
<1> SUFFICES ASSUME RingInv, [BeginRing \/ DetectNext]_ring PROVE RingInv'
  OBVIOUS
<1>1. CASE UNCHANGED ring
  BY <1>1 DEF ring, RingInv, IsRing, points, Detected, SegmentsFollowRing, IsRun, Before, After
<1>2. CASE BeginRing
  BY <1>2, RingBegins
<1>3. CASE DetectNext
  BY <1>3, RegionIsGrown, PassIsEnded, RingIsDetected DEF DetectNext
<1> QED
  BY <1>1, <1>2, <1>3

(* Each segment of a ring runs from the first point of a region to a last  *)
(* one, wherever the ring starts, and a ring whose regions are in one      *)
(* piece has a segment for each of them.                                   *)
THEOREM SegmentsStayOnRing == RingSpec => []SegmentsFollowRing
<1>1. RingInv => SegmentsFollowRing
  BY DEF RingInv
<1> QED
  BY <1>1, RingStarts, RingSteps, PTL DEF RingSpec
=============================================================================
