----------------------------- MODULE CropProofs -----------------------------
(***************************************************************************)
(* Proofs about CropTile, for every number of tiles, footprints and point  *)
(* clouds: the buildings of a tile are made of their own data and have a   *)
(* floor where there is a point to take one from.                          *)
(***************************************************************************)
EXTENDS CropTile, SequenceTheorems, FiniteSetTheorems, TLAPS

Place == Nat \X Nat
Classes == {"ground", "building"}
PointType == [of : Place, where : {"inside", "buffer"},
              class : Classes \cup {"other", "undefined"}]
Cloud == Seq(PointType)

Building ==
  [attribute_index : Nat, pc_source : Clouds,
   pointcloud_ground : SUBSET Place, pointcloud_building : SUBSET Place,
   h_ground : Place, raster : SUBSET Place,
   pointcloud_insufficient : BOOLEAN, pc_year : SUBSET Place]

\* The point clouds that have been cropped for this tile.
Cropped ==
  IF pc = "crop" THEN Clouds \ todo
  ELSE IF pc = "tile" THEN {} ELSE Clouds

\* The type of every variable. What was cropped has an entry for each
\* footprint, behind what a failed tile may have left.
TypeOK ==
  /\ strategy \in TerrainStrategy
  /\ dated \subseteq Clouds
  /\ h_ground_fallback \in BOOLEAN
  /\ max_nodata_fraction \in Nat
  /\ tile \in Nat \ {0}
  /\ N_fp \in Nat
  /\ min_building_points \in [1..N_fp -> Nat]
  /\ todo \subseteq Clouds
  /\ pc \in {"tile", "crop", "buildings", "exited"}
  /\ leftover \in BOOLEAN
  /\ files \in [Clouds -> Seq(Content)]
  /\ building_clouds \in [Clouds -> Seq(Cloud)]
  /\ ground_elevations \in [Clouds -> Seq(Place)]
  /\ terrain_grid_elevations \in [Clouds -> Seq(Place)]
  /\ acquisition_years \in [Clouds -> Seq(SUBSET Place)]
  /\ pointcloud_insufficient \in [Clouds -> Seq(BOOLEAN)]
  /\ min_ground_elevation \in [Clouds -> Place]
  /\ building_rasters \in [Clouds -> Seq(SUBSET Place)]
  /\ nodata_fractions \in [Clouds -> Seq(Nat)]
  /\ buildings \in Seq(Building)

Lengths ==
  /\ \A p \in Cropped :
       /\ Len(files[p]) = N_fp
       /\ Len(building_clouds[p]) = N_fp
       /\ Len(ground_elevations[p]) >= N_fp
       /\ Len(terrain_grid_elevations[p]) >= N_fp
       /\ Len(acquisition_years[p]) = N_fp
       /\ Len(pointcloud_insufficient[p]) = N_fp
  /\ pc \in {"buildings", "exited"} =>
       \A p \in Clouds : /\ Len(building_rasters[p]) = N_fp
                         /\ Len(nodata_fractions[p]) = N_fp
  /\ pc \in {"tile", "crop"} => buildings = <<>>

\* Without an exception, what will be cropped has no data yet, and what was
\* cropped has that of the footprint only.
NoData(p) ==
  /\ building_clouds[p] = <<>>
  /\ ground_elevations[p] = <<>>
  /\ terrain_grid_elevations[p] = <<>>
  /\ acquisition_years[p] = <<>>

OwnPoints(p, i) ==
  \A k \in 1..Len(building_clouds[p][i]) :
    /\ building_clouds[p][i][k].of = Here(i)
    /\ building_clouds[p][i][k].class \in Classes

OwnData(p, i) ==
  /\ OwnPoints(p, i)
  /\ ground_elevations[p][i] \in {Here(i), Null}
  /\ terrain_grid_elevations[p][i] \in {WholeTile, Null}
  /\ acquisition_years[p][i] \subseteq {Here(i)}
  /\ pointcloud_insufficient[p][i] <=> files[p][i].building < min_building_points[i]

CleanInv ==
  ~ leftover =>
    /\ \A p \in Clouds \ Cropped : NoData(p)
    /\ \A p \in Cropped : \A i \in Footprints : OwnData(p, i)
    /\ pc \in {"buildings", "exited"} =>
         \A p \in Clouds, i \in Footprints :
           /\ building_rasters[p][i] \subseteq {Here(i)}
           /\ nodata_fractions[p][i] = files[p][i].nodata

\* The minimum is that of this tile's points, whatever failed before.
MinimumInv ==
  \A p \in Cropped :
    /\ min_ground_elevation[p] \in {WholeTile, Null}
    /\ min_ground_elevation[p] = Null => \A i \in Footprints : ~ HasPoints(files[p][i])

\* What was made of the footprints so far.
BuildingInv ==
  /\ OwnDataUnlessLeftover
  /\ InsufficientByOwnData
  /\ FloorUnlessNoPoints

CropInv == TypeOK /\ Lengths /\ CleanInv /\ MinimumInv /\ BuildingInv

-----------------------------------------------------------------------------
(* Vectors.                                                                *)

LEMMA Vector ==
  ASSUME NEW S, NEW n \in Nat, NEW f \in [1..n -> S]
  PROVE  f \in Seq(S) /\ Len(f) = n
<1>1. f \in Seq(S)
  BY SeqDef
<1>2. Len(f) \in Nat /\ DOMAIN f = 1..Len(f) /\ DOMAIN f = 1..n
  BY <1>1, LenProperties
<1> QED
  BY <1>1, <1>2

LEMMA ResizeVector ==
  ASSUME NEW S, NEW s \in Seq(S), NEW n \in Nat, NEW d \in S
  PROVE  /\ Resize(s, n, d) \in Seq(S)
         /\ Len(Resize(s, n, d)) = n
<1>1. Len(s) \in Nat /\ \A i \in 1..Len(s) : s[i] \in S
  BY LenProperties, ElementOfSeq
<1>2. \A i \in 1..n : i <= Len(s) => s[i] \in S
  BY <1>1
<1>3. Resize(s, n, d) \in [1..n -> S]
  BY <1>2 DEF Resize
<1> QED
  BY <1>3, Vector

\* An entry more for each footprint, behind those that were there.
LEMMA ExtendVector ==
  ASSUME NEW S, NEW s \in Seq(S), NEW n \in Nat, NEW f \in [1..n -> S]
  PROVE  /\ s \o f \in Seq(S)
         /\ Len(s \o f) \in Nat /\ Len(s \o f) >= n
         /\ s = <<>> => s \o f = f
<1>1. f \in Seq(S) /\ Len(f) = n
  BY Vector
<1>2. s \o f \in Seq(S) /\ Len(s \o f) = Len(s) + n /\ Len(s) \in Nat
  BY <1>1, ConcatProperties, LenProperties
<1>3. s = <<>> => s \o f = f
  BY <1>1, ConcatEmptySeq
<1> QED
  BY <1>2, <1>3

-----------------------------------------------------------------------------
(* The points of one footprint.                                            *)

\* First the building points, then one of the ground, if there is any.
LEMMA InsideFacts ==
  ASSUME NEW content \in Content
  PROVE  /\ InsideClasses(content) \in Seq(Classes)
         /\ Len(InsideClasses(content)) \in Nat
         /\ {k \in 1..Len(InsideClasses(content)) : InsideClasses(content)[k] = "building"}
              = 1..content.building
<1> DEFINE n == content.building
           bld == [k \in 1..n |-> "building"]
           grd == IF "inside" \in content.ground THEN <<"ground">> ELSE <<>>
<1>1. n \in Nat
  BY DEF Content
<1>2. bld \in Seq(Classes) /\ Len(bld) = n
  <2>1. bld \in [1..n -> Classes]
    BY DEF Classes
  <2> QED
    BY <1>1, <2>1, Vector
<1>3. grd \in Seq(Classes) /\ Len(grd) \in Nat /\ \A k \in 1..Len(grd) : grd[k] = "ground"
  <2>1. /\ <<"ground">> \in Seq(Classes) /\ Len(<<"ground">>) = 1 /\ <<"ground">>[1] = "ground"
        /\ <<>> \in Seq(Classes) /\ Len(<<>>) = 0
    BY DEF Classes
  <2>2. CASE "inside" \in content.ground
    <3>1. grd = <<"ground">>
      BY <2>2
    <3> HIDE DEF grd
    <3> QED
      BY <2>1, <3>1
  <2>3. CASE "inside" \notin content.ground
    <3>1. grd = <<>>
      BY <2>3
    <3> HIDE DEF grd
    <3> QED
      BY <2>1, <3>1
  <2> QED
    BY <2>2, <2>3
<1>4. InsideClasses(content) = bld \o grd
  BY DEF InsideClasses
<1>5. \A k \in 1..n : bld[k] = "building"
  OBVIOUS
<1> HIDE DEF bld, grd, n
<1>6. /\ bld \o grd \in Seq(Classes) /\ Len(bld \o grd) = n + Len(grd)
      /\ \A k \in 1..(n + Len(grd)) :
           (bld \o grd)[k] = IF k <= n THEN bld[k] ELSE grd[k - n]
  BY <1>1, <1>2, <1>3, ConcatProperties
<1>7. \A k \in 1..(n + Len(grd)) : (bld \o grd)[k] = IF k <= n THEN "building" ELSE "ground"
  BY <1>1, <1>3, <1>5, <1>6
<1>8. ASSUME NEW k \in 1..(n + Len(grd))
      PROVE  (bld \o grd)[k] = "building" <=> k \in 1..n
  <2>1. k \in Nat /\ k >= 1
    BY <1>1, <1>3
  <2>2. (bld \o grd)[k] = IF k <= n THEN "building" ELSE "ground"
    BY <1>7
  <2>3. k \in 1..n <=> k <= n
    BY <1>1, <2>1
  <2> QED
    BY <2>2, <2>3
<1>9. 1..n \subseteq 1..(n + Len(grd))
  BY <1>1, <1>3
<1>10. {k \in 1..(n + Len(grd)) : (bld \o grd)[k] = "building"} = 1..n
  BY <1>8, <1>9
<1> QED
  BY <1>1, <1>3, <1>4, <1>6, <1>10 DEF n

LEMMA HereIsPlace ==
  ASSUME TypeOK, NEW i \in Footprints
  PROVE  /\ Here(i) \in Place /\ WholeTile \in Place /\ Null \in Place
         /\ User \in Place /\ Here(i) # Null /\ WholeTile # Null /\ User # Null
BY DEF TypeOK, Footprints, Here, WholeTile, Null, User, Place

LEMMA InsideTyped ==
  ASSUME TypeOK, NEW i \in Footprints, NEW content \in Content
  PROVE  /\ InsidePoints(i, content) \in Cloud
         /\ Len(InsidePoints(i, content)) = Len(InsideClasses(content))
         /\ \A k \in 1..Len(InsideClasses(content)) :
              InsidePoints(i, content)[k] = Point(Here(i), "inside", InsideClasses(content)[k])
<1> DEFINE c == InsideClasses(content)
<1>1. c \in Seq(Classes) /\ Len(c) \in Nat
  BY InsideFacts
<1>2. \A k \in 1..Len(c) : c[k] \in Classes
  BY <1>1, ElementOfSeq
<1>3. \A k \in 1..Len(c) : Point(Here(i), "inside", c[k]) \in PointType
  BY <1>2, HereIsPlace DEF Point, PointType
<1>4. InsidePoints(i, content) = [k \in 1..Len(c) |-> Point(Here(i), "inside", c[k])]
  BY DEF InsidePoints
<1> HIDE DEF c
<1>5. InsidePoints(i, content) \in [1..Len(c) -> PointType]
  BY <1>3, <1>4
<1> QED
  BY <1>1, <1>4, <1>5, Vector DEF c, Cloud

LEMMA ReclassifiedTyped ==
  ASSUME NEW points \in Cloud, NEW classes \in Seq(Classes)
  PROVE  /\ Reclassified(points, classes) \in Cloud
         /\ Len(Reclassified(points, classes)) = Len(points)
         /\ Len(points) \in Nat
         /\ \A k \in 1..Len(points) :
              /\ Reclassified(points, classes)[k].of = points[k].of
              /\ Reclassified(points, classes)[k].class =
                   IF k <= Len(classes) THEN classes[k] ELSE "undefined"
<1>1. Len(points) \in Nat /\ Len(classes) \in Nat
  BY LenProperties DEF Cloud
<1>2. \A k \in 1..Len(points) : points[k] \in PointType
  BY ElementOfSeq DEF Cloud
<1>3. \A k \in 1..Len(points) : k <= Len(classes) => classes[k] \in Classes
  BY <1>1, ElementOfSeq
<1> DEFINE class(k) == IF k <= Len(classes) THEN classes[k] ELSE "undefined"
<1>4. \A k \in 1..Len(points) : class(k) \in Classes \cup {"other", "undefined"}
  BY <1>3
<1>5. Reclassified(points, classes) = [k \in 1..Len(points) |-> [points[k] EXCEPT !.class = class(k)]]
  BY DEF Reclassified
<1> HIDE DEF class
<1>6. \A k \in 1..Len(points) :
        /\ [points[k] EXCEPT !.class = class(k)] \in PointType
        /\ [points[k] EXCEPT !.class = class(k)].of = points[k].of
        /\ [points[k] EXCEPT !.class = class(k)].class = class(k)
  BY <1>2, <1>4 DEF PointType
<1>7. Reclassified(points, classes) \in [1..Len(points) -> PointType]
  BY <1>5, <1>6
<1>8. Reclassified(points, classes) \in Cloud /\ Len(Reclassified(points, classes)) = Len(points)
  BY <1>1, <1>7, Vector DEF Cloud
<1> QED
  BY <1>1, <1>5, <1>6, <1>8 DEF class

-----------------------------------------------------------------------------
(* What the collector puts into the vectors of a point cloud.              *)

LEMMA CollectedTyped ==
  ASSUME TypeOK, NEW p \in Clouds, NEW content \in [Footprints -> Contents]
  PROVE  /\ Collected(p, content) \in [Footprints -> Cloud]
         /\ building_clouds[p] = <<>> => \A i \in Footprints :
              LET points == Collected(p, content)[i]
                  classes == InsideClasses(content[i])
              IN  /\ Len(points) = Len(classes)
                  /\ \A k \in 1..Len(points) :
                       points[k].of = Here(i) /\ points[k].class = classes[k]
<1> DEFINE old == Resize(building_clouds[p], N_fp, <<>>)
           new(i) == InsidePoints(i, content[i])
           classes(i) == InsideClasses(content[i])
<1>1. /\ N_fp \in Nat /\ building_clouds[p] \in Seq(Cloud) /\ <<>> \in Cloud
  BY EmptySeq DEF TypeOK, Cloud
<1>2. /\ old \in Seq(Cloud) /\ Len(old) = N_fp
      /\ building_clouds[p] = <<>> => \A i \in Footprints : old[i] = <<>>
  <2>1. old \in Seq(Cloud) /\ Len(old) = N_fp
    BY <1>1, ResizeVector
  <2>2. ASSUME building_clouds[p] = <<>>, NEW i \in 1..N_fp
        PROVE  old[i] = <<>>
    <3>1. Len(building_clouds[p]) = 0
      BY <2>2, EmptySeq
    <3> QED
      BY <1>1, <3>1 DEF Resize
  <2> HIDE DEF old
  <2> QED
    BY <2>1, <2>2 DEF Footprints
<1>3. ASSUME NEW i \in Footprints
      PROVE  /\ content[i] \in Content
             /\ old[i] \in Cloud
             /\ new(i) \in Cloud
             /\ Len(new(i)) = Len(classes(i))
             /\ classes(i) \in Seq(Classes)
             /\ \A k \in 1..Len(classes(i)) : new(i)[k] = Point(Here(i), "inside", classes(i)[k])
  <2>1. content[i] \in Content
    BY <1>3, CropAssumption
  <2>2. i \in 1..Len(old)
    BY <1>2, <1>3 DEF Footprints
  <2>3. old[i] \in Cloud
    BY <1>2, <2>2, ElementOfSeq
  <2> QED
    BY <2>1, <2>3, <1>3, InsideTyped, InsideFacts
<1>4. Collected(p, content) = [i \in Footprints |-> Reclassified(old[i] \o new(i), classes(i))]
  BY DEF Collected
<1> HIDE DEF old, new, classes
<1>5. ASSUME NEW i \in Footprints
      PROVE  /\ Reclassified(old[i] \o new(i), classes(i)) \in Cloud
             /\ old[i] = <<>> =>
                  /\ Len(Reclassified(old[i] \o new(i), classes(i))) = Len(classes(i))
                  /\ \A k \in 1..Len(classes(i)) :
                       /\ Reclassified(old[i] \o new(i), classes(i))[k].of = Here(i)
                       /\ Reclassified(old[i] \o new(i), classes(i))[k].class = classes(i)[k]
  <2>1. /\ old[i] \in Cloud /\ new(i) \in Cloud
        /\ Len(new(i)) = Len(classes(i)) /\ classes(i) \in Seq(Classes)
    BY <1>3, <1>5
  <2>2. old[i] \o new(i) \in Cloud
    BY <2>1, ConcatProperties DEF Cloud
  <2>3. old[i] = <<>> => old[i] \o new(i) = new(i)
    BY <2>1, ConcatEmptySeq DEF Cloud
  <2>4. ASSUME NEW k \in 1..Len(classes(i)) PROVE new(i)[k].of = Here(i)
    <3>1. new(i)[k] = Point(Here(i), "inside", classes(i)[k])
      BY <1>3, <1>5, <2>4
    <3> QED
      BY <3>1 DEF Point
  <2> DEFINE all == old[i] \o new(i)
             r == Reclassified(all, classes(i))
  <2> HIDE DEF all
  <2>5. /\ r \in Cloud /\ Len(r) = Len(all) /\ Len(all) \in Nat
        /\ \A k \in 1..Len(all) :
             /\ r[k].of = all[k].of
             /\ r[k].class = IF k <= Len(classes(i)) THEN classes(i)[k] ELSE "undefined"
    BY <2>1, <2>2, ReclassifiedTyped DEF all
  <2> HIDE DEF r
  <2>6. ASSUME old[i] = <<>>
        PROVE  /\ Len(r) = Len(classes(i))
               /\ \A k \in 1..Len(classes(i)) : r[k].of = Here(i) /\ r[k].class = classes(i)[k]
    <3>1. all = new(i)
      BY <2>3, <2>6 DEF all
    <3> QED
      BY <2>1, <2>4, <2>5, <3>1
  <2> QED
    BY <2>5, <2>6 DEF r, all
<1>6. Collected(p, content) \in [Footprints -> Cloud]
  BY <1>4, <1>5
<1>7. \A i \in Footprints : Collected(p, content)[i] = Reclassified(old[i] \o new(i), classes(i))
  BY <1>4
<1>8. building_clouds[p] = <<>> => \A i \in Footprints :
        /\ Len(Collected(p, content)[i]) = Len(classes(i))
        /\ \A k \in 1..Len(Collected(p, content)[i]) :
             /\ Collected(p, content)[i][k].of = Here(i)
             /\ Collected(p, content)[i][k].class = classes(i)[k]
  BY <1>2, <1>5, <1>7
<1> QED
  BY <1>6, <1>8 DEF classes

LEMMA MergedTyped ==
  ASSUME TypeOK, NEW content \in [Footprints -> Contents],
         NEW clouds \in [Footprints -> Cloud], NEW first \in Nat
  PROVE  /\ Merged(clouds, content, first) \in [Footprints -> Cloud]
         /\ \A i \in Footprints :
              LET points == clouds[i]
                  merged == Merged(clouds, content, first)[i]
                  classes == InsideClasses(content[i])
              IN  /\ Len(points) = Len(classes)
                  /\ \A k \in 1..Len(points) :
                       points[k].of = Here(i) /\ points[k].class = classes[k]
                  => \A k \in 1..Len(merged) :
                       merged[k].of = Here(i) /\ merged[k].class \in Classes
<1> DEFINE classes(i) == InsideClasses(content[i])
           buffer(i) == Point(Here(i), "buffer", "ground")
           more(i) == Append(clouds[i], buffer(i))
           all(i) == Append(classes(i), "ground")
           merged(i) == IF i >= first /\ "buffer" \in content[i].ground
                        THEN Reclassified(more(i), all(i)) ELSE clouds[i]
           Known(i) == /\ Len(clouds[i]) = Len(classes(i))
                       /\ \A k \in 1..Len(clouds[i]) :
                            clouds[i][k].of = Here(i) /\ clouds[i][k].class = classes(i)[k]
<1>1. ASSUME NEW i \in Footprints
      PROVE  /\ clouds[i] \in Cloud
             /\ classes(i) \in Seq(Classes)
             /\ Len(classes(i)) \in Nat
             /\ buffer(i) \in PointType /\ buffer(i).of = Here(i)
  <2>1. content[i] \in Content
    BY <1>1, CropAssumption
  <2>2. buffer(i) \in PointType /\ buffer(i).of = Here(i)
    BY <1>1, HereIsPlace DEF Point, PointType, Classes
  <2> QED
    BY <2>1, <2>2, InsideFacts
<1>2. Merged(clouds, content, first) = [i \in Footprints |-> merged(i)]
  BY DEF Merged
<1> HIDE DEF classes, buffer
<1>3. ASSUME NEW i \in Footprints
      PROVE  /\ more(i) \in Cloud /\ Len(more(i)) = Len(clouds[i]) + 1
             /\ \A k \in 1..Len(clouds[i]) : more(i)[k] = clouds[i][k]
             /\ more(i)[Len(clouds[i]) + 1] = buffer(i)
             /\ all(i) \in Seq(Classes) /\ Len(all(i)) = Len(classes(i)) + 1
             /\ \A k \in 1..Len(classes(i)) : all(i)[k] = classes(i)[k]
             /\ all(i)[Len(classes(i)) + 1] = "ground"
             /\ Len(clouds[i]) \in Nat
  <2>1. "ground" \in Classes
    BY DEF Classes
  <2> QED
    BY <1>1, <1>3, <2>1, AppendProperties, LenProperties DEF Cloud
<1> HIDE DEF more, all
<1>4. ASSUME NEW i \in Footprints, Known(i)
      PROVE  LET r == Reclassified(more(i), all(i))
             IN  /\ Len(r) = Len(classes(i)) + 1
                 /\ \A k \in 1..Len(r) : r[k].of = Here(i)
                 /\ \A k \in 1..Len(classes(i)) : r[k].class = classes(i)[k]
                 /\ r[Len(classes(i)) + 1].class = "ground"
  <2> DEFINE r == Reclassified(more(i), all(i))
             n == Len(classes(i))
  <2>1. n \in Nat /\ Len(more(i)) = n + 1 /\ Len(all(i)) = n + 1
    BY <1>1, <1>3, <1>4
  <2>2. /\ Len(r) = n + 1
        /\ \A k \in 1..(n + 1) : r[k].of = more(i)[k].of
        /\ \A k \in 1..(n + 1) : r[k].class = all(i)[k]
    <3>1. /\ Len(r) = Len(more(i))
          /\ \A k \in 1..Len(more(i)) :
               /\ r[k].of = more(i)[k].of
               /\ r[k].class = IF k <= Len(all(i)) THEN all(i)[k] ELSE "undefined"
      BY <1>3, <1>4, ReclassifiedTyped
    <3> HIDE DEF r
    <3> QED
      BY <2>1, <3>1
  <2>3. \A k \in 1..(n + 1) : more(i)[k].of = Here(i)
    <3> SUFFICES ASSUME NEW k \in 1..(n + 1) PROVE more(i)[k].of = Here(i)
      OBVIOUS
    <3>1. CASE k = n + 1
      BY <1>1, <1>3, <1>4, <3>1
    <3>2. CASE k \in 1..n
      BY <1>3, <1>4, <3>2
    <3> QED
      BY <2>1, <3>1, <3>2
  <2>4. n + 1 \in 1..(n + 1) /\ \A k \in 1..n : k \in 1..(n + 1)
    BY <2>1
  <2> HIDE DEF r, n
  <2>5. /\ \A k \in 1..n : r[k].class = classes(i)[k]
        /\ r[n + 1].class = "ground"
    BY <2>2, <2>4, <1>3, <1>4 DEF n
  <2> QED
    BY <2>2, <2>3, <2>5 DEF r, n
<1>5. \A i \in Footprints : merged(i) \in Cloud
  BY <1>1, <1>3, ReclassifiedTyped
<1>6. ASSUME NEW i \in Footprints, Known(i)
      PROVE  \A k \in 1..Len(merged(i)) : merged(i)[k].of = Here(i) /\ merged(i)[k].class \in Classes
  <2>1. \A k \in 1..Len(classes(i)) : classes(i)[k] \in Classes
    BY <1>1, <1>6, ElementOfSeq
  <2>2. CASE i >= first /\ "buffer" \in content[i].ground
    <3> DEFINE r == Reclassified(more(i), all(i))
               n == Len(classes(i))
    <3>1. /\ n \in Nat /\ Len(r) = n + 1
          /\ \A k \in 1..Len(r) : r[k].of = Here(i)
          /\ \A k \in 1..n : r[k].class = classes(i)[k]
          /\ r[n + 1].class = "ground"
      BY <1>1, <1>4, <1>6
    <3>2. merged(i) = r
      BY <2>2
    <3> HIDE DEF r, n, merged
    <3>3. "ground" \in Classes
      BY DEF Classes
    <3>4. \A k \in 1..Len(r) : r[k].class \in Classes
      <4> SUFFICES ASSUME NEW k \in 1..Len(r) PROVE r[k].class \in Classes
        OBVIOUS
      <4>1. CASE k = n + 1
        BY <3>1, <3>3, <4>1
      <4>2. CASE k \in 1..n
        BY <2>1, <3>1, <4>2 DEF n
      <4> QED
        BY <3>1, <4>1, <4>2
    <3> QED
      BY <3>1, <3>2, <3>4
  <2>3. CASE ~ (i >= first /\ "buffer" \in content[i].ground)
    <3>1. merged(i) = clouds[i]
      BY <2>3
    <3>2. Known(i)
      BY <1>6
    <3>3. \A k \in 1..Len(clouds[i]) : clouds[i][k].of = Here(i) /\ clouds[i][k].class \in Classes
      BY <2>1, <3>2
    <3> HIDE DEF merged
    <3> QED
      BY <3>1, <3>3
  <2> QED
    BY <2>2, <2>3
<1> HIDE DEF merged
<1>7. Merged(clouds, content, first) \in [Footprints -> Cloud]
  BY <1>2, <1>5
<1>8. \A i \in Footprints : Merged(clouds, content, first)[i] = merged(i)
  BY <1>2
<1> QED
  BY <1>6, <1>7, <1>8 DEF classes

Grounds(p, content) ==
  ground_elevations[p] \o [i \in Footprints |-> ElevationAt(i, content)]

Grids(p, content) ==
  terrain_grid_elevations[p] \o [i \in Footprints |-> GridElevationAt(i, content)]

LEMMA CroppedVectors ==
  ASSUME TypeOK, NEW p \in Clouds, NEW content \in [Footprints -> Contents],
         NEW first \in 1..(N_fp + 1), NEW flags \in [Footprints -> BOOLEAN]
  PROVE  /\ content \in Seq(Content) /\ Len(content) = N_fp
         /\ Merged(Collected(p, content), content, first) \in Seq(Cloud)
         /\ Len(Merged(Collected(p, content), content, first)) = N_fp
         /\ Grounds(p, content) \in Seq(Place) /\ Len(Grounds(p, content)) >= N_fp
         /\ Grids(p, content) \in Seq(Place) /\ Len(Grids(p, content)) >= N_fp
         /\ Years(p, content) \in Seq(SUBSET Place) /\ Len(Years(p, content)) = N_fp
         /\ InsufficientCleared(p) \o flags = flags
         /\ flags \in Seq(BOOLEAN) /\ Len(flags) = N_fp
<1>1. N_fp \in Nat /\ Footprints = 1..N_fp /\ first \in Nat
  BY DEF TypeOK, Footprints
<1>2. content \in [1..N_fp -> Content]
  BY <1>1, CropAssumption
<1>3. Merged(Collected(p, content), content, first) \in [1..N_fp -> Cloud]
  BY <1>1, CollectedTyped, MergedTyped
<1>4. [i \in Footprints |-> ElevationAt(i, content)] \in [1..N_fp -> Place]
  BY <1>1, HereIsPlace DEF ElevationAt
<1>5. [i \in Footprints |-> GridElevationAt(i, content)] \in [1..N_fp -> Place]
  BY <1>1, HereIsPlace DEF GridElevationAt
<1>6. Years(p, content) \in [1..N_fp -> SUBSET Place]
  <2> DEFINE old == Resize(acquisition_years[p], N_fp, {})
             years == [i \in Footprints |-> old[i] \cup
                         IF InsideClasses(content[i]) # <<>> THEN {Here(i)} ELSE {}]
  <2>1. acquisition_years[p] \in Seq(SUBSET Place)
    BY DEF TypeOK
  <2>2. old \in Seq(SUBSET Place) /\ Len(old) = N_fp
    BY <1>1, <2>1, ResizeVector
  <2> HIDE DEF old
  <2>3. \A i \in 1..N_fp : old[i] \in SUBSET Place
    BY <2>2, ElementOfSeq
  <2>4. years \in [1..N_fp -> SUBSET Place]
    BY <1>1, <2>3, HereIsPlace
  <2>5. [i \in Footprints |-> {}] \in [1..N_fp -> SUBSET Place]
    BY <1>1
  <2>6. Years(p, content) = YearOrDate(p, years)
    BY DEF Years, old
  <2> HIDE DEF years
  <2> QED
    BY <2>4, <2>5, <2>6 DEF YearOrDate
<1>7. flags \in [1..N_fp -> BOOLEAN]
  BY <1>1
<1>8. flags \in Seq(BOOLEAN) /\ Len(flags) = N_fp
  BY <1>1, <1>7, Vector
<1>9. InsufficientCleared(p) \o flags = flags
  BY <1>8, ConcatEmptySeq DEF InsufficientCleared
<1>10. content \in Seq(Content) /\ Len(content) = N_fp
  BY <1>1, <1>2, Vector
<1>11. /\ Merged(Collected(p, content), content, first) \in Seq(Cloud)
       /\ Len(Merged(Collected(p, content), content, first)) = N_fp
  BY <1>1, <1>3, Vector
<1>12. Years(p, content) \in Seq(SUBSET Place) /\ Len(Years(p, content)) = N_fp
  BY <1>1, <1>6, Vector
<1>13. ground_elevations[p] \in Seq(Place) /\ terrain_grid_elevations[p] \in Seq(Place)
  BY DEF TypeOK
<1>14. Grounds(p, content) \in Seq(Place) /\ Len(Grounds(p, content)) >= N_fp
  BY <1>1, <1>4, <1>13, ExtendVector DEF Grounds
<1>15. Grids(p, content) \in Seq(Place) /\ Len(Grids(p, content)) >= N_fp
  BY <1>1, <1>5, <1>13, ExtendVector DEF Grids
<1> QED
  BY <1>8, <1>9, <1>10, <1>11, <1>12, <1>14, <1>15

\* Into empty vectors goes what is the footprint's own.
LEMMA OwnVectors ==
  ASSUME TypeOK, NEW p \in Clouds, NoData(p), NEW content \in [Footprints -> Contents],
         NEW first \in 1..(N_fp + 1), NEW flags \in [Footprints -> BOOLEAN],
         \A i \in Footprints :
           MayBeInsufficient(Collected(p, content)[i], min_building_points[i], flags[i]),
         NEW i \in Footprints
  PROVE  LET cloud == Merged(Collected(p, content), content, first)[i]
         IN  /\ \A k \in 1..Len(cloud) : cloud[k].of = Here(i) /\ cloud[k].class \in Classes
             /\ Grounds(p, content)[i] \in {Here(i), Null}
             /\ Grids(p, content)[i] \in {WholeTile, Null}
             /\ Years(p, content)[i] \subseteq {Here(i)}
             /\ flags[i] <=> content[i].building < min_building_points[i]
<1>1. N_fp \in Nat /\ Footprints = 1..N_fp /\ first \in Nat /\ i \in 1..N_fp
  BY DEF TypeOK, Footprints
<1> DEFINE points == Collected(p, content)[i]
           classes == InsideClasses(content[i])
<1>2. /\ Collected(p, content) \in [Footprints -> Cloud]
      /\ Len(points) = Len(classes)
      /\ \A k \in 1..Len(points) : points[k].of = Here(i) /\ points[k].class = classes[k]
  BY CollectedTyped DEF NoData
<1>3. \A k \in 1..Len(Merged(Collected(p, content), content, first)[i]) :
        /\ Merged(Collected(p, content), content, first)[i][k].of = Here(i)
        /\ Merged(Collected(p, content), content, first)[i][k].class \in Classes
  BY <1>1, <1>2, MergedTyped
<1>4. Grounds(p, content)[i] \in {Here(i), Null}
  <2>1. [j \in Footprints |-> ElevationAt(j, content)] \in [1..N_fp -> Place]
    BY <1>1, HereIsPlace DEF ElevationAt
  <2>2. ground_elevations[p] \in Seq(Place) /\ ground_elevations[p] = <<>>
    BY DEF TypeOK, NoData
  <2>3. Grounds(p, content) = [j \in Footprints |-> ElevationAt(j, content)]
    BY <1>1, <2>1, <2>2, Vector, ConcatEmptySeq DEF Grounds
  <2> QED
    BY <1>1, <2>3 DEF ElevationAt
<1>5. Grids(p, content)[i] \in {WholeTile, Null}
  <2>1. [j \in Footprints |-> GridElevationAt(j, content)] \in [1..N_fp -> Place]
    BY <1>1, HereIsPlace DEF GridElevationAt
  <2>2. terrain_grid_elevations[p] \in Seq(Place) /\ terrain_grid_elevations[p] = <<>>
    BY DEF TypeOK, NoData
  <2>3. Grids(p, content) = [j \in Footprints |-> GridElevationAt(j, content)]
    BY <1>1, <2>1, <2>2, Vector, ConcatEmptySeq DEF Grids
  <2> QED
    BY <1>1, <2>3 DEF GridElevationAt
<1>6. Years(p, content)[i] \subseteq {Here(i)}
  <2>1. Len(acquisition_years[p]) = 0
    BY EmptySeq DEF NoData
  <2>2. Resize(acquisition_years[p], N_fp, {})[i] = {}
    BY <1>1, <2>1 DEF Resize
  <2> QED
    BY <2>2 DEF Years, YearOrDate
<1>7. flags[i] <=> content[i].building < min_building_points[i]
  <2> DEFINE n == content[i].building
  <2>1. content[i] \in Content /\ flags[i] \in BOOLEAN
    BY CropAssumption
  <2>2. /\ {k \in 1..Len(classes) : classes[k] = "building"} = 1..n
        /\ classes \in Seq(Classes)
        /\ n \in Nat
    BY <2>1, InsideFacts DEF Content
  <2>3. \A k \in 1..Len(classes) : classes[k] # "undefined"
    BY <2>2, ElementOfSeq DEF Classes
  <2>4. MayBeInsufficient(points, min_building_points[i], flags[i])
    OBVIOUS
  <2> HIDE DEF points, classes, n
  <2>5. /\ {k \in 1..Len(points) : points[k].class = "building"} = 1..n
        /\ {k \in 1..Len(points) : points[k].class = "undefined"} = {}
    BY <1>2, <2>2, <2>3
  <2>6. Cardinality(1..n) = n
    <3>1. 1 \in Int /\ n \in Int
      BY <2>2
    <3>2. Cardinality(1..n) = IF 1 > n THEN 0 ELSE n - 1 + 1
      BY <3>1, FS_Interval
    <3> QED
      BY <2>2, <3>2
  <2>7. /\ Cardinality({k \in 1..Len(points) : points[k].class = "building"}) = n
        /\ Cardinality({k \in 1..Len(points) : points[k].class = "building"}
                       \cup {k \in 1..Len(points) : points[k].class = "undefined"}) = n
    BY <2>5, <2>6
  <2>8. \E count \in n..n : flags[i] <=> count < min_building_points[i]
    BY <2>4, <2>7 DEF MayBeInsufficient
  <2>9. flags[i] <=> n < min_building_points[i]
    BY <2>2, <2>8
  <2> QED
    BY <2>9 DEF n
<1> QED
  BY <1>3, <1>4, <1>5, <1>6, <1>7

-----------------------------------------------------------------------------
(* Each action keeps the invariant.                                        *)

\* What the buildings were made of does not change.
LEMMA BuildingsStay ==
  ASSUME BuildingInv, UNCHANGED <<buildings, tile, N_fp, min_building_points, max_nodata_fraction, files,
                     min_ground_elevation, leftover>>
  PROVE  BuildingInv'
<1>1. /\ Footprints' = Footprints /\ WholeTile' = WholeTile /\ \A i : Here(i)' = Here(i)
  BY DEF Footprints, WholeTile, Here
<1>2. OwnDataOnly' <=> OwnDataOnly
  BY <1>1 DEF OwnDataOnly, Null, User
<1>3. InsufficientByOwnData' <=> InsufficientByOwnData
  BY DEF InsufficientByOwnData
<1>4. FloorUnlessNoPoints' <=> FloorUnlessNoPoints
  BY <1>1 DEF FloorUnlessNoPoints, Null
<1> QED
  BY <1>2, <1>3, <1>4 DEF BuildingInv, OwnDataUnlessLeftover

LEMMA NoBuildingYet ==
  ASSUME buildings' = <<>>
  PROVE  BuildingInv'
<1>1. {buildings'[j] : j \in 1..Len(buildings')} = {}
  BY EmptySeq
<1> QED
  BY <1>1 DEF BuildingInv, OwnDataUnlessLeftover, OwnDataOnly, InsufficientByOwnData,
              FloorUnlessNoPoints

LEMMA CropPointCloudKeeps ==
  ASSUME CropInv, NEW p \in Clouds, CropPointCloud(p)
  PROVE  CropInv'
<1>1. PICK content \in [Footprints -> Contents], elsewhere \in BOOLEAN,
           first \in 1..(N_fp + 1), flags \in [Footprints -> BOOLEAN] :
        /\ \A i \in Footprints :
             MayBeInsufficient(Collected(p, content)[i], min_building_points[i], flags[i])
        /\ files' = [files EXCEPT ![p] = content]
        /\ building_clouds' = [building_clouds EXCEPT ![p] =
             Merged(Collected(p, content), content, first)]
        /\ ground_elevations' = [ground_elevations EXCEPT ![p] =
             @ \o [i \in Footprints |-> ElevationAt(i, content)]]
        /\ terrain_grid_elevations' = [terrain_grid_elevations EXCEPT ![p] =
             @ \o [i \in Footprints |-> GridElevationAt(i, content)]]
        /\ acquisition_years' = [acquisition_years EXCEPT ![p] = Years(p, content)]
        /\ pointcloud_insufficient' = [pointcloud_insufficient EXCEPT ![p] =
             InsufficientCleared(p) \o flags]
        /\ min_ground_elevation' = [min_ground_elevation EXCEPT ![p] =
             IF elsewhere \/ \E i \in Footprints : HasPoints(content[i]) THEN WholeTile ELSE Null]
  BY DEF CropPointCloud
<1>2. /\ pc = "crop" /\ pc' = "crop" /\ p \in todo /\ todo' = todo \ {p}
      /\ UNCHANGED <<config, tile, N_fp, min_building_points, building_rasters,
                     nodata_fractions, buildings, leftover>>
  BY DEF CropPointCloud
<1>3. Cropped' = Cropped \cup {p} /\ p \notin Cropped /\ Cropped \subseteq Clouds
  BY <1>2 DEF Cropped, CropInv, TypeOK
<1>4. /\ Footprints' = Footprints /\ WholeTile' = WholeTile
      /\ \A i : Here(i)' = Here(i)
  BY <1>2 DEF Footprints, WholeTile, Here
<1>5. TypeOK
  BY DEF CropInv
<1> DEFINE clouds == Merged(Collected(p, content), content, first)
           grounds == Grounds(p, content)
           grids == Grids(p, content)
           years == Years(p, content)
           minimum == IF elsewhere \/ \E i \in Footprints : HasPoints(content[i]) THEN WholeTile ELSE Null
<1>6. /\ content \in Seq(Content) /\ Len(content) = N_fp
      /\ clouds \in Seq(Cloud) /\ Len(clouds) = N_fp
      /\ grounds \in Seq(Place) /\ Len(grounds) >= N_fp
      /\ grids \in Seq(Place) /\ Len(grids) >= N_fp
      /\ years \in Seq(SUBSET Place) /\ Len(years) = N_fp
      /\ InsufficientCleared(p) \o flags = flags
      /\ flags \in Seq(BOOLEAN) /\ Len(flags) = N_fp
  BY <1>1, <1>5, CroppedVectors
<1>7. minimum \in Place /\ minimum \in {WholeTile, Null}
      /\ (minimum = Null => \A i \in Footprints : ~ HasPoints(content[i]))
  BY <1>5 DEF WholeTile, Null, Place, TypeOK
<1>8. ASSUME ~ leftover, NEW i \in Footprints
      PROVE  /\ \A k \in 1..Len(clouds[i]) : clouds[i][k].of = Here(i) /\ clouds[i][k].class \in Classes
             /\ grounds[i] \in {Here(i), Null} /\ grids[i] \in {WholeTile, Null}
             /\ years[i] \subseteq {Here(i)}
             /\ flags[i] <=> content[i].building < min_building_points[i]
  <2>1. NoData(p)
    BY <1>3, <1>8 DEF CropInv, CleanInv
  <2> QED
    BY <1>1, <1>5, <1>8, <2>1, OwnVectors
<1> HIDE DEF clouds, grounds, grids, years, minimum
<1>9. /\ files' = [files EXCEPT ![p] = content]
      /\ building_clouds' = [building_clouds EXCEPT ![p] = clouds]
      /\ ground_elevations' = [ground_elevations EXCEPT ![p] = grounds]
      /\ terrain_grid_elevations' = [terrain_grid_elevations EXCEPT ![p] = grids]
      /\ acquisition_years' = [acquisition_years EXCEPT ![p] = years]
      /\ pointcloud_insufficient' = [pointcloud_insufficient EXCEPT ![p] = flags]
      /\ min_ground_elevation' = [min_ground_elevation EXCEPT ![p] = minimum]
  BY <1>1, <1>6 DEF clouds, grounds, grids, years, minimum, Grounds, Grids
<1>10. TypeOK'
  BY <1>2, <1>5, <1>6, <1>7, <1>9 DEF TypeOK, config
<1>11. /\ files'[p] = content /\ building_clouds'[p] = clouds
       /\ ground_elevations'[p] = grounds /\ terrain_grid_elevations'[p] = grids
       /\ acquisition_years'[p] = years /\ pointcloud_insufficient'[p] = flags
       /\ min_ground_elevation'[p] = minimum
  BY <1>5, <1>9 DEF TypeOK
<1>12. ASSUME NEW q \in Clouds \ {p}
       PROVE  /\ files'[q] = files[q] /\ building_clouds'[q] = building_clouds[q]
              /\ ground_elevations'[q] = ground_elevations[q]
              /\ terrain_grid_elevations'[q] = terrain_grid_elevations[q]
              /\ acquisition_years'[q] = acquisition_years[q]
              /\ pointcloud_insufficient'[q] = pointcloud_insufficient[q]
              /\ min_ground_elevation'[q] = min_ground_elevation[q]
  BY <1>5, <1>9 DEF TypeOK
<1>13. Lengths'
  <2>1. ASSUME NEW q \in Cropped'
        PROVE  /\ Len(files'[q]) = N_fp'
               /\ Len(building_clouds'[q]) = N_fp'
               /\ Len(ground_elevations'[q]) >= N_fp'
               /\ Len(terrain_grid_elevations'[q]) >= N_fp'
               /\ Len(acquisition_years'[q]) = N_fp'
               /\ Len(pointcloud_insufficient'[q]) = N_fp'
    <3>1. CASE q = p
      BY <1>2, <1>6, <1>11, <3>1
    <3>2. CASE q \in Cropped
      BY <1>2, <1>3, <1>12, <3>2 DEF CropInv, Lengths
    <3> QED
      BY <1>3, <2>1, <3>1, <3>2
  <2>2. buildings' = <<>>
    BY <1>2 DEF CropInv, Lengths
  <2> QED
    BY <1>2, <2>1, <2>2 DEF Lengths
<1>14. CleanInv'
  <2> SUFFICES ASSUME ~ leftover
               PROVE  /\ \A q \in Clouds \ Cropped' : NoData(q)'
                      /\ \A q \in Cropped' : \A i \in Footprints' : OwnData(q, i)'
    BY <1>2 DEF CleanInv
  <2>1. ASSUME NEW q \in Clouds \ Cropped'
        PROVE  NoData(q)'
    BY <1>3, <1>12, <2>1 DEF CropInv, CleanInv, NoData
  <2>2. ASSUME NEW q \in Cropped', NEW i \in Footprints'
        PROVE  OwnData(q, i)'
    <3>1. CASE q = p
      BY <1>2, <1>4, <1>8, <1>11, <2>2, <3>1 DEF OwnData, OwnPoints, Null
    <3>2. CASE q \in Cropped
      <4>1. OwnData(q, i)
        BY <1>4, <2>2, <3>2 DEF CropInv, CleanInv
      <4>2. q \in Clouds \ {p}
        BY <1>3, <3>2
      <4> QED
        BY <1>2, <1>4, <1>12, <4>1, <4>2 DEF OwnData, OwnPoints, Null
    <3> QED
      BY <1>3, <2>2, <3>1, <3>2
  <2> QED
    BY <2>1, <2>2
<1>15. MinimumInv'
  <2> SUFFICES ASSUME NEW q \in Cropped'
               PROVE  /\ min_ground_elevation'[q] \in {WholeTile, Null}
                      /\ min_ground_elevation'[q] = Null => \A i \in Footprints : ~ HasPoints(files'[q][i])
    BY <1>4 DEF MinimumInv, Null
  <2>1. CASE q = p
    BY <1>7, <1>11, <2>1
  <2>2. CASE q \in Cropped
    <3>1. /\ min_ground_elevation[q] \in {WholeTile, Null}
          /\ min_ground_elevation[q] = Null => \A i \in Footprints : ~ HasPoints(files[q][i])
      BY <2>2 DEF CropInv, MinimumInv
    <3>2. q \in Clouds \ {p}
      BY <1>3, <2>2
    <3> QED
      BY <1>12, <3>1, <3>2
  <2> QED
    BY <1>3, <2>1, <2>2
<1>16. BuildingInv'
  <2>1. buildings' = <<>>
    BY <1>2 DEF CropInv, Lengths
  <2> QED
    BY <2>1, NoBuildingYet
<1> QED
  BY <1>10, <1>13, <1>14, <1>15, <1>16 DEF CropInv

\* The tile is done, or given up.
LEMMA NextTileKeeps ==
  ASSUME CropInv, NextTile,
         \/ leftover' = FALSE /\ ClearScratch
         \/ leftover' = TRUE /\ UNCHANGED scratch
         \/ pc = "tile" /\ leftover' = leftover /\ UNCHANGED scratch
  PROVE  CropInv'
<1>1. /\ pc' = "tile" /\ buildings' = <<>> /\ tile' = tile + 1 /\ N_fp' = 0
      /\ min_building_points' = <<>> /\ todo' = {}
      /\ files' = [p \in Clouds |-> <<>>] /\ UNCHANGED config
  BY DEF NextTile
<1>2. Cropped' = {}
  BY <1>1 DEF Cropped
<1>3. \A S : <<>> \in Seq(S)
  BY EmptySeq
<1>4. NoScratch \in [Clouds -> Seq(Cloud)] /\ NoScratch \in [Clouds -> Seq(Place)]
      /\ NoScratch \in [Clouds -> Seq(SUBSET Place)] /\ NoScratch \in [Clouds -> Seq(Nat)]
  BY <1>3 DEF NoScratch
<1>5. files' \in [Clouds -> Seq(Content)] /\ buildings' \in Seq(Building)
  BY <1>1, <1>3
<1>6. TypeOK'
  <2>1. /\ strategy' \in TerrainStrategy /\ dated' \subseteq Clouds
        /\ h_ground_fallback' \in BOOLEAN /\ max_nodata_fraction' \in Nat
        /\ tile' \in Nat \ {0} /\ N_fp' \in Nat /\ min_building_points' \in [1..N_fp' -> Nat]
        /\ todo' \subseteq Clouds /\ pc' \in {"tile", "crop", "buildings", "exited"}
    BY <1>1 DEF CropInv, TypeOK, config
  <2> leftover' \in BOOLEAN
    BY DEF CropInv, TypeOK
  <2>2. CASE ClearScratch
    BY <1>4, <1>5, <2>1, <2>2 DEF ClearScratch, CropInv, TypeOK
  <2>3. CASE UNCHANGED scratch
    BY <1>5, <2>1, <2>3 DEF scratch, CropInv, TypeOK
  <2> QED
    BY <2>2, <2>3
<1>7. Lengths'
  BY <1>1, <1>2 DEF Lengths
<1>8. CleanInv'
  <2> SUFFICES ASSUME ~ leftover' PROVE \A p \in Clouds : NoData(p)'
    BY <1>1, <1>2 DEF CleanInv
  <2>1. CASE ClearScratch
    BY <2>1 DEF ClearScratch, NoScratch, NoData
  <2>2. CASE pc = "tile" /\ leftover' = leftover /\ UNCHANGED scratch
    <3>1. Cropped = {} /\ ~ leftover
      BY <2>2 DEF Cropped
    <3> QED
      BY <2>2, <3>1 DEF scratch, CropInv, CleanInv, NoData
  <2> QED
    BY <2>1, <2>2
<1>9. MinimumInv'
  BY <1>2 DEF MinimumInv
<1>10. BuildingInv'
  BY <1>1, NoBuildingYet
<1> QED
  BY <1>6, <1>7, <1>8, <1>9, <1>10 DEF CropInv

LEMMA ReadFootprintsKeeps ==
  ASSUME CropInv, ReadFootprints
  PROVE  CropInv'
<1>1. /\ pc = "tile" /\ pc' = "crop" /\ N_fp' \in 1..MaxFootprints /\ todo' = Clouds
      /\ min_building_points' \in [1..N_fp' -> MinPoints]
      /\ UNCHANGED <<config, tile, files, scratch, buildings, leftover>>
  BY DEF ReadFootprints
<1>2. Cropped = {} /\ Cropped' = {}
  BY <1>1 DEF Cropped
<1>3. TypeOK'
  <2>1. N_fp' \in Nat /\ min_building_points' \in [1..N_fp' -> Nat] /\ todo' \subseteq Clouds
    <3>1. N_fp' \in Nat
      BY <1>1, CropAssumption
    <3>2. MinPoints \subseteq Nat
      BY CropAssumption
    <3>3. \A n : [n -> MinPoints] \subseteq [n -> Nat]
      BY <3>2
    <3> QED
      BY <1>1, <3>1, <3>3
  <2> QED
    BY <1>1, <2>1 DEF CropInv, TypeOK, config, scratch
<1>4. buildings' = <<>>
  BY <1>1 DEF CropInv, Lengths
<1>5. Lengths' /\ MinimumInv'
  BY <1>1, <1>2, <1>4 DEF Lengths, MinimumInv
<1>6. CleanInv'
  BY <1>1, <1>2 DEF CropInv, CleanInv, NoData, scratch
<1>7. BuildingInv'
  BY <1>4, NoBuildingYet
<1> QED
  BY <1>3, <1>5, <1>6, <1>7 DEF CropInv

LEMMA NamedTyped ==
  ASSUME NEW cloud \in Cloud, NEW class \in {"ground", "building", "other"}
  PROVE  /\ Named(cloud, class) \in Cloud
         /\ Len(Named(cloud, class)) = Len(cloud) /\ Len(cloud) \in Nat
         /\ \A k \in 1..Len(cloud) :
              /\ Named(cloud, class)[k].of = cloud[k].of
              /\ cloud[k].class # "undefined" => Named(cloud, class)[k].class = cloud[k].class
<1>1. Len(cloud) \in Nat /\ \A k \in 1..Len(cloud) : cloud[k] \in PointType
  BY LenProperties, ElementOfSeq DEF Cloud
<1> DEFINE c(k) == IF cloud[k].class = "undefined" THEN class ELSE cloud[k].class
<1>2. Named(cloud, class) = [k \in 1..Len(cloud) |-> [cloud[k] EXCEPT !.class = c(k)]]
  BY DEF Named
<1>3. \A k \in 1..Len(cloud) : c(k) \in Classes \cup {"other", "undefined"}
  BY <1>1 DEF PointType, Classes
<1>4. \A k \in 1..Len(cloud) : cloud[k].class # "undefined" => c(k) = cloud[k].class
  OBVIOUS
<1> HIDE DEF c
<1>5. \A k \in 1..Len(cloud) :
        /\ [cloud[k] EXCEPT !.class = c(k)] \in PointType
        /\ [cloud[k] EXCEPT !.class = c(k)].of = cloud[k].of
        /\ [cloud[k] EXCEPT !.class = c(k)].class = c(k)
  BY <1>1, <1>3 DEF PointType
<1>6. Named(cloud, class) \in [1..Len(cloud) -> PointType]
  BY <1>2, <1>5
<1>7. Named(cloud, class) \in Cloud /\ Len(Named(cloud, class)) = Len(cloud)
  BY <1>1, <1>6, Vector DEF Cloud
<1> QED
  BY <1>1, <1>2, <1>4, <1>5, <1>7

LEMMA AnalysePointCloudsKeeps ==
  ASSUME CropInv, AnalysePointClouds
  PROVE  CropInv'
<1>1. PICK class \in {"ground", "building", "other"} :
        building_clouds' = [p \in Clouds |-> [i \in Footprints |-> Named(building_clouds[p][i], class)]]
  BY DEF AnalysePointClouds
<1>2. /\ pc = "crop" /\ todo = {} /\ pc' = "buildings"
      /\ building_rasters' = [p \in Clouds |-> [i \in Footprints |->
           {building_clouds[p][i][k].of : k \in 1..Len(building_clouds[p][i])}]]
      /\ pointcloud_insufficient' = [p \in Clouds |->
           Resize(pointcloud_insufficient[p], N_fp, FALSE)]
      /\ UNCHANGED <<config, tile, N_fp, min_building_points, todo, files, ground_elevations,
                     terrain_grid_elevations, acquisition_years,
                     min_ground_elevation, buildings, leftover>>
  BY DEF AnalysePointClouds
<1>3. /\ nodata_fractions' \in [Clouds -> [Footprints ->
            UNION {0..c.nodata : c \in Contents}]]
       /\ \A p \in Clouds, i \in Footprints : nodata_fractions'[p][i] \in WithoutData(p, i)
  BY DEF AnalysePointClouds
<1>4. Cropped = Clouds /\ Cropped' = Clouds
  BY <1>2 DEF Cropped
<1>5. /\ Footprints' = Footprints /\ WholeTile' = WholeTile /\ \A i : Here(i)' = Here(i)
      /\ N_fp \in Nat /\ Footprints = 1..N_fp
  BY <1>2 DEF Footprints, WholeTile, Here, CropInv, TypeOK
<1>6. ASSUME NEW p \in Clouds, NEW i \in Footprints
      PROVE  building_clouds[p][i] \in Cloud
  <2>1. building_clouds[p] \in Seq(Cloud) /\ Len(building_clouds[p]) = N_fp
    BY <1>4 DEF CropInv, TypeOK, Lengths
  <2> QED
    BY <1>5, <2>1, ElementOfSeq
<1>7. ASSUME NEW p \in Clouds, NEW i \in Footprints
      PROVE  /\ building_clouds'[p][i] = Named(building_clouds[p][i], class)
             /\ building_rasters'[p][i] =
                  {building_clouds[p][i][k].of : k \in 1..Len(building_clouds[p][i])}
  BY <1>1, <1>2
<1>8. ASSUME NEW p \in Clouds
      PROVE  /\ building_clouds'[p] \in Seq(Cloud) /\ Len(building_clouds'[p]) = N_fp
             /\ building_rasters'[p] \in Seq(SUBSET Place) /\ Len(building_rasters'[p]) = N_fp
  <2>1. building_clouds'[p] \in [1..N_fp -> Cloud]
    BY <1>1, <1>5, <1>6, NamedTyped
  <2>2. \A i \in Footprints : \A k \in 1..Len(building_clouds[p][i]) :
          building_clouds[p][i][k].of \in Place
    <3> SUFFICES ASSUME NEW i \in Footprints, NEW k \in 1..Len(building_clouds[p][i])
                 PROVE  building_clouds[p][i][k].of \in Place
      OBVIOUS
    <3>1. building_clouds[p][i][k] \in PointType
      BY <1>6, ElementOfSeq DEF Cloud
    <3> QED
      BY <3>1 DEF PointType
  <2>3. building_rasters'[p] \in [1..N_fp -> SUBSET Place]
    BY <1>2, <1>5, <2>2
  <2> QED
    BY <1>5, <2>1, <2>3, Vector
<1>9. ASSUME NEW p \in Clouds
       PROVE  /\ nodata_fractions'[p] \in Seq(Nat) /\ Len(nodata_fractions'[p]) = N_fp
              /\ pointcloud_insufficient'[p] = pointcloud_insufficient[p]
  <2>5. nodata_fractions'[p] \in [1..N_fp -> Nat]
    <3>1. UNION {0..c.nodata : c \in Contents} \subseteq Nat
      <4> SUFFICES ASSUME NEW c \in Contents PROVE 0..c.nodata \subseteq Nat
        OBVIOUS
      <4> QED
        BY CropAssumption DEF Content
    <3>2. nodata_fractions'[p] \in [Footprints ->
            UNION {0..c.nodata : c \in Contents}]
      BY <1>3
    <3> QED
      BY <1>5, <3>1, <3>2
  <2>6. pointcloud_insufficient[p] \in Seq(BOOLEAN) /\ Len(pointcloud_insufficient[p]) = N_fp
    BY <1>4 DEF CropInv, TypeOK, Lengths
  <2>7. Resize(pointcloud_insufficient[p], N_fp, FALSE) = pointcloud_insufficient[p]
    <3>1. pointcloud_insufficient[p] \in [1..N_fp -> BOOLEAN]
      BY <2>6, LenProperties
    <3> QED
      BY <1>5, <2>6, <3>1 DEF Resize
  <2> QED
    BY <1>2, <1>5, <2>5, <2>7, Vector
<1>10. TypeOK'
  <2>1. /\ building_clouds' \in [Clouds -> Seq(Cloud)]
        /\ building_rasters' \in [Clouds -> Seq(SUBSET Place)]
    BY <1>1, <1>2, <1>8
  <2>2. nodata_fractions' \in [Clouds -> Seq(Nat)]
    BY <1>9, <1>3
  <2>3. pointcloud_insufficient' \in [Clouds -> Seq(BOOLEAN)]
    BY <1>2, <1>9 DEF CropInv, TypeOK
  <2> QED
    BY <1>2, <2>1, <2>2, <2>3 DEF CropInv, TypeOK, config
<1>11. Lengths'
  BY <1>2, <1>4, <1>8, <1>9 DEF CropInv, Lengths
<1>12. ASSUME ~ leftover, NEW p \in Clouds, NEW i \in Footprints
       PROVE  /\ OwnData(p, i)' /\ building_rasters'[p][i] \subseteq {Here(i)}
              /\ nodata_fractions'[p][i] = files[p][i].nodata
  <2> DEFINE cloud == building_clouds[p][i]
  <2>1. OwnData(p, i)
    BY <1>4, <1>12 DEF CropInv, CleanInv
  <2>2. \A k \in 1..Len(cloud) : cloud[k].of = Here(i) /\ cloud[k].class \in Classes
    BY <2>1 DEF OwnData, OwnPoints
  <2>3. cloud \in Cloud /\ building_clouds'[p][i] = Named(cloud, class)
    BY <1>6, <1>7, <1>12
  <2>4. building_rasters'[p][i] \subseteq {Here(i)}
    BY <1>7, <1>12, <2>2
  <2> HIDE DEF cloud
  <2>5. /\ Len(Named(cloud, class)) = Len(cloud)
        /\ \A k \in 1..Len(cloud) :
             Named(cloud, class)[k].of = Here(i) /\ Named(cloud, class)[k].class = cloud[k].class
    BY <2>2, <2>3, NamedTyped DEF Classes
  <2>6. OwnPoints(p, i)'
    BY <1>5, <2>2, <2>3, <2>5 DEF OwnPoints
  <2>7. nodata_fractions'[p][i] = files[p][i].nodata
    <3>1. WithoutData(p, i) = {files[p][i].nodata}
      BY <2>2 DEF WithoutData, cloud
    <3> QED
      BY <1>12, <1>3, <3>1
  <2> QED
    BY <1>2, <1>5, <1>12, <1>9, <2>1, <2>4, <2>6, <2>7 DEF OwnData, Null
<1>13. CleanInv'
  BY <1>2, <1>4, <1>5, <1>12 DEF CleanInv
<1>14. MinimumInv'
  BY <1>2, <1>4, <1>5 DEF CropInv, MinimumInv, Null
<1>15. BuildingInv'
  <2>1. buildings' = <<>>
    BY <1>2 DEF CropInv, Lengths
  <2> QED
    BY <2>1, NoBuildingYet
<1> QED
  BY <1>10, <1>11, <1>13, <1>14, <1>15 DEF CropInv

\* What is taken from the vectors of the selected point cloud for a footprint.
LEMMA GroundLevel ==
  ASSUME CropInv, pc = "buildings", NEW p \in Clouds, NEW i \in Footprints,
         NEW user \in {Null, User}
  PROVE  /\ h_ground(p, i, user) \in Place
         /\ ~ leftover => h_ground(p, i, user) \in {Here(i), WholeTile, Null, User}
         /\ h_ground(p, i, user) = Null => min_ground_elevation[p] = Null
<1>1. Cropped = Clouds /\ N_fp \in Nat /\ i \in 1..N_fp
  BY DEF Cropped, Footprints, CropInv, TypeOK
<1>2. /\ ground_elevations[p] \in Seq(Place) /\ Len(ground_elevations[p]) >= N_fp
      /\ terrain_grid_elevations[p] \in Seq(Place) /\ Len(terrain_grid_elevations[p]) >= N_fp
      /\ min_ground_elevation[p] \in Place
  BY <1>1 DEF CropInv, TypeOK, Lengths
<1>3. i \in 1..Len(ground_elevations[p]) /\ i \in 1..Len(terrain_grid_elevations[p])
  BY <1>1, <1>2, LenProperties
<1>4. ground_elevations[p][i] \in Place /\ terrain_grid_elevations[p][i] \in Place
  BY <1>2, <1>3, ElementOfSeq
<1>5. user \in Place
  BY HereIsPlace DEF CropInv
<1>6. h_ground(p, i, user) \in {ground_elevations[p][i], terrain_grid_elevations[p][i],
                                min_ground_elevation[p], user}
  BY DEF h_ground, UserOrGrid, GridOrMinimum
<1>7. h_ground(p, i, user) = Null => min_ground_elevation[p] = Null
  BY DEF h_ground, UserOrGrid, GridOrMinimum
<1>8. ~ leftover => /\ ground_elevations[p][i] \in {Here(i), Null}
                    /\ terrain_grid_elevations[p][i] \in {WholeTile, Null}
  BY <1>1 DEF CropInv, CleanInv, OwnData
<1>9. min_ground_elevation[p] \in {WholeTile, Null}
  BY <1>1 DEF CropInv, MinimumInv
<1> QED
  BY <1>2, <1>4, <1>5, <1>6, <1>7, <1>8, <1>9

LEMMA PointsTaken ==
  ASSUME CropInv, pc = "buildings", NEW p \in Clouds, NEW i \in Footprints, NEW class
  PROVE  /\ PointsOf(p, i, class) \subseteq Place
         /\ ~ leftover => PointsOf(p, i, class) \subseteq {Here(i)}
<1>1. Cropped = Clouds /\ N_fp \in Nat /\ i \in 1..N_fp
  BY DEF Cropped, Footprints, CropInv, TypeOK
<1>2. building_clouds[p] \in Seq(Cloud) /\ Len(building_clouds[p]) = N_fp
  BY <1>1 DEF CropInv, TypeOK, Lengths
<1>3. building_clouds[p][i] \in Seq(PointType)
  BY <1>1, <1>2, ElementOfSeq DEF Cloud
<1>4. \A k \in 1..Len(building_clouds[p][i]) : building_clouds[p][i][k].of \in Place
  <2> SUFFICES ASSUME NEW k \in 1..Len(building_clouds[p][i])
               PROVE  building_clouds[p][i][k].of \in Place
    OBVIOUS
  <2>1. building_clouds[p][i][k] \in PointType
    BY <1>3, ElementOfSeq
  <2> QED
    BY <2>1 DEF PointType
<1>5. PointsOf(p, i, class) \subseteq Place
  BY <1>4 DEF PointsOf
<1>6. ~ leftover => OwnPoints(p, i)
  BY <1>1 DEF CropInv, CleanInv, OwnData
<1>7. ~ leftover => PointsOf(p, i, class) \subseteq {Here(i)}
  BY <1>6 DEF OwnPoints, PointsOf
<1> QED
  BY <1>5, <1>7

\* One building more than before.
LEMMA OneBuildingMore ==
  ASSUME buildings \in Seq(Building), NEW b \in Building, buildings' = Append(buildings, b)
  PROVE  /\ buildings' \in Seq(Building)
         /\ {buildings'[j] : j \in 1..Len(buildings')} = {buildings[j] : j \in 1..Len(buildings)} \cup {b}
<1>1. /\ buildings' \in Seq(Building) /\ Len(buildings') = Len(buildings) + 1
      /\ \A j \in 1..Len(buildings) : buildings'[j] = buildings[j]
      /\ buildings'[Len(buildings) + 1] = b
  BY AppendProperties
<1>2. Len(buildings) \in Nat
  BY LenProperties
<1> QED
  BY <1>1, <1>2

LEMMA CropBuildingKeeps ==
  ASSUME CropInv, NEW p \in Clouds, CropBuilding(p)
  PROVE  CropInv'
<1> DEFINE i == Len(buildings) + 1
           made(user) ==
             [attribute_index |-> i,
              pc_source |-> p,
              pointcloud_ground |-> PointsOf(p, i, "ground"),
              pointcloud_building |-> PointsOf(p, i, "building"),
              h_ground |-> h_ground(p, i, user),
              raster |-> building_rasters[p][i],
              pointcloud_insufficient |->
                \/ pointcloud_insufficient[p][i]
                \/ nodata_fractions[p][i] > max_nodata_fraction,
              pc_year |-> acquisition_years[p][i]]
<1>1. PICK user \in {Null, User} : buildings' = Append(buildings, made(user))
  BY DEF CropBuilding
<1>2. /\ pc = "buildings" /\ i \in Footprints /\ pc' = pc
      /\ UNCHANGED <<config, tile, N_fp, min_building_points, todo, files, scratch, leftover>>
  BY DEF CropBuilding
<1>3. /\ Footprints' = Footprints /\ WholeTile' = WholeTile /\ \A k : Here(k)' = Here(k)
      /\ Cropped = Clouds /\ Cropped' = Clouds
  BY <1>2 DEF Footprints, WholeTile, Here, Cropped
<1>4. UNCHANGED <<building_clouds, ground_elevations, terrain_grid_elevations, acquisition_years,
                  pointcloud_insufficient, min_ground_elevation, building_rasters,
                  nodata_fractions>>
  BY <1>2 DEF scratch
<1> DEFINE b == made(user)
<1>5. /\ b.attribute_index = i /\ b.pc_source = p
      /\ b.pointcloud_ground = PointsOf(p, i, "ground")
      /\ b.pointcloud_building = PointsOf(p, i, "building")
      /\ b.h_ground = h_ground(p, i, user) /\ b.raster = building_rasters[p][i]
      /\ b.pointcloud_insufficient =
           (pointcloud_insufficient[p][i] \/ nodata_fractions[p][i] > max_nodata_fraction)
      /\ b.pc_year = acquisition_years[p][i]
  OBVIOUS
<1>6. /\ h_ground(p, i, user) \in Place
      /\ ~ leftover => h_ground(p, i, user) \in {Here(i), WholeTile, Null, User}
      /\ h_ground(p, i, user) = Null => min_ground_elevation[p] = Null
  BY <1>2, GroundLevel
<1>7. \A class : /\ PointsOf(p, i, class) \subseteq Place
                 /\ ~ leftover => PointsOf(p, i, class) \subseteq {Here(i)}
  BY <1>2, PointsTaken
<1>9. /\ building_rasters[p][i] \in SUBSET Place
      /\ pointcloud_insufficient[p][i] \in BOOLEAN
      /\ acquisition_years[p][i] \in SUBSET Place
      /\ i \in Nat
  <2>1. /\ building_rasters[p] \in Seq(SUBSET Place) /\ Len(building_rasters[p]) = N_fp
        /\ pointcloud_insufficient[p] \in Seq(BOOLEAN) /\ Len(pointcloud_insufficient[p]) = N_fp
        /\ acquisition_years[p] \in Seq(SUBSET Place) /\ Len(acquisition_years[p]) = N_fp
    BY <1>2, <1>3 DEF CropInv, TypeOK, Lengths
  <2>2. i \in 1..N_fp /\ N_fp \in Nat
    BY <1>2 DEF Footprints, CropInv, TypeOK
  <2> HIDE DEF i
  <2> QED
    BY <2>1, <2>2, ElementOfSeq
<1>10. ~ leftover => /\ OwnData(p, i) /\ building_rasters[p][i] \subseteq {Here(i)}
                     /\ nodata_fractions[p][i] = files[p][i].nodata
  BY <1>2, <1>3 DEF CropInv, CleanInv
<1>11. min_ground_elevation[p] = Null => \A k \in Footprints : ~ HasPoints(files[p][k])
  BY <1>3 DEF CropInv, MinimumInv
<1> HIDE DEF i
<1>12. b \in Building
  BY <1>6, <1>7, <1>9 DEF Building
<1> HIDE DEF b, made
<1>13. buildings \in Seq(Building) /\ buildings' = Append(buildings, b)
  BY <1>1 DEF b, CropInv, TypeOK
<1>14. /\ buildings' \in Seq(Building)
       /\ {buildings'[j] : j \in 1..Len(buildings')} = {buildings[j] : j \in 1..Len(buildings)} \cup {b}
  BY <1>12, <1>13, OneBuildingMore
<1>15. TypeOK'
  BY <1>2, <1>4, <1>14 DEF CropInv, TypeOK, config
<1>16. Lengths'
  BY <1>2, <1>3, <1>4 DEF CropInv, Lengths
<1>17. CleanInv'
  <2>1. \A q \in Clouds, k \in Footprints : OwnData(q, k) => OwnData(q, k)'
    BY <1>2, <1>3, <1>4 DEF OwnData, OwnPoints, Null
  <2> QED
    BY <1>2, <1>3, <1>4, <2>1 DEF CropInv, CleanInv
<1>18. MinimumInv'
  BY <1>2, <1>3, <1>4 DEF CropInv, MinimumInv, Null
<1>19. OwnDataUnlessLeftover'
  <2> SUFFICES ASSUME ~ leftover PROVE OwnDataOnly'
    BY <1>2 DEF OwnDataUnlessLeftover
  <2>1. /\ b.pointcloud_ground \cup b.pointcloud_building \subseteq {Here(i)}
        /\ b.raster \cup b.pc_year \subseteq {Here(i)}
        /\ b.h_ground \in {Here(i)} \cup {WholeTile, Null, User}
    BY <1>5, <1>6, <1>7, <1>10 DEF OwnData
  <2>2. OwnDataOnly
    BY DEF CropInv, BuildingInv, OwnDataUnlessLeftover
  <2> QED
    BY <1>3, <1>5, <1>14, <2>1, <2>2 DEF OwnDataOnly, Null, User
<1>20. InsufficientByOwnData'
  <2> DEFINE Own(c) == files[c.pc_source][c.attribute_index]
             True(c) == c.pointcloud_insufficient <=>
                          \/ Own(c).building < min_building_points[c.attribute_index]
                          \/ Own(c).nodata > max_nodata_fraction
  <2> SUFFICES ASSUME ~ leftover
               PROVE  \A c \in {buildings'[j] : j \in 1..Len(buildings')} : True(c)
    BY <1>2 DEF InsufficientByOwnData, config
  <2>1. True(b)
    BY <1>5, <1>10 DEF OwnData
  <2>2. \A c \in {buildings[j] : j \in 1..Len(buildings)} : True(c)
    BY DEF CropInv, BuildingInv, InsufficientByOwnData
  <2> HIDE DEF True
  <2> QED
    BY <1>14, <2>1, <2>2
<1>21. FloorUnlessNoPoints'
  <2>1. b.h_ground = Null => /\ min_ground_elevation[b.pc_source] = Null
                             /\ \A k \in Footprints : ~ HasPoints(files[b.pc_source][k])
    BY <1>5, <1>6, <1>11
  <2>2. FloorUnlessNoPoints
    BY DEF CropInv, BuildingInv
  <2> QED
    BY <1>2, <1>3, <1>4, <1>14, <2>1, <2>2 DEF FloorUnlessNoPoints, Null
<1> QED
  BY <1>15, <1>16, <1>17, <1>18, <1>19, <1>20, <1>21 DEF CropInv, BuildingInv

\* A step that only ends the program, or none at all.
LEMMA NothingCroppedKeeps ==
  ASSUME CropInv, pc' = pc \/ (pc = "buildings" /\ pc' = "exited"),
         UNCHANGED <<config, tile, N_fp, min_building_points, todo, files, scratch, buildings, leftover>>
  PROVE  CropInv'
<1>1. /\ Footprints' = Footprints /\ WholeTile' = WholeTile /\ \A k : Here(k)' = Here(k)
      /\ Cropped' = Cropped
  BY DEF Footprints, WholeTile, Here, Cropped
<1>2. UNCHANGED <<building_clouds, ground_elevations, terrain_grid_elevations, acquisition_years,
                  pointcloud_insufficient, min_ground_elevation, building_rasters,
                  nodata_fractions>>
  BY DEF scratch
<1>3. TypeOK'
  BY <1>2 DEF CropInv, TypeOK, config
<1>4. Lengths'
  BY <1>1, <1>2 DEF CropInv, Lengths
<1>5. CleanInv'
  <2>1. \A q, k : OwnData(q, k) => OwnData(q, k)'
    BY <1>1, <1>2 DEF OwnData, OwnPoints, Null
  <2>2. \A q : NoData(q) => NoData(q)'
    BY <1>2 DEF NoData
  <2> QED
    BY <1>1, <1>2, <2>1, <2>2 DEF CropInv, CleanInv
<1>6. MinimumInv'
  BY <1>1, <1>2 DEF CropInv, MinimumInv, Null
<1>7. BuildingInv'
  BY <1>2, BuildingsStay DEF CropInv, config
<1> QED
  BY <1>3, <1>4, <1>5, <1>6, <1>7 DEF CropInv

LEMMA CropInit ==
  ASSUME Init
  PROVE  CropInv
<1>1. \A S : <<>> \in Seq(S)
  BY EmptySeq
<1>2. /\ NoScratch \in [Clouds -> Seq(Cloud)] /\ NoScratch \in [Clouds -> Seq(Place)]
      /\ NoScratch \in [Clouds -> Seq(SUBSET Place)] /\ NoScratch \in [Clouds -> Seq(BOOLEAN)]
      /\ NoScratch \in [Clouds -> Seq(Nat)]
      /\ [p \in Clouds |-> <<>>] \in [Clouds -> Seq(Content)]
      /\ [p \in Clouds |-> Null] \in [Clouds -> Place]
  BY <1>1 DEF NoScratch, Null, Place
<1>3. TypeOK
  <2>1. /\ strategy \in TerrainStrategy /\ dated \subseteq Clouds
        /\ tile \in Nat \ {0} /\ N_fp \in Nat /\ max_nodata_fraction \in Nat
        /\ min_building_points \in [1..N_fp -> Nat]
        /\ todo \subseteq Clouds /\ pc \in {"tile", "crop", "buildings", "exited"}
    <3>1. strategy \in Strategies /\ dated \in SUBSET Clouds /\ tile = 1 /\ N_fp = 0
          /\ max_nodata_fraction \in MaxNoData /\ min_building_points = <<>>
          /\ todo = {} /\ pc = "tile"
      BY DEF Init
    <3> QED
      BY <3>1, CropAssumption
  <2> h_ground_fallback \in BOOLEAN /\ leftover \in BOOLEAN
    BY DEF Init
  <2>2. /\ files \in [Clouds -> Seq(Content)]
        /\ building_clouds \in [Clouds -> Seq(Cloud)]
        /\ ground_elevations \in [Clouds -> Seq(Place)]
        /\ terrain_grid_elevations \in [Clouds -> Seq(Place)]
        /\ acquisition_years \in [Clouds -> Seq(SUBSET Place)]
        /\ pointcloud_insufficient \in [Clouds -> Seq(BOOLEAN)]
        /\ min_ground_elevation \in [Clouds -> Place]
        /\ building_rasters \in [Clouds -> Seq(SUBSET Place)]
        /\ nodata_fractions \in [Clouds -> Seq(Nat)]
    BY <1>2 DEF Init
  <2>3. buildings \in Seq(Building)
    BY <1>1 DEF Init
  <2> QED
    BY <2>1, <2>2, <2>3 DEF TypeOK
<1>4. Cropped = {}
  BY DEF Init, Cropped
<1>5. Lengths /\ MinimumInv
  BY <1>4 DEF Init, Lengths, MinimumInv
<1>6. CleanInv
  BY <1>4 DEF Init, CleanInv, NoData, NoScratch
<1>7. {buildings[j] : j \in 1..Len(buildings)} = {}
  BY EmptySeq DEF Init
<1>8. BuildingInv
  BY <1>7 DEF BuildingInv, OwnDataUnlessLeftover, OwnDataOnly, InsufficientByOwnData,
              FloorUnlessNoPoints
<1> QED
  BY <1>3, <1>5, <1>6, <1>8 DEF CropInv

LEMMA CropStep ==
  ASSUME CropInv, [Next]_vars
  PROVE  CropInv'
<1>1. CASE SkipTile
  BY <1>1, NextTileKeeps DEF SkipTile
<1>2. CASE ReadFootprints
  BY <1>2, ReadFootprintsKeeps
<1>3. CASE \E p \in Clouds : CropPointCloud(p)
  BY <1>3, CropPointCloudKeeps
<1>4. CASE AnalysePointClouds
  BY <1>4, AnalysePointCloudsKeeps
<1>5. CASE \E p \in Clouds : CropBuilding(p)
  BY <1>5, CropBuildingKeeps
<1>6. CASE \E p \in Clouds : ExitWithoutAttribute(p)
  BY <1>6, NothingCroppedKeeps DEF ExitWithoutAttribute
<1>7. CASE FinishTile
  BY <1>7, NextTileKeeps DEF FinishTile
<1>8. CASE FailTile
  BY <1>8, NextTileKeeps DEF FailTile
<1>9. CASE UNCHANGED vars
  BY <1>9, NothingCroppedKeeps DEF vars
<1> QED
  BY <1>1, <1>2, <1>3, <1>4, <1>5, <1>6, <1>7, <1>8, <1>9 DEF Next

LEMMA CropHolds == Spec => []CropInv
<1>1. Init => CropInv
  BY CropInit
<1>2. CropInv /\ [Next]_vars => CropInv'
  BY CropStep
<1> QED
  BY <1>1, <1>2, PTL DEF Spec

-----------------------------------------------------------------------------
(* The theorems.                                                           *)

\* What a building is given was measured at its own footprint, for any number
\* of tiles, footprints and point clouds, although the vectors it goes through
\* are reused for every tile (crop_tile.hpp): unless an exception left an
\* earlier tile's data in them, and for no longer than until a tile is
\* finished.
THEOREM OwnDataIsKept == Spec => []OwnDataUnlessLeftover
<1>1. CropInv => OwnDataUnlessLeftover
  BY DEF CropInv, BuildingInv
<1> QED
  BY <1>1, CropHolds, PTL

\* A building is reported as insufficient exactly if the building points that
\* its point cloud has at its own footprint are too few for its area, or leave
\* too much of it without data: whatever was counted for other footprints and
\* tiles with the same vectors (StreamCropper.cpp, crop_tile.hpp).
THEOREM SufficiencyIsTrue == Spec => []InsufficientByOwnData
<1>1. CropInv => InsufficientByOwnData
  BY DEF CropInv, BuildingInv
<1> QED
  BY <1>1, CropHolds, PTL

\* Under every strategy, and also after an exception, a building has a floor
\* unless its point cloud is empty: reconstruction dereferences the elevation
\* of the others without a look.
THEOREM FloorIsFound == Spec => []FloorUnlessNoPoints
<1>1. CropInv => FloorUnlessNoPoints
  BY DEF CropInv, BuildingInv
<1> QED
  BY <1>1, CropHolds, PTL

=============================================================================
