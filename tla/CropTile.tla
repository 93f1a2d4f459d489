------------------------------ MODULE CropTile ------------------------------
(***************************************************************************)
(* crop_tile (crop_tile.hpp) and the collector it crops with               *)
(* (StreamCropper.cpp), over all tiles: the detail of the cropper's steps  *)
(* in RooferPipeline. The vectors of an InputPointcloud live as long as    *)
(* the program and are reused for each tile.                               *)
(*                                                                         *)
(* A value is abstracted to where it comes from: the footprint i of tile   *)
(* t is <<t, i>>, what belongs to tile t as a whole <<t, 0>>. The choice   *)
(* of a point cloud is SelectPointCloud's.                                 *)
(***************************************************************************)
EXTENDS Naturals, Sequences, FiniteSets

CONSTANTS
  NTiles,
  MaxFootprints,      \* bound on the footprints of a tile
  Clouds,             \* input_pointclouds
  Contents,           \* what a point cloud may have at one footprint
  MinPoints,          \* values of min_building_points
  MaxNoData,          \* values of max_nodata_fraction
  Strategies,         \* a subset of the TerrainStrategy values
  Faults              \* a subset of AllFaults

\* How many points of the building class are inside the footprint, where there
\* are some of the ground class, and how much of the footprint has no points,
\* in some unit.
Content ==
  [building : Nat, ground : SUBSET {"inside", "buffer", "near"}, nodata : Nat]

TerrainStrategy == {"BUFFER_TILE", "BUFFER_USER", "USER"}

\* A building whose identifier is null; an output of the crop that cannot be
\* written.
AllFaults == {"identifier", "write"}

ASSUME CropAssumption ==
  /\ NTiles \in Nat
  /\ MaxFootprints \in Nat
  /\ Contents \subseteq Content
  /\ MinPoints \subseteq Nat
  /\ MaxNoData \subseteq Nat
  /\ Strategies \subseteq TerrainStrategy
  /\ Faults \subseteq AllFaults

VARIABLES
  strategy,
  dated,                     \* point clouds with a date in the configuration
  h_ground_fallback,         \* whether the footprints have the attribute
  max_nodata_fraction,
  tile, N_fp,
  min_building_points,       \* how many points make a footprint dense enough:
                             \* min_building_density times its area
  todo,                      \* point clouds still to crop for this tile
  files,                     \* what the point clouds hold for this tile
  building_clouds, ground_elevations, terrain_grid_elevations,
  acquisition_years, pointcloud_insufficient, min_ground_elevation,
  building_rasters,          \* and all that is computed from a raster
  nodata_fractions,
  buildings,                 \* of the BuildingTile that is being filled
  pc,
  leftover                   \* history: a tile failed after its points were
                             \* read and no tile was finished since

scratch == <<building_clouds, ground_elevations, terrain_grid_elevations,
             acquisition_years, pointcloud_insufficient, min_ground_elevation,
             building_rasters, nodata_fractions>>

config == <<strategy, dated, h_ground_fallback, max_nodata_fraction>>

vars == <<config, tile, N_fp, min_building_points, todo, files, scratch,
          buildings, pc, leftover>>

Footprints == 1..N_fp
Here(i) == <<tile, i>>
WholeTile == <<tile, 0>>
Null == <<0, 0>>
User == <<0, 1>>            \* a value of the user's attribute
-----------------------------------------------------------------------------
(* The collector.                                                           *)

Point(o, where, class) == [of |-> o, where |-> where, class |-> class]

\* insert_vec replaces the classification of the cloud by an empty one. The
\* entries that are pushed later belong to the first points of the cloud, and
\* a read beyond them is undefined.
Reclassified(points, classes) ==
  [k \in 1..Len(points) |->
     [points[k] EXCEPT !.class =
        IF k <= Len(classes) THEN classes[k] ELSE "undefined"]]

\* std::vector::resize: the entries that are there stay.
Resize(s, n, default) ==
  [i \in 1..n |-> IF i <= Len(s) THEN s[i] ELSE default]

InsideClasses(content) ==
  [k \in 1..content.building |-> "building"]
  \o (IF "inside" \in content.ground THEN <<"ground">> ELSE <<>>)

InsidePoints(i, content) ==
  [k \in 1..Len(InsideClasses(content)) |->
     Point(Here(i), "inside", InsideClasses(content)[k])]

\* add_point, for all the points of the files.
Collected(p, content) ==
  [i \in Footprints |->
     Reclassified(
       Resize(building_clouds[p], N_fp, <<>>)[i] \o InsidePoints(i, content[i]),
       InsideClasses(content[i]))]

\* The points of the ground class around the footprint are added when the
\* others were counted. The loop's index is not initialised: it starts
\* anywhere.
Merged(clouds, content, first) ==
  [i \in Footprints |->
     IF i >= first /\ "buffer" \in content[i].ground
     THEN Reclassified(Append(clouds[i], Point(Here(i), "buffer", "ground")),
                       Append(InsideClasses(content[i]), "ground"))
     ELSE clouds[i]]

\* Whether a footprint has too few building points: an undefined class may be
\* read as any.
MayBeInsufficient(cloud, needed, insufficient) ==
  LET of(class) == {k \in 1..Len(cloud) : cloud[k].class = class}
  IN  \E pt_count_bld \in Cardinality(of("building"))
                         ..Cardinality(of("building") \cup of("undefined")) :
        insufficient <=> pt_count_bld < needed

ElevationAt(i, content) ==
  IF content[i].ground \cap {"inside", "buffer"} # {} THEN Here(i) ELSE Null

GridElevationAt(i, content) ==
  IF content[i].ground # {} THEN WholeTile ELSE Null

HasPoints(content) == content.building > 0 \/ content.ground # {}

YearOrDate(p, years) ==
  IF p \in dated THEN [i \in Footprints |-> {}] ELSE years

\* The latest year of what was there and of the points inside.
Years(p, content) ==
  YearOrDate(p, [i \in Footprints |->
    Resize(acquisition_years[p], N_fp, {})[i]
    \cup IF InsideClasses(content[i]) # <<>> THEN {Here(i)} ELSE {}])

\* Mutant: the entries of earlier tiles stay in front.
InsufficientKept(p) == pointcloud_insufficient[p]

InsufficientCleared(p) == <<>>

\* The thinning gives a point the class that it reads, which is any if that is
\* undefined.
Named(cloud, class) ==
  [k \in 1..Len(cloud) |->
     [cloud[k] EXCEPT !.class = IF @ = "undefined" THEN class ELSE @]]

\* computeNoDataFraction: what of the footprint's raster has no points. Points
\* that are left of another footprint may be in the raster, too.
WithoutData(p, i) ==
  IF \A k \in 1..Len(building_clouds[p][i]) : building_clouds[p][i][k].of = Here(i)
  THEN {files[p][i].nodata} ELSE 0..files[p][i].nodata
-----------------------------------------------------------------------------
(* The ground elevation of a building: of the points around it, of the      *)
(* user's attribute, of the terrain grid, of the lowest point of the tile.  *)

\* Mutant: the lowest point of the tile is not used.
GridOnly(p, i) == terrain_grid_elevations[p][i]

GridOrMinimum(p, i) ==
  IF terrain_grid_elevations[p][i] # Null THEN terrain_grid_elevations[p][i]
                                          ELSE min_ground_elevation[p]

UserOrGrid(p, i, user) == IF user # Null THEN user ELSE GridOrMinimum(p, i)

h_ground(p, i, user) ==
  IF strategy # "USER" /\ ground_elevations[p][i] # Null
  THEN ground_elevations[p][i]
  ELSE IF strategy = "BUFFER_TILE" THEN GridOrMinimum(p, i)
                                   ELSE UserOrGrid(p, i, user)

\* "No h_ground attribute found": the program exits.
NeedsAttribute(p, i) ==
  /\ ~ h_ground_fallback
  /\ \/ strategy = "USER"
     \/ strategy = "BUFFER_USER" /\ ground_elevations[p][i] = Null
-----------------------------------------------------------------------------
NoScratch == [p \in Clouds |-> <<>>]

Init ==
  /\ strategy \in Strategies
  /\ dated \in SUBSET Clouds
  /\ h_ground_fallback \in BOOLEAN
  /\ max_nodata_fraction \in MaxNoData
  /\ tile = 1
  /\ N_fp = 0
  /\ min_building_points = <<>>
  /\ todo = {}
  /\ files = [p \in Clouds |-> <<>>]
  /\ building_clouds = NoScratch
  /\ ground_elevations = NoScratch
  /\ terrain_grid_elevations = NoScratch
  /\ acquisition_years = NoScratch
  /\ pointcloud_insufficient = NoScratch
  /\ min_ground_elevation = [p \in Clouds |-> Null]
  /\ building_rasters = NoScratch
  /\ nodata_fractions = NoScratch
  /\ buildings = <<>>
  /\ pc = "tile"
  /\ leftover = FALSE

\* The cropper pops the tile, whether crop_tile returned or threw.
NextTile ==
  /\ tile' = tile + 1
  /\ N_fp' = 0
  /\ min_building_points' = <<>>
  /\ todo' = {}
  /\ files' = [p \in Clouds |-> <<>>]
  /\ buildings' = <<>>
  /\ pc' = "tile"
  /\ UNCHANGED config

\* No footprint in the tile, or an exception before any point is read.
SkipTile ==
  /\ pc = "tile"
  /\ tile <= NTiles
  /\ NextTile
  /\ UNCHANGED <<scratch, leftover>>

ReadFootprints ==
  /\ pc = "tile"
  /\ tile <= NTiles
  /\ N_fp' \in 1..MaxFootprints
  /\ min_building_points' \in [1..N_fp' -> MinPoints]
  /\ todo' = Clouds
  /\ pc' = "crop"
  /\ UNCHANGED <<config, tile, files, scratch, buildings,
                 leftover>>

\* PointCloudCropper->process for one point cloud; elsewhere says if the tile
\* has points that are at no footprint.
CropPointCloud(p) ==
  /\ pc = "crop"
  /\ p \in todo
  /\ \E content \in [Footprints -> Contents], elsewhere \in BOOLEAN,
        first \in 1..(N_fp + 1), flags \in [Footprints -> BOOLEAN] :
       /\ \A i \in Footprints :
            MayBeInsufficient(Collected(p, content)[i],
                              min_building_points[i], flags[i])
       /\ files' = [files EXCEPT ![p] = content]
       /\ building_clouds' = [building_clouds EXCEPT ![p] =
            Merged(Collected(p, content), content, first)]
       /\ ground_elevations' = [ground_elevations EXCEPT ![p] =
            @ \o [i \in Footprints |-> ElevationAt(i, content)]]
       /\ terrain_grid_elevations' = [terrain_grid_elevations EXCEPT ![p] =
            @ \o [i \in Footprints |-> GridElevationAt(i, content)]]
       /\ acquisition_years' = [acquisition_years EXCEPT ![p] =
            Years(p, content)]
       /\ pointcloud_insufficient' = [pointcloud_insufficient EXCEPT ![p] =
            InsufficientCleared(p) \o flags]
       /\ min_ground_elevation' = [min_ground_elevation EXCEPT ![p] =
            IF elsewhere \/ \E i \in Footprints : HasPoints(content[i])
            THEN WholeTile ELSE Null]
  /\ todo' = todo \ {p}
  /\ UNCHANGED <<config, tile, N_fp, min_building_points, building_rasters,
                 nodata_fractions, buildings, pc, leftover>>

\* The rasters, what is computed from them, and the thinning, which writes
\* points and classification anew with the classes it read.
AnalysePointClouds ==
  /\ pc = "crop"
  /\ todo = {}
  /\ building_rasters' = [p \in Clouds |-> [i \in Footprints |->
       {building_clouds[p][i][k].of : k \in 1..Len(building_clouds[p][i])}]]
  /\ \E class \in {"ground", "building", "other"} :
       building_clouds' = [p \in Clouds |-> [i \in Footprints |->
         Named(building_clouds[p][i], class)]]
  /\ nodata_fractions' \in [Clouds -> [Footprints ->
       UNION {0..content.nodata : content \in Contents}]]
  /\ \A p \in Clouds, i \in Footprints :
       nodata_fractions'[p][i] \in WithoutData(p, i)
  /\ pointcloud_insufficient' = [p \in Clouds |->
       Resize(pointcloud_insufficient[p], N_fp, FALSE)]
  /\ pc' = "buildings"
  /\ UNCHANGED <<config, tile, N_fp, min_building_points, todo, files,
                 ground_elevations, terrain_grid_elevations, acquisition_years,
                 min_ground_elevation, buildings, leftover>>

PointsOf(p, i, class) ==
  LET cloud == building_clouds[p][i]
  IN  {cloud[k].of : k \in {l \in 1..Len(cloud) : cloud[l].class = class}}

\* The next footprint, with the selected point cloud p.
CropBuilding(p) ==
  LET i == Len(buildings) + 1
  IN  /\ pc = "buildings"
      /\ i \in Footprints
      /\ ~ NeedsAttribute(p, i)
      /\ \E user \in {Null, User} :
           /\ user = User => h_ground_fallback
           /\ buildings' = Append(buildings,
                [attribute_index |-> i,
                 pc_source |-> p,
                 pointcloud_ground |-> PointsOf(p, i, "ground"),
                 pointcloud_building |-> PointsOf(p, i, "building"),
                 h_ground |-> h_ground(p, i, user),
                 raster |-> building_rasters[p][i],
                 pointcloud_insufficient |->
                   \/ pointcloud_insufficient[p][i]
                   \/ nodata_fractions[p][i] > max_nodata_fraction,
                 pc_year |-> acquisition_years[p][i]])
      /\ UNCHANGED <<config, tile, N_fp, min_building_points, todo, files,
                     scratch, pc, leftover>>

ExitWithoutAttribute(p) ==
  /\ pc = "buildings"
  /\ Len(buildings) < N_fp
  /\ NeedsAttribute(p, Len(buildings) + 1)
  /\ pc' = "exited"
  /\ UNCHANGED <<config, tile, N_fp, min_building_points, todo, files, scratch,
                 buildings, leftover>>

\* Mutant: the ground elevations are forgotten.
ClearMostScratch ==
  /\ building_clouds' = NoScratch
  /\ terrain_grid_elevations' = NoScratch
  /\ acquisition_years' = NoScratch
  /\ building_rasters' = NoScratch
  /\ nodata_fractions' = NoScratch
  /\ UNCHANGED <<ground_elevations, pointcloud_insufficient,
                 min_ground_elevation>>

\* pointcloud_insufficient and the minimum are written before they are read.
ClearScratch ==
  /\ building_clouds' = NoScratch
  /\ ground_elevations' = NoScratch
  /\ terrain_grid_elevations' = NoScratch
  /\ acquisition_years' = NoScratch
  /\ building_rasters' = NoScratch
  /\ nodata_fractions' = NoScratch
  /\ UNCHANGED <<pointcloud_insufficient, min_ground_elevation>>

FinishTile ==
  /\ pc = "buildings"
  /\ Len(buildings) = N_fp
  /\ ClearScratch
  /\ leftover' = FALSE
  /\ NextTile

\* An exception leaves crop_tile between two buildings.
FailTile ==
  /\ pc = "buildings"
  /\ \/ "identifier" \in Faults /\ Len(buildings) < N_fp
     \/ "write" \in Faults /\ buildings # <<>>
  /\ leftover' = TRUE
  /\ NextTile
  /\ UNCHANGED scratch

Next ==
  \/ SkipTile
  \/ ReadFootprints
  \/ \E p \in Clouds : CropPointCloud(p)
  \/ AnalysePointClouds
  \/ \E p \in Clouds : CropBuilding(p)
  \/ \E p \in Clouds : ExitWithoutAttribute(p)
  \/ FinishTile
  \/ FailTile

Spec == Init /\ [][Next]_vars
-----------------------------------------------------------------------------
(* Properties.                                                              *)

\* All that a building is given was measured at its own footprint, except for
\* a ground elevation of its tile or of the user. CHANGELOG.md: it "depends only
\* on the building's own data".
OwnDataOnly ==
  \A b \in {buildings[j] : j \in 1..Len(buildings)} :
    LET own == {Here(b.attribute_index)}
    IN  /\ b.pointcloud_ground \cup b.pointcloud_building \subseteq own
        /\ b.raster \cup b.pc_year \subseteq own
        /\ b.h_ground \in own \cup {WholeTile, Null, User}

\* The same without what a failed tile left behind: one tile that is finished
\* is enough to be rid of it.
OwnDataUnlessLeftover == ~ leftover => OwnDataOnly

\* A building is insufficient exactly if its own points in the chosen point
\* cloud are too few for its area, or leave too much of it without data.
\* CHANGELOG.md: "The decision is now deterministic and depends only on the
\* building's own data."
InsufficientByOwnData ==
  ~ leftover =>
  \A b \in {buildings[j] : j \in 1..Len(buildings)} :
    LET own == files[b.pc_source][b.attribute_index]
    IN  b.pointcloud_insufficient <=>
          \/ own.building < min_building_points[b.attribute_index]
          \/ own.nodata > max_nodata_fraction

\* A building has no floor only if its point cloud has not one point in the
\* tile: what the reconstruction then has to do without.
FloorUnlessNoPoints ==
  \A b \in {buildings[j] : j \in 1..Len(buildings)} :
    b.h_ground = Null =>
      /\ min_ground_elevation[b.pc_source] = Null
      /\ \A i \in Footprints : ~ HasPoints(files[b.pc_source][i])

=============================================================================
