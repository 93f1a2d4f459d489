--------------------------- MODULE StreamCropper ---------------------------
(***************************************************************************)
(* How one point cloud is cut to the footprints of a tile                  *)
(* (extra/io/StreamCropper.cpp): its files are read point by point, each   *)
(* point is looked up in an index of the buffered footprints and given to  *)
(* the footprints it lies in, and the ground points fill the terrain grid. *)
(* After the last file the counts, the shared points and the elevations    *)
(* are settled.  Coordinates and elevations are integers.                  *)
(***************************************************************************)
EXTENDS Integers, Sequences, FiniteSets, FiniteSetsExt

CONSTANTS
  Scenarios,        \* what process may be called with
  CellSize, Buffer, \* of the index of the footprints
  TerrainCellSize, SearchRadius,
  Percentile,       \* ground_percentile, in hundredths
  MaxDensityDelta,  \* in hundredths
  MinDensity,       \* min_building_density
  NoData            \* the largest float, which no point has

ASSUME CropperAssumption ==
  /\ {CellSize, TerrainCellSize} \subseteq Nat \ {0}
  /\ {Buffer, SearchRadius, MaxDensityDelta, MinDensity} \subseteq Nat
  /\ Percentile \in 0 .. 100
  /\ NoData \in Nat \ {0}

Ground == "ground"
Building == "building"
Null == -NoData     \* no elevation
Elevations == Null + 1 .. NoData - 1

Boxes == {b \in [x0 : Int, y0 : Int, x1 : Int, y1 : Int] : b.x0 <= b.x1 /\ b.y0 <= b.y1}
Points == [x : Int, y : Int, z : Elevations, class : STRING, year : Nat]
Files ==
  [points : Seq(Points), readable : BOOLEAN, gps_standard_time : BOOLEAN, file_creation_year : Nat]

(* buffer_polygons has widened every footprint. *)
IsBuffered(footprint) ==
  LET i == footprint.inside  b == footprint.buffered
  IN b.x0 < i.x0 /\ b.y0 < i.y0 /\ i.x1 < b.x1 /\ i.y1 < b.y1

(* crop_tile has returned if a tile has no footprints. *)
ASSUME ScenarioAssumption ==
  \A s \in Scenarios :
    /\ s.footprints \in Seq([inside : Boxes, buffered : Boxes])
    /\ s.footprints # <<>>
    /\ \A k \in 1 .. Len(s.footprints) : IsBuffered(s.footprints[k])
    /\ s.files \in Seq(Files)
    /\ s.handle_overlap_points \in BOOLEAN

VARIABLES
  scenario,
  phase,                \* what process does next
  file, next,           \* the file that is read, and its next point
  point_clouds,         \* footprint -> its points, with their classes
  acquisition_years,
  z_ground,             \* footprint -> elevations of its ground points
  ground_buffer_points, \* footprint -> ground points of its buffer alone
  points_overlap,       \* building points of several footprints, undecided
  terrain_grid,
  min_ground_elevation, \* over the points of all classes
  poly_info,            \* footprint -> the counts of its points
  ground_elevations, terrain_grid_elevations, pointcloud_insufficient

collected == <<point_clouds, acquisition_years, z_ground, ground_buffer_points,
               points_overlap, terrain_grid, min_ground_elevation>>
results == <<poly_info, ground_elevations, terrain_grid_elevations, pointcloud_insufficient>>
cropperVars == <<scenario, phase, file, next, collected, results>>

Larger(a, b) == IF a > b THEN a ELSE b
Smaller(a, b) == IF a < b THEN a ELSE b

(* A footprint and its buffer are boxes here, to their edges. *)
Footprints == scenario.footprints
Polygons == 1 .. Len(Footprints)
files == scenario.files

BoxOf(locations) ==
  [x0 |-> Min({l[1] : l \in locations}), y0 |-> Min({l[2] : l \in locations}),
   x1 |-> Max({l[1] : l \in locations}), y1 |-> Max({l[2] : l \in locations})]

polygon_extent ==
  [x0 |-> Min({Footprints[i].buffered.x0 : i \in Polygons}),
   y0 |-> Min({Footprints[i].buffered.y0 : i \in Polygons}),
   x1 |-> Max({Footprints[i].buffered.x1 : i \in Polygons}),
   y1 |-> Max({Footprints[i].buffered.y1 : i \in Polygons})]

Within(box, p) == box.x0 <= p.x /\ p.x <= box.x1 /\ box.y0 <= p.y /\ p.y <= box.y1

(***************************************************************************)
(* The rasters: the index and the terrain grid start at the same corner.   *)
(***************************************************************************)
minx == polygon_extent.x0 - Buffer
miny == polygon_extent.y0 - Buffer
Dim(size, cell) == (size + 2 * Buffer) \div cell + 1
dimx(cell) == Dim(polygon_extent.x1 - polygon_extent.x0, cell)
dimy(cell) == Dim(polygon_extent.y1 - polygon_extent.y0, cell)
Col(x, cell) == (x - minx) \div cell
Row(y, cell) == (y - miny) \div cell
Cells == (0 .. dimx(TerrainCellSize) - 1) \X (0 .. dimy(TerrainCellSize) - 1)
TerrainCell(p) == <<Col(p.x, TerrainCellSize), Row(p.y, TerrainCellSize)>>

(* A mutant: a box that is smaller than a cell has no second one. *)
FloorDiv(a, b) == a \div b

CeilDiv(a, b) == (a + b - 1) \div b

(* The cells of the index that a footprint is entered in: as many as its   *)
(* buffer's box needs, from the one that its lower corner is in.           *)
IndexCells(i) ==
  LET b == Footprints[i].buffered
      c == Col(b.x0, CellSize)
      r == Row(b.y0, CellSize)
  IN (c .. Smaller(c + CeilDiv(b.x1 - b.x0, CellSize), dimx(CellSize) - 1))
     \X (r .. Smaller(r + CeilDiv(b.y1 - b.y0, CellSize), dimy(CellSize) - 1))

(* pindex_vals: the footprints of the cell that a point is in. *)
Candidates(p) == {i \in Polygons : <<Col(p.x, CellSize), Row(p.y, CellSize)>> \in IndexCells(i)}

Init ==
  /\ scenario \in Scenarios
  /\ phase = "open"
  /\ file = 1 /\ next = 1
  /\ point_clouds = [i \in Polygons |-> <<>>]
  /\ acquisition_years = [i \in Polygons |-> 0]
  /\ z_ground = [i \in Polygons |-> <<>>]
  /\ ground_buffer_points = [i \in Polygons |-> <<>>]
  /\ points_overlap = {}
  /\ terrain_grid = [c \in Cells |-> NoData]
  /\ min_ground_elevation = NoData
  /\ poly_info = <<>>
  /\ ground_elevations = <<>>
  /\ terrain_grid_elevations = <<>>
  /\ pointcloud_insufficient = <<>>

(* Boxes that touch do not intersect. *)
Intersects(a, b) == a.x0 < b.x1 /\ b.x0 < a.x1 /\ a.y0 < b.y1 /\ b.y0 < a.y1

FileBox(f) == BoxOf({<<files[f].points[k].x, files[f].points[k].y>> : k \in DOMAIN files[f].points})

(* A file is read if it can be, and if it reaches the footprints. *)
IsRead(f) == files[f].readable /\ Intersects(FileBox(f), polygon_extent)

SkipFile ==
  /\ phase = "open" /\ file <= Len(files)
  /\ ~IsRead(file)
  /\ file' = file + 1
  /\ UNCHANGED <<scenario, phase, next, collected, results>>

OpenFile ==
  /\ phase = "open" /\ file <= Len(files)
  /\ IsRead(file)
  /\ phase' = "read"
  /\ next' = 1
  /\ UNCHANGED <<scenario, file, collected, results>>

(* The year of the file, unless its points have a time of their own. *)
YearOf(f, p) ==
  IF ~f.gps_standard_time THEN f.file_creation_year
  ELSE IF scenario.use_acquisition_year THEN p.year ELSE 0

GivenTo(p) == {i \in Candidates(p) : Within(Footprints[i].buffered, p)}
InsideOf(p) == {i \in GivenTo(p) : Within(Footprints[i].inside, p)}

(* A point of several buildings waits, if it may belong to one only. *)
Waits(p) == p.class = Building /\ scenario.handle_overlap_points /\ Cardinality(InsideOf(p)) > 1

LowestOfCell(grid, p) == [grid EXCEPT ![TerrainCell(p)] = Smaller(p.z, @)]

AppendWhere(f, S, e) == [i \in DOMAIN f |-> IF i \in S THEN Append(f[i], e) ELSE f[i]]

add_point(p, year) ==
  /\ min_ground_elevation' = Smaller(min_ground_elevation, p.z)
  /\ terrain_grid' = IF p.class = Ground THEN LowestOfCell(terrain_grid, p) ELSE terrain_grid
  /\ z_ground' = IF p.class = Ground THEN AppendWhere(z_ground, GivenTo(p), p.z) ELSE z_ground
  /\ point_clouds' =
       IF p.class \in {Ground, Building} /\ ~Waits(p)
       THEN AppendWhere(point_clouds, InsideOf(p), p) ELSE point_clouds
  /\ points_overlap' =
       IF Waits(p) THEN points_overlap \cup {[point |-> p, of |-> InsideOf(p)]} ELSE points_overlap
  /\ ground_buffer_points' =
       IF p.class = Ground
       THEN AppendWhere(ground_buffer_points, GivenTo(p) \ InsideOf(p), p)
       ELSE ground_buffer_points
  /\ acquisition_years' =
       [i \in Polygons |-> IF i \in InsideOf(p) THEN Larger(year, acquisition_years[i])
                           ELSE acquisition_years[i]]

(* The reader leaves out the points that are not in the extent. *)
ReadPoint ==
  /\ phase = "read" /\ next <= Len(files[file].points)
  /\ LET p == files[file].points[next]
     IN IF Within(polygon_extent, p)
        THEN add_point(p, YearOf(files[file], p))
        ELSE UNCHANGED collected
  /\ next' = next + 1
  /\ UNCHANGED <<scenario, phase, file, results>>

CloseFile ==
  /\ phase = "read" /\ next > Len(files[file].points)
  /\ phase' = "open"
  /\ file' = file + 1
  /\ UNCHANGED <<scenario, next, collected, results>>

(***************************************************************************)
(* do_post_process.                                                        *)
(***************************************************************************)
OfClass(points, class) == {k \in DOMAIN points : points[k].class = class}
Area(i) ==
  LET b == Footprints[i].inside IN (b.x1 - b.x0 + 1) * (b.y1 - b.y0 + 1)

Count(i) ==
  LET bld == OfClass(point_clouds[i], Building)
  IN [pt_count_bld |-> Cardinality(bld),
      pt_count_grd |-> Cardinality(OfClass(point_clouds[i], Ground)),
      pt_count_bld_overlap |-> Cardinality({o \in points_overlap : i \in o.of}),
      counted |-> Cardinality(bld),
      z_sum |-> MapThenSumSet(LAMBDA k : point_clouds[i][k].z, bld)]

CountPoints ==
  /\ phase = "open" /\ file > Len(files)
  /\ poly_info' = [i \in Polygons |-> Count(i)]
  /\ phase' = "merge"
  /\ UNCHANGED <<scenario, file, next, collected,
                 ground_elevations, terrain_grid_elevations, pointcloud_insufficient>>

(* The ground points of the buffers become points of the footprints, from  *)
(* the one on that the loop starts with: its variable is not initialised.  *)
MergeBufferGround ==
  /\ phase = "merge"
  /\ \E first \in 1 .. Len(Footprints) + 1 :
       point_clouds' = [i \in Polygons |-> IF i < first THEN point_clouds[i]
                                           ELSE point_clouds[i] \o ground_buffer_points[i]]
  /\ ground_buffer_points' = [i \in Polygons |-> <<>>]
  /\ phase' = "overlap"
  /\ UNCHANGED <<scenario, file, next, acquisition_years, z_ground, points_overlap, terrain_grid,
                 min_ground_elevation, results>>

(* One footprint must come before another: the densities that both might   *)
(* have decide, or the mean elevations if these are close.  The mean of a  *)
(* footprint without building points is not initialised.                   *)
Possible(i) == poly_info[i].pt_count_bld + poly_info[i].pt_count_bld_overlap

Close(i, j) ==
  LET left == Possible(i) * Area(j)
      right == Possible(j) * Area(i)
  IN 100 * Larger(left - right, right - left) < MaxDensityDelta * right

Lower(i, j) ==
  /\ poly_info[i].counted > 0 /\ poly_info[j].counted > 0
  /\ poly_info[i].z_sum * poly_info[j].counted < poly_info[j].z_sum * poly_info[i].counted

Before(i, j) ==
  IF Close(i, j) THEN Lower(i, j) ELSE Possible(i) * Area(j) < Possible(j) * Area(i)

(* The last one of the sorted list gets the point.  The points come in the *)
(* order of their addresses, and each one counts for those that follow.    *)
AssignSharedPoint ==
  /\ phase = "overlap"
  /\ \E o \in points_overlap : \E i \in o.of :
       /\ \A j \in o.of : ~Before(i, j)
       /\ points_overlap' = points_overlap \ {o}
       /\ point_clouds' = [point_clouds EXCEPT ![i] = Append(@, o.point)]
       /\ poly_info' = [poly_info EXCEPT ![i].pt_count_bld = @ + 1]
  /\ UNCHANGED <<scenario, phase, file, next, acquisition_years, z_ground, ground_buffer_points,
                 terrain_grid, min_ground_elevation,
                 ground_elevations, terrain_grid_elevations, pointcloud_insufficient>>

(* The value at place k, from 0, of the sorted sequence. *)
Ranked(s, k) ==
  CHOOSE z \in {s[n] : n \in DOMAIN s} :
    /\ Cardinality({n \in DOMAIN s : s[n] < z}) <= k
    /\ k < Cardinality({n \in DOMAIN s : s[n] <= z})

PercentileOf(s) == IF s = <<>> THEN Null ELSE Ranked(s, (Percentile * (Len(s) - 1)) \div 100)

(* A mutant: a window without its last column. *)
OpenWindowMinimum(c0, c1, r0, r1) ==
  LET known == {terrain_grid[c] : c \in {d \in Cells : /\ c0 <= d[1] /\ d[1] < c1 /\ d[2] \in r0 .. r1
                                                        /\ terrain_grid[d] # NoData}}
  IN IF known = {} THEN Null ELSE Min(known)

(* The lowest elevation of a window of the grid. *)
WindowMinimum(c0, c1, r0, r1) ==
  LET known == {terrain_grid[c] : c \in {d \in Cells : /\ d[1] \in c0 .. c1 /\ d[2] \in r0 .. r1
                                                        /\ terrain_grid[d] # NoData}}
  IN IF known = {} THEN Null ELSE Min(known)

(* The window of a footprint's buffer, and the windows around it. *)
WindowAround(i, radius) ==
  LET b == Footprints[i].buffered
      last(n) == Smaller(n, dimx(TerrainCellSize) - 1)
      lastRow(n) == Smaller(n, dimy(TerrainCellSize) - 1)
  IN WindowMinimum(Larger(Col(b.x0, TerrainCellSize), 0) - radius,
                   last(Col(b.x1, TerrainCellSize)) + radius,
                   Larger(Row(b.y0, TerrainCellSize), 0) - radius,
                   lastRow(Row(b.y1, TerrainCellSize)) + radius)

(* The lowest elevation of the first of these windows that has one. *)
terrain_grid_min(i) ==
  LET radii == {r \in 0 .. SearchRadius : WindowAround(i, r) # Null}
  IN IF radii = {} THEN Null ELSE WindowAround(i, Min(radii))

SettleElevations ==
  /\ phase = "overlap" /\ points_overlap = {}
  /\ ground_elevations' = [i \in Polygons |-> PercentileOf(z_ground[i])]
  /\ terrain_grid_elevations' = [i \in Polygons |-> terrain_grid_min(i)]
  /\ pointcloud_insufficient' =
       [i \in Polygons |-> poly_info[i].pt_count_bld < MinDensity * Area(i)]
  /\ phase' = "cropped"
  /\ UNCHANGED <<scenario, file, next, collected, poly_info>>

CropStep ==
  \/ SkipFile \/ OpenFile \/ ReadPoint \/ CloseFile
  \/ CountPoints \/ MergeBufferGround \/ AssignSharedPoint \/ SettleElevations

-----------------------------------------------------------------------------
(* The points that came by, those of skipped files too. *)
Passed ==
  {id \in UNION {{f} \X DOMAIN files[f].points : f \in DOMAIN files} :
     /\ files[id[1]].readable
     /\ id[1] < file \/ (id[1] = file /\ phase = "read" /\ id[2] < next)}
PointAt(id) == files[id[1]].points[id[2]]

(* A building point that lies in a footprint is found by its index, however *)
(* the cells of the index cut the footprint: it is among the footprint's    *)
(* points, or waits to be given to one of those that it lies in.            *)
NoPointIsMissed ==
  phase # "read" => \A id \in Passed : LET p == PointAt(id) IN p.class = Building =>
    \A i \in Polygons : Within(Footprints[i].inside, p) =>
      \/ \E k \in DOMAIN point_clouds[i] : point_clouds[i][k] = p
      \/ /\ scenario.handle_overlap_points
         /\ \E j \in Polygons \ {i} : Within(Footprints[j].inside, p)

(* A footprint that has a ground elevation of its own also has one of the  *)
(* terrain grid, and that one is not above it: the grid has a sample       *)
(* wherever there was a ground point, and the search covers the buffer.    *)
GridIsNotAboveGround ==
  phase = "cropped" =>
    \A i \in Polygons : ground_elevations[i] # Null =>
      /\ terrain_grid_elevations[i] # Null
      /\ terrain_grid_elevations[i] <= ground_elevations[i]

=============================================================================
