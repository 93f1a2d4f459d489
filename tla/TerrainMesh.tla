---------------------------- MODULE TerrainMesh ----------------------------
(***************************************************************************)
(* The terrain of a tile: the grid that the chosen point cloud has filled  *)
(* (StreamCropper) is triangulated, and the triangles are split into       *)
(* surfaces that are connected by edges (triangulateTerrainGrid and        *)
(* splitTerrainConnectedComponents, extra/io/StreamCropper.cpp).  A vertex *)
(* is a cell of the grid; elevations are multiples of 4, so that the mean  *)
(* of four of them is an integer.                                          *)
(***************************************************************************)
EXTENDS StreamCropper, SequencesExt

VARIABLES
  triangles,   \* place -> its corners; places in the order of the vector
  fans,        \* vertex -> its triangles in classes that share edges at it
  components   \* the surfaces, as sets of places of triangles

meshVars == <<triangles, fans, components>>
vars == <<cropperVars, meshVars>>

Columns == dimx(TerrainCellSize)
Rows == dimy(TerrainCellSize)

(* A gap between four samples takes their mean.  The samples are those of  *)
(* the grid, so a filled gap fills no other one.                           *)
Around(v) == {<<v[1] - 1, v[2]>>, <<v[1] + 1, v[2]>>, <<v[1], v[2] - 1>>, <<v[1], v[2] + 1>>}

Known == {v \in Cells : terrain_grid[v] # NoData}

Gaps == {v \in Cells \ Known : Around(v) \subseteq Known}

samples ==
  LET filled == IF scenario.terrain_nodata_mode = "fill_small_gaps" THEN Gaps ELSE {}
  IN [v \in Known \cup filled |->
        IF v \in Known THEN terrain_grid[v]
        ELSE MapThenSumSet(LAMBDA n : terrain_grid[n], Around(v)) \div 4]

squared_distance(a, b) ==
  (TerrainCellSize * (a[1] - b[1])) ^ 2 + (TerrainCellSize * (a[2] - b[2])) ^ 2
  + (samples[a] - samples[b]) ^ 2

(* The corners of a quad, counterclockwise, and the triangles that it      *)
(* gets: two on the shorter diagonal, or one of three corners.             *)
Corners(c, r) == <<<<c, r>>, <<c + 1, r>>, <<c + 1, r + 1>>, <<c, r + 1>>>>

QuadTriangles(c, r) ==
  LET q == Corners(c, r)
      valid == SelectSeq(q, LAMBDA v : v \in DOMAIN samples)
  IN CASE Len(valid) = 4 /\ squared_distance(q[1], q[3]) <= squared_distance(q[2], q[4])
            -> <<<<q[1], q[2], q[3]>>, <<q[1], q[3], q[4]>>>>
       [] Len(valid) = 4 /\ squared_distance(q[1], q[3]) > squared_distance(q[2], q[4])
            -> <<<<q[1], q[2], q[4]>>, <<q[2], q[3], q[4]>>>>
       [] Len(valid) = 3 /\ scenario.terrain_nodata_mode # "complete_quads" -> <<valid>>
       [] OTHER -> <<>>

(* The triangles at their places: every quad has room for two. *)
triangulateTerrainGrid ==
  LET quads == IF Columns < 2 \/ Rows < 2 THEN {} ELSE 0 .. (Columns - 1) * (Rows - 1) - 1
      made == [q \in quads |-> QuadTriangles(q % (Columns - 1), q \div (Columns - 1))]
      places == UNION {{2 * q + k - 1 : k \in 1 .. Len(made[q])} : q \in quads}
  IN [t \in places |-> made[t \div 2][(t % 2) + 1]]

(***************************************************************************)
(* Surfaces.                                                               *)
(***************************************************************************)
VerticesOf(t) == {triangles[t][k] : k \in 1 .. 3}
VerticesOfAll(ts) == UNION {VerticesOf(t) : t \in ts}
Incident(v) == {t \in DOMAIN triangles : v \in VerticesOf(t)}

(* A partition of triangles, and two of its classes united. *)
Alone(ts) == {{t} : t \in ts}
ClassOf(classes, t) == CHOOSE c \in classes : t \in c
United(classes, s, t) ==
  {c \in classes : s \notin c /\ t \notin c} \cup {UNION {c \in classes : s \in c \/ t \in c}}

(* The triangles as far as they share edges. *)
Linked(ts) ==
  FoldSet(LAMBDA p, classes : United(classes, p[1], p[2]), Alone(ts),
          {p \in ts \X ts : p[1] < p[2] /\ Cardinality(VerticesOf(p[1]) \cap VerticesOf(p[2])) >= 2})

(* The edges of the grid's triangles in the order of the map that holds    *)
(* them: by the lower vertex, then by the other one, columns first.        *)
EdgeAt(k) ==
  LET v == <<(k \div 4) \div Rows, (k \div 4) % Rows>>
  IN CASE k % 4 = 0 -> {v, <<v[1], v[2] + 1>>}
       [] k % 4 = 1 -> {v, <<v[1] + 1, v[2] - 1>>}
       [] k % 4 = 2 -> {v, <<v[1] + 1, v[2]>>}
       [] k % 4 = 3 -> {v, <<v[1] + 1, v[2] + 1>>}

Owners(e) == {t \in DOMAIN triangles : e \subseteq VerticesOf(t)}

(* A mutant: surfaces that share an edge are always united. *)
AnyFans(a, b) == TRUE

(* Two surfaces may be one if no vertex of both has different fans in them. *)
SameFans(a, b) ==
  \A s \in a, t \in b : \A v \in VerticesOf(s) \cap VerticesOf(t) :
    \E fan \in fans[v] : {s, t} \subseteq fan

UniteOwners(classes, owners) ==
  IF /\ Cardinality(owners) = 2
     /\ SameFans(ClassOf(classes, Min(owners)), ClassOf(classes, Max(owners)))
  THEN United(classes, Min(owners), Max(owners)) ELSE classes

splitTerrainConnectedComponents ==
  FoldLeft(UniteOwners, Alone(DOMAIN triangles), [k \in 1 .. 4 * Columns * Rows |-> Owners(EdgeAt(k - 1))])

MeshInit ==
  /\ Init
  /\ triangles = <<>>
  /\ fans = <<>>
  /\ components = {}

Crop == CropStep /\ UNCHANGED meshVars

(* The point cloud that is not chosen for the terrain keeps no grid. *)
NoTerrain ==
  /\ phase = "cropped" /\ ~scenario.retain_terrain_grid
  /\ phase' = "done"
  /\ UNCHANGED <<scenario, file, next, collected, results, meshVars>>

Triangulate ==
  /\ phase = "cropped" /\ scenario.retain_terrain_grid
  /\ triangles' = triangulateTerrainGrid
  /\ phase' = "meshed"
  /\ UNCHANGED <<scenario, file, next, collected, results, fans, components>>

FindFans ==
  /\ phase = "meshed"
  /\ fans' = [v \in VerticesOfAll(DOMAIN triangles) |-> Linked(Incident(v))]
  /\ phase' = "fans"
  /\ UNCHANGED <<scenario, file, next, collected, results, triangles, components>>

Split ==
  /\ phase = "fans"
  /\ components' = splitTerrainConnectedComponents
  /\ phase' = "done"
  /\ UNCHANGED <<scenario, file, next, collected, results, triangles, fans>>

Done == phase = "done" /\ UNCHANGED vars

Next == Crop \/ NoTerrain \/ Triangulate \/ FindFans \/ Split \/ Done
Spec == MeshInit /\ [][Next]_vars

-----------------------------------------------------------------------------
(* Every triangle is in one surface, which can be walked from edge to edge *)
(* and at each of its vertices keeps to the triangles of one fan, although *)
(* triangles are united along other ways around a gap.                     *)
Walkable(ts) == Cardinality(Linked(ts)) <= 1

SurfacesKeepToFans ==
  phase = "done" =>
    /\ UNION components = DOMAIN triangles
    /\ \A a, b \in components : a # b => a \cap b = {}
    /\ \A a \in components :
         /\ Walkable(a)
         /\ \A v \in VerticesOfAll(a) : \E fan \in fans[v] : Incident(v) \cap a \subseteq fan

(* StreamCropper.cpp:172-174: "At a manifold vertex all incident triangles *)
(* form one fan through edges that contain that vertex. Record the fan of  *)
(* every triangle so a later global merge cannot create a bow-tie vertex   *)
(* through another route."  So the triangles of a surface at a vertex are  *)
(* one fan: the surface can be walked around its vertices too.             *)
SurfacesAreManifold ==
  phase = "done" =>
    \A a \in components : \A v \in VerticesOfAll(a) : Walkable(Incident(v) \cap a)

=============================================================================
