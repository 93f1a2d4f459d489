---------------------------- MODULE RoofExtruder ----------------------------
(***************************************************************************)
(* The solids of a building: ArrangementExtruder on the partition that     *)
(* RoofPartition makes.  Every part of the building gets a mesh of a       *)
(* floor, of walls where two faces meet at different heights, and of its   *)
(* roofs.                                                                  *)
(*                                                                         *)
(* An edge of the arrangement is a row of sides of cells, here each on its *)
(* own.  A polygon is the set of its directed sides in space, those of its *)
(* holes included, with the interior to their left.                        *)
(***************************************************************************)
EXTENDS RoofPartition

CONSTANTS snap_tolerance, height_tolerance

ASSUME ToleranceAssumption == snap_tolerance \in Nat \ {0} /\ height_tolerance \in Nat \ {0}

VARIABLES
  multisolid,        \* part -> its polygons
  vertex_columns,    \* vertex -> face around it -> height of the face there
  extra_wall_points  \* the edges on which two roofs cross

allvars == <<partition, multisolid, vertex_columns, extra_wall_points>>

J == INSTANCE Junction

Vertices == (0 .. Width) \X (0 .. Height)
CellsAt == [v \in Vertices |-> {c \in Cells : c[1] - v[1] \in {0, 1} /\ c[2] - v[2] \in {0, 1}}]

(* The halfedges, as pairs of vertices, and the cell to the left of one. *)
Halfedges == {e \in Vertices \X Vertices :
                \/ e[1][1] = e[2][1] /\ e[1][2] - e[2][2] \in {-1, 1}
                \/ e[1][2] = e[2][2] /\ e[1][1] - e[2][1] \in {-1, 1}}
Twin(e) == <<e[2], e[1]>>
LeftOf == [e \in Halfedges |->
             CHOOSE c \in CellsAt[e[1]] \cap CellsAt[e[2]] :
               (e[2][1] - e[1][1]) * (2 * c[2] - 1 - 2 * e[1][2]) >
               (e[2][2] - e[1][2]) * (2 * c[1] - 1 - 2 * e[1][1])]
RightOf == [e \in Halfedges |-> LeftOf[Twin(e)]]

(* The halfedges between two sets of cells, with the first on the left. *)
Between(left, right) == {e \in Halfedges : LeftOf[e] \in left /\ RightOf[e] \in right}
Boundary(f) == Between(f, Cells \ f)

(* The height of a face at a vertex. *)
FaceHeight(f, v) ==
  CASE ~InFootprint(f) -> site.ground
    [] InFootprint(f) /\ site.lod = 22 -> HeightOn(arrangement[f].plane, 2 * v[1], 2 * v[2])
    [] OTHER -> arrangement[f].elevation_70p

(* The sectors around a vertex of four edges, and what the snapper leaves. *)
Sector(v, c) ==
  LET f == FaceAt(c)
  IN [face |-> f, height |-> IF OnRoof(f) THEN HeightOn(arrangement[f].plane, 2 * v[1], 2 * v[2])
                             ELSE site.ground,
      kind |-> CASE ~InFootprint(f) -> "outside" [] OnRoof(f) -> "roof" [] OTHER -> "bare"]
SectorsAt(v) ==
  LET x == v[1]  y == v[2]
      around == <<<<x + 1, y + 1>>, <<x, y + 1>>, <<x, y>>, <<x + 1, y>>>>
      s == [i \in 1 .. 4 |-> Sector(v, around[i])]
  IN IF \E i \in 1 .. 4 : s[i].face = s[J!NextSector(s, i)].face THEN <<>> ELSE s
SnappedAt(v) == ~J!IsProblematic(SectorsAt(v), height_tolerance)

At(v, h) == <<v[1], v[2], h>>

(* The sides over edges at one height. *)
Level(edges, h) == {<<At(e[1], h), At(e[2], h)>> : e \in edges}

Polygon(kind, sides) == [label |-> kind, sides |-> sides]
MeshOf(part) == IF part \in DOMAIN multisolid THEN multisolid[part] ELSE {}
PartAlong(edges) == arrangement[FaceAt(RightOf[CHOOSE e \in edges : TRUE])].part_id

ExtruderInit ==
  /\ PartitionInit
  /\ multisolid = [p \in {} |-> {}]
  /\ vertex_columns = [v \in {} |-> {}]
  /\ extra_wall_points = {}

(* The extruder gets what the snapper leaves: an arrangement with vertices *)
(* to repair is another one then.                                          *)
Snap ==
  /\ phase = "dissolved"
  /\ phase' = IF \A v \in Vertices : SnappedAt(v) THEN "floors" ELSE "repaired"
  /\ UNCHANGED <<site, holes_inserted, arrangement, label, multisolid, vertex_columns, extra_wall_points>>

(***************************************************************************)
(* One floor for everything inside of the outer boundary of a part, then   *)
(* the outer rings of the holes in it.                                     *)
(***************************************************************************)
MakeFloors ==
  /\ phase = "floors"
  /\ LET outlines == {Between(Unbounded, k) : k \in Components(Around, Cells \ Unbounded)}
     IN multisolid' = [p \in {PartAlong(o) : o \in outlines} |->
                         {Polygon("floor", Level(CHOOSE o \in outlines : PartAlong(o) = p, site.ground))}]
  /\ phase' = "attach"
  /\ UNCHANGED <<site, holes_inserted, arrangement, label, vertex_columns, extra_wall_points>>

HoleRings ==
  {Between(f, Surroundings(f)) : f \in {g \in Faces : arrangement[g].is_footprint_hole}}

AttachHoles ==
  /\ phase = "attach"
  /\ multisolid' = [p \in DOMAIN multisolid |->
                      {Polygon("floor", floor.sides \cup UNION {Level(h, site.ground) :
                                 h \in {o \in HoleRings : PartAlong(o) = p}}) : floor \in multisolid[p]}]
  /\ phase' = IF \E f \in FootprintFaces : arrangement[f].segid = 0 THEN "no planes" ELSE "columns"
  /\ UNCHANGED <<site, holes_inserted, arrangement, label, vertex_columns, extra_wall_points>>

(* Heights at a vertex that are practically the same are made the same. *)
Column(v) ==
  LET faces == {FaceAt(c) : c \in CellsAt[v]}
      heights == {FaceHeight(f, v) : f \in faces}
  IN [f \in faces |-> J!Levelled(heights, snap_tolerance)[FaceHeight(f, v)]]

ColumnHeights ==
  /\ phase = "columns"
  /\ vertex_columns' = [v \in Vertices |-> Column(v)]
  /\ phase' = "walls"
  /\ UNCHANGED <<site, holes_inserted, arrangement, label, multisolid, extra_wall_points>>

(***************************************************************************)
(* Walls.  An edge has a face b to its left and a to its right; which of   *)
(* the two halfedges stands for an edge is up to the arrangement.          *)
(***************************************************************************)
WallEdges == {e \in Halfedges : /\ (e[1][1] + e[1][2] < e[2][1] + e[2][2]) # site.turned
                                /\ FaceAt(LeftOf[e]) # FaceAt(RightOf[e])
                                /\ InFootprint(FaceAt(LeftOf[e])) \/ InFootprint(FaceAt(RightOf[e]))}

(* get_heights: the heights of other faces between those of the two. *)
OtherHeights(v, f, g) ==
  LET column == vertex_columns[v]
      lo == Min({column[f], column[g]})  hi == Max({column[f], column[g]})
  IN {column[k] : k \in {j \in DOMAIN column : lo < column[j] /\ column[j] < hi}}

(* Walls stand on the terrain, whatever the column says. *)
WallHeight(f, v) == IF InFootprint(f) THEN vertex_columns[v][f] ELSE site.ground

(* A mutant: a wall has only the corners of its own. *)
StraightClimb(v, from, to, others) == IF from = to THEN {} ELSE {<<At(v, from), At(v, to)>>}

(* The sides of a wall at a vertex, upwards or downwards. *)
Steps(v, heights) ==
  {<<At(v, s[1]), At(v, s[2])>> : s \in {t \in heights \X heights :
       t[1] < t[2] /\ \A h \in heights : ~(t[1] < h /\ h < t[2])}}
Climb(v, from, to, others) ==
  IF from < to THEN Steps(v, {from, to} \cup others)
  ELSE {Twin(s) : s \in Steps(v, {from, to} \cup others)}

(* Where two roofs cross on an edge; it stands for the point. *)
CrossingPoint(e) == <<e[1][1] + e[2][1], e[1][2] + e[2][2]>>

Heights(e) ==
  LET a == FaceAt(RightOf[e])  b == FaceAt(LeftOf[e])
  IN [h1a |-> WallHeight(a, e[1]), h1b |-> WallHeight(b, e[1]),
      h2a |-> WallHeight(a, e[2]), h2b |-> WallHeight(b, e[2]),
      others1 |-> OtherHeights(e[1], a, b), others2 |-> OtherHeights(e[2], a, b)]

Crosses(e) ==
  LET h == Heights(e) IN (h.h1a < h.h1b /\ h.h2a > h.h2b) \/ (h.h1a > h.h1b /\ h.h2a < h.h2b)

(* Where the roofs cross there are two walls that meet in a point. *)
WallsOn(e) ==
  LET h == Heights(e)
      x == CrossingPoint(e)
      first == Climb(e[1], h.h1b, h.h1a, h.others1)
      second == Climb(e[2], h.h2a, h.h2b, h.others2)
  IN CASE h.h1a = h.h1b /\ h.h2a = h.h2b -> {}
       [] Crosses(e) -> {first \cup {<<At(e[1], h.h1a), x>>, <<x, At(e[1], h.h1b)>>},
                         second \cup {<<At(e[2], h.h2b), x>>, <<x, At(e[2], h.h2a)>>}}
       [] OTHER -> {first \cup second \cup {<<At(e[1], h.h1a), At(e[2], h.h2a)>>,
                                            <<At(e[2], h.h2b), At(e[1], h.h1b)>>}}

WallLabel(e) ==
  IF InFootprint(FaceAt(LeftOf[e])) /\ InFootprint(FaceAt(RightOf[e])) THEN "inner wall" ELSE "outer wall"

PartOf(e) ==
  IF InFootprint(FaceAt(LeftOf[e])) THEN arrangement[FaceAt(LeftOf[e])].part_id
  ELSE arrangement[FaceAt(RightOf[e])].part_id

MakeWalls ==
  /\ phase = "walls"
  /\ multisolid' =
       [p \in DOMAIN multisolid \cup {PartOf(e) : e \in WallEdges} |->
          MeshOf(p) \cup UNION {{Polygon(WallLabel(e), w) : w \in WallsOn(e)} :
                                e \in {d \in WallEdges : PartOf(d) = p}}]
  /\ extra_wall_points' = {e \in WallEdges : Crosses(e)}
  /\ phase' = "roofs"
  /\ UNCHANGED <<site, holes_inserted, arrangement, label, vertex_columns>>

(***************************************************************************)
(* Roofs: the rings of a face at its heights, through the points where     *)
(* walls cross.                                                            *)
(***************************************************************************)
RoofSides(f, e) ==
  LET p == At(e[1], vertex_columns[e[1]][f])
      q == At(e[2], vertex_columns[e[2]][f])
      crossings == extra_wall_points \cap {e, Twin(e)}
  IN IF crossings = {} THEN {<<p, q>>} ELSE {<<p, CrossingPoint(e)>>, <<CrossingPoint(e), q>>}

RoofPolygon(f) == Polygon("roof", UNION {RoofSides(f, e) : e \in Boundary(f)})

MakeRoofs ==
  /\ phase = "roofs"
  /\ multisolid' = [p \in DOMAIN multisolid \cup {arrangement[f].part_id : f \in FootprintFaces} |->
                      MeshOf(p) \cup {RoofPolygon(f) : f \in {g \in FootprintFaces : arrangement[g].part_id = p}}]
  /\ phase' = "extruded"
  /\ UNCHANGED <<site, holes_inserted, arrangement, label, vertex_columns, extra_wall_points>>

Ended == phase \in {"repaired", "no planes", "extruded"} /\ UNCHANGED allvars

ExtruderNext ==
  \/ PartitionNext /\ UNCHANGED <<multisolid, vertex_columns, extra_wall_points>>
  \/ Snap \/ MakeFloors \/ AttachHoles \/ ColumnHeights \/ MakeWalls \/ MakeRoofs
  \/ Ended

ExtruderSpec == ExtruderInit /\ [][ExtruderNext]_allvars
-----------------------------------------------------------------------------
(* Every side in space has as many polygons along it as against it; in a   *)
(* two-manifold it is one of each.                                         *)
Along(mesh, s) == Cardinality({p \in mesh : s \in p.sides})
ProperSides(mesh) == {s \in UNION {p.sides : p \in mesh} : s[1] # s[2]}
IsClosed(mesh) == \A s \in ProperSides(mesh) : Along(mesh, s) = Along(mesh, Twin(s))
IsTwoManifold(mesh) == \A s \in ProperSides(mesh) : Along(mesh, s) = 1 /\ Along(mesh, Twin(s)) = 1

HasFloor(part) == \E p \in multisolid[part] : p.label = "floor"

(* No wall ends a little below the terrain, where a height is taken for    *)
(* that of the ground, and none of a roof crosses the terrain.             *)
GroundIsClear ==
  /\ \A v \in Vertices : \A c, d \in CellsAt[v] :
       InFootprint(FaceAt(c)) /\ ~InFootprint(FaceAt(d)) =>
         ~(site.ground - snap_tolerance < FaceHeight(FaceAt(c), v) /\ FaceHeight(FaceAt(c), v) < site.ground)
  /\ \A e \in extra_wall_points : InFootprint(FaceAt(LeftOf[e])) /\ InFootprint(FaceAt(RightOf[e]))

HeightsAreApart ==
  \A v \in Vertices : \A c, d \in CellsAt[v] :
    LET h == FaceHeight(FaceAt(c), v)  k == FaceHeight(FaceAt(d), v)
    IN h < k => k - h >= snap_tolerance /\ k - h >= height_tolerance

(* The solid of every part that is not inside of another one is closed,    *)
(* whatever heights its roofs meet at, around its holes too.  It is a      *)
(* two-manifold as well, but for LoD1.3: the snapper looks at the planes   *)
(* around a vertex, and LoD1.3 is extruded to elevations.                  *)
SolidIsClosed ==
  phase = "extruded" /\ GroundIsClear =>
    \A part \in DOMAIN multisolid :
      HasFloor(part) =>
        /\ IsClosed(multisolid[part])
        /\ site.lod = 12 \/ (site.lod = 22 /\ HeightsAreApart) => IsTwoManifold(multisolid[part])

=============================================================================
