--------------------------- MODULE MCTerrainMesh ---------------------------
(* Instances of TerrainMesh for TLC. *)
EXTENDS TerrainMesh

Square(x0, x1, y0, y1) == [x0 |-> x0, x1 |-> x1, y0 |-> y0, y1 |-> y1]
At(x, y, z, class) == [x |-> x, y |-> y, z |-> z, class |-> class, year |-> 2000 + x]
File(points) ==
  [points |-> points, readable |-> TRUE, gps_standard_time |-> TRUE, file_creation_year |-> 2010]

(* Two buildings that share a column of points, and a small one beside     *)
(* them whose box is cut by the index.                                     *)
Buildings == <<[inside |-> Square(2, 4, 2, 4), buffered |-> Square(1, 5, 1, 5)],
               [inside |-> Square(4, 6, 2, 4), buffered |-> Square(3, 7, 1, 5)],
               [inside |-> Square(8, 8, 2, 2), buffered |-> Square(7, 9, 1, 3)]>>

SharedPoints == <<At(4, 3, 9, Building), At(4, 2, 3, Building)>>
Samples == {At(2, 3, 8, Building), At(8, 2, 6, Building), At(3, 3, 4, Ground), At(2, 2, 2, Ground),
            At(5, 2, 1, Ground), At(6, 3, 7, "noise")}

Orders(S) == {o \in [1 .. Cardinality(S) -> S] : \A j, k \in DOMAIN o : j # k => o[j] # o[k]}
Variants(f) == {f, [f EXCEPT !.readable = FALSE], [f EXCEPT !.gps_standard_time = FALSE]}

(* The points of one file in every order, and another file that has some   *)
(* of them again, cannot be read, has no time, or only touches the extent. *)
Cropped ==
  [footprints : {Buildings}, handle_overlap_points : BOOLEAN, use_acquisition_year : {TRUE},
   retain_terrain_grid : {FALSE}, terrain_nodata_mode : {"complete_quads"},
   files : {<<File(SharedPoints \o o), g>> :
              o \in UNION {Orders(S) : S \in {T \in SUBSET Samples : Cardinality(T) = 3}},
              g \in Variants(File(<<At(4, 4, 5, Building), At(2, 2, 0, Ground)>>))
                    \cup {File(<<At(9, 3, 1, Ground), At(12, 4, 1, Ground)>>)}}]

(* A grid of 5 by 4 samples, flat or with hills, with up to two gaps. *)
Hills == {<<0, 3>>, <<2, 3>>, <<4, 3>>, <<1, 1>>}
GroundOf(hills, gaps) ==
  SelectSeq([k \in 1 .. 20 |-> LET v == <<(k - 1) % 5, (k - 1) \div 5>>
                               IN At(2 * v[1] + 1, 2 * v[2] + 1, IF v \in hills THEN 8 ELSE 0,
                                     IF v \in gaps THEN "noise" ELSE Ground)],
            LAMBDA p : p.class = Ground)
Lot == <<[inside |-> Square(3, 7, 3, 5), buffered |-> Square(1, 9, 1, 7)]>>
Meshed ==
  [footprints : {Lot}, handle_overlap_points : {FALSE}, use_acquisition_year : {FALSE},
   retain_terrain_grid : {TRUE},
   terrain_nodata_mode : {"complete_quads", "local_triangles", "fill_small_gaps"},
   files : {<<File(GroundOf(h, g))>> : h \in {{}, Hills},
              g \in {{v, w} : v, w \in (0 .. 4) \X (0 .. 3)}}]

(* Two gaps in a grid of 6 by 7 samples, with a vertex between them that   *)
(* the terrain to the right of it must not touch again, and a gap at the   *)
(* edge: the triangles between the gaps cannot join what is around them.   *)
BowTieGaps == {<<2, 2>>, <<2, 4>>, <<3, 4>>, <<5, 5>>}
WideGround ==
  SelectSeq([k \in 1 .. 42 |-> LET v == <<(k - 1) % 6, (k - 1) \div 6>>
                               IN At(2 * v[1] + 1, 2 * v[2] + 1, 0,
                                     IF v \in BowTieGaps THEN "noise" ELSE Ground)],
            LAMBDA p : p.class = Ground)
WideLot == <<[inside |-> Square(3, 9, 3, 11), buffered |-> Square(1, 11, 1, 13)]>>
BowTie ==
  [footprints : {WideLot}, handle_overlap_points : {FALSE}, use_acquisition_year : {FALSE},
   retain_terrain_grid : {TRUE}, terrain_nodata_mode : {"local_triangles"},
   files : {<<File(WideGround)>>}]

MCScenarios == Cropped \cup Meshed \cup BowTie
=============================================================================
