--------------------------- MODULE ExtruderProofs ---------------------------
(***************************************************************************)
(* Proofs about RoofExtruder: the solids of the parts of a building are    *)
(* closed, and two-manifolds where heights tell the levels of the roofs    *)
(* apart.  First what the extruder gets: the grid and the pieces of it     *)
(* that faces are, the parts of the building, and what is not a roof.      *)
(* Then what it makes of them, step by step (MeshInv), the floor of a part *)
(* (FloorOfPart), its polygons, and their sides: over edges, at points in  *)
(* which roofs cross, and upright ones.                                    *)
(***************************************************************************)
EXTENDS ReconstructProofs, SequenceTheorems
-----------------------------------------------------------------------------
(***************************************************************************)
(* The grid.                                                               *)
(***************************************************************************)
East(v) == <<v[1] + 1, v[2]>>
North(v) == <<v[1], v[2] + 1>>
West(v) == <<v[1] - 1, v[2]>>
South(v) == <<v[1], v[2] - 1>>

(* The cells around a vertex, by quadrant. *)
Cell1(v) == <<v[1] + 1, v[2] + 1>>
Cell2(v) == <<v[1], v[2] + 1>>
Cell3(v) == <<v[1], v[2]>>
Cell4(v) == <<v[1] + 1, v[2]>>

LEMMA CellsAround ==
  ASSUME NEW v \in Vertices
  PROVE  /\ v = <<v[1], v[2]>> /\ v[1] \in Int /\ v[2] \in Int
         /\ CellsAt[v] = {Cell1(v), Cell2(v), Cell3(v), Cell4(v)}
         /\ CellsAt[v] \subseteq Cells
<1>0. Width \in Nat /\ Height \in Nat
  BY SiteAssumption
<1>1. PICK x \in 0 .. Width, y \in 0 .. Height : v = <<x, y>>
  BY DEF Vertices
<1>2. CellsAt[v] = {c \in Cells : c[1] - x \in {0, 1} /\ c[2] - y \in {0, 1}}
  BY <1>1 DEF CellsAt
<1>3. ASSUME NEW c \in CellsAt[v] PROVE c \in {<<x + 1, y + 1>>, <<x, y + 1>>, <<x, y>>, <<x + 1, y>>}
  <2>1. PICK i \in 0 .. Width + 1, j \in 0 .. Height + 1 : c = <<i, j>>
    BY <1>2, <1>3 DEF Cells
  <2>2. i - x \in {0, 1} /\ j - y \in {0, 1}
    BY <2>1, <1>2, <1>3
  <2>3. (i = x \/ i = x + 1) /\ (j = y \/ j = y + 1)
    BY <2>2, <1>0
  <2> QED
    BY <2>1, <2>3
<1>4. \A i \in {x, x + 1} : \A j \in {y, y + 1} : <<i, j>> \in Cells /\ <<i, j>> \in CellsAt[v]
  <2> SUFFICES ASSUME NEW i \in {x, x + 1}, NEW j \in {y, y + 1} PROVE <<i, j>> \in Cells /\ <<i, j>> \in CellsAt[v]
    OBVIOUS
  <2>1. i \in 0 .. Width + 1 /\ j \in 0 .. Height + 1 /\ i - x \in {0, 1} /\ j - y \in {0, 1}
    BY <1>0
  <2>2. <<i, j>> \in Cells
    BY <2>1 DEF Cells
  <2> QED
    BY <1>2, <2>1, <2>2
<1> QED
  BY <1>0, <1>1, <1>2, <1>3, <1>4 DEF Cell1, Cell2, Cell3, Cell4

(* The four halfedges that leave a vertex. *)
LEMMA HalfedgesOut ==
  ASSUME NEW e \in Halfedges
  PROVE  /\ e = <<e[1], e[2]>> /\ e[1] \in Vertices /\ e[2] \in Vertices
         /\ e[2] \in {East(e[1]), North(e[1]), West(e[1]), South(e[1])}
         /\ Twin(e) \in Halfedges /\ Twin(Twin(e)) = e
         /\ Twin(e)[1] = e[2] /\ Twin(e)[2] = e[1]
<1>0. Width \in Nat /\ Height \in Nat
  BY SiteAssumption
<1>1. PICK v \in Vertices, w \in Vertices : e = <<v, w>>
  BY DEF Halfedges
<1>2. PICK x \in 0 .. Width, y \in 0 .. Height : v = <<x, y>>
  BY DEF Vertices
<1>3. PICK i \in 0 .. Width, j \in 0 .. Height : w = <<i, j>>
  BY DEF Vertices
<1>4. (x = i /\ y - j \in {-1, 1}) \/ (y = j /\ x - i \in {-1, 1})
  BY <1>1, <1>2, <1>3 DEF Halfedges
<1>5. w \in {<<x + 1, y>>, <<x, y + 1>>, <<x - 1, y>>, <<x, y - 1>>}
  <2>1. \/ x = i /\ j = y + 1
        \/ x = i /\ j = y - 1
        \/ y = j /\ i = x + 1
        \/ y = j /\ i = x - 1
    BY <1>0, <1>4
  <2> QED
    BY <2>1, <1>3
<1>6. (i = x /\ j - y \in {-1, 1}) \/ (j = y /\ i - x \in {-1, 1})
  BY <1>0, <1>4
<1>7. Twin(e) = <<w, v>> /\ Twin(e) \in Vertices \X Vertices
  BY <1>1 DEF Twin
<1>8. Twin(e) \in Halfedges
  BY <1>2, <1>3, <1>6, <1>7 DEF Halfedges
<1> QED
  BY <1>1, <1>2, <1>5, <1>7, <1>8 DEF East, North, West, South, Twin

LEMMA LeftCells ==
  ASSUME NEW e \in Halfedges
  PROVE  /\ e[2] = East(e[1]) => LeftOf[e] = Cell1(e[1])
         /\ e[2] = North(e[1]) => LeftOf[e] = Cell2(e[1])
         /\ e[2] = West(e[1]) => LeftOf[e] = Cell3(e[1])
         /\ e[2] = South(e[1]) => LeftOf[e] = Cell4(e[1])
<1> DEFINE v == e[1]
           w == e[2]
           x == v[1]
           y == v[2]
           OnLeft(c) == (w[1] - x) * (2 * c[2] - 1 - 2 * y) > (w[2] - y) * (2 * c[1] - 1 - 2 * x)
           both == CellsAt[v] \cap CellsAt[w]
<1>1. v \in Vertices /\ w \in Vertices
  BY HalfedgesOut
<1>2. LeftOf[e] = CHOOSE c \in both : OnLeft(c)
  BY DEF LeftOf
<1>3. /\ x \in Int /\ y \in Int
      /\ CellsAt[v] = {<<x + 1, y + 1>>, <<x, y + 1>>, <<x, y>>, <<x + 1, y>>}
  BY <1>1, CellsAround DEF Cell1, Cell2, Cell3, Cell4
<1>4. CellsAt[w] = {<<w[1] + 1, w[2] + 1>>, <<w[1], w[2] + 1>>, <<w[1], w[2]>>, <<w[1] + 1, w[2]>>}
  BY <1>1, CellsAround DEF Cell1, Cell2, Cell3, Cell4
<1> HIDE DEF v, w
<1>5. ASSUME w = <<x + 1, y>> PROVE LeftOf[e] = <<x + 1, y + 1>>
  <2>0. w[1] = x + 1 /\ w[2] = y
    BY <1>5
  <2>1. ASSUME NEW c \in both PROVE c = <<x + 1, y + 1>> \/ c = <<x + 1, y>>
    <3>1. c \in CellsAt[v] /\ c \in CellsAt[w]
      OBVIOUS
    <3>2. PICK i \in {x, x + 1}, j \in {y, y + 1} : c = <<i, j>>
      BY <3>1, <1>3
    <3>3. (c[1] = w[1] \/ c[1] = w[1] + 1) /\ (c[2] = w[2] \/ c[2] = w[2] + 1)
      BY <3>1, <1>4
    <3>4. (i = w[1] \/ i = w[1] + 1) /\ (j = w[2] \/ j = w[2] + 1)
      BY <3>2, <3>3
    <3> QED
      BY <3>2, <3>4, <2>0, <1>3
  <2>2. <<x + 1, y + 1>> \in both
    BY <1>3, <1>4, <2>0
  <2>3. OnLeft(<<x + 1, y + 1>>) /\ ~OnLeft(<<x + 1, y>>)
    BY <1>3, <2>0
  <2> HIDE DEF OnLeft, both, x, y
  <2> QED
    BY <2>1, <2>2, <2>3, <1>2
<1>6. ASSUME w = <<x, y + 1>> PROVE LeftOf[e] = <<x, y + 1>>
  <2>0. w[1] = x /\ w[2] = y + 1
    BY <1>6
  <2>1. ASSUME NEW c \in both PROVE c = <<x, y + 1>> \/ c = <<x + 1, y + 1>>
    <3>1. c \in CellsAt[v] /\ c \in CellsAt[w]
      OBVIOUS
    <3>2. PICK i \in {x, x + 1}, j \in {y, y + 1} : c = <<i, j>>
      BY <3>1, <1>3
    <3>3. (c[1] = w[1] \/ c[1] = w[1] + 1) /\ (c[2] = w[2] \/ c[2] = w[2] + 1)
      BY <3>1, <1>4
    <3>4. (i = w[1] \/ i = w[1] + 1) /\ (j = w[2] \/ j = w[2] + 1)
      BY <3>2, <3>3
    <3> QED
      BY <3>2, <3>4, <2>0, <1>3
  <2>2. <<x, y + 1>> \in both
    BY <1>3, <1>4, <2>0
  <2>3. OnLeft(<<x, y + 1>>) /\ ~OnLeft(<<x + 1, y + 1>>)
    BY <1>3, <2>0
  <2> HIDE DEF OnLeft, both, x, y
  <2> QED
    BY <2>1, <2>2, <2>3, <1>2
<1>7. ASSUME w = <<x - 1, y>> PROVE LeftOf[e] = <<x, y>>
  <2>0. w[1] = x - 1 /\ w[2] = y
    BY <1>7
  <2>1. ASSUME NEW c \in both PROVE c = <<x, y>> \/ c = <<x, y + 1>>
    <3>1. c \in CellsAt[v] /\ c \in CellsAt[w]
      OBVIOUS
    <3>2. PICK i \in {x, x + 1}, j \in {y, y + 1} : c = <<i, j>>
      BY <3>1, <1>3
    <3>3. (c[1] = w[1] \/ c[1] = w[1] + 1) /\ (c[2] = w[2] \/ c[2] = w[2] + 1)
      BY <3>1, <1>4
    <3>4. (i = w[1] \/ i = w[1] + 1) /\ (j = w[2] \/ j = w[2] + 1)
      BY <3>2, <3>3
    <3> QED
      BY <3>2, <3>4, <2>0, <1>3
  <2>2. <<x, y>> \in both
    <3>1. w[1] + 1 = x /\ w[2] + 1 = y + 1
      BY <2>0, <1>3
    <3> HIDE DEF x, y
    <3> QED
      BY <1>3, <1>4, <2>0, <3>1
  <2>3. OnLeft(<<x, y>>) /\ ~OnLeft(<<x, y + 1>>)
    BY <1>3, <2>0
  <2> HIDE DEF OnLeft, both, x, y
  <2> QED
    BY <2>1, <2>2, <2>3, <1>2
<1>8. ASSUME w = <<x, y - 1>> PROVE LeftOf[e] = <<x + 1, y>>
  <2>0. w[1] = x /\ w[2] = y - 1
    BY <1>8
  <2>1. ASSUME NEW c \in both PROVE c = <<x + 1, y>> \/ c = <<x, y>>
    <3>1. c \in CellsAt[v] /\ c \in CellsAt[w]
      OBVIOUS
    <3>2. PICK i \in {x, x + 1}, j \in {y, y + 1} : c = <<i, j>>
      BY <3>1, <1>3
    <3>3. (c[1] = w[1] \/ c[1] = w[1] + 1) /\ (c[2] = w[2] \/ c[2] = w[2] + 1)
      BY <3>1, <1>4
    <3>4. (i = w[1] \/ i = w[1] + 1) /\ (j = w[2] \/ j = w[2] + 1)
      BY <3>2, <3>3
    <3> QED
      BY <3>2, <3>4, <2>0, <1>3
  <2>2. <<x + 1, y>> \in both
    <3>1. w[2] + 1 = y /\ w[1] + 1 = x + 1
      BY <2>0, <1>3
    <3> HIDE DEF x, y
    <3> QED
      BY <1>3, <1>4, <2>0, <3>1
  <2>3. OnLeft(<<x + 1, y>>) /\ ~OnLeft(<<x, y>>)
    BY <1>3, <2>0
  <2> HIDE DEF OnLeft, both, x, y
  <2> QED
    BY <2>1, <2>2, <2>3, <1>2
<1> USE DEF v
<1> QED
  BY <1>5, <1>6, <1>7, <1>8 DEF East, North, West, South, Cell1, Cell2, Cell3, Cell4, w

LEMMA RightCells ==
  ASSUME NEW e \in Halfedges
  PROVE  /\ RightOf[e] = LeftOf[Twin(e)] /\ RightOf[Twin(e)] = LeftOf[e]
         /\ e[2] = East(e[1]) => RightOf[e] = Cell4(e[1])
         /\ e[2] = North(e[1]) => RightOf[e] = Cell1(e[1])
         /\ e[2] = West(e[1]) => RightOf[e] = Cell2(e[1])
         /\ e[2] = South(e[1]) => RightOf[e] = Cell3(e[1])
<1> DEFINE v == e[1]
           w == e[2]
           t == Twin(e)
<1>1. v \in Vertices /\ w \in Vertices /\ t \in Halfedges /\ Twin(t) = e /\ t[1] = w /\ t[2] = v
  BY HalfedgesOut
<1>2. RightOf[e] = LeftOf[t] /\ RightOf[t] = LeftOf[e]
  BY <1>1 DEF RightOf
<1>3. v = <<v[1], v[2]>> /\ v[1] \in Int /\ v[2] \in Int
  BY <1>1, CellsAround
<1>4. /\ v = East(w) => LeftOf[t] = Cell1(w)
      /\ v = North(w) => LeftOf[t] = Cell2(w)
      /\ v = West(w) => LeftOf[t] = Cell3(w)
      /\ v = South(w) => LeftOf[t] = Cell4(w)
  BY <1>1, LeftCells
<1> HIDE DEF v, w, t
<1>5. w = East(v) => v = West(w) /\ Cell3(w) = Cell4(v)
  BY <1>3 DEF East, West, Cell3, Cell4
<1>6. w = North(v) => v = South(w) /\ Cell4(w) = Cell1(v)
  BY <1>3 DEF North, South, Cell4, Cell1
<1>7. w = West(v) => v = East(w) /\ Cell1(w) = Cell2(v)
  BY <1>3 DEF East, West, Cell1, Cell2
<1>8. w = South(v) => v = North(w) /\ Cell2(w) = Cell3(v)
  BY <1>3 DEF North, South, Cell2, Cell3
<1> QED
  BY <1>2, <1>4, <1>5, <1>6, <1>7, <1>8 DEF v, w, t

(* Cells on both sides of a vertex, next to each other. *)
LEMMA NextCells ==
  ASSUME NEW v \in Vertices
  PROVE  /\ Cell1(v) \in Cells /\ Cell2(v) \in Cells /\ Cell3(v) \in Cells /\ Cell4(v) \in Cells
         /\ Cell2(v) \in Beside[Cell1(v)] /\ Cell1(v) \in Beside[Cell2(v)]
         /\ Cell3(v) \in Beside[Cell2(v)] /\ Cell2(v) \in Beside[Cell3(v)]
         /\ Cell4(v) \in Beside[Cell3(v)] /\ Cell3(v) \in Beside[Cell4(v)]
         /\ Cell1(v) \in Beside[Cell4(v)] /\ Cell4(v) \in Beside[Cell1(v)]
<1>1. v[1] \in Int /\ v[2] \in Int
  BY CellsAround
<1>2. Cell1(v) \in Cells /\ Cell2(v) \in Cells /\ Cell3(v) \in Cells /\ Cell4(v) \in Cells
  BY CellsAround
<1> DEFINE IsNext(c, d) == (c[1] = d[1] /\ c[2] - d[2] \in {-1, 1}) \/ (c[2] = d[2] /\ c[1] - d[1] \in {-1, 1})
<1>3. \A c, d \in Cells : IsNext(c, d) => d \in Beside[c]
  BY DEF Beside
<1>4. IsNext(Cell1(v), Cell2(v)) /\ IsNext(Cell3(v), Cell4(v))
  BY <1>1 DEF Cell1, Cell2, Cell3, Cell4
<1>5. IsNext(Cell2(v), Cell3(v)) /\ IsNext(Cell4(v), Cell1(v))
  BY <1>1 DEF Cell1, Cell2, Cell3, Cell4
<1> HIDE DEF IsNext
<1> QED
  BY <1>2, <1>3, <1>4, <1>5, BesideIsMutual

LEMMA SidesOfEdges ==
  ASSUME NEW e \in Halfedges
  PROVE  /\ LeftOf[e] \in Cells /\ RightOf[e] \in Cells
         /\ LeftOf[e] \in CellsAt[e[1]] /\ LeftOf[e] \in CellsAt[e[2]]
         /\ RightOf[e] \in CellsAt[e[1]] /\ RightOf[e] \in CellsAt[e[2]]
         /\ RightOf[e] \in Beside[LeftOf[e]] /\ LeftOf[e] \in Beside[RightOf[e]]
<1> DEFINE v == e[1]
           t == Twin(e)
<1>1. v \in Vertices /\ e[2] \in Vertices /\ t \in Halfedges /\ t[1] = e[2]
  BY HalfedgesOut
<1>2. e[2] \in {East(v), North(v), West(v), South(v)}
  BY HalfedgesOut
<1>3. LeftOf[e] \in CellsAt[v] /\ RightOf[e] \in CellsAt[v]
  BY <1>1, <1>2, LeftCells, RightCells, CellsAround
<1>4. LeftOf[t] \in CellsAt[e[2]] /\ RightOf[t] \in CellsAt[e[2]]
  <2>1. t[1] \in Vertices /\ t[2] \in {East(t[1]), North(t[1]), West(t[1]), South(t[1])}
    BY <1>1, HalfedgesOut
  <2> QED
    BY <1>1, <2>1, LeftCells, RightCells, CellsAround
<1>5. RightOf[e] = LeftOf[t] /\ RightOf[t] = LeftOf[e]
  BY RightCells
<1>6. RightOf[e] \in Beside[LeftOf[e]] /\ LeftOf[e] \in Beside[RightOf[e]]
  BY <1>1, <1>2, LeftCells, RightCells, NextCells
<1> QED
  BY <1>1, <1>3, <1>4, <1>5, <1>6, CellsAround

(* The cells inside of the margin have all their sides in the grid. *)
Inner == (1 .. Width) \X (1 .. Height)

LEMMA EdgesOut ==
  ASSUME NEW v \in Vertices
  PROVE  /\ Cell1(v) \in Inner \/ Cell4(v) \in Inner => <<v, East(v)>> \in Halfedges
         /\ Cell2(v) \in Inner \/ Cell1(v) \in Inner => <<v, North(v)>> \in Halfedges
         /\ Cell3(v) \in Inner \/ Cell2(v) \in Inner => <<v, West(v)>> \in Halfedges
         /\ Cell4(v) \in Inner \/ Cell3(v) \in Inner => <<v, South(v)>> \in Halfedges
<1>0. Width \in Nat /\ Height \in Nat
  BY SiteAssumption
<1>1. PICK x \in 0 .. Width, y \in 0 .. Height : v = <<x, y>>
  BY DEF Vertices
<1>2. ASSUME NEW i \in 0 .. Width, NEW j \in 0 .. Height,
             (i = x /\ j - y \in {-1, 1}) \/ (j = y /\ i - x \in {-1, 1})
      PROVE  <<v, <<i, j>>>> \in Halfedges
  <2>1. <<i, j>> \in Vertices /\ <<v, <<i, j>>>> \in Vertices \X Vertices
    BY DEF Vertices
  <2>2. (x = i /\ y - j \in {-1, 1}) \/ (y = j /\ x - i \in {-1, 1})
    BY <1>0, <1>2
  <2> QED
    BY <1>1, <2>1, <2>2 DEF Halfedges
<1>3. Cell1(v) \in Inner \/ Cell4(v) \in Inner => <<v, East(v)>> \in Halfedges
  <2> SUFFICES ASSUME Cell1(v) \in Inner \/ Cell4(v) \in Inner PROVE <<v, East(v)>> \in Halfedges
    OBVIOUS
  <2>1. x + 1 \in 0 .. Width /\ (x + 1) - x \in {-1, 1}
    BY <1>0, <1>1 DEF Cell1, Cell4, Inner
  <2> QED
    BY <1>1, <1>2, <2>1 DEF East
<1>4. Cell2(v) \in Inner \/ Cell1(v) \in Inner => <<v, North(v)>> \in Halfedges
  <2> SUFFICES ASSUME Cell2(v) \in Inner \/ Cell1(v) \in Inner PROVE <<v, North(v)>> \in Halfedges
    OBVIOUS
  <2>1. y + 1 \in 0 .. Height /\ (y + 1) - y \in {-1, 1}
    BY <1>0, <1>1 DEF Cell1, Cell2, Inner
  <2> QED
    BY <1>1, <1>2, <2>1 DEF North
<1>5. Cell3(v) \in Inner \/ Cell2(v) \in Inner => <<v, West(v)>> \in Halfedges
  <2> SUFFICES ASSUME Cell3(v) \in Inner \/ Cell2(v) \in Inner PROVE <<v, West(v)>> \in Halfedges
    OBVIOUS
  <2>1. x - 1 \in 0 .. Width /\ (x - 1) - x \in {-1, 1}
    BY <1>0, <1>1 DEF Cell3, Cell2, Inner
  <2> QED
    BY <1>1, <1>2, <2>1 DEF West
<1>6. Cell4(v) \in Inner \/ Cell3(v) \in Inner => <<v, South(v)>> \in Halfedges
  <2> SUFFICES ASSUME Cell4(v) \in Inner \/ Cell3(v) \in Inner PROVE <<v, South(v)>> \in Halfedges
    OBVIOUS
  <2>1. y - 1 \in 0 .. Height /\ (y - 1) - y \in {-1, 1}
    BY <1>0, <1>1 DEF Cell3, Cell4, Inner
  <2> QED
    BY <1>1, <1>2, <2>1 DEF South
<1> QED
  BY <1>3, <1>4, <1>5, <1>6

(* The point on an edge tells which edge it is. *)
LEMMA PointsOfEdges ==
  ASSUME NEW e \in Halfedges
  PROVE  /\ CrossingPoint(Twin(e)) = CrossingPoint(e)
         /\ \A d \in Halfedges : CrossingPoint(d) = CrossingPoint(e) => d = e \/ d = Twin(e)
         /\ \A v, h : At(v, h) # CrossingPoint(e)
<1> DEFINE v == e[1]
<1>1. /\ e = <<v, e[2]>> /\ v \in Vertices /\ e[2] \in {East(v), North(v), West(v), South(v)}
      /\ v = <<v[1], v[2]>> /\ v[1] \in Int /\ v[2] \in Int
  BY HalfedgesOut, CellsAround
<1>2. CrossingPoint(Twin(e)) = CrossingPoint(e)
  BY <1>1 DEF CrossingPoint, Twin, East, North, West, South
<1>3. ASSUME NEW d \in Halfedges, CrossingPoint(d) = CrossingPoint(e) PROVE d = e \/ d = Twin(e)
  <2> DEFINE w == d[1]
  <2>1. /\ d = <<w, d[2]>> /\ w \in Vertices /\ d[2] \in {East(w), North(w), West(w), South(w)}
        /\ w = <<w[1], w[2]>> /\ w[1] \in Int /\ w[2] \in Int
    BY HalfedgesOut, CellsAround
  <2>2. v[1] + e[2][1] = w[1] + d[2][1] /\ v[2] + e[2][2] = w[2] + d[2][2]
    BY <1>3 DEF CrossingPoint
  <2> HIDE DEF v, w
  <2>4. PICK p \in Int, q \in Int :
          /\ e[2] = <<p, q>>
          /\ \/ p = v[1] + 1 /\ q = v[2]
             \/ p = v[1] /\ q = v[2] + 1
             \/ p = v[1] - 1 /\ q = v[2]
             \/ p = v[1] /\ q = v[2] - 1
    BY <1>1 DEF East, North, West, South
  <2>5. PICK r \in Int, s \in Int :
          /\ d[2] = <<r, s>>
          /\ \/ r = w[1] + 1 /\ s = w[2]
             \/ r = w[1] /\ s = w[2] + 1
             \/ r = w[1] - 1 /\ s = w[2]
             \/ r = w[1] /\ s = w[2] - 1
    BY <2>1 DEF East, North, West, South
  <2>6. v[1] + p = w[1] + r /\ v[2] + q = w[2] + s
    BY <2>2, <2>4, <2>5
  <2>7. \/ w[1] = v[1] /\ w[2] = v[2] /\ r = p /\ s = q
        \/ w[1] = p /\ w[2] = q /\ r = v[1] /\ s = v[2]
    <3> DEFINE x == v[1]
               y == v[2]
               i == w[1]
               j == w[2]
    <3>1. x \in Int /\ y \in Int /\ i \in Int /\ j \in Int
      BY <1>1, <2>1
    <3> HIDE DEF x, y, i, j
    <3> QED
      BY <3>1, <2>4, <2>5, <2>6 DEF x, y, i, j
  <2>8. (w = v /\ d[2] = e[2]) \/ (w = e[2] /\ d[2] = v)
    BY <1>1, <2>1, <2>4, <2>5, <2>7
  <2> QED
    BY <1>1, <2>1, <2>8 DEF Twin
<1>4. ASSUME NEW w, NEW h PROVE At(w, h) # CrossingPoint(e)
  BY DEF At, CrossingPoint
<1> QED
  BY <1>2, <1>3, <1>4

-----------------------------------------------------------------------------
(***************************************************************************)
(* Sets of sides that meet every vertex an even number of times are those  *)
(* between the cells of some set and the others.                           *)
(***************************************************************************)
Flips(X, B, i) == i + 1 \in X <=> ~(i \in X <=> i \in B)

LEMMA Alternation ==
  ASSUME NEW n \in Nat, NEW B, NEW S
  PROVE  \E X : (0 \in X <=> 0 \in S) /\ \A i \in 0 .. n - 1 : Flips(X, B, i)
<1> DEFINE Good(m) == \E X : (0 \in X <=> 0 \in S) /\ \A i \in 0 .. m - 1 : Flips(X, B, i)
           bad == {m \in Nat : ~Good(m)}
<1> SUFFICES ASSUME bad # {} PROVE FALSE
  OBVIOUS
<1>1. PICK m \in bad : \A k \in bad : m <= k
  BY LeastNumber
<1>2. m # 0
  <2>1. Good(0)
    OBVIOUS
  <2> QED
    BY <2>1
<1>3. m - 1 \in Nat /\ m \in Nat /\ Good(m - 1)
  <2>1. m - 1 \in Nat /\ ~(m <= m - 1) /\ m \in Nat
    BY <1>1, <1>2
  <2>2. m - 1 \notin bad
    BY <1>1, <2>1
  <2>3. \A k \in Nat : k \notin bad => Good(k)
    OBVIOUS
  <2> HIDE DEF Good, bad
  <2> QED
    BY <2>1, <2>2, <2>3
<1>4. PICK X : (0 \in X <=> 0 \in S) /\ \A i \in 0 .. m - 2 : Flips(X, B, i)
  BY <1>3
<1> DEFINE last == {k \in {m} : ~(m - 1 \in X <=> m - 1 \in B)}
           Z == (X \ {m}) \cup last
<1>5. 0 \in Z <=> 0 \in S
  BY <1>2, <1>4
<1>6. ASSUME NEW i \in 0 .. m - 1 PROVE Flips(Z, B, i)
  <2>1. CASE i = m - 1
    BY <1>3, <2>1 DEF Flips
  <2>2. CASE i # m - 1
    <3>1. i \in 0 .. m - 2 /\ i # m /\ i + 1 # m
      BY <1>3, <2>2
    <3> QED
      BY <1>4, <3>1 DEF Flips
  <2> QED
    BY <2>1, <2>2
<1>7. Good(m)
  BY <1>5, <1>6
<1> QED
  BY <1>1, <1>7

(* Of the four sides around a vertex an even number is chosen. *)
IsEven(E, v) ==
  (<<Cell1(v), Cell2(v)>> \in E <=> <<Cell2(v), Cell3(v)>> \in E)
    <=> (<<Cell3(v), Cell4(v)>> \in E <=> <<Cell4(v), Cell1(v)>> \in E)

IsColouring(X, E) == \A c \in Cells : \A d \in Beside[c] : (c \in X <=> d \in X) <=> <<c, d>> \notin E

LEMMA EvenSetsAreBoundaries ==
  ASSUME NEW E, \A c, d : <<c, d>> \in E => <<d, c>> \in E, \A v \in Vertices : IsEven(E, v)
  PROVE  \E X : IsColouring(X, E)
<1>0. Width \in Nat /\ Height \in Nat
  BY SiteAssumption
<1> DEFINE Row == {i \in Nat : <<<<i, 0>>, <<i + 1, 0>>>> \in E}
           Col(x) == {j \in Nat : <<<<x, j>>, <<x, j + 1>>>> \in E}
<1>1. PICK R : \A i \in 0 .. Width : Flips(R, Row, i)
  <2>1. Width + 1 \in Nat /\ (Width + 1) - 1 = Width
    BY <1>0
  <2> QED
    BY <2>1, Alternation
<1> DEFINE IsCol(x, Y) == (0 \in Y <=> x \in R) /\ \A j \in 0 .. Height : Flips(Y, Col(x), j)
           column == [x \in 0 .. Width + 1 |-> CHOOSE Y : IsCol(x, Y)]
<1>2. ASSUME NEW x \in 0 .. Width + 1 PROVE IsCol(x, column[x])
  <2> DEFINE S == {k \in {0} : x \in R}
  <2>1. Height + 1 \in Nat /\ (Height + 1) - 1 = Height
    BY <1>0
  <2>2. PICK Y : (0 \in Y <=> 0 \in S) /\ \A j \in 0 .. Height : Flips(Y, Col(x), j)
    <3> DEFINE B == Col(x)
               n == Height + 1
    <3> HIDE DEF S, B, n
    <3>1. PICK Y : (0 \in Y <=> 0 \in S) /\ \A j \in 0 .. n - 1 : Flips(Y, B, j)
      BY <2>1, Alternation DEF n
    <3>2. n - 1 = Height
      BY <2>1 DEF n
    <3> QED
      BY <3>1, <3>2 DEF B
  <2>3. IsCol(x, Y)
    BY <2>2
  <2> HIDE DEF IsCol
  <2> QED
    BY <2>3
<1> DEFINE X == {c \in Cells : c[2] \in column[c[1]]}
<1> HIDE DEF column
<1>3. \A x \in 0 .. Width + 1, y \in 0 .. Height + 1 : <<x, y>> \in Cells /\ (<<x, y>> \in X <=> y \in column[x])
  BY DEF Cells
<1>4. ASSUME NEW x \in 0 .. Width + 1, NEW y \in 0 .. Height
      PROVE  (<<x, y>> \in X <=> <<x, y + 1>> \in X) <=> <<<<x, y>>, <<x, y + 1>>>> \notin E
  <2>1. y \in 0 .. Height + 1 /\ y + 1 \in 0 .. Height + 1 /\ y \in Nat
    BY <1>0
  <2>2. Flips(column[x], Col(x), y)
    BY <1>2
  <2>3. y \in Col(x) <=> <<<<x, y>>, <<x, y + 1>>>> \in E
    BY <2>1
  <2> HIDE DEF X
  <2> QED
    BY <1>3, <2>1, <2>2, <2>3 DEF Flips
<1> DEFINE Fits(x, y) == (<<x, y>> \in X <=> <<x + 1, y>> \in X) <=> <<<<x, y>>, <<x + 1, y>>>> \notin E
           bad == {y \in 0 .. Height + 1 : \E x \in 0 .. Width : ~Fits(x, y)}
<1>5. bad = {}
  <2> SUFFICES ASSUME bad # {} PROVE FALSE
    OBVIOUS
  <2>1. PICK y \in bad : \A k \in bad : y <= k
    <3>1. bad \subseteq Nat
      BY <1>0
    <3> HIDE DEF bad
    <3> QED
      BY <3>1, LeastNumber
  <2>2. PICK x \in 0 .. Width : ~Fits(x, y)
    BY <2>1
  <2>3. x \in 0 .. Width + 1 /\ x + 1 \in 0 .. Width + 1 /\ x \in Nat /\ y \in 0 .. Height + 1
    BY <1>0
  <2>4. CASE y = 0
    <3>1. 0 \in column[x] <=> x \in R
      BY <1>2, <2>3
    <3>2. 0 \in column[x + 1] <=> x + 1 \in R
      BY <1>2, <2>3
    <3>3. Flips(R, Row, x)
      BY <1>1
    <3>4. x \in Row <=> <<<<x, 0>>, <<x + 1, 0>>>> \in E
      BY <2>3
    <3>5. (<<x, 0>> \in X <=> 0 \in column[x]) /\ (<<x + 1, 0>> \in X <=> 0 \in column[x + 1])
      BY <1>3, <2>3, <2>4
    <3>6. Fits(x, 0)
      <4> HIDE DEF X
      <4> QED
        BY <3>1, <3>2, <3>3, <3>4, <3>5 DEF Flips
    <3> QED
      BY <2>2, <2>4, <3>6
  <2>5. CASE y # 0
    <3> DEFINE z == y - 1
               v == <<x, z>>
    <3>1. z \in 0 .. Height /\ z + 1 = y /\ z \in 0 .. Height + 1 /\ ~(y <= z)
      BY <2>3, <2>5, <1>0
    <3>2. Fits(x, z)
      BY <2>1, <3>1
    <3>3. v \in Vertices
      BY <3>1 DEF Vertices
    <3>4. /\ Cell1(v) = <<x + 1, y>> /\ Cell2(v) = <<x, y>>
          /\ Cell3(v) = <<x, z>> /\ Cell4(v) = <<x + 1, z>>
      BY <3>1 DEF Cell1, Cell2, Cell3, Cell4
    <3>5. IsEven(E, v)
      BY <3>3
    <3>6. (<<x, z>> \in X <=> <<x, y>> \in X) <=> <<<<x, z>>, <<x, y>>>> \notin E
      BY <1>4, <2>3, <3>1
    <3>7. (<<x + 1, z>> \in X <=> <<x + 1, y>> \in X) <=> <<<<x + 1, z>>, <<x + 1, y>>>> \notin E
      BY <1>4, <2>3, <3>1
    <3> HIDE DEF X, z, v
    <3>8. /\ (<<<<x + 1, y>>, <<x, y>>>> \in E <=> <<<<x, y>>, <<x, z>>>> \in E)
               <=> (<<<<x, z>>, <<x + 1, z>>>> \in E <=> <<<<x + 1, z>>, <<x + 1, y>>>> \in E)
      BY <3>4, <3>5 DEF IsEven
    <3>9. /\ <<<<x + 1, y>>, <<x, y>>>> \in E <=> <<<<x, y>>, <<x + 1, y>>>> \in E
          /\ <<<<x, y>>, <<x, z>>>> \in E <=> <<<<x, z>>, <<x, y>>>> \in E
      OBVIOUS
    <3>10. Fits(x, y)
      BY <3>2, <3>6, <3>7, <3>8, <3>9
    <3> QED
      BY <2>2, <3>10
  <2> QED
    BY <2>4, <2>5
<1>8. \A x \in 0 .. Width, y \in 0 .. Height + 1 : Fits(x, y)
  <2> HIDE DEF Fits
  <2> QED
    BY <1>5
<1>6. ASSUME NEW c \in Cells, NEW d \in Beside[c] PROVE (c \in X <=> d \in X) <=> <<c, d>> \notin E
  <2>1. PICK x \in 0 .. Width + 1, y \in 0 .. Height + 1 : c = <<x, y>>
    BY DEF Cells
  <2>2. d \in Cells /\ ((c[1] = d[1] /\ c[2] - d[2] \in {-1, 1}) \/ (c[2] = d[2] /\ c[1] - d[1] \in {-1, 1}))
    BY DEF Beside
  <2>3. PICK i \in 0 .. Width + 1, j \in 0 .. Height + 1 : d = <<i, j>>
    BY <2>2 DEF Cells
  <2>4. (x = i /\ y - j \in {-1, 1}) \/ (y = j /\ x - i \in {-1, 1})
    BY <2>1, <2>2, <2>3
  <2>5. \/ i = x /\ j = y + 1
        \/ i = x /\ y = j + 1
        \/ j = y /\ i = x + 1
        \/ j = y /\ x = i + 1
    BY <2>4, <1>0
  <2> HIDE DEF X, Fits
  <2>6. CASE i = x /\ j = y + 1
    <3>1. y \in 0 .. Height
      BY <2>6, <1>0
    <3> QED
      BY <1>4, <3>1, <2>1, <2>3, <2>6
  <2>7. CASE i = x /\ y = j + 1
    <3>1. j \in 0 .. Height
      BY <2>7, <1>0
    <3>2. (d \in X <=> c \in X) <=> <<d, c>> \notin E
      BY <1>4, <3>1, <2>1, <2>3, <2>7
    <3> QED
      BY <3>2
  <2>8. CASE j = y /\ i = x + 1
    <3>1. x \in 0 .. Width /\ Fits(x, y)
      BY <2>8, <1>0, <1>8
    <3> QED
      BY <3>1, <2>1, <2>3, <2>8 DEF Fits
  <2>9. CASE j = y /\ x = i + 1
    <3>1. i \in 0 .. Width /\ Fits(i, y)
      BY <2>9, <1>0, <1>8
    <3>2. (d \in X <=> c \in X) <=> <<d, c>> \notin E
      BY <3>1, <2>1, <2>3, <2>9 DEF Fits
    <3> QED
      BY <3>2
  <2> QED
    BY <2>5, <2>6, <2>7, <2>8, <2>9
<1>7. IsColouring(X, E)
  <2> HIDE DEF X
  <2> QED
    BY <1>6 DEF IsColouring
<1> QED
  BY <1>7

(* Cells that hang together by their sides, and by their corners as well. *)
Joined(S) == \A T \in SUBSET S : T # {} /\ (\A c \in T : Beside[c] \cap S \subseteq T) => T = S
Linked(S) == \A T \in SUBSET S : T # {} /\ (\A c \in T : Around[c] \cap S \subseteq T) => T = S

(* Around no vertex the cells of a set come in two runs. *)
NoDiagonals(O) ==
  \A v \in Vertices :
    /\ Cell1(v) \in O /\ Cell3(v) \in O => Cell2(v) \in O \/ Cell4(v) \in O
    /\ Cell2(v) \in O /\ Cell4(v) \in O => Cell1(v) \in O \/ Cell3(v) \in O

(* Cells of one set, without the others of it next to them. *)
IsPiece(P, O) == P \subseteq O /\ \A c \in P : \A d \in Beside[c] : d \in O => d \in P

(* Cells that share a corner are beside each other or across a vertex. *)
LEMMA AcrossVertices ==
  ASSUME NEW c \in Cells, NEW d \in Around[c]
  PROVE  \/ d \in Beside[c]
         \/ \E v \in Vertices : \/ c = Cell1(v) /\ d = Cell3(v)
                                \/ c = Cell3(v) /\ d = Cell1(v)
                                \/ c = Cell2(v) /\ d = Cell4(v)
                                \/ c = Cell4(v) /\ d = Cell2(v)
<1>0. Width \in Nat /\ Height \in Nat
  BY SiteAssumption
<1>1. PICK x \in 0 .. Width + 1, y \in 0 .. Height + 1 : c = <<x, y>>
  BY DEF Cells
<1>2. d \in Cells /\ c[1] - d[1] \in -1 .. 1 /\ c[2] - d[2] \in -1 .. 1 /\ d # c
  BY DEF Around
<1>3. PICK i \in 0 .. Width + 1, j \in 0 .. Height + 1 : d = <<i, j>>
  BY <1>2 DEF Cells
<1>4. x - i \in -1 .. 1 /\ y - j \in -1 .. 1 /\ ~(x = i /\ y = j)
  BY <1>1, <1>2, <1>3
<1>5. CASE x = i \/ y = j
  <2>1. (x = i /\ y - j \in {-1, 1}) \/ (y = j /\ x - i \in {-1, 1})
    BY <1>0, <1>4, <1>5
  <2> QED
    BY <2>1, <1>1, <1>2, <1>3 DEF Beside
<1>6. CASE ~(x = i \/ y = j)
  <2>1. (i = x + 1 \/ x = i + 1) /\ (j = y + 1 \/ y = j + 1)
    BY <1>0, <1>4, <1>6
  <2>2. CASE i = x + 1 /\ j = y + 1
    <3>1. <<x, y>> \in Vertices
      BY <2>2, <1>0 DEF Vertices
    <3> QED
      BY <3>1, <2>2, <1>1, <1>3 DEF Cell1, Cell3
  <2>3. CASE i = x + 1 /\ y = j + 1
    <3>1. <<x, j>> \in Vertices
      BY <2>3, <1>0 DEF Vertices
    <3> QED
      BY <3>1, <2>3, <1>1, <1>3 DEF Cell2, Cell4
  <2>4. CASE x = i + 1 /\ j = y + 1
    <3>1. <<i, y>> \in Vertices
      BY <2>4, <1>0 DEF Vertices
    <3> QED
      BY <3>1, <2>4, <1>1, <1>3 DEF Cell2, Cell4
  <2>5. CASE x = i + 1 /\ y = j + 1
    <3>1. <<i, j>> \in Vertices
      BY <2>5, <1>0 DEF Vertices
    <3> QED
      BY <3>1, <2>5, <1>1, <1>3 DEF Cell1, Cell3
  <2> QED
    BY <2>1, <2>2, <2>3, <2>4, <2>5
<1> QED
  BY <1>5, <1>6

(***************************************************************************)
(* What surrounds a piece in one direction belongs to one piece: a piece G *)
(* of the set O and a piece A of its complement, and cells S that hang     *)
(* together without G.  If A is next to G in S, nothing else outside of O  *)
(* is next to G in S: the sides between G and A divide the grid, with G on *)
(* one side and S on the other.                                            *)
(***************************************************************************)
LEMMA OnePieceAround ==
  ASSUME NEW O \in SUBSET Cells, NoDiagonals(O),
         NEW G, IsPiece(G, O), Joined(G), NEW A, IsPiece(A, Cells \ O),
         NEW S \in SUBSET Cells, S \cap G = {}, Linked(S),
         NEW a \in S, a \in A, NEW g \in G, a \in Beside[g],
         NEW b \in S, b \notin O, NEW h \in G, b \in Beside[h]
  PROVE  b \in A
<1> DEFINE E == {p \in Cells \X Cells : (p[1] \in G /\ p[2] \in A) \/ (p[1] \in A /\ p[2] \in G)}
<1>0. G \subseteq O /\ A \cap O = {} /\ G \subseteq Cells /\ A \subseteq Cells
  BY DEF IsPiece
<1>1. \A c, d : <<c, d>> \in E <=> c \in Cells /\ d \in Cells /\ ((c \in G /\ d \in A) \/ (c \in A /\ d \in G))
  OBVIOUS
<1> HIDE DEF E
<1>2. ASSUME NEW v \in Vertices PROVE IsEven(E, v)
  <2> DEFINE p == Cell1(v)
             q == Cell2(v)
             r == Cell3(v)
             s == Cell4(v)
  <2>1. /\ p \in Cells /\ q \in Cells /\ r \in Cells /\ s \in Cells
        /\ q \in Beside[p] /\ p \in Beside[q] /\ r \in Beside[q] /\ q \in Beside[r]
        /\ s \in Beside[r] /\ r \in Beside[s] /\ p \in Beside[s] /\ s \in Beside[p]
    BY NextCells
  <2>2. /\ p \in O /\ r \in O => q \in O \/ s \in O
        /\ q \in O /\ s \in O => p \in O \/ r \in O
    BY DEF NoDiagonals
  <2> HIDE DEF p, q, r, s
  <2>3. \A c \in Cells : \A d \in Cells :
          c \in Beside[d] /\ d \in Beside[c] =>
            /\ c \in O /\ d \in O => (c \in G <=> d \in G)
            /\ c \notin O /\ d \notin O => (c \in A <=> d \in A)
    BY DEF IsPiece
  <2>4. /\ p \in O /\ q \in O => (p \in G <=> q \in G)
        /\ q \in O /\ r \in O => (q \in G <=> r \in G)
        /\ r \in O /\ s \in O => (r \in G <=> s \in G)
        /\ s \in O /\ p \in O => (s \in G <=> p \in G)
    BY <2>1, <2>3
  <2>5. /\ p \notin O /\ q \notin O => (p \in A <=> q \in A)
        /\ q \notin O /\ r \notin O => (q \in A <=> r \in A)
        /\ r \notin O /\ s \notin O => (r \in A <=> s \in A)
        /\ s \notin O /\ p \notin O => (s \in A <=> p \in A)
    BY <2>1, <2>3
  <2>6. /\ \A c : c \in G => c \in O
        /\ \A c : c \in A => c \notin O
    BY <1>0
  <2> QED
    BY <1>1, <2>1, <2>2, <2>4, <2>5, <2>6 DEF IsEven, p, q, r, s
<1>3. \A c, d : <<c, d>> \in E => <<d, c>> \in E
  BY <1>1
<1>4. PICK X : IsColouring(X, E)
  BY <1>2, <1>3, EvenSetsAreBoundaries
<1>5. \A c \in Cells : \A d \in Beside[c] : (c \in X <=> d \in X) <=> <<c, d>> \notin E
  BY <1>4 DEF IsColouring
<1>6. g \in X <=> h \in X
  <2> DEFINE T == {c \in G : c \in X <=> g \in X}
  <2>1. \A c \in T : Beside[c] \cap G \subseteq T
    <3> SUFFICES ASSUME NEW c \in T, NEW d \in Beside[c], d \in G PROVE d \in T
      OBVIOUS
    <3>1. <<c, d>> \notin E
      BY <1>0, <1>1
    <3> QED
      BY <3>1, <1>0, <1>5
  <2>2. T \in SUBSET G /\ g \in T
    OBVIOUS
  <2> HIDE DEF T
  <2>3. T = G
    BY <2>1, <2>2 DEF Joined
  <2> QED
    BY <2>3 DEF T
<1>7. ASSUME NEW c \in S, NEW d \in Around[c], d \in S PROVE c \in X <=> d \in X
  <2>1. \A i \in Cells : \A j \in Beside[i] : i \notin G /\ j \notin G => (i \in X <=> j \in X)
    BY <1>1, <1>5
  <2>2. c \notin G /\ d \notin G /\ c \in Cells /\ d \in Cells
    BY <1>7
  <2>3. CASE d \in Beside[c]
    BY <2>1, <2>2, <2>3
  <2>4. ASSUME NEW p \in Cells, NEW q \in Cells,
               p \in Beside[c], c \in Beside[p], p \in Beside[d], d \in Beside[p],
               q \in Beside[c], c \in Beside[q], q \in Beside[d], d \in Beside[q],
               p \in O /\ q \in O => c \in O \/ d \in O
        PROVE  c \in X <=> d \in X
    <3>1. CASE p \notin G
      BY <3>1, <2>1, <2>2, <2>4
    <3>2. CASE q \notin G
      BY <3>2, <2>1, <2>2, <2>4
    <3>3. CASE p \in G /\ q \in G
      <4>1. p \in O /\ q \in O
        BY <3>3, <1>0
      <4>2. c \in O \/ d \in O
        BY <4>1, <2>4
      <4>3. c \in G \/ d \in G
        BY <4>2, <3>3, <2>4 DEF IsPiece
      <4> QED
        BY <4>3, <2>2
    <3> QED
      BY <3>1, <3>2, <3>3
  <2>5. ASSUME NEW v \in Vertices,
               \/ c = Cell1(v) /\ d = Cell3(v)
               \/ c = Cell3(v) /\ d = Cell1(v)
               \/ c = Cell2(v) /\ d = Cell4(v)
               \/ c = Cell4(v) /\ d = Cell2(v)
        PROVE  c \in X <=> d \in X
    <3>1. CASE (c = Cell1(v) /\ d = Cell3(v)) \/ (c = Cell3(v) /\ d = Cell1(v))
      <4>1. Cell2(v) \in O /\ Cell4(v) \in O => c \in O \/ d \in O
        BY <3>1 DEF NoDiagonals
      <4> QED
        BY <3>1, <4>1, <2>4, NextCells
    <3>2. CASE (c = Cell2(v) /\ d = Cell4(v)) \/ (c = Cell4(v) /\ d = Cell2(v))
      <4>1. Cell1(v) \in O /\ Cell3(v) \in O => c \in O \/ d \in O
        BY <3>2 DEF NoDiagonals
      <4> QED
        BY <3>2, <4>1, <2>4, NextCells
    <3> QED
      BY <2>5, <3>1, <3>2
  <2> QED
    BY <2>2, <2>3, <2>5, AcrossVertices
<1>8. a \in X <=> b \in X
  <2> DEFINE T == {c \in S : c \in X <=> a \in X}
  <2>1. \A c \in T : Around[c] \cap S \subseteq T
    BY <1>7
  <2>2. T \in SUBSET S /\ a \in T
    OBVIOUS
  <2> HIDE DEF T
  <2>3. T = S
    BY <2>1, <2>2 DEF Linked
  <2> QED
    BY <2>3 DEF T
<1>9. ~(a \in X <=> g \in X)
  <2>1. <<g, a>> \in E /\ g \in Cells
    BY <1>0, <1>1
  <2> QED
    BY <2>1, <1>5
<1>10. ~(b \in X <=> h \in X)
  BY <1>6, <1>8, <1>9
<1>11. <<h, b>> \in E
  <2>1. h \in Cells
    BY <1>0
  <2> QED
    BY <2>1, <1>5, <1>10
<1> QED
  BY <1>1, <1>11, <1>0

-----------------------------------------------------------------------------
(***************************************************************************)
(* Every face hangs together, and so does every part of the building.      *)
(***************************************************************************)
Hangs(near, S) == \A T \in SUBSET S : T # {} /\ (\A c \in T : near[c] \cap S \subseteq T) => T = S

LEMMA FloodHangs ==
  ASSUME NEW near, NEW all, IsFiniteSet(all), IsSymmetric(near, all), NEW x \in all
  PROVE  Hangs(near, Flood(near, all, {x}))
<1> DEFINE S == Flood(near, all, {x})
<1>1. {x} \subseteq S /\ S \subseteq all /\ IsClosedUnder(near, all, S)
  <2>1. {x} \subseteq all
    OBVIOUS
  <2> QED
    BY <2>1, FloodIsClosed
<1>2. ASSUME NEW T, {x} \subseteq T, IsClosedUnder(near, all, T) PROVE S \subseteq T
  <2>1. {x} \subseteq all
    OBVIOUS
  <2> QED
    BY <1>2, <2>1, FloodIsLeast
<1> HIDE DEF S
<1> SUFFICES ASSUME NEW T \in SUBSET S, T # {}, \A c \in T : near[c] \cap S \subseteq T
             PROVE  T = S
  BY DEF S, Hangs
<1>3. CASE x \in T
  <2>1. IsClosedUnder(near, all, T)
    BY <1>1 DEF IsClosedUnder
  <2> QED
    BY <1>2, <1>3, <2>1
<1>4. CASE x \notin T
  <2>1. ASSUME NEW c \in S \ T, NEW d \in near[c], d \in all PROVE d \in S \ T
    <3>1. d \in S /\ c \in all
      BY <1>1, <2>1 DEF IsClosedUnder
    <3>2. c \in near[d]
      BY <2>1, <3>1 DEF IsSymmetric
    <3> QED
      BY <2>1, <3>1, <3>2
  <2>2. IsClosedUnder(near, all, S \ T)
    BY <2>1, <1>1 DEF IsClosedUnder
  <2>3. S \subseteq S \ T
    BY <1>1, <1>2, <1>4, <2>2
  <2> QED
    BY <2>3
<1> QED
  BY <1>3, <1>4

LEMMA ConnectedIsJoined ==
  ASSUME NEW S, S \subseteq Cells, S # {}, IsConnected(S)
  PROVE  Joined(S)
<1>1. PICK x \in S : TRUE
  OBVIOUS
<1>2. Flood(Beside, S, {x}) = S
  BY DEF IsConnected
<1>3. IsFiniteSet(S) /\ IsSymmetric(Beside, S)
  BY ComponentsOfCells
<1> QED
  BY <1>2, <1>3, FloodHangs DEF Hangs, Joined

LEMMA AroundIsMutual ==
  \A c, d \in Cells : d \in Around[c] => c \in Around[d]
<1> SUFFICES ASSUME NEW c \in Cells, NEW d \in Cells, d \in Around[c] PROVE c \in Around[d]
  OBVIOUS
<1>1. c[1] \in Int /\ c[2] \in Int /\ d[1] \in Int /\ d[2] \in Int
  BY SiteAssumption DEF Cells
<1>2. c[1] - d[1] \in -1 .. 1 /\ c[2] - d[2] \in -1 .. 1 /\ d # c
  BY DEF Around
<1>3. d[1] - c[1] \in -1 .. 1 /\ d[2] - c[2] \in -1 .. 1
  BY <1>1, <1>2
<1> QED
  BY <1>2, <1>3 DEF Around

(* Parts of a split hang together. *)
LEMMA SplitIsJoined ==
  ASSUME IsDivision(Faces, Cells), NEW class, NEW p \in DOMAIN SplitFaces(class)
  PROVE  Joined(p)
<1>1. PICK f \in Faces : p \subseteq f
  BY SplitIsSplit DEF IsSplit
<1>2. p # {} /\ p \subseteq Cells
  BY <1>1, SplitIsSplit, FacesOfDivision DEF IsSplit, IsDivision
<1>3. IsConnected(p)
  BY <1>1, <1>2, PartsAreInOnePiece
<1> QED
  BY <1>2, <1>3, ConnectedIsJoined

(* And what is merged of faces that touch. *)
LEMMA TouchingFacesJoin ==
  ASSUME NEW f, NEW g, Joined(f), NEW T, f \cap T # {}, \A c \in f \cap T : Beside[c] \cap f \subseteq T
  PROVE  f \subseteq T
<1> DEFINE U == f \cap T
<1>1. U \in SUBSET f /\ U # {} /\ \A c \in U : Beside[c] \cap f \subseteq U
  OBVIOUS
<1>2. U = f
  BY <1>1 DEF Joined
<1> QED
  BY <1>2

LEMMA MergeIsJoined ==
  ASSUME IsDivision(Faces, Cells), \A f \in Faces : Joined(f),
         NEW near, IsSymmetric(near, Faces), \A f \in Faces : \A g \in near[f] : Touch(f, g),
         NEW new \in Merges(Components(near, Faces)), NEW F \in DOMAIN new
  PROVE  Joined(F)
<1>1. /\ IsMerge(near, new)
      /\ \A S : IsClosedUnder(near, Faces, S) =>
           \A G \in DOMAIN new : \A f, g \in Faces : f \in S /\ f \subseteq G /\ g \subseteq G => g \in S
  BY MergeIsMerge
<1> SUFFICES ASSUME NEW T \in SUBSET F, T # {}, \A c \in T : Beside[c] \cap F \subseteq T PROVE T = F
  BY DEF Joined
<1>2. \A f \in Faces : f \cap F # {} => f \subseteq F /\ \A g \in near[f] \cap Faces : g \subseteq F
  BY <1>1 DEF IsMerge
<1>3. F \subseteq Cells
  BY <1>1 DEF IsMerge, IsDivision
<1>4. \A c \in F : FaceAt(c) \in Faces /\ c \in FaceAt(c) /\ FaceAt(c) \subseteq F
  BY <1>2, <1>3, FacesOfDivision
<1> DEFINE S == {f \in Faces : f \subseteq F /\ f \cap T # {}}
<1>5. ASSUME NEW f \in S PROVE f \subseteq T
  BY <1>5, TouchingFacesJoin
<1>6. ASSUME NEW f \in S, NEW g \in near[f] \cap Faces PROVE g \in S
  <2>1. f \cap F # {}
    BY <1>6, FacesOfDivision
  <2>2. g \subseteq F /\ Touch(f, g)
    BY <1>2, <1>6, <2>1
  <2>3. PICK c \in f : Beside[c] \cap g # {}
    BY <2>2 DEF Touch
  <2>4. c \in T
    BY <1>5
  <2>5. g \cap T # {}
    BY <2>2, <2>3, <2>4
  <2> QED
    BY <2>2, <2>5
<1>7. IsClosedUnder(near, Faces, S)
  BY <1>6 DEF IsClosedUnder
<1>8. PICK t \in T : TRUE
  OBVIOUS
<1>9. FaceAt(t) \in S
  BY <1>4, <1>8
<1>10. ASSUME NEW c \in F PROVE c \in T
  <2>1. FaceAt(c) \in S
    <3> HIDE DEF S
    <3>1. FaceAt(t) \subseteq F /\ FaceAt(c) \subseteq F /\ FaceAt(t) \in Faces /\ FaceAt(c) \in Faces
      BY <1>4, <1>8
    <3> QED
      BY <1>1, <1>7, <1>9, <3>1
  <2> QED
    BY <1>4, <1>5, <2>1
<1> QED
  BY <1>10

Late == {"dissolved", "floors", "attach", "columns", "no planes", "walls", "roofs", "extruded", "repaired"}

(* Before the parts are labelled no face has a number, and without planes  *)
(* none has a segment.                                                     *)
Unnumbered(a) == \A f \in DOMAIN a : a[f].part_id = -1
Bare(a) == \A f \in DOMAIN a : a[f].segid = 0
InPieces(a) == \A f \in DOMAIN a : Joined(f)

PieceInv ==
  /\ phase \notin {"footprint", "holes"} => InPieces(arrangement)
  /\ site.roofs = <<>> => Bare(arrangement)
  /\ phase \notin Late \cup {"parts"} => Unnumbered(arrangement)

LEMMA InheritedData ==
  ASSUME NEW new, \A F \in DOMAIN new : \E h \in Faces : /\ new[F].segid = arrangement[h].segid
                                                         /\ new[F].part_id = arrangement[h].part_id
  PROVE  /\ Bare(arrangement) => Bare(new)
         /\ Unnumbered(arrangement) => Unnumbered(new)
BY DEF Bare, Unnumbered, Faces

LEMMA MergeKeepsPieces ==
  ASSUME IsDivision(Faces, Cells), InPieces(arrangement),
         NEW near, IsSymmetric(near, Faces), \A f \in Faces : \A g \in near[f] : Touch(f, g),
         NEW new \in Merges(Components(near, Faces))
  PROVE  /\ InPieces(new)
         /\ Bare(arrangement) => Bare(new)
         /\ Unnumbered(arrangement) => Unnumbered(new)
<1>1. InPieces(new)
  BY MergeIsJoined DEF InPieces, Faces
<1>2. IsMerge(near, new)
  BY MergeIsMerge
<1>3. \A F \in DOMAIN new : \E h \in Faces : new[F] = arrangement[h]
  BY <1>2 DEF IsMerge
<1> QED
  BY <1>1, <1>3, InheritedData

LEMMA SplitKeepsPieces ==
  ASSUME IsDivision(Faces, Cells), NEW class
  PROVE  /\ InPieces(SplitFaces(class))
         /\ Bare(arrangement) => Bare(SplitFaces(class))
         /\ Unnumbered(arrangement) => Unnumbered(SplitFaces(class))
<1>1. InPieces(SplitFaces(class))
  BY SplitIsJoined DEF InPieces
<1>2. \A F \in DOMAIN SplitFaces(class) : \E h \in Faces : SplitFaces(class)[F] = arrangement[h]
  BY SplitIsSplit DEF IsSplit
<1> QED
  BY <1>1, <1>2, InheritedData

(* The next arrangement has the same faces. *)
LEMMA SamePieces ==
  ASSUME NEW new, DOMAIN new = Faces,
         \A f \in Faces : new[f].segid = arrangement[f].segid /\ new[f].part_id = arrangement[f].part_id
  PROVE  /\ InPieces(arrangement) => InPieces(new)
         /\ Bare(arrangement) => Bare(new)
         /\ Unnumbered(arrangement) => Unnumbered(new)
BY DEF InPieces, Bare, Unnumbered, Faces

LEMMA PiecesStart == ExtruderInit => PieceInv
<1> SUFFICES ASSUME ExtruderInit PROVE PieceInv
  OBVIOUS
<1>1. phase = "footprint" /\ arrangement = [f \in {Cells} |-> NewFace]
  BY DEF ExtruderInit, PartitionInit
<1>2. NewFace.segid = 0 /\ NewFace.part_id = -1
  BY DEF NewFace
<1> QED
  BY <1>1, <1>2 DEF PieceInv, Bare, Unnumbered

(* The steps of the builder and of the optimiser. *)
LEMMA PiecesOfFootprint == PartitionInv /\ PieceInv /\ InsertFootprint => PieceInv'
<1> SUFFICES ASSUME PartitionInv, PieceInv, InsertFootprint PROVE PieceInv'
  OBVIOUS
<1>1. /\ phase' = "holes" /\ site' = site
      /\ arrangement' = [f \in {site.outer, Cells \ site.outer} |-> [NewFace EXCEPT !.in_footprint = f = site.outer]]
  BY DEF InsertFootprint
<1>2. \A f \in DOMAIN arrangement' : arrangement'[f].segid = 0 /\ arrangement'[f].part_id = -1
  BY <1>1 DEF NewFace
<1> QED
  BY <1>1, <1>2 DEF PieceInv, Bare, Unnumbered

LEMMA PiecesOfHole == PartitionInv /\ PieceInv /\ InsertHole => PieceInv'
<1> SUFFICES ASSUME PartitionInv, PieceInv, InsertHole PROVE PieceInv'
  OBVIOUS
<1> DEFINE k == holes_inserted + 1
           hole == site.holes[k]
           class == [f \in Faces |-> [c \in f |-> c \in hole]]
           split == SplitFaces(class)
           new == arrangement'
<1>0. IsDivision(Faces, Cells)
  BY DEF PartitionInv, IsArrangement
<1>1. /\ phase = "holes" /\ phase' = "holes" /\ site' = site
      /\ DOMAIN new = DOMAIN split
      /\ \A f \in DOMAIN split : new[f] = split[f] \/ new[f] = HoleData(k, split[f])
  BY DEF InsertHole
<1> HIDE DEF k, class, split, new
<1>2. ASSUME NEW F \in DOMAIN new
      PROVE  \E h \in Faces : new[F].segid = arrangement[h].segid /\ new[F].part_id = arrangement[h].part_id
  <2>1. PICK h \in Faces : split[F] = arrangement[h]
    BY <1>0, <1>1, SplitIsSplit DEF IsSplit, split
  <2> DEFINE d == arrangement[h]
  <2>2. IsFaceInfo(d)
    BY DEF PartitionInv, IsArrangement
  <2>3. new[F] = d \/ new[F] = HoleData(k, d)
    BY <1>1, <2>1
  <2> HIDE DEF d
  <2>4. new[F].segid = d.segid /\ new[F].part_id = d.part_id
    BY <2>2, <2>3 DEF HoleData, IsFaceInfo, NewFace
  <2> QED
    BY <2>4 DEF d
<1>3. (Bare(arrangement) => Bare(new)) /\ (Unnumbered(arrangement) => Unnumbered(new))
  BY <1>2, InheritedData
<1> QED
  BY <1>1, <1>3 DEF PieceInv, Late, new

LEMMA PiecesOfLines == PartitionInv /\ PieceInv /\ InsertLines => PieceInv'
<1> SUFFICES ASSUME PartitionInv, PieceInv, InsertLines PROVE PieceInv'
  OBVIOUS
<1> DEFINE class == [f \in Faces |-> [c \in f |-> site.patch[c]]]
<1>0. IsDivision(Faces, Cells)
  BY DEF PartitionInv, IsArrangement
<1>1. phase = "holes" /\ phase' = "optimise" /\ site' = site /\ arrangement' = SplitFaces(class)
  BY DEF InsertLines
<1> HIDE DEF class
<1>2. /\ InPieces(arrangement')
      /\ Bare(arrangement) => Bare(arrangement')
      /\ Unnumbered(arrangement) => Unnumbered(arrangement')
  BY <1>0, <1>1, SplitKeepsPieces
<1> QED
  BY <1>1, <1>2 DEF PieceInv, Late

LEMMA PiecesOfOptimise == PartitionInv /\ PieceInv /\ Optimise => PieceInv'
<1> SUFFICES ASSUME PartitionInv, PieceInv, Optimise PROVE PieceInv'
  OBVIOUS
<1> DEFINE new == arrangement'
<1>1. /\ phase = "optimise" /\ phase' = "segments" /\ site' = site /\ site.roofs # <<>>
      /\ DOMAIN new = Faces
      /\ \A f \in Faces : new[f] = arrangement[f] \/ \E l : new[f] = Labelled(arrangement[f], l)
  BY DEF Optimise
<1> HIDE DEF new
<1>2. ASSUME NEW f \in Faces PROVE new[f].part_id = arrangement[f].part_id
  <2> DEFINE d == arrangement[f]
  <2>1. IsFaceInfo(d)
    BY DEF PartitionInv, IsArrangement
  <2> HIDE DEF d
  <2>2. CASE new[f] = d
    BY <2>2 DEF d
  <2>3. CASE \E l : new[f] = Labelled(d, l)
    <3>1. PICK l : new[f] = Labelled(d, l)
      BY <2>3
    <3>2. new[f].part_id = d.part_id
      BY <2>1, <3>1 DEF Labelled, IsFaceInfo, NewFace
    <3> QED
      BY <3>2 DEF d
  <2> QED
    BY <1>1, <2>2, <2>3 DEF d
<1>3. InPieces(new) /\ Unnumbered(new)
  BY <1>1, <1>2 DEF PieceInv, InPieces, Unnumbered, Late, Faces
<1> QED
  BY <1>1, <1>3 DEF PieceInv, Late, new

LEMMA PiecesOfNothing == PartitionInv /\ PieceInv /\ NothingToOptimise => PieceInv'
<1> SUFFICES ASSUME PartitionInv, PieceInv, NothingToOptimise PROVE PieceInv'
  OBVIOUS
<1> DEFINE near == [f \in Faces |-> {g \in Faces : Touch(f, g) /\ SameSide(arrangement[f], arrangement[g])}]
<1>0. IsDivision(Faces, Cells)
  BY DEF PartitionInv, IsArrangement
<1>1. /\ phase = "optimise" /\ phase' = "segments" /\ site' = site
      /\ arrangement' \in Merges(Components(near, Faces))
  BY DEF NothingToOptimise, Groups
<1>2. IsSymmetric(near, Faces)
  BY <1>0, TouchIsMutual DEF IsSymmetric, SameSide
<1>3. \A f \in Faces : \A g \in near[f] : Touch(f, g)
  OBVIOUS
<1> HIDE DEF near
<1>4. InPieces(arrangement)
  BY <1>1 DEF PieceInv
<1>5. /\ InPieces(arrangement')
      /\ Bare(arrangement) => Bare(arrangement')
      /\ Unnumbered(arrangement) => Unnumbered(arrangement')
  BY <1>0, <1>1, <1>2, <1>3, <1>4, MergeKeepsPieces
<1> QED
  BY <1>1, <1>5 DEF PieceInv, Late

(* The steps of the dissolver. *)
LEMMA PiecesOfSegments == PartitionInv /\ PieceInv /\ DissolveSegments => PieceInv'
<1> SUFFICES ASSUME PartitionInv, PieceInv, DissolveSegments PROVE PieceInv'
  OBVIOUS
<1> DEFINE near == [f \in Faces |-> {g \in Faces : Touch(f, g) /\ SameSegment(arrangement[f], arrangement[g])}]
<1>0. IsDivision(Faces, Cells)
  BY DEF PartitionInv, IsArrangement
<1>1. /\ phase = "segments" /\ phase' = "terrain" /\ site' = site
      /\ arrangement' \in Merges(Components(near, Faces))
  BY DEF DissolveSegments, Groups
<1>2. IsSymmetric(near, Faces)
  BY <1>0, TouchIsMutual DEF IsSymmetric, SameSegment
<1>3. \A f \in Faces : \A g \in near[f] : Touch(f, g)
  OBVIOUS
<1> HIDE DEF near
<1>4. InPieces(arrangement)
  BY <1>1 DEF PieceInv
<1>5. /\ InPieces(arrangement')
      /\ Bare(arrangement) => Bare(arrangement')
      /\ Unnumbered(arrangement) => Unnumbered(arrangement')
  BY <1>0, <1>1, <1>2, <1>3, <1>4, MergeKeepsPieces
<1> QED
  BY <1>1, <1>5 DEF PieceInv, Late

LEMMA PiecesOfTerrain == PartitionInv /\ PieceInv /\ ClipToTerrain => PieceInv'
<1> SUFFICES ASSUME PartitionInv, PieceInv, ClipToTerrain PROVE PieceInv'
  OBVIOUS
<1> DEFINE class == [f \in Faces |-> [c \in f |-> Below(f, c)]]
           clipped == SplitFaces(class)
           new == arrangement'
<1>0. IsDivision(Faces, Cells)
  BY DEF PartitionInv, IsArrangement
<1>1. /\ phase = "terrain" /\ phase' \in {"interior", "statistics", "outside"} /\ site' = site
      /\ DOMAIN new = DOMAIN clipped
      /\ \A f \in DOMAIN clipped : \/ new[f] = clipped[f]
                                   \/ \E p, q, r : new[f] = [clipped[f] EXCEPT !.in_footprint = p, !.is_ground = q,
                                                                               !.is_footprint_hole = r]
  BY DEF ClipToTerrain
<1> HIDE DEF class, clipped, new
<1>2. InPieces(clipped)
  BY <1>0, SplitKeepsPieces DEF clipped
<1>3. ASSUME NEW F \in DOMAIN new
      PROVE  \E h \in Faces : new[F].segid = arrangement[h].segid /\ new[F].part_id = arrangement[h].part_id
  <2>1. PICK h \in Faces : clipped[F] = arrangement[h]
    <3>1. IsSplit(class, clipped)
      BY <1>0, SplitIsSplit DEF clipped
    <3> QED
      BY <1>1, <3>1 DEF IsSplit
  <2> DEFINE d == arrangement[h]
  <2>2. IsFaceInfo(d)
    BY DEF PartitionInv, IsArrangement
  <2>3. \/ new[F] = clipped[F]
        \/ \E p, q, r : new[F] = [clipped[F] EXCEPT !.in_footprint = p, !.is_ground = q, !.is_footprint_hole = r]
    BY <1>1
  <2>4. clipped[F] = d
    BY <2>1
  <2> HIDE DEF d
  <2>5. CASE new[F] = clipped[F]
    BY <2>4, <2>5 DEF d
  <2>6. CASE \E p, q, r : new[F] = [clipped[F] EXCEPT !.in_footprint = p, !.is_ground = q, !.is_footprint_hole = r]
    <3>1. PICK p, q, r : new[F] = [d EXCEPT !.in_footprint = p, !.is_ground = q, !.is_footprint_hole = r]
      BY <2>4, <2>6
    <3>2. new[F].segid = d.segid /\ new[F].part_id = d.part_id
      BY <2>2, <3>1 DEF IsFaceInfo, NewFace
    <3> QED
      BY <3>2 DEF d
  <2> QED
    BY <2>3, <2>5, <2>6
<1>4. (Bare(arrangement) => Bare(new)) /\ (Unnumbered(arrangement) => Unnumbered(new))
  BY <1>3, InheritedData
<1>5. InPieces(new)
  BY <1>1, <1>2 DEF InPieces
<1> QED
  BY <1>1, <1>4, <1>5 DEF PieceInv, Late, new

LEMMA PiecesOfInterior == PartitionInv /\ PieceInv /\ DissolveInterior => PieceInv'
<1> SUFFICES ASSUME PartitionInv, PieceInv, DissolveInterior PROVE PieceInv'
  OBVIOUS
<1> DEFINE near == [f \in Faces |-> {g \in Faces : Touch(f, g) /\ BothInside(arrangement[f], arrangement[g])}]
<1>0. IsDivision(Faces, Cells)
  BY DEF PartitionInv, IsArrangement
<1>1. /\ phase = "interior" /\ phase' = "outside" /\ site' = site
      /\ arrangement' \in Merges(Components(near, Faces))
  BY DEF DissolveInterior, Groups
<1>2. IsSymmetric(near, Faces)
  BY <1>0, TouchIsMutual DEF IsSymmetric, BothInside
<1>3. \A f \in Faces : \A g \in near[f] : Touch(f, g)
  OBVIOUS
<1> HIDE DEF near
<1>4. InPieces(arrangement)
  BY <1>1 DEF PieceInv
<1>5. /\ InPieces(arrangement')
      /\ Bare(arrangement) => Bare(arrangement')
      /\ Unnumbered(arrangement) => Unnumbered(arrangement')
  BY <1>0, <1>1, <1>2, <1>3, <1>4, MergeKeepsPieces
<1> QED
  BY <1>1, <1>5 DEF PieceInv, Late

LEMMA PiecesOfElevations == PartitionInv /\ PieceInv /\ ComputeElevations => PieceInv'
<1> SUFFICES ASSUME PartitionInv, PieceInv, ComputeElevations PROVE PieceInv'
  OBVIOUS
<1> DEFINE new == arrangement'
<1>1. /\ phase = "statistics" /\ phase' = "steps" /\ site' = site
      /\ DOMAIN new = Faces
      /\ \A f \in Faces : \/ new[f] = arrangement[f]
                          \/ \E m, n : new[f] = [arrangement[f] EXCEPT !.elevation_sum = m, !.pixel_count = n]
  BY DEF ComputeElevations
<1> HIDE DEF new
<1>2. ASSUME NEW f \in Faces PROVE new[f].segid = arrangement[f].segid /\ new[f].part_id = arrangement[f].part_id
  <2> DEFINE d == arrangement[f]
  <2>1. IsFaceInfo(d)
    BY DEF PartitionInv, IsArrangement
  <2>2. new[f] = d \/ \E m, n : new[f] = [d EXCEPT !.elevation_sum = m, !.pixel_count = n]
    BY <1>1
  <2> HIDE DEF d
  <2>3. new[f].segid = d.segid /\ new[f].part_id = d.part_id
    BY <2>1, <2>2 DEF IsFaceInfo, NewFace
  <2> QED
    BY <2>3 DEF d
<1>3. /\ InPieces(arrangement) => InPieces(new)
      /\ Bare(arrangement) => Bare(new)
      /\ Unnumbered(arrangement) => Unnumbered(new)
  BY <1>1, <1>2, SamePieces
<1> QED
  BY <1>1, <1>3 DEF PieceInv, Late, new

LEMMA PiecesOfMerge == PartitionInv /\ PieceInv /\ MergeStep => PieceInv'
<1> SUFFICES ASSUME PartitionInv, PieceInv, MergeStep PROVE PieceInv'
  OBVIOUS
<1> DEFINE new == arrangement'
<1>0. IsDivision(Faces, Cells) /\ phase = "steps" /\ phase' = "steps" /\ site' = site
  BY DEF PartitionInv, IsArrangement, MergeStep
<1>1. PICK p \in SmallSteps : new = [f \in (Faces \ {p[1], p[2]}) \cup {p[1] \cup p[2]} |->
                                       IF f \in Faces THEN arrangement[f] ELSE MergedData(p[1], p[2])]
  BY DEF MergeStep
<1> DEFINE f1 == p[1]
           f2 == p[2]
<1>2. f1 \in Faces /\ f2 \in Faces /\ Touch(f1, f2) /\ Touch(f2, f1)
  BY <1>0, TouchIsMutual DEF SmallSteps, FootprintFaces
<1>3. /\ DOMAIN new = (Faces \ {f1, f2}) \cup {f1 \cup f2}
      /\ \A f \in DOMAIN new : new[f] = IF f \in Faces THEN arrangement[f] ELSE MergedData(f1, f2)
  BY <1>1
<1> HIDE DEF f1, f2, new
<1>4. \A f \in Faces : Joined(f)
  BY <1>0 DEF PieceInv, InPieces, Faces
<1>5. Joined(f1 \cup f2)
  <2> DEFINE F == f1 \cup f2
  <2> SUFFICES ASSUME NEW T \in SUBSET F, T # {}, \A c \in T : Beside[c] \cap F \subseteq T PROVE T = F
    BY DEF Joined
  <2>1. f1 \cap T # {} => f1 \subseteq T
    BY <1>2, <1>4, TouchingFacesJoin
  <2>2. f2 \cap T # {} => f2 \subseteq T
    BY <1>2, <1>4, TouchingFacesJoin
  <2>3. (\E c \in f1 : Beside[c] \cap f2 # {}) /\ (\E c \in f2 : Beside[c] \cap f1 # {})
    BY <1>2 DEF Touch
  <2> QED
    BY <2>1, <2>2, <2>3
<1>6. InPieces(new)
  BY <1>3, <1>4, <1>5 DEF InPieces
<1>7. MergedData(f1, f2).segid = arrangement[f1].segid /\ MergedData(f1, f2).part_id = arrangement[f1].part_id
  <2> DEFINE d == arrangement[f1]
  <2>1. IsFaceInfo(d)
    BY <1>2 DEF PartitionInv, IsArrangement
  <2>2. \E m, n : MergedData(f1, f2) = [d EXCEPT !.elevation_sum = m, !.pixel_count = n]
    BY DEF MergedData
  <2> HIDE DEF d
  <2>3. MergedData(f1, f2).segid = d.segid /\ MergedData(f1, f2).part_id = d.part_id
    BY <2>1, <2>2 DEF IsFaceInfo, NewFace
  <2> QED
    BY <2>3 DEF d
<1>8. \A F \in DOMAIN new : \E h \in Faces : /\ new[F].segid = arrangement[h].segid
                                             /\ new[F].part_id = arrangement[h].part_id
  BY <1>2, <1>3, <1>7
<1>9. (Bare(arrangement) => Bare(new)) /\ (Unnumbered(arrangement) => Unnumbered(new))
  BY <1>8, InheritedData
<1> QED
  BY <1>0, <1>6, <1>9 DEF PieceInv, Late, new

LEMMA PiecesOfOutside == PartitionInv /\ PieceInv /\ DissolveOutside => PieceInv' /\ Unnumbered(arrangement')
<1> SUFFICES ASSUME PartitionInv, PieceInv, DissolveOutside PROVE PieceInv' /\ Unnumbered(arrangement')
  OBVIOUS
<1> DEFINE near == [f \in Faces |-> {g \in Faces : Touch(f, g) /\ BothOutside(arrangement[f], arrangement[g])}]
<1>0. IsDivision(Faces, Cells)
  BY DEF PartitionInv, IsArrangement
<1>1. /\ phase = "outside" /\ phase' = "parts" /\ site' = site
      /\ arrangement' \in Merges(Components(near, Faces))
  BY DEF DissolveOutside, Groups
<1>2. IsSymmetric(near, Faces)
  BY <1>0, TouchIsMutual DEF IsSymmetric, BothOutside
<1>3. \A f \in Faces : \A g \in near[f] : Touch(f, g)
  OBVIOUS
<1> HIDE DEF near
<1>4. InPieces(arrangement)
  BY <1>1 DEF PieceInv
<1>5. /\ InPieces(arrangement')
      /\ Bare(arrangement) => Bare(arrangement')
      /\ Unnumbered(arrangement) => Unnumbered(arrangement')
  BY <1>0, <1>1, <1>2, <1>3, <1>4, MergeKeepsPieces
<1> QED
  BY <1>1, <1>5 DEF PieceInv, Late

-----------------------------------------------------------------------------
(* What depends on the arrangement alone. *)
LEMMA ArrangementStays ==
  ASSUME arrangement' = arrangement
  PROVE  /\ Faces' = Faces /\ Unbounded' = Unbounded /\ FootprintFaces' = FootprintFaces /\ Inside' = Inside
         /\ \A f : InFootprint(f)' = InFootprint(f)
         /\ \A c : FaceAt(c)' = FaceAt(c)
         /\ Unlabelled' = Unlabelled
<1>1. Faces' = Faces
  BY DEF Faces
<1>2. \A f : InFootprint(f)' = InFootprint(f)
  BY DEF InFootprint
<1>3. FootprintFaces' = FootprintFaces
  BY <1>1, <1>2 DEF FootprintFaces
<1>4. Unlabelled' = Unlabelled
  BY <1>3 DEF Unlabelled
<1>5. Unbounded' = Unbounded /\ \A c : FaceAt(c)' = FaceAt(c)
  BY <1>1 DEF Unbounded, FaceAt
<1>6. Inside' = Inside
  BY <1>3 DEF Inside
<1> QED
  BY <1>1, <1>2, <1>3, <1>4, <1>5, <1>6

(***************************************************************************)
(* The parts of the building: faces next to each other are of one part,    *)
(* and a part does not fall apart.                                         *)
(***************************************************************************)
NextTo == [f \in FootprintFaces |-> Neighbours(f)]
Reaches(f, g) == \A S \in SUBSET FootprintFaces : f \in S /\ IsClosedUnder(NextTo, FootprintFaces, S) => g \in S
PartId(f) == arrangement[f].part_id

PartsAreSeparate == \A f, g \in FootprintFaces : Touch(f, g) => PartId(f) = PartId(g)
PartsHang == \A f, g \in FootprintFaces : PartId(f) = PartId(g) /\ PartId(f) # -1 => Reaches(f, g)

PartInv ==
  phase \in Late \cup {"parts"} =>
    /\ \A f \in Faces : PartId(f) \in Int
    /\ PartsAreSeparate
    /\ PartsHang

LEMMA PartsStay ==
  ASSUME Faces' = Faces, FootprintFaces' = FootprintFaces,
         \A f \in Faces : arrangement'[f].part_id = arrangement[f].part_id
  PROVE  /\ PartsAreSeparate => PartsAreSeparate'
         /\ PartsHang => PartsHang'
<1>1. \A f, g : Touch(f, g)' = Touch(f, g)
  BY DEF Touch
<1>2. NextTo' = NextTo
  BY DEF NextTo, Neighbours, Touch
<1>3. \A f, g : Reaches(f, g)' = Reaches(f, g)
  BY <1>2 DEF Reaches, IsClosedUnder
<1>4. \A f \in FootprintFaces : f \in Faces /\ PartId(f)' = PartId(f)
  BY DEF FootprintFaces, PartId
<1> QED
  BY <1>1, <1>3, <1>4 DEF PartsAreSeparate, PartsHang

LEMMA NextToIsSymmetric ==
  ASSUME IsDivision(Faces, Cells), NEW all \in SUBSET FootprintFaces
  PROVE  IsSymmetric(NextTo, all) /\ IsFiniteSet(all)
<1>1. FootprintFaces \subseteq Faces /\ IsFiniteSet(Faces)
  BY FacesOfDivision DEF FootprintFaces
<1>2. IsFiniteSet(all)
  BY <1>1, FS_Subset
<1>3. IsSymmetric(NextTo, all)
  BY <1>1, TouchIsMutual DEF IsSymmetric, NextTo, Neighbours
<1> QED
  BY <1>2, <1>3

LEMMA MaxIsGreatest ==
  ASSUME NEW V, IsFiniteSet(V), V # {}, V \subseteq Int
  PROVE  Max(V) \in V /\ \A x \in V : x <= Max(V)
<1> DEFINE w == [x \in V |-> x]
<1>1. \A x \in V : w[x] \in Int /\ w[x] = x
  OBVIOUS
<1>2. PICK y \in V : \A x \in V : w[x] <= w[y]
  <2> HIDE DEF w
  <2> QED
    BY <1>1, HighestOfAll
<1>3. \A x \in V : x <= y
  BY <1>2
<1> QED
  BY <1>3 DEF Max

LEMMA NumberIsFresh ==
  ASSUME IsDivision(Faces, Cells), \A f \in Faces : PartId(f) \in Int
  PROVE  LET number == Max({arrangement[f].part_id : f \in Faces}) + 1
         IN number \in Int /\ \A f \in Faces : PartId(f) < number
<1> DEFINE w == [f \in Faces |-> PartId(f)]
           V == {PartId(f) : f \in Faces}
<1>1. IsFiniteSet(Faces) /\ Unbounded \in Faces
  BY FacesOfDivision
<1>2. w \in Surjection(Faces, V)
  BY DEF Surjection
<1>3. IsFiniteSet(V)
  <2> HIDE DEF w, V
  <2> QED
    BY <1>1, <1>2, FS_Surjection
<1>4. V # {} /\ V \subseteq Int /\ \A f \in Faces : PartId(f) \in V
  BY <1>1
<1>5. V = {arrangement[f].part_id : f \in Faces}
  BY DEF PartId
<1> HIDE DEF V
<1>6. Max(V) \in Int /\ \A x \in V : x <= Max(V)
  BY <1>3, <1>4, MaxIsGreatest
<1>7. Max(V) + 1 \in Int /\ \A f \in Faces : PartId(f) < Max(V) + 1
  <2> DEFINE m == Max(V)
  <2>1. m \in Int /\ \A f \in Faces : PartId(f) <= m /\ PartId(f) \in Int
    BY <1>4, <1>6
  <2> HIDE DEF m
  <2>2. m + 1 \in Int /\ \A f \in Faces : PartId(f) < m + 1
    BY <2>1
  <2> QED
    BY <2>2 DEF m
<1> QED
  BY <1>5, <1>7

LEMMA PartsAfterLabel ==
  ASSUME PartitionInv, PartInv, LabelPart
  PROVE  PartInv' /\ Faces' = Faces /\ FootprintFaces' = FootprintFaces
<1> DEFINE new == arrangement'
           number == Max({arrangement[f].part_id : f \in Faces}) + 1
<1>0. IsDivision(Faces, Cells) /\ IsArrangement
  BY DEF PartitionInv, IsArrangement
<1>1. /\ phase = "parts" /\ phase' = "parts" /\ site' = site /\ DOMAIN new = Faces
  BY DEF LabelPart
<1>2. PICK seed \in Unlabelled :
        new = [f \in Faces |-> IF f \in Flood([x \in FootprintFaces |-> Neighbours(x)], Unlabelled, {seed})
                               THEN [arrangement[f] EXCEPT !.part_id = number] ELSE arrangement[f]]
  BY DEF LabelPart
<1> DEFINE part == Flood(NextTo, Unlabelled, {seed})
<1>3. \A f \in Faces : new[f] = IF f \in part THEN [arrangement[f] EXCEPT !.part_id = number] ELSE arrangement[f]
  BY <1>2 DEF NextTo
<1>4. \A f \in Faces : PartId(f) \in Int
  BY <1>1 DEF PartInv
<1>5. PartsAreSeparate /\ PartsHang
  BY <1>1 DEF PartInv
<1>6. number \in Int /\ \A f \in Faces : PartId(f) < number
  BY <1>0, <1>4, NumberIsFresh
<1>7. Unlabelled \subseteq FootprintFaces /\ FootprintFaces \subseteq Faces /\ \A f \in Unlabelled : PartId(f) = -1
  BY DEF Unlabelled, FootprintFaces, PartId
<1>8. IsSymmetric(NextTo, Unlabelled) /\ IsFiniteSet(Unlabelled)
  BY <1>0, <1>7, NextToIsSymmetric
<1>9. seed \in part /\ part \subseteq Unlabelled /\ IsClosedUnder(NextTo, Unlabelled, part)
  <2>1. {seed} \subseteq Unlabelled
    OBVIOUS
  <2> QED
    BY <1>8, <2>1, FloodIsClosed
<1>10. Hangs(NextTo, part)
  BY <1>8, FloodHangs
<1> HIDE DEF new, number, part
<1>11. ASSUME NEW f \in Faces
       PROVE  /\ IsFaceInfo(new[f]) /\ new[f].in_footprint = arrangement[f].in_footprint
              /\ f \in part => new[f].part_id = number
              /\ f \notin part => new[f].part_id = PartId(f)
  <2> DEFINE d == arrangement[f]
  <2>1. IsFaceInfo(d)
    BY <1>0 DEF IsArrangement
  <2>2. new[f] = IF f \in part THEN [d EXCEPT !.part_id = number] ELSE d
    BY <1>3
  <2> HIDE DEF d
  <2>3. CASE f \in part
    <3>1. new[f] = [d EXCEPT !.part_id = number]
      BY <2>2, <2>3
    <3>2. IsFaceInfo(new[f]) /\ new[f].in_footprint = d.in_footprint /\ new[f].part_id = number
      BY <2>1, <3>1 DEF IsFaceInfo, NewFace
    <3> QED
      BY <2>3, <3>2 DEF d
  <2>4. CASE f \notin part
    BY <2>1, <2>2, <2>4 DEF d, PartId
  <2> QED
    BY <2>3, <2>4
<1>12. Faces' = Faces /\ FootprintFaces' = FootprintFaces
  BY <1>0, <1>1, <1>11, OtherData DEF new
<1> DEFINE id == [f \in Faces |-> new[f].part_id]
<1>13. \A f \in Faces : PartId(f)' = id[f]
  BY <1>12 DEF PartId, new
<1>14. \A f \in Faces : (f \in part => id[f] = number) /\ (f \notin part => id[f] = PartId(f)) /\ id[f] \in Int
  BY <1>4, <1>6, <1>11
<1> HIDE DEF id
<1>15. \A f, g \in FootprintFaces : Touch(f, g) => g \in NextTo[f] /\ Touch(g, f)
  BY <1>0, <1>7, TouchIsMutual DEF NextTo, Neighbours
<1>16. ASSUME NEW f \in FootprintFaces, NEW g \in FootprintFaces, Touch(f, g), f \in part PROVE g \in part
  <2>1. PartId(g) = -1
    BY <1>5, <1>7, <1>9, <1>16 DEF PartsAreSeparate
  <2>2. g \in Unlabelled
    BY <2>1 DEF Unlabelled, PartId
  <2> QED
    BY <1>9, <1>15, <1>16, <2>2 DEF IsClosedUnder
<1>17. \A f, g \in FootprintFaces : Touch(f, g) => id[f] = id[g]
  BY <1>5, <1>7, <1>14, <1>15, <1>16 DEF PartsAreSeparate
<1>18. ASSUME NEW f \in FootprintFaces, NEW g \in FootprintFaces, id[f] = id[g], id[f] # -1 PROVE Reaches(f, g)
  <2>1. f \in Faces /\ g \in Faces
    BY <1>7
  <2>2. f \in part <=> g \in part
    BY <1>4, <1>6, <1>14, <1>18, <2>1
  <2>3. CASE f \in part
    <3> SUFFICES ASSUME NEW S \in SUBSET FootprintFaces, f \in S, IsClosedUnder(NextTo, FootprintFaces, S) PROVE g \in S
      BY DEF Reaches
    <3> DEFINE T == S \cap part
    <3>1. T \in SUBSET part /\ T # {} /\ \A h \in T : NextTo[h] \cap part \subseteq T
      BY <1>7, <1>9, <2>3 DEF IsClosedUnder
    <3>2. T = part
      BY <1>10, <3>1 DEF Hangs
    <3> QED
      BY <2>2, <2>3, <3>2
  <2>4. CASE f \notin part
    BY <1>5, <1>14, <1>18, <2>1, <2>2, <2>4 DEF PartsHang
  <2> QED
    BY <2>3, <2>4
<1>19. PartsAreSeparate'
  <2>1. \A f, g : Touch(f, g)' = Touch(f, g)
    BY DEF Touch
  <2> QED
    BY <1>7, <1>12, <1>13, <1>17, <2>1 DEF PartsAreSeparate
<1>20. PartsHang'
  <2>1. NextTo' = NextTo
    BY <1>12 DEF NextTo, Neighbours, Touch
  <2>2. \A f, g : Reaches(f, g)' = Reaches(f, g)
    BY <1>12, <2>1 DEF Reaches, IsClosedUnder
  <2> QED
    BY <1>7, <1>12, <1>13, <1>18, <2>2 DEF PartsHang
<1>21. \A f \in Faces' : PartId(f)' \in Int
  BY <1>12, <1>13, <1>14
<1> QED
  BY <1>12, <1>19, <1>20, <1>21 DEF PartInv

(* Faces that touch after a merge are made of faces that did, and were not  *)
(* near each other.                                                        *)
LEMMA TouchAfterMerge ==
  ASSUME IsDivision(Faces, Cells), NEW near, NEW new, IsMerge(near, new),
         NEW F \in DOMAIN new, NEW G \in DOMAIN new, Touch(F, G)
  PROVE  \E f, g \in Faces : f \subseteq F /\ g \subseteq G /\ Touch(f, g) /\ g \notin near[f]
<1>1. F # G /\ \E c \in F : Beside[c] \cap G # {}
  BY DEF Touch
<1>2. PICK c \in F : Beside[c] \cap G # {}
  BY <1>1
<1>3. PICK d \in G : d \in Beside[c]
  BY <1>2
<1>4. IsDivision(DOMAIN new, Cells)
  BY DEF IsMerge
<1>5. c \in Cells /\ d \in Cells
  BY <1>4 DEF IsDivision
<1>6. PICK f \in Faces : c \in f
  BY <1>5, FacesOfDivision
<1>7. PICK g \in Faces : d \in g
  BY <1>5, FacesOfDivision
<1>8. f \subseteq F /\ g \subseteq G
  BY <1>6, <1>7 DEF IsMerge
<1>9. f # g
  BY <1>1, <1>4, <1>6, <1>7, <1>8 DEF IsDivision
<1>10. Touch(f, g)
  BY <1>3, <1>6, <1>7, <1>9 DEF Touch
<1>11. ASSUME g \in near[f] PROVE FALSE
  <2>1. g \subseteq F
    BY <1>6, <1>11 DEF IsMerge
  <2> QED
    BY <1>1, <1>4, <1>7, <1>8, <2>1 DEF IsDivision
<1> QED
  BY <1>8, <1>10, <1>11

(* In LoD1.2 no two roofs touch once the interior is dissolved.            *)
RoofsApart == \A f, g \in FootprintFaces : ~Touch(f, g)
FlatInv == site.lod = 12 /\ phase \in Late \cup {"outside", "parts"} => RoofsApart

LEMMA RoofsStayApart ==
  ASSUME FootprintFaces' = FootprintFaces
  PROVE  RoofsApart' <=> RoofsApart
<1>1. \A f, g : Touch(f, g)' = Touch(f, g)
  BY DEF Touch
<1> QED
  BY <1>1 DEF RoofsApart

LEMMA InteriorIsFlat ==
  ASSUME PartitionInv, DissolveInterior PROVE RoofsApart'
<1> DEFINE near == [f \in Faces |-> {g \in Faces : Touch(f, g) /\ BothInside(arrangement[f], arrangement[g])}]
           new == arrangement'
<1>0. IsDivision(Faces, Cells) /\ IsArrangement
  BY DEF PartitionInv, IsArrangement
<1>1. new \in Merges(Components(near, Faces))
  BY DEF DissolveInterior, Groups
<1>2. IsSymmetric(near, Faces)
  BY <1>0, TouchIsMutual DEF IsSymmetric, BothInside
<1>3. \A f \in Faces : \A g \in near[f] \cap Faces : InFootprint(f) = InFootprint(g)
  BY <1>0 DEF BothInside, InFootprint, IsArrangement, IsFaceInfo
<1>4. \A f, g \in Faces : Touch(f, g) /\ InFootprint(f) /\ InFootprint(g) => g \in near[f]
  BY DEF BothInside, InFootprint
<1> HIDE DEF near
<1>5. /\ IsMerge(near, new)
      /\ \A F \in DOMAIN new : \A f \in Faces : f \subseteq F => new[F].in_footprint = InFootprint(f)
  BY <1>0, <1>1, <1>2, <1>3, MergeKeepsSides
<1> HIDE DEF new
<1>6. ASSUME NEW F \in DOMAIN new, NEW G \in DOMAIN new, new[F].in_footprint, new[G].in_footprint, Touch(F, G)
      PROVE  FALSE
  <2>1. PICK f \in Faces, g \in Faces : f \subseteq F /\ g \subseteq G /\ Touch(f, g) /\ g \notin near[f]
    BY <1>0, <1>5, <1>6, TouchAfterMerge
  <2> QED
    BY <1>4, <1>5, <1>6, <2>1
<1> QED
  BY <1>6 DEF RoofsApart, Touch, FootprintFaces, InFootprint, Faces, new

LEMMA OutsideStaysFlat ==
  ASSUME PartitionInv, DissolveOutside, RoofsApart PROVE RoofsApart'
<1> DEFINE near == [f \in Faces |-> {g \in Faces : Touch(f, g) /\ BothOutside(arrangement[f], arrangement[g])}]
           new == arrangement'
<1>0. IsDivision(Faces, Cells) /\ IsArrangement
  BY DEF PartitionInv, IsArrangement
<1>1. new \in Merges(Components(near, Faces))
  BY DEF DissolveOutside, Groups
<1>2. IsSymmetric(near, Faces)
  BY <1>0, TouchIsMutual DEF IsSymmetric, BothOutside
<1>3. \A f \in Faces : \A g \in near[f] \cap Faces : InFootprint(f) = InFootprint(g)
  BY <1>0 DEF BothOutside, InFootprint, IsArrangement, IsFaceInfo
<1> HIDE DEF near
<1>5. /\ IsMerge(near, new)
      /\ \A F \in DOMAIN new : \A f \in Faces : f \subseteq F => new[F].in_footprint = InFootprint(f)
  BY <1>0, <1>1, <1>2, <1>3, MergeKeepsSides
<1> HIDE DEF new
<1>6. ASSUME NEW F \in DOMAIN new, NEW G \in DOMAIN new, new[F].in_footprint, new[G].in_footprint, Touch(F, G)
      PROVE  FALSE
  <2>1. PICK f \in Faces, g \in Faces : f \subseteq F /\ g \subseteq G /\ Touch(f, g) /\ g \notin near[f]
    BY <1>0, <1>5, <1>6, TouchAfterMerge
  <2>2. InFootprint(f) /\ InFootprint(g)
    BY <1>5, <1>6, <2>1
  <2> QED
    BY <2>1, <2>2 DEF RoofsApart, FootprintFaces
<1> QED
  BY <1>6 DEF RoofsApart, Touch, FootprintFaces, InFootprint, Faces, new

(***************************************************************************)
(* What the extruder gets.                                                 *)
(***************************************************************************)
LateInv ==
  phase \in Late =>
    /\ Unlabelled = {}
    /\ \A f \in Faces : arrangement[f].is_footprint_hole <=> ~InFootprint(f) /\ f # Unbounded
    /\ \A f, g \in Faces : Touch(f, g) => InFootprint(f) \/ InFootprint(g)
    /\ site.roofs # <<>> => Inside \subseteq site.outer
    /\ \A f \in FootprintFaces : arrangement[f].elevation_70p \in Int
    /\ site.roofs # <<>> /\ site.lod = 22 => \A f \in FootprintFaces : arrangement[f].plane \in 1 .. Len(Planes)

LEMMA RankedIsAValue ==
  ASSUME NEW w, IsFiniteSet(DOMAIN w), DOMAIN w # {}, \A x \in DOMAIN w : w[x] \in Int, NEW k \in 0 .. 10
  PROVE  Ranked(w, k) \in Int
<1> DEFINE D == DOMAIN w
           n == Cardinality(D)
           AtMost(u) == Cardinality({x \in D : w[x] <= u})
           V == {w[x] : x \in {y \in D : AtMost(w[y]) > (k * (n - 1)) \div 10}}
<1>1. Ranked(w, k) = Min(V)
  BY DEF Ranked
<1>2. PICK y \in D : \A x \in D : w[x] <= w[y]
  BY HighestOfAll
<1>3. AtMost(w[y]) = n
  <2>1. {x \in D : w[x] <= w[y]} = D
    BY <1>2
  <2> QED
    BY <2>1
<1>4. n \in Nat /\ n # 0
  BY FS_CardinalityType, FS_EmptySet
<1>5. n > (k * (n - 1)) \div 10
  <2> HIDE DEF n
  <2> DEFINE m == n - 1
  <2>1. m \in Nat /\ n = m + 1
    BY <1>4
  <2> HIDE DEF m
  <2>2. k \in {0, 1, 2, 3, 4, 5, 6, 7, 8, 9, 10}
    OBVIOUS
  <2>3. (k * m) \div 10 <= m
    BY <2>1, <2>2
  <2> QED
    BY <2>1, <2>3 DEF m
<1>6. w[y] \in V
  <2> HIDE DEF AtMost, n
  <2> QED
    BY <1>3, <1>5
<1>7. V \subseteq {w[x] : x \in D}
  OBVIOUS
<1>8. IsFiniteSet({w[x] : x \in D})
  <2> DEFINE h == [x \in D |-> w[x]]
  <2>1. h \in Surjection(D, {w[x] : x \in D})
    BY DEF Surjection
  <2> HIDE DEF h
  <2> QED
    BY <2>1, FS_Surjection
<1>9. V \subseteq Int
  OBVIOUS
<1>10. IsFiniteSet(V)
  BY <1>7, <1>8, FS_Subset
<1>11. V # {}
  BY <1>6
<1> HIDE DEF V
<1>12. Min(V) \in V
  BY <1>9, <1>10, <1>11, MinIsANumber
<1> QED
  BY <1>1, <1>9, <1>12

LEMMA LateStart ==
  ASSUME PartitionInv, PartitionInv', FinishDissolver
  PROVE  /\ LateInv' /\ Faces' = Faces /\ FootprintFaces' = FootprintFaces
         /\ \A f \in Faces : /\ arrangement'[f].segid = arrangement[f].segid
                             /\ arrangement'[f].part_id = arrangement[f].part_id
<1> DEFINE new == arrangement'
<1>0. IsDivision(Faces, Cells) /\ IsArrangement /\ site \in Sites
  BY DEF PartitionInv, IsArrangement, Order
<1>1. /\ phase = "parts" /\ phase' = "dissolved" /\ site' = site /\ DOMAIN new = Faces /\ Unlabelled = {}
      /\ label' = label
  BY DEF FinishDissolver
<1> DEFINE Elevation(f) == CASE ~InFootprint(f) -> arrangement[f].elevation_70p
                             [] InFootprint(f) /\ DOMAIN DataPixels(f) = {} -> NoData
                             [] OTHER -> Ranked(DataPixels(f), 7)
<1>2. \A f \in Faces : \E m, n : new[f] = [arrangement[f] EXCEPT !.is_footprint_hole = m, !.elevation_70p = Elevation(f),
                                                                 !.pixel_count = n]
  BY DEF FinishDissolver
<1>3. ASSUME NEW f \in Faces
      PROVE  /\ new[f].segid = arrangement[f].segid /\ new[f].part_id = arrangement[f].part_id
             /\ new[f].in_footprint = arrangement[f].in_footprint
             /\ new[f].elevation_70p = Elevation(f)
  <2> DEFINE d == arrangement[f]
             e == Elevation(f)
  <2>1. IsFaceInfo(d)
    BY <1>0 DEF IsArrangement
  <2>2. PICK m, n : new[f] = [d EXCEPT !.is_footprint_hole = m, !.elevation_70p = e, !.pixel_count = n]
    BY <1>2
  <2> HIDE DEF d, e, new
  <2>3. /\ new[f].segid = d.segid /\ new[f].part_id = d.part_id
        /\ new[f].in_footprint = d.in_footprint
        /\ new[f].elevation_70p = e
    BY <2>1, <2>2 DEF IsFaceInfo, NewFace
  <2> QED
    BY <2>3 DEF d, e
<1> HIDE DEF new
<1>4. Faces' = Faces
  BY <1>1 DEF Faces, new
<1>5. \A f \in Faces : InFootprint(f)' = InFootprint(f)
  BY <1>3 DEF InFootprint, new
<1>6. FootprintFaces' = FootprintFaces /\ FootprintFaces \subseteq Faces
  BY <1>4, <1>5 DEF FootprintFaces
<1>7. Unlabelled' = {}
  BY <1>1, <1>3, <1>6 DEF Unlabelled, new
<1>8. \A f \in Faces' : arrangement'[f].is_footprint_hole <=> ~InFootprint(f)' /\ f # Unbounded'
  BY <1>1 DEF PartitionInv, HolesAreMarked, Dissolved
<1>9. \A f, g \in Faces' : Touch(f, g)' => InFootprint(f)' \/ InFootprint(g)'
  <2>1. \A f, g : Touch(f, g)' = Touch(f, g)
    BY DEF Touch
  <2>2. \A f, g \in Faces : Touch(f, g) => InFootprint(f) \/ InFootprint(g)
    BY <1>1 DEF PartitionInv, OutsideIsDissolved
  <2> QED
    BY <1>4, <1>5, <2>1, <2>2
<1>10. ASSUME NEW f \in FootprintFaces PROVE Elevation(f) \in Int
  <2>1. InFootprint(f) /\ f \in Faces
    BY DEF FootprintFaces
  <2>2. CASE DOMAIN DataPixels(f) = {}
    BY <2>1, <2>2, SiteAssumption
  <2>3. CASE DOMAIN DataPixels(f) # {}
    <3>1. Elevation(f) = Ranked(DataPixels(f), 7)
      BY <2>1, <2>3
    <3>2. DOMAIN DataPixels(f) = {d \in f \cap DOMAIN site.pixel : site.pixel[d] # NoData}
      BY DEF DataPixels
    <3>3. \A c \in DOMAIN DataPixels(f) : DataPixels(f)[c] = site.pixel[c] /\ c \in DOMAIN site.pixel
      BY DEF DataPixels
    <3>4. \A c \in DOMAIN DataPixels(f) : DataPixels(f)[c] \in Int
      BY <1>0, <3>3, SitesAreRight DEF IsSite
    <3>5. IsFiniteSet(DOMAIN DataPixels(f))
      <4>1. DOMAIN DataPixels(f) \subseteq Cells
        BY <1>0, <2>1, <3>2, FacesOfDivision
      <4> QED
        BY <4>1, CellsAreFinite, FS_Subset
    <3> DEFINE w == DataPixels(f)
    <3> HIDE DEF w
    <3>6. Ranked(w, 7) \in Int
      <4>1. 7 \in 0 .. 10
        OBVIOUS
      <4> QED
        BY <4>1, <2>3, <3>4, <3>5, RankedIsAValue DEF w
    <3> QED
      BY <3>1, <3>6 DEF w
  <2> QED
    BY <2>2, <2>3
<1> HIDE DEF Elevation
<1>11. \A f \in FootprintFaces' : arrangement'[f].elevation_70p \in Int
  BY <1>3, <1>6, <1>10 DEF new
<1>12. site'.roofs # <<>> => Inside' \subseteq site'.outer
  <2>1. site'.roofs # <<>> => Inside' \subseteq Footprint'
    BY <1>1 DEF PartitionInv, IsClipped
  <2>2. Footprint' \subseteq site'.outer
    BY DEF Footprint, Kept
  <2> QED
    BY <2>1, <2>2
<1>13. site'.roofs # <<>> /\ site'.lod = 22 => \A f \in FootprintFaces' : arrangement'[f].plane \in 1 .. Len(Planes')
  <2> SUFFICES ASSUME site'.roofs # <<>>, site'.lod = 22, NEW f \in FootprintFaces'
               PROVE  arrangement'[f].plane \in 1 .. Len(Planes')
    OBVIOUS
  <2>1. PICK c \in f : TRUE
    BY <1>0, <1>6, FacesOfDivision
  <2>2. arrangement'[f].plane = label'[c]
    BY <1>1 DEF PartitionInv, IsClipped
  <2>3. c \in Inside'
    BY DEF Inside
  <2>4. label'[c] \in 1 .. Len(site'.roofs)
    BY <1>1, <2>3 DEF PartitionInv, IsClipped, OnARoof
  <2>5. Len(site.roofs) \in Nat /\ Len(Planes) \in Nat /\ Len(site.roofs) <= Len(Planes)
    <3>1. IsSite(site)
      BY <1>0, SitesAreRight
    <3>2. site.roofs \in Seq(Coefficients) /\ site.grounds \in Seq(Coefficients)
      BY <3>1 DEF IsSite
    <3>3. \A s, t \in Seq(Coefficients) : Len(s) \in Nat /\ Len(t) \in Nat /\ Len(s \o t) = Len(s) + Len(t)
      OBVIOUS
    <3>4. /\ Len(site.roofs) \in Nat /\ Len(site.grounds) \in Nat
          /\ Len(Planes) = Len(site.roofs) + Len(site.grounds)
      BY <3>2, <3>3 DEF Planes
    <3> DEFINE n == Len(site.roofs)
               m == Len(site.grounds)
               k == Len(Planes)
    <3>5. n \in Nat /\ m \in Nat /\ k = n + m
      BY <3>4
    <3> HIDE DEF n, m, k
    <3>6. n \in Nat /\ k \in Nat /\ n <= k
      BY <3>5
    <3> QED
      BY <3>6 DEF n, k
  <2>6. Planes' = Planes
    BY <1>1 DEF Planes
  <2> QED
    BY <1>1, <2>2, <2>4, <2>5, <2>6
<1> QED
  BY <1>1, <1>3, <1>4, <1>6, <1>7, <1>8, <1>9, <1>11, <1>12, <1>13 DEF LateInv, new

BuildingInv == PartitionInv /\ PieceInv /\ PartInv /\ FlatInv /\ LateInv

LEMMA BuildingStarts == ExtruderInit => BuildingInv
<1> SUFFICES ASSUME ExtruderInit PROVE BuildingInv
  OBVIOUS
<1>1. phase = "footprint"
  BY DEF ExtruderInit, PartitionInit
<1> QED
  BY <1>1, PartitionStarts, PiecesStart DEF BuildingInv, PartInv, FlatInv, LateInv, Late

(* Nothing happens to the arrangement. *)
LEMMA BuildingStays ==
  ASSUME BuildingInv, PartitionInv', site' = site, arrangement' = arrangement,
         \/ phase' = phase
         \/ phase \in Late /\ phase' \in Late
         \/ phase = "steps" /\ phase' = "outside"
  PROVE  BuildingInv'
<1>1. /\ Faces' = Faces /\ Unbounded' = Unbounded /\ FootprintFaces' = FootprintFaces /\ Inside' = Inside
      /\ Unlabelled' = Unlabelled /\ \A f : InFootprint(f)' = InFootprint(f)
  BY ArrangementStays
<1>2. /\ PartitionInv /\ PieceInv /\ PartInv /\ FlatInv /\ LateInv
  BY DEF BuildingInv
<1>3. PieceInv'
  BY <1>2 DEF PieceInv, Late
<1>4. PartInv'
  <2>1. phase' \in Late \cup {"parts"} => phase \in Late \cup {"parts"}
    BY DEF Late
  <2>2. (PartsAreSeparate => PartsAreSeparate') /\ (PartsHang => PartsHang')
    BY <1>1, PartsStay
  <2> QED
    BY <1>1, <1>2, <2>1, <2>2 DEF PartInv, PartId
<1>5. FlatInv'
  <2>1. phase' \in Late \cup {"outside", "parts"} /\ site.lod = 12 => phase \in Late \cup {"outside", "parts"}
    <3>1. phase = "steps" => site.lod = 13
      BY <1>2 DEF PartitionInv, Order
    <3>2. site.lod = 12 => ~(phase = "steps" /\ phase' = "outside")
      BY <3>1
    <3>3. "outside" \notin Late /\ "parts" \notin Late
      BY DEF Late
    <3> QED
      BY <3>2, <3>3
  <2> QED
    BY <1>1, <1>2, <2>1, RoofsStayApart DEF FlatInv
<1>6. LateInv'
  <2>1. phase' \in Late => phase \in Late
    BY DEF Late
  <2>2. \A f, g : Touch(f, g)' = Touch(f, g)
    BY DEF Touch
  <2>3. Planes' = Planes
    BY DEF Planes
  <2> QED
    BY <1>1, <1>2, <2>1, <2>2, <2>3 DEF LateInv
<1> QED
  BY <1>3, <1>4, <1>5, <1>6 DEF BuildingInv

(* The steps before the parts, but for those that make roofs lie apart. *)
LEMMA BuildingBefore ==
  ASSUME PieceInv', PartitionInv', phase' \notin Late \cup {"parts"},
         phase' = "outside" => site'.lod # 12 \/ RoofsApart'
  PROVE  BuildingInv'
BY DEF BuildingInv, PartInv, FlatInv, LateInv

LEMMA BuildingAfterParts ==
  ASSUME BuildingInv, PartitionInv', LabelPart PROVE BuildingInv'
<1>1. PartInv' /\ Faces' = Faces /\ FootprintFaces' = FootprintFaces
  BY PartsAfterLabel DEF BuildingInv
<1>2. phase = "parts" /\ phase' = "parts" /\ site' = site /\ DOMAIN arrangement' = Faces
  BY DEF LabelPart
<1>3. \A f \in Faces : arrangement'[f].segid = arrangement[f].segid
  <2> SUFFICES ASSUME NEW f \in Faces PROVE arrangement'[f].segid = arrangement[f].segid
    OBVIOUS
  <2> DEFINE new == arrangement'
             d == arrangement[f]
  <2>1. IsFaceInfo(d)
    BY DEF BuildingInv, PartitionInv, IsArrangement
  <2>2. \E n : new[f] = [d EXCEPT !.part_id = n] \/ new[f] = d
    BY DEF LabelPart
  <2> HIDE DEF new, d
  <2>3. new[f].segid = d.segid
    BY <2>1, <2>2 DEF IsFaceInfo, NewFace
  <2> QED
    BY <2>3 DEF new, d
<1>4. PieceInv'
  BY <1>2, <1>3 DEF BuildingInv, PieceInv, InPieces, Bare, Late, Faces
<1>5. FlatInv'
  BY <1>1, <1>2, RoofsStayApart DEF BuildingInv, FlatInv
<1> QED
  BY <1>1, <1>2, <1>4, <1>5 DEF BuildingInv, LateInv, Late

LEMMA BuildingIsDissolved ==
  ASSUME BuildingInv, PartitionInv', FinishDissolver PROVE BuildingInv'
<1>1. /\ LateInv' /\ Faces' = Faces /\ FootprintFaces' = FootprintFaces
      /\ \A f \in Faces : /\ arrangement'[f].segid = arrangement[f].segid
                          /\ arrangement'[f].part_id = arrangement[f].part_id
  BY LateStart DEF BuildingInv
<1>2. phase = "parts" /\ phase' = "dissolved" /\ site' = site
  BY DEF FinishDissolver
<1>3. PieceInv'
  BY <1>1, <1>2 DEF BuildingInv, PieceInv, InPieces, Bare, Late, Faces
<1>4. FlatInv'
  BY <1>1, <1>2, RoofsStayApart DEF BuildingInv, FlatInv, Late
<1>5. PartInv'
  <2>1. (PartsAreSeparate => PartsAreSeparate') /\ (PartsHang => PartsHang')
    BY <1>1, PartsStay
  <2> QED
    BY <1>1, <1>2, <2>1 DEF BuildingInv, PartInv, PartId, Late
<1> QED
  BY <1>1, <1>3, <1>4, <1>5 DEF BuildingInv

LEMMA BuildingIsMerged ==
  ASSUME BuildingInv, PartitionInv', DissolveOutside PROVE BuildingInv'
<1>1. PieceInv' /\ Unnumbered(arrangement')
  BY PiecesOfOutside DEF BuildingInv
<1>2. phase = "outside" /\ phase' = "parts" /\ site' = site
  BY DEF DissolveOutside
<1>3. FlatInv'
  BY <1>2, OutsideStaysFlat DEF BuildingInv, FlatInv
<1>4. PartInv'
  <2>1. \A f \in Faces' : PartId(f)' = -1
    BY <1>1 DEF Unnumbered, PartId, Faces
  <2>2. FootprintFaces' \subseteq Faces'
    BY DEF FootprintFaces
  <2> QED
    BY <2>1, <2>2 DEF PartInv, PartsAreSeparate, PartsHang
<1> QED
  BY <1>1, <1>2, <1>3, <1>4 DEF BuildingInv, LateInv, Late

LEMMA BuildingSteps ==
  ASSUME BuildingInv, [ExtruderNext]_allvars PROVE BuildingInv'
<1>0. PartitionInv' /\ PartitionInv /\ PieceInv
  BY PartitionSteps DEF BuildingInv
<1>1. CASE UNCHANGED allvars
  BY <1>0, <1>1, BuildingStays DEF allvars, partition
<1>2. CASE InsertFootprint
  BY <1>0, <1>2, PiecesOfFootprint, BuildingBefore DEF InsertFootprint, Late
<1>3. CASE InsertHole
  BY <1>0, <1>3, PiecesOfHole, BuildingBefore DEF InsertHole, Late
<1>4. CASE InsertLines
  BY <1>0, <1>4, PiecesOfLines, BuildingBefore DEF InsertLines, Late
<1>5. CASE Optimise
  BY <1>0, <1>5, PiecesOfOptimise, BuildingBefore DEF Optimise, Late
<1>6. CASE NothingToOptimise
  BY <1>0, <1>6, PiecesOfNothing, BuildingBefore DEF NothingToOptimise, Late
<1>7. CASE DissolveSegments
  BY <1>0, <1>7, PiecesOfSegments, BuildingBefore DEF DissolveSegments, Late
<1>8. CASE ClipToTerrain
  <2>1. PieceInv'
    BY <1>0, <1>8, PiecesOfTerrain
  <2>2. phase' \in {"interior", "statistics", "outside"} /\ (phase' = "outside" => site'.lod # 12)
    BY <1>8 DEF ClipToTerrain
  <2> QED
    BY <1>0, <2>1, <2>2, BuildingBefore DEF Late
<1>9. CASE DissolveInterior
  BY <1>0, <1>9, PiecesOfInterior, InteriorIsFlat, BuildingBefore DEF DissolveInterior, Late
<1>10. CASE ComputeElevations
  BY <1>0, <1>10, PiecesOfElevations, BuildingBefore DEF ComputeElevations, Late
<1>11. CASE MergeStep
  BY <1>0, <1>11, PiecesOfMerge, BuildingBefore DEF MergeStep, Late
<1>12. CASE StepsAreDissolved
  BY <1>0, <1>12, BuildingStays DEF StepsAreDissolved
<1>13. CASE DissolveOutside
  BY <1>0, <1>13, BuildingIsMerged
<1>14. CASE LabelPart
  BY <1>0, <1>14, BuildingAfterParts
<1>15. CASE FinishDissolver
  BY <1>0, <1>15, BuildingIsDissolved
<1>16. CASE Snap \/ MakeFloors \/ AttachHoles \/ ColumnHeights \/ MakeWalls \/ MakeRoofs
  <2>1. site' = site /\ arrangement' = arrangement /\ phase \in Late /\ phase' \in Late
    BY <1>16 DEF Snap, MakeFloors, AttachHoles, ColumnHeights, MakeWalls, MakeRoofs, Late
  <2> QED
    BY <1>0, <2>1, BuildingStays
<1>17. CASE Ended
  BY <1>1, <1>17 DEF Ended
<1> QED
  BY <1>1, <1>2, <1>3, <1>4, <1>5, <1>6, <1>7, <1>8, <1>9, <1>10, <1>11, <1>12, <1>13, <1>14, <1>15, <1>16, <1>17
     DEF ExtruderNext, PartitionNext

(***************************************************************************)
(* Before the extruder begins every face is in one piece, the parts are    *)
(* numbered so that faces next to each other are of one part and no part   *)
(* falls apart, and what is not a roof is unbounded or a hole.             *)
(***************************************************************************)
THEOREM BuildingIsRight == ExtruderSpec => []BuildingInv
<1>1. ExtruderInit => BuildingInv
  BY BuildingStarts
<1>2. BuildingInv /\ [ExtruderNext]_allvars => BuildingInv'
  BY BuildingSteps
<1> QED
  BY <1>1, <1>2, PTL DEF ExtruderSpec

-----------------------------------------------------------------------------
(***************************************************************************)
(* What the extruder has made at every step.                               *)
(***************************************************************************)
Outlines == {Between(Unbounded, k) : k \in Components(Around, Cells \ Unbounded)}
FloorOf(p) == {Polygon("floor", Level(CHOOSE o \in Outlines : PartAlong(o) = p, site.ground))}
Floors == [p \in {PartAlong(o) : o \in Outlines} |-> FloorOf(p)]

RingsOf(p) == UNION {Level(h, site.ground) : h \in {o \in HoleRings : PartAlong(o) = p}}
FloorsWithRings ==
  [p \in DOMAIN Floors |-> {Polygon("floor", floor.sides \cup RingsOf(p)) : floor \in Floors[p]}]

Columns == [v \in Vertices |-> Column(v)]
Crossings == {e \in WallEdges : Crosses(e)}

WallsOf(p) == UNION {{Polygon(WallLabel(e), w) : w \in WallsOn(e)} : e \in {d \in WallEdges : PartOf(d) = p}}
Walled ==
  [p \in DOMAIN FloorsWithRings \cup {PartOf(e) : e \in WallEdges} |->
     (IF p \in DOMAIN FloorsWithRings THEN FloorsWithRings[p] ELSE {}) \cup WallsOf(p)]

RoofsOf(p) == {RoofPolygon(f) : f \in {g \in FootprintFaces : arrangement[g].part_id = p}}
Roofed ==
  [p \in DOMAIN Walled \cup {arrangement[f].part_id : f \in FootprintFaces} |->
     (IF p \in DOMAIN Walled THEN Walled[p] ELSE {}) \cup RoofsOf(p)]

Extruding == {"columns", "walls", "roofs", "extruded"}

MeshInv ==
  /\ phase \in {"floors", "attach"} \cup Extruding => \A v \in Vertices : SnappedAt(v)
  /\ phase \in Extruding => \A f \in FootprintFaces : arrangement[f].segid # 0
  /\ phase = "attach" => multisolid = Floors
  /\ phase \in {"columns", "walls"} => multisolid = FloorsWithRings
  /\ phase \in {"walls", "roofs", "extruded"} => vertex_columns = Columns
  /\ phase \in {"roofs", "extruded"} => extra_wall_points = Crossings
  /\ phase = "roofs" => multisolid = Walled
  /\ phase = "extruded" => multisolid = Roofed

LEMMA FloorsStay ==
  ASSUME site' = site, arrangement' = arrangement
  PROVE  Floors' = Floors /\ FloorsWithRings' = FloorsWithRings
<1>1. /\ Faces' = Faces /\ Unbounded' = Unbounded /\ FootprintFaces' = FootprintFaces
      /\ \A c : FaceAt(c)' = FaceAt(c)
  BY ArrangementStays
<1>2. \A o : PartAlong(o)' = PartAlong(o)
  BY <1>1 DEF PartAlong
<1>3. Outlines' = Outlines
  BY <1>1 DEF Outlines
<1>4. \A p : FloorOf(p)' = FloorOf(p)
  BY <1>2, <1>3 DEF FloorOf
<1>5. Floors' = Floors
  BY <1>2, <1>3, <1>4 DEF Floors
<1>6. HoleRings' = HoleRings
  BY <1>1 DEF HoleRings
<1>7. \A p : RingsOf(p)' = RingsOf(p)
  BY <1>2, <1>6 DEF RingsOf
<1>8. FloorsWithRings' = FloorsWithRings
  BY <1>5, <1>7 DEF FloorsWithRings
<1> QED
  BY <1>5, <1>8

LEMMA ColumnsStay ==
  ASSUME site' = site, arrangement' = arrangement
  PROVE  /\ Columns' = Columns
         /\ \A v : SnappedAt(v)' = SnappedAt(v)
         /\ \A f, v : FaceHeight(f, v)' = FaceHeight(f, v)
<1>1. \A c : FaceAt(c)' = FaceAt(c)
  BY ArrangementStays
<1>2. \A f : InFootprint(f)' = InFootprint(f)
  BY DEF InFootprint
<1>3. Planes' = Planes
  BY DEF Planes
<1>4. \A p, x, y : HeightOn(p, x, y)' = HeightOn(p, x, y)
  BY <1>3 DEF HeightOn
<1>5. \A f, v : FaceHeight(f, v)' = FaceHeight(f, v)
  BY <1>2, <1>3 DEF FaceHeight, HeightOn
<1>6. \A v : Column(v)' = Column(v)
  BY <1>1, <1>5 DEF Column
<1>7. Columns' = Columns
  BY <1>6 DEF Columns
<1>8. \A v, c : Sector(v, c)' = Sector(v, c)
  BY <1>1, <1>2, <1>3 DEF Sector, HeightOn, OnRoof
<1>9. \A v : SectorsAt(v)' = SectorsAt(v)
  BY <1>8 DEF SectorsAt
<1>10. \A v : SnappedAt(v)' = SnappedAt(v)
  BY <1>9 DEF SnappedAt
<1> QED
  BY <1>5, <1>7, <1>10

LEMMA WallsStay ==
  ASSUME site' = site, arrangement' = arrangement, vertex_columns' = vertex_columns
  PROVE  Crossings' = Crossings /\ Walled' = Walled
<1>1. \A c : FaceAt(c)' = FaceAt(c)
  BY ArrangementStays
<1>2. \A f : InFootprint(f)' = InFootprint(f)
  BY DEF InFootprint
<1>3. WallEdges' = WallEdges
  BY <1>1, <1>2 DEF WallEdges
<1>4. \A f, v : WallHeight(f, v)' = WallHeight(f, v)
  BY <1>2 DEF WallHeight
<1>5. \A v, f, g : OtherHeights(v, f, g)' = OtherHeights(v, f, g)
  BY DEF OtherHeights
<1>6. \A e : Heights(e)' = Heights(e)
  BY <1>1, <1>4, <1>5 DEF Heights
<1>7. \A e : Crosses(e)' = Crosses(e)
  BY <1>6 DEF Crosses
<1>8. Crossings' = Crossings
  BY <1>3, <1>7 DEF Crossings
<1>9. \A e : WallsOn(e)' = WallsOn(e)
  BY <1>6, <1>7 DEF WallsOn
<1>10. \A e : WallLabel(e)' = WallLabel(e) /\ PartOf(e)' = PartOf(e)
  BY <1>1, <1>2 DEF WallLabel, PartOf
<1>11. \A p : WallsOf(p)' = WallsOf(p)
  BY <1>3, <1>9, <1>10 DEF WallsOf
<1>12. FloorsWithRings' = FloorsWithRings
  BY FloorsStay
<1>13. Walled' = Walled
  BY <1>3, <1>10, <1>11, <1>12 DEF Walled
<1> QED
  BY <1>8, <1>13

LEMMA RoofsStay ==
  ASSUME site' = site, arrangement' = arrangement, vertex_columns' = vertex_columns,
         extra_wall_points' = extra_wall_points
  PROVE  Roofed' = Roofed
<1>1. FootprintFaces' = FootprintFaces
  BY ArrangementStays
<1>2. \A f, e : RoofSides(f, e)' = RoofSides(f, e)
  BY DEF RoofSides
<1>3. \A f : RoofPolygon(f)' = RoofPolygon(f)
  BY <1>2 DEF RoofPolygon
<1>4. \A p : RoofsOf(p)' = RoofsOf(p)
  BY <1>1, <1>3 DEF RoofsOf
<1>5. Walled' = Walled
  BY WallsStay
<1> QED
  BY <1>1, <1>4, <1>5 DEF Roofed

LEMMA MeshStarts == ExtruderInit => MeshInv
BY DEF ExtruderInit, PartitionInit, MeshInv, Extruding

LEMMA MeshSteps ==
  ASSUME MeshInv, [ExtruderNext]_allvars PROVE MeshInv'
<1>1. CASE UNCHANGED allvars
  <2>1. /\ site' = site /\ phase' = phase /\ arrangement' = arrangement /\ multisolid' = multisolid
        /\ vertex_columns' = vertex_columns /\ extra_wall_points' = extra_wall_points
    BY <1>1 DEF allvars, partition
  <2>2. /\ Floors' = Floors /\ FloorsWithRings' = FloorsWithRings /\ Columns' = Columns
        /\ Crossings' = Crossings /\ Walled' = Walled /\ Roofed' = Roofed
        /\ FootprintFaces' = FootprintFaces /\ \A v : SnappedAt(v)' = SnappedAt(v)
    BY <2>1, FloorsStay, ColumnsStay, WallsStay, RoofsStay, ArrangementStays
  <2> QED
    BY <2>1, <2>2 DEF MeshInv
<1>2. CASE PartitionNext
  <2>1. phase' \in {"footprint", "holes", "optimise", "segments", "terrain", "interior", "statistics", "outside", "steps",
                    "parts", "dissolved"}
    BY <1>2 DEF PartitionNext, InsertFootprint, InsertHole, InsertLines, Optimise, NothingToOptimise, DissolveSegments,
                ClipToTerrain, DissolveInterior, ComputeElevations, MergeStep, StepsAreDissolved, DissolveOutside,
                LabelPart, FinishDissolver
  <2> QED
    BY <2>1 DEF MeshInv, Extruding
<1>3. CASE Snap
  <2>1. phase' \in {"floors", "repaired"} /\ (phase' = "floors" => \A v \in Vertices : SnappedAt(v))
        /\ site' = site /\ arrangement' = arrangement
    BY <1>3 DEF Snap
  <2>2. \A v : SnappedAt(v)' = SnappedAt(v)
    BY <2>1, ColumnsStay
  <2> QED
    BY <2>1, <2>2 DEF MeshInv, Extruding
<1>4. CASE MakeFloors
  <2>1. phase = "floors" /\ phase' = "attach" /\ site' = site /\ arrangement' = arrangement /\ multisolid' = Floors
    BY <1>4 DEF MakeFloors, Floors, FloorOf, Outlines
  <2>2. Floors' = Floors /\ \A v : SnappedAt(v)' = SnappedAt(v)
    BY <2>1, ColumnsStay, FloorsStay
  <2> QED
    BY <2>1, <2>2 DEF MeshInv, Extruding
<1>5. CASE AttachHoles
  <2>1. /\ phase = "attach" /\ phase' \in {"no planes", "columns"} /\ site' = site /\ arrangement' = arrangement
        /\ phase' = "columns" => \A f \in FootprintFaces : arrangement[f].segid # 0
    BY <1>5 DEF AttachHoles
  <2>2. multisolid' = [p \in DOMAIN multisolid |->
                         {Polygon("floor", floor.sides \cup RingsOf(p)) : floor \in multisolid[p]}]
    BY <1>5 DEF AttachHoles, RingsOf
  <2>3. multisolid' = FloorsWithRings
    BY <2>1, <2>2 DEF MeshInv, FloorsWithRings
  <2>4. FloorsWithRings' = FloorsWithRings /\ FootprintFaces' = FootprintFaces /\ \A v : SnappedAt(v)' = SnappedAt(v)
    BY <2>1, ColumnsStay, FloorsStay, ArrangementStays
  <2> QED
    BY <2>1, <2>3, <2>4 DEF MeshInv, Extruding
<1>6. CASE ColumnHeights
  <2>1. /\ phase = "columns" /\ phase' = "walls" /\ site' = site /\ arrangement' = arrangement
        /\ multisolid' = multisolid /\ vertex_columns' = Columns
    BY <1>6 DEF ColumnHeights, Columns
  <2>2. /\ Columns' = Columns /\ FloorsWithRings' = FloorsWithRings /\ FootprintFaces' = FootprintFaces
        /\ \A v : SnappedAt(v)' = SnappedAt(v)
    BY <2>1, ColumnsStay, FloorsStay, ArrangementStays
  <2> QED
    BY <2>1, <2>2 DEF MeshInv, Extruding
<1>7. CASE MakeWalls
  <2>1. /\ phase = "walls" /\ phase' = "roofs" /\ site' = site /\ arrangement' = arrangement
        /\ vertex_columns' = vertex_columns /\ extra_wall_points' = Crossings
    BY <1>7 DEF MakeWalls, Crossings
  <2>2. multisolid' = [p \in DOMAIN multisolid \cup {PartOf(e) : e \in WallEdges} |-> MeshOf(p) \cup WallsOf(p)]
    BY <1>7 DEF MakeWalls, WallsOf
  <2>3. multisolid' = Walled
    BY <2>1, <2>2 DEF MeshInv, MeshOf, Walled
  <2>4. /\ Columns' = Columns /\ Crossings' = Crossings /\ Walled' = Walled /\ FootprintFaces' = FootprintFaces
        /\ \A v : SnappedAt(v)' = SnappedAt(v)
    BY <2>1, ColumnsStay, WallsStay, ArrangementStays
  <2> QED
    BY <2>1, <2>3, <2>4 DEF MeshInv, Extruding
<1>8. CASE MakeRoofs
  <2>1. /\ phase = "roofs" /\ phase' = "extruded" /\ site' = site /\ arrangement' = arrangement
        /\ vertex_columns' = vertex_columns /\ extra_wall_points' = extra_wall_points
    BY <1>8 DEF MakeRoofs
  <2>2. multisolid' = [p \in DOMAIN multisolid \cup {arrangement[f].part_id : f \in FootprintFaces} |-> MeshOf(p) \cup RoofsOf(p)]
    BY <1>8 DEF MakeRoofs, RoofsOf
  <2>3. multisolid' = Roofed
    BY <2>1, <2>2 DEF MeshInv, MeshOf, Roofed
  <2>4. /\ Columns' = Columns /\ Crossings' = Crossings /\ Roofed' = Roofed /\ FootprintFaces' = FootprintFaces
        /\ \A v : SnappedAt(v)' = SnappedAt(v)
    BY <2>1, ColumnsStay, WallsStay, RoofsStay, ArrangementStays
  <2> QED
    BY <2>1, <2>3, <2>4 DEF MeshInv, Extruding
<1>9. CASE Ended
  BY <1>1, <1>9 DEF Ended
<1> QED
  BY <1>1, <1>2, <1>3, <1>4, <1>5, <1>6, <1>7, <1>8, <1>9 DEF ExtruderNext

LEMMA MeshIsMade == ExtruderSpec => []MeshInv
<1>1. ExtruderInit => MeshInv
  BY MeshStarts
<1>2. MeshInv /\ [ExtruderNext]_allvars => MeshInv'
  BY MeshSteps
<1> QED
  BY <1>1, <1>2, PTL DEF ExtruderSpec

-----------------------------------------------------------------------------
(* Counting what is among four.                                            *)
Has(S, x) == IF x \in S THEN 1 ELSE 0

LEMMA CountOneMore ==
  ASSUME NEW S, NEW T, NEW x, x \notin T, IsFiniteSet(S \cap T)
  PROVE  /\ IsFiniteSet(S \cap (T \cup {x}))
         /\ Cardinality(S \cap (T \cup {x})) = Cardinality(S \cap T) + Has(S, x)
<1>1. Cardinality(S \cap T) \in Nat
  BY FS_CardinalityType
<1>2. CASE x \in S
  <2> DEFINE R == S \cap T
             Q == S \cap (T \cup {x})
  <2>1. Q = R \cup {x} /\ x \notin R /\ IsFiniteSet(R) /\ Cardinality(R) \in Nat
    BY <1>1, <1>2
  <2> HIDE DEF R, Q
  <2>2. IsFiniteSet(R \cup {x}) /\ Cardinality(R \cup {x}) = Cardinality(R) + 1
    BY <2>1, FS_AddElement
  <2>3. IsFiniteSet(Q) /\ Cardinality(Q) = Cardinality(R) + Has(S, x)
    BY <1>2, <2>1, <2>2 DEF Has
  <2> QED
    BY <2>3 DEF R, Q
<1>3. CASE x \notin S
  <2> DEFINE R == S \cap T
             Q == S \cap (T \cup {x})
  <2>1. Q = R /\ IsFiniteSet(R) /\ Cardinality(R) \in Nat
    BY <1>1, <1>3
  <2> HIDE DEF R, Q
  <2>2. IsFiniteSet(Q) /\ Cardinality(Q) = Cardinality(R) + Has(S, x)
    BY <1>3, <2>1 DEF Has
  <2> QED
    BY <2>2 DEF R, Q
<1> QED
  BY <1>2, <1>3

LEMMA CountOfFour ==
  ASSUME NEW S, NEW a, NEW b, NEW c, NEW d, a # b, a # c, a # d, b # c, b # d, c # d, S \subseteq {a, b, c, d}
  PROVE  /\ IsFiniteSet(S)
         /\ Cardinality(S) = Has(S, a) + Has(S, b) + Has(S, c) + Has(S, d)
<1>1. S \cap {} = {} /\ IsFiniteSet(S \cap {}) /\ Cardinality(S \cap {}) = 0
  BY FS_EmptySet
<1>2. /\ IsFiniteSet(S \cap ({} \cup {a}))
      /\ Cardinality(S \cap ({} \cup {a})) = Has(S, a)
  <2>1. /\ IsFiniteSet(S \cap ({} \cup {a}))
        /\ Cardinality(S \cap ({} \cup {a})) = Cardinality(S \cap {}) + Has(S, a)
    BY <1>1, CountOneMore
  <2> QED
    BY <1>1, <2>1 DEF Has
<1>3. {} \cup {a} = {a} /\ {a} \cup {b} = {a, b} /\ {a, b} \cup {c} = {a, b, c} /\ {a, b, c} \cup {d} = {a, b, c, d}
  OBVIOUS
<1>4. IsFiniteSet(S \cap {a}) /\ Cardinality(S \cap {a}) = Has(S, a)
  BY <1>2, <1>3
<1>5. IsFiniteSet(S \cap ({a} \cup {b})) /\ Cardinality(S \cap ({a} \cup {b})) = Cardinality(S \cap {a}) + Has(S, b)
  <2>1. b \notin {a}
    OBVIOUS
  <2> QED
    BY <1>4, <2>1, CountOneMore
<1>6. IsFiniteSet(S \cap {a, b}) /\ Cardinality(S \cap {a, b}) = Has(S, a) + Has(S, b)
  BY <1>3, <1>4, <1>5
<1>7. IsFiniteSet(S \cap ({a, b} \cup {c})) /\ Cardinality(S \cap ({a, b} \cup {c})) = Cardinality(S \cap {a, b}) + Has(S, c)
  <2>1. c \notin {a, b}
    OBVIOUS
  <2> QED
    BY <1>6, <2>1, CountOneMore
<1>8. IsFiniteSet(S \cap {a, b, c}) /\ Cardinality(S \cap {a, b, c}) = Has(S, a) + Has(S, b) + Has(S, c)
  BY <1>3, <1>6, <1>7
<1>9. IsFiniteSet(S \cap ({a, b, c} \cup {d})) /\ Cardinality(S \cap ({a, b, c} \cup {d})) = Cardinality(S \cap {a, b, c}) + Has(S, d)
  <2>1. d \notin {a, b, c}
    OBVIOUS
  <2> QED
    BY <1>8, <2>1, CountOneMore
<1>10. S \cap ({a, b, c} \cup {d}) = S
  OBVIOUS
<1> QED
  BY <1>8, <1>9, <1>10

LEMMA CountOfTwo ==
  ASSUME NEW a, NEW b, a # b
  PROVE  Cardinality({a, b}) = 2
<1>1. IsFiniteSet({a}) /\ Cardinality({a}) = 1
  BY FS_Singleton
<1>2. Cardinality({a} \cup {b}) = 2
  <2> DEFINE R == {a}
  <2>1. b \notin R /\ IsFiniteSet(R) /\ Cardinality(R) = 1
    BY <1>1
  <2> HIDE DEF R
  <2>2. Cardinality(R \cup {b}) = Cardinality(R) + 1
    BY <2>1, FS_AddElement
  <2> QED
    BY <2>1, <2>2 DEF R
<1>3. {a} \cup {b} = {a, b}
  OBVIOUS
<1> QED
  BY <1>2, <1>3

(***************************************************************************)
(* The cells when the solids are made.                                     *)
(***************************************************************************)
Extruded == BuildingInv /\ MeshInv /\ phase = "extruded"

Out == Cells \ Inside
Part(p) == UNION {f \in FootprintFaces : PartId(f) = p}

LEMMA Ready ==
  ASSUME Extruded
  PROVE  /\ IsDivision(Faces, Cells) /\ IsArrangement /\ site \in Sites /\ IsSite(site)
         /\ \A f \in Faces : Joined(f)
         /\ \A f, g \in Faces : Touch(f, g) => InFootprint(f) \/ InFootprint(g)
         /\ \A f \in Faces : arrangement[f].is_footprint_hole <=> ~InFootprint(f) /\ f # Unbounded
         /\ Inside \subseteq Inner
         /\ PartsAreSeparate /\ PartsHang
         /\ \A f \in FootprintFaces : f \in Faces /\ InFootprint(f) /\ OnRoof(f) /\ PartId(f) # -1
         /\ ~InFootprint(Unbounded) /\ Unbounded \in Faces
<1>1. phase \in Late /\ phase \in Late \cup {"parts"} /\ phase \in Extruding /\ phase \notin {"footprint", "holes"}
  BY DEF Extruded, Late, Extruding
<1>2. PartitionInv /\ PieceInv /\ PartInv /\ LateInv /\ MeshInv
  BY DEF Extruded, BuildingInv
<1>3. IsDivision(Faces, Cells) /\ IsArrangement /\ site \in Sites /\ IsSite(site)
  BY <1>2, SitesAreRight DEF PartitionInv, IsArrangement, Order
<1>4. \A f \in Faces : Joined(f)
  BY <1>1, <1>2 DEF PieceInv, InPieces, Faces
<1>5. \A f \in FootprintFaces : f \in Faces /\ InFootprint(f) /\ OnRoof(f) /\ PartId(f) # -1
  <2>1. \A f \in FootprintFaces : f \in Faces /\ InFootprint(f) /\ arrangement[f].segid # 0
    BY <1>1, <1>2 DEF MeshInv, FootprintFaces
  <2>2. Unlabelled = {}
    BY <1>1, <1>2 DEF LateInv
  <2> QED
    BY <2>1, <2>2 DEF OnRoof, Unlabelled, PartId
<1>6. Inside \subseteq Inner
  <2>1. site.outer \subseteq Inner
    BY <1>3 DEF IsSite, Inner
  <2>2. CASE site.roofs = <<>>
    <3>1. FootprintFaces = {}
      BY <1>2, <1>5, <2>2 DEF PieceInv, Bare, OnRoof, Faces
    <3> QED
      BY <3>1 DEF Inside
  <2>3. CASE site.roofs # <<>>
    BY <1>1, <1>2, <2>1, <2>3 DEF LateInv
  <2> QED
    BY <2>2, <2>3
<1>7. Unbounded \in Faces /\ ~InFootprint(Unbounded)
  BY <1>3, FacesOfDivision DEF IsArrangement
<1> QED
  BY <1>1, <1>2, <1>3, <1>4, <1>5, <1>6, <1>7 DEF LateInv, PartInv

LEMMA CellsOfFaces ==
  ASSUME Extruded
  PROVE  /\ \A c \in Cells : /\ FaceAt(c) \in Faces /\ c \in FaceAt(c)
                             /\ c \in Inside <=> InFootprint(FaceAt(c))
                             /\ c \in Out <=> ~InFootprint(FaceAt(c))
         /\ \A c \in Out : \A d \in Beside[c] : d \in Out => FaceAt(c) = FaceAt(d)
         /\ \A c \in Inside : \A d \in Beside[c] : d \in Inside => PartId(FaceAt(c)) = PartId(FaceAt(d))
         /\ \A p : \A c \in Cells : c \in Part(p) <=> c \in Inside /\ PartId(FaceAt(c)) = p
         /\ Inside \subseteq Cells
<1>1. IsDivision(Faces, Cells)
  BY Ready
<1>2. ASSUME NEW c \in Cells
      PROVE  /\ FaceAt(c) \in Faces /\ c \in FaceAt(c)
             /\ c \in Inside <=> InFootprint(FaceAt(c))
             /\ c \in Out <=> ~InFootprint(FaceAt(c))
  <2>1. FaceAt(c) \in Faces /\ c \in FaceAt(c)
    BY <1>1, FacesOfDivision
  <2>2. c \in Inside <=> InFootprint(FaceAt(c))
    BY <1>1, <2>1, InsideFaces
  <2> QED
    BY <2>1, <2>2 DEF Out
<1>3. Inside \subseteq Cells
  BY <1>1, InsideIsOfCells
<1>4. \A c \in Cells : \A d \in Beside[c] : d \in Cells
  BY DEF Beside
<1>5. \A c \in Cells : \A d \in Beside[c] : FaceAt(c) # FaceAt(d) => Touch(FaceAt(c), FaceAt(d))
  BY <1>2, <1>4 DEF Touch
<1>6. \A c \in Out : \A d \in Beside[c] : d \in Out => FaceAt(c) = FaceAt(d)
  <2>1. \A c \in Out : c \in Cells
    BY DEF Out
  <2> QED
    BY <1>2, <1>5, <2>1, Ready
<1>7. \A c \in Inside : \A d \in Beside[c] : d \in Inside => PartId(FaceAt(c)) = PartId(FaceAt(d))
  BY <1>2, <1>3, <1>5, Ready DEF PartsAreSeparate, FootprintFaces
<1>8. ASSUME NEW p, NEW c \in Cells PROVE c \in Part(p) <=> c \in Inside /\ PartId(FaceAt(c)) = p
  <2>1. \A f \in Faces : c \in f => f = FaceAt(c)
    BY <1>1, <1>2, FacesOfDivision
  <2> QED
    BY <1>2, <2>1 DEF Part, FootprintFaces
<1> QED
  BY <1>2, <1>3, <1>6, <1>7, <1>8

(* Outside faces and parts are pieces of what is outside and inside.       *)
LEMMA OutsidePieces ==
  ASSUME Extruded, NEW G \in Faces, ~InFootprint(G)
  PROVE  IsPiece(G, Out) /\ Joined(G) /\ G # {} /\ G \subseteq Cells
<1>1. Joined(G) /\ G # {} /\ G \subseteq Cells
  BY Ready, FacesOfDivision
<1>2. \A c \in G : c \in Cells /\ FaceAt(c) = G
  BY Ready, FacesOfDivision
<1>3. \A c \in G : \A d \in Beside[c] : d \in Out => d \in G
  BY <1>2, CellsOfFaces DEF Out
<1> QED
  BY <1>1, <1>2, <1>3, CellsOfFaces DEF IsPiece

LEMMA PartPieces ==
  ASSUME Extruded, NEW p
  PROVE  IsPiece(Part(p), Cells \ Out) /\ Part(p) \subseteq Inside
<1>1. Cells \ Out = Inside
  BY CellsOfFaces DEF Out
<1>2. Part(p) \subseteq Inside
  BY DEF Part, Inside
<1>3. \A c \in Part(p) : \A d \in Beside[c] : d \in Inside => d \in Part(p)
  BY <1>2, CellsOfFaces
<1> QED
  BY <1>1, <1>2, <1>3 DEF IsPiece

LEMMA PartIsJoined ==
  ASSUME Extruded, NEW p
  PROVE  Joined(Part(p))
<1> SUFFICES ASSUME NEW T \in SUBSET Part(p), T # {}, \A c \in T : Beside[c] \cap Part(p) \subseteq T
             PROVE  T = Part(p)
  BY DEF Joined
<1>0. Part(p) \subseteq Inside /\ Inside \subseteq Cells
  BY PartPieces, CellsOfFaces
<1> DEFINE S == {f \in FootprintFaces : f \subseteq T}
<1>1. ASSUME NEW f \in FootprintFaces, f \cap T # {} PROVE f \subseteq T
  <2>1. Joined(f) /\ f \in Faces
    BY Ready
  <2>2. PICK c \in f : c \in T
    BY <1>1
  <2>3. PartId(f) = p
    <3>1. c \in Cells /\ PartId(FaceAt(c)) = p
      BY <1>0, <2>2, CellsOfFaces
    <3>2. FaceAt(c) = f
      BY <2>1, <2>2, Ready, FacesOfDivision
    <3> QED
      BY <3>1, <3>2
  <2>4. f \subseteq Part(p)
    BY <2>3 DEF Part
  <2>5. \A e \in f \cap T : Beside[e] \cap f \subseteq T
    BY <2>4
  <2> QED
    BY <1>1, <2>1, <2>5, TouchingFacesJoin
<1>2. IsClosedUnder(NextTo, FootprintFaces, S)
  <2> SUFFICES ASSUME NEW f \in S, NEW g \in FootprintFaces, g \in NextTo[f] PROVE g \in S
    BY DEF IsClosedUnder
  <2>1. Touch(f, g) /\ f \in FootprintFaces
    BY DEF NextTo, Neighbours
  <2>2. PICK c \in f : Beside[c] \cap g # {}
    BY <2>1 DEF Touch
  <2>3. PICK d \in g : d \in Beside[c]
    BY <2>2
  <2>4. c \in T
    BY <2>2
  <2>5. d \in Part(p)
    <3>1. PartId(f) = PartId(g)
      BY <2>1, Ready DEF PartsAreSeparate
    <3>2. PartId(f) = p
      BY <1>0, <2>1, <2>2, <2>4, CellsOfFaces, Ready, FacesOfDivision
    <3> QED
      BY <3>1, <3>2 DEF Part
  <2>6. d \in T
    BY <2>3, <2>4, <2>5
  <2> QED
    BY <1>1, <2>3, <2>6
<1>3. PICK t \in T : TRUE
  OBVIOUS
<1>4. t \in Cells /\ FaceAt(t) \in FootprintFaces /\ t \in FaceAt(t) /\ PartId(FaceAt(t)) = p
  BY <1>0, CellsOfFaces DEF FootprintFaces
<1>5. FaceAt(t) \in S
  BY <1>1, <1>4
<1>6. ASSUME NEW c \in Part(p) PROVE c \in T
  <2>1. c \in Cells /\ FaceAt(c) \in FootprintFaces /\ c \in FaceAt(c) /\ PartId(FaceAt(c)) = p
    BY <1>0, CellsOfFaces DEF FootprintFaces
  <2>2. Reaches(FaceAt(t), FaceAt(c))
    BY <1>4, <2>1, Ready DEF PartsHang
  <2>3. S \in SUBSET FootprintFaces
    OBVIOUS
  <2> HIDE DEF S
  <2>4. FaceAt(c) \in S
    BY <1>2, <1>5, <2>2, <2>3 DEF Reaches
  <2> USE DEF S
  <2> QED
    BY <2>1, <2>4
<1> QED
  BY <1>6

(***************************************************************************)
(* The sectors around a vertex of four edges.                              *)
(***************************************************************************)
LEMMA JunctionCounts ==
  /\ \A X : J!Cardinality(X) = Cardinality(X)
  /\ \A X : J!Max(X) = Max(X) /\ J!Min(X) = Min(X)
<1>1. \A X : J!Cardinality(X) = Cardinality(X)
  BY DEF J!Cardinality, Cardinality
<1>2. \A X : J!Max(X) = Max(X) /\ J!Min(X) = Min(X)
  BY DEF J!Max, J!Min, Max, Min
<1> QED
  BY <1>1, <1>2

LEMMA SectorsOfFour ==
  ASSUME NEW v \in Vertices,
         FaceAt(Cell1(v)) # FaceAt(Cell2(v)), FaceAt(Cell2(v)) # FaceAt(Cell3(v)),
         FaceAt(Cell3(v)) # FaceAt(Cell4(v)), FaceAt(Cell4(v)) # FaceAt(Cell1(v))
  PROVE  LET s == SectorsAt(v)
         IN /\ Len(s) = 4 /\ DOMAIN s = 1 .. 4
            /\ s[1] = Sector(v, Cell1(v)) /\ s[2] = Sector(v, Cell2(v))
            /\ s[3] = Sector(v, Cell3(v)) /\ s[4] = Sector(v, Cell4(v))
            /\ J!Previous(s, 1) = 4 /\ J!Previous(s, 2) = 1 /\ J!Previous(s, 3) = 2 /\ J!Previous(s, 4) = 3
<1> DEFINE around == <<Cell1(v), Cell2(v), Cell3(v), Cell4(v)>>
           s == [i \in 1 .. 4 |-> Sector(v, around[i])]
<1>1. /\ around[1] = Cell1(v) /\ around[2] = Cell2(v) /\ around[3] = Cell3(v) /\ around[4] = Cell4(v)
  OBVIOUS
<1>2. SectorsAt(v) = IF \E i \in 1 .. 4 : s[i].face = s[J!NextSector(s, i)].face THEN <<>> ELSE s
  BY DEF SectorsAt, Cell1, Cell2, Cell3, Cell4
<1> HIDE DEF around
<1>3. /\ DOMAIN s = 1 .. 4
      /\ s[1] = Sector(v, Cell1(v)) /\ s[2] = Sector(v, Cell2(v))
      /\ s[3] = Sector(v, Cell3(v)) /\ s[4] = Sector(v, Cell4(v))
  BY <1>1
<1>4. Len(s) = 4
  <2> DEFINE S == {s[i] : i \in 1 .. 4}
  <2>1. s \in [1 .. 4 -> S]
    OBVIOUS
  <2>2. s \in Seq(S)
    <3> HIDE DEF s, S
    <3> QED
      BY <2>1, SeqDef
  <2> HIDE DEF s
  <2>3. Len(s) \in Nat /\ DOMAIN s = 1 .. Len(s)
    BY <2>2, LenProperties
  <2> QED
    BY <1>3, <2>3
<1> HIDE DEF s
<1>5. J!NextSector(s, 1) = 2 /\ J!NextSector(s, 2) = 3 /\ J!NextSector(s, 3) = 4 /\ J!NextSector(s, 4) = 1
  BY <1>4 DEF J!NextSector
<1>6. \A c : Sector(v, c).face = FaceAt(c)
  BY DEF Sector
<1>7. SectorsAt(v) = s
  <2>1. \A i \in 1 .. 4 : i = 1 \/ i = 2 \/ i = 3 \/ i = 4
    OBVIOUS
  <2>2. ~\E i \in 1 .. 4 : s[i].face = s[J!NextSector(s, i)].face
    BY <1>3, <1>5, <1>6, <2>1
  <2> QED
    BY <1>2, <2>2
<1>8. J!Previous(s, 1) = 4 /\ J!Previous(s, 2) = 1 /\ J!Previous(s, 3) = 2 /\ J!Previous(s, 4) = 3
  BY <1>4 DEF J!Previous
<1> QED
  BY <1>3, <1>4, <1>7, <1>8

LEMMA KindsOfSectors ==
  ASSUME Extruded, NEW v \in Vertices, NEW c \in Cells
  PROVE  /\ Sector(v, c).kind = "outside" <=> c \in Out
         /\ Sector(v, c).kind = "roof" <=> c \in Inside
<1>1. c \in Inside <=> InFootprint(FaceAt(c))
  BY CellsOfFaces
<1>2. InFootprint(FaceAt(c)) => OnRoof(FaceAt(c))
  BY Ready, CellsOfFaces DEF FootprintFaces
<1>3. c \in Out <=> ~InFootprint(FaceAt(c))
  BY CellsOfFaces
<1>4. Sector(v, c).kind = IF ~InFootprint(FaceAt(c)) THEN "outside" ELSE IF OnRoof(FaceAt(c)) THEN "roof" ELSE "bare"
  <2> DEFINE f == FaceAt(c)
  <2>1. Sector(v, c).kind = CASE ~InFootprint(f) -> "outside" [] OnRoof(f) -> "roof" [] OTHER -> "bare"
    BY DEF Sector
  <2> HIDE DEF f
  <2>2. OnRoof(f) => InFootprint(f)
    BY DEF OnRoof
  <2> QED
    BY <2>1, <2>2 DEF f
<1> QED
  BY <1>1, <1>2, <1>3, <1>4

(* A snapped vertex has no two roofs across it, with terrain on both sides. *)
LEMMA NoDiagonalsOutside ==
  ASSUME Extruded
  PROVE  NoDiagonals(Out)
<1> SUFFICES ASSUME NEW v \in Vertices
             PROVE  /\ Cell1(v) \in Out /\ Cell3(v) \in Out => Cell2(v) \in Out \/ Cell4(v) \in Out
                    /\ Cell2(v) \in Out /\ Cell4(v) \in Out => Cell1(v) \in Out \/ Cell3(v) \in Out
  BY DEF NoDiagonals
<1> DEFINE s == SectorsAt(v)
<1>1. SnappedAt(v)
  BY DEF Extruded, MeshInv, Extruding
<1>2. ~J!IsProblematic(s, height_tolerance)
  BY <1>1 DEF SnappedAt
<1>3. Cell1(v) \in Cells /\ Cell2(v) \in Cells /\ Cell3(v) \in Cells /\ Cell4(v) \in Cells
  BY NextCells
<1>4. \A c, d \in Cells : c \in Out /\ d \notin Out => FaceAt(c) # FaceAt(d)
  BY CellsOfFaces
<1> HIDE DEF s
<1>5. ASSUME Len(s) = 4, DOMAIN s = 1 .. 4,
             J!Previous(s, 1) = 4, J!Previous(s, 2) = 1, J!Previous(s, 3) = 2, J!Previous(s, 4) = 3,
             J!Roofs(s) # {}, J!Outsides(s) = {1, 3} \/ J!Outsides(s) = {2, 4}
      PROVE  FALSE
  <2>1. CASE J!Outsides(s) = {1, 3}
    <3> DEFINE B == {i \in J!Outsides(s) : J!Previous(s, i) \notin J!Outsides(s)}
    <3>1. B = {1, 3} /\ 1 # 3
      BY <1>5, <2>1
    <3>2. J!Outsides(s) # DOMAIN s
      BY <1>5, <2>1
    <3>3. J!RunCount(s, J!Outsides(s)) = Cardinality(B)
      BY <3>2, JunctionCounts DEF J!RunCount
    <3> HIDE DEF B
    <3>4. Cardinality(B) = 2
      BY Zenon, <3>1, CountOfTwo
    <3> QED
      BY <1>2, <1>5, <3>3, <3>4 DEF J!IsProblematic, J!HasNonFootprintBridge
  <2>2. CASE J!Outsides(s) = {2, 4}
    <3> DEFINE B == {i \in J!Outsides(s) : J!Previous(s, i) \notin J!Outsides(s)}
    <3>1. B = {2, 4} /\ 2 # 4
      BY <1>5, <2>2
    <3>2. J!Outsides(s) # DOMAIN s
      BY <1>5, <2>2
    <3>3. J!RunCount(s, J!Outsides(s)) = Cardinality(B)
      BY <3>2, JunctionCounts DEF J!RunCount
    <3> HIDE DEF B
    <3>4. Cardinality(B) = 2
      BY Zenon, <3>1, CountOfTwo
    <3> QED
      BY <1>2, <1>5, <3>3, <3>4 DEF J!IsProblematic, J!HasNonFootprintBridge
  <2> QED
    BY <1>5, <2>1, <2>2
<1>6. ASSUME FaceAt(Cell1(v)) # FaceAt(Cell2(v)), FaceAt(Cell2(v)) # FaceAt(Cell3(v)),
             FaceAt(Cell3(v)) # FaceAt(Cell4(v)), FaceAt(Cell4(v)) # FaceAt(Cell1(v))
      PROVE  /\ Len(s) = 4 /\ DOMAIN s = 1 .. 4
             /\ J!Previous(s, 1) = 4 /\ J!Previous(s, 2) = 1 /\ J!Previous(s, 3) = 2 /\ J!Previous(s, 4) = 3
             /\ \A i \in DOMAIN s : i = 1 \/ i = 2 \/ i = 3 \/ i = 4
             /\ 1 \in J!Outsides(s) <=> Cell1(v) \in Out
             /\ 2 \in J!Outsides(s) <=> Cell2(v) \in Out
             /\ 3 \in J!Outsides(s) <=> Cell3(v) \in Out
             /\ 4 \in J!Outsides(s) <=> Cell4(v) \in Out
             /\ 1 \in J!Roofs(s) <=> Cell1(v) \in Inside
             /\ 2 \in J!Roofs(s) <=> Cell2(v) \in Inside
  <2>1. /\ Len(s) = 4 /\ DOMAIN s = 1 .. 4
        /\ s[1] = Sector(v, Cell1(v)) /\ s[2] = Sector(v, Cell2(v))
        /\ s[3] = Sector(v, Cell3(v)) /\ s[4] = Sector(v, Cell4(v))
        /\ J!Previous(s, 1) = 4 /\ J!Previous(s, 2) = 1 /\ J!Previous(s, 3) = 2 /\ J!Previous(s, 4) = 3
    BY <1>6, SectorsOfFour DEF s
  <2>2. \A i \in DOMAIN s : i = 1 \/ i = 2 \/ i = 3 \/ i = 4
    BY <2>1
  <2>3. 1 \in DOMAIN s /\ 2 \in DOMAIN s /\ 3 \in DOMAIN s /\ 4 \in DOMAIN s
    BY <2>1
  <2> QED
    BY <1>3, <2>1, <2>2, <2>3, KindsOfSectors DEF J!Outsides, J!Roofs
<1>7. ASSUME Cell1(v) \in Out, Cell3(v) \in Out, Cell2(v) \notin Out, Cell4(v) \notin Out PROVE FALSE
  <2>1. /\ FaceAt(Cell1(v)) # FaceAt(Cell2(v)) /\ FaceAt(Cell2(v)) # FaceAt(Cell3(v))
        /\ FaceAt(Cell3(v)) # FaceAt(Cell4(v)) /\ FaceAt(Cell4(v)) # FaceAt(Cell1(v))
    BY <1>3, <1>4, <1>7
  <2>2. J!Outsides(s) = {1, 3}
    <3>1. J!Outsides(s) \subseteq DOMAIN s
      BY DEF J!Outsides
    <3> QED
      BY <1>6, <1>7, <2>1, <3>1
  <2>3. J!Roofs(s) # {}
    BY <1>3, <1>6, <1>7, <2>1 DEF Out
  <2> QED
    BY <1>5, <1>6, <2>1, <2>2, <2>3
<1>8. ASSUME Cell2(v) \in Out, Cell4(v) \in Out, Cell1(v) \notin Out, Cell3(v) \notin Out PROVE FALSE
  <2>1. /\ FaceAt(Cell1(v)) # FaceAt(Cell2(v)) /\ FaceAt(Cell2(v)) # FaceAt(Cell3(v))
        /\ FaceAt(Cell3(v)) # FaceAt(Cell4(v)) /\ FaceAt(Cell4(v)) # FaceAt(Cell1(v))
    BY <1>3, <1>4, <1>8
  <2>2. J!Outsides(s) = {2, 4}
    <3>1. J!Outsides(s) \subseteq DOMAIN s
      BY DEF J!Outsides
    <3> QED
      BY <1>6, <1>8, <2>1, <3>1
  <2>3. J!Roofs(s) # {}
    BY <1>3, <1>6, <1>8, <2>1 DEF Out
  <2> QED
    BY <1>5, <1>6, <2>1, <2>2, <2>3
<1> QED
  BY <1>7, <1>8

-----------------------------------------------------------------------------
(***************************************************************************)
(* The floor of a part is bounded by all the sides between the part and    *)
(* what is outside of the building.                                        *)
(***************************************************************************)
(* Between an inner cell and one beside it there is a halfedge.            *)
LEMMA SideBetween ==
  ASSUME NEW c \in Inner, NEW d \in Beside[c]
  PROVE  \E e \in Halfedges : LeftOf[e] = d /\ RightOf[e] = c
<1> DEFINE x == c[1]  y == c[2]
           v == <<x, y>>
           w == <<x - 1, y - 1>>
<1>1. c = <<x, y>> /\ x \in 1 .. Width /\ y \in 1 .. Height
  BY DEF Inner
<1>2. c \in Cells
  BY <1>1, SiteAssumption DEF Cells
<1>3. d = <<d[1], d[2]>> /\ d[1] \in Int /\ d[2] \in Int
  BY <1>2 DEF Beside, Cells
<1>4. \/ d[1] = x /\ d[2] = y + 1
      \/ d[1] = x /\ d[2] = y - 1
      \/ d[1] = x + 1 /\ d[2] = y
      \/ d[1] = x - 1 /\ d[2] = y
  <2>1. (x = d[1] /\ y - d[2] \in {-1, 1}) \/ (y = d[2] /\ x - d[1] \in {-1, 1})
    BY <1>2 DEF Beside
  <2> HIDE DEF x, y
  <2> QED
    BY <1>1, <1>3, <2>1
<1>5. d = <<x, y + 1>> \/ d = <<x, y - 1>> \/ d = <<x + 1, y>> \/ d = <<x - 1, y>>
  BY <1>3, <1>4
<1> HIDE DEF x, y
<1>6. /\ v \in Vertices /\ w \in Vertices
      /\ Cell3(v) = <<x, y>> /\ Cell4(v) = <<x + 1, y>> /\ Cell2(v) = <<x, y + 1>>
      /\ Cell1(w) = <<x, y>> /\ Cell2(w) = <<x - 1, y>> /\ Cell4(w) = <<x, y - 1>>
  BY <1>1, SiteAssumption DEF Vertices, Cell1, Cell2, Cell3, Cell4
<1> HIDE DEF v, w
<1>7. /\ <<v, South(v)>> \in Halfedges /\ <<v, West(v)>> \in Halfedges
      /\ <<w, East(w)>> \in Halfedges /\ <<w, North(w)>> \in Halfedges
  BY <1>1, <1>6, EdgesOut
<1>8. CASE d = <<x + 1, y>>
  BY <1>1, <1>6, <1>7, <1>8, LeftCells, RightCells
<1>9. CASE d = <<x, y + 1>>
  <2>1. LeftOf[<<v, West(v)>>] = c /\ RightOf[<<v, West(v)>>] = d
    BY <1>1, <1>6, <1>7, <1>9, LeftCells, RightCells
  <2> QED
    BY <1>7, <2>1, HalfedgesOut, RightCells
<1>10. CASE d = <<x - 1, y>>
  BY <1>1, <1>6, <1>7, <1>10, LeftCells, RightCells
<1>11. CASE d = <<x, y - 1>>
  <2>1. LeftOf[<<w, East(w)>>] = c /\ RightOf[<<w, East(w)>>] = d
    BY <1>1, <1>6, <1>7, <1>11, LeftCells, RightCells
  <2> QED
    BY <1>7, <2>1, HalfedgesOut, RightCells
<1> QED
  BY <1>5, <1>8, <1>9, <1>10, <1>11

(* The grid is in one piece. *)
LEMMA GridIsJoined ==
  ASSUME NEW K \in SUBSET Cells, K # {}, \A c \in K : Beside[c] \subseteq K
  PROVE  <<0, 0>> \in K
<1>1. \A c \in K : c = <<c[1], c[2]>> /\ c[1] \in 0 .. Width + 1 /\ c[2] \in 0 .. Height + 1
  BY DEF Cells
<1> DEFINE T == {c[1] + c[2] : c \in K}
<1>2. T \subseteq Nat
  BY <1>1, SiteAssumption
<1>3. T # {}
  OBVIOUS
<1>6. PICK n \in T : \A k \in T : n <= k
  BY <1>2, <1>3, LeastNumber
<1>7. PICK b \in K : b[1] + b[2] = n
  OBVIOUS
<1>8. \A d \in K : ~(d[1] + d[2] < n)
  <2> SUFFICES ASSUME NEW d \in K, d[1] + d[2] < n PROVE FALSE
    OBVIOUS
  <2> DEFINE m == d[1] + d[2]
  <2>1. m \in T /\ m < n
    OBVIOUS
  <2> HIDE DEF T, m
  <2>2. m \in Nat /\ n \in Nat /\ n <= m
    BY <1>2, <1>6, <2>1
  <2> QED
    BY <2>1, <2>2
<1> HIDE DEF T
<1> DEFINE x == b[1]  y == b[2]
<1>9. b = <<x, y>> /\ x \in 0 .. Width + 1 /\ y \in 0 .. Height + 1 /\ x + y = n
  BY <1>1, <1>7
<1>10. b \in Cells
  BY <1>7
<1> HIDE DEF x, y
<1>11. ASSUME x > 0 PROVE FALSE
  <2> DEFINE d == <<x - 1, y>>
  <2>1. d \in Cells
    BY <1>9, <1>11, SiteAssumption DEF Cells
  <2>2. d \in Beside[b]
    <3>1. b[2] = d[2] /\ b[1] - d[1] \in {-1, 1}
      BY <1>9
    <3> QED
      BY <1>10, <2>1, <3>1 DEF Beside
  <2>3. d[1] + d[2] < n
    BY <1>9, SiteAssumption
  <2> QED
    BY <1>7, <1>8, <2>2, <2>3
<1>12. ASSUME y > 0 PROVE FALSE
  <2> DEFINE d == <<x, y - 1>>
  <2>1. d \in Cells
    BY <1>9, <1>12, SiteAssumption DEF Cells
  <2>2. d \in Beside[b]
    <3>1. b[1] = d[1] /\ b[2] - d[2] \in {-1, 1}
      BY <1>9
    <3> QED
      BY <1>10, <2>1, <3>1 DEF Beside
  <2>3. d[1] + d[2] < n
    BY <1>9, SiteAssumption
  <2> QED
    BY <1>7, <1>8, <2>2, <2>3
<1>13. x = 0 /\ y = 0
  BY <1>9, <1>11, <1>12, SiteAssumption
<1> QED
  BY <1>7, <1>9, <1>13

(* Cells around are beside or not, and joined cells that meet a set that   *)
(* is closed under Around lie in it.                                       *)
LEMMA BesideIsAround ==
  \A c \in Cells : \A d \in Beside[c] : d \in Cells /\ d \in Around[c]
<1> SUFFICES ASSUME NEW c \in Cells, NEW d \in Beside[c] PROVE d \in Cells /\ d \in Around[c]
  OBVIOUS
<1>1. d \in Cells /\ ((c[1] = d[1] /\ c[2] - d[2] \in {-1, 1}) \/ (c[2] = d[2] /\ c[1] - d[1] \in {-1, 1}))
  BY DEF Beside
<1>2. /\ c = <<c[1], c[2]>> /\ c[1] \in Int /\ c[2] \in Int
      /\ d = <<d[1], d[2]>> /\ d[1] \in Int /\ d[2] \in Int
  BY <1>1 DEF Cells
<1>3. c[1] - d[1] \in -1 .. 1 /\ c[2] - d[2] \in -1 .. 1 /\ ~(c[1] = d[1] /\ c[2] = d[2])
  BY <1>1, <1>2
<1> QED
  BY <1>1, <1>3 DEF Around

LEMMA JoinedLiesIn ==
  ASSUME NEW A, A \subseteq Cells, Joined(A), NEW all, A \subseteq all, NEW K, A \cap K # {},
         IsClosedUnder(Around, all, K)
  PROVE  A \subseteq K
<1> DEFINE T == A \cap K
<1>1. \A c \in T : Beside[c] \cap A \subseteq T
  BY BesideIsAround DEF IsClosedUnder
<1>2. T = A
  BY <1>1 DEF Joined
<1> QED
  BY <1>2

(* The outlines, the holes and what is around them.                        *)
LEMMA OutlinePieces ==
  ASSUME Extruded, NEW k \in Components(Around, Cells \ Unbounded)
  PROVE  /\ k # {} /\ k \subseteq Cells \ Unbounded /\ Linked(k)
         /\ IsClosedUnder(Around, Cells \ Unbounded, k)
         /\ Between(Unbounded, k) # {}
<1> DEFINE all == Cells \ Unbounded
<1>1. IsFiniteSet(all)
  BY CellsAreFinite, FS_Subset
<1>2. IsSymmetric(Around, all)
  BY AroundIsMutual DEF IsSymmetric
<1> HIDE DEF all
<1>3. /\ IsDivision(Components(Around, all), all)
      /\ \A p \in Components(Around, all) :
           /\ p \subseteq all
           /\ IsClosedUnder(Around, all, p)
           /\ \A S : IsClosedUnder(Around, all, S) /\ p \cap S # {} => p \subseteq S
  BY <1>1, <1>2, ComponentsAreClosed
<1>4. k \in Components(Around, all)
  BY DEF all
<1>5. /\ k # {} /\ k \subseteq all /\ IsClosedUnder(Around, all, k)
      /\ \A S : IsClosedUnder(Around, all, S) /\ k \cap S # {} => k \subseteq S
  BY <1>3, <1>4 DEF IsDivision
<1>6. Linked(k)
  <2> SUFFICES ASSUME NEW T \in SUBSET k, T # {}, \A c \in T : Around[c] \cap k \subseteq T PROVE T = k
    BY DEF Linked
  <2>1. IsClosedUnder(Around, all, T)
    BY <1>5 DEF IsClosedUnder
  <2> QED
    BY <1>5, <2>1
<1>7. Between(Unbounded, k) # {}
  <2> SUFFICES ASSUME Between(Unbounded, k) = {} PROVE FALSE
    OBVIOUS
  <2>0. k \subseteq Cells /\ k \cap Unbounded = {}
    BY <1>5 DEF all
  <2>1. ASSUME NEW c \in k, NEW d \in Beside[c], d \notin k PROVE FALSE
    <3>1. c \in Cells /\ d \in Cells /\ d \in Around[c] /\ c \notin Unbounded
      BY <2>0, <2>1, BesideIsAround
    <3>2. d \in Unbounded
      BY <1>5, <2>1, <3>1 DEF IsClosedUnder, all
    <3>3. FaceAt(d) = Unbounded /\ d \in Out
      BY <3>1, <3>2, Ready, FacesOfDivision, CellsOfFaces
    <3>4. c \in Beside[d]
      BY <2>1, <3>1, BesideIsMutual
    <3>5. c \in Inside
      <4>1. c \in Out => FaceAt(c) = Unbounded
        BY <3>3, <3>4, CellsOfFaces
      <4> QED
        BY <3>1, <4>1, CellsOfFaces DEF Out
    <3>6. c \in Inner
      BY <3>5, Ready
    <3>7. PICK e \in Halfedges : LeftOf[e] = d /\ RightOf[e] = c
      BY <2>1, <3>6, SideBetween
    <3> QED
      BY <2>1, <3>2, <3>7 DEF Between
  <2>2. <<0, 0>> \in k
    <3>1. k \in SUBSET Cells /\ \A c \in k : Beside[c] \subseteq k
      BY <2>0, <2>1
    <3> QED
      BY <1>5, <3>1, GridIsJoined
  <2>3. <<0, 0>> \in Unbounded
    BY Ready, FacesOfDivision
  <2> QED
    BY <2>0, <2>2, <2>3
<1> QED
  BY <1>5, <1>6, <1>7 DEF all

LEMMA SurroundingPieces ==
  ASSUME Extruded, NEW g \in Faces, g # Unbounded
  PROVE  /\ Surroundings(g) \subseteq Cells \ g /\ Linked(Surroundings(g))
         /\ IsClosedUnder(Around, Cells \ g, Surroundings(g))
         /\ Unbounded \subseteq Surroundings(g)
<1> DEFINE all == Cells \ g
           S == Surroundings(g)
<1>1. IsFiniteSet(all)
  BY CellsAreFinite, FS_Subset
<1>2. IsSymmetric(Around, all)
  BY AroundIsMutual DEF IsSymmetric
<1>3. <<0, 0>> \in Unbounded /\ Unbounded \in Faces /\ Unbounded \subseteq Cells /\ Unbounded \cap g = {}
  BY Ready, FacesOfDivision
<1>4. <<0, 0>> \in all /\ Unbounded \subseteq all
  BY <1>3
<1>5. S = Flood(Around, all, {<<0, 0>>})
  BY DEF Surroundings
<1> HIDE DEF all, S
<1>6. {<<0, 0>>} \subseteq S /\ S \subseteq all /\ IsClosedUnder(Around, all, S)
  <2>1. {<<0, 0>>} \subseteq all
    BY <1>4
  <2> QED
    BY <1>1, <1>5, <2>1, FloodIsClosed
<1>7. Linked(S)
  <2>1. Hangs(Around, S)
    BY <1>1, <1>2, <1>4, <1>5, FloodHangs
  <2> QED
    BY <2>1 DEF Linked, Hangs
<1>8. Unbounded \subseteq S
  <2>1. Joined(Unbounded) /\ Unbounded \cap S # {}
    BY <1>3, <1>6, Ready
  <2> QED
    BY <1>3, <1>4, <1>6, <2>1, JoinedLiesIn
<1> QED
  BY <1>6, <1>7, <1>8 DEF all, S

(* Along an outer boundary of an outside face there is one part.           *)
LEMMA OnePartAlong ==
  ASSUME Extruded, NEW g \in Faces, ~InFootprint(g),
         NEW S, S \subseteq Cells, S \cap g = {}, Linked(S),
         NEW d \in Between(g, S), NEW e \in Between(g, S)
  PROVE  /\ RightOf[d] \in Inside /\ RightOf[e] \in Inside
         /\ PartId(FaceAt(RightOf[e])) = PartId(FaceAt(RightOf[d]))
<1>1. IsPiece(g, Out) /\ Joined(g) /\ g \subseteq Cells
  BY OutsidePieces
<1>2. \A c \in g : c \in Cells /\ FaceAt(c) = g /\ c \in Out
  BY <1>1, Ready, FacesOfDivision DEF IsPiece
<1>3. ASSUME NEW x \in Between(g, S)
      PROVE  /\ x \in Halfedges /\ LeftOf[x] \in g /\ RightOf[x] \in S /\ RightOf[x] \in Beside[LeftOf[x]]
             /\ RightOf[x] \in Inside /\ RightOf[x] \notin Out
  <2>1. /\ x \in Halfedges /\ LeftOf[x] \in g /\ RightOf[x] \in S /\ RightOf[x] \in Beside[LeftOf[x]]
        /\ RightOf[x] \in Cells
    BY SidesOfEdges DEF Between
  <2>2. RightOf[x] \in Out => RightOf[x] \in g
    BY <1>1, <2>1 DEF IsPiece
  <2>3. RightOf[x] \notin Out
    BY <2>1, <2>2
  <2> QED
    BY <2>1, <2>3 DEF Out
<1> DEFINE p == PartId(FaceAt(RightOf[d]))
<1>4. RightOf[d] \in Part(p)
  BY <1>3, CellsOfFaces
<1> HIDE DEF p
<1>5. IsPiece(Part(p), Cells \ Out)
  BY PartPieces
<1>6. RightOf[e] \in Part(p)
  <2>1. Out \in SUBSET Cells /\ NoDiagonals(Out) /\ S \in SUBSET Cells
    BY NoDiagonalsOutside DEF Out
  <2> DEFINE a == RightOf[d]  h == LeftOf[d]  b == RightOf[e]  k == LeftOf[e]
  <2>2. a \in S /\ a \in Part(p) /\ h \in g /\ a \in Beside[h] /\ b \in S /\ b \notin Out /\ k \in g /\ b \in Beside[k]
    BY <1>3, <1>4
  <2> HIDE DEF a, h, b, k
  <2>3. b \in Part(p)
    BY <1>1, <1>5, <2>1, <2>2, OnePieceAround
  <2> QED
    BY <2>3 DEF b
<1>7. PartId(FaceAt(RightOf[e])) = p
  BY <1>3, <1>6, CellsOfFaces
<1> QED
  BY <1>3, <1>7 DEF p

(* The ring between an outside face and what lies around it on one side    *)
(* has all the sides between the face and the part it is made for.         *)
LEMMA RingOfPart ==
  ASSUME Extruded, NEW g \in Faces, ~InFootprint(g),
         NEW S, S \subseteq Cells \ g, Linked(S),
         NEW p, Part(p) \subseteq S, Between(g, S) # {}, PartAlong(Between(g, S)) = p
  PROVE  Between(g, S) = Between(g, Part(p))
<1> DEFINE o == Between(g, S)
           d == CHOOSE e \in o : TRUE
<1>1. d \in o
  OBVIOUS
<1>2. PartId(FaceAt(RightOf[d])) = p
  BY DEF PartAlong, PartId
<1> HIDE DEF d
<1>3. ASSUME NEW e \in o PROVE RightOf[e] \in Part(p)
  <2>1. RightOf[e] \in Inside /\ PartId(FaceAt(RightOf[e])) = p
    BY <1>1, <1>2, OnePartAlong
  <2> QED
    BY <2>1, CellsOfFaces
<1>4. \A e \in Between(g, Part(p)) : e \in o
  BY DEF Between
<1>5. \A e \in o : e \in Between(g, Part(p))
  BY <1>3 DEF Between
<1> QED
  BY <1>4, <1>5

LEMMA OutlineOfPart ==
  ASSUME Extruded, NEW p \in DOMAIN Floors
  PROVE  /\ Floors[p] = {Polygon("floor", Level(Between(Unbounded, Part(p)), site.ground))}
         /\ Between(Unbounded, Part(p)) # {}
<1> DEFINE o == CHOOSE x \in Outlines : PartAlong(x) = p
<1>1. o \in Outlines /\ PartAlong(o) = p
  BY DEF Floors
<1>2. Floors[p] = {Polygon("floor", Level(o, site.ground))}
  BY DEF Floors, FloorOf
<1> HIDE DEF o
<1>3. PICK k \in Components(Around, Cells \ Unbounded) : o = Between(Unbounded, k)
  BY <1>1 DEF Outlines
<1>4. /\ k # {} /\ k \subseteq Cells \ Unbounded /\ Linked(k)
      /\ IsClosedUnder(Around, Cells \ Unbounded, k)
      /\ Between(Unbounded, k) # {}
  BY OutlinePieces
<1>5. Unbounded \in Faces /\ ~InFootprint(Unbounded)
  BY Ready
<1> DEFINE d == CHOOSE e \in o : TRUE
<1>6. d \in o
  BY <1>3, <1>4
<1>7. PartId(FaceAt(RightOf[d])) = p
  BY <1>1 DEF PartAlong, PartId
<1> HIDE DEF d
<1>8. RightOf[d] \in Part(p) /\ RightOf[d] \in k
  <2>1. RightOf[d] \in Inside /\ RightOf[d] \in k /\ RightOf[d] \in Cells
    <3>1. k \subseteq Cells /\ k \cap Unbounded = {} /\ d \in Between(Unbounded, k)
      BY <1>3, <1>4, <1>6
    <3>2. RightOf[d] \in Inside
      BY <1>4, <1>5, <3>1, OnePartAlong
    <3> QED
      BY <3>1, <3>2 DEF Between
  <2> QED
    BY <1>7, <2>1, CellsOfFaces
<1>9. Part(p) \subseteq Cells \ Unbounded
  <2>1. \A c \in Unbounded : c \notin Inside
    BY <1>5, Ready, InsideFaces
  <2> QED
    BY <2>1, PartPieces, CellsOfFaces
<1>10. Part(p) \subseteq k
  <2>1. Joined(Part(p)) /\ Part(p) \subseteq Cells
    BY <1>9, PartIsJoined
  <2> DEFINE A == Part(p)  all == Cells \ Unbounded
  <2>2. A \subseteq Cells /\ Joined(A) /\ A \subseteq all /\ A \cap k # {} /\ IsClosedUnder(Around, all, k)
    BY <1>4, <1>8, <1>9, <2>1
  <2> HIDE DEF A, all
  <2>3. A \subseteq k
    BY <2>2, JoinedLiesIn
  <2> QED
    BY <2>3 DEF A
<1>11. o = Between(Unbounded, Part(p))
  BY <1>1, <1>3, <1>4, <1>5, <1>10, RingOfPart
<1> QED
  BY <1>2, <1>3, <1>4, <1>11

LEMMA RingsOfPart ==
  ASSUME Extruded, NEW p \in DOMAIN Floors
  PROVE  RingsOf(p) = Level(Between(Out \ Unbounded, Part(p)), site.ground)
<1> DEFINE Hole == {g \in Faces : ~InFootprint(g) /\ g # Unbounded}
           E == Between(Out \ Unbounded, Part(p))
<1>1. HoleRings = {Between(g, Surroundings(g)) : g \in Hole}
  BY Ready DEF HoleRings
<1>2. PICK d \in Between(Unbounded, Part(p)) : TRUE
  BY OutlineOfPart
<1>3. /\ LeftOf[d] \in Unbounded /\ RightOf[d] \in Part(p) /\ RightOf[d] \in Beside[LeftOf[d]] /\ LeftOf[d] \in Cells
  BY SidesOfEdges DEF Between
<1>4. ASSUME NEW g \in Hole PROVE Part(p) \subseteq Surroundings(g)
  <2> DEFINE S == Surroundings(g)  A == Part(p)  all == Cells \ g
  <2>1. S \subseteq all /\ IsClosedUnder(Around, all, S) /\ Unbounded \subseteq S
    BY SurroundingPieces
  <2>2. \A c \in g : c \notin Inside
    BY Ready, InsideFaces
  <2>3. A \subseteq all /\ A \subseteq Cells
    BY <2>2, PartPieces, CellsOfFaces
  <2>4. Joined(A)
    BY PartIsJoined
  <2>5. RightOf[d] \in Around[LeftOf[d]]
    BY <1>3, BesideIsAround
  <2> HIDE DEF S
  <2>6. RightOf[d] \in S
    BY <1>3, <2>1, <2>3, <2>5 DEF IsClosedUnder
  <2>7. A \cap S # {}
    BY <1>3, <2>6
  <2> HIDE DEF A, all
  <2>8. A \subseteq S
    BY <2>1, <2>3, <2>4, <2>7, JoinedLiesIn
  <2> QED
    BY <2>8 DEF A, S
<1>5. ASSUME NEW g \in Hole, Between(g, Surroundings(g)) # {}, PartAlong(Between(g, Surroundings(g))) = p
      PROVE  Between(g, Surroundings(g)) = Between(g, Part(p))
  <2>1. Surroundings(g) \subseteq Cells \ g /\ Linked(Surroundings(g)) /\ Part(p) \subseteq Surroundings(g)
    BY <1>4, SurroundingPieces
  <2> QED
    BY <1>5, <2>1, RingOfPart
<1>6. ASSUME NEW g \in Hole, NEW e \in Between(g, Part(p))
      PROVE  e \in Between(g, Surroundings(g)) /\ PartAlong(Between(g, Surroundings(g))) = p
  <2> DEFINE S == Surroundings(g)
             o == Between(g, S)
             x == CHOOSE y \in o : TRUE
  <2>1. S \subseteq Cells \ g /\ Linked(S) /\ Part(p) \subseteq S
    BY <1>4, SurroundingPieces
  <2>2. e \in o
    BY <2>1 DEF Between
  <2>3. x \in o
    BY <2>2
  <2>4. PartAlong(o) = PartId(FaceAt(RightOf[x]))
    BY DEF PartAlong, PartId
  <2> HIDE DEF x
  <2>5. S \subseteq Cells /\ S \cap g = {}
    BY <2>1
  <2> HIDE DEF S
  <2>6. PartId(FaceAt(RightOf[x])) = PartId(FaceAt(RightOf[e]))
    BY <2>1, <2>2, <2>3, <2>5, OnePartAlong
  <2>7. RightOf[e] \in Part(p) /\ RightOf[e] \in Cells
    BY SidesOfEdges DEF Between
  <2>8. PartId(FaceAt(RightOf[e])) = p
    BY <2>7, CellsOfFaces
  <2> QED
    BY <2>2, <2>4, <2>6, <2>8 DEF S
<1>7. \A g \in Hole : g \subseteq Out \ Unbounded
  <2>1. \A g \in Hole : \A c \in g : c \in Cells /\ c \notin Inside /\ c \notin Unbounded
    BY Ready, FacesOfDivision, InsideFaces
  <2> QED
    BY <2>1 DEF Out
<1>8. \A c \in Out \ Unbounded : FaceAt(c) \in Hole /\ c \in FaceAt(c)
  <2>1. \A c \in Out : c \in Cells
    BY DEF Out
  <2> QED
    BY <2>1, CellsOfFaces
<1> HIDE DEF Hole
<1>9. UNION {o \in HoleRings : PartAlong(o) = p} = E
  <2> DEFINE U == UNION {o \in HoleRings : PartAlong(o) = p}
  <2>1. ASSUME NEW e \in U PROVE e \in E
    <3>1. PICK g \in Hole : /\ e \in Between(g, Surroundings(g)) /\ PartAlong(Between(g, Surroundings(g))) = p
      BY <1>1
    <3>2. e \in Between(g, Part(p))
      BY <1>5, <3>1
    <3> QED
      BY <1>7, <3>2 DEF Between
  <2>2. ASSUME NEW e \in E PROVE e \in U
    <3>1. LeftOf[e] \in Out \ Unbounded /\ e \in Halfedges /\ RightOf[e] \in Part(p)
      BY DEF Between
    <3> DEFINE g == FaceAt(LeftOf[e])
    <3>2. g \in Hole /\ e \in Between(g, Part(p))
      BY <1>8, <3>1 DEF Between
    <3> HIDE DEF g
    <3>3. e \in Between(g, Surroundings(g)) /\ PartAlong(Between(g, Surroundings(g))) = p
      BY <1>6, <3>2
    <3>4. Between(g, Surroundings(g)) \in {o \in HoleRings : PartAlong(o) = p}
      BY <1>1, <3>2, <3>3
    <3> QED
      BY <3>3, <3>4
  <2> QED
    BY <2>1, <2>2
<1> HIDE DEF E
<1>10. RingsOf(p) = Level(UNION {o \in HoleRings : PartAlong(o) = p}, site.ground)
  BY DEF RingsOf, Level
<1> QED
  BY <1>9, <1>10 DEF E

FloorSides(p) == Between(Out, Part(p))

LEMMA FloorOfPart ==
  ASSUME Extruded, NEW p \in DOMAIN Floors
  PROVE  FloorsWithRings[p] = {Polygon("floor", Level(FloorSides(p), site.ground))}
<1> DEFINE o == Between(Unbounded, Part(p))
           r == Between(Out \ Unbounded, Part(p))
<1>1. Floors[p] = {Polygon("floor", Level(o, site.ground))}
  BY OutlineOfPart
<1>2. FloorsWithRings[p] = {Polygon("floor", floor.sides \cup RingsOf(p)) : floor \in Floors[p]}
  BY DEF FloorsWithRings
<1>3. Polygon("floor", Level(o, site.ground)).sides = Level(o, site.ground)
  BY DEF Polygon
<1>4. RingsOf(p) = Level(r, site.ground)
  BY RingsOfPart
<1>5. Unbounded \subseteq Out
  <2>1. \A c \in Unbounded : c \in Cells /\ c \notin Inside
    BY Ready, FacesOfDivision, InsideFaces
  <2> QED
    BY <2>1 DEF Out
<1>6. FloorSides(p) = o \cup r
  BY <1>5 DEF FloorSides, Between
<1> HIDE DEF o, r
<1>7. Level(o, site.ground) \cup Level(r, site.ground) = Level(o \cup r, site.ground)
  BY DEF Level
<1> QED
  BY <1>1, <1>2, <1>3, <1>4, <1>6, <1>7

-----------------------------------------------------------------------------
(***************************************************************************)
(* The heights at a vertex, and what levelling leaves of them.             *)
(***************************************************************************)
LowerThan(H, h) == {k \in H : k < h}
OnLevels(H, D, t, g) ==
  [h \in D |-> IF LowerThan(H, h) = {} \/ h - g[Max(LowerThan(H, h))] >= t THEN h ELSE g[Max(LowerThan(H, h))]]

LEMMA MaxBelow ==
  ASSUME NEW H, IsFiniteSet(H), H \subseteq Int, NEW h \in H, LowerThan(H, h) # {}
  PROVE  Max(LowerThan(H, h)) \in H /\ Max(LowerThan(H, h)) < h /\ \A k \in H : k < h => k <= Max(LowerThan(H, h))
<1>1. IsFiniteSet(LowerThan(H, h)) /\ LowerThan(H, h) \subseteq Int
  BY FS_Subset DEF LowerThan
<1>2. Max(LowerThan(H, h)) \in LowerThan(H, h) /\ \A x \in LowerThan(H, h) : x <= Max(LowerThan(H, h))
  BY <1>1, MaxIsGreatest
<1> QED
  BY <1>2 DEF LowerThan

LEMMA LevelsExist ==
  ASSUME NEW H, IsFiniteSet(H), H \subseteq Int, NEW t
  PROVE  \E g : g = OnLevels(H, H, t, g)
<1> DEFINE Bad == {D \in SUBSET H : /\ \A h \in D : LowerThan(H, h) \subseteq D
                                    /\ ~\E g : g = OnLevels(H, D, t, g)}
<1> SUFFICES ASSUME Bad # {} PROVE FALSE
  BY DEF LowerThan
<1>1. Bad \subseteq SUBSET H
  OBVIOUS
<1>2. PICK D \in Bad : \A B \in Bad : B \subseteq D => B = D
  <2> DEFINE K == H
  <2>1. Bad \subseteq SUBSET K /\ Bad # {} /\ IsFiniteSet(K)
    BY <1>1
  <2> HIDE DEF Bad, K
  <2> QED
    BY <2>1, MinimalSubset
<1>3. D \subseteq H /\ (\A h \in D : LowerThan(H, h) \subseteq D) /\ ~\E g : g = OnLevels(H, D, t, g)
  OBVIOUS
<1>4. D # {}
  <2> SUFFICES ASSUME D = {} PROVE FALSE
    OBVIOUS
  <2> DEFINE e == [h \in {} |-> h]
  <2>1. e = OnLevels(H, D, t, e)
    BY DEF OnLevels
  <2> QED
    BY <1>3, <2>1
<1>5. IsFiniteSet(D) /\ D \subseteq Int
  BY <1>3, FS_Subset
<1> DEFINE m == Max(D)
<1>6. m \in D /\ \A x \in D : x <= m
  BY <1>4, <1>5, MaxIsGreatest
<1> HIDE DEF m
<1> DEFINE R == D \ {m}
<1>7. \A h \in R : LowerThan(H, h) \subseteq R
  <2> SUFFICES ASSUME NEW h \in R, NEW k \in LowerThan(H, h) PROVE k \in R
    OBVIOUS
  <2>1. k \in D /\ k < h
    BY <1>3 DEF LowerThan
  <2>2. h <= m /\ h \in Int /\ k \in Int /\ m \in Int
    BY <1>5, <1>6, <2>1
  <2> QED
    BY <2>1, <2>2
<1>8. PICK g : g = OnLevels(H, R, t, g)
  <2>1. R \notin Bad
    BY <1>2, <1>6
  <2>2. R \in SUBSET H
    BY <1>3
  <2> QED
    BY <1>7, <2>1, <2>2
<1> DEFINE f == [h \in D |-> IF h = m THEN OnLevels(H, {m}, t, g)[m] ELSE g[h]]
<1>9. \A h \in D : LowerThan(H, h) # {} => Max(LowerThan(H, h)) \in R
  <2> SUFFICES ASSUME NEW h \in D, LowerThan(H, h) # {} PROVE Max(LowerThan(H, h)) \in R
    OBVIOUS
  <2> DEFINE k == Max(LowerThan(H, h))
  <2>1. k \in H /\ k < h
    BY <1>3, MaxBelow
  <2> HIDE DEF k
  <2>2. k \in D /\ k \in Int /\ h \in Int /\ m \in Int /\ h <= m
    BY <1>3, <1>5, <1>6, <2>1 DEF LowerThan
  <2>3. k # m
    BY <2>1, <2>2
  <2> QED
    BY <2>2, <2>3 DEF k
<1>10. ASSUME NEW h \in D PROVE f[h] = OnLevels(H, D, t, f)[h]
  <2>1. LowerThan(H, h) # {} => f[Max(LowerThan(H, h))] = g[Max(LowerThan(H, h))]
    BY <1>9
  <2>2. f[h] = OnLevels(H, {h}, t, g)[h]
    <3>1. CASE h = m
      BY <3>1
    <3>2. CASE h # m
      <4>1. g[h] = OnLevels(H, R, t, g)[h] /\ h \in R
        BY <1>8, <3>2
      <4>2. f[h] = g[h]
        BY <3>2
      <4> HIDE DEF f, R
      <4> QED
        BY <4>1, <4>2 DEF OnLevels
    <3> QED
      BY <3>1, <3>2
  <2> HIDE DEF f
  <2> QED
    BY <2>1, <2>2 DEF OnLevels
<1>11. f = OnLevels(H, D, t, f)
  <2>1. f = [h \in D |-> f[h]]
    OBVIOUS
  <2>2. OnLevels(H, D, t, f) = [h \in D |-> OnLevels(H, D, t, f)[h]]
    BY DEF OnLevels
  <2> HIDE DEF f
  <2> QED
    BY <1>10, <2>1, <2>2
<1> QED
  BY <1>3, <1>11

LEMMA LevelledIs ==
  ASSUME NEW H, IsFiniteSet(H), H \subseteq Int, NEW t
  PROVE  J!Levelled(H, t) = OnLevels(H, H, t, J!Levelled(H, t))
<1> DEFINE l == CHOOSE g : g = OnLevels(H, H, t, g)
<1>1. J!Levelled(H, t) = l
  BY JunctionCounts DEF J!Levelled, OnLevels, LowerThan
<1>2. l = OnLevels(H, H, t, l)
  BY LevelsExist
<1> QED
  BY <1>1, <1>2

(* A height is levelled to one that is not above it.                       *)
LEMMA LevelsAreBelow ==
  ASSUME NEW H, IsFiniteSet(H), H \subseteq Int, NEW t, NEW h \in H
  PROVE  J!Levelled(H, t)[h] \in Int /\ J!Levelled(H, t)[h] <= h
<1> DEFINE l == J!Levelled(H, t)
           Bad == {k \in H : ~(l[k] \in Int /\ l[k] <= k)}
<1>1. l = OnLevels(H, H, t, l)
  BY LevelledIs
<1> HIDE DEF l
<1>2. ASSUME NEW k \in H
      PROVE  l[k] = k \/ (LowerThan(H, k) # {} /\ l[k] = l[Max(LowerThan(H, k))])
  BY <1>1 DEF OnLevels
<1>3. Bad = {}
  <2> SUFFICES ASSUME Bad # {} PROVE FALSE
    OBVIOUS
  <2> DEFINE w == [x \in Bad |-> 0 - x]
  <2>1. IsFiniteSet(Bad) /\ Bad \subseteq Int
    BY FS_Subset
  <2>2. \A x \in Bad : w[x] \in Int
    BY <2>1
  <2>3. PICK b \in Bad : \A x \in Bad : w[x] <= w[b]
    <3> HIDE DEF w, Bad
    <3> QED
      BY <2>1, <2>2, HighestOfAll
  <2>4. \A x \in Bad : b <= x
    <3>1. \A x \in Bad : 0 - x <= 0 - b
      BY <2>3
    <3> HIDE DEF Bad
    <3> QED
      BY <2>1, <3>1
  <2>5. LowerThan(H, b) # {} /\ l[b] = l[Max(LowerThan(H, b))]
    BY <1>2
  <2> DEFINE k == Max(LowerThan(H, b))
  <2>6. k \in H /\ k < b
    BY <2>5, MaxBelow
  <2> HIDE DEF k
  <2>7. k \notin Bad
    <3>1. b \in Int /\ k \in Int
      BY <2>6
    <3> HIDE DEF Bad
    <3> QED
      BY <2>4, <2>6, <3>1
  <2>8. l[k] \in Int /\ l[k] <= k /\ l[b] = l[k] /\ b \in Int /\ k \in Int
    BY <2>5, <2>6, <2>7 DEF k
  <2>9. l[b] \in Int /\ l[b] <= b
    BY <2>6, <2>8
  <2> QED
    BY <2>9
<1> QED
  BY <1>3 DEF l

(* A height that none comes close to from below stays.                     *)
LEMMA LevelsStay ==
  ASSUME NEW H, IsFiniteSet(H), H \subseteq Int, NEW t \in Int, NEW h \in H, \A k \in H : ~(h - t < k /\ k < h)
  PROVE  J!Levelled(H, t)[h] = h
<1> DEFINE l == J!Levelled(H, t)
<1>1. l = OnLevels(H, H, t, l)
  BY LevelledIs
<1>2. \A k \in H : l[k] \in Int /\ l[k] <= k
  BY LevelsAreBelow
<1> HIDE DEF l
<1>3. CASE LowerThan(H, h) = {}
  BY <1>1, <1>3 DEF OnLevels, l
<1>4. CASE LowerThan(H, h) # {}
  <2> DEFINE k == Max(LowerThan(H, h))
  <2>1. k \in H /\ k < h
    BY <1>4, MaxBelow
  <2>2. l[h] = IF LowerThan(H, h) = {} \/ h - l[k] >= t THEN h ELSE l[k]
    BY <1>1 DEF OnLevels
  <2> HIDE DEF k
  <2>3. h - l[k] >= t
    BY <1>2, <2>1
  <2> QED
    BY <2>2, <2>3 DEF l
<1> QED
  BY <1>3, <1>4

(* The height of a cell at a corner of it, where walls and roofs meet it.  *)
Z(v, c) == WallHeight(FaceAt(c), v)
FacesAt(v) == {FaceAt(c) : c \in CellsAt[v]}
HeightsAt(v) == {FaceHeight(f, v) : f \in FacesAt(v)}
LevelsAt(v) == {Z(v, c) : c \in CellsAt[v]}

LEMMA PlanesAreNumbers ==
  ASSUME Extruded, NEW l \in 1 .. Len(Planes), NEW v \in Vertices
  PROVE  HeightOn(l, 2 * v[1], 2 * v[2]) \in Int
<1>1. site.roofs \in Seq(Coefficients) /\ site.grounds \in Seq(Coefficients)
  BY Ready DEF IsSite
<1>2. Planes \in Seq(Coefficients)
  <2>1. \A s, t \in Seq(Coefficients) : s \o t \in Seq(Coefficients)
    OBVIOUS
  <2> QED
    BY <1>1, <2>1 DEF Planes
<1> DEFINE q == Planes[l]
<1>3. q \in Coefficients
  BY <1>2
<1>4. q.a \in Int /\ q.b \in Int /\ q.d \in Int
  BY <1>3 DEF Coefficients
<1>5. v[1] \in Int /\ v[2] \in Int
  BY SiteAssumption DEF Vertices
<1>6. HeightOn(l, 2 * v[1], 2 * v[2]) = q.a * (2 * v[1]) + q.b * (2 * v[2]) + q.d
  BY DEF HeightOn
<1> HIDE DEF q
<1>7. 2 * v[1] \in Int /\ 2 * v[2] \in Int
  BY <1>5
<1>8. \A x, y \in Int : x * y \in Int /\ x + y \in Int
  OBVIOUS
<1>9. q.a * (2 * v[1]) \in Int /\ q.b * (2 * v[2]) \in Int
  BY <1>4, <1>7, <1>8
<1> QED
  BY <1>4, <1>6, <1>8, <1>9

LEMMA FaceHeightsAreNumbers ==
  ASSUME Extruded, NEW v \in Vertices, NEW f \in Faces
  PROVE  /\ FaceHeight(f, v) \in Int
         /\ ~InFootprint(f) => FaceHeight(f, v) = site.ground
         /\ InFootprint(f) /\ site.lod = 22 => FaceHeight(f, v) = HeightOn(arrangement[f].plane, 2 * v[1], 2 * v[2])
<1>1. phase \in Late /\ LateInv /\ PieceInv
  BY DEF Extruded, BuildingInv, Late
<1>2. FaceHeight(f, v) = IF ~InFootprint(f) THEN site.ground
                         ELSE IF site.lod = 22 THEN HeightOn(arrangement[f].plane, 2 * v[1], 2 * v[2])
                         ELSE arrangement[f].elevation_70p
  <2> DEFINE P == InFootprint(f)
             Q == site.lod = 22
             h == HeightOn(arrangement[f].plane, 2 * v[1], 2 * v[2])
  <2>1. FaceHeight(f, v) = CASE ~P -> site.ground [] P /\ Q -> h [] OTHER -> arrangement[f].elevation_70p
    BY DEF FaceHeight
  <2> HIDE DEF P, Q, h
  <2>2. CASE ~P
    BY <2>1, <2>2 DEF P
  <2>3. CASE P /\ Q
    BY <2>1, <2>3 DEF P, Q, h
  <2>4. CASE P /\ ~Q
    BY <2>1, <2>4 DEF P, Q
  <2> QED
    BY <2>2, <2>3, <2>4
<1>3. site.ground \in Int
  BY Ready DEF IsSite
<1>4. ASSUME InFootprint(f) PROVE site.roofs # <<>>
  <2> SUFFICES ASSUME site.roofs = <<>> PROVE FALSE
    OBVIOUS
  <2>1. f \in FootprintFaces
    BY <1>4 DEF FootprintFaces
  <2>2. arrangement[f].segid # 0
    BY <2>1, Ready DEF OnRoof
  <2> QED
    BY <1>1, <2>2 DEF PieceInv, Bare, Faces
<1>5. ASSUME InFootprint(f) PROVE FaceHeight(f, v) \in Int
  <2>1. f \in FootprintFaces /\ site.roofs # <<>>
    BY <1>4, <1>5 DEF FootprintFaces
  <2>2. CASE site.lod = 22
    <3>1. arrangement[f].plane \in 1 .. Len(Planes)
      BY <1>1, <2>1, <2>2 DEF LateInv
    <3> DEFINE q == arrangement[f].plane
    <3> HIDE DEF q
    <3>2. HeightOn(q, 2 * v[1], 2 * v[2]) \in Int
      BY <3>1, PlanesAreNumbers DEF q
    <3> QED
      BY <1>2, <1>5, <2>2, <3>2 DEF q
  <2>3. CASE site.lod # 22
    BY <1>1, <1>2, <1>5, <2>1, <2>3 DEF LateInv
  <2> QED
    BY <2>2, <2>3
<1> QED
  BY <1>2, <1>3, <1>5

LEMMA ColumnIs ==
  ASSUME Extruded, NEW v \in Vertices
  PROVE  /\ DOMAIN vertex_columns[v] = FacesAt(v)
         /\ FacesAt(v) \subseteq Faces
         /\ IsFiniteSet(HeightsAt(v)) /\ HeightsAt(v) \subseteq Int
         /\ \A f \in FacesAt(v) : /\ FaceHeight(f, v) \in HeightsAt(v)
                                  /\ vertex_columns[v][f] = J!Levelled(HeightsAt(v), snap_tolerance)[FaceHeight(f, v)]
<1>1. vertex_columns[v] = Column(v)
  BY DEF Extruded, MeshInv, Columns
<1>2. Column(v) = [f \in FacesAt(v) |-> J!Levelled(HeightsAt(v), snap_tolerance)[FaceHeight(f, v)]]
  BY DEF Column, FacesAt, HeightsAt
<1>3. FacesAt(v) \subseteq Faces
  BY CellsAround, CellsOfFaces DEF FacesAt
<1>4. IsFiniteSet(HeightsAt(v)) /\ HeightsAt(v) \subseteq Int
  <2>1. IsFiniteSet(Faces)
    BY Ready, FacesOfDivision
  <2>2. IsFiniteSet(FacesAt(v))
    BY <1>3, <2>1, FS_Subset
  <2>3. IsFiniteSet(HeightsAt(v))
    <3> DEFINE w == [f \in FacesAt(v) |-> FaceHeight(f, v)]
    <3>1. w \in Surjection(FacesAt(v), HeightsAt(v))
      BY DEF Surjection, HeightsAt
    <3> HIDE DEF w
    <3> QED
      BY <2>2, <3>1, FS_Surjection
  <2> QED
    BY <1>3, <2>3, FaceHeightsAreNumbers DEF HeightsAt
<1> QED
  BY <1>1, <1>2, <1>3, <1>4 DEF HeightsAt

(* On a clear ground every cell has the height of its column, and what is  *)
(* outside has that of the ground.                                         *)
LEMMA CellHeights ==
  ASSUME Extruded, GroundIsClear, NEW v \in Vertices, NEW c \in CellsAt[v]
  PROVE  /\ Z(v, c) \in Int /\ FaceAt(c) \in FacesAt(v)
         /\ Z(v, c) = vertex_columns[v][FaceAt(c)]
         /\ c \in Out => Z(v, c) = site.ground
<1> DEFINE f == FaceAt(c)
           H == HeightsAt(v)
           h == FaceHeight(f, v)
<1>1. c \in Cells /\ f \in FacesAt(v) /\ f \in Faces /\ (c \in Out <=> ~InFootprint(f))
  BY CellsAround, CellsOfFaces, ColumnIs DEF FacesAt
<1>2. vertex_columns[v][f] = J!Levelled(H, snap_tolerance)[h] /\ h \in H /\ IsFiniteSet(H) /\ H \subseteq Int
  BY <1>1, ColumnIs
<1>3. vertex_columns[v][f] \in Int
  BY <1>2, LevelsAreBelow
<1>4. CASE InFootprint(f)
  BY <1>1, <1>3, <1>4 DEF Z, WallHeight
<1>5. CASE ~InFootprint(f)
  <2>1. h = site.ground /\ site.ground \in Int
    BY <1>1, <1>5, FaceHeightsAreNumbers, Ready DEF IsSite
  <2>2. \A k \in H : ~(site.ground - snap_tolerance < k /\ k < site.ground)
    <3> SUFFICES ASSUME NEW k \in H PROVE ~(site.ground - snap_tolerance < k /\ k < site.ground)
      OBVIOUS
    <3>1. PICK d \in CellsAt[v] : k = FaceHeight(FaceAt(d), v)
      BY DEF HeightsAt, FacesAt
    <3>2. d \in Cells /\ FaceAt(d) \in Faces
      BY CellsAround, CellsOfFaces
    <3>3. CASE InFootprint(FaceAt(d))
      BY <1>5, <3>1, <3>3 DEF GroundIsClear
    <3>4. CASE ~InFootprint(FaceAt(d))
      <4>1. k = site.ground
        BY <3>1, <3>2, <3>4, FaceHeightsAreNumbers
      <4> QED
        BY <2>1, <4>1
    <3> QED
      BY <3>3, <3>4
  <2> HIDE DEF H, h
  <2>3. snap_tolerance \in Int
    BY ToleranceAssumption
  <2>4. J!Levelled(H, snap_tolerance)[h] = h
    BY <1>2, <2>1, <2>2, <2>3, LevelsStay
  <2> QED
    BY <1>1, <1>2, <1>5, <2>1, <2>4 DEF Z, WallHeight
<1> QED
  BY <1>4, <1>5

(* Where heights are apart, nothing is levelled.                           *)
LEMMA ApartHeights ==
  ASSUME Extruded, GroundIsClear, HeightsAreApart, NEW v \in Vertices, NEW c \in CellsAt[v]
  PROVE  /\ Z(v, c) = FaceHeight(FaceAt(c), v)
         /\ \A k, h \in HeightsAt(v) : h < k => k - h >= height_tolerance
<1> DEFINE H == HeightsAt(v)
           h == FaceHeight(FaceAt(c), v)
<1>1. Z(v, c) = vertex_columns[v][FaceAt(c)] /\ FaceAt(c) \in FacesAt(v)
  BY CellHeights
<1>2. vertex_columns[v][FaceAt(c)] = J!Levelled(H, snap_tolerance)[h] /\ h \in H /\ IsFiniteSet(H) /\ H \subseteq Int
  BY <1>1, ColumnIs
<1>3. \A k, l \in H : l < k => k - l >= snap_tolerance /\ k - l >= height_tolerance
  BY DEF HeightsAreApart, HeightsAt, FacesAt
<1>4. snap_tolerance \in Int /\ snap_tolerance > 0
  BY ToleranceAssumption
<1> HIDE DEF H, h
<1>5. \A k \in H : ~(h - snap_tolerance < k /\ k < h)
  <2> SUFFICES ASSUME NEW k \in H, h - snap_tolerance < k, k < h PROVE FALSE
    OBVIOUS
  <2>1. h - k >= snap_tolerance /\ h \in Int /\ k \in Int
    BY <1>2, <1>3
  <2> QED
    BY <1>4, <2>1
<1>6. J!Levelled(H, snap_tolerance)[h] = h
  BY <1>2, <1>4, <1>5, LevelsStay
<1> QED
  BY <1>1, <1>2, <1>3, <1>6 DEF H, h

-----------------------------------------------------------------------------
(***************************************************************************)
(* The polygons of a part, by the halfedges they run along.  At the start  *)
(* of a halfedge there are the heights to its left and to its right.       *)
(***************************************************************************)
LeftAt(d) == Z(d[1], LeftOf[d])
RightAt(d) == Z(d[1], RightOf[d])
FromLeft(d) == At(d[1], LeftAt(d))
FromRight(d) == At(d[1], RightAt(d))

IsSteep(d) == LeftAt(d) # RightAt(d) \/ LeftAt(Twin(d)) # RightAt(Twin(d))
IsCrossed(d) ==
  \/ LeftAt(d) < RightAt(d) /\ LeftAt(Twin(d)) < RightAt(Twin(d))
  \/ LeftAt(d) > RightAt(d) /\ LeftAt(Twin(d)) > RightAt(Twin(d))

(* The halfedges between a part and others, and between its own faces.     *)
Rim(p) == {d \in Halfedges : /\ FaceAt(LeftOf[d]) # FaceAt(RightOf[d])
                             /\ LeftOf[d] \in Part(p) \/ RightOf[d] \in Part(p)}

(* The sides that a roof or floor, and a wall, have along a halfedge.      *)
Rise(d) == Climb(d[1], LeftAt(d), RightAt(d), OtherHeights(d[1], FaceAt(RightOf[d]), FaceAt(LeftOf[d])))
CapSides(d) ==
  IF IsCrossed(d) THEN {<<FromLeft(d), CrossingPoint(d)>>, <<CrossingPoint(d), FromRight(Twin(d))>>}
  ELSE {<<FromLeft(d), FromRight(Twin(d))>>}
WallSides(d) ==
  Rise(d) \cup (IF IsCrossed(d) THEN {<<FromRight(d), CrossingPoint(d)>>, <<CrossingPoint(d), FromLeft(d)>>}
                ELSE {<<FromRight(d), FromLeft(Twin(d))>>})

FloorPolygon(p) == Polygon("floor", Level(FloorSides(p), site.ground))
Cap(p, d) == IF LeftOf[d] \in Out THEN FloorPolygon(p) ELSE RoofPolygon(FaceAt(LeftOf[d]))
Wall(d) == Polygon(WallLabel(d), IF IsCrossed(d) THEN WallSides(d) ELSE WallSides(d) \cup WallSides(Twin(d)))

LEMMA EndsDiffer ==
  ASSUME NEW d \in Halfedges
  PROVE  d[1] # d[2]
<1>1. d[1] \in Vertices /\ d[2] \in {East(d[1]), North(d[1]), West(d[1]), South(d[1])}
  BY HalfedgesOut
<1>2. d[1] = <<d[1][1], d[1][2]>> /\ d[1][1] \in Int /\ d[1][2] \in Int
  BY <1>1, CellsAround
<1> DEFINE v == d[1]  x == v[1]  y == v[2]
<1>3. v = <<x, y>> /\ x \in Int /\ y \in Int
  BY <1>2
<1>4. d[2] \in {<<x + 1, y>>, <<x, y + 1>>, <<x - 1, y>>, <<x, y - 1>>}
  BY <1>1 DEF East, North, West, South
<1> HIDE DEF x, y
<1> QED
  BY <1>3, <1>4

LEMMA OnRim ==
  ASSUME Extruded, GroundIsClear, NEW p, NEW d \in Rim(p)
  PROVE  /\ d \in Halfedges /\ d = <<d[1], d[2]>> /\ d[1] \in Vertices /\ d[2] \in Vertices /\ d[1] # d[2]
         /\ Twin(d) \in Rim(p) /\ Twin(Twin(d)) = d /\ Twin(d)[1] = d[2] /\ Twin(d)[2] = d[1]
         /\ LeftOf[Twin(d)] = RightOf[d] /\ RightOf[Twin(d)] = LeftOf[d]
         /\ LeftOf[d] \in CellsAt[d[1]] /\ RightOf[d] \in CellsAt[d[1]]
         /\ LeftOf[d] \in Cells /\ RightOf[d] \in Cells
         /\ LeftOf[d] \in Part(p) \/ LeftOf[d] \in Out
         /\ RightOf[d] \in Part(p) \/ RightOf[d] \in Out
         /\ LeftOf[d] \in Out => RightOf[d] \in Part(p)
<1>1. /\ d \in Halfedges /\ FaceAt(LeftOf[d]) # FaceAt(RightOf[d])
      /\ LeftOf[d] \in Part(p) \/ RightOf[d] \in Part(p)
  BY DEF Rim
<1>2. /\ d = <<d[1], d[2]>> /\ d[1] \in Vertices /\ d[2] \in Vertices /\ d[1] # d[2]
      /\ Twin(d) \in Halfedges /\ Twin(Twin(d)) = d /\ Twin(d)[1] = d[2] /\ Twin(d)[2] = d[1]
      /\ LeftOf[Twin(d)] = RightOf[d] /\ RightOf[Twin(d)] = LeftOf[d]
  BY <1>1, HalfedgesOut, RightCells, EndsDiffer
<1>3. /\ LeftOf[d] \in CellsAt[d[1]] /\ RightOf[d] \in CellsAt[d[1]]
      /\ LeftOf[d] \in Cells /\ RightOf[d] \in Cells
      /\ RightOf[d] \in Beside[LeftOf[d]] /\ LeftOf[d] \in Beside[RightOf[d]]
  BY <1>1, SidesOfEdges
<1>4. Twin(d) \in Rim(p)
  BY <1>1, <1>2 DEF Rim
<1>5. IsPiece(Part(p), Cells \ Out)
  BY PartPieces
<1>6. LeftOf[d] \in Part(p) \/ LeftOf[d] \in Out
  BY <1>1, <1>3, <1>5 DEF IsPiece
<1>7. RightOf[d] \in Part(p) \/ RightOf[d] \in Out
  BY <1>1, <1>3, <1>5 DEF IsPiece
<1>8. LeftOf[d] \in Out => RightOf[d] \in Part(p)
  BY <1>1, <1>5 DEF IsPiece
<1> QED
  BY <1>1, <1>2, <1>3, <1>4, <1>6, <1>7, <1>8

LEMMA HeightsOnRim ==
  ASSUME Extruded, GroundIsClear, NEW p, NEW d \in Rim(p)
  PROVE  /\ LeftAt(d) \in Int /\ RightAt(d) \in Int
         /\ LeftAt(Twin(d)) = Z(d[2], RightOf[d]) /\ RightAt(Twin(d)) = Z(d[2], LeftOf[d])
         /\ LeftAt(Twin(d)) \in Int /\ RightAt(Twin(d)) \in Int
         /\ LeftOf[d] \in Out => LeftAt(d) = site.ground /\ RightAt(Twin(d)) = site.ground
         /\ IsCrossed(Twin(d)) <=> IsCrossed(d)
         /\ IsSteep(Twin(d)) <=> IsSteep(d)
<1>1. \A e \in Rim(p) : LeftAt(e) \in Int /\ RightAt(e) \in Int
  BY OnRim, CellHeights DEF LeftAt, RightAt
<1>2. LeftAt(Twin(d)) = Z(d[2], RightOf[d]) /\ RightAt(Twin(d)) = Z(d[2], LeftOf[d]) /\ Twin(d) \in Rim(p)
  BY OnRim DEF LeftAt, RightAt
<1>3. LeftOf[d] \in Out => LeftAt(d) = site.ground /\ RightAt(Twin(d)) = site.ground
  <2>1. d[1] \in Vertices /\ d[2] \in Vertices /\ LeftOf[d] \in CellsAt[d[1]] /\ LeftOf[d] \in CellsAt[d[2]]
    BY <1>2, OnRim
  <2> QED
    BY <1>2, <2>1, CellHeights DEF LeftAt
<1>4. IsCrossed(Twin(d)) <=> IsCrossed(d)
  BY OnRim DEF IsCrossed
<1>5. IsSteep(Twin(d)) <=> IsSteep(d)
  BY OnRim DEF IsSteep
<1> QED
  BY <1>1, <1>2, <1>3, <1>4, <1>5

LEMMA EdgesOnRim ==
  ASSUME Extruded, GroundIsClear, NEW p, NEW d \in Rim(p)
  PROVE  /\ d \in WallEdges \/ Twin(d) \in WallEdges
         /\ d \in WallEdges => PartOf(d) = p
         /\ WallLabel(Twin(d)) = WallLabel(d)
<1>1. \A c \in Part(p) : c \in Cells /\ InFootprint(FaceAt(c)) /\ PartId(FaceAt(c)) = p
  BY PartPieces, CellsOfFaces
<1>2. \A c \in Out : c \in Cells /\ ~InFootprint(FaceAt(c))
  BY CellsOfFaces DEF Out
<1> DEFINE v == d[1]  w == d[2]
<1>3. v[1] \in Int /\ v[2] \in Int /\ w \in {East(v), North(v), West(v), South(v)}
  BY OnRim, HalfedgesOut, CellsAround
<1>4. (v[1] + v[2] < w[1] + w[2]) # (w[1] + w[2] < v[1] + v[2])
  <2> DEFINE x == v[1]  y == v[2]
  <2>1. w \in {<<x + 1, y>>, <<x, y + 1>>, <<x - 1, y>>, <<x, y - 1>>}
    BY <1>3 DEF East, North, West, South
  <2>2. \/ w[1] + w[2] = x + 1 + y
        \/ w[1] + w[2] = x + y + 1
        \/ w[1] + w[2] = x - 1 + y
        \/ w[1] + w[2] = x + y - 1
    <3>0. x \in Int /\ y \in Int
      BY <1>3
    <3> HIDE DEF w, x, y
    <3>1. \A a, b : w = <<a, b>> => w[1] = a /\ w[2] = b
      OBVIOUS
    <3>2. \/ w[1] = x + 1 /\ w[2] = y
          \/ w[1] = x /\ w[2] = y + 1
          \/ w[1] = x - 1 /\ w[2] = y
          \/ w[1] = x /\ w[2] = y - 1
      BY <2>1, <3>1
    <3> QED
      BY <3>0, <3>2
  <2> DEFINE m == w[1] + w[2]
  <2> HIDE DEF x, y, m
  <2>3. (x + y < m) # (m < x + y)
    BY <1>3, <2>2 DEF x, y, m
  <2> QED
    BY <2>3 DEF x, y, m
<1>5. /\ d \in Halfedges /\ Twin(d) \in Halfedges /\ FaceAt(LeftOf[d]) # FaceAt(RightOf[d])
      /\ InFootprint(FaceAt(LeftOf[d])) \/ InFootprint(FaceAt(RightOf[d]))
  BY <1>1, OnRim DEF Rim
<1>6. site.turned \in BOOLEAN
  BY Ready DEF IsSite
<1>7. d \in WallEdges \/ Twin(d) \in WallEdges
  BY <1>4, <1>5, <1>6, OnRim DEF WallEdges
<1>8. PartOf(d) = p
  BY <1>1, <1>2, OnRim DEF PartOf, PartId
<1>9. WallLabel(Twin(d)) = WallLabel(d)
  BY OnRim DEF WallLabel
<1> QED
  BY <1>7, <1>8, <1>9

LEMMA CrossedOnRim ==
  ASSUME Extruded, GroundIsClear, NEW p, NEW d \in Rim(p)
  PROVE  /\ Crosses(d) <=> IsCrossed(d)
         /\ extra_wall_points \cap {d, Twin(d)} = {} <=> ~IsCrossed(d)
         /\ IsCrossed(d) => LeftOf[d] \in Part(p) /\ RightOf[d] \in Part(p)
<1>1. \A e \in Rim(p) : Crosses(e) <=> IsCrossed(e)
  <2> SUFFICES ASSUME NEW e \in Rim(p) PROVE Crosses(e) <=> IsCrossed(e)
    OBVIOUS
  <2>1. Crosses(e) <=> \/ RightAt(e) < LeftAt(e) /\ LeftAt(Twin(e)) > RightAt(Twin(e))
                       \/ RightAt(e) > LeftAt(e) /\ LeftAt(Twin(e)) < RightAt(Twin(e))
    BY HeightsOnRim DEF Crosses, Heights, Z, LeftAt, RightAt
  <2> QED
    BY <2>1, HeightsOnRim DEF IsCrossed
<1>2. extra_wall_points = {e \in WallEdges : Crosses(e)}
  BY DEF Extruded, MeshInv, Crossings
<1>3. Twin(d) \in Rim(p) /\ (IsCrossed(Twin(d)) <=> IsCrossed(d))
  BY OnRim, HeightsOnRim
<1>4. extra_wall_points \cap {d, Twin(d)} = {} <=> ~IsCrossed(d)
  BY <1>1, <1>2, <1>3, EdgesOnRim
<1>5. ASSUME IsCrossed(d) PROVE LeftOf[d] \in Part(p) /\ RightOf[d] \in Part(p)
  <2>1. PICK e \in extra_wall_points : e = d \/ e = Twin(d)
    BY <1>4, <1>5
  <2>2. InFootprint(FaceAt(LeftOf[d])) /\ InFootprint(FaceAt(RightOf[d]))
    BY <2>1, OnRim DEF GroundIsClear
  <2>3. \A c \in Out : c \in Cells /\ ~InFootprint(FaceAt(c))
    BY CellsOfFaces DEF Out
  <2> QED
    BY <2>2, <2>3, OnRim
<1> QED
  BY <1>1, <1>4, <1>5

(* The walls on an edge are those of its two halfedges.                    *)
LEMMA OthersAreMutual ==
  ASSUME NEW v, NEW f, NEW g
  PROVE  OtherHeights(v, f, g) = OtherHeights(v, g, f)
<1>1. {vertex_columns[v][f], vertex_columns[v][g]} = {vertex_columns[v][g], vertex_columns[v][f]}
  OBVIOUS
<1> QED
  BY <1>1 DEF OtherHeights

LEMMA WallsOnRim ==
  ASSUME Extruded, GroundIsClear, NEW p, NEW d \in Rim(p)
  PROVE  WallsOn(d) = IF ~IsSteep(d) THEN {}
                      ELSE IF IsCrossed(d) THEN {WallSides(d), WallSides(Twin(d))}
                      ELSE {WallSides(d) \cup WallSides(Twin(d))}
<1> DEFINE h == Heights(d)
           x == CrossingPoint(d)
           first == Climb(d[1], h.h1b, h.h1a, h.others1)
           second == Climb(d[2], h.h2a, h.h2b, h.others2)
<1>1. /\ h.h1a = RightAt(d) /\ h.h1b = LeftAt(d)
      /\ h.h2a = LeftAt(Twin(d)) /\ h.h2b = RightAt(Twin(d))
      /\ h.others1 = OtherHeights(d[1], FaceAt(RightOf[d]), FaceAt(LeftOf[d]))
      /\ h.others2 = OtherHeights(d[2], FaceAt(RightOf[d]), FaceAt(LeftOf[d]))
  BY HeightsOnRim DEF Heights, Z, LeftAt, RightAt
<1>2. first = Rise(d)
  BY <1>1 DEF Rise
<1>3. second = Rise(Twin(d))
  <2>1. h.others2 = OtherHeights(Twin(d)[1], FaceAt(RightOf[Twin(d)]), FaceAt(LeftOf[Twin(d)]))
    BY <1>1, OnRim, OthersAreMutual
  <2> QED
    BY <1>1, <2>1, OnRim DEF Rise
<1>4. /\ At(d[1], h.h1a) = FromRight(d) /\ At(d[1], h.h1b) = FromLeft(d)
      /\ At(d[2], h.h2b) = FromRight(Twin(d)) /\ At(d[2], h.h2a) = FromLeft(Twin(d))
  BY <1>1, OnRim DEF FromLeft, FromRight
<1>5. CrossingPoint(Twin(d)) = x /\ (IsCrossed(Twin(d)) <=> IsCrossed(d)) /\ Twin(Twin(d)) = d /\ (Crosses(d) <=> IsCrossed(d))
  BY OnRim, PointsOfEdges, HeightsOnRim, CrossedOnRim
<1>6. WallsOn(d) = CASE h.h1a = h.h1b /\ h.h2a = h.h2b -> {}
                     [] Crosses(d) -> {first \cup {<<At(d[1], h.h1a), x>>, <<x, At(d[1], h.h1b)>>},
                                       second \cup {<<At(d[2], h.h2b), x>>, <<x, At(d[2], h.h2a)>>}}
                     [] OTHER -> {first \cup second \cup {<<At(d[1], h.h1a), At(d[2], h.h2a)>>,
                                                          <<At(d[2], h.h2b), At(d[1], h.h1b)>>}}
  BY DEF WallsOn
<1>7. IsCrossed(d) => IsSteep(d)
  BY HeightsOnRim DEF IsCrossed, IsSteep
<1>8. IsSteep(d) <=> ~(h.h1a = h.h1b /\ h.h2a = h.h2b)
  BY <1>1 DEF IsSteep
<1> HIDE DEF first, second, h, x
<1>9. CASE ~IsSteep(d)
  BY <1>5, <1>6, <1>7, <1>8, <1>9
<1>10. CASE IsSteep(d) /\ IsCrossed(d)
  <2>1. WallsOn(d) = {first \cup {<<At(d[1], h.h1a), x>>, <<x, At(d[1], h.h1b)>>},
                      second \cup {<<At(d[2], h.h2b), x>>, <<x, At(d[2], h.h2a)>>}}
    BY <1>5, <1>6, <1>8, <1>10
  <2>2. WallSides(d) = first \cup {<<At(d[1], h.h1a), x>>, <<x, At(d[1], h.h1b)>>}
    BY <1>2, <1>4, <1>10 DEF WallSides, x
  <2>3. WallSides(Twin(d)) = second \cup {<<At(d[2], h.h2b), x>>, <<x, At(d[2], h.h2a)>>}
    BY <1>3, <1>4, <1>5, <1>10 DEF WallSides
  <2> QED
    BY <1>10, <2>1, <2>2, <2>3
<1>11. CASE IsSteep(d) /\ ~IsCrossed(d)
  <2>1. WallsOn(d) = {first \cup second \cup {<<At(d[1], h.h1a), At(d[2], h.h2a)>>, <<At(d[2], h.h2b), At(d[1], h.h1b)>>}}
    BY <1>5, <1>6, <1>8, <1>11
  <2>2. WallSides(d) = first \cup {<<At(d[1], h.h1a), At(d[2], h.h2a)>>}
    BY <1>2, <1>4, <1>11 DEF WallSides
  <2>3. WallSides(Twin(d)) = second \cup {<<At(d[2], h.h2b), At(d[1], h.h1b)>>}
    BY <1>3, <1>4, <1>5, <1>11 DEF WallSides
  <2>4. first \cup second \cup {<<At(d[1], h.h1a), At(d[2], h.h2a)>>, <<At(d[2], h.h2b), At(d[1], h.h1b)>>}
        = WallSides(d) \cup WallSides(Twin(d))
    BY <2>2, <2>3
  <2> QED
    BY <1>11, <2>1, <2>4
<1> QED
  BY <1>9, <1>10, <1>11

LEMMA WallsOfPart ==
  ASSUME Extruded, GroundIsClear, NEW p
  PROVE  WallsOf(p) = {Wall(d) : d \in {e \in Rim(p) : IsSteep(e)}}
<1> DEFINE S == {Wall(d) : d \in {e \in Rim(p) : IsSteep(e)}}
           Es == {e \in WallEdges : PartOf(e) = p}
<1>1. Es \subseteq Rim(p)
  <2> SUFFICES ASSUME NEW e \in Es PROVE e \in Rim(p)
    OBVIOUS
  <2>1. /\ e \in Halfedges /\ FaceAt(LeftOf[e]) # FaceAt(RightOf[e])
        /\ InFootprint(FaceAt(LeftOf[e])) \/ InFootprint(FaceAt(RightOf[e]))
        /\ PartOf(e) = p /\ LeftOf[e] \in Cells /\ RightOf[e] \in Cells
    BY SidesOfEdges DEF WallEdges
  <2>2. \A c \in Cells : InFootprint(FaceAt(c)) /\ PartId(FaceAt(c)) = p => c \in Part(p)
    BY CellsOfFaces
  <2>3. LeftOf[e] \in Part(p) \/ RightOf[e] \in Part(p)
    BY <2>1, <2>2 DEF PartOf, PartId
  <2> QED
    BY <2>1, <2>3 DEF Rim
<1>2. ASSUME NEW e \in Es, NEW w \in WallsOn(e) PROVE Polygon(WallLabel(e), w) \in S
  <2>1. e \in Rim(p) /\ Twin(e) \in Rim(p) /\ IsSteep(e) /\ IsSteep(Twin(e))
    <3>1. e \in Rim(p)
      BY <1>1
    <3>2. IsSteep(e)
      BY <3>1, WallsOnRim
    <3> QED
      BY <3>1, <3>2, OnRim, HeightsOnRim
  <2>2. CASE ~IsCrossed(e)
    <3>1. w = WallSides(e) \cup WallSides(Twin(e))
      BY <2>1, <2>2, WallsOnRim
    <3>2. Polygon(WallLabel(e), w) = Wall(e)
      BY <2>2, <3>1 DEF Wall
    <3> QED
      BY <2>1, <3>2
  <2>3. CASE IsCrossed(e)
    <3>1. w = WallSides(e) \/ w = WallSides(Twin(e))
      BY <2>1, <2>3, WallsOnRim
    <3>2. IsCrossed(Twin(e)) /\ WallLabel(Twin(e)) = WallLabel(e)
      BY <2>1, <2>3, HeightsOnRim, EdgesOnRim
    <3>3. Polygon(WallLabel(e), w) = Wall(e) \/ Polygon(WallLabel(e), w) = Wall(Twin(e))
      BY <2>3, <3>1, <3>2 DEF Wall
    <3> QED
      BY <2>1, <3>3
  <2> QED
    BY <2>2, <2>3
<1>3. ASSUME NEW d \in Rim(p), IsSteep(d)
      PROVE  \E e \in Es : \E w \in WallsOn(e) : Polygon(WallLabel(e), w) = Wall(d)
  <2>1. PICK e \in Es : e = d \/ e = Twin(d)
    BY EdgesOnRim, OnRim
  <2>2. /\ e \in Rim(p) /\ IsSteep(e) /\ (d = e \/ d = Twin(e)) /\ WallLabel(e) = WallLabel(d)
        /\ IsCrossed(e) <=> IsCrossed(d)
        /\ Twin(Twin(d)) = d
    BY <1>3, <2>1, OnRim, HeightsOnRim, EdgesOnRim
  <2>3. CASE ~IsCrossed(e)
    <3> DEFINE w == WallSides(e) \cup WallSides(Twin(e))
    <3>1. w \in WallsOn(e)
      BY <2>2, <2>3, WallsOnRim
    <3>2. w = WallSides(d) \cup WallSides(Twin(d))
      BY <2>1, <2>2
    <3>3. Wall(d) = Polygon(WallLabel(e), w)
      BY <2>2, <2>3, <3>2 DEF Wall
    <3> QED
      BY <3>1, <3>3
  <2>4. CASE IsCrossed(e)
    <3>1. WallSides(d) \in WallsOn(e)
      BY <2>2, <2>4, WallsOnRim
    <3>2. Wall(d) = Polygon(WallLabel(e), WallSides(d))
      BY <2>2, <2>4 DEF Wall
    <3> QED
      BY <3>1, <3>2
  <2> QED
    BY <2>3, <2>4
<1>4. WallsOf(p) = UNION {{Polygon(WallLabel(e), w) : w \in WallsOn(e)} : e \in Es}
  BY DEF WallsOf
<1> HIDE DEF Es
<1>5. \A q \in WallsOf(p) : q \in S
  BY <1>2, <1>4
<1>6. \A q \in S : q \in WallsOf(p)
  BY <1>3, <1>4
<1> QED
  BY <1>5, <1>6

LEMMA MeshOfPart ==
  ASSUME Extruded, GroundIsClear, NEW p \in DOMAIN Floors
  PROVE  /\ p \in DOMAIN multisolid
         /\ multisolid[p] = {FloorPolygon(p)} \cup {RoofPolygon(f) : f \in {g \in FootprintFaces : PartId(g) = p}}
                             \cup {Wall(d) : d \in {e \in Rim(p) : IsSteep(e)}}
<1>1. multisolid = Roofed
  BY DEF Extruded, MeshInv
<1>2. p \in DOMAIN FloorsWithRings /\ FloorsWithRings[p] = {FloorPolygon(p)}
  BY FloorOfPart DEF FloorsWithRings, FloorPolygon
<1>3. p \in DOMAIN Walled /\ Walled[p] = {FloorPolygon(p)} \cup WallsOf(p)
  BY <1>2 DEF Walled
<1>4. p \in DOMAIN Roofed /\ Roofed[p] = Walled[p] \cup RoofsOf(p)
  BY <1>3 DEF Roofed
<1>5. RoofsOf(p) = {RoofPolygon(f) : f \in {g \in FootprintFaces : PartId(g) = p}}
  BY DEF RoofsOf, PartId
<1> QED
  BY <1>1, <1>3, <1>4, <1>5, WallsOfPart

(* Only the parts with an outline have a floor.                            *)
LEMMA PartsWithFloor ==
  ASSUME Extruded, NEW p \in DOMAIN multisolid, HasFloor(p)
  PROVE  p \in DOMAIN Floors
<1>1. multisolid = Roofed
  BY DEF Extruded, MeshInv
<1>2. PICK q \in Roofed[p] : q.label = "floor"
  BY <1>1 DEF HasFloor
<1> SUFFICES ASSUME p \notin DOMAIN Floors PROVE FALSE
  OBVIOUS
<1>3. DOMAIN FloorsWithRings = DOMAIN Floors
  BY DEF FloorsWithRings
<1>4. \A w \in WallsOf(p) : w.label # "floor"
  <2> SUFFICES ASSUME NEW w \in WallsOf(p) PROVE w.label # "floor"
    OBVIOUS
  <2>1. PICK e \in WallEdges : \E s \in WallsOn(e) : w = Polygon(WallLabel(e), s)
    BY DEF WallsOf
  <2>2. w.label = WallLabel(e)
    BY <2>1 DEF Polygon
  <2> QED
    BY <2>2 DEF WallLabel
<1>5. \A r \in RoofsOf(p) : r.label # "floor"
  BY DEF RoofsOf, RoofPolygon, Polygon
<1>6. p \in DOMAIN Walled => Walled[p] = WallsOf(p)
  BY <1>3 DEF Walled
<1>7. p \in DOMAIN Roofed
  BY <1>1
<1>8. Roofed[p] = (IF p \in DOMAIN Walled THEN Walled[p] ELSE {}) \cup RoofsOf(p)
  BY <1>7 DEF Roofed
<1> QED
  BY <1>2, <1>4, <1>5, <1>6, <1>8

-----------------------------------------------------------------------------
(***************************************************************************)
(* Which polygons of a part have a side.                                   *)
(***************************************************************************)
LEMMA CapOfHalfedge ==
  ASSUME Extruded, GroundIsClear, NEW p \in DOMAIN Floors, NEW d \in Rim(p)
  PROVE  Cap(p, d) \in multisolid[p] /\ CapSides(d) \subseteq Cap(p, d).sides
<1>1. multisolid[p] = {FloorPolygon(p)} \cup {RoofPolygon(f) : f \in {g \in FootprintFaces : PartId(g) = p}}
                      \cup {Wall(e) : e \in {b \in Rim(p) : IsSteep(b)}}
  BY MeshOfPart
<1>2. /\ d \in Halfedges /\ FaceAt(LeftOf[d]) # FaceAt(RightOf[d]) /\ LeftOf[d] \in Cells /\ RightOf[d] \in Cells
      /\ Twin(d)[1] = d[2]
  BY OnRim DEF Rim
<1>3. CASE LeftOf[d] \in Out
  <2>1. d \in FloorSides(p)
    BY <1>2, <1>3, OnRim DEF FloorSides, Between
  <2>2. ~IsCrossed(d)
    <3>1. LeftOf[d] \notin Part(p)
      BY <1>3, PartPieces DEF Out
    <3> QED
      BY <3>1, CrossedOnRim
  <2>3. LeftAt(d) = site.ground /\ RightAt(Twin(d)) = site.ground
    BY <1>3, HeightsOnRim
  <2>4. CapSides(d) = {<<At(d[1], site.ground), At(d[2], site.ground)>>}
    BY <1>2, <2>2, <2>3 DEF CapSides, FromLeft, FromRight
  <2>5. CapSides(d) \subseteq Level(FloorSides(p), site.ground)
    BY <2>1, <2>4 DEF Level
  <2>6. Cap(p, d) = FloorPolygon(p) /\ FloorPolygon(p).sides = Level(FloorSides(p), site.ground)
    BY <1>3 DEF Cap, FloorPolygon, Polygon
  <2> QED
    BY <1>1, <2>5, <2>6
<1>4. CASE LeftOf[d] \notin Out
  <2> DEFINE f == FaceAt(LeftOf[d])
  <2>1. LeftOf[d] \in Part(p)
    BY <1>4, OnRim
  <2>2. f \in FootprintFaces /\ PartId(f) = p /\ f \in Faces /\ LeftOf[d] \in f /\ InFootprint(f)
    <3>1. LeftOf[d] \in Inside /\ PartId(f) = p
      BY <1>2, <2>1, CellsOfFaces
    <3> QED
      BY <1>2, <3>1, CellsOfFaces DEF FootprintFaces
  <2>3. d \in Boundary(f)
    <3>1. RightOf[d] \notin f
      BY <1>2, <2>2, Ready, FacesOfDivision
    <3> QED
      BY <1>2, <2>2, <3>1 DEF Boundary, Between
  <2>4. RoofSides(f, d) = CapSides(d)
    <3>1. vertex_columns[d[1]][f] = LeftAt(d)
      BY <2>2 DEF LeftAt, Z, WallHeight
    <3>2. vertex_columns[d[2]][f] = RightAt(Twin(d))
      BY <2>2, HeightsOnRim DEF Z, WallHeight
    <3> QED
      BY <1>2, <3>1, <3>2, CrossedOnRim DEF RoofSides, CapSides, FromLeft, FromRight
  <2>5. Cap(p, d) = RoofPolygon(f) /\ RoofPolygon(f).sides = UNION {RoofSides(f, e) : e \in Boundary(f)}
    BY <1>4 DEF Cap, RoofPolygon, Polygon
  <2> HIDE DEF f
  <2> QED
    BY <1>1, <2>2, <2>3, <2>4, <2>5
<1> QED
  BY <1>3, <1>4

LEMMA SidesOfCaps ==
  ASSUME Extruded, GroundIsClear, NEW p \in DOMAIN Floors,
         NEW q \in {FloorPolygon(p)} \cup {RoofPolygon(f) : f \in {g \in FootprintFaces : PartId(g) = p}},
         NEW s \in q.sides
  PROVE  \E d \in Rim(p) : q = Cap(p, d) /\ s \in CapSides(d)
<1>1. CASE q = FloorPolygon(p)
  <2>1. s \in Level(FloorSides(p), site.ground)
    BY <1>1 DEF FloorPolygon, Polygon
  <2>2. PICK d \in FloorSides(p) : s = <<At(d[1], site.ground), At(d[2], site.ground)>>
    BY <2>1 DEF Level
  <2>3. d \in Halfedges /\ LeftOf[d] \in Out /\ RightOf[d] \in Part(p)
    BY DEF FloorSides, Between
  <2>4. d \in Rim(p)
    <3>1. \A c \in Part(p) : c \in Cells /\ InFootprint(FaceAt(c))
      BY PartPieces, CellsOfFaces
    <3>2. \A c \in Out : c \in Cells /\ ~InFootprint(FaceAt(c))
      BY CellsOfFaces DEF Out
    <3> QED
      BY <2>3, <3>1, <3>2 DEF Rim
  <2>5. ~IsCrossed(d)
    <3>1. LeftOf[d] \notin Part(p)
      BY <2>3, PartPieces DEF Out
    <3> QED
      BY <2>4, <3>1, CrossedOnRim
  <2>6. LeftAt(d) = site.ground /\ RightAt(Twin(d)) = site.ground /\ Twin(d)[1] = d[2]
    BY <2>3, <2>4, HeightsOnRim, OnRim
  <2>7. s \in CapSides(d)
    BY <2>2, <2>5, <2>6 DEF CapSides, FromLeft, FromRight
  <2>8. q = Cap(p, d)
    BY <1>1, <2>3 DEF Cap
  <2> QED
    BY <2>4, <2>7, <2>8
<1>2. CASE q \in {RoofPolygon(f) : f \in {g \in FootprintFaces : PartId(g) = p}}
  <2>1. PICK f \in FootprintFaces : PartId(f) = p /\ q = RoofPolygon(f)
    BY <1>2
  <2>2. q.sides = UNION {RoofSides(f, e) : e \in Boundary(f)}
    BY <2>1 DEF RoofPolygon, Polygon
  <2>3. PICK d \in Boundary(f) : s \in RoofSides(f, d)
    BY <2>2
  <2>4. d \in Halfedges /\ LeftOf[d] \in f /\ RightOf[d] \in Cells \ f
    BY <2>3 DEF Boundary, Between
  <2>5. f \in Faces /\ InFootprint(f) /\ FaceAt(LeftOf[d]) = f /\ FaceAt(RightOf[d]) # f /\ LeftOf[d] \in Part(p)
    <3>1. f \in Faces /\ InFootprint(f) /\ FaceAt(LeftOf[d]) = f /\ RightOf[d] \in FaceAt(RightOf[d])
      BY <2>4, Ready, FacesOfDivision
    <3> QED
      BY <2>1, <2>4, <3>1 DEF Part
  <2>6. d \in Rim(p)
    BY <2>4, <2>5 DEF Rim
  <2>7. RoofSides(f, d) = CapSides(d)
    <3>1. vertex_columns[d[1]][f] = LeftAt(d)
      BY <2>5 DEF LeftAt, Z, WallHeight
    <3>2. vertex_columns[d[2]][f] = RightAt(Twin(d)) /\ Twin(d)[1] = d[2]
      BY <2>5, <2>6, HeightsOnRim, OnRim DEF Z, WallHeight
    <3> QED
      BY <2>6, <3>1, <3>2, CrossedOnRim DEF RoofSides, CapSides, FromLeft, FromRight
  <2>8. LeftOf[d] \notin Out
    BY <2>5, PartPieces DEF Out
  <2>9. q = Cap(p, d)
    BY <2>1, <2>5, <2>8 DEF Cap
  <2> QED
    BY <2>3, <2>6, <2>7, <2>9
<1> QED
  BY <1>1, <1>2

CapsWith(p, s) == {d \in Rim(p) : s \in CapSides(d)}
WallsWith(p, s) == {d \in Rim(p) : IsSteep(d) /\ s \in WallSides(d)}

LEMMA PolygonsWithSide ==
  ASSUME Extruded, GroundIsClear, NEW p \in DOMAIN Floors, NEW s
  PROVE  {q \in multisolid[p] : s \in q.sides}
           = {Cap(p, d) : d \in CapsWith(p, s)} \cup {Wall(d) : d \in WallsWith(p, s)}
<1> DEFINE Caps == {FloorPolygon(p)} \cup {RoofPolygon(f) : f \in {g \in FootprintFaces : PartId(g) = p}}
           Walls == {Wall(e) : e \in {b \in Rim(p) : IsSteep(b)}}
<1>1. multisolid[p] = Caps \cup Walls
  BY MeshOfPart
<1>2. \A q \in Caps : s \in q.sides => \E d \in CapsWith(p, s) : q = Cap(p, d)
  BY SidesOfCaps DEF CapsWith
<1>3. \A d \in CapsWith(p, s) : Cap(p, d) \in multisolid[p] /\ s \in Cap(p, d).sides
  BY CapOfHalfedge DEF CapsWith
<1>4. \A d \in Rim(p) : Wall(d).sides = IF IsCrossed(d) THEN WallSides(d) ELSE WallSides(d) \cup WallSides(Twin(d))
  BY DEF Wall, Polygon
<1>5. ASSUME NEW d \in Rim(p), IsSteep(d), s \in Wall(d).sides
      PROVE  \E e \in WallsWith(p, s) : Wall(d) = Wall(e)
  <2>1. CASE s \in WallSides(d)
    BY <1>5, <2>1 DEF WallsWith
  <2>2. CASE s \notin WallSides(d)
    <3>1. ~IsCrossed(d) /\ s \in WallSides(Twin(d))
      BY <1>4, <1>5, <2>2
    <3>2. /\ Twin(d) \in Rim(p) /\ IsSteep(Twin(d)) /\ ~IsCrossed(Twin(d)) /\ WallLabel(Twin(d)) = WallLabel(d)
          /\ Twin(Twin(d)) = d
      BY <1>5, <3>1, OnRim, HeightsOnRim, EdgesOnRim
    <3>3. Wall(Twin(d)) = Wall(d)
      <4>1. WallSides(d) \cup WallSides(Twin(d)) = WallSides(Twin(d)) \cup WallSides(d)
        OBVIOUS
      <4> QED
        BY <3>1, <3>2, <4>1 DEF Wall
    <3> QED
      BY <3>1, <3>2, <3>3 DEF WallsWith
  <2> QED
    BY <2>1, <2>2
<1>6. \A d \in WallsWith(p, s) : Wall(d) \in Walls /\ s \in Wall(d).sides
  BY <1>4 DEF WallsWith
<1> HIDE DEF Caps
<1>7. \A q \in Walls : s \in q.sides => \E e \in WallsWith(p, s) : q = Wall(e)
  BY <1>5
<1> HIDE DEF Walls
<1> QED
  BY <1>1, <1>2, <1>3, <1>6, <1>7

(***************************************************************************)
(* The vertical sides at a vertex go from one level to the next.           *)
(***************************************************************************)
Follow(v, x, y) == x < y /\ \A z \in LevelsAt(v) : ~(x < z /\ z < y)

LEMMA SmallerOfTwo ==
  ASSUME NEW a \in Int, NEW b \in Int
  PROVE  Min({a, b}) = IF a < b THEN a ELSE b
<1>1. \E x \in {a, b} : \A y \in {a, b} : x <= y
  BY SMT
<1>2. Min({a, b}) \in {a, b} /\ \A y \in {a, b} : Min({a, b}) <= y
  BY <1>1 DEF Min
<1> QED
  BY <1>2

LEMMA LargerOfTwo ==
  ASSUME NEW a \in Int, NEW b \in Int
  PROVE  Max({a, b}) = IF a < b THEN b ELSE a
<1>1. \E x \in {a, b} : \A y \in {a, b} : x >= y
  BY SMT
<1>2. Max({a, b}) \in {a, b} /\ \A y \in {a, b} : Max({a, b}) >= y
  BY <1>1 DEF Max
<1> QED
  BY <1>2

LEMMA OthersAre ==
  ASSUME Extruded, GroundIsClear, NEW v \in Vertices, NEW c \in CellsAt[v], NEW d \in CellsAt[v]
  PROVE  OtherHeights(v, FaceAt(d), FaceAt(c))
           = {z \in LevelsAt(v) : (Z(v, c) < z /\ z < Z(v, d)) \/ (Z(v, d) < z /\ z < Z(v, c))}
<1> DEFINE a == Z(v, c)  b == Z(v, d)
           col == vertex_columns[v]
<1>1. /\ a \in Int /\ b \in Int /\ col[FaceAt(c)] = a /\ col[FaceAt(d)] = b
      /\ DOMAIN col = FacesAt(v)
  BY CellHeights, ColumnIs
<1>2. LevelsAt(v) = {col[k] : k \in FacesAt(v)} /\ LevelsAt(v) \subseteq Int
  <2>1. \A e \in CellsAt[v] : Z(v, e) = col[FaceAt(e)] /\ FaceAt(e) \in FacesAt(v) /\ Z(v, e) \in Int
    BY CellHeights
  <2> HIDE DEF col
  <2> QED
    BY <2>1 DEF LevelsAt, FacesAt
<1>3. OtherHeights(v, FaceAt(d), FaceAt(c)) =
        {col[k] : k \in {j \in FacesAt(v) : Min({b, a}) < col[j] /\ col[j] < Max({b, a})}}
  <2> HIDE DEF a, b
  <2> QED
    BY <1>1 DEF OtherHeights
<1> HIDE DEF a, b, col
<1>4. Min({b, a}) = (IF b < a THEN b ELSE a) /\ Max({b, a}) = (IF b < a THEN a ELSE b)
  BY <1>1, SmallerOfTwo, LargerOfTwo
<1>5. \A z \in LevelsAt(v) : (Min({b, a}) < z /\ z < Max({b, a})) <=> ((a < z /\ z < b) \/ (b < z /\ z < a))
  BY <1>1, <1>2, <1>4
<1>6. {col[k] : k \in {j \in FacesAt(v) : Min({b, a}) < col[j] /\ col[j] < Max({b, a})}}
      = {z \in LevelsAt(v) : Min({b, a}) < z /\ z < Max({b, a})}
  BY <1>2
<1> QED
  BY <1>3, <1>5, <1>6 DEF a, b

LEMMA StepsOfClimb ==
  ASSUME NEW v, NEW a, NEW b, NEW others, NEW H, H = {a, b} \cup others
  PROVE  /\ a < b => Climb(v, a, b, others) = Steps(v, H)
         /\ ~(a < b) => Climb(v, a, b, others) = {Twin(e) : e \in Steps(v, H)}
BY DEF Climb

LEMMA ClimbsBetween ==
  ASSUME NEW v, NEW K, \A z \in K : z \in Int, NEW a \in K, NEW b \in K, NEW others, NEW s,
         \A z : z \in others <=> z \in K /\ ((a < z /\ z < b) \/ (b < z /\ z < a))
  PROVE  s \in Climb(v, a, b, others) <=>
           \E x, y \in K : /\ x < y /\ \A z \in K : ~(x < z /\ z < y)
                          /\ \/ a <= x /\ y <= b /\ s = <<At(v, x), At(v, y)>>
                             \/ b <= x /\ y <= a /\ s = <<At(v, y), At(v, x)>>
<1> DEFINE Adjoin(x, y) == x < y /\ \A z \in K : ~(x < z /\ z < y)
<1>1. PICK H : H = {a, b} \cup others
  OBVIOUS
<1>2. \A z : z \in others <=> z \in K /\ ((a < z /\ z < b) \/ (b < z /\ z < a))
  OBVIOUS
<1>3. \A x, y : Adjoin(x, y) <=> x < y /\ \A z \in K : ~(x < z /\ z < y)
  OBVIOUS
<1>4. /\ a < b => Climb(v, a, b, others) = Steps(v, H)
      /\ ~(a < b) => Climb(v, a, b, others) = {Twin(e) : e \in Steps(v, H)}
  BY <1>1, StepsOfClimb
<1>5. Steps(v, H) = {<<At(v, t[1]), At(v, t[2])>> : t \in {u \in H \X H : u[1] < u[2] /\ \A h \in H : ~(u[1] < h /\ h < u[2])}}
  BY DEF Steps
<1> HIDE DEF Adjoin
<1>6. (\A z \in H : z \in Int) /\ \A z : z \in H <=> z \in K /\ ((a <= z /\ z <= b) \/ (b <= z /\ z <= a))
  BY <1>1, <1>2
<1>7. \A x, y \in H : (\A h \in H : ~(x < h /\ h < y)) <=> \A z \in K : ~(x < z /\ z < y)
  <2> SUFFICES ASSUME NEW x \in H, NEW y \in H, \A h \in H : ~(x < h /\ h < y), NEW z \in K, x < z, z < y PROVE FALSE
    BY <1>6
  <2>1. z \in H
    BY <1>1, <1>6
  <2> QED
    BY <2>1
<1>8. \A e : e \in Steps(v, H) <=> \E x, y \in H : Adjoin(x, y) /\ e = <<At(v, x), At(v, y)>>
  <2> SUFFICES ASSUME NEW e PROVE e \in Steps(v, H) <=> \E x, y \in H : Adjoin(x, y) /\ e = <<At(v, x), At(v, y)>>
    OBVIOUS
  <2>1. ASSUME e \in Steps(v, H) PROVE \E x, y \in H : Adjoin(x, y) /\ e = <<At(v, x), At(v, y)>>
    <3>1. PICK u \in H \X H : u[1] < u[2] /\ (\A h \in H : ~(u[1] < h /\ h < u[2])) /\ e = <<At(v, u[1]), At(v, u[2])>>
      BY <1>5, <2>1
    <3>2. u[1] \in H /\ u[2] \in H
      OBVIOUS
    <3> QED
      BY <1>3, <1>7, <3>1, <3>2
  <2>2. ASSUME NEW x \in H, NEW y \in H, Adjoin(x, y), e = <<At(v, x), At(v, y)>> PROVE e \in Steps(v, H)
    <3> DEFINE u == <<x, y>>
    <3>1. u \in H \X H /\ u[1] = x /\ u[2] = y
      OBVIOUS
    <3>2. u[1] < u[2] /\ \A h \in H : ~(u[1] < h /\ h < u[2])
      BY <1>3, <1>7, <2>2, <3>1
    <3> HIDE DEF u
    <3> QED
      BY <1>5, <2>2, <3>1, <3>2
  <2> QED
    BY <2>1, <2>2
<1>9. \A x, y : Adjoin(x, y) => x < y
  BY <1>3
<1>10. CASE a < b
  <2>1. s \in Climb(v, a, b, others) <=> \E x, y \in H : Adjoin(x, y) /\ s = <<At(v, x), At(v, y)>>
    BY <1>4, <1>8, <1>10
  <2>2. \A x, y \in K : x < y => ((x \in H /\ y \in H) <=> (a <= x /\ y <= b)) /\ ~(b <= x /\ y <= a)
    BY <1>1, <1>6, <1>10
  <2> QED
    BY <1>3, <1>6, <2>1, <2>2
<1>11. CASE ~(a < b)
  <2>1. s \in Climb(v, a, b, others) <=> \E x, y \in H : Adjoin(x, y) /\ s = <<At(v, y), At(v, x)>>
    <3>1. s \in Climb(v, a, b, others) <=> \E e \in Steps(v, H) : s = Twin(e)
      BY <1>4, <1>11
    <3>2. \A x, y : Twin(<<At(v, x), At(v, y)>>) = <<At(v, y), At(v, x)>>
      BY DEF Twin
    <3> QED
      BY <1>8, <3>1, <3>2
  <2>2. \A x, y \in K : x < y => ((x \in H /\ y \in H) <=> (b <= x /\ y <= a)) /\ ~(a <= x /\ y <= b)
    BY <1>1, <1>6, <1>11
  <2> QED
    BY <1>3, <1>6, <2>1, <2>2
<1> QED
  BY <1>10, <1>11

LEMMA ClimbIs ==
  ASSUME Extruded, GroundIsClear, NEW v \in Vertices, NEW c \in CellsAt[v], NEW d \in CellsAt[v], NEW s
  PROVE  s \in Climb(v, Z(v, c), Z(v, d), OtherHeights(v, FaceAt(d), FaceAt(c))) <=>
           \E x, y \in LevelsAt(v) :
             /\ Follow(v, x, y)
             /\ \/ Z(v, c) <= x /\ y <= Z(v, d) /\ s = <<At(v, x), At(v, y)>>
                \/ Z(v, d) <= x /\ y <= Z(v, c) /\ s = <<At(v, y), At(v, x)>>
<1>1. Z(v, c) \in LevelsAt(v) /\ Z(v, d) \in LevelsAt(v) /\ LevelsAt(v) \subseteq Int
  <2>1. \A e \in CellsAt[v] : Z(v, e) \in Int
    BY CellHeights
  <2> QED
    BY <2>1 DEF LevelsAt
<1>2. PICK a, b, K, others : /\ a = Z(v, c) /\ b = Z(v, d) /\ K = LevelsAt(v)
                             /\ others = OtherHeights(v, FaceAt(d), FaceAt(c))
  OBVIOUS
<1>3. \A z : z \in others <=> z \in K /\ ((a < z /\ z < b) \/ (b < z /\ z < a))
  BY <1>2, OthersAre
<1>4. (\A z \in K : z \in Int) /\ a \in K /\ b \in K
  BY <1>1, <1>2
<1>5. s \in Climb(v, a, b, others) <=>
           \E x, y \in K : /\ x < y /\ \A z \in K : ~(x < z /\ z < y)
                          /\ \/ a <= x /\ y <= b /\ s = <<At(v, x), At(v, y)>>
                             \/ b <= x /\ y <= a /\ s = <<At(v, y), At(v, x)>>
  BY <1>3, <1>4, ClimbsBetween
<1> QED
  BY <1>2, <1>5 DEF Follow

-----------------------------------------------------------------------------
(***************************************************************************)
(* The sides that lead from one vertex to another, or to the point where   *)
(* two roofs cross.                                                        *)
(***************************************************************************)
LEMMA PointsAt ==
  ASSUME NEW v \in Vertices, NEW w \in Vertices, NEW h, NEW k, At(v, h) = At(w, k)
  PROVE  v = w /\ h = k
<1>1. v[1] = w[1] /\ v[2] = w[2] /\ h = k
  BY DEF At
<1>2. v = <<v[1], v[2]>> /\ w = <<w[1], w[2]>>
  BY DEF Vertices
<1> QED
  BY <1>1, <1>2

LEMMA RiseIsVertical ==
  ASSUME Extruded, GroundIsClear, NEW p, NEW d \in Rim(p), NEW s \in Rise(d)
  PROVE  \E x, y \in LevelsAt(d[1]) :
            /\ Follow(d[1], x, y) \/ Follow(d[1], y, x)
            /\ s = <<At(d[1], x), At(d[1], y)>>
<1>1. d[1] \in Vertices /\ LeftOf[d] \in CellsAt[d[1]] /\ RightOf[d] \in CellsAt[d[1]]
  BY OnRim
<1>2. s \in Climb(d[1], Z(d[1], LeftOf[d]), Z(d[1], RightOf[d]), OtherHeights(d[1], FaceAt(RightOf[d]), FaceAt(LeftOf[d])))
  BY DEF Rise, LeftAt, RightAt
<1>3. \E x, y \in LevelsAt(d[1]) :
         /\ Follow(d[1], x, y)
         /\ \/ Z(d[1], LeftOf[d]) <= x /\ y <= Z(d[1], RightOf[d]) /\ s = <<At(d[1], x), At(d[1], y)>>
            \/ Z(d[1], RightOf[d]) <= x /\ y <= Z(d[1], LeftOf[d]) /\ s = <<At(d[1], y), At(d[1], x)>>
  BY <1>1, <1>2, ClimbIs
<1> QED
  BY <1>3

LEMMA LevelsAreNumbers ==
  ASSUME Extruded, GroundIsClear, NEW v \in Vertices
  PROVE  LevelsAt(v) \subseteq Int
<1>1. \A e \in CellsAt[v] : Z(v, e) \in Int
  BY CellHeights
<1> QED
  BY <1>1 DEF LevelsAt

(* What a side from a point over one vertex to one over another can be. *)
OverCap(d) == <<FromLeft(d), FromRight(Twin(d))>>
OverWall(d) == <<FromRight(d), FromLeft(Twin(d))>>

LEMMA SidesOver ==
  ASSUME Extruded, GroundIsClear, NEW p \in DOMAIN Floors, NEW d \in Rim(p), NEW h, NEW k, NEW s,
         s = <<At(d[1], h), At(d[2], k)>>
  PROVE  /\ \A e \in Rim(p) : s \in CapSides(e) => e = d /\ ~IsCrossed(d) /\ s = OverCap(d)
         /\ \A e \in Rim(p) : s \in WallSides(e) => e = d /\ ~IsCrossed(d) /\ s = OverWall(d)
<1>1. /\ d \in Halfedges /\ d = <<d[1], d[2]>> /\ d[1] \in Vertices /\ d[2] \in Vertices /\ d[1] # d[2]
      /\ s[1] = At(d[1], h) /\ s[2] = At(d[2], k)
  BY OnRim
<1> SUFFICES ASSUME NEW e \in Rim(p)
             PROVE  /\ s \in CapSides(e) => e = d /\ ~IsCrossed(d) /\ s = OverCap(d)
                    /\ s \in WallSides(e) => e = d /\ ~IsCrossed(d) /\ s = OverWall(d)
  OBVIOUS
<1>2. /\ e \in Halfedges /\ e = <<e[1], e[2]>> /\ e[1] \in Vertices /\ e[2] \in Vertices /\ Twin(e)[1] = e[2]
  BY OnRim
<1>3. \A w, z : At(w, z) # CrossingPoint(e)
  BY <1>2, PointsOfEdges
<1>4. /\ FromLeft(e) = At(e[1], LeftAt(e)) /\ FromRight(e) = At(e[1], RightAt(e))
      /\ FromLeft(Twin(e)) = At(e[2], LeftAt(Twin(e))) /\ FromRight(Twin(e)) = At(e[2], RightAt(Twin(e)))
  BY <1>2 DEF FromLeft, FromRight
<1>5. ASSUME NEW a, NEW b, s = <<At(e[1], a), At(e[2], b)>> PROVE e = d
  <2>1. At(d[1], h) = At(e[1], a) /\ At(d[2], k) = At(e[2], b)
    BY <1>5
  <2>2. d[1] = e[1] /\ d[2] = e[2]
    BY <1>1, <1>2, <2>1, PointsAt
  <2> QED
    BY <1>1, <1>2, <2>2
<1>6. ASSUME s \in CapSides(e) PROVE e = d /\ ~IsCrossed(d) /\ s = OverCap(d)
  <2>1. ~IsCrossed(e)
    BY <1>1, <1>3, <1>6 DEF CapSides
  <2>2. s = <<FromLeft(e), FromRight(Twin(e))>>
    BY <1>6, <2>1 DEF CapSides
  <2>3. e = d
    BY <1>4, <1>5, <2>2
  <2> QED
    BY <2>1, <2>2, <2>3 DEF OverCap
<1>7. ASSUME s \in WallSides(e) PROVE e = d /\ ~IsCrossed(d) /\ s = OverWall(d)
  <2>1. s \notin Rise(e)
    <3> SUFFICES ASSUME s \in Rise(e) PROVE FALSE
      OBVIOUS
    <3>1. PICK x, y : s = <<At(e[1], x), At(e[1], y)>>
      BY RiseIsVertical
    <3>2. At(d[1], h) = At(e[1], x) /\ At(d[2], k) = At(e[1], y)
      BY <3>1
    <3>3. d[1] = e[1] /\ d[2] = e[1]
      BY <1>1, <1>2, <3>2, PointsAt
    <3> QED
      BY <1>1, <3>3
  <2>2. ~IsCrossed(e)
    BY <1>1, <1>3, <1>7, <2>1 DEF WallSides
  <2>3. s = <<FromRight(e), FromLeft(Twin(e))>>
    BY <1>7, <2>1, <2>2 DEF WallSides
  <2>4. e = d
    BY <1>4, <1>5, <2>3
  <2> QED
    BY <2>2, <2>3, <2>4 DEF OverWall
<1> QED
  BY <1>6, <1>7

(* How many polygons have a side. *)
LEMMA OneCap ==
  ASSUME Extruded, GroundIsClear, NEW p \in DOMAIN Floors, NEW s, NEW d, CapsWith(p, s) = {d}, WallsWith(p, s) = {}
  PROVE  Along(multisolid[p], s) = 1
<1>1. {q \in multisolid[p] : s \in q.sides} = {Cap(p, d)}
  BY PolygonsWithSide
<1> QED
  BY <1>1, FS_Singleton DEF Along

LEMMA OneWall ==
  ASSUME Extruded, GroundIsClear, NEW p \in DOMAIN Floors, NEW s, NEW d, CapsWith(p, s) = {}, WallsWith(p, s) = {d}
  PROVE  Along(multisolid[p], s) = 1
<1>1. {q \in multisolid[p] : s \in q.sides} = {Wall(d)}
  BY PolygonsWithSide
<1> QED
  BY <1>1, FS_Singleton DEF Along

LEMMA CapsAlongEdge ==
  ASSUME Extruded, GroundIsClear, NEW p \in DOMAIN Floors, NEW d \in Rim(p), ~IsCrossed(d)
  PROVE  /\ OverCap(d) \in CapSides(d)
         /\ Along(multisolid[p], OverCap(d)) = 1
         /\ IsSteep(d) => Along(multisolid[p], OverWall(d)) = 1
<1>1. /\ OverCap(d) = <<At(d[1], LeftAt(d)), At(d[2], RightAt(Twin(d)))>>
      /\ OverWall(d) = <<At(d[1], RightAt(d)), At(d[2], LeftAt(Twin(d)))>>
      /\ d[1] \in Vertices /\ d[2] \in Vertices
  BY OnRim DEF OverCap, OverWall, FromLeft, FromRight
<1>2. OverCap(d) \in CapSides(d) /\ OverWall(d) \in WallSides(d)
  BY DEF CapSides, WallSides, OverCap, OverWall
<1>3. /\ OverCap(d)[1] = At(d[1], LeftAt(d)) /\ OverCap(d)[2] = At(d[2], RightAt(Twin(d)))
      /\ OverWall(d)[1] = At(d[1], RightAt(d)) /\ OverWall(d)[2] = At(d[2], LeftAt(Twin(d)))
  BY <1>1
<1>4. OverCap(d) = OverWall(d) => ~IsSteep(d)
  <2> SUFFICES ASSUME OverCap(d) = OverWall(d) PROVE ~IsSteep(d)
    OBVIOUS
  <2>1. /\ At(d[1], LeftAt(d)) = At(d[1], RightAt(d))
        /\ At(d[2], RightAt(Twin(d))) = At(d[2], LeftAt(Twin(d)))
    BY <1>3
  <2>2. LeftAt(d) = RightAt(d) /\ RightAt(Twin(d)) = LeftAt(Twin(d))
    BY <1>1, <2>1, PointsAt
  <2> QED
    BY <2>2 DEF IsSteep
<1>5. CapsWith(p, OverCap(d)) = {d} /\ WallsWith(p, OverCap(d)) = {}
  <2>1. /\ \A e \in Rim(p) : OverCap(d) \in CapSides(e) => e = d
        /\ \A e \in Rim(p) : OverCap(d) \in WallSides(e) => e = d /\ OverCap(d) = OverWall(d)
    BY <1>1, SidesOver
  <2> QED
    BY <1>2, <1>4, <2>1 DEF CapsWith, WallsWith
<1>6. ASSUME IsSteep(d) PROVE CapsWith(p, OverWall(d)) = {} /\ WallsWith(p, OverWall(d)) = {d}
  <2>0. OverWall(d) = <<At(d[1], RightAt(d)), At(d[2], LeftAt(Twin(d)))>>
    BY <1>1
  <2>1. /\ \A e \in Rim(p) : OverWall(d) \in CapSides(e) => e = d /\ ~IsCrossed(d) /\ OverWall(d) = OverCap(d)
        /\ \A e \in Rim(p) : OverWall(d) \in WallSides(e) => e = d /\ ~IsCrossed(d) /\ OverWall(d) = OverWall(d)
    BY <2>0, SidesOver
  <2> QED
    BY <1>2, <1>4, <1>6, <2>1 DEF CapsWith, WallsWith
<1> QED
  BY <1>2, <1>5, <1>6, OneCap, OneWall

(* Over an edge on which no roofs cross every side has its counterpart. *)
LEMMA EdgesAreClosed ==
  ASSUME Extruded, GroundIsClear, NEW p \in DOMAIN Floors, NEW d \in Rim(p), ~IsCrossed(d), NEW s,
         s = OverCap(d) \/ (IsSteep(d) /\ s = OverWall(d))
  PROVE  Along(multisolid[p], s) = 1 /\ Along(multisolid[p], Twin(s)) = 1
<1>1. /\ Twin(d) \in Rim(p) /\ Twin(Twin(d)) = d /\ ~IsCrossed(Twin(d)) /\ (IsSteep(Twin(d)) <=> IsSteep(d))
  BY OnRim, HeightsOnRim
<1>2. Twin(OverCap(d)) = OverWall(Twin(d)) /\ Twin(OverWall(d)) = OverCap(Twin(d))
  BY <1>1 DEF Twin, OverCap, OverWall
<1>3. ~IsSteep(d) => OverCap(Twin(d)) = OverWall(Twin(d))
  <2> SUFFICES ASSUME ~IsSteep(d) PROVE OverCap(Twin(d)) = OverWall(Twin(d))
    OBVIOUS
  <2>1. LeftAt(d) = RightAt(d) /\ LeftAt(Twin(d)) = RightAt(Twin(d))
    BY DEF IsSteep
  <2> QED
    BY <1>1, <2>1 DEF OverCap, OverWall, FromLeft, FromRight
<1>4. IsSteep(d) => Along(multisolid[p], OverWall(Twin(d))) = 1
  BY <1>1, CapsAlongEdge
<1>5. Along(multisolid[p], OverCap(Twin(d))) = 1
  BY <1>1, CapsAlongEdge
<1>6. Along(multisolid[p], OverCap(d)) = 1 /\ (IsSteep(d) => Along(multisolid[p], OverWall(d)) = 1)
  BY CapsAlongEdge
<1>7. CASE s = OverCap(d)
  BY <1>2, <1>3, <1>4, <1>5, <1>6, <1>7
<1>8. CASE IsSteep(d) /\ s = OverWall(d)
  BY <1>2, <1>5, <1>6, <1>8
<1> QED
  BY <1>7, <1>8

-----------------------------------------------------------------------------
(* The sides to and from the point over an edge where two roofs cross. *)
ToCrossing(d, h) == <<At(d[1], h), CrossingPoint(d)>>
FromCrossing(d, h) == <<CrossingPoint(d), At(d[1], h)>>

LEMMA SidesOfCrossing ==
  ASSUME Extruded, GroundIsClear, NEW p \in DOMAIN Floors, NEW d \in Rim(p), IsCrossed(d)
  PROVE  /\ CapSides(d) = {ToCrossing(d, LeftAt(d)), FromCrossing(Twin(d), RightAt(Twin(d)))}
         /\ WallSides(d) = Rise(d) \cup {ToCrossing(d, RightAt(d)), FromCrossing(d, LeftAt(d))}
         /\ \A h : Twin(ToCrossing(d, h)) = FromCrossing(d, h) /\ Twin(FromCrossing(d, h)) = ToCrossing(d, h)
<1>1. CrossingPoint(Twin(d)) = CrossingPoint(d) /\ d \in Halfedges
  BY OnRim, PointsOfEdges
<1> QED
  BY <1>1 DEF CapSides, WallSides, ToCrossing, FromCrossing, FromLeft, FromRight, Twin

LEMMA CapsAtCrossing ==
  ASSUME Extruded, GroundIsClear, NEW p \in DOMAIN Floors, NEW d \in Rim(p), IsCrossed(d), NEW h,
         NEW e \in Rim(p)
  PROVE  /\ ToCrossing(d, h) \in CapSides(e) => e = d /\ h = LeftAt(d)
         /\ FromCrossing(d, h) \in CapSides(e) => e = Twin(d) /\ h = RightAt(d)
<1>1. /\ d \in Halfedges /\ d = <<d[1], d[2]>> /\ d[1] \in Vertices /\ d[1] # d[2]
      /\ Twin(d) = <<d[2], d[1]>> /\ Twin(Twin(d)) = d
  BY OnRim DEF Twin
<1>2. /\ e \in Halfedges /\ e = <<e[1], e[2]>> /\ e[1] \in Vertices /\ e[2] \in Vertices /\ Twin(e)[1] = e[2]
  BY OnRim
<1>3. /\ \A w, z : At(w, z) # CrossingPoint(d)
      /\ \A w, z : At(w, z) # CrossingPoint(e)
      /\ CrossingPoint(e) = CrossingPoint(d) => e = d \/ e = Twin(d)
  BY <1>1, <1>2, PointsOfEdges
<1>4. /\ FromLeft(e) = At(e[1], LeftAt(e)) /\ FromRight(Twin(e)) = At(e[2], RightAt(Twin(e)))
  BY <1>2 DEF FromLeft, FromRight
<1>5. /\ ToCrossing(d, h)[1] = At(d[1], h) /\ ToCrossing(d, h)[2] = CrossingPoint(d)
      /\ FromCrossing(d, h)[1] = CrossingPoint(d) /\ FromCrossing(d, h)[2] = At(d[1], h)
  BY DEF ToCrossing, FromCrossing
<1>6. \A s \in CapSides(e) : \/ s[1] = FromLeft(e) /\ s[2] = CrossingPoint(e)
                             \/ s[1] = CrossingPoint(e) /\ s[2] = FromRight(Twin(e))
                             \/ s[1] = FromLeft(e) /\ s[2] = FromRight(Twin(e))
  BY DEF CapSides
<1>7. ASSUME ToCrossing(d, h) \in CapSides(e) PROVE e = d /\ h = LeftAt(d)
  <2>1. At(d[1], h) = At(e[1], LeftAt(e)) /\ CrossingPoint(e) = CrossingPoint(d)
    BY <1>3, <1>4, <1>5, <1>6, <1>7
  <2>2. d[1] = e[1] /\ h = LeftAt(e)
    BY <1>1, <1>2, <2>1, PointsAt
  <2> QED
    BY <1>1, <1>2, <1>3, <2>1, <2>2
<1>8. ASSUME FromCrossing(d, h) \in CapSides(e) PROVE e = Twin(d) /\ h = RightAt(d)
  <2>1. At(d[1], h) = At(e[2], RightAt(Twin(e))) /\ CrossingPoint(e) = CrossingPoint(d)
    BY <1>3, <1>4, <1>5, <1>6, <1>8
  <2>2. d[1] = e[2] /\ h = RightAt(Twin(e))
    BY <1>1, <1>2, <2>1, PointsAt
  <2>3. e = Twin(d)
    BY <1>1, <1>2, <1>3, <2>1, <2>2
  <2> QED
    BY <1>1, <2>2, <2>3
<1> QED
  BY <1>7, <1>8

LEMMA WallsAtCrossing ==
  ASSUME Extruded, GroundIsClear, NEW p \in DOMAIN Floors, NEW d \in Rim(p), IsCrossed(d), NEW h,
         NEW e \in Rim(p)
  PROVE  /\ ToCrossing(d, h) \in WallSides(e) => e = d /\ h = RightAt(d)
         /\ FromCrossing(d, h) \in WallSides(e) => e = d /\ h = LeftAt(d)
<1>1. /\ d \in Halfedges /\ d = <<d[1], d[2]>> /\ d[1] \in Vertices /\ d[1] # d[2]
      /\ Twin(d) = <<d[2], d[1]>>
  BY OnRim DEF Twin
<1>2. /\ e \in Halfedges /\ e = <<e[1], e[2]>> /\ e[1] \in Vertices /\ e[2] \in Vertices /\ Twin(e)[1] = e[2]
  BY OnRim
<1>3. /\ \A w, z : At(w, z) # CrossingPoint(d)
      /\ \A w, z : At(w, z) # CrossingPoint(e)
      /\ CrossingPoint(e) = CrossingPoint(d) => e = d \/ e = Twin(d)
  BY <1>1, <1>2, PointsOfEdges
<1>4. /\ FromLeft(e) = At(e[1], LeftAt(e)) /\ FromRight(e) = At(e[1], RightAt(e))
      /\ FromLeft(Twin(e)) = At(e[2], LeftAt(Twin(e)))
  BY <1>2 DEF FromLeft, FromRight
<1>5. /\ ToCrossing(d, h)[1] = At(d[1], h) /\ ToCrossing(d, h)[2] = CrossingPoint(d)
      /\ FromCrossing(d, h)[1] = CrossingPoint(d) /\ FromCrossing(d, h)[2] = At(d[1], h)
  BY DEF ToCrossing, FromCrossing
<1>6. \A s \in Rise(e) : \E x, y : s[1] = At(e[1], x) /\ s[2] = At(e[1], y)
  <2> SUFFICES ASSUME NEW s \in Rise(e) PROVE \E x, y : s[1] = At(e[1], x) /\ s[2] = At(e[1], y)
    OBVIOUS
  <2>1. PICK x, y : s = <<At(e[1], x), At(e[1], y)>>
    BY RiseIsVertical
  <2>2. s[1] = At(e[1], x) /\ s[2] = At(e[1], y)
    BY <2>1
  <2> QED
    BY <2>2
<1>7. ToCrossing(d, h) \notin Rise(e) /\ FromCrossing(d, h) \notin Rise(e)
  BY <1>3, <1>5, <1>6
<1>8. \A s \in WallSides(e) : \/ s \in Rise(e)
                              \/ s[1] = FromRight(e) /\ s[2] = CrossingPoint(e)
                              \/ s[1] = CrossingPoint(e) /\ s[2] = FromLeft(e)
                              \/ s[1] = FromRight(e) /\ s[2] = FromLeft(Twin(e))
  BY DEF WallSides
<1>9. ASSUME ToCrossing(d, h) \in WallSides(e) PROVE e = d /\ h = RightAt(d)
  <2>1. At(d[1], h) = At(e[1], RightAt(e)) /\ CrossingPoint(e) = CrossingPoint(d)
    BY <1>3, <1>4, <1>5, <1>7, <1>8, <1>9
  <2>2. d[1] = e[1] /\ h = RightAt(e)
    BY <1>1, <1>2, <2>1, PointsAt
  <2> QED
    BY <1>1, <1>2, <1>3, <2>1, <2>2
<1>10. ASSUME FromCrossing(d, h) \in WallSides(e) PROVE e = d /\ h = LeftAt(d)
  <2>1. At(d[1], h) = At(e[1], LeftAt(e)) /\ CrossingPoint(e) = CrossingPoint(d)
    BY <1>3, <1>4, <1>5, <1>7, <1>8, <1>10
  <2>2. d[1] = e[1] /\ h = LeftAt(e)
    BY <1>1, <1>2, <2>1, PointsAt
  <2> QED
    BY <1>1, <1>2, <1>3, <2>1, <2>2
<1> QED
  BY <1>9, <1>10

LEMMA CrossingsAreClosed ==
  ASSUME Extruded, GroundIsClear, NEW p \in DOMAIN Floors, NEW d \in Rim(p), IsCrossed(d),
         NEW h \in {LeftAt(d), RightAt(d)}
  PROVE  /\ Along(multisolid[p], ToCrossing(d, h)) = 1
         /\ Along(multisolid[p], FromCrossing(d, h)) = 1
<1>1. /\ Twin(d) \in Rim(p) /\ Twin(Twin(d)) = d /\ IsCrossed(Twin(d)) /\ LeftAt(d) \in Int /\ RightAt(d) \in Int
  BY OnRim, HeightsOnRim
<1>2. LeftAt(d) # RightAt(d) /\ IsSteep(d)
  BY <1>1 DEF IsCrossed, IsSteep
<1>3. /\ CapSides(d) = {ToCrossing(d, LeftAt(d)), FromCrossing(Twin(d), RightAt(Twin(d)))}
      /\ WallSides(d) = Rise(d) \cup {ToCrossing(d, RightAt(d)), FromCrossing(d, LeftAt(d))}
      /\ CapSides(Twin(d)) = {ToCrossing(Twin(d), LeftAt(Twin(d))), FromCrossing(d, RightAt(d))}
  BY <1>1, SidesOfCrossing
<1>4. \A e \in Rim(p) : /\ ToCrossing(d, h) \in CapSides(e) => e = d /\ h = LeftAt(d)
                        /\ FromCrossing(d, h) \in CapSides(e) => e = Twin(d) /\ h = RightAt(d)
                        /\ ToCrossing(d, h) \in WallSides(e) => e = d /\ h = RightAt(d)
                        /\ FromCrossing(d, h) \in WallSides(e) => e = d /\ h = LeftAt(d)
  BY CapsAtCrossing, WallsAtCrossing
<1>5. CASE h = LeftAt(d)
  <2>1. CapsWith(p, ToCrossing(d, h)) = {d} /\ WallsWith(p, ToCrossing(d, h)) = {}
    BY <1>2, <1>3, <1>4, <1>5 DEF CapsWith, WallsWith
  <2>2. CapsWith(p, FromCrossing(d, h)) = {} /\ WallsWith(p, FromCrossing(d, h)) = {d}
    BY <1>2, <1>3, <1>4, <1>5 DEF CapsWith, WallsWith
  <2> QED
    BY <2>1, <2>2, OneCap, OneWall
<1>6. CASE h = RightAt(d)
  <2>1. CapsWith(p, ToCrossing(d, h)) = {} /\ WallsWith(p, ToCrossing(d, h)) = {d}
    BY <1>2, <1>3, <1>4, <1>6 DEF CapsWith, WallsWith
  <2>2. CapsWith(p, FromCrossing(d, h)) = {Twin(d)} /\ WallsWith(p, FromCrossing(d, h)) = {}
    BY <1>1, <1>2, <1>3, <1>4, <1>6 DEF CapsWith, WallsWith
  <2> QED
    BY <2>1, <2>2, OneCap, OneWall
<1> QED
  BY <1>5, <1>6

(* The three kinds of sides. *)
LEMMA SidesOfMesh ==
  ASSUME Extruded, GroundIsClear, NEW p \in DOMAIN Floors, NEW s \in ProperSides(multisolid[p])
  PROVE  \E d \in Rim(p) :
            \/ ~IsCrossed(d) /\ (s = OverCap(d) \/ (IsSteep(d) /\ s = OverWall(d)))
            \/ IsCrossed(d) /\ \E h \in {LeftAt(d), RightAt(d)} : s = ToCrossing(d, h) \/ s = FromCrossing(d, h)
            \/ s \in Rise(d)
<1>1. PICK q \in multisolid[p] : s \in q.sides
  BY DEF ProperSides
<1>2. q \in {Cap(p, d) : d \in CapsWith(p, s)} \cup {Wall(d) : d \in WallsWith(p, s)}
  BY <1>1, PolygonsWithSide
<1>3. CASE \E d \in CapsWith(p, s) : q = Cap(p, d)
  <2>1. PICK d \in Rim(p) : s \in CapSides(d)
    BY <1>3 DEF CapsWith
  <2>2. CASE ~IsCrossed(d)
    BY <2>1, <2>2 DEF CapSides, OverCap
  <2>3. CASE IsCrossed(d)
    <3>1. s = ToCrossing(d, LeftAt(d)) \/ s = FromCrossing(Twin(d), RightAt(Twin(d)))
      BY <2>1, <2>3, SidesOfCrossing
    <3>2. Twin(d) \in Rim(p) /\ IsCrossed(Twin(d))
      BY <2>3, OnRim, HeightsOnRim
    <3> QED
      BY <2>3, <3>1, <3>2
  <2> QED
    BY <2>2, <2>3
<1>4. CASE \E d \in WallsWith(p, s) : q = Wall(d)
  <2>1. PICK d \in Rim(p) : IsSteep(d) /\ s \in WallSides(d)
    BY <1>4 DEF WallsWith
  <2>2. CASE ~IsCrossed(d)
    BY <2>1, <2>2 DEF WallSides, OverWall
  <2>3. CASE IsCrossed(d)
    <3>1. s \in Rise(d) \/ s = ToCrossing(d, RightAt(d)) \/ s = FromCrossing(d, LeftAt(d))
      BY <2>1, <2>3, SidesOfCrossing
    <3> QED
      BY <2>3, <3>1
  <2> QED
    BY <2>2, <2>3
<1> QED
  BY <1>2, <1>3, <1>4

-----------------------------------------------------------------------------
(***************************************************************************)
(* The vertical sides over a vertex.  A vertex is of one part.             *)
(***************************************************************************)
LEMMA OnePartAt ==
  ASSUME Extruded, NEW v \in Vertices, NEW c \in CellsAt[v], NEW d \in CellsAt[v], c \in Inside, d \in Inside
  PROVE  PartId(FaceAt(c)) = PartId(FaceAt(d))
<1> DEFINE id == [k \in Cells |-> PartId(FaceAt(k))]
<1>1. CellsAt[v] = {Cell1(v), Cell2(v), Cell3(v), Cell4(v)}
  BY CellsAround
<1>2. /\ Cell1(v) \in Cells /\ Cell2(v) \in Cells /\ Cell3(v) \in Cells /\ Cell4(v) \in Cells
      /\ Cell2(v) \in Beside[Cell1(v)] /\ Cell3(v) \in Beside[Cell2(v)]
      /\ Cell4(v) \in Beside[Cell3(v)] /\ Cell1(v) \in Beside[Cell4(v)]
  BY NextCells
<1>3. \A k \in Inside : \A l \in Beside[k] : l \in Inside => id[k] = id[l]
  <2>1. \A k \in Inside : \A l \in Beside[k] : l \in Inside => PartId(FaceAt(k)) = PartId(FaceAt(l))
    BY CellsOfFaces
  <2>2. Inside \subseteq Cells
    BY CellsOfFaces
  <2> QED
    BY <2>1, <2>2
<1>4. /\ Cell1(v) \in Inside /\ Cell3(v) \in Inside => Cell2(v) \in Inside \/ Cell4(v) \in Inside
      /\ Cell2(v) \in Inside /\ Cell4(v) \in Inside => Cell1(v) \in Inside \/ Cell3(v) \in Inside
  <2>1. \A k \in Cells : k \in Out <=> k \notin Inside
    BY DEF Out
  <2>2. /\ Cell1(v) \in Out /\ Cell3(v) \in Out => Cell2(v) \in Out \/ Cell4(v) \in Out
        /\ Cell2(v) \in Out /\ Cell4(v) \in Out => Cell1(v) \in Out \/ Cell3(v) \in Out
    BY NoDiagonalsOutside DEF NoDiagonals
  <2> QED
    BY <1>2, <2>1, <2>2
<1>5. id[c] = PartId(FaceAt(c)) /\ id[d] = PartId(FaceAt(d))
  BY <1>1, <1>2
<1> HIDE DEF id
<1>6. id[c] = id[d]
  <2>1. /\ Cell1(v) \in Inside /\ Cell2(v) \in Inside => id[Cell1(v)] = id[Cell2(v)]
        /\ Cell2(v) \in Inside /\ Cell3(v) \in Inside => id[Cell2(v)] = id[Cell3(v)]
        /\ Cell3(v) \in Inside /\ Cell4(v) \in Inside => id[Cell3(v)] = id[Cell4(v)]
        /\ Cell4(v) \in Inside /\ Cell1(v) \in Inside => id[Cell4(v)] = id[Cell1(v)]
    BY <1>2, <1>3
  <2> QED
    BY <1>1, <1>4, <2>1
<1> QED
  BY <1>5, <1>6

(* Walls from one vertex are of different edges. *)
LEMMA WallsDiffer ==
  ASSUME Extruded, GroundIsClear, NEW p \in DOMAIN Floors, NEW d \in Rim(p), NEW e \in Rim(p),
         d[1] = e[1], Wall(d) = Wall(e)
  PROVE  d = e
<1>1. /\ e \in Halfedges /\ e[1] \in Vertices /\ e[2] \in Vertices /\ e[1] # e[2] /\ Twin(e) = <<e[2], e[1]>>
      /\ Twin(e) \in Rim(p) /\ Twin(e)[1] = e[2] /\ Twin(Twin(e)) = e
      /\ d = <<d[1], d[2]>> /\ d[1] \in Vertices /\ d[2] \in Vertices /\ d[1] # d[2]
  BY OnRim DEF Twin
<1>2. \A k \in Rim(p) : Wall(k).sides = IF IsCrossed(k) THEN WallSides(k) ELSE WallSides(k) \cup WallSides(Twin(k))
  BY DEF Wall, Polygon
<1>3. CASE ~IsCrossed(d)
  <2>1. OverWall(d) \in Wall(d).sides
    BY <1>2, <1>3 DEF WallSides, OverWall
  <2>2. OverWall(d) = <<At(d[1], RightAt(d)), At(d[2], LeftAt(Twin(d)))>>
    BY OnRim DEF OverWall, FromLeft, FromRight
  <2>3. OverWall(d) \in WallSides(e) \/ OverWall(d) \in WallSides(Twin(e))
    BY <1>2, <2>1
  <2>4. \A k \in Rim(p) : OverWall(d) \in WallSides(k) => k = d /\ ~IsCrossed(d) /\ OverWall(d) = OverWall(d)
    BY <2>2, SidesOver
  <2>5. e = d \/ Twin(e) = d
    BY <1>1, <2>3, <2>4
  <2> QED
    BY <1>1, <2>5
<1>4. CASE IsCrossed(d)
  <2>1. ToCrossing(d, RightAt(d)) \in Wall(d).sides
    <3>1. ToCrossing(d, RightAt(d)) \in WallSides(d)
      BY <1>4, SidesOfCrossing
    <3> QED
      BY <1>2, <1>4, <3>1
  <2>2. ToCrossing(d, RightAt(d)) \in WallSides(e) \/ ToCrossing(d, RightAt(d)) \in WallSides(Twin(e))
    BY <1>2, <2>1
  <2>3. \A k \in Rim(p) : ToCrossing(d, RightAt(d)) \in WallSides(k) => k = d
    BY <1>4, WallsAtCrossing
  <2>4. e = d \/ Twin(e) = d
    BY <1>1, <2>2, <2>3
  <2> QED
    BY <1>1, <2>4
<1> QED
  BY <1>3, <1>4

(* The walls that have a vertical side. *)
LEMMA WallsWithRise ==
  ASSUME Extruded, GroundIsClear, NEW p \in DOMAIN Floors, NEW v \in Vertices, NEW a, NEW b, a # b
  PROVE  /\ CapsWith(p, <<At(v, a), At(v, b)>>) = {}
         /\ WallsWith(p, <<At(v, a), At(v, b)>>) = {d \in Rim(p) : d[1] = v /\ <<At(v, a), At(v, b)>> \in Rise(d)}
<1> DEFINE s == <<At(v, a), At(v, b)>>
<1>1. s[1] = At(v, a) /\ s[2] = At(v, b)
  OBVIOUS
<1> HIDE DEF s
<1>2. ASSUME NEW d \in Rim(p)
      PROVE  /\ s \notin CapSides(d)
             /\ s \in WallSides(d) <=> s \in Rise(d)
             /\ s \in Rise(d) => d[1] = v /\ IsSteep(d)
  <2>1. /\ d \in Halfedges /\ d[1] \in Vertices /\ d[2] \in Vertices /\ d[1] # d[2] /\ Twin(d)[1] = d[2]
        /\ LeftOf[d] \in CellsAt[d[1]] /\ RightOf[d] \in CellsAt[d[1]]
    BY OnRim
  <2>2. \A w, z : At(w, z) # CrossingPoint(d)
    BY <2>1, PointsOfEdges
  <2>3. \A h, k : ~(s[1] = At(d[1], h) /\ s[2] = At(d[2], k))
    <3> SUFFICES ASSUME NEW h, NEW k, At(v, a) = At(d[1], h), At(v, b) = At(d[2], k) PROVE FALSE
      BY <1>1
    <3>1. v = d[1] /\ v = d[2]
      BY <2>1, PointsAt
    <3> QED
      BY <2>1, <3>1
  <2>4. /\ FromLeft(d) = At(d[1], LeftAt(d)) /\ FromRight(d) = At(d[1], RightAt(d))
        /\ FromLeft(Twin(d)) = At(d[2], LeftAt(Twin(d))) /\ FromRight(Twin(d)) = At(d[2], RightAt(Twin(d)))
    BY <2>1 DEF FromLeft, FromRight
  <2>5. s \notin CapSides(d)
    <3>1. \A t \in CapSides(d) : \/ t[2] = CrossingPoint(d)
                                 \/ t[1] = CrossingPoint(d)
                                 \/ t[1] = FromLeft(d) /\ t[2] = FromRight(Twin(d))
      BY DEF CapSides
    <3> QED
      BY <1>1, <2>2, <2>3, <2>4, <3>1
  <2>6. s \in WallSides(d) <=> s \in Rise(d)
    <3>1. \A t \in WallSides(d) : \/ t \in Rise(d)
                                  \/ t[2] = CrossingPoint(d)
                                  \/ t[1] = CrossingPoint(d)
                                  \/ t[1] = FromRight(d) /\ t[2] = FromLeft(Twin(d))
      BY DEF WallSides
    <3>2. Rise(d) \subseteq WallSides(d)
      BY DEF WallSides
    <3> QED
      BY <1>1, <2>2, <2>3, <2>4, <3>1, <3>2
  <2>7. ASSUME s \in Rise(d) PROVE d[1] = v /\ IsSteep(d)
    <3>1. s \in Climb(d[1], Z(d[1], LeftOf[d]), Z(d[1], RightOf[d]), OtherHeights(d[1], FaceAt(RightOf[d]), FaceAt(LeftOf[d])))
      BY <2>7 DEF Rise, LeftAt, RightAt
    <3>2. PICK x, y \in LevelsAt(d[1]) :
             /\ Follow(d[1], x, y)
             /\ \/ Z(d[1], LeftOf[d]) <= x /\ y <= Z(d[1], RightOf[d]) /\ s = <<At(d[1], x), At(d[1], y)>>
                \/ Z(d[1], RightOf[d]) <= x /\ y <= Z(d[1], LeftOf[d]) /\ s = <<At(d[1], y), At(d[1], x)>>
      BY <2>1, <3>1, ClimbIs
    <3>3. x \in Int /\ y \in Int /\ Z(d[1], LeftOf[d]) \in Int /\ Z(d[1], RightOf[d]) \in Int
      BY <2>1, LevelsAreNumbers, CellHeights
    <3>4. LeftAt(d) # RightAt(d)
      BY <3>2, <3>3 DEF Follow, LeftAt, RightAt
    <3>5. PICK z : At(v, a) = At(d[1], z)
      BY <1>1, <3>2
    <3>6. d[1] = v
      BY <2>1, <3>5, PointsAt
    <3> QED
      BY <3>4, <3>6 DEF IsSteep
  <2> QED
    BY <2>5, <2>6, <2>7
<1>3. CapsWith(p, s) = {} /\ WallsWith(p, s) = {d \in Rim(p) : d[1] = v /\ s \in Rise(d)}
  BY <1>2 DEF CapsWith, WallsWith
<1> QED
  BY <1>3 DEF s

(* Levels split the cells at a vertex into low ones and high ones. *)
IsLow(v, c, x) == Z(v, c) <= x
Up(v, x, y) == <<At(v, x), At(v, y)>>

LEMMA LowOrHigh ==
  ASSUME Extruded, GroundIsClear, NEW v \in Vertices, NEW x \in LevelsAt(v), NEW y \in LevelsAt(v), Follow(v, x, y),
         NEW c \in CellsAt[v]
  PROVE  ~IsLow(v, c, x) <=> y <= Z(v, c)
<1>1. x \in Int /\ y \in Int /\ Z(v, c) \in Int /\ Z(v, c) \in LevelsAt(v)
  BY LevelsAreNumbers, CellHeights DEF LevelsAt
<1>2. x < y /\ ~(x < Z(v, c) /\ Z(v, c) < y)
  BY <1>1 DEF Follow
<1> QED
  BY <1>1, <1>2 DEF IsLow

(* A wall rises, or falls, between two levels that its faces lie apart. *)
LEMMA RisesOfHalfedge ==
  ASSUME Extruded, GroundIsClear, NEW p \in DOMAIN Floors,
         NEW v \in Vertices, NEW x \in LevelsAt(v), NEW y \in LevelsAt(v), Follow(v, x, y), NEW d \in Rim(p), d[1] = v
  PROVE  /\ Up(v, x, y) \in Rise(d) <=> IsLow(v, LeftOf[d], x) /\ ~IsLow(v, RightOf[d], x)
         /\ Up(v, y, x) \in Rise(d) <=> ~IsLow(v, LeftOf[d], x) /\ IsLow(v, RightOf[d], x)
<1> DEFINE c == LeftOf[d]  k == RightOf[d]
<1>1. c \in CellsAt[v] /\ k \in CellsAt[v]
  BY OnRim
<1>2. Rise(d) = Climb(v, Z(v, c), Z(v, k), OtherHeights(v, FaceAt(k), FaceAt(c)))
  BY DEF Rise, LeftAt, RightAt
<1>3. x \in Int /\ y \in Int /\ x < y /\ Z(v, c) \in Int /\ Z(v, k) \in Int
  BY <1>1, LevelsAreNumbers, CellHeights DEF Follow
<1>4. (~IsLow(v, c, x) <=> y <= Z(v, c)) /\ (~IsLow(v, k, x) <=> y <= Z(v, k))
  BY <1>1, LowOrHigh
<1> HIDE DEF c, k
<1>5. \A s : s \in Rise(d) <=>
           \E h, j \in LevelsAt(v) :
             /\ Follow(v, h, j)
             /\ \/ Z(v, c) <= h /\ j <= Z(v, k) /\ s = <<At(v, h), At(v, j)>>
                \/ Z(v, k) <= h /\ j <= Z(v, c) /\ s = <<At(v, j), At(v, h)>>
  BY <1>1, <1>2, ClimbIs
<1>6. \A h, j, l, m : <<At(v, h), At(v, j)>> = <<At(v, l), At(v, m)>> => h = l /\ j = m
  BY PointsAt
<1>7. \A h, j \in LevelsAt(v) : Follow(v, h, j) => h < j /\ h \in Int /\ j \in Int
  BY LevelsAreNumbers DEF Follow
<1>8. Up(v, x, y) \in Rise(d) <=> Z(v, c) <= x /\ y <= Z(v, k)
  <2>1. ASSUME Up(v, x, y) \in Rise(d) PROVE Z(v, c) <= x /\ y <= Z(v, k)
    <3>1. PICK h, j \in LevelsAt(v) :
             /\ Follow(v, h, j)
             /\ \/ Z(v, c) <= h /\ j <= Z(v, k) /\ Up(v, x, y) = <<At(v, h), At(v, j)>>
                \/ Z(v, k) <= h /\ j <= Z(v, c) /\ Up(v, x, y) = <<At(v, j), At(v, h)>>
      BY <1>5, <2>1
    <3>2. h < j /\ h \in Int /\ j \in Int
      BY <1>7, <3>1
    <3>3. ~(Up(v, x, y) = <<At(v, j), At(v, h)>>)
      <4> SUFFICES ASSUME Up(v, x, y) = <<At(v, j), At(v, h)>> PROVE FALSE
        OBVIOUS
      <4>1. x = j /\ y = h
        BY <1>6 DEF Up
      <4> QED
        BY <1>3, <3>2, <4>1
    <3>4. Up(v, x, y) = <<At(v, h), At(v, j)>> => x = h /\ y = j
      BY <1>6 DEF Up
    <3> QED
      BY <3>1, <3>3, <3>4
  <2>2. ASSUME Z(v, c) <= x, y <= Z(v, k) PROVE Up(v, x, y) \in Rise(d)
    BY <1>5, <2>2 DEF Up
  <2> QED
    BY <2>1, <2>2
<1>9. Up(v, y, x) \in Rise(d) <=> Z(v, k) <= x /\ y <= Z(v, c)
  <2>1. ASSUME Up(v, y, x) \in Rise(d) PROVE Z(v, k) <= x /\ y <= Z(v, c)
    <3>1. PICK h, j \in LevelsAt(v) :
             /\ Follow(v, h, j)
             /\ \/ Z(v, c) <= h /\ j <= Z(v, k) /\ Up(v, y, x) = <<At(v, h), At(v, j)>>
                \/ Z(v, k) <= h /\ j <= Z(v, c) /\ Up(v, y, x) = <<At(v, j), At(v, h)>>
      BY <1>5, <2>1
    <3>2. h < j /\ h \in Int /\ j \in Int
      BY <1>7, <3>1
    <3>3. ~(Up(v, y, x) = <<At(v, h), At(v, j)>>)
      <4> SUFFICES ASSUME Up(v, y, x) = <<At(v, h), At(v, j)>> PROVE FALSE
        OBVIOUS
      <4>1. y = h /\ x = j
        BY <1>6 DEF Up
      <4> QED
        BY <1>3, <3>2, <4>1
    <3>4. Up(v, y, x) = <<At(v, j), At(v, h)>> => x = h /\ y = j
      BY <1>6 DEF Up
    <3> QED
      BY <3>1, <3>3, <3>4
  <2>2. ASSUME Z(v, k) <= x, y <= Z(v, c) PROVE Up(v, y, x) \in Rise(d)
    BY <1>5, <2>2 DEF Up
  <2> QED
    BY <2>1, <2>2
<1>10. /\ Up(v, x, y) \in Rise(d) <=> IsLow(v, c, x) /\ ~IsLow(v, k, x)
       /\ Up(v, y, x) \in Rise(d) <=> ~IsLow(v, c, x) /\ IsLow(v, k, x)
  BY <1>3, <1>4, <1>8, <1>9 DEF IsLow
<1> QED
  BY <1>10 DEF c, k

(* A halfedge out of a vertex where a level is passed is on the rim. *)
LEMMA PassesAreOnRim ==
  ASSUME Extruded, GroundIsClear, NEW p \in DOMAIN Floors, NEW v \in Vertices, NEW x, NEW d \in Rim(p), d[1] = v,
         NEW e, e[1] = v, NEW c \in CellsAt[v], NEW k \in CellsAt[v],
         e \in Halfedges => LeftOf[e] = c /\ RightOf[e] = k,
         c \in Inner \/ k \in Inner => e \in Halfedges,
         IsLow(v, c, x) # IsLow(v, k, x)
  PROVE  e \in Rim(p)
<1>1. c \in Cells /\ k \in Cells
  BY CellsAround
<1>2. FaceAt(c) # FaceAt(k)
  BY DEF IsLow, Z
<1>3. ~(c \in Out /\ k \in Out)
  <2> SUFFICES ASSUME c \in Out, k \in Out PROVE FALSE
    OBVIOUS
  <2>1. Z(v, c) = Z(v, k)
    BY CellHeights
  <2> QED
    BY <2>1 DEF IsLow
<1>4. PICK j \in CellsAt[v] : j \in Part(p)
  <2>1. LeftOf[d] \in CellsAt[v] /\ RightOf[d] \in CellsAt[v]
    BY OnRim
  <2> QED
    BY <2>1 DEF Rim
<1>5. j \in Inside /\ PartId(FaceAt(j)) = p
  <2>1. j \in Cells
    BY CellsAround
  <2> QED
    BY <1>4, <2>1, CellsOfFaces
<1>6. \A l \in CellsAt[v] : l \in Inside => l \in Part(p)
  <2> SUFFICES ASSUME NEW l \in CellsAt[v], l \in Inside PROVE l \in Part(p)
    OBVIOUS
  <2>1. PartId(FaceAt(l)) = p /\ l \in Cells
    BY <1>5, OnePartAt, CellsOfFaces
  <2> QED
    BY <2>1, CellsOfFaces
<1>7. c \in Inside \/ k \in Inside
  BY <1>1, <1>3 DEF Out
<1>8. e \in Halfedges
  BY <1>7, Ready
<1> QED
  BY <1>2, <1>6, <1>7, <1>8 DEF Rim

LEMMA PassesOf ==
  ASSUME Extruded, GroundIsClear, NEW p \in DOMAIN Floors,
         NEW v \in Vertices, NEW x \in LevelsAt(v), NEW y \in LevelsAt(v), Follow(v, x, y),
         NEW d \in Rim(p), d[1] = v, NEW e, e[1] = v, NEW c \in CellsAt[v], NEW k \in CellsAt[v],
         e \in Halfedges => LeftOf[e] = c /\ RightOf[e] = k,
         c \in Inner \/ k \in Inner => e \in Halfedges
  PROVE  /\ e \in WallsWith(p, Up(v, x, y)) <=> IsLow(v, c, x) /\ ~IsLow(v, k, x)
         /\ e \in WallsWith(p, Up(v, y, x)) <=> ~IsLow(v, c, x) /\ IsLow(v, k, x)
<1>1. x # y
  BY LevelsAreNumbers DEF Follow
<1>2. /\ WallsWith(p, Up(v, x, y)) = {b \in Rim(p) : b[1] = v /\ Up(v, x, y) \in Rise(b)}
      /\ WallsWith(p, Up(v, y, x)) = {b \in Rim(p) : b[1] = v /\ Up(v, y, x) \in Rise(b)}
  BY <1>1, WallsWithRise DEF Up
<1>3. ASSUME e \in Rim(p)
      PROVE  /\ Up(v, x, y) \in Rise(e) <=> IsLow(v, c, x) /\ ~IsLow(v, k, x)
             /\ Up(v, y, x) \in Rise(e) <=> ~IsLow(v, c, x) /\ IsLow(v, k, x)
  <2>1. LeftOf[e] = c /\ RightOf[e] = k
    BY <1>3 DEF Rim
  <2> QED
    BY <1>3, <2>1, RisesOfHalfedge
<1>4. IsLow(v, c, x) # IsLow(v, k, x) => e \in Rim(p)
  BY PassesAreOnRim
<1>5. IsLow(v, c, x) \in BOOLEAN /\ IsLow(v, k, x) \in BOOLEAN
  BY DEF IsLow
<1> QED
  BY <1>2, <1>3, <1>4, <1>5

LEMMA FourOut ==
  ASSUME NEW v \in Vertices
  PROVE  /\ \A e \in Halfedges : e[1] = v => e \in {<<v, East(v)>>, <<v, North(v)>>, <<v, West(v)>>, <<v, South(v)>>}
         /\ <<v, East(v)>> # <<v, North(v)>> /\ <<v, East(v)>> # <<v, West(v)>> /\ <<v, East(v)>> # <<v, South(v)>>
         /\ <<v, North(v)>> # <<v, West(v)>> /\ <<v, North(v)>> # <<v, South(v)>> /\ <<v, West(v)>> # <<v, South(v)>>
<1>1. \A e \in Halfedges : e = <<e[1], e[2]>> /\ e[2] \in {East(e[1]), North(e[1]), West(e[1]), South(e[1])}
  BY HalfedgesOut
<1>2. v[1] \in Int /\ v[2] \in Int
  BY CellsAround
<1>3. /\ East(v) # North(v) /\ East(v) # West(v) /\ East(v) # South(v)
      /\ North(v) # West(v) /\ North(v) # South(v) /\ West(v) # South(v)
  BY <1>2 DEF East, North, West, South
<1> QED
  BY <1>1, <1>3

(* The polygons with a vertical side are as many as the walls. *)
LEMMA AlongRise ==
  ASSUME Extruded, GroundIsClear, NEW p \in DOMAIN Floors, NEW v \in Vertices, NEW a, NEW b, a # b,
         IsFiniteSet(WallsWith(p, Up(v, a, b)))
  PROVE  Along(multisolid[p], Up(v, a, b)) = Cardinality(WallsWith(p, Up(v, a, b)))
<1> DEFINE W == WallsWith(p, Up(v, a, b))
           T == {Wall(d) : d \in W}
           f == [d \in W |-> Wall(d)]
<1>1. CapsWith(p, Up(v, a, b)) = {} /\ \A d \in W : d \in Rim(p) /\ d[1] = v
  BY WallsWithRise DEF Up
<1>2. {q \in multisolid[p] : Up(v, a, b) \in q.sides} = T
  BY <1>1, PolygonsWithSide
<1>3. \A d, e \in W : Wall(d) = Wall(e) => d = e
  BY <1>1, WallsDiffer
<1>4. Along(multisolid[p], Up(v, a, b)) = Cardinality(T)
  BY <1>2 DEF Along
<1> HIDE DEF W
<1>5. f \in Injection(W, T)
  BY <1>3 DEF Injection, IsInjective
<1>6. f \in Surjection(W, T)
  BY DEF Surjection
<1> HIDE DEF f, T
<1>7. ExistsBijection(W, T)
  BY <1>5, <1>6 DEF ExistsBijection, Bijection
<1>8. Cardinality(T) = Cardinality(W)
  <2>1. IsFiniteSet(W)
    BY DEF W
  <2> QED
    BY <1>7, <2>1, FS_Bijection
<1> QED
  BY <1>4, <1>8 DEF W

Passes(v, c, k, x) == IF IsLow(v, c, x) /\ ~IsLow(v, k, x) THEN 1 ELSE 0

LEMMA AlongIsCounted ==
  ASSUME Extruded, GroundIsClear, NEW p \in DOMAIN Floors,
         NEW v \in Vertices, NEW x \in LevelsAt(v), NEW y \in LevelsAt(v), Follow(v, x, y), NEW d \in Rim(p), d[1] = v
  PROVE  /\ Along(multisolid[p], Up(v, x, y))
              = Passes(v, Cell1(v), Cell4(v), x) + Passes(v, Cell2(v), Cell1(v), x)
                + Passes(v, Cell3(v), Cell2(v), x) + Passes(v, Cell4(v), Cell3(v), x)
         /\ Along(multisolid[p], Up(v, y, x))
              = Passes(v, Cell4(v), Cell1(v), x) + Passes(v, Cell1(v), Cell2(v), x)
                + Passes(v, Cell2(v), Cell3(v), x) + Passes(v, Cell3(v), Cell4(v), x)
<1> DEFINE U == WallsWith(p, Up(v, x, y))
           D == WallsWith(p, Up(v, y, x))
           e1 == <<v, East(v)>>  e2 == <<v, North(v)>>  e3 == <<v, West(v)>>  e4 == <<v, South(v)>>
<1>1. Cell1(v) \in CellsAt[v] /\ Cell2(v) \in CellsAt[v] /\ Cell3(v) \in CellsAt[v] /\ Cell4(v) \in CellsAt[v]
  BY CellsAround
<1>2. /\ e1 \in Halfedges => LeftOf[e1] = Cell1(v) /\ RightOf[e1] = Cell4(v)
      /\ e2 \in Halfedges => LeftOf[e2] = Cell2(v) /\ RightOf[e2] = Cell1(v)
      /\ e3 \in Halfedges => LeftOf[e3] = Cell3(v) /\ RightOf[e3] = Cell2(v)
      /\ e4 \in Halfedges => LeftOf[e4] = Cell4(v) /\ RightOf[e4] = Cell3(v)
  BY LeftCells, RightCells
<1>3. /\ Cell1(v) \in Inner \/ Cell4(v) \in Inner => e1 \in Halfedges
      /\ Cell2(v) \in Inner \/ Cell1(v) \in Inner => e2 \in Halfedges
      /\ Cell3(v) \in Inner \/ Cell2(v) \in Inner => e3 \in Halfedges
      /\ Cell4(v) \in Inner \/ Cell3(v) \in Inner => e4 \in Halfedges
  BY EdgesOut
<1>4. /\ e1 # e2 /\ e1 # e3 /\ e1 # e4 /\ e2 # e3 /\ e2 # e4 /\ e3 # e4
      /\ e1[1] = v /\ e2[1] = v /\ e3[1] = v /\ e4[1] = v
  BY FourOut
<1>5. x # y
  BY LevelsAreNumbers DEF Follow
<1>6. U \subseteq {e1, e2, e3, e4} /\ D \subseteq {e1, e2, e3, e4}
  <2>1. /\ U = {b \in Rim(p) : b[1] = v /\ Up(v, x, y) \in Rise(b)}
        /\ D = {b \in Rim(p) : b[1] = v /\ Up(v, y, x) \in Rise(b)}
    BY <1>5, WallsWithRise DEF Up
  <2>2. \A b \in Rim(p) : b \in Halfedges
    BY DEF Rim
  <2>3. \A b \in Halfedges : b[1] = v => b \in {e1, e2, e3, e4}
    BY FourOut
  <2> HIDE DEF U, D, e1, e2, e3, e4
  <2> QED
    BY <2>1, <2>2, <2>3
<1> HIDE DEF e1, e2, e3, e4
<1>7. /\ e1 \in U <=> IsLow(v, Cell1(v), x) /\ ~IsLow(v, Cell4(v), x)
      /\ e1 \in D <=> ~IsLow(v, Cell1(v), x) /\ IsLow(v, Cell4(v), x)
  BY <1>1, <1>2, <1>3, <1>4, PassesOf
<1>8. /\ e2 \in U <=> IsLow(v, Cell2(v), x) /\ ~IsLow(v, Cell1(v), x)
      /\ e2 \in D <=> ~IsLow(v, Cell2(v), x) /\ IsLow(v, Cell1(v), x)
  BY <1>1, <1>2, <1>3, <1>4, PassesOf
<1>9. /\ e3 \in U <=> IsLow(v, Cell3(v), x) /\ ~IsLow(v, Cell2(v), x)
      /\ e3 \in D <=> ~IsLow(v, Cell3(v), x) /\ IsLow(v, Cell2(v), x)
  BY <1>1, <1>2, <1>3, <1>4, PassesOf
<1>10. /\ e4 \in U <=> IsLow(v, Cell4(v), x) /\ ~IsLow(v, Cell3(v), x)
       /\ e4 \in D <=> ~IsLow(v, Cell4(v), x) /\ IsLow(v, Cell3(v), x)
  BY <1>1, <1>2, <1>3, <1>4, PassesOf
<1>11. /\ Has(U, e1) = Passes(v, Cell1(v), Cell4(v), x) /\ Has(D, e1) = Passes(v, Cell4(v), Cell1(v), x)
       /\ Has(U, e2) = Passes(v, Cell2(v), Cell1(v), x) /\ Has(D, e2) = Passes(v, Cell1(v), Cell2(v), x)
       /\ Has(U, e3) = Passes(v, Cell3(v), Cell2(v), x) /\ Has(D, e3) = Passes(v, Cell2(v), Cell3(v), x)
       /\ Has(U, e4) = Passes(v, Cell4(v), Cell3(v), x) /\ Has(D, e4) = Passes(v, Cell3(v), Cell4(v), x)
  <2> HIDE DEF U, D
  <2> QED
    BY <1>7, <1>8, <1>9, <1>10 DEF Has, Passes
<1> HIDE DEF U, D
<1>12. /\ IsFiniteSet(U) /\ Cardinality(U) = Has(U, e1) + Has(U, e2) + Has(U, e3) + Has(U, e4)
       /\ IsFiniteSet(D) /\ Cardinality(D) = Has(D, e1) + Has(D, e2) + Has(D, e3) + Has(D, e4)
  BY <1>4, <1>6, CountOfFour
<1>13. Along(multisolid[p], Up(v, x, y)) = Cardinality(U) /\ Along(multisolid[p], Up(v, y, x)) = Cardinality(D)
  <2>1. Along(multisolid[p], Up(v, x, y)) = Cardinality(WallsWith(p, Up(v, x, y)))
    BY <1>5, <1>12, AlongRise DEF U
  <2>2. Along(multisolid[p], Up(v, y, x)) = Cardinality(WallsWith(p, Up(v, y, x)))
    BY <1>5, <1>12, AlongRise DEF D
  <2> QED
    BY <2>1, <2>2 DEF U, D
<1> QED
  BY <1>11, <1>12, <1>13

(* Around a vertex a level is passed upwards as often as downwards. *)
Alternates(v, x) ==
  /\ IsLow(v, Cell1(v), x) <=> IsLow(v, Cell3(v), x)
  /\ IsLow(v, Cell2(v), x) <=> IsLow(v, Cell4(v), x)
  /\ IsLow(v, Cell1(v), x) <=> ~IsLow(v, Cell2(v), x)

LEMMA RisesBalance ==
  ASSUME Extruded, GroundIsClear, NEW p \in DOMAIN Floors,
         NEW v \in Vertices, NEW x \in LevelsAt(v), NEW y \in LevelsAt(v), Follow(v, x, y), NEW d \in Rim(p), d[1] = v
  PROVE  /\ Along(multisolid[p], Up(v, x, y)) = Along(multisolid[p], Up(v, y, x))
         /\ Along(multisolid[p], Up(v, x, y)) \in {0, 1} \/ Alternates(v, x)
<1> DEFINE a == IsLow(v, Cell1(v), x)
           b == IsLow(v, Cell2(v), x)
           c == IsLow(v, Cell3(v), x)
           k == IsLow(v, Cell4(v), x)
<1>1. Alternates(v, x) <=> (a <=> c) /\ (b <=> k) /\ (a <=> ~b)
  BY DEF Alternates
<1>2. /\ Along(multisolid[p], Up(v, x, y))
           = (IF a /\ ~k THEN 1 ELSE 0) + (IF b /\ ~a THEN 1 ELSE 0) + (IF c /\ ~b THEN 1 ELSE 0) + (IF k /\ ~c THEN 1 ELSE 0)
      /\ Along(multisolid[p], Up(v, y, x))
           = (IF k /\ ~a THEN 1 ELSE 0) + (IF a /\ ~b THEN 1 ELSE 0) + (IF b /\ ~c THEN 1 ELSE 0) + (IF c /\ ~k THEN 1 ELSE 0)
  BY AlongIsCounted DEF Passes
<1>3. a \in BOOLEAN /\ b \in BOOLEAN /\ c \in BOOLEAN /\ k \in BOOLEAN
  BY DEF IsLow
<1> HIDE DEF a, b, c, k
<1> QED
  BY <1>1, <1>2, <1>3

-----------------------------------------------------------------------------
(***************************************************************************)
(* No level is passed more than twice around a snapped vertex.             *)
(***************************************************************************)
LEMMA LeastIs ==
  ASSUME NEW V, \A k \in V : k \in Int, NEW y \in V, \A k \in V : y <= k
  PROVE  Min(V) = y
<1>1. Min(V) \in V /\ \A k \in V : Min(V) <= k
  BY DEF Min
<1> QED
  BY <1>1

LEMMA SampleBetween ==
  ASSUME NEW H, IsFiniteSet(H), H \subseteq Int, NEW x \in H, NEW y \in H, x < y, \A z \in H : ~(x < z /\ z < y)
  PROVE  x + y \in J!Samples(H)
<1>1. Max(H) \in H /\ \A k \in H : k <= Max(H)
  <2>1. H # {}
    OBVIOUS
  <2> QED
    BY <2>1, MaxIsGreatest
<1>2. x \in Int /\ y \in Int /\ \A k \in H : k \in Int
  OBVIOUS
<1>3. x # Max(H)
  BY <1>1, <1>2
<1> DEFINE V == {k \in H : k > x}
<1>4. (\A k \in V : k \in Int) /\ y \in V /\ \A k \in V : y <= k
  BY <1>2
<1> HIDE DEF V
<1>5. Min(V) = y
  BY <1>4, LeastIs
<1>6. J!Samples(H) = {l + Min({k \in H : k > l}) : l \in H \ {Max(H)}}
  BY JunctionCounts DEF J!Samples
<1>7. x \in H \ {Max(H)} /\ x + Min({k \in H : k > x}) = x + y
  BY <1>3, <1>5 DEF V
<1> HIDE <1>1, <1>2
<1> QED
  BY <1>6, <1>7

LEMMA FourIsFour ==
  ASSUME NEW S, NEW a, NEW b, NEW c, NEW d, a # b, a # c, a # d, b # c, b # d, c # d, S = {a, b, c, d}
  PROVE  Cardinality(S) = 4
<1>1. Has(S, a) = 1 /\ Has(S, b) = 1 /\ Has(S, c) = 1 /\ Has(S, d) = 1
  BY DEF Has
<1>2. Cardinality(S) = Has(S, a) + Has(S, b) + Has(S, c) + Has(S, d)
  BY CountOfFour
<1> QED
  BY <1>1, <1>2

LEMMA FourPasses ==
  ASSUME NEW s, NEW t \in Int, DOMAIN s = 1 .. 4,
         J!Previous(s, 1) = 4, J!Previous(s, 2) = 1, J!Previous(s, 3) = 2, J!Previous(s, 4) = 3,
         NEW H, H = {s[i].height : i \in DOMAIN s}, IsFiniteSet(H), H \subseteq Int,
         \A h, k \in H : h < k => k - h >= t,
         NEW x \in H, NEW y \in H, x < y, \A z \in H : ~(x < z /\ z < y),
         \/ s[1].height <= x /\ y <= s[2].height /\ s[3].height <= x /\ y <= s[4].height
         \/ s[2].height <= x /\ y <= s[1].height /\ s[4].height <= x /\ y <= s[3].height
  PROVE  J!HasNonManifoldHeightOrder(s, t)
<1>1. x + y \in J!Samples(H)
  BY SampleBetween
<1>2. {J!Levelled(H, t)[h] : h \in H} = H
  <2>1. ASSUME NEW h \in H PROVE J!Levelled(H, t)[h] = h
    <3>1. \A k \in H : ~(h - t < k /\ k < h)
      <4> SUFFICES ASSUME NEW k \in H, h - t < k, k < h PROVE FALSE
        OBVIOUS
      <4>1. h - k >= t /\ h \in Int /\ k \in Int
        OBVIOUS
      <4> QED
        BY <4>1
    <3> QED
      BY <3>1, LevelsStay
  <2> QED
    BY <2>1
<1> DEFINE Crosses0(i, z) == LET l == 2 * s[J!Previous(s, i)].height  r == 2 * s[i].height
                             IN (l < z /\ z < r) \/ (r < z /\ z < l)
           B == {i \in DOMAIN s : Crosses0(i, x + y)}
<1>3. s[1].height \in Int /\ s[2].height \in Int /\ s[3].height \in Int /\ s[4].height \in Int
  <2>1. \A i \in DOMAIN s : s[i].height \in H
    BY Zenon
  <2>2. 1 \in DOMAIN s /\ 2 \in DOMAIN s /\ 3 \in DOMAIN s /\ 4 \in DOMAIN s
    OBVIOUS
  <2> QED
    BY <2>1, <2>2
<1>4. x \in Int /\ y \in Int
  OBVIOUS
<1>5. Crosses0(1, x + y) /\ Crosses0(2, x + y) /\ Crosses0(3, x + y) /\ Crosses0(4, x + y)
  BY <1>3, <1>4
<1>6. B = {1, 2, 3, 4}
  BY <1>5
<1>7. J!HasNonManifoldHeightOrder(s, t) <=>
        \E z \in J!Samples(H) : Cardinality({i \in DOMAIN s : Crosses0(i, z)}) > 2
  <2>1. J!HasNonManifoldHeightOrder(s, t) <=>
          \E z \in J!Samples({J!Levelled({s[i].height : i \in DOMAIN s}, t)[h] : h \in {s[i].height : i \in DOMAIN s}}) :
             J!Cardinality({i \in DOMAIN s : Crosses0(i, z)}) > 2
    BY Zenon DEF J!HasNonManifoldHeightOrder
  <2>2. {s[i].height : i \in DOMAIN s} = H
    OBVIOUS
  <2> HIDE DEF Crosses0
  <2>3. J!HasNonManifoldHeightOrder(s, t) <=>
          \E z \in J!Samples({J!Levelled(H, t)[h] : h \in H}) :
             J!Cardinality({i \in DOMAIN s : Crosses0(i, z)}) > 2
    BY Zenon, <2>1, <2>2
  <2>4. \A X : J!Cardinality(X) = Cardinality(X)
    BY JunctionCounts
  <2> QED
    BY Zenon, <1>2, <2>3, <2>4
<1> HIDE DEF B
<1>8. Cardinality(B) = 4
  <2>1. 1 # 2 /\ 1 # 3 /\ 1 # 4 /\ 2 # 3 /\ 2 # 4 /\ 3 # 4
    OBVIOUS
  <2> QED
    BY Zenon, <1>6, <2>1, FourIsFour
<1>9. Cardinality({i \in DOMAIN s : Crosses0(i, x + y)}) > 2
  BY <1>8 DEF B
<1> HIDE DEF Crosses0
<1> QED
  BY Zenon, <1>1, <1>7, <1>9

LEMMA FacesAlternate ==
  ASSUME Extruded, GroundIsClear, NEW v \in Vertices, NEW x, Alternates(v, x)
  PROVE  /\ FaceAt(Cell1(v)) # FaceAt(Cell2(v)) /\ FaceAt(Cell2(v)) # FaceAt(Cell3(v))
         /\ FaceAt(Cell3(v)) # FaceAt(Cell4(v)) /\ FaceAt(Cell4(v)) # FaceAt(Cell1(v))
         /\ ~(Cell1(v) \in Out /\ Cell2(v) \in Out) /\ ~(Cell2(v) \in Out /\ Cell3(v) \in Out)
         /\ ~(Cell3(v) \in Out /\ Cell4(v) \in Out) /\ ~(Cell4(v) \in Out /\ Cell1(v) \in Out)
<1>1. Cell1(v) \in CellsAt[v] /\ Cell2(v) \in CellsAt[v] /\ Cell3(v) \in CellsAt[v] /\ Cell4(v) \in CellsAt[v]
  BY CellsAround
<1>2. /\ IsLow(v, Cell1(v), x) # IsLow(v, Cell2(v), x) /\ IsLow(v, Cell2(v), x) # IsLow(v, Cell3(v), x)
      /\ IsLow(v, Cell3(v), x) # IsLow(v, Cell4(v), x) /\ IsLow(v, Cell4(v), x) # IsLow(v, Cell1(v), x)
  BY DEF Alternates, IsLow
<1>3. \A c, k \in CellsAt[v] : IsLow(v, c, x) # IsLow(v, k, x) => FaceAt(c) # FaceAt(k) /\ ~(c \in Out /\ k \in Out)
  <2> SUFFICES ASSUME NEW c \in CellsAt[v], NEW k \in CellsAt[v], FaceAt(c) = FaceAt(k) \/ (c \in Out /\ k \in Out)
               PROVE  IsLow(v, c, x) = IsLow(v, k, x)
    OBVIOUS
  <2>1. Z(v, c) = Z(v, k)
    BY CellHeights DEF Z
  <2> QED
    BY <2>1 DEF IsLow
<1> QED
  BY <1>1, <1>2, <1>3

(* Between flat roofs there is terrain. *)
LEMMA FlatNeverAlternates ==
  ASSUME Extruded, GroundIsClear, site.lod = 12, NEW v \in Vertices, NEW x
  PROVE  ~Alternates(v, x)
<1> SUFFICES ASSUME Alternates(v, x) PROVE FALSE
  OBVIOUS
<1>1. RoofsApart
  BY DEF Extruded, BuildingInv, FlatInv, Late
<1>2. /\ Cell1(v) \in Cells /\ Cell2(v) \in Cells /\ Cell3(v) \in Cells /\ Cell4(v) \in Cells
      /\ Cell2(v) \in Beside[Cell1(v)] /\ Cell3(v) \in Beside[Cell2(v)]
      /\ Cell4(v) \in Beside[Cell3(v)] /\ Cell1(v) \in Beside[Cell4(v)]
  BY NextCells
<1>3. \A c \in Cells : \A k \in Beside[c] : k \in Cells /\ FaceAt(c) # FaceAt(k) => c \in Out \/ k \in Out
  <2> SUFFICES ASSUME NEW c \in Cells, NEW k \in Beside[c], k \in Cells, FaceAt(c) # FaceAt(k), c \in Inside, k \in Inside
               PROVE  FALSE
    BY DEF Out
  <2>1. /\ FaceAt(c) \in Faces /\ InFootprint(FaceAt(c)) /\ c \in FaceAt(c)
        /\ FaceAt(k) \in Faces /\ InFootprint(FaceAt(k)) /\ k \in FaceAt(k)
    BY CellsOfFaces
  <2>2. Touch(FaceAt(c), FaceAt(k))
    BY <2>1 DEF Touch
  <2> QED
    BY <1>1, <2>1, <2>2 DEF RoofsApart, FootprintFaces
<1>4. /\ Cell1(v) \in Out /\ Cell3(v) \in Out => Cell2(v) \in Out \/ Cell4(v) \in Out
      /\ Cell2(v) \in Out /\ Cell4(v) \in Out => Cell1(v) \in Out \/ Cell3(v) \in Out
  BY NoDiagonalsOutside DEF NoDiagonals
<1>5. /\ FaceAt(Cell1(v)) # FaceAt(Cell2(v)) /\ FaceAt(Cell2(v)) # FaceAt(Cell3(v))
      /\ FaceAt(Cell3(v)) # FaceAt(Cell4(v)) /\ FaceAt(Cell4(v)) # FaceAt(Cell1(v))
      /\ ~(Cell1(v) \in Out /\ Cell2(v) \in Out) /\ ~(Cell2(v) \in Out /\ Cell3(v) \in Out)
      /\ ~(Cell3(v) \in Out /\ Cell4(v) \in Out) /\ ~(Cell4(v) \in Out /\ Cell1(v) \in Out)
  BY FacesAlternate
<1>6. /\ Cell1(v) \in Out \/ Cell2(v) \in Out
      /\ Cell2(v) \in Out \/ Cell3(v) \in Out
      /\ Cell3(v) \in Out \/ Cell4(v) \in Out
      /\ Cell4(v) \in Out \/ Cell1(v) \in Out
  BY <1>2, <1>3, <1>5
<1> QED
  BY <1>4, <1>5, <1>6

(* The sectors of a snapped vertex are at the heights of the solid. *)
LEMMA HeightsOfSectors ==
  ASSUME Extruded, GroundIsClear, HeightsAreApart, site.lod = 22, NEW v \in Vertices, NEW c \in CellsAt[v]
  PROVE  Sector(v, c).height = Z(v, c)
<1>1. c \in Cells
  BY CellsAround
<1>2. FaceAt(c) \in Faces
  BY <1>1, CellsOfFaces
<1>3. InFootprint(FaceAt(c)) <=> OnRoof(FaceAt(c))
  BY <1>2, Ready DEF FootprintFaces, OnRoof
<1>4. Sector(v, c).height = IF OnRoof(FaceAt(c)) THEN HeightOn(arrangement[FaceAt(c)].plane, 2 * v[1], 2 * v[2])
                            ELSE site.ground
  BY DEF Sector
<1>5. /\ ~InFootprint(FaceAt(c)) => FaceHeight(FaceAt(c), v) = site.ground
      /\ InFootprint(FaceAt(c)) => FaceHeight(FaceAt(c), v) = HeightOn(arrangement[FaceAt(c)].plane, 2 * v[1], 2 * v[2])
  BY <1>2, FaceHeightsAreNumbers
<1>6. Z(v, c) = FaceHeight(FaceAt(c), v)
  BY ApartHeights
<1> QED
  BY <1>3, <1>4, <1>5, <1>6

LEMMA SlopesNeverAlternate ==
  ASSUME Extruded, GroundIsClear, HeightsAreApart, site.lod = 22,
         NEW v \in Vertices, NEW x \in LevelsAt(v), NEW y \in LevelsAt(v), Follow(v, x, y)
  PROVE  ~Alternates(v, x)
<1> SUFFICES ASSUME Alternates(v, x) PROVE FALSE
  OBVIOUS
<1> DEFINE s == SectorsAt(v)
<1>1. CellsAt[v] = {Cell1(v), Cell2(v), Cell3(v), Cell4(v)} /\ CellsAt[v] \subseteq Cells
  BY CellsAround
<1>2. ~J!IsProblematic(s, height_tolerance)
  <2>1. SnappedAt(v)
    BY DEF Extruded, MeshInv, Extruding
  <2> QED
    BY <2>1 DEF SnappedAt
<1>3. /\ FaceAt(Cell1(v)) # FaceAt(Cell2(v)) /\ FaceAt(Cell2(v)) # FaceAt(Cell3(v))
      /\ FaceAt(Cell3(v)) # FaceAt(Cell4(v)) /\ FaceAt(Cell4(v)) # FaceAt(Cell1(v))
      /\ ~(Cell1(v) \in Out /\ Cell2(v) \in Out)
  BY FacesAlternate
<1>4. /\ Len(s) = 4 /\ DOMAIN s = 1 .. 4
      /\ s[1] = Sector(v, Cell1(v)) /\ s[2] = Sector(v, Cell2(v))
      /\ s[3] = Sector(v, Cell3(v)) /\ s[4] = Sector(v, Cell4(v))
      /\ J!Previous(s, 1) = 4 /\ J!Previous(s, 2) = 1 /\ J!Previous(s, 3) = 2 /\ J!Previous(s, 4) = 3
  BY <1>3, SectorsOfFour
<1> HIDE DEF s
<1>5. /\ s[1].height = Z(v, Cell1(v)) /\ s[2].height = Z(v, Cell2(v))
      /\ s[3].height = Z(v, Cell3(v)) /\ s[4].height = Z(v, Cell4(v))
  BY <1>1, <1>4, HeightsOfSectors
<1>6. 1 \in DOMAIN s /\ 2 \in DOMAIN s /\ \A i \in DOMAIN s : i = 1 \/ i = 2 \/ i = 3 \/ i = 4
  BY <1>4
<1>7. J!Roofs(s) # {}
  <2>1. Cell1(v) \in Inside \/ Cell2(v) \in Inside
    BY <1>1, <1>3 DEF Out
  <2>2. Sector(v, Cell1(v)).kind = "roof" \/ Sector(v, Cell2(v)).kind = "roof"
    BY <1>1, <2>1, KindsOfSectors
  <2> QED
    BY <1>4, <1>6, <2>2 DEF J!Roofs
<1>8. PICK H : H = LevelsAt(v)
  OBVIOUS
<1>9. H = {s[i].height : i \in DOMAIN s}
  <2>1. H = {Z(v, Cell1(v)), Z(v, Cell2(v)), Z(v, Cell3(v)), Z(v, Cell4(v))}
    BY <1>1, <1>8 DEF LevelsAt
  <2>2. 3 \in DOMAIN s /\ 4 \in DOMAIN s
    BY <1>4
  <2> QED
    BY <1>5, <1>6, <2>1, <2>2
<1>10. H = HeightsAt(v)
  <2>1. \A c \in CellsAt[v] : Z(v, c) = FaceHeight(FaceAt(c), v)
    BY ApartHeights
  <2> QED
    BY <1>8, <2>1 DEF LevelsAt, HeightsAt, FacesAt
<1>11. IsFiniteSet(H) /\ H \subseteq Int /\ \A h, k \in H : h < k => k - h >= height_tolerance
  <2>1. IsFiniteSet(HeightsAt(v)) /\ HeightsAt(v) \subseteq Int
    BY ColumnIs
  <2>2. Cell1(v) \in CellsAt[v]
    BY <1>1
  <2>3. \A k, h \in HeightsAt(v) : h < k => k - h >= height_tolerance
    BY <2>2, ApartHeights
  <2> QED
    BY <1>10, <2>1, <2>3
<1>12. x \in H /\ y \in H /\ x < y /\ \A z \in H : ~(x < z /\ z < y)
  BY <1>8 DEF Follow
<1>13. \/ s[1].height <= x /\ y <= s[2].height /\ s[3].height <= x /\ y <= s[4].height
       \/ s[2].height <= x /\ y <= s[1].height /\ s[4].height <= x /\ y <= s[3].height
  <2>1. \A c \in CellsAt[v] : ~IsLow(v, c, x) <=> y <= Z(v, c)
    BY LowOrHigh
  <2> QED
    BY <1>1, <1>5, <2>1 DEF Alternates, IsLow
<1>14. height_tolerance \in Int
  BY ToleranceAssumption
<1>15. J!HasNonManifoldHeightOrder(s, height_tolerance)
  BY <1>4, <1>9, <1>11, <1>12, <1>13, <1>14, FourPasses
<1> QED
  BY <1>2, <1>4, <1>7, <1>15 DEF J!IsProblematic

(* A vertical side of a solid, one way or the other. *)
LEMMA RisesAreClosed ==
  ASSUME Extruded, GroundIsClear, NEW p \in DOMAIN Floors, NEW s \in ProperSides(multisolid[p]),
         NEW d \in Rim(p), s \in Rise(d)
  PROVE  /\ Along(multisolid[p], s) = Along(multisolid[p], Twin(s))
         /\ site.lod = 12 \/ (site.lod = 22 /\ HeightsAreApart) => Along(multisolid[p], s) \in {0, 1}
<1>1. PICK a, b \in LevelsAt(d[1]) : /\ Follow(d[1], a, b) \/ Follow(d[1], b, a)
                                     /\ s = <<At(d[1], a), At(d[1], b)>>
  BY RiseIsVertical
<1>2. d[1] \in Vertices
  BY OnRim
<1>3. PICK x, y \in LevelsAt(d[1]) : /\ Follow(d[1], x, y)
                                     /\ s = Up(d[1], x, y) \/ s = Up(d[1], y, x)
  BY <1>1 DEF Up
<1>4. Twin(Up(d[1], x, y)) = Up(d[1], y, x) /\ Twin(Up(d[1], y, x)) = Up(d[1], x, y)
  BY DEF Twin, Up
<1>5. /\ Along(multisolid[p], Up(d[1], x, y)) = Along(multisolid[p], Up(d[1], y, x))
      /\ Along(multisolid[p], Up(d[1], x, y)) \in {0, 1} \/ Alternates(d[1], x)
  BY <1>2, <1>3, RisesBalance
<1>6. site.lod = 12 \/ (site.lod = 22 /\ HeightsAreApart) => ~Alternates(d[1], x)
  BY <1>2, <1>3, FlatNeverAlternates, SlopesNeverAlternate
<1> QED
  BY <1>3, <1>4, <1>5, <1>6

LEMMA RisesAreThere ==
  ASSUME Extruded, GroundIsClear, NEW p \in DOMAIN Floors, NEW d \in Rim(p), NEW s \in Rise(d)
  PROVE  Along(multisolid[p], s) # 0
<1>1. PICK a, b \in LevelsAt(d[1]) : /\ Follow(d[1], a, b) \/ Follow(d[1], b, a)
                                     /\ s = Up(d[1], a, b)
  BY RiseIsVertical DEF Up
<1>2. d[1] \in Vertices /\ LevelsAt(d[1]) \subseteq Int
  BY OnRim, LevelsAreNumbers
<1>3. a # b
  BY <1>1, <1>2 DEF Follow
<1> DEFINE v == d[1]
           W == WallsWith(p, Up(v, a, b))
<1>4. W = {e \in Rim(p) : e[1] = v /\ Up(v, a, b) \in Rise(e)}
  BY <1>2, <1>3, WallsWithRise DEF Up
<1>5. d \in W
  BY <1>1, <1>4
<1>6. W \subseteq {<<v, East(v)>>, <<v, North(v)>>, <<v, West(v)>>, <<v, South(v)>>}
  <2>1. \A e \in W : e \in Halfedges /\ e[1] = v
    BY <1>4 DEF Rim
  <2> HIDE DEF W
  <2> QED
    BY <1>2, <2>1, FourOut
<1> HIDE DEF W
<1>7. IsFiniteSet(W)
  <2> DEFINE e1 == <<v, East(v)>>  e2 == <<v, North(v)>>  e3 == <<v, West(v)>>  e4 == <<v, South(v)>>
  <2>1. e1 # e2 /\ e1 # e3 /\ e1 # e4 /\ e2 # e3 /\ e2 # e4 /\ e3 # e4
    BY <1>2, FourOut
  <2>2. W \subseteq {e1, e2, e3, e4}
    BY <1>6
  <2> HIDE DEF e1, e2, e3, e4
  <2> QED
    BY <2>1, <2>2, CountOfFour
<1>8. Cardinality(W) # 0
  BY <1>5, <1>7, FS_EmptySet
<1>9. Along(multisolid[p], Up(v, a, b)) = Cardinality(W)
  BY <1>2, <1>3, <1>7, AlongRise DEF W
<1> QED
  BY <1>1, <1>8, <1>9

LEMMA SolidOfPart ==
  ASSUME Extruded, GroundIsClear, NEW p \in DOMAIN Floors
  PROVE  /\ IsClosed(multisolid[p])
         /\ site.lod = 12 \/ (site.lod = 22 /\ HeightsAreApart) => IsTwoManifold(multisolid[p])
<1>1. ASSUME NEW s \in ProperSides(multisolid[p])
      PROVE  /\ Along(multisolid[p], s) = Along(multisolid[p], Twin(s))
             /\ site.lod = 12 \/ (site.lod = 22 /\ HeightsAreApart) => Along(multisolid[p], s) = 1
  <2>1. PICK d \in Rim(p) :
            \/ ~IsCrossed(d) /\ (s = OverCap(d) \/ (IsSteep(d) /\ s = OverWall(d)))
            \/ IsCrossed(d) /\ \E h \in {LeftAt(d), RightAt(d)} : s = ToCrossing(d, h) \/ s = FromCrossing(d, h)
            \/ s \in Rise(d)
    BY SidesOfMesh
  <2>2. CASE ~IsCrossed(d) /\ (s = OverCap(d) \/ (IsSteep(d) /\ s = OverWall(d)))
    BY <2>2, EdgesAreClosed
  <2>3. CASE IsCrossed(d) /\ \E h \in {LeftAt(d), RightAt(d)} : s = ToCrossing(d, h) \/ s = FromCrossing(d, h)
    <3>1. PICK h \in {LeftAt(d), RightAt(d)} : s = ToCrossing(d, h) \/ s = FromCrossing(d, h)
      BY <2>3
    <3>2. Along(multisolid[p], ToCrossing(d, h)) = 1 /\ Along(multisolid[p], FromCrossing(d, h)) = 1
      BY <2>3, CrossingsAreClosed
    <3>3. Twin(ToCrossing(d, h)) = FromCrossing(d, h) /\ Twin(FromCrossing(d, h)) = ToCrossing(d, h)
      BY <2>3, SidesOfCrossing
    <3> QED
      BY <3>1, <3>2, <3>3
  <2>4. CASE s \in Rise(d)
    <3>1. Along(multisolid[p], s) # 0
      BY <2>4, RisesAreThere
    <3>2. /\ Along(multisolid[p], s) = Along(multisolid[p], Twin(s))
          /\ site.lod = 12 \/ (site.lod = 22 /\ HeightsAreApart) => Along(multisolid[p], s) \in {0, 1}
      BY <2>4, RisesAreClosed
    <3> QED
      BY <3>1, <3>2
  <2> QED
    BY <2>1, <2>2, <2>3, <2>4
<1>2. IsClosed(multisolid[p])
  BY <1>1 DEF IsClosed
<1>3. ASSUME site.lod = 12 \/ (site.lod = 22 /\ HeightsAreApart) PROVE IsTwoManifold(multisolid[p])
  BY <1>1, <1>3 DEF IsTwoManifold
<1> QED
  BY <1>2, <1>3

(***************************************************************************)
(* Of any grid and any valid footprint, with any planes and tolerances:    *)
(* every solid with a floor is closed where its roofs keep clear of the    *)
(* terrain, and a two-manifold too for LoD1.2, and for LoD2.2 if heights   *)
(* differ by the tolerances.  ArrangementExtruder walls up every edge and  *)
(* corner that its floors and roofs leave open, and no more.               *)
(***************************************************************************)
THEOREM SolidsAreClosed == ExtruderSpec => []SolidIsClosed
<1>1. BuildingInv /\ MeshInv => SolidIsClosed
  <2> SUFFICES ASSUME BuildingInv, MeshInv, phase = "extruded", GroundIsClear,
                      NEW part \in DOMAIN multisolid, HasFloor(part)
               PROVE  /\ IsClosed(multisolid[part])
                      /\ site.lod = 12 \/ (site.lod = 22 /\ HeightsAreApart) => IsTwoManifold(multisolid[part])
    BY DEF SolidIsClosed
  <2>1. Extruded
    BY DEF Extruded
  <2>2. part \in DOMAIN Floors
    BY <2>1, PartsWithFloor
  <2> QED
    BY <2>1, <2>2, SolidOfPart
<1> QED
  BY <1>1, BuildingIsRight, MeshIsMade, PTL
=============================================================================
