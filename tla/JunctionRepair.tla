--------------------------- MODULE JunctionRepair ---------------------------
(***************************************************************************)
(* JunctionRepair: the loop of ArrangementSnapper that repairs junctions   *)
(* of the snapped roof partition the extruder could not handle.  A cell is *)
(* cut out around the vertex, with a corner on each of its constraints,    *)
(* and given to one of the faces around it; the regions around it are then *)
(* labelled anew, by the votes of the constraints that were set.           *)
(*                                                                         *)
(* A constraint has two directions, and to the left of each is a patch:    *)
(* the part of a region between two constraints.  Patches that no          *)
(* constraint parts are one region, which has one label, so the triangles  *)
(* that CGAL makes of a region do not matter here.  How much room there is *)
(* around a vertex is a choice; where there is enough the cell crosses no  *)
(* other constraint, its chords do not cross each other, the point that a  *)
(* label is forced at lies in the cell, and the junction lies inside the   *)
(* convex hull, past which no side of a constraint has a vote.             *)
(***************************************************************************)
EXTENDS Integers, Sequences, FiniteSets, FiniteSetsExt, Functions, TLC

CONSTANTS
  Sites,   \* the constraints snapping may leave, and faces their patches may have
  kind,    \* face -> "roof", "outside" or, in the footprint without a roof, "bare"
  height,  \* face -> how high it is at the junctions, if it is a roof
  ground,  \* the height of all other faces
  manifold_height_tolerance

VARIABLES
  source,  \* patch -> the face it has after snapping
  around,  \* vertex -> its neighbours by constraints, by the angle from -pi to pi
  patch,   \* <<v, w>> -> the patch to the left of the constraint from v to w
  region,  \* patch -> the least patch of its region
  label,   \* patch -> the face its region is labelled with
  forced,  \* the labels repairs insist on, in their order
  stale,   \* regions are to be labelled anew
  ended

vars == <<source, around, patch, region, label, forced, stale, ended>>

J == INSTANCE Junction

Vertices == DOMAIN around

(* Patches with one face are one region, or what snapping has left of them *)
(* is parted everywhere.                                                   *)
Parted == [p \in DOMAIN source |-> p]
Whole == [p \in DOMAIN source |-> Min({q \in DOMAIN source : source[q] = source[p]})]

InitAt(site) ==
  /\ around = site.around
  /\ patch = site.patch
  /\ source \in [Range(site.patch) -> site.faces]
  /\ region \in {Parted, Whole}
  /\ label = source
  /\ forced = <<>>
  /\ stale = TRUE
  /\ ended = FALSE

Init == \E site \in Sites : InitAt(site)

SectorBehind(v, ray) ==
  LET f == label[patch[<<v, ray>>]]
  IN [face |-> f, kind |-> kind[f],
      height |-> IF kind[f] = "roof" THEN height[f] ELSE ground]
Sectors(v) == [i \in DOMAIN around[v] |-> SectorBehind(v, around[v][i])]

(***************************************************************************)
(* The cell goes to what is not footprint around it, or to a face that     *)
(* comes twice, or to the lowest roof.                                     *)
(***************************************************************************)
LowestRoof(s) ==
  LET lowest == Min({s[i].height : i \in J!Roofs(s)})
  IN Min({s[i].face : i \in {k \in J!Roofs(s) : s[k].height = lowest}})

SelectedFace(s) ==
  CASE J!HasNonFootprintBridge(s) -> J!MostFrequent(s, J!NonFootprintFaces(s))
    [] ~J!HasNonFootprintBridge(s) /\ J!RepeatedFaces(s) # {} -> J!MostFrequent(s, J!RepeatedFaces(s))
    [] OTHER -> LowestRoof(s)

MergedSectors(s) ==
  IF J!HasNonFootprintBridge(s) THEN J!Outsides(s) ELSE J!SectorsOf(s, SelectedFace(s))

ChordSectors(s) == DOMAIN s \ MergedSectors(s)

(***************************************************************************)
(* The map around the cell.  A sector that is merged has no chord.         *)
(***************************************************************************)
Corner(v, i) == Append(v, i)

CellPatch(v, s) == Min({patch[<<v, around[v][i]>>] : i \in MergedSectors(s)})

RaysOfCorner(v, s, i) ==
  LET next == J!NextSector(s, i)
      previous == J!Previous(s, i)
  IN <<around[v][i]>> \o (IF i \in ChordSectors(s) THEN <<Corner(v, next)>> ELSE <<>>)
                    \o (IF previous \in ChordSectors(s) THEN <<Corner(v, previous)>> ELSE <<>>)

(* The neighbours of v have the corner of their ray in its place. *)
CutRays(v, s) ==
  [w \in Vertices \ {v} |->
     [k \in DOMAIN around[w] |->
        IF around[w][k] # v THEN around[w][k]
        ELSE Corner(v, CHOOSE i \in DOMAIN s : around[v][i] = w)]]
  @@ [c \in {Corner(v, i) : i \in DOMAIN s} |-> RaysOfCorner(v, s, c[Len(c)])]

CutPatches(v, s) ==
  LET At(i) == Corner(v, i)
      Next(i) == Corner(v, J!NextSector(s, i))
      Out(i) == patch[<<v, around[v][i]>>]
  IN [d \in {e \in DOMAIN patch : v \notin {e[1], e[2]}} |-> patch[d]]
     @@ [d \in {<<At(i), around[v][i]>> : i \in DOMAIN s} |-> Out(d[1][Len(d[1])])]
     @@ [d \in {<<around[v][i], At(i)>> : i \in DOMAIN s} |-> patch[<<d[1], v>>]]
     @@ [d \in {<<At(i), Next(i)>> : i \in ChordSectors(s)} |-> CellPatch(v, s)]
     @@ [d \in {<<Next(i), At(i)>> : i \in ChordSectors(s)} |-> Out(d[2][Len(d[2])])]

(* The regions that the cell joins are one. *)
JoinedRegions(v, s) ==
  LET joined == {region[patch[<<v, around[v][i]>>]] : i \in MergedSectors(s)}
  IN [p \in DOMAIN region |-> IF region[p] \in joined THEN Min(joined) ELSE region[p]]


(***************************************************************************)
(* The votes for labels: the rays keep the labels of their two sides; the  *)
(* side of a chord that faces the vertex gets the label of the cell.  Past *)
(* a sector wider than a straight angle that is not the side of the cell.  *)
(***************************************************************************)
RaySeeds(v, s) ==
  {[side |-> <<Corner(v, i), around[v][i]>>, face |-> s[i].face] : i \in DOMAIN s}
  \cup {[side |-> <<around[v][i], Corner(v, i)>>, face |-> s[J!Previous(s, i)].face] : i \in DOMAIN s}

ChordSeeds(v, s, wide) ==
  {[side |-> <<Corner(v, i), Corner(v, J!NextSector(s, i))>>,
    face |-> IF i = wide THEN s[i].face ELSE SelectedFace(s)] : i \in ChordSectors(s)}
  \cup {[side |-> <<Corner(v, J!NextSector(s, i)), Corner(v, i)>>,
         face |-> IF i = wide THEN SelectedFace(s) ELSE s[i].face] : i \in ChordSectors(s)}

(* Of two labels with the same weight the first face is taken. *)
Heaviest(weights) ==
  LET most == Max({weights[l] : l \in DOMAIN weights})
  IN Min({l \in DOMAIN weights : weights[l] = most})

(* A region that nobody votes on has one label as it was, whatever its area. *)
SeededLabels(seeds, patches, regions) ==
  [p \in DOMAIN label |->
     LET here == {c \in seeds : regions[patches[c.side]] = regions[p]}
     IN IF here = {} THEN label[p]
        ELSE Heaviest([l \in {c.face : c \in here} |-> Cardinality({c \in here : c.face = l})])]

(* The vertex is any with a problem and with room around it. *)
RepairVertex ==
  /\ ~stale /\ ~ended
  /\ \E v \in Vertices : LET s == Sectors(v) IN
       /\ J!IsProblematic(s, manifold_height_tolerance)
       /\ around' = CutRays(v, s)
       /\ patch' = CutPatches(v, s)
       /\ region' = JoinedRegions(v, s)
       /\ \E wide \in {0} \cup DOMAIN s :
            label' = SeededLabels(RaySeeds(v, s) \cup ChordSeeds(v, s, wide), patch', region')
       /\ forced' = Append(forced, [at |-> CellPatch(v, s), face |-> SelectedFace(s)])
  /\ stale' = TRUE
  /\ UNCHANGED <<source, ended>>

(* The first label that was forced on a region, or the one it has. *)
LabelRegions ==
  /\ stale
  /\ label' = [p \in DOMAIN label |->
                 LET here == {k \in DOMAIN forced : region[forced[k].at] = region[p]}
                 IN IF here = {} THEN label[p] ELSE forced[Min(here)].face]
  /\ stale' = FALSE
  /\ UNCHANGED <<source, around, patch, region, forced, ended>>

(* No vertex has a problem, or none that has one has room, or repairs are off. *)
EndRepairs ==
  /\ ~stale /\ ~ended
  /\ ended' = TRUE
  /\ UNCHANGED <<source, around, patch, region, label, forced, stale>>

Ended == ended /\ UNCHANGED vars

Next == RepairVertex \/ LabelRegions \/ EndRepairs \/ Ended

Spec == Init /\ [][Next]_vars
-----------------------------------------------------------------------------
AreSame(f, g) == f = g \/ (kind[f] = "outside" /\ kind[g] = "outside")

=============================================================================
