---------------------------- MODULE RoofPartition ----------------------------
(***************************************************************************)
(* The partition of a footprint into roof faces: ArrangementBuilder,       *)
(* ArrangementOptimiser and ArrangementDissolver (and the functions of     *)
(* ArrangementBase they share), in the order in which reconstruct_building *)
(* calls them.                                                             *)
(*                                                                         *)
(* The plane is a grid of cells with a margin around it.  An arrangement   *)
(* is what its edges make of the grid: a partition into connected sets of  *)
(* cells, the faces, each with its data.  An edge with one face on both    *)
(* sides has no state here, so to remove a dangling edge changes nothing.  *)
(* Heights are linear in doubled coordinates: a corner of cells is even, a *)
(* centre is odd.                                                          *)
(***************************************************************************)
EXTENDS Integers, Sequences, FiniteSets, FiniteSetsExt, Adjacency

CONSTANTS
  Width, Height,   \* of the grid inside the margin
  Sites,           \* footprints with their lines, planes and pixels
  NoData           \* noDataVal_ of the heightfield: lower than every height

VARIABLES
  site,
  phase,
  holes_inserted,
  arrangement,     \* face -> its data (FaceInfo)
  label            \* cell -> label of its face from the graph cut, or 0

partition == <<site, phase, holes_inserted, arrangement, label>>

Cells == (0 .. Width + 1) \X (0 .. Height + 1)
Beside == [c \in Cells |-> {d \in Cells : (c[1] = d[1] /\ c[2] - d[2] \in {-1, 1})
                                          \/ (c[2] = d[2] /\ c[1] - d[1] \in {-1, 1})}]
Around == [c \in Cells |-> {d \in Cells : c[1] - d[1] \in -1 .. 1 /\ c[2] - d[2] \in -1 .. 1} \ {c}]

Faces == DOMAIN arrangement
Unbounded == CHOOSE f \in Faces : <<0, 0>> \in f
Touch(f, g) == f # g /\ \E c \in f : Beside[c] \cap g # {}
InFootprint(f) == arrangement[f].in_footprint
FootprintFaces == {f \in Faces : InFootprint(f)}
FaceAt(c) == CHOOSE f \in Faces : c \in f

(* A footprint is a polygon: it does not reach into the margin, and its    *)
(* holes are areas in one piece inside of it that do not overlap.          *)
IsConnected(cells) == \A c \in cells : Flood(Beside, cells, {c}) = cells

Coefficients == [a : Int, b : Int, d : Int]

IsSite(s) ==
  /\ s.outer # {} /\ s.outer \subseteq (1 .. Width) \X (1 .. Height)
  /\ s.holes \in Seq(SUBSET s.outer)
  /\ \A k \in DOMAIN s.holes : s.holes[k] # {} /\ IsConnected(s.holes[k])
  /\ \A k, l \in DOMAIN s.holes : k # l => s.holes[k] \cap s.holes[l] = {}
  /\ s.roofs \in Seq(Coefficients) /\ s.grounds \in Seq(Coefficients) /\ s.ground \in Int
  /\ \A c \in DOMAIN s.pixel : s.pixel[c] \in Int
  /\ s.lod \in {12, 13, 22} /\ s.turned \in BOOLEAN

ASSUME SiteAssumption ==
  Width \in Nat /\ Height \in Nat /\ NoData \in Int /\ \A s \in Sites : IsSite(s)

NewFace == [in_footprint |-> FALSE, is_ground |-> FALSE, is_footprint_hole |-> FALSE, segid |-> 0,
            plane |-> 0, part_id |-> -1, elevation_sum |-> 0, pixel_count |-> 0, elevation_70p |-> 0]

(* Planes by label, and the height of one at a point. *)
Planes == site.roofs \o site.grounds
HeightOn(plane, x, y) == Planes[plane].a * x + Planes[plane].b * y + Planes[plane].d
HeightInCell(plane, c) == HeightOn(plane, 2 * c[1] - 1, 2 * c[2] - 1)

(* Every face is split where its cells are of different classes, and the   *)
(* parts keep its data.                                                    *)
SplitFaces(class) ==
  LET parts == [f \in Faces |-> UNION {Components(Beside, {c \in f : class[f][c] = k}) :
                                       k \in {class[f][c] : c \in f}}]
  IN [p \in UNION {parts[f] : f \in Faces} |-> arrangement[CHOOSE f \in Faces : p \subseteq f]]

(* The faces that become one when the edges between those of related data  *)
(* are removed.  One of each group passes on its data, any of them, but    *)
(* the unbounded face if it is among them.                                 *)
Groups(Related(_, _)) ==
  LET near == [f \in Faces |-> {g \in Faces : Touch(f, g) /\ Related(arrangement[f], arrangement[g])}]
  IN Components(near, Faces)

Heirs(group) == IF Unbounded \in group THEN {Unbounded} ELSE group

Merges(groups) ==
  LET merged == {UNION g : g \in groups}
      Data(f) == {arrangement[h] : h \in Heirs({g \in Faces : g \subseteq f})}
      data == [f \in merged |-> Data(f)]
      settled == {f \in merged : Cardinality(data[f]) = 1}
  IN {[f \in merged |-> IF f \in settled THEN CHOOSE d \in data[f] : TRUE ELSE choice[f]] :
      choice \in {c \in [merged \ settled -> UNION {data[f] : f \in merged \ settled}] :
                   \A f \in DOMAIN c : c[f] \in data[f]}}

PartitionInit ==
  /\ site \in Sites
  /\ phase = "footprint"
  /\ holes_inserted = 0
  /\ arrangement = [f \in {Cells} |-> NewFace]
  /\ label = [c \in Cells |-> 0]

(***************************************************************************)
(* ArrangementBuilder: the outer ring, the holes in their order, the lines.*)
(***************************************************************************)
InsertFootprint ==
  /\ phase = "footprint"
  /\ arrangement' = [f \in {site.outer, Cells \ site.outer} |->
                       [NewFace EXCEPT !.in_footprint = f = site.outer]]
  /\ phase' = "holes"
  /\ UNCHANGED <<site, holes_inserted, label>>

(* The ring of a hole that touches the exterior, itself or through rings   *)
(* that do, splits the face of the footprint and cuts no hole out of it.   *)
Ring(k) == IF k = 0 THEN Cells \ site.outer ELSE site.holes[k]
Meets(k, l) == \E c \in Ring(k) : Around[c] \cap Ring(l) # {}
RingsOnExterior(n) ==
  Flood([k \in 0 .. n |-> {l \in 0 .. n : Meets(k, l)}], 0 .. n, {0})

(* A mutant: a hole that touches the exterior is one. *)
HoleAnyway(k, old) == [old EXCEPT !.in_footprint = FALSE, !.is_footprint_hole = TRUE]

HoleData(k, old) ==
  IF k \in RingsOnExterior(k) THEN old
  ELSE [old EXCEPT !.in_footprint = FALSE, !.is_footprint_hole = TRUE]

InsertHole ==
  /\ phase = "holes" /\ holes_inserted < Len(site.holes)
  /\ LET k == holes_inserted + 1
         hole == site.holes[k]
         split == SplitFaces([f \in Faces |-> [c \in f |-> c \in hole]])
     IN arrangement' = [f \in DOMAIN split |->
                          IF f = hole /\ InFootprint(CHOOSE g \in Faces : hole \subseteq g)
                          THEN HoleData(k, split[f]) ELSE split[f]]
  /\ holes_inserted' = holes_inserted + 1
  /\ UNCHANGED <<site, phase, label>>

(* The lines split the faces inside of the footprint and outside of it. *)
InsertLines ==
  /\ phase = "holes" /\ holes_inserted = Len(site.holes)
  /\ arrangement' = SplitFaces([f \in Faces |-> [c \in f |-> site.patch[c]]])
  /\ phase' = "optimise"
  /\ UNCHANGED <<site, holes_inserted, label>>

(***************************************************************************)
(* ArrangementOptimiser: the graph cut gives every face of the footprint a *)
(* plane, and those on a plane of the ground leave the footprint.          *)
(***************************************************************************)
IsRoofLabel(l) == l <= Len(site.roofs)

SegId(l) == IF l <= Len(site.roofs) THEN l ELSE Len(site.roofs) - 1 + (l - Len(site.roofs))

Labelled(data, l) ==
  [data EXCEPT !.segid = SegId(l), !.plane = l,
               !.in_footprint = IsRoofLabel(l), !.is_ground = ~IsRoofLabel(l)]

Optimise ==
  /\ phase = "optimise" /\ site.roofs # <<>>
  /\ \E l \in [FootprintFaces -> 1 .. Len(Planes)] :
       /\ arrangement' = [f \in Faces |-> IF InFootprint(f) THEN Labelled(arrangement[f], l[f])
                                          ELSE arrangement[f]]
       /\ label' = [c \in Cells |-> IF InFootprint(FaceAt(c)) THEN l[FaceAt(c)] ELSE 0]
  /\ phase' = "segments"
  /\ UNCHANGED <<site, holes_inserted>>

SameSide(d, e) == d.in_footprint = e.in_footprint

NothingToOptimise ==
  /\ phase = "optimise" /\ site.roofs = <<>>
  /\ arrangement' \in Merges(Groups(SameSide))
  /\ phase' = "segments"
  /\ UNCHANGED <<site, holes_inserted, label>>

(***************************************************************************)
(* ArrangementDissolver.                                                   *)
(***************************************************************************)
SameSegment(d, e) == d.segid = e.segid /\ d.in_footprint /\ e.in_footprint /\ d.segid # 0

DissolveSegments ==
  /\ phase = "segments"
  /\ arrangement' \in Merges(Groups(SameSegment))
  /\ phase' = "terrain"
  /\ UNCHANGED <<site, holes_inserted, label>>

(* A face is split where its roof meets the ground.  What is below leaves  *)
(* the footprint; whether it is a hole is decided before any face leaves.  *)
OnRoof(f) == InFootprint(f) /\ arrangement[f].segid # 0
Below(f, c) == OnRoof(f) /\ HeightInCell(arrangement[f].plane, c) < site.ground

ClipToTerrain ==
  /\ phase = "terrain"
  /\ LET clipped == SplitFaces([f \in Faces |-> [c \in f |-> Below(f, c)]])
         IsBelow(f) == \A c \in f : Below(FaceAt(c), c)
         TouchesBoundary(f) == \E g \in DOMAIN clipped : Touch(f, g) /\ ~clipped[g].in_footprint
     IN arrangement' =
          [f \in DOMAIN clipped |->
             IF IsBelow(f) THEN [clipped[f] EXCEPT !.in_footprint = FALSE, !.is_ground = TRUE,
                                                   !.is_footprint_hole = ~TouchesBoundary(f)]
             ELSE clipped[f]]
  /\ phase' = CASE site.lod = 12 -> "interior" [] site.lod = 13 -> "statistics" [] OTHER -> "outside"
  /\ UNCHANGED <<site, holes_inserted, label>>

BothInside(d, e) == d.in_footprint /\ e.in_footprint

(* LoD1.2: one face for every part, with the data of any of them. *)
DissolveInterior ==
  /\ phase = "interior"
  /\ arrangement' \in Merges(Groups(BothInside))
  /\ phase' = "outside"
  /\ UNCHANGED <<site, holes_inserted, label>>

(***************************************************************************)
(* LoD1.3: faces whose elevations differ by less than a threshold merge,   *)
(* the closest pair first.  elevation_50p is kept as a sum over the pixels *)
(* it stands for.                                                          *)
(***************************************************************************)
(* The value at a share k/10 of the sorted values of a function. *)
Ranked(values, k) ==
  LET n == Cardinality(DOMAIN values)
      AtMost(v) == Cardinality({x \in DOMAIN values : values[x] <= v})
  IN Min({values[x] : x \in {y \in DOMAIN values : AtMost(values[y]) > (k * (n - 1)) \div 10}})

(* The pixels of a face, the plane standing in for those without data. *)
FilledPixels(f) ==
  [c \in f \cap DOMAIN site.pixel |->
     IF site.pixel[c] = NoData THEN HeightInCell(arrangement[f].plane, c) ELSE site.pixel[c]]

ElevationSum(f) ==
  IF DOMAIN FilledPixels(f) = {} THEN 0
  ELSE Ranked(FilledPixels(f), 5) * Cardinality(DOMAIN FilledPixels(f))

ComputeElevations ==
  /\ phase = "statistics"
  /\ arrangement' = [f \in Faces |->
                       IF InFootprint(f)
                       THEN [arrangement[f] EXCEPT !.elevation_sum = ElevationSum(f),
                               !.pixel_count = Cardinality(DOMAIN FilledPixels(f))]
                       ELSE arrangement[f]]
  /\ phase' = "steps"
  /\ UNCHANGED <<site, holes_inserted, label>>

Count(d) == Max({d.pixel_count, 1})
AbsDiff(m, n) == IF m < n THEN n - m ELSE m - n

(* The difference of the elevations of two faces, and the threshold, times *)
(* the counts of both; two differences are compared after the same.        *)
StepTimesCounts(d, e) == AbsDiff(d.elevation_sum * Count(e), e.elevation_sum * Count(d))
IsSmallStep(d, e) == StepTimesCounts(d, e) < site.step * Count(d) * Count(e)
NotHigher(d, e, d2, e2) ==
  StepTimesCounts(d, e) * Count(d2) * Count(e2) <= StepTimesCounts(d2, e2) * Count(d) * Count(e)

SmallSteps ==
  {p \in FootprintFaces \X FootprintFaces :
     /\ Touch(p[1], p[2]) /\ OnRoof(p[1]) /\ OnRoof(p[2])
     /\ IsSmallStep(arrangement[p[1]], arrangement[p[2]])}

(* A mutant: a merge forgets the elevations of one of the two. *)
MergedUnweighted(f, g) == arrangement[f]

MergedData(f, g) ==
  [arrangement[f] EXCEPT !.elevation_sum = @ + arrangement[g].elevation_sum,
                         !.pixel_count = @ + arrangement[g].pixel_count]

MergeStep ==
  /\ phase = "steps"
  /\ \E p \in SmallSteps :
       /\ \A q \in SmallSteps : NotHigher(arrangement[p[1]], arrangement[p[2]],
                                          arrangement[q[1]], arrangement[q[2]])
       /\ arrangement' = [f \in (Faces \ {p[1], p[2]}) \cup {p[1] \cup p[2]} |->
                            IF f \in Faces THEN arrangement[f] ELSE MergedData(p[1], p[2])]
  /\ UNCHANGED <<site, phase, holes_inserted, label>>

StepsAreDissolved ==
  /\ phase = "steps" /\ SmallSteps = {}
  /\ phase' = "outside"
  /\ UNCHANGED <<site, holes_inserted, arrangement, label>>

(***************************************************************************)
(* For every LoD.                                                          *)
(***************************************************************************)
BothOutside(d, e) == ~d.in_footprint /\ ~e.in_footprint

DissolveOutside ==
  /\ phase = "outside"
  /\ arrangement' \in Merges(Groups(BothOutside))
  /\ phase' = "parts"
  /\ UNCHANGED <<site, holes_inserted, label>>

(* What is around a face: the outside of its outer boundary. *)
Surroundings(f) == Flood(Around, Cells \ f, {<<0, 0>>})

Neighbours(f) == {g \in FootprintFaces : Touch(f, g)}

Unlabelled == {f \in FootprintFaces : arrangement[f].part_id = -1}

LabelPart ==
  /\ phase = "parts"
  /\ \E seed \in Unlabelled :
       LET part == Flood([f \in FootprintFaces |-> Neighbours(f)], Unlabelled, {seed})
           number == Max({arrangement[f].part_id : f \in Faces}) + 1
       IN arrangement' = [f \in Faces |-> IF f \in part THEN [arrangement[f] EXCEPT !.part_id = number]
                                          ELSE arrangement[f]]
  /\ UNCHANGED <<site, phase, holes_inserted, label>>

(* A mutant: the holes are those the footprint had. *)
AsMarkedBefore(f) == arrangement[f].is_footprint_hole

IsHole(f) ==
  \/ arrangement[f].is_footprint_hole
  \/ /\ f # Unbounded /\ ~InFootprint(f)
     /\ ~arrangement[f].is_ground \/ ~Touch(f, Unbounded)

(* The elevations LoD1 is extruded to, without help from the plane. *)
DataPixels(f) ==
  [c \in {d \in f \cap DOMAIN site.pixel : site.pixel[d] # NoData} |-> site.pixel[c]]

FinishDissolver ==
  /\ phase = "parts" /\ Unlabelled = {}
  /\ arrangement' =
       [f \in Faces |->
          [arrangement[f] EXCEPT
             !.is_footprint_hole = IsHole(f),
             !.elevation_70p = CASE ~InFootprint(f) -> @
                                 [] InFootprint(f) /\ DOMAIN DataPixels(f) = {} -> NoData
                                 [] OTHER -> Ranked(DataPixels(f), 7),
             !.pixel_count = IF InFootprint(f) THEN Cardinality(DOMAIN DataPixels(f)) ELSE @]]
  /\ phase' = "dissolved"
  /\ UNCHANGED <<site, holes_inserted, label>>

PartitionNext ==
  \/ InsertFootprint \/ InsertHole \/ InsertLines
  \/ Optimise \/ NothingToOptimise
  \/ DissolveSegments \/ ClipToTerrain \/ DissolveInterior
  \/ ComputeElevations \/ MergeStep \/ StepsAreDissolved
  \/ DissolveOutside \/ LabelPart \/ FinishDissolver
-----------------------------------------------------------------------------
Dissolved == phase = "dissolved"

(* What remains of the footprint is the outer ring without the holes that  *)
(* lie inside of it, without what the graph cut gave to the ground and     *)
(* without roofs below the ground; in LoD2.2 every cell of it is on the    *)
(* plane it was given.                                                     *)
ProperHole(k) == k \notin RingsOnExterior(k)

FootprintIsKept ==
  Dissolved /\ site.roofs # <<>> =>
    LET holes == UNION {site.holes[k] : k \in {l \in DOMAIN site.holes : ProperHole(l)}}
        roof == {c \in site.outer \ holes : /\ label[c] \in 1 .. Len(site.roofs)
                                            /\ HeightInCell(label[c], c) >= site.ground}
    IN /\ \A c \in site.outer \ holes : label[c] # 0
       /\ roof = UNION FootprintFaces
       /\ site.lod = 22 => \A f \in FootprintFaces : \A c \in f : arrangement[f].plane = label[c]

(* Every face in the building that is no roof is a hole for the extruder,  *)
(* and neither a roof nor the unbounded face is, which has no outer ring.  *)
HolesAreMarked ==
  Dissolved => \A f \in Faces : arrangement[f].is_footprint_hole <=> ~InFootprint(f) /\ f # Unbounded

(* In LoD1.3 faces that remain next to each other differ by the threshold  *)
(* at least, if their elevations are computed anew from the segments that  *)
(* went into them: the mean of their medians by the number of pixels.      *)
Segments(f) == UNION {Components(Beside, {c \in f : label[c] = l}) : l \in {label[c] : c \in f}}

LevelsAreApart ==
  Dissolved /\ site.lod = 13 /\ site.roofs # <<>> =>
    LET Filled(s) == [c \in s \cap DOMAIN site.pixel |->
                        IF site.pixel[c] = NoData THEN HeightInCell(label[c], c) ELSE site.pixel[c]]
        SumOf(s) == IF DOMAIN Filled(s) = {} THEN 0
                    ELSE Ranked(Filled(s), 5) * Cardinality(DOMAIN Filled(s))
        Level(f) == [elevation_sum |-> MapThenSumSet(SumOf, Segments(f)),
                     pixel_count |-> Cardinality(f \cap DOMAIN site.pixel)]
    IN \A f, g \in FootprintFaces : Touch(f, g) => ~IsSmallStep(Level(f), Level(g))
=============================================================================
