------------------------------ MODULE Junction ------------------------------
(***************************************************************************)
(* What ArrangementSnapper asks about a vertex of the roof partition: the  *)
(* sectors between the edges around it, in their cyclic order.  A sector   *)
(* has the face it lies in, what that face is, and its height at the       *)
(* vertex.                                                                 *)
(***************************************************************************)
EXTENDS Integers, Sequences, FiniteSets, FiniteSetsExt

Previous(s, i) == IF i = 1 THEN Len(s) ELSE i - 1
NextSector(s, i) == (i % Len(s)) + 1

Roofs(s) == {i \in DOMAIN s : s[i].kind = "roof"}
Outsides(s) == {i \in DOMAIN s : s[i].kind = "outside"}
SectorsOf(s, f) == {i \in DOMAIN s : s[i].face = f}

(* The runs of sectors that some of them make. *)
RunCount(s, chosen) ==
  IF chosen = DOMAIN s THEN 1 ELSE Cardinality({i \in chosen : Previous(s, i) \notin chosen})

HasNonFootprintBridge(s) == RunCount(s, Outsides(s)) >= 2

(* The face among some that has the most sectors, of those the first one. *)
MostFrequent(s, faces) ==
  LET Size(f) == Cardinality(SectorsOf(s, f))
      most == Max({Size(f) : f \in faces})
  IN Min({f \in faces : Size(f) = most})

NonFootprintFaces(s) == {s[i].face : i \in Outsides(s)}

RepeatedFaces(s) ==
  {f \in {s[i].face : i \in Roofs(s)} :
     Cardinality(SectorsOf(s, f)) >= 2 /\ RunCount(s, SectorsOf(s, f)) >= 2}

(* Heights that are close to the last one that was not are taken for it. *)
Levelled(heights, tolerance) ==
  LET level[h \in heights] ==
        LET lower == {k \in heights : k < h}
        IN IF lower = {} \/ h - level[Max(lower)] >= tolerance THEN h ELSE level[Max(lower)]
  IN level

(* Twice the heights in the middle between two levels that follow. *)
Samples(levels) == {l + Min({k \in levels : k > l}) : l \in levels \ {Max(levels)}}

(* Around the vertex the surface passes some height more than twice. *)
HasNonManifoldHeightOrder(s, tolerance) ==
  LET heights == {s[i].height : i \in DOMAIN s}
      levels == {Levelled(heights, tolerance)[h] : h \in heights}
      Crosses(i, z) == LET l == 2 * s[Previous(s, i)].height  r == 2 * s[i].height
                       IN (l < z /\ z < r) \/ (r < z /\ z < l)
  IN \E z \in Samples(levels) : Cardinality({i \in DOMAIN s : Crosses(i, z)}) > 2

(* What find_problematic_vertex repairs. *)
IsProblematic(s, tolerance) ==
  /\ Len(s) >= 4 /\ Roofs(s) # {}
  /\ HasNonFootprintBridge(s) \/ RepeatedFaces(s) # {} \/ HasNonManifoldHeightOrder(s, tolerance)
=============================================================================
