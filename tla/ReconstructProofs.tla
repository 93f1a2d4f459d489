-------------------------- MODULE ReconstructProofs --------------------------
(***************************************************************************)
(* Proofs about ReconstructBuilding: what a reader is told of a building   *)
(* (its extrusion mode) agrees with the geometry that was made, whichever  *)
(* step threw, and what the fallback height was used for.  Then about      *)
(* RoofPartition, whose arrangement the roofs are made of: what remains of *)
(* the footprint when the dissolver ends, which faces are holes, and that  *)
(* those of LoD1.3 differ in their levels.  Last about RepairCell: the     *)
(* lanes of a cell are the best ones.                                      *)
(***************************************************************************)
EXTENDS ReconstructBuilding, RoofExtruder, RepairCell, FiniteSetTheorems,
        WellFoundedInduction, TLAPS

Stages == {"start", "skip", "lod11_fallback", "detect", "detected_fallback",
           "lod11_pc", "lod12", "lod13", "lod22", "catch", "done"}

\* The levels of detail that are behind, at each step of the regular way.
Built == {lod \in LOD : \/ pc = "done"
                        \/ lod = "lod12" /\ pc \in {"lod13", "lod22"}
                        \/ lod = "lod13" /\ pc = "lod22"}

\* A mode other than the final one is known on each way, and the regular way
\* has built what is behind it and nothing else.
ModeOnTheWay ==
  /\ pc \in {"start"} => extrusion_mode \in {"STANDARD", "LOD11_FALLBACK"}
  /\ pc \in {"detect", "lod12", "lod13", "lod22"} => extrusion_mode = "STANDARD"
  /\ pc \in {"skip", "lod11_fallback", "detected_fallback"} =>
       extrusion_mode = "SKIP"
  /\ pc \in {"start", "skip", "lod11_fallback", "detect", "detected_fallback",
             "lod12", "lod13", "lod22"} =>
       multisolids = [lod \in LOD |-> IF lod \in lods \cap Built
                                      THEN Roof(lod) ELSE NoMesh]

\* Who is on the way to the fallback height has points that are no good.
InsufficientOnTheWay ==
  pc \in {"skip", "lod11_fallback", "detected_fallback"} =>
    pointcloud_insufficient

Inv == /\ pc \in Stages
       /\ TypeOK
       /\ ModeOnTheWay
       /\ InsufficientOnTheWay
       /\ ModeDescribesGeometry
       /\ EmptyOnlyWithoutHeights
       /\ FallbackOnlyIfInsufficient
-----------------------------------------------------------------------------
\* A block is made of one of the two heights and is not what a roof is.
LEMMA MeshesDiffer ==
  /\ Block("pc") # Block("fallback")
  /\ \A h : Block(h) # NoMesh
  /\ \A lod \in LOD : \A h : Roof(lod) # Block(h) /\ Roof(lod) # NoMesh
BY DEF Block, Roof, NoMesh, LOD

LEMMA InitInv == Init => Inv
<1> SUFFICES ASSUME Init PROVE Inv
  OBVIOUS
<1>1. multisolids = [lod \in LOD |-> NoMesh]
  BY DEF Init, NoRoof
<1>2. multisolids = [lod \in LOD |-> IF lod \in lods \cap Built
                                     THEN Roof(lod) ELSE NoMesh]
  BY <1>1 DEF Init, Built
<1>3. TypeOK
  BY <1>1 DEF Init, TypeOK, ExtrusionMode, Meshes, LOD
<1>4. FallbackOnlyIfInsufficient
  BY <1>1, MeshesDiffer DEF FallbackOnlyIfInsufficient
<1> QED
  BY <1>2, <1>3, <1>4 DEF Init, Inv, Stages, ModeOnTheWay,
     InsufficientOnTheWay, ModeDescribesGeometry, EmptyOnlyWithoutHeights

LEMMA DispatchInv == Inv /\ Dispatch => Inv'
<1> SUFFICES ASSUME Inv, Dispatch PROVE Inv'
  OBVIOUS
<1>1. /\ extrusion_mode \in {"STANDARD", "LOD11_FALLBACK"}
      /\ multisolids = [lod \in LOD |-> IF lod \in lods \cap {}
                                        THEN Roof(lod) ELSE NoMesh]
  BY DEF Inv, ModeOnTheWay, Dispatch, Built
<1>2. \/ extrusion_mode' = "SKIP" /\ pc' = "skip" /\ pointcloud_insufficient
      \/ extrusion_mode' = "LOD11_FALLBACK" /\ pc' = "lod11_pc"
      \/ extrusion_mode' = "STANDARD" /\ pc' = "detect"
  BY <1>1 DEF Dispatch, Skipped
<1>3. TypeOK'
  BY <1>2 DEF Inv, TypeOK, Dispatch, ExtrusionMode
<1>4. ModeOnTheWay'
  BY <1>1, <1>2 DEF ModeOnTheWay, Dispatch, Built, cfg
<1> QED
  BY <1>2, <1>3, <1>4 DEF Inv, Dispatch, Stages, InsufficientOnTheWay,
     ModeDescribesGeometry, EmptyOnlyWithoutHeights,
     FallbackOnlyIfInsufficient

LEMMA SkipInv == Inv /\ Skip => Inv'
<1> SUFFICES ASSUME Inv, Skip PROVE Inv'
  OBVIOUS
<1>1. /\ extrusion_mode = "SKIP" /\ pointcloud_insufficient
      /\ multisolids = [lod \in LOD |-> IF lod \in lods \cap {}
                                        THEN Roof(lod) ELSE NoMesh]
  BY DEF Inv, ModeOnTheWay, InsufficientOnTheWay, Skip, Built
<1>2. \/ pc' = "lod11_fallback" /\ UNCHANGED progress
      \/ ~ BothHeights /\ pc' = "done" /\ progress' = "RECONSTRUCTION_SUCCEEDED"
  BY DEF Skip, Succeed
<1>3. TypeOK'
  BY <1>2 DEF Inv, TypeOK, Skip
<1>4. ModeOnTheWay'
  BY <1>1, <1>2 DEF ModeOnTheWay, Skip, Built, cfg
<1>5. ModeDescribesGeometry'
  BY <1>1, <1>2 DEF ModeDescribesGeometry, Skip, NoRoof
<1> QED
  BY <1>1, <1>2, <1>3, <1>4, <1>5 DEF Inv, Skip, Stages, BothHeights, cfg,
     InsufficientOnTheWay, EmptyOnlyWithoutHeights, FallbackOnlyIfInsufficient

\* A block that is made ends the reconstruction.
LEMMA Extrude11Inv ==
  ASSUME Inv, NEW h \in {"pc", "fallback"}, Extrude11(h),
         h = "fallback" => pointcloud_insufficient,
         UNCHANGED <<cfg, pointcloud_insufficient>>
  PROVE  Inv'
<1>1. /\ multisolids' = [lod \in LOD |-> Block(h)]
      /\ extrusion_mode' = "LOD11_FALLBACK"
      /\ pc' = "done" /\ progress' = "RECONSTRUCTION_SUCCEEDED"
  BY DEF Extrude11, Succeed
<1>2. Block(h) \in Meshes
  BY DEF Block, Meshes
<1>3. TypeOK'
  BY <1>1, <1>2 DEF TypeOK, Extrude11, ExtrusionMode
<1>4. FallbackOnlyIfInsufficient'
  BY <1>1, MeshesDiffer DEF FallbackOnlyIfInsufficient, LOD
<1> QED
  BY <1>1, <1>3, <1>4 DEF Inv, Stages, ModeOnTheWay, InsufficientOnTheWay,
     ModeDescribesGeometry, EmptyOnlyWithoutHeights

\* Whatever is there when it throws, the handlers are next.
LEMMA Extrude11ThrowsInv ==
  ASSUME Inv, NEW h \in {"pc", "fallback"}, Extrude11Throws(h),
         pc # "done", pc' \in {"catch", "lod11_pc"},
         h = "fallback" => pointcloud_insufficient,
         UNCHANGED <<cfg, pointcloud_insufficient>>
  PROVE  Inv'
<1>1. multisolids' = multisolids \/ multisolids' = [lod \in LOD |-> Block(h)]
  BY DEF Extrude11Throws
<1>2. Block(h) \in Meshes
  BY DEF Block, Meshes
<1>3. TypeOK'
  BY <1>1, <1>2 DEF Inv, TypeOK, Extrude11Throws, LOD
<1>4. FallbackOnlyIfInsufficient'
  BY <1>1, MeshesDiffer DEF Inv, FallbackOnlyIfInsufficient, LOD
<1> QED
  BY <1>3, <1>4 DEF Inv, Stages, ModeOnTheWay, InsufficientOnTheWay,
     ModeDescribesGeometry, EmptyOnlyWithoutHeights

LEMMA Lod11FromPointsInv == Inv /\ Lod11FromPoints => Inv'
<1> SUFFICES ASSUME Inv, Lod11FromPoints PROVE Inv'
  OBVIOUS
<1>1. CASE Extrude11("pc")
  BY <1>1, Extrude11Inv DEF Lod11FromPoints
<1>2. CASE Extrude11Throws("pc") /\ pc' = "catch"
  BY <1>2, Extrude11ThrowsInv DEF Lod11FromPoints
<1> QED
  BY <1>1, <1>2 DEF Lod11FromPoints

LEMMA Lod11FromFallbackInv == Inv /\ Lod11FromFallback => Inv'
<1> SUFFICES ASSUME Inv, Lod11FromFallback PROVE Inv'
  OBVIOUS
<1>0. pointcloud_insufficient
  BY DEF Inv, InsufficientOnTheWay, Lod11FromFallback
<1>1. CASE Extrude11("fallback")
  BY <1>0, <1>1, Extrude11Inv DEF Lod11FromFallback
<1>2. CASE Extrude11Throws("fallback") /\ pc' \in {"catch", "lod11_pc"}
  BY <1>0, <1>2, Extrude11ThrowsInv DEF Lod11FromFallback
<1> QED
  BY <1>1, <1>2 DEF Lod11FromFallback

LEMMA DetectInv == Inv /\ Detect => Inv'
<1> SUFFICES ASSUME Inv, Detect PROVE Inv'
  OBVIOUS
<1>1. /\ extrusion_mode = "STANDARD"
      /\ multisolids = [lod \in LOD |-> IF lod \in lods \cap {}
                                        THEN Roof(lod) ELSE NoMesh]
  BY DEF Inv, ModeOnTheWay, Detect, Built
<1>2. \/ /\ pc' = "lod12" /\ extrusion_mode' = "STANDARD"
         /\ UNCHANGED <<pointcloud_insufficient, progress>>
      \/ /\ pc' = "detected_fallback" /\ extrusion_mode' = "SKIP"
         /\ pointcloud_insufficient' /\ UNCHANGED progress
      \/ /\ pc' = "done" /\ extrusion_mode' = "SKIP" /\ ~ roof_h_fallback
         /\ pointcloud_insufficient' /\ progress' = "RECONSTRUCTION_SUCCEEDED"
  BY <1>1 DEF Detect, Succeed
<1>3. TypeOK'
  BY <1>2 DEF Inv, TypeOK, Detect, ExtrusionMode
<1>4. ModeOnTheWay'
  BY <1>1, <1>2 DEF ModeOnTheWay, Detect, Built, cfg
<1>5. ModeDescribesGeometry'
  BY <1>1, <1>2 DEF ModeDescribesGeometry, Detect, NoRoof
<1> QED
  BY <1>2, <1>3, <1>4, <1>5 DEF Inv, Detect, Stages, cfg,
     InsufficientOnTheWay, EmptyOnlyWithoutHeights, FallbackOnlyIfInsufficient

LEMMA DetectThrowsInv == Inv /\ DetectThrows => Inv'
BY DEF Inv, DetectThrows, Stages, TypeOK, ModeOnTheWay, InsufficientOnTheWay,
   ModeDescribesGeometry, EmptyOnlyWithoutHeights, FallbackOnlyIfInsufficient

\* One level more is built, and only if it is asked for.
LEMMA Extrude22Inv == ASSUME NEW lod \in LOD, Inv, Extrude22(lod) PROVE Inv'
<1>1. /\ extrusion_mode = "STANDARD"
      /\ multisolids = [l \in LOD |-> IF l \in lods \cap Built
                                      THEN Roof(l) ELSE NoMesh]
  BY DEF Inv, ModeOnTheWay, Extrude22, LOD
<1>2. \/ /\ pc' \in {"lod13", "lod22"} /\ UNCHANGED progress
      \/ pc' = "done" /\ progress' = "RECONSTRUCTION_SUCCEEDED"
  BY DEF Extrude22, Succeed, Following, LOD
<1>3. Built' = Built \cup {lod} /\ lod \notin Built
  BY DEF Extrude22, Succeed, Following, Built, LOD
<1>4. multisolids' = [l \in LOD |-> IF l \in lods \cap Built'
                                   THEN Roof(l) ELSE NoMesh]
  BY <1>1, <1>3 DEF Extrude22, WithRoof
<1>5. TypeOK'
  <2>1. multisolids' \in [LOD -> Meshes]
    BY <1>4 DEF Meshes
  <2>2. rmse' \subseteq LOD /\ volume' \subseteq LOD
    BY DEF Inv, TypeOK, Extrude22
  <2>3. pc # "done"
    BY DEF Extrude22, LOD
  <2>4. UNCHANGED <<extrusion_mode, roof_elevation_70p>>
    BY DEF Extrude22
  <2> QED
    BY <1>2, <2>1, <2>2, <2>3, <2>4 DEF Inv, TypeOK
<1>6. ModeOnTheWay'
  BY <1>1, <1>2, <1>4 DEF ModeOnTheWay, Extrude22, cfg
<1>7. ModeDescribesGeometry'
  <2>1. pc' = "done" => Built' = LOD
    BY DEF Built
  <2> QED
    BY <1>1, <1>4, <2>1 DEF ModeDescribesGeometry, Extrude22, cfg
<1>8. FallbackOnlyIfInsufficient'
  BY <1>4, MeshesDiffer DEF FallbackOnlyIfInsufficient
<1> QED
  BY <1>1, <1>2, <1>5, <1>6, <1>7, <1>8 DEF Inv, Stages, Extrude22,
     InsufficientOnTheWay, EmptyOnlyWithoutHeights

LEMMA Extrude22ThrowsInv ==
  ASSUME NEW lod \in LOD, Inv, Extrude22Throws(lod) PROVE Inv'
<1>1. \/ UNCHANGED multisolids
      \/ multisolids' = [multisolids EXCEPT ![lod] = Roof(lod)]
  BY DEF Extrude22Throws, WithRoof
<1>2. TypeOK'
  <2>1. multisolids' \in [LOD -> Meshes]
    BY <1>1 DEF Inv, TypeOK, Meshes
  <2>2. pc # "done" /\ pc' = "catch" /\ UNCHANGED progress
    BY DEF Extrude22Throws, LOD
  <2> QED
    BY <2>1, <2>2 DEF Inv, TypeOK, Extrude22Throws
<1>3. FallbackOnlyIfInsufficient'
  BY <1>1, MeshesDiffer
  DEF Inv, TypeOK, FallbackOnlyIfInsufficient, Extrude22Throws
<1> QED
  BY <1>2, <1>3 DEF Inv, Extrude22Throws, Stages, ModeOnTheWay,
     InsufficientOnTheWay, ModeDescribesGeometry, EmptyOnlyWithoutHeights

LEMMA CatchInv == Inv /\ Catch => Inv'
<1> SUFFICES ASSUME Inv, Catch PROVE Inv'
  OBVIOUS
<1>1. multisolids' = [lod \in LOD |-> NoMesh]
  BY DEF Catch, ClearMeshes, NoRoof
<1>2. TypeOK'
  BY <1>1 DEF Inv, TypeOK, Catch, ExtrusionMode, Meshes
<1>3. FallbackOnlyIfInsufficient'
  BY <1>1, MeshesDiffer DEF FallbackOnlyIfInsufficient
<1> QED
  BY <1>1, <1>2, <1>3 DEF Inv, Catch, Stages, ModeOnTheWay, NoRoof,
     InsufficientOnTheWay, ModeDescribesGeometry, EmptyOnlyWithoutHeights

LEMMA StutterInv == Inv /\ UNCHANGED vars => Inv'
BY DEF Inv, vars, cfg, Stages, TypeOK, ModeOnTheWay, Built,
   InsufficientOnTheWay, ModeDescribesGeometry, EmptyOnlyWithoutHeights,
   FallbackOnlyIfInsufficient

LEMMA InvHolds == Spec => []Inv
<1>1. Inv /\ [Next]_vars => Inv'
  BY DispatchInv, SkipInv, Lod11FromPointsInv, Lod11FromFallbackInv, DetectInv,
     DetectThrowsInv, Extrude22Inv, Extrude22ThrowsInv, CatchInv, StutterInv
  DEF Next
<1> QED
  BY <1>1, InitInv, PTL DEF Spec

\* Whatever throws, and for every configuration: the extrusion mode of a
\* building that is decided is true of its meshes, and a failed one has none.
THEOREM ModeIsTrue == Spec => []ModeDescribesGeometry
<1>1. Inv => ModeDescribesGeometry
  BY DEF Inv
<1> QED
  BY <1>1, InvHolds, PTL

\* No building with a floor and a fallback height is left empty, at whichever
\* of the two places its points turned out to be insufficient.
THEOREM NoneLeftEmpty == Spec => []EmptyOnlyWithoutHeights
<1>1. Inv => EmptyOnlyWithoutHeights
  BY DEF Inv
<1> QED
  BY <1>1, InvHolds, PTL

\* The fallback height is not used for a building whose points are sufficient.
THEOREM FallbackIsLastResort == Spec => []FallbackOnlyIfInsufficient
<1>1. Inv => FallbackOnlyIfInsufficient
  BY DEF Inv
<1> QED
  BY <1>1, InvHolds, PTL

\* With clear-insufficient a building without points, which then has less than
\* the least density, is skipped at once, and what it is extruded to, if
\* anything, is its fallback height.
NoPointsInv ==
  clear_if_insufficient /\ min_building_density /\ ~ has_points =>
    /\ pointcloud_insufficient
    /\ pc \in {"start", "skip", "lod11_fallback", "catch", "done"}
    /\ \A lod \in LOD : multisolids[lod] # Block("pc")

LEMMA NoPointsInit == Init => NoPointsInv
BY MeshesDiffer DEF Init, NoPointsInv, NoRoof

LEMMA NoPointsPreserved == NoPointsInv /\ [Next]_vars => NoPointsInv'
<1> SUFFICES ASSUME NoPointsInv, [Next]_vars PROVE NoPointsInv'
  OBVIOUS
<1>1. CASE Dispatch
  BY <1>1 DEF Dispatch, Skipped, NoPointsInv, cfg
<1>2. CASE Skip
  BY <1>2 DEF Skip, Succeed, NoPointsInv, cfg
<1>3. CASE Lod11FromPoints
  BY <1>3 DEF Lod11FromPoints, NoPointsInv, cfg
<1>4. CASE Lod11FromFallback
  <2>1. multisolids' \in {multisolids, [lod \in LOD |-> Block("fallback")]}
    BY <1>4 DEF Lod11FromFallback, Extrude11, Extrude11Throws
  <2>2. UNCHANGED <<clear_if_insufficient, min_building_density, has_points,
                     pointcloud_insufficient>>
    BY <1>4 DEF Lod11FromFallback, cfg
  <2>3. pc = "lod11_fallback" => pc' \in {"catch", "done"}
    BY <1>4 DEF Lod11FromFallback, Extrude11, Succeed
  <2>4. pc \in {"lod11_fallback", "detected_fallback"}
    BY <1>4 DEF Lod11FromFallback
  <2> QED
    BY <2>1, <2>2, <2>3, <2>4, MeshesDiffer DEF NoPointsInv
<1>5. CASE Detect \/ DetectThrows
  BY <1>5 DEF Detect, DetectThrows, NoPointsInv, cfg
<1>6. CASE \E lod \in LOD : Extrude22(lod) \/ Extrude22Throws(lod)
  <2>1. pc \in LOD /\ UNCHANGED cfg
    BY <1>6 DEF Extrude22, Extrude22Throws
  <2> QED
    BY <2>1 DEF NoPointsInv, cfg, LOD
<1>7. CASE Catch
  BY <1>7, MeshesDiffer DEF Catch, ClearMeshes, NoRoof, NoPointsInv, cfg
<1>8. CASE UNCHANGED vars
  BY <1>8 DEF vars, cfg, NoPointsInv
<1> QED
  BY <1>1, <1>2, <1>3, <1>4, <1>5, <1>6, <1>7, <1>8 DEF Next

\* With clear-insufficient and a least density above 0 no building is extruded
\* to an elevation that was derived of no points, forced to LoD 1.1 or not.
THEOREM NoElevationOfNoPoints == Spec => []FallbackWithoutPoints
<1>1. NoPointsInv => FallbackWithoutPoints
  BY DEF NoPointsInv, FallbackWithoutPoints
<1> QED
  BY <1>1, NoPointsInit, NoPointsPreserved, PTL DEF Spec

\* Errors and volumes on the way: those of the levels that are built.
MeasuresInv ==
  /\ pc \in {"start", "skip", "lod11_fallback", "detect", "detected_fallback",
             "lod12", "lod13", "lod22"} =>
       rmse = lods \cap Built /\ volume = lods \cap Built
  /\ lods \subseteq LOD
  /\ MeasuresHaveGeometry

LEMMA MeasuresInit == Init => MeasuresInv
BY DEF Init, MeasuresInv, MeasuresHaveGeometry, Built

LEMMA MeasuresPreserved ==
  Inv /\ MeasuresInv /\ [Next]_vars => MeasuresInv'
<1> SUFFICES ASSUME Inv, MeasuresInv, [Next]_vars PROVE MeasuresInv'
  OBVIOUS
<1>1. CASE Dispatch
  BY <1>1 DEF Dispatch, MeasuresInv, MeasuresHaveGeometry, cfg, Built
<1>2. CASE Skip
  <2>1. multisolids = [lod \in LOD |-> NoMesh] /\ rmse = {} /\ volume = {}
    BY <1>2 DEF Skip, Inv, ModeOnTheWay, MeasuresInv, Built
  <2> QED
    BY <1>2, <2>1 DEF Skip, Succeed, MeasuresInv, MeasuresHaveGeometry, cfg,
       Built
<1>3. CASE Lod11FromPoints \/ Lod11FromFallback
  <2>1. UNCHANGED lods /\ pc' \in {"catch", "lod11_pc", "done"}
    BY <1>3 DEF Lod11FromPoints, Lod11FromFallback, Extrude11, Succeed, cfg
  <2>2. pc' = "done" =>
          /\ \E h \in {"pc", "fallback"} :
               multisolids' = [lod \in LOD |-> Block(h)]
          /\ rmse' = LOD /\ volume' = LOD
    BY <1>3 DEF Lod11FromPoints, Lod11FromFallback, Extrude11
  <2> QED
    BY <2>1, <2>2, MeshesDiffer DEF MeasuresInv, MeasuresHaveGeometry
<1>4. CASE Detect
  <2>1. multisolids = [lod \in LOD |-> NoMesh] /\ rmse = {} /\ volume = {}
    BY <1>4 DEF Detect, Inv, ModeOnTheWay, MeasuresInv, Built
  <2> QED
    BY <1>4, <2>1 DEF Detect, Succeed, MeasuresInv, MeasuresHaveGeometry, cfg,
       Built
<1>5. CASE DetectThrows
  BY <1>5 DEF DetectThrows, MeasuresInv, MeasuresHaveGeometry, cfg
<1>6. ASSUME NEW lod \in LOD, Extrude22(lod) PROVE MeasuresInv'
  <2>1. Built' = Built \cup {lod} /\ lod \notin Built
    BY <1>6 DEF Extrude22, Succeed, Following, Built, LOD
  <2>2. rmse' = lods' \cap Built' /\ volume' = lods' \cap Built'
    BY <1>6, <2>1 DEF Extrude22, MeasuresInv, LOD, cfg
  <2>3. Inv'
    BY <1>6, Extrude22Inv
  <2>4. pc' = "done" =>
          multisolids' = [l \in LOD |-> IF l \in lods' THEN Roof(l) ELSE NoMesh]
    <3>1. extrusion_mode' = "STANDARD"
      BY <1>6 DEF Inv, ModeOnTheWay, Extrude22, LOD
    <3> QED
      BY <2>3, <3>1 DEF Inv, ModeDescribesGeometry
  <2>5. pc' = "done" => Built' = LOD
    BY DEF Built
  <2> QED
    BY <1>6, <2>2, <2>4, <2>5, MeshesDiffer
    DEF MeasuresInv, MeasuresHaveGeometry, Extrude22, cfg
<1>7. CASE Catch \/ \E lod \in LOD : Extrude22Throws(lod)
  BY <1>7 DEF Catch, Extrude22Throws, MeasuresInv, MeasuresHaveGeometry, cfg
<1>8. CASE UNCHANGED vars
  BY <1>8 DEF vars, cfg, MeasuresInv, MeasuresHaveGeometry, Built
<1> QED
  BY <1>1, <1>2, <1>3, <1>4, <1>5, <1>6, <1>7, <1>8 DEF Next

\* The errors and volumes of a building that did not fail are those of the
\* meshes it has: for each mesh, and for nothing else.
THEOREM MeasuresAreOfMeshes == Spec => []MeasuresHaveGeometry
<1>1. MeasuresInv => MeasuresHaveGeometry
  BY DEF MeasuresInv
<1> QED
  BY <1>1, InvHolds, MeasuresInit, MeasuresPreserved, PTL DEF Spec

-----------------------------------------------------------------------------
(***************************************************************************)
(* Adjacency: what is reached is the least closed set, and the components  *)
(* of a symmetric relation divide everything into closed sets.             *)
(***************************************************************************)

(* A non-empty set of subsets of a finite set has a minimal element. *)
LEMMA MinimalSubset ==
  ASSUME NEW S, IsFiniteSet(S), NEW C, C \subseteq SUBSET S, C # {}
  PROVE  \E A \in C : \A B \in C : B \subseteq A => B = A
<1>1. C \subseteq FiniteSubsetsOf(S)
  BY FS_FiniteSubsetsOfFinite
<1>2. PICK A \in C : \A B \in C : ~ (<<B, A>> \in StrictSubsetOrdering(S))
  BY <1>1, FS_StrictSubsetOrderingWellFounded, WFMin
<1> QED
  BY <1>2 DEF StrictSubsetOrdering

(* A non-empty set of natural numbers has a least one. *)
LEMMA LeastNumber ==
  ASSUME NEW T, T \subseteq Nat, T # {}
  PROVE  \E n \in T : \A m \in T : n <= m
<1>1. PICK k \in T : TRUE
  OBVIOUS
<1> DEFINE C == {0 .. m : m \in {x \in T : x <= k}}
<1>2. IsFiniteSet(0 .. k)
  BY FS_Interval
<1>3. C \subseteq SUBSET (0 .. k)
  OBVIOUS
<1>4. C # {}
  OBVIOUS
<1>5. \A m \in T : m <= k => 0 .. m \in C
  OBVIOUS
<1>6. \A B \in C : \E n \in T : B = 0 .. n /\ n <= k
  OBVIOUS
<1> HIDE DEF C
<1>7. PICK A \in C : \A B \in C : B \subseteq A => B = A
  <2> DEFINE S == 0 .. k
  <2>1. IsFiniteSet(S) /\ C \subseteq SUBSET S
    BY <1>2, <1>3
  <2> HIDE DEF S
  <2> QED
    BY <2>1, <1>4, MinimalSubset
<1>8. PICK n \in T : A = 0 .. n /\ n <= k
  BY <1>6
<1>9. ASSUME NEW m \in T, m < n PROVE FALSE
  <2>1. 0 .. m \in C /\ 0 .. m \subseteq A
    BY <1>5, <1>8, <1>9
  <2>2. n \notin 0 .. m /\ n \in A
    BY <1>8, <1>9
  <2> QED
    BY <1>7, <2>1, <2>2
<1> QED
  BY <1>9

(* What holds of the first of n steps, and of each when it holds of the one *)
(* before, holds of the last.                                              *)
LEMMA StepsStay ==
  ASSUME NEW n \in Nat, NEW h, NEW P, h[0] \in P[0],
         \A i \in 1 .. n : h[i - 1] \in P[i - 1] => h[i] \in P[i]
  PROVE  h[n] \in P[n]
<1> SUFFICES ASSUME h[n] \notin P[n] PROVE FALSE
  OBVIOUS
<1> DEFINE T == {i \in 0 .. n : h[i] \notin P[i]}
<1>1. T \subseteq Nat /\ T # {}
  OBVIOUS
<1>2. PICK m \in T : \A i \in T : m <= i
  <2> HIDE DEF T
  <2> QED
    BY <1>1, LeastNumber
<1>3. m # 0 /\ m \in 1 .. n /\ m - 1 \in 0 .. n
  OBVIOUS
<1>4. h[m - 1] \in P[m - 1]
  BY <1>2, <1>3
<1> QED
  BY <1>3, <1>4

(* Steps that stay in a set can be taken one after the other. *)
LEMMA StepsExist ==
  ASSUME NEW X, NEW base \in X, NEW n \in Nat, NEW step \in [1 .. n -> [X -> X]]
  PROVE  \E g \in [0 .. n -> X] : g[0] = base /\ \A i \in 1 .. n : g[i] = step[i][g[i - 1]]
<1> DEFINE Taken(m) == {g \in [0 .. m -> X] :
                          g[0] = base /\ \A i \in 1 .. m : g[i] = step[i][g[i - 1]]}
<1> DEFINE T == {m \in 0 .. n : Taken(m) = {}}
<1>1. CASE T = {}
  <2>1. n \notin T /\ n \in 0 .. n
    BY <1>1
  <2> QED
    BY <2>1
<1>2. CASE T # {}
  <2>1. PICK m \in T : \A i \in T : m <= i
    <3>1. T \subseteq Nat
      OBVIOUS
    <3> HIDE DEF T
    <3> QED
      BY <3>1, <1>2, LeastNumber
  <2>2. m # 0
    <3>1. [i \in 0 .. 0 |-> base] \in Taken(0)
      OBVIOUS
    <3> QED
      BY <3>1
  <2>3. m \in 1 .. n /\ m - 1 \in 0 .. n
    BY <2>2
  <2>4. m - 1 \notin T
    <3> HIDE DEF T
    <3> QED
      BY <2>1, <2>3
  <2>5. PICK g \in [0 .. m - 1 -> X] : g[0] = base /\ \A i \in 1 .. m - 1 : g[i] = step[i][g[i - 1]]
    BY <2>3, <2>4
  <2> DEFINE next == [i \in 0 .. m |-> IF i = m THEN step[m][g[m - 1]] ELSE g[i]]
  <2>6. step[m][g[m - 1]] \in X
    BY <2>3
  <2>7. next \in [0 .. m -> X] /\ next[0] = base
    BY <2>3, <2>5, <2>6
  <2>8. \A i \in 1 .. m : next[i] = step[i][next[i - 1]]
    <3> TAKE i \in 1 .. m
    <3>1. CASE i = m
      BY <2>3, <3>1
    <3>2. CASE i # m
      BY <2>3, <2>5, <3>2
    <3> QED
      BY <3>1, <3>2
  <2>9. next \in Taken(m)
    BY <2>7, <2>8
  <2> QED
    BY <2>9
<1> QED
  BY <1>1, <1>2

(* The same for a step that is the same each time. *)
StepsIn(X) == [X -> X]
Runs(X, base, step, n) ==
  {g \in [0 .. n -> X] : g[0] = base /\ \A k \in 1 .. n : g[k] = step[g[k - 1]]}

LEMMA Iterated ==
  ASSUME NEW X, NEW base \in X, NEW n \in Nat, NEW step \in StepsIn(X)
  PROVE  Runs(X, base, step, n) # {}
<1>0. step \in [X -> X]
  BY DEF StepsIn
<1> DEFINE steps == [k \in 1 .. n |-> step]
<1>1. steps \in [1 .. n -> [X -> X]] /\ \A k \in 1 .. n : steps[k] = step
  BY <1>0
<1>2. ASSUME NEW m \in Nat, NEW s \in [1 .. m -> [X -> X]]
      PROVE  \E g \in [0 .. m -> X] : g[0] = base /\ \A k \in 1 .. m : g[k] = s[k][g[k - 1]]
  BY StepsExist, SMT
<1> HIDE DEF steps
<1>3. PICK g \in [0 .. n -> X] : g[0] = base /\ \A k \in 1 .. n : g[k] = steps[k][g[k - 1]]
  BY <1>1, <1>2, SMT
<1> QED
  BY <1>1, <1>3 DEF Runs

(* Whoever is among them has their neighbours among them. *)
IsClosedUnder(near, all, S) == \A x \in S \cap all : \A y \in near[x] \cap all : y \in S

IsSymmetric(near, all) == \A x, y \in all : y \in near[x] => x \in near[y]

Spreads(all) == [reached : SUBSET all, last : SUBSET all]

LEMMA FurtherStays ==
  ASSUME NEW near, NEW all, NEW b \in Spreads(all)
  PROVE  Further(near, all, b) \in Spreads(all)
<1> DEFINE more == ((UNION {near[x] : x \in b.last}) \cap all) \ b.reached
<1>1. more \subseteq all /\ b.reached \subseteq all
  BY DEF Spreads
<1>2. Further(near, all, b) = [reached |-> b.reached \cup more, last |-> more]
  BY DEF Further
<1> HIDE DEF more
<1> QED
  BY <1>1, <1>2 DEF Spreads

LEMMA FloodSteps ==
  ASSUME NEW near, NEW all, IsFiniteSet(all), NEW from, from \subseteq all
  PROVE  \E s : /\ s \in [0 .. Cardinality(all) -> Spreads(all)]
                /\ s[0] = [reached |-> from, last |-> from]
                /\ \A k \in 1 .. Cardinality(all) : s[k] = Further(near, all, s[k - 1])
                /\ Flood(near, all, from) = s[Cardinality(all)].reached
<1> DEFINE n == Cardinality(all)
           X == Spreads(all)
           base == [reached |-> from, last |-> from]
           step == [b \in X |-> Further(near, all, b)]
           Direct(g) == [k \in 0 .. n |-> IF k = 0 THEN base ELSE Further(near, all, g[k - 1])]
           s == CHOOSE g : g = Direct(g)
<1>1. n \in Nat /\ base \in X
  BY FS_CardinalityType DEF Spreads
<1>2. step \in [X -> X]
  <2> SUFFICES ASSUME NEW b \in X PROVE Further(near, all, b) \in X
    OBVIOUS
  <2> QED
    BY FurtherStays
<1>3. Flood(near, all, from) = s[n].reached
  BY DEF Flood
<1>5. PICK g \in [0 .. n -> X] : g[0] = base /\ \A k \in 1 .. n : g[k] = step[g[k - 1]]
  <2> HIDE DEF n, X, base, step
  <2> QED
    <3>1. step \in StepsIn(X)
      BY <1>2 DEF StepsIn
    <3>2. Runs(X, base, step, n) # {}
      BY <1>1, <3>1, Iterated
    <3> QED
      BY <3>2 DEF Runs
<1>6. \A k \in 1 .. n : g[k - 1] \in X /\ g[k] = Further(near, all, g[k - 1])
  <2> TAKE k \in 1 .. n
  <2>1. g[k - 1] \in X
    BY <1>1, <1>5
  <2> QED
    BY <2>1, <1>5
<1>7. g = Direct(g)
  <2>1. \A k \in 0 .. n : g[k] = IF k = 0 THEN base ELSE Further(near, all, g[k - 1])
    <3> HIDE DEF n, base, step
    <3> QED
      BY <1>1, <1>5, <1>6
  <2> QED
    BY <2>1, <1>5
<1>8. s = Direct(s)
  <2> HIDE DEF Direct
  <2> QED
    BY <1>7
<1> HIDE DEF s
<1>9. \A k \in 0 .. n : s[k] = IF k = 0 THEN base ELSE Further(near, all, s[k - 1])
  BY <1>8
<1>10. s[0] = base /\ \A k \in 1 .. n : s[k] = Further(near, all, s[k - 1])
  BY <1>1, <1>9
<1>11. \A k \in 0 .. n : s[k] \in X
  <2> SUFFICES ASSUME NEW k \in 0 .. n, s[k] \notin X PROVE FALSE
    OBVIOUS
  <2> DEFINE P == [i \in 0 .. n |-> X]
  <2>1. \A i \in 1 .. k : s[i - 1] \in P[i - 1] => s[i] \in P[i]
    <3> TAKE i \in 1 .. k
    <3>1. i \in 1 .. n /\ i - 1 \in 0 .. n /\ i \in 0 .. n
      BY <1>1
    <3>2. s[i - 1] \in X => Further(near, all, s[i - 1]) \in X
      BY FurtherStays
    <3> HIDE DEF X
    <3> QED
      BY <3>1, <3>2, <1>10
  <2>2. s[0] \in P[0] /\ k \in Nat
    BY <1>1, <1>10
  <2>3. s[k] \in P[k]
    <3> HIDE DEF P
    <3> QED
      BY <2>1, <2>2, StepsStay
  <2> QED
    BY <2>3
<1>12. s \in [0 .. n -> X]
  <2>1. s = [k \in 0 .. n |-> s[k]]
    BY <1>8
  <2> QED
    BY <2>1, <1>11
<1> QED
  BY <1>3, <1>10, <1>12

(* One step further has all the neighbours of what the step before reached, *)
(* and has reached more than before unless that one reached nothing new.   *)
Progress(near, all, from, k) ==
  {b \in Spreads(all) :
     /\ from \subseteq b.reached /\ b.last \subseteq b.reached
     /\ \A x \in b.reached \ b.last : \A y \in near[x] \cap all : y \in b.reached
     /\ b.last = {} \/ Cardinality(b.reached) > k}

LEMMA FurtherProgress ==
  ASSUME NEW near, NEW all, IsFiniteSet(all), NEW from, NEW k \in Nat, NEW b \in Progress(near, all, from, k)
  PROVE  Further(near, all, b) \in Progress(near, all, from, k + 1)
<1> DEFINE more == ((UNION {near[x] : x \in b.last}) \cap all) \ b.reached
           c == Further(near, all, b)
<1>1. c.reached = b.reached \cup more /\ c.last = more
  BY DEF Further
<1>2. /\ b \in Spreads(all) /\ from \subseteq b.reached /\ b.last \subseteq b.reached
      /\ \A x \in b.reached \ b.last : \A y \in near[x] \cap all : y \in b.reached
      /\ b.last = {} \/ Cardinality(b.reached) > k
  BY DEF Progress
<1>3. b.reached \subseteq all /\ more \subseteq all
  BY <1>2 DEF Spreads
<1>4. \A x \in b.last : \A y \in near[x] \cap all : y \in b.reached \cup more
  OBVIOUS
<1>5. \A x \in c.reached \ c.last : \A y \in near[x] \cap all : y \in c.reached
  BY <1>1, <1>2, <1>4
<1>6. more # {} => b.last # {}
  OBVIOUS
<1>7. more \cap b.reached = {}
  OBVIOUS
<1>8. c \in Spreads(all)
  BY <1>2, FurtherStays
<1> HIDE DEF more, c
<1>9. ASSUME more # {} PROVE Cardinality(c.reached) > k + 1
  <2>1. IsFiniteSet(b.reached) /\ IsFiniteSet(more) /\ IsFiniteSet(c.reached)
    BY <1>1, <1>3, FS_Subset, FS_Union
  <2>2. PICK x \in more : TRUE
    BY <1>9
  <2>3. x \notin b.reached /\ b.reached \cup {x} \subseteq c.reached
    BY <1>1, <1>7, <2>2
  <2>4. Cardinality(b.reached \cup {x}) = Cardinality(b.reached) + 1
    BY <2>1, <2>3, FS_AddElement
  <2>5. Cardinality(b.reached \cup {x}) <= Cardinality(c.reached)
    BY <2>1, <2>3, FS_Subset
  <2>6. Cardinality(b.reached) > k
    BY <1>2, <1>6, <1>9
  <2>7. Cardinality(b.reached) \in Nat /\ Cardinality(c.reached) \in Nat
    BY <2>1, FS_CardinalityType
  <2> QED
    BY <2>4, <2>5, <2>6, <2>7
<1>10. from \subseteq c.reached /\ c.last \subseteq c.reached
  BY <1>1, <1>2
<1>11. c.last = {} \/ Cardinality(c.reached) > k + 1
  BY <1>1, <1>9
<1> QED
  BY <1>5, <1>8, <1>10, <1>11 DEF Progress, c

LEMMA FloodIsClosed ==
  ASSUME NEW near, NEW all, IsFiniteSet(all), NEW from, from \subseteq all
  PROVE  LET S == Flood(near, all, from)
         IN from \subseteq S /\ S \subseteq all /\ IsClosedUnder(near, all, S)
<1> DEFINE n == Cardinality(all)
           base == [reached |-> from, last |-> from]
<1>1. n \in Nat
  BY FS_CardinalityType
<1>2. PICK s : /\ s \in [0 .. n -> Spreads(all)]
               /\ s[0] = base
               /\ \A k \in 1 .. n : s[k] = Further(near, all, s[k - 1])
               /\ Flood(near, all, from) = s[n].reached
  BY FloodSteps
<1> DEFINE P == [k \in 0 .. n |-> Progress(near, all, from, k)]
<1>3. s[0] \in P[0]
  <2>1. from # {} => Cardinality(from) > 0
    BY FS_Subset, FS_EmptySet, FS_CardinalityType
  <2>2. base \in Spreads(all) /\ base.reached = from /\ base.last = from
    BY DEF Spreads
  <2> HIDE DEF base
  <2>3. base \in Progress(near, all, from, 0)
    BY <2>1, <2>2 DEF Progress
  <2> QED
    BY <1>1, <1>2, <2>3
<1>4. ASSUME NEW i \in 1 .. n, s[i - 1] \in P[i - 1] PROVE s[i] \in P[i]
  <2>1. i - 1 \in Nat /\ i - 1 \in 0 .. n /\ i \in 0 .. n /\ (i - 1) + 1 = i
    BY <1>1
  <2>2. s[i - 1] \in Progress(near, all, from, i - 1)
    BY <1>4, <2>1
  <2>3. Further(near, all, s[i - 1]) \in Progress(near, all, from, i)
    BY <2>1, <2>2, FurtherProgress
  <2> QED
    BY <1>2, <2>1, <2>3
<1>5. s[n] \in P[n]
  <2> HIDE DEF P, base
  <2> QED
    BY <1>1, <1>3, <1>4, StepsStay
<1>6. s[n] \in Progress(near, all, from, n)
  BY <1>1, <1>5
<1>7. s[n].last = {}
  <2>1. s[n].reached \subseteq all /\ (s[n].last = {} \/ Cardinality(s[n].reached) > n)
    BY <1>6 DEF Progress, Spreads
  <2>2. Cardinality(s[n].reached) <= n /\ Cardinality(s[n].reached) \in Nat
    BY <2>1, FS_Subset, FS_CardinalityType
  <2> QED
    BY <1>1, <2>1, <2>2
<1> QED
  BY <1>2, <1>6, <1>7 DEF Progress, Spreads, IsClosedUnder

LEMMA FloodIsLeast ==
  ASSUME NEW near, NEW all, IsFiniteSet(all), NEW from, from \subseteq all,
         NEW S, from \subseteq S, IsClosedUnder(near, all, S)
  PROVE  Flood(near, all, from) \subseteq S
<1> DEFINE n == Cardinality(all)
           base == [reached |-> from, last |-> from]
           In == {b \in Spreads(all) : b.reached \subseteq S /\ b.last \subseteq S}
           P == [k \in 0 .. n |-> In]
<1>1. n \in Nat
  BY FS_CardinalityType
<1>2. PICK s : /\ s \in [0 .. n -> Spreads(all)]
               /\ s[0] = base
               /\ \A k \in 1 .. n : s[k] = Further(near, all, s[k - 1])
               /\ Flood(near, all, from) = s[n].reached
  BY FloodSteps
<1>3. s[0] \in P[0]
  BY <1>1, <1>2 DEF Spreads
<1>4. ASSUME NEW b \in In PROVE Further(near, all, b) \in In
  <2> DEFINE more == ((UNION {near[x] : x \in b.last}) \cap all) \ b.reached
             c == Further(near, all, b)
  <2>1. c.reached = b.reached \cup more /\ c.last = more
    BY DEF Further
  <2>2. b.last \subseteq S /\ b.last \subseteq all
    BY DEF Spreads
  <2>3. more \subseteq S
    BY <2>2 DEF IsClosedUnder
  <2>4. c \in Spreads(all)
    BY FurtherStays
  <2> HIDE DEF more, c
  <2> QED
    BY <2>1, <2>3, <2>4 DEF c
<1>5. ASSUME NEW i \in 1 .. n, s[i - 1] \in P[i - 1] PROVE s[i] \in P[i]
  <2>1. i - 1 \in 0 .. n /\ i \in 0 .. n
    BY <1>1
  <2> HIDE DEF In
  <2> QED
    BY <1>2, <1>4, <1>5, <2>1
<1>6. s[n] \in P[n]
  <2> HIDE DEF P, base
  <2> QED
    BY <1>1, <1>3, <1>5, StepsStay
<1> QED
  BY <1>1, <1>2, <1>6

-----------------------------------------------------------------------------
(* The components divide everything into sets that are closed, each within *)
(* every closed set that it meets.                                         *)
IsDivision(C, all) ==
  /\ UNION C = all
  /\ \A p \in C : p # {}
  /\ \A p, q \in C : p \cap q # {} => p = q

Floods(near, all) == {Flood(near, all, {x}) : x \in all}

(* The parts that were found after k steps. *)
FoundAfter(near, all, k) ==
  {C \in SUBSET Floods(near, all) : UNION C = all \/ Cardinality(UNION C) >= k}

LEMMA FloodsAreParts ==
  ASSUME NEW near, NEW all, IsFiniteSet(all)
  PROVE  \A q \in Floods(near, all) : q \subseteq all
<1> TAKE q \in Floods(near, all)
<1>1. PICK x \in all : q = Flood(near, all, {x})
  BY DEF Floods
<1>2. {x} \subseteq all
  OBVIOUS
<1> QED
  BY <1>1, <1>2, FloodIsClosed

LEMMA OneMoreIsFound ==
  ASSUME NEW near, NEW all, IsFiniteSet(all), NEW k \in Nat, NEW C \in FoundAfter(near, all, k)
  PROVE  WithOneMore(near, all, C) \in FoundAfter(near, all, k + 1)
<1> DEFINE rest == all \ UNION C
           x == CHOOSE y \in rest : TRUE
           p == Flood(near, all, {x})
           D == WithOneMore(near, all, C)
<1>1. /\ C \in SUBSET Floods(near, all)
      /\ UNION C = all \/ Cardinality(UNION C) >= k
  BY DEF FoundAfter
<1>2. CASE rest = {}
  <2>1. D = C
    BY <1>2 DEF WithOneMore
  <2>2. UNION C \subseteq all
    <3>1. \A q \in Floods(near, all) : q \subseteq all
      BY FloodsAreParts
    <3> QED
      BY <1>1, <3>1
  <2>3. UNION C = all
    BY <1>2, <2>2
  <2> QED
    BY <1>1, <2>1, <2>3 DEF FoundAfter
<1>3. CASE rest # {}
  <2>1. x \in rest
    BY <1>3
  <2>2. D = C \cup {p}
    BY <1>3 DEF WithOneMore
  <2>3. p \in Floods(near, all)
    BY <2>1 DEF Floods
  <2>4. x \in p
    <3>1. {x} \subseteq all
      BY <2>1
    <3> HIDE DEF x
    <3> QED
      BY <3>1, FloodIsClosed
  <2>5. x \in all /\ x \notin UNION C
    BY <2>1
  <2> HIDE DEF x, p, rest, D
  <2>6. UNION D \subseteq all
    <3>1. \A q \in Floods(near, all) : q \subseteq all
      BY FloodsAreParts
    <3> QED
      BY <1>1, <2>2, <2>3, <3>1
  <2>7. (UNION C) \cup {x} \subseteq UNION D
    BY <2>2, <2>4
  <2>8. IsFiniteSet(UNION D) /\ IsFiniteSet(UNION C)
    BY <2>6, <2>7, FS_Subset
  <2>9. Cardinality((UNION C) \cup {x}) = Cardinality(UNION C) + 1
    BY <2>5, <2>8, FS_AddElement
  <2>10. Cardinality((UNION C) \cup {x}) <= Cardinality(UNION D)
    BY <2>7, <2>8, FS_Subset
  <2>11. Cardinality(UNION C) \in Nat /\ Cardinality(UNION D) \in Nat
    BY <2>8, FS_CardinalityType
  <2>12. Cardinality(UNION C) >= k
    BY <1>1, <2>5
  <2>13. Cardinality(UNION D) >= k + 1
    BY <2>9, <2>10, <2>11, <2>12
  <2>14. D \in SUBSET Floods(near, all)
    BY <1>1, <2>2, <2>3
  <2> QED
    BY <2>13, <2>14 DEF FoundAfter, D
<1> QED
  BY <1>2, <1>3

LEMMA ComponentsAreFloods ==
  ASSUME NEW near, NEW all, IsFiniteSet(all)
  PROVE  Components(near, all) \subseteq Floods(near, all) /\ UNION Components(near, all) = all
<1> DEFINE n == Cardinality(all)
           X == SUBSET Floods(near, all)
           step == [C \in X |-> WithOneMore(near, all, C)]
           Direct(g) == [k \in 0 .. n |-> IF k = 0 THEN {} ELSE WithOneMore(near, all, g[k - 1])]
           f == CHOOSE g : g = Direct(g)
           enough == CHOOSE k \in 0 .. n : UNION f[k] = all
<1>1. n \in Nat
  BY FS_CardinalityType
<1>2. Components(near, all) = f[enough]
  BY DEF Components
<1>3. \A C \in X : WithOneMore(near, all, C) \in X
  <2> SUFFICES ASSUME NEW C \in X PROVE WithOneMore(near, all, C) \in X
    OBVIOUS
  <2> DEFINE rest == all \ UNION C
             x == CHOOSE y \in rest : TRUE
  <2>1. CASE rest = {}
    BY <2>1 DEF WithOneMore
  <2>2. CASE rest # {}
    <3>1. x \in all
      BY <2>2
    <3>2. Flood(near, all, {x}) \in Floods(near, all)
      BY <3>1 DEF Floods
    <3> QED
      BY <2>2, <3>2 DEF WithOneMore
  <2> QED
    BY <2>1, <2>2
<1>4. PICK g \in [0 .. n -> X] : g[0] = {} /\ \A k \in 1 .. n : g[k] = step[g[k - 1]]
  <2>1. step \in StepsIn(X)
    BY <1>3 DEF StepsIn
  <2>2. {} \in X
    OBVIOUS
  <2> HIDE DEF n, X, step
  <2>3. Runs(X, {}, step, n) # {}
    BY <1>1, <2>1, <2>2, Iterated
  <2> QED
    BY <2>3 DEF Runs
<1>5. g = Direct(g)
  <2>1. \A k \in 1 .. n : g[k] = WithOneMore(near, all, g[k - 1])
    <3> TAKE k \in 1 .. n
    <3>1. g[k - 1] \in X
      BY <1>1, <1>4
    <3> QED
      BY <3>1, <1>4
  <2>2. \A k \in 0 .. n : g[k] = IF k = 0 THEN {} ELSE WithOneMore(near, all, g[k - 1])
    <3> HIDE DEF n, step, X
    <3> QED
      BY <1>1, <1>4, <2>1
  <2> QED
    BY <1>4, <2>2
<1>6. f = Direct(f)
  <2> HIDE DEF Direct
  <2> QED
    BY <1>5
<1> HIDE DEF f
<1>7. \A k \in 0 .. n : f[k] = IF k = 0 THEN {} ELSE WithOneMore(near, all, f[k - 1])
  BY <1>6
<1> DEFINE P == [k \in 0 .. n |-> FoundAfter(near, all, k)]
<1>8. f[0] \in P[0]
  <2>1. {} \in FoundAfter(near, all, 0)
    BY FS_EmptySet DEF FoundAfter
  <2> QED
    BY <1>1, <1>7, <2>1
<1>9. ASSUME NEW i \in 1 .. n, f[i - 1] \in P[i - 1] PROVE f[i] \in P[i]
  <2>1. i - 1 \in Nat /\ i - 1 \in 0 .. n /\ i \in 0 .. n /\ (i - 1) + 1 = i /\ i # 0
    BY <1>1
  <2>2. f[i - 1] \in FoundAfter(near, all, i - 1)
    BY <1>9, <2>1
  <2>3. WithOneMore(near, all, f[i - 1]) \in FoundAfter(near, all, i)
    BY <2>1, <2>2, OneMoreIsFound
  <2> QED
    BY <1>7, <2>1, <2>3
<1>10. ASSUME NEW k \in 0 .. n PROVE f[k] \in P[k]
  <2>1. k \in Nat /\ 1 .. k \subseteq 1 .. n
    BY <1>1
  <2> HIDE DEF P, n
  <2>2. \A i \in 1 .. k : f[i - 1] \in P[i - 1] => f[i] \in P[i]
    BY <1>9, <2>1
  <2> QED
    BY <1>8, <2>1, <2>2, StepsStay
<1>11. /\ \A k \in 0 .. n : f[k] \in SUBSET Floods(near, all)
       /\ UNION f[n] = all \/ Cardinality(UNION f[n]) >= n
  <2>1. n \in 0 .. n
    BY <1>1
  <2>2. \A k \in 0 .. n : f[k] \in FoundAfter(near, all, k)
    <3> HIDE DEF n
    <3> QED
      BY <1>10
  <2> QED
    BY <2>1, <2>2 DEF FoundAfter
<1>12. UNION f[n] \subseteq all
  <2>1. \A q \in Floods(near, all) : q \subseteq all
    BY FloodsAreParts
  <2>2. n \in 0 .. n
    BY <1>1
  <2> QED
    BY <1>11, <2>1, <2>2
<1>13. UNION f[n] = all
  <2> DEFINE U == UNION f[n]
  <2>1. U \subseteq all /\ (U = all \/ Cardinality(U) >= n)
    BY <1>11, <1>12
  <2> HIDE DEF U
  <2>2. Cardinality(U) \in Nat /\ (Cardinality(all) = Cardinality(U) => U = all)
    BY <2>1, FS_Subset, FS_CardinalityType
  <2>3. Cardinality(U) <= n
    BY <2>1, FS_Subset
  <2>4. U = all
    BY <1>1, <2>1, <2>2, <2>3
  <2> QED
    BY <2>4 DEF U
<1>14. enough \in 0 .. n /\ UNION f[enough] = all
  <2>1. n \in 0 .. n
    BY <1>1
  <2> HIDE DEF f, n
  <2> QED
    BY <1>13, <2>1
<1> QED
  BY <1>2, <1>11, <1>14

LEMMA ComponentsAreClosed ==
  ASSUME NEW near, NEW all, IsFiniteSet(all), IsSymmetric(near, all)
  PROVE  /\ IsDivision(Components(near, all), all)
         /\ \A p \in Components(near, all) :
              /\ p \subseteq all
              /\ IsClosedUnder(near, all, p)
              /\ \A S : IsClosedUnder(near, all, S) /\ p \cap S # {} => p \subseteq S
<1> DEFINE C == Components(near, all)
<1>1. C \subseteq Floods(near, all) /\ UNION C = all
  BY ComponentsAreFloods
<1>2. ASSUME NEW p \in C
      PROVE  /\ p # {} /\ p \subseteq all /\ IsClosedUnder(near, all, p)
             /\ \A S : IsClosedUnder(near, all, S) /\ p \cap S # {} => p \subseteq S
  <2>1. PICK x \in all : p = Flood(near, all, {x})
    BY <1>1, <1>2 DEF Floods
  <2>2. {x} \subseteq p /\ p \subseteq all /\ IsClosedUnder(near, all, p)
    BY <2>1, FloodIsClosed
  <2>3. ASSUME NEW S, IsClosedUnder(near, all, S), p \cap S # {} PROVE p \subseteq S
    <3>1. CASE x \in S
      <4>1. {x} \subseteq all /\ {x} \subseteq S
        BY <3>1
      <4> QED
        BY <2>1, <2>3, <4>1, FloodIsLeast
    <3>2. CASE x \notin S
      <4> DEFINE T == all \ S
      <4>1. IsClosedUnder(near, all, T)
        BY <2>3 DEF IsClosedUnder, IsSymmetric
      <4>2. {x} \subseteq all /\ {x} \subseteq T
        BY <3>2
      <4> HIDE DEF T
      <4>3. p \subseteq T
        BY <2>1, <4>1, <4>2, FloodIsLeast
      <4> QED
        BY <2>3, <4>3 DEF T
    <3> QED
      BY <3>1, <3>2
  <2> QED
    BY <2>2, <2>3
<1>3. ASSUME NEW p \in C, NEW q \in C, p \cap q # {} PROVE p = q
  <2>1. p \subseteq q
    BY <1>2, <1>3
  <2>2. q \subseteq p
    BY <1>2, <1>3
  <2> QED
    BY <2>1, <2>2
<1> QED
  BY <1>1, <1>2, <1>3 DEF IsDivision

-----------------------------------------------------------------------------
(***************************************************************************)
(* RoofPartition: how the faces are split and merged.                      *)
(***************************************************************************)
LEMMA CellsAreFinite == IsFiniteSet(Cells) /\ <<0, 0>> \in Cells
<1>1. Width \in Nat /\ Height \in Nat
  BY SiteAssumption
<1>2. IsFiniteSet(0 .. Width + 1) /\ IsFiniteSet(0 .. Height + 1)
  BY <1>1, FS_Interval
<1>3. IsFiniteSet(Cells)
  BY <1>2, FS_Product DEF Cells
<1> QED
  BY <1>1, <1>3 DEF Cells

LEMMA BesideIsMutual ==
  \A c, d \in Cells : d \in Beside[c] => c \in Beside[d]
<1> SUFFICES ASSUME NEW c \in Cells, NEW d \in Cells, d \in Beside[c] PROVE c \in Beside[d]
  OBVIOUS
<1>1. c[1] \in Int /\ c[2] \in Int /\ d[1] \in Int /\ d[2] \in Int
  BY SiteAssumption DEF Cells
<1>2. (c[1] = d[1] /\ c[2] - d[2] \in {-1, 1}) \/ (c[2] = d[2] /\ c[1] - d[1] \in {-1, 1})
  BY DEF Beside
<1>3. (d[1] = c[1] /\ d[2] - c[2] \in {-1, 1}) \/ (d[2] = c[2] /\ d[1] - c[1] \in {-1, 1})
  BY <1>1, <1>2
<1> QED
  BY <1>3 DEF Beside

(* The faces divide the plane: every cell is in one of them. *)
LEMMA FacesOfDivision ==
  ASSUME IsDivision(Faces, Cells)
  PROVE  /\ Faces \subseteq SUBSET Cells /\ IsFiniteSet(Faces)
         /\ \A f, g \in Faces : \A c \in f : c \in g => f = g
         /\ \A c \in Cells : FaceAt(c) \in Faces /\ c \in FaceAt(c)
         /\ \A f \in Faces : \A c \in f : c \in Cells /\ FaceAt(c) = f
         /\ Unbounded \in Faces /\ <<0, 0>> \in Unbounded
         /\ \A f \in Faces : f # {}
<1>1. Faces \subseteq SUBSET Cells
  BY DEF IsDivision
<1>2. IsFiniteSet(Faces)
  BY <1>1, CellsAreFinite, FS_SUBSET, FS_Subset
<1>3. \A f, g \in Faces : \A c \in f : c \in g => f = g
  BY DEF IsDivision
<1>4. ASSUME NEW c \in Cells PROVE FaceAt(c) \in Faces /\ c \in FaceAt(c)
  <2>1. \E f \in Faces : c \in f
    BY DEF IsDivision
  <2> QED
    BY <2>1 DEF FaceAt
<1>5. ASSUME NEW f \in Faces, NEW c \in f PROVE c \in Cells /\ FaceAt(c) = f
  <2>1. c \in Cells
    BY <1>1
  <2> QED
    BY <1>3, <1>4, <2>1
<1>6. Unbounded \in Faces /\ <<0, 0>> \in Unbounded
  <2>1. \E f \in Faces : <<0, 0>> \in f
    BY CellsAreFinite DEF IsDivision
  <2> QED
    BY <2>1 DEF Unbounded
<1> QED
  BY <1>1, <1>2, <1>3, <1>4, <1>5, <1>6 DEF IsDivision

ClassOf(class, f, k) == {c \in f : class[f][c] = k}

(* An arrangement that splits the faces by the classes of their cells. *)
IsSplit(class, new) ==
  /\ IsDivision(DOMAIN new, Cells)
  /\ \A p \in DOMAIN new :
       \E f \in Faces : /\ p \subseteq f /\ new[p] = arrangement[f]
                        /\ \E c \in f : p \subseteq ClassOf(class, f, class[f][c])

PartsOf(class, f, k) == Components(Beside, ClassOf(class, f, k))

LEMMA PartsAreClosed ==
  ASSUME IsDivision(Faces, Cells), NEW class, NEW f \in Faces, NEW k
  PROVE  LET T == ClassOf(class, f, k)
         IN /\ IsFiniteSet(T)
            /\ IsDivision(PartsOf(class, f, k), T)
            /\ \A p \in PartsOf(class, f, k) : p \subseteq T /\ p \subseteq f /\ IsClosedUnder(Beside, T, p)
<1> DEFINE T == ClassOf(class, f, k)
<1>1. T \subseteq f /\ T \subseteq Cells
  BY FacesOfDivision DEF ClassOf
<1>2. IsFiniteSet(T)
  BY <1>1, CellsAreFinite, FS_Subset
<1>3. IsSymmetric(Beside, T)
  BY <1>1, BesideIsMutual DEF IsSymmetric
<1> HIDE DEF T
<1>4. /\ IsDivision(Components(Beside, T), T)
      /\ \A p \in Components(Beside, T) : p \subseteq T /\ IsClosedUnder(Beside, T, p)
  BY <1>2, <1>3, ComponentsAreClosed
<1> QED
  BY <1>1, <1>2, <1>4 DEF PartsOf, T

(* SplitFaces as the parts of every class of every face. *)
LEMMA SplitDomain ==
  ASSUME NEW class
  PROVE  LET new == SplitFaces(class)
         IN /\ \A p : p \in DOMAIN new <=> \E f \in Faces : \E c \in f : p \in PartsOf(class, f, class[f][c])
            /\ \A p \in DOMAIN new : new[p] = arrangement[CHOOSE f \in Faces : p \subseteq f]
<1> DEFINE parts == [f \in Faces |-> UNION {Components(Beside, {c \in f : class[f][c] = k}) :
                                            k \in {class[f][c] : c \in f}}]
           D == UNION {parts[f] : f \in Faces}
<1>1. SplitFaces(class) = [p \in D |-> arrangement[CHOOSE f \in Faces : p \subseteq f]]
  BY DEF SplitFaces
<1>2. \A f \in Faces : parts[f] = UNION {PartsOf(class, f, k) : k \in {class[f][c] : c \in f}}
  BY DEF PartsOf, ClassOf
<1>3. \A p : p \in D <=> \E f \in Faces : p \in parts[f]
  OBVIOUS
<1> HIDE DEF parts
<1>4. \A f \in Faces : \A p : p \in parts[f] <=> \E c \in f : p \in PartsOf(class, f, class[f][c])
  BY <1>2
<1>5. \A p : p \in D <=> \E f \in Faces : \E c \in f : p \in PartsOf(class, f, class[f][c])
  BY <1>3, <1>4
<1> HIDE DEF D
<1> QED
  BY <1>1, <1>5

LEMMA SplitIsSplit ==
  ASSUME IsDivision(Faces, Cells), NEW class
  PROVE  IsSplit(class, SplitFaces(class))
<1> DEFINE new == SplitFaces(class)
<1>1. /\ \A p : p \in DOMAIN new <=> \E f \in Faces : \E c \in f : p \in PartsOf(class, f, class[f][c])
      /\ \A p \in DOMAIN new : new[p] = arrangement[CHOOSE f \in Faces : p \subseteq f]
  BY SplitDomain
<1> HIDE DEF new
<1>2. ASSUME NEW p \in DOMAIN new
      PROVE  \E f \in Faces : \E c \in f : /\ p \in PartsOf(class, f, class[f][c])
                                           /\ p \subseteq ClassOf(class, f, class[f][c])
                                           /\ p \subseteq f /\ p # {}
  <2>1. PICK f \in Faces : \E c \in f : p \in PartsOf(class, f, class[f][c])
    BY <1>1
  <2>2. PICK c \in f : p \in PartsOf(class, f, class[f][c])
    BY <2>1
  <2>3. p \subseteq ClassOf(class, f, class[f][c]) /\ p \subseteq f /\ p # {}
    BY <2>2, PartsAreClosed DEF IsDivision
  <2> QED
    BY <2>2, <2>3
<1>3. ASSUME NEW p \in DOMAIN new, NEW f \in Faces, p \subseteq f PROVE new[p] = arrangement[f]
  <2>1. p # {}
    BY <1>2
  <2>2. \A g \in Faces : p \subseteq g => g = f
    BY <1>3, <2>1, FacesOfDivision
  <2>3. (CHOOSE g \in Faces : p \subseteq g) = f
    BY <1>3, <2>2
  <2> QED
    BY <1>1, <2>3
<1>4. UNION DOMAIN new = Cells
  <2>1. ASSUME NEW c \in Cells PROVE \E p \in DOMAIN new : c \in p
    <3>1. PICK f \in Faces : c \in f
      BY FacesOfDivision
    <3>2. c \in ClassOf(class, f, class[f][c])
      BY <3>1 DEF ClassOf
    <3>3. PICK p \in PartsOf(class, f, class[f][c]) : c \in p
      BY <3>2, PartsAreClosed DEF IsDivision
    <3> QED
      BY <1>1, <3>1, <3>3
  <2>2. ASSUME NEW p \in DOMAIN new PROVE p \subseteq Cells
    BY <1>2, FacesOfDivision
  <2> QED
    BY <2>1, <2>2
<1>5. ASSUME NEW p \in DOMAIN new, NEW q \in DOMAIN new, p \cap q # {} PROVE p = q
  <2>1. PICK x \in p : x \in q
    BY <1>5
  <2> DEFINE Has(f, c, r) == /\ r \in PartsOf(class, f, class[f][c])
                             /\ r \subseteq ClassOf(class, f, class[f][c])
  <2>2. PICK f \in Faces : \E c \in f : Has(f, c, p)
    BY <1>2
  <2>3. PICK g \in Faces : \E c \in g : Has(g, c, q)
    BY <1>2
  <2>4. PICK c \in f : Has(f, c, p)
    BY <2>2
  <2>5. PICK d \in g : Has(g, d, q)
    BY <2>3
  <2>6. x \in f /\ x \in g /\ class[f][x] = class[f][c] /\ class[g][x] = class[g][d]
    BY <2>1, <2>4, <2>5 DEF ClassOf
  <2>7. f = g /\ class[f][c] = class[g][d]
    <3>1. f = g
      BY <2>6, FacesOfDivision
    <3> QED
      BY <2>6, <3>1
  <2>8. p \in PartsOf(class, f, class[f][c]) /\ q \in PartsOf(class, f, class[f][c])
    BY <2>4, <2>5, <2>7
  <2> QED
    BY <1>5, <2>8, PartsAreClosed DEF IsDivision
<1> QED
  BY <1>2, <1>3, <1>4, <1>5 DEF IsSplit, IsDivision, new

(* A set in one piece whose cells are of one class is not split. *)
LEMMA ConnectedStays ==
  ASSUME IsDivision(Faces, Cells), NEW class, NEW f \in Faces, NEW k,
         NEW T, T # {}, IsConnected(T), T \subseteq ClassOf(class, f, k)
  PROVE  \E p \in DOMAIN SplitFaces(class) : T \subseteq p /\ p \subseteq ClassOf(class, f, k)
<1> DEFINE U == ClassOf(class, f, k)
<1>1. PICK c \in T : TRUE
  OBVIOUS
<1>2. c \in U /\ c \in f /\ class[f][c] = k
  BY <1>1 DEF ClassOf
<1>3. PICK p \in PartsOf(class, f, k) : c \in p
  BY <1>2, PartsAreClosed DEF IsDivision
<1>4. p \subseteq U /\ IsClosedUnder(Beside, U, p) /\ IsFiniteSet(U)
  BY <1>3, PartsAreClosed
<1>5. T \subseteq p
  <2>1. IsClosedUnder(Beside, T, p)
    BY <1>4 DEF IsClosedUnder
  <2>2. IsFiniteSet(T)
    BY <1>4, FS_Subset
  <2>3. {c} \subseteq T /\ {c} \subseteq p
    BY <1>1, <1>3
  <2>4. Flood(Beside, T, {c}) \subseteq p
    BY <2>1, <2>2, <2>3, FloodIsLeast
  <2> QED
    BY <1>1, <2>4 DEF IsConnected
<1>6. p \in DOMAIN SplitFaces(class)
  BY <1>2, <1>3, SplitDomain
<1> QED
  BY <1>4, <1>5, <1>6

(* An arrangement in which faces that are near each other are one.         *)
IsMerge(near, new) ==
  /\ IsDivision(DOMAIN new, Cells)
  /\ \A F \in DOMAIN new :
       \E h \in Faces : h \subseteq F /\ new[F] = arrangement[h] /\ (<<0, 0>> \in F => h = Unbounded)
  /\ \A F \in DOMAIN new : \A f \in Faces :
       f \cap F # {} => f \subseteq F /\ \A g \in near[f] \cap Faces : g \subseteq F

LEMMA MergeIsMerge ==
  ASSUME IsDivision(Faces, Cells), NEW near, IsSymmetric(near, Faces),
         NEW new \in Merges(Components(near, Faces))
  PROVE  /\ IsMerge(near, new)
         /\ \A S : IsClosedUnder(near, Faces, S) =>
              \A F \in DOMAIN new : \A f, g \in Faces : f \in S /\ f \subseteq F /\ g \subseteq F => g \in S
<1> DEFINE groups == Components(near, Faces)
           merged == {UNION g : g \in groups}
           Data(f) == {arrangement[h] : h \in Heirs({g \in Faces : g \subseteq f})}
           data == [f \in merged |-> Data(f)]
           settled == {f \in merged : Cardinality(data[f]) = 1}
           choices == {c \in [merged \ settled -> UNION {data[f] : f \in merged \ settled}] :
                         \A f \in DOMAIN c : c[f] \in data[f]}
           As(choice) == [f \in merged |-> IF f \in settled THEN CHOOSE d \in data[f] : TRUE ELSE choice[f]]
<1>1. new \in {As(choice) : choice \in choices}
  BY DEF Merges
<1>2. PICK choice \in choices : new = As(choice)
  BY <1>1
<1>3. /\ IsDivision(groups, Faces)
      /\ \A p \in groups : /\ p \subseteq Faces
                           /\ IsClosedUnder(near, Faces, p)
                           /\ \A S : IsClosedUnder(near, Faces, S) /\ p \cap S # {} => p \subseteq S
  BY FacesOfDivision, ComponentsAreClosed
<1>4. DOMAIN new = merged
  BY <1>2
<1> HIDE DEF groups
<1>5. ASSUME NEW p \in groups, NEW f \in Faces
      PROVE  (f \cap UNION p # {} => f \in p) /\ (f \subseteq UNION p => f \in p) /\ (f \in p => f \subseteq UNION p)
  <2>1. ASSUME NEW c \in f, c \in UNION p PROVE f \in p
    <3>1. PICK g \in p : c \in g
      BY <2>1
    <3> QED
      BY <1>3, <3>1, FacesOfDivision
  <2>2. f # {}
    BY FacesOfDivision
  <2> QED
    BY <2>1, <2>2
<1>6. \A p \in groups : {g \in Faces : g \subseteq UNION p} = p
  BY <1>3, <1>5
<1>7. ASSUME NEW p \in groups PROVE new[UNION p] \in {arrangement[h] : h \in Heirs(p)}
  <2> DEFINE F == UNION p
  <2>1. F \in merged
    OBVIOUS
  <2>2. Data(F) = {arrangement[h] : h \in Heirs(p)}
    BY <1>6
  <2>3. p # {} /\ Heirs(p) # {}
    BY <1>3 DEF IsDivision, Heirs
  <2> HIDE DEF F, Data
  <2>4. data[F] = {arrangement[h] : h \in Heirs(p)}
    BY <2>1, <2>2
  <2>5. CASE F \in settled
    <3>1. new[F] = CHOOSE d \in data[F] : TRUE
      BY <1>2, <2>1, <2>5
    <3>2. data[F] # {}
      <4>1. PICK h \in Heirs(p) : TRUE
        BY <2>3
      <4>2. arrangement[h] \in data[F]
        <5> HIDE DEF data, settled
        <5> QED
          BY <2>4
      <4> QED
        BY <4>2
    <3>3. new[F] \in data[F]
      BY <3>1, <3>2
    <3> QED
      BY <2>4, <3>3 DEF F
  <2>6. CASE F \notin settled
    <3>1. new[F] = choice[F]
      BY <1>2, <2>1, <2>6
    <3>2. F \in DOMAIN choice
      BY <2>1, <2>6
    <3>3. choice[F] \in data[F]
      <4> HIDE DEF settled, data, merged
      <4> QED
        BY <3>2
    <3> QED
      BY <2>4, <3>1, <3>3 DEF F
  <2> QED
    BY <2>5, <2>6
<1> HIDE DEF As, choices, settled, data, Data
<1>8. IsDivision(DOMAIN new, Cells)
  <2>1. UNION merged = Cells
    BY <1>3 DEF IsDivision
  <2>2. \A F \in merged : F # {}
    BY <1>3, FacesOfDivision DEF IsDivision
  <2>3. ASSUME NEW p \in groups, NEW q \in groups, (UNION p) \cap (UNION q) # {} PROVE p = q
    <3>1. PICK c \in UNION p : c \in UNION q
      BY <2>3
    <3>2. PICK f \in p : c \in f
      BY <3>1
    <3>3. f \in Faces /\ f \in q
      BY <1>3, <1>5, <3>1, <3>2
    <3> QED
      BY <1>3, <3>2, <3>3 DEF IsDivision
  <2>4. \A F, G \in merged : F \cap G # {} => F = G
    <3> SUFFICES ASSUME NEW F \in merged, NEW G \in merged, F \cap G # {} PROVE F = G
      OBVIOUS
    <3>1. PICK p \in groups : F = UNION p
      OBVIOUS
    <3>2. PICK q \in groups : G = UNION q
      OBVIOUS
    <3> QED
      BY <2>3, <3>1, <3>2
  <2> HIDE DEF merged
  <2> QED
    BY <1>4, <2>1, <2>2, <2>4 DEF IsDivision
<1>9. ASSUME NEW F \in DOMAIN new
      PROVE  \E h \in Faces : h \subseteq F /\ new[F] = arrangement[h] /\ (<<0, 0>> \in F => h = Unbounded)
  <2>1. PICK p \in groups : F = UNION p
    BY <1>4
  <2>2. PICK h \in Heirs(p) : new[F] = arrangement[h]
    BY <1>7, <2>1
  <2>3. h \in p /\ h \in Faces /\ h \subseteq F
    BY <1>3, <2>1, <2>2 DEF Heirs
  <2>4. ASSUME <<0, 0>> \in F PROVE h = Unbounded
    <3>1. PICK g \in p : <<0, 0>> \in g
      BY <2>1, <2>4
    <3>2. g = Unbounded
      BY <1>3, <3>1, FacesOfDivision
    <3> QED
      BY <2>2, <3>1, <3>2 DEF Heirs
  <2> QED
    BY <2>2, <2>3, <2>4
<1>10. ASSUME NEW F \in DOMAIN new, NEW f \in Faces, f \cap F # {}
       PROVE  f \subseteq F /\ \A g \in near[f] \cap Faces : g \subseteq F
  <2>1. PICK p \in groups : F = UNION p
    BY <1>4
  <2>2. f \in p
    BY <1>5, <1>10, <2>1
  <2>3. \A g \in near[f] \cap Faces : g \in p
    BY <1>3, <2>2 DEF IsClosedUnder
  <2> QED
    BY <1>5, <2>1, <2>2, <2>3
<1>11. ASSUME NEW S, IsClosedUnder(near, Faces, S), NEW F \in DOMAIN new, NEW f \in Faces, NEW g \in Faces,
              f \in S, f \subseteq F, g \subseteq F
       PROVE  g \in S
  <2>1. PICK p \in groups : F = UNION p
    BY <1>4
  <2>2. f \in p /\ g \in p
    BY <1>5, <1>11, <2>1
  <2> QED
    BY <1>3, <1>11, <2>2
<1>12. IsMerge(near, new)
  BY <1>8, <1>9, <1>10 DEF IsMerge
<1> QED
  BY <1>11, <1>12

-----------------------------------------------------------------------------
(***************************************************************************)
(* RoofPartition: the inductive invariant.                                 *)
(***************************************************************************)
IsFaceInfo(d) ==
  /\ DOMAIN d = DOMAIN NewFace
  /\ d.in_footprint \in BOOLEAN /\ d.is_ground \in BOOLEAN /\ d.is_footprint_hole \in BOOLEAN

(* What every arrangement is. *)
IsArrangement ==
  /\ IsDivision(Faces, Cells)
  /\ \A f \in Faces : IsFaceInfo(arrangement[f]) /\ (arrangement[f].is_footprint_hole => ~InFootprint(f))
  /\ ~InFootprint(Unbounded) /\ ~arrangement[Unbounded].is_footprint_hole

Inside == UNION FootprintFaces

(* The footprint without the first n of its holes. *)
Kept(n) == site.outer \ UNION {site.holes[k] : k \in {l \in 1 .. n : ProperHole(l)}}
Footprint == Kept(Len(site.holes))

Order ==
  /\ site \in Sites
  /\ holes_inserted \in 0 .. Len(site.holes)
  /\ phase = "footprint" => holes_inserted = 0 /\ arrangement = [f \in {Cells} |-> NewFace]
  /\ phase \notin {"footprint", "holes"} => holes_inserted = Len(site.holes)
  /\ phase = "interior" => site.lod = 12
  /\ phase \in {"statistics", "steps"} => site.lod = 13

HolesAreCut ==
  /\ phase \in {"holes", "optimise"} => Inside = Kept(holes_inserted)
  /\ phase = "holes" => \A k \in DOMAIN site.holes :
                          k > holes_inserted => \E f \in Faces : site.holes[k] \subseteq f

IsLabelled ==
  site.roofs # <<>> /\ phase \notin {"footprint", "holes", "optimise"} =>
    \A c \in Footprint : label[c] \in 1 .. Len(Planes)

OnARoof(c) == label[c] \in 1 .. Len(site.roofs)

FacesFollowLabels ==
  site.roofs # <<>> /\ phase \in {"segments", "terrain"} =>
    /\ Inside = {c \in Footprint : OnARoof(c)}
    /\ \A f \in FootprintFaces : \A c \in f :
         arrangement[f].segid = label[c] /\ arrangement[f].plane = label[c]

AboveGround(c) == HeightInCell(label[c], c) >= site.ground

IsClipped ==
  site.roofs # <<>> /\ phase \in {"interior", "statistics", "steps", "outside", "parts", "dissolved"} =>
    /\ Inside = {c \in Footprint : OnARoof(c) /\ AboveGround(c)}
    /\ site.lod = 22 => \A f \in FootprintFaces : \A c \in f : arrangement[f].plane = label[c]

OutsideIsDissolved ==
  phase = "parts" => \A f, g \in Faces : Touch(f, g) => InFootprint(f) \/ InFootprint(g)

PartitionInv ==
  /\ IsArrangement /\ Order /\ HolesAreCut /\ IsLabelled
  /\ FacesFollowLabels /\ IsClipped /\ OutsideIsDissolved /\ HolesAreMarked

LEMMA DivisionOfCells ==
  ASSUME NEW D, IsDivision(D, Cells)
  PROVE  LET u == CHOOSE f \in D : <<0, 0>> \in f
         IN u \in D /\ <<0, 0>> \in u /\ \A f \in D : <<0, 0>> \in f => f = u
<1>1. \E f \in D : <<0, 0>> \in f
  BY CellsAreFinite DEF IsDivision
<1> QED
  BY <1>1 DEF IsDivision

(* What the next arrangement must be. *)
LEMMA NextArrangement ==
  ASSUME NEW new, new = arrangement', IsDivision(DOMAIN new, Cells),
         \A f \in DOMAIN new : IsFaceInfo(new[f]) /\ (new[f].is_footprint_hole => ~new[f].in_footprint),
         \A f \in DOMAIN new : <<0, 0>> \in f => ~new[f].in_footprint /\ ~new[f].is_footprint_hole
  PROVE  IsArrangement'
<1> DEFINE u == CHOOSE f \in DOMAIN new : <<0, 0>> \in f
<1>1. u \in DOMAIN new /\ <<0, 0>> \in u
  BY DivisionOfCells
<1>2. ~new[u].in_footprint /\ ~new[u].is_footprint_hole
  BY <1>1
<1>3. Unbounded' = u
  BY DEF Unbounded, Faces
<1> HIDE DEF u
<1> QED
  BY <1>2, <1>3 DEF IsArrangement, InFootprint, Faces

LEMMA TouchIsMutual ==
  ASSUME IsDivision(Faces, Cells)
  PROVE  \A f, g \in Faces : Touch(f, g) => Touch(g, f)
<1> SUFFICES ASSUME NEW f \in Faces, NEW g \in Faces, Touch(f, g) PROVE Touch(g, f)
  OBVIOUS
<1>1. f # g /\ \E c \in f : Beside[c] \cap g # {}
  BY DEF Touch
<1>2. PICK c \in f : Beside[c] \cap g # {}
  BY <1>1
<1>3. PICK d \in g : d \in Beside[c]
  BY <1>2
<1>4. c \in Cells /\ d \in Cells
  BY FacesOfDivision
<1>5. c \in Beside[d]
  BY <1>3, <1>4, BesideIsMutual
<1> QED
  BY <1>1, <1>5 DEF Touch

(* A merge of faces that are on the same side leaves the footprint as it is. *)
LEMMA MergeKeepsSides ==
  ASSUME IsArrangement, NEW near, IsSymmetric(near, Faces), NEW new \in Merges(Components(near, Faces)),
         \A f \in Faces : \A g \in near[f] \cap Faces : InFootprint(f) = InFootprint(g)
  PROVE  /\ IsMerge(near, new)
         /\ \A F \in DOMAIN new : \A f \in Faces : f \subseteq F => new[F].in_footprint = InFootprint(f)
         /\ \A F \in DOMAIN new : IsFaceInfo(new[F]) /\ (new[F].is_footprint_hole => ~new[F].in_footprint)
         /\ \A F \in DOMAIN new :
              <<0, 0>> \in F => ~new[F].in_footprint /\ ~new[F].is_footprint_hole
<1>0. IsDivision(Faces, Cells)
  BY DEF IsArrangement
<1>1. /\ IsMerge(near, new)
      /\ \A S : IsClosedUnder(near, Faces, S) =>
           \A F \in DOMAIN new : \A f, g \in Faces : f \in S /\ f \subseteq F /\ g \subseteq F => g \in S
  BY <1>0, MergeIsMerge
<1>2. \A F \in DOMAIN new :
        \E h \in Faces : h \subseteq F /\ new[F] = arrangement[h] /\ (<<0, 0>> \in F => h = Unbounded)
  BY <1>1 DEF IsMerge
<1>3. \A h \in Faces : IsFaceInfo(arrangement[h]) /\ (arrangement[h].is_footprint_hole => ~arrangement[h].in_footprint)
  BY DEF IsArrangement, InFootprint
<1>4. ~arrangement[Unbounded].in_footprint /\ ~arrangement[Unbounded].is_footprint_hole
  BY DEF IsArrangement, InFootprint
<1>5. ASSUME NEW F \in DOMAIN new, NEW f \in Faces, NEW h \in Faces, f \subseteq F, h \subseteq F, InFootprint(h)
      PROVE  InFootprint(f)
  <2>1. IsClosedUnder(near, Faces, FootprintFaces)
    BY DEF IsClosedUnder, FootprintFaces
  <2>2. h \in FootprintFaces
    BY <1>5 DEF FootprintFaces
  <2>3. f \in FootprintFaces
    BY <1>1, <1>5, <2>1, <2>2
  <2> QED
    BY <2>3 DEF FootprintFaces
<1>6. ASSUME NEW F \in DOMAIN new, NEW f \in Faces, f \subseteq F
      PROVE  new[F].in_footprint = InFootprint(f)
  <2>1. PICK h \in Faces : h \subseteq F /\ new[F] = arrangement[h]
    BY <1>2
  <2>2. InFootprint(f) <=> InFootprint(h)
    BY <1>5, <1>6, <2>1
  <2>3. InFootprint(f) \in BOOLEAN /\ InFootprint(h) \in BOOLEAN
    BY <1>3 DEF IsFaceInfo, InFootprint
  <2> QED
    BY <2>1, <2>2, <2>3 DEF InFootprint
<1> QED
  BY <1>1, <1>2, <1>3, <1>4, <1>6

(* What depends on the site alone, and on the labels. *)
LEMMA SiteStays ==
  ASSUME site' = site
  PROVE  /\ \A n : RingsOnExterior(n)' = RingsOnExterior(n)
         /\ \A n : Kept(n)' = Kept(n)
         /\ Footprint' = Footprint
         /\ Planes' = Planes
         /\ \A l, c : HeightInCell(l, c)' = HeightInCell(l, c)
<1>1. \A k : Ring(k)' = Ring(k)
  BY DEF Ring
<1>2. \A k, l : Meets(k, l)' = Meets(k, l)
  BY <1>1 DEF Meets
<1>3. ASSUME NEW n PROVE RingsOnExterior(n)' = RingsOnExterior(n)
  <2>1. [k \in 0 .. n |-> {l \in 0 .. n : Meets(k, l)'}] = [k \in 0 .. n |-> {l \in 0 .. n : Meets(k, l)}]
    BY <1>2
  <2> QED
    BY <2>1 DEF RingsOnExterior
<1>4. \A k : ProperHole(k)' = ProperHole(k)
  BY <1>3 DEF ProperHole
<1>5. ASSUME NEW n PROVE Kept(n)' = Kept(n)
  <2>1. {l \in 1 .. n : ProperHole(l)'} = {l \in 1 .. n : ProperHole(l)}
    BY <1>4
  <2> QED
    BY <2>1 DEF Kept
<1>6. Footprint' = Footprint
  BY <1>5 DEF Footprint
<1>7. Planes' = Planes
  BY DEF Planes
<1>8. \A l, c : HeightInCell(l, c)' = HeightInCell(l, c)
  BY <1>7 DEF HeightInCell, HeightOn
<1> QED
  BY <1>3, <1>5, <1>6, <1>7, <1>8

LEMMA LabelsStay ==
  ASSUME site' = site, label' = label
  PROVE  \A c : OnARoof(c)' = OnARoof(c) /\ AboveGround(c)' = AboveGround(c)
<1> SUFFICES ASSUME NEW c PROVE OnARoof(c)' = OnARoof(c) /\ AboveGround(c)' = AboveGround(c)
  OBVIOUS
<1>1. OnARoof(c)' = OnARoof(c)
  BY DEF OnARoof
<1>2. HeightInCell(label[c], c)' = HeightInCell(label[c], c)
  BY SiteStays DEF HeightInCell, HeightOn, Planes
<1> QED
  BY <1>1, <1>2 DEF AboveGround

LEMMA InsideFaces ==
  ASSUME IsDivision(Faces, Cells), NEW f \in Faces, NEW c \in f
  PROVE  c \in Inside <=> InFootprint(f)
<1>1. \A g \in Faces : c \in g => g = f
  BY FacesOfDivision
<1> QED
  BY <1>1 DEF Inside, FootprintFaces

LEMMA NextInside ==
  ASSUME NEW new, new = arrangement', IsDivision(DOMAIN new, Cells), NEW F \in DOMAIN new, NEW c \in F
  PROVE  c \in Inside' <=> new[F].in_footprint
<1>1. \A g \in DOMAIN new : c \in g => g = F
  BY DEF IsDivision
<1>2. Inside' = UNION {g \in DOMAIN new : new[g].in_footprint}
  BY DEF Inside, FootprintFaces, InFootprint, Faces
<1> QED
  BY <1>1, <1>2

LEMMA InsideIsOfCells ==
  /\ IsDivision(Faces, Cells) => Inside \subseteq Cells
  /\ IsDivision(Faces', Cells) => Inside' \subseteq Cells
BY DEF Inside, FootprintFaces, IsDivision

(* The footprint stays if every face is on the side of those it is made of. *)
LEMMA SameInside ==
  ASSUME IsDivision(Faces, Cells), NEW new, new = arrangement', IsDivision(DOMAIN new, Cells),
         \A F \in DOMAIN new : \A f \in Faces :
           f \cap F # {} => new[F].in_footprint = InFootprint(f)
  PROVE  Inside' = Inside
<1>1. ASSUME NEW c \in Cells PROVE c \in Inside' <=> c \in Inside
  <2>1. PICK f \in Faces : c \in f
    BY FacesOfDivision
  <2>2. PICK F \in DOMAIN new : c \in F
    BY DEF IsDivision
  <2>3. c \in Inside' <=> new[F].in_footprint
    BY <2>2, NextInside
  <2>4. c \in Inside <=> InFootprint(f)
    BY <2>1, InsideFaces
  <2>5. new[F].in_footprint = InFootprint(f)
    BY <2>1, <2>2
  <2> QED
    BY <2>3, <2>4, <2>5
<1>2. Faces' = DOMAIN new
  BY DEF Faces
<1> QED
  BY <1>1, <1>2, InsideIsOfCells

LEMMA MergeKeepsInside ==
  ASSUME IsArrangement, NEW near, IsSymmetric(near, Faces), arrangement' \in Merges(Components(near, Faces)),
         \A f \in Faces : \A g \in near[f] \cap Faces : InFootprint(f) = InFootprint(g)
  PROVE  IsArrangement' /\ Inside' = Inside
<1> DEFINE new == arrangement'
<1>1. /\ IsMerge(near, new)
      /\ \A F \in DOMAIN new : \A f \in Faces : f \subseteq F => new[F].in_footprint = InFootprint(f)
      /\ \A F \in DOMAIN new : IsFaceInfo(new[F]) /\ (new[F].is_footprint_hole => ~new[F].in_footprint)
      /\ \A F \in DOMAIN new :
           <<0, 0>> \in F => ~new[F].in_footprint /\ ~new[F].is_footprint_hole
  BY MergeKeepsSides
<1>2. IsDivision(DOMAIN new, Cells)
  BY <1>1 DEF IsMerge
<1>3. \A F \in DOMAIN new : \A f \in Faces : f \cap F # {} => new[F].in_footprint = InFootprint(f)
  BY <1>1 DEF IsMerge
<1> HIDE DEF new
<1>4. IsArrangement'
  BY <1>1, <1>2, NextArrangement DEF new
<1>5. Inside' = Inside
  BY <1>2, <1>3, SameInside DEF new, IsArrangement
<1> QED
  BY <1>4, <1>5

(* The actions that merge faces. *)
LEMMA SegmentsAreDissolved ==
  ASSUME PartitionInv, DissolveSegments PROVE PartitionInv'
<1> DEFINE near == [f \in Faces |-> {g \in Faces : Touch(f, g) /\ SameSegment(arrangement[f], arrangement[g])}]
           new == arrangement'
<1> USE DEF PartitionInv
<1>1. /\ phase = "segments" /\ phase' = "terrain"
      /\ site' = site /\ label' = label /\ holes_inserted' = holes_inserted
      /\ new \in Merges(Components(near, Faces))
  BY DEF DissolveSegments, Groups
<1>2. IsDivision(Faces, Cells)
  BY DEF IsArrangement
<1>3. IsSymmetric(near, Faces)
  BY <1>2, TouchIsMutual DEF IsSymmetric, SameSegment
<1>4. \A f \in Faces : \A g \in near[f] \cap Faces :
        /\ f \in FootprintFaces /\ g \in FootprintFaces
        /\ arrangement[f].segid = arrangement[g].segid
  BY DEF SameSegment, FootprintFaces, InFootprint
<1>5. \A f \in Faces : \A g \in near[f] \cap Faces : InFootprint(f) = InFootprint(g)
  <2>1. \A f \in Faces : InFootprint(f) \in BOOLEAN
    BY DEF IsArrangement, IsFaceInfo, InFootprint
  <2> QED
    BY <1>4, <2>1 DEF FootprintFaces
<1> HIDE DEF near
<1>6. IsArrangement' /\ Inside' = Inside
  BY <1>1, <1>3, <1>5, MergeKeepsInside
<1>7. /\ IsMerge(near, new)
      /\ \A S : IsClosedUnder(near, Faces, S) =>
           \A F \in DOMAIN new : \A f, g \in Faces : f \in S /\ f \subseteq F /\ g \subseteq F => g \in S
  BY <1>1, <1>2, <1>3, MergeIsMerge
<1>8. ASSUME site.roofs # <<>>, NEW F \in DOMAIN new, new[F].in_footprint, NEW c \in F
      PROVE  new[F].segid = label[c] /\ new[F].plane = label[c]
  <2>1. PICK h \in Faces : h \subseteq F /\ new[F] = arrangement[h]
    BY <1>7, <1>8 DEF IsMerge
  <2>2. PICK f \in Faces : c \in f
    BY <1>2, <1>6, <1>8 DEF IsArrangement, IsDivision, Faces
  <2>3. f \subseteq F
    BY <1>7, <1>8, <2>2 DEF IsMerge
  <2> DEFINE S == {g \in FootprintFaces : arrangement[g].segid = arrangement[h].segid}
  <2>4. IsClosedUnder(near, Faces, S)
    BY <1>4 DEF IsClosedUnder
  <2>5. h \in FootprintFaces /\ h \in S
    BY <1>8, <2>1 DEF FootprintFaces, InFootprint
  <2>6. f \in S
    BY <1>7, <1>8, <2>1, <2>3, <2>4, <2>5
  <2>7. PICK d \in h : TRUE
    BY <1>2, FacesOfDivision
  <2>8. /\ arrangement[f].segid = label[c]
        /\ arrangement[h].segid = label[d] /\ arrangement[h].plane = label[d]
    BY <1>1, <1>8, <2>2, <2>5, <2>6 DEF FacesFollowLabels
  <2> QED
    BY <2>1, <2>6, <2>8
<1>9. FacesFollowLabels'
  <2> SUFFICES ASSUME site.roofs # <<>> PROVE FacesFollowLabels'
    BY <1>1 DEF FacesFollowLabels
  <2>1. Inside' = {c \in Footprint' : OnARoof(c)'}
    BY <1>1, <1>6, SiteStays, LabelsStay DEF FacesFollowLabels
  <2>2. \A F \in FootprintFaces' : \A c \in F : new[F].segid = label[c] /\ new[F].plane = label[c]
    BY <1>8 DEF FootprintFaces, InFootprint, Faces
  <2> QED
    BY <1>1, <2>1, <2>2 DEF FacesFollowLabels
<1>10. IsLabelled'
  BY <1>1, SiteStays DEF IsLabelled
<1>11. Order'
  BY <1>1 DEF Order
<1> QED
  BY <1>1, <1>6, <1>9, <1>10, <1>11 DEF HolesAreCut, IsClipped, OutsideIsDissolved, HolesAreMarked, Dissolved

LEMMA NothingIsOptimised ==
  ASSUME PartitionInv, NothingToOptimise PROVE PartitionInv'
<1> DEFINE near == [f \in Faces |-> {g \in Faces : Touch(f, g) /\ SameSide(arrangement[f], arrangement[g])}]
           new == arrangement'
<1> USE DEF PartitionInv
<1>1. /\ phase = "optimise" /\ phase' = "segments" /\ site.roofs = <<>>
      /\ site' = site /\ label' = label /\ holes_inserted' = holes_inserted
      /\ new \in Merges(Components(near, Faces))
  BY DEF NothingToOptimise, Groups
<1>2. IsSymmetric(near, Faces)
  BY TouchIsMutual DEF IsArrangement, IsSymmetric, SameSide
<1>3. \A f \in Faces : \A g \in near[f] \cap Faces : InFootprint(f) = InFootprint(g)
  BY DEF SameSide, InFootprint
<1> HIDE DEF near
<1>4. IsArrangement'
  BY <1>1, <1>2, <1>3, MergeKeepsInside
<1>5. Order'
  BY <1>1 DEF Order
<1> QED
  BY <1>1, <1>4, <1>5 DEF HolesAreCut, IsLabelled, FacesFollowLabels, IsClipped, OutsideIsDissolved,
                          HolesAreMarked, Dissolved

LEMMA InteriorIsDissolved ==
  ASSUME PartitionInv, DissolveInterior PROVE PartitionInv'
<1> DEFINE near == [f \in Faces |-> {g \in Faces : Touch(f, g) /\ BothInside(arrangement[f], arrangement[g])}]
           new == arrangement'
<1> USE DEF PartitionInv
<1>1. /\ phase = "interior" /\ phase' = "outside" /\ site.lod = 12
      /\ site' = site /\ label' = label /\ holes_inserted' = holes_inserted
      /\ new \in Merges(Components(near, Faces))
  BY DEF DissolveInterior, Groups, Order
<1>2. IsSymmetric(near, Faces)
  BY TouchIsMutual DEF IsArrangement, IsSymmetric, BothInside
<1>3. \A f \in Faces : \A g \in near[f] \cap Faces : InFootprint(f) = InFootprint(g)
  BY DEF BothInside, InFootprint, IsArrangement, IsFaceInfo
<1> HIDE DEF near
<1>4. IsArrangement' /\ Inside' = Inside
  BY <1>1, <1>2, <1>3, MergeKeepsInside
<1>5. IsClipped'
  <2> SUFFICES ASSUME site.roofs # <<>> PROVE IsClipped'
    BY <1>1 DEF IsClipped
  <2>1. Inside' = {c \in Footprint' : OnARoof(c)' /\ AboveGround(c)'}
    BY <1>1, <1>4, SiteStays, LabelsStay DEF IsClipped
  <2> QED
    BY <1>1, <2>1 DEF IsClipped
<1>6. IsLabelled'
  BY <1>1, SiteStays DEF IsLabelled
<1>7. Order'
  BY <1>1 DEF Order
<1> QED
  BY <1>1, <1>4, <1>5, <1>6, <1>7 DEF HolesAreCut, FacesFollowLabels, OutsideIsDissolved, HolesAreMarked, Dissolved

(* Outside faces that touch are one afterwards. *)
LEMMA OutsideIsMerged ==
  ASSUME PartitionInv, DissolveOutside PROVE PartitionInv'
<1> DEFINE near == [f \in Faces |-> {g \in Faces : Touch(f, g) /\ BothOutside(arrangement[f], arrangement[g])}]
           new == arrangement'
<1> USE DEF PartitionInv
<1>1. /\ phase = "outside" /\ phase' = "parts"
      /\ site' = site /\ label' = label /\ holes_inserted' = holes_inserted
      /\ new \in Merges(Components(near, Faces))
  BY DEF DissolveOutside, Groups
<1>2. IsDivision(Faces, Cells)
  BY DEF IsArrangement
<1>3. IsSymmetric(near, Faces)
  BY <1>2, TouchIsMutual DEF IsSymmetric, BothOutside
<1>4. \A f \in Faces : \A g \in near[f] \cap Faces : ~InFootprint(f) /\ ~InFootprint(g)
  BY DEF BothOutside, InFootprint
<1>5. \A f \in Faces : \A g \in near[f] \cap Faces : InFootprint(f) = InFootprint(g)
  BY <1>4 DEF InFootprint, IsArrangement, IsFaceInfo
<1>6. \A f, g \in Faces : Touch(f, g) /\ ~InFootprint(f) /\ ~InFootprint(g) => g \in near[f]
  BY DEF BothOutside, InFootprint
<1> HIDE DEF near
<1>7. IsArrangement' /\ Inside' = Inside
  BY <1>1, <1>3, <1>5, MergeKeepsInside
<1>8. /\ IsMerge(near, new)
      /\ \A S : IsClosedUnder(near, Faces, S) =>
           \A F \in DOMAIN new : \A f, g \in Faces : f \in S /\ f \subseteq F /\ g \subseteq F => g \in S
      /\ \A F \in DOMAIN new : \A f \in Faces : f \subseteq F => new[F].in_footprint = InFootprint(f)
  BY <1>1, <1>2, <1>3, <1>5, MergeIsMerge, MergeKeepsSides
<1>9. ASSUME NEW F \in DOMAIN new, NEW G \in DOMAIN new, Touch(F, G),
             ~new[F].in_footprint, ~new[G].in_footprint
      PROVE  FALSE
  <2>1. F # G /\ \E c \in F : Beside[c] \cap G # {}
    BY <1>9 DEF Touch
  <2>2. PICK c \in F : Beside[c] \cap G # {}
    BY <2>1
  <2>3. PICK d \in G : d \in Beside[c]
    BY <2>2
  <2>4. IsDivision(DOMAIN new, Cells)
    BY <1>8 DEF IsMerge
  <2>5. c \in Cells /\ d \in Cells
    BY <2>4 DEF IsDivision
  <2>6. PICK f \in Faces : c \in f
    BY <1>2, <2>5, FacesOfDivision
  <2>7. PICK g \in Faces : d \in g
    BY <1>2, <2>5, FacesOfDivision
  <2>8. f \subseteq F /\ g \subseteq G
    BY <1>8, <2>6, <2>7 DEF IsMerge
  <2>9. ~InFootprint(f) /\ ~InFootprint(g)
    BY <1>8, <1>9, <2>8
  <2>10. f # g
    BY <2>1, <2>4, <2>6, <2>7, <2>8 DEF IsDivision
  <2>11. Touch(f, g)
    BY <2>3, <2>6, <2>7, <2>10 DEF Touch
  <2>12. g \in near[f] \cap Faces
    BY <1>6, <2>9, <2>11
  <2>13. g \subseteq F
    BY <1>8, <2>6, <2>12 DEF IsMerge
  <2> QED
    BY <2>1, <2>4, <2>7, <2>8, <2>13 DEF IsDivision
<1>10. OutsideIsDissolved'
  BY <1>9 DEF OutsideIsDissolved, Touch, InFootprint, Faces
<1>11. ASSUME NEW F \in DOMAIN new, new[F].in_footprint PROVE F \in Faces /\ new[F] = arrangement[F]
  <2>1. PICK h \in Faces : h \subseteq F /\ new[F] = arrangement[h]
    BY <1>8 DEF IsMerge
  <2>2. InFootprint(h)
    BY <1>11, <2>1 DEF InFootprint
  <2>3. IsClosedUnder(near, Faces, {h})
    BY <1>4, <2>2 DEF IsClosedUnder
  <2>4. \A g \in Faces : g \subseteq F => g = h
    BY <1>8, <2>1, <2>3
  <2>5. F \subseteq h
    <3> SUFFICES ASSUME NEW c \in F PROVE c \in h
      OBVIOUS
    <3>1. c \in Cells
      BY <1>8 DEF IsMerge, IsDivision
    <3>2. PICK g \in Faces : c \in g
      BY <1>2, <3>1, FacesOfDivision
    <3>3. g \subseteq F
      BY <1>8, <3>2 DEF IsMerge
    <3> QED
      BY <2>4, <3>2, <3>3
  <2>6. F = h
    BY <2>1, <2>5
  <2> QED
    BY <2>1, <2>6
<1>12. IsClipped'
  <2> SUFFICES ASSUME site.roofs # <<>> PROVE IsClipped'
    BY <1>1 DEF IsClipped
  <2>1. Inside' = {c \in Footprint' : OnARoof(c)' /\ AboveGround(c)'}
    BY <1>1, <1>7, SiteStays, LabelsStay DEF IsClipped
  <2>2. ASSUME site.lod = 22, NEW F \in DOMAIN new, new[F].in_footprint, NEW c \in F
        PROVE  new[F].plane = label[c]
    <3>1. F \in FootprintFaces
      BY <1>11, <2>2 DEF FootprintFaces, InFootprint
    <3> QED
      BY <1>1, <1>11, <2>2, <3>1 DEF IsClipped
  <2> QED
    BY <1>1, <2>1, <2>2 DEF IsClipped, FootprintFaces, InFootprint, Faces
<1>13. IsLabelled'
  BY <1>1, SiteStays DEF IsLabelled
<1>14. Order'
  BY <1>1 DEF Order
<1> QED
  BY <1>1, <1>7, <1>10, <1>12, <1>13, <1>14 DEF HolesAreCut, FacesFollowLabels, HolesAreMarked, Dissolved

(* The actions that change the data of faces. *)
LEMMA OtherData ==
  ASSUME IsArrangement, NEW new, new = arrangement', DOMAIN new = Faces,
         \A f \in Faces : IsFaceInfo(new[f]) /\ new[f].in_footprint = arrangement[f].in_footprint
  PROVE  /\ Faces' = Faces /\ Inside' = Inside /\ FootprintFaces' = FootprintFaces
         /\ Unbounded' = Unbounded
         /\ \A f \in Faces : InFootprint(f)' = InFootprint(f)
         /\ (\A f \in Faces : new[f].is_footprint_hole = arrangement[f].is_footprint_hole) => IsArrangement'
<1>1. Faces' = Faces
  BY DEF Faces
<1>2. \A f \in Faces : InFootprint(f)' = InFootprint(f)
  BY DEF InFootprint
<1>3. FootprintFaces' = FootprintFaces
  BY <1>1, <1>2 DEF FootprintFaces
<1>4. Unbounded' = Unbounded
  BY <1>1 DEF Unbounded
<1>5. Inside' = Inside
  BY <1>3 DEF Inside
<1>6. Unbounded \in Faces
  BY FacesOfDivision DEF IsArrangement
<1>7. ASSUME \A f \in Faces : new[f].is_footprint_hole = arrangement[f].is_footprint_hole PROVE IsArrangement'
  BY <1>1, <1>2, <1>4, <1>6, <1>7 DEF IsArrangement
<1> QED
  BY <1>1, <1>2, <1>3, <1>4, <1>5, <1>7

LEMMA ElevationsAreComputed ==
  ASSUME PartitionInv, ComputeElevations PROVE PartitionInv'
<1> DEFINE new == arrangement'
<1> USE DEF PartitionInv
<1>1. /\ phase = "statistics" /\ phase' = "steps"
      /\ site' = site /\ label' = label /\ holes_inserted' = holes_inserted
      /\ DOMAIN new = Faces
  BY DEF ComputeElevations
<1>2. ASSUME NEW f \in Faces
      PROVE  /\ IsFaceInfo(new[f]) /\ new[f].in_footprint = arrangement[f].in_footprint
             /\ new[f].is_footprint_hole = arrangement[f].is_footprint_hole
  <2> DEFINE d == arrangement[f]
             s == ElevationSum(f)
             n == Cardinality(DOMAIN FilledPixels(f))
  <2>1. IsFaceInfo(d)
    BY DEF IsArrangement
  <2>2. new[f] = IF InFootprint(f) THEN [d EXCEPT !.elevation_sum = s, !.pixel_count = n] ELSE d
    BY DEF ComputeElevations
  <2> HIDE DEF new, d, s, n
  <2>3. /\ IsFaceInfo(new[f]) /\ new[f].in_footprint = d.in_footprint
        /\ new[f].is_footprint_hole = d.is_footprint_hole
    BY <2>1, <2>2 DEF IsFaceInfo, NewFace
  <2> QED
    BY <2>3 DEF d
<1> HIDE DEF new
<1>3. IsArrangement' /\ Inside' = Inside
  BY <1>1, <1>2, OtherData DEF new
<1>4. IsClipped'
  <2> SUFFICES ASSUME site.roofs # <<>> PROVE IsClipped'
    BY <1>1 DEF IsClipped
  <2>1. Inside' = {c \in Footprint' : OnARoof(c)' /\ AboveGround(c)'}
    BY <1>1, <1>3, SiteStays, LabelsStay DEF IsClipped
  <2>2. site.lod = 13
    BY <1>1 DEF Order
  <2> QED
    BY <1>1, <2>1, <2>2 DEF IsClipped
<1>5. IsLabelled'
  BY <1>1, SiteStays DEF IsLabelled
<1>6. Order'
  BY <1>1 DEF Order
<1> QED
  BY <1>1, <1>3, <1>4, <1>5, <1>6 DEF HolesAreCut, FacesFollowLabels, OutsideIsDissolved, HolesAreMarked, Dissolved

LEMMA PartIsLabelled ==
  ASSUME PartitionInv, LabelPart PROVE PartitionInv'
<1> DEFINE new == arrangement'
<1> USE DEF PartitionInv
<1>1. /\ phase = "parts" /\ phase' = "parts"
      /\ site' = site /\ label' = label /\ holes_inserted' = holes_inserted
      /\ DOMAIN new = Faces
  BY DEF LabelPart
<1>2. ASSUME NEW f \in Faces
      PROVE  /\ IsFaceInfo(new[f]) /\ new[f].in_footprint = arrangement[f].in_footprint
             /\ new[f].is_footprint_hole = arrangement[f].is_footprint_hole
             /\ new[f].plane = arrangement[f].plane
  <2> DEFINE d == arrangement[f]
  <2>1. IsFaceInfo(d)
    BY DEF IsArrangement
  <2>2. \E n : new[f] = [d EXCEPT !.part_id = n] \/ new[f] = d
    BY DEF LabelPart
  <2> HIDE DEF new, d
  <2>3. /\ IsFaceInfo(new[f]) /\ new[f].in_footprint = d.in_footprint
        /\ new[f].is_footprint_hole = d.is_footprint_hole
        /\ new[f].plane = d.plane
    BY <2>1, <2>2 DEF IsFaceInfo, NewFace
  <2> QED
    BY <2>3 DEF d
<1> HIDE DEF new
<1>3. /\ IsArrangement' /\ Inside' = Inside /\ Faces' = Faces /\ FootprintFaces' = FootprintFaces
      /\ \A f \in Faces : InFootprint(f)' = InFootprint(f)
  BY <1>1, <1>2, OtherData DEF new
<1>4. IsClipped'
  <2> SUFFICES ASSUME site.roofs # <<>> PROVE IsClipped'
    BY <1>1 DEF IsClipped
  <2>1. Inside' = {c \in Footprint' : OnARoof(c)' /\ AboveGround(c)'}
    BY <1>1, <1>3, SiteStays, LabelsStay DEF IsClipped
  <2>2. site.lod = 22 => \A f \in FootprintFaces : \A c \in f : arrangement'[f].plane = label[c]
    BY <1>1, <1>2 DEF IsClipped, FootprintFaces, new
  <2> QED
    BY <1>1, <1>3, <2>1, <2>2 DEF IsClipped
<1>5. OutsideIsDissolved'
  <2>1. \A f, g : Touch(f, g)' <=> Touch(f, g)
    BY DEF Touch
  <2> QED
    BY <1>1, <1>3, <2>1 DEF OutsideIsDissolved
<1>6. IsLabelled'
  BY <1>1, SiteStays DEF IsLabelled
<1>7. Order'
  BY <1>1 DEF Order
<1> QED
  BY <1>1, <1>3, <1>4, <1>5, <1>6, <1>7 DEF HolesAreCut, FacesFollowLabels, HolesAreMarked, Dissolved

(* Every face that is neither a roof nor unbounded becomes a hole: one of   *)
(* the ground touches no other face outside, the unbounded one either.      *)
LEMMA DissolverIsFinished ==
  ASSUME PartitionInv, FinishDissolver PROVE PartitionInv'
<1> DEFINE new == arrangement'
<1> USE DEF PartitionInv
<1>1. /\ phase = "parts" /\ phase' = "dissolved"
      /\ site' = site /\ label' = label /\ holes_inserted' = holes_inserted
      /\ DOMAIN new = Faces
  BY DEF FinishDissolver
<1>2. ASSUME NEW f \in Faces
      PROVE  /\ IsFaceInfo(new[f]) /\ new[f].in_footprint = arrangement[f].in_footprint
             /\ new[f].is_footprint_hole = IsHole(f)
             /\ new[f].plane = arrangement[f].plane
  <2> DEFINE d == arrangement[f]
             h == IsHole(f)
  <2>1. IsFaceInfo(d)
    BY DEF IsArrangement
  <2>2. h \in BOOLEAN
    BY <2>1 DEF IsHole, IsFaceInfo
  <2>3. \E m, n : new[f] = [d EXCEPT !.is_footprint_hole = h, !.elevation_70p = m, !.pixel_count = n]
    BY DEF FinishDissolver
  <2> HIDE DEF new, d, h
  <2>4. PICK m, n : new[f] = [d EXCEPT !.is_footprint_hole = h, !.elevation_70p = m, !.pixel_count = n]
    BY <2>3
  <2>5. /\ IsFaceInfo(new[f]) /\ new[f].in_footprint = d.in_footprint
        /\ new[f].is_footprint_hole = h
        /\ new[f].plane = d.plane
    BY <2>1, <2>2, <2>4 DEF IsFaceInfo, NewFace
  <2> QED
    BY <2>5 DEF d, h
<1> HIDE DEF new
<1>3. /\ Inside' = Inside /\ Faces' = Faces /\ FootprintFaces' = FootprintFaces /\ Unbounded' = Unbounded
      /\ \A f \in Faces : InFootprint(f)' = InFootprint(f)
  BY <1>1, <1>2, OtherData DEF new
<1>4. ASSUME NEW f \in Faces PROVE IsHole(f) <=> ~InFootprint(f) /\ f # Unbounded
  <2>1. arrangement[f].is_footprint_hole => ~InFootprint(f) /\ f # Unbounded
    BY DEF IsArrangement
  <2>2. Unbounded \in Faces /\ ~InFootprint(Unbounded)
    BY FacesOfDivision DEF IsArrangement
  <2>3. ~InFootprint(f) => ~Touch(f, Unbounded)
    BY <1>1, <2>2 DEF OutsideIsDissolved
  <2> QED
    BY <2>1, <2>3 DEF IsHole
<1>5. \A f \in Faces' : arrangement'[f].is_footprint_hole <=> ~InFootprint(f)' /\ f # Unbounded'
  BY <1>2, <1>3, <1>4 DEF new
<1>6. HolesAreMarked'
  BY <1>5 DEF HolesAreMarked
<1>7. IsArrangement'
  <2>1. IsDivision(Faces', Cells)
    BY <1>3 DEF IsArrangement
  <2>2. \A f \in Faces' : IsFaceInfo(arrangement'[f]) /\ (arrangement'[f].is_footprint_hole => ~InFootprint(f)')
    BY <1>2, <1>3, <1>5 DEF new
  <2>3. ~InFootprint(Unbounded)' /\ ~arrangement'[Unbounded'].is_footprint_hole
    BY <1>3, <1>5, FacesOfDivision DEF IsArrangement
  <2> QED
    BY <2>1, <2>2, <2>3 DEF IsArrangement
<1>8. IsClipped'
  <2> SUFFICES ASSUME site.roofs # <<>> PROVE IsClipped'
    BY <1>1 DEF IsClipped
  <2>1. Inside' = {c \in Footprint' : OnARoof(c)' /\ AboveGround(c)'}
    BY <1>1, <1>3, SiteStays, LabelsStay DEF IsClipped
  <2>2. site.lod = 22 => \A f \in FootprintFaces : \A c \in f : arrangement'[f].plane = label[c]
    BY <1>1, <1>2 DEF IsClipped, FootprintFaces, new
  <2> QED
    BY <1>1, <1>3, <2>1, <2>2 DEF IsClipped
<1>9. IsLabelled'
  BY <1>1, SiteStays DEF IsLabelled
<1>10. Order'
  BY <1>1 DEF Order
<1> QED
  BY <1>1, <1>6, <1>7, <1>8, <1>9, <1>10 DEF HolesAreCut, FacesFollowLabels, OutsideIsDissolved

LEMMA StepsEnd ==
  ASSUME PartitionInv, StepsAreDissolved PROVE PartitionInv'
<1> USE DEF PartitionInv
<1>1. /\ phase = "steps" /\ phase' = "outside"
      /\ site' = site /\ label' = label /\ holes_inserted' = holes_inserted /\ arrangement' = arrangement
  BY DEF StepsAreDissolved
<1>2. Faces' = Faces /\ Unbounded' = Unbounded /\ FootprintFaces' = FootprintFaces /\ Inside' = Inside
  BY <1>1 DEF Faces, Unbounded, FootprintFaces, InFootprint, Inside
<1>3. IsArrangement'
  BY <1>1, <1>2 DEF IsArrangement, InFootprint
<1>4. IsClipped'
  BY <1>1, <1>2, SiteStays, LabelsStay DEF IsClipped
<1>5. IsLabelled'
  BY <1>1, SiteStays DEF IsLabelled
<1>6. Order'
  BY <1>1 DEF Order
<1> QED
  BY <1>1, <1>3, <1>4, <1>5, <1>6 DEF HolesAreCut, FacesFollowLabels, OutsideIsDissolved, HolesAreMarked, Dissolved

LEMMA StepIsMerged ==
  ASSUME PartitionInv, MergeStep PROVE PartitionInv'
<1> DEFINE new == arrangement'
<1> USE DEF PartitionInv
<1>1. /\ phase = "steps" /\ phase' = "steps"
      /\ site' = site /\ label' = label /\ holes_inserted' = holes_inserted
  BY DEF MergeStep
<1>2. IsDivision(Faces, Cells)
  BY DEF IsArrangement
<1>3. PICK p \in SmallSteps : new = [f \in (Faces \ {p[1], p[2]}) \cup {p[1] \cup p[2]} |->
                                       IF f \in Faces THEN arrangement[f] ELSE MergedData(p[1], p[2])]
  BY DEF MergeStep
<1> DEFINE f1 == p[1]
           f2 == p[2]
           D == (Faces \ {f1, f2}) \cup {f1 \cup f2}
<1>4. /\ f1 \in Faces /\ f2 \in Faces /\ f1 # f2
      /\ InFootprint(f1) /\ InFootprint(f2)
  BY DEF SmallSteps, FootprintFaces, Touch
<1>5. DOMAIN new = D /\ \A f \in D : new[f] = IF f \in Faces THEN arrangement[f] ELSE MergedData(f1, f2)
  BY <1>3
<1> HIDE DEF f1, f2, new
<1>6. f1 \cup f2 \notin Faces
  <2>1. f1 # {} /\ f2 # {}
    BY <1>2, <1>4 DEF IsDivision
  <2>2. ASSUME f1 \cup f2 \in Faces PROVE FALSE
    <3>1. f1 \cup f2 = f1
      BY <1>2, <1>4, <2>1, <2>2 DEF IsDivision
    <3>2. f1 \cup f2 = f2
      BY <1>2, <1>4, <2>1, <2>2 DEF IsDivision
    <3> QED
      BY <1>4, <3>1, <3>2
  <2> QED
    BY <2>2
<1>7. IsDivision(D, Cells)
  <2>1. UNION D = Cells
    <3>1. UNION Faces = Cells
      BY <1>2 DEF IsDivision
    <3>2. UNION D = UNION Faces
      <4>1. ASSUME NEW c \in UNION Faces PROVE c \in UNION D
        <5>1. PICK f \in Faces : c \in f
          BY <4>1
        <5> QED
          BY <5>1
      <4> QED
        BY <1>4, <4>1
    <3> QED
      BY <3>1, <3>2
  <2>2. \A F \in D : F # {}
    BY <1>2, <1>4 DEF IsDivision
  <2>3. ASSUME NEW F \in Faces \ {f1, f2} PROVE F \cap (f1 \cup f2) = {}
    BY <1>2, <1>4 DEF IsDivision
  <2>4. ASSUME NEW F \in D, NEW G \in D, F \cap G # {} PROVE F = G
    BY <1>2, <2>3, <2>4 DEF IsDivision
  <2> QED
    BY <2>1, <2>2, <2>4 DEF IsDivision
<1>8. /\ IsFaceInfo(MergedData(f1, f2)) /\ MergedData(f1, f2).in_footprint = TRUE
      /\ MergedData(f1, f2).is_footprint_hole = FALSE
  <2> DEFINE d == arrangement[f1]
             e == arrangement[f2]
  <2>1. IsFaceInfo(d) /\ d.in_footprint = TRUE /\ d.is_footprint_hole = FALSE
    <3>1. IsFaceInfo(d) /\ d.in_footprint /\ ~d.is_footprint_hole
      BY <1>4 DEF IsArrangement, InFootprint
    <3> QED
      BY <3>1 DEF IsFaceInfo
  <2>2. \E m, n : MergedData(f1, f2) = [d EXCEPT !.elevation_sum = m, !.pixel_count = n]
    BY DEF MergedData
  <2> HIDE DEF d
  <2> QED
    BY <2>1, <2>2 DEF IsFaceInfo, NewFace
<1> HIDE DEF D
<1>9. ASSUME NEW F \in D
      PROVE  /\ IsFaceInfo(new[F]) /\ (new[F].is_footprint_hole => ~new[F].in_footprint)
             /\ <<0, 0>> \in F => ~new[F].in_footprint /\ ~new[F].is_footprint_hole
  <2>1. CASE F \in Faces
    <3>1. new[F] = arrangement[F]
      BY <1>5, <2>1
    <3>2. <<0, 0>> \in F => F = Unbounded
      BY <1>2, <2>1, FacesOfDivision
    <3> QED
      BY <2>1, <3>1, <3>2 DEF IsArrangement, InFootprint
  <2>2. CASE F \notin Faces
    <3>1. new[F] = MergedData(f1, f2) /\ F = f1 \cup f2
      BY <1>5, <2>2 DEF D
    <3>2. <<0, 0>> \notin f1 /\ <<0, 0>> \notin f2
      BY <1>2, <1>4, FacesOfDivision DEF IsArrangement
    <3> QED
      BY <1>8, <3>1, <3>2
  <2> QED
    BY <2>1, <2>2
<1>10. IsArrangement'
  BY <1>5, <1>7, <1>9, NextArrangement DEF new
<1>11. Inside' = Inside
  <2>1. ASSUME NEW F \in D, NEW f \in Faces, f \cap F # {} PROVE new[F].in_footprint = InFootprint(f)
    <3>1. CASE F \in Faces
      <4>1. f = F
        BY <1>2, <2>1, <3>1 DEF IsDivision
      <4> QED
        BY <1>5, <3>1, <4>1 DEF InFootprint
    <3>2. CASE F \notin Faces
      <4>1. new[F] = MergedData(f1, f2) /\ F = f1 \cup f2
        BY <1>5, <3>2 DEF D
      <4>2. f = f1 \/ f = f2
        BY <1>2, <1>4, <2>1, <4>1 DEF IsDivision
      <4>3. InFootprint(f) = TRUE
        BY <1>4, <4>2 DEF IsArrangement, IsFaceInfo, InFootprint
      <4> QED
        BY <1>8, <4>1, <4>3
    <3> QED
      BY <3>1, <3>2
  <2> QED
    BY <1>2, <1>5, <1>7, <2>1, SameInside DEF new
<1>12. IsClipped'
  <2> SUFFICES ASSUME site.roofs # <<>> PROVE IsClipped'
    BY <1>1 DEF IsClipped
  <2>1. Inside' = {c \in Footprint' : OnARoof(c)' /\ AboveGround(c)'}
    BY <1>1, <1>11, SiteStays, LabelsStay DEF IsClipped
  <2>2. site.lod = 13
    BY <1>1 DEF Order
  <2> QED
    BY <1>1, <2>1, <2>2 DEF IsClipped
<1>13. IsLabelled'
  BY <1>1, SiteStays DEF IsLabelled
<1>14. Order'
  BY <1>1 DEF Order
<1> QED
  BY <1>1, <1>10, <1>12, <1>13, <1>14 DEF HolesAreCut, FacesFollowLabels, OutsideIsDissolved, HolesAreMarked, Dissolved

(* The outer ring, the lines, the labels. *)
LEMMA SitesAreRight ==
  ASSUME site \in Sites
  PROVE  /\ IsSite(site)
         /\ site.outer # {} /\ site.outer \subseteq Cells /\ <<0, 0>> \notin site.outer
         /\ Len(site.holes) \in Nat /\ DOMAIN site.holes = 1 .. Len(site.holes)
         /\ \A k \in DOMAIN site.holes : site.holes[k] \subseteq site.outer
         /\ Len(site.roofs) \in Nat /\ Len(Planes) \in Nat
         /\ Footprint \subseteq Cells
<1>1. IsSite(site) /\ Width \in Nat /\ Height \in Nat
  BY SiteAssumption
<1>2. site.outer # {} /\ site.outer \subseteq (1 .. Width) \X (1 .. Height)
  BY <1>1 DEF IsSite
<1>3. (1 .. Width) \X (1 .. Height) \subseteq Cells /\ <<0, 0>> \notin (1 .. Width) \X (1 .. Height)
  BY <1>1 DEF Cells
<1>4. site.outer \subseteq Cells /\ <<0, 0>> \notin site.outer
  BY <1>2, <1>3
<1>5. site.holes \in Seq(SUBSET site.outer)
  BY <1>1 DEF IsSite
<1>6. /\ Len(site.holes) \in Nat /\ DOMAIN site.holes = 1 .. Len(site.holes)
      /\ \A k \in DOMAIN site.holes : site.holes[k] \subseteq site.outer
  BY <1>5
<1>7. site.roofs \in Seq(Coefficients) /\ site.grounds \in Seq(Coefficients)
  BY <1>1 DEF IsSite
<1>8. Len(site.roofs) \in Nat /\ Len(Planes) \in Nat
  <2>1. \A s, t \in Seq(Coefficients) : Len(s) \in Nat /\ s \o t \in Seq(Coefficients)
    OBVIOUS
  <2> QED
    BY <1>7, <2>1 DEF Planes
<1>9. Footprint \subseteq Cells
  BY <1>4 DEF Footprint, Kept
<1> QED
  BY <1>1, <1>2, <1>4, <1>6, <1>8, <1>9

LEMMA FootprintIsInserted ==
  ASSUME PartitionInv, InsertFootprint PROVE PartitionInv'
<1> DEFINE new == arrangement'
           D == {site.outer, Cells \ site.outer}
<1> USE DEF PartitionInv
<1>1. /\ phase = "footprint" /\ phase' = "holes"
      /\ site' = site /\ label' = label /\ holes_inserted' = 0 /\ holes_inserted = 0
      /\ new = [f \in D |-> [NewFace EXCEPT !.in_footprint = f = site.outer]]
  BY DEF InsertFootprint, Order
<1>2. /\ site.outer # {} /\ site.outer \subseteq Cells /\ <<0, 0>> \notin site.outer
      /\ <<0, 0>> \in Cells
      /\ \A k \in DOMAIN site.holes : site.holes[k] \subseteq site.outer
  BY SitesAreRight, CellsAreFinite DEF Order
<1>3. IsDivision(D, Cells)
  BY <1>2 DEF IsDivision
<1>4. \A f \in D : /\ IsFaceInfo(new[f]) /\ new[f].in_footprint = (f = site.outer)
                   /\ new[f].is_footprint_hole = FALSE
  BY <1>1 DEF IsFaceInfo, NewFace
<1>5. DOMAIN new = D
  BY <1>1
<1>6. \A f \in D : <<0, 0>> \in f => f # site.outer
  BY <1>2
<1> HIDE DEF new, D
<1>7. IsArrangement'
  BY <1>3, <1>4, <1>5, <1>6, NextArrangement DEF new
<1>8. site.outer \in D /\ \A f \in D : f # site.outer => f = Cells \ site.outer
  BY DEF D
<1>9. Inside' = site.outer
  <2>1. Faces' = D
    BY <1>5 DEF Faces, new
  <2>2. \A f \in D : InFootprint(f)' <=> f = site.outer
    BY <1>4 DEF InFootprint, new
  <2>3. FootprintFaces' = {site.outer}
    BY <1>8, <2>1, <2>2 DEF FootprintFaces
  <2> QED
    BY <2>3 DEF Inside
<1>10. Kept(0) = site.outer
  BY DEF Kept
<1>11. HolesAreCut'
  <2>1. Inside' = Kept(holes_inserted)'
    BY <1>1, <1>9, <1>10, SiteStays
  <2>2. \A k \in DOMAIN site.holes : \E f \in Faces' : site.holes[k] \subseteq f
    BY <1>2, <1>5, <1>8 DEF Faces, new
  <2> QED
    BY <1>1, <2>1, <2>2 DEF HolesAreCut
<1>12. Order'
  BY <1>1 DEF Order
<1> QED
  BY <1>1, <1>7, <1>11, <1>12 DEF IsLabelled, FacesFollowLabels, IsClipped, OutsideIsDissolved, HolesAreMarked, Dissolved

LEMMA SplitKeeps ==
  ASSUME IsArrangement, NEW class, arrangement' = SplitFaces(class)
  PROVE  IsArrangement' /\ Inside' = Inside
<1> DEFINE new == arrangement'
<1>1. IsDivision(Faces, Cells)
  BY DEF IsArrangement
<1>2. IsSplit(class, new)
  BY <1>1, SplitIsSplit
<1> HIDE DEF new
<1>3. IsDivision(DOMAIN new, Cells)
  BY <1>2 DEF IsSplit
<1>4. ASSUME NEW p \in DOMAIN new, NEW f \in Faces, f \cap p # {}
      PROVE  p \subseteq f /\ new[p] = arrangement[f]
  BY <1>1, <1>2, <1>4, FacesOfDivision DEF IsSplit
<1>5. ASSUME NEW p \in DOMAIN new
      PROVE  /\ IsFaceInfo(new[p]) /\ (new[p].is_footprint_hole => ~new[p].in_footprint)
             /\ <<0, 0>> \in p => ~new[p].in_footprint /\ ~new[p].is_footprint_hole
  <2>1. PICK f \in Faces : p \subseteq f /\ new[p] = arrangement[f]
    BY <1>2 DEF IsSplit
  <2>2. <<0, 0>> \in p => f = Unbounded
    BY <1>1, <2>1, FacesOfDivision
  <2> QED
    BY <2>1, <2>2 DEF IsArrangement, InFootprint
<1>6. IsArrangement'
  BY <1>3, <1>5, NextArrangement DEF new
<1>7. Inside' = Inside
  BY <1>1, <1>3, <1>4, SameInside DEF new, InFootprint
<1> QED
  BY <1>6, <1>7

LEMMA LinesAreInserted ==
  ASSUME PartitionInv, InsertLines PROVE PartitionInv'
<1> USE DEF PartitionInv
<1>1. /\ phase = "holes" /\ phase' = "optimise"
      /\ site' = site /\ label' = label /\ holes_inserted' = holes_inserted
      /\ holes_inserted = Len(site.holes)
      /\ arrangement' = SplitFaces([f \in Faces |-> [c \in f |-> site.patch[c]]])
  BY DEF InsertLines
<1>2. IsArrangement' /\ Inside' = Inside
  BY <1>1, SplitKeeps
<1>3. HolesAreCut'
  BY <1>1, <1>2, SiteStays DEF HolesAreCut
<1>4. Order'
  BY <1>1 DEF Order
<1> QED
  BY <1>1, <1>2, <1>3, <1>4 DEF IsLabelled, FacesFollowLabels, IsClipped, OutsideIsDissolved, HolesAreMarked, Dissolved

LEMMA FacesAreLabelled ==
  ASSUME PartitionInv, Optimise PROVE PartitionInv'
<1> DEFINE new == arrangement'
<1> USE DEF PartitionInv
<1>1. /\ phase = "optimise" /\ phase' = "segments" /\ site.roofs # <<>>
      /\ site' = site /\ holes_inserted' = holes_inserted
  BY DEF Optimise
<1>2. PICK l \in [FootprintFaces -> 1 .. Len(Planes)] :
        /\ new = [f \in Faces |-> IF InFootprint(f) THEN Labelled(arrangement[f], l[f]) ELSE arrangement[f]]
        /\ label' = [c \in Cells |-> IF InFootprint(FaceAt(c)) THEN l[FaceAt(c)] ELSE 0]
  BY DEF Optimise
<1>3. IsDivision(Faces, Cells)
  BY DEF IsArrangement
<1>4. Len(site.roofs) \in Nat /\ Len(Planes) \in Nat /\ Footprint \subseteq Cells
  BY SitesAreRight DEF Order
<1>5. DOMAIN new = Faces
  BY <1>2
<1>6. \A f \in Faces : new[f] = IF InFootprint(f) THEN Labelled(arrangement[f], l[f]) ELSE arrangement[f]
  BY <1>2
<1> HIDE DEF new
<1>7. ASSUME NEW f \in Faces, InFootprint(f)
      PROVE  /\ l[f] \in 1 .. Len(Planes)
             /\ IsFaceInfo(new[f]) /\ new[f].in_footprint = IsRoofLabel(l[f])
             /\ new[f].is_footprint_hole = FALSE
             /\ new[f].segid = SegId(l[f]) /\ new[f].plane = l[f]
  <2> DEFINE d == arrangement[f]
             i == SegId(l[f])
             r == IsRoofLabel(l[f])
  <2>1. f \in FootprintFaces
    BY <1>7 DEF FootprintFaces
  <2>2. IsFaceInfo(d) /\ d.is_footprint_hole = FALSE
    <3>1. IsFaceInfo(d) /\ ~d.is_footprint_hole
      BY <1>7 DEF IsArrangement
    <3> QED
      BY <3>1 DEF IsFaceInfo
  <2>3. r \in BOOLEAN
    BY DEF IsRoofLabel
  <2>4. new[f] = [d EXCEPT !.segid = i, !.plane = l[f], !.in_footprint = r, !.is_ground = ~r]
    BY <1>6, <1>7 DEF Labelled
  <2> HIDE DEF d, i, r
  <2>5. /\ IsFaceInfo(new[f]) /\ new[f].in_footprint = r
        /\ new[f].is_footprint_hole = FALSE
        /\ new[f].segid = i /\ new[f].plane = l[f]
    BY <2>2, <2>3, <2>4 DEF IsFaceInfo, NewFace
  <2> QED
    BY <2>1, <2>5 DEF i, r
<1>8. ASSUME NEW f \in Faces, ~InFootprint(f) PROVE new[f] = arrangement[f]
  BY <1>6, <1>8
<1>9. ASSUME NEW f \in Faces, NEW c \in f
      PROVE  /\ c \in Footprint <=> InFootprint(f)
             /\ InFootprint(f) => label'[c] = l[f]
             /\ c \in Inside' <=> InFootprint(f) /\ l[f] <= Len(site.roofs)
  <2>1. c \in Cells /\ FaceAt(c) = f
    BY <1>3, FacesOfDivision
  <2>2. label'[c] = IF InFootprint(f) THEN l[f] ELSE 0
    BY <1>2, <2>1
  <2>3. c \in Footprint <=> InFootprint(f)
    BY <1>1, <1>3, InsideFaces DEF HolesAreCut, Order, Footprint
  <2>4. c \in Inside' <=> new[f].in_footprint
    BY <1>3, <1>5, NextInside DEF new
  <2>5. new[f].in_footprint <=> InFootprint(f) /\ l[f] <= Len(site.roofs)
    BY <1>7, <1>8 DEF IsRoofLabel, InFootprint
  <2> QED
    BY <2>2, <2>3, <2>4, <2>5
<1>10. \A c \in Cells : \E f \in Faces : c \in f
  BY <1>3, FacesOfDivision
<1>11. IsArrangement'
  <2>1. \A f \in Faces : IsFaceInfo(new[f]) /\ (new[f].is_footprint_hole => ~new[f].in_footprint)
    BY <1>7, <1>8 DEF IsArrangement, InFootprint
  <2>2. ASSUME NEW f \in Faces, <<0, 0>> \in f PROVE ~new[f].in_footprint /\ ~new[f].is_footprint_hole
    <3>1. f = Unbounded
      BY <1>3, <2>2, FacesOfDivision
    <3> QED
      BY <1>8, <3>1 DEF IsArrangement, InFootprint
  <2> QED
    BY <1>3, <1>5, <2>1, <2>2, NextArrangement DEF new
<1>12. IsLabelled'
  <2>1. ASSUME NEW c \in Footprint PROVE label'[c] \in 1 .. Len(Planes)
    <3>1. PICK f \in Faces : c \in f
      BY <1>4, <1>10
    <3> QED
      BY <1>7, <1>9, <3>1
  <2>2. Footprint' = Footprint /\ Planes' = Planes
    BY <1>1, SiteStays
  <2> QED
    BY <2>1, <2>2 DEF IsLabelled
<1>13. FacesFollowLabels'
  <2>1. \A c : OnARoof(c)' <=> label'[c] \in 1 .. Len(site.roofs)
    BY <1>1 DEF OnARoof
  <2>2. ASSUME NEW c \in Cells PROVE c \in Inside' <=> c \in Footprint /\ OnARoof(c)'
    <3>1. PICK f \in Faces : c \in f
      BY <1>10
    <3>2. InFootprint(f) => l[f] \in 1 .. Len(Planes)
      BY <1>7
    <3>3. OnARoof(c)' <=> label'[c] \in 1 .. Len(site.roofs)
      BY <2>1
    <3> HIDE DEF OnARoof
    <3> QED
      BY <1>4, <1>9, <3>1, <3>2, <3>3
  <2>3. Inside' \subseteq Cells
    BY <1>3, <1>5, InsideIsOfCells DEF new, Faces
  <2>4. Inside' = {c \in Footprint' : OnARoof(c)'}
    <3>1. Footprint' = Footprint
      BY <1>1, SiteStays
    <3> QED
      BY <1>4, <2>2, <2>3, <3>1
  <2>5. ASSUME NEW f \in Faces, new[f].in_footprint, NEW c \in f
        PROVE  new[f].segid = label'[c] /\ new[f].plane = label'[c]
    <3>1. InFootprint(f)
      BY <1>8, <2>5 DEF InFootprint
    <3>2. l[f] <= Len(site.roofs)
      BY <1>7, <2>5, <3>1 DEF IsRoofLabel
    <3> QED
      BY <1>7, <1>9, <3>1, <3>2 DEF SegId
  <2>6. \A f \in FootprintFaces' : \A c \in f : new[f].segid = label'[c] /\ new[f].plane = label'[c]
    BY <1>5, <2>5 DEF FootprintFaces, InFootprint, Faces, new
  <2> QED
    BY <2>4, <2>6 DEF FacesFollowLabels, new
<1>14. Order'
  BY <1>1 DEF Order
<1> QED
  BY <1>1, <1>11, <1>12, <1>13, <1>14 DEF HolesAreCut, IsClipped, OutsideIsDissolved, HolesAreMarked, Dissolved

LEMMA KeptAfterOneMore ==
  ASSUME NEW n \in Nat
  PROVE  \A c : c \in Kept(n + 1) <=> c \in Kept(n) /\ (c \in site.holes[n + 1] => ~ProperHole(n + 1))
<1>1. \A k : k \in 1 .. n + 1 <=> k \in 1 .. n \/ k = n + 1
  OBVIOUS
<1>2. \A m, c : c \in Kept(m) <=> c \in site.outer /\ \A k \in 1 .. m : ProperHole(k) => c \notin site.holes[k]
  BY DEF Kept
<1> QED
  BY <1>1, <1>2

LEMMA HoleIsInserted ==
  ASSUME PartitionInv, InsertHole PROVE PartitionInv'
<1> DEFINE new == arrangement'
           k == holes_inserted + 1
           hole == site.holes[k]
           class == [f \in Faces |-> [c \in f |-> c \in hole]]
           split == SplitFaces(class)
<1> USE DEF PartitionInv
<1>1. /\ phase = "holes" /\ phase' = "holes"
      /\ site' = site /\ label' = label /\ holes_inserted' = k
      /\ holes_inserted < Len(site.holes)
      /\ new = [f \in DOMAIN split |->
                  IF f = hole /\ InFootprint(CHOOSE g \in Faces : hole \subseteq g)
                  THEN HoleData(k, split[f]) ELSE split[f]]
  BY DEF InsertHole
<1>2. IsDivision(Faces, Cells)
  BY DEF IsArrangement
<1>3. /\ holes_inserted \in Nat /\ k \in Nat /\ k \in DOMAIN site.holes /\ Len(site.holes) \in Nat
      /\ DOMAIN site.holes = 1 .. Len(site.holes)
      /\ \A m \in DOMAIN site.holes : m > k => m > holes_inserted /\ m # k
      /\ k > holes_inserted /\ \A m \in 1 .. holes_inserted : m # k
  <2>1. Len(site.holes) \in Nat /\ DOMAIN site.holes = 1 .. Len(site.holes) /\ holes_inserted \in 0 .. Len(site.holes)
    BY SitesAreRight DEF Order
  <2> QED
    BY <1>1, <2>1
<1>4. /\ \A m \in DOMAIN site.holes : /\ site.holes[m] \subseteq site.outer /\ site.holes[m] # {}
                                      /\ IsConnected(site.holes[m])
      /\ \A m, n \in DOMAIN site.holes : m # n => site.holes[m] \cap site.holes[n] = {}
      /\ <<0, 0>> \notin site.outer
  BY SitesAreRight DEF Order, IsSite
<1>5. PICK g \in Faces : hole \subseteq g
  BY <1>1, <1>3 DEF HolesAreCut
<1>6. InFootprint(g)
  <2>1. PICK c \in hole : TRUE
    BY <1>3, <1>4
  <2>2. \A m \in 1 .. holes_inserted : m \in DOMAIN site.holes /\ c \notin site.holes[m]
    BY <1>1, <1>3, <1>4, <2>1
  <2>3. c \in Kept(holes_inserted)
    BY <1>3, <1>4, <2>1, <2>2 DEF Kept
  <2>4. c \in Inside
    BY <1>1, <2>3 DEF HolesAreCut
  <2> QED
    BY <1>2, <1>5, <2>1, <2>4, InsideFaces
<1> HIDE DEF k, split, new
<1>7. \A f \in Faces : \A c \in f : class[f][c] = IF c \in hole THEN TRUE ELSE FALSE
  <2> HIDE DEF hole
  <2> SUFFICES ASSUME NEW f \in Faces, NEW c \in f PROVE class[f][c] = IF c \in hole THEN TRUE ELSE FALSE
    OBVIOUS
  <2>1. class[f][c] = (c \in hole)
    OBVIOUS
  <2> HIDE DEF class
  <2>2. CASE c \in hole
    <3>1. (c \in hole) = TRUE
      BY <2>2, Zenon
    <3> QED
      BY <2>1, <2>2, <3>1, Zenon
  <2>3. CASE c \notin hole
    <3>1. (c \in hole) = FALSE
      BY <2>3, SMT
    <3> QED
      BY <2>1, <2>3, <3>1, Zenon
  <2> QED
    BY <2>2, <2>3
<1> HIDE DEF class, hole
<1>8. hole # {} /\ hole \subseteq site.outer /\ IsConnected(hole)
  BY <1>3, <1>4 DEF hole
<1>9. hole \in DOMAIN split
  <2>1. hole \subseteq ClassOf(class, g, TRUE)
    BY <1>5, <1>7 DEF ClassOf
  <2>2. PICK p \in DOMAIN split : hole \subseteq p /\ p \subseteq ClassOf(class, g, TRUE)
    BY <1>2, <1>8, <2>1, ConnectedStays DEF split
  <2>3. ClassOf(class, g, TRUE) \subseteq hole
    BY <1>7 DEF ClassOf
  <2>4. p = hole
    BY <2>2, <2>3
  <2> QED
    BY <2>4
<1>10. (CHOOSE f \in Faces : hole \subseteq f) = g
  <2>1. \A f \in Faces : hole \subseteq f => f = g
    BY <1>2, <1>5, <1>8, FacesOfDivision
  <2> QED
    BY <1>5, <2>1
<1>11. DOMAIN new = DOMAIN split
  BY <1>1
<1>12. new[hole] = HoleData(k, split[hole]) /\ \A p \in DOMAIN split : p # hole => new[p] = split[p]
  BY <1>1, <1>6, <1>9, <1>10
<1>13. IsSplit(class, split)
  BY <1>2, SplitIsSplit DEF split
<1>14. IsDivision(DOMAIN new, Cells)
  BY <1>11, <1>13 DEF IsSplit
<1>15. ASSUME NEW p \in DOMAIN split, NEW f \in Faces, f \cap p # {} PROVE p \subseteq f /\ split[p] = arrangement[f]
  BY <1>2, <1>13, <1>15, FacesOfDivision DEF IsSplit
<1>16. split[hole] = arrangement[g] /\ IsFaceInfo(arrangement[g]) /\ arrangement[g].in_footprint = TRUE
       /\ arrangement[g].is_footprint_hole = FALSE
  <2>1. split[hole] = arrangement[g]
    BY <1>5, <1>8, <1>9, <1>15
  <2>2. IsFaceInfo(arrangement[g]) /\ arrangement[g].in_footprint /\ ~arrangement[g].is_footprint_hole
    BY <1>6 DEF IsArrangement, InFootprint
  <2> QED
    BY <2>1, <2>2 DEF IsFaceInfo
<1>17. /\ IsFaceInfo(new[hole])
       /\ new[hole].in_footprint = ~ProperHole(k) /\ new[hole].is_footprint_hole = ProperHole(k)
  <2> DEFINE d == arrangement[g]
  <2>1. new[hole] = IF k \in RingsOnExterior(k) THEN d
                    ELSE [d EXCEPT !.in_footprint = FALSE, !.is_footprint_hole = TRUE]
    BY <1>12, <1>16 DEF HoleData
  <2>2. IsFaceInfo(d) /\ d.in_footprint = TRUE /\ d.is_footprint_hole = FALSE
    BY <1>16
  <2> HIDE DEF d
  <2>3. CASE ProperHole(k)
    BY <2>1, <2>2, <2>3 DEF ProperHole, IsFaceInfo, NewFace
  <2>4. CASE ~ProperHole(k)
    BY <2>1, <2>2, <2>4 DEF ProperHole, IsFaceInfo, NewFace
  <2> QED
    BY <2>3, <2>4
<1>18. ASSUME NEW p \in DOMAIN split
       PROVE  /\ IsFaceInfo(new[p]) /\ (new[p].is_footprint_hole => ~new[p].in_footprint)
              /\ <<0, 0>> \in p => ~new[p].in_footprint /\ ~new[p].is_footprint_hole
  <2>1. CASE p = hole
    BY <1>4, <1>8, <1>17, <2>1
  <2>2. CASE p # hole
    <3>1. PICK f \in Faces : p \subseteq f /\ split[p] = arrangement[f]
      BY <1>13 DEF IsSplit
    <3>2. <<0, 0>> \in p => f = Unbounded
      BY <1>2, <3>1, FacesOfDivision
    <3>3. new[p] = arrangement[f]
      BY <1>12, <2>2, <3>1
    <3> QED
      BY <3>1, <3>2, <3>3 DEF IsArrangement, InFootprint
  <2> QED
    BY <2>1, <2>2
<1>19. IsArrangement'
  BY <1>11, <1>14, <1>18, NextArrangement DEF new
<1>20. ASSUME NEW c \in Cells
       PROVE  c \in Inside' <=> c \in Inside /\ (c \in hole => ~ProperHole(k))
  <2>1. PICK p \in DOMAIN new : c \in p
    BY <1>14 DEF IsDivision
  <2>2. PICK f \in Faces : c \in f
    BY <1>2, FacesOfDivision
  <2>3. c \in Inside' <=> new[p].in_footprint
    BY <1>14, <2>1, NextInside DEF new
  <2>4. c \in Inside <=> InFootprint(f)
    BY <1>2, <2>2, InsideFaces
  <2>5. CASE p = hole
    <3>1. f = g
      BY <1>2, <1>5, <2>1, <2>2, <2>5, FacesOfDivision
    <3> QED
      BY <1>6, <1>17, <2>1, <2>3, <2>4, <2>5, <3>1
  <2>6. CASE p # hole
    <3>1. c \notin hole
      BY <1>9, <1>11, <1>14, <2>1, <2>6 DEF IsDivision
    <3>2. new[p] = arrangement[f]
      BY <1>11, <1>12, <1>15, <2>1, <2>2, <2>6
    <3> QED
      BY <2>3, <2>4, <3>1, <3>2 DEF InFootprint
  <2> QED
    BY <2>5, <2>6
<1>21. Inside' = Kept(holes_inserted)'
  <2>1. Kept(holes_inserted)' = Kept(k)
    BY <1>1, SiteStays
  <2>2. Inside = Kept(holes_inserted)
    BY <1>1 DEF HolesAreCut
  <2>3. \A c : c \in Kept(k) <=> c \in Kept(holes_inserted) /\ (c \in hole => ~ProperHole(k))
    BY <1>3, KeptAfterOneMore DEF k, hole
  <2>4. Inside' \subseteq Cells /\ Inside \subseteq Cells
    BY <1>2, <1>14, InsideIsOfCells DEF new, Faces
  <2> QED
    BY <1>20, <2>1, <2>2, <2>3, <2>4
<1>22. ASSUME NEW m \in DOMAIN site.holes, m > k PROVE \E p \in Faces' : site.holes[m] \subseteq p
  <2> DEFINE T == site.holes[m]
  <2>1. PICK f \in Faces : T \subseteq f
    BY <1>1, <1>3, <1>22 DEF HolesAreCut
  <2>2. T \cap hole = {} /\ T # {} /\ IsConnected(T)
    BY <1>3, <1>4, <1>22 DEF hole
  <2> HIDE DEF T
  <2>3. T \subseteq ClassOf(class, f, FALSE)
    <3>1. \A c \in T : c \in f /\ c \notin hole
      BY <2>1, <2>2
    <3>2. \A c \in T : class[f][c] = FALSE
      BY <1>7, <3>1
    <3> QED
      BY <3>1, <3>2 DEF ClassOf
  <2>4. PICK p \in DOMAIN split : T \subseteq p
    BY <1>2, <2>2, <2>3, ConnectedStays DEF split
  <2> QED
    BY <1>11, <2>4 DEF T, Faces, new
<1>23. HolesAreCut'
  BY <1>1, <1>21, <1>22 DEF HolesAreCut
<1>24. Order'
  BY <1>1, <1>3 DEF Order, k
<1> QED
  BY <1>1, <1>19, <1>23, <1>24 DEF IsLabelled, FacesFollowLabels, IsClipped, OutsideIsDissolved, HolesAreMarked, Dissolved

LEMMA HeightsAreNumbers ==
  ASSUME site \in Sites
  PROVE  /\ site.ground \in Int
         /\ \A l \in 1 .. Len(Planes) : \A c \in Cells : HeightInCell(l, c) \in Int
<1>1. IsSite(site)
  BY SitesAreRight
<1>2. site.roofs \in Seq(Coefficients) /\ site.grounds \in Seq(Coefficients) /\ site.ground \in Int
  BY <1>1 DEF IsSite
<1>3. Planes \in Seq(Coefficients)
  <2>1. \A s, t \in Seq(Coefficients) : s \o t \in Seq(Coefficients)
    OBVIOUS
  <2> QED
    BY <1>2, <2>1 DEF Planes
<1>4. ASSUME NEW l \in 1 .. Len(Planes), NEW c \in Cells PROVE HeightInCell(l, c) \in Int
  <2> DEFINE p == Planes[l]
  <2>1. p \in Coefficients
    BY <1>3
  <2>2. p.a \in Int /\ p.b \in Int /\ p.d \in Int
    BY <2>1 DEF Coefficients
  <2>3. c[1] \in Int /\ c[2] \in Int
    BY SiteAssumption DEF Cells
  <2>4. HeightInCell(l, c) = p.a * (2 * c[1] - 1) + p.b * (2 * c[2] - 1) + p.d
    BY DEF HeightInCell, HeightOn
  <2> HIDE DEF p
  <2>5. 2 * c[1] - 1 \in Int /\ 2 * c[2] - 1 \in Int
    BY <2>3
  <2>6. \A x, y \in Int : x * y \in Int /\ x + y \in Int
    OBVIOUS
  <2>7. p.a * (2 * c[1] - 1) \in Int /\ p.b * (2 * c[2] - 1) \in Int
    BY <2>2, <2>5, <2>6
  <2> QED
    BY <2>2, <2>4, <2>6, <2>7
<1> QED
  BY <1>2, <1>4

LEMMA TerrainIsClipped ==
  ASSUME PartitionInv, ClipToTerrain PROVE PartitionInv'
<1> DEFINE new == arrangement'
           class == [f \in Faces |-> [c \in f |-> Below(f, c)]]
           clipped == SplitFaces(class)
           IsBelow(f) == \A c \in f : Below(FaceAt(c), c)
           TouchesBoundary(f) == \E g \in DOMAIN clipped : Touch(f, g) /\ ~clipped[g].in_footprint
           Lowered(f) == [clipped[f] EXCEPT !.in_footprint = FALSE, !.is_ground = TRUE,
                                            !.is_footprint_hole = ~TouchesBoundary(f)]
<1> USE DEF PartitionInv
<1>1. /\ phase = "terrain"
      /\ site' = site /\ label' = label /\ holes_inserted' = holes_inserted
      /\ new = [f \in DOMAIN clipped |-> IF IsBelow(f) THEN Lowered(f) ELSE clipped[f]]
  BY DEF ClipToTerrain
<1>2. /\ phase' \in {"interior", "statistics", "outside"}
      /\ phase' = "interior" => site.lod = 12
      /\ phase' = "statistics" => site.lod = 13
  BY DEF ClipToTerrain
<1>3. IsDivision(Faces, Cells)
  BY DEF IsArrangement
<1>4. DOMAIN new = DOMAIN clipped
      /\ \A p \in DOMAIN clipped : new[p] = IF IsBelow(p) THEN Lowered(p) ELSE clipped[p]
  BY <1>1
<1>5. \A f \in Faces : \A c \in f : class[f][c] = Below(f, c)
  OBVIOUS
<1>6. IsSplit(class, clipped)
  BY <1>3, SplitIsSplit
<1> HIDE DEF new, class, clipped
<1>7. IsDivision(DOMAIN new, Cells)
  BY <1>4, <1>6 DEF IsSplit
(* A part is below the ground as a whole or not at all. *)
<1>8. ASSUME NEW p \in DOMAIN clipped, NEW f \in Faces, f \cap p # {}
      PROVE  /\ p \subseteq f /\ clipped[p] = arrangement[f]
             /\ \A c \in p : IsBelow(p) <=> Below(f, c)
  <2>1. PICK g \in Faces : /\ p \subseteq g /\ clipped[p] = arrangement[g]
                           /\ \E c \in g : p \subseteq ClassOf(class, g, class[g][c])
    BY <1>6 DEF IsSplit
  <2>2. f = g
    BY <1>3, <1>8, <2>1, FacesOfDivision
  <2>3. \A c, d \in p : class[f][c] = class[f][d]
    BY <2>1, <2>2 DEF ClassOf
  <2>4. \A c, d \in p : Below(f, c) <=> Below(f, d)
    BY <1>5, <2>1, <2>2, <2>3
  <2>5. \A c \in p : FaceAt(c) = f
    BY <1>3, <2>1, <2>2, FacesOfDivision
  <2> QED
    BY <2>1, <2>2, <2>4, <2>5
<1>9. ASSUME NEW p \in DOMAIN clipped
       PROVE  /\ IsFaceInfo(new[p])
              /\ new[p].in_footprint <=> clipped[p].in_footprint /\ ~IsBelow(p)
              /\ new[p].is_footprint_hole => ~new[p].in_footprint
              /\ ~IsBelow(p) => new[p] = clipped[p]
  <2>1. PICK f \in Faces : clipped[p] = arrangement[f]
    BY <1>6 DEF IsSplit
  <2> DEFINE d == arrangement[f]
             h == ~TouchesBoundary(p)
  <2>2. IsFaceInfo(d) /\ (d.is_footprint_hole => ~d.in_footprint)
    BY DEF IsArrangement, InFootprint
  <2>3. new[p] = IF IsBelow(p) THEN [d EXCEPT !.in_footprint = FALSE, !.is_ground = TRUE, !.is_footprint_hole = h]
                 ELSE d
    BY <1>4, <2>1
  <2>4. h \in BOOLEAN
    OBVIOUS
  <2>5. clipped[p] = d
    BY <2>1
  <2> HIDE DEF d, h, IsBelow, Lowered, TouchesBoundary
  <2>6. CASE IsBelow(p)
    BY <2>2, <2>3, <2>4, <2>6 DEF IsFaceInfo, NewFace
  <2>7. CASE ~IsBelow(p)
    BY <2>2, <2>3, <2>5, <2>7
  <2> QED
    BY <2>6, <2>7
<1> HIDE DEF IsBelow, Lowered, TouchesBoundary
<1>10. IsArrangement'
  <2>1. ASSUME NEW p \in DOMAIN new, <<0, 0>> \in p
        PROVE  ~new[p].in_footprint /\ ~new[p].is_footprint_hole
    <3>1. Unbounded \in Faces /\ <<0, 0>> \in Unbounded
      BY <1>3, FacesOfDivision
    <3>2. /\ clipped[p] = arrangement[Unbounded]
          /\ IsBelow(p) <=> Below(Unbounded, <<0, 0>>)
      BY <1>4, <1>8, <2>1, <3>1
    <3>3. ~Below(Unbounded, <<0, 0>>)
      BY DEF Below, OnRoof, IsArrangement
    <3>4. new[p] = arrangement[Unbounded]
      BY <1>4, <1>9, <3>2, <3>3
    <3> QED
      BY <3>4 DEF IsArrangement, InFootprint
  <2>2. \A p \in DOMAIN new : IsFaceInfo(new[p]) /\ (new[p].is_footprint_hole => ~new[p].in_footprint)
    BY <1>4, <1>9
  <2> QED
    BY <1>7, <2>1, <2>2, NextArrangement DEF new
<1>11. ASSUME NEW p \in DOMAIN new, NEW f \in Faces, NEW c \in p, c \in f
       PROVE  /\ c \in Inside' <=> c \in Inside /\ ~Below(f, c)
              /\ new[p].in_footprint => InFootprint(f) /\ new[p] = arrangement[f]
  <2>1. clipped[p] = arrangement[f] /\ (IsBelow(p) <=> Below(f, c))
    BY <1>4, <1>8, <1>11
  <2>2. c \in Inside' <=> new[p].in_footprint
    BY <1>7, NextInside DEF new
  <2>3. c \in Inside <=> InFootprint(f)
    BY <1>3, <1>11, InsideFaces
  <2>4. /\ new[p].in_footprint <=> clipped[p].in_footprint /\ ~IsBelow(p)
        /\ ~IsBelow(p) => new[p] = clipped[p]
    BY <1>4, <1>9
  <2> QED
    BY <2>1, <2>2, <2>3, <2>4 DEF InFootprint
<1>12. \A c \in Cells : \E f \in Faces : c \in f
  BY <1>3, FacesOfDivision
<1>13. \A c \in Cells : \E p \in DOMAIN new : c \in p
  BY <1>7 DEF IsDivision
<1>14. IsClipped'
  <2> SUFFICES ASSUME site.roofs # <<>> PROVE IsClipped'
    BY <1>1 DEF IsClipped
  <2>1. /\ Inside = {c \in Footprint : OnARoof(c)}
        /\ \A f \in FootprintFaces : \A c \in f :
             arrangement[f].segid = label[c] /\ arrangement[f].plane = label[c]
    BY <1>1 DEF FacesFollowLabels
  <2>2. ASSUME NEW c \in Cells PROVE c \in Inside' <=> c \in Inside /\ AboveGround(c)
    <3>1. PICK f \in Faces : c \in f
      BY <1>12
    <3>2. PICK p \in DOMAIN new : c \in p
      BY <1>13
    <3>3. c \in Inside' <=> c \in Inside /\ ~Below(f, c)
      BY <1>11, <3>1, <3>2
    <3>4. ASSUME c \in Inside PROVE Below(f, c) <=> ~AboveGround(c)
      <4>1. f \in FootprintFaces /\ InFootprint(f)
        BY <1>3, <3>1, <3>4, InsideFaces DEF FootprintFaces
      <4>2. arrangement[f].segid = label[c] /\ arrangement[f].plane = label[c]
        BY <2>1, <3>1, <4>1
      <4>3. label[c] \in 1 .. Len(site.roofs) /\ c \in Footprint
        BY <2>1, <3>4 DEF OnARoof
      <4>4. label[c] \in 1 .. Len(Planes)
        BY <1>1, <4>3 DEF IsLabelled
      <4>5. HeightInCell(label[c], c) \in Int /\ site.ground \in Int
        BY <4>4, HeightsAreNumbers DEF Order
      <4>6. label[c] # 0
        BY <4>4
      <4>7. Below(f, c) <=> HeightInCell(label[c], c) < site.ground
        BY <4>1, <4>2, <4>6 DEF Below, OnRoof
      <4> QED
        BY <4>5, <4>7 DEF AboveGround
    <3> QED
      BY <3>3, <3>4
  <2>3. Inside' \subseteq Cells /\ Footprint \subseteq Cells
    BY <1>7, InsideIsOfCells, SitesAreRight DEF new, Faces, Order
  <2>4. Inside' = {c \in Footprint : OnARoof(c) /\ AboveGround(c)}
    BY <2>1, <2>2, <2>3
  <2>5. Inside' = {c \in Footprint' : OnARoof(c)' /\ AboveGround(c)'}
    BY <1>1, <2>4, SiteStays, LabelsStay
  <2>6. ASSUME NEW p \in DOMAIN new, new[p].in_footprint, NEW c \in p PROVE new[p].plane = label[c]
    <3>1. c \in Cells
      BY <1>7 DEF IsDivision
    <3>2. PICK f \in Faces : c \in f
      BY <1>12, <3>1
    <3>3. f \in FootprintFaces /\ new[p] = arrangement[f]
      BY <1>11, <2>6, <3>2 DEF FootprintFaces
    <3> QED
      BY <2>1, <3>2, <3>3
  <2>7. \A f \in FootprintFaces' : \A c \in f : new[f].plane = label'[c]
    BY <1>1, <2>6 DEF FootprintFaces, InFootprint, Faces, new
  <2> QED
    BY <2>5, <2>7 DEF IsClipped, new
<1>15. IsLabelled'
  BY <1>1, <1>2, SiteStays DEF IsLabelled
<1>16. Order'
  BY <1>1, <1>2 DEF Order
<1> QED
  BY <1>2, <1>10, <1>14, <1>15, <1>16 DEF HolesAreCut, FacesFollowLabels, OutsideIsDissolved, HolesAreMarked, Dissolved

(* What comes after the partition leaves it alone. *)
LEMMA PartitionEnds ==
  ASSUME PartitionInv, site' = site, label' = label, holes_inserted' = holes_inserted,
         arrangement' = arrangement,
         phase' \in {"floors", "repaired", "attach", "columns", "no planes", "walls", "roofs", "extruded"},
         phase \notin {"footprint", "holes", "optimise"},
         holes_inserted = Len(site.holes)
  PROVE  PartitionInv'
<1> USE DEF PartitionInv
<1>1. Faces' = Faces /\ Unbounded' = Unbounded
  BY DEF Faces, Unbounded
<1>2. IsArrangement'
  BY <1>1 DEF IsArrangement, InFootprint
<1>3. IsLabelled'
  BY SiteStays DEF IsLabelled
<1>4. Order'
  BY DEF Order
<1> QED
  BY <1>2, <1>3, <1>4 DEF HolesAreCut, FacesFollowLabels, IsClipped, OutsideIsDissolved, HolesAreMarked, Dissolved

LEMMA PartitionStarts ==
  ASSUME ExtruderInit PROVE PartitionInv
<1>1. /\ site \in Sites /\ phase = "footprint" /\ holes_inserted = 0
      /\ arrangement = [f \in {Cells} |-> NewFace]
  BY DEF ExtruderInit, PartitionInit
<1>2. Faces = {Cells} /\ arrangement[Cells] = NewFace
  BY <1>1 DEF Faces
<1>3. IsDivision(Faces, Cells)
  BY <1>2, CellsAreFinite DEF IsDivision
<1>4. Unbounded = Cells
  BY <1>2, <1>3, FacesOfDivision
<1>5. IsArrangement
  <2>1. /\ IsFaceInfo(NewFace)
        /\ NewFace.in_footprint = FALSE /\ NewFace.is_footprint_hole = FALSE
    BY DEF IsFaceInfo, NewFace
  <2>2. \A f \in Faces : arrangement[f] = NewFace
    BY <1>2
  <2>3. Unbounded \in Faces
    BY <1>2, <1>4
  <2>4. \A f \in Faces : IsFaceInfo(arrangement[f]) /\ ~InFootprint(f) /\ ~arrangement[f].is_footprint_hole
    BY <2>1, <2>2 DEF InFootprint
  <2> QED
    BY <1>3, <2>3, <2>4 DEF IsArrangement
<1>6. Order
  <2>1. Len(site.holes) \in Nat
    BY <1>1, SitesAreRight
  <2> QED
    BY <1>1, <2>1 DEF Order
<1> QED
  BY <1>1, <1>5, <1>6 DEF PartitionInv, HolesAreCut, IsLabelled, FacesFollowLabels, IsClipped, OutsideIsDissolved,
                          HolesAreMarked, Dissolved

LEMMA PartitionSteps ==
  ASSUME PartitionInv, [ExtruderNext]_allvars PROVE PartitionInv'
<1>1. CASE UNCHANGED allvars
  <2>1. UNCHANGED <<site, phase, holes_inserted, arrangement, label>>
    BY <1>1 DEF allvars, partition
  <2>2. Faces' = Faces /\ Unbounded' = Unbounded /\ FootprintFaces' = FootprintFaces /\ Inside' = Inside
    BY <2>1 DEF Faces, Unbounded, FootprintFaces, InFootprint, Inside
  <2>3. IsArrangement' /\ HolesAreMarked' /\ OutsideIsDissolved'
    BY <2>1, <2>2 DEF PartitionInv, IsArrangement, HolesAreMarked, OutsideIsDissolved, InFootprint, Dissolved, Touch
  <2>4. Order' /\ HolesAreCut' /\ IsLabelled'
    BY <2>1, <2>2, SiteStays DEF PartitionInv, Order, HolesAreCut, IsLabelled
  <2>5. FacesFollowLabels' /\ IsClipped'
    BY <2>1, <2>2, SiteStays, LabelsStay DEF PartitionInv, FacesFollowLabels, IsClipped
  <2> QED
    BY <2>3, <2>4, <2>5 DEF PartitionInv
<1>2. CASE PartitionNext
  BY <1>2, FootprintIsInserted, HoleIsInserted, LinesAreInserted, FacesAreLabelled, NothingIsOptimised,
     SegmentsAreDissolved, TerrainIsClipped, InteriorIsDissolved, ElevationsAreComputed, StepIsMerged,
     StepsEnd, OutsideIsMerged, PartIsLabelled, DissolverIsFinished DEF PartitionNext
<1>3. CASE Snap \/ MakeFloors \/ AttachHoles \/ ColumnHeights \/ MakeWalls \/ MakeRoofs
  <2>1. /\ site' = site /\ label' = label /\ holes_inserted' = holes_inserted /\ arrangement' = arrangement
        /\ phase' \in {"floors", "repaired", "attach", "columns", "no planes", "walls", "roofs", "extruded"}
        /\ phase \notin {"footprint", "holes", "optimise"}
    BY <1>3 DEF Snap, MakeFloors, AttachHoles, ColumnHeights, MakeWalls, MakeRoofs
  <2>2. holes_inserted = Len(site.holes)
    BY <2>1 DEF PartitionInv, Order
  <2> QED
    BY <2>1, <2>2, PartitionEnds
<1>4. CASE Ended
  BY <1>1, <1>4 DEF Ended
<1> QED
  BY <1>1, <1>2, <1>3, <1>4 DEF ExtruderNext

(* The invariant of the partition. *)
THEOREM PartitionIsRight == ExtruderSpec => []PartitionInv
<1>1. ExtruderInit => PartitionInv
  BY PartitionStarts
<1>2. PartitionInv /\ [ExtruderNext]_allvars => PartitionInv'
  BY PartitionSteps
<1> QED
  BY <1>1, <1>2, PTL DEF ExtruderSpec

(* Once the dissolver has ended, the faces that the extruder takes for     *)
(* holes are all those that are neither a roof nor unbounded.              *)
THEOREM HolesAreKnown == ExtruderSpec => []HolesAreMarked
<1>1. PartitionInv => HolesAreMarked
  BY DEF PartitionInv
<1> QED
  BY <1>1, PartitionIsRight, PTL

(* Whatever was inserted, split and merged, the roofs are those cells of   *)
(* the footprint that the graph cut gave to a roof above the ground, on    *)
(* the plane it gave to them in LoD2.2.                                    *)
THEOREM RoofsAreTheFootprint == ExtruderSpec => []FootprintIsKept
<1>1. ASSUME PartitionInv PROVE FootprintIsKept
  <2> SUFFICES ASSUME Dissolved, site.roofs # <<>> PROVE FootprintIsKept
    BY DEF FootprintIsKept
  <2> DEFINE holes == UNION {site.holes[k] : k \in {l \in DOMAIN site.holes : ProperHole(l)}}
  <2>1. phase = "dissolved"
    BY DEF Dissolved
  <2>2. Footprint = site.outer \ holes
    BY <1>1, SitesAreRight DEF PartitionInv, Order, Footprint, Kept
  <2>3. \A c \in Footprint : label[c] # 0
    BY <1>1, <2>1, SitesAreRight DEF PartitionInv, IsLabelled, Order
  <2>4. /\ UNION FootprintFaces = {c \in Footprint : OnARoof(c) /\ AboveGround(c)}
        /\ site.lod = 22 => \A f \in FootprintFaces : \A c \in f : arrangement[f].plane = label[c]
    BY <1>1, <2>1 DEF PartitionInv, IsClipped, Inside
  <2> QED
    BY <2>2, <2>3, <2>4 DEF FootprintIsKept, OnARoof, AboveGround
<1>2. PartitionInv => FootprintIsKept
  BY <1>1
<1> QED
  BY <1>2, PartitionIsRight, PTL

-----------------------------------------------------------------------------
(* The levels of LoD1.3.                                                   *)

(* Sums over the subsets of a finite set, in the order that CHOOSE takes    *)
(* the elements.                                                           *)
AnyOf(T) == CHOOSE x \in T : TRUE
IsTotal(v, S, g) ==
  g = [T \in SUBSET S |-> IF T = {} THEN 0 ELSE v[AnyOf(T)] + g[T \ {AnyOf(T)}]]

LEMMA TotalsAgree ==
  ASSUME NEW v, NEW S, IsFiniteSet(S), NEW R, NEW g, IsTotal(v, S, g), NEW h, IsTotal(v, R, h),
         NEW T, T \subseteq S, T \subseteq R
  PROVE  g[T] = h[T]
<1> DEFINE C == {U \in SUBSET T : g[U] # h[U]}
<1>1. /\ \A U \in SUBSET S : g[U] = IF U = {} THEN 0 ELSE v[AnyOf(U)] + g[U \ {AnyOf(U)}]
      /\ \A U \in SUBSET R : h[U] = IF U = {} THEN 0 ELSE v[AnyOf(U)] + h[U \ {AnyOf(U)}]
  BY Zenon DEF IsTotal
<1>2. CASE C = {}
  <2>1. T \notin C /\ T \in SUBSET T
    BY <1>2
  <2> QED
    BY <2>1
<1>3. CASE C # {}
  <2>1. IsFiniteSet(T) /\ C \subseteq SUBSET T
    BY FS_Subset
  <2>2. PICK A \in C : \A B \in C : B \subseteq A => B = A
    <3> HIDE DEF C
    <3> QED
      BY <1>3, <2>1, MinimalSubset
  <2>3. A # {}
    BY <1>1, <2>2
  <2> DEFINE x == AnyOf(A)
  <2>4. x \in A
    BY <2>3 DEF AnyOf
  <2>5. A \ {x} \notin C /\ A \ {x} \in SUBSET T
    BY <2>2, <2>4
  <2>6. g[A \ {x}] = h[A \ {x}]
    BY <2>5
  <2>7. A \in SUBSET S /\ A \in SUBSET R
    BY <2>2
  <2>8. g[A] = v[x] + g[A \ {x}] /\ h[A] = v[x] + h[A \ {x}]
    BY <1>1, <2>3, <2>7
  <2>9. g[A] # h[A]
    BY <2>2
  <2> QED
    BY <2>6, <2>8, <2>9
<1> QED
  BY <1>2, <1>3

LEMMA TotalExists ==
  ASSUME NEW v, NEW S, IsFiniteSet(S)
  PROVE  \E g : IsTotal(v, S, g)
<1> DEFINE C == {A \in SUBSET S : ~ \E g : IsTotal(v, A, g)}
<1>1. CASE C = {}
  <2>1. S \notin C /\ S \in SUBSET S
    BY <1>1
  <2> QED
    BY <2>1
<1>2. CASE C # {}
  <2>1. PICK A \in C : \A B \in C : B \subseteq A => B = A
    <3>1. C \subseteq SUBSET S
      OBVIOUS
    <3> HIDE DEF C
    <3> QED
      BY <1>2, <3>1, MinimalSubset
  <2> DEFINE G(B) == CHOOSE g : IsTotal(v, B, g)
             Value(B) == IF B = {} THEN 0 ELSE v[AnyOf(B)] + G(B \ {AnyOf(B)})[B \ {AnyOf(B)}]
             g == [B \in SUBSET A |-> Value(B)]
  <2>2. ASSUME NEW B \in SUBSET A, B # A PROVE IsTotal(v, B, G(B))
    <3>1. \E h : IsTotal(v, B, h)
      BY <2>1, <2>2
    <3> QED
      BY <3>1
  <2>3. A \subseteq S
    BY <2>1
  <2>4. \A B \in SUBSET A : B # {} => AnyOf(B) \in B
    BY DEF AnyOf
  <2>5. ASSUME NEW B \in SUBSET A, B # A PROVE G(B)[B] = Value(B)
    <3> DEFINE h == G(B)
    <3>1. IsTotal(v, B, h)
      BY <2>2, <2>5
    <3>2. h[B] = IF B = {} THEN 0 ELSE v[AnyOf(B)] + h[B \ {AnyOf(B)}]
      <4> HIDE DEF h
      <4>1. B \in SUBSET B
        OBVIOUS
      <4> QED
        BY <3>1, <4>1, Zenon DEF IsTotal
    <3>3. CASE B # {}
      <4> DEFINE D == B \ {AnyOf(B)}
      <4>1. AnyOf(B) \in B
        BY <3>3, <2>4
      <4>2. D \in SUBSET A /\ D # A /\ D \subseteq B
        BY <4>1
      <4>3. IsTotal(v, D, G(D))
        BY <2>2, <4>2
      <4>4. IsFiniteSet(B)
        BY <2>3, FS_Subset
      <4> HIDE DEF h, D, G
      <4>5. h[D] = G(D)[D]
        BY <3>1, <4>2, <4>3, <4>4, TotalsAgree
      <4> QED
        BY <3>2, <3>3, <4>5 DEF D, h
    <3>4. CASE B = {}
      BY <3>2, <3>4
    <3> QED
      BY <3>3, <3>4
  <2>6. ASSUME NEW B \in SUBSET A
        PROVE  g[B] = IF B = {} THEN 0 ELSE v[AnyOf(B)] + g[B \ {AnyOf(B)}]
    <3> DEFINE D == B \ {AnyOf(B)}
    <3>1. CASE B # {}
      <4>1. AnyOf(B) \in B
        BY <3>1, <2>4
      <4>2. D \in SUBSET A /\ D # A
        BY <4>1
      <4>3. G(D)[D] = Value(D)
        BY <2>5, <4>2
      <4>4. g[D] = Value(D) /\ g[B] = Value(B)
        BY <4>2
      <4>5. Value(B) = v[AnyOf(B)] + G(D)[D]
        BY <3>1
      <4> QED
        BY <3>1, <4>3, <4>4, <4>5
    <3>2. CASE B = {}
      BY <3>2
    <3> QED
      BY <3>1, <3>2
  <2>7. IsTotal(v, A, g)
    <3>1. g = [B \in SUBSET A |-> g[B]]
      OBVIOUS
    <3> HIDE DEF g
    <3>2. g = [B \in SUBSET A |-> IF B = {} THEN 0 ELSE v[AnyOf(B)] + g[B \ {AnyOf(B)}]]
      BY <2>6, <3>1
    <3> QED
      BY <3>2 DEF IsTotal
  <2> QED
    BY <2>1, <2>7
<1> QED
  BY <1>1, <1>2

(* In any order. *)
LEMMA TotalOfAny ==
  ASSUME NEW v, NEW S, IsFiniteSet(S), NEW g, IsTotal(v, S, g), \A x \in S : v[x] \in Int,
         NEW T, T \subseteq S
  PROVE  g[T] \in Int /\ \A y \in T : g[T] = v[y] + g[T \ {y}]
<1> DEFINE Fine(U) == g[U] \in Int /\ \A y \in U : g[U] = v[y] + g[U \ {y}]
           C == {U \in SUBSET S : ~Fine(U)}
<1>1. \A U \in SUBSET S : g[U] = IF U = {} THEN 0 ELSE v[AnyOf(U)] + g[U \ {AnyOf(U)}]
  BY Zenon DEF IsTotal
<1>2. CASE C = {}
  BY <1>2
<1>3. CASE C # {}
  <2>1. PICK A \in C : \A B \in C : B \subseteq A => B = A
    <3>1. C \subseteq SUBSET S
      OBVIOUS
    <3> HIDE DEF C
    <3> QED
      BY <1>3, <3>1, MinimalSubset
  <2>2. A \in SUBSET S /\ ~Fine(A)
    BY <2>1
  <2>3. \A B \in SUBSET A : B # A => Fine(B)
    BY <2>1
  <2>4. A # {}
    <3> SUFFICES ASSUME A = {} PROVE FALSE
      OBVIOUS
    <3>1. g[A] = 0
      BY <1>1, <2>2
    <3> QED
      BY <2>2, <3>1
  <2> DEFINE x == AnyOf(A)
             r == g[A \ {x}]
  <2>5. x \in A /\ v[x] \in Int
    BY <2>2, <2>4 DEF AnyOf
  <2>6. g[A] = v[x] + r
    BY <1>1, <2>2, <2>4
  <2>7. A \ {x} \in SUBSET A /\ A \ {x} # A
    BY <2>5
  <2>8. Fine(A \ {x})
    BY <2>3, <2>7
  <2>9. r \in Int
    BY <2>8
  <2> HIDE DEF x, r
  <2>10. ASSUME NEW y \in A PROVE g[A] = v[y] + g[A \ {y}]
    <3>1. CASE y = x
      BY <2>6, <3>1 DEF r
    <3>2. CASE y # x
      <4> DEFINE B == A \ {x, y}
      <4>1. y \in A \ {x} /\ (A \ {x}) \ {y} = B
        BY <3>2
      <4>2. r = v[y] + g[B]
        BY <2>8, <4>1 DEF r
      <4>3. A \ {y} \in SUBSET A /\ A \ {y} # A
        OBVIOUS
      <4>4. x \in A \ {y} /\ (A \ {y}) \ {x} = B
        BY <2>5, <3>2
      <4>5. Fine(A \ {y})
        BY <2>3, <4>3
      <4>6. g[A \ {y}] = v[x] + g[B]
        BY <4>4, <4>5
      <4>7. B \in SUBSET A /\ B # A
        BY <4>1
      <4>8. g[B] \in Int
        BY <2>3, <4>7
      <4>9. v[y] \in Int
        BY <2>2
      <4> HIDE DEF B, Fine
      <4> QED
        BY <2>5, <2>6, <4>2, <4>6, <4>8, <4>9
    <3> QED
      BY <3>1, <3>2
  <2>11. g[A] \in Int
    BY <2>5, <2>6, <2>9
  <2> QED
    BY <2>2, <2>10, <2>11
<1> QED
  BY <1>2, <1>3

LEMMA TotalOfTwo ==
  ASSUME NEW v, NEW S, IsFiniteSet(S), NEW g, IsTotal(v, S, g), \A x \in S : v[x] \in Int,
         NEW T, T \subseteq S, NEW U, U \subseteq S, T \cap U = {}
  PROVE  g[T \cup U] = g[T] + g[U]
<1> DEFINE C == {A \in SUBSET T : g[A \cup U] # g[A] + g[U]}
<1>1. \A A \in SUBSET S : g[A] \in Int /\ \A y \in A : g[A] = v[y] + g[A \ {y}]
  BY TotalOfAny
<1>2. CASE C = {}
  <2>1. T \notin C /\ T \in SUBSET T
    BY <1>2
  <2> QED
    BY <2>1
<1>3. CASE C # {}
  <2>1. PICK A \in C : \A B \in C : B \subseteq A => B = A
    <3>1. C \subseteq SUBSET T /\ IsFiniteSet(T)
      BY FS_Subset
    <3> HIDE DEF C
    <3> QED
      BY <1>3, <3>1, MinimalSubset
  <2>2. A \subseteq T /\ g[A \cup U] # g[A] + g[U]
    BY <2>1
  <2>3. A # {}
    <3>1. g[{}] = 0
      <4>1. {} \in SUBSET S
        OBVIOUS
      <4> QED
        BY <4>1, Zenon DEF IsTotal
    <3>2. {} \cup U = U /\ g[U] \in Int
      BY <1>1
    <3>3. g[{} \cup U] = g[{}] + g[U]
      BY <3>1, <3>2
    <3> HIDE DEF C
    <3> QED
      BY <2>2, <3>3
  <2>4. PICK y \in A : TRUE
    BY <2>3
  <2> DEFINE B == A \ {y}
  <2>5. B \notin C /\ B \subseteq T
    BY <2>1, <2>4
  <2>6. g[B \cup U] = g[B] + g[U]
    BY <2>5
  <2>7. g[A] = v[y] + g[B]
    BY <1>1, <2>2, <2>4
  <2>8. y \in A \cup U /\ (A \cup U) \ {y} = B \cup U
    BY <2>2, <2>4
  <2>9. g[A \cup U] = v[y] + g[B \cup U]
    BY <1>1, <2>2, <2>8
  <2>10. v[y] \in Int /\ g[B] \in Int /\ g[U] \in Int
    BY <1>1, <2>2, <2>4
  <2> HIDE DEF B, C
  <2> QED
    BY <2>2, <2>6, <2>7, <2>9, <2>10
<1> QED
  BY <1>2, <1>3

-----------------------------------------------------------------------------
(* The level of a face as LevelsAreApart has it, for a site and labels.     *)
HeightFrom(st, plane, c) ==
  (st.roofs \o st.grounds)[plane].a * (2 * c[1] - 1) + (st.roofs \o st.grounds)[plane].b * (2 * c[2] - 1)
    + (st.roofs \o st.grounds)[plane].d
FilledFrom(st, lb, s) ==
  [c \in s \cap DOMAIN st.pixel |->
     IF st.pixel[c] = NoData THEN HeightFrom(st, lb[c], c) ELSE st.pixel[c]]
SumFrom(st, lb, s) ==
  IF DOMAIN FilledFrom(st, lb, s) = {} THEN 0
  ELSE Ranked(FilledFrom(st, lb, s), 5) * Cardinality(DOMAIN FilledFrom(st, lb, s))
SegmentsFrom(lb, f) == UNION {Components(Beside, {c \in f : lb[c] = l}) : l \in {lb[c] : c \in f}}
TotalFrom(st, lb, S) == MapThenSumSet(LAMBDA s : SumFrom(st, lb, s), S)
LevelFrom(st, lb, f) ==
  [elevation_sum |-> TotalFrom(st, lb, SegmentsFrom(lb, f)),
   pixel_count |-> Cardinality(f \cap DOMAIN st.pixel)]

LEMMA LevelsAreLevels ==
  LevelsAreApart <=>
    (Dissolved /\ site.lod = 13 /\ site.roofs # <<>> =>
       \A f, g \in FootprintFaces : Touch(f, g) => ~IsSmallStep(LevelFrom(site, label, f), LevelFrom(site, label, g)))
BY DEF LevelsAreApart, LevelFrom, TotalFrom, SegmentsFrom, Segments, SumFrom, FilledFrom, HeightFrom,
       HeightInCell, HeightOn, Planes, MapThenSumSet, MapThenFoldSet

LEMMA SumIsTotal ==
  ASSUME NEW st, NEW lb, NEW S, IsFiniteSet(S), NEW v, \A x \in S : v[x] = SumFrom(st, lb, x)
  PROVE  \E g : IsTotal(v, S, g) /\ TotalFrom(st, lb, S) = g[S]
<1> DEFINE Next0(g) == [T \in SUBSET S |->
                         IF T = {} THEN 0
                         ELSE SumFrom(st, lb, CHOOSE x \in T : TRUE) + g[T \ {CHOOSE x \in T : TRUE}]]
           iter == CHOOSE g : g = Next0(g)
<1>1. TotalFrom(st, lb, S) = iter[S]
  BY DEF TotalFrom, MapThenSumSet, MapThenFoldSet
<1>2. \A T \in SUBSET S : T # {} => v[AnyOf(T)] = SumFrom(st, lb, AnyOf(T))
  <2> TAKE T \in SUBSET S
  <2>1. T # {} => AnyOf(T) \in S
    BY DEF AnyOf
  <2> QED
    BY <2>1
<1>3. ASSUME NEW g PROVE IsTotal(v, S, g) <=> g = Next0(g)
  <2>1. Next0(g) = [T \in SUBSET S |-> IF T = {} THEN 0 ELSE v[AnyOf(T)] + g[T \ {AnyOf(T)}]]
    BY <1>2 DEF AnyOf
  <2> QED
    BY <2>1 DEF IsTotal
<1>4. \E g : g = Next0(g)
  <2>1. PICK g : IsTotal(v, S, g)
    BY TotalExists
  <2>2. g = Next0(g)
    BY <1>3, <2>1
  <2> HIDE DEF Next0
  <2> QED
    BY <2>2
<1>5. iter = Next0(iter)
  <2> HIDE DEF Next0
  <2> QED
    BY <1>4
<1>6. IsTotal(v, S, iter)
  <2> HIDE DEF iter
  <2> QED
    BY <1>3, <1>5
<1> QED
  BY <1>1, <1>6

LEMMA HighestOfAll ==
  ASSUME NEW D, IsFiniteSet(D), D # {}, NEW w, \A x \in D : w[x] \in Int
  PROVE  \E y \in D : \A x \in D : w[x] <= w[y]
<1> DEFINE Higher(y) == {x \in D : w[y] <= w[x]}
           C == {Higher(y) : y \in D}
<1>1. C \subseteq SUBSET D /\ C # {}
  OBVIOUS
<1>2. PICK A \in C : \A B \in C : B \subseteq A => B = A
  <2> HIDE DEF C
  <2> QED
    BY <1>1, MinimalSubset
<1>3. PICK y \in D : A = Higher(y)
  OBVIOUS
<1>4. ASSUME NEW x \in D, ~ (w[x] <= w[y]) PROVE FALSE
  <2>1. Higher(x) \in C
    OBVIOUS
  <2>2. Higher(x) \subseteq A
    BY <1>3, <1>4
  <2>3. y \in A /\ y \notin Higher(x)
    BY <1>3, <1>4
  <2> QED
    BY <1>2, <2>1, <2>2, <2>3
<1> QED
  BY <1>4

LEMMA MinIsANumber ==
  ASSUME NEW V, IsFiniteSet(V), V # {}, V \subseteq Int
  PROVE  Min(V) \in V
<1> DEFINE w == [x \in V |-> 0 - x]
<1>1. \A x \in V : w[x] \in Int
  OBVIOUS
<1>2. PICK y \in V : \A x \in V : w[x] <= w[y]
  <2> HIDE DEF w
  <2> QED
    BY <1>1, HighestOfAll
<1>3. \A x \in V : y <= x
  BY <1>2
<1> QED
  BY <1>3 DEF Min

LEMMA RankedIsANumber ==
  ASSUME NEW w, IsFiniteSet(DOMAIN w), DOMAIN w # {}, \A x \in DOMAIN w : w[x] \in Int
  PROVE  Ranked(w, 5) \in Int
<1> DEFINE D == DOMAIN w
           n == Cardinality(D)
           AtMost(u) == Cardinality({x \in D : w[x] <= u})
           V == {w[x] : x \in {y \in D : AtMost(w[y]) > (5 * (n - 1)) \div 10}}
<1>1. Ranked(w, 5) = Min(V)
  BY DEF Ranked
<1>2. PICK y \in D : \A x \in D : w[x] <= w[y]
  BY HighestOfAll
<1>3. AtMost(w[y]) = n
  <2>1. {x \in D : w[x] <= w[y]} = D
    BY <1>2
  <2> QED
    BY <2>1
<1>4. n \in Nat /\ n # 0
  BY FS_CardinalityType, FS_EmptySet
<1>5. n > (5 * (n - 1)) \div 10
  <2> HIDE DEF n
  <2> QED
    BY <1>4
<1>6. w[y] \in V
  <2> HIDE DEF AtMost, n
  <2> QED
    BY <1>3, <1>5
<1>7. V \subseteq {w[x] : x \in D}
  OBVIOUS
<1>8. IsFiniteSet({w[x] : x \in D})
  <2> DEFINE h == [x \in D |-> w[x]]
  <2>1. h \in Surjection(D, {w[x] : x \in D})
    BY DEF Surjection
  <2> HIDE DEF h
  <2> QED
    BY <2>1, FS_Surjection
<1>9. V \subseteq Int
  OBVIOUS
<1>10. IsFiniteSet(V)
  BY <1>7, <1>8, FS_Subset
<1>11. V # {}
  BY <1>6
<1> HIDE DEF V
<1>12. Min(V) \in V
  BY <1>9, <1>10, <1>11, MinIsANumber
<1> QED
  BY <1>1, <1>9, <1>12

(* The segment around a cell. *)
OfLabel(lb, f, c) == {d \in f : lb[d] = lb[c]}
SegmentAt(lb, f, c) == Flood(Beside, OfLabel(lb, f, c), {c})

LEMMA ComponentsOfCells ==
  ASSUME NEW T, T \subseteq Cells
  PROVE  /\ IsFiniteSet(T) /\ IsSymmetric(Beside, T)
         /\ Components(Beside, T) = {Flood(Beside, T, {c}) : c \in T}
<1>1. IsFiniteSet(T) /\ IsSymmetric(Beside, T)
  BY CellsAreFinite, FS_Subset, BesideIsMutual DEF IsSymmetric
<1> DEFINE C == Components(Beside, T)
<1>2. C \subseteq Floods(Beside, T)
  BY <1>1, ComponentsAreFloods
<1>3. /\ IsDivision(C, T)
      /\ \A p \in C : /\ p \subseteq T /\ IsClosedUnder(Beside, T, p)
                      /\ \A S : IsClosedUnder(Beside, T, S) /\ p \cap S # {} => p \subseteq S
  BY <1>1, ComponentsAreClosed
<1> HIDE DEF C
<1>4. ASSUME NEW c \in T PROVE Flood(Beside, T, {c}) \in C
  <2> DEFINE q == Flood(Beside, T, {c})
  <2>1. {c} \subseteq T
    OBVIOUS
  <2>2. {c} \subseteq q /\ IsClosedUnder(Beside, T, q)
    BY <1>1, <2>1, FloodIsClosed
  <2>3. PICK p \in C : c \in p
    BY <1>3 DEF IsDivision
  <2>4. q \subseteq p
    BY <1>1, <1>3, <2>1, <2>3, FloodIsLeast
  <2> HIDE DEF q
  <2>5. p \subseteq q
    BY <1>3, <2>2, <2>3
  <2>6. p = q
    BY <2>4, <2>5
  <2> QED
    BY <2>3, <2>6 DEF q
<1>5. C = {Flood(Beside, T, {c}) : c \in T}
  BY <1>2, <1>4 DEF Floods
<1> QED
  BY <1>1, <1>5 DEF C

LEMMA SegmentsAreAround ==
  ASSUME NEW lb, NEW f, f \subseteq Cells
  PROVE  /\ SegmentsFrom(lb, f) = {SegmentAt(lb, f, c) : c \in f}
         /\ \A c \in f : c \in SegmentAt(lb, f, c) /\ SegmentAt(lb, f, c) \subseteq f
         /\ IsFiniteSet(SegmentsFrom(lb, f))
<1> DEFINE Ofl(l) == {c \in f : lb[c] = l}
<1>1. \A l : Components(Beside, Ofl(l)) = {Flood(Beside, Ofl(l), {c}) : c \in Ofl(l)}
  <2> TAKE l
  <2>1. Ofl(l) \subseteq Cells
    OBVIOUS
  <2> HIDE DEF Ofl
  <2> QED
    BY <2>1, ComponentsOfCells
<1>2. \A c \in f : OfLabel(lb, f, c) = Ofl(lb[c])
  BY DEF OfLabel
<1>3. SegmentsFrom(lb, f) = {SegmentAt(lb, f, c) : c \in f}
  <2>1. SegmentsFrom(lb, f) = UNION {Components(Beside, Ofl(l)) : l \in {lb[c] : c \in f}}
    BY DEF SegmentsFrom
  <2>2. ASSUME NEW c \in f PROVE SegmentAt(lb, f, c) \in SegmentsFrom(lb, f)
    <3>1. SegmentAt(lb, f, c) \in Components(Beside, Ofl(lb[c]))
      <4>1. c \in Ofl(lb[c])
        OBVIOUS
      <4>2. SegmentAt(lb, f, c) = Flood(Beside, Ofl(lb[c]), {c})
        BY <1>2 DEF SegmentAt
      <4> HIDE DEF Ofl
      <4> QED
        BY <1>1, <4>1, <4>2
    <3> HIDE DEF Ofl
    <3> QED
      BY <2>1, <3>1
  <2>3. ASSUME NEW s \in SegmentsFrom(lb, f) PROVE \E c \in f : s = SegmentAt(lb, f, c)
    <3>1. PICK l : s \in Components(Beside, Ofl(l))
      <4> HIDE DEF Ofl
      <4> QED
        BY <2>1, <2>3
    <3>2. PICK c \in Ofl(l) : s = Flood(Beside, Ofl(l), {c})
      <4> HIDE DEF Ofl
      <4> QED
        BY <1>1, <3>1
    <3>3. c \in f /\ l = lb[c]
      OBVIOUS
    <3>4. s = SegmentAt(lb, f, c)
      <4>1. OfLabel(lb, f, c) = Ofl(l)
        BY <3>3 DEF OfLabel
      <4> QED
        BY <3>2, <4>1 DEF SegmentAt
    <3> QED
      BY <3>3, <3>4
  <2> HIDE DEF Ofl
  <2> QED
    BY <2>2, <2>3
<1>4. ASSUME NEW c \in f PROVE c \in SegmentAt(lb, f, c) /\ SegmentAt(lb, f, c) \subseteq f
  <2> DEFINE T == OfLabel(lb, f, c)
  <2>1. T \subseteq f /\ {c} \subseteq T
    BY DEF OfLabel
  <2>2. IsFiniteSet(T)
    BY <2>1, CellsAreFinite, FS_Subset
  <2> HIDE DEF T
  <2>3. {c} \subseteq Flood(Beside, T, {c}) /\ Flood(Beside, T, {c}) \subseteq T
    BY <2>1, <2>2, FloodIsClosed
  <2> QED
    BY <2>1, <2>3 DEF SegmentAt, T
<1>5. SegmentsFrom(lb, f) \subseteq SUBSET f
  BY <1>3, <1>4
<1>6. IsFiniteSet(SUBSET f)
  BY CellsAreFinite, FS_Subset, FS_SUBSET
<1> QED
  BY <1>3, <1>4, <1>5, <1>6, FS_Subset

AreApart(lb, f, g) == \A c \in f : \A d \in g : d \in Beside[c] => lb[c] # lb[d]

LEMMA SegmentStays ==
  ASSUME NEW lb, NEW f, f \subseteq Cells, NEW g, g \subseteq Cells, AreApart(lb, f, g), NEW c \in f
  PROVE  SegmentAt(lb, f \cup g, c) = SegmentAt(lb, f, c)
<1> DEFINE A == OfLabel(lb, f, c)
           B == OfLabel(lb, f \cup g, c)
           a == Flood(Beside, A, {c})
           b == Flood(Beside, B, {c})
<1>1. A \subseteq B /\ {c} \subseteq A /\ {c} \subseteq B /\ B \subseteq Cells
  BY DEF OfLabel
<1>2. IsFiniteSet(A) /\ IsFiniteSet(B)
  BY <1>1, CellsAreFinite, FS_Subset
<1>3. ASSUME NEW x \in A, NEW y \in B, y \in Beside[x] PROVE y \in A
  BY <1>3 DEF AreApart, OfLabel
<1> HIDE DEF A, B
<1>4. {c} \subseteq a /\ a \subseteq A /\ IsClosedUnder(Beside, A, a)
  BY <1>1, <1>2, FloodIsClosed
<1>5. {c} \subseteq b /\ b \subseteq B /\ IsClosedUnder(Beside, B, b)
  BY <1>1, <1>2, FloodIsClosed
<1> HIDE DEF a, b
<1>6. IsClosedUnder(Beside, B, a)
  BY <1>3, <1>4 DEF IsClosedUnder
<1>7. IsClosedUnder(Beside, A, b)
  BY <1>1, <1>5 DEF IsClosedUnder
<1>8. b \subseteq a
  BY <1>1, <1>2, <1>4, <1>6, FloodIsLeast DEF b
<1>9. a \subseteq b
  BY <1>1, <1>2, <1>5, <1>7, FloodIsLeast DEF a
<1> QED
  BY <1>8, <1>9 DEF SegmentAt, a, b, A, B

LEMMA SegmentsOfTwo ==
  ASSUME NEW lb, NEW f, f \subseteq Cells, NEW g, g \subseteq Cells, f \cap g = {}, AreApart(lb, f, g)
  PROVE  /\ SegmentsFrom(lb, f \cup g) = SegmentsFrom(lb, f) \cup SegmentsFrom(lb, g)
         /\ SegmentsFrom(lb, f) \cap SegmentsFrom(lb, g) = {}
<1>1. AreApart(lb, g, f)
  <2> SUFFICES ASSUME NEW c \in g, NEW d \in f, d \in Beside[c] PROVE lb[c] # lb[d]
    BY DEF AreApart
  <2>1. c \in Beside[d]
    BY BesideIsMutual
  <2> QED
    BY <2>1 DEF AreApart
<1>2. \A c \in f : SegmentAt(lb, f \cup g, c) = SegmentAt(lb, f, c)
  BY SegmentStays
<1>3. \A c \in g : SegmentAt(lb, f \cup g, c) = SegmentAt(lb, g, c)
  <2>1. f \cup g = g \cup f
    OBVIOUS
  <2> QED
    BY <1>1, <2>1, SegmentStays
<1>4. /\ SegmentsFrom(lb, f) = {SegmentAt(lb, f, c) : c \in f}
      /\ \A c \in f : c \in SegmentAt(lb, f, c) /\ SegmentAt(lb, f, c) \subseteq f
  BY SegmentsAreAround
<1>5. /\ SegmentsFrom(lb, g) = {SegmentAt(lb, g, c) : c \in g}
      /\ \A c \in g : c \in SegmentAt(lb, g, c) /\ SegmentAt(lb, g, c) \subseteq g
  BY SegmentsAreAround
<1>6. f \cup g \subseteq Cells
  OBVIOUS
<1>7. SegmentsFrom(lb, f \cup g) = {SegmentAt(lb, f \cup g, c) : c \in f \cup g}
  <2> DEFINE h == f \cup g
  <2>1. h \subseteq Cells
    BY <1>6
  <2> HIDE DEF h
  <2>2. SegmentsFrom(lb, h) = {SegmentAt(lb, h, c) : c \in h}
    BY <2>1, SegmentsAreAround
  <2> QED
    BY <2>2 DEF h
<1>8. SegmentsFrom(lb, f \cup g) = SegmentsFrom(lb, f) \cup SegmentsFrom(lb, g)
  <2>1. {SegmentAt(lb, f \cup g, c) : c \in f} = SegmentsFrom(lb, f)
    BY <1>2, <1>4
  <2>2. {SegmentAt(lb, f \cup g, c) : c \in g} = SegmentsFrom(lb, g)
    BY <1>3, <1>5
  <2> QED
    BY <1>7, <2>1, <2>2
<1>9. SegmentsFrom(lb, f) \cap SegmentsFrom(lb, g) = {}
  BY <1>4, <1>5
<1> QED
  BY <1>8, <1>9

LEMMA SumIsANumber ==
  ASSUME site \in Sites, NEW s, s \subseteq Cells, \A c \in s : label[c] \in 1 .. Len(Planes)
  PROVE  SumFrom(site, label, s) \in Int
<1> DEFINE w == FilledFrom(site, label, s)
<1>1. DOMAIN w = s \cap DOMAIN site.pixel
  BY DEF FilledFrom
<1>2. ASSUME NEW c \in DOMAIN w PROVE w[c] \in Int
  <2>1. c \in s /\ c \in Cells /\ c \in DOMAIN site.pixel
    BY <1>1, <1>2
  <2>2. HeightInCell(label[c], c) \in Int
    BY <2>1, HeightsAreNumbers
  <2>3. HeightFrom(site, label[c], c) \in Int
    BY <2>2 DEF HeightInCell, HeightOn, HeightFrom, Planes
  <2>4. site.pixel[c] \in Int
    BY <2>1, SitesAreRight DEF IsSite
  <2>5. w[c] = IF site.pixel[c] = NoData THEN HeightFrom(site, label[c], c) ELSE site.pixel[c]
    BY <2>1 DEF FilledFrom
  <2> QED
    BY <2>3, <2>4, <2>5
<1>3. IsFiniteSet(DOMAIN w)
  BY <1>1, CellsAreFinite, FS_Subset
<1> HIDE DEF w
<1>4. SumFrom(site, label, s) = IF DOMAIN w = {} THEN 0 ELSE Ranked(w, 5) * Cardinality(DOMAIN w)
  BY DEF SumFrom, w
<1>5. CASE DOMAIN w # {}
  <2>1. Ranked(w, 5) \in Int
    BY <1>2, <1>3, <1>5, RankedIsANumber
  <2>2. Cardinality(DOMAIN w) \in Nat
    BY <1>3, FS_CardinalityType
  <2>3. \A x \in Int : \A n \in Nat : x * n \in Int
    OBVIOUS
  <2>4. Ranked(w, 5) * Cardinality(DOMAIN w) \in Int
    BY <2>1, <2>2, <2>3
  <2> QED
    BY <1>4, <1>5, <2>4
<1>6. CASE DOMAIN w = {}
  BY <1>4, <1>6
<1> QED
  BY <1>5, <1>6

(* The faces of a roof whose segments do not touch one another add up. *)
LEMMA LevelOfTwo ==
  ASSUME site \in Sites, NEW f, f \subseteq Cells, NEW g, g \subseteq Cells, f \cap g = {},
         \A c \in f \cup g : label[c] \in 1 .. Len(Planes), AreApart(label, f, g)
  PROVE  /\ LevelFrom(site, label, f \cup g).elevation_sum =
              LevelFrom(site, label, f).elevation_sum + LevelFrom(site, label, g).elevation_sum
         /\ LevelFrom(site, label, f \cup g).pixel_count =
              LevelFrom(site, label, f).pixel_count + LevelFrom(site, label, g).pixel_count
<1> DEFINE F == SegmentsFrom(label, f)
           G == SegmentsFrom(label, g)
           S == F \cup G
           v == [x \in S |-> SumFrom(site, label, x)]
<1>1. SegmentsFrom(label, f \cup g) = S /\ F \cap G = {}
  BY SegmentsOfTwo
<1>2. IsFiniteSet(F) /\ IsFiniteSet(G) /\ IsFiniteSet(S)
  BY SegmentsAreAround, FS_Union
<1>3. \A x \in S : v[x] = SumFrom(site, label, x)
  OBVIOUS
<1>4. \A x \in S : v[x] \in Int
  <2>1. ASSUME NEW x \in S PROVE x \subseteq f \cup g
    BY SegmentsAreAround
  <2> HIDE DEF S
  <2>2. \A x \in S : SumFrom(site, label, x) \in Int
    BY <2>1, SumIsANumber
  <2> QED
    BY <2>2
<1> HIDE DEF F, G, v
<1>5. PICK h : IsTotal(v, S, h) /\ TotalFrom(site, label, S) = h[S]
  BY <1>2, <1>3, SumIsTotal
<1>6. PICK hf : IsTotal(v, F, hf) /\ TotalFrom(site, label, F) = hf[F]
  BY <1>2, <1>3, SumIsTotal
<1>7. PICK hg : IsTotal(v, G, hg) /\ TotalFrom(site, label, G) = hg[G]
  BY <1>2, <1>3, SumIsTotal
<1>8. F \subseteq S /\ G \subseteq S
  OBVIOUS
<1>9. hf[F] = h[F] /\ hg[G] = h[G]
  <2> HIDE DEF S
  <2> QED
    BY <1>2, <1>5, <1>6, <1>7, <1>8, TotalsAgree
<1>10. h[F \cup G] = h[F] + h[G]
  <2>1. S = F \cup G
    OBVIOUS
  <2> HIDE DEF S
  <2> QED
    BY <1>1, <1>2, <1>4, <1>5, <1>8, TotalOfTwo
<1>11. TotalFrom(site, label, S) = TotalFrom(site, label, F) + TotalFrom(site, label, G)
  BY <1>5, <1>6, <1>7, <1>9, <1>10
<1>12. Cardinality((f \cup g) \cap DOMAIN site.pixel) =
         Cardinality(f \cap DOMAIN site.pixel) + Cardinality(g \cap DOMAIN site.pixel)
  <2> DEFINE a == f \cap DOMAIN site.pixel
             b == g \cap DOMAIN site.pixel
  <2>1. (f \cup g) \cap DOMAIN site.pixel = a \cup b /\ a \cap b = {}
    OBVIOUS
  <2>2. IsFiniteSet(a) /\ IsFiniteSet(b)
    BY CellsAreFinite, FS_Subset
  <2> HIDE DEF a, b
  <2>3. Cardinality(a \cup b) = Cardinality(a) + Cardinality(b) - Cardinality(a \cap b)
    BY <2>2, FS_Union
  <2>4. Cardinality(a) \in Nat /\ Cardinality(b) \in Nat /\ Cardinality(a \cap b) = 0
    BY <2>1, <2>2, FS_CardinalityType, FS_EmptySet
  <2>5. Cardinality(a \cup b) = Cardinality(a) + Cardinality(b)
    BY <2>3, <2>4
  <2> QED
    BY <2>1, <2>5 DEF a, b
<1> QED
  BY <1>1, <1>11, <1>12 DEF LevelFrom, F, G

(* A face in one piece with one label is its only segment. *)
LEMMA LevelOfOne ==
  ASSUME site \in Sites, NEW f, f \subseteq Cells, f # {}, IsConnected(f),
         NEW l \in 1 .. Len(Planes), \A c \in f : label[c] = l
  PROVE  LevelFrom(site, label, f).elevation_sum = SumFrom(site, label, f)
<1> DEFINE S == {f}
           v == [x \in S |-> SumFrom(site, label, x)]
<1>1. SegmentsFrom(label, f) = S
  <2>1. SegmentsFrom(label, f) = {SegmentAt(label, f, c) : c \in f}
    BY SegmentsAreAround
  <2>2. \A c \in f : OfLabel(label, f, c) = f
    BY DEF OfLabel
  <2>3. \A c \in f : SegmentAt(label, f, c) = f
    BY <2>2 DEF SegmentAt, IsConnected
  <2> QED
    BY <2>1, <2>3
<1>2. IsFiniteSet(S)
  BY FS_Singleton
<1>3. v[f] \in Int /\ v[f] = SumFrom(site, label, f) /\ \A x \in S : x = f
  BY SumIsANumber
<1> HIDE DEF v
<1>4. PICK h : IsTotal(v, S, h) /\ TotalFrom(site, label, S) = h[S]
  <2>1. \A x \in S : v[x] = SumFrom(site, label, x)
    BY <1>3
  <2> HIDE DEF S
  <2> QED
    BY <1>2, <2>1, SumIsTotal
<1>5. \A T \in SUBSET S : h[T] = IF T = {} THEN 0 ELSE v[AnyOf(T)] + h[T \ {AnyOf(T)}]
  BY <1>4, Zenon DEF IsTotal
<1>6. AnyOf(S) = f /\ S \ {f} = {} /\ {} \in SUBSET S
  BY DEF AnyOf
<1>7. h[{}] = 0
  BY <1>5, <1>6
<1>8. h[S] = v[f] + h[{}]
  BY <1>5, <1>6
<1>9. h[S] = v[f]
  BY <1>3, <1>7, <1>8
<1> QED
  BY <1>1, <1>3, <1>4, <1>9 DEF LevelFrom

-----------------------------------------------------------------------------
(* What the elevations of faces are in LoD1.3, from phase to phase.         *)
LabelsDiffer == \A f, g \in FootprintFaces : f # g => AreApart(label, f, g)
OnOnePlane == \A f \in FootprintFaces : \A c \in f : arrangement[f].segid = label[c] /\ arrangement[f].plane = label[c]
InOnePiece == \A f \in FootprintFaces : IsConnected(f)

HasLevel(f) ==
  /\ arrangement[f].segid # 0
  /\ arrangement[f].elevation_sum = LevelFrom(site, label, f).elevation_sum
  /\ arrangement[f].pixel_count = LevelFrom(site, label, f).pixel_count

StepsAreLarge ==
  \A f, g \in FootprintFaces : Touch(f, g) => ~IsSmallStep(LevelFrom(site, label, f), LevelFrom(site, label, g))

LevelInv ==
  site.lod = 13 /\ site.roofs # <<>> =>
    /\ phase \in {"terrain", "statistics", "steps"} => LabelsDiffer
    /\ phase = "statistics" => OnOnePlane /\ InOnePiece
    /\ phase = "steps" => \A f \in FootprintFaces : HasLevel(f)
    /\ phase \in {"outside", "parts", "dissolved"} => StepsAreLarge

(* The cells of the faces of the footprint, and their labels. *)
LEMMA RoofsHaveLabels ==
  ASSUME PartitionInv, site.roofs # <<>>,
         phase \in {"segments", "terrain", "interior", "statistics", "steps", "outside", "parts", "dissolved"}
  PROVE  /\ site \in Sites /\ IsDivision(Faces, Cells)
         /\ \A f \in FootprintFaces : f \in Faces /\ f \subseteq Cells /\ f # {}
         /\ \A f \in FootprintFaces : \A c \in f :
              label[c] \in 1 .. Len(site.roofs) /\ label[c] \in 1 .. Len(Planes) /\ label[c] # 0
<1>1. site \in Sites /\ IsDivision(Faces, Cells)
  BY DEF PartitionInv, Order, IsArrangement
<1>2. \A f \in FootprintFaces : f \in Faces /\ f \subseteq Cells /\ f # {}
  BY <1>1, FacesOfDivision DEF FootprintFaces
<1>3. \A c \in Inside : c \in Footprint /\ OnARoof(c)
  BY DEF PartitionInv, FacesFollowLabels, IsClipped
<1>4. \A c \in Footprint : label[c] \in 1 .. Len(Planes)
  BY DEF PartitionInv, IsLabelled
<1>5. ASSUME NEW f \in FootprintFaces, NEW c \in f
      PROVE  label[c] \in 1 .. Len(site.roofs) /\ label[c] \in 1 .. Len(Planes) /\ label[c] # 0
  <2>1. c \in Inside
    BY DEF Inside
  <2>2. label[c] \in 1 .. Len(site.roofs) /\ label[c] \in 1 .. Len(Planes)
    BY <1>3, <1>4, <2>1 DEF OnARoof
  <2> QED
    BY <2>2
<1> QED
  BY <1>1, <1>2, <1>5

(* Faces next to each other on the same segment became one. *)
LEMMA SegmentsDiffer ==
  ASSUME PartitionInv, DissolveSegments PROVE LevelInv'
<1> SUFFICES ASSUME site'.roofs # <<>> PROVE LabelsDiffer' /\ phase' = "terrain"
  BY DEF LevelInv
<1> DEFINE near == [f \in Faces |-> {g \in Faces : Touch(f, g) /\ SameSegment(arrangement[f], arrangement[g])}]
           new == arrangement'
<1>1. /\ phase = "segments" /\ phase' = "terrain"
      /\ site' = site /\ label' = label
      /\ new \in Merges(Components(near, Faces))
  BY DEF DissolveSegments, Groups
<1>2. IsDivision(Faces, Cells)
  BY DEF PartitionInv, IsArrangement
<1>3. IsSymmetric(near, Faces)
  BY <1>2, TouchIsMutual DEF IsSymmetric, SameSegment
<1>4. PartitionInv'
  BY SegmentsAreDissolved
<1>5. IsMerge(near, new)
  <2> HIDE DEF near
  <2> QED
    BY <1>1, <1>2, <1>3, MergeIsMerge
<1>6. Inside' = Inside
  <2>1. Inside = {c \in Footprint : OnARoof(c)} /\ Inside' = {c \in Footprint' : OnARoof(c)'}
    BY <1>1, <1>4 DEF PartitionInv, FacesFollowLabels
  <2> QED
    BY <1>1, <2>1, SiteStays, LabelsStay
<1>7. FootprintFaces' = {F \in DOMAIN new : new[F].in_footprint}
  BY DEF FootprintFaces, InFootprint, Faces
<1>8. ASSUME NEW F \in FootprintFaces', NEW G \in FootprintFaces', NEW c \in F, NEW d \in G,
             d \in Beside[c], label[c] = label[d]
      PROVE  F = G
  <2>1. F \in DOMAIN new /\ G \in DOMAIN new
    BY <1>7
  <2>2. c \in Inside /\ d \in Inside
    BY <1>6, <1>8 DEF Inside
  <2>3. PICK f \in FootprintFaces : c \in f
    BY <2>2 DEF Inside
  <2>4. PICK g \in FootprintFaces : d \in g
    BY <2>2 DEF Inside
  <2>5. f \in Faces /\ g \in Faces /\ InFootprint(f) /\ InFootprint(g)
    BY <2>3, <2>4 DEF FootprintFaces
  <2>6. f \subseteq F /\ g \subseteq G
    BY <1>5, <1>8, <2>1, <2>3, <2>4, <2>5 DEF IsMerge
  <2>7. d \in F
    <3>1. CASE f = g
      BY <2>4, <2>6, <3>1
    <3>2. CASE f # g
      <4>1. Touch(f, g)
        BY <1>8, <2>3, <2>4, <3>2 DEF Touch
      <4>2. arrangement[f].segid = label[c] /\ arrangement[g].segid = label[d] /\ label[c] # 0
        BY <1>1, <2>3, <2>4, RoofsHaveLabels DEF PartitionInv, FacesFollowLabels
      <4>3. SameSegment(arrangement[f], arrangement[g])
        BY <1>8, <2>5, <4>2 DEF SameSegment, InFootprint
      <4>4. g \in near[f]
        BY <2>5, <4>1, <4>3
      <4>5. f \cap F # {}
        BY <1>8, <2>3
      <4> HIDE DEF near, new
      <4>6. g \subseteq F
        BY <1>5, <2>1, <2>5, <4>4, <4>5 DEF IsMerge
      <4> QED
        BY <2>4, <4>6
    <3> QED
      BY <3>1, <3>2
  <2>8. IsDivision(DOMAIN new, Cells)
    BY <1>5 DEF IsMerge
  <2> QED
    BY <2>1, <2>7, <2>8, <1>8 DEF IsDivision
<1>9. LabelsDiffer'
  BY <1>1, <1>8 DEF LabelsDiffer, AreApart
<1> QED
  BY <1>1, <1>9

(* A part of a face is in one piece, and next to no other that is in the    *)
(* footprint.                                                              *)
LEMMA PartsAreInOnePiece ==
  ASSUME IsDivision(Faces, Cells), NEW class, NEW p \in DOMAIN SplitFaces(class), NEW f \in Faces, p \cap f # {}
  PROVE  /\ IsConnected(p) /\ p \subseteq f
         /\ \A c \in p : \A d \in f : d \in Beside[c] /\ class[f][c] = class[f][d] => d \in p
<1>1. PICK g \in Faces : \E b \in g : p \in PartsOf(class, g, class[g][b])
  BY SplitDomain
<1>2. PICK b \in g : p \in PartsOf(class, g, class[g][b])
  BY <1>1
<1> DEFINE T == ClassOf(class, g, class[g][b])
<1>3. T \subseteq g /\ g \subseteq Cells
  BY FacesOfDivision DEF ClassOf
<1>4. IsFiniteSet(T) /\ IsSymmetric(Beside, T)
  BY <1>3, ComponentsOfCells
<1>5. p \in Components(Beside, T)
  BY <1>2 DEF PartsOf
<1> HIDE DEF T
<1>6. /\ p \subseteq T /\ IsClosedUnder(Beside, T, p)
      /\ \A S : IsClosedUnder(Beside, T, S) /\ p \cap S # {} => p \subseteq S
  BY <1>4, <1>5, ComponentsAreClosed
<1>7. p \subseteq g /\ f = g
  BY <1>3, <1>6, FacesOfDivision
<1>8. ASSUME NEW c \in p PROVE Flood(Beside, p, {c}) = p
  <2> DEFINE q == Flood(Beside, p, {c})
  <2>1. IsFiniteSet(p) /\ {c} \subseteq p
    BY <1>4, <1>6, FS_Subset
  <2>2. {c} \subseteq q /\ q \subseteq p /\ IsClosedUnder(Beside, p, q)
    BY <2>1, FloodIsClosed
  <2> HIDE DEF q
  <2>3. IsClosedUnder(Beside, T, q)
    BY <1>6, <2>2 DEF IsClosedUnder
  <2>4. p \cap q # {}
    BY <2>1, <2>2
  <2>5. p \subseteq q
    BY <1>6, <2>3, <2>4
  <2> QED
    BY <2>2, <2>5 DEF q
<1>9. ASSUME NEW c \in p, NEW d \in f, d \in Beside[c], class[f][c] = class[f][d] PROVE d \in p
  <2>1. d \in T
    BY <1>6, <1>7, <1>9 DEF T, ClassOf
  <2> QED
    BY <1>6, <1>9, <2>1 DEF IsClosedUnder
<1> QED
  BY <1>7, <1>8, <1>9 DEF IsConnected

LEMMA ClippedInPieces ==
  ASSUME PartitionInv, LevelInv, ClipToTerrain PROVE LevelInv'
<1> SUFFICES ASSUME site'.lod = 13, site'.roofs # <<>>
             PROVE  phase' = "statistics" /\ LabelsDiffer' /\ OnOnePlane' /\ InOnePiece'
  BY DEF LevelInv
<1> DEFINE new == arrangement'
           class == [f \in Faces |-> [c \in f |-> Below(f, c)]]
           clipped == SplitFaces(class)
           IsBelow(f) == \A c \in f : Below(FaceAt(c), c)
           TouchesBoundary(f) == \E g \in DOMAIN clipped : Touch(f, g) /\ ~clipped[g].in_footprint
           Lowered(f) == [clipped[f] EXCEPT !.in_footprint = FALSE, !.is_ground = TRUE,
                                            !.is_footprint_hole = ~TouchesBoundary(f)]
<1>1. /\ phase = "terrain" /\ site' = site /\ label' = label
      /\ new = [f \in DOMAIN clipped |-> IF IsBelow(f) THEN Lowered(f) ELSE clipped[f]]
  BY DEF ClipToTerrain
<1>2. phase' = "statistics"
  <2>1. site.lod = 13 /\ 13 # 12
    <3>1. site' = site
      BY DEF ClipToTerrain
    <3> QED
      BY <3>1
  <2>2. phase' = CASE site.lod = 12 -> "interior" [] site.lod = 13 -> "statistics" [] OTHER -> "outside"
    BY DEF ClipToTerrain
  <2> QED
    BY <2>1, <2>2
<1>3. IsDivision(Faces, Cells)
  BY DEF PartitionInv, IsArrangement
<1>4. DOMAIN new = DOMAIN clipped
      /\ \A p \in DOMAIN clipped : new[p] = IF IsBelow(p) THEN Lowered(p) ELSE clipped[p]
  BY <1>1
<1>5. \A f \in Faces : \A c \in f : class[f][c] = Below(f, c)
  OBVIOUS
<1>6. IsSplit(class, clipped)
  BY <1>3, SplitIsSplit
<1>7. \A p \in DOMAIN clipped : \A f \in Faces : p \cap f # {} =>
         /\ IsConnected(p) /\ p \subseteq f
         /\ \A c \in p : \A d \in f : d \in Beside[c] /\ class[f][c] = class[f][d] => d \in p
  <2> HIDE DEF class
  <2> QED
    BY <1>3, PartsAreInOnePiece
<1> HIDE DEF new, class, clipped
<1>8. ASSUME NEW p \in DOMAIN clipped
      PROVE  \E f \in Faces : p \subseteq f /\ clipped[p] = arrangement[f]
  BY <1>6 DEF IsSplit
(* What is left in the footprint is not below the ground. *)
<1>9. ASSUME NEW p \in FootprintFaces'
      PROVE  \E f \in FootprintFaces :
               /\ p \in DOMAIN clipped /\ p \subseteq f /\ p # {} /\ new[p] = arrangement[f]
               /\ \A c \in p : ~Below(f, c)
  <2>1. p \in DOMAIN new /\ new[p].in_footprint
    BY DEF FootprintFaces, InFootprint, Faces, new
  <2>2. p \in DOMAIN clipped
    BY <1>4, <2>1
  <2>3. PICK f \in Faces : p \subseteq f /\ clipped[p] = arrangement[f]
    BY <1>8, <2>2
  <2>4. IsFaceInfo(clipped[p])
    BY <2>3 DEF PartitionInv, IsArrangement
  <2>5. ~IsBelow(p)
    <3> SUFFICES ASSUME IsBelow(p) PROVE FALSE
      OBVIOUS
    <3> DEFINE h == ~TouchesBoundary(p)
    <3>1. new[p] = [clipped[p] EXCEPT !.in_footprint = FALSE, !.is_ground = TRUE, !.is_footprint_hole = h]
      BY <1>4, <2>2
    <3> HIDE DEF h, IsBelow, TouchesBoundary, Lowered
    <3> QED
      BY <2>1, <2>4, <3>1 DEF IsFaceInfo, NewFace
  <2>6. new[p] = arrangement[f]
    BY <1>4, <2>2, <2>3, <2>5
  <2>7. p # {}
    BY <1>6, <2>2 DEF IsSplit, IsDivision
  <2>8. ASSUME NEW c \in p PROVE ~Below(f, c)
    <3>1. PICK d \in p : ~Below(FaceAt(d), d)
      BY <2>5
    <3>2. FaceAt(d) = f
      BY <1>3, <2>3, FacesOfDivision
    <3>3. PICK g \in Faces : p \subseteq g /\ \E b \in g : p \subseteq ClassOf(class, g, class[g][b])
      BY <1>6, <2>2 DEF IsSplit
    <3>4. g = f
      BY <1>3, <2>3, <2>7, <3>3, FacesOfDivision
    <3>5. class[f][c] = class[f][d]
      BY <3>3, <3>4 DEF ClassOf
    <3>6. class[f][c] = Below(f, c) /\ class[f][d] = Below(f, d)
      BY <1>5, <2>3
    <3> QED
      BY <3>1, <3>2, <3>5, <3>6
  <2>9. f \in FootprintFaces
    BY <2>1, <2>3, <2>6 DEF FootprintFaces, InFootprint
  <2> QED
    BY <2>2, <2>3, <2>6, <2>7, <2>8, <2>9
<1> HIDE DEF IsBelow, Lowered, TouchesBoundary
<1>10. OnOnePlane'
  <2> SUFFICES ASSUME NEW p \in FootprintFaces', NEW c \in p
               PROVE  new[p].segid = label[c] /\ new[p].plane = label[c]
    BY <1>1 DEF OnOnePlane, new
  <2>1. PICK f \in FootprintFaces : p \subseteq f /\ new[p] = arrangement[f]
    BY <1>9
  <2> QED
    BY <1>1, <2>1 DEF PartitionInv, FacesFollowLabels
<1>11. InOnePiece'
  <2> SUFFICES ASSUME NEW p \in FootprintFaces' PROVE IsConnected(p)
    BY DEF InOnePiece
  <2>1. PICK f \in FootprintFaces : p \in DOMAIN clipped /\ p \subseteq f /\ p # {}
    BY <1>9
  <2>2. f \in Faces /\ p \cap f # {}
    BY <2>1 DEF FootprintFaces
  <2> QED
    BY <1>7, <2>1, <2>2
<1>12. LabelsDiffer'
  <2> SUFFICES ASSUME NEW p \in FootprintFaces', NEW q \in FootprintFaces', NEW c \in p, NEW d \in q,
                      d \in Beside[c], label[c] = label[d]
               PROVE  p = q
    BY <1>1 DEF LabelsDiffer, AreApart
  <2>1. PICK f \in FootprintFaces : /\ p \in DOMAIN clipped /\ p \subseteq f /\ p # {}
                                    /\ \A b \in p : ~Below(f, b)
    BY <1>9
  <2>2. PICK g \in FootprintFaces : /\ q \in DOMAIN clipped /\ q \subseteq g /\ q # {}
                                    /\ \A b \in q : ~Below(g, b)
    BY <1>9
  <2>3. f = g
    BY <1>1, <2>1, <2>2 DEF LevelInv, LabelsDiffer, AreApart
  <2>4. f \in Faces /\ p \cap f # {} /\ c \in f /\ d \in f
    BY <2>1, <2>2, <2>3 DEF FootprintFaces
  <2>5. class[f][c] = class[f][d]
    <3>1. class[f][c] = Below(f, c) /\ class[f][d] = Below(f, d)
      BY <1>5, <2>4
    <3>2. Below(f, c) = FALSE /\ Below(f, d) = FALSE
      BY <2>1, <2>2, <2>3 DEF Below
    <3> QED
      BY <3>1, <3>2
  <2>6. d \in p
    BY <1>7, <2>1, <2>4, <2>5
  <2>7. IsDivision(DOMAIN clipped, Cells)
    BY <1>6 DEF IsSplit
  <2> QED
    BY <2>1, <2>2, <2>6, <2>7 DEF IsDivision
<1> QED
  BY <1>2, <1>10, <1>11, <1>12

(* The first elevation of a face is that of its only segment.              *)
LEMMA ElevationsAreLevels ==
  ASSUME PartitionInv, LevelInv, ComputeElevations PROVE LevelInv'
<1> SUFFICES ASSUME site'.lod = 13, site'.roofs # <<>>
             PROVE  phase' = "steps" /\ LabelsDiffer' /\ \A f \in FootprintFaces' : HasLevel(f)'
  BY DEF LevelInv
<1> DEFINE new == arrangement'
           Computed(f) == [arrangement[f] EXCEPT !.elevation_sum = ElevationSum(f),
                             !.pixel_count = Cardinality(DOMAIN FilledPixels(f))]
<1>1. /\ phase = "statistics" /\ phase' = "steps" /\ site' = site /\ label' = label
      /\ new = [f \in Faces |-> IF InFootprint(f) THEN Computed(f) ELSE arrangement[f]]
  BY DEF ComputeElevations
<1>2. ASSUME NEW f \in Faces
      PROVE  /\ IsFaceInfo(arrangement[f])
             /\ IsFaceInfo(new[f]) /\ new[f].in_footprint = arrangement[f].in_footprint
             /\ new[f].segid = arrangement[f].segid
             /\ InFootprint(f) => /\ new[f].elevation_sum = ElevationSum(f)
                                  /\ new[f].pixel_count = Cardinality(DOMAIN FilledPixels(f))
  <2> DEFINE d == arrangement[f]
             s == ElevationSum(f)
             n == Cardinality(DOMAIN FilledPixels(f))
  <2>1. IsFaceInfo(d)
    BY DEF PartitionInv, IsArrangement
  <2>2. new[f] = IF InFootprint(f) THEN [d EXCEPT !.elevation_sum = s, !.pixel_count = n] ELSE d
    BY <1>1
  <2> HIDE DEF new, d, s, n
  <2>3. /\ IsFaceInfo(new[f]) /\ new[f].in_footprint = d.in_footprint /\ new[f].segid = d.segid
        /\ InFootprint(f) => new[f].elevation_sum = s /\ new[f].pixel_count = n
    BY <2>1, <2>2 DEF IsFaceInfo, NewFace
  <2> QED
    BY <2>1, <2>3 DEF d, s, n
<1>3. DOMAIN new = Faces
  BY <1>1
<1> HIDE DEF new
<1>4. FootprintFaces' = FootprintFaces
  BY <1>2, <1>3, OtherData DEF PartitionInv, new
<1>5. LabelsDiffer'
  BY <1>1, <1>4 DEF LevelInv, LabelsDiffer
<1>6. ASSUME NEW f \in FootprintFaces
      PROVE  /\ new[f].segid # 0
             /\ new[f].elevation_sum = LevelFrom(site, label, f).elevation_sum
             /\ new[f].pixel_count = LevelFrom(site, label, f).pixel_count
  <2>1. /\ f \in Faces /\ f \subseteq Cells /\ f # {} /\ site \in Sites
        /\ \A c \in f : label[c] \in 1 .. Len(Planes) /\ label[c] # 0
    BY <1>1, RoofsHaveLabels
  <2>2. /\ IsConnected(f)
        /\ \A c \in f : arrangement[f].segid = label[c] /\ arrangement[f].plane = label[c]
    BY <1>1 DEF LevelInv, OnOnePlane, InOnePiece
  <2> DEFINE l == arrangement[f].plane
  <2>3. l \in 1 .. Len(Planes) /\ \A c \in f : label[c] = l
    BY <2>1, <2>2
  <2>4. FilledPixels(f) = FilledFrom(site, label, f)
    <3>1. \A c \in f : HeightInCell(l, c) = HeightFrom(site, label[c], c)
      BY <2>3 DEF HeightInCell, HeightOn, HeightFrom, Planes
    <3> QED
      BY <3>1 DEF FilledPixels, FilledFrom
  <2>5. DOMAIN FilledPixels(f) = f \cap DOMAIN site.pixel
    BY DEF FilledPixels
  <2>6. ElevationSum(f) = SumFrom(site, label, f)
    BY <2>4 DEF ElevationSum, SumFrom
  <2>7. LevelFrom(site, label, f).elevation_sum = SumFrom(site, label, f)
    <3> HIDE DEF l
    <3> QED
      BY <2>1, <2>2, <2>3, LevelOfOne
  <2>8. LevelFrom(site, label, f).pixel_count = Cardinality(DOMAIN FilledPixels(f))
    BY <2>5 DEF LevelFrom
  <2>9. InFootprint(f)
    BY DEF FootprintFaces
  <2> QED
    BY <1>2, <2>1, <2>2, <2>6, <2>7, <2>8, <2>9
<1>7. \A f \in FootprintFaces' : HasLevel(f)'
  BY <1>1, <1>4, <1>6 DEF HasLevel, new
<1> QED
  BY <1>1, <1>5, <1>7

(* Two faces that merge have the level of both. *)
LEMMA MergesHaveLevels ==
  ASSUME PartitionInv, LevelInv, MergeStep PROVE LevelInv'
<1> SUFFICES ASSUME site'.lod = 13, site'.roofs # <<>>
             PROVE  phase' = "steps" /\ LabelsDiffer' /\ \A f \in FootprintFaces' : HasLevel(f)'
  BY DEF LevelInv
<1> DEFINE new == arrangement'
<1>1. phase = "steps" /\ phase' = "steps" /\ site' = site /\ label' = label
  BY DEF MergeStep
<1>2. PICK p \in SmallSteps : new = [f \in (Faces \ {p[1], p[2]}) \cup {p[1] \cup p[2]} |->
                                       IF f \in Faces THEN arrangement[f] ELSE MergedData(p[1], p[2])]
  BY DEF MergeStep
<1> DEFINE f1 == p[1]
           f2 == p[2]
           F == f1 \cup f2
<1>3. f1 \in FootprintFaces /\ f2 \in FootprintFaces /\ f1 # f2
  BY DEF SmallSteps, Touch
<1>4. /\ DOMAIN new = (Faces \ {f1, f2}) \cup {F}
      /\ \A f \in DOMAIN new : new[f] = IF f \in Faces THEN arrangement[f] ELSE MergedData(f1, f2)
  BY <1>2
<1> HIDE DEF f1, f2, new
<1>5. /\ site \in Sites /\ IsDivision(Faces, Cells)
      /\ \A f \in FootprintFaces : f \in Faces /\ f \subseteq Cells /\ f # {}
      /\ \A f \in FootprintFaces : \A c \in f : label[c] \in 1 .. Len(Planes)
  BY <1>1, RoofsHaveLabels
<1>6. f1 \cap f2 = {}
  BY <1>3, <1>5 DEF IsDivision
<1>7. F \notin Faces
  <2>1. F \cap f1 # {} /\ F \cap f2 # {}
    BY <1>3, <1>5
  <2> HIDE DEF F
  <2>2. F \in Faces => F = f1 /\ F = f2
    BY <1>3, <1>5, <2>1 DEF IsDivision
  <2> QED
    BY <1>3, <2>2
<1>8. \A f \in FootprintFaces' : f = F \/ f \in FootprintFaces \ {f1, f2}
  <2> SUFFICES ASSUME NEW f \in DOMAIN new, new[f].in_footprint, f # F PROVE f \in FootprintFaces \ {f1, f2}
    BY DEF FootprintFaces, InFootprint, Faces, new
  <2>1. f \in Faces \ {f1, f2}
    BY <1>4
  <2> QED
    BY <1>4, <2>1 DEF FootprintFaces, InFootprint
<1>9. \A f, g \in FootprintFaces : f # g => AreApart(label, f, g)
  BY <1>1 DEF LevelInv, LabelsDiffer
<1>10. LabelsDiffer'
  <2> SUFFICES ASSUME NEW f \in FootprintFaces', NEW g \in FootprintFaces', f # g, NEW c \in f, NEW d \in g,
                      d \in Beside[c]
               PROVE  label[c] # label[d]
    BY <1>1 DEF LabelsDiffer, AreApart
  <2>1. \E a \in FootprintFaces : c \in a /\ (f = F => a \in {f1, f2}) /\ (f # F => a = f)
    BY <1>3, <1>8
  <2>2. \E b \in FootprintFaces : d \in b /\ (g = F => b \in {f1, f2}) /\ (g # F => b = g)
    BY <1>3, <1>8
  <2>3. PICK a \in FootprintFaces : c \in a /\ (f = F => a \in {f1, f2}) /\ (f # F => a = f)
    BY <2>1
  <2>4. PICK b \in FootprintFaces : d \in b /\ (g = F => b \in {f1, f2}) /\ (g # F => b = g)
    BY <2>2
  <2>5. (f # F => f \notin {f1, f2}) /\ (g # F => g \notin {f1, f2})
    BY <1>8
  <2>6. a # b
    BY <2>3, <2>4, <2>5
  <2> QED
    BY <1>9, <2>3, <2>4, <2>6 DEF AreApart
<1>11. \A f \in FootprintFaces : HasLevel(f)
  BY <1>1 DEF LevelInv
<1>12. /\ LevelFrom(site, label, F).elevation_sum =
            LevelFrom(site, label, f1).elevation_sum + LevelFrom(site, label, f2).elevation_sum
       /\ LevelFrom(site, label, F).pixel_count =
            LevelFrom(site, label, f1).pixel_count + LevelFrom(site, label, f2).pixel_count
  <2>1. AreApart(label, f1, f2)
    BY <1>3, <1>9
  <2>2. f1 \subseteq Cells /\ f2 \subseteq Cells /\ \A c \in f1 \cup f2 : label[c] \in 1 .. Len(Planes)
    BY <1>3, <1>5
  <2> QED
    BY <1>5, <1>6, <2>1, <2>2, LevelOfTwo
<1>13. /\ new[F].segid # 0
       /\ new[F].elevation_sum = LevelFrom(site, label, F).elevation_sum
       /\ new[F].pixel_count = LevelFrom(site, label, F).pixel_count
  <2> DEFINE d == arrangement[f1]
             m == d.elevation_sum + arrangement[f2].elevation_sum
             n == d.pixel_count + arrangement[f2].pixel_count
  <2>1. IsFaceInfo(d)
    BY <1>3, <1>5 DEF PartitionInv, IsArrangement
  <2>2. new[F] = [d EXCEPT !.elevation_sum = m, !.pixel_count = n]
    BY <1>4, <1>7 DEF MergedData
  <2>3. d.segid # 0
    BY <1>3, <1>11 DEF HasLevel
  <2> HIDE DEF d, m, n
  <2>4. new[F].segid # 0 /\ new[F].elevation_sum = m /\ new[F].pixel_count = n
    BY <2>1, <2>2, <2>3 DEF IsFaceInfo, NewFace
  <2>5. /\ m = LevelFrom(site, label, f1).elevation_sum + LevelFrom(site, label, f2).elevation_sum
        /\ n = LevelFrom(site, label, f1).pixel_count + LevelFrom(site, label, f2).pixel_count
    BY <1>3, <1>11 DEF HasLevel, m, n, d
  <2> QED
    BY <1>12, <2>4, <2>5
<1>14. ASSUME NEW f \in FootprintFaces', f # F
       PROVE  /\ new[f].segid # 0
              /\ new[f].elevation_sum = LevelFrom(site, label, f).elevation_sum
              /\ new[f].pixel_count = LevelFrom(site, label, f).pixel_count
  <2>1. f \in FootprintFaces \ {f1, f2} /\ f \in Faces
    BY <1>5, <1>8, <1>14
  <2>2. new[f] = arrangement[f]
    BY <1>4, <2>1
  <2> QED
    BY <1>11, <2>1, <2>2 DEF HasLevel
<1>15. \A f \in FootprintFaces' : HasLevel(f)'
  BY <1>1, <1>13, <1>14 DEF HasLevel, new
<1> QED
  BY <1>1, <1>10, <1>15

(* No small step is left: the steps between levels are large. *)
LEMMA LevelsEndApart ==
  ASSUME PartitionInv, LevelInv, StepsAreDissolved PROVE LevelInv'
<1> SUFFICES ASSUME site'.lod = 13, site'.roofs # <<>> PROVE phase' = "outside" /\ StepsAreLarge'
  BY DEF LevelInv
<1>1. /\ phase = "steps" /\ phase' = "outside" /\ SmallSteps = {}
      /\ site' = site /\ label' = label /\ arrangement' = arrangement
  BY DEF StepsAreDissolved
<1>2. FootprintFaces' = FootprintFaces
  BY <1>1 DEF FootprintFaces, InFootprint, Faces
<1>3. ASSUME NEW f \in FootprintFaces, NEW g \in FootprintFaces, Touch(f, g)
      PROVE  ~IsSmallStep(LevelFrom(site, label, f), LevelFrom(site, label, g))
  <2>1. HasLevel(f) /\ HasLevel(g)
    BY <1>1 DEF LevelInv
  <2>2. OnRoof(f) /\ OnRoof(g)
    BY <2>1 DEF OnRoof, HasLevel, FootprintFaces
  <2>3. ~IsSmallStep(arrangement[f], arrangement[g])
    <3>1. <<f, g>> \notin SmallSteps
      BY <1>1
    <3> QED
      BY <1>3, <2>2, <3>1 DEF SmallSteps
  <2>4. IsSmallStep(LevelFrom(site, label, f), LevelFrom(site, label, g))
          <=> IsSmallStep(arrangement[f], arrangement[g])
    BY <2>1, Zenon DEF HasLevel, IsSmallStep, StepTimesCounts, Count
  <2> QED
    BY <2>3, <2>4
<1>4. StepsAreLarge'
  BY <1>1, <1>2, <1>3 DEF StepsAreLarge, IsSmallStep, Touch
<1> QED
  BY <1>1, <1>4

(* What comes after changes neither the faces of the footprint nor their    *)
(* cells.                                                                  *)
LEMMA StepsStayLarge ==
  ASSUME LevelInv, site' = site, label' = label, FootprintFaces' \subseteq FootprintFaces,
         phase \in {"outside", "parts", "dissolved"}, phase' \in {"outside", "parts", "dissolved"}
  PROVE  LevelInv'
<1>1. ASSUME StepsAreLarge PROVE StepsAreLarge'
  BY <1>1 DEF StepsAreLarge, IsSmallStep, Touch
<1> QED
  BY <1>1 DEF LevelInv


(* A merge outside of the footprint adds no face to it. *)
LEMMA OutsideStaysOutside ==
  ASSUME PartitionInv, DissolveOutside PROVE FootprintFaces' \subseteq FootprintFaces
<1> DEFINE near == [f \in Faces |-> {g \in Faces : Touch(f, g) /\ BothOutside(arrangement[f], arrangement[g])}]
           new == arrangement'
<1>1. new \in Merges(Components(near, Faces))
  BY DEF DissolveOutside, Groups
<1>2. IsDivision(Faces, Cells)
  BY DEF PartitionInv, IsArrangement
<1>3. IsSymmetric(near, Faces)
  BY <1>2, TouchIsMutual DEF IsSymmetric, BothOutside
<1>4. \A f \in Faces : InFootprint(f) => near[f] = {}
  BY DEF BothOutside, InFootprint
<1> HIDE DEF near
<1>5. /\ IsMerge(near, new)
      /\ \A S : IsClosedUnder(near, Faces, S) =>
           \A F \in DOMAIN new : \A f, g \in Faces : f \in S /\ f \subseteq F /\ g \subseteq F => g \in S
  BY <1>1, <1>2, <1>3, MergeIsMerge
<1> HIDE DEF new
<1>6. ASSUME NEW F \in DOMAIN new, new[F].in_footprint PROVE F \in FootprintFaces
  <2>1. PICK h \in Faces : h \subseteq F /\ new[F] = arrangement[h]
    BY <1>5, <1>6 DEF IsMerge
  <2>2. InFootprint(h)
    BY <1>6, <2>1 DEF InFootprint
  <2>3. IsClosedUnder(near, Faces, {h})
    BY <1>4, <2>2 DEF IsClosedUnder
  <2>4. \A g \in Faces : g \subseteq F => g = h
    BY <1>5, <1>6, <2>1, <2>3
  <2>5. F \subseteq h
    <3> SUFFICES ASSUME NEW c \in F PROVE c \in h
      OBVIOUS
    <3>1. c \in Cells
      BY <1>5, <1>6 DEF IsMerge, IsDivision
    <3>2. PICK g \in Faces : c \in g
      BY <1>2, <3>1, FacesOfDivision
    <3>3. g \cap F # {}
      BY <3>2
    <3>4. g \subseteq F
      BY <1>5, <1>6, <3>2, <3>3 DEF IsMerge
    <3> QED
      BY <2>4, <3>2, <3>4
  <2>6. F = h
    BY <2>1, <2>5
  <2> QED
    BY <2>1, <2>2, <2>6 DEF FootprintFaces
<1> QED
  BY <1>6 DEF FootprintFaces, InFootprint, Faces, new

LEMMA LevelSteps ==
  ASSUME PartitionInv, LevelInv, [ExtruderNext]_allvars PROVE LevelInv'
<1>1. CASE UNCHANGED allvars
  <2>1. UNCHANGED <<site, phase, holes_inserted, arrangement, label>>
    BY <1>1 DEF allvars, partition
  <2>2. FootprintFaces' = FootprintFaces
    BY <2>1 DEF FootprintFaces, Faces, InFootprint
  <2> QED
    BY <2>1, <2>2 DEF LevelInv, LabelsDiffer, OnOnePlane, InOnePiece, HasLevel, StepsAreLarge, IsSmallStep, Touch
<1>2. CASE InsertFootprint \/ InsertHole \/ InsertLines \/ Optimise
  <2>1. phase' \in {"holes", "optimise", "segments"}
    BY <1>2 DEF InsertFootprint, InsertHole, InsertLines, Optimise
  <2> QED
    BY <2>1 DEF LevelInv
<1>3. CASE NothingToOptimise
  BY <1>3 DEF NothingToOptimise, LevelInv
<1>4. CASE DissolveSegments
  BY <1>4, SegmentsDiffer
<1>5. CASE ClipToTerrain
  BY <1>5, ClippedInPieces
<1>6. CASE DissolveInterior
  <2>1. site.lod = 12 /\ site' = site
    BY <1>6 DEF DissolveInterior, PartitionInv, Order
  <2> QED
    BY <2>1 DEF LevelInv
<1>7. CASE ComputeElevations
  BY <1>7, ElevationsAreLevels
<1>8. CASE MergeStep
  BY <1>8, MergesHaveLevels
<1>9. CASE StepsAreDissolved
  BY <1>9, LevelsEndApart
<1>10. CASE DissolveOutside
  <2>1. site' = site /\ label' = label /\ phase = "outside" /\ phase' = "parts"
    BY <1>10 DEF DissolveOutside
  <2> QED
    BY <1>10, <2>1, OutsideStaysOutside, StepsStayLarge
<1>11. CASE LabelPart \/ FinishDissolver
  <2>1. site' = site /\ label' = label /\ phase = "parts" /\ phase' \in {"parts", "dissolved"} /\ DOMAIN arrangement' = Faces
    BY <1>11 DEF LabelPart, FinishDissolver
  <2>2. ASSUME NEW f \in Faces PROVE arrangement'[f].in_footprint = arrangement[f].in_footprint
    <3> DEFINE d == arrangement[f]
    <3>1. IsFaceInfo(d)
      BY DEF PartitionInv, IsArrangement
    <3>2. \/ \E n : arrangement'[f] = [d EXCEPT !.part_id = n] \/ arrangement'[f] = d
          \/ \E h, m, n : arrangement'[f] = [d EXCEPT !.is_footprint_hole = h, !.elevation_70p = m, !.pixel_count = n]
      <4>1. CASE LabelPart
        <5>1. \E n : arrangement'[f] = [d EXCEPT !.part_id = n] \/ arrangement'[f] = d
          BY <4>1 DEF LabelPart
        <5> QED
          BY <5>1
      <4>2. CASE FinishDissolver
        <5>1. \E h, m, n : arrangement'[f] = [d EXCEPT !.is_footprint_hole = h, !.elevation_70p = m, !.pixel_count = n]
          BY <4>2 DEF FinishDissolver
        <5> QED
          BY <5>1
      <4> QED
        BY <1>11, <4>1, <4>2
    <3> HIDE DEF d
    <3>3. arrangement'[f].in_footprint = d.in_footprint
      BY <3>1, <3>2 DEF IsFaceInfo, NewFace
    <3> QED
      BY <3>3 DEF d
  <2>3. FootprintFaces' = FootprintFaces
    BY <2>1, <2>2 DEF FootprintFaces, InFootprint, Faces
  <2> QED
    BY <2>1, <2>3, StepsStayLarge
<1>12. CASE Snap \/ MakeFloors \/ AttachHoles \/ ColumnHeights \/ MakeWalls \/ MakeRoofs
  <2>1. phase' \in {"floors", "repaired", "attach", "columns", "no planes", "walls", "roofs", "extruded"}
    BY <1>12 DEF Snap, MakeFloors, AttachHoles, ColumnHeights, MakeWalls, MakeRoofs
  <2> QED
    BY <2>1 DEF LevelInv
<1>13. CASE Ended
  BY <1>1, <1>13 DEF Ended
<1> QED
  BY <1>1, <1>2, <1>3, <1>4, <1>5, <1>6, <1>7, <1>8, <1>9, <1>10, <1>11, <1>12, <1>13
  DEF ExtruderNext, PartitionNext

(* In LoD1.3, whatever the order in which faces merged, those that remain   *)
(* next to each other differ by the threshold at least, if the elevations   *)
(* are computed anew from the segments that went into the faces: the sums   *)
(* that the merges add up are those of the segments.                        *)
THEOREM LevelsStayApart == ExtruderSpec => []LevelsAreApart
<1>1. ExtruderInit => LevelInv
  BY DEF ExtruderInit, PartitionInit, LevelInv
<1>2. PartitionInv /\ LevelInv /\ [ExtruderNext]_allvars => LevelInv'
  BY LevelSteps
<1>3. LevelInv => LevelsAreApart
  BY LevelsAreLevels DEF LevelInv, StepsAreLarge, Dissolved
<1> QED
  BY <1>1, <1>2, <1>3, PartitionIsRight, PTL DEF ExtruderSpec

-----------------------------------------------------------------------------
(* The lanes of a repair cell: the tables of costs, a way back through     *)
(* them, and that no way along the rays is cheaper.                        *)

LEMMA MinIsLeast ==
  ASSUME NEW S, S \subseteq Nat, S # {}
  PROVE  Min(S) \in S /\ \A y \in S : Min(S) <= y
<1>1. PICK m \in S : \A y \in S : m <= y
  BY LeastNumber
<1> QED
  BY <1>1 DEF Min

Costs == [Lanes -> 0 .. NoCost]

(* A lane of the next ray is as cheap as any way to it over this ray, and  *)
(* if it can be reached at all, one of them is as cheap.                   *)
LEMMA NextIsCheapest ==
  ASSUME NEW i, NEW a, NEW c \in Costs, NEW lane \in Lanes
  PROVE  /\ NextCosts(i, a, c)[lane] \in 0 .. NoCost
         /\ \A p \in Lanes : <<i, p, lane>> \in a /\ c[p] < NoCost =>
              NextCosts(i, a, c)[lane] <= c[p] + LaneCost(lane)
         /\ NextCosts(i, a, c)[lane] < NoCost =>
              \E p \in Lanes : <<i, p, lane>> \in a /\ c[p] + LaneCost(lane) = NextCosts(i, a, c)[lane]
<1> DEFINE from == {q \in Lanes : <<i, q, lane>> \in a /\ c[q] < NoCost}
           ways == {c[p] + LaneCost(lane) : p \in from}
<1>1. NextCosts(i, a, c)[lane] = Min({NoCost} \cup ways)
  BY DEF NextCosts
<1>2. LaneCost(lane) \in {0, 1} /\ NoCost \in Nat /\ \A p \in Lanes : c[p] \in Nat
  BY RaysAssumption DEF LaneCost, Costs
<1>3. {NoCost} \cup ways \subseteq Nat
  <2>1. ASSUME NEW y \in ways PROVE y \in Nat
    <3>1. PICK p \in from : y = c[p] + LaneCost(lane)
      OBVIOUS
    <3> QED
      BY <1>2, <3>1
  <2> QED
    BY <1>2, <2>1
<1>4. /\ Min({NoCost} \cup ways) \in {NoCost} \cup ways
      /\ \A y \in {NoCost} \cup ways : Min({NoCost} \cup ways) <= y
  <2> HIDE DEF ways
  <2> QED
    BY <1>3, MinIsLeast
<1>5. NextCosts(i, a, c)[lane] \in Nat /\ NextCosts(i, a, c)[lane] <= NoCost
  BY <1>1, <1>3, <1>4
<1>6. ASSUME NEW p \in Lanes, <<i, p, lane>> \in a, c[p] < NoCost
      PROVE  NextCosts(i, a, c)[lane] <= c[p] + LaneCost(lane)
  BY <1>1, <1>4, <1>6
<1>7. ASSUME NextCosts(i, a, c)[lane] < NoCost
      PROVE  \E p \in Lanes : <<i, p, lane>> \in a /\ c[p] + LaneCost(lane) = NextCosts(i, a, c)[lane]
  <2>1. NextCosts(i, a, c)[lane] \in ways
    <3> HIDE DEF ways
    <3> QED
      BY <1>1, <1>2, <1>4, <1>5, <1>7
  <2> QED
    BY <2>1
<1> QED
  BY <1>2, <1>5, <1>6, <1>7

FirstCosts(first) == [lane \in Lanes |-> IF lane = first THEN LaneCost(lane) ELSE NoCost]

IsTable(cost, n, a, first) ==
  /\ cost \in [1 .. n -> Costs]
  /\ cost[1] = FirstCosts(first)
  /\ \A i \in 2 .. n : cost[i] = NextCosts(i - 1, a, cost[i - 1])

LEMMA TablesExist ==
  ASSUME NEW n \in Nat \ {0}, NEW a, NEW first \in Lanes
  PROVE  IsTable(CheapestTo(n, a, first), n, a, first)
<1> DEFINE step == [i \in 1 .. n - 1 |-> [c \in Costs |-> NextCosts(i, a, c)]]
<1>1. ASSUME NEW i, NEW c \in Costs PROVE NextCosts(i, a, c) \in Costs
  <2>1. \A lane \in Lanes : NextCosts(i, a, c)[lane] \in 0 .. NoCost
    BY NextIsCheapest
  <2>2. NextCosts(i, a, c) = [lane \in Lanes |-> NextCosts(i, a, c)[lane]]
    BY DEF NextCosts
  <2> QED
    BY <2>1, <2>2 DEF Costs
<1>2. FirstCosts(first) \in Costs
  BY RaysAssumption DEF FirstCosts, Costs, LaneCost
<1>3. step \in [1 .. n - 1 -> [Costs -> Costs]] /\ n - 1 \in Nat
  BY <1>1
<1>4. \A i \in 1 .. n - 1 : \A c \in Costs : step[i][c] = NextCosts(i, a, c)
  OBVIOUS
<1>5. PICK g \in [0 .. n - 1 -> Costs] :
        g[0] = FirstCosts(first) /\ \A i \in 1 .. n - 1 : g[i] = step[i][g[i - 1]]
  <2>1. ASSUME NEW X, NEW base \in X, NEW m \in Nat, NEW s \in [1 .. m -> [X -> X]]
        PROVE  \E g \in [0 .. m -> X] : g[0] = base /\ \A k \in 1 .. m : g[k] = s[k][g[k - 1]]
    BY StepsExist, SMT
  <2> HIDE DEF step, Costs
  <2> QED
    BY <1>2, <1>3, <2>1, SMT
<1> HIDE DEF step
<1> DEFINE table == [i \in 1 .. n |-> g[i - 1]]
           IsCost(cost) == cost = [i \in 1 .. n |->
              IF i = 1 THEN [lane \in Lanes |-> IF lane = first THEN LaneCost(lane) ELSE NoCost]
              ELSE NextCosts(i - 1, a, cost[i - 1])]
<1>6. table \in [1 .. n -> Costs] /\ \A i \in 1 .. n : table[i] = g[i - 1]
  BY <1>5
<1>7. table[1] = FirstCosts(first)
  BY <1>5, <1>6
<1>8. ASSUME NEW i \in 2 .. n PROVE table[i] = NextCosts(i - 1, a, table[i - 1])
  <2>1. i - 1 \in 1 .. n - 1 /\ i - 1 \in 1 .. n /\ i \in 1 .. n /\ i - 1 - 1 \in 0 .. n - 1
    OBVIOUS
  <2>2. table[i] = g[i - 1] /\ table[i - 1] = g[i - 1 - 1]
    BY <1>6, <2>1
  <2>3. g[i - 1] = step[i - 1][g[i - 1 - 1]] /\ g[i - 1 - 1] \in Costs
    BY <1>5, <2>1
  <2> QED
    BY <1>4, <2>1, <2>2, <2>3
<1>9. IsCost(table)
  <2>1. \A i \in 1 .. n : i = 1 \/ i \in 2 .. n
    OBVIOUS
  <2> HIDE DEF Costs
  <2> QED
    BY <1>6, <1>7, <1>8, <2>1 DEF FirstCosts
<1>10. CheapestTo(n, a, first) = CHOOSE cost : IsCost(cost)
  BY DEF CheapestTo
<1>11. IsCost(CheapestTo(n, a, first))
  <2> HIDE DEF IsCost, table
  <2> QED
    BY <1>9, <1>10
<1> DEFINE found == CheapestTo(n, a, first)
<1>12. /\ found[1] = FirstCosts(first)
       /\ \A i \in 2 .. n : found[i] = NextCosts(i - 1, a, found[i - 1])
       /\ DOMAIN found = 1 .. n /\ found = [i \in DOMAIN found |-> found[i]]
  <2>1. found = [i \in 1 .. n |->
              IF i = 1 THEN FirstCosts(first) ELSE NextCosts(i - 1, a, found[i - 1])]
    BY <1>11 DEF FirstCosts
  <2>2. 1 \in 1 .. n /\ \A i \in 2 .. n : i \in 1 .. n /\ i # 1
    OBVIOUS
  <2> HIDE DEF found
  <2> QED
    BY <2>1, <2>2
<1>13. \A i \in 1 .. n : found[i] \in Costs
  <2> DEFINE h == [k \in 0 .. n - 1 |-> found[k + 1]]
             P == [k \in 0 .. n - 1 |-> Costs]
  <2>1. ASSUME NEW m \in 0 .. n - 1 PROVE h[m] \in P[m]
    <3>1. h[0] \in P[0]
      BY <1>2, <1>12
    <3>2. ASSUME NEW k \in 1 .. m, h[k - 1] \in P[k - 1] PROVE h[k] \in P[k]
      <4>1. k + 1 \in 2 .. n /\ k \in 0 .. n - 1 /\ k - 1 \in 0 .. n - 1 /\ k + 1 - 1 = k
        OBVIOUS
      <4>2. h[k] = NextCosts(k, a, found[k]) /\ h[k - 1] = found[k]
        BY <1>12, <4>1
      <4>3. P[k] = Costs /\ P[k - 1] = Costs
        BY <4>1
      <4> QED
        BY <1>1, <3>2, <4>2, <4>3
    <3> HIDE DEF h, P
    <3> QED
      BY <3>1, <3>2, StepsStay, SMT
  <2>2. ASSUME NEW i \in 1 .. n PROVE found[i] \in Costs
    <3>1. i - 1 \in 0 .. n - 1 /\ i - 1 + 1 = i
      OBVIOUS
    <3>2. h[i - 1] = found[i] /\ P[i - 1] = Costs
      BY <3>1
    <3> HIDE DEF h, P, found
    <3> QED
      BY <2>1, <3>1, <3>2
  <2> QED
    BY <2>2
<1> HIDE DEF found
<1>14. found \in [1 .. n -> Costs]
  BY <1>12, <1>13
<1> QED
  BY <1>12, <1>14 DEF IsTable, found

(* The number of corners on the inner lane, up to ray i.                   *)
InnerUpTo(l, i) == Cardinality({j \in 1 .. i : l[j] = "inner"})

LEMMA CountIsNumber ==
  ASSUME NEW l, NEW i \in Nat PROVE InnerUpTo(l, i) \in 0 .. i
<1>1. IsFiniteSet(1 .. i) /\ Cardinality(1 .. i) = i
  BY FS_Interval
<1>2. {j \in 1 .. i : l[j] = "inner"} \subseteq 1 .. i
  OBVIOUS
<1>3. Cardinality({j \in 1 .. i : l[j] = "inner"}) <= i /\ IsFiniteSet({j \in 1 .. i : l[j] = "inner"})
  BY <1>1, <1>2, FS_Subset
<1>4. Cardinality({j \in 1 .. i : l[j] = "inner"}) \in Nat
  BY <1>3, FS_CardinalityType
<1> QED
  BY <1>3, <1>4 DEF InnerUpTo

LEMMA OneMoreCounts ==
  ASSUME NEW l, NEW i \in Nat \ {0}
  PROVE  InnerUpTo(l, i) = InnerUpTo(l, i - 1) + LaneCost(l[i])
<1> DEFINE before == {j \in 1 .. i - 1 : l[j] = "inner"}
           all == {j \in 1 .. i : l[j] = "inner"}
<1>1. IsFiniteSet(before)
  <2>1. IsFiniteSet(1 .. i - 1) /\ before \subseteq 1 .. i - 1
    BY FS_Interval
  <2> HIDE DEF before
  <2> QED
    BY <2>1, FS_Subset
<1>2. Cardinality(before) \in Nat
  <2> HIDE DEF before
  <2> QED
    BY <1>1, FS_CardinalityType
<1>3. i \notin before
  OBVIOUS
<1>4. CASE l[i] = "inner"
  <2>1. all = before \cup {i}
    BY <1>4
  <2>2. Cardinality(all) = Cardinality(before) + 1
    <3> HIDE DEF before, all
    <3> QED
      BY <1>1, <1>3, <2>1, FS_AddElement
  <2> QED
    BY <1>2, <1>4, <2>2 DEF InnerUpTo, LaneCost
<1>5. CASE l[i] # "inner"
  <2>1. all = before
    BY <1>5
  <2> QED
    <3>1. InnerUpTo(l, i) = InnerUpTo(l, i - 1) /\ LaneCost(l[i]) = 0 /\ InnerUpTo(l, i - 1) \in Nat
      BY <1>2, <1>5, <2>1, Zenon DEF InnerUpTo, LaneCost
    <3> QED
      BY <3>1
<1> QED
  BY <1>4, <1>5

LEMMA FirstCounts == ASSUME NEW l PROVE InnerUpTo(l, 1) = LaneCost(l[1])
<1>1. {j \in 1 .. 0 : l[j] = "inner"} = {}
  OBVIOUS
<1>2. InnerUpTo(l, 0) = 0
  BY <1>1, FS_EmptySet DEF InnerUpTo
<1>3. InnerUpTo(l, 1) = InnerUpTo(l, 1 - 1) + LaneCost(l[1]) /\ 1 - 1 = 0
  BY OneMoreCounts
<1> QED
  BY <1>2, <1>3 DEF LaneCost

(* Lanes on which neighbours keep their distance, up to the last ray.      *)
IsWay(l, n, a) == l \in [1 .. n -> Lanes] /\ \A i \in 1 .. n - 1 : <<i, l[i], l[i + 1]>> \in a

(* No way is cheaper than the table has it.                                *)
LEMMA NoWayIsCheaper ==
  ASSUME NEW n \in 1 .. NoCost - 1, NEW a, NEW l, IsWay(l, n, a),
         NEW cost, IsTable(cost, n, a, l[1])
  PROVE  cost[n][l[n]] <= InnerUpTo(l, n)
<1>0. NoCost \in Nat \ {0} /\ n \in Nat /\ n < NoCost /\ n - 1 \in Nat
  BY RaysAssumption
<1> DEFINE h == [k \in 0 .. n - 1 |-> cost[k + 1][l[k + 1]]]
           P == [k \in 0 .. n - 1 |-> 0 .. InnerUpTo(l, k + 1)]
<1>1. \A i \in 1 .. n : l[i] \in Lanes /\ InnerUpTo(l, i) \in 0 .. i
  BY <1>0, CountIsNumber DEF IsWay
<1>2. \A i \in 1 .. n : cost[i] \in Costs /\ cost[i][l[i]] \in 0 .. NoCost
  BY <1>1 DEF IsTable, Costs
<1>3. h[0] \in P[0]
  <2>1. cost[1][l[1]] = LaneCost(l[1])
    BY <1>0, <1>1 DEF IsTable, FirstCosts
  <2>2. LaneCost(l[1]) \in {0, 1} /\ InnerUpTo(l, 1) = LaneCost(l[1])
    BY FirstCounts DEF LaneCost
  <2> QED
    BY <1>0, <2>1, <2>2
<1>4. ASSUME NEW k \in 1 .. n - 1, h[k - 1] \in P[k - 1] PROVE h[k] \in P[k]
  <2>1. k \in 1 .. n /\ k + 1 \in 2 .. n /\ k - 1 + 1 = k /\ k + 1 - 1 = k /\ k \in 0 .. n - 1
        /\ k - 1 \in 0 .. n - 1 /\ k + 1 \in Nat \ {0} /\ k < NoCost /\ k + 1 \in 1 .. n
    BY <1>0
  <2>2. h[k - 1] = cost[k][l[k]] /\ h[k] = cost[k + 1][l[k + 1]]
        /\ P[k - 1] = 0 .. InnerUpTo(l, k) /\ P[k] = 0 .. InnerUpTo(l, k + 1)
    BY <2>1
  <2> HIDE DEF h, P
  <2>3. cost[k][l[k]] <= InnerUpTo(l, k) /\ InnerUpTo(l, k) \in 0 .. k /\ cost[k][l[k]] < NoCost
    BY <1>0, <1>1, <1>2, <1>4, <2>1, <2>2
  <2>4. cost[k + 1] = NextCosts(k, a, cost[k])
    BY <2>1 DEF IsTable
  <2>5. <<k, l[k], l[k + 1]>> \in a
    BY DEF IsWay
  <2>6. cost[k + 1][l[k + 1]] <= cost[k][l[k]] + LaneCost(l[k + 1])
    BY <1>1, <1>2, <2>1, <2>3, <2>4, <2>5, NextIsCheapest
  <2>7. InnerUpTo(l, k + 1) = InnerUpTo(l, k) + LaneCost(l[k + 1]) /\ LaneCost(l[k + 1]) \in {0, 1}
    BY <2>1, OneMoreCounts DEF LaneCost
  <2>8. cost[k + 1][l[k + 1]] \in 0 .. NoCost /\ cost[k][l[k]] \in 0 .. NoCost
    BY <1>2, <2>1
  <2> QED
    BY <1>0, <2>2, <2>3, <2>6, <2>7, <2>8
<1>5. h[n - 1] \in P[n - 1]
  <2> HIDE DEF h, P
  <2> QED
    BY <1>0, <1>3, <1>4, StepsStay, SMT
<1>6. h[n - 1] = cost[n][l[n]] /\ P[n - 1] = 0 .. InnerUpTo(l, n)
  <2>1. n - 1 \in 0 .. n - 1 /\ n - 1 + 1 = n
    BY <1>0
  <2> QED
    BY <2>1
<1> QED
  BY <1>5, <1>6

GoesBack(way, n, a, cost, last) ==
  /\ way \in [0 .. n - 1 -> Lanes]
  /\ WayBack(n, a, cost, last) = [i \in 1 .. n |-> way[n - i]]
  /\ way[0] = last
  /\ \A k \in 1 .. n - 1 : way[k] = Preferred(Before(n - k, a, cost, way[k - 1]))

LEMMA WayBackGoes ==
  ASSUME NEW n \in Nat \ {0}, NEW a, NEW cost, NEW last \in Lanes
  PROVE  \E way : GoesBack(way, n, a, cost, last)
<1> DEFINE Back(k, lane) == Preferred(Before(n - k, a, cost, lane))
           step == [k \in 1 .. n - 1 |-> [lane \in Lanes |-> Back(k, lane)]]
           IsBack(way) == way = [k \in 0 .. n - 1 |-> IF k = 0 THEN last ELSE Back(k, way[k - 1])]
<1>1. \A k, lane : Back(k, lane) \in Lanes
  BY DEF Preferred, Lanes
<1>2. /\ step \in [1 .. n - 1 -> [Lanes -> Lanes]] /\ n - 1 \in Nat
      /\ \A k \in 1 .. n - 1 : \A lane \in Lanes : step[k][lane] = Back(k, lane)
  <2> HIDE DEF Back
  <2> QED
    BY <1>1
<1> HIDE DEF Back, step
<1>3. PICK g \in [0 .. n - 1 -> Lanes] : g[0] = last /\ \A k \in 1 .. n - 1 : g[k] = step[k][g[k - 1]]
  <2>1. ASSUME NEW X, NEW base \in X, NEW m \in Nat, NEW s \in [1 .. m -> [X -> X]]
        PROVE  \E h \in [0 .. m -> X] : h[0] = base /\ \A k \in 1 .. m : h[k] = s[k][h[k - 1]]
    BY StepsExist, SMT
  <2> QED
    BY <1>2, <2>1, SMT
<1>4. IsBack(g)
  <2>1. \A k \in 1 .. n - 1 : g[k] = Back(k, g[k - 1])
    <3> TAKE k \in 1 .. n - 1
    <3>1. g[k - 1] \in Lanes
      BY <1>3
    <3> QED
      BY <1>2, <1>3, <3>1
  <2>2. \A k \in 0 .. n - 1 : k # 0 => k \in 1 .. n - 1
    OBVIOUS
  <2> QED
    BY <1>3, <2>1, <2>2
<1> DEFINE way == CHOOSE way : IsBack(way)
<1>5. IsBack(way)
  <2> HIDE DEF IsBack
  <2> QED
    BY <1>4
<1>6. WayBack(n, a, cost, last) = [i \in 1 .. n |-> way[n - i]]
  BY DEF WayBack, Back
<1> HIDE DEF way
<1>7. way[0] = last /\ \A k \in 1 .. n - 1 : way[k] = Back(k, way[k - 1])
  <2>1. 0 \in 0 .. n - 1 /\ \A k \in 1 .. n - 1 : k \in 0 .. n - 1 /\ k # 0
    OBVIOUS
  <2> QED
    BY <1>5, <2>1
<1>8. way \in [0 .. n - 1 -> Lanes]
  BY <1>1, <1>5
<1> QED
  BY <1>6, <1>7, <1>8 DEF Back, GoesBack

(* The way back is one of the cheapest.                                    *)
LEMMA WayBackIsCheapest ==
  ASSUME NEW n \in 1 .. NoCost - 1, NEW a, NEW first \in Lanes, NEW last \in Lanes,
         NEW cost, IsTable(cost, n, a, first), cost[n][last] < NoCost
  PROVE  LET l == WayBack(n, a, cost, last)
         IN IsWay(l, n, a) /\ l[1] = first /\ l[n] = last /\ InnerUpTo(l, n) = cost[n][last]
<1>0. NoCost \in Nat \ {0} /\ n \in Nat \ {0} /\ n < NoCost /\ n - 1 \in Nat
  BY RaysAssumption
<1> DEFINE l == WayBack(n, a, cost, last)
<1>1. PICK way : GoesBack(way, n, a, cost, last)
  BY <1>0, WayBackGoes
<1>back. /\ way \in [0 .. n - 1 -> Lanes]
         /\ l = [i \in 1 .. n |-> way[n - i]]
         /\ way[0] = last
         /\ \A k \in 1 .. n - 1 : way[k] = Preferred(Before(n - k, a, cost, way[k - 1]))
  BY <1>1 DEF GoesBack
<1> HIDE DEF l
<1>2. \A i \in 1 .. n : cost[i] \in Costs /\ \A lane \in Lanes : cost[i][lane] \in 0 .. NoCost
  BY DEF IsTable, Costs
<1>3. ASSUME NEW i \in 1 .. n - 1, NEW lane \in Lanes, cost[i + 1][lane] < NoCost
      PROVE  LET p == Preferred(Before(i, a, cost, lane))
             IN <<i, p, lane>> \in a /\ cost[i][p] + LaneCost(lane) = cost[i + 1][lane] /\ cost[i][p] < NoCost
  <2>1. i \in 1 .. n /\ i + 1 \in 2 .. n /\ i + 1 - 1 = i /\ i + 1 \in 1 .. n
    BY <1>0
  <2>2. cost[i + 1] = NextCosts(i, a, cost[i])
    BY <2>1 DEF IsTable
  <2>3. PICK q \in Lanes : <<i, q, lane>> \in a /\ cost[i][q] + LaneCost(lane) = cost[i + 1][lane]
    <3>1. cost[i] \in Costs /\ NextCosts(i, a, cost[i])[lane] < NoCost
      BY <1>2, <1>3, <2>1, <2>2
    <3>2. \E q \in Lanes : <<i, q, lane>> \in a /\ cost[i][q] + LaneCost(lane) = NextCosts(i, a, cost[i])[lane]
      BY <3>1, NextIsCheapest
    <3> QED
      BY <2>2, <3>2
  <2>4. q \in Before(i, a, cost, lane)
    BY <2>3 DEF Before
  <2> DEFINE p == Preferred(Before(i, a, cost, lane))
  <2>5. p \in Before(i, a, cost, lane)
    BY <2>4 DEF Preferred, Before, Lanes
  <2>6. p \in Lanes /\ <<i, p, lane>> \in a /\ cost[i][p] + LaneCost(lane) = cost[i + 1][lane]
    <3> HIDE DEF p
    <3> QED
      BY <2>5 DEF Before
  <2> HIDE DEF p
  <2>7. LaneCost(lane) \in {0, 1} /\ cost[i][p] \in 0 .. NoCost
    BY <1>2, <2>1, <2>6 DEF LaneCost
  <2>8. cost[i][p] < NoCost
    BY <1>0, <1>3, <2>6, <2>7
  <2> QED
    BY <2>6, <2>8 DEF p
<1> DEFINE P == [k \in 0 .. n - 1 |-> {lane \in Lanes : cost[n - k][lane] < NoCost}]
<1>4. \A k \in 0 .. n - 1 : P[k] = {lane \in Lanes : cost[n - k][lane] < NoCost}
  OBVIOUS
<1> HIDE DEF P
<1>5. way[0] \in P[0]
  BY <1>0, <1>back, <1>4
<1>6. ASSUME NEW k \in 1 .. n - 1, way[k - 1] \in P[k - 1]
      PROVE  /\ <<n - k, way[k], way[k - 1]>> \in a
             /\ cost[n - k][way[k]] + LaneCost(way[k - 1]) = cost[n - k + 1][way[k - 1]]
             /\ way[k] \in P[k]
  <2>1. n - k \in 1 .. n - 1 /\ k - 1 \in 0 .. n - 1 /\ k \in 0 .. n - 1 /\ n - (k - 1) = n - k + 1
    BY <1>0
  <2>2. way[k - 1] \in Lanes /\ cost[n - k + 1][way[k - 1]] < NoCost
    BY <1>4, <1>6, <2>1
  <2>3. way[k] = Preferred(Before(n - k, a, cost, way[k - 1])) /\ way[k] \in Lanes
    BY <1>back, <2>1
  <2> QED
    BY <1>3, <1>4, <2>1, <2>2, <2>3
<1>7. \A k \in 0 .. n - 1 : way[k] \in P[k]
  <2> TAKE m \in 0 .. n - 1
  <2>1. m \in Nat /\ \A k \in 1 .. m : k \in 1 .. n - 1
    BY <1>0
  <2>2. \A k \in 1 .. m : way[k - 1] \in P[k - 1] => way[k] \in P[k]
    BY <1>6, <2>1
  <2> QED
    BY <1>5, <2>1, <2>2, StepsStay, Zenon
<1>8. \A i \in 1 .. n : l[i] = way[n - i] /\ n - i \in 0 .. n - 1 /\ l[i] \in Lanes
  BY <1>0, <1>back
<1>9. ASSUME NEW i \in 1 .. n - 1
      PROVE  /\ <<i, l[i], l[i + 1]>> \in a
             /\ cost[i][l[i]] + LaneCost(l[i + 1]) = cost[i + 1][l[i + 1]]
  <2> DEFINE k == n - i
  <2>1. k \in 1 .. n - 1 /\ n - k = i /\ n - (i + 1) = k - 1 /\ i \in 1 .. n /\ i + 1 \in 1 .. n
        /\ k - 1 \in 0 .. n - 1 /\ n - i = k
    BY <1>0
  <2> HIDE DEF k
  <2>2. l[i] = way[k] /\ l[i + 1] = way[k - 1]
    BY <1>8, <2>1
  <2> QED
    BY <1>6, <1>7, <2>1, <2>2
<1>10. l[1] = first /\ cost[1][l[1]] = LaneCost(l[1])
  <2>1. 1 \in 1 .. n /\ n - 1 \in 0 .. n - 1 /\ n - (n - 1) = 1
    BY <1>0
  <2>2. cost[1][l[1]] < NoCost /\ l[1] \in Lanes
    BY <1>4, <1>7, <1>8, <2>1
  <2>3. cost[1] = FirstCosts(first)
    BY DEF IsTable
  <2> QED
    BY <1>0, <2>2, <2>3 DEF FirstCosts
<1>11. l[n] = last
  BY <1>0, <1>back, <1>8
<1>12. IsWay(l, n, a)
  BY <1>back, <1>8, <1>9 DEF IsWay
<1>13. InnerUpTo(l, n) = cost[n][last]
  <2> DEFINE h == [k \in 0 .. n - 1 |-> InnerUpTo(l, k + 1)]
             Q == [k \in 0 .. n - 1 |-> {cost[k + 1][l[k + 1]]}]
  <2>1. h[0] \in Q[0]
    BY <1>0, <1>10, FirstCounts
  <2>2. ASSUME NEW k \in 1 .. n - 1, h[k - 1] \in Q[k - 1] PROVE h[k] \in Q[k]
    <3>1. k + 1 - 1 = k /\ k - 1 + 1 = k /\ k + 1 \in Nat \ {0} /\ k \in 0 .. n - 1 /\ k - 1 \in 0 .. n - 1
      BY <1>0
    <3>2. h[k - 1] = InnerUpTo(l, k) /\ h[k] = InnerUpTo(l, k + 1)
          /\ Q[k - 1] = {cost[k][l[k]]} /\ Q[k] = {cost[k + 1][l[k + 1]]}
      BY <3>1
    <3>3. InnerUpTo(l, k + 1) = InnerUpTo(l, k) + LaneCost(l[k + 1])
      BY <3>1, OneMoreCounts
    <3> HIDE DEF h, Q
    <3> QED
      BY <1>9, <2>2, <3>2, <3>3
  <2>3. h[n - 1] \in Q[n - 1]
    <3> HIDE DEF h, Q
    <3> QED
      BY <1>0, <2>1, <2>2, StepsStay, Zenon
  <2>4. n - 1 \in 0 .. n - 1 /\ n - 1 + 1 = n
    BY <1>0
  <2>5. h[n - 1] = InnerUpTo(l, n) /\ Q[n - 1] = {cost[n][l[n]]}
    BY <2>4
  <2> HIDE DEF h, Q
  <2> QED
    BY <1>11, <2>3, <2>5
<1> QED
  BY <1>10, <1>11, <1>12, <1>13 DEF l


(* A cheapest of four choices, the first one if there are several.         *)
LEMMA BestIsCheapest ==
  ASSUME NEW S, S \subseteq 1 .. 4, S # {}, NEW c, \A k \in S : c[k] \in Nat
  PROVE  LET best == Min({k \in S : \A l \in S : c[k] <= c[l]})
         IN best \in S /\ \A l \in S : c[best] <= c[l]
<1>1. PICK m \in S : \A l \in S : c[m] <= c[l]
  <2>1. {c[k] : k \in S} \subseteq Nat /\ {c[k] : k \in S} # {}
    OBVIOUS
  <2>2. PICK x \in {c[k] : k \in S} : \A y \in {c[k] : k \in S} : x <= y
    BY <2>1, LeastNumber
  <2> QED
    BY <2>2
<1> DEFINE T == {k \in S : \A l \in S : c[k] <= c[l]}
<1>2. T \subseteq Nat
  <2>1. S \subseteq Nat
    OBVIOUS
  <2> QED
    BY <2>1, Zenon
<1>3. m \in T
  BY <1>1
<1>4. Min(T) \in T
  <2> HIDE DEF T
  <2> QED
    BY <1>2, <1>3, MinIsLeast
<1> QED
  BY <1>4

(* The lanes that a cell gets.                                             *)
LEMMA BestLanes ==
  ASSUME NEW n \in 1 .. NoCost - 1, NEW a, NEW l, IsWay(l, n, a), <<n, l[n], l[1]>> \in a
  PROVE  LET best == repair_cell_radii(n, a)
         IN IsWay(best, n, a) /\ <<n, best[n], best[1]>> \in a /\ InnerUpTo(best, n) <= InnerUpTo(l, n)
<1>0. NoCost \in Nat \ {0} /\ n \in Nat \ {0} /\ n < NoCost /\ 1 \in 1 .. n /\ n \in 1 .. n
  BY RaysAssumption
<1> DEFINE cost == [first \in Lanes |-> CheapestTo(n, a, first)]
           First(k) == Ends[k][1]
           End(k) == Ends[k][2]
           closing == {k \in DOMAIN Ends : Closes(n, a, cost[First(k)], First(k), End(k))}
           Cost(k) == cost[First(k)][n][End(k)]
           c == [k \in closing |-> Cost(k)]
           best == Min({k \in closing : \A m \in closing : Cost(k) <= Cost(m)})
<1>1. DOMAIN Ends = 1 .. 4 /\ \A k \in 1 .. 4 : First(k) \in Lanes /\ End(k) \in Lanes
  BY DEF Ends, Lanes
<1>2. \A first \in Lanes : \A last \in Lanes : \E k \in 1 .. 4 : First(k) = first /\ End(k) = last
  BY DEF Ends, Lanes
<1>3. \A first \in Lanes : cost[first] = CheapestTo(n, a, first) /\ IsTable(cost[first], n, a, first)
  BY <1>0, TablesExist
<1> HIDE DEF cost, First, End
<1>4. \A k \in closing : /\ k \in 1 .. 4 /\ First(k) \in Lanes /\ End(k) \in Lanes
                         /\ Cost(k) < NoCost /\ <<n, End(k), First(k)>> \in a
  BY <1>1 DEF Closes
<1>5. \A k \in closing : Cost(k) \in Nat /\ c[k] = Cost(k)
  <2> TAKE k \in closing
  <2>1. cost[First(k)] \in [1 .. n -> Costs]
    BY <1>3, <1>4 DEF IsTable
  <2>2. cost[First(k)][n][End(k)] \in 0 .. NoCost
    BY <1>0, <1>4, <2>1 DEF Costs
  <2> QED
    BY <1>0, <2>2
<1>6. l[1] \in Lanes /\ l[n] \in Lanes
  BY <1>0 DEF IsWay
<1>7. PICK k \in 1 .. 4 : First(k) = l[1] /\ End(k) = l[n]
  BY <1>2, <1>6
<1>8. Cost(k) <= InnerUpTo(l, n) /\ InnerUpTo(l, n) \in 0 .. n
  BY <1>0, <1>3, <1>6, <1>7, NoWayIsCheaper, CountIsNumber
<1>9. Cost(k) < NoCost
  <2>1. cost[l[1]] \in [1 .. n -> Costs]
    BY <1>3, <1>6 DEF IsTable
  <2>2. cost[l[1]][n][l[n]] \in 0 .. NoCost
    BY <1>0, <1>6, <2>1 DEF Costs
  <2> QED
    BY <1>0, <1>7, <1>8, <2>2
<1>10. k \in closing
  BY <1>1, <1>7, <1>9 DEF Closes
<1> HIDE DEF closing
<1>11. best \in closing /\ \A m \in closing : Cost(best) <= Cost(m)
  <2>1. closing \subseteq 1 .. 4 /\ closing # {} /\ \A m \in closing : c[m] \in Nat
    BY <1>4, <1>5, <1>10
  <2>2. {m \in closing : \A j \in closing : c[m] <= c[j]} = {m \in closing : \A j \in closing : Cost(m) <= Cost(j)}
    BY <1>5
  <2> DEFINE b == Min({m \in closing : \A j \in closing : c[m] <= c[j]})
  <2>3. b \in closing /\ \A m \in closing : c[b] <= c[m]
    <3> HIDE DEF c, Cost
    <3> QED
      BY <2>1, BestIsCheapest
  <2>4. b = best
    BY <2>2
  <2> HIDE DEF b, best, c, Cost
  <2> QED
    BY <1>5, <2>3, <2>4
<1>12. repair_cell_radii(n, a) = WayBack(n, a, cost[First(best)], End(best))
  <2>1. closing # {}
    BY <1>10
  <2> QED
    BY <2>1 DEF repair_cell_radii, cost, First, End, closing
<1> HIDE DEF best
<1> DEFINE w == WayBack(n, a, cost[First(best)], End(best))
<1>13. /\ IsWay(w, n, a) /\ w[1] = First(best) /\ w[n] = End(best)
       /\ InnerUpTo(w, n) = cost[First(best)][n][End(best)]
  <2>1. First(best) \in Lanes /\ End(best) \in Lanes /\ cost[First(best)][n][End(best)] < NoCost
    BY <1>4, <1>11
  <2>2. IsTable(cost[First(best)], n, a, First(best))
    BY <1>3, <2>1
  <2> HIDE DEF Cost, c
  <2> QED
    BY <2>1, <2>2, WayBackIsCheapest
<1> HIDE DEF w
<1>14. InnerUpTo(w, n) <= InnerUpTo(l, n)
  <2>1. Cost(best) <= Cost(k) /\ Cost(best) \in Nat /\ Cost(k) \in Nat
    BY <1>5, <1>10, <1>11
  <2> QED
    BY <1>8, <1>13, <2>1
<1>15. <<n, w[n], w[1]>> \in a
  BY <1>4, <1>11, <1>13
<1> QED
  BY <1>12, <1>13, <1>14, <1>15 DEF w

(* Neighbours around the junction are neighbours along the rays, and the   *)
(* last and the first one.                                                 *)
LEMMA WaysAround ==
  ASSUME NEW l, rays \in Nat \ {0}, l \in [1 .. rays -> Lanes]
  PROVE  IsApart(l) <=> IsWay(l, rays, apart) /\ <<rays, l[rays], l[1]>> \in apart
<1>1. ASSUME NEW n \in Nat \ {0} PROVE (n % n) + 1 = 1 /\ \A i \in 1 .. n - 1 : (i % n) + 1 = i + 1
  OBVIOUS
<1>2. (rays % rays) + 1 = 1 /\ \A i \in 1 .. rays - 1 : (i % rays) + 1 = i + 1
  BY <1>1
<1>3. \A i \in 1 .. rays : i = rays \/ i \in 1 .. rays - 1
  OBVIOUS
<1>4. rays \in 1 .. rays /\ \A i \in 1 .. rays - 1 : i \in 1 .. rays
  OBVIOUS
<1> QED
  BY <1>2, <1>3, <1>4 DEF IsApart, IsWay

CellInv == rays \in RayCounts /\ (lanes # NotChosen => lanes = repair_cell_radii(rays, apart))

LEMMA ChosenLanes == CellSpec => []CellInv
<1>1. CellInit => CellInv
  BY DEF CellInit, CellInv
<1>2. CellInv /\ [ChooseLanes]_cell => CellInv'
  BY DEF CellInv, ChooseLanes, cell
<1> QED
  BY <1>1, <1>2, PTL DEF CellSpec

(* Whatever rays there are and whichever lanes keep which of them apart, a *)
(* cell gets lanes that keep all apart if there are any, and of those ones *)
(* with the fewest corners on the inner lane (repair_cell_radii).          *)
THEOREM CellsAreBest == CellSpec => []LanesAreOptimal
<1>1. CellInv => LanesAreOptimal
  <2> SUFFICES ASSUME CellInv, lanes # NotChosen,
                      NEW l \in [1 .. rays -> Lanes], IsApart(l)
               PROVE  /\ lanes \in [1 .. rays -> Lanes] /\ IsApart(lanes)
                      /\ InnerCount(lanes) <= InnerCount(l)
    BY DEF LanesAreOptimal
  <2>1. rays \in 1 .. NoCost - 1 /\ rays \in Nat \ {0}
    BY RaysAssumption DEF CellInv
  <2>2. lanes = repair_cell_radii(rays, apart)
    BY DEF CellInv
  <2>3. IsWay(l, rays, apart) /\ <<rays, l[rays], l[1]>> \in apart
    BY <2>1, WaysAround
  <2>4. /\ IsWay(lanes, rays, apart) /\ <<rays, lanes[rays], lanes[1]>> \in apart
        /\ InnerUpTo(lanes, rays) <= InnerUpTo(l, rays)
    BY <2>1, <2>2, <2>3, BestLanes
  <2>5. lanes \in [1 .. rays -> Lanes]
    BY <2>4 DEF IsWay
  <2> QED
    BY <2>1, <2>4, <2>5, WaysAround DEF InnerUpTo, InnerCount
<1> QED
  BY <1>1, ChosenLanes, PTL

=============================================================================
