------------------------- MODULE ReconstructBuilding -------------------------
(***************************************************************************)
(* The control of one reconstruction task: the task in roofer-app.cpp that *)
(* calls reconstruct_building (reconstruct_building.hpp), which turns one  *)
(* BuildingObject into one that is decided. It is what the workers of      *)
(* RooferPipeline do between WorkerTake and WorkerFinish. The geometry is  *)
(* abstracted to what it was made from, and each step of it may throw.     *)
(***************************************************************************)
EXTENDS FiniteSets

CONSTANT Throws         \* whether the steps of the reconstruction may throw

ASSUME ReconstructAssumption == Throws \in BOOLEAN

LOD == {"lod12", "lod13", "lod22"}
ExtrusionMode == {"STANDARD", "LOD11_FALLBACK", "SKIP", "FAIL"}
NoMesh == [from |-> "none", height |-> "none"]

VARIABLES
  lods, clear_if_insufficient,       \* of the configuration
  min_building_density,              \* whether it is above 0
  has_points,                        \* of the building class in the footprint
  roof_type,                         \* what the plane detector will find
  h_ground, roof_h_fallback,         \* whether they have a value
  extrusion_mode, pointcloud_insufficient, progress,
  multisolids,                       \* one mesh per level of detail
  rmse, volume,                      \* those that have a value
  roof_elevation_70p,
  pc

cfg == <<lods, clear_if_insufficient, min_building_density, has_points,
         roof_type, h_ground, roof_h_fallback>>
vars == <<cfg, extrusion_mode, pointcloud_insufficient, progress, multisolids,
          rmse, volume, roof_elevation_70p, pc>>

\* A block from the floor to a height: the fallback of the user, or what the
\* rasters of the crop gave, which is 0 without points.
Block(height) == [from |-> "block", height |-> height]
\* The roof of the planes, extruded for one level of detail.
Roof(lod) == [from |-> lod, height |-> "planes"]
NoRoof == [lod \in LOD |-> NoMesh]
-----------------------------------------------------------------------------
Init ==
  /\ lods \in SUBSET LOD
  /\ clear_if_insufficient \in BOOLEAN
  /\ min_building_density \in BOOLEAN
  /\ has_points \in BOOLEAN
  /\ roof_type \in {"no points", "no planes", "slanted"}
  /\ roof_type # "no points" => has_points
  \* CropTile: FloorUnlessNoPoints.
  /\ h_ground \in {TRUE, has_points}
  /\ roof_h_fallback \in BOOLEAN
  /\ extrusion_mode \in {"STANDARD", "LOD11_FALLBACK"}
  \* CropTile: InsufficientByOwnData.
  /\ pointcloud_insufficient \in BOOLEAN
  /\ min_building_density /\ ~ has_points => pointcloud_insufficient
  /\ progress = "RECONSTRUCTION_IN_PROGRESS"
  /\ multisolids = NoRoof
  /\ rmse = {}
  /\ volume = {}
  /\ roof_elevation_70p = "none"
  /\ pc = "start"

\* The task's try block ends without an exception.
Succeed ==
  /\ progress' = "RECONSTRUCTION_SUCCEEDED"
  /\ pc' = "done"

\* Mutant: what the cropper found of the points is not looked at.
SkippedIfAsked == clear_if_insufficient

\* Each mode goes its way. An insufficient point cloud overrules the forcing
\* of LoD 1.1.
Skipped == pointcloud_insufficient /\ clear_if_insufficient

Dispatch ==
  /\ pc = "start"
  /\ extrusion_mode' = IF Skipped THEN "SKIP" ELSE extrusion_mode
  /\ \/ extrusion_mode' = "SKIP" /\ pc' = "skip"
     \/ extrusion_mode' = "LOD11_FALLBACK" /\ pc' = "lod11_pc"
     \/ extrusion_mode' = "STANDARD" /\ pc' = "detect"
  /\ UNCHANGED <<cfg, pointcloud_insufficient, progress, multisolids, rmse,
                 volume, roof_elevation_70p>>

\* Mutant: the fallback is for buildings whose points are good enough.
HeightsOfSufficient == h_ground /\ roof_h_fallback /\ ~ pointcloud_insufficient

BothHeights == h_ground /\ roof_h_fallback

\* "Without both no geometry can be built, so the building is left empty."
Skip ==
  /\ pc = "skip"
  /\ IF BothHeights THEN pc' = "lod11_fallback" /\ UNCHANGED progress
                    ELSE Succeed
  /\ UNCHANGED <<cfg, extrusion_mode, pointcloud_insufficient, multisolids,
                 rmse, volume, roof_elevation_70p>>

\* extrude_lod11. The meshes are there before their properties and the volume
\* and the distances are computed, each of which may throw. It is called from
\* the handler for exceptions of the plane detection, too.
Extrude11(height) ==
  /\ multisolids' = [lod \in LOD |-> Block(height)]
  /\ rmse' = LOD
  /\ volume' = LOD
  /\ extrusion_mode' = "LOD11_FALLBACK"
  /\ roof_elevation_70p' = "pc"
  /\ Succeed

Extrude11Throws(height) ==
  /\ Throws
  /\ multisolids' \in {multisolids, [lod \in LOD |-> Block(height)]}
  /\ volume' \in {volume, volume \cup {"lod12"}}
  /\ rmse' \in {rmse, rmse \cup {"lod12"}}
  /\ volume' # volume => multisolids' # NoRoof
  /\ rmse' # rmse => "lod12" \in volume'
  /\ UNCHANGED <<extrusion_mode, roof_elevation_70p, progress>>

\* Forced, or after an exception of the plane detection: an exception now
\* leaves reconstruct_building.
Lod11FromPoints ==
  /\ pc = "lod11_pc"
  /\ \/ Extrude11("pc")
     \/ Extrude11Throws("pc") /\ pc' = "catch"
  /\ UNCHANGED <<cfg, pointcloud_insufficient>>

\* From the skipped buildings an exception leaves reconstruct_building, from
\* those in which no plane was found it is one of the plane detection.
Lod11FromFallback ==
  /\ pc \in {"lod11_fallback", "detected_fallback"}
  /\ \/ Extrude11("fallback")
     \/ /\ Extrude11Throws("fallback")
        /\ pc' = IF pc = "lod11_fallback" THEN "catch" ELSE "lod11_pc"
  /\ UNCHANGED <<cfg, pointcloud_insufficient>>

\* Plane detection. Without a plane the building is skipped after all; here
\* only the fallback height is looked at.
Detect ==
  /\ pc = "detect"
  /\ roof_elevation_70p' = "planes"
  /\ IF roof_type = "slanted"
     THEN /\ pc' = "lod12"
          /\ UNCHANGED <<extrusion_mode, pointcloud_insufficient, progress>>
     ELSE /\ extrusion_mode' = "SKIP"
          /\ pointcloud_insufficient' = TRUE
          /\ IF roof_h_fallback
             THEN pc' = "detected_fallback" /\ UNCHANGED progress
             ELSE Succeed
  /\ UNCHANGED <<cfg, multisolids, rmse, volume>>

DetectThrows ==
  /\ pc = "detect"
  /\ Throws
  /\ pc' = "lod11_pc"
  /\ UNCHANGED <<cfg, extrusion_mode, pointcloud_insufficient, progress,
                 multisolids, rmse, volume, roof_elevation_70p>>

\* The levels of detail, one after the other; the properties of the meshes are
\* computed with the last. The roof's lines and their partition, which all
\* share, are part of the first.
Following(lod) == IF lod = "lod12" THEN "lod13"
                  ELSE IF lod = "lod13" THEN "lod22" ELSE "done"

WithRoof(lod) == [multisolids EXCEPT ![lod] = Roof(lod)]

Extrude22(lod) ==
  /\ pc = lod
  /\ IF lod \in lods
     THEN /\ multisolids' = WithRoof(lod)
          /\ volume' = volume \cup {lod}
          /\ rmse' = rmse \cup {lod}
     ELSE UNCHANGED <<multisolids, volume, rmse>>
  /\ IF Following(lod) = "done" THEN Succeed
                                ELSE pc' = Following(lod) /\ UNCHANGED progress
  /\ UNCHANGED <<cfg, extrusion_mode, pointcloud_insufficient,
                 roof_elevation_70p>>

\* The mesh is assigned when its volume and distances are there.
Extrude22Throws(lod) ==
  /\ pc = lod
  /\ Throws
  /\ IF lod \in lods
     THEN \/ UNCHANGED <<multisolids, volume, rmse>>
          \/ volume' = volume \cup {lod} /\ UNCHANGED <<multisolids, rmse>>
          \/ /\ volume' = volume \cup {lod}
             /\ rmse' = rmse \cup {lod}
             /\ \/ UNCHANGED multisolids
                \/ /\ lod = "lod22"
                   /\ multisolids' = WithRoof(lod)
     ELSE lod = "lod12" /\ UNCHANGED <<multisolids, volume, rmse>>
  /\ pc' = "catch"
  /\ UNCHANGED <<cfg, extrusion_mode, pointcloud_insufficient, progress,
                 roof_elevation_70p>>

\* Mutant: the meshes that are there are kept.
KeepMeshes == UNCHANGED multisolids

ClearMeshes == multisolids' = NoRoof

\* The task's handlers.
Catch ==
  /\ pc = "catch"
  /\ ClearMeshes
  /\ progress' = "RECONSTRUCTION_FAILED"
  /\ extrusion_mode' = "FAIL"
  /\ pc' = "done"
  /\ UNCHANGED <<cfg, pointcloud_insufficient, rmse, volume,
                 roof_elevation_70p>>

Next ==
  \/ Dispatch
  \/ Skip
  \/ Lod11FromPoints
  \/ Lod11FromFallback
  \/ Detect
  \/ DetectThrows
  \/ \E lod \in LOD : Extrude22(lod) \/ Extrude22Throws(lod)
  \/ Catch

Spec == Init /\ [][Next]_vars
-----------------------------------------------------------------------------
(* Properties.                                                              *)

Meshes == {NoMesh} \cup [from : {"block"}, height : {"pc", "fallback"}]
                   \cup {Roof(lod) : lod \in LOD}

TypeOK ==
  /\ extrusion_mode \in ExtrusionMode
  /\ progress \in {"RECONSTRUCTION_IN_PROGRESS", "RECONSTRUCTION_SUCCEEDED",
                   "RECONSTRUCTION_FAILED"}
  /\ progress = "RECONSTRUCTION_IN_PROGRESS" <=> pc # "done"
  /\ multisolids \in [LOD -> Meshes]
  /\ rmse \subseteq LOD
  /\ volume \subseteq LOD
  /\ roof_elevation_70p \in {"none", "planes", "pc"}

\* config.hpp on the attribute extrusion_mode: "`standard`: the regular LoD
\* 1.2, 1.3 or 2.2 extrusion. `lod11_fallback`: all geometry was substituted
\* with an LoD 1.1 extrusion. `skip`: no 3D geometry was generated". A failed
\* building has none either, whichever step threw.
ModeDescribesGeometry ==
  pc = "done" =>
    /\ extrusion_mode = "STANDARD" =>
         multisolids = [lod \in LOD |-> IF lod \in lods THEN Roof(lod)
                                                        ELSE NoMesh]
    /\ extrusion_mode = "LOD11_FALLBACK" =>
         \E h \in {"pc", "fallback"} : multisolids = [lod \in LOD |-> Block(h)]
    /\ extrusion_mode \in {"SKIP", "FAIL"} => multisolids = NoRoof

\* config.hpp, clear-insufficient: "If `--h-roof-attribute` is set, an LoD 1.1
\* extrusion will be performed, otherwise no 3D model will be generated." With
\* a value of it and a floor no building is left without a model, at whatever
\* step its points turn out to be insufficient.
EmptyOnlyWithoutHeights ==
  pc = "done" /\ extrusion_mode = "SKIP" => ~ (h_ground /\ roof_h_fallback)

\* What fallback height a building is given is used only if its points are not.
FallbackOnlyIfInsufficient ==
  \A lod \in LOD :
    multisolids[lod] = Block("fallback") => pointcloud_insufficient

\* config.hpp on rmse_lod12 and volume_lod12: "of the LOD12 geometry". Unless
\* the building failed, they are written for the geometry that is there.
MeasuresHaveGeometry ==
  pc = "done" /\ extrusion_mode # "FAIL" =>
    /\ rmse = {lod \in LOD : multisolids[lod] # NoMesh}
    /\ volume = rmse

\* config.hpp on h-roof-attribute: "fallback roof height for buildings in case
\* no roof height can be derived from the pointcloud". Without points the
\* rasters of the crop yield 0; with clear-insufficient, and a density that a
\* building without points does not have, no block has it.
FallbackWithoutPoints ==
  pc = "done" /\ clear_if_insufficient /\ min_building_density /\ ~ has_points =>
    \A lod \in LOD : multisolids[lod] # Block("pc")
=============================================================================
