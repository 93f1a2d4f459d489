----------------------------- MODULE MCCropTile -----------------------------
(***************************************************************************)
(* Instances of CropTile and of SelectPointCloud, the choice that it makes *)
(* for each building, for TLC.                                             *)
(***************************************************************************)
EXTENDS CropTile, SelectPointCloud

\* No points, one on a roof with a gap and ground only far away, and everything.
SomeContents ==
  {[building |-> 0, ground |-> {}, nodata |-> 1],
   [building |-> 1, ground |-> {"near"}, nodata |-> 1],
   [building |-> 2, ground |-> {"inside", "buffer"}, nodata |-> 0]}

\* Unknown, and years that are later than one or both of the Dates.
SomeYocs == {UNKNOWN, 1, 2}

\* Every value of each parameter, and a missing attribute under the two
\* strategies that need it.
SomeConfigs ==
  {<<"BUFFER_TILE", {}, FALSE, 0>>, <<"BUFFER_USER", Clouds, TRUE, 1>>,
   <<"BUFFER_USER", {}, FALSE, 0>>, <<"USER", {}, TRUE, 0>>,
   <<"USER", Clouds, FALSE, 1>>}

\* Bound: no tile fails right after another that did.
FailsOnce == ~ (leftover /\ leftover' /\ N_fp > 0 /\ N_fp' = 0)

(* What is cropped does not depend on how a point cloud is chosen: either  *)
(* tiles are cropped while one choice rests, or every choice is made once  *)
(* before the first tile.                                                  *)
AnyChoice == CHOOSE c \in [Index -> CandidatePointCloud] : TRUE
NoChoice == stage = "select" /\ ipc = AnyChoice /\ mutated = {} /\ yoc = UNKNOWN

NothingCropped ==
  /\ pc = "tile" /\ tile = 1 /\ ~leftover
  /\ config = <<"BUFFER_TILE", {}, FALSE, 0>>

CropOrSelectInit ==
  Init /\ config \in SomeConfigs /\ SelectInit /\ (NoChoice \/ NothingCropped)

CropOrSelectNext ==
  \/ NoChoice /\ Next /\ FailsOnce /\ UNCHANGED selectVars
  \/ NothingCropped /\ SelectNext /\ UNCHANGED vars

CropOrSelectSpec == CropOrSelectInit /\ [][CropOrSelectNext]_<<vars, selectVars>>
=============================================================================
