-------------------------- MODULE SelectPointCloud --------------------------
(***************************************************************************)
(* The choice of the point cloud one building is reconstructed from:       *)
(* selectPointCloud and getLatestPointCloud (select_pointcloud.cpp) and    *)
(* the part of crop_tile that calls them. One behaviour is one building.   *)
(*                                                                         *)
(* A loop over a sorted vector that stops at the first candidate with P    *)
(* returns a least candidate with P. std::sort leaves the order of equal   *)
(* candidates open, and the three vectors are sorted on their own.         *)
(***************************************************************************)
EXTENDS Integers, FiniteSets

CONSTANTS
  N,                    \* input point clouds
  Qualities, Dates, NoDataFractions, NoDataRadii, Yocs,   \* sets of integers
  threshold_nodata, threshold_maxcircle

ASSUME SelectAssumption ==
  /\ N \in Nat \ {0}
  /\ Qualities \subseteq Int /\ Dates \subseteq Int /\ Yocs \subseteq Int
  /\ NoDataFractions \subseteq Int /\ NoDataRadii \subseteq Int
  /\ threshold_nodata \in Int /\ threshold_maxcircle \in Int

Index == 1..N
UNKNOWN == -1           \* building_yoc if the year of construction is unknown

Unselected == 0

Explanation ==
  {"NONE", "PREFERRED_AND_LATEST", "PREFERRED_NOT_LATEST",
   "LATEST_WITH_MUTATION", "_HIGHEST_YET_INSUFFICIENT_COVERAGE", "_LATEST"}

CandidatePointCloud ==
  [quality : Qualities, date : Dates, nodata_fraction : NoDataFractions,
   nodata_radius : NoDataRadii, select_only_for_date : BOOLEAN]

VARIABLES
  ipc,          \* the point clouds, as they are for this building
  mutated,      \* the pairs of point clouds whose rasters differ
  yoc,          \* year of construction
  selected, explanation,
  preferred,    \* what selectPointCloud returned, before the year is looked at
  stage

selectVars == <<ipc, mutated, yoc, selected, explanation, preferred, stage>>
-----------------------------------------------------------------------------
\* The rasters of one building have one footprint mask: what differs does so
\* in both directions, and a raster does not differ from itself.
Rasters == {{i, j} : i, j \in Index} \ {{i} : i \in Index}

isMutated(i, j) == {i, j} \in mutated

candidates == {i \in Index : ~ ipc[i].select_only_for_date}
candidates_just_for_data == {i \in Index : ipc[i].select_only_for_date}

hasEnoughPointCoverage(i) ==
  /\ ipc[i].nodata_fraction <= threshold_nodata
  /\ ipc[i].nodata_radius <= threshold_maxcircle

Sufficient == {i \in candidates : hasEnoughPointCoverage(i)}

\* Where the loop over each vector may find its first candidate of S.
FirstByQuality(S) == {i \in S : \A j \in S : ipc[i].quality <= ipc[j].quality}
FirstByDate(S) == {i \in S : \A j \in S : ipc[i].date >= ipc[j].date}
FirstByNoDataFraction(S) ==
  {i \in S : \A j \in S : ipc[i].nodata_fraction <= ipc[j].nodata_fraction}

getLatestPointCloud(S) == FirstByDate(S)

\* No candidate has sufficient coverage: of those that are not mutated with
\* respect to the latest, the one with the highest coverage.
HighestCoverage(s) ==
  \E latest \in FirstByDate(candidates) :
    s \in FirstByNoDataFraction({i \in candidates : ~ isMutated(i, latest)})

\* Mutant: the best, mutated or not.
PreferredOnly(s, e) ==
  /\ s \in FirstByQuality(Sufficient)
  /\ e = "PREFERRED_NOT_LATEST"

\* Mutant: the latest, whatever its quality.
LatestOnly(s, e) ==
  /\ s \in FirstByDate(Sufficient)
  /\ e = "PREFERRED_AND_LATEST"

\* The best sufficient candidate, unless it is mutated with respect to the
\* latest sufficient one.
PreferredOrLatest(s, e) ==
  \E best \in FirstByQuality(Sufficient), latest \in FirstByDate(Sufficient) :
    \/ /\ best = latest
       /\ s = best /\ e = "PREFERRED_AND_LATEST"
    \/ /\ best # latest
       /\ isMutated(best, latest)
       /\ s = latest /\ e = "LATEST_WITH_MUTATION"
    \/ /\ best # latest
       /\ ~ isMutated(best, latest)
       /\ s = best /\ e = "PREFERRED_NOT_LATEST"

selectPointCloud(s, e) ==
  \/ /\ Sufficient = {}
     /\ HighestCoverage(s)
     /\ e = "_HIGHEST_YET_INSUFFICIENT_COVERAGE"
  \/ /\ Sufficient # {}
     /\ PreferredOrLatest(s, e)

\* The point cloud before the year of construction is looked at: without a
\* regular candidate the latest of those that are there for their date.
Preferred(s, e) ==
  \/ /\ candidates = {}
     /\ s \in getLatestPointCloud(candidates_just_for_data)
     /\ e = "_LATEST"
  \/ /\ candidates # {}
     /\ selectPointCloud(s, e)

\* A building from after the point cloud s gets the latest point cloud, also
\* if it is one that was given for its date only. With such point clouds only,
\* s is their latest already.
BuiltAfter(s) == yoc # UNKNOWN /\ yoc > ipc[s].date

LatestFor(s, u) ==
  \E v \in IF candidates = {} THEN {s} ELSE getLatestPointCloud(candidates) :
    \/ /\ candidates_just_for_data # {}
       /\ u \in getLatestPointCloud(candidates_just_for_data)
       /\ ipc[u].date > ipc[v].date
    \/ /\ \A w \in candidates_just_for_data : ipc[w].date <= ipc[v].date
       /\ u = v
-----------------------------------------------------------------------------
SelectInit ==
  /\ ipc \in [Index -> CandidatePointCloud]
  /\ mutated \in SUBSET Rasters
  /\ yoc \in Yocs
  /\ selected = Unselected
  /\ preferred = Unselected
  /\ explanation = "NONE"
  /\ stage = "select"

Select ==
  /\ stage = "select"
  /\ \E s \in Index, e \in Explanation :
       /\ Preferred(s, e)
       /\ selected' = s
       /\ preferred' = s
       /\ explanation' = e
  /\ stage' = "check_yoc"
  /\ UNCHANGED <<ipc, mutated, yoc>>

CheckYoc ==
  /\ stage = "check_yoc"
  /\ IF BuiltAfter(selected)
     THEN /\ \E u \in Index : LatestFor(selected, u) /\ selected' = u
          /\ explanation' = "_LATEST"
     ELSE UNCHANGED <<selected, explanation>>
  /\ stage' = "done"
  /\ UNCHANGED <<ipc, mutated, yoc, preferred>>

\* Building and point clouds stay as they are.
SelectNext == Select \/ CheckYoc

SelectSpec == SelectInit /\ [][SelectNext]_selectVars
-----------------------------------------------------------------------------
(* Properties.                                                              *)

\* select_pointcloud.hpp: "poor coverage candidates are eliminated". A point
\* cloud with a gap is selected only if there is no other.
PoorCoverageEliminated ==
  LET covered == {i \in candidates :
                    /\ ipc[i].nodata_fraction <= threshold_nodata
                    /\ ipc[i].nodata_radius <= threshold_maxcircle}
  IN  preferred \in candidates /\ covered # {} => preferred \in covered

\* select_pointcloud.cpp: if two point clouds are different "that means that the
\* object has changed and the selected point cloud is outdated". What is
\* selected shows the object as the latest point cloud does: the latest one
\* with sufficient coverage, or the latest of all if none has it.
NotOutdated ==
  stage # "select" /\ candidates # {} =>
    LET S == IF Sufficient # {} THEN Sufficient ELSE candidates
    IN  \E latest \in FirstByDate(S) :
          preferred = latest \/ ~ isMutated(preferred, latest)

\* Without mutations nothing but quality counts among sufficient candidates.
BestQualityUnlessMutated ==
  stage # "select" /\ Sufficient # {} /\ mutated = {} =>
    preferred \in FirstByQuality(Sufficient)

\* A building from after its point cloud has none of a later date, of either
\* kind, it could have been given.
LatestIfBuiltAfter ==
  stage = "done" /\ BuiltAfter(preferred) =>
    \A i \in Index : ipc[i].date <= ipc[selected].date

\* A point cloud given for its date only is used for a building it is the only
\* one to be late enough for, or without any other.
OnlyForDate ==
  stage = "done" /\ selected \in candidates_just_for_data /\ candidates # {} =>
    /\ yoc > ipc[preferred].date
    /\ \A i \in candidates : ipc[i].date < ipc[selected].date

\* What rf_pc_select says is true of the point cloud that is used.
ExplanationIsTrue ==
  stage = "done" =>
    /\ explanation = "PREFERRED_AND_LATEST" =>
         selected \in FirstByQuality(Sufficient) \cap FirstByDate(Sufficient)
    /\ explanation = "LATEST_WITH_MUTATION" =>
         selected \in FirstByDate(Sufficient)
    /\ explanation = "PREFERRED_NOT_LATEST" =>
         selected \in FirstByQuality(Sufficient)
    /\ explanation = "_HIGHEST_YET_INSUFFICIENT_COVERAGE" => Sufficient = {}
    /\ explanation = "_LATEST" => selected \in FirstByDate(Index)
=============================================================================
