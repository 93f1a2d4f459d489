--------------------------- MODULE TileSerializer ---------------------------
(***************************************************************************)
(* What the serializer thread writes of each tile (roofer-app.cpp) through *)
(* one std::ofstream and a CityJsonWriter: the detail that the action      *)
(* SerializerWrite of RooferPipeline takes as one step. A file is the      *)
(* sequence of the lines written to it. What may fail here is one feature; *)
(* an exception outside the handler for one feature ends the process.      *)
(***************************************************************************)
EXTENDS Naturals, Sequences, FiniteSets

CONSTANTS
  NTiles,           \* tiles the serializer receives
  MaxBuildings,     \* bound on the buildings of one tile
  Corners,          \* lower left corners of tiles, truncated to integers
  Values,           \* values the id attribute has
  Configs,          \* the configurations, a subset of AllConfigs
  MaxFailed,        \* bound on the features that fail
  MaxUnopenable     \* bound on the files that cannot be opened

\* No value of the id attribute.
NoValue == 0

\* An exception while the attributes of the row are collected, while the
\* object is built, while it is dumped to the stream (text that is not UTF-8).
AllFaults == {"row", "object", "dump"}

\* id_attribute: not given, given with string values, given with int values.
\* faults: how a feature may fail.
AllConfigs ==
  [split_cjseq : BOOLEAN, omit_metadata : BOOLEAN, terrain : BOOLEAN,
   id_attribute : {"none", "string", "int"}, faults : SUBSET AllFaults]

ASSUME SerializerAssumption ==
  /\ NTiles \in Nat
  /\ MaxBuildings \in Nat \ {0}
  /\ Values \subseteq Nat \ {0}
  /\ Configs \subseteq AllConfigs
  /\ MaxFailed \in Nat
  /\ MaxUnopenable \in Nat

VARIABLES
  cfg, buildings_cnt,        \* chosen at the start
  corner, attribute,         \* the corners of the tiles; the buildings' values
  unopenable,                \* paths that cannot be opened for writing
  tile, building,            \* the loops of the thread
  ofs,                       \* the stream of this tile, and all the files
  written_features_count,    \* of this tile's CityJsonWriter
  serialized_buildings_cnt, serialized_tiles_cnt,
  failed,                    \* features reported as failed to serialize
  pc

input == <<cfg, buildings_cnt, corner, attribute, unopenable>>

vars == <<input, tile, building, ofs, written_features_count,
          serialized_buildings_cnt, serialized_tiles_cnt, failed, pc>>

Tiles == 1..NTiles
-----------------------------------------------------------------------------
(* Paths and lines. Nothing makes corners or values differ: a tile may be    *)
(* smaller than the unit its corner is truncated to, and the parts of a     *)
(* multipolygon have the attributes of the whole.                           *)

\* Mutant: all tiles share one file.
SamePath(t) == <<"tile", 0>>

TilePath(t) == <<"tile", corner[t]>>
TerrainPath(t) == <<"terrain", corner[t]>>
MetadataPath == <<"metadata", 0>>

\* jsonl_path is made of bid, and bid of the attribute only if it holds
\* strings; otherwise it is the index of the footprint in its tile.
JsonlPath(t, i) ==
  <<"feature", IF cfg.id_attribute = "string" THEN attribute[t][i] ELSE i>>

Paths ==
  {MetadataPath} \cup ({"tile", "terrain"} \X Corners)
  \cup ({"feature"} \X (Values \cup 1..MaxBuildings))

\* The identifier of a feature: the attribute's value, or the running count.
Id(t, i, count) == IF attribute[t][i] # NoValue THEN attribute[t][i] ELSE count

Metadata(t) == [kind |-> "metadata", of |-> <<t, 0>>, id |-> t, whole |-> TRUE]
Terrain(t) == [kind |-> "terrain", of |-> <<t, 0>>, id |-> t, whole |-> TRUE]
Feature(t, i, count, whole) ==
  [kind |-> "feature", of |-> <<t, i>>, id |-> Id(t, i, count),
   whole |-> whole]
-----------------------------------------------------------------------------
(* std::ofstream: open on an open stream, like an open that fails, only     *)
(* sets failbit; a good open clears it and empties the file; a stream that  *)
(* is not good swallows what is put into it; close leaves failbit as it is. *)

Closed == <<"closed", 0>>
Fresh(s) == [s EXCEPT !.path = Closed, !.good = TRUE]

Open(s, path) ==
  IF s.path = Closed /\ path \notin unopenable
  THEN [path |-> path, good |-> TRUE, files |-> [s.files EXCEPT ![path] = <<>>]]
  ELSE [s EXCEPT !.good = FALSE]

Put(s, line) ==
  IF s.path # Closed /\ s.good
  THEN [s EXCEPT !.files[s.path] = Append(@, line)]
  ELSE s

Close(s) ==
  IF s.path = Closed THEN [s EXCEPT !.good = FALSE]
                     ELSE [s EXCEPT !.path = Closed]

MaybeMetadata(s, t) == IF cfg.omit_metadata THEN s ELSE Put(s, Metadata(t))
-----------------------------------------------------------------------------
\* The values of the buildings of one tile. A string that is null ends the
\* crop of its tile.
Attributes ==
  LET given == CASE cfg.id_attribute = "none" -> {NoValue}
                 [] cfg.id_attribute = "string" -> Values
                 [] OTHER -> Values \cup {NoValue}
  IN  UNION {[1..n -> given] : n \in 1..MaxBuildings}

Init ==
  /\ cfg \in Configs
  /\ attribute \in [Tiles -> Attributes]
  /\ buildings_cnt = [t \in Tiles |-> Len(attribute[t])]
  /\ corner \in [Tiles -> Corners]
  /\ unopenable \in SUBSET Paths
  /\ Cardinality(unopenable) <= MaxUnopenable
  /\ tile = 1
  /\ building = 1
  /\ ofs = [path |-> Closed, good |-> TRUE, files |-> [p \in Paths |-> <<>>]]
  /\ written_features_count = 0
  /\ serialized_buildings_cnt = 0
  /\ serialized_tiles_cnt = 0
  /\ failed = {}
  /\ pc = "tile"

\* The terrain of a tile beside its buildings goes through a stream of its own.
OwnTerrainFile(s, t) ==
  IF TerrainPath(t) \in unopenable
  THEN s ELSE [s EXCEPT !.files[TerrainPath(t)] = <<Terrain(t)>>]

\* The head of a tile. One file for the tile, with its metadata and terrain,
\* or a metadata file all tiles share and a terrain file of its own.
TileHead(s, t) ==
  IF ~ cfg.split_cjseq
  THEN LET m == MaybeMetadata(Open(s, TilePath(t)), t)
       IN  IF cfg.terrain THEN Put(m, Terrain(t)) ELSE m
  ELSE LET m == IF cfg.omit_metadata THEN s
                ELSE Close(Put(Open(s, MetadataPath), Metadata(t)))
       IN  IF cfg.terrain THEN OwnTerrainFile(m, t) ELSE m

StartTile ==
  /\ pc = "tile"
  /\ tile \in Tiles
  /\ ofs' = TileHead(Fresh(ofs), tile)
  /\ written_features_count' = serialized_buildings_cnt
  /\ building' = 1
  /\ pc' = "features"
  /\ UNCHANGED <<input, tile, serialized_buildings_cnt, serialized_tiles_cnt,
                 failed>>

\* Mutant: the loop stops one building early.
HasBuildingButLast == building < buildings_cnt[tile]

HasBuilding == building <= buildings_cnt[tile]

\* Mutant: the file of the building before is not closed.
NotClosed(s) == s

CloseFeature(s) == IF cfg.split_cjseq THEN Close(s) ELSE s

\* The stream when the handler for the feature is entered.
FeatureStream ==
  IF cfg.split_cjseq THEN Open(ofs, JsonlPath(tile, building)) ELSE ofs

\* Mutant: the count is not incremented.
CountBefore == written_features_count

Count == written_features_count + 1

WriteFeature ==
  /\ pc = "features"
  /\ HasBuilding
  /\ ofs' = CloseFeature(Put(FeatureStream, Feature(tile, building, Count, TRUE)))
  /\ written_features_count' = Count
  /\ serialized_buildings_cnt' = serialized_buildings_cnt + 1
  /\ building' = building + 1
  /\ UNCHANGED <<input, tile, serialized_tiles_cnt, failed, pc>>

\* The exception is logged and the loop goes on with the next building. The
\* count was taken unless the row failed; a dump that fails has left part of
\* its line in the stream. The stream is not closed.
FailFeature(fault) ==
  /\ pc = "features"
  /\ HasBuilding
  /\ fault \in cfg.faults
  /\ Cardinality(failed) < MaxFailed
  /\ ofs' = IF fault = "dump"
            THEN Put(FeatureStream, Feature(tile, building, Count, FALSE))
            ELSE FeatureStream
  /\ written_features_count' =
       IF fault = "row" THEN written_features_count ELSE Count
  /\ failed' = failed \cup {<<tile, building>>}
  /\ building' = building + 1
  /\ UNCHANGED <<input, tile, serialized_buildings_cnt, serialized_tiles_cnt, pc>>

\* The end of the tile; in any case the stream ends with its scope.
EndTile ==
  /\ pc = "features"
  /\ ~ HasBuilding
  /\ ofs' = Fresh(ofs)
  /\ serialized_tiles_cnt' = serialized_tiles_cnt + 1
  /\ tile' = tile + 1
  /\ pc' = "tile"
  /\ UNCHANGED <<input, building, written_features_count,
                 serialized_buildings_cnt, failed>>

Next ==
  \/ StartTile
  \/ WriteFeature
  \/ \E fault \in AllFaults : FailFeature(fault)
  \/ EndTile

Spec == Init /\ [][Next]_vars
-----------------------------------------------------------------------------
(* Properties.                                                              *)

Line == [kind : {"metadata", "terrain", "feature"},
         of : Nat \X Nat, id : Nat, whole : BOOLEAN]

\* Line k of the file f can be read if it and the line before it were written
\* to the end: a failed dump writes no newline.
IsReadable(f, k) == k \in 1..Len(f) /\ f[k].whole /\ (k > 1 => f[k - 1].whole)

LineAt(l) == ofs.files[l[1]][l[2]]
Features ==
  {l \in UNION {{p} \X (1..Len(ofs.files[p])) : p \in Paths} : LineAt(l).kind = "feature"}
ReadableFeatures == {l \in Features : IsReadable(ofs.files[l[1]], l[2])}

Buildings == {b \in Tiles \X (1..MaxBuildings) : b[2] <= buildings_cnt[b[1]]}

Passed ==
  {b \in Buildings :
     b[1] < tile \/ (b[1] = tile /\ pc = "features" /\ b[2] < building)}

IsFound(b) == \E l \in ReadableFeatures : LineAt(l).of = b

\* Another building is written later to a file with the same name, or another
\* tile is.
IsReplaced(b) ==
  \E c \in Buildings :
    IF cfg.split_cjseq
    THEN /\ b[1] < c[1] \/ (b[1] = c[1] /\ b[2] < c[2])
         /\ IF cfg.id_attribute = "string"
            THEN attribute[b[1]][b[2]] = attribute[c[1]][c[2]] ELSE b[2] = c[2]
    ELSE b[1] < c[1] /\ corner[b[1]] = corner[c[1]]

FileOf(b) == IF cfg.split_cjseq THEN JsonlPath(b[1], b[2]) ELSE TilePath(b[1])

\* What befalls a building before it is written.
Fragile == {b \in Buildings : IsReplaced(b) \/ FileOf(b) \in unopenable}

\* The building before it in its tile failed, and left the stream open or a
\* part of a line in it.
FollowsFailure(b) ==
  /\ b[2] > 1 /\ <<b[1], b[2] - 1>> \in failed
  /\ cfg.split_cjseq \/ "dump" \in cfg.faults

\* A building is in the output, once, or its failure was logged, never both. It
\* is silently lost only if its file cannot be opened, is replaced by a later
\* one of the same name, or the building before it failed.
NothingSilentlyLost ==
  /\ \A b \in Passed :
       b \notin failed => IsFound(b) \/ b \in Fragile \/ FollowsFailure(b)
  /\ \A l \in ReadableFeatures : LineAt(l).of \in Passed \ failed
  /\ \A l, m \in ReadableFeatures : LineAt(l).of = LineAt(m).of => l = m

\* The number the serializer reports as written is never less than what a
\* reader of the output finds, and more only by the buildings that may be
\* lost.
CountIsOutput ==
  LET found == {b \in Passed : IsFound(b)}
      atRisk == {b \in Passed \ failed : b \in Fragile \/ FollowsFailure(b)}
  IN  /\ Cardinality(found) <= serialized_buildings_cnt
      /\ serialized_buildings_cnt <= Cardinality(found \cup atRisk)

\* Two features have one identifier only if it is the value of the attribute
\* of one of them, or both are counted in different tiles and a feature failed.
DistinctIds ==
  \A l, m \in ReadableFeatures :
    LET b == LineAt(l).of
        c == LineAt(m).of
    IN  LineAt(l).id = LineAt(m).id /\ l # m =>
          \/ LineAt(l).id \in {attribute[b[1]][b[2]], attribute[c[1]][c[2]]}
          \/ b[1] # c[1] /\ failed # {}
-----------------------------------------------------------------------------
(* The buildings as a reader of the output finds them.                      *)

FoundOf(t) == {b \in Buildings : b[1] = t /\ IsFound(b)}
FoundOfFinished == [t \in Tiles |-> IF t < tile THEN FoundOf(t) ELSE {}]

Output == INSTANCE OutputSpec WITH found <- FoundOfFinished, fragile <- Fragile,
                                   reported <- {b \in failed : b[1] < tile}

\* All the opens, writes and failures of a tile amount to one step that puts
\* its buildings into the output, without those reported as failed and those
\* that may be lost, and later steps take away only what is replaced.
ImplementsOutput == Output!Spec

=============================================================================
