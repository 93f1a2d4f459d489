------------------------------ MODULE Startup ------------------------------
(***************************************************************************)
(* main of roofer-app after its configuration: the region of interest, the *)
(* tiles it is cut into (apps/roofer-app/roofer-app.cpp), and the          *)
(* footprints that the reader finds for each of them                       *)
(* (extra/io/VectorReaderOGR.cpp, common/box.hpp).  Coordinates are        *)
(* integers; the tiles are read in the order in which the cropper does.    *)
(***************************************************************************)
EXTENDS Configuration

CONSTANTS
  Layer,      \* the features of the layer, in its order
  Fields,     \* field of the layer -> its OGR type
  UserBox,    \* the box that --box gives
  TileSize

ASSUME SizeAssumption == TileSize \in Nat \ {0}

Boxes == [x0 : Int, y0 : Int, x1 : Int, y1 : Int]
IsOrdered(b) == b.x0 <= b.x1 /\ b.y0 <= b.y1

(* check::ValidBox turns any other box down. *)
ASSUME UserBoxAssumption == UserBox \in Boxes /\ IsOrdered(UserBox)

(* A feature: its geometry, the validity of the polygons it consists of,   *)
(* its bounding box with the centroid in it, the fields that are null, and *)
(* whether the filter selects it.                                          *)
Features ==
  [id : STRING, geometry : {"none", "polygons", "other"}, parts : Seq(BOOLEAN),
   box : Boxes, centroid : [x : Int, y : Int], nulls : SUBSET DOMAIN Fields,
   selected : BOOLEAN]

ASSUME LayerAssumption ==
  /\ Layer \in Seq(Features)
  /\ \A i \in 1 .. Len(Layer) :
       LET b == Layer[i].box  c == Layer[i].centroid
       IN b.x0 <= c.x /\ c.x <= b.x1 /\ b.y0 <= c.y /\ c.y <= b.y1

VARIABLES
  tiles,      \* initial_tiles: the tiles that are still to be read, with their ids
  found,      \* tile id -> footprints and attributes that were read for it
  lost        \* ids of the tiles whose reading threw

tileVars == <<tiles, found, lost>>
vars == <<configVars, tileVars>>

Box(x0, y0, x1, y1) == [x0 |-> x0, y0 |-> y0, x1 |-> x1, y1 |-> y1]
NoBox == [none |-> TRUE]

Larger(a, b) == IF a > b THEN a ELSE b
Smaller(a, b) == IF a < b THEN a ELSE b

(* The intersection may be flat. *)
Intersect(a, b) ==
  LET r == Box(Larger(a.x0, b.x0), Larger(a.y0, b.y0),
               Smaller(a.x1, b.x1), Smaller(a.y1, b.y1))
  IN IF r.x0 > r.x1 \/ r.y0 > r.y1 THEN NoBox ELSE r

(* A mutant: a box with all of its edges. *)
CoversEdges(b, p) == b.x0 <= p.x /\ p.x <= b.x1 /\ b.y0 <= p.y /\ p.y <= b.y1

(* The upper edges of a box do not belong to it. *)
Covers(b, p) == b.x0 <= p.x /\ p.x < b.x1 /\ b.y0 <= p.y /\ p.y < b.y1

Filtered == value["filter"].from # "default"
Selected == {i \in 1 .. Len(Layer) : ~Filtered \/ Layer[i].selected}
WithGeometry == {i \in Selected : Layer[i].geometry # "none"}

LayerExtent ==
  Box(Min({Layer[i].box.x0 : i \in WithGeometry}), Min({Layer[i].box.y0 : i \in WithGeometry}),
      Max({Layer[i].box.x1 : i \in WithGeometry}), Max({Layer[i].box.y1 : i \in WithGeometry}))

RegionOfInterest == IF value["box"].from # "default" THEN UserBox ELSE LayerExtent

(* create_tiles: column by column; one more than fit, which is flat once it *)
(* is cut off at the region's edge, if its size is a multiple of a tile's.  *)
CreateTiles(roi) ==
  LET dimx == (roi.x1 - roi.x0) \div TileSize + 1
      dimy == (roi.y1 - roi.y0) \div TileSize + 1
  IN [t \in 1 .. dimx * dimy |->
        LET col == (t - 1) \div dimy
            row == (t - 1) % dimy
        IN Box(roi.x0 + col * TileSize, roi.y0 + row * TileSize,
               roi.x0 + (col + 1) * TileSize, roi.y0 + (row + 1) * TileSize)]

TileExtents ==
  IF value["tiling"].is = "on"
  THEN LET all == CreateTiles(RegionOfInterest)
       IN [t \in 1 .. Len(all) |-> Intersect(RegionOfInterest, all[t])]
  ELSE <<RegionOfInterest>>

(* The layer may not open, and a tile may be outside of the region. *)
MakeTiles(opened) ==
  /\ phase = "configured"
  /\ IF ~opened \/ \E t \in 1 .. Len(TileExtents) : TileExtents[t] = NoBox
     THEN Return("failure") /\ UNCHANGED tileVars
     ELSE /\ tiles' = [t \in 1 .. Len(TileExtents) |-> [id |-> t, extent |-> TileExtents[t]]]
          /\ phase' = "tiled"
          /\ UNCHANGED <<command, todo, kept, file, value, clouds, footprints, output,
                         exit, found, lost>>

-----------------------------------------------------------------------------
(* readPolygons *)
Supported == {"bool", "int", "int64", "string", "real", "date", "time", "datetime"}
Columns == {f \in DOMAIN Fields : Fields[f] \in Supported}

(* push_attributes: one entry in every column, empty for a null. *)
PushAttributes(columns, feature) ==
  [f \in Columns |->
     Append(columns[f], IF f \in feature.nulls THEN "null" ELSE feature.id)]

(* The driver's filter lets every feature pass whose box touches the tile;  *)
(* the centroid decides.                                                    *)
PassesDriver(feature, extent) == Intersect(feature.box, extent) # NoBox
InTile(i, extent) ==
  /\ i \in Selected
  /\ PassesDriver(Layer[i], extent)
  /\ Layer[i].geometry # "none"
  /\ Covers(extent, Layer[i].centroid)

(* should_skip_polygon *)
Skips(isValid) == ~isValid

(* A mutant: the attributes of a polygon that is skipped are pushed. *)
PushBeforeSkip(read, i, isValid) ==
  [polygons |-> IF Skips(isValid) THEN read.polygons ELSE Append(read.polygons, i),
   columns |-> PushAttributes(read.columns, Layer[i])]

ReadPart(read, i, isValid) ==
  IF Skips(isValid) THEN read
  ELSE [polygons |-> Append(read.polygons, i),
        columns |-> PushAttributes(read.columns, Layer[i])]

ReadFeature(read, i, extent) ==
  IF ~InTile(i, extent) THEN read
  ELSE LET parts == Layer[i].parts
           upto[k \in 0 .. Len(parts)] ==
             IF k = 0 THEN read ELSE ReadPart(upto[k - 1], i, parts[k])
       IN upto[Len(parts)]

NothingRead == [polygons |-> <<>>, columns |-> [f \in Columns |-> <<>>]]

ReadPolygons(extent) ==
  LET upto[i \in 0 .. Len(Layer)] ==
        IF i = 0 THEN NothingRead ELSE ReadFeature(upto[i - 1], i, extent)
  IN upto[Len(Layer)]

(* Other geometries than polygons throw when their turn comes. *)
ReadThrows(extent) ==
  \E i \in 1 .. Len(Layer) : InTile(i, extent) /\ Layer[i].geometry = "other"

ReadTile ==
  /\ phase = "tiled" /\ tiles # <<>>
  /\ LET tile == Head(tiles) IN
     IF ReadThrows(tile.extent)
     THEN lost' = lost \cup {tile.id} /\ UNCHANGED found
     ELSE /\ found' = [t \in DOMAIN found \cup {tile.id} |->
                         IF t = tile.id THEN ReadPolygons(tile.extent) ELSE found[t]]
          /\ UNCHANGED lost
  /\ tiles' = Tail(tiles)
  /\ UNCHANGED configVars

StartupInit == Init /\ tiles = <<>> /\ found = <<>> /\ lost = {}

Done == phase = "returned" \/ (phase = "tiled" /\ tiles = <<>>)

Next ==
  \/ Configure /\ UNCHANGED tileVars
  \/ \E opened \in BOOLEAN : MakeTiles(opened)
  \/ ReadTile
  \/ Done /\ UNCHANGED vars

Spec == StartupInit /\ [][Next]_vars /\ WF_vars(Next)

-----------------------------------------------------------------------------
AllRead == phase = "tiled" /\ tiles = <<>>

PartsOf(i) == Cardinality({k \in 1 .. Len(Layer[i].parts) : Layer[i].parts[k]})
Times(i, t) ==
  Cardinality({k \in 1 .. Len(found[t].polygons) : found[t].polygons[k] = i})

(* Every footprint that is wanted, is valid and lies in the region becomes  *)
(* a building of exactly one tile: neighbouring tiles share an edge, the    *)
(* last ones may be flat, and the driver returns a feature to every tile    *)
(* that it touches.  A feature that cannot be read costs no other tile than *)
(* the one that it lies in.                                                 *)
EachFootprintOnce ==
  AllRead =>
    \A i \in Selected :
      LET wanted == Layer[i].geometry = "polygons"
                    /\ Covers(RegionOfInterest, Layer[i].centroid)
          readIn == {t \in DOMAIN found : Times(i, t) > 0}
      IN /\ Cardinality(readIn) <= 1
         /\ \A t \in readIn : wanted /\ Times(i, t) = PartsOf(i)
         /\ wanted /\ PartsOf(i) > 0 /\ readIn = {} =>
              \E j \in Selected : \E t \in lost :
                /\ Layer[j].geometry = "other"
                /\ Covers(TileExtents[t], Layer[i].centroid)
                /\ Covers(TileExtents[t], Layer[j].centroid)

(* Buildings and their attributes are matched by their position alone.      *)
AttributesAligned ==
  \A t \in DOMAIN found : \A f \in Columns :
    LET polygons == found[t].polygons IN
    /\ Len(found[t].columns[f]) = Len(polygons)
    /\ \A k \in 1 .. Len(polygons) :
         found[t].columns[f][k] \in {Layer[polygons[k]].id, "null"}
=============================================================================
