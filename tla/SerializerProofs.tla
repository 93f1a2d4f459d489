-------------------------- MODULE SerializerProofs --------------------------
(***************************************************************************)
(* Proofs about TileSerializer, for every configuration, any number of     *)
(* tiles and buildings, whatever their corners and identifiers, and        *)
(* whatever fails: which buildings a reader finds in the output, how many, *)
(* and with which identifiers.                                             *)
(***************************************************************************)
EXTENDS TileSerializer, SequenceTheorems, FiniteSetTheorems, TLAPS

Files == [Paths -> Seq(Line)]
Stream == [path : Paths \cup {Closed}, good : BOOLEAN, files : Files]

\* What the serializer is given.
InputOK ==
  /\ cfg \in Configs
  /\ buildings_cnt \in [Tiles -> 1..MaxBuildings]
  /\ corner \in [Tiles -> Corners]
  /\ \A b \in Buildings :
       /\ attribute[b[1]][b[2]] \in Values \cup {NoValue}
       /\ cfg.id_attribute = "string" => attribute[b[1]][b[2]] \in Values

\* The type of every variable.
TypeOK ==
  /\ InputOK
  /\ tile \in Nat \ {0}
  /\ building \in Nat \ {0}
  /\ pc \in {"tile", "features"}
  /\ pc = "features" => tile \in Tiles
  /\ ofs \in Stream
  /\ written_features_count \in Nat
  /\ serialized_buildings_cnt \in Nat
  /\ serialized_tiles_cnt = tile - 1
  /\ failed \subseteq Passed

This == <<tile, building>>

JustFailed == building > 1 /\ <<tile, building - 1>> \in failed

\* Between two features: with a file per building the stream is closed unless
\* the building before failed. With a file per tile it is open, and its last
\* line is whole unless the building before failed, or the file cannot be
\* opened.
StreamInv ==
  pc = "features" =>
    IF cfg.split_cjseq
    THEN ofs.path = Closed \/ JustFailed
    ELSE \/ TilePath(tile) \in unopenable /\ ofs.path = Closed
         \/ /\ ofs.good /\ ofs.path = TilePath(tile)
            /\ LET f == ofs.files[TilePath(tile)]
               IN  \/ Len(f) = 0 \/ f[Len(f)].whole
                   \/ JustFailed /\ "dump" \in cfg.faults

\* A feature in the output is of a building that was passed, in its own file,
\* and whole only if the building did not fail.
PlaceInv ==
  \A l \in Features :
    /\ LineAt(l).of \in Passed
    /\ l[1] = FileOf(LineAt(l).of)
    /\ LineAt(l).whole => LineAt(l).of \notin failed

UniqueInv == \A l, m \in Features : LineAt(l).of = LineAt(m).of => l = m

KeptInv ==
  \A b \in Passed : b \notin failed => IsFound(b) \/ b \in Fragile \/ FollowsFailure(b)

CountInv == serialized_buildings_cnt = Cardinality(Passed \ failed)

ValueOf(b) == attribute[b[1]][b[2]]

\* Identifiers that are counted go up within a tile, and with no failure over
\* all tiles.
IdInv ==
  /\ \A l \in Features :
       /\ LineAt(l).id \in Nat
       /\ ValueOf(LineAt(l).of) # NoValue => LineAt(l).id = ValueOf(LineAt(l).of)
       /\ ValueOf(LineAt(l).of) = NoValue =>
            /\ pc = "features" /\ LineAt(l).of[1] = tile
                 => LineAt(l).id <= written_features_count
            /\ failed = {} => LineAt(l).id <= serialized_buildings_cnt
  /\ pc = "features" /\ failed = {} => written_features_count = serialized_buildings_cnt

CountedOnce ==
  \A l, m \in Features :
    /\ ValueOf(LineAt(l).of) = NoValue /\ ValueOf(LineAt(m).of) = NoValue
    /\ LineAt(l).id = LineAt(m).id /\ l # m
    => LineAt(l).of[1] # LineAt(m).of[1] /\ failed # {}

SerializerInv ==
  /\ TypeOK /\ StreamInv
  /\ PlaceInv /\ UniqueInv /\ KeptInv /\ CountInv /\ IdInv /\ CountedOnce

-----------------------------------------------------------------------------
(* Paths, and what was passed.                                             *)

LEMMA PathFacts ==
  /\ MetadataPath \in Paths /\ Closed \notin Paths
  /\ corner \in [Tiles -> Corners] =>
       \A t \in Tiles : TilePath(t) \in Paths /\ TerrainPath(t) \in Paths
  /\ \A t, u, i : /\ TilePath(t) # MetadataPath /\ TilePath(t) # TerrainPath(u)
                  /\ JsonlPath(t, i) # TilePath(u)
                  /\ JsonlPath(t, i) # MetadataPath /\ JsonlPath(t, i) # TerrainPath(u)
BY DEF TilePath, TerrainPath, MetadataPath, JsonlPath, Closed, Paths

LEMMA BuildingFacts ==
  ASSUME InputOK
  PROVE  /\ IsFiniteSet(Buildings)
         /\ \A b \in Buildings : /\ b[1] \in Tiles /\ b[1] \in Nat /\ b[2] \in Nat \ {0}
                                 /\ b[2] <= buildings_cnt[b[1]] /\ b = <<b[1], b[2]>>
         /\ \A t \in Tiles, i \in Nat \ {0} : i <= buildings_cnt[t] => <<t, i>> \in Buildings
<1>1. IsFiniteSet(Tiles) /\ IsFiniteSet(1..MaxBuildings)
  BY SerializerAssumption, FS_Interval DEF Tiles
<1>2. IsFiniteSet(Tiles \X (1..MaxBuildings))
  BY <1>1, FS_Product
<1>3. IsFiniteSet(Buildings)
  BY <1>2, FS_Subset DEF Buildings
<1>4. \A t \in Tiles : buildings_cnt[t] \in 1..MaxBuildings
  BY DEF InputOK
<1>5. ASSUME NEW b \in Buildings
      PROVE  /\ b[1] \in Tiles /\ b[1] \in Nat /\ b[2] \in Nat \ {0}
             /\ b[2] <= buildings_cnt[b[1]] /\ b = <<b[1], b[2]>>
  BY SerializerAssumption DEF Buildings, Tiles
<1>6. ASSUME NEW t \in Tiles, NEW i \in Nat \ {0}, i <= buildings_cnt[t]
      PROVE  <<t, i>> \in Buildings
  BY <1>4, <1>6, SerializerAssumption DEF Buildings
<1> QED
  BY <1>3, <1>5, <1>6

LEMMA FileFacts ==
  ASSUME InputOK, NEW b \in Buildings
  PROVE  FileOf(b) \in Paths
<1>1. b[1] \in Tiles /\ b[2] \in 1..MaxBuildings
  BY DEF Buildings
<1>2. cfg.id_attribute = "string" => attribute[b[1]][b[2]] \in Values
  BY DEF InputOK
<1>3. JsonlPath(b[1], b[2]) \in Paths
  BY <1>1, <1>2 DEF JsonlPath, Paths
<1>4. TilePath(b[1]) \in Paths
  BY <1>1, PathFacts DEF InputOK
<1> QED
  BY <1>3, <1>4 DEF FileOf

\* What the input determines stays as it is.
LEMMA InputStays ==
  ASSUME UNCHANGED input
  PROVE  /\ Buildings' = Buildings /\ Fragile' = Fragile
         /\ InputOK' = InputOK
         /\ \A b : FileOf(b)' = FileOf(b) /\ ValueOf(b)' = ValueOf(b)
         /\ \A t : TilePath(t)' = TilePath(t)
<1>1. Buildings' = Buildings
  BY DEF input, Buildings
<1>2. \A b : FileOf(b)' = FileOf(b) /\ ValueOf(b)' = ValueOf(b)
  BY DEF input, FileOf, JsonlPath, TilePath, ValueOf
<1>3. \A b : IsReplaced(b)' <=> IsReplaced(b)
  BY <1>1 DEF input, IsReplaced
<1>4. Fragile' = Fragile
  BY <1>1, <1>2, <1>3 DEF input, Fragile
<1>5. InputOK' = InputOK
  BY <1>1 DEF input, InputOK
<1> QED
  BY <1>1, <1>2, <1>4, <1>5 DEF input, TilePath

LEMMA PassedStart ==
  ASSUME TypeOK, UNCHANGED input, pc = "tile", pc' = "features", building' = 1, tile' = tile
  PROVE  Passed' = Passed
<1>1. Buildings' = Buildings
  BY InputStays
<1>2. \A b \in Buildings : b[2] \in Nat \ {0}
  BY BuildingFacts DEF TypeOK
<1> QED
  BY <1>1, <1>2 DEF Passed, TypeOK

LEMMA PassedNext ==
  ASSUME TypeOK, UNCHANGED <<input, tile, pc>>, pc = "features", building' = building + 1, HasBuilding
  PROVE  /\ Passed' = Passed \cup {This} /\ This \notin Passed /\ This \in Buildings
         /\ \A b \in Passed : b[1] < tile \/ (b[1] = tile /\ b[2] < building)
<1>1. tile \in Tiles /\ tile \in Nat /\ building \in Nat \ {0} /\ building <= buildings_cnt[tile]
  BY DEF TypeOK, HasBuilding, Tiles
<1>2. This \in Buildings
  BY <1>1, BuildingFacts DEF TypeOK, This
<1>3. Buildings' = Buildings
  BY InputStays
<1>4. Passed' = {b \in Buildings : b[1] < tile \/ (b[1] = tile /\ b[2] < building + 1)}
  BY <1>3 DEF Passed
<1>5. Passed = {b \in Buildings : b[1] < tile \/ (b[1] = tile /\ b[2] < building)}
  BY DEF Passed
<1>6. ASSUME NEW b \in Buildings
      PROVE  b \in Passed' <=> b \in Passed \/ b = This
  <2>1. b[1] \in Nat /\ b[2] \in Nat /\ b = <<b[1], b[2]>>
    BY BuildingFacts DEF TypeOK
  <2>2. b[2] < building + 1 <=> b[2] < building \/ b[2] = building
    BY <1>1, <2>1
  <2>3. b = This <=> b[1] = tile /\ b[2] = building
    BY <2>1 DEF This
  <2>4. ~ (tile < tile)
    BY <1>1
  <2> QED
    BY <1>4, <1>5, <2>2, <2>3, <2>4
<1>7. This \notin Passed
  BY <1>1, <1>5 DEF This
<1>8. Passed' = Passed \cup {This}
  BY <1>2, <1>4, <1>5, <1>6
<1> QED
  BY <1>2, <1>5, <1>7, <1>8

LEMMA PassedEnd ==
  ASSUME TypeOK, UNCHANGED input, pc = "features", pc' = "tile", tile' = tile + 1, ~ HasBuilding
  PROVE  Passed' = Passed
<1>1. /\ tile \in Tiles /\ tile \in Nat /\ building \in Nat \ {0}
      /\ buildings_cnt[tile] \in Nat /\ buildings_cnt[tile] < building
  BY SerializerAssumption DEF TypeOK, InputOK, HasBuilding, Tiles
<1>2. Buildings' = Buildings
  BY InputStays
<1>3. ASSUME NEW b \in Buildings
      PROVE  b \in Passed' <=> b \in Passed
  <2>1. b[1] \in Nat /\ b[2] \in Nat /\ b[2] <= buildings_cnt[b[1]]
    BY BuildingFacts DEF TypeOK
  <2>2. b \in Passed' <=> b[1] < tile + 1
    BY <1>2 DEF Passed
  <2>3. b \in Passed <=> b[1] < tile \/ (b[1] = tile /\ b[2] < building)
    BY DEF Passed
  <2>4. b[1] < tile + 1 <=> b[1] < tile \/ b[1] = tile
    BY <1>1, <2>1
  <2>5. b[1] = tile => b[2] < building
    BY <1>1, <2>1
  <2> QED
    BY <2>2, <2>3, <2>4, <2>5
<1> QED
  BY <1>2, <1>3 DEF Passed

-----------------------------------------------------------------------------
(* Files, and the features in them.                                        *)

FeatureSet(f) ==
  {l \in UNION {{p} \X (1..Len(f[p])) : p \in Paths} : f[l[1]][l[2]].kind = "feature"}
ReadSet(f) == {l \in FeatureSet(f) : IsReadable(f[l[1]], l[2])}

LEMMA FeaturesOfFiles ==
  /\ Features = FeatureSet(ofs.files) /\ Features' = FeatureSet(ofs'.files)
  /\ ReadableFeatures = ReadSet(ofs.files) /\ ReadableFeatures' = ReadSet(ofs'.files)
  /\ \A l : LineAt(l) = ofs.files[l[1]][l[2]] /\ LineAt(l)' = ofs'.files[l[1]][l[2]]
BY DEF Features, FeatureSet, ReadableFeatures, ReadSet, LineAt

LEMMA FeatureIsAt ==
  ASSUME NEW f
  PROVE  \A l : l \in FeatureSet(f) <=>
                  /\ l = <<l[1], l[2]>> /\ l[1] \in Paths /\ l[2] \in 1..Len(f[l[1]])
                  /\ f[l[1]][l[2]].kind = "feature"
<1>1. ASSUME NEW l, l \in FeatureSet(f)
      PROVE  l = <<l[1], l[2]>> /\ l[1] \in Paths /\ l[2] \in 1..Len(f[l[1]])
             /\ f[l[1]][l[2]].kind = "feature"
  <2>1. PICK p \in Paths : l \in {p} \X (1..Len(f[p]))
    BY <1>1 DEF FeatureSet
  <2> QED
    BY <1>1, <2>1 DEF FeatureSet
<1>2. ASSUME NEW l, l = <<l[1], l[2]>>, l[1] \in Paths, l[2] \in 1..Len(f[l[1]]),
             f[l[1]][l[2]].kind = "feature"
      PROVE  l \in FeatureSet(f)
  <2>1. l \in {l[1]} \X (1..Len(f[l[1]]))
    BY <1>2
  <2> QED
    BY <1>2, <2>1 DEF FeatureSet
<1> QED
  BY <1>1, <1>2

\* A sequence of whole lines without a feature.
IsHead(q) ==
  /\ q \in Seq(Line)
  /\ \A k \in 1..Len(q) : q[k].whole /\ q[k].kind # "feature"

LEMMA EmptyHead == IsHead(<<>>) /\ Len(<<>>) = 0
BY EmptySeq DEF IsHead

LEMMA HeadGrows ==
  ASSUME NEW q, IsHead(q), NEW line \in Line, line.whole, line.kind # "feature"
  PROVE  IsHead(Append(q, line))
<1>1. q \in Seq(Line) /\ Len(q) \in Nat
  BY DEF IsHead
<1>2. /\ Append(q, line) \in Seq(Line) /\ Len(Append(q, line)) = Len(q) + 1
      /\ Append(q, line)[Len(q) + 1] = line
      /\ \A k \in 1..Len(q) : Append(q, line)[k] = q[k]
  BY <1>1, AppendProperties
<1>3. ASSUME NEW k \in 1..(Len(q) + 1)
      PROVE  Append(q, line)[k].whole /\ Append(q, line)[k].kind # "feature"
  <2>1. CASE k = Len(q) + 1
    BY <2>1, <1>2
  <2>2. CASE k \in 1..Len(q)
    BY <2>2, <1>2 DEF IsHead
  <2> QED
    BY <2>1, <2>2, <1>1
<1> QED
  BY <1>2, <1>3 DEF IsHead

\* The files g are the files f but for heads in some of the set P.
Headed(f, g, P) ==
  /\ g \in Files
  /\ \A p \in Paths : g[p] = f[p] \/ (p \in P /\ IsHead(g[p]))

\* Then no feature is new, and those elsewhere are as they were.
LEMMA HeadedFeatures ==
  ASSUME NEW f \in Files, NEW g, NEW P, Headed(f, g, P)
  PROVE  /\ FeatureSet(g) \subseteq FeatureSet(f)
         /\ \A l \in FeatureSet(g) : g[l[1]][l[2]] = f[l[1]][l[2]]
         /\ ReadSet(g) \subseteq ReadSet(f)
         /\ \A l \in ReadSet(f) : l[1] \notin P => l \in ReadSet(g) /\ g[l[1]][l[2]] = f[l[1]][l[2]]
<1>1. ASSUME NEW l \in FeatureSet(g)
      PROVE  /\ l \in FeatureSet(f) /\ g[l[1]][l[2]] = f[l[1]][l[2]]
             /\ l \in ReadSet(g) => l \in ReadSet(f)
  <2>1. /\ l = <<l[1], l[2]>> /\ l[1] \in Paths /\ l[2] \in 1..Len(g[l[1]])
        /\ g[l[1]][l[2]].kind = "feature"
    BY FeatureIsAt
  <2>2. g[l[1]] = f[l[1]]
    BY <2>1 DEF Headed, IsHead
  <2> QED
    BY <2>1, <2>2, FeatureIsAt DEF ReadSet
<1>2. ASSUME NEW l \in ReadSet(f), l[1] \notin P
      PROVE  l \in ReadSet(g) /\ g[l[1]][l[2]] = f[l[1]][l[2]]
  <2>1. l \in FeatureSet(f) /\ IsReadable(f[l[1]], l[2])
    BY DEF ReadSet
  <2>2. /\ l = <<l[1], l[2]>> /\ l[1] \in Paths /\ l[2] \in 1..Len(f[l[1]])
        /\ f[l[1]][l[2]].kind = "feature"
    BY <2>1, FeatureIsAt
  <2>3. g[l[1]] = f[l[1]]
    BY <1>2, <2>2 DEF Headed
  <2>4. l \in FeatureSet(g)
    BY <2>2, <2>3, FeatureIsAt
  <2> QED
    BY <2>1, <2>3, <2>4 DEF ReadSet
<1>3. ReadSet(g) \subseteq FeatureSet(g)
  BY DEF ReadSet
<1> QED
  BY <1>1, <1>2, <1>3

\* The files g are the files f, with a feature added to that at q, or put into
\* it when it was emptied.
Extended(f, g, q, base, line) ==
  /\ q \in Paths /\ base \in {f[q], <<>>}
  /\ line \in Line /\ line.kind = "feature"
  /\ g = [f EXCEPT ![q] = Append(base, line)]

LEMMA ExtendedFeatures ==
  ASSUME NEW f \in Files, NEW g, NEW q, NEW base, NEW line, Extended(f, g, q, base, line),
         NEW new, new = <<q, Len(base) + 1>>
  PROVE  /\ g \in Files
         /\ \A l \in FeatureSet(g) : l # new =>
              l \in FeatureSet(f) /\ g[l[1]][l[2]] = f[l[1]][l[2]]
         /\ \A l \in ReadSet(g) : l # new => l \in ReadSet(f)
         /\ new \in FeatureSet(g) /\ g[new[1]][new[2]] = line
         /\ \A l \in ReadSet(f) : l[1] # q \/ base = f[q] =>
              l \in ReadSet(g) /\ g[l[1]][l[2]] = f[l[1]][l[2]]
         /\ line.whole /\ (Len(base) = 0 \/ base[Len(base)].whole) => new \in ReadSet(g)
<1> DEFINE n == Len(base) + 1
<1>0. new = <<q, n>>
  OBVIOUS
<1>1. /\ q \in Paths /\ base \in Seq(Line) /\ Len(base) \in Nat /\ n \in Nat \ {0}
      /\ line \in Line /\ line.kind = "feature"
  <2>1. f[q] \in Seq(Line) /\ <<>> \in Seq(Line) /\ q \in Paths
    BY EmptySeq DEF Extended, Files
  <2>2. base \in Seq(Line)
    BY <2>1 DEF Extended
  <2>3. Len(base) \in Nat
    BY <2>2, LenProperties
  <2>4. line \in Line /\ line.kind = "feature"
    BY DEF Extended
  <2> QED
    BY <2>1, <2>2, <2>3, <2>4
<1>2. /\ Append(base, line) \in Seq(Line) /\ Len(Append(base, line)) = n
      /\ Append(base, line)[n] = line
      /\ \A k \in 1..Len(base) : Append(base, line)[k] = base[k]
  BY <1>1, AppendProperties
<1>3. g \in Files /\ g[q] = Append(base, line) /\ \A p \in Paths \ {q} : g[p] = f[p]
  BY <1>1, <1>2 DEF Extended, Files
<1> HIDE DEF n
<1>4. n \in 1..n /\ \A k : k \in 1..n <=> k \in 1..Len(base) \/ k = n
  BY <1>1 DEF n
<1>5. ASSUME NEW l \in FeatureSet(g), l # new
      PROVE  /\ l \in FeatureSet(f) /\ g[l[1]][l[2]] = f[l[1]][l[2]]
             /\ l \in ReadSet(g) => l \in ReadSet(f)
  <2>1. /\ l = <<l[1], l[2]>> /\ l[1] \in Paths /\ l[2] \in 1..Len(g[l[1]])
        /\ g[l[1]][l[2]].kind = "feature"
    BY FeatureIsAt
  <2>2. CASE l[1] # q
    <3>1. g[l[1]] = f[l[1]]
      BY <2>1, <2>2, <1>3
    <3> QED
      BY <2>1, <3>1, FeatureIsAt DEF ReadSet
  <2>3. CASE l[1] = q
    <3>1. l[2] \in 1..Len(base)
      BY <2>1, <2>3, <1>0, <1>2, <1>3, <1>4, <1>5
    <3>2. base = f[q]
      <4>1. base # <<>>
        BY <3>1
      <4> QED
        BY <4>1 DEF Extended
    <3>3. g[l[1]][l[2]] = f[l[1]][l[2]] /\ l[2] \in 1..Len(f[l[1]])
      BY <2>3, <3>1, <3>2, <1>2, <1>3
    <3>4. IsReadable(g[q], l[2]) => IsReadable(f[q], l[2])
      <4>1. l[2] > 1 => l[2] - 1 \in 1..Len(base)
        BY <3>1, <1>1
      <4> QED
        BY <2>3, <3>1, <3>2, <3>3, <4>1, <1>2, <1>3 DEF IsReadable
    <3> QED
      BY <2>1, <2>3, <3>3, <3>4, FeatureIsAt DEF ReadSet
  <2> QED
    BY <2>2, <2>3
<1>6. new \in FeatureSet(g) /\ g[new[1]][new[2]] = line
  BY <1>0, <1>1, <1>2, <1>3, <1>4, FeatureIsAt
<1>7. ASSUME NEW l \in ReadSet(f), l[1] # q \/ base = f[q]
      PROVE  l \in ReadSet(g) /\ g[l[1]][l[2]] = f[l[1]][l[2]]
  <2>1. l \in FeatureSet(f) /\ IsReadable(f[l[1]], l[2])
    BY DEF ReadSet
  <2>2. /\ l = <<l[1], l[2]>> /\ l[1] \in Paths /\ l[2] \in 1..Len(f[l[1]])
        /\ f[l[1]][l[2]].kind = "feature"
    BY <2>1, FeatureIsAt
  <2>3. CASE l[1] # q
    <3>1. g[l[1]] = f[l[1]]
      BY <2>2, <2>3, <1>3
    <3> QED
      BY <2>1, <2>2, <3>1, FeatureIsAt DEF ReadSet
  <2>4. CASE l[1] = q /\ base = f[q]
    <3>1. l[2] \in 1..Len(base) /\ l[2] \in 1..n
      BY <2>2, <2>4, <1>4
    <3>2. g[q][l[2]] = f[q][l[2]] /\ (l[2] > 1 => g[q][l[2] - 1] = f[q][l[2] - 1])
      <4>1. l[2] > 1 => l[2] - 1 \in 1..Len(base)
        BY <3>1, <1>1
      <4> QED
        BY <3>1, <4>1, <2>4, <1>2, <1>3
    <3>3. l[2] \in 1..Len(g[q])
      BY <3>1, <1>2, <1>3
    <3>4. IsReadable(g[q], l[2])
      BY <2>1, <2>4, <3>2, <3>3 DEF IsReadable
    <3>5. l \in FeatureSet(g)
      BY <2>2, <2>4, <3>2, <3>3, FeatureIsAt
    <3> QED
      BY <2>4, <3>2, <3>4, <3>5 DEF ReadSet
  <2> QED
    BY <1>7, <2>3, <2>4
<1>8. ASSUME line.whole, Len(base) = 0 \/ base[Len(base)].whole
      PROVE  new \in ReadSet(g)
  <2>1. n > 1 => n - 1 = Len(base) /\ Len(base) \in 1..Len(base) /\ Len(base) # 0
    BY <1>1 DEF n
  <2>2. g[q][n].whole /\ (n > 1 => g[q][n - 1].whole)
    BY <1>8, <2>1, <1>2, <1>3
  <2>3. IsReadable(g[q], n)
    BY <2>2, <1>2, <1>3, <1>4 DEF IsReadable
  <2> QED
    BY <2>3, <1>0, <1>6 DEF ReadSet
<1>9. ReadSet(g) \subseteq FeatureSet(g)
  BY DEF ReadSet
<1> QED
  BY <1>3, <1>5, <1>6, <1>7, <1>8, <1>9

-----------------------------------------------------------------------------
(* The stream.                                                             *)

LEMMA OpenOpens ==
  ASSUME NEW s \in Stream, s.path = Closed, NEW path \in Paths, path \notin unopenable
  PROVE  /\ Open(s, path) \in Stream /\ Open(s, path).path = path /\ Open(s, path).good
         /\ Open(s, path).files = [s.files EXCEPT ![path] = <<>>]
<1> DEFINE f == [s.files EXCEPT ![path] = <<>>]
<1>1. Open(s, path) = [path |-> path, good |-> TRUE, files |-> f]
  BY DEF Open
<1>2. f \in Files
  <2>1. s.files \in Files /\ <<>> \in Seq(Line)
    BY EmptySeq DEF Stream
  <2> QED
    BY <2>1 DEF Files
<1> HIDE DEF f
<1>3. [path |-> path, good |-> TRUE, files |-> f] \in Stream
  BY <1>2 DEF Stream
<1> QED
  BY <1>1, <1>3 DEF f

LEMMA OpenFails ==
  ASSUME NEW s \in Stream, NEW path, s.path # Closed \/ path \in unopenable
  PROVE  /\ Open(s, path) \in Stream /\ Open(s, path).path = s.path /\ ~ Open(s, path).good
         /\ Open(s, path).files = s.files
<1>1. Open(s, path) = [s EXCEPT !.good = FALSE]
  BY DEF Open
<1> QED
  BY <1>1 DEF Stream

LEMMA PutSkips ==
  ASSUME NEW s, NEW line, s.path = Closed \/ ~ s.good
  PROVE  Put(s, line) = s
BY DEF Put

LEMMA PutLine ==
  ASSUME NEW s \in Stream, s.path \in Paths, s.good, NEW line \in Line
  PROVE  /\ Put(s, line) \in Stream /\ Put(s, line).path = s.path /\ Put(s, line).good
         /\ Put(s, line).files = [s.files EXCEPT ![s.path] = Append(s.files[s.path], line)]
<1> DEFINE f == [s.files EXCEPT ![s.path] = Append(s.files[s.path], line)]
<1>1. s.path # Closed
  BY PathFacts
<1>2. s.files \in Files /\ s.files[s.path] \in Seq(Line)
  BY DEF Stream, Files
<1>3. Append(s.files[s.path], line) \in Seq(Line)
  BY <1>2, AppendProperties
<1>4. f \in Files
  BY <1>2, <1>3 DEF Files
<1>5. Put(s, line) = [s EXCEPT !.files = f]
  BY <1>1 DEF Put, Stream
<1> HIDE DEF f
<1>6. [s EXCEPT !.files = f] \in Stream
  BY <1>4 DEF Stream
<1> QED
  BY <1>5, <1>6 DEF Stream, f

LEMMA CloseStream ==
  ASSUME NEW s \in Stream
  PROVE  /\ Close(s) \in Stream /\ Close(s).path = Closed /\ Close(s).files = s.files
BY DEF Close, Stream

LEMMA FreshStream ==
  ASSUME NEW s \in Stream
  PROVE  /\ Fresh(s) \in Stream /\ Fresh(s).path = Closed
         /\ Fresh(s).good /\ Fresh(s).files = s.files
BY DEF Fresh, Stream

LEMMA LineTypes ==
  ASSUME TypeOK, tile \in Tiles
  PROVE  /\ Metadata(tile) \in Line /\ Metadata(tile).whole /\ Metadata(tile).kind # "feature"
         /\ Terrain(tile) \in Line /\ Terrain(tile).whole /\ Terrain(tile).kind # "feature"
         /\ \A w \in BOOLEAN : This \in Buildings =>
              /\ Feature(tile, building, Count, w) \in Line
              /\ Feature(tile, building, Count, w).kind = "feature"
              /\ Feature(tile, building, Count, w).of = This
              /\ Feature(tile, building, Count, w).whole = w
              /\ Feature(tile, building, Count, w).id \in Nat
              /\ Feature(tile, building, Count, w).id =
                   IF ValueOf(This) # NoValue THEN ValueOf(This) ELSE Count
<1>1. tile \in Nat /\ building \in Nat /\ Count \in Nat
  BY DEF TypeOK, Tiles, Count
<1>2. ASSUME This \in Buildings PROVE ValueOf(This) \in Nat
  <2>1. ValueOf(This) \in Values \cup {NoValue}
    BY <1>2, Zenon DEF TypeOK, InputOK, ValueOf
  <2>2. \A v \in Values \cup {NoValue} : v \in Nat
    BY SerializerAssumption DEF NoValue
  <2> QED
    BY <2>1, <2>2, Zenon
<1>3. This \in Buildings => Id(tile, building, Count) \in Nat
  BY <1>1, <1>2 DEF Id, ValueOf, This
<1>4. Id(tile, building, Count) = IF ValueOf(This) # NoValue THEN ValueOf(This) ELSE Count
  BY DEF Id, ValueOf, This
<1> QED
  BY <1>1, <1>3, <1>4 DEF Metadata, Terrain, Feature, Line, This

-----------------------------------------------------------------------------
(* What a step leaves of the output.                                       *)

\* Features are those of before, but for some of N; and what a reader found he
\* finds again, but for what is fragile.
Carried(N) ==
  /\ \A l \in Features' : l \notin N => l \in Features /\ LineAt(l)' = LineAt(l)
  /\ \A l \in ReadableFeatures' : l \notin N => l \in ReadableFeatures
  /\ \A l \in ReadableFeatures : LineAt(l).of \notin Fragile =>
       l \in ReadableFeatures' /\ LineAt(l)' = LineAt(l)

LEMMA HeadsCarry ==
  ASSUME SerializerInv, NEW P, Headed(ofs.files, ofs'.files, P),
         \A b \in Passed : FileOf(b) \in P => b \in Fragile
  PROVE  Carried({})
<1>1. ofs.files \in Files
  BY DEF SerializerInv, TypeOK, Stream
<1>2. ASSUME NEW l \in ReadableFeatures, l[1] \in P
      PROVE  LineAt(l).of \in Fragile
  BY <1>2 DEF ReadableFeatures, SerializerInv, PlaceInv
<1> QED
  BY <1>1, <1>2, HeadedFeatures, FeaturesOfFiles DEF Carried

LEMMA FeatureCarries ==
  ASSUME SerializerInv, NEW base, NEW line, NEW q, Extended(ofs.files, ofs'.files, q, base, line),
         base = ofs.files[q] \/ \A b \in Passed : FileOf(b) = q => b \in Fragile,
         NEW new, new = <<q, Len(base) + 1>>
  PROVE  /\ Carried({new})
         /\ new \in Features' /\ LineAt(new)' = line
         /\ line.whole /\ (Len(base) = 0 \/ base[Len(base)].whole) => new \in ReadableFeatures'
<1>1. ofs.files \in Files
  BY DEF SerializerInv, TypeOK, Stream
<1>2. ASSUME NEW l \in ReadableFeatures, LineAt(l).of \notin Fragile
      PROVE  l[1] # q \/ base = ofs.files[q]
  BY <1>2 DEF ReadableFeatures, SerializerInv, PlaceInv
<1>3. /\ \A l \in FeatureSet(ofs'.files) : l # new =>
           l \in FeatureSet(ofs.files) /\ ofs'.files[l[1]][l[2]] = ofs.files[l[1]][l[2]]
      /\ \A l \in ReadSet(ofs'.files) : l # new => l \in ReadSet(ofs.files)
      /\ new \in FeatureSet(ofs'.files) /\ ofs'.files[new[1]][new[2]] = line
      /\ \A l \in ReadSet(ofs.files) : l[1] # q \/ base = ofs.files[q] =>
           l \in ReadSet(ofs'.files) /\ ofs'.files[l[1]][l[2]] = ofs.files[l[1]][l[2]]
      /\ line.whole /\ (Len(base) = 0 \/ base[Len(base)].whole) => new \in ReadSet(ofs'.files)
  BY <1>1, ExtendedFeatures
<1>4. Carried({new})
  BY <1>2, <1>3, FeaturesOfFiles DEF Carried
<1> QED
  BY <1>3, <1>4, FeaturesOfFiles

\* N is empty, or it has the feature of this building.
IsNew(N) ==
  \/ N = {}
  \/ \E new \in Features' :
       /\ N = {new} /\ new[1] = FileOf(This)
       /\ LineAt(new)'.of = This /\ This \notin Passed /\ This \in Passed'
       /\ LineAt(new)'.whole => This \notin failed'

LEMMA OutputKept ==
  ASSUME SerializerInv, UNCHANGED input, NEW N, Carried(N), IsNew(N),
         Passed \subseteq Passed', failed' \cap Passed = failed
  PROVE  /\ PlaceInv' /\ UniqueInv'
         /\ \A b \in Passed : b \notin failed' =>
              IsFound(b)' \/ b \in Fragile' \/ FollowsFailure(b)'
<1>1. Fragile' = Fragile /\ \A b : FileOf(b)' = FileOf(b)
  BY InputStays
<1>2. ASSUME NEW l \in Features', l \notin N
      PROVE  /\ l \in Features /\ LineAt(l)' = LineAt(l) /\ LineAt(l).of \in Passed
             /\ l[1] = FileOf(LineAt(l).of)
             /\ LineAt(l).whole => LineAt(l).of \notin failed'
  BY <1>2 DEF Carried, SerializerInv, PlaceInv
<1>3. PlaceInv'
  <2>1. ASSUME NEW l \in Features'
        PROVE  /\ LineAt(l)'.of \in Passed'
               /\ l[1] = FileOf(LineAt(l)'.of)
               /\ LineAt(l)'.whole => LineAt(l)'.of \notin failed'
    <3>1. CASE l \notin N
      BY <3>1, <1>2
    <3>2. CASE l \in N
      BY <3>2 DEF IsNew
    <3> QED
      BY <3>1, <3>2
  <2> QED
    BY <2>1, <1>1 DEF PlaceInv
<1>4. UniqueInv'
  <2>1. ASSUME NEW l \in Features', NEW m \in Features', LineAt(l)'.of = LineAt(m)'.of
        PROVE  l = m
    <3>1. CASE l \notin N /\ m \notin N
      BY <3>1, <2>1, <1>2 DEF SerializerInv, UniqueInv
    <3>2. CASE l \in N /\ m \in N
      BY <3>2 DEF IsNew
    <3>3. CASE l \in N /\ m \notin N
      BY <3>3, <2>1, <1>2 DEF IsNew
    <3>4. CASE l \notin N /\ m \in N
      BY <3>4, <2>1, <1>2 DEF IsNew
    <3> QED
      BY <3>1, <3>2, <3>3, <3>4
  <2> QED
    BY <2>1 DEF UniqueInv
<1>5. ASSUME NEW b \in Passed, b \notin failed'
      PROVE  IsFound(b)' \/ b \in Fragile' \/ FollowsFailure(b)'
  <2>1. b \notin failed
    BY <1>5
  <2>2. CASE IsFound(b) /\ b \notin Fragile
    <3>1. PICK l \in ReadableFeatures : LineAt(l).of = b
      BY <2>2 DEF IsFound
    <3>2. l \in ReadableFeatures' /\ LineAt(l)'.of = b
      BY <3>1, <2>2 DEF Carried
    <3>3. IsFound(b)'
      BY <3>2 DEF IsFound
    <3> QED
      BY <3>3
  <2>3. CASE FollowsFailure(b)
    BY <2>3 DEF FollowsFailure, input
  <2>4. CASE b \in Fragile
    BY <2>4, <1>1
  <2> QED
    BY <2>1, <2>2, <2>3, <2>4 DEF SerializerInv, KeptInv
<1> QED
  BY <1>3, <1>4, <1>5

-----------------------------------------------------------------------------
(* The head of a tile.                                                     *)

\* A stream that has written nothing but heads, to files in P.
HeadStream(f, s, P) ==
  /\ s \in Stream /\ P \subseteq Paths /\ Headed(f, s.files, P)
  /\ s.path = Closed \/ (s.path \in P /\ IsHead(s.files[s.path]))

LEMMA HeadOpen ==
  ASSUME NEW f, NEW P, NEW s, HeadStream(f, s, P), s.path = Closed, NEW path \in P
  PROVE  /\ HeadStream(f, Open(s, path), P)
         /\ IF path \in unopenable
            THEN Open(s, path).path = Closed
            ELSE Open(s, path).path = path /\ Open(s, path).good
<1>1. s \in Stream /\ path \in Paths /\ s.files \in Files
  BY DEF HeadStream, Stream
<1>2. CASE path \in unopenable
  BY <1>1, <1>2, OpenFails DEF HeadStream
<1>3. CASE path \notin unopenable
  <2>1. /\ Open(s, path) \in Stream /\ Open(s, path).path = path /\ Open(s, path).good
        /\ Open(s, path).files = [s.files EXCEPT ![path] = <<>>]
    BY <1>1, <1>3, OpenOpens
  <2>2. /\ Open(s, path).files \in Files /\ Open(s, path).files[path] = <<>>
        /\ \A p \in Paths : p # path => Open(s, path).files[p] = s.files[p]
    BY <2>1, <1>1 DEF Files, Stream
  <2>3. Headed(f, Open(s, path).files, P)
    BY <2>2, EmptyHead DEF HeadStream, Headed
  <2> QED
    BY <1>3, <2>1, <2>2, <2>3, EmptyHead DEF HeadStream
<1> QED
  BY <1>2, <1>3

LEMMA HeadPut ==
  ASSUME NEW f, NEW P, NEW s, HeadStream(f, s, P),
         NEW line \in Line, line.whole, line.kind # "feature"
  PROVE  /\ HeadStream(f, Put(s, line), P)
         /\ Put(s, line).path = s.path /\ Put(s, line).good = s.good
<1>1. CASE s.path = Closed \/ ~ s.good
  BY <1>1, PutSkips
<1>2. CASE s.path # Closed /\ s.good
  <2>1. s \in Stream /\ s.path \in Paths /\ s.path \in P /\ s.files \in Files /\ IsHead(s.files[s.path])
    BY <1>2 DEF HeadStream, Stream
  <2>2. /\ Put(s, line) \in Stream /\ Put(s, line).path = s.path /\ Put(s, line).good
        /\ Put(s, line).files = [s.files EXCEPT ![s.path] = Append(s.files[s.path], line)]
    BY <2>1, <1>2, PutLine
  <2>3. IsHead(Append(s.files[s.path], line))
    BY <2>1, HeadGrows
  <2>4. /\ Put(s, line).files \in Files /\ IsHead(Put(s, line).files[s.path])
        /\ \A p \in Paths : p # s.path => Put(s, line).files[p] = s.files[p]
    BY <2>1, <2>2, <2>3 DEF Files, Stream
  <2>5. Headed(f, Put(s, line).files, P)
    BY <2>1, <2>4 DEF HeadStream, Headed
  <2>6. s.good = TRUE /\ Put(s, line).good = TRUE
    BY <1>2, <2>1, <2>2 DEF Stream
  <2> QED
    BY <2>1, <2>2, <2>4, <2>5, <2>6 DEF HeadStream
<1> QED
  BY <1>1, <1>2 DEF HeadStream, Stream

LEMMA HeadClose ==
  ASSUME NEW f, NEW P, NEW s, HeadStream(f, s, P)
  PROVE  HeadStream(f, Close(s), P) /\ Close(s).path = Closed
BY CloseStream DEF HeadStream

LEMMA HeadTerrain ==
  ASSUME TypeOK, tile \in Tiles,
         NEW f, NEW P, NEW s, HeadStream(f, s, P), s.path = Closed, TerrainPath(tile) \in P
  PROVE  HeadStream(f, OwnTerrainFile(s, tile), P) /\ OwnTerrainFile(s, tile).path = Closed
<1> DEFINE x == TerrainPath(tile)
           g == [s.files EXCEPT ![x] = <<Terrain(tile)>>]
<1>1. CASE x \in unopenable
  BY <1>1 DEF OwnTerrainFile
<1>2. CASE x \notin unopenable
  <2>1. IsHead(<<Terrain(tile)>>)
    <3>1. <<Terrain(tile)>> = Append(<<>>, Terrain(tile))
      OBVIOUS
    <3> QED
      BY <3>1, LineTypes, EmptyHead, HeadGrows
  <2>2. s \in Stream /\ s.files \in Files /\ x \in Paths /\ <<Terrain(tile)>> \in Seq(Line)
    BY <2>1 DEF HeadStream, Stream, IsHead
  <2>3. /\ g \in Files /\ g[x] = <<Terrain(tile)>>
        /\ \A p \in Paths : p # x => g[p] = s.files[p]
    BY <2>2 DEF Files
  <2>4. OwnTerrainFile(s, tile) = [s EXCEPT !.files = g]
    BY <1>2, <2>2 DEF OwnTerrainFile, Stream
  <2> HIDE DEF g
  <2>5. /\ OwnTerrainFile(s, tile) \in Stream /\ OwnTerrainFile(s, tile).path = Closed
        /\ OwnTerrainFile(s, tile).files = g
    BY <2>2, <2>3, <2>4 DEF Stream
  <2>6. Headed(f, g, P)
    BY <2>1, <2>3 DEF HeadStream, Headed
  <2> QED
    BY <2>5, <2>6 DEF HeadStream
<1> QED
  BY <1>1, <1>2

LEMMA TileFileHead ==
  ASSUME TypeOK, tile \in Tiles, ~ cfg.split_cjseq, NEW s \in Stream, s.path = Closed
  PROVE  LET h == TileHead(s, tile)
         IN  /\ HeadStream(s.files, h, {TilePath(tile)})
             /\ IF TilePath(tile) \in unopenable THEN h.path = Closed
                ELSE h.path = TilePath(tile) /\ h.good
<1> DEFINE p == TilePath(tile)
           P == {p}
           o == Open(s, p)
           m == MaybeMetadata(o, tile)
           h == IF cfg.terrain THEN Put(m, Terrain(tile)) ELSE m
           Ready(r) == /\ HeadStream(s.files, r, P)
                       /\ IF p \in unopenable THEN r.path = Closed ELSE r.path = p /\ r.good
<1>1. HeadStream(s.files, s, P)
  <2>1. p \in Paths /\ s.files \in Files
    BY PathFacts DEF TypeOK, InputOK, Stream
  <2> QED
    BY <2>1 DEF HeadStream, Headed
<1>2. Ready(o)
  BY <1>1, HeadOpen
<1>3. ASSUME NEW r, NEW line, Ready(r), line \in Line, line.whole, line.kind # "feature"
      PROVE  Ready(Put(r, line))
  <2>1. /\ HeadStream(s.files, Put(r, line), P)
        /\ Put(r, line).path = r.path /\ Put(r, line).good = r.good
    BY <1>3, HeadPut
  <2> QED
    BY <2>1, <1>3
<1>4. h = TileHead(s, tile)
  BY DEF TileHead
<1> HIDE DEF Ready, p, o
<1>5. Ready(m)
  BY <1>2, <1>3, LineTypes DEF MaybeMetadata
<1> HIDE DEF m
<1>6. Ready(h)
  BY <1>3, <1>5, LineTypes
<1> HIDE DEF h
<1> QED
  BY <1>4, <1>6 DEF Ready, p

LEMMA SharedHead ==
  ASSUME TypeOK, tile \in Tiles, cfg.split_cjseq, NEW s \in Stream, s.path = Closed
  PROVE  /\ HeadStream(s.files, TileHead(s, tile), {MetadataPath, TerrainPath(tile)})
         /\ TileHead(s, tile).path = Closed
<1> DEFINE P == {MetadataPath, TerrainPath(tile)}
           m == IF cfg.omit_metadata THEN s
                ELSE Close(Put(Open(s, MetadataPath), Metadata(tile)))
           Ready(r) == HeadStream(s.files, r, P) /\ r.path = Closed
<1>1. Ready(s)
  <2>1. P \subseteq Paths /\ s.files \in Files
    BY PathFacts DEF TypeOK, InputOK, Stream
  <2> QED
    BY <2>1 DEF HeadStream, Headed
<1>2. Ready(m)
  <2>1. HeadStream(s.files, Open(s, MetadataPath), P)
    BY <1>1, HeadOpen
  <2>2. HeadStream(s.files, Put(Open(s, MetadataPath), Metadata(tile)), P)
    BY <2>1, HeadPut, LineTypes
  <2>3. Ready(Close(Put(Open(s, MetadataPath), Metadata(tile))))
    BY <2>2, HeadClose
  <2> QED
    BY <1>1, <2>3
<1>3. TileHead(s, tile) = IF cfg.terrain THEN OwnTerrainFile(m, tile) ELSE m
  BY DEF TileHead
<1> HIDE DEF m
<1>4. Ready(OwnTerrainFile(m, tile))
  BY <1>2, HeadTerrain
<1> QED
  BY <1>2, <1>3, <1>4

-----------------------------------------------------------------------------
(* The steps. Each preserves the invariant.                                *)

\* The start of a tile replaces the file of an earlier one with its corner.
LEMMA TileReplaces ==
  ASSUME TypeOK, pc = "tile", tile \in Tiles, ~ cfg.split_cjseq,
         NEW b \in Passed, FileOf(b) = TilePath(tile)
  PROVE  b \in Fragile
<1>1. b \in Buildings /\ b[1] < tile
  BY DEF Passed
<1>2. <<tile, 1>> \in Buildings
  <2>1. buildings_cnt[tile] \in Nat /\ 1 <= buildings_cnt[tile]
    BY SerializerAssumption DEF TypeOK, InputOK
  <2> QED
    BY <2>1, BuildingFacts DEF TypeOK
<1>3. corner[b[1]] = corner[tile]
  BY DEF FileOf, TilePath
<1>4. b[1] < <<tile, 1>>[1] /\ corner[b[1]] = corner[<<tile, 1>>[1]]
  BY <1>1, <1>3
<1>5. IsReplaced(b)
  BY <1>2, <1>4 DEF IsReplaced
<1> QED
  BY <1>1, <1>5 DEF Fragile

\* A building replaces the file of an earlier one with its name.
LEMMA BuildingReplaces ==
  ASSUME TypeOK, pc = "features", cfg.split_cjseq, This \in Buildings,
         NEW b \in Passed, FileOf(b) = FileOf(This)
  PROVE  b \in Fragile
<1>1. b \in Buildings /\ (b[1] < tile \/ (b[1] = tile /\ b[2] < building))
  BY DEF Passed
<1>2. This[1] = tile /\ This[2] = building
  BY DEF This
<1>3. JsonlPath(b[1], b[2]) = JsonlPath(This[1], This[2])
  BY DEF FileOf
<1>4. IF cfg.id_attribute = "string"
      THEN attribute[b[1]][b[2]] = attribute[This[1]][This[2]] ELSE b[2] = This[2]
  BY <1>3 DEF JsonlPath
<1>5. IsReplaced(b)
  BY <1>1, <1>2, <1>4, Zenon DEF IsReplaced
<1> QED
  BY <1>1, <1>5 DEF Fragile

\* A step that starts or ends a tile.
LEMMA TileStep ==
  ASSUME SerializerInv, UNCHANGED <<input, failed, serialized_buildings_cnt>>, Passed' = Passed,
         TypeOK', StreamInv', Carried({}),
         pc' = "features" => pc = "tile" /\ tile' = tile
                             /\ written_features_count' = serialized_buildings_cnt
  PROVE  SerializerInv'
<1>1. IsNew({})
  BY DEF IsNew
<1>2. failed' \cap Passed = failed
  BY DEF SerializerInv, TypeOK
<1>3. /\ PlaceInv' /\ UniqueInv'
      /\ \A b \in Passed : b \notin failed' =>
           IsFound(b)' \/ b \in Fragile' \/ FollowsFailure(b)'
  BY <1>1, <1>2, OutputKept
<1>4. KeptInv'
  BY <1>3 DEF KeptInv
<1>5. CountInv'
  BY DEF SerializerInv, CountInv
<1>6. \A b : ValueOf(b)' = ValueOf(b)
  BY InputStays
<1>7. ASSUME NEW l \in Features'
      PROVE  /\ l \in Features /\ LineAt(l)' = LineAt(l) /\ LineAt(l).of \in Passed
             /\ pc = "tile" /\ tile' = tile => LineAt(l).of[1] # tile'
  <2>1. l \in Features /\ LineAt(l)' = LineAt(l) /\ LineAt(l).of \in Passed
    BY DEF Carried, SerializerInv, PlaceInv
  <2>2. tile \in Nat /\ ~ (tile < tile)
    BY DEF SerializerInv, TypeOK
  <2> QED
    BY <2>1, <2>2 DEF Passed
<1>8. IdInv'
  BY <1>6, <1>7 DEF SerializerInv, IdInv
<1>9. CountedOnce'
  BY <1>6, <1>7 DEF SerializerInv, CountedOnce
<1> QED
  BY <1>3, <1>4, <1>5, <1>8, <1>9 DEF SerializerInv

LEMMA StartFiles ==
  ASSUME SerializerInv, StartTile
  PROVE  /\ ofs' \in Stream /\ StreamInv'
         /\ Carried({})
<1> USE DEF StartTile
<1>1. /\ TypeOK /\ tile \in Tiles /\ ofs \in Stream
      /\ cfg.split_cjseq' = cfg.split_cjseq /\ TilePath(tile)' = TilePath(tile)
      /\ unopenable' = unopenable
  BY InputStays DEF SerializerInv, TypeOK, input
<1>2. /\ Fresh(ofs) \in Stream /\ Fresh(ofs).path = Closed /\ Fresh(ofs).files = ofs.files
  BY <1>1, FreshStream
<1>3. CASE cfg.split_cjseq
  <2> DEFINE P == {MetadataPath, TerrainPath(tile)}
  <2>1. HeadStream(ofs.files, ofs', P) /\ ofs'.path = Closed
    BY <1>1, <1>2, <1>3, SharedHead
  <2>2. \A b \in Passed : FileOf(b) \notin P
    BY <1>3, PathFacts DEF FileOf
  <2>3. Headed(ofs.files, ofs'.files, P)
    BY <2>1 DEF HeadStream
  <2>4. Carried({})
    BY <2>2, <2>3, HeadsCarry
  <2> QED
    BY <1>1, <1>3, <2>1, <2>4 DEF HeadStream, StreamInv
<1>4. CASE ~ cfg.split_cjseq
  <2> DEFINE p == TilePath(tile)
             P == {p}
  <2>1. /\ HeadStream(ofs.files, ofs', P)
        /\ IF p \in unopenable THEN ofs'.path = Closed ELSE ofs'.path = p /\ ofs'.good
    BY <1>1, <1>2, <1>4, TileFileHead
  <2>2. \A b \in Passed : FileOf(b) \in P => b \in Fragile
    BY <1>1, <1>4, TileReplaces
  <2>3. Headed(ofs.files, ofs'.files, P) /\ ofs' \in Stream
    BY <2>1 DEF HeadStream
  <2>4. Carried({})
    BY <2>2, <2>3, HeadsCarry
  <2>5. CASE p \in unopenable
    BY <1>1, <1>4, <2>1, <2>3, <2>4, <2>5 DEF StreamInv
  <2>6. CASE p \notin unopenable
    <3>1. IsHead(ofs'.files[p]) /\ p # Closed
      BY <1>1, <2>1, <2>6, PathFacts DEF HeadStream, TypeOK, InputOK
    <3>2. Len(ofs'.files[p]) \in Nat
      BY <3>1 DEF IsHead
    <3>3. Len(ofs'.files[p]) = 0 \/ ofs'.files[p][Len(ofs'.files[p])].whole
      BY <3>1, <3>2 DEF IsHead
    <3> QED
      BY <1>1, <1>4, <2>1, <2>3, <2>4, <2>6, <3>3 DEF StreamInv
  <2> QED
    BY <2>5, <2>6
<1>5. cfg.split_cjseq \in BOOLEAN
  BY <1>1, SerializerAssumption DEF TypeOK, InputOK, AllConfigs
<1> QED
  BY <1>3, <1>4, <1>5

LEMMA StartStep ==
  ASSUME SerializerInv, StartTile
  PROVE  SerializerInv'
<1> USE DEF StartTile
<1>1. TypeOK /\ tile \in Tiles
  BY DEF SerializerInv
<1>2. ofs' \in Stream /\ StreamInv' /\ Carried({})
  BY StartFiles
<1>3. Passed' = Passed
  BY <1>1, PassedStart
<1>4. TypeOK'
  BY <1>1, <1>2, <1>3, InputStays DEF TypeOK, Tiles
<1> QED
  BY <1>2, <1>3, <1>4, TileStep

LEMMA EndStep ==
  ASSUME SerializerInv, EndTile
  PROVE  SerializerInv' /\ ofs'.files = ofs.files /\ Passed' = Passed
<1> USE DEF EndTile
<1>1. TypeOK /\ tile \in Nat \ {0} /\ ofs \in Stream
  BY DEF SerializerInv, TypeOK
<1>2. ofs' \in Stream /\ ofs'.files = ofs.files
  BY <1>1, FreshStream
<1>3. Passed' = Passed
  BY <1>1, PassedEnd
<1>4. TypeOK'
  BY <1>1, <1>2, <1>3, InputStays DEF TypeOK, Tiles
<1>5. StreamInv'
  BY DEF StreamInv
<1>6. Carried({})
  BY <1>2, FeaturesOfFiles DEF Carried
<1> QED
  BY <1>2, <1>3, <1>4, <1>5, <1>6, TileStep

\* The files with the one of this building as it is, or emptied.
Emptied(base) == [ofs.files EXCEPT ![FileOf(This)] = base]

\* The stream of a building either goes on in its file, or swallows its line.
LEMMA FeaturePlace ==
  ASSUME SerializerInv, pc = "features", This \in Buildings
  PROVE  /\ FeatureStream \in Stream
         /\ \/ /\ FeatureStream.path = FileOf(This) /\ FeatureStream.good
               /\ \E base \in {ofs.files[FileOf(This)], <<>>} :
                    /\ FeatureStream.files = Emptied(base)
                    /\ \/ base = ofs.files[FileOf(This)]
                       \/ \A b \in Passed : FileOf(b) = FileOf(This) => b \in Fragile
                    /\ Len(base) = 0 \/ base[Len(base)].whole \/ FollowsFailure(This)
            \/ /\ FeatureStream.path = Closed \/ ~ FeatureStream.good
               /\ FeatureStream.files = ofs.files
               /\ This \in Fragile \/ FollowsFailure(This)
<1> DEFINE q == FileOf(This)
<1>1. TypeOK /\ ofs \in Stream /\ ofs.files \in Files /\ q \in Paths /\ q # Closed
  BY FileFacts, PathFacts DEF SerializerInv, TypeOK, Stream
<1>2. This[1] = tile /\ This[2] = building
  BY DEF This
<1>3. q \in unopenable => This \in Fragile
  BY DEF Fragile
<1>4. CASE cfg.split_cjseq
  <2>1. FeatureStream = Open(ofs, q)
    BY <1>2, <1>4 DEF FeatureStream, FileOf
  <2>2. JustFailed => FollowsFailure(This)
    BY <1>2, <1>4 DEF JustFailed, FollowsFailure
  <2>3. CASE ofs.path = Closed /\ q \notin unopenable
    <3>1. /\ FeatureStream \in Stream /\ FeatureStream.path = q /\ FeatureStream.good
          /\ FeatureStream.files = Emptied(<<>>)
      BY <1>1, <2>1, <2>3, OpenOpens DEF Emptied
    <3>2. \A b \in Passed : FileOf(b) = q => b \in Fragile
      BY <1>1, <1>4, BuildingReplaces
    <3>3. Len(<<>>) = 0
      OBVIOUS
    <3> HIDE DEF q
    <3> QED
      BY <3>1, <3>2, <3>3 DEF q
  <2>4. CASE ~ (ofs.path = Closed /\ q \notin unopenable)
    <3>1. /\ FeatureStream \in Stream /\ ~ FeatureStream.good
          /\ FeatureStream.files = ofs.files
      BY <1>1, <2>1, <2>4, OpenFails
    <3>2. This \in Fragile \/ FollowsFailure(This)
      BY <1>3, <1>4, <2>2, <2>4 DEF SerializerInv, StreamInv
    <3> QED
      BY <3>1, <3>2
  <2> QED
    BY <2>3, <2>4
<1>5. CASE ~ cfg.split_cjseq
  <2>1. FeatureStream = ofs /\ q = TilePath(tile)
    BY <1>2, <1>5 DEF FeatureStream, FileOf
  <2>2. JustFailed /\ "dump" \in cfg.faults => FollowsFailure(This)
    BY <1>2 DEF JustFailed, FollowsFailure
  <2>3. CASE TilePath(tile) \in unopenable /\ ofs.path = Closed
    BY <1>1, <1>3, <2>1, <2>3
  <2>4. CASE ~ (TilePath(tile) \in unopenable /\ ofs.path = Closed)
    <3>1. /\ ofs.good /\ ofs.path = q
          /\ Len(ofs.files[q]) = 0 \/ ofs.files[q][Len(ofs.files[q])].whole
             \/ FollowsFailure(This)
      BY <1>5, <2>1, <2>2, <2>4 DEF SerializerInv, StreamInv
    <3>2. ofs.files = Emptied(ofs.files[q])
      BY <1>1 DEF Emptied, Files
    <3> HIDE DEF q
    <3> QED
      BY <1>1, <2>1, <3>1, <3>2 DEF q
  <2> QED
    BY <2>3, <2>4
<1>6. cfg.split_cjseq \in BOOLEAN
  BY <1>1, SerializerAssumption DEF TypeOK, InputOK, AllConfigs
<1> QED
  BY <1>4, <1>5, <1>6

\* The stream after a line was put into it: with a file per tile, the line is
\* the last of the file.
LEMMA LineFits ==
  ASSUME SerializerInv, pc = "features", This \in Buildings, tile \in Tiles, NEW w \in BOOLEAN
  PROVE  LET s == Put(FeatureStream, Feature(tile, building, Count, w))
             p == TilePath(tile)
         IN  /\ s \in Stream
             /\ ~ cfg.split_cjseq =>
                  \/ p \in unopenable /\ s.path = Closed
                  \/ /\ s.good /\ s.path = p
                     /\ s.files[p][Len(s.files[p])].whole = w
<1> DEFINE line == Feature(tile, building, Count, w)
           s == Put(FeatureStream, line)
           p == TilePath(tile)
<1>1. TypeOK /\ FeatureStream \in Stream /\ line \in Line /\ line.whole = w
  BY FeaturePlace, LineTypes DEF SerializerInv
<1>2. FileOf(This) \in Paths
  BY <1>1, FileFacts DEF TypeOK
<1>3. CASE FeatureStream.path = Closed \/ ~ FeatureStream.good
  <2>1. s = FeatureStream
    BY <1>3, PutSkips
  <2>2. ~ cfg.split_cjseq => p \in unopenable /\ FeatureStream.path = Closed
    <3>1. p \in Paths /\ p # Closed
      BY <1>1, PathFacts DEF TypeOK, InputOK
    <3>2. ~ cfg.split_cjseq => FeatureStream = ofs
      BY DEF FeatureStream
    <3> QED
      BY <1>3, <3>1, <3>2 DEF SerializerInv, StreamInv
  <2> HIDE DEF s
  <2> QED
    BY <1>1, <2>1, <2>2 DEF s
<1>4. CASE FeatureStream.path # Closed /\ FeatureStream.good
  <2> DEFINE x == FeatureStream.path
             f == FeatureStream.files
  <2>1. x \in Paths /\ f \in Files /\ f[x] \in Seq(Line)
    BY <1>1, <1>4 DEF Stream, Files
  <2>2. s \in Stream /\ s.path = x /\ s.good /\ s.files = [f EXCEPT ![x] = Append(f[x], line)]
    BY <1>1, <1>4, <2>1, PutLine
  <2>3. s.files[x] = Append(f[x], line)
    BY <2>1, <2>2 DEF Files
  <2>4. s.files[x][Len(s.files[x])] = line
    <3>1. Len(Append(f[x], line)) = Len(f[x]) + 1 /\ Append(f[x], line)[Len(f[x]) + 1] = line
      BY <1>1, <2>1, AppendProperties
    <3> QED
      BY <2>3, <3>1
  <2>5. ~ cfg.split_cjseq => x = p
    BY <1>4 DEF FeatureStream, SerializerInv, StreamInv
  <2> HIDE DEF s, line
  <2> QED
    BY <1>1, <2>2, <2>4, <2>5 DEF s, line
<1> QED
  BY <1>3, <1>4

\* The features N have the identifier the building gets.
Named(N) ==
  \A l \in N : /\ LineAt(l)'.of = This /\ LineAt(l)'.id \in Nat
               /\ LineAt(l)'.id = IF ValueOf(This) # NoValue THEN ValueOf(This) ELSE Count

\* A reader finds this building after the step.
IsFoundNow == \E l \in ReadableFeatures' : LineAt(l)'.of = This

\* A line put into the stream of a building is the only change of the output.
LEMMA LinePut ==
  ASSUME SerializerInv, pc = "features", HasBuilding,
         UNCHANGED <<input, tile, pc>>, building' = building + 1,
         NEW w \in BOOLEAN, w => This \notin failed',
         ofs'.files = Put(FeatureStream, Feature(tile, building, Count, w)).files
  PROVE  /\ Put(FeatureStream, Feature(tile, building, Count, w)) \in Stream
         /\ \E N : /\ Carried(N) /\ IsNew(N) /\ Named(N)
                   /\ w => IsFoundNow \/ This \in Fragile \/ FollowsFailure(This)
<1> DEFINE q == FileOf(This)
           line == Feature(tile, building, Count, w)
           s == Put(FeatureStream, line)
<1>1. TypeOK /\ tile \in Tiles /\ ofs.files \in Files
  BY DEF SerializerInv, TypeOK, Stream
<1>2. /\ This \notin Passed /\ This \in Passed' /\ This \in Buildings
  BY <1>1, PassedNext
<1>3. q \in Paths /\ q # Closed
  BY <1>1, <1>2, FileFacts, PathFacts DEF TypeOK
<1>4. /\ line \in Line /\ line.kind = "feature" /\ line.of = This /\ line.whole = w
      /\ line.id \in Nat
      /\ line.id = IF ValueOf(This) # NoValue THEN ValueOf(This) ELSE Count
  BY <1>1, <1>2, LineTypes
<1>5. FeatureStream \in Stream
  BY <1>2, FeaturePlace
<1> HIDE DEF line
<1>6. CASE FeatureStream.path = q /\ FeatureStream.good
  <2>1. PICK base \in {ofs.files[q], <<>>} :
          /\ FeatureStream.files = Emptied(base)
          /\ base = ofs.files[q] \/ \A b \in Passed : FileOf(b) = q => b \in Fragile
          /\ Len(base) = 0 \/ base[Len(base)].whole \/ FollowsFailure(This)
    <3>1. ofs.files = Emptied(ofs.files[q])
      BY <1>1, <1>3 DEF Emptied, Files
    <3>2. ~ (FeatureStream.path = Closed \/ ~ FeatureStream.good)
      BY <1>3, <1>6
    <3> QED
      BY <1>2, <3>2, FeaturePlace
  <2>2. base \in Seq(Line)
    BY <1>1, <1>3, EmptySeq DEF Files
  <2>3. /\ s \in Stream
        /\ s.files = [FeatureStream.files EXCEPT ![q] = Append(FeatureStream.files[q], line)]
    BY <1>3, <1>4, <1>5, <1>6, PutLine
  <2>4. /\ FeatureStream.files[q] = base
        /\ [FeatureStream.files EXCEPT ![q] = Append(base, line)]
             = [ofs.files EXCEPT ![q] = Append(base, line)]
    BY <1>1, <1>3, <2>1 DEF Emptied, Files
  <2>5. ofs'.files = [ofs.files EXCEPT ![q] = Append(base, line)]
    BY <2>3, <2>4 DEF line
  <2>6. Extended(ofs.files, ofs'.files, q, base, line)
    BY <1>3, <1>4, <2>1, <2>5 DEF Extended
  <2>0. PICK new : new = <<q, Len(base) + 1>>
    OBVIOUS
  <2>7. /\ Carried({new}) /\ new \in Features' /\ LineAt(new)' = line
        /\ line.whole /\ (Len(base) = 0 \/ base[Len(base)].whole) => new \in ReadableFeatures'
    BY <2>0, <2>1, <2>6, FeatureCarries
  <2>8. new[1] = q
    BY <2>0
  <2>9. IsNew({new})
    BY <1>2, <1>4, <2>7, <2>8 DEF IsNew
  <2>10. Named({new})
    BY <1>4, <2>7 DEF Named
  <2>11. w => IsFoundNow \/ This \in Fragile \/ FollowsFailure(This)
    <3>1. new \in ReadableFeatures' => IsFoundNow
      BY <1>4, <2>7 DEF IsFoundNow
    <3> QED
      BY <1>4, <2>1, <2>7, <3>1
  <2> QED
    BY <2>3, <2>7, <2>9, <2>10, <2>11 DEF line
<1>7. CASE ~ (FeatureStream.path = q /\ FeatureStream.good)
  <2>1. /\ FeatureStream.path = Closed \/ ~ FeatureStream.good
        /\ FeatureStream.files = ofs.files
        /\ This \in Fragile \/ FollowsFailure(This)
    BY <1>2, <1>7, FeaturePlace
  <2>2. s = FeatureStream
    BY <2>1, PutSkips
  <2>3. ofs'.files = ofs.files
    BY <2>1, <2>2 DEF line
  <2>4. Carried({})
    BY <2>3, FeaturesOfFiles DEF Carried
  <2>5. IsNew({}) /\ Named({})
    BY DEF IsNew, Named
  <2> QED
    BY <1>5, <2>1, <2>2, <2>4, <2>5 DEF line
<1> QED
  BY <1>6, <1>7

\* With no line put, nothing is new.
LEMMA NoLinePut ==
  ASSUME SerializerInv, pc = "features", This \in Buildings, ofs'.files = FeatureStream.files
  PROVE  Carried({})
<1> DEFINE q == FileOf(This)
<1>1. CASE FeatureStream.files = ofs.files
  BY <1>1, FeaturesOfFiles DEF Carried
<1>2. CASE FeatureStream.files # ofs.files
  <2>1. ofs.files \in Files /\ q \in Paths
    BY FileFacts DEF SerializerInv, TypeOK, Stream
  <2>2. ofs.files = Emptied(ofs.files[q])
    BY <2>1 DEF Emptied, Files
  <2>3. /\ ofs'.files = Emptied(<<>>)
        /\ \A b \in Passed : FileOf(b) = q => b \in Fragile
    BY <1>2, <2>2, FeaturePlace
  <2>4. <<>> \in Seq(Line)
    BY EmptySeq
  <2>5. /\ ofs'.files \in Files /\ ofs'.files[q] = <<>>
        /\ \A p \in Paths : p # q => ofs'.files[p] = ofs.files[p]
    BY <2>1, <2>3, <2>4 DEF Emptied, Files
  <2>6. Headed(ofs.files, ofs'.files, {q})
    BY <2>5, EmptyHead DEF Headed
  <2> QED
    BY <2>3, <2>6, HeadsCarry
<1> QED
  BY <1>1, <1>2

LEMMA IdsKept ==
  ASSUME SerializerInv, UNCHANGED <<input, tile, pc>>, pc = "features",
         NEW N, Carried(N), IsNew(N), Named(N),
         written_features_count \in Nat, written_features_count' \in Nat,
         serialized_buildings_cnt \in Nat, serialized_buildings_cnt' \in Nat,
         written_features_count' >= written_features_count,
         serialized_buildings_cnt' >= serialized_buildings_cnt,
         N # {} => written_features_count' = Count,
         failed \subseteq failed',
         failed' = {} => written_features_count' = serialized_buildings_cnt'
  PROVE  IdInv' /\ CountedOnce'
<1>1. \A b : ValueOf(b)' = ValueOf(b)
  BY InputStays
<1>2. failed' = {} => failed = {}
  OBVIOUS
<1>3. ASSUME NEW l \in Features', l \notin N
      PROVE  /\ l \in Features /\ LineAt(l)' = LineAt(l)
             /\ LineAt(l).id \in Nat
             /\ ValueOf(LineAt(l).of) # NoValue => LineAt(l).id = ValueOf(LineAt(l).of)
             /\ ValueOf(LineAt(l).of) = NoValue =>
                  /\ LineAt(l).of[1] = tile => LineAt(l).id <= written_features_count
                  /\ failed = {} => LineAt(l).id <= serialized_buildings_cnt
  BY <1>3 DEF Carried, SerializerInv, IdInv
<1>4. \A l, m \in N : l = m
  BY DEF IsNew
<1>5. failed = {} => written_features_count = serialized_buildings_cnt
  BY DEF SerializerInv, IdInv
<1>6. IdInv'
  <2>1. ASSUME NEW l \in Features'
        PROVE  /\ LineAt(l)'.id \in Nat
               /\ ValueOf(LineAt(l)'.of) # NoValue => LineAt(l)'.id = ValueOf(LineAt(l)'.of)
               /\ ValueOf(LineAt(l)'.of) = NoValue =>
                    /\ LineAt(l)'.of[1] = tile => LineAt(l)'.id <= written_features_count'
                    /\ failed' = {} => LineAt(l)'.id <= serialized_buildings_cnt'
    <3>1. CASE l \notin N
      <4>1. /\ LineAt(l).id <= written_features_count => LineAt(l).id <= written_features_count'
            /\ LineAt(l).id <= serialized_buildings_cnt => LineAt(l).id <= serialized_buildings_cnt'
        BY <3>1, <1>3
      <4> QED
        BY <3>1, <4>1, <1>2, <1>3
    <3>2. CASE l \in N
      <4>1. /\ LineAt(l)'.of = This /\ LineAt(l)'.id \in Nat
            /\ LineAt(l)'.id = IF ValueOf(This) # NoValue THEN ValueOf(This) ELSE Count
            /\ written_features_count' = Count
        BY <3>2 DEF Named
      <4> QED
        BY <4>1
    <3> QED
      BY <3>1, <3>2
  <2> QED
    BY <2>1, <1>1 DEF IdInv
<1>7. CountedOnce'
  <2>1. ASSUME NEW l, NEW m \in Features', l \in N, m \notin N,
               ValueOf(LineAt(l)'.of) = NoValue, ValueOf(LineAt(m)'.of) = NoValue,
               LineAt(l)'.id = LineAt(m)'.id
        PROVE  LineAt(l)'.of[1] # LineAt(m)'.of[1] /\ failed' # {}
    <3>1. LineAt(l)'.of = This /\ LineAt(l)'.id = written_features_count + 1
      BY <2>1 DEF Named, Count
    <3>2. LineAt(m)'.id = LineAt(m).id /\ LineAt(m)'.of = LineAt(m).of /\ LineAt(m).id \in Nat
      BY <2>1, <1>3
    <3>3. ~ (LineAt(m).id <= written_features_count)
      <4>1. LineAt(m).id = written_features_count + 1
        BY <2>1, <3>1, <3>2
      <4> QED
        BY <4>1
    <3>4. LineAt(m).of[1] # tile /\ failed # {}
      BY <2>1, <3>2, <3>3, <1>3, <1>5
    <3> QED
      BY <3>1, <3>2, <3>4, <1>2 DEF This
  <2>2. ASSUME NEW l \in Features', NEW m \in Features', l # m,
               ValueOf(LineAt(l)'.of) = NoValue, ValueOf(LineAt(m)'.of) = NoValue,
               LineAt(l)'.id = LineAt(m)'.id
        PROVE  LineAt(l)'.of[1] # LineAt(m)'.of[1] /\ failed' # {}
    <3>1. CASE l \in N /\ m \notin N
      BY <2>1, <2>2, <3>1
    <3>2. CASE l \notin N /\ m \in N
      BY <2>1, <2>2, <3>2
    <3>3. CASE l \notin N /\ m \notin N
      BY <2>2, <3>3, <1>2, <1>3 DEF SerializerInv, CountedOnce
    <3>4. CASE l \in N /\ m \in N
      BY <2>2, <3>4, <1>4
    <3> QED
      BY <3>1, <3>2, <3>3, <3>4
  <2> QED
    BY <2>2, <1>1 DEF CountedOnce
<1> QED
  BY <1>6, <1>7

\* What is passed in the middle of a tile, and what has failed.
LEMMA PassedFinite ==
  ASSUME TypeOK
  PROVE  IsFiniteSet(Passed) /\ IsFiniteSet(Passed \ failed) /\ IsFiniteSet(Passed \cap failed)
<1>1. IsFiniteSet(Buildings)
  BY BuildingFacts DEF TypeOK
<1>2. Passed \subseteq Buildings
  BY DEF Passed
<1> QED
  BY <1>1, <1>2, FS_Subset

\* The types after a feature that was written or failed.
LEMMA FeatureTypes ==
  ASSUME TypeOK, UNCHANGED <<input, tile, pc, serialized_tiles_cnt>>,
         building' = building + 1, ofs' \in Stream, failed' \subseteq Passed',
         written_features_count' \in {written_features_count, Count},
         serialized_buildings_cnt' \in {serialized_buildings_cnt, serialized_buildings_cnt + 1}
  PROVE  TypeOK'
<1>1. InputOK'
  BY InputStays DEF TypeOK
<1>2. building' \in Nat \ {0} /\ tile' = tile /\ pc' = pc /\ Tiles' = Tiles
  BY DEF TypeOK, Tiles
<1>3. written_features_count' \in Nat /\ serialized_buildings_cnt' \in Nat
  BY DEF TypeOK, Count
<1> QED
  BY <1>1, <1>2, <1>3 DEF TypeOK

LEMMA WriteStep ==
  ASSUME SerializerInv, WriteFeature
  PROVE  SerializerInv' /\ Passed' = Passed \cup {This} /\ \E N : Carried(N) /\ IsNew(N)
<1> USE DEF WriteFeature
<1> DEFINE s == Put(FeatureStream, Feature(tile, building, Count, TRUE))
<1>1. /\ TypeOK /\ tile \in Tiles /\ building \in Nat \ {0} /\ ofs \in Stream
      /\ cfg' = cfg /\ unopenable' = unopenable /\ TilePath(tile)' = TilePath(tile)
      /\ cfg.split_cjseq \in BOOLEAN
  BY InputStays, SerializerAssumption DEF SerializerInv, TypeOK, InputOK, input, AllConfigs
<1>2. Passed' = Passed \cup {This} /\ This \notin Passed /\ This \in Buildings
  BY <1>1, PassedNext
<1>3. failed' = failed /\ This \notin failed' /\ failed \subseteq Passed
  BY <1>1, <1>2 DEF TypeOK
<1>4. /\ s \in Stream
      /\ ~ cfg.split_cjseq =>
           \/ TilePath(tile) \in unopenable /\ s.path = Closed
           \/ /\ s.good /\ s.path = TilePath(tile)
              /\ s.files[TilePath(tile)][Len(s.files[TilePath(tile)])].whole = TRUE
  BY <1>1, <1>2, LineFits
<1>5. PICK N : /\ ofs'.files = s.files => Carried(N) /\ IsNew(N) /\ Named(N)
               /\ ofs'.files = s.files => IsFoundNow \/ This \in Fragile \/ FollowsFailure(This)
  BY <1>3, LinePut
<1> HIDE DEF s
<1>6. ofs' = CloseFeature(s)
  BY DEF s
<1>7. ofs' \in Stream /\ ofs'.files = s.files
  BY <1>4, <1>6, CloseStream DEF CloseFeature
<1>8. Carried(N) /\ IsNew(N) /\ Named(N)
  BY <1>5, <1>7
<1>9. TypeOK'
  BY <1>1, <1>2, <1>3, <1>7, FeatureTypes
<1>10. StreamInv'
  <2>1. CASE cfg.split_cjseq
    BY <1>1, <1>4, <1>6, <2>1, CloseStream DEF CloseFeature, StreamInv
  <2>2. CASE ~ cfg.split_cjseq
    <3>1. ofs' = s
      BY <1>6, <2>2 DEF CloseFeature
    <3> QED
      BY <1>1, <1>4, <2>2, <3>1 DEF StreamInv
  <2> QED
    BY <1>1, <2>1, <2>2
<1>11. /\ PlaceInv' /\ UniqueInv'
       /\ \A b \in Passed : b \notin failed' =>
            IsFound(b)' \/ b \in Fragile' \/ FollowsFailure(b)'
  BY <1>2, <1>3, <1>8, OutputKept
<1>12. KeptInv'
  <2>1. IsFoundNow \/ This \in Fragile \/ FollowsFailure(This)
    BY <1>5, <1>7
  <2>2. Fragile' = Fragile
    BY InputStays
  <2>3. \A b : FollowsFailure(b) => FollowsFailure(b)'
    BY <1>1, <1>3 DEF FollowsFailure
  <2>4. ASSUME NEW b \in Passed', b \notin failed'
        PROVE  IsFound(b)' \/ b \in Fragile' \/ FollowsFailure(b)'
    <3>1. CASE b = This
      BY <2>1, <2>2, <2>3, <3>1 DEF IsFoundNow, IsFound
    <3>2. CASE b # This
      BY <1>2, <1>11, <2>4, <3>2
    <3> QED
      BY <3>1, <3>2
  <2> QED
    BY <2>4 DEF KeptInv
<1>13. CountInv'
  <2>1. (Passed \ failed)' = (Passed \ failed) \cup {This}
    BY <1>2, <1>3
  <2>2. Cardinality((Passed \ failed) \cup {This}) = Cardinality(Passed \ failed) + 1
    BY <1>1, <1>2, PassedFinite, FS_AddElement
  <2> QED
    BY <2>1, <2>2 DEF SerializerInv, CountInv
<1>14. /\ written_features_count \in Nat /\ serialized_buildings_cnt \in Nat
       /\ failed = {} => written_features_count = serialized_buildings_cnt
  BY <1>1 DEF TypeOK, SerializerInv, IdInv
<1>15. IdInv' /\ CountedOnce'
  BY <1>3, <1>8, <1>14, IdsKept DEF Count
<1> QED
  BY <1>2, <1>8, <1>9, <1>10, <1>11, <1>12, <1>13, <1>15 DEF SerializerInv

LEMMA FailStep ==
  ASSUME SerializerInv, NEW fault, FailFeature(fault)
  PROVE  /\ SerializerInv' /\ Passed' = Passed \cup {This} /\ failed' = failed \cup {This}
         /\ \E N : Carried(N) /\ IsNew(N)
<1> USE DEF FailFeature
<1> DEFINE s == Put(FeatureStream, Feature(tile, building, Count, FALSE))
<1>1. /\ TypeOK /\ tile \in Tiles /\ tile \in Nat /\ building \in Nat \ {0} /\ ofs \in Stream
      /\ cfg' = cfg /\ unopenable' = unopenable /\ TilePath(tile)' = TilePath(tile)
      /\ cfg.split_cjseq \in BOOLEAN
  BY InputStays, SerializerAssumption DEF SerializerInv, TypeOK, InputOK, input, AllConfigs
<1>2. Passed' = Passed \cup {This} /\ This \notin Passed /\ This \in Buildings
  BY <1>1, PassedNext
<1>3. failed' = failed \cup {This} /\ failed \subseteq Passed
  BY <1>1 DEF TypeOK, This
<1>4. JustFailed'
  <2>1. building' = building + 1 /\ building' > 1 /\ building' - 1 = building /\ tile' = tile
    BY <1>1
  <2> QED
    BY <1>3, <2>1 DEF JustFailed, This
<1>5. /\ ofs' \in Stream /\ StreamInv'
      /\ \E N : Carried(N) /\ IsNew(N) /\ Named(N) /\ (N # {} => written_features_count' = Count)
  <2>1. CASE fault = "dump"
    <3>1. /\ ofs' \in Stream
          /\ ~ cfg.split_cjseq =>
               \/ TilePath(tile) \in unopenable /\ ofs'.path = Closed
               \/ ofs'.good /\ ofs'.path = TilePath(tile)
      BY <1>1, <1>2, <2>1, LineFits
    <3>2. "dump" \in cfg.faults
      BY <2>1
    <3>3. StreamInv'
      BY <1>1, <1>4, <3>1, <3>2 DEF StreamInv
    <3>4. \E N : Carried(N) /\ IsNew(N) /\ Named(N)
      <4>1. ofs'.files = s.files
        BY <2>1
      <4> QED
        BY <4>1, LinePut
    <3> QED
      BY <2>1, <3>1, <3>3, <3>4
  <2>2. CASE fault # "dump"
    <3>1. ofs' = FeatureStream /\ ofs' \in Stream
      BY <1>2, <2>2, FeaturePlace
    <3>2. Carried({})
      BY <1>2, <3>1, NoLinePut
    <3>3. ~ cfg.split_cjseq => ofs' = ofs
      BY <3>1 DEF FeatureStream
    <3>4. JustFailed /\ "dump" \in cfg.faults => JustFailed' /\ "dump" \in cfg.faults'
      BY <1>1, <1>4
    <3>5. StreamInv'
      <4>1. CASE cfg.split_cjseq
        BY <1>1, <1>4, <4>1 DEF StreamInv
      <4>2. CASE ~ cfg.split_cjseq
        BY <1>1, <3>3, <3>4, <4>2 DEF StreamInv, SerializerInv
      <4> QED
        BY <1>1, <4>1, <4>2
    <3>6. IsNew({}) /\ Named({})
      BY DEF IsNew, Named
    <3> QED
      BY <3>1, <3>2, <3>5, <3>6
  <2> QED
    BY <2>1, <2>2
<1>6. PICK N : Carried(N) /\ IsNew(N) /\ Named(N) /\ (N # {} => written_features_count' = Count)
  BY <1>5
<1>7. TypeOK'
  BY <1>1, <1>2, <1>3, <1>5, FeatureTypes
<1>8. failed' \cap Passed = failed
  BY <1>2, <1>3
<1>9. /\ PlaceInv' /\ UniqueInv'
      /\ \A b \in Passed : b \notin failed' =>
           IsFound(b)' \/ b \in Fragile' \/ FollowsFailure(b)'
  BY <1>2, <1>6, <1>8, OutputKept
<1>10. KeptInv'
  BY <1>2, <1>3, <1>9 DEF KeptInv
<1>11. CountInv'
  <2>1. (Passed \ failed)' = Passed \ failed
    BY <1>2, <1>3
  <2> QED
    BY <2>1 DEF SerializerInv, CountInv
<1>12. written_features_count \in Nat /\ serialized_buildings_cnt \in Nat
  BY <1>1 DEF TypeOK
<1>13. IdInv' /\ CountedOnce'
  <2>1. failed' # {} /\ failed \subseteq failed'
    BY <1>3
  <2>2. /\ written_features_count' \in Nat /\ written_features_count' >= written_features_count
        /\ serialized_buildings_cnt' \in Nat /\ serialized_buildings_cnt' >= serialized_buildings_cnt
    BY <1>12 DEF Count
  <2> QED
    BY <1>6, <1>12, <2>1, <2>2, IdsKept
<1> QED
  BY <1>2, <1>3, <1>5, <1>6, <1>7, <1>9, <1>10, <1>11, <1>13 DEF SerializerInv

\* The buildings of the input: each tile has one at least, with a value the
\* attribute can have.
LEMMA AttributeFacts ==
  ASSUME Configs \subseteq AllConfigs, cfg \in Configs, NEW a \in Attributes
  PROVE  /\ Len(a) \in 1..MaxBuildings
         /\ \A i \in 1..Len(a) : /\ a[i] \in Values \cup {NoValue}
                                 /\ cfg.id_attribute = "string" => a[i] \in Values
<1> DEFINE given == CASE cfg.id_attribute = "none" -> {NoValue}
                      [] cfg.id_attribute = "string" -> Values
                      [] OTHER -> Values \cup {NoValue}
<1>1. /\ given \subseteq Values \cup {NoValue}
      /\ cfg.id_attribute = "string" => given = Values
  OBVIOUS
<1> HIDE DEF given
<1>2. PICK n \in 1..MaxBuildings : a \in [1..n -> given]
  <2>1. Attributes = UNION {[1..n -> given] : n \in 1..MaxBuildings}
    BY DEF Attributes, given
  <2> QED
    BY <2>1
<1>3. n \in Nat
  BY SerializerAssumption
<1>4. a \in Seq(given) /\ Len(a) = n
  <2>1. a \in Seq(given)
    BY <1>2, <1>3, SeqDef
  <2>2. DOMAIN a = 1..n /\ DOMAIN a = 1..Len(a) /\ Len(a) \in Nat
    BY <1>2, <2>1, LenProperties
  <2> QED
    BY <1>3, <2>1, <2>2
<1> QED
  BY <1>1, <1>2, <1>4

LEMMA SerializerStarts ==
  ASSUME Init
  PROVE  SerializerInv
<1> USE DEF Init
<1>1. /\ Configs \subseteq AllConfigs /\ cfg \in Configs
      /\ attribute \in [Tiles -> Attributes]
      /\ buildings_cnt = [t \in Tiles |-> Len(attribute[t])]
  BY SerializerAssumption
<1>2. InputOK
  <2>1. \A t \in Tiles :
          /\ buildings_cnt[t] = Len(attribute[t]) /\ buildings_cnt[t] \in 1..MaxBuildings
          /\ \A i \in 1..buildings_cnt[t] :
               /\ attribute[t][i] \in Values \cup {NoValue}
               /\ cfg.id_attribute = "string" => attribute[t][i] \in Values
    BY <1>1, AttributeFacts
  <2>2. buildings_cnt \in [Tiles -> 1..MaxBuildings]
    BY <1>1, <2>1
  <2>3. \A b \in Buildings : b[1] \in Tiles /\ b[2] \in 1..buildings_cnt[b[1]]
    <3>1. \A b \in Buildings :
            b[1] \in Tiles /\ b[2] \in 1..MaxBuildings /\ b[2] <= buildings_cnt[b[1]]
      BY DEF Buildings
    <3>2. \A t \in Tiles : buildings_cnt[t] \in Nat
      BY <2>2, SerializerAssumption
    <3> QED
      BY <3>1, <3>2, SerializerAssumption
  <2> QED
    BY <1>1, <2>1, <2>2, <2>3 DEF InputOK
<1>3. ofs \in Stream
  <2>1. <<>> \in Seq(Line)
    BY EmptySeq
  <2> QED
    BY <2>1 DEF Stream, Files
<1>4. TypeOK
  BY <1>2, <1>3 DEF TypeOK
<1>5. Passed = {}
  <2>1. \A b \in Buildings : b[1] \in Tiles
    BY DEF Buildings
  <2>2. \A t \in Tiles : ~ (t < 1)
    BY DEF Tiles
  <2> QED
    BY <2>1, <2>2 DEF Passed
<1>6. Features = {}
  <2>1. \A p \in Paths : ofs.files[p] = <<>> /\ Len(ofs.files[p]) = 0
    OBVIOUS
  <2>2. \A p \in Paths : 1..Len(ofs.files[p]) = {}
    BY <2>1
  <2> QED
    BY <2>2 DEF Features
<1>7. CountInv
  BY <1>5, FS_EmptySet DEF CountInv
<1> QED
  BY <1>4, <1>5, <1>6, <1>7
     DEF SerializerInv, StreamInv, PlaceInv, UniqueInv, KeptInv, IdInv, CountedOnce

\* The invariant is kept while nothing happens.
LEMMA SerializerRests ==
  ASSUME SerializerInv, UNCHANGED vars
  PROVE  SerializerInv'
<1>1. /\ Features' = Features /\ ReadableFeatures' = ReadableFeatures
      /\ \A l : LineAt(l)' = LineAt(l)
  BY FeaturesOfFiles DEF vars
<1>2. /\ Passed' = Passed /\ Fragile' = Fragile /\ InputOK' = InputOK
      /\ \A b : FileOf(b)' = FileOf(b) /\ ValueOf(b)' = ValueOf(b)
      /\ \A t : TilePath(t)' = TilePath(t)
  BY InputStays DEF vars, Passed
<1>3. TypeOK' /\ StreamInv' /\ PlaceInv' /\ UniqueInv'
  BY <1>1, <1>2
     DEF SerializerInv, TypeOK, StreamInv, JustFailed, PlaceInv, UniqueInv, vars, input
<1>4. KeptInv' /\ CountInv'
  BY <1>1, <1>2 DEF SerializerInv, KeptInv, CountInv, IsFound, FollowsFailure, vars, input
<1>5. IdInv' /\ CountedOnce'
  BY <1>1, <1>2 DEF SerializerInv, IdInv, CountedOnce, vars
<1> QED
  BY <1>3, <1>4, <1>5 DEF SerializerInv

\* The invariant holds in every reachable state.
THEOREM SerializerInvariant == Spec => []SerializerInv
<1>1. Init => SerializerInv
  BY SerializerStarts
<1>2. SerializerInv /\ [Next]_vars => SerializerInv'
  BY StartStep, WriteStep, FailStep, EndStep, SerializerRests DEF Next
<1> QED
  BY <1>1, <1>2, PTL DEF Spec

-----------------------------------------------------------------------------
(* What a reader of the output finds.                                      *)

LEMMA FoundFacts ==
  ASSUME SerializerInv
  PROVE  /\ \A l \in ReadableFeatures :
              l \in Features /\ LineAt(l).of \in Passed \ failed
         /\ \A b : IsFound(b) => b \in Passed \ failed
<1>1. ASSUME NEW l \in ReadableFeatures
      PROVE  l \in Features /\ LineAt(l).of \in Passed \ failed
  BY DEF ReadableFeatures, IsReadable, LineAt, SerializerInv, PlaceInv
<1> QED
  BY <1>1 DEF IsFound

\* A building is in the output once or its failure was logged, unless its file
\* cannot be opened, is replaced, or the building before it failed; for tiles
\* and buildings with the same file names too.
THEOREM NothingIsLost == Spec => []NothingSilentlyLost
<1>1. SerializerInv => NothingSilentlyLost
  BY FoundFacts DEF SerializerInv, KeptInv, UniqueInv, NothingSilentlyLost
<1> QED
  BY <1>1, SerializerInvariant, PTL

\* The number reported as written is at least that of the buildings found in
\* the output, and exceeds it at most by those at risk.
THEOREM CountIsTrue == Spec => []CountIsOutput
<1>1. SerializerInv => CountIsOutput
  <2> SUFFICES ASSUME SerializerInv
               PROVE  CountIsOutput
    OBVIOUS
  <2> DEFINE found == {b \in Passed : IsFound(b)}
             atRisk == {b \in Passed \ failed : b \in Fragile \/ FollowsFailure(b)}
  <2>1. IsFiniteSet(Passed \ failed)
    BY PassedFinite DEF SerializerInv
  <2>2. found \subseteq Passed \ failed
    BY FoundFacts
  <2>3. Passed \ failed = found \cup atRisk
    BY <2>2 DEF SerializerInv, KeptInv
  <2>4. serialized_buildings_cnt = Cardinality(Passed \ failed)
    BY DEF SerializerInv, CountInv
  <2>5. Cardinality(found) <= serialized_buildings_cnt
    BY <2>1, <2>2, <2>4, FS_Subset
  <2>6. serialized_buildings_cnt <= Cardinality(found \cup atRisk)
    <3>1. Cardinality(Passed \ failed) \in Nat
      BY <2>1, FS_CardinalityType
    <3> QED
      BY <2>3, <2>4, <3>1
  <2> QED
    BY <2>5, <2>6 DEF CountIsOutput
<1> QED
  BY <1>1, SerializerInvariant, PTL

\* What the running count names is named once in a tile, whatever fails, and
\* once at all if nothing does; every other identifier given twice is a value
\* of the attribute.
THEOREM IdsAreDistinct == Spec => []DistinctIds
<1>1. SerializerInv => DistinctIds
  <2> SUFFICES ASSUME SerializerInv, NEW l \in ReadableFeatures, NEW m \in ReadableFeatures,
                      LineAt(l).id = LineAt(m).id, l # m
               PROVE  \/ LineAt(l).id \in {ValueOf(LineAt(l).of), ValueOf(LineAt(m).of)}
                      \/ LineAt(l).of[1] # LineAt(m).of[1] /\ failed # {}
    BY DEF DistinctIds, ValueOf
  <2>1. l \in Features /\ m \in Features
    BY DEF ReadableFeatures
  <2> QED
    BY <2>1 DEF SerializerInv, IdInv, CountedOnce
<1> QED
  BY <1>1, SerializerInvariant, PTL

-----------------------------------------------------------------------------
(* The output of a tile is made in one step.                               *)

\* A step inside a tile takes from the finished ones only what is fragile.
LEMMA FinishedKept ==
  ASSUME SerializerInv, SerializerInv', UNCHANGED <<input, tile, serialized_tiles_cnt>>,
         NEW N, Carried(N), IsNew(N),
         \A b : b[1] # tile => (b \in failed' <=> b \in failed)
  PROVE  Output!Next
<1> DEFINE gone == {b \in Fragile : ~ IsFound(b)'}
<1>1. Fragile' = Fragile /\ Buildings' = Buildings /\ Tiles' = Tiles /\ buildings_cnt' = buildings_cnt
  BY InputStays DEF Tiles, input
<1>2. ASSUME NEW t \in Tiles, t < tile
      PROVE  FoundOf(t)' = FoundOf(t) \ gone
  <2>1. ASSUME NEW b \in Buildings, b[1] = t, IsFound(b)'
        PROVE  IsFound(b)
    <3>1. PICK l \in ReadableFeatures' : LineAt(l)'.of = b
      BY <2>1 DEF IsFound
    <3>2. b # This
      BY <1>2, <2>1 DEF This, SerializerInv, TypeOK
    <3>3. l \notin N
      BY <3>1, <3>2 DEF IsNew
    <3>4. l \in ReadableFeatures /\ LineAt(l) = LineAt(l)'
      BY <3>1, <3>3 DEF Carried, ReadableFeatures
    <3> QED
      BY <3>1, <3>4 DEF IsFound
  <2>2. ASSUME NEW b \in Buildings, IsFound(b), b \notin Fragile
        PROVE  IsFound(b)'
    BY <2>2 DEF IsFound, Carried
  <2> QED
    BY <1>1, <2>1, <2>2 DEF FoundOf
<1>3. FoundOfFinished' = [t \in Tiles |-> FoundOfFinished[t] \ gone]
  BY <1>1, <1>2 DEF FoundOfFinished
<1>4. {b \in failed : b[1] < tile}' = {b \in failed : b[1] < tile}
  <2>1. ~ (tile < tile)
    BY DEF SerializerInv, TypeOK
  <2> QED
    BY <2>1
<1>5. Output!Replace(gone)
  BY <1>1, <1>3, <1>4 DEF Output!Replace, Output!Tiles, Tiles
<1>6. gone \in SUBSET Fragile
  OBVIOUS
<1> HIDE DEF gone
<1> QED
  BY <1>5, <1>6 DEF Output!Next

LEMMA EndFinishes ==
  ASSUME SerializerInv, EndTile
  PROVE  Output!Next
<1> USE DEF EndTile
<1> DEFINE failing == {b \in failed : b[1] = tile}
           whole == Output!BuildingsOf(tile)
           lost == {b \in whole \ failed : ~ IsFound(b)}
<1>1. /\ TypeOK /\ tile \in Tiles /\ tile \in Nat \ {0} /\ ofs'.files = ofs.files
      /\ serialized_tiles_cnt = tile - 1 /\ failed \subseteq Passed
      /\ Fragile' = Fragile /\ Buildings' = Buildings /\ Tiles' = Tiles
      /\ buildings_cnt' = buildings_cnt
  BY EndStep, InputStays DEF SerializerInv, TypeOK, Tiles, input
<1>2. whole = {b \in Buildings : b[1] = tile}
  <2>1. buildings_cnt[tile] \in Nat
    BY <1>1, SerializerAssumption DEF TypeOK, InputOK
  <2>2. ASSUME NEW b \in Buildings, b[1] = tile PROVE b \in whole
    BY <1>1, <2>1, <2>2, BuildingFacts DEF TypeOK, Output!BuildingsOf
  <2>3. ASSUME NEW b \in whole PROVE b \in Buildings /\ b[1] = tile
    BY <1>1, <2>1, BuildingFacts DEF TypeOK, Output!BuildingsOf
  <2> QED
    BY <2>2, <2>3
<1>3. whole \subseteq Passed
  <2>1. building \in Nat /\ buildings_cnt[tile] \in Nat /\ buildings_cnt[tile] < building
    BY <1>1, SerializerAssumption DEF TypeOK, InputOK, HasBuilding
  <2>2. \A b \in Buildings : b[2] \in Nat /\ b[2] <= buildings_cnt[b[1]]
    BY <1>1, BuildingFacts DEF TypeOK
  <2> QED
    BY <1>2, <2>1, <2>2 DEF Passed
<1>4. failing \subseteq whole
  BY <1>1, <1>2 DEF Passed
<1>5. lost \subseteq Output!MayBeLost(tile, failing)
  <2>1. ASSUME NEW b \in lost
        PROVE  b \in Output!MayBeLost(tile, failing)
    <3>1. b \in Fragile \/ FollowsFailure(b)
      BY <1>3 DEF SerializerInv, KeptInv
    <3>2. b[1] = tile
      BY <1>2
    <3> QED
      BY <3>1, <3>2 DEF FollowsFailure, Output!MayBeLost
  <2> QED
    BY <2>1
<1>6. \A b : IsFound(b)' <=> IsFound(b)
  BY <1>1, FeaturesOfFiles DEF IsFound
<1>7. FoundOf(tile) = whole \ (failing \cup lost)
  BY <1>2, FoundFacts DEF FoundOf
<1> HIDE DEF failing, whole, lost
<1>8. FoundOfFinished' = [FoundOfFinished EXCEPT ![tile] = whole \ (failing \cup lost)]
  <2>1. \A t \in Tiles : t \in Nat /\ (t < tile + 1 <=> t < tile \/ t = tile)
    BY <1>1 DEF Tiles
  <2>2. \A t : FoundOf(t)' = FoundOf(t)
    BY <1>1, <1>6 DEF FoundOf
  <2>3. FoundOfFinished' = [t \in Tiles |-> IF t < tile + 1 THEN FoundOf(t) ELSE {}]
    BY <1>1, <2>2 DEF FoundOfFinished
  <2>4. \A t \in Tiles : t = tile => ~ (t < tile)
    BY <1>1
  <2> QED
    BY <1>7, <2>1, <2>3, <2>4 DEF FoundOfFinished
<1>9. {b \in failed : b[1] < tile}' = {b \in failed : b[1] < tile} \cup failing
  <2>1. \A b \in failed : b[1] \in Nat
    BY <1>1, BuildingFacts DEF TypeOK, Passed
  <2> QED
    BY <1>1, <2>1 DEF failing
<1>10. PICK t, f, l : t = tile /\ f = failing /\ l = lost
  OBVIOUS
<1>11. Output!Finish(t, f, l)
  BY <1>1, <1>5, <1>8, <1>9, <1>10 DEF Output!Finish, whole
<1>12. /\ t \in Output!Tiles
       /\ f \in SUBSET Output!BuildingsOf(t) /\ l \in SUBSET Output!BuildingsOf(t)
  BY <1>1, <1>4, <1>10 DEF Output!Tiles, Tiles, lost, whole
<1> QED
  BY <1>11, <1>12 DEF Output!Next

\* All the steps of the serializer put a tile into the output in one step, and
\* take away from finished tiles what is replaced, and nothing else.
THEOREM SerializerImplementsOutput == Spec => ImplementsOutput
<1>1. Init => Output!Init
  <2> SUFFICES ASSUME Init
               PROVE  Output!Init
    OBVIOUS
  <2>1. InputOK /\ Tiles = Output!Tiles
    BY SerializerStarts DEF SerializerInv, TypeOK, Tiles, Output!Tiles
  <2>2. Fragile \subseteq UNION {Output!BuildingsOf(t) : t \in Output!Tiles}
    <3>1. ASSUME NEW b \in Buildings
          PROVE  b[1] \in Output!Tiles /\ b \in Output!BuildingsOf(b[1])
      <4>1. buildings_cnt[b[1]] \in Nat
        BY <2>1, BuildingFacts, SerializerAssumption DEF InputOK
      <4> QED
        BY <2>1, <4>1, BuildingFacts DEF Output!BuildingsOf
    <3> QED
      BY <3>1 DEF Fragile
  <2>3. FoundOfFinished = [t \in Tiles |-> {}]
    <3>1. \A t \in Tiles : ~ (t < tile)
      BY DEF Init, Tiles
    <3> QED
      BY <3>1 DEF FoundOfFinished
  <2> QED
    BY <2>1, <2>2, <2>3 DEF Init, InputOK, Output!Init
<1>2. SerializerInv /\ SerializerInv' /\ [Next]_vars => [Output!Next]_(Output!vars)
  <2> SUFFICES ASSUME SerializerInv, SerializerInv', [Next]_vars
               PROVE  [Output!Next]_(Output!vars)
    OBVIOUS
  <2>1. CASE StartTile
    <3>1. Carried({}) /\ IsNew({})
      BY <2>1, StartFiles DEF IsNew
    <3> QED
      BY <2>1, <3>1, FinishedKept DEF StartTile
  <2>2. CASE WriteFeature
    <3>1. PICK N : Carried(N) /\ IsNew(N)
      BY <2>2, WriteStep
    <3> QED
      BY <2>2, <3>1, FinishedKept DEF WriteFeature
  <2>3. ASSUME NEW fault \in AllFaults, FailFeature(fault)
        PROVE  Output!Next
    <3>1. PICK N : Carried(N) /\ IsNew(N)
      BY <2>3, FailStep
    <3>2. \A b : b[1] # tile => (b \in failed' <=> b \in failed)
      BY <2>3, FailStep DEF This
    <3> QED
      BY <2>3, <3>1, <3>2, FinishedKept DEF FailFeature
  <2>4. CASE EndTile
    BY <2>4, EndFinishes
  <2>5. CASE UNCHANGED vars
    <3>1. /\ Fragile' = Fragile /\ Buildings' = Buildings
          /\ \A b : IsFound(b)' <=> IsFound(b)
      BY <2>5, InputStays, FeaturesOfFiles DEF vars, IsFound
    <3>2. FoundOfFinished' = FoundOfFinished
      BY <2>5, <3>1 DEF FoundOfFinished, FoundOf, Tiles, vars
    <3> QED
      BY <2>5, <3>1, <3>2 DEF vars, input, Output!vars
  <2> QED
    BY <2>1, <2>2, <2>3, <2>4, <2>5 DEF Next
<1> QED
  BY <1>1, <1>2, SerializerInvariant, PTL DEF Spec, ImplementsOutput, Output!Spec

=============================================================================
