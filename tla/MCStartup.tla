----------------------------- MODULE MCStartup -----------------------------
(* Instances of Startup for TLC. *)
EXTENDS Startup, TLC

Opt(name, is) == [opt |-> name, neg |-> FALSE, is |-> is]
No(name) == [opt |-> name, neg |-> TRUE, is |-> "off"]
Arg(is) == [opt |-> "positional", neg |-> FALSE, is |-> is]

Inputs == <<Arg("found"), Arg("missing"), Arg("found"), Arg("found")>>
AllFound == <<Arg("found"), Arg("found"), Arg("found")>>
Config == <<Opt("config", "good")>>
SeqsOf(S) == {<<>>} \cup {<<o>> : o \in S}
Pairs(S) == SeqsOf(S) \cup {<<o, p>> : o \in S, p \in S}

(* Parameters of every kind: with a new name, with an old one, with an old *)
(* one in the file only, kept as another parameter, and implied by others. *)
Tried == {Opt("plane-detect-epsilon", "good"), Opt("plane-detect-epsilon", "bad"),
          Opt("cellsize", "garbage"), Opt("thres-alpha", "good"),
          Opt("crop-rasters", "on"), No("crop-output"), No("cellsize"),
          Opt("box", "good"), Opt("filter", "good"), Opt("tiling", "on"),
          Opt("skip-pc-check", "on"), Opt("loglevel", "good"),
          Opt("trace-interval", "bad"), Opt("help", "on"), No("help")}

Of(key, values) == {<<>>} \cup {key :> v : v \in values}
RootTables ==
  Of("plane-detect-epsilon", {"good", "bad"}) \cup Of("thres-alpha", {"good", "bad", "garbage"})
  \cup Of("plane-detect-normal-angle", {"good", "bad"}) \cup Of("skip-pc-check", {"on"})
  \cup Of("crop-output", {"off"}) \cup Of("jobs", {"good"})
SectionTables ==
  Of("plane-detector.plane-epsilon", {"good", "bad"}) \cup Of("alpha-shaper.alpha", {"good"})
  \cup Of(Angle, {"good"}) \cup Of("skip-pc-check", {"on"}) \cup Of("crop-output", {"off"})
  \cup Of("crop-rasters", {"on"}) \cup Of("plane-detect-epsilon", {"good"})

CloudTables == {[root |-> "none", section |-> "found"], [root |-> "missing", section |-> "none"],
                [root |-> "none", section |-> "missing"]}

NoFile == [root |-> <<>>, section |-> <<>>, clouds |-> [root |-> "none", section |-> "none"],
           footprints |-> "none", output |-> "none"]
ParameterFiles ==
  {[NoFile EXCEPT !.root = r, !.section = s, !.clouds.root = "found", !.footprints = "section"] :
     r \in RootTables, s \in SectionTables}
InputFiles ==
  {[NoFile EXCEPT !.root = r, !.section = s, !.clouds = c, !.footprints = f, !.output = "root"] :
     r \in Of("skip-pc-check", {"on"}), s \in Of("skip-pc-check", {"on"}),
     c \in CloudTables, f \in {"none", "root"}}

(* What the file says against the command line; two options against each    *)
(* other and what they do to the tiles; the inputs of both.                 *)
MCScenarios ==
  [command : {Config \o o \o <<Arg("found")>> : o \in SeqsOf(Tried)}, file : ParameterFiles]
  \cup [command : {o \o i : o \in Pairs(Tried), i \in {AllFound, Inputs}}, file : {NoFile}]
  \cup [command : {Config \o o \o i : o \in SeqsOf(Tried),
                                        i \in {<<>>, <<Arg("found")>>, Inputs}},
        file : InputFiles]
  \cup [command : {<<>>, <<Arg("found"), Arg("found")>>, <<Opt("config", "bad")>>},
        file : {NoFile}]

(* A layer of two by one tiles of size 2, with centroids in them and on all *)
(* of their edges, and a bounding box that is a multiple of the tile size.  *)
Point(x, y) == [x |-> x, y |-> y]
Feature(id, geometry, parts, box, centroid, nulls, selected) ==
  [id |-> id, geometry |-> geometry, parts |-> parts, box |-> box,
   centroid |-> centroid, nulls |-> nulls, selected |-> selected]

MCLayer ==
  <<Feature("a", "polygons", <<TRUE>>, Box(0, 0, 2, 2), Point(1, 1), {}, TRUE),
    Feature("b", "polygons", <<TRUE, FALSE, TRUE>>, Box(1, 0, 3, 2), Point(2, 1), {"n"}, TRUE),
    Feature("c", "none", <<>>, Box(0, 0, 0, 0), Point(0, 0), {}, TRUE),
    Feature("d", "polygons", <<FALSE>>, Box(2, 0, 4, 2), Point(3, 1), {}, FALSE),
    Feature("e", "other", <<>>, Box(1, 1, 4, 4), Point(2, 2), {}, FALSE),
    Feature("f", "polygons", <<TRUE>>, Box(2, 2, 4, 4), Point(3, 3), {"n"}, FALSE),
    Feature("g", "polygons", <<TRUE>>, Box(0, 1, 2, 3), Point(1, 2), {}, TRUE)>>

MCFields == ("n" :> "string") @@ ("flag" :> "bool") @@ ("list" :> "stringlist")
MCUserBox == Box(0, 0, 3, 2)
=============================================================================
