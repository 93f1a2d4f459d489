--------------------------- MODULE Configuration ---------------------------
(***************************************************************************)
(* How main of roofer-app arrives at its parameters                        *)
(* (apps/roofer-app/config.hpp, parameter.hpp): a first pass over the      *)
(* command line for the options of the program itself, the configuration   *)
(* file, a second pass over the command line, and the validation.          *)
(*                                                                         *)
(* A parameter's value is abstracted to whether it passes the parameter's  *)
(* validator, or is on or off, together with the source that gave it.  An  *)
(* option and its arguments are one element of the command line.           *)
(***************************************************************************)
EXTENDS Integers, Sequences, FiniteSets, SequencesExt

CONSTANTS
  Scenarios   \* command lines, each with the contents of the file it may name

ASSUME ScenariosAssumption ==
  \A s \in Scenarios : s.command \in Seq([opt : STRING, neg : BOOLEAN, is : STRING])

VARIABLES
  command,    \* argv
  phase,      \* how far main has come
  todo,       \* c.args that the current pass has not reached
  kept,       \* c.args that it has passed and not erased
  file,       \* the configuration file
  value,      \* parameter -> its value and the source that gave it
  clouds,     \* input_pointclouds_
  footprints, \* source of cfg_.source_footprints, "none" if it is empty
  output,     \* source of cfg_.output_path, "none" if it is empty
  exit        \* what main returned, "none" while it runs

configVars == <<command, phase, todo, kept, file, value, clouds, footprints, output, exit>>

(* The parameters, by the group that registers them. *)
AppParams == {"help", "help-all", "attributes", "version", "jobs", "config",
              "trace-interval", "loglevel"}

InputParams == {"unit-scale", "id-attribute", "force-lod11-attribute",
                "yoc-attribute", "h-terrain-attribute", "h-roof-attribute",
                "polygon-source-layer", "filter", "box", "srs", "bld-class",
                "grnd-class", "skip-pc-check"}

CropParams == {"simplify", "ceil-point-density", "cellsize",
               "min-building-density", "max-nodata-fraction",
               "terrain-grid-cellsize", "terrain-grid-search-radius",
               "terrain-nodata-mode", "lod11-fallback-area",
               "clear-insufficient", "compute-pc-98p", "crop-only",
               "crop-output", "crop-output-all", "crop-rasters", "index"}

OutputParams == {"tiling", "tilesize", "split-cjseq", "omit-metadata",
                 "terrain", "cj-scale", "cj-translate", "attribute-rename"}

(* Reconstruction parameters that kept their old names on the command line *)
(* and at the root of the file, and those that kept them only there.       *)
ReconstructionParams ==
  {"lod12", "lod13", "lod22", "complexity-factor", "clip-terrain",
   "lod13-step-height", "plane-detect-k", "plane-detect-min-points",
   "plane-detect-epsilon", "h-terrain-strategy", "lod11-fallback-planes",
   "lod11-fallback-time"}

RootOnlyAliases ==
  {"plane-detect-normal-angle", "line-detect-epsilon", "thres-alpha",
   "thres-reg-line-dist", "thres-reg-line-ext"}

(* What an old name is called in the sections of [reconstruction].  The    *)
(* old cosine has no place of its own there: its angle has.                *)
Canonical(key) ==
  CASE key = "complexity-factor" -> "arrangement-optimiser.complexity-factor"
    [] key = "plane-detect-k" -> "plane-detector.plane-neighbour-count"
    [] key = "plane-detect-min-points" -> "plane-detector.min-plane-points"
    [] key = "plane-detect-epsilon" -> "plane-detector.plane-epsilon"
    [] key = "lod11-fallback-planes" -> "plane-detector.max-plane-count"
    [] key = "line-detect-epsilon" -> "line-detector.distance-threshold"
    [] key = "thres-alpha" -> "alpha-shaper.alpha"
    [] key = "thres-reg-line-dist" -> "line-regulariser.distance-threshold"
    [] key = "thres-reg-line-ext" -> "line-regulariser.extension"
    [] OTHER -> key

Angle == "plane-detector.normal-angle-threshold"
Cosine == "plane-detect-normal-angle"

RootKeys == InputParams \cup CropParams \cup OutputParams
            \cup ReconstructionParams \cup RootOnlyAliases
CliKeys == RootKeys \ RootOnlyAliases
SectionKeys ==
  InputParams \cup CropParams \cup OutputParams \cup {Angle}
  \cup {Canonical(k) : k \in (ReconstructionParams \cup RootOnlyAliases)
                             \ {"lod11-fallback-time", Cosine}}
Params == AppParams \cup {Canonical(k) : k \in RootKeys} \cup {Angle}

Booleans == {"help", "help-all", "attributes", "version", "skip-pc-check",
             "simplify", "clear-insufficient", "compute-pc-98p", "crop-only",
             "crop-output", "crop-output-all", "crop-rasters", "index", "lod12",
             "lod13", "lod22", "clip-terrain", "tiling", "split-cjseq",
             "omit-metadata", "terrain"}
OnByDefault == {"simplify", "clear-insufficient", "lod22", "clip-terrain"}

Default(p) ==
  [from |-> "default",
   is |-> IF p \notin Booleans THEN "good"
          ELSE IF p \in OnByDefault THEN "on" ELSE "off"]

Given(v, p, is, from) == [v EXCEPT ![p] = [is |-> is, from |-> from]]

(* An argument, and a value of the file, that is not of the parameter's     *)
(* type makes the parsing throw.                                           *)
Parses(is) == is # "garbage"
ParsesToml(is) == is # "garbage"

Init ==
  /\ phase = "first"
  /\ \E s \in Scenarios : command = s.command /\ file = s.file
  /\ todo = command
  /\ kept = <<>>
  /\ value = [p \in Params |-> Default(p)]
  /\ clouds = <<>>
  /\ footprints = "none"
  /\ output = "none"
  /\ exit = "none"

Return(status) ==
  /\ phase' = "returned"
  /\ exit' = status
  /\ UNCHANGED <<command, todo, kept, file, value, clouds, footprints, output>>

-----------------------------------------------------------------------------
(* parse_cli_first_pass: the options of the program itself are taken out of *)
(* the command line; others stay, but two of them already switch            *)
(* crop-output on.                                                          *)
InFirstPass == phase = "first" /\ todo # <<>>

(* An interval for tracing also asks for tracing.  The file must exist. *)
TakeAppOption ==
  /\ InFirstPass
  /\ LET o == Head(todo) IN
     /\ o.opt \in AppParams /\ ~o.neg
     /\ Parses(o.is) /\ ~(o.opt = "config" /\ o.is = "bad")
     /\ value' = LET v == Given(value, o.opt, o.is, "cli")
                 IN IF o.opt = "trace-interval"
                    THEN Given(v, "loglevel", "trace", "cli") ELSE v
  /\ todo' = Tail(todo)
  /\ UNCHANGED <<command, phase, kept, file, clouds, footprints, output, exit>>

RejectAppOption ==
  /\ InFirstPass
  /\ LET o == Head(todo) IN
     /\ o.opt \in AppParams /\ ~o.neg
     /\ ~Parses(o.is) \/ (o.opt = "config" /\ o.is = "bad")
  /\ Return("failure")

ImplyCropOutput(v, o) ==
  IF o.opt \in {"crop-output-all", "crop-rasters"} /\ ~o.neg
  THEN Given(v, "crop-output", "on", "implied") ELSE v

LeaveOption ==
  /\ InFirstPass
  /\ LET o == Head(todo) IN
     /\ ~(o.opt \in AppParams /\ ~o.neg)
     /\ value' = ImplyCropOutput(value, o)
     /\ kept' = Append(kept, o)
  /\ todo' = Tail(todo)
  /\ UNCHANGED <<command, phase, file, clouds, footprints, output, exit>>

EndFirstPass ==
  /\ phase = "first" /\ todo = <<>>
  /\ IF \E p \in {"help", "help-all", "attributes", "version"} : value[p].is = "on"
     THEN Return("success")
     ELSE /\ phase' = IF value["config"].from = "cli" THEN "file" ELSE "second"
          /\ todo' = kept /\ kept' = <<>>
          /\ UNCHANGED <<command, file, value, clouds, footprints, output, exit>>

-----------------------------------------------------------------------------
(* parse_config_file: the old names at the root of the file first, then its *)
(* sections; get_toml_value and set_from_toml throw for a text of another   *)
(* type, and an unknown name throws wherever it stands.                     *)
RootValues(v) ==
  [p \in Params |->
     LET old == {k \in DOMAIN file.root : Canonical(k) = p}
     IN IF old = {} THEN v[p]
        ELSE [is |-> file.root[CHOOSE k \in old : TRUE], from |-> "root"]]

(* The cosine of the normals is kept as an angle: out of range, if it was. *)
ConvertNormalAngle(v) ==
  IF Cosine \in DOMAIN file.root THEN Given(v, Angle, v[Cosine].is, "root") ELSE v

SectionValues(v) ==
  [p \in Params |-> IF p \in DOMAIN file.section
                    THEN [is |-> file.section[p], from |-> "section"] ELSE v[p]]

(* A mutant: the old names are read last. *)
RootLast == RootValues(ConvertNormalAngle(SectionValues(value)))

FileValues == SectionValues(ConvertNormalAngle(RootValues(value)))

(* find_filepaths, given the files of a point cloud and skip-pc-check. *)
PathsThrow(cloud, skip) == cloud = "missing" /\ ~skip
PointCloud(cloud, from) == [paths |-> cloud = "found", from |-> from, classes |-> "own"]

(* The keys of a table are visited in alphabetical order: at the root the   *)
(* point clouds come before skip-pc-check, and a section looks for its      *)
(* point clouds before it reads its other keys.                             *)
SkipAtRoot == value["skip-pc-check"].is = "on"
SkipInSection == RootValues(value)["skip-pc-check"].is = "on"

(* The point clouds of [input] replace those at the root. *)
FileClouds ==
  IF file.clouds.section # "none" THEN <<PointCloud(file.clouds.section, "section")>>
  ELSE IF file.clouds.root # "none" THEN <<PointCloud(file.clouds.root, "root")>>
  ELSE <<>>

(* The fields of [reconstruction] are validated as they are read. *)
ReconstructionKeys == SectionKeys \ (InputParams \cup CropParams \cup OutputParams)

FileThrows ==
  \/ \E k \in DOMAIN file.root : k \notin RootKeys \/ ~ParsesToml(file.root[k])
  \/ \E k \in DOMAIN file.section :
       \/ k \notin SectionKeys \/ ~ParsesToml(file.section[k])
       \/ k \in ReconstructionKeys /\ file.section[k] = "bad"
  \/ PathsThrow(file.clouds.root, SkipAtRoot)
  \/ PathsThrow(file.clouds.section, SkipInSection)

ReadFile ==
  /\ phase = "file" /\ ~FileThrows
  /\ value' = FileValues
  /\ clouds' = FileClouds
  /\ footprints' = file.footprints
  /\ output' = file.output
  /\ phase' = "second"
  /\ UNCHANGED <<command, todo, kept, file, exit>>

RejectFile == phase = "file" /\ FileThrows /\ Return("failure")

-----------------------------------------------------------------------------
(* parse_cli_second_pass: an option overrides the file; only booleans have  *)
(* a negation; old names that live on only in the file are unknown here.    *)
InSecondPass == phase = "second" /\ todo # <<>>

IsPositional(o) == o.opt = "positional"

Understood(o) ==
  /\ o.opt \in CliKeys
  /\ IF o.neg THEN Canonical(o.opt) \in Booleans ELSE Parses(o.is)

(* set and unset: --no-x is false, whatever the default. *)
SetTo(o) == IF o.neg THEN "off" ELSE o.is

SetOption ==
  /\ InSecondPass
  /\ LET o == Head(todo) IN
     /\ Understood(o)
     /\ value' = Given(value, Canonical(o.opt), SetTo(o), "cli")
  /\ todo' = Tail(todo)
  /\ UNCHANGED <<command, phase, kept, file, clouds, footprints, output, exit>>

KeepPositional ==
  /\ InSecondPass /\ IsPositional(Head(todo))
  /\ kept' = Append(kept, Head(todo))
  /\ todo' = Tail(todo)
  /\ UNCHANGED <<command, phase, file, value, clouds, footprints, output, exit>>

RejectOption ==
  /\ InSecondPass
  /\ ~IsPositional(Head(todo)) /\ ~Understood(Head(todo))
  /\ Return("failure")

(* What is left are the inputs and the output, or the output alone. *)
InputsSet == clouds # <<>> /\ footprints # "none"
AllSet == InputsSet /\ output # "none" /\ kept = <<>>
OnlyOutput == InputsSet /\ Len(kept) = 1
AllPositional == ~AllSet /\ ~OnlyOutput /\ Len(kept) > 2
SkipPcCheck == value["skip-pc-check"].is = "on"
CliPaths == SubSeq(kept, 1, Len(kept) - 2)
SomePathMissing == \E i \in 1 .. Len(CliPaths) : CliPaths[i].is = "missing"

TakePositional ==
  /\ phase = "second" /\ todo = <<>>
  /\ \/ AllSet /\ UNCHANGED <<clouds, footprints, output>>
     \/ OnlyOutput /\ output' = "cli" /\ UNCHANGED <<clouds, footprints>>
     \/ /\ AllPositional /\ ~(SomePathMissing /\ ~SkipPcCheck)
        /\ output' = "cli" /\ footprints' = "cli"
        /\ clouds' = <<[paths |-> \E i \in 1 .. Len(CliPaths) : CliPaths[i].is = "found",
                        from |-> "cli", classes |-> "cfg"]>>
  /\ phase' = "validate"
  /\ UNCHANGED <<command, todo, kept, file, value, exit>>

RejectPositional ==
  /\ phase = "second" /\ todo = <<>>
  /\ ~AllSet /\ ~OnlyOutput
  /\ AllPositional => SomePathMissing /\ ~SkipPcCheck
  /\ Return("failure")

(* validate: the validators of the parameters, whatever gave them a value, *)
(* those of the fields of [reconstruction], and the files.  The names that *)
(* are only aliases in the file have none of their own any more.           *)
Valid ==
  /\ \A p \in Params \ {Cosine} : value[p].is # "bad"
  /\ clouds # <<>>
  /\ SkipPcCheck \/ \A i \in 1 .. Len(clouds) : clouds[i].paths

Validate(writable) ==
  /\ phase = "validate"
  /\ IF Valid /\ writable
     THEN /\ phase' = "configured"
          /\ UNCHANGED <<command, todo, kept, file, value, clouds, footprints, output,
                         exit>>
     ELSE Return("failure")

Configure ==
  \/ TakeAppOption \/ RejectAppOption \/ LeaveOption \/ EndFirstPass
  \/ ReadFile \/ RejectFile
  \/ SetOption \/ KeepPositional \/ RejectOption
  \/ TakePositional \/ RejectPositional
  \/ \E writable \in BOOLEAN : Validate(writable)

-----------------------------------------------------------------------------
(* main has accepted the configuration and goes on. *)
Configured == phase \notin {"first", "file", "second", "validate", "returned"}

FileRead == value["config"].from = "cli"
Options(p) == {i \in 1 .. Len(command) :
                 command[i].opt \in Params \cup CliKeys /\ Canonical(command[i].opt) = p}
LastOption(p) == command[Max(Options(p))]
OldNames(p) == {k \in DOMAIN file.root : Canonical(k) = p}

(* The source with the last word on a parameter. *)
Effective(p) ==
  IF Options(p) # {} THEN [is |-> IF LastOption(p).neg THEN "off" ELSE LastOption(p).is, from |-> "cli"]
  ELSE IF ~FileRead THEN Default(p)
  ELSE IF p \in DOMAIN file.section THEN [is |-> file.section[p], from |-> "section"]
  ELSE IF p = Angle /\ Cosine \in DOMAIN file.root
       THEN [is |-> file.root[Cosine], from |-> "root"]
  ELSE IF OldNames(p) # {}
       THEN [is |-> file.root[CHOOSE k \in OldNames(p) : TRUE], from |-> "root"]
  ELSE Default(p)

(* The command line has the last word on every parameter, then the sections *)
(* of the file, then the old names at its root, in whatever order they are  *)
(* written and under whichever of its names a parameter is given; what an   *)
(* accepted configuration holds is valid, whichever source it comes from.   *)
Precedence ==
  Configured =>
    \A p \in Params \ {"crop-output", "loglevel"} :
      /\ value[p] = Effective(p)
      /\ p # Cosine => value[p].is # "bad"

=============================================================================
