------------------------------ MODULE OutputSpec ------------------------------
(***************************************************************************)
(* What the serializer promises about the output of the tiles, without     *)
(* streams, files and features that are half written: tiles are finished   *)
(* one after the other, in one step each. Of a finished tile a reader      *)
(* finds the buildings that were not reported as failed, unless one is     *)
(* fragile or comes right after one that failed; and of what he finds only *)
(* what is fragile goes again.                                             *)
(***************************************************************************)
EXTENDS Naturals

CONSTANTS
  NTiles,        \* tiles the serializer receives
  MaxBuildings   \* bound on the buildings of one tile

VARIABLES
  buildings_cnt,          \* number of buildings of each tile
  fragile,                \* buildings with a file that cannot be made, or that
                          \* a later one has too
  serialized_tiles_cnt,   \* tiles that are finished
  found,                  \* per tile: the buildings a reader finds
  reported                \* the buildings of finished tiles that failed

vars == <<buildings_cnt, fragile, serialized_tiles_cnt, found, reported>>

Tiles == 1..NTiles
BuildingsOf(t) == {t} \X (1..buildings_cnt[t])

Init ==
  /\ buildings_cnt \in [Tiles -> 1..MaxBuildings]
  /\ fragile \in SUBSET UNION {BuildingsOf(t) : t \in Tiles}
  /\ serialized_tiles_cnt = 0
  /\ found = [t \in Tiles |-> {}]
  /\ reported = {}

MayBeLost(t, failing) ==
  {b \in BuildingsOf(t) : b \in fragile \/ (b[2] > 1 /\ <<t, b[2] - 1>> \in failing)}

\* The next tile, with the buildings that fail in it and those that are lost.
Finish(t, failing, lost) ==
  /\ t = serialized_tiles_cnt + 1
  /\ serialized_tiles_cnt' = t
  /\ lost \subseteq MayBeLost(t, failing)
  /\ found' = [found EXCEPT ![t] = BuildingsOf(t) \ (failing \cup lost)]
  /\ reported' = reported \cup failing
  /\ UNCHANGED <<buildings_cnt, fragile>>

\* Files of finished tiles are replaced.
Replace(gone) ==
  /\ gone \subseteq fragile
  /\ found' = [t \in Tiles |-> found[t] \ gone]
  /\ UNCHANGED <<buildings_cnt, fragile, serialized_tiles_cnt, reported>>

Next ==
  \/ \E t \in Tiles : \E failing, lost \in SUBSET BuildingsOf(t) : Finish(t, failing, lost)
  \/ \E gone \in SUBSET fragile : Replace(gone)

Spec == Init /\ [][Next]_vars
==============================================================================
