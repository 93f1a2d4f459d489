------------------------------ MODULE BatchSpec ------------------------------
(***************************************************************************)
(* What the roofer application promises about a batch of tiles, without    *)
(* threads, queues or condition variables: every tile of initial_tiles is  *)
(* either dropped while cropping or opened; each building of an open tile  *)
(* gets one outcome, in any order and interleaved with other tiles; and an *)
(* open tile is written once, when all its buildings have their outcome,   *)
(* with the buildings in their original order.                             *)
(***************************************************************************)
EXTENDS Naturals

CONSTANTS
  Tiles,         \* identifiers of the batch tiles
  BuildingsCnt   \* number of buildings cropped from each tile, at least 1

Outcomes == {"success", "fail"}

VARIABLES
  stage,     \* per tile: queued, dropped, open, written
  outcome,   \* per tile and building: none until it is reconstructed
  output     \* per tile: the rows written, <<>> until the tile is written

vars == <<stage, outcome, output>>

Init ==
  /\ stage = [t \in Tiles |-> "queued"]
  /\ outcome = [t \in Tiles |-> [i \in 1..BuildingsCnt[t] |-> "none"]]
  /\ output = [t \in Tiles |-> <<>>]

\* The rows of a tile: building i of the tile in row i, and its outcome.
Rows(t) ==
  [i \in 1..BuildingsCnt[t] |->
     [building |-> [id |-> <<t, i>>, outcome |-> outcome[t][i]],
      success  |-> outcome[t][i] = "success"]]

Open(t) ==
  /\ stage[t] = "queued"
  /\ stage' = [stage EXCEPT ![t] = "open"]
  /\ UNCHANGED <<outcome, output>>

Drop(t) ==
  /\ stage[t] = "queued"
  /\ stage' = [stage EXCEPT ![t] = "dropped"]
  /\ UNCHANGED <<outcome, output>>

Decide(t, i, o) ==
  /\ stage[t] = "open"
  /\ outcome[t][i] = "none"
  /\ outcome' = [outcome EXCEPT ![t][i] = o]
  /\ UNCHANGED <<stage, output>>

Write(t) ==
  /\ stage[t] = "open"
  /\ \A i \in 1..BuildingsCnt[t] : outcome[t][i] # "none"
  /\ stage' = [stage EXCEPT ![t] = "written"]
  /\ output' = [output EXCEPT ![t] = Rows(t)]
  /\ UNCHANGED outcome

Next ==
  \E t \in Tiles :
    \/ Open(t)
    \/ Drop(t)
    \/ \E i \in 1..BuildingsCnt[t], o \in Outcomes : Decide(t, i, o)
    \/ Write(t)

Spec == Init /\ [][Next]_vars
==============================================================================
