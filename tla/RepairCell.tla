----------------------------- MODULE RepairCell -----------------------------
(***************************************************************************)
(* One repair cell of ArrangementSnapper: rays around a junction, the lanes *)
(* that keep neighbouring corners apart, which may be any, and the lanes   *)
(* that are chosen.                                                        *)
(***************************************************************************)
EXTENDS RepairLanes

CONSTANT RayCounts

ASSUME RaysAssumption == NoCost \in Nat \ {0} /\ RayCounts \subseteq 2 .. NoCost - 1

VARIABLES
  rays,    \* how many there are
  apart,   \* <<i, lane, next lane>> that keep the corners i and i + 1 apart
  lanes    \* ray -> the lane of its corner

cell == <<rays, apart, lanes>>

NotChosen == <<>>

CellInit ==
  /\ rays \in RayCounts
  /\ apart \in SUBSET ((1 .. rays) \X Lanes \X Lanes)
  /\ lanes = NotChosen

ChooseLanes ==
  /\ lanes = NotChosen
  /\ lanes' = repair_cell_radii(rays, apart)
  /\ UNCHANGED <<rays, apart>>

CellSpec == CellInit /\ [][ChooseLanes]_cell
-----------------------------------------------------------------------------
IsApart(l) == \A i \in 1 .. rays : <<i, l[i], l[(i % rays) + 1]>> \in apart
InnerCount(l) == Cardinality({i \in 1 .. rays : l[i] = "inner"})

(* The corners of a cell keep their distances if any lanes keep them, the  *)
(* last corner from the first one too, with the fewest corners on the      *)
(* inner lane: going around twice, once from each lane of the first ray,   *)
(* misses no choice (the costs and previous lanes of repair_cell_radii).   *)
LanesAreOptimal ==
  lanes # NotChosen =>
    LET good == {l \in [1 .. rays -> Lanes] : IsApart(l)}
    IN good # {} => lanes \in good /\ \A l \in good : InnerCount(lanes) <= InnerCount(l)
=============================================================================
