----------------------------- MODULE RepairLanes -----------------------------
(***************************************************************************)
(* The cell that ArrangementSnapper cuts out around a junction has a corner *)
(* on each of the n rays around it, on one of two lanes: the outer or the  *)
(* inner one.  Neighbouring corners have to keep a distance, and as few of *)
(* them as can be are on the inner lane (repair_cell_radii).               *)
(*                                                                         *)
(* Apart is the set of <<i, lane, next lane>> on which the corners of rays *)
(* i and i + 1, or n and 1, keep their distance.                           *)
(***************************************************************************)
EXTENDS Integers, FiniteSets, FiniteSetsExt

\* The cost of what cannot be: std::numeric_limits<int>::max() / 4.
CONSTANT NoCost

Lanes == {"outer", "inner"}
LaneCost(lane) == IF lane = "inner" THEN 1 ELSE 0


(* To ray i + 1 from the costs of the lanes of ray i. *)
NextCosts(i, apart, cost) ==
  [lane \in Lanes |->
     Min({NoCost} \cup {cost[p] + LaneCost(lane) : p \in {q \in Lanes : <<i, q, lane>> \in apart /\ cost[q] < NoCost}})]

(* The cheapest way to each lane of ray i from the first lane. *)
CheapestTo(n, apart, first) ==
  LET cost[i \in 1 .. n] ==
        IF i = 1 THEN [lane \in Lanes |-> IF lane = first THEN LaneCost(lane) ELSE NoCost]
        ELSE NextCosts(i - 1, apart, cost[i - 1])
  IN cost

(* The lanes of ray i from which this lane of ray i + 1 was reached. *)
Before(i, apart, cost, lane) ==
  {p \in Lanes : <<i, p, lane>> \in apart /\ cost[i][p] + LaneCost(lane) = cost[i + 1][lane]}

(* Of two lanes that cost the same the outer one was there first. *)
Preferred(lanes) == IF "outer" \in lanes THEN "outer" ELSE "inner"

(* The lanes on the way back from the last one. *)
WayBack(n, apart, cost, last) ==
  LET way[k \in 0 .. n - 1] ==
        IF k = 0 THEN last ELSE Preferred(Before(n - k, apart, cost, way[k - 1]))
  IN [i \in 1 .. n |-> way[n - i]]

(* A bug TLC must tell from the code: the last corner may be close to the first. *)
ClosesAnyway(n, apart, cost, first, last) == cost[n][last] < NoCost

Closes(n, apart, cost, first, last) == cost[n][last] < NoCost /\ <<n, last, first>> \in apart

(* The first and the last lane, in the order they are tried. *)
Ends == <<<<"outer", "outer">>, <<"outer", "inner">>, <<"inner", "outer">>, <<"inner", "inner">>>>

repair_cell_radii(n, apart) ==
  LET cost == [first \in Lanes |-> CheapestTo(n, apart, first)]
      closing == {k \in DOMAIN Ends : Closes(n, apart, cost[Ends[k][1]], Ends[k][1], Ends[k][2])}
      Cost(k) == cost[Ends[k][1]][n][Ends[k][2]]
      best == Min({k \in closing : \A l \in closing : Cost(k) <= Cost(l)})
  IN IF closing = {} THEN [i \in 1 .. n |-> "outer"]
     ELSE WayBack(n, apart, cost[Ends[best][1]], Ends[best][2])
==============================================================================
