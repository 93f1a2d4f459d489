-------------------------- MODULE MCPlaneDetection --------------------------
(* Instances of PlaneDetection for TLC. *)
EXTENDS PlaneDetection

(* Points in a row, with the two on either side as neighbours. *)
Row(n) == [p \in 1 .. n |-> {q \in 1 .. n : q # p /\ q \in p - 2 .. p + 2}]

(* Two surfaces of three points and one of a single point; those at the    *)
(* borders may fit the other surface.                                      *)
Small ==
  [neighbours : {Row(7)}, on : {<<1, 1, 1, 2, 2, 2, 3>>},
   near : {[p \in 1 .. 7 |-> CASE p = 3 -> {2} [] p = 4 -> {1} [] p = 7 -> {2} [] OTHER -> {}]},
   kind : [1 .. 3 -> {"wall", "horizontal", "slanted"}],
   any_order : {TRUE}, regularise : BOOLEAN, use_ransac : BOOLEAN]

(* Too few points to start with, and many planes of three points: as many  *)
(* as the limit allows, and one more.                                      *)
Few ==
  [neighbours : {Row(3)}, on : {<<1, 1, 1>>}, near : {[p \in 1 .. 3 |-> {}]},
   kind : {<<"horizontal">>}, any_order : {TRUE}, regularise : BOOLEAN, use_ransac : BOOLEAN]

Flats(n) ==
  [neighbours |-> Row(3 * n), on |-> [p \in 1 .. 3 * n |-> (p - 1) \div 3 + 1],
   near |-> [p \in 1 .. 3 * n |-> {}],
   kind |-> [s \in 1 .. n |-> IF s % 2 = 0 THEN "slanted" ELSE "horizontal"],
   any_order |-> FALSE, regularise |-> FALSE, use_ransac |-> FALSE]

MCRoofs == Small \cup Few \cup {Flats(5), Flats(6)}
=============================================================================
