------------------------------ MODULE Adjacency ------------------------------
(* What can be reached over a relation, given as a function to sets. *)
EXTENDS Naturals, FiniteSets

(* One step further: what has been reached, and what of it by this step. *)
Further(near, all, before) ==
  LET more == ((UNION {near[x] : x \in before.last}) \cap all) \ before.reached
  IN [reached |-> before.reached \cup more, last |-> more]

(* There are no more steps than things to reach. *)
Flood(near, all, from) ==
  LET spread[n \in 0 .. Cardinality(all)] ==
        IF n = 0 THEN [reached |-> from, last |-> from] ELSE Further(near, all, spread[n - 1])
  IN spread[Cardinality(all)].reached

WithOneMore(near, all, parts) ==
  LET rest == all \ UNION parts
  IN IF rest = {} THEN parts ELSE parts \cup {Flood(near, all, {CHOOSE x \in rest : TRUE})}

(* As many as it takes until nothing is left. *)
Components(near, all) ==
  LET found[n \in 0 .. Cardinality(all)] ==
        IF n = 0 THEN {} ELSE WithOneMore(near, all, found[n - 1])
      enough == CHOOSE n \in 0 .. Cardinality(all) : UNION found[n] = all
  IN found[enough]
=============================================================================
