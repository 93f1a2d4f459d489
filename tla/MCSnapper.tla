---------------------------- MODULE MCSnapper ----------------------------
(***************************************************************************)
(* Instances of JunctionRepair for TLC: three maps of constraints, with    *)
(* every way to give their patches faces out of a few.  Next to them there *)
(* are cells of RepairCell, with any rays.                                 *)
(***************************************************************************)
EXTENDS JunctionRepair, RepairCell

(* For a junction its constraints and the patches behind them; vertices    *)
(* whose first number is 0 are the other ends.                             *)

(* Two junctions that share a constraint and the two patches along it. *)
ChainOfTwo ==
  <<1>> :> <<<<<<0, 1>>, 1>>, <<<<2>>, 2>>, <<<<0, 2>>, 3>>, <<<<0, 3>>, 4>>>>
  @@ <<2>> :> <<<<<<0, 4>>, 5>>, <<<<0, 5>>, 6>>, <<<<0, 6>>, 2>>, <<<<1>>, 1>>>>

(* Three junctions around a patch. *)
RingOfThree ==
  <<1>> :> <<<<<<0, 1>>, 1>>, <<<<2>>, 2>>, <<<<3>>, 3>>, <<<<0, 2>>, 4>>>>
  @@ <<2>> :> <<<<<<0, 3>>, 5>>, <<<<0, 4>>, 6>>, <<<<3>>, 2>>, <<<<1>>, 1>>>>
  @@ <<3>> :> <<<<<<1>>, 2>>, <<<<2>>, 6>>, <<<<0, 5>>, 7>>, <<<<0, 6>>, 3>>>>

(* One junction with five constraints. *)
Star == <<1>> :> <<<<<<0, 1>>, 1>>, <<<<0, 2>>, 2>>, <<<<0, 3>>, 3>>, <<<<0, 4>>, 4>>, <<<<0, 5>>, 5>>>>

MCKind == <<"outside", "outside", "roof", "roof", "roof", "bare">>
MCHeight == <<0, 0, 5, 5, 9, 0>>

(* The other ends of constraints are vertices with nothing else. *)
SiteOf(map, faces) ==
  LET out == UNION {{<<v, map[v][i][1]>> : i \in DOMAIN map[v]} : v \in DOMAIN map}
      At(v, w) == CHOOSE i \in DOMAIN map[v] : map[v][i][1] = w
      ends == {d[2] : d \in out} \ DOMAIN map
  IN [around |-> [v \in DOMAIN map |-> [i \in DOMAIN map[v] |-> map[v][i][1]]]
                 @@ [w \in ends |-> <<CHOOSE v \in DOMAIN map : <<v, w>> \in out>>],
      patch |-> [d \in out |-> map[d[1]][At(d[1], d[2])][2]]
                @@ [d \in {<<e[2], e[1]>> : e \in out} |->
                      map[d[2]][J!Previous(map[d[2]], At(d[2], d[1]))][2]],
      faces |-> faces]

MCSites == {SiteOf(ChainOfTwo, 1 .. 5), SiteOf(RingOfThree, {1, 2, 3, 5}), SiteOf(Star, 1 .. 6)}

MCRays == {2, 3, 4}

(* Either a partition is repaired, next to a cell nobody looks at, or the  *)
(* lanes of a cell are chosen, next to a partition that stays as it is.    *)
IdleSite == SiteOf(Star, {3})
NoCell == rays = 2 /\ apart = {} /\ lanes = NotChosen
SnapperInit ==
  \/ NoCell /\ Init
  \/ CellInit /\ InitAt(IdleSite)

CellEnded == lanes # NotChosen /\ UNCHANGED <<vars, cell>>

SnapperNext ==
  \/ NoCell /\ Next /\ UNCHANGED cell
  \/ ChooseLanes /\ UNCHANGED vars
  \/ CellEnded

SnapperSpec == SnapperInit /\ [][SnapperNext]_<<vars, cell>>
=============================================================================
