-------------------------- MODULE PointCloudProofs --------------------------
(***************************************************************************)
(* Proofs about the point clouds of a tile.                                *)
(*                                                                         *)
(* SelectPointCloud: for any number of point clouds, any qualities, dates, *)
(* gaps and thresholds, and whatever order the sorted vectors leave equal  *)
(* candidates in.  The invariant says what the two steps leave behind:     *)
(* first a result of selectPointCloud, then either that or what its later  *)
(* replacement is.                                                         *)
(*                                                                         *)
(* StreamCropper and TerrainMesh: for any footprints, files and points,    *)
(* any sizes of cells and any percentile.  The lemmas on the rasters say   *)
(* that a point of a footprint's buffer is in a cell of the index that the *)
(* footprint is entered in, and in a cell of the terrain grid that the     *)
(* search starts with.  The invariant says what holds while the files are  *)
(* read: the building points that have passed are found, and every ground  *)
(* elevation of a footprint has a sample in its window that supports it.   *)
(* The surfaces of the terrain are a fold over the edges of its triangles, *)
(* and a union that is not refused keeps what a surface is.                *)
(***************************************************************************)
EXTENDS SelectPointCloud, TerrainMesh, FiniteSetTheorems, SequenceTheorems, WellFoundedInduction,
        TLAPS

Kept == selected = preferred /\ Preferred(preferred, explanation)

Replaced == /\ BuiltAfter(preferred)
            /\ LatestFor(preferred, selected)
            /\ explanation = "_LATEST"

ChoiceInv == /\ ipc \in [Index -> CandidatePointCloud]
             /\ preferred \in Index \cup {Unselected}
             /\ stage \in {"select", "check_yoc", "done"}
             /\ stage = "select" => preferred = Unselected
             /\ stage = "check_yoc" => Kept
             /\ stage = "done" => \/ Kept /\ ~ BuiltAfter(preferred)
                               \/ Replaced
             /\ stage # "select" => \E e \in Explanation : Preferred(preferred, e)

\* The choice does not look at what it leaves alone.
LEMMA SameChoice ==
  ASSUME UNCHANGED <<ipc, mutated, yoc>>
  PROVE  /\ \A s, e : Preferred(s, e)' <=> Preferred(s, e)
         /\ \A s : BuiltAfter(s)' <=> BuiltAfter(s)
         /\ \A s, u : LatestFor(s, u)' <=> LatestFor(s, u)
BY DEF Preferred, selectPointCloud, HighestCoverage, PreferredOrLatest,
   BuiltAfter, LatestFor, getLatestPointCloud, FirstByQuality, FirstByDate,
   FirstByNoDataFraction, Sufficient, hasEnoughPointCoverage, isMutated,
   candidates, candidates_just_for_data

LEMMA SelectInitInv == SelectInit => ChoiceInv
BY DEF SelectInit, ChoiceInv

LEMMA SelectInv == ChoiceInv /\ Select => ChoiceInv'
<1> SUFFICES ASSUME ChoiceInv, Select PROVE ChoiceInv'
  OBVIOUS
<1>1. PICK s \in Index, e \in Explanation :
        /\ Preferred(s, e)
        /\ selected' = s /\ preferred' = s /\ explanation' = e
  BY DEF Select
<1>2. UNCHANGED <<ipc, mutated, yoc>> /\ stage' = "check_yoc"
  BY DEF Select
<1>3. Preferred(s, e)'
  BY <1>1, <1>2, SameChoice
<1> QED
  BY <1>1, <1>2, <1>3 DEF ChoiceInv, Kept

LEMMA CheckYocInv == ChoiceInv /\ CheckYoc => ChoiceInv'
<1> SUFFICES ASSUME ChoiceInv, CheckYoc PROVE ChoiceInv'
  OBVIOUS
<1>1. UNCHANGED <<ipc, mutated, yoc, preferred>> /\ stage' = "done" /\ Kept
  BY DEF CheckYoc, ChoiceInv
<1>2. \E e \in Explanation : Preferred(preferred, e)
  BY DEF CheckYoc, ChoiceInv
<1>3. CASE BuiltAfter(selected)
  BY <1>1, <1>2, <1>3, SameChoice DEF CheckYoc, ChoiceInv, Kept, Replaced
<1>4. CASE ~ BuiltAfter(selected)
  BY <1>1, <1>2, <1>4, SameChoice DEF CheckYoc, ChoiceInv, Kept
<1> QED
  BY <1>3, <1>4

LEMMA ChoiceInvHolds == SelectSpec => []ChoiceInv
<1>1. ChoiceInv /\ UNCHANGED selectVars => ChoiceInv'
  BY SameChoice DEF ChoiceInv, selectVars, Kept, Replaced
<1> QED
  BY <1>1, SelectInitInv, SelectInv, CheckYocInv, PTL DEF SelectSpec, SelectNext
-----------------------------------------------------------------------------
\* The candidates of each kind, and their dates.
LEMMA Kinds ==
  ASSUME ChoiceInv
  PROVE  /\ \A i \in Index : ipc[i].date \in Int
         /\ candidates \subseteq Index /\ candidates_just_for_data \subseteq Index
         /\ Index = candidates \cup candidates_just_for_data
         /\ candidates \cap candidates_just_for_data = {}
<1>1. \A i \in Index : ipc[i] \in CandidatePointCloud
  BY DEF ChoiceInv
<1>2. \A i \in Index : ipc[i].date \in Int
  BY <1>1, SelectAssumption DEF CandidatePointCloud
<1> QED
  BY <1>2 DEF candidates, candidates_just_for_data

\* What selectPointCloud returned: by the three ways it takes.
LEMMA PreferredCases ==
  ASSUME ChoiceInv, stage # "select", candidates # {}
  PROVE  \/ /\ Sufficient = {}
            /\ HighestCoverage(preferred)
         \/ /\ Sufficient # {}
            /\ \E best \in FirstByQuality(Sufficient),
                 latest \in FirstByDate(Sufficient) :
                 \/ preferred = latest /\ (best = latest \/ isMutated(best, latest))
                 \/ preferred = best /\ ~ isMutated(best, latest)
<1>1. PICK e \in Explanation : selectPointCloud(preferred, e)
  BY DEF ChoiceInv, Preferred
<1> QED
  BY <1>1 DEF selectPointCloud, PreferredOrLatest

\* What is selected for its quality shows the object as the latest point cloud
\* does, the latest of those that are covered if there are any.
THEOREM SelectedIsUpToDate == SelectSpec => []NotOutdated
<1>1. ChoiceInv => NotOutdated
  BY PreferredCases DEF NotOutdated, HighestCoverage, FirstByNoDataFraction
<1> QED
  BY <1>1, ChoiceInvHolds, PTL

\* A point cloud with a gap is selected only if all have one.
THEOREM GapsAreEliminated == SelectSpec => []PoorCoverageEliminated
<1>1. ASSUME ChoiceInv PROVE PoorCoverageEliminated
  <2> SUFFICES ASSUME preferred \in candidates, Sufficient # {}
               PROVE  preferred \in Sufficient
    BY DEF PoorCoverageEliminated, Sufficient, hasEnoughPointCoverage
  <2>1. candidates # {}
    OBVIOUS
  <2>2. stage # "select"
    BY <1>1 DEF ChoiceInv, candidates, Index, Unselected
  <2> QED
    BY <1>1, <2>1, <2>2, PreferredCases DEF FirstByQuality, FirstByDate
<1> QED
  BY <1>1, ChoiceInvHolds, PTL

\* Without a mutation only quality counts.
THEOREM BestUnlessMutated == SelectSpec => []BestQualityUnlessMutated
<1>1. ASSUME ChoiceInv PROVE BestQualityUnlessMutated
  <2> SUFFICES ASSUME stage # "select", Sufficient # {}, mutated = {}
               PROVE  preferred \in FirstByQuality(Sufficient)
    BY DEF BestQualityUnlessMutated
  <2>1. candidates # {}
    BY DEF Sufficient
  <2> QED
    BY <1>1, <2>1, PreferredCases DEF isMutated
<1> QED
  BY <1>1, ChoiceInvHolds, PTL

\* What replaces the selected point cloud is the latest of all.
LEMMA ReplacedByLatest ==
  ASSUME ChoiceInv, stage = "done", Replaced PROVE selected \in FirstByDate(Index)
<1>1. ASSUME NEW i \in Index PROVE ipc[i].date <= ipc[selected].date
  <2>1. LatestFor(preferred, selected)
    BY DEF Replaced
  <2>2. CASE candidates = {}
    <3>1. preferred \in FirstByDate(candidates_just_for_data)
      <4>1. PICK e \in Explanation : Preferred(preferred, e)
        BY DEF ChoiceInv
      <4> QED
        BY <2>2, <4>1 DEF Preferred, getLatestPointCloud
    <3> QED
      BY <1>1, <2>1, <2>2, <3>1, Kinds DEF LatestFor, getLatestPointCloud,
         FirstByDate
  <2>3. CASE candidates # {}
    BY <1>1, <2>1, <2>3, Kinds DEF LatestFor, getLatestPointCloud, FirstByDate
  <2> QED
    BY <2>2, <2>3
<1>2. selected \in Index
  BY Kinds DEF Replaced, ChoiceInv, LatestFor, Preferred, getLatestPointCloud,
     FirstByDate, Unselected
<1> QED
  BY <1>1, <1>2, Kinds DEF FirstByDate

\* A building from after its point cloud gets one that no other is later than.
THEOREM LatestForNewBuildings == SelectSpec => []LatestIfBuiltAfter
<1>1. ChoiceInv => LatestIfBuiltAfter
  BY ReplacedByLatest, Kinds DEF ChoiceInv, LatestIfBuiltAfter, FirstByDate
<1> QED
  BY <1>1, ChoiceInvHolds, PTL

\* What is reported as the reason is true of the point cloud that is used.
THEOREM ReasonIsTrue == SelectSpec => []ExplanationIsTrue
<1>1. ASSUME ChoiceInv PROVE ExplanationIsTrue
  <2> SUFFICES ASSUME stage = "done" PROVE ExplanationIsTrue
    BY DEF ExplanationIsTrue
  <2>1. CASE Replaced
    BY <1>1, <2>1, ReplacedByLatest DEF Replaced, ExplanationIsTrue
  <2>2. CASE Kept /\ candidates = {}
    <3>1. explanation = "_LATEST" /\ selected \in FirstByDate(Index)
      BY <1>1, <2>2, Kinds DEF Kept, Preferred, getLatestPointCloud,
         selectPointCloud
    <3> QED
      BY <3>1 DEF ExplanationIsTrue
  <2>3. CASE Kept /\ candidates # {}
    <3>1. selectPointCloud(selected, explanation)
      BY <2>3 DEF Kept, Preferred
    <3> QED
      BY <3>1 DEF selectPointCloud, PreferredOrLatest, ExplanationIsTrue
  <2> QED
    BY <1>1, <2>1, <2>2, <2>3 DEF ChoiceInv
<1> QED
  BY <1>1, ChoiceInvHolds, PTL

\* A point cloud that is given for its date only is used for no other reason.
THEOREM OnlyForItsDate == SelectSpec => []OnlyForDate
<1>1. ASSUME ChoiceInv PROVE OnlyForDate
  <2> SUFFICES ASSUME stage = "done", selected \in candidates_just_for_data,
                      candidates # {}
               PROVE  /\ yoc > ipc[preferred].date
                      /\ \A i \in candidates : ipc[i].date < ipc[selected].date
    BY DEF OnlyForDate
  <2>1. PICK e \in Explanation : selectPointCloud(preferred, e)
    BY <1>1 DEF ChoiceInv, Preferred
  <2>2. preferred \in candidates
    BY <2>1 DEF selectPointCloud, HighestCoverage, PreferredOrLatest,
       FirstByNoDataFraction, FirstByQuality, FirstByDate, Sufficient
  <2>3. Replaced
    BY <1>1, <2>2, Kinds DEF ChoiceInv, Kept
  <2> QED
    BY <1>1, <2>3, Kinds
    DEF Replaced, BuiltAfter, LatestFor, getLatestPointCloud, FirstByDate
<1> QED
  BY <1>1, ChoiceInvHolds, PTL
-----------------------------------------------------------------------------
(***************************************************************************)
(* StreamCropper: integers.                                                *)
(***************************************************************************)

(* A non-empty set of subsets of a finite set has a minimal element. *)
LEMMA MinimalSubset ==
  ASSUME NEW S, IsFiniteSet(S), NEW C, C \subseteq SUBSET S, C # {}
  PROVE  \E A \in C : \A B \in C : B \subseteq A => B = A
<1>1. C \subseteq FiniteSubsetsOf(S)
  BY FS_FiniteSubsetsOfFinite
<1>2. PICK A \in C : \A B \in C : ~ (<<B, A>> \in StrictSubsetOrdering(S))
  BY <1>1, FS_StrictSubsetOrderingWellFounded, WFMin
<1> QED
  BY <1>2 DEF StrictSubsetOrdering

LEMMA LeastInteger ==
  ASSUME NEW S, IsFiniteSet(S), S # {}, \A x \in S : x \in Int
  PROVE  Min(S) \in S /\ \A y \in S : Min(S) <= y
<1> DEFINE C == {{y \in S : y <= x} : x \in S}
<1>1. C \subseteq SUBSET S /\ C # {}
  OBVIOUS
<1>2. PICK A \in C : \A B \in C : B \subseteq A => B = A
  <2> DEFINE D == S
  <2>1. IsFiniteSet(D) /\ C \subseteq SUBSET D
    BY <1>1
  <2> HIDE DEF C, D
  <2> QED
    BY <1>1, <2>1, MinimalSubset
<1>3. PICK x \in S : A = {y \in S : y <= x}
  OBVIOUS
<1>4. ASSUME NEW z \in S, z < x PROVE FALSE
  <2>0. \A y \in S : y <= z => y <= x
    BY <1>4
  <2>1. {y \in S : y <= z} \in C /\ {y \in S : y <= z} \subseteq A
    BY <1>3, <2>0
  <2>2. x \in A /\ x \notin {y \in S : y <= z}
    BY <1>3, <1>4
  <2> QED
    BY <1>2, <2>1, <2>2
<1>5. \A y \in S : x <= y
  BY <1>4
<1> QED
  BY <1>5 DEF Min

LEMMA GreatestInteger ==
  ASSUME NEW S, IsFiniteSet(S), S # {}, \A x \in S : x \in Int
  PROVE  Max(S) \in S /\ \A y \in S : y <= Max(S)
<1> DEFINE C == {{y \in S : x <= y} : x \in S}
<1>1. C \subseteq SUBSET S /\ C # {}
  OBVIOUS
<1>2. PICK A \in C : \A B \in C : B \subseteq A => B = A
  <2> DEFINE D == S
  <2>1. IsFiniteSet(D) /\ C \subseteq SUBSET D
    BY <1>1
  <2> HIDE DEF C, D
  <2> QED
    BY <1>1, <2>1, MinimalSubset
<1>3. PICK x \in S : A = {y \in S : x <= y}
  OBVIOUS
<1>4. ASSUME NEW z \in S, x < z PROVE FALSE
  <2>0. \A y \in S : z <= y => x <= y
    BY <1>4
  <2>1. {y \in S : z <= y} \in C /\ {y \in S : z <= y} \subseteq A
    BY <1>3, <2>0
  <2>2. x \in A /\ x \notin {y \in S : z <= y}
    BY <1>3, <1>4
  <2> QED
    BY <1>2, <2>1, <2>2
<1>5. \A y \in S : y <= x
  BY <1>4
<1> QED
  BY <1>5 DEF Max

(* The values of a function over the places of a sequence. *)
LEMMA ExtremesOfValues ==
  ASSUME NEW n \in Nat, n > 0, NEW v, \A k \in 1 .. n : v[k] \in Int
  PROVE  /\ Min({v[k] : k \in 1 .. n}) \in Int /\ Max({v[k] : k \in 1 .. n}) \in Int
         /\ \A k \in 1 .. n : Min({v[j] : j \in 1 .. n}) <= v[k] /\ v[k] <= Max({v[j] : j \in 1 .. n})
         /\ Max({v[k] : k \in 1 .. n}) \in {v[k] : k \in 1 .. n}
<1> DEFINE S == {v[k] : k \in 1 .. n}
<1>1. IsFiniteSet(S)
  <2> DEFINE f == [k \in 1 .. n |-> v[k]]
  <2>1. f \in Surjection(1 .. n, S)
    BY DEF Surjection
  <2>2. IsFiniteSet(1 .. n)
    BY FS_Interval
  <2> HIDE DEF S, f
  <2> QED
    BY <2>1, <2>2, FS_Surjection
<1>2. S # {} /\ (\A x \in S : x \in Int) /\ \A k \in 1 .. n : v[k] \in S
  OBVIOUS
<1> HIDE DEF S
<1>3. Min(S) \in S /\ (\A y \in S : Min(S) <= y) /\ Max(S) \in S /\ \A y \in S : y <= Max(S)
  BY <1>1, <1>2, LeastInteger, GreatestInteger
<1>4. Min(S) \in Int /\ Max(S) \in Int /\ \A k \in 1 .. n : Min(S) <= v[k] /\ v[k] <= Max(S)
  BY <1>2, <1>3
<1> QED
  BY <1>3, <1>4 DEF S

LEMMA Quotient ==
  ASSUME NEW d \in Int, NEW n \in Nat \ {0}
  PROVE  /\ d \div n \in Int
         /\ (d \div n) * n <= d /\ d < (d \div n + 1) * n
BY SMT

LEMMA QuotientAtMost ==
  ASSUME NEW d \in Int, NEW n \in Nat \ {0}, NEW q \in Int, d < (q + 1) * n
  PROVE  d \div n <= q
<1>1. d \div n \in Int /\ (d \div n) * n <= d
  BY Quotient
<1> DEFINE p == d \div n
<1> HIDE DEF p
<1>2. p \in Int /\ p * n <= d
  BY <1>1 DEF p
<1>3. p <= q
  BY <1>2, SMT
<1> QED
  BY <1>3 DEF p

LEMMA QuotientAtLeast ==
  ASSUME NEW d \in Int, NEW n \in Nat \ {0}, NEW q \in Int, q * n <= d
  PROVE  q <= d \div n
<1>1. d \div n \in Int /\ d < (d \div n + 1) * n
  BY Quotient
<1> DEFINE p == d \div n
<1> HIDE DEF p
<1>2. p \in Int /\ d < (p + 1) * n
  BY <1>1 DEF p
<1>3. q <= p
  BY <1>2, SMT
<1> QED
  BY <1>3 DEF p

LEMMA QuotientGrows ==
  ASSUME NEW a \in Int, NEW b \in Int, a <= b, NEW n \in Nat \ {0}
  PROVE  a \div n <= b \div n
<1>1. a \div n \in Int /\ (a \div n) * n <= b
  BY Quotient
<1> QED
  BY <1>1, QuotientAtLeast

LEMMA QuotientOfNat ==
  ASSUME NEW a \in Nat, NEW n \in Nat \ {0}
  PROVE  a \div n \in Nat
<1>1. 0 <= a \div n /\ a \div n \in Int
  BY QuotientAtLeast, Quotient
<1> QED
  BY <1>1

(* A stretch of d reaches at most as many cells further as d, rounded up,   *)
(* has cells.                                                              *)
LEMMA StretchOfCells ==
  ASSUME NEW a \in Int, NEW d \in Int, NEW e \in Int, e <= d, NEW n \in Nat \ {0}
  PROVE  (a + e) \div n <= a \div n + CeilDiv(d, n)
<1> DEFINE q == a \div n
           k == (d + n - 1) \div n
<1>1. q \in Int /\ a < (q + 1) * n /\ k \in Int /\ d + n - 1 < (k + 1) * n
  BY Quotient
<1>2. CeilDiv(d, n) = k
  BY DEF CeilDiv
<1> HIDE DEF q, k
<1>3. (k + 1) * n = k * n + n /\ (q + k + 1) * n = (q + 1) * n + k * n /\ k * n \in Int /\ (q + 1) * n \in Int
  BY <1>1, SMT
<1> DEFINE kn == k * n
           qn == (q + 1) * n
<1>4. kn \in Int /\ qn \in Int /\ a < qn /\ d + n - 1 < kn + n
  BY <1>1, <1>3
<1>5. (q + k + 1) * n = qn + kn
  BY <1>3
<1> HIDE DEF kn, qn
<1>6. a + e < qn + kn
  BY <1>4
<1>7. (a + e) \div n <= q + k
  BY <1>1, <1>5, <1>6, QuotientAtMost
<1> QED
  BY <1>2, <1>7 DEF q

-----------------------------------------------------------------------------
(***************************************************************************)
(* StreamCropper: the rasters.                                             *)
(***************************************************************************)

LEMMA SizesAreNatural ==
  /\ CellSize \in Nat \ {0} /\ TerrainCellSize \in Nat \ {0}
  /\ Buffer \in Nat /\ SearchRadius \in Nat /\ Percentile \in 0 .. 100
  BY CropperAssumption

LEMMA FootprintFacts ==
  ASSUME scenario \in Scenarios
  PROVE  /\ Len(Footprints) \in Nat
         /\ \A i \in Polygons : /\ Footprints[i].inside \in Boxes
                                /\ Footprints[i].buffered \in Boxes
                                /\ IsBuffered(Footprints[i])
<1>1. Footprints \in Seq([inside : Boxes, buffered : Boxes])
  BY ScenarioAssumption DEF Footprints
<1>2. \A i \in Polygons : Footprints[i] \in [inside : Boxes, buffered : Boxes]
  BY <1>1, ElementOfSeq DEF Polygons
<1>3. \A i \in Polygons : IsBuffered(Footprints[i])
  BY ScenarioAssumption DEF Footprints, Polygons
<1> QED
  BY <1>1, <1>2, <1>3, LenProperties

LEMMA FileFacts ==
  ASSUME scenario \in Scenarios
  PROVE  /\ Len(files) \in Nat
         /\ \A f \in 1 .. Len(files) : /\ files[f] \in Files
                                       /\ Len(files[f].points) \in Nat
                                       /\ DOMAIN files[f].points = 1 .. Len(files[f].points)
                                       /\ \A k \in 1 .. Len(files[f].points) : files[f].points[k] \in Points
<1>1. files \in Seq(Files)
  BY ScenarioAssumption DEF files
<1>2. ASSUME NEW f \in 1 .. Len(files)
      PROVE  /\ files[f] \in Files
             /\ Len(files[f].points) \in Nat
             /\ DOMAIN files[f].points = 1 .. Len(files[f].points)
             /\ \A k \in 1 .. Len(files[f].points) : files[f].points[k] \in Points
  <2>1. files[f] \in Files
    BY <1>1, ElementOfSeq
  <2>2. files[f].points \in Seq(Points)
    BY <2>1 DEF Files
  <2> QED
    BY <2>1, <2>2, LenProperties, ElementOfSeq
<1> QED
  BY <1>1, <1>2, LenProperties

(* The extent contains the buffer of every footprint. *)
LEMMA ExtentContains ==
  ASSUME scenario \in Scenarios, NEW i \in Polygons
  PROVE  LET e == polygon_extent  b == Footprints[i].buffered IN
         /\ e \in Boxes
         /\ e.x0 <= b.x0 /\ e.y0 <= b.y0 /\ b.x1 <= e.x1 /\ b.y1 <= e.y1
<1> DEFINE n == Len(Footprints)
           vx0 == [k \in 1 .. n |-> Footprints[k].buffered.x0]
           vy0 == [k \in 1 .. n |-> Footprints[k].buffered.y0]
           vx1 == [k \in 1 .. n |-> Footprints[k].buffered.x1]
           vy1 == [k \in 1 .. n |-> Footprints[k].buffered.y1]
<1>1. n \in Nat /\ n > 0 /\ i \in 1 .. n
  BY FootprintFacts DEF Polygons
<1>2. \A k \in 1 .. n : vx0[k] \in Int /\ vy0[k] \in Int /\ vx1[k] \in Int /\ vy1[k] \in Int
  BY FootprintFacts DEF Polygons, Boxes
<1>3. polygon_extent = [x0 |-> Min({vx0[k] : k \in 1 .. n}), y0 |-> Min({vy0[k] : k \in 1 .. n}),
                        x1 |-> Max({vx1[k] : k \in 1 .. n}), y1 |-> Max({vy1[k] : k \in 1 .. n})]
  <2>1. /\ {vx0[k] : k \in 1 .. n} = {Footprints[k].buffered.x0 : k \in Polygons}
        /\ {vy0[k] : k \in 1 .. n} = {Footprints[k].buffered.y0 : k \in Polygons}
        /\ {vx1[k] : k \in 1 .. n} = {Footprints[k].buffered.x1 : k \in Polygons}
        /\ {vy1[k] : k \in 1 .. n} = {Footprints[k].buffered.y1 : k \in Polygons}
    BY DEF Polygons
  <2> HIDE DEF vx0, vy0, vx1, vy1, n
  <2> QED
    BY <2>1 DEF polygon_extent
<1>4. /\ vx0[i] = Footprints[i].buffered.x0 /\ vy0[i] = Footprints[i].buffered.y0
      /\ vx1[i] = Footprints[i].buffered.x1 /\ vy1[i] = Footprints[i].buffered.y1
  BY <1>1
<1> HIDE DEF vx0, vy0, vx1, vy1, n
<1>5. \A k \in 1 .. n : vx0[k] \in Int
  BY <1>2
<1>6. \A k \in 1 .. n : vy0[k] \in Int
  BY <1>2
<1>7. \A k \in 1 .. n : vx1[k] \in Int
  BY <1>2
<1>8. \A k \in 1 .. n : vy1[k] \in Int
  BY <1>2
<1>9. /\ Min({vx0[k] : k \in 1 .. n}) \in Int /\ Min({vx0[k] : k \in 1 .. n}) <= vx0[i]
      /\ Min({vy0[k] : k \in 1 .. n}) \in Int /\ Min({vy0[k] : k \in 1 .. n}) <= vy0[i]
      /\ Max({vx1[k] : k \in 1 .. n}) \in Int /\ vx1[i] <= Max({vx1[k] : k \in 1 .. n})
      /\ Max({vy1[k] : k \in 1 .. n}) \in Int /\ vy1[i] <= Max({vy1[k] : k \in 1 .. n})
  BY <1>1, <1>5, <1>6, <1>7, <1>8, ExtremesOfValues
<1>10. vx0[i] <= vx1[i] /\ vy0[i] <= vy1[i]
  BY <1>4, FootprintFacts DEF Boxes
<1>11. /\ Min({vx0[k] : k \in 1 .. n}) <= Max({vx1[k] : k \in 1 .. n})
       /\ Min({vy0[k] : k \in 1 .. n}) <= Max({vy1[k] : k \in 1 .. n})
  BY <1>1, <1>5, <1>6, <1>7, <1>8, <1>9, <1>10
<1> QED
  BY <1>3, <1>4, <1>9, <1>11 DEF Boxes

(* In one direction: where a position of a footprint's buffer lies in a     *)
(* raster, from the low edge of the extent, over the extent's length.      *)
LEMMA CellsOfStretch ==
  ASSUME NEW low \in Int, NEW high \in Int, NEW from \in Int, NEW to \in Int, NEW at \in Int,
         low <= from, from <= at, at <= to, to <= high, NEW margin \in Nat, NEW n \in Nat \ {0}
  PROVE  /\ (from - (low - margin)) \div n \in Nat
         /\ (at - (low - margin)) \div n \in Nat
         /\ (to - (low - margin)) \div n \in Nat
         /\ (high - low + 2 * margin) \div n \in Nat
         /\ (from - (low - margin)) \div n <= (at - (low - margin)) \div n
         /\ (at - (low - margin)) \div n <= (to - (low - margin)) \div n
         /\ (to - (low - margin)) \div n <= (high - low + 2 * margin) \div n
         /\ (at - (low - margin)) \div n <= (from - (low - margin)) \div n + CeilDiv(to - from, n)
<1> DEFINE a == from - (low - margin)
           b == at - (low - margin)
           c == to - (low - margin)
           d == high - low + 2 * margin
           l == to - from
           m == at - from
<1>1. a \in Nat /\ b \in Nat /\ c \in Nat /\ d \in Nat /\ a <= b /\ b <= c /\ c <= d
  OBVIOUS
<1>2. b = a + m /\ m <= l /\ m \in Int /\ l \in Int
  OBVIOUS
<1> HIDE DEF a, b, c, d, l, m
<1>3. a \div n \in Nat /\ b \div n \in Nat /\ c \div n \in Nat /\ d \div n \in Nat
  BY <1>1, QuotientOfNat
<1>4. a \div n <= b \div n /\ b \div n <= c \div n /\ c \div n <= d \div n
  BY <1>1, QuotientGrows
<1>5. b \div n <= a \div n + CeilDiv(l, n)
  <2>1. a \in Int
    BY <1>1
  <2>2. (a + m) \div n <= a \div n + CeilDiv(l, n)
    BY <1>2, <2>1, StretchOfCells
  <2> QED
    BY <1>2, <2>2
<1> QED
  BY <1>3, <1>4, <1>5 DEF a, b, c, d, l

(* A point in a footprint's buffer, in a raster with cells of size n. *)
LEMMA CellsOfBuffer ==
  ASSUME scenario \in Scenarios, NEW i \in Polygons, NEW p, p.x \in Int, p.y \in Int,
         Within(Footprints[i].buffered, p), NEW n \in Nat \ {0}
  PROVE  LET b == Footprints[i].buffered IN
         /\ Col(b.x0, n) \in Nat /\ Col(p.x, n) \in Nat /\ Col(b.x1, n) \in Nat /\ dimx(n) - 1 \in Nat
         /\ Col(b.x0, n) <= Col(p.x, n) /\ Col(p.x, n) <= Col(b.x1, n) /\ Col(b.x1, n) <= dimx(n) - 1
         /\ Col(p.x, n) <= Col(b.x0, n) + CeilDiv(b.x1 - b.x0, n)
         /\ Row(b.y0, n) \in Nat /\ Row(p.y, n) \in Nat /\ Row(b.y1, n) \in Nat /\ dimy(n) - 1 \in Nat
         /\ Row(b.y0, n) <= Row(p.y, n) /\ Row(p.y, n) <= Row(b.y1, n) /\ Row(b.y1, n) <= dimy(n) - 1
         /\ Row(p.y, n) <= Row(b.y0, n) + CeilDiv(b.y1 - b.y0, n)
<1> DEFINE e == polygon_extent
           b == Footprints[i].buffered
<1>1. /\ e.x0 \in Int /\ e.x1 \in Int /\ e.y0 \in Int /\ e.y1 \in Int
      /\ b.x0 \in Int /\ b.x1 \in Int /\ b.y0 \in Int /\ b.y1 \in Int
      /\ e.x0 <= b.x0 /\ e.y0 <= b.y0 /\ b.x1 <= e.x1 /\ b.y1 <= e.y1
      /\ b.x0 <= p.x /\ p.x <= b.x1 /\ b.y0 <= p.y /\ p.y <= b.y1
  BY ExtentContains, FootprintFacts DEF Boxes, Within
<1>2. Buffer \in Nat
  BY SizesAreNatural
<1> HIDE DEF e, b
<1>3. /\ Col(b.x0, n) \in Nat /\ Col(p.x, n) \in Nat /\ Col(b.x1, n) \in Nat /\ dimx(n) - 1 \in Nat
      /\ Col(b.x0, n) <= Col(p.x, n) /\ Col(p.x, n) <= Col(b.x1, n) /\ Col(b.x1, n) <= dimx(n) - 1
      /\ Col(p.x, n) <= Col(b.x0, n) + CeilDiv(b.x1 - b.x0, n)
  <2> DEFINE low == e.x0
             high == e.x1
             from == b.x0
             to == b.x1
             at == p.x
  <2>1. /\ low \in Int /\ high \in Int /\ from \in Int /\ to \in Int /\ at \in Int
        /\ low <= from /\ from <= at /\ at <= to /\ to <= high
    BY <1>1
  <2>2. /\ Col(b.x0, n) = (from - (low - Buffer)) \div n
        /\ Col(p.x, n) = (at - (low - Buffer)) \div n
        /\ Col(b.x1, n) = (to - (low - Buffer)) \div n
        /\ dimx(n) = (high - low + 2 * Buffer) \div n + 1
        /\ CeilDiv(b.x1 - b.x0, n) = CeilDiv(to - from, n)
    BY DEF Col, minx, dimx, Dim, e
  <2> HIDE DEF low, high, from, to, at
  <2>3. /\ (from - (low - Buffer)) \div n \in Nat
        /\ (at - (low - Buffer)) \div n \in Nat
        /\ (to - (low - Buffer)) \div n \in Nat
        /\ (high - low + 2 * Buffer) \div n \in Nat
        /\ (from - (low - Buffer)) \div n <= (at - (low - Buffer)) \div n
        /\ (at - (low - Buffer)) \div n <= (to - (low - Buffer)) \div n
        /\ (to - (low - Buffer)) \div n <= (high - low + 2 * Buffer) \div n
        /\ (at - (low - Buffer)) \div n <= (from - (low - Buffer)) \div n + CeilDiv(to - from, n)
    BY <1>2, <2>1, CellsOfStretch
  <2> QED
    BY <2>2, <2>3
<1>4. /\ Row(b.y0, n) \in Nat /\ Row(p.y, n) \in Nat /\ Row(b.y1, n) \in Nat /\ dimy(n) - 1 \in Nat
      /\ Row(b.y0, n) <= Row(p.y, n) /\ Row(p.y, n) <= Row(b.y1, n) /\ Row(b.y1, n) <= dimy(n) - 1
      /\ Row(p.y, n) <= Row(b.y0, n) + CeilDiv(b.y1 - b.y0, n)
  <2> DEFINE low == e.y0
             high == e.y1
             from == b.y0
             to == b.y1
             at == p.y
  <2>1. /\ low \in Int /\ high \in Int /\ from \in Int /\ to \in Int /\ at \in Int
        /\ low <= from /\ from <= at /\ at <= to /\ to <= high
    BY <1>1
  <2>2. /\ Row(b.y0, n) = (from - (low - Buffer)) \div n
        /\ Row(p.y, n) = (at - (low - Buffer)) \div n
        /\ Row(b.y1, n) = (to - (low - Buffer)) \div n
        /\ dimy(n) = (high - low + 2 * Buffer) \div n + 1
        /\ CeilDiv(b.y1 - b.y0, n) = CeilDiv(to - from, n)
    BY DEF Row, miny, dimy, Dim, e
  <2> HIDE DEF low, high, from, to, at
  <2>3. /\ (from - (low - Buffer)) \div n \in Nat
        /\ (at - (low - Buffer)) \div n \in Nat
        /\ (to - (low - Buffer)) \div n \in Nat
        /\ (high - low + 2 * Buffer) \div n \in Nat
        /\ (from - (low - Buffer)) \div n <= (at - (low - Buffer)) \div n
        /\ (at - (low - Buffer)) \div n <= (to - (low - Buffer)) \div n
        /\ (to - (low - Buffer)) \div n <= (high - low + 2 * Buffer) \div n
        /\ (at - (low - Buffer)) \div n <= (from - (low - Buffer)) \div n + CeilDiv(to - from, n)
    BY <1>2, <2>1, CellsOfStretch
  <2> QED
    BY <2>2, <2>3
<1> QED
  BY <1>3, <1>4 DEF b

(* It is in one of the cells of the index that the footprint is entered in. *)
LEMMA IndexFinds ==
  ASSUME scenario \in Scenarios, NEW i \in Polygons, NEW p, p.x \in Int, p.y \in Int,
         Within(Footprints[i].buffered, p)
  PROVE  i \in Candidates(p)
<1> DEFINE b == Footprints[i].buffered
           n == CellSize
           c0 == Col(b.x0, n)
           c == Col(p.x, n)
           cs == CeilDiv(b.x1 - b.x0, n)
           r0 == Row(b.y0, n)
           r == Row(p.y, n)
           rs == CeilDiv(b.y1 - b.y0, n)
           dx == dimx(n) - 1
           dy == dimy(n) - 1
<1>1. /\ c0 \in Nat /\ c \in Nat /\ dx \in Nat /\ c0 <= c /\ c <= dx /\ c <= c0 + cs
      /\ r0 \in Nat /\ r \in Nat /\ dy \in Nat /\ r0 <= r /\ r <= dy /\ r <= r0 + rs
  <2>1. n \in Nat \ {0}
    BY SizesAreNatural
  <2>2. /\ c0 \in Nat /\ c \in Nat /\ Col(b.x1, n) \in Nat /\ dx \in Nat
        /\ c0 <= c /\ c <= Col(b.x1, n) /\ Col(b.x1, n) <= dx /\ c <= c0 + cs
        /\ r0 \in Nat /\ r \in Nat /\ Row(b.y1, n) \in Nat /\ dy \in Nat
        /\ r0 <= r /\ r <= Row(b.y1, n) /\ Row(b.y1, n) <= dy /\ r <= r0 + rs
    BY <2>1, CellsOfBuffer
  <2> HIDE DEF c0, c, cs, r0, r, rs, dx, dy, n
  <2> QED
    BY <2>2
<1>2. IndexCells(i) = (c0 .. Smaller(c0 + cs, dx)) \X (r0 .. Smaller(r0 + rs, dy))
  BY DEF IndexCells
<1> HIDE DEF c0, cs, r0, rs, dx, dy
<1>3. c \in c0 .. Smaller(c0 + cs, dx) /\ r \in r0 .. Smaller(r0 + rs, dy)
  <2> HIDE DEF c, r
  <2>1. c <= Smaller(c0 + cs, dx) /\ r <= Smaller(r0 + rs, dy)
    BY <1>1 DEF Smaller
  <2>2. Smaller(c0 + cs, dx) \in Int \/ c0 + cs \notin Int
    BY <1>1 DEF Smaller
  <2> QED
    BY <1>1, <2>1, <2>2
<1> QED
  BY <1>2, <1>3 DEF Candidates

(* The cells of the terrain grid that a footprint's buffer reaches. *)
Window(i) ==
  LET b == Footprints[i].buffered  n == TerrainCellSize IN
  {c \in Cells : /\ c[1] \in Col(b.x0, n) .. Col(b.x1, n)
                 /\ c[2] \in Row(b.y0, n) .. Row(b.y1, n)}

LEMMA WindowFinds ==
  ASSUME scenario \in Scenarios, NEW i \in Polygons, NEW p, p.x \in Int, p.y \in Int,
         Within(Footprints[i].buffered, p)
  PROVE  TerrainCell(p) \in Window(i)
<1> DEFINE b == Footprints[i].buffered
           n == TerrainCellSize
           c0 == Col(b.x0, n)
           c == Col(p.x, n)
           c1 == Col(b.x1, n)
           cs == CeilDiv(b.x1 - b.x0, n)
           r0 == Row(b.y0, n)
           r == Row(p.y, n)
           r1 == Row(b.y1, n)
           rs == CeilDiv(b.y1 - b.y0, n)
           dx == dimx(n) - 1
           dy == dimy(n) - 1
<1>1. /\ c0 \in Nat /\ c \in Nat /\ c1 \in Nat /\ dx \in Nat /\ c0 <= c /\ c <= c1 /\ c1 <= dx
      /\ r0 \in Nat /\ r \in Nat /\ r1 \in Nat /\ dy \in Nat /\ r0 <= r /\ r <= r1 /\ r1 <= dy
  <2>1. n \in Nat \ {0}
    BY SizesAreNatural
  <2>2. /\ c0 \in Nat /\ c \in Nat /\ c1 \in Nat /\ dx \in Nat
        /\ c0 <= c /\ c <= c1 /\ c1 <= dx /\ c <= c0 + cs
        /\ r0 \in Nat /\ r \in Nat /\ r1 \in Nat /\ dy \in Nat
        /\ r0 <= r /\ r <= r1 /\ r1 <= dy /\ r <= r0 + rs
    BY <2>1, CellsOfBuffer
  <2> HIDE DEF c0, c, c1, cs, r0, r, r1, rs, dx, dy, n
  <2> QED
    BY <2>2
<1>2. /\ Cells = (0 .. dx) \X (0 .. dy) /\ TerrainCell(p) = <<c, r>>
      /\ Window(i) = {d \in Cells : d[1] \in c0 .. c1 /\ d[2] \in r0 .. r1}
  BY DEF Cells, TerrainCell, Window
<1> HIDE DEF c0, c, c1, r0, r, r1, dx, dy
<1>3. c \in 0 .. dx /\ r \in 0 .. dy /\ c \in c0 .. c1 /\ r \in r0 .. r1
  BY <1>1
<1> QED
  BY <1>2, <1>3

(* A file with a point in a footprint is not skipped. *)
LEMMA FileWithPointIsRead ==
  ASSUME scenario \in Scenarios, NEW f \in 1 .. Len(files), files[f].readable,
         NEW k \in 1 .. Len(files[f].points), NEW i \in Polygons,
         Within(Footprints[i].inside, files[f].points[k])
  PROVE  IsRead(f)
<1> DEFINE n == Len(files[f].points)
           p == files[f].points[k]
           e == polygon_extent
           vx == [j \in 1 .. n |-> files[f].points[j].x]
           vy == [j \in 1 .. n |-> files[f].points[j].y]
<1>1. n \in Nat /\ k \in 1 .. n /\ n > 0 /\ DOMAIN files[f].points = 1 .. n
  BY FileFacts
<1>2. (\A j \in 1 .. n : vx[j] \in Int) /\ (\A j \in 1 .. n : vy[j] \in Int)
  BY FileFacts DEF Points
<1>3. vx[k] = p.x /\ vy[k] = p.y
  BY <1>1
<1> DEFINE locations == {<<files[f].points[j].x, files[f].points[j].y>> : j \in 1 .. n}
           X == {vx[j] : j \in 1 .. n}
           Y == {vy[j] : j \in 1 .. n}
<1>4. FileBox(f) = [x0 |-> Min(X), y0 |-> Min(Y), x1 |-> Max(X), y1 |-> Max(Y)]
  <2>1. ASSUME NEW j \in 1 .. n
        PROVE  /\ <<files[f].points[j].x, files[f].points[j].y>>[1] = vx[j]
               /\ <<files[f].points[j].x, files[f].points[j].y>>[2] = vy[j]
    OBVIOUS
  <2>2. \A j \in 1 .. n : <<files[f].points[j].x, files[f].points[j].y>> \in locations
    OBVIOUS
  <2>3. \A l \in locations : \E j \in 1 .. n : l = <<files[f].points[j].x, files[f].points[j].y>>
    OBVIOUS
  <2>4. ASSUME NEW u PROVE u \in {l[1] : l \in locations} <=> u \in X
    <3>1. ASSUME u \in {l[1] : l \in locations} PROVE u \in X
      <4>1. PICK l \in locations : u = l[1]
        BY <3>1
      <4> QED
        BY <4>1, <2>1, <2>3
    <3>2. ASSUME u \in X PROVE u \in {l[1] : l \in locations}
      <4>1. PICK j \in 1 .. n : u = vx[j]
        BY <3>2
      <4> QED
        BY <4>1, <2>1, <2>2
    <3> QED
      BY <3>1, <3>2
  <2>5. ASSUME NEW u PROVE u \in {l[2] : l \in locations} <=> u \in Y
    <3>1. ASSUME u \in {l[2] : l \in locations} PROVE u \in Y
      <4>1. PICK l \in locations : u = l[2]
        BY <3>1
      <4> QED
        BY <4>1, <2>1, <2>3
    <3>2. ASSUME u \in Y PROVE u \in {l[2] : l \in locations}
      <4>1. PICK j \in 1 .. n : u = vy[j]
        BY <3>2
      <4> QED
        BY <4>1, <2>1, <2>2
    <3> QED
      BY <3>1, <3>2
  <2>6. {l[1] : l \in locations} = X /\ {l[2] : l \in locations} = Y
    <3> HIDE DEF locations, X, Y
    <3> QED
      BY <2>4, <2>5
  <2>7. FileBox(f) = BoxOf(locations)
    BY <1>1 DEF FileBox
  <2> HIDE DEF locations, X, Y
  <2> QED
    BY <2>6, <2>7 DEF BoxOf
<1>5. /\ Min(X) \in Int /\ Min(X) <= p.x /\ Max(X) \in Int /\ p.x <= Max(X)
      /\ Min(Y) \in Int /\ Min(Y) <= p.y /\ Max(Y) \in Int /\ p.y <= Max(Y)
  <2> HIDE DEF vx, vy, n, p
  <2>1. /\ Min({vx[j] : j \in 1 .. n}) \in Int /\ Max({vx[j] : j \in 1 .. n}) \in Int
        /\ \A l \in 1 .. n : Min({vx[j] : j \in 1 .. n}) <= vx[l] /\ vx[l] <= Max({vx[j] : j \in 1 .. n})
    BY <1>1, <1>2, ExtremesOfValues
  <2>2. /\ Min({vy[j] : j \in 1 .. n}) \in Int /\ Max({vy[j] : j \in 1 .. n}) \in Int
        /\ \A l \in 1 .. n : Min({vy[j] : j \in 1 .. n}) <= vy[l] /\ vy[l] <= Max({vy[j] : j \in 1 .. n})
    BY <1>1, <1>2, ExtremesOfValues
  <2> QED
    BY <1>1, <1>3, <2>1, <2>2
<1>6. /\ e.x0 \in Int /\ e.x1 \in Int /\ e.y0 \in Int /\ e.y1 \in Int /\ p.x \in Int /\ p.y \in Int
      /\ e.x0 < p.x /\ p.x < e.x1 /\ e.y0 < p.y /\ p.y < e.y1
  <2> DEFINE b == Footprints[i].buffered
             s == Footprints[i].inside
  <2>1. /\ e \in Boxes /\ b \in Boxes /\ s \in Boxes
        /\ e.x0 <= b.x0 /\ e.y0 <= b.y0 /\ b.x1 <= e.x1 /\ b.y1 <= e.y1
    BY ExtentContains, FootprintFacts
  <2>2. b.x0 < s.x0 /\ b.y0 < s.y0 /\ s.x1 < b.x1 /\ s.y1 < b.y1
    BY FootprintFacts DEF IsBuffered
  <2>3. s.x0 <= p.x /\ p.x <= s.x1 /\ s.y0 <= p.y /\ p.y <= s.y1 /\ p.x \in Int /\ p.y \in Int
    BY FileFacts DEF Within, Points
  <2>4. \A q \in Boxes : q.x0 \in Int /\ q.y0 \in Int /\ q.x1 \in Int /\ q.y1 \in Int
    BY DEF Boxes
  <2> HIDE DEF e, b, s, p
  <2>5. /\ e.x0 \in Int /\ e.y0 \in Int /\ e.x1 \in Int /\ e.y1 \in Int
        /\ b.x0 \in Int /\ b.y0 \in Int /\ b.x1 \in Int /\ b.y1 \in Int
        /\ s.x0 \in Int /\ s.y0 \in Int /\ s.x1 \in Int /\ s.y1 \in Int
    BY ONLY <2>1, <2>4
  <2>6. /\ e.x0 <= b.x0 /\ e.y0 <= b.y0 /\ b.x1 <= e.x1 /\ b.y1 <= e.y1
        /\ b.x0 < s.x0 /\ b.y0 < s.y0 /\ s.x1 < b.x1 /\ s.y1 < b.y1
        /\ s.x0 <= p.x /\ p.x <= s.x1 /\ s.y0 <= p.y /\ p.y <= s.y1 /\ p.x \in Int /\ p.y \in Int
    BY ONLY <2>1, <2>2, <2>3
  <2>7. ASSUME NEW u \in Int, NEW v \in Int, NEW w \in Int, NEW x \in Int
        PROVE  u <= v /\ v < w /\ w <= x => u < x
    OBVIOUS
  <2>8. e.x0 < p.x
    BY <2>5, <2>6, <2>7
  <2>9. e.y0 < p.y
    BY <2>5, <2>6, <2>7
  <2>10. p.x < e.x1
    <3>1. p.x <= s.x1 /\ s.x1 < b.x1 /\ b.x1 <= e.x1
      BY <2>6
    <3> QED
      BY <2>5, <2>6, <2>7, <3>1
  <2>11. p.y < e.y1
    <3>1. p.y <= s.y1 /\ s.y1 < b.y1 /\ b.y1 <= e.y1
      BY <2>6
    <3> QED
      BY <2>5, <2>6, <2>7, <3>1
  <2> QED
    BY <2>5, <2>6, <2>8, <2>9, <2>10, <2>11
<1> HIDE DEF X, Y, p, e
<1>7. Min(X) < e.x1 /\ e.x0 < Max(X) /\ Min(Y) < e.y1 /\ e.y0 < Max(Y)
  BY <1>5, <1>6
<1>8. Intersects(FileBox(f), e)
  BY <1>4, <1>7 DEF Intersects
<1> QED
  BY <1>8 DEF IsRead, e

(* A point in a footprint is in the extent, and the index gives it to it. *)
LEMMA PointIsGiven ==
  ASSUME scenario \in Scenarios, NEW p \in Points, NEW i \in Polygons
  PROVE  /\ Within(Footprints[i].inside, p) => Within(Footprints[i].buffered, p)
         /\ Within(Footprints[i].buffered, p) => Within(polygon_extent, p)
         /\ i \in GivenTo(p) <=> Within(Footprints[i].buffered, p)
         /\ i \in InsideOf(p) <=> Within(Footprints[i].inside, p)
<1> DEFINE e == polygon_extent
           b == Footprints[i].buffered
           s == Footprints[i].inside
<1>1. /\ e \in Boxes /\ b \in Boxes /\ s \in Boxes
      /\ e.x0 <= b.x0 /\ e.y0 <= b.y0 /\ b.x1 <= e.x1 /\ b.y1 <= e.y1
      /\ b.x0 < s.x0 /\ b.y0 < s.y0 /\ s.x1 < b.x1 /\ s.y1 < b.y1
  BY ExtentContains, FootprintFacts DEF IsBuffered
<1>2. p.x \in Int /\ p.y \in Int
  BY DEF Points
<1>3. Within(s, p) => Within(b, p)
  <2> HIDE DEF b, s
  <2> QED
    BY <1>1, <1>2 DEF Within, Boxes
<1>4. Within(b, p) => Within(e, p)
  <2> HIDE DEF b, e
  <2> QED
    BY <1>1, <1>2 DEF Within, Boxes
<1>5. i \in GivenTo(p) <=> Within(b, p)
  BY <1>2, IndexFinds DEF GivenTo
<1>6. i \in InsideOf(p) <=> Within(s, p)
  BY <1>3, <1>5 DEF InsideOf
<1> QED
  BY <1>3, <1>4, <1>5, <1>6

-----------------------------------------------------------------------------
(***************************************************************************)
(* StreamCropper: the elevations.                                          *)
(***************************************************************************)

LEMMA ElevationsAreIntegers ==
  /\ NoData \in Int /\ Null \in Int /\ Null < NoData
  /\ \A z \in Elevations : z \in Int /\ Null < z /\ z < NoData
  BY CropperAssumption DEF Elevations, Null

LEMMA PlaceOfPercentile ==
  ASSUME NEW n \in Nat, n > 0
  PROVE  LET k == (Percentile * (n - 1)) \div 100 IN k \in Int /\ 0 <= k /\ k < n
<1> DEFINE m == n - 1
           d == Percentile * m
<1>1. m \in Nat /\ Percentile \in 0 .. 100
  BY SizesAreNatural
<1> HIDE DEF m
<1>2. d \in Nat
  BY <1>1, SMT
<1>3. d <= 100 * m
  <2>1. (100 - Percentile) * m \in Nat
    <3>1. 100 - Percentile \in Nat
      BY <1>1
    <3> QED
      BY <3>1, <1>1, SMT
  <2>2. (100 - Percentile) * m = 100 * m - d
    BY <1>1, SMT
  <2> QED
    BY <2>1, <2>2, <1>1, <1>2
<1> HIDE DEF d
<1>4. d < (m + 1) * 100
  BY <1>1, <1>2, <1>3
<1>5. d \div 100 <= m /\ d \div 100 \in Nat
  BY <1>1, <1>2, <1>4, QuotientAtMost, QuotientOfNat
<1>6. d \div 100 < n
  BY <1>5 DEF m
<1> QED
  BY <1>5, <1>6 DEF d, m

(* The elevation of a footprint is the elevation of one of its points. *)
LEMMA PercentileIsAValue ==
  ASSUME NEW s \in Seq(Elevations), s # <<>>
  PROVE  PercentileOf(s) \in Elevations /\ \E m \in 1 .. Len(s) : PercentileOf(s) = s[m]
<1> DEFINE n == Len(s)
           k == (Percentile * (n - 1)) \div 100
           V == {s[m] : m \in 1 .. n}
           at(v) == {m \in 1 .. n : s[m] <= v}
           below(v) == {m \in 1 .. n : s[m] < v}
<1>1. n \in Nat /\ n > 0 /\ DOMAIN s = 1 .. n /\ \A m \in 1 .. n : s[m] \in Elevations
  <2>1. n \in Nat /\ DOMAIN s = 1 .. n
    BY LenProperties
  <2>2. n # 0
    BY EmptySeq
  <2>3. \A m \in 1 .. n : s[m] \in Elevations
    BY ElementOfSeq
  <2> HIDE DEF n
  <2> QED
    BY <2>1, <2>2, <2>3
<1>2. \A m \in 1 .. n : s[m] \in Int
  BY <1>1, ElevationsAreIntegers
<1>3. k \in Int /\ 0 <= k /\ k < n
  BY <1>1, PlaceOfPercentile
<1> HIDE DEF k
<1>4. IsFiniteSet(V)
  <2> DEFINE f == [m \in 1 .. n |-> s[m]]
  <2>1. f \in Surjection(1 .. n, V)
    BY DEF Surjection
  <2>2. IsFiniteSet(1 .. n)
    <3> HIDE DEF n
    <3> QED
      BY <1>1, FS_Interval
  <2> HIDE DEF V, f
  <2> QED
    BY <2>1, <2>2, FS_Surjection
<1>5. /\ V # {} /\ (\A x \in V : x \in Int)
      /\ \A m \in 1 .. n : s[m] \in V
      /\ \A x \in V : \E m \in 1 .. n : x = s[m]
  BY <1>1, <1>2
<1> HIDE DEF V
<1>6. IsFiniteSet(1 .. n) /\ Cardinality(1 .. n) = n
  <2> HIDE DEF n
  <2> QED
    BY <1>1, FS_Interval
<1>7. ASSUME NEW e PROVE Cardinality(at(e)) \in Nat
  <2> DEFINE A == at(e)
             B == 1 .. n
  <2>1. A \subseteq B /\ IsFiniteSet(B)
    BY <1>6
  <2> HIDE DEF A, B
  <2>2. IsFiniteSet(A)
    BY <2>1, FS_Subset
  <2>3. Cardinality(A) \in Nat
    BY <2>2, FS_CardinalityType
  <2> QED
    BY <2>3 DEF A
<1> DEFINE T == {v \in V : k < Cardinality(at(v))}
<1>8. Max(V) \in T
  <2>1. Max(V) \in V /\ \A y \in V : y <= Max(V)
    BY <1>4, <1>5, GreatestInteger
  <2>2. at(Max(V)) = 1 .. n
    BY <1>5, <2>1
  <2> QED
    BY <1>3, <1>6, <2>1, <2>2
<1>9. IsFiniteSet(T) /\ T # {} /\ \A x \in T : x \in Int
  BY <1>4, <1>5, <1>8, FS_Subset
<1> DEFINE z == Min(T)
<1>10. z \in T /\ \A y \in T : z <= y
  <2> HIDE DEF T
  <2> QED
    BY <1>9, LeastInteger
<1> HIDE DEF z
<1>11. z \in V /\ z \in Int /\ k < Cardinality(at(z))
  BY <1>5, <1>10
<1>12. Cardinality(below(z)) <= k
  <2>1. CASE below(z) = {}
    BY <2>1, <1>3, FS_EmptySet
  <2>2. CASE below(z) # {}
    <3> DEFINE W == {v \in V : v < z}
    <3>1. IsFiniteSet(W) /\ W # {} /\ \A x \in W : x \in Int
      <4>1. W # {}
        BY <2>2, <1>5
      <4> QED
        BY <4>1, <1>4, <1>5, FS_Subset
    <3> DEFINE w == Max(W)
    <3>2. w \in W /\ \A y \in W : y <= w
      <4> HIDE DEF W
      <4> QED
        BY <3>1, GreatestInteger
    <3> HIDE DEF w
    <3>3. w \in V /\ w < z /\ w \in Int
      BY <3>2, <1>5
    <3>4. below(z) = at(w)
      BY <3>2, <3>3, <1>2, <1>5, <1>11
    <3>5. w \notin T
      BY <3>3, <1>10, <1>11
    <3>6. ~ (k < Cardinality(at(w)))
      BY <3>3, <3>5
    <3>7. Cardinality(at(w)) \in Nat
      BY <1>7
    <3>8. Cardinality(at(w)) <= k
      <4> HIDE DEF at
      <4> QED
        BY <3>6, <3>7, <1>3
    <3> QED
      BY <3>4, <3>8
  <2> QED
    BY <2>1, <2>2
<1>13. PercentileOf(s) = CHOOSE v \in V : Cardinality(below(v)) <= k /\ k < Cardinality(at(v))
  BY <1>1 DEF PercentileOf, Ranked, V, k
<1>14. PercentileOf(s) \in V
  BY <1>11, <1>12, <1>13
<1>15. PICK m \in 1 .. n : PercentileOf(s) = s[m]
  BY <1>5, <1>14
<1> QED
  BY <1>1, <1>15

(* The cells of the grid that a buffer's corners are in. *)
LEMMA CornersOfWindow ==
  ASSUME scenario \in Scenarios, NEW i \in Polygons
  PROVE  LET b == Footprints[i].buffered  n == TerrainCellSize IN
         /\ Col(b.x0, n) \in Nat /\ Col(b.x1, n) \in Nat /\ dimx(n) - 1 \in Nat /\ Col(b.x1, n) <= dimx(n) - 1
         /\ Row(b.y0, n) \in Nat /\ Row(b.y1, n) \in Nat /\ dimy(n) - 1 \in Nat /\ Row(b.y1, n) <= dimy(n) - 1
<1> DEFINE b == Footprints[i].buffered
           n == TerrainCellSize
           p == [x |-> b.x0, y |-> b.y0]
<1>1. p.x \in Int /\ p.y \in Int /\ Within(b, p)
  BY FootprintFacts DEF Boxes, Within
<1>2. n \in Nat \ {0}
  BY SizesAreNatural
<1> HIDE DEF p, n
<1>3. /\ Col(b.x0, n) \in Nat /\ Col(b.x1, n) \in Nat /\ dimx(n) - 1 \in Nat /\ Col(b.x1, n) <= dimx(n) - 1
      /\ Row(b.y0, n) \in Nat /\ Row(b.y1, n) \in Nat /\ dimy(n) - 1 \in Nat /\ Row(b.y1, n) <= dimy(n) - 1
  BY <1>1, <1>2, CellsOfBuffer
<1> QED
  BY <1>3 DEF n

LEMMA CellsAreFinite ==
  ASSUME scenario \in Scenarios, NEW i \in Polygons
  PROVE  IsFiniteSet(Cells)
<1> DEFINE dx == dimx(TerrainCellSize) - 1
           dy == dimy(TerrainCellSize) - 1
<1>1. dx \in Nat /\ dy \in Nat
  BY CornersOfWindow
<1>2. Cells = (0 .. dx) \X (0 .. dy)
  BY DEF Cells
<1> HIDE DEF dx, dy
<1>3. IsFiniteSet(0 .. dx) /\ IsFiniteSet(0 .. dy)
  BY <1>1, FS_Interval
<1> DEFINE X == 0 .. dx
           Y == 0 .. dy
<1> HIDE DEF X, Y
<1>4. IsFiniteSet(X \X Y)
  BY <1>3, FS_Product DEF X, Y
<1> QED
  BY <1>2, <1>4 DEF X, Y

GridIsTyped == terrain_grid \in [Cells -> Elevations \cup {NoData}]

(* A window's elevation is not above the sample of any of its cells. *)
LEMMA WindowIsNotAbove ==
  ASSUME scenario \in Scenarios, GridIsTyped, IsFiniteSet(Cells),
         NEW c0, NEW c1, NEW r0, NEW r1, NEW c \in Cells, c[1] \in c0 .. c1, c[2] \in r0 .. r1,
         terrain_grid[c] # NoData
  PROVE  /\ WindowMinimum(c0, c1, r0, r1) # Null
         /\ WindowMinimum(c0, c1, r0, r1) \in Elevations
         /\ WindowMinimum(c0, c1, r0, r1) <= terrain_grid[c]
<1> DEFINE S == {d \in Cells : d[1] \in c0 .. c1 /\ d[2] \in r0 .. r1 /\ terrain_grid[d] # NoData}
           known == {terrain_grid[d] : d \in S}
           f == [d \in S |-> terrain_grid[d]]
<1>1. c \in S /\ IsFiniteSet(S)
  BY FS_Subset
<1>2. \A d \in S : terrain_grid[d] \in Elevations
  BY DEF GridIsTyped
<1>3. f \in Surjection(S, known)
  BY DEF Surjection
<1>4. WindowMinimum(c0, c1, r0, r1) = IF known = {} THEN Null ELSE Min(known)
  BY DEF WindowMinimum
<1>5. terrain_grid[c] \in known /\ (\A z \in known : z \in Elevations) /\ known # {}
  BY <1>1, <1>2
<1> HIDE DEF S, f, known
<1>6. IsFiniteSet(known)
  BY <1>1, <1>3, FS_Surjection
<1>7. \A z \in known : z \in Int
  BY <1>5, ElevationsAreIntegers
<1>8. Min(known) \in known /\ \A z \in known : Min(known) <= z
  BY <1>5, <1>6, <1>7, LeastInteger
<1>9. Min(known) \in Elevations /\ Min(known) # Null
  <2>1. Min(known) \in Elevations
    BY <1>5, <1>8
  <2> QED
    BY <2>1, ElevationsAreIntegers
<1> QED
  BY <1>4, <1>5, <1>8, <1>9

(* So the search ends at the buffer, if it has a sample. *)
LEMMA SearchFindsSample ==
  ASSUME scenario \in Scenarios, GridIsTyped, NEW i \in Polygons, NEW c \in Window(i),
         terrain_grid[c] # NoData
  PROVE  /\ terrain_grid_min(i) # Null
         /\ terrain_grid_min(i) \in Elevations
         /\ terrain_grid_min(i) <= terrain_grid[c]
<1> DEFINE b == Footprints[i].buffered
           n == TerrainCellSize
           c0 == Col(b.x0, n)
           c1 == Col(b.x1, n)
           r0 == Row(b.y0, n)
           r1 == Row(b.y1, n)
           dx == dimx(n) - 1
           dy == dimy(n) - 1
<1>1. /\ c0 \in Nat /\ c1 \in Nat /\ dx \in Nat /\ c1 <= dx
      /\ r0 \in Nat /\ r1 \in Nat /\ dy \in Nat /\ r1 <= dy
  BY CornersOfWindow
<1>2. WindowAround(i, 0) = WindowMinimum(Larger(c0, 0) - 0, Smaller(c1, dx) + 0,
                                         Larger(r0, 0) - 0, Smaller(r1, dy) + 0)
  BY DEF WindowAround
<1>3. c \in Cells /\ c[1] \in c0 .. c1 /\ c[2] \in r0 .. r1
  BY DEF Window
<1> HIDE DEF c0, c1, r0, r1, dx, dy
<1>4. /\ Larger(c0, 0) - 0 = c0 /\ Smaller(c1, dx) + 0 = c1
      /\ Larger(r0, 0) - 0 = r0 /\ Smaller(r1, dy) + 0 = r1
  BY <1>1 DEF Larger, Smaller
<1>5. IsFiniteSet(Cells)
  BY CellsAreFinite
<1>6. /\ WindowAround(i, 0) # Null
      /\ WindowAround(i, 0) \in Elevations
      /\ WindowAround(i, 0) <= terrain_grid[c]
  <2>1. WindowAround(i, 0) = WindowMinimum(c0, c1, r0, r1)
    BY <1>2, <1>4
  <2> QED
    BY <1>3, <1>5, <2>1, WindowIsNotAbove
<1> DEFINE radii == {r \in 0 .. SearchRadius : WindowAround(i, r) # Null}
           m == Min(radii)
<1>7. terrain_grid_min(i) = IF radii = {} THEN Null ELSE WindowAround(i, m)
  BY DEF terrain_grid_min
<1>8. 0 \in radii /\ (\A r \in radii : r \in Int /\ 0 <= r) /\ radii # {}
  BY <1>6, SizesAreNatural
<1>9. IsFiniteSet(radii)
  <2> DEFINE T == 0 .. SearchRadius
  <2>1. IsFiniteSet(T)
    BY FS_Interval, SizesAreNatural
  <2>2. radii \subseteq T
    OBVIOUS
  <2> HIDE DEF T, radii
  <2> QED
    BY <2>1, <2>2, FS_Subset
<1>10. m = 0
  <2> HIDE DEF radii
  <2>1. m \in radii /\ \A r \in radii : m <= r
    BY <1>8, <1>9, LeastInteger
  <2> HIDE DEF m
  <2> QED
    BY <1>8, <2>1
<1> HIDE DEF radii, m
<1> QED
  BY <1>6, <1>7, <1>8, <1>10

-----------------------------------------------------------------------------
(***************************************************************************)
(* StreamCropper: the invariant.                                           *)
(***************************************************************************)

CropTypes ==
  /\ scenario \in Scenarios
  /\ file \in Nat \ {0} /\ next \in Nat \ {0}
  /\ phase = "read" => file \in 1 .. Len(files)
  /\ point_clouds \in [Polygons -> Seq(Points)]
  /\ ground_buffer_points \in [Polygons -> Seq(Points)]
  /\ points_overlap \subseteq [point : Points, of : SUBSET Polygons]
  /\ z_ground \in [Polygons -> Seq(Elevations)]
  /\ GridIsTyped

HasPassed(f, k) == f < file \/ (f = file /\ phase = "read" /\ k < next)

IsFound(p, clouds) ==
  \A i \in Polygons : Within(Footprints[i].inside, p) =>
    \/ \E k \in DOMAIN clouds[i] : clouds[i][k] = p
    \/ /\ scenario.handle_overlap_points
       /\ \E j \in Polygons \ {i} : Within(Footprints[j].inside, p)

(* The building points that have passed are found, at all times. *)
PassedPointsAreFound ==
  \A f \in 1 .. Len(files) : \A k \in 1 .. Len(files[f].points) :
    files[f].readable /\ files[f].points[k].class = Building /\ HasPassed(f, k)
      => IsFound(files[f].points[k], point_clouds)

(* Every ground elevation of a footprint has a sample in the footprint's   *)
(* window that is not above it.                                            *)
SamplesSupport ==
  \A i \in Polygons : \A n \in 1 .. Len(z_ground[i]) :
    \E c \in Window(i) : terrain_grid[c] <= z_ground[i][n]

CropInv == CropTypes /\ PassedPointsAreFound /\ SamplesSupport /\ GridIsNotAboveGround

LEMMA SameScenario ==
  ASSUME UNCHANGED scenario
  PROVE  /\ Footprints' = Footprints /\ Polygons' = Polygons /\ files' = files
         /\ polygon_extent' = polygon_extent /\ Cells' = Cells
         /\ \A i : Window(i)' = Window(i)
<1>1. Footprints' = Footprints /\ Polygons' = Polygons /\ files' = files
  BY DEF Footprints, Polygons, files
<1>2. polygon_extent' = polygon_extent
  BY <1>1 DEF polygon_extent
<1>3. minx' = minx /\ miny' = miny
  BY <1>2 DEF minx, miny
<1>4. dimx(TerrainCellSize)' = dimx(TerrainCellSize) /\ dimy(TerrainCellSize)' = dimy(TerrainCellSize)
  BY <1>2 DEF dimx, dimy
<1>5. Cells' = Cells
  BY <1>4 DEF Cells
<1>6. ASSUME NEW i PROVE Window(i)' = Window(i)
  <2> DEFINE b == Footprints[i].buffered
             n == TerrainCellSize
  <2>1. Col(b.x0, n)' = Col(b.x0, n) /\ Col(b.x1, n)' = Col(b.x1, n)
    BY <1>1, <1>3 DEF Col
  <2>2. Row(b.y0, n)' = Row(b.y0, n) /\ Row(b.y1, n)' = Row(b.y1, n)
    BY <1>1, <1>3 DEF Row
  <2> QED
    BY <1>5, <2>1, <2>2 DEF Window
<1> QED
  BY <1>1, <1>2, <1>5, <1>6

LEMMA FoundIsNotMissed ==
  ASSUME scenario \in Scenarios, PassedPointsAreFound
  PROVE  NoPointIsMissed
<1> SUFFICES ASSUME NEW id \in Passed, PointAt(id).class = Building
             PROVE  IsFound(PointAt(id), point_clouds)
  BY DEF NoPointIsMissed, IsFound
<1>1. PICK f \in DOMAIN files : id \in {f} \X DOMAIN files[f].points
  BY DEF Passed
<1>2. DOMAIN files = 1 .. Len(files)
  BY ScenarioAssumption, LenProperties DEF files
<1>3. f \in 1 .. Len(files) /\ DOMAIN files[f].points = 1 .. Len(files[f].points)
  BY <1>1, <1>2, FileFacts
<1>4. id[1] = f /\ id[2] \in 1 .. Len(files[f].points)
  BY <1>1, <1>3
<1>5. files[f].readable /\ HasPassed(f, id[2])
  BY <1>4 DEF Passed, HasPassed
<1> QED
  BY <1>3, <1>4, <1>5 DEF PassedPointsAreFound, PointAt

(* What appending to the sequences of some places does. *)
LEMMA AppendWhereFacts ==
  ASSUME NEW D, NEW T, NEW f \in [D -> Seq(T)], NEW S, NEW e \in T
  PROVE  LET g == AppendWhere(f, S, e) IN
         /\ g \in [D -> Seq(T)]
         /\ \A i \in D : \A k \in 1 .. Len(f[i]) : k \in 1 .. Len(g[i]) /\ g[i][k] = f[i][k]
         /\ \A i \in D : i \in S => Len(g[i]) \in 1 .. Len(g[i]) /\ g[i][Len(g[i])] = e
         /\ \A i \in D : \A k \in 1 .. Len(g[i]) :
              (i \in S /\ g[i][k] = e) \/ (k \in 1 .. Len(f[i]) /\ g[i][k] = f[i][k])
<1> DEFINE g == AppendWhere(f, S, e)
<1>1. DOMAIN f = D /\ g = [i \in D |-> IF i \in S THEN Append(f[i], e) ELSE f[i]]
  BY DEF AppendWhere
<1>2. ASSUME NEW i \in D
      PROVE  /\ g[i] \in Seq(T)
             /\ \A k \in 1 .. Len(f[i]) : k \in 1 .. Len(g[i]) /\ g[i][k] = f[i][k]
             /\ i \in S => Len(g[i]) \in 1 .. Len(g[i]) /\ g[i][Len(g[i])] = e
             /\ \A k \in 1 .. Len(g[i]) :
                  (i \in S /\ g[i][k] = e) \/ (k \in 1 .. Len(f[i]) /\ g[i][k] = f[i][k])
  <2> DEFINE s == f[i]
             t == Append(s, e)
  <2>1. s \in Seq(T) /\ Len(s) \in Nat
    BY LenProperties
  <2>2. /\ t \in Seq(T) /\ Len(t) = Len(s) + 1 /\ t[Len(s) + 1] = e
        /\ \A k \in 1 .. Len(s) : t[k] = s[k]
    <3> HIDE DEF s
    <3> QED
      BY <2>1, AppendProperties
  <2>3. g[i] = IF i \in S THEN t ELSE s
    BY <1>1
  <2> HIDE DEF g, s, t
  <2>4. CASE i \in S
    <3>1. g[i] = t
      BY <2>3, <2>4
    <3>2. \A k \in 1 .. Len(t) : k = Len(s) + 1 \/ k \in 1 .. Len(s)
      BY <2>1, <2>2
    <3>3. Len(t) \in 1 .. Len(t) /\ \A k \in 1 .. Len(s) : k \in 1 .. Len(t)
      BY <2>1, <2>2
    <3> QED
      BY <2>4, <2>2, <3>1, <3>2, <3>3 DEF s
  <2>5. CASE i \notin S
    BY <2>1, <2>3, <2>5 DEF s
  <2> QED
    BY <2>4, <2>5
<1>3. g \in [D -> Seq(T)]
  BY <1>1, <1>2
<1> HIDE DEF g
<1>4. /\ g \in [D -> Seq(T)]
      /\ \A i \in D : \A k \in 1 .. Len(f[i]) : k \in 1 .. Len(g[i]) /\ g[i][k] = f[i][k]
      /\ \A i \in D : i \in S => Len(g[i]) \in 1 .. Len(g[i]) /\ g[i][Len(g[i])] = e
      /\ \A i \in D : \A k \in 1 .. Len(g[i]) :
           (i \in S /\ g[i][k] = e) \/ (k \in 1 .. Len(f[i]) /\ g[i][k] = f[i][k])
  BY <1>2, <1>3
<1> QED
  BY <1>4 DEF g

LEMMA CropInvHoldsInitially == MeshInit => CropInv
<1> SUFFICES ASSUME MeshInit PROVE CropInv
  OBVIOUS
<1> USE DEF MeshInit, Init
<1>1. CropTypes
  <2>1. \A T : <<>> \in Seq(T)
    BY EmptySeq
  <2>2. GridIsTyped
    BY DEF GridIsTyped
  <2> QED
    BY <2>1, <2>2 DEF CropTypes
<1>2. PassedPointsAreFound
  <2>1. \A f \in 1 .. Len(files) : \A k : ~HasPassed(f, k)
    <3>1. Len(files) \in Nat
      BY FileFacts
    <3> QED
      BY <3>1 DEF HasPassed
  <2> QED
    BY <2>1 DEF PassedPointsAreFound
<1>3. SamplesSupport
  <2>1. \A i \in Polygons : z_ground[i] = <<>>
    OBVIOUS
  <2>2. Len(<<>>) = 0
    BY EmptySeq
  <2>3. \A i \in Polygons : \A n : n \notin 1 .. Len(z_ground[i])
    BY <2>1, <2>2
  <2> QED
    BY <2>3 DEF SamplesSupport
<1>4. GridIsNotAboveGround
  BY DEF GridIsNotAboveGround
<1> QED
  BY <1>1, <1>2, <1>3, <1>4 DEF CropInv

(* What was found stays found while the clouds only grow. *)
LEMMA FoundStays ==
  ASSUME PassedPointsAreFound, UNCHANGED scenario,
         \A i \in Polygons : \A k \in DOMAIN point_clouds[i] :
           \E m \in DOMAIN point_clouds'[i] : point_clouds'[i][m] = point_clouds[i][k],
         \A f \in 1 .. Len(files) : \A k \in 1 .. Len(files[f].points) :
           files[f].readable /\ files[f].points[k].class = Building /\ HasPassed(f, k)'
           /\ ~HasPassed(f, k) => IsFound(files[f].points[k], point_clouds')
  PROVE  PassedPointsAreFound'
<1>1. Footprints' = Footprints /\ Polygons' = Polygons /\ files' = files
  BY SameScenario
<1>2. ASSUME NEW p, IsFound(p, point_clouds) PROVE IsFound(p, point_clouds')
  BY <1>2 DEF IsFound
<1>3. ASSUME NEW f \in 1 .. Len(files), NEW k \in 1 .. Len(files[f].points),
             files[f].readable, files[f].points[k].class = Building, HasPassed(f, k)'
      PROVE  IsFound(files[f].points[k], point_clouds)'
  <2> DEFINE p == files[f].points[k]
  <2>1. IsFound(p, point_clouds')
    <3>1. CASE HasPassed(f, k)
      <4>1. IsFound(p, point_clouds)
        BY <1>3, <3>1 DEF PassedPointsAreFound
      <4> HIDE DEF p
      <4> QED
        BY <4>1, <1>2
    <3>2. CASE ~HasPassed(f, k)
      BY <1>3, <3>2
    <3> QED
      BY <3>1, <3>2
  <2>2. IsFound(p, point_clouds)'
    <3>1. p' = p
      BY <1>1
    <3> QED
      BY <2>1, <3>1, <1>1 DEF IsFound
  <2> QED
    BY <2>2, <1>1
<1> QED
  BY <1>1, <1>3 DEF PassedPointsAreFound

LEMMA FoundStaysWithClouds ==
  ASSUME PassedPointsAreFound, UNCHANGED <<scenario, point_clouds>>,
         \A f \in 1 .. Len(files) : \A k \in 1 .. Len(files[f].points) :
           files[f].readable /\ HasPassed(f, k)' => HasPassed(f, k)
  PROVE  PassedPointsAreFound'
BY FoundStays

LEMMA SupportStays ==
  ASSUME SamplesSupport, UNCHANGED <<scenario, z_ground, terrain_grid>>
  PROVE  SamplesSupport'
BY SameScenario DEF SamplesSupport

(* Types, where nothing is collected. *)
LEMMA TypesStay ==
  ASSUME CropTypes, UNCHANGED <<scenario, point_clouds, ground_buffer_points, points_overlap, z_ground,
                                terrain_grid>>,
         file' \in Nat \ {0}, next' \in Nat \ {0}, phase' = "read" => file' \in 1 .. Len(files)
  PROVE  CropTypes'
BY SameScenario DEF CropTypes, GridIsTyped

-----------------------------------------------------------------------------
(***************************************************************************)
(* StreamCropper: the actions that collect nothing.                        *)
(***************************************************************************)

(* A file that is skipped has no point in any footprint. *)
LEMMA SkipFileKeeps == CropInv /\ SkipFile => CropInv'
<1> SUFFICES ASSUME CropInv, SkipFile PROVE CropInv'
  OBVIOUS
<1> USE DEF SkipFile, collected
<1>1. CropTypes'
  <2>1. file' \in Nat \ {0} /\ next' \in Nat \ {0} /\ phase' = "open"
    BY DEF CropInv, CropTypes
  <2> QED
    BY <2>1, TypesStay DEF CropInv
<1>2. PassedPointsAreFound'
  <2>1. ASSUME NEW f \in 1 .. Len(files), NEW k \in 1 .. Len(files[f].points), files[f].readable,
               files[f].points[k].class = Building, HasPassed(f, k)', ~HasPassed(f, k)
        PROVE  IsFound(files[f].points[k], point_clouds')
    <3>1. f = file
      <4>1. Len(files) \in Nat /\ file \in Nat
        BY FileFacts DEF CropInv, CropTypes
      <4> QED
        BY <4>1, <2>1 DEF HasPassed
    <3>2. ~IsRead(f)
      BY <3>1
    <3>3. ASSUME NEW i \in Polygons PROVE ~Within(Footprints[i].inside, files[f].points[k])
      BY <2>1, <3>2, FileWithPointIsRead DEF CropInv, CropTypes
    <3> QED
      BY <3>3 DEF IsFound
  <2> QED
    BY <2>1, FoundStays DEF CropInv
<1>3. SamplesSupport'
  BY SupportStays DEF CropInv
<1>4. GridIsNotAboveGround'
  BY DEF GridIsNotAboveGround
<1> QED
  BY <1>1, <1>2, <1>3, <1>4 DEF CropInv

LEMMA OpenFileKeeps == CropInv /\ OpenFile => CropInv'
<1> SUFFICES ASSUME CropInv, OpenFile PROVE CropInv'
  OBVIOUS
<1> USE DEF OpenFile, collected
<1>1. CropTypes'
  <2>1. file' \in Nat \ {0} /\ next' \in Nat \ {0}
    BY DEF CropInv, CropTypes
  <2>2. file' \in 1 .. Len(files)
    BY FileFacts DEF CropInv, CropTypes
  <2> QED
    BY <2>1, <2>2, TypesStay DEF CropInv
<1>2. PassedPointsAreFound'
  <2>1. ASSUME NEW f \in 1 .. Len(files), NEW k \in 1 .. Len(files[f].points), HasPassed(f, k)'
        PROVE  HasPassed(f, k)
    <3>1. k \in Nat /\ ~(k < 1)
      BY FileFacts DEF CropInv, CropTypes
    <3> QED
      BY <2>1, <3>1 DEF HasPassed
  <2> QED
    BY <2>1, FoundStaysWithClouds DEF CropInv
<1>3. SamplesSupport'
  BY SupportStays DEF CropInv
<1>4. GridIsNotAboveGround'
  BY DEF GridIsNotAboveGround
<1> QED
  BY <1>1, <1>2, <1>3, <1>4 DEF CropInv

LEMMA CloseFileKeeps == CropInv /\ CloseFile => CropInv'
<1> SUFFICES ASSUME CropInv, CloseFile PROVE CropInv'
  OBVIOUS
<1> USE DEF CloseFile, collected
<1>1. CropTypes'
  <2>1. file' \in Nat \ {0} /\ next' \in Nat \ {0} /\ phase' = "open"
    BY DEF CropInv, CropTypes
  <2> QED
    BY <2>1, TypesStay DEF CropInv
<1>2. PassedPointsAreFound'
  <2>1. ASSUME NEW f \in 1 .. Len(files), NEW k \in 1 .. Len(files[f].points), HasPassed(f, k)'
        PROVE  HasPassed(f, k)
    <3>1. /\ Len(files) \in Nat /\ Len(files[f].points) \in Nat
          /\ file \in Nat /\ next \in Nat
      BY FileFacts DEF CropInv, CropTypes
    <3>2. f <= file
      BY <2>1, <3>1 DEF HasPassed
    <3>3. CASE f = file
      <4>1. k < next
        BY <3>1, <3>3
      <4> QED
        BY <3>3, <4>1 DEF HasPassed
    <3>4. CASE f < file
      BY <3>4 DEF HasPassed
    <3> QED
      BY <3>1, <3>2, <3>3, <3>4
  <2> QED
    BY <2>1, FoundStaysWithClouds DEF CropInv
<1>3. SamplesSupport'
  BY SupportStays DEF CropInv
<1>4. GridIsNotAboveGround'
  BY DEF GridIsNotAboveGround
<1> QED
  BY <1>1, <1>2, <1>3, <1>4 DEF CropInv

LEMMA CountPointsKeeps == CropInv /\ CountPoints => CropInv'
<1> SUFFICES ASSUME CropInv, CountPoints PROVE CropInv'
  OBVIOUS
<1> USE DEF CountPoints, collected
<1>1. CropTypes'
  <2>1. file' \in Nat \ {0} /\ next' \in Nat \ {0} /\ phase' = "merge"
    BY DEF CropInv, CropTypes
  <2> QED
    BY <2>1, TypesStay DEF CropInv
<1>2. PassedPointsAreFound'
  BY FoundStaysWithClouds DEF CropInv, HasPassed
<1>3. SamplesSupport'
  BY SupportStays DEF CropInv
<1>4. GridIsNotAboveGround'
  BY DEF GridIsNotAboveGround
<1> QED
  BY <1>1, <1>2, <1>3, <1>4 DEF CropInv

(* The elevation of a footprint is one that a sample of its window supports. *)
LEMMA SettleElevationsKeeps == CropInv /\ SettleElevations => CropInv'
<1> SUFFICES ASSUME CropInv, SettleElevations PROVE CropInv'
  OBVIOUS
<1> USE DEF SettleElevations, collected
<1>1. CropTypes'
  <2>1. file' \in Nat \ {0} /\ next' \in Nat \ {0} /\ phase' = "cropped"
    BY DEF CropInv, CropTypes
  <2> QED
    BY <2>1, TypesStay DEF CropInv
<1>2. PassedPointsAreFound'
  BY FoundStaysWithClouds DEF CropInv, HasPassed
<1>3. SamplesSupport'
  BY SupportStays DEF CropInv
<1>4. GridIsNotAboveGround'
  <2>1. scenario \in Scenarios /\ GridIsTyped /\ z_ground \in [Polygons -> Seq(Elevations)]
    BY DEF CropInv, CropTypes
  <2>2. ASSUME NEW i \in Polygons, PercentileOf(z_ground[i]) # Null
        PROVE  terrain_grid_min(i) # Null /\ terrain_grid_min(i) <= PercentileOf(z_ground[i])
    <3> DEFINE s == z_ground[i]
               z == PercentileOf(s)
    <3>1. s \in Seq(Elevations) /\ s # <<>>
      BY <2>1, <2>2 DEF PercentileOf
    <3>2. z \in Elevations /\ \E m \in 1 .. Len(s) : z = s[m]
      <4> HIDE DEF s
      <4> QED
        BY <3>1, PercentileIsAValue
    <3>3. PICK m \in 1 .. Len(s) : z = s[m]
      BY <3>2
    <3>4. PICK c \in Window(i) : terrain_grid[c] <= s[m]
      BY <3>3 DEF CropInv, SamplesSupport
    <3> HIDE DEF s, z
    <3>5. terrain_grid[c] \in Elevations \cup {NoData}
      BY <2>1 DEF GridIsTyped, Window
    <3>6. terrain_grid[c] # NoData /\ terrain_grid[c] \in Elevations
      BY <3>2, <3>3, <3>4, <3>5, ElevationsAreIntegers
    <3>7. terrain_grid_min(i) # Null /\ terrain_grid_min(i) \in Elevations
          /\ terrain_grid_min(i) <= terrain_grid[c]
      BY <2>1, <3>6, SearchFindsSample
    <3>8. terrain_grid_min(i) <= z
      BY <3>2, <3>3, <3>4, <3>6, <3>7, ElevationsAreIntegers
    <3> QED
      BY <3>7, <3>8 DEF s, z
  <2>3. Polygons' = Polygons
    BY SameScenario
  <2> QED
    BY <2>2, <2>3 DEF GridIsNotAboveGround
<1> QED
  BY <1>1, <1>2, <1>3, <1>4 DEF CropInv

-----------------------------------------------------------------------------
(***************************************************************************)
(* StreamCropper: the actions that collect.                                *)
(***************************************************************************)

(* The merge only lengthens the clouds, wherever its loop starts. *)
LEMMA MergeBufferGroundKeeps == CropInv /\ MergeBufferGround => CropInv'
<1> SUFFICES ASSUME CropInv, MergeBufferGround PROVE CropInv'
  OBVIOUS
<1>1. PICK first \in 1 .. Len(Footprints) + 1 :
        point_clouds' = [i \in Polygons |-> IF i < first THEN point_clouds[i]
                                            ELSE point_clouds[i] \o ground_buffer_points[i]]
  BY DEF MergeBufferGround
<1>2. /\ phase = "merge" /\ phase' = "overlap"
      /\ ground_buffer_points' = [i \in Polygons |-> <<>>]
      /\ UNCHANGED <<scenario, file, next, z_ground, points_overlap, terrain_grid>>
  BY DEF MergeBufferGround
<1>3. Polygons' = Polygons /\ files' = files /\ Cells' = Cells
  BY <1>2, SameScenario
<1>4. ASSUME NEW i \in Polygons
      PROVE  /\ point_clouds'[i] \in Seq(Points)
             /\ \A k \in DOMAIN point_clouds[i] : /\ k \in DOMAIN point_clouds'[i]
                                                  /\ point_clouds'[i][k] = point_clouds[i][k]
  <2> DEFINE s == point_clouds[i]
             t == ground_buffer_points[i]
  <2>1. s \in Seq(Points) /\ t \in Seq(Points)
    BY DEF CropInv, CropTypes
  <2>2. point_clouds'[i] = s \/ point_clouds'[i] = s \o t
    BY <1>1
  <2> HIDE DEF s, t
  <2>3. /\ s \o t \in Seq(Points) /\ DOMAIN s = 1 .. Len(s) /\ DOMAIN (s \o t) = 1 .. Len(s \o t)
        /\ Len(s \o t) = Len(s) + Len(t) /\ Len(s) \in Nat /\ Len(t) \in Nat
        /\ \A k \in 1 .. Len(s) : (s \o t)[k] = s[k]
    BY <2>1, ConcatProperties, LenProperties
  <2>4. \A k \in DOMAIN s : k \in DOMAIN (s \o t) /\ (s \o t)[k] = s[k]
    BY <2>3
  <2>5. /\ point_clouds'[i] \in Seq(Points)
        /\ \A k \in DOMAIN s : k \in DOMAIN point_clouds'[i] /\ point_clouds'[i][k] = s[k]
    BY <2>1, <2>2, <2>3, <2>4
  <2> QED
    BY <2>5 DEF s
<1>5. CropTypes'
  <2>1. point_clouds' \in [Polygons -> Seq(Points)]
    BY <1>1, <1>4
  <2>2. ground_buffer_points' \in [Polygons -> Seq(Points)]
    BY <1>2, EmptySeq
  <2> QED
    BY <1>2, <1>3, <2>1, <2>2 DEF CropInv, CropTypes, GridIsTyped
<1>6. PassedPointsAreFound'
  <2>1. \A i \in Polygons : \A k \in DOMAIN point_clouds[i] :
          \E m \in DOMAIN point_clouds'[i] : point_clouds'[i][m] = point_clouds[i][k]
    BY <1>4
  <2>2. \A f, k : HasPassed(f, k)' => HasPassed(f, k)
    BY <1>2 DEF HasPassed
  <2> QED
    BY <1>2, <2>1, <2>2, FoundStays DEF CropInv
<1>7. SamplesSupport'
  BY <1>2, SupportStays DEF CropInv
<1>8. GridIsNotAboveGround'
  BY <1>2 DEF GridIsNotAboveGround
<1> QED
  BY <1>5, <1>6, <1>7, <1>8 DEF CropInv

LEMMA AssignSharedPointKeeps == CropInv /\ AssignSharedPoint => CropInv'
<1> SUFFICES ASSUME CropInv, AssignSharedPoint PROVE CropInv'
  OBVIOUS
<1>1. PICK o \in points_overlap : \E i \in o.of :
        /\ points_overlap' = points_overlap \ {o}
        /\ point_clouds' = [point_clouds EXCEPT ![i] = Append(@, o.point)]
  BY DEF AssignSharedPoint
<1>2. PICK i \in o.of : /\ points_overlap' = points_overlap \ {o}
                        /\ point_clouds' = [point_clouds EXCEPT ![i] = Append(@, o.point)]
  BY <1>1
<1>3. /\ phase = "overlap" /\ phase' = "overlap"
      /\ UNCHANGED <<scenario, file, next, z_ground, ground_buffer_points, terrain_grid>>
  BY DEF AssignSharedPoint
<1>4. Polygons' = Polygons /\ files' = files /\ Cells' = Cells
  BY <1>3, SameScenario
<1>5. o.point \in Points /\ i \in Polygons /\ point_clouds \in [Polygons -> Seq(Points)]
  BY DEF CropInv, CropTypes
<1>6. point_clouds' = AppendWhere(point_clouds, {i}, o.point)
  <2> DEFINE e == o.point
  <2>1. point_clouds' = [point_clouds EXCEPT ![i] = Append(@, e)] /\ DOMAIN point_clouds = Polygons
    BY <1>2, <1>5
  <2> HIDE DEF e
  <2>2. point_clouds' = [j \in Polygons |-> IF j \in {i} THEN Append(point_clouds[j], e) ELSE point_clouds[j]]
    BY <2>1
  <2> QED
    BY <2>1, <2>2 DEF AppendWhere, e
<1>7. /\ point_clouds' \in [Polygons -> Seq(Points)]
      /\ \A j \in Polygons : \A k \in 1 .. Len(point_clouds[j]) :
           k \in 1 .. Len(point_clouds'[j]) /\ point_clouds'[j][k] = point_clouds[j][k]
  <2> DEFINE e == o.point
             D == Polygons
             T == Points
             g == point_clouds
  <2>1. g \in [D -> Seq(T)] /\ e \in T
    BY <1>5
  <2> HIDE DEF e, D, T, g
  <2>2. /\ AppendWhere(g, {i}, e) \in [D -> Seq(T)]
        /\ \A j \in D : \A k \in 1 .. Len(g[j]) :
             k \in 1 .. Len(AppendWhere(g, {i}, e)[j]) /\ AppendWhere(g, {i}, e)[j][k] = g[j][k]
    BY <2>1, AppendWhereFacts
  <2> QED
    BY <1>6, <2>2 DEF e, D, T, g
<1>8. CropTypes'
  BY <1>2, <1>3, <1>4, <1>7 DEF CropInv, CropTypes, GridIsTyped
<1>9. PassedPointsAreFound'
  <2>1. \A j \in Polygons : DOMAIN point_clouds[j] = 1 .. Len(point_clouds[j])
                            /\ DOMAIN point_clouds'[j] = 1 .. Len(point_clouds'[j])
    BY <1>5, <1>7, LenProperties
  <2>2. \A j \in Polygons : \A k \in DOMAIN point_clouds[j] :
          \E m \in DOMAIN point_clouds'[j] : point_clouds'[j][m] = point_clouds[j][k]
    BY <1>7, <2>1
  <2>3. \A f, k : HasPassed(f, k)' => HasPassed(f, k)
    BY <1>3 DEF HasPassed
  <2> QED
    BY <1>3, <2>2, <2>3, FoundStays DEF CropInv
<1>10. SamplesSupport'
  BY <1>3, SupportStays DEF CropInv
<1>11. GridIsNotAboveGround'
  BY <1>3 DEF GridIsNotAboveGround
<1> QED
  BY <1>8, <1>9, <1>10, <1>11 DEF CropInv

(* A point that waits lies in another footprint too. *)
LEMMA WaitingPointIsShared ==
  ASSUME scenario \in Scenarios, NEW p \in Points, Waits(p), NEW i \in Polygons,
         Within(Footprints[i].inside, p)
  PROVE  \E j \in Polygons \ {i} : Within(Footprints[j].inside, p)
<1>1. i \in InsideOf(p)
  BY PointIsGiven
<1>2. InsideOf(p) # {i}
  <2>1. Cardinality({i}) = 1
    BY FS_Singleton
  <2> QED
    BY <2>1 DEF Waits
<1>3. PICK j \in InsideOf(p) : j # i
  BY <1>1, <1>2
<1>4. j \in Polygons
  BY <1>3 DEF InsideOf, GivenTo, Candidates
<1> QED
  BY <1>3, <1>4, PointIsGiven

(* What add_point does to the clouds, the elevations and the grid. *)
LEMMA AddPointFacts ==
  ASSUME CropTypes, NEW p \in Points, NEW year, add_point(p, year)
  PROVE  /\ point_clouds' \in [Polygons -> Seq(Points)]
         /\ \A i \in Polygons : \A k \in 1 .. Len(point_clouds[i]) :
              k \in 1 .. Len(point_clouds'[i]) /\ point_clouds'[i][k] = point_clouds[i][k]
         /\ p.class = Building /\ ~Waits(p) =>
              \A i \in Polygons \cap InsideOf(p) : \E k \in 1 .. Len(point_clouds'[i]) : point_clouds'[i][k] = p
         /\ ground_buffer_points' \in [Polygons -> Seq(Points)]
         /\ points_overlap' \subseteq [point : Points, of : SUBSET Polygons]
         /\ z_ground' \in [Polygons -> Seq(Elevations)]
         /\ \A i \in Polygons : \A n \in 1 .. Len(z_ground'[i]) :
              \/ p.class = Ground /\ i \in GivenTo(p) /\ z_ground'[i][n] = p.z
              \/ n \in 1 .. Len(z_ground[i]) /\ z_ground'[i][n] = z_ground[i][n]
<1> DEFINE D == Polygons
           I == InsideOf(p)
           G == GivenTo(p)
<1>1. /\ point_clouds \in [D -> Seq(Points)] /\ ground_buffer_points \in [D -> Seq(Points)]
      /\ z_ground \in [D -> Seq(Elevations)]
      /\ points_overlap \subseteq [point : Points, of : SUBSET D]
      /\ p.z \in Elevations /\ I \subseteq D
  BY DEF CropTypes, Points, InsideOf, GivenTo, Candidates
<1>2. /\ point_clouds' = IF p.class \in {Ground, Building} /\ ~Waits(p)
                         THEN AppendWhere(point_clouds, I, p) ELSE point_clouds
      /\ ground_buffer_points' = IF p.class = Ground THEN AppendWhere(ground_buffer_points, G \ I, p)
                                 ELSE ground_buffer_points
      /\ z_ground' = IF p.class = Ground THEN AppendWhere(z_ground, G, p.z) ELSE z_ground
      /\ points_overlap' = IF Waits(p) THEN points_overlap \cup {[point |-> p, of |-> I]} ELSE points_overlap
  BY DEF add_point
<1> HIDE DEF D, I, G
<1>3. /\ AppendWhere(point_clouds, I, p) \in [D -> Seq(Points)]
      /\ \A i \in D : \A k \in 1 .. Len(point_clouds[i]) :
           /\ k \in 1 .. Len(AppendWhere(point_clouds, I, p)[i])
           /\ AppendWhere(point_clouds, I, p)[i][k] = point_clouds[i][k]
      /\ \A i \in D : i \in I =>
           /\ Len(AppendWhere(point_clouds, I, p)[i]) \in 1 .. Len(AppendWhere(point_clouds, I, p)[i])
           /\ AppendWhere(point_clouds, I, p)[i][Len(AppendWhere(point_clouds, I, p)[i])] = p
  <2> DEFINE T == Points
             f == point_clouds
  <2>1. f \in [D -> Seq(T)] /\ p \in T
    BY <1>1
  <2> HIDE DEF T, f
  <2>2. /\ AppendWhere(f, I, p) \in [D -> Seq(T)]
        /\ \A i \in D : \A k \in 1 .. Len(f[i]) :
             k \in 1 .. Len(AppendWhere(f, I, p)[i]) /\ AppendWhere(f, I, p)[i][k] = f[i][k]
        /\ \A i \in D : i \in I =>
             /\ Len(AppendWhere(f, I, p)[i]) \in 1 .. Len(AppendWhere(f, I, p)[i])
             /\ AppendWhere(f, I, p)[i][Len(AppendWhere(f, I, p)[i])] = p
    BY <2>1, AppendWhereFacts
  <2> QED
    BY <2>2 DEF T, f
<1>4. AppendWhere(ground_buffer_points, G \ I, p) \in [D -> Seq(Points)]
  <2> DEFINE T == Points
             f == ground_buffer_points
             S == G \ I
  <2>1. f \in [D -> Seq(T)] /\ p \in T
    BY <1>1
  <2> HIDE DEF T, f, S
  <2>2. AppendWhere(f, S, p) \in [D -> Seq(T)]
    BY <2>1, AppendWhereFacts
  <2> QED
    BY <2>2 DEF T, f, S
<1>5. /\ AppendWhere(z_ground, G, p.z) \in [D -> Seq(Elevations)]
      /\ \A i \in D : \A n \in 1 .. Len(AppendWhere(z_ground, G, p.z)[i]) :
           \/ i \in G /\ AppendWhere(z_ground, G, p.z)[i][n] = p.z
           \/ n \in 1 .. Len(z_ground[i]) /\ AppendWhere(z_ground, G, p.z)[i][n] = z_ground[i][n]
  <2> DEFINE T == Elevations
             f == z_ground
             z == p.z
  <2>1. f \in [D -> Seq(T)] /\ z \in T
    BY <1>1
  <2> HIDE DEF T, f, z
  <2>2. /\ AppendWhere(f, G, z) \in [D -> Seq(T)]
        /\ \A i \in D : \A n \in 1 .. Len(AppendWhere(f, G, z)[i]) :
             \/ i \in G /\ AppendWhere(f, G, z)[i][n] = z
             \/ n \in 1 .. Len(f[i]) /\ AppendWhere(f, G, z)[i][n] = f[i][n]
    BY <2>1, AppendWhereFacts
  <2> QED
    BY <2>2 DEF T, f, z
<1>6. /\ point_clouds' \in [D -> Seq(Points)] /\ ground_buffer_points' \in [D -> Seq(Points)]
      /\ z_ground' \in [D -> Seq(Elevations)] /\ points_overlap' \subseteq [point : Points, of : SUBSET D]
  <2>1. point_clouds' \in [D -> Seq(Points)]
    BY <1>1, <1>2, <1>3
  <2>2. ground_buffer_points' \in [D -> Seq(Points)]
    BY <1>1, <1>2, <1>4
  <2>3. z_ground' \in [D -> Seq(Elevations)]
    BY <1>1, <1>2, <1>5
  <2>4. [point |-> p, of |-> I] \in [point : Points, of : SUBSET D]
    BY <1>1
  <2>5. points_overlap' \subseteq [point : Points, of : SUBSET D]
    BY <1>1, <1>2, <2>4
  <2> QED
    BY <2>1, <2>2, <2>3, <2>5
<1>7. \A i \in D : \A k \in 1 .. Len(point_clouds[i]) :
        k \in 1 .. Len(point_clouds'[i]) /\ point_clouds'[i][k] = point_clouds[i][k]
  BY <1>2, <1>3
<1>8. p.class = Building /\ ~Waits(p) =>
        \A i \in D \cap I : \E k \in 1 .. Len(point_clouds'[i]) : point_clouds'[i][k] = p
  BY <1>2, <1>3
<1>9. \A i \in D : \A n \in 1 .. Len(z_ground'[i]) :
        \/ p.class = Ground /\ i \in G /\ z_ground'[i][n] = p.z
        \/ n \in 1 .. Len(z_ground[i]) /\ z_ground'[i][n] = z_ground[i][n]
  BY <1>2, <1>5
<1> QED
  BY <1>6, <1>7, <1>8, <1>9 DEF D, I, G

(* The grid only falls, and a ground point leaves a sample that is not     *)
(* above it.                                                               *)
LEMMA LowestOfCellFacts ==
  ASSUME GridIsTyped, NEW p \in Points
  PROVE  LET g == LowestOfCell(terrain_grid, p) IN
         /\ g \in [Cells -> Elevations \cup {NoData}]
         /\ \A c \in Cells : g[c] <= terrain_grid[c]
         /\ TerrainCell(p) \in Cells => g[TerrainCell(p)] <= p.z
<1> DEFINE t == TerrainCell(p)
           g == LowestOfCell(terrain_grid, p)
<1>1. terrain_grid \in [Cells -> Elevations \cup {NoData}] /\ p.z \in Elevations
  BY DEF GridIsTyped, Points
<1>2. g = [c \in Cells |-> IF c = t THEN Smaller(p.z, terrain_grid[c]) ELSE terrain_grid[c]]
  <2> HIDE DEF t
  <2>1. g = [terrain_grid EXCEPT ![t] = Smaller(p.z, @)]
    BY DEF LowestOfCell, t
  <2> HIDE DEF g
  <2> QED
    BY <1>1, <2>1
<1>3. NoData \in Int /\ \A z \in Elevations \cup {NoData} : z \in Int
  BY ElevationsAreIntegers
<1>4. \A z \in Elevations \cup {NoData} : /\ Smaller(p.z, z) \in Elevations \cup {NoData}
                                         /\ Smaller(p.z, z) <= z /\ Smaller(p.z, z) <= p.z
  BY <1>1, <1>3 DEF Smaller
<1> HIDE DEF t, g
<1>5. g \in [Cells -> Elevations \cup {NoData}]
  BY <1>1, <1>2, <1>4
<1>6. \A c \in Cells : g[c] <= terrain_grid[c]
  BY <1>1, <1>2, <1>3, <1>4
<1>7. t \in Cells => g[t] <= p.z
  BY <1>1, <1>2, <1>4
<1> QED
  BY <1>5, <1>6, <1>7 DEF t, g

LEMMA ReadPointKeeps == CropInv /\ ReadPoint => CropInv'
<1> SUFFICES ASSUME CropInv, ReadPoint PROVE CropInv'
  OBVIOUS
<1> DEFINE p == files[file].points[next]
<1>1. /\ phase = "read" /\ next <= Len(files[file].points) /\ next' = next + 1
      /\ UNCHANGED <<scenario, phase, file>>
      /\ IF Within(polygon_extent, p) THEN add_point(p, YearOf(files[file], p)) ELSE UNCHANGED collected
  BY DEF ReadPoint
<1>2. scenario \in Scenarios /\ CropTypes /\ file \in 1 .. Len(files) /\ next \in Nat \ {0}
  BY <1>1 DEF CropInv, CropTypes
<1>3. Len(files[file].points) \in Nat /\ next \in 1 .. Len(files[file].points) /\ p \in Points
  BY <1>1, <1>2, FileFacts
<1>4. /\ Polygons' = Polygons /\ files' = files /\ Cells' = Cells /\ Footprints' = Footprints
      /\ \A i : Window(i)' = Window(i)
  BY <1>1, SameScenario
<1>5. \A f, k : HasPassed(f, k)' /\ ~HasPassed(f, k) /\ k \in Nat => f = file /\ k = next
  BY <1>1, <1>2 DEF HasPassed
<1>6. GridIsNotAboveGround'
  BY <1>1 DEF GridIsNotAboveGround
<1>7. CASE ~Within(polygon_extent, p)
  <2>1. UNCHANGED collected
    BY <1>1, <1>7
  <2>2. CropTypes'
    <3>1. file' \in Nat \ {0} /\ next' \in Nat \ {0} /\ file' \in 1 .. Len(files)
      BY <1>1, <1>2 DEF CropTypes
    <3> QED
      BY <1>1, <1>2, <2>1, <3>1, TypesStay DEF collected
  <2>3. PassedPointsAreFound'
    <3>1. \A i \in Polygons : ~Within(Footprints[i].inside, p)
      BY <1>2, <1>3, <1>7, PointIsGiven
    <3>2. IsFound(p, point_clouds')
      BY <3>1 DEF IsFound
    <3>3. ASSUME NEW f \in 1 .. Len(files), NEW k \in 1 .. Len(files[f].points),
                 HasPassed(f, k)', ~HasPassed(f, k)
          PROVE  IsFound(files[f].points[k], point_clouds')
      BY <1>2, <1>5, <3>2, <3>3, FileFacts
    <3> QED
      BY <1>1, <2>1, <3>3, FoundStays DEF CropInv, collected
  <2>4. SamplesSupport'
    BY <1>1, <2>1, SupportStays DEF CropInv, collected
  <2> QED
    BY <1>6, <2>2, <2>3, <2>4 DEF CropInv
<1>8. CASE Within(polygon_extent, p)
  <2> DEFINE year == YearOf(files[file], p)
  <2>1. add_point(p, year)
    BY <1>1, <1>8
  <2> HIDE DEF p, year
  <2>2. /\ point_clouds' \in [Polygons -> Seq(Points)]
        /\ \A i \in Polygons : \A k \in 1 .. Len(point_clouds[i]) :
             k \in 1 .. Len(point_clouds'[i]) /\ point_clouds'[i][k] = point_clouds[i][k]
        /\ p.class = Building /\ ~Waits(p) =>
             \A i \in Polygons \cap InsideOf(p) : \E k \in 1 .. Len(point_clouds'[i]) : point_clouds'[i][k] = p
        /\ ground_buffer_points' \in [Polygons -> Seq(Points)]
        /\ points_overlap' \subseteq [point : Points, of : SUBSET Polygons]
        /\ z_ground' \in [Polygons -> Seq(Elevations)]
        /\ \A i \in Polygons : \A n \in 1 .. Len(z_ground'[i]) :
             \/ p.class = Ground /\ i \in GivenTo(p) /\ z_ground'[i][n] = p.z
             \/ n \in 1 .. Len(z_ground[i]) /\ z_ground'[i][n] = z_ground[i][n]
    BY <1>2, <1>3, <2>1, AddPointFacts
  <2>3. /\ terrain_grid' \in [Cells -> Elevations \cup {NoData}]
        /\ \A c \in Cells : terrain_grid'[c] <= terrain_grid[c]
        /\ p.class = Ground /\ TerrainCell(p) \in Cells => terrain_grid'[TerrainCell(p)] <= p.z
    <3>1. terrain_grid' = IF p.class = Ground THEN LowestOfCell(terrain_grid, p) ELSE terrain_grid
      BY <2>1 DEF add_point
    <3>2. GridIsTyped
      BY <1>2 DEF CropTypes
    <3>3. \A c \in Cells : terrain_grid[c] <= terrain_grid[c]
      BY <3>2, ElevationsAreIntegers DEF GridIsTyped
    <3>4. CASE p.class = Ground
      BY <1>3, <3>1, <3>2, <3>4, LowestOfCellFacts
    <3>5. CASE p.class # Ground
      BY <3>1, <3>2, <3>3, <3>5 DEF GridIsTyped
    <3> QED
      BY <3>4, <3>5
  <2>4. CropTypes'
    <3>1. /\ scenario' \in Scenarios /\ file' \in Nat \ {0} /\ next' \in Nat \ {0}
          /\ file' \in 1 .. Len(files)'
      BY <1>1, <1>2, <1>4 DEF CropTypes
    <3>2. GridIsTyped'
      BY <1>4, <2>3 DEF GridIsTyped
    <3>3. z_ground' \in [Polygons' -> Seq(Elevations)] /\ point_clouds' \in [Polygons' -> Seq(Points)]
          /\ ground_buffer_points' \in [Polygons' -> Seq(Points)]
          /\ points_overlap' \subseteq [point : Points, of : SUBSET Polygons']
      BY <1>4, <2>2
    <3> QED
      BY <3>1, <3>2, <3>3 DEF CropTypes
  <2>5. PassedPointsAreFound'
    <3>1. \A i \in Polygons : DOMAIN point_clouds[i] = 1 .. Len(point_clouds[i])
                              /\ DOMAIN point_clouds'[i] = 1 .. Len(point_clouds'[i])
      BY <1>2, <2>2, LenProperties DEF CropTypes
    <3>2. \A i \in Polygons : \A k \in DOMAIN point_clouds[i] :
            \E m \in DOMAIN point_clouds'[i] : point_clouds'[i][m] = point_clouds[i][k]
      BY <2>2, <3>1
    <3>3. ASSUME p.class = Building PROVE IsFound(p, point_clouds')
      <4> SUFFICES ASSUME NEW i \in Polygons, Within(Footprints[i].inside, p)
                   PROVE  \/ \E k \in DOMAIN point_clouds'[i] : point_clouds'[i][k] = p
                          \/ /\ scenario.handle_overlap_points
                             /\ \E j \in Polygons \ {i} : Within(Footprints[j].inside, p)
        BY DEF IsFound
      <4>1. i \in InsideOf(p)
        BY <1>2, <1>3, PointIsGiven
      <4>2. CASE Waits(p)
        <5>1. scenario.handle_overlap_points
          BY <4>2 DEF Waits
        <5> QED
          BY <1>2, <1>3, <4>2, <5>1, WaitingPointIsShared
      <4>3. CASE ~Waits(p)
        BY <2>2, <3>1, <3>3, <4>1, <4>3
      <4> QED
        BY <4>2, <4>3
    <3>4. ASSUME NEW f \in 1 .. Len(files), NEW k \in 1 .. Len(files[f].points),
                 files[f].points[k].class = Building, HasPassed(f, k)', ~HasPassed(f, k)
          PROVE  IsFound(files[f].points[k], point_clouds')
      <4>1. f = file /\ k = next
        BY <1>2, <1>5, <3>4, FileFacts
      <4>2. files[f].points[k] = p
        BY <4>1 DEF p
      <4> QED
        BY <3>3, <3>4, <4>2
    <3> QED
      BY <1>1, <3>2, <3>4, FoundStays DEF CropInv
  <2>6. SamplesSupport'
    <3>1. ASSUME NEW i \in Polygons, NEW n \in 1 .. Len(z_ground'[i])
          PROVE  \E c \in Window(i) : terrain_grid'[c] <= z_ground'[i][n]
      <4>1. CASE p.class = Ground /\ i \in GivenTo(p) /\ z_ground'[i][n] = p.z
        <5>1. p.x \in Int /\ p.y \in Int /\ Within(Footprints[i].buffered, p)
          BY <1>2, <1>3, <4>1, PointIsGiven DEF Points
        <5>2. TerrainCell(p) \in Window(i)
          BY <1>2, <5>1, WindowFinds
        <5>3. TerrainCell(p) \in Cells
          BY <5>2 DEF Window
        <5> QED
          BY <2>3, <4>1, <5>2, <5>3
      <4>2. CASE n \in 1 .. Len(z_ground[i]) /\ z_ground'[i][n] = z_ground[i][n]
        <5>1. PICK c \in Window(i) : terrain_grid[c] <= z_ground[i][n]
          BY <4>2 DEF CropInv, SamplesSupport
        <5>2. c \in Cells
          BY <5>1 DEF Window
        <5>3. /\ terrain_grid[c] \in Elevations \cup {NoData}
              /\ terrain_grid'[c] \in Elevations \cup {NoData}
              /\ z_ground[i][n] \in Elevations /\ terrain_grid'[c] <= terrain_grid[c]
          <6>1. z_ground[i] \in Seq(Elevations)
            BY <1>2 DEF CropTypes
          <6>2. z_ground[i][n] \in Elevations
            BY <4>2, <6>1, ElementOfSeq
          <6> QED
            BY <1>2, <2>3, <5>2, <6>2 DEF CropTypes, GridIsTyped
        <5>4. terrain_grid[c] \in Int /\ terrain_grid'[c] \in Int /\ z_ground[i][n] \in Int
          BY <5>3, ElevationsAreIntegers
        <5>5. terrain_grid'[c] <= z_ground[i][n]
          BY <5>1, <5>3, <5>4
        <5> QED
          BY <4>2, <5>5
      <4> QED
        BY <2>2, <4>1, <4>2
    <3> QED
      BY <1>4, <3>1 DEF SamplesSupport
  <2> QED
    BY <1>6, <2>4, <2>5, <2>6 DEF CropInv
<1> QED
  BY <1>7, <1>8

-----------------------------------------------------------------------------
(***************************************************************************)
(* TerrainMesh: it only reads what the cropper leaves.                     *)
(***************************************************************************)

LEMMA MeshKeeps ==
  ASSUME CropInv, UNCHANGED <<scenario, file, next, collected, results>>,
         phase \in {"cropped", "meshed", "fans", "done"},
         phase' \in {"meshed", "fans", "done"}
  PROVE  CropInv'
<1> USE DEF collected
<1>1. CropTypes'
  <2>1. file' \in Nat \ {0} /\ next' \in Nat \ {0} /\ phase' # "read"
    BY DEF CropInv, CropTypes
  <2> QED
    BY <2>1, TypesStay DEF CropInv
<1>2. PassedPointsAreFound'
  <2>1. \A f, k : HasPassed(f, k)' => HasPassed(f, k)
    BY DEF HasPassed
  <2> QED
    BY <2>1, FoundStaysWithClouds DEF CropInv
<1>3. SamplesSupport'
  BY SupportStays DEF CropInv
<1>4. GridIsNotAboveGround'
  BY DEF GridIsNotAboveGround
<1> QED
  BY <1>1, <1>2, <1>3, <1>4 DEF CropInv

LEMMA CropStepKeeps == CropInv /\ CropStep => CropInv'
BY SkipFileKeeps, OpenFileKeeps, ReadPointKeeps, CloseFileKeeps, CountPointsKeeps,
   MergeBufferGroundKeeps, AssignSharedPointKeeps, SettleElevationsKeeps DEF CropStep

LEMMA StutteringKeeps ==
  ASSUME CropInv, UNCHANGED <<scenario, phase, file, next, collected, results>>
  PROVE  CropInv'
<1> USE DEF collected, results
<1>1. CropTypes'
  BY SameScenario DEF CropInv, CropTypes, GridIsTyped
<1>2. PassedPointsAreFound'
  BY FoundStaysWithClouds DEF CropInv, HasPassed
<1>3. SamplesSupport'
  BY SupportStays DEF CropInv
<1>4. GridIsNotAboveGround'
  BY SameScenario DEF CropInv, GridIsNotAboveGround
<1> QED
  BY <1>1, <1>2, <1>3, <1>4 DEF CropInv

LEMMA CropInvHolds == Spec => []CropInv
<1>1. ASSUME CropInv, [Next]_vars PROVE CropInv'
  <2>1. CASE Crop
    BY <1>1, <2>1, CropStepKeeps DEF Crop
  <2>2. CASE NoTerrain
    BY <1>1, <2>2, MeshKeeps DEF NoTerrain
  <2>3. CASE Triangulate
    BY <1>1, <2>3, MeshKeeps DEF Triangulate
  <2>4. CASE FindFans
    BY <1>1, <2>4, MeshKeeps DEF FindFans
  <2>5. CASE Split
    BY <1>1, <2>5, MeshKeeps DEF Split
  <2>6. CASE UNCHANGED vars
    BY <1>1, <2>6, StutteringKeeps DEF vars, cropperVars
  <2> QED
    BY <1>1, <2>1, <2>2, <2>3, <2>4, <2>5, <2>6 DEF Next, Done
<1> QED
  BY <1>1, CropInvHoldsInitially, PTL DEF Spec

(* The index misses no building point, whatever the sizes of the cells and *)
(* of the footprints, in whatever order files and points come: not in the  *)
(* cells of a footprint, and not by skipping a file.                       *)
THEOREM EveryPointIsFound == Spec => []NoPointIsMissed
<1>1. CropInv => NoPointIsMissed
  BY FoundIsNotMissed DEF CropInv, CropTypes
<1> QED
  BY <1>1, CropInvHolds, PTL

(* A footprint with a ground elevation has one of the terrain grid, and it *)
(* is not above the first, for any percentile and any radius.              *)
THEOREM GridSupportsGround == Spec => []GridIsNotAboveGround
<1>1. CropInv => GridIsNotAboveGround
  BY DEF CropInv
<1> QED
  BY <1>1, CropInvHolds, PTL

-----------------------------------------------------------------------------
(***************************************************************************)
(* TerrainMesh: folds over finite sets, whose elements are taken one by    *)
(* one in some order.                                                      *)
(***************************************************************************)
Picks(pick, S) == \A T \in SUBSET S : T # {} => pick[T] \in T
Rest(pick, T) == T \ {pick[T]}
IsFold(pick, base, u, S, g) ==
  g = [T \in SUBSET S |-> IF T = {} THEN base ELSE u[<<pick[T], g[Rest(pick, T)]>>]]

(* What every step keeps holds at the end. *)
LEMMA KeptAlong ==
  ASSUME NEW S, IsFiniteSet(S), NEW pick, Picks(pick, S), NEW g, NEW K, g[{}] \in K[{}],
         \A T \in SUBSET S : T # {} /\ g[Rest(pick, T)] \in K[Rest(pick, T)] => g[T] \in K[T]
  PROVE  g[S] \in K[S]
<1> DEFINE C == {T \in SUBSET S : g[T] \notin K[T]}
<1>1. CASE C = {}
  <2>1. S \notin C /\ S \in SUBSET S
    BY <1>1
  <2> QED
    BY <2>1
<1>2. CASE C # {}
  <2>1. PICK A \in C : \A B \in C : B \subseteq A => B = A
    <3>1. C \subseteq SUBSET S
      OBVIOUS
    <3> HIDE DEF C
    <3> QED
      BY <1>2, <3>1, MinimalSubset
  <2>2. A \in SUBSET S /\ A # {} /\ g[A] \notin K[A]
    BY <2>1
  <2>3. pick[A] \in A
    BY <2>2 DEF Picks
  <2>4. Rest(pick, A) \in SUBSET S /\ Rest(pick, A) \subseteq A /\ Rest(pick, A) # A
    BY <2>2, <2>3 DEF Rest
  <2>5. g[Rest(pick, A)] \in K[Rest(pick, A)]
    BY <2>1, <2>4
  <2> QED
    BY <2>2, <2>5
<1> QED
  BY <1>1, <1>2

LEMMA FoldsAgree ==
  ASSUME NEW S, IsFiniteSet(S), NEW pick, Picks(pick, S), NEW base, NEW u,
         NEW R, R \subseteq S, NEW g, IsFold(pick, base, u, S, g), NEW h, IsFold(pick, base, u, R, h)
  PROVE  g[R] = h[R]
<1> DEFINE K == [T \in SUBSET R |-> {h[T]}]
<1>1. /\ \A T \in SUBSET S : g[T] = IF T = {} THEN base ELSE u[<<pick[T], g[Rest(pick, T)]>>]
      /\ \A T \in SUBSET R : h[T] = IF T = {} THEN base ELSE u[<<pick[T], h[Rest(pick, T)]>>]
  BY Zenon DEF IsFold
<1>2. Picks(pick, R) /\ IsFiniteSet(R)
  BY FS_Subset DEF Picks
<1>3. g[{}] \in K[{}]
  BY <1>1
<1>4. ASSUME NEW T \in SUBSET R, T # {}, g[Rest(pick, T)] \in K[Rest(pick, T)]
      PROVE  g[T] \in K[T]
  <2>1. Rest(pick, T) \in SUBSET R
    BY DEF Rest
  <2>2. g[Rest(pick, T)] = h[Rest(pick, T)]
    BY <1>4, <2>1
  <2>3. g[T] = u[<<pick[T], g[Rest(pick, T)]>>] /\ h[T] = u[<<pick[T], h[Rest(pick, T)]>>]
    BY <1>1, <1>4
  <2> QED
    BY <2>2, <2>3
<1>5. g[R] \in K[R]
  <2> HIDE DEF K
  <2> QED
    BY <1>2, <1>3, <1>4, KeptAlong
<1> QED
  BY <1>5

LEMMA FoldExists ==
  ASSUME NEW S, IsFiniteSet(S), NEW pick, Picks(pick, S), NEW base, NEW u
  PROVE  \E g : IsFold(pick, base, u, S, g)
<1> DEFINE C == {A \in SUBSET S : ~ \E g : IsFold(pick, base, u, A, g)}
<1>1. CASE C = {}
  <2>1. S \notin C /\ S \in SUBSET S
    BY <1>1
  <2> QED
    BY <2>1
<1>2. CASE C # {}
  <2>1. PICK A \in C : \A B \in C : B \subseteq A => B = A
    <3>1. C \subseteq SUBSET S
      OBVIOUS
    <3> HIDE DEF C
    <3> QED
      BY <1>2, <3>1, MinimalSubset
  <2> DEFINE G(B) == CHOOSE g : IsFold(pick, base, u, B, g)
             Value(B) == IF B = {} THEN base ELSE u[<<pick[B], G(Rest(pick, B))[Rest(pick, B)]>>]
             g == [B \in SUBSET A |-> Value(B)]
  <2>2. ASSUME NEW B \in SUBSET A, B # A PROVE IsFold(pick, base, u, B, G(B))
    <3>1. \E h : IsFold(pick, base, u, B, h)
      BY <2>1, <2>2
    <3> QED
      BY <3>1
  <2>3. A \subseteq S
    BY <2>1
  <2>4. \A B \in SUBSET A : B # {} => pick[B] \in B
    BY <2>3 DEF Picks
  <2>5. ASSUME NEW B \in SUBSET A, B # A PROVE G(B)[B] = Value(B)
    <3> DEFINE h == G(B)
    <3>1. IsFold(pick, base, u, B, h)
      BY <2>2, <2>5
    <3>2. h[B] = IF B = {} THEN base ELSE u[<<pick[B], h[Rest(pick, B)]>>]
      <4> HIDE DEF h
      <4>1. B \in SUBSET B
        OBVIOUS
      <4> QED
        BY <3>1, <4>1, Zenon DEF IsFold
    <3>3. CASE B # {}
      <4> DEFINE D == Rest(pick, B)
      <4>1. pick[B] \in B
        BY <3>3, <2>4
      <4>2. D \in SUBSET A /\ D # A /\ D \subseteq B
        BY <4>1 DEF Rest
      <4>3. IsFold(pick, base, u, D, G(D))
        BY <2>2, <4>2
      <4>4. IsFiniteSet(B) /\ Picks(pick, B)
        BY <2>3, <2>4, FS_Subset DEF Picks
      <4> HIDE DEF h, D, G
      <4>5. h[D] = G(D)[D]
        BY <3>1, <4>2, <4>3, <4>4, FoldsAgree
      <4> QED
        BY <3>2, <3>3, <4>5 DEF D, h
    <3>4. CASE B = {}
      BY <3>2, <3>4
    <3> QED
      BY <3>3, <3>4
  <2>6. ASSUME NEW B \in SUBSET A
        PROVE  g[B] = IF B = {} THEN base ELSE u[<<pick[B], g[Rest(pick, B)]>>]
    <3> DEFINE D == Rest(pick, B)
    <3>1. CASE B # {}
      <4>1. pick[B] \in B
        BY <3>1, <2>4
      <4>2. D \in SUBSET A /\ D # A
        BY <4>1 DEF Rest
      <4>3. G(D)[D] = Value(D)
        BY <2>5, <4>2
      <4>4. g[D] = Value(D) /\ g[B] = Value(B)
        BY <4>2
      <4>5. Value(B) = u[<<pick[B], G(D)[D]>>]
        BY <3>1
      <4> QED
        BY <3>1, <4>3, <4>4, <4>5
    <3>2. CASE B = {}
      BY <3>2
    <3> QED
      BY <3>1, <3>2
  <2>7. IsFold(pick, base, u, A, g)
    <3>1. g = [B \in SUBSET A |-> g[B]]
      OBVIOUS
    <3> HIDE DEF g
    <3>2. g = [B \in SUBSET A |-> IF B = {} THEN base ELSE u[<<pick[B], g[Rest(pick, B)]>>]]
      BY <2>6, <3>1
    <3> QED
      BY <3>2 DEF IsFold
  <2> QED
    BY <2>1, <2>7
<1> QED
  BY <1>1, <1>2

(* A step within a set of values stays there. *)
LEMMA FoldStays ==
  ASSUME NEW S, IsFiniteSet(S), NEW pick, Picks(pick, S), NEW D, NEW base \in D, NEW u,
         \A x \in S, d \in D : u[<<x, d>>] \in D
  PROVE  \E g \in [SUBSET S -> D] : IsFold(pick, base, u, S, g)
<1>1. PICK g : IsFold(pick, base, u, S, g)
  BY FoldExists
<1>2. \A T \in SUBSET S : g[T] = IF T = {} THEN base ELSE u[<<pick[T], g[Rest(pick, T)]>>]
  BY <1>1, Zenon DEF IsFold
<1>3. ASSUME NEW R \in SUBSET S PROVE g[R] \in D
  <2> DEFINE K == [T \in SUBSET R |-> D]
  <2>1. Picks(pick, R) /\ IsFiniteSet(R)
    BY FS_Subset DEF Picks
  <2>2. g[{}] \in K[{}]
    BY <1>2
  <2>3. ASSUME NEW T \in SUBSET R, T # {}, g[Rest(pick, T)] \in K[Rest(pick, T)]
        PROVE  g[T] \in K[T]
    <3>1. g[Rest(pick, T)] \in D
      BY <2>3 DEF Rest
    <3>2. pick[T] \in S /\ g[T] = u[<<pick[T], g[Rest(pick, T)]>>]
      BY <1>2, <2>3 DEF Picks
    <3> QED
      BY <3>1, <3>2
  <2>4. g[R] \in K[R]
    <3> HIDE DEF K
    <3> QED
      BY <2>1, <2>2, <2>3, KeptAlong
  <2> QED
    BY <2>4
<1>4. g = [T \in SUBSET S |-> g[T]]
  <2>1. \E f : g = [T \in SUBSET S |-> IF T = {} THEN base ELSE u[<<pick[T], f[Rest(pick, T)]>>]]
    BY <1>1, Zenon DEF IsFold
  <2> QED
    BY <2>1
<1> QED
  BY <1>1, <1>3, <1>4

-----------------------------------------------------------------------------
(***************************************************************************)
(* TerrainMesh: divisions of a set, and what unites their classes.         *)
(***************************************************************************)
IsDivision(K, D) ==
  UNION D = K /\ {} \notin D /\ \A a, b \in D : a # b => a \cap b = {}
SameClass(D, s, t) == \E c \in D : s \in c /\ t \in c

LEMMA AloneDivides ==
  ASSUME NEW K
  PROVE  IsDivision(K, Alone(K)) /\ Alone(K) \in SUBSET SUBSET K
BY DEF IsDivision, Alone

LEMMA ClassIsFound ==
  ASSUME NEW K, NEW D, IsDivision(K, D), NEW t \in K
  PROVE  /\ ClassOf(D, t) \in D /\ t \in ClassOf(D, t)
         /\ \A c \in D : t \in c <=> c = ClassOf(D, t)
<1>1. \E c \in D : t \in c
  BY DEF IsDivision
<1>2. ClassOf(D, t) \in D /\ t \in ClassOf(D, t)
  BY <1>1 DEF ClassOf
<1> QED
  BY <1>2 DEF IsDivision

LEMMA UnitedIsUnion ==
  ASSUME NEW K, NEW D, IsDivision(K, D), NEW s \in K, NEW t \in K
  PROVE  United(D, s, t) = (D \ {ClassOf(D, s), ClassOf(D, t)}) \cup {ClassOf(D, s) \cup ClassOf(D, t)}
<1> DEFINE a == ClassOf(D, s)
           b == ClassOf(D, t)
<1>1. a \in D /\ b \in D /\ \A c \in D : (s \in c <=> c = a) /\ (t \in c <=> c = b)
  BY ClassIsFound
<1> HIDE DEF a, b
<1>2. {c \in D : s \notin c /\ t \notin c} = D \ {a, b}
  BY <1>1
<1>3. UNION {c \in D : s \in c \/ t \in c} = a \cup b
  <2>1. {c \in D : s \in c \/ t \in c} = {a, b}
    BY <1>1
  <2> QED
    BY <2>1
<1> QED
  BY <1>2, <1>3 DEF United, a, b

LEMMA UnitedDivides ==
  ASSUME NEW K, NEW D, IsDivision(K, D), NEW s \in K, NEW t \in K
  PROVE  /\ IsDivision(K, United(D, s, t))
         /\ SameClass(United(D, s, t), s, t)
         /\ \A x, y : SameClass(D, x, y) => SameClass(United(D, s, t), x, y)
<1> DEFINE a == ClassOf(D, s)
           b == ClassOf(D, t)
           E == (D \ {a, b}) \cup {a \cup b}
<1>1. a \in D /\ b \in D /\ s \in a /\ t \in b
  BY ClassIsFound
<1>2. United(D, s, t) = E
  BY UnitedIsUnion
<1> HIDE DEF a, b
<1>3. IsDivision(K, E)
  <2>1. UNION E = UNION D
    BY <1>1
  <2>2. {} \notin E
    BY <1>1 DEF IsDivision
  <2>3. ASSUME NEW c \in E, NEW d \in E, c # d PROVE c \cap d = {}
    <3>1. CASE c \in D /\ d \in D
      BY <2>3, <3>1 DEF IsDivision
    <3>2. CASE c = a \cup b /\ d \in D \ {a, b}
      BY <1>1, <3>2 DEF IsDivision
    <3>3. CASE d = a \cup b /\ c \in D \ {a, b}
      BY <1>1, <3>3 DEF IsDivision
    <3> QED
      BY <2>3, <3>1, <3>2, <3>3
  <2> QED
    BY <2>1, <2>2, <2>3 DEF IsDivision
<1>4. SameClass(E, s, t)
  BY <1>1 DEF SameClass
<1>5. ASSUME NEW x, NEW y, SameClass(D, x, y) PROVE SameClass(E, x, y)
  <2>1. PICK c \in D : x \in c /\ y \in c
    BY <1>5 DEF SameClass
  <2>2. CASE c \in {a, b}
    BY <2>1, <2>2 DEF SameClass
  <2>3. CASE c \notin {a, b}
    BY <2>1, <2>3 DEF SameClass
  <2> QED
    BY <2>2, <2>3
<1> HIDE DEF E
<1> QED
  BY <1>2, <1>3, <1>4, <1>5

LEMMA SameIsEqual ==
  ASSUME NEW K, NEW D, IsDivision(K, D), NEW a \in D, NEW s \in a, NEW t, SameClass(D, s, t)
  PROVE  t \in a
BY DEF IsDivision, SameClass

(***************************************************************************)
(* TerrainMesh: triangles as far as they share edges.                      *)
(***************************************************************************)
CornersIn(tr, t) == {tr[t][k] : k \in 1 .. 3}
Shares(tr, s, t) == Cardinality(CornersIn(tr, s) \cap CornersIn(tr, t)) >= 2
PairsIn(tr, ts) ==
  {p \in ts \X ts : p[1] < p[2] /\ Cardinality(CornersIn(tr, p[1]) \cap CornersIn(tr, p[2])) >= 2}
LinkedIn(tr, ts) ==
  FoldSet(LAMBDA p, classes : United(classes, p[1], p[2]), Alone(ts), PairsIn(tr, ts))

LEMMA LinkedIsFold ==
  ASSUME NEW tr, NEW ts, IsFiniteSet(ts)
  PROVE  \E g, pick :
           /\ LinkedIn(tr, ts) = g[PairsIn(tr, ts)]
           /\ Picks(pick, PairsIn(tr, ts))
           /\ g[{}] = Alone(ts)
           /\ \A T \in SUBSET PairsIn(tr, ts) :
                T # {} => g[T] = United(g[Rest(pick, T)], pick[T][1], pick[T][2])
<1> DEFINE P == PairsIn(tr, ts)
           D == SUBSET SUBSET ts
           u == [q \in P \X D |-> United(q[2], q[1][1], q[1][2])]
           pick == [T \in SUBSET P |-> CHOOSE x \in T : TRUE]
           Next0(g) == [T \in SUBSET P |->
                         IF T = {} THEN Alone(ts)
                         ELSE United(g[T \ {CHOOSE x \in T : TRUE}],
                                     (CHOOSE x \in T : TRUE)[1], (CHOOSE x \in T : TRUE)[2])]
           iter == CHOOSE g : g = Next0(g)
<1>1. LinkedIn(tr, ts) = iter[P]
  BY DEF LinkedIn, FoldSet, MapThenFoldSet
<1>2. IsFiniteSet(P) /\ P \subseteq ts \X ts
  <2>1. IsFiniteSet(ts \X ts)
    BY FS_Product
  <2>2. P \subseteq ts \X ts
    BY DEF PairsIn
  <2> QED
    BY <2>1, <2>2, FS_Subset
<1> HIDE DEF P
<1>3. Picks(pick, P)
  BY DEF Picks
<1>4. \A T \in SUBSET P : T # {} => pick[T] = CHOOSE x \in T : TRUE
  OBVIOUS
<1>5. \E g : g = Next0(g)
  <2>1. Alone(ts) \in D
    BY AloneDivides
  <2>2. ASSUME NEW x \in P, NEW d \in D
        PROVE  u[<<x, d>>] = United(d, x[1], x[2]) /\ u[<<x, d>>] \in D
    <3>1. u[<<x, d>>] = United(d, x[1], x[2])
      OBVIOUS
    <3>2. United(d, x[1], x[2]) \in D
      BY DEF United
    <3> QED
      BY <3>1, <3>2
  <2>3. PICK g \in [SUBSET P -> D] : IsFold(pick, Alone(ts), u, P, g)
    <3> HIDE DEF u, D, pick
    <3> QED
      BY <1>2, <1>3, <2>1, <2>2, FoldStays
  <2>4. \A T \in SUBSET P : g[T] = IF T = {} THEN Alone(ts) ELSE u[<<pick[T], g[Rest(pick, T)]>>]
    <3> HIDE DEF u, pick, D
    <3> QED
      BY <2>3, Zenon DEF IsFold
  <2>5. ASSUME NEW T \in SUBSET P, T # {}
        PROVE  g[T] = United(g[T \ {CHOOSE x \in T : TRUE}],
                             (CHOOSE x \in T : TRUE)[1], (CHOOSE x \in T : TRUE)[2])
    <3> DEFINE x == pick[T]
               R == Rest(pick, T)
    <3>1. x \in P /\ R \in SUBSET P /\ x = CHOOSE y \in T : TRUE
      BY <1>3, <1>4, <2>5 DEF Picks, Rest
    <3>2. R = T \ {x}
      BY DEF Rest
    <3>3. g[T] = u[<<x, g[R]>>]
      BY <2>4, <2>5
    <3>4. g[R] \in D
      BY <2>3, <3>1
    <3> HIDE DEF x, R, D, u
    <3>5. u[<<x, g[R]>>] = United(g[R], x[1], x[2])
      BY <2>2, <3>1, <3>4
    <3> QED
      BY <3>1, <3>2, <3>3, <3>5
  <2>6. g = [T \in SUBSET P |-> g[T]] /\ g[{}] = Alone(ts)
    BY <2>3, <2>4
  <2>7. g = Next0(g)
    BY <2>5, <2>6
  <2> HIDE DEF Next0
  <2> QED
    BY <2>7
<1>6. iter = Next0(iter)
  <2> HIDE DEF Next0
  <2> QED
    BY <1>5
<1>7. ASSUME NEW T \in SUBSET P
      PROVE iter[T] = IF T = {} THEN Alone(ts)
                      ELSE United(iter[T \ {CHOOSE x \in T : TRUE}],
                                  (CHOOSE x \in T : TRUE)[1], (CHOOSE x \in T : TRUE)[2])
  <2> HIDE DEF iter
  <2> QED
    BY <1>6, Zenon
<1> HIDE DEF iter
<1>8. \A T \in SUBSET P : T # {} => iter[T] = United(iter[Rest(pick, T)], pick[T][1], pick[T][2])
  BY <1>4, <1>7 DEF Rest
<1>9. iter[{}] = Alone(ts)
  BY <1>7
<1> HIDE DEF pick
<1> QED
  BY <1>1, <1>3, <1>8, <1>9 DEF P

LEMMA LinkedDivides ==
  ASSUME NEW tr, NEW ts, IsFiniteSet(ts)
  PROVE  /\ IsDivision(ts, LinkedIn(tr, ts))
         /\ \A p \in PairsIn(tr, ts) : SameClass(LinkedIn(tr, ts), p[1], p[2])
<1> DEFINE P == PairsIn(tr, ts)
           Right(T, d) == IsDivision(ts, d) /\ \A p \in T : SameClass(d, p[1], p[2])
           K == [T \in SUBSET P |-> {d \in SUBSET SUBSET ts : Right(T, d)}]
<1>1. PICK g, pick : /\ LinkedIn(tr, ts) = g[P] /\ Picks(pick, P) /\ g[{}] = Alone(ts)
                     /\ \A T \in SUBSET P :
                          T # {} => g[T] = United(g[Rest(pick, T)], pick[T][1], pick[T][2])
  BY LinkedIsFold
<1>2. IsFiniteSet(P) /\ P \subseteq ts \X ts
  <2>1. IsFiniteSet(ts \X ts)
    BY FS_Product
  <2>2. P \subseteq ts \X ts
    BY DEF PairsIn
  <2> QED
    BY <2>1, <2>2, FS_Subset
<1> HIDE DEF P
<1>3. g[{}] \in K[{}]
  BY <1>1, AloneDivides
<1>4. ASSUME NEW T \in SUBSET P, T # {}, g[Rest(pick, T)] \in K[Rest(pick, T)]
      PROVE  g[T] \in K[T]
  <2> DEFINE x == pick[T]
             R == Rest(pick, T)
             d == g[R]
  <2>1. x \in T /\ R \in SUBSET P /\ T = R \cup {x}
    BY <1>1, <1>4 DEF Picks, Rest
  <2>2. d \in SUBSET SUBSET ts /\ Right(R, d)
    BY <1>4, <2>1
  <2>3. x[1] \in ts /\ x[2] \in ts
    BY <1>2, <2>1
  <2>4. g[T] = United(d, x[1], x[2])
    BY <1>1, <1>4
  <2> HIDE DEF x, R, d
  <2>5. IsDivision(ts, g[T])
    BY <2>2, <2>3, <2>4, UnitedDivides
  <2>6. g[T] \in SUBSET SUBSET ts
    BY <2>5 DEF IsDivision
  <2>7. ASSUME NEW p \in T PROVE SameClass(g[T], p[1], p[2])
    <3>1. CASE p \in R
      BY <2>2, <2>3, <2>4, <3>1, UnitedDivides
    <3>2. CASE p = x
      BY <2>2, <2>3, <2>4, <3>2, UnitedDivides
    <3> QED
      BY <2>1, <3>1, <3>2
  <2> QED
    BY <2>5, <2>6, <2>7
<1>5. g[P] \in K[P]
  <2> HIDE DEF K
  <2> QED
    BY <1>1, <1>2, <1>3, <1>4, KeptAlong
<1>6. Right(P, g[P])
  BY <1>5
<1> QED
  BY <1>1, <1>6 DEF P

LEMMA LinkedTogether ==
  ASSUME NEW tr, NEW ts, IsFiniteSet(ts), ts \subseteq Int
  PROVE  /\ IsDivision(ts, LinkedIn(tr, ts))
         /\ \A s, t \in ts : Shares(tr, s, t) => SameClass(LinkedIn(tr, ts), s, t)
<1>1. IsDivision(ts, LinkedIn(tr, ts))
  BY LinkedDivides
<1>2. ASSUME NEW s \in ts, NEW t \in ts, Shares(tr, s, t)
      PROVE  SameClass(LinkedIn(tr, ts), s, t)
  <2>1. CASE s = t
    BY <1>1, <2>1 DEF IsDivision, SameClass
  <2>2. CASE s < t
    <3>1. <<s, t>> \in PairsIn(tr, ts)
      BY <1>2, <2>2 DEF PairsIn, Shares
    <3>2. SameClass(LinkedIn(tr, ts), <<s, t>>[1], <<s, t>>[2])
      BY <3>1, LinkedDivides
    <3> QED
      BY <3>2
  <2>3. CASE t < s
    <3>1. CornersIn(tr, s) \cap CornersIn(tr, t) = CornersIn(tr, t) \cap CornersIn(tr, s)
      OBVIOUS
    <3>2. <<t, s>> \in PairsIn(tr, ts)
      BY <1>2, <2>3, <3>1 DEF PairsIn, Shares
    <3>3. SameClass(LinkedIn(tr, ts), <<t, s>>[1], <<t, s>>[2])
      BY <3>2, LinkedDivides
    <3> QED
      BY <3>3 DEF SameClass
  <2> QED
    BY <2>1, <2>2, <2>3
<1> QED
  BY <1>1, <1>2

(***************************************************************************)
(* TerrainMesh: surfaces.                                                  *)
(***************************************************************************)

(* No part of a joined surface is closed under sharing edges. *)
Joined(tr, a) ==
  \A A \in SUBSET a : A # {} /\ (\A s \in A, t \in a : Shares(tr, s, t) => t \in A) => A = a

(* A triangle of each, at a common vertex, is in a fan with the other. *)
FansMeet(tr, fs, a, b) ==
  \A s \in a, t \in b : \A v \in CornersIn(tr, s) \cap CornersIn(tr, t) :
    \E fan \in fs[v] : {s, t} \subseteq fan

LEMMA JoinedIsWalkable ==
  ASSUME NEW tr, NEW a, IsFiniteSet(a), a \subseteq Int, Joined(tr, a)
  PROVE  Cardinality(LinkedIn(tr, a)) <= 1
<1> DEFINE L == LinkedIn(tr, a)
<1>1. IsDivision(a, L) /\ \A s, t \in a : Shares(tr, s, t) => SameClass(L, s, t)
  BY LinkedTogether
<1> HIDE DEF L
<1>2. ASSUME NEW A \in L PROVE A = a
  <2>1. A \in SUBSET a /\ A # {}
    BY <1>1 DEF IsDivision
  <2>2. ASSUME NEW s \in A, NEW t \in a, Shares(tr, s, t) PROVE t \in A
    <3>1. SameClass(L, s, t)
      BY <1>1, <2>1, <2>2
    <3> QED
      BY <1>1, <3>1, SameIsEqual
  <2> QED
    BY <2>1, <2>2 DEF Joined
<1>3. L = {} \/ L = {a}
  BY <1>2
<1>4. Cardinality({}) = 0 /\ Cardinality({a}) = 1
  BY FS_EmptySet, FS_Singleton
<1>5. CASE L = {}
  BY <1>4, <1>5 DEF L
<1>6. CASE L = {a}
  BY <1>4, <1>6 DEF L
<1> QED
  BY <1>3, <1>5, <1>6

LEMMA JoinedTogether ==
  ASSUME NEW tr, NEW a, NEW b, Joined(tr, a), Joined(tr, b), NEW s \in a, NEW t \in b,
         Shares(tr, s, t)
  PROVE  Joined(tr, a \cup b)
<1> SUFFICES ASSUME NEW A \in SUBSET (a \cup b), A # {},
                    \A x \in A, y \in a \cup b : Shares(tr, x, y) => y \in A
             PROVE  A = a \cup b
  BY DEF Joined
<1>1. Shares(tr, t, s)
  <2>1. CornersIn(tr, s) \cap CornersIn(tr, t) = CornersIn(tr, t) \cap CornersIn(tr, s)
    OBVIOUS
  <2> QED
    BY <2>1 DEF Shares
<1>2. ASSUME A \cap a # {} PROVE a \subseteq A
  <2> DEFINE B == A \cap a
  <2>1. \A x \in B, y \in a : Shares(tr, x, y) => y \in B
    OBVIOUS
  <2>2. B \in SUBSET a /\ B # {}
    BY <1>2
  <2>3. B = a
    <3> HIDE DEF B
    <3> QED
      BY <2>1, <2>2 DEF Joined
  <2> QED
    BY <2>3
<1>3. ASSUME A \cap b # {} PROVE b \subseteq A
  <2> DEFINE B == A \cap b
  <2>1. \A x \in B, y \in b : Shares(tr, x, y) => y \in B
    OBVIOUS
  <2>2. B \in SUBSET b /\ B # {}
    BY <1>3
  <2>3. B = b
    <3> HIDE DEF B
    <3> QED
      BY <2>1, <2>2 DEF Joined
  <2> QED
    BY <2>3
<1>4. CASE A \cap a # {}
  <2>1. t \in A
    BY <1>2, <1>4
  <2> QED
    BY <1>2, <1>3, <1>4, <2>1
<1>5. CASE A \cap b # {}
  <2>1. s \in A
    BY <1>1, <1>3, <1>5
  <2> QED
    BY <1>2, <1>3, <1>5, <2>1
<1> QED
  BY <1>4, <1>5

LEMMA FansMeetTogether ==
  ASSUME NEW tr, NEW fs, NEW a, NEW b, FansMeet(tr, fs, a, a), FansMeet(tr, fs, b, b),
         FansMeet(tr, fs, a, b)
  PROVE  FansMeet(tr, fs, a \cup b, a \cup b)
<1> SUFFICES ASSUME NEW s \in a \cup b, NEW t \in a \cup b,
                    NEW v \in CornersIn(tr, s) \cap CornersIn(tr, t)
             PROVE  \E fan \in fs[v] : {s, t} \subseteq fan
  BY DEF FansMeet
<1>1. v \in CornersIn(tr, t) \cap CornersIn(tr, s)
  OBVIOUS
<1>2. CASE s \in a
  BY <1>2 DEF FansMeet
<1>3. CASE s \in b
  <2>1. CASE t \in a
    <3>1. \E fan \in fs[v] : {t, s} \subseteq fan
      BY <1>1, <1>3, <2>1 DEF FansMeet
    <3> QED
      BY <3>1
  <2>2. CASE t \in b
    BY <1>3, <2>2 DEF FansMeet
  <2> QED
    BY <2>1, <2>2
<1> QED
  BY <1>2, <1>3

IncidentIn(tr, v) == {t \in DOMAIN tr : v \in CornersIn(tr, t)}
VerticesIn(tr, ts) == UNION {CornersIn(tr, t) : t \in ts}
FansIn(tr) == [v \in VerticesIn(tr, DOMAIN tr) |-> LinkedIn(tr, IncidentIn(tr, v))]

UniteIn(tr, fs, classes, owners) ==
  IF /\ Cardinality(owners) = 2
     /\ FansMeet(tr, fs, ClassOf(classes, Min(owners)), ClassOf(classes, Max(owners)))
  THEN United(classes, Min(owners), Max(owners)) ELSE classes
SplitIn(tr, fs, os) ==
  FoldLeft(LAMBDA classes, owners : UniteIn(tr, fs, classes, owners), Alone(DOMAIN tr), os)

AreSurfaces(tr, fs, D) ==
  /\ IsDivision(DOMAIN tr, D)
  /\ \A a \in D : Joined(tr, a) /\ FansMeet(tr, fs, a, a)

SurfacesFit(tr, fs, cs) ==
  /\ UNION cs = DOMAIN tr
  /\ \A a, b \in cs : a # b => a \cap b = {}
  /\ \A a \in cs : /\ Cardinality(LinkedIn(tr, a)) <= 1
                   /\ \A v \in VerticesIn(tr, a) : \E fan \in fs[v] : IncidentIn(tr, v) \cap a \subseteq fan

IsMesh(tr) == IsFiniteSet(DOMAIN tr) /\ DOMAIN tr \subseteq Int

LEMMA FansDivide ==
  ASSUME NEW tr, IsMesh(tr), NEW v \in VerticesIn(tr, DOMAIN tr)
  PROVE  IsDivision(IncidentIn(tr, v), FansIn(tr)[v])
<1>1. IncidentIn(tr, v) \subseteq DOMAIN tr
  BY DEF IncidentIn
<1>2. IsFiniteSet(IncidentIn(tr, v))
  BY <1>1, FS_Subset DEF IsMesh
<1>3. FansIn(tr)[v] = LinkedIn(tr, IncidentIn(tr, v))
  BY DEF FansIn
<1> QED
  BY <1>2, <1>3, LinkedDivides

LEMMA AloneAreSurfaces ==
  ASSUME NEW tr, IsMesh(tr)
  PROVE  AreSurfaces(tr, FansIn(tr), Alone(DOMAIN tr))
<1>1. ASSUME NEW t \in DOMAIN tr PROVE Joined(tr, {t}) /\ FansMeet(tr, FansIn(tr), {t}, {t})
  <2>1. Joined(tr, {t})
    BY DEF Joined
  <2>2. ASSUME NEW v \in CornersIn(tr, t) PROVE \E fan \in FansIn(tr)[v] : t \in fan
    <3>1. v \in VerticesIn(tr, DOMAIN tr) /\ t \in IncidentIn(tr, v)
      BY DEF VerticesIn, IncidentIn
    <3>2. IsDivision(IncidentIn(tr, v), FansIn(tr)[v])
      BY <3>1, FansDivide
    <3> QED
      BY <3>1, <3>2 DEF IsDivision
  <2> QED
    BY <2>1, <2>2 DEF FansMeet
<1>2. \A a \in Alone(DOMAIN tr) : \E t \in DOMAIN tr : a = {t}
  BY DEF Alone
<1> QED
  BY <1>1, <1>2, AloneDivides DEF AreSurfaces

LEMMA UnitedAreSurfaces ==
  ASSUME NEW tr, IsMesh(tr), NEW fs, NEW D, AreSurfaces(tr, fs, D),
         NEW owners \in SUBSET DOMAIN tr, \A s, t \in owners : Shares(tr, s, t)
  PROVE  AreSurfaces(tr, fs, UniteIn(tr, fs, D, owners))
<1> DEFINE s == Min(owners)
           t == Max(owners)
           a == ClassOf(D, s)
           b == ClassOf(D, t)
<1>1. CASE Cardinality(owners) = 2 /\ FansMeet(tr, fs, a, b)
  <2>1. IsFiniteSet(owners) /\ owners # {}
    BY <1>1, FS_Subset, FS_EmptySet DEF IsMesh
  <2>2. \A x \in owners : x \in Int
    BY DEF IsMesh
  <2>3. s \in owners /\ t \in owners
    BY <2>1, <2>2, LeastInteger, GreatestInteger
  <2>4. UniteIn(tr, fs, D, owners) = United(D, s, t)
    BY <1>1 DEF UniteIn
  <2> HIDE DEF s, t
  <2>5. s \in DOMAIN tr /\ t \in DOMAIN tr /\ Shares(tr, s, t) /\ IsDivision(DOMAIN tr, D)
    BY <2>3 DEF AreSurfaces
  <2>6. a \in D /\ b \in D /\ s \in a /\ t \in b
    BY <2>5, ClassIsFound
  <2>7. United(D, s, t) = (D \ {a, b}) \cup {a \cup b}
    BY <2>5, UnitedIsUnion
  <2>8. IsDivision(DOMAIN tr, United(D, s, t))
    BY <2>5, UnitedDivides
  <2> HIDE DEF a, b
  <2>9. Joined(tr, a \cup b)
    BY <2>5, <2>6, JoinedTogether DEF AreSurfaces
  <2>10. FansMeet(tr, fs, a \cup b, a \cup b)
    BY <1>1, <2>6, FansMeetTogether DEF AreSurfaces
  <2>11. \A c \in United(D, s, t) : Joined(tr, c) /\ FansMeet(tr, fs, c, c)
    BY <2>7, <2>9, <2>10 DEF AreSurfaces
  <2> QED
    BY <2>4, <2>8, <2>11 DEF AreSurfaces
<1>2. CASE ~(Cardinality(owners) = 2 /\ FansMeet(tr, fs, a, b))
  BY <1>2 DEF UniteIn
<1> QED
  BY <1>1, <1>2

LEMMA SplitIsFold ==
  ASSUME NEW tr, NEW fs, NEW n \in Int, NEW os, DOMAIN os = 1 .. n, NEW D, Alone(DOMAIN tr) \in D,
         \A classes \in D, k \in 1 .. n : UniteIn(tr, fs, classes, os[k]) \in D
  PROVE  SplitIn(tr, fs, os) \in D
<1> DEFINE S == 1 .. n
           u == [q \in S \X D |-> UniteIn(tr, fs, q[2], os[q[1]])]
           pick == [T \in SUBSET S |-> Max(T)]
           Next0(g) == [T \in SUBSET DOMAIN os |->
                         IF T = {} THEN Alone(DOMAIN tr)
                         ELSE UniteIn(tr, fs, g[T \ {Max(T)}], os[Max(T)])]
           iter == CHOOSE g : g = Next0(g)
<1>1. SplitIn(tr, fs, os) = iter[DOMAIN os]
  BY DEF SplitIn, FoldLeft, MapThenFoldSet
<1>2. IsFiniteSet(S) /\ S \subseteq Int /\ DOMAIN os = S
  BY FS_Interval
<1> HIDE DEF S
<1>3. Picks(pick, S)
  <2>1. ASSUME NEW T \in SUBSET S, T # {} PROVE Max(T) \in T
    <3>1. IsFiniteSet(T) /\ \A x \in T : x \in Int
      BY <1>2, FS_Subset
    <3> QED
      BY <2>1, <3>1, GreatestInteger
  <2> QED
    BY <2>1 DEF Picks
<1>4. \A T \in SUBSET S : pick[T] = Max(T)
  OBVIOUS
<1>5. ASSUME NEW x \in S, NEW d \in D
      PROVE  u[<<x, d>>] = UniteIn(tr, fs, d, os[x]) /\ u[<<x, d>>] \in D
  <2>1. u[<<x, d>>] = UniteIn(tr, fs, d, os[x])
    OBVIOUS
  <2>2. UniteIn(tr, fs, d, os[x]) \in D
    BY DEF S
  <2> QED
    BY <2>1, <2>2
<1> HIDE DEF u, pick
<1>6. PICK g \in [SUBSET S -> D] : IsFold(pick, Alone(DOMAIN tr), u, S, g)
  BY <1>2, <1>3, <1>5, FoldStays
<1>7. \A T \in SUBSET S :
        g[T] = IF T = {} THEN Alone(DOMAIN tr) ELSE u[<<pick[T], g[Rest(pick, T)]>>]
  BY <1>6, Zenon DEF IsFold
<1>8. ASSUME NEW T \in SUBSET S, T # {}
      PROVE  g[T] = UniteIn(tr, fs, g[T \ {Max(T)}], os[Max(T)])
  <2> DEFINE x == Max(T)
             R == T \ {x}
  <2>1. pick[T] = x /\ x \in S /\ Rest(pick, T) = R /\ R \in SUBSET S
    BY <1>3, <1>4, <1>8 DEF Picks, Rest
  <2>2. g[T] = u[<<x, g[R]>>]
    BY <1>7, <1>8, <2>1
  <2>3. g[R] \in D
    BY <1>6, <2>1
  <2> HIDE DEF x, R
  <2>4. g[T] = UniteIn(tr, fs, g[R], os[x])
    BY <1>5, <2>1, <2>2, <2>3
  <2> QED
    BY <2>4 DEF x, R
<1>9. \E h : h = Next0(h)
  <2>1. g = [T \in SUBSET S |-> g[T]] /\ g[{}] = Alone(DOMAIN tr)
    BY <1>6, <1>7
  <2>2. g = Next0(g)
    BY <1>2, <1>8, <2>1
  <2> HIDE DEF Next0
  <2> QED
    BY <2>2
<1>10. iter = Next0(iter)
  <2> HIDE DEF Next0
  <2> QED
    BY <1>9
<1>11. ASSUME NEW T \in SUBSET S
       PROVE iter[T] = IF T = {} THEN Alone(DOMAIN tr)
                       ELSE UniteIn(tr, fs, iter[T \ {Max(T)}], os[Max(T)])
  <2>1. T \in SUBSET DOMAIN os
    BY <1>2
  <2> HIDE DEF iter
  <2> QED
    BY <1>10, <2>1, Zenon
<1> HIDE DEF iter
<1> DEFINE K == [T \in SUBSET S |-> D]
<1>12. iter[{}] \in K[{}]
  BY <1>11
<1>13. ASSUME NEW T \in SUBSET S, T # {}, iter[Rest(pick, T)] \in K[Rest(pick, T)]
       PROVE  iter[T] \in K[T]
  <2>1. Max(T) \in S /\ Rest(pick, T) = T \ {Max(T)} /\ Rest(pick, T) \in SUBSET S
    BY <1>3, <1>4, <1>13 DEF Picks, Rest
  <2>2. iter[T \ {Max(T)}] \in D
    BY <1>13, <2>1
  <2>3. UniteIn(tr, fs, iter[T \ {Max(T)}], os[Max(T)]) \in D
    BY <2>1, <2>2 DEF S
  <2>4. iter[T] = UniteIn(tr, fs, iter[T \ {Max(T)}], os[Max(T)])
    BY <1>11, <1>13
  <2> QED
    BY <2>3, <2>4
<1>14. iter[S] \in K[S]
  <2> HIDE DEF K
  <2> QED
    BY <1>2, <1>3, <1>12, <1>13, KeptAlong
<1> QED
  BY <1>1, <1>2, <1>14

LEMMA SplitFits ==
  ASSUME NEW tr, IsMesh(tr), NEW n \in Int, NEW os, DOMAIN os = 1 .. n,
         \A k \in 1 .. n : /\ os[k] \in SUBSET DOMAIN tr
                           /\ \A s, t \in os[k] : Shares(tr, s, t)
  PROVE  SurfacesFit(tr, FansIn(tr), SplitIn(tr, FansIn(tr), os))
<1> DEFINE fs == FansIn(tr)
           D == {d \in SUBSET SUBSET DOMAIN tr : AreSurfaces(tr, fs, d)}
           cs == SplitIn(tr, fs, os)
<1>1. \A d : AreSurfaces(tr, fs, d) => d \in D
  BY DEF AreSurfaces, IsDivision
<1>2. Alone(DOMAIN tr) \in D
  BY <1>1, AloneAreSurfaces
<1>3. ASSUME NEW classes \in D, NEW k \in 1 .. n PROVE UniteIn(tr, fs, classes, os[k]) \in D
  <2>1. AreSurfaces(tr, fs, UniteIn(tr, fs, classes, os[k]))
    BY UnitedAreSurfaces
  <2> QED
    BY <1>1, <2>1
<1>4. cs \in D
  <2> HIDE DEF D, fs
  <2> QED
    BY <1>2, <1>3, SplitIsFold
<1>5. AreSurfaces(tr, fs, cs)
  BY <1>4
<1> HIDE DEF fs, D, cs
<1>6. ASSUME NEW a \in cs
      PROVE  /\ Cardinality(LinkedIn(tr, a)) <= 1
             /\ \A v \in VerticesIn(tr, a) : \E fan \in fs[v] : IncidentIn(tr, v) \cap a \subseteq fan
  <2>1. a \subseteq DOMAIN tr /\ Joined(tr, a) /\ FansMeet(tr, fs, a, a)
    BY <1>5 DEF AreSurfaces, IsDivision
  <2>2. IsFiniteSet(a) /\ a \subseteq Int
    BY <2>1, FS_Subset DEF IsMesh
  <2>3. Cardinality(LinkedIn(tr, a)) <= 1
    BY <2>1, <2>2, JoinedIsWalkable
  <2>4. ASSUME NEW v \in VerticesIn(tr, a) PROVE \E fan \in fs[v] : IncidentIn(tr, v) \cap a \subseteq fan
    <3>1. PICK t \in a : v \in CornersIn(tr, t)
      BY DEF VerticesIn
    <3>2. v \in VerticesIn(tr, DOMAIN tr)
      BY <2>1, <3>1 DEF VerticesIn
    <3>3. IsDivision(IncidentIn(tr, v), fs[v])
      BY <3>2, FansDivide DEF fs
    <3>4. PICK fan \in fs[v] : t \in fan
      BY <2>1, <3>1 DEF FansMeet
    <3>5. ASSUME NEW s \in IncidentIn(tr, v) \cap a PROVE s \in fan
      <4>1. v \in CornersIn(tr, s)
        BY DEF IncidentIn
      <4>2. PICK other \in fs[v] : {s, t} \subseteq other
        BY <2>1, <3>1, <4>1 DEF FansMeet
      <4> QED
        BY <3>3, <3>4, <4>2 DEF IsDivision
    <3> QED
      BY <3>4, <3>5
  <2> QED
    BY <2>3, <2>4
<1> QED
  BY <1>5, <1>6 DEF AreSurfaces, IsDivision, SurfacesFit, fs, cs

LEMMA EdgeHasTwo ==
  ASSUME Columns \in Nat, Rows \in Nat, NEW k \in 1 .. 4 * Columns * Rows
  PROVE  \E v, w : v # w /\ EdgeAt(k - 1) = {v, w}
<1> DEFINE c == ((k - 1) \div 4) \div Rows
           r == ((k - 1) \div 4) % Rows
           v == <<c, r>>
<1>1. Rows # 0
  OBVIOUS
<1>2. c \in Int /\ r \in Int
  <2> DEFINE m == (k - 1) \div 4
             R == Rows
  <2>1. m \in Int /\ R \in Nat \ {0}
    BY <1>1
  <2> HIDE DEF m, R
  <2>2. m \div R \in Int /\ m % R \in Int
    BY <2>1
  <2> QED
    BY <2>2 DEF m, R
<1>3. (k - 1) % 4 \in {0, 1, 2, 3}
  OBVIOUS
<1>4. EdgeAt(k - 1) = CASE (k - 1) % 4 = 0 -> {v, <<v[1], v[2] + 1>>}
                        [] (k - 1) % 4 = 1 -> {v, <<v[1] + 1, v[2] - 1>>}
                        [] (k - 1) % 4 = 2 -> {v, <<v[1] + 1, v[2]>>}
                        [] (k - 1) % 4 = 3 -> {v, <<v[1] + 1, v[2] + 1>>}
  BY DEF EdgeAt
<1> HIDE DEF c, r
<1>5. v[1] = c /\ v[2] = r
  OBVIOUS
<1>6. /\ v # <<v[1], v[2] + 1>> /\ v # <<v[1] + 1, v[2] - 1>>
      /\ v # <<v[1] + 1, v[2]>> /\ v # <<v[1] + 1, v[2] + 1>>
  BY <1>2
<1> HIDE DEF v
<1> DEFINE m == (k - 1) % 4
<1> HIDE DEF m
<1>7. CASE m = 0
  BY <1>4, <1>6, <1>7 DEF m
<1>8. CASE m = 1
  BY <1>4, <1>6, <1>8 DEF m
<1>9. CASE m = 2
  BY <1>4, <1>6, <1>9 DEF m
<1>10. CASE m = 3
  BY <1>4, <1>6, <1>10 DEF m
<1> QED
  BY <1>3, <1>7, <1>8, <1>9, <1>10 DEF m

LEMMA OwnersShare ==
  ASSUME NEW e, \E v, w : v # w /\ e = {v, w}, NEW s \in Owners(e), NEW t \in Owners(e)
  PROVE  Shares(triangles, s, t)
<1> DEFINE C == CornersIn(triangles, s)
           B == C \cap CornersIn(triangles, t)
<1>1. e \subseteq B
  BY DEF Owners, VerticesOf, CornersIn
<1>2. IsFiniteSet(C)
  <2>1. \E x, y, z : C = {x} \cup {y} \cup {z}
    <3>1. 1 .. 3 = {1, 2, 3}
      OBVIOUS
    <3>2. C = {triangles[s][1]} \cup {triangles[s][2]} \cup {triangles[s][3]}
      BY <3>1 DEF CornersIn
    <3> HIDE DEF C
    <3> QED
      BY <3>2
  <2> HIDE DEF C
  <2>2. PICK x, y, z : C = {x} \cup {y} \cup {z}
    BY <2>1
  <2> DEFINE S == {x} \cup {y}
  <2>3. IsFiniteSet({x})
    BY FS_Singleton
  <2>4. IsFiniteSet(S)
    BY <2>3, FS_AddElement
  <2> HIDE DEF S
  <2>5. IsFiniteSet(S \cup {z})
    BY <2>4, FS_AddElement
  <2> QED
    BY <2>2, <2>5 DEF S
<1>3. IsFiniteSet(B)
  BY <1>2, FS_Subset
<1>4. Cardinality(e) = 2
  <2>1. PICK v, w : v # w /\ e = {v, w}
    OBVIOUS
  <2>2. e = {v} \cup {w} /\ w \notin {v}
    BY <2>1
  <2>3. IsFiniteSet({v}) /\ Cardinality({v}) = 1
    BY FS_Singleton
  <2>4. Cardinality({v} \cup {w}) = Cardinality({v}) + 1
    BY <2>2, <2>3, FS_AddElement
  <2> QED
    BY <2>2, <2>3, <2>4
<1>5. Cardinality(e) <= Cardinality(B) /\ Cardinality(B) \in Nat
  BY <1>1, <1>3, FS_Subset, FS_CardinalityType
<1> HIDE DEF B
<1>6. Cardinality(B) >= 2
  BY <1>4, <1>5
<1> QED
  BY <1>6 DEF Shares, B

LEMMA QuadHasRoom ==
  ASSUME NEW c, NEW r
  PROVE  Len(QuadTriangles(c, r)) \in 0 .. 2
<1> DEFINE q == Corners(c, r)
           valid == SelectSeq(q, LAMBDA v : v \in DOMAIN samples)
           four == Len(valid) = 4
           short == squared_distance(q[1], q[3]) <= squared_distance(q[2], q[4])
           long == squared_distance(q[1], q[3]) > squared_distance(q[2], q[4])
           three == Len(valid) = 3 /\ scenario.terrain_nodata_mode # "complete_quads"
           made == CASE four /\ short -> <<<<q[1], q[2], q[3]>>, <<q[1], q[3], q[4]>>>>
                     [] four /\ long -> <<<<q[1], q[2], q[4]>>, <<q[2], q[3], q[4]>>>>
                     [] three -> <<valid>>
                     [] OTHER -> <<>>
<1>1. QuadTriangles(c, r) = made
  BY DEF QuadTriangles
<1> HIDE DEF q, valid, four, short, long, three
<1>2. Len(made) \in 0 .. 2
  OBVIOUS
<1> QED
  BY <1>1, <1>2

LEMMA GridIsSized ==
  ASSUME scenario \in Scenarios
  PROVE  Columns \in Nat /\ Rows \in Nat
<1>1. Footprints \in Seq([inside : Boxes, buffered : Boxes]) /\ Footprints # <<>>
  BY ScenarioAssumption DEF Footprints
<1>2. 1 \in Polygons
  BY <1>1 DEF Polygons
<1>3. dimx(TerrainCellSize) - 1 \in Nat /\ dimy(TerrainCellSize) - 1 \in Nat
  BY <1>2, CornersOfWindow
<1>4. dimx(TerrainCellSize) \in Int /\ dimy(TerrainCellSize) \in Int
  <2>1. polygon_extent \in Boxes
    BY <1>2, ExtentContains
  <2>2. /\ polygon_extent.x1 - polygon_extent.x0 \in Int
        /\ polygon_extent.y1 - polygon_extent.y0 \in Int
    BY <2>1 DEF Boxes
  <2>3. ASSUME NEW size \in Int PROVE Dim(size, TerrainCellSize) \in Int
    BY SizesAreNatural DEF Dim
  <2> QED
    BY <2>2, <2>3 DEF dimx, dimy
<1> QED
  BY <1>3, <1>4 DEF Columns, Rows

LEMMA GridIsMesh ==
  ASSUME scenario \in Scenarios
  PROVE  IsMesh(triangulateTerrainGrid)
<1> DEFINE quads == IF Columns < 2 \/ Rows < 2 THEN {} ELSE 0 .. (Columns - 1) * (Rows - 1) - 1
           made == [q \in quads |-> QuadTriangles(q % (Columns - 1), q \div (Columns - 1))]
           places == UNION {{2 * q + k - 1 : k \in 1 .. Len(made[q])} : q \in quads}
           n == (Columns - 1) * (Rows - 1) - 1
           m == 2 * n + 1
<1>1. DOMAIN triangulateTerrainGrid = places
  BY DEF triangulateTerrainGrid
<1>2. n \in Int
  BY GridIsSized
<1>3. quads \subseteq 0 .. n
  OBVIOUS
<1>4. \A q \in quads : Len(made[q]) \in 0 .. 2
  BY QuadHasRoom
<1> HIDE DEF quads, made, n
<1>5. places \subseteq 0 .. m
  <2> SUFFICES ASSUME NEW q \in quads, NEW k \in 1 .. Len(made[q])
               PROVE  2 * q + k - 1 \in 0 .. m
    OBVIOUS
  <2>1. q \in 0 .. n
    BY <1>3
  <2> DEFINE l == Len(made[q])
  <2>2. l \in 0 .. 2 /\ k \in 1 .. l
    BY <1>4
  <2> HIDE DEF l
  <2>3. k \in 1 .. 2
    BY <2>2
  <2> QED
    BY <1>2, <2>1, <2>3
<1>6. m \in Int
  BY <1>2
<1> HIDE DEF m
<1>7. IsFiniteSet(0 .. m) /\ 0 .. m \subseteq Int
  BY <1>6, FS_Interval
<1> QED
  BY <1>1, <1>5, <1>7, FS_Subset DEF IsMesh

OwnersOfEdges == [k \in 1 .. 4 * Columns * Rows |-> Owners(EdgeAt(k - 1))]

LEMMA SplitMeans == splitTerrainConnectedComponents = SplitIn(triangles, fans, OwnersOfEdges)
BY DEF splitTerrainConnectedComponents, SplitIn, OwnersOfEdges, FoldLeft, MapThenFoldSet,
       UniteOwners, UniteIn, SameFans, FansMeet, VerticesOf, CornersIn

LEMMA LinkedMeans == \A ts : Linked(ts) = LinkedIn(triangles, ts)
BY DEF Linked, LinkedIn, PairsIn, VerticesOf, CornersIn, FoldSet, MapThenFoldSet

LEMMA IncidentMeans ==
  /\ \A v : Incident(v) = IncidentIn(triangles, v)
  /\ \A ts : VerticesOfAll(ts) = VerticesIn(triangles, ts)
BY DEF Incident, VerticesOfAll, VerticesOf, CornersIn, IncidentIn, VerticesIn

LEMMA FittingMeans ==
  SurfacesKeepToFans <=> (phase = "done" => SurfacesFit(triangles, fans, components))
BY LinkedMeans, IncidentMeans DEF SurfacesKeepToFans, Walkable, SurfacesFit

(***************************************************************************)
(* The mesh: it is made once, from the grid of a scenario.                 *)
(***************************************************************************)
MeshInv ==
  /\ scenario \in Scenarios
  /\ phase \notin {"meshed", "fans", "done"} => triangles = <<>> /\ components = {}
  /\ IsMesh(triangles)
  /\ phase = "fans" => fans = FansIn(triangles)
  /\ phase = "done" => SurfacesFit(triangles, fans, components)

LEMMA EmptyMeshFits ==
  IsMesh(<<>>) /\ \A fs : SurfacesFit(<<>>, fs, {})
<1>1. DOMAIN <<>> = {}
  OBVIOUS
<1> QED
  BY <1>1, FS_EmptySet DEF IsMesh, SurfacesFit

LEMMA MeshStays ==
  ASSUME MeshInv, UNCHANGED <<scenario, meshVars>>, phase' \notin {"meshed", "fans", "done"},
         phase \notin {"meshed", "fans", "done"}
  PROVE  MeshInv'
BY DEF MeshInv, meshVars

LEMMA CropPhases ==
  ASSUME CropStep
  PROVE  /\ phase \notin {"meshed", "fans", "done"} /\ phase' \notin {"meshed", "fans", "done"}
         /\ UNCHANGED scenario
BY DEF CropStep, SkipFile, OpenFile, ReadPoint, CloseFile, CountPoints, MergeBufferGround,
       AssignSharedPoint, SettleElevations

LEMMA SplitMakesSurfaces ==
  ASSUME MeshInv, phase = "fans"
  PROVE  SurfacesFit(triangles, fans, splitTerrainConnectedComponents)
<1> DEFINE n == 4 * Columns * Rows
           os == OwnersOfEdges
<1>1. Columns \in Nat /\ Rows \in Nat
  BY GridIsSized DEF MeshInv
<1>2. n \in Int
  BY <1>1
<1>3. DOMAIN os = 1 .. n
  BY DEF OwnersOfEdges
<1>4. ASSUME NEW k \in 1 .. n
      PROVE  /\ os[k] \in SUBSET DOMAIN triangles
             /\ \A s, t \in os[k] : Shares(triangles, s, t)
  <2>1. os[k] = Owners(EdgeAt(k - 1))
    BY DEF OwnersOfEdges
  <2>2. \E v, w : v # w /\ EdgeAt(k - 1) = {v, w}
    BY <1>1, EdgeHasTwo
  <2>3. \A s, t \in Owners(EdgeAt(k - 1)) : Shares(triangles, s, t)
    BY <2>2, OwnersShare
  <2>4. Owners(EdgeAt(k - 1)) \in SUBSET DOMAIN triangles
    BY DEF Owners
  <2> QED
    BY <2>1, <2>3, <2>4
<1> HIDE DEF n, os
<1>5. IsMesh(triangles) /\ fans = FansIn(triangles)
  BY DEF MeshInv
<1>6. SurfacesFit(triangles, FansIn(triangles), SplitIn(triangles, FansIn(triangles), os))
  BY <1>2, <1>3, <1>4, <1>5, SplitFits
<1> QED
  BY <1>5, <1>6, SplitMeans DEF os

LEMMA MeshInvHolds == Spec => []MeshInv
<1>1. MeshInit => MeshInv
  BY EmptyMeshFits DEF MeshInit, Init, MeshInv
<1>2. ASSUME MeshInv, [Next]_vars PROVE MeshInv'
  <2>1. CASE Crop
    BY <1>2, <2>1, CropPhases, MeshStays DEF Crop
  <2>2. CASE NoTerrain
    <3>1. triangles = <<>> /\ components = {}
      BY <1>2, <2>2 DEF MeshInv, NoTerrain
    <3> QED
      BY <1>2, <2>2, <3>1, EmptyMeshFits DEF MeshInv, NoTerrain, meshVars
  <2>3. CASE Triangulate
    <3>1. IsMesh(triangulateTerrainGrid)
      BY <1>2, GridIsMesh DEF MeshInv
    <3> QED
      BY <1>2, <2>3, <3>1 DEF MeshInv, Triangulate
  <2>4. CASE FindFans
    <3>1. fans' = FansIn(triangles)
      BY <2>4, LinkedMeans, IncidentMeans DEF FindFans, FansIn
    <3> QED
      BY <1>2, <2>4, <3>1 DEF MeshInv, FindFans
  <2>5. CASE Split
    <3>1. SurfacesFit(triangles, fans, splitTerrainConnectedComponents)
      BY <1>2, <2>5, SplitMakesSurfaces DEF Split
    <3> QED
      BY <1>2, <2>5, <3>1 DEF MeshInv, Split
  <2>6. CASE UNCHANGED vars
    BY <1>2, <2>6 DEF MeshInv, vars, cropperVars, meshVars
  <2> QED
    BY <1>2, <2>1, <2>2, <2>3, <2>4, <2>5, <2>6 DEF Next, Done
<1> QED
  BY <1>1, <1>2, PTL DEF Spec

(* In every tile, whatever its grid and its gaps, splitTerrainConnected-   *)
(* Components divides the triangles into surfaces that can be walked from  *)
(* edge to edge and that keep to one fan at each of their vertices.        *)
THEOREM SurfacesStayInFans == Spec => []SurfacesKeepToFans
<1>1. MeshInv => SurfacesKeepToFans
  BY FittingMeans DEF MeshInv
<1> QED
  BY <1>1, MeshInvHolds, PTL

=============================================================================
