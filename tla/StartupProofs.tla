--------------------------- MODULE StartupProofs ---------------------------
(***************************************************************************)
(* Proofs about Configuration and Startup.  Each parameter has the value   *)
(* that its last option, the file or its default gives it: during a pass   *)
(* what is still to be read is the rest of the command line, and the       *)
(* values are those of the options before it (ConfigInv).  Buildings and   *)
(* attributes stay aligned, part after part and feature after feature.     *)
(* Each footprint is read once: the tiles without their upper edges are a  *)
(* partition of the region (ExtentsArePartition), each is read once, and a *)
(* reading adds as many copies of a footprint as it has valid parts.       *)
(*                                                                         *)
(* What a recursive read returns is proved from a minimal counterexample:  *)
(* StepsExist says that it has a value for every step, StepsStay that what *)
(* each step keeps the last one has.                                       *)
(*                                                                         *)
(* Then proofs about Logger, which main starts first of all: no message is *)
(* lost, doubled or overtaken, for any number of threads, messages and     *)
(* levels.                                                                 *)
(***************************************************************************)
EXTENDS Startup, Logger, FiniteSetTheorems, SequenceTheorems, WellFoundedInduction, TLAPS

(* Induction.                                                              *)

(* A non-empty set of subsets of a finite set has a minimal element. *)
LEMMA MinimalSubset ==
  ASSUME NEW S, IsFiniteSet(S), NEW C, C \subseteq SUBSET S, C # {}
  PROVE  \E A \in C : \A B \in C : B \subseteq A => B = A
<1>1. C \subseteq FiniteSubsetsOf(S)
  BY FS_FiniteSubsetsOfFinite
<1>2. PICK A \in C : \A B \in C : ~ (<<B, A>> \in StrictSubsetOrdering(S))
  BY <1>1, FS_StrictSubsetOrderingWellFounded, WFMin
<1> QED
  BY <1>2 DEF StrictSubsetOrdering

(* A non-empty set of natural numbers has a least one. *)
LEMMA LeastNumber ==
  ASSUME NEW T, T \subseteq Nat, T # {}
  PROVE  \E n \in T : \A m \in T : n <= m
<1>1. PICK k \in T : TRUE
  OBVIOUS
<1> DEFINE C == {0 .. m : m \in {x \in T : x <= k}}
<1>2. IsFiniteSet(0 .. k)
  BY FS_Interval
<1>3. C \subseteq SUBSET (0 .. k)
  OBVIOUS
<1>4. C # {}
  OBVIOUS
<1>5. \A m \in T : m <= k => 0 .. m \in C
  OBVIOUS
<1>6. \A B \in C : \E n \in T : B = 0 .. n /\ n <= k
  OBVIOUS
<1> HIDE DEF C
<1>7. PICK A \in C : \A B \in C : B \subseteq A => B = A
  <2> DEFINE S == 0 .. k
  <2>1. IsFiniteSet(S) /\ C \subseteq SUBSET S
    BY <1>2, <1>3
  <2> HIDE DEF S
  <2> QED
    BY <2>1, <1>4, MinimalSubset
<1>8. PICK n \in T : A = 0 .. n /\ n <= k
  BY <1>6
<1>9. ASSUME NEW m \in T, m < n PROVE FALSE
  <2>1. 0 .. m \in C /\ 0 .. m \subseteq A
    BY <1>5, <1>8, <1>9
  <2>2. n \notin 0 .. m /\ n \in A
    BY <1>8, <1>9
  <2> QED
    BY <1>7, <2>1, <2>2
<1> QED
  BY <1>9

(* What holds of the first of n steps, and of each when it holds of the one *)
(* before, holds of the last.                                              *)
LEMMA StepsStay ==
  ASSUME NEW n \in Nat, NEW h, NEW P, h[0] \in P[0],
         \A i \in 1 .. n : h[i - 1] \in P[i - 1] => h[i] \in P[i]
  PROVE  h[n] \in P[n]
<1> SUFFICES ASSUME h[n] \notin P[n] PROVE FALSE
  OBVIOUS
<1> DEFINE T == {i \in 0 .. n : h[i] \notin P[i]}
<1>1. T \subseteq Nat /\ T # {}
  OBVIOUS
<1>2. PICK m \in T : \A i \in T : m <= i
  <2> HIDE DEF T
  <2> QED
    BY <1>1, LeastNumber
<1>3. m # 0 /\ m \in 1 .. n /\ m - 1 \in 0 .. n
  OBVIOUS
<1>4. h[m - 1] \in P[m - 1]
  BY <1>2, <1>3
<1> QED
  BY <1>3, <1>4

(* Steps that stay in a set can be taken one after the other. *)
LEMMA StepsExist ==
  ASSUME NEW X, NEW base \in X, NEW n \in Nat, NEW step \in [1 .. n -> [X -> X]]
  PROVE  \E g \in [0 .. n -> X] : g[0] = base /\ \A i \in 1 .. n : g[i] = step[i][g[i - 1]]
<1> DEFINE Taken(m) == {g \in [0 .. m -> X] :
                          g[0] = base /\ \A i \in 1 .. m : g[i] = step[i][g[i - 1]]}
<1> DEFINE T == {m \in 0 .. n : Taken(m) = {}}
<1>1. CASE T = {}
  <2>1. n \notin T /\ n \in 0 .. n
    BY <1>1
  <2> QED
    BY <2>1
<1>2. CASE T # {}
  <2>1. PICK m \in T : \A i \in T : m <= i
    <3>1. T \subseteq Nat
      OBVIOUS
    <3> HIDE DEF T
    <3> QED
      BY <3>1, <1>2, LeastNumber
  <2>2. m # 0
    <3>1. [i \in 0 .. 0 |-> base] \in Taken(0)
      OBVIOUS
    <3> QED
      BY <3>1
  <2>3. m \in 1 .. n /\ m - 1 \in 0 .. n
    BY <2>2
  <2>4. m - 1 \notin T
    <3> HIDE DEF T
    <3> QED
      BY <2>1, <2>3
  <2>5. PICK g \in [0 .. m - 1 -> X] : g[0] = base /\ \A i \in 1 .. m - 1 : g[i] = step[i][g[i - 1]]
    BY <2>3, <2>4
  <2> DEFINE next == [i \in 0 .. m |-> IF i = m THEN step[m][g[m - 1]] ELSE g[i]]
  <2>6. step[m][g[m - 1]] \in X
    BY <2>3
  <2>7. next \in [0 .. m -> X] /\ next[0] = base
    BY <2>3, <2>5, <2>6
  <2>8. \A i \in 1 .. m : next[i] = step[i][next[i - 1]]
    <3> TAKE i \in 1 .. m
    <3>1. CASE i = m
      BY <2>3, <3>1
    <3>2. CASE i # m
      BY <2>3, <2>5, <3>2
    <3> QED
      BY <3>1, <3>2
  <2>9. next \in Taken(m)
    BY <2>7, <2>8
  <2> QED
    BY <2>9
<1> QED
  BY <1>1, <1>2

-----------------------------------------------------------------------------
(* Quotients.                                                              *)

LEMMA ProductGrows ==
  ASSUME NEW a \in Int, NEW b \in Int, a <= b, NEW n \in Nat
  PROVE  a * n <= b * n
BY SMT

LEMMA Quotient ==
  ASSUME NEW d \in Int, NEW n \in Nat \ {0}
  PROVE  /\ d \div n \in Int
         /\ (d \div n) * n <= d /\ d < (d \div n + 1) * n
         /\ d % n \in 0 .. n - 1 /\ d = (d \div n) * n + (d % n)
BY SMT

LEMMA QuotientIsUnique ==
  ASSUME NEW d \in Int, NEW n \in Nat \ {0}, NEW q \in Int, NEW r \in 0 .. n - 1, d = q * n + r
  PROVE  d \div n = q /\ d % n = r
BY SMT

LEMMA CellIsUnique ==
  ASSUME NEW d \in Int, NEW n \in Nat \ {0}, NEW a \in Int, NEW b \in Int,
         a * n <= d, d < (a + 1) * n, b * n <= d, d < (b + 1) * n
  PROVE  a = b
BY SMT

-----------------------------------------------------------------------------
(* What is read.                                                           *)

Indices == 1 .. Len(Layer)
Entries == {Layer[i].id : i \in Indices} \cup {"null"}
Matches(entry, i) == entry \in {Layer[i].id, "null"}

(* Reads whose columns go with the polygons. *)
IsAligned(read) ==
  \A f \in Columns :
    /\ Len(read.columns[f]) = Len(read.polygons)
    /\ \A k \in 1 .. Len(read.polygons) : Matches(read.columns[f][k], read.polygons[k])

Reads == {read \in [polygons : Seq(Indices), columns : [Columns -> Seq(Entries)]] :
            IsAligned(read)}

Copies(read, j) == Cardinality({k \in 1 .. Len(read.polygons) : read.polygons[k] = j})
ValidUpTo(i, k) == Cardinality({m \in 1 .. k : Layer[i].parts[m]})

LEMMA LayerFacts ==
  /\ Len(Layer) \in Nat
  /\ \A i \in Indices : /\ Layer[i] \in Features
                        /\ Layer[i].parts \in Seq(BOOLEAN) /\ Len(Layer[i].parts) \in Nat
                        /\ \A k \in 1 .. Len(Layer[i].parts) : Layer[i].parts[k] \in BOOLEAN
<1>1. Layer \in Seq(Features) /\ Len(Layer) \in Nat
  BY LayerAssumption, LenProperties
<1>2. ASSUME NEW i \in Indices
      PROVE  Layer[i] \in Features /\ Layer[i].parts \in Seq(BOOLEAN)
  <2>1. Layer[i] \in Features
    BY <1>1, ElementOfSeq DEF Indices
  <2> QED
    BY <2>1 DEF Features
<1>3. \A s \in Seq(BOOLEAN) : Len(s) \in Nat /\ \A k \in 1 .. Len(s) : s[k] \in BOOLEAN
  BY LenProperties, ElementOfSeq
<1> QED
  BY <1>1, <1>2, <1>3

LEMMA NothingIsAligned ==
  NothingRead \in Reads /\ \A j : Copies(NothingRead, j) = 0
<1>1. NothingRead \in [polygons : Seq(Indices), columns : [Columns -> Seq(Entries)]]
  BY DEF NothingRead
<1>2. IsAligned(NothingRead)
  BY DEF NothingRead, IsAligned
<1>3. ASSUME NEW j PROVE Copies(NothingRead, j) = 0
  <2>1. {k \in 1 .. Len(NothingRead.polygons) : NothingRead.polygons[k] = j} = {}
    BY DEF NothingRead
  <2> QED
    BY <2>1, FS_EmptySet DEF Copies
<1> QED
  BY <1>1, <1>2, <1>3 DEF Reads

(* A part that is pushed adds a polygon and an entry of every column. *)
LEMMA PartIsAligned ==
  ASSUME NEW read \in Reads, NEW i \in Indices, NEW isValid \in BOOLEAN
  PROVE  /\ ReadPart(read, i, isValid) \in Reads
         /\ \A j : Copies(ReadPart(read, i, isValid), j)
                     = Copies(read, j) + (IF isValid /\ i = j THEN 1 ELSE 0)
<1>1. /\ read.polygons \in Seq(Indices) /\ read.columns \in [Columns -> Seq(Entries)]
      /\ Len(read.polygons) \in Nat
  BY DEF Reads
<1>2. CASE ~isValid
  <2>1. \A j : Copies(read, j) \in Nat
    <3> TAKE j
    <3>1. IsFiniteSet(1 .. Len(read.polygons))
      BY <1>1, FS_Interval
    <3>2. IsFiniteSet({k \in 1 .. Len(read.polygons) : read.polygons[k] = j})
      BY <3>1, FS_Subset
    <3> QED
      BY <3>2, FS_CardinalityType DEF Copies
  <2> QED
    BY <1>2, <2>1 DEF ReadPart, Skips
<1>3. CASE isValid
  <2> DEFINE new == ReadPart(read, i, isValid)
             entry(f) == IF f \in Layer[i].nulls THEN "null" ELSE Layer[i].id
             n == Len(read.polygons)
  <2>1. /\ new.polygons = Append(read.polygons, i)
        /\ new.columns = [f \in Columns |-> Append(read.columns[f], entry(f))]
        /\ new = [polygons |-> new.polygons, columns |-> new.columns]
    BY <1>3 DEF ReadPart, Skips, PushAttributes
  <2>2. \A f \in Columns : entry(f) \in Entries /\ Matches(entry(f), i)
    BY DEF Entries, Matches
  <2>3. /\ new.polygons \in Seq(Indices) /\ Len(new.polygons) = n + 1
        /\ \A k \in 1 .. n : new.polygons[k] = read.polygons[k]
        /\ new.polygons[n + 1] = i
    BY <1>1, <2>1, AppendProperties
  <2>4. ASSUME NEW f \in Columns
        PROVE  /\ new.columns[f] \in Seq(Entries) /\ Len(new.columns[f]) = n + 1
               /\ \A k \in 1 .. n : new.columns[f][k] = read.columns[f][k]
               /\ new.columns[f][n + 1] = entry(f)
    <3>1. new.columns[f] = Append(read.columns[f], entry(f))
      BY <2>1
    <3>2. read.columns[f] \in Seq(Entries) /\ entry(f) \in Entries /\ Len(read.columns[f]) = n
      BY <1>1, <2>2 DEF Reads, IsAligned
    <3> QED
      BY <3>1, <3>2, AppendProperties
  <2>5. IsAligned(new)
    <3> SUFFICES ASSUME NEW f \in Columns
                 PROVE  /\ Len(new.columns[f]) = Len(new.polygons)
                        /\ \A k \in 1 .. Len(new.polygons) : Matches(new.columns[f][k], new.polygons[k])
      BY DEF IsAligned
    <3>1. \A k \in 1 .. n : Matches(read.columns[f][k], read.polygons[k])
      BY DEF Reads, IsAligned
    <3> HIDE DEF new, entry
    <3>2. \A k \in 1 .. n + 1 : k \in 1 .. n \/ k = n + 1
      BY <1>1
    <3> QED
      BY <2>2, <2>3, <2>4, <3>1, <3>2
  <2>6. new.columns \in [Columns -> Seq(Entries)]
    <3>1. \A f \in Columns : new.columns[f] \in Seq(Entries)
      BY <2>4
    <3> QED
      BY <2>1, <3>1
  <2>7. new \in Reads
    BY <2>1, <2>3, <2>5, <2>6 DEF Reads
  <2>8. ASSUME NEW j
        PROVE  Copies(new, j) = Copies(read, j) + (IF i = j THEN 1 ELSE 0)
    <3> DEFINE old == {k \in 1 .. n : read.polygons[k] = j}
               now == {k \in 1 .. Len(new.polygons) : new.polygons[k] = j}
    <3>1. now = IF i = j THEN old \cup {n + 1} ELSE old
      <4> HIDE DEF new
      <4> QED
        BY <1>1, <2>3
    <3>2. IsFiniteSet(1 .. n)
      BY <1>1, FS_Interval
    <3>3. IsFiniteSet(old) /\ n + 1 \notin old
      BY <1>1, <3>2, FS_Subset
    <3>4. Cardinality(old) \in Nat /\ Cardinality(old \cup {n + 1}) = Cardinality(old) + 1
      BY <3>3, FS_CardinalityType, FS_AddElement
    <3>5. Copies(new, j) = Cardinality(now) /\ Copies(read, j) = Cardinality(old)
      BY DEF Copies
    <3> HIDE DEF now, old
    <3> QED
      BY <3>1, <3>4, <3>5
  <2> QED
    BY <1>3, <2>7, <2>8
<1> QED
  BY <1>2, <1>3

LEMMA CopiesAreCounted ==
  ASSUME NEW read \in Reads
  PROVE  /\ Len(read.polygons) \in Nat
         /\ \A j : Copies(read, j) \in Nat
<1>1. Len(read.polygons) \in Nat
  BY DEF Reads
<1>2. ASSUME NEW j PROVE Copies(read, j) \in Nat
  <2>1. IsFiniteSet(1 .. Len(read.polygons))
    BY <1>1, FS_Interval
  <2>2. IsFiniteSet({k \in 1 .. Len(read.polygons) : read.polygons[k] = j})
    BY <2>1, FS_Subset
  <2> QED
    BY <2>2, FS_CardinalityType DEF Copies
<1> QED
  BY <1>1, <1>2

LEMMA ValidAreCounted ==
  ASSUME NEW i \in Indices
  PROVE  /\ ValidUpTo(i, 0) = 0
         /\ \A k \in 1 .. Len(Layer[i].parts) :
              ValidUpTo(i, k) = ValidUpTo(i, k - 1) + (IF Layer[i].parts[k] THEN 1 ELSE 0)
         /\ \A k \in 0 .. Len(Layer[i].parts) : ValidUpTo(i, k) \in Nat
<1> DEFINE valid(k) == {m \in 1 .. k : Layer[i].parts[m]}
<1>1. \A k \in Nat : IsFiniteSet(valid(k)) /\ Cardinality(valid(k)) \in Nat
  <2> TAKE k \in Nat
  <2>1. IsFiniteSet(1 .. k)
    BY FS_Interval
  <2>2. IsFiniteSet(valid(k))
    BY <2>1, FS_Subset
  <2> QED
    BY <2>2, FS_CardinalityType
<1>2. ValidUpTo(i, 0) = 0
  <2>1. valid(0) = {}
    OBVIOUS
  <2> QED
    BY <2>1, FS_EmptySet DEF ValidUpTo
<1>3. Len(Layer[i].parts) \in Nat
  BY LayerFacts
<1>4. ASSUME NEW k \in 1 .. Len(Layer[i].parts)
      PROVE  ValidUpTo(i, k) = ValidUpTo(i, k - 1) + (IF Layer[i].parts[k] THEN 1 ELSE 0)
  <2>1. k \in Nat /\ k - 1 \in Nat
    BY <1>3
  <2>2. k \notin valid(k - 1) /\ valid(k) = IF Layer[i].parts[k] THEN valid(k - 1) \cup {k} ELSE valid(k - 1)
    BY <1>3
  <2>3. Cardinality(valid(k - 1) \cup {k}) = Cardinality(valid(k - 1)) + 1
    <3> HIDE DEF valid
    <3> QED
      BY <1>1, <2>1, <2>2, FS_AddElement
  <2>4. ValidUpTo(i, k) = Cardinality(valid(k)) /\ ValidUpTo(i, k - 1) = Cardinality(valid(k - 1))
    BY DEF ValidUpTo
  <2> HIDE DEF valid
  <2> QED
    BY <1>1, <2>1, <2>2, <2>3, <2>4
<1>5. \A k \in 0 .. Len(Layer[i].parts) : ValidUpTo(i, k) \in Nat
  <2>1. \A k \in Nat : ValidUpTo(i, k) \in Nat
    BY <1>1 DEF ValidUpTo
  <2> QED
    BY <1>3, <2>1
<1> QED
  BY <1>2, <1>4, <1>5

(* A feature in the tile adds as many copies of itself as it has valid      *)
(* parts, any other nothing.                                               *)
LEMMA FeatureIsAligned ==
  ASSUME NEW read \in Reads, NEW i \in Indices, NEW extent
  PROVE  /\ ReadFeature(read, i, extent) \in Reads
         /\ \A j : Copies(ReadFeature(read, i, extent), j)
                     = Copies(read, j) + (IF InTile(i, extent) /\ i = j THEN PartsOf(i) ELSE 0)
<1> DEFINE parts == Layer[i].parts
           n == Len(parts)
<1>1. n \in Nat /\ \A k \in 1 .. n : parts[k] \in BOOLEAN
  BY LayerFacts
<1>2. CASE ~InTile(i, extent)
  BY <1>2, CopiesAreCounted DEF ReadFeature
<1>3. CASE InTile(i, extent)
  <2> DEFINE Step(g) == [k \in 0 .. n |-> IF k = 0 THEN read ELSE ReadPart(g[k - 1], i, parts[k])]
             upto == CHOOSE g : g = Step(g)
             step == [k \in 1 .. n |-> [r \in Reads |-> ReadPart(r, i, parts[k])]]
  <2>1. ReadFeature(read, i, extent) = upto[n]
    BY <1>3 DEF ReadFeature
  <2>2. upto = Step(upto)
    <3>1. \A k \in 1 .. n : [r \in Reads |-> ReadPart(r, i, parts[k])] \in [Reads -> Reads]
      BY <1>1, PartIsAligned
    <3>2. step \in [1 .. n -> [Reads -> Reads]]
      BY <3>1
    <3>3. PICK g \in [0 .. n -> Reads] :
            g[0] = read /\ \A k \in 1 .. n : g[k] = step[k][g[k - 1]]
      <4>1. ASSUME NEW m \in Nat, NEW s \in [1 .. m -> [Reads -> Reads]]
            PROVE  \E g \in [0 .. m -> Reads] :
                     g[0] = read /\ \A k \in 1 .. m : g[k] = s[k][g[k - 1]]
        BY StepsExist, SMT
      <4>2. n \in Nat
        BY <1>1
      <4> HIDE DEF step, n
      <4> QED
        BY <3>2, <4>1, <4>2, SMT
    <3>4. \A k \in 1 .. n : step[k][g[k - 1]] = ReadPart(g[k - 1], i, parts[k])
      <4> TAKE k \in 1 .. n
      <4>1. g[k - 1] \in Reads
        BY <1>1
      <4> QED
        BY <4>1
    <3>5. g = Step(g)
      <4>1. \A k \in 0 .. n : g[k] = IF k = 0 THEN read ELSE ReadPart(g[k - 1], i, parts[k])
        <5> HIDE DEF step, parts, n
        <5> QED
          BY <1>1, <3>3, <3>4
      <4> QED
        BY <4>1
    <3> QED
      BY <3>5
  <2> HIDE DEF upto, step
  <2>3. upto[0] = read /\ \A k \in 1 .. n : upto[k] = ReadPart(upto[k - 1], i, parts[k])
    <3>1. \A k \in 0 .. n : upto[k] = IF k = 0 THEN read ELSE ReadPart(upto[k - 1], i, parts[k])
      <4> DEFINE def == Step(upto)
      <4>1. \A k \in 0 .. n : def[k] = IF k = 0 THEN read ELSE ReadPart(upto[k - 1], i, parts[k])
        OBVIOUS
      <4> QED
        BY <2>2, <4>1
    <3> QED
      BY <1>1, <3>1
  <2> DEFINE P == [k \in 0 .. n |->
                     {r \in Reads : \A j : Copies(r, j) = Copies(read, j)
                                             + (IF i = j THEN ValidUpTo(i, k) ELSE 0)}]
  <2>4. upto[0] \in P[0]
    <3>1. ValidUpTo(i, 0) = 0 /\ \A j : Copies(read, j) \in Nat
      BY ValidAreCounted, CopiesAreCounted
    <3>2. \A j : Copies(read, j) = Copies(read, j) + (IF i = j THEN ValidUpTo(i, 0) ELSE 0)
      BY <3>1
    <3> QED
      BY <1>1, <2>3, <3>2
  <2>5. ASSUME NEW k \in 1 .. n, upto[k - 1] \in P[k - 1]
        PROVE  upto[k] \in P[k]
    <3>1. k \in 0 .. n /\ k - 1 \in 0 .. n
      BY <1>1
    <3>2. /\ upto[k - 1] \in Reads
          /\ \A j : Copies(upto[k - 1], j) = Copies(read, j) + (IF i = j THEN ValidUpTo(i, k - 1) ELSE 0)
      BY <2>5, <3>1
    <3>3. /\ upto[k] \in Reads
          /\ \A j : Copies(upto[k], j) = Copies(upto[k - 1], j) + (IF parts[k] /\ i = j THEN 1 ELSE 0)
      BY <1>1, <2>3, <3>2, PartIsAligned
    <3>4. /\ ValidUpTo(i, k) = ValidUpTo(i, k - 1) + (IF parts[k] THEN 1 ELSE 0)
          /\ ValidUpTo(i, k) \in Nat /\ ValidUpTo(i, k - 1) \in Nat
      BY <3>1, ValidAreCounted
    <3>5. \A j : Copies(read, j) \in Nat
      BY CopiesAreCounted
    <3> HIDE DEF parts, n
    <3>6. \A j : Copies(upto[k], j) = Copies(read, j) + (IF i = j THEN ValidUpTo(i, k) ELSE 0)
      BY <1>1, <3>2, <3>3, <3>4, <3>5
    <3> QED
      BY <3>1, <3>3, <3>6
  <2>6. upto[n] \in P[n]
    <3> HIDE DEF P, n
    <3> QED
      BY <1>1, <2>4, <2>5, StepsStay
  <2>7. ValidUpTo(i, n) = PartsOf(i)
    BY DEF ValidUpTo, PartsOf
  <2>8. upto[n] \in Reads /\ \A j : Copies(upto[n], j) = Copies(read, j) + (IF i = j THEN ValidUpTo(i, n) ELSE 0)
    BY <1>1, <2>6
  <2> QED
    BY <1>3, <2>1, <2>7, <2>8
<1> QED
  BY <1>2, <1>3

(* What is read for a tile is every feature in it, part by part, and        *)
(* nothing else.                                                           *)
LEMMA LayerIsAligned ==
  ASSUME NEW extent
  PROVE  /\ ReadPolygons(extent) \in Reads
         /\ \A j \in Indices : Copies(ReadPolygons(extent), j) = IF InTile(j, extent) THEN PartsOf(j) ELSE 0
<1> DEFINE n == Len(Layer)
           Step(g) == [i \in 0 .. n |-> IF i = 0 THEN NothingRead ELSE ReadFeature(g[i - 1], i, extent)]
           upto == CHOOSE g : g = Step(g)
           step == [i \in 1 .. n |-> [r \in Reads |-> ReadFeature(r, i, extent)]]
<1>1. n \in Nat /\ Indices = 1 .. n
  BY LayerFacts DEF Indices
<1>2. ReadPolygons(extent) = upto[n]
  BY DEF ReadPolygons
<1>3. upto = Step(upto)
  <2>1. \A i \in 1 .. n : [r \in Reads |-> ReadFeature(r, i, extent)] \in [Reads -> Reads]
    BY <1>1, FeatureIsAligned
  <2>2. step \in [1 .. n -> [Reads -> Reads]]
    BY <2>1
  <2>3. PICK g \in [0 .. n -> Reads] :
          g[0] = NothingRead /\ \A i \in 1 .. n : g[i] = step[i][g[i - 1]]
    <3>1. ASSUME NEW b \in Reads, NEW m \in Nat, NEW s \in [1 .. m -> [Reads -> Reads]]
          PROVE  \E g \in [0 .. m -> Reads] : g[0] = b /\ \A k \in 1 .. m : g[k] = s[k][g[k - 1]]
      BY StepsExist, SMT
    <3>2. n \in Nat /\ NothingRead \in Reads
      BY <1>1, NothingIsAligned
    <3> HIDE DEF step, n
    <3> QED
      BY <2>2, <3>1, <3>2, SMT
  <2>4. \A i \in 1 .. n : step[i][g[i - 1]] = ReadFeature(g[i - 1], i, extent)
    <3> TAKE i \in 1 .. n
    <3>1. g[i - 1] \in Reads
      BY <1>1
    <3> QED
      BY <3>1
  <2>5. g = Step(g)
    <3>1. \A i \in 0 .. n : g[i] = IF i = 0 THEN NothingRead ELSE ReadFeature(g[i - 1], i, extent)
      <4> HIDE DEF step, n
      <4> QED
        BY <1>1, <2>3, <2>4
    <3> QED
      BY <3>1
  <2> QED
    BY <2>5
<1> HIDE DEF upto, step
<1>4. upto[0] = NothingRead /\ \A i \in 1 .. n : upto[i] = ReadFeature(upto[i - 1], i, extent)
  <2>1. \A i \in 0 .. n : upto[i] = IF i = 0 THEN NothingRead ELSE ReadFeature(upto[i - 1], i, extent)
    <3> DEFINE def == Step(upto)
    <3>1. \A i \in 0 .. n : def[i] = IF i = 0 THEN NothingRead ELSE ReadFeature(upto[i - 1], i, extent)
      OBVIOUS
    <3> QED
      BY <1>3, <3>1
  <2> QED
    BY <1>1, <2>1
<1> DEFINE wanted(j) == IF InTile(j, extent) THEN PartsOf(j) ELSE 0
           P == [i \in 0 .. n |-> {r \in Reads : \A j \in Indices : Copies(r, j) = IF j <= i THEN wanted(j) ELSE 0}]
<1>5. upto[0] \in P[0]
  <2>1. \A j \in Indices : ~(j <= 0)
    BY <1>1
  <2> HIDE DEF n
  <2> QED
    BY <1>1, <1>4, <2>1, NothingIsAligned
<1>6. ASSUME NEW i \in 1 .. n, upto[i - 1] \in P[i - 1]
      PROVE  upto[i] \in P[i]
  <2>1. i \in 0 .. n /\ i - 1 \in 0 .. n /\ i \in Indices
    BY <1>1
  <2>2. /\ upto[i - 1] \in Reads
        /\ \A j \in Indices : Copies(upto[i - 1], j) = IF j <= i - 1 THEN wanted(j) ELSE 0
    BY <1>6, <2>1
  <2>3. /\ upto[i] \in Reads
        /\ \A j : Copies(upto[i], j) = Copies(upto[i - 1], j)
                                         + (IF InTile(i, extent) /\ i = j THEN PartsOf(i) ELSE 0)
    BY <1>4, <2>1, <2>2, FeatureIsAligned
  <2>4. \A j \in Indices : wanted(j) \in Nat
    <3> SUFFICES ASSUME NEW j \in Indices PROVE PartsOf(j) \in Nat
      OBVIOUS
    <3> DEFINE m == Len(Layer[j].parts)
    <3>0. m \in Nat
      BY LayerFacts
    <3>1. IsFiniteSet(1 .. m)
      <4> HIDE DEF m
      <4> QED
        BY <3>0, FS_Interval
    <3>2. IsFiniteSet({k \in 1 .. Len(Layer[j].parts) : Layer[j].parts[k]})
      BY <3>1, FS_Subset
    <3> QED
      BY <3>2, FS_CardinalityType DEF PartsOf
  <2>5. \A j \in Indices : Copies(upto[i], j) = IF j <= i THEN wanted(j) ELSE 0
    <3> TAKE j \in Indices
    <3>1. CASE j = i
      BY <1>1, <2>1, <2>2, <2>3, <2>4, <3>1
    <3>2. CASE j # i
      <4>1. Copies(upto[i], j) = Copies(upto[i - 1], j) + 0
        BY <2>3, <3>2
      <4>2. j \in Nat /\ i \in Nat /\ (j <= i <=> j <= i - 1)
        BY <1>1, <2>1, <3>2
      <4> HIDE DEF wanted
      <4> QED
        BY <2>2, <2>4, <4>1, <4>2
    <3> QED
      BY <3>1, <3>2
  <2> QED
    BY <2>1, <2>3, <2>5
<1>7. upto[n] \in P[n]
  <2> HIDE DEF P, n
  <2> QED
    BY <1>1, <1>5, <1>6, StepsStay
<1>8. \A j \in Indices : j <= n
  BY <1>1
<1> QED
  BY <1>1, <1>2, <1>7, <1>8

(* Whatever was skipped, the columns of the attributes are as long as the   *)
(* list of footprints, and each entry is that of the footprint beside it.  *)
THEOREM AttributesStayAligned == Spec => []AttributesAligned
<1> DEFINE AllRead1 == \A t \in DOMAIN found : found[t] \in Reads
<1>1. StartupInit => AllRead1
  BY DEF StartupInit
<1>2. AllRead1 /\ [Next]_vars => AllRead1'
  <2> SUFFICES ASSUME AllRead1, [Next]_vars PROVE AllRead1'
    OBVIOUS
  <2>1. CASE UNCHANGED found
    BY <2>1
  <2>2. CASE ReadTile
    BY <2>2, LayerIsAligned DEF ReadTile
  <2>3. UNCHANGED found \/ ReadTile
    BY DEF Next, vars, tileVars, MakeTiles
  <2> QED
    BY <2>1, <2>2, <2>3
<1>3. AllRead1 => AttributesAligned
  BY DEF AttributesAligned, Reads, IsAligned, Matches
<1> QED
  BY <1>1, <1>2, <1>3, PTL DEF Spec

-----------------------------------------------------------------------------
(* The region and its tiles.                                               *)

LEMMA LeastInteger ==
  ASSUME NEW S, IsFiniteSet(S), S # {}, \A x \in S : x \in Int
  PROVE  Min(S) \in S /\ \A y \in S : Min(S) <= y
<1> DEFINE C == {{y \in S : y <= x} : x \in S}
<1>1. C \subseteq SUBSET S /\ C # {}
  OBVIOUS
<1>2. PICK A \in C : \A B \in C : B \subseteq A => B = A
  <2> DEFINE D == S
  <2>1. IsFiniteSet(D) /\ C \subseteq SUBSET D
    BY <1>1
  <2> HIDE DEF C, D
  <2> QED
    BY <1>1, <2>1, MinimalSubset
<1>3. PICK x \in S : A = {y \in S : y <= x}
  OBVIOUS
<1>4. ASSUME NEW z \in S, z < x PROVE FALSE
  <2>0. \A y \in S : y <= z => y <= x
    BY <1>4
  <2>1. {y \in S : y <= z} \in C /\ {y \in S : y <= z} \subseteq A
    BY <1>3, <2>0
  <2>2. x \in A /\ x \notin {y \in S : y <= z}
    BY <1>3, <1>4
  <2> QED
    BY <1>2, <2>1, <2>2
<1>5. \A y \in S : x <= y
  BY <1>4
<1> QED
  BY <1>5 DEF Min

LEMMA GreatestInteger ==
  ASSUME NEW S, IsFiniteSet(S), S # {}, \A x \in S : x \in Int
  PROVE  Max(S) \in S /\ \A y \in S : y <= Max(S)
<1> DEFINE C == {{y \in S : x <= y} : x \in S}
<1>1. C \subseteq SUBSET S /\ C # {}
  OBVIOUS
<1>2. PICK A \in C : \A B \in C : B \subseteq A => B = A
  <2> DEFINE D == S
  <2>1. IsFiniteSet(D) /\ C \subseteq SUBSET D
    BY <1>1
  <2> HIDE DEF C, D
  <2> QED
    BY <1>1, <2>1, MinimalSubset
<1>3. PICK x \in S : A = {y \in S : x <= y}
  OBVIOUS
<1>4. ASSUME NEW z \in S, x < z PROVE FALSE
  <2>0. \A y \in S : z <= y => x <= y
    BY <1>4
  <2>1. {y \in S : z <= y} \in C /\ {y \in S : z <= y} \subseteq A
    BY <1>3, <2>0
  <2>2. x \in A /\ x \notin {y \in S : z <= y}
    BY <1>3, <1>4
  <2> QED
    BY <1>2, <2>1, <2>2
<1>5. \A y \in S : x >= y
  BY <1>4
<1> QED
  BY <1>5 DEF Max

HasRegion == value["box"].from # "default" \/ WithGeometry # {}

LEMMA RegionIsBox ==
  ASSUME HasRegion
  PROVE  RegionOfInterest \in Boxes /\ IsOrdered(RegionOfInterest)
<1>1. CASE value["box"].from # "default"
  BY <1>1, UserBoxAssumption DEF RegionOfInterest
<1>2. CASE value["box"].from = "default"
  <2>1. WithGeometry # {} /\ RegionOfInterest = LayerExtent
    BY <1>2 DEF HasRegion, RegionOfInterest
  <2>2. \A i \in Indices : Layer[i].box \in Boxes /\ IsOrdered(Layer[i].box)
    <3> TAKE i \in Indices
    <3>1. Layer[i].box \in Boxes /\ Layer[i].centroid \in [x : Int, y : Int]
      BY LayerFacts DEF Features
    <3>2. LET b == Layer[i].box  c == Layer[i].centroid
          IN  b.x0 <= c.x /\ c.x <= b.x1 /\ b.y0 <= c.y /\ c.y <= b.y1
      BY LayerAssumption DEF Indices
    <3> QED
      BY <3>1, <3>2 DEF Boxes, IsOrdered
  <2>3. WithGeometry \subseteq Indices /\ IsFiniteSet(WithGeometry)
    <3> DEFINE n == Len(Layer)
    <3>1. n \in Nat /\ Indices = 1 .. n
      BY LayerFacts DEF Indices
    <3>2. IsFiniteSet(1 .. n)
      <4> HIDE DEF n
      <4> QED
        BY <3>1, FS_Interval
    <3>3. WithGeometry \subseteq Indices
      BY DEF WithGeometry, Selected, Indices
    <3> QED
      BY <3>1, <3>2, <3>3, FS_Subset
  <2> DEFINE X0 == {Layer[i].box.x0 : i \in WithGeometry}
             Y0 == {Layer[i].box.y0 : i \in WithGeometry}
             X1 == {Layer[i].box.x1 : i \in WithGeometry}
             Y1 == {Layer[i].box.y1 : i \in WithGeometry}
  <2>4. /\ X0 \in SUBSET Int /\ Y0 \in SUBSET Int /\ X1 \in SUBSET Int /\ Y1 \in SUBSET Int
        /\ X0 # {} /\ Y0 # {} /\ X1 # {} /\ Y1 # {}
    BY <2>1, <2>2, <2>3 DEF Boxes
  <2>5. IsFiniteSet(X0) /\ IsFiniteSet(Y0) /\ IsFiniteSet(X1) /\ IsFiniteSet(Y1)
    <3> DEFINE fx0 == [i \in WithGeometry |-> Layer[i].box.x0]
               fy0 == [i \in WithGeometry |-> Layer[i].box.y0]
               fx1 == [i \in WithGeometry |-> Layer[i].box.x1]
               fy1 == [i \in WithGeometry |-> Layer[i].box.y1]
    <3>1. fx0 \in Surjection(WithGeometry, X0) /\ fy0 \in Surjection(WithGeometry, Y0)
      BY DEF Surjection
    <3>2. fx1 \in Surjection(WithGeometry, X1) /\ fy1 \in Surjection(WithGeometry, Y1)
      BY DEF Surjection
    <3> HIDE DEF X0, Y0, X1, Y1, fx0, fy0, fx1, fy1
    <3> QED
      BY <2>3, <3>1, <3>2, FS_Surjection
  <2>6. PICK i \in WithGeometry : TRUE
    BY <2>1
  <2>7. /\ Layer[i].box \in Boxes /\ IsOrdered(Layer[i].box)
        /\ Layer[i].box.x0 \in X0 /\ Layer[i].box.y0 \in Y0 /\ Layer[i].box.x1 \in X1 /\ Layer[i].box.y1 \in Y1
    BY <2>2, <2>3
  <2>8. LayerExtent = [x0 |-> Min(X0), y0 |-> Min(Y0), x1 |-> Max(X1), y1 |-> Max(Y1)]
    BY DEF LayerExtent, Box
  <2> HIDE DEF X0, Y0, X1, Y1
  <2>9. /\ Min(X0) \in Int /\ Min(Y0) \in Int /\ Max(X1) \in Int /\ Max(Y1) \in Int
        /\ Min(X0) <= Layer[i].box.x0 /\ Min(Y0) <= Layer[i].box.y0
        /\ Layer[i].box.x1 <= Max(X1) /\ Layer[i].box.y1 <= Max(Y1)
    BY <2>4, <2>5, <2>7, LeastInteger, GreatestInteger
  <2> QED
    BY <2>1, <2>7, <2>8, <2>9 DEF Boxes, IsOrdered
<1> QED
  BY <1>1, <1>2

LEMMA BoxesAreBoxes ==
  /\ \A a, b, c, d \in Int : Box(a, b, c, d) \in Boxes
  /\ \A r \in Boxes : r # NoBox
<1>1. \A a, b, c, d \in Int : Box(a, b, c, d) \in Boxes
  BY DEF Box, Boxes
<1>2. ASSUME NEW r \in Boxes PROVE r # NoBox
  <2>1. DOMAIN r = {"x0", "y0", "x1", "y1"} /\ DOMAIN NoBox = {"none"}
    BY DEF Boxes, NoBox
  <2> QED
    BY <2>1
<1> QED
  BY <1>1, <1>2

Points == [x : Int, y : Int]

(* An intersection has the points of both boxes. *)
LEMMA IntersectionCovers ==
  ASSUME NEW a \in Boxes, NEW b \in Boxes, NEW p \in Points
  PROVE  /\ Intersect(a, b) # NoBox => (Covers(Intersect(a, b), p) <=> Covers(a, p) /\ Covers(b, p))
         /\ Covers(a, p) /\ Covers(b, p) => Intersect(a, b) # NoBox
         /\ Intersect(a, b) # NoBox => Intersect(a, b) \in Boxes
<1> DEFINE r == Box(Larger(a.x0, b.x0), Larger(a.y0, b.y0), Smaller(a.x1, b.x1), Smaller(a.y1, b.y1))
<1>1. /\ a.x0 \in Int /\ a.y0 \in Int /\ a.x1 \in Int /\ a.y1 \in Int
      /\ b.x0 \in Int /\ b.y0 \in Int /\ b.x1 \in Int /\ b.y1 \in Int
      /\ p.x \in Int /\ p.y \in Int
  BY DEF Boxes, Points
<1>2. /\ r.x0 = Larger(a.x0, b.x0) /\ r.y0 = Larger(a.y0, b.y0)
      /\ r.x1 = Smaller(a.x1, b.x1) /\ r.y1 = Smaller(a.y1, b.y1)
  BY DEF Box
<1>3. r \in Boxes
  BY <1>1, BoxesAreBoxes DEF Larger, Smaller
<1>4. Intersect(a, b) = IF r.x0 > r.x1 \/ r.y0 > r.y1 THEN NoBox ELSE r
  BY DEF Intersect
<1>5. Covers(r, p) <=> Covers(a, p) /\ Covers(b, p)
  BY <1>1, <1>2 DEF Covers, Larger, Smaller
<1>6. Covers(r, p) => r.x0 <= r.x1 /\ r.y0 <= r.y1
  BY <1>1, <1>3 DEF Covers, Boxes
<1>7. r # NoBox /\ r.x0 \in Int /\ r.x1 \in Int /\ r.y0 \in Int /\ r.y1 \in Int
  BY <1>3, BoxesAreBoxes DEF Boxes
<1> HIDE DEF r
<1>8. CASE r.x0 > r.x1 \/ r.y0 > r.y1
  <2>1. ~(r.x0 <= r.x1 /\ r.y0 <= r.y1)
    BY <1>7, <1>8
  <2> QED
    BY <1>4, <1>5, <1>6, <1>8, <2>1
<1>9. CASE ~(r.x0 > r.x1 \/ r.y0 > r.y1)
  BY <1>3, <1>4, <1>5, <1>7, <1>9
<1> QED
  BY <1>8, <1>9

(* The tiles of a region are a grid: each of its points is in one of them. *)
LEMMA TilesAreGrid ==
  ASSUME NEW roi \in Boxes, IsOrdered(roi), NEW p \in Points
  PROVE  LET all == CreateTiles(roi) IN
         /\ Len(all) \in Nat
         /\ \A t \in 1 .. Len(all) : all[t] \in Boxes
         /\ Covers(roi, p) => \E t \in 1 .. Len(all) : Covers(all[t], p)
         /\ \A t, u \in 1 .. Len(all) : Covers(all[t], p) /\ Covers(all[u], p) => t = u
<1> DEFINE n == TileSize
           dimx == (roi.x1 - roi.x0) \div n + 1
           dimy == (roi.y1 - roi.y0) \div n + 1
           Col(t) == (t - 1) \div dimy
           Row(t) == (t - 1) % dimy
           all == CreateTiles(roi)
<1>1. /\ n \in Nat \ {0}
      /\ roi.x0 \in Int /\ roi.y0 \in Int /\ roi.x1 \in Int /\ roi.y1 \in Int
      /\ roi.x0 <= roi.x1 /\ roi.y0 <= roi.y1 /\ p.x \in Int /\ p.y \in Int
  BY SizeAssumption DEF Boxes, Points, IsOrdered
<1>2. ASSUME NEW d \in Nat PROVE d \div n \in Nat
  <2>1. d \in Int /\ d \div n \in Int /\ d < (d \div n + 1) * n
    BY <1>1, Quotient
  <2>2. CASE d \div n + 1 <= 0
    <3>1. (d \div n + 1) * n <= 0 * n
      BY <1>1, <2>1, <2>2, ProductGrows
    <3> QED
      BY <1>1, <2>1, <3>1
  <2> QED
    BY <2>1, <2>2
<1>3. dimx \in Nat \ {0} /\ dimy \in Nat \ {0}
  <2>1. roi.x1 - roi.x0 \in Nat /\ roi.y1 - roi.y0 \in Nat
    BY <1>1
  <2>2. (roi.x1 - roi.x0) \div n \in Nat /\ (roi.y1 - roi.y0) \div n \in Nat
    BY <1>2, <2>1
  <2> QED
    BY <2>2
<1>4. all = [t \in 1 .. dimx * dimy |->
               Box(roi.x0 + Col(t) * n, roi.y0 + Row(t) * n,
                   roi.x0 + (Col(t) + 1) * n, roi.y0 + (Row(t) + 1) * n)]
  BY DEF CreateTiles
<1> HIDE DEF dimx, dimy
<1>5. dimx * dimy \in Nat
  BY <1>3
<1>6. ASSUME NEW t \in 1 .. dimx * dimy
      PROVE  /\ Col(t) \in Int /\ Row(t) \in 0 .. dimy - 1 /\ t - 1 = Col(t) * dimy + Row(t)
             /\ all[t] = Box(roi.x0 + Col(t) * n, roi.y0 + Row(t) * n,
                             roi.x0 + (Col(t) + 1) * n, roi.y0 + (Row(t) + 1) * n)
             /\ all[t] \in Boxes
  <2>1. t - 1 \in Int
    BY <1>5
  <2>2. Col(t) \in Int /\ Row(t) \in 0 .. dimy - 1 /\ t - 1 = Col(t) * dimy + Row(t)
    BY <1>3, <2>1, Quotient
  <2>3. all[t] = Box(roi.x0 + Col(t) * n, roi.y0 + Row(t) * n,
                     roi.x0 + (Col(t) + 1) * n, roi.y0 + (Row(t) + 1) * n)
    BY <1>4
  <2>4. Row(t) \in Int
    BY <1>3, <2>2
  <2> HIDE DEF Col, Row, n, all
  <2> QED
    BY <1>1, <2>2, <2>3, <2>4, BoxesAreBoxes
<1>7. Len(all) = dimx * dimy
  <2>1. all \in [1 .. dimx * dimy -> Boxes]
    <3>1. \A t \in 1 .. dimx * dimy : all[t] \in Boxes
      BY <1>6
    <3> QED
      BY <1>4, <3>1
  <2>2. all \in Seq(Boxes)
    BY <1>5, <2>1, SeqDef
  <2>3. DOMAIN all = 1 .. Len(all) /\ Len(all) \in Nat /\ DOMAIN all = 1 .. dimx * dimy
    BY <2>1, <2>2, LenProperties
  <2> HIDE DEF all
  <2> QED
    BY <1>5, <2>3
(* Where a tile lies that has the point in it. *)
<1>8. ASSUME NEW t \in 1 .. dimx * dimy
      PROVE  Covers(all[t], p) <=>
               /\ Col(t) * n <= p.x - roi.x0 /\ p.x - roi.x0 < (Col(t) + 1) * n
               /\ Row(t) * n <= p.y - roi.y0 /\ p.y - roi.y0 < (Row(t) + 1) * n
  <2>1. Col(t) \in Int /\ Row(t) \in Int /\ n \in Int
    BY <1>1, <1>3, <1>6
  <2>2. /\ all[t].x0 = roi.x0 + Col(t) * n /\ all[t].y0 = roi.y0 + Row(t) * n
        /\ all[t].x1 = roi.x0 + (Col(t) + 1) * n /\ all[t].y1 = roi.y0 + (Row(t) + 1) * n
    <3>1. all[t] = Box(roi.x0 + Col(t) * n, roi.y0 + Row(t) * n,
                       roi.x0 + (Col(t) + 1) * n, roi.y0 + (Row(t) + 1) * n)
      BY <1>6
    <3>2. \A a, b, c, d : /\ Box(a, b, c, d).x0 = a /\ Box(a, b, c, d).y0 = b
                          /\ Box(a, b, c, d).x1 = c /\ Box(a, b, c, d).y1 = d
      BY DEF Box
    <3> HIDE DEF Col, Row, n, all
    <3> QED
      BY <3>1, <3>2
  <2> HIDE DEF Col, Row, n, all
  <2> DEFINE a == Col(t) * n
             b == (Col(t) + 1) * n
             c == Row(t) * n
             d == (Row(t) + 1) * n
  <2>3. a \in Int /\ b \in Int /\ c \in Int /\ d \in Int
    BY <2>1
  <2>4. /\ all[t].x0 = roi.x0 + a /\ all[t].y0 = roi.y0 + c
        /\ all[t].x1 = roi.x0 + b /\ all[t].y1 = roi.y0 + d
    BY <2>2
  <2> HIDE DEF a, b, c, d
  <2>5. Covers(all[t], p) <=> a <= p.x - roi.x0 /\ p.x - roi.x0 < b /\ c <= p.y - roi.y0 /\ p.y - roi.y0 < d
    BY <1>1, <2>3, <2>4 DEF Covers
  <2> QED
    BY <2>5 DEF a, b, c, d
<1>9. ASSUME NEW t \in 1 .. dimx * dimy, NEW u \in 1 .. dimx * dimy, Covers(all[t], p), Covers(all[u], p)
      PROVE  t = u
  <2>1. p.x - roi.x0 \in Int /\ p.y - roi.y0 \in Int
    BY <1>1
  <2>2. Col(t) \in Int /\ Row(t) \in Int /\ Col(u) \in Int /\ Row(u) \in Int
    BY <1>3, <1>6
  <2>3. Col(t) = Col(u) /\ Row(t) = Row(u)
    <3> HIDE DEF Col, Row, n, all
    <3> QED
      BY <1>1, <1>8, <1>9, <2>1, <2>2, CellIsUnique
  <2>4. t - 1 = Col(t) * dimy + Row(t) /\ u - 1 = Col(u) * dimy + Row(u) /\ t \in Int /\ u \in Int
    BY <1>5, <1>6
  <2> HIDE DEF Col, Row
  <2> QED
    BY <2>3, <2>4
<1>10. ASSUME Covers(roi, p)
       PROVE  \E t \in 1 .. dimx * dimy : Covers(all[t], p)
  <2> DEFINE dx == p.x - roi.x0
             dy == p.y - roi.y0
             c == dx \div n
             r == dy \div n
             t == c * dimy + r + 1
  <2>1. /\ dx \in Nat /\ dy \in Nat /\ roi.x1 - roi.x0 \in Int /\ roi.y1 - roi.y0 \in Int
        /\ dx <= roi.x1 - roi.x0 /\ dy <= roi.y1 - roi.y0
    BY <1>1, <1>10 DEF Covers
  <2>2. c \in Nat /\ r \in Nat
    BY <1>2, <2>1
  <2>3. ASSUME NEW d \in Nat, NEW e \in Int, d <= e PROVE d \div n <= e \div n
    <3>1. /\ d \div n \in Int /\ e \div n \in Int
          /\ (d \div n) * n <= d /\ e < (e \div n + 1) * n
      BY <1>1, Quotient
    <3>2. CASE e \div n + 1 <= d \div n
      <4>1. (e \div n + 1) * n <= (d \div n) * n
        BY <1>1, <3>1, <3>2, ProductGrows
      <4>2. (e \div n + 1) * n \in Int /\ (d \div n) * n \in Int
        BY <1>1, <3>1
      <4> QED
        BY <2>3, <3>1, <4>1, <4>2
    <3> QED
      BY <3>1, <3>2
  <2>4. c \in 0 .. dimx - 1 /\ r \in 0 .. dimy - 1
    <3>1. c <= (roi.x1 - roi.x0) \div n /\ r <= (roi.y1 - roi.y0) \div n
      <4> HIDE DEF n
      <4> QED
        BY <2>1, <2>3
    <3>2. dimx - 1 = (roi.x1 - roi.x0) \div n /\ dimy - 1 = (roi.y1 - roi.y0) \div n
      <4>1. (roi.x1 - roi.x0) \div n \in Int /\ (roi.y1 - roi.y0) \div n \in Int
        BY <1>1, <2>1, Quotient
      <4> QED
        BY <4>1 DEF dimx, dimy
    <3> HIDE DEF c, r, n
    <3> QED
      BY <1>3, <2>2, <3>1, <3>2
  <2>5. /\ c * n <= dx /\ dx < (c + 1) * n
        /\ r * n <= dy /\ dy < (r + 1) * n
    <3> HIDE DEF dx, dy
    <3> QED
      BY <1>1, <2>1, Quotient
  <2> HIDE DEF c, r, n
  <2>6. t - 1 = c * dimy + r /\ t - 1 \in Int /\ t \in 1 .. dimx * dimy
    <3>1. c * dimy \in Int /\ (dimx - 1) * dimy \in Int /\ dimx * dimy = (dimx - 1) * dimy + dimy
      BY <1>3, <2>2
    <3>2. 0 * dimy <= c * dimy /\ c * dimy <= (dimx - 1) * dimy
      BY <1>3, <2>4, ProductGrows
    <3> DEFINE cd == c * dimy
               md == (dimx - 1) * dimy
               whole == dimx * dimy
    <3>3. cd \in Int /\ md \in Int /\ whole = md + dimy /\ 0 <= cd /\ cd <= md
      BY <1>3, <3>1, <3>2
    <3>4. t = cd + r + 1
      OBVIOUS
    <3> HIDE DEF cd, md, whole, t
    <3>5. t - 1 = cd + r /\ t - 1 \in Int /\ t \in 1 .. whole
      BY <1>3, <2>2, <2>4, <3>3, <3>4
    <3> QED
      BY <3>5 DEF cd, whole
  <2>7. Col(t) = c /\ Row(t) = r
    <3> HIDE DEF t
    <3>1. c \in Int
      BY <2>2
    <3> QED
      BY <1>3, <2>4, <2>6, <3>1, QuotientIsUnique
  <2>8. Covers(all[t], p)
    <3> HIDE DEF t, all, Col, Row
    <3> QED
      BY <1>8, <2>5, <2>6, <2>7
  <2> QED
    BY <2>6, <2>8
<1> HIDE DEF Col, Row, n
<1> QED
  BY <1>5, <1>6, <1>7, <1>9, <1>10

NoTileIsOutside == \A t \in 1 .. Len(TileExtents) : TileExtents[t] # NoBox

(* Cut off at its edge, the tiles of a region still have each of its points *)
(* in one of them, and no others.                                          *)
LEMMA ExtentsArePartition ==
  ASSUME HasRegion, NoTileIsOutside, NEW p \in Points
  PROVE  /\ Len(TileExtents) \in Nat
         /\ \A t \in 1 .. Len(TileExtents) : TileExtents[t] \in Boxes
         /\ Covers(RegionOfInterest, p) => \E t \in 1 .. Len(TileExtents) : Covers(TileExtents[t], p)
         /\ \A t \in 1 .. Len(TileExtents) : Covers(TileExtents[t], p) => Covers(RegionOfInterest, p)
         /\ \A t, u \in 1 .. Len(TileExtents) :
              Covers(TileExtents[t], p) /\ Covers(TileExtents[u], p) => t = u
<1> DEFINE roi == RegionOfInterest
           all == CreateTiles(roi)
           n == Len(all)
<1>1. roi \in Boxes /\ IsOrdered(roi)
  BY RegionIsBox
<1>2. CASE value["tiling"].is = "on"
  <2>1. /\ n \in Nat /\ \A t \in 1 .. n : all[t] \in Boxes
        /\ Covers(roi, p) => \E t \in 1 .. n : Covers(all[t], p)
        /\ \A t, u \in 1 .. n : Covers(all[t], p) /\ Covers(all[u], p) => t = u
    <3> HIDE DEF roi
    <3> QED
      BY <1>1, TilesAreGrid
  <2>2. TileExtents = [t \in 1 .. n |-> Intersect(roi, all[t])]
    BY <1>2 DEF TileExtents
  <2> HIDE DEF roi, all, n
  <2>3. Len(TileExtents) = n
    <3>1. \A S : [t \in 1 .. n |-> Intersect(roi, all[t])] \in [1 .. n -> S] => Len([t \in 1 .. n |-> Intersect(roi, all[t])]) = n
      <4> TAKE S
      <4> DEFINE f == [t \in 1 .. n |-> Intersect(roi, all[t])]
      <4>1. SUFFICES ASSUME f \in [1 .. n -> S] PROVE Len(f) = n
        OBVIOUS
      <4> HIDE DEF f
      <4>2. f \in Seq(S)
        BY <2>1, <4>1, SeqDef
      <4>3. DOMAIN f = 1 .. Len(f) /\ Len(f) \in Nat
        BY <4>2, LenProperties
      <4> QED
        BY <2>1, <4>1, <4>3
    <3>2. [t \in 1 .. n |-> Intersect(roi, all[t])] \in [1 .. n -> {Intersect(roi, all[t]) : t \in 1 .. n}]
      OBVIOUS
    <3> QED
      BY <2>2, <3>1, <3>2
  <2>4. ASSUME NEW t \in 1 .. n
        PROVE  /\ TileExtents[t] = Intersect(roi, all[t]) /\ TileExtents[t] # NoBox
               /\ TileExtents[t] \in Boxes
               /\ Covers(TileExtents[t], p) <=> Covers(roi, p) /\ Covers(all[t], p)
    <3>1. TileExtents[t] = Intersect(roi, all[t])
      BY <2>2
    <3>2. TileExtents[t] # NoBox
      BY <2>3 DEF NoTileIsOutside
    <3> QED
      BY <1>1, <2>1, <3>1, <3>2, IntersectionCovers
  <2> QED
    BY <2>1, <2>3, <2>4 DEF roi
<1>3. CASE value["tiling"].is # "on"
  <2>1. TileExtents = <<roi>>
    BY <1>3 DEF TileExtents
  <2> HIDE DEF roi
  <2>2. Len(TileExtents) = 1 /\ TileExtents[1] = roi
    BY <2>1
  <2>3. \A t \in 1 .. 1 : t = 1
    OBVIOUS
  <2> QED
    BY <1>1, <2>2, <2>3 DEF roi
<1> QED
  BY <1>2, <1>3

LEMMA CentroidInBox ==
  ASSUME NEW i \in Indices, NEW extent \in Boxes, Covers(extent, Layer[i].centroid)
  PROVE  PassesDriver(Layer[i], extent)
<1> DEFINE b == Layer[i].box
           c == Layer[i].centroid
           r == Box(Larger(b.x0, extent.x0), Larger(b.y0, extent.y0), Smaller(b.x1, extent.x1), Smaller(b.y1, extent.y1))
<1>1. /\ b.x0 \in Int /\ b.y0 \in Int /\ b.x1 \in Int /\ b.y1 \in Int /\ c.x \in Int /\ c.y \in Int
      /\ b.x0 <= c.x /\ c.x <= b.x1 /\ b.y0 <= c.y /\ c.y <= b.y1
  <2>1. b \in Boxes /\ c \in [x : Int, y : Int]
    BY LayerFacts DEF Features
  <2>2. b.x0 <= c.x /\ c.x <= b.x1 /\ b.y0 <= c.y /\ c.y <= b.y1
    BY LayerAssumption DEF Indices
  <2> QED
    BY <2>1, <2>2 DEF Boxes
<1>2. /\ extent.x0 \in Int /\ extent.y0 \in Int /\ extent.x1 \in Int /\ extent.y1 \in Int
      /\ extent.x0 <= c.x /\ c.x < extent.x1 /\ extent.y0 <= c.y /\ c.y < extent.y1
  BY DEF Boxes, Covers
<1>3. Intersect(b, extent) = IF r.x0 > r.x1 \/ r.y0 > r.y1 THEN NoBox ELSE r
  BY DEF Intersect
<1>4. /\ r.x0 = Larger(b.x0, extent.x0) /\ r.y0 = Larger(b.y0, extent.y0)
      /\ r.x1 = Smaller(b.x1, extent.x1) /\ r.y1 = Smaller(b.y1, extent.y1)
  BY DEF Box
<1>5. r \in Boxes
  <2> HIDE DEF b, c
  <2> QED
    BY <1>1, <1>2, BoxesAreBoxes DEF Larger, Smaller
<1>6. ~(r.x0 > r.x1 \/ r.y0 > r.y1)
  <2> HIDE DEF b, c, r
  <2> QED
    BY <1>1, <1>2, <1>4 DEF Larger, Smaller
<1> QED
  BY <1>3, <1>5, <1>6, BoxesAreBoxes DEF PassesDriver

-----------------------------------------------------------------------------
(* The tiles while they are read.                                          *)

NumberOfTiles == Len(TileExtents)
TileSet == {[id |-> t, extent |-> TileExtents[t]] : t \in 1 .. NumberOfTiles}
Pending == {tiles[k].id : k \in 1 .. Len(tiles)}

(* Whatever was read of a tile is a feature with a geometry. *)
FoundInv == \A t \in DOMAIN found : \A i \in Indices : Copies(found[t], i) > 0 => i \in WithGeometry

TilesInv ==
  /\ phase # "tiled" => found = <<>> /\ lost = {}
  /\ phase = "tiled" /\ HasRegion =>
       /\ NoTileIsOutside
       /\ tiles \in Seq(TileSet)
       /\ DOMAIN found \subseteq 1 .. NumberOfTiles /\ lost \subseteq 1 .. NumberOfTiles
       /\ 1 .. NumberOfTiles \subseteq DOMAIN found \cup lost \cup Pending
       /\ \A t \in DOMAIN found :
            found[t] = ReadPolygons(TileExtents[t]) /\ ~ReadThrows(TileExtents[t])
       /\ \A t \in lost : ReadThrows(TileExtents[t])

LEMMA NumberIsNatural ==
  ASSUME HasRegion, NoTileIsOutside
  PROVE  NumberOfTiles \in Nat
<1>1. [x |-> 0, y |-> 0] \in Points
  BY DEF Points
<1> QED
  BY <1>1, ExtentsArePartition DEF NumberOfTiles

LEMMA PendingOfTail ==
  ASSUME NEW S, NEW s \in Seq(S), s # <<>>
  PROVE  /\ Head(s) \in S /\ Tail(s) \in Seq(S)
         /\ \A k \in 1 .. Len(s) : s[k] = Head(s) \/ \E m \in 1 .. Len(Tail(s)) : s[k] = Tail(s)[m]
<1>1. Len(s) \in Nat /\ Len(s) > 0
  BY LenProperties, EmptySeq
<1>2. /\ Head(s) = s[1] /\ Tail(s) \in Seq(S) /\ Len(Tail(s)) = Len(s) - 1
      /\ \A m \in 1 .. Len(s) - 1 : Tail(s)[m] = s[m + 1]
  BY <1>1, HeadTailProperties
<1>3. Head(s) \in S
  BY <1>1, <1>2, ElementOfSeq
<1>4. ASSUME NEW k \in 1 .. Len(s), k # 1
      PROVE  \E m \in 1 .. Len(Tail(s)) : s[k] = Tail(s)[m]
  <2>1. k - 1 \in 1 .. Len(s) - 1 /\ (k - 1) + 1 = k
    BY <1>1, <1>4
  <2>2. Tail(s)[k - 1] = s[k]
    BY <1>2, <2>1
  <2> QED
    BY <1>2, <2>1, <2>2
<1> QED
  BY <1>2, <1>3, <1>4

LEMMA MakeTilesKeeps ==
  ASSUME TilesInv, FoundInv, NEW opened \in BOOLEAN, MakeTiles(opened)
  PROVE  TilesInv' /\ FoundInv'
<1>1. phase = "configured" /\ found = <<>> /\ lost = {} /\ found' = <<>> /\ lost' = {} /\ value' = value
  BY DEF MakeTiles, TilesInv, tileVars, Return
<1>2. FoundInv'
  BY <1>1 DEF FoundInv
<1>3. CASE phase' # "tiled"
  BY <1>1, <1>2, <1>3 DEF TilesInv
<1>4. CASE phase' = "tiled" /\ ~HasRegion
  <2>1. HasRegion' <=> HasRegion
    BY <1>1 DEF HasRegion, WithGeometry, Selected, Filtered
  <2> QED
    BY <1>2, <1>4, <2>1 DEF TilesInv
<1>5. CASE phase' = "tiled" /\ HasRegion
  <2>1. NoTileIsOutside /\ tiles' = [t \in 1 .. Len(TileExtents) |-> [id |-> t, extent |-> TileExtents[t]]]
    BY <1>5 DEF MakeTiles, Return, NoTileIsOutside
  <2>2. /\ TileExtents' = TileExtents /\ NumberOfTiles' = NumberOfTiles /\ TileSet' = TileSet
        /\ NoTileIsOutside' <=> NoTileIsOutside
    BY <1>1 DEF TileExtents, NumberOfTiles, TileSet, NoTileIsOutside, RegionOfInterest, LayerExtent,
                WithGeometry, Selected, Filtered
  <2>3. NumberOfTiles \in Nat
    BY <1>5, <2>1, NumberIsNatural
  <2>4. tiles' \in [1 .. NumberOfTiles -> TileSet]
    BY <2>1 DEF NumberOfTiles, TileSet
  <2>5. tiles' \in Seq(TileSet)
    BY <2>3, <2>4, SeqDef
  <2>6. Len(tiles') = NumberOfTiles
    <3>1. DOMAIN tiles' = 1 .. Len(tiles') /\ Len(tiles') \in Nat
      BY <2>5, LenProperties
    <3> QED
      BY <2>3, <2>4, <3>1
  <2>7. \A t \in 1 .. NumberOfTiles : tiles'[t].id = t
    BY <2>1 DEF NumberOfTiles
  <2>8. Pending' = 1 .. NumberOfTiles
    <3>1. Pending' = {tiles'[k].id : k \in 1 .. Len(tiles')}
      BY DEF Pending
    <3> QED
      BY <2>6, <2>7, <3>1
  <2> QED
    BY <1>1, <1>2, <1>5, <2>1, <2>2, <2>5, <2>8 DEF TilesInv
<1> QED
  BY <1>3, <1>4, <1>5, <1>2

LEMMA SameRegion ==
  ASSUME value' = value
  PROVE  /\ TileExtents' = TileExtents /\ NumberOfTiles' = NumberOfTiles /\ TileSet' = TileSet
         /\ NoTileIsOutside' = NoTileIsOutside /\ HasRegion' = HasRegion /\ WithGeometry' = WithGeometry
         /\ \A t : /\ ReadPolygons(TileExtents[t])' = ReadPolygons(TileExtents[t])
                 /\ ReadThrows(TileExtents[t])' = ReadThrows(TileExtents[t])
BY DEF TileExtents, NumberOfTiles, TileSet, NoTileIsOutside, HasRegion, RegionOfInterest, LayerExtent,
       WithGeometry, Selected, Filtered, ReadPolygons, ReadThrows, ReadFeature, InTile

LEMMA ReadTileKeeps ==
  ASSUME TilesInv, FoundInv, ReadTile
  PROVE  TilesInv' /\ FoundInv'
<1> DEFINE tile == Head(tiles)
<1>1. /\ phase = "tiled" /\ phase' = "tiled" /\ tiles # <<>> /\ tiles' = Tail(tiles) /\ value' = value
      /\ \/ /\ ReadThrows(tile.extent) /\ lost' = lost \cup {tile.id} /\ found' = found
         \/ /\ ~ReadThrows(tile.extent) /\ lost' = lost
            /\ found' = [t \in DOMAIN found \cup {tile.id} |->
                           IF t = tile.id THEN ReadPolygons(tile.extent) ELSE found[t]]
  BY DEF ReadTile, configVars
<1>2. FoundInv'
  <2>1. WithGeometry' = WithGeometry
    BY <1>1, SameRegion
  <2>2. ASSUME NEW i \in Indices, Copies(ReadPolygons(tile.extent), i) > 0
        PROVE  i \in WithGeometry
    <3>1. InTile(i, tile.extent)
      BY <2>2, LayerIsAligned
    <3> QED
      BY <3>1 DEF InTile, WithGeometry
  <2>3. ASSUME NEW t \in DOMAIN found', NEW i \in Indices, Copies(found'[t], i) > 0
        PROVE  i \in WithGeometry
    <3>1. CASE found' = found
      BY <2>3, <3>1 DEF FoundInv
    <3>2. CASE found' # found
      <4>1. found'[t] = (IF t = tile.id THEN ReadPolygons(tile.extent) ELSE found[t])
            /\ t \in DOMAIN found \cup {tile.id}
        BY <1>1, <3>2, <2>3
      <4>2. CASE t = tile.id
        BY <2>2, <2>3, <4>1, <4>2
      <4>3. CASE t # tile.id
        BY <2>3, <4>1, <4>3 DEF FoundInv
      <4> QED
        BY <4>2, <4>3
    <3> QED
      BY <3>1, <3>2
  <2> QED
    BY <2>1, <2>3 DEF FoundInv, Copies
<1>3. CASE ~HasRegion
  <2>1. HasRegion' = HasRegion
    BY <1>1, SameRegion
  <2> QED
    BY <1>1, <1>2, <1>3, <2>1 DEF TilesInv
<1>4. CASE HasRegion
  <2>1. /\ NoTileIsOutside /\ tiles \in Seq(TileSet)
        /\ DOMAIN found \subseteq 1 .. NumberOfTiles /\ lost \subseteq 1 .. NumberOfTiles
        /\ 1 .. NumberOfTiles \subseteq DOMAIN found \cup lost \cup Pending
        /\ \A t \in DOMAIN found :
             found[t] = ReadPolygons(TileExtents[t]) /\ ~ReadThrows(TileExtents[t])
        /\ \A t \in lost : ReadThrows(TileExtents[t])
    BY <1>1, <1>4 DEF TilesInv
  <2>2. /\ tile \in TileSet /\ Tail(tiles) \in Seq(TileSet)
        /\ \A k \in 1 .. Len(tiles) : tiles[k] = tile \/ \E m \in 1 .. Len(Tail(tiles)) : tiles[k] = Tail(tiles)[m]
    <3> DEFINE S == TileSet
    <3>1. tiles \in Seq(S)
      BY <2>1
    <3> HIDE DEF S
    <3>2. /\ tile \in S /\ Tail(tiles) \in Seq(S)
          /\ \A k \in 1 .. Len(tiles) : tiles[k] = tile \/ \E m \in 1 .. Len(Tail(tiles)) : tiles[k] = Tail(tiles)[m]
      BY <1>1, <3>1, PendingOfTail
    <3> QED
      BY <3>2 DEF S
  <2>3. tile.id \in 1 .. NumberOfTiles /\ tile.extent = TileExtents[tile.id]
    BY <2>2 DEF TileSet
  <2> HIDE DEF tile
  <2>4. Pending \subseteq Pending' \cup {tile.id}
    <3>1. Pending' = {Tail(tiles)[k].id : k \in 1 .. Len(Tail(tiles))}
      BY <1>1 DEF Pending
    <3> QED
      BY <2>2, <3>1 DEF Pending
  <2>5. /\ TileExtents' = TileExtents /\ NumberOfTiles' = NumberOfTiles /\ TileSet' = TileSet
        /\ NoTileIsOutside'
        /\ \A t : /\ ReadPolygons(TileExtents[t])' = ReadPolygons(TileExtents[t])
                /\ ReadThrows(TileExtents[t])' = ReadThrows(TileExtents[t])
    BY <1>1, <2>1, SameRegion
  <2>6. /\ tiles' \in Seq(TileSet')
        /\ DOMAIN found' \subseteq 1 .. NumberOfTiles /\ lost' \subseteq 1 .. NumberOfTiles
        /\ 1 .. NumberOfTiles \subseteq DOMAIN found' \cup lost' \cup Pending'
    <3>1. tiles' \in Seq(TileSet')
      BY <1>1, <2>2, <2>5
    <3>2. DOMAIN found' \cup lost' = DOMAIN found \cup lost \cup {tile.id}
      BY <1>1
    <3> QED
      BY <2>1, <2>3, <2>4, <3>1, <3>2
  <2>7. \A t \in DOMAIN found' : found'[t] = ReadPolygons(TileExtents[t]) /\ ~ReadThrows(TileExtents[t])
    <3>1. CASE found' = found
      BY <2>1, <3>1
    <3>2. CASE found' # found
      BY <1>1, <2>1, <2>3, <3>2
    <3> QED
      BY <3>1, <3>2
  <2>8. \A t \in lost' : ReadThrows(TileExtents[t])
    BY <1>1, <2>1, <2>3
  <2>9. \A t \in DOMAIN found' : found'[t] = ReadPolygons(TileExtents[t])' /\ ~ReadThrows(TileExtents[t])'
    BY <2>5, <2>7
  <2>10. \A t \in lost' : ReadThrows(TileExtents[t])'
    BY <2>5, <2>8
  <2> QED
    BY <1>1, <1>2, <2>5, <2>6, <2>9, <2>10 DEF TilesInv
<1> QED
  BY <1>3, <1>4

LEMMA ConfigureKeeps ==
  ASSUME TilesInv, FoundInv, Configure, UNCHANGED tileVars
  PROVE  TilesInv' /\ FoundInv'
<1>1. phase # "tiled" /\ phase' # "tiled"
  BY DEF Configure, TakeAppOption, RejectAppOption, LeaveOption, EndFirstPass, ReadFile, RejectFile,
         SetOption, KeepPositional, RejectOption, TakePositional, RejectPositional, Validate,
         InFirstPass, InSecondPass, Return
<1> QED
  BY <1>1 DEF TilesInv, FoundInv, tileVars

(* A footprint's copies in what was read of a tile. *)
LEMMA CopiesInTile ==
  ASSUME TilesInv, phase = "tiled", HasRegion, NEW t \in DOMAIN found, NEW i \in Indices
  PROVE  /\ Times(i, t) = IF InTile(i, TileExtents[t]) THEN PartsOf(i) ELSE 0
         /\ t \in 1 .. NumberOfTiles
         /\ InTile(i, TileExtents[t]) => Layer[i].geometry = "polygons"
<1>1. /\ found[t] = ReadPolygons(TileExtents[t]) /\ ~ReadThrows(TileExtents[t])
      /\ t \in 1 .. NumberOfTiles
  BY DEF TilesInv
<1>2. Times(i, t) = Copies(found[t], i)
  BY DEF Times, Copies
<1>3. Layer[i].geometry \in {"none", "polygons", "other"}
  BY LayerFacts DEF Features
<1>4. InTile(i, TileExtents[t]) => Layer[i].geometry # "none" /\ Layer[i].geometry # "other"
  BY <1>1 DEF InTile, ReadThrows, Indices
<1> QED
  BY <1>1, <1>2, <1>3, <1>4, LayerIsAligned

(* A footprint that is wanted is in the one tile that has its centroid, or  *)
(* that tile was lost to another feature; no other tile has it.            *)
THEOREM FootprintsAreReadOnce == Spec => []EachFootprintOnce
<1>1. StartupInit => TilesInv /\ FoundInv
  BY DEF StartupInit, Init, TilesInv, FoundInv
<1>2. TilesInv /\ FoundInv /\ [Next]_vars => TilesInv' /\ FoundInv'
  <2> SUFFICES ASSUME TilesInv, FoundInv, [Next]_vars PROVE TilesInv' /\ FoundInv'
    OBVIOUS
  <2>1. CASE Configure /\ UNCHANGED tileVars
    BY <2>1, ConfigureKeeps
  <2>2. ASSUME NEW opened \in BOOLEAN, MakeTiles(opened) PROVE TilesInv' /\ FoundInv'
    BY <2>2, MakeTilesKeeps
  <2>3. CASE ReadTile
    BY <2>3, ReadTileKeeps
  <2>4. CASE UNCHANGED vars
    <3>1. value' = value /\ phase' = phase /\ tiles' = tiles /\ found' = found /\ lost' = lost
      BY <2>4 DEF vars, configVars, tileVars
    <3>2. Pending' = Pending
      BY <3>1 DEF Pending
    <3> QED
      BY <3>1, <3>2, SameRegion DEF TilesInv, FoundInv, Copies
  <2> QED
    BY <2>1, <2>2, <2>3, <2>4 DEF Next
<1>3. TilesInv /\ FoundInv => EachFootprintOnce
  <2> SUFFICES ASSUME TilesInv, FoundInv, AllRead, NEW i \in Selected
      PROVE  LET wanted == Layer[i].geometry = "polygons"
                           /\ Covers(RegionOfInterest, Layer[i].centroid)
                 readIn == {t \in DOMAIN found : Times(i, t) > 0}
             IN /\ Cardinality(readIn) <= 1
                /\ \A t \in readIn : wanted /\ Times(i, t) = PartsOf(i)
                /\ wanted /\ PartsOf(i) > 0 /\ readIn = {} =>
                     \E j \in Selected : \E t \in lost :
                       /\ Layer[j].geometry = "other"
                       /\ Covers(TileExtents[t], Layer[i].centroid)
                       /\ Covers(TileExtents[t], Layer[j].centroid)
    BY DEF EachFootprintOnce
  <2> DEFINE p == Layer[i].centroid
             readIn == {t \in DOMAIN found : Times(i, t) > 0}
             wanted == Layer[i].geometry = "polygons" /\ Covers(RegionOfInterest, p)
  <2>1. i \in Indices /\ p \in Points
    BY LayerFacts DEF Selected, Indices, Features, Points
  <2>2. phase = "tiled" /\ tiles = <<>>
    BY DEF AllRead
  <2>3. CASE ~HasRegion
    <3>1. i \notin WithGeometry /\ Layer[i].geometry = "none"
      BY <2>3 DEF HasRegion, WithGeometry
    <3>2. readIn = {}
      BY <2>1, <3>1 DEF FoundInv, Times, Copies
    <3>3. Cardinality(readIn) = 0
      BY <3>2, FS_EmptySet
    <3> QED
      BY <3>1, <3>2, <3>3
  <2>4. CASE HasRegion
    <3>1. /\ NoTileIsOutside
          /\ 1 .. NumberOfTiles \subseteq DOMAIN found \cup lost
          /\ \A t \in lost : t \in 1 .. NumberOfTiles /\ ReadThrows(TileExtents[t])
      <4>1. Pending = {}
        BY <2>2 DEF Pending
      <4> QED
        BY <2>2, <2>4, <4>1 DEF TilesInv
    <3>2. /\ NumberOfTiles \in Nat
          /\ \A t \in 1 .. NumberOfTiles : TileExtents[t] \in Boxes
          /\ Covers(RegionOfInterest, p) => \E t \in 1 .. NumberOfTiles : Covers(TileExtents[t], p)
          /\ \A t \in 1 .. NumberOfTiles : Covers(TileExtents[t], p) => Covers(RegionOfInterest, p)
          /\ \A t, u \in 1 .. NumberOfTiles :
               Covers(TileExtents[t], p) /\ Covers(TileExtents[u], p) => t = u
      BY <2>1, <2>4, <3>1, ExtentsArePartition DEF NumberOfTiles
    <3>3. \A t \in DOMAIN found :
            /\ Times(i, t) = IF InTile(i, TileExtents[t]) THEN PartsOf(i) ELSE 0
            /\ t \in 1 .. NumberOfTiles
            /\ InTile(i, TileExtents[t]) => Layer[i].geometry = "polygons" /\ Covers(TileExtents[t], p)
      BY <2>1, <2>2, <2>4, CopiesInTile DEF InTile
    <3>4. \A t \in readIn : /\ wanted /\ Times(i, t) = PartsOf(i)
                            /\ t \in 1 .. NumberOfTiles /\ Covers(TileExtents[t], p)
      BY <3>2, <3>3
    <3>5. Cardinality(readIn) <= 1
      <4>1. CASE readIn = {}
        <5>1. Cardinality(readIn) = 0
          BY <4>1, FS_EmptySet
        <5> QED
          BY <5>1
      <4>2. CASE readIn # {}
        <5>1. PICK t \in readIn : TRUE
          BY <4>2
        <5>2. readIn = {t}
          BY <3>2, <3>4, <5>1
        <5>3. Cardinality(readIn) = 1
          BY <5>2, FS_Singleton
        <5> QED
          BY <5>3
      <4> QED
        BY <4>1, <4>2
    <3>6. ASSUME wanted, PartsOf(i) > 0, readIn = {}
          PROVE  \E j \in Selected : \E t \in lost :
                   /\ Layer[j].geometry = "other"
                   /\ Covers(TileExtents[t], Layer[i].centroid)
                   /\ Covers(TileExtents[t], Layer[j].centroid)
      <4>1. PICK t \in 1 .. NumberOfTiles : Covers(TileExtents[t], p)
        BY <3>2, <3>6
      <4>2. InTile(i, TileExtents[t])
        <5>1. PassesDriver(Layer[i], TileExtents[t])
          BY <2>1, <3>2, <4>1, CentroidInBox
        <5> QED
          BY <3>6, <4>1, <5>1 DEF InTile
      <4>3. t \notin DOMAIN found
        BY <3>3, <3>6, <4>2
      <4>4. t \in lost /\ ReadThrows(TileExtents[t])
        BY <3>1, <4>3
      <4>5. PICK j \in 1 .. Len(Layer) : InTile(j, TileExtents[t]) /\ Layer[j].geometry = "other"
        BY <4>4 DEF ReadThrows
      <4> QED
        BY <4>1, <4>4, <4>5 DEF InTile
    <3> QED
      BY <3>4, <3>5, <3>6
  <2> QED
    BY <2>3, <2>4
<1> QED
  BY <1>1, <1>2, <1>3, PTL DEF Spec

-----------------------------------------------------------------------------
(* The command line: which of its positions a sequence of options holds.   *)

Opts == [opt : STRING, neg : BOOLEAN, is : STRING]
Positions(c) == 1 .. Len(c)
IsAppOption(o) == o.opt \in AppParams /\ ~o.neg
LeftOf(c) == {i \in Positions(c) : ~IsAppOption(c[i])}

Lists(c, s, S) ==
  \E at \in [1 .. Len(s) -> S] :
    /\ \A k \in 1 .. Len(s) : s[k] = c[at[k]]
    /\ \A j, k \in 1 .. Len(s) : j < k => at[j] < at[k]
    /\ \A i \in S : \E k \in 1 .. Len(s) : at[k] = i

Before(S, T) == \A i \in S : \A j \in T : i < j

LEMMA ListedBy ==
  ASSUME NEW c, NEW s, NEW S, NEW n, Len(s) = n, NEW at \in [1 .. n -> S],
         \A k \in 1 .. n : s[k] = c[at[k]],
         \A j, k \in 1 .. n : j < k => at[j] < at[k],
         \A i \in S : \E k \in 1 .. n : at[k] = i
  PROVE  Lists(c, s, S)
<1>1. at \in [1 .. Len(s) -> S]
  OBVIOUS
<1>2. /\ \A k \in 1 .. Len(s) : s[k] = c[at[k]]
      /\ \A j, k \in 1 .. Len(s) : j < k => at[j] < at[k]
      /\ \A i \in S : \E k \in 1 .. Len(s) : at[k] = i
  OBVIOUS
<1> SUFFICES \E f \in [1 .. Len(s) -> S] :
               /\ \A k \in 1 .. Len(s) : s[k] = c[f[k]]
               /\ \A j, k \in 1 .. Len(s) : j < k => f[j] < f[k]
               /\ \A i \in S : \E k \in 1 .. Len(s) : f[k] = i
  BY Zenon DEF Lists
<1> WITNESS at \in [1 .. Len(s) -> S]
<1> QED
  BY <1>2

LEMMA CommandIsListed ==
  ASSUME NEW c \in Seq(Opts)
  PROVE  Lists(c, c, Positions(c)) /\ Positions(c) \subseteq Nat
<1>1. Len(c) \in Nat
  BY LenProperties
<1> DEFINE at == [k \in Positions(c) |-> k]
<1>2. /\ at \in [1 .. Len(c) -> Positions(c)]
      /\ \A k \in 1 .. Len(c) : c[k] = c[at[k]]
      /\ \A j, k \in 1 .. Len(c) : j < k => at[j] < at[k]
      /\ \A i \in Positions(c) : \E k \in 1 .. Len(c) : at[k] = i
  BY DEF Positions
<1> HIDE DEF at
<1>3. Lists(c, c, Positions(c))
  <2> DEFINE n == Len(c)
  <2>1. /\ at \in [1 .. n -> Positions(c)] /\ Len(c) = n
        /\ \A k \in 1 .. n : c[k] = c[at[k]]
        /\ \A j, k \in 1 .. n : j < k => at[j] < at[k]
        /\ \A i \in Positions(c) : \E k \in 1 .. n : at[k] = i
    BY <1>2
  <2> HIDE DEF n
  <2> QED
    BY <2>1, ListedBy
<1> QED
  BY <1>1, <1>3 DEF Positions

LEMMA NothingIsListed ==
  \A c : Lists(c, <<>>, {}) /\ \A S : Lists(c, <<>>, S) => S = {}
<1>1. Len(<<>>) = 0 /\ 1 .. 0 = {}
  OBVIOUS
<1>2. <<>> \in [1 .. Len(<<>>) -> {}]
  BY <1>1
<1> QED
  BY <1>1, <1>2 DEF Lists

(* The first option of a list is the first of its positions. *)
LEMMA HeadIsFirst ==
  ASSUME NEW c, NEW s \in Seq(Opts), s # <<>>, NEW S, \A i \in S : i \in Nat, Lists(c, s, S)
  PROVE  \E m \in S : /\ Head(s) = c[m] /\ Tail(s) \in Seq(Opts)
                      /\ \A i \in S \ {m} : m < i
                      /\ Lists(c, Tail(s), S \ {m})
<1>1. Len(s) \in Nat /\ Len(s) > 0
  BY LenProperties, EmptySeq
<1>2. PICK at \in [1 .. Len(s) -> S] :
        /\ \A k \in 1 .. Len(s) : s[k] = c[at[k]]
        /\ \A j, k \in 1 .. Len(s) : j < k => at[j] < at[k]
        /\ \A i \in S : \E k \in 1 .. Len(s) : at[k] = i
  BY DEF Lists
<1>3. /\ Head(s) = s[1] /\ Tail(s) \in Seq(Opts) /\ Len(Tail(s)) = Len(s) - 1
      /\ \A k \in 1 .. Len(s) - 1 : Tail(s)[k] = s[k + 1]
  BY <1>1, HeadTailProperties
<1> DEFINE n == Len(s)
           m == at[1]
           rest == [k \in 1 .. n - 1 |-> at[k + 1]]
<1>4. n \in Nat /\ n > 0 /\ 1 \in 1 .. n /\ m \in S /\ Head(s) = c[m]
  BY <1>1, <1>2, <1>3
<1>5. ASSUME NEW i \in S \ {m} PROVE m < i /\ \E k \in 1 .. n - 1 : rest[k] = i
  <2>1. PICK k \in 1 .. n : at[k] = i
    BY <1>2
  <2>2. k # 1 /\ 1 < k /\ k - 1 \in 1 .. n - 1 /\ (k - 1) + 1 = k
    BY <1>1, <1>5, <2>1
  <2>3. rest[k - 1] = i
    BY <2>1, <2>2
  <2> QED
    BY <1>2, <1>4, <2>1, <2>2, <2>3
<1>6. ASSUME NEW k \in 1 .. n - 1
      PROVE  rest[k] = at[k + 1] /\ k + 1 \in 1 .. n /\ rest[k] \in S \ {m} /\ Tail(s)[k] = c[rest[k]]
  <2>1. k + 1 \in 1 .. n /\ 1 < k + 1 /\ rest[k] = at[k + 1]
    BY <1>1
  <2>2. m < at[k + 1] /\ at[k + 1] \in S /\ m \in S
    BY <1>2, <1>4, <2>1
  <2>3. m # at[k + 1]
    BY <2>2
  <2> QED
    BY <1>2, <1>3, <2>1, <2>2, <2>3
<1>7. \A j, k \in 1 .. n - 1 : j < k => rest[j] < rest[k]
  <2> TAKE j, k \in 1 .. n - 1
  <2>1. rest[j] = at[j + 1] /\ rest[k] = at[k + 1] /\ j + 1 \in 1 .. n /\ k + 1 \in 1 .. n
    BY <1>6
  <2>2. j < k => j + 1 < k + 1
    BY <1>1
  <2> QED
    BY <1>2, <2>1, <2>2
<1>8. rest \in [1 .. n - 1 -> S \ {m}]
  BY <1>6
<1>9. Lists(c, Tail(s), S \ {m})
  <2> HIDE DEF rest, m
  <2>1. /\ Len(Tail(s)) = n - 1
        /\ \A k \in 1 .. n - 1 : Tail(s)[k] = c[rest[k]]
        /\ \A i \in S \ {m} : \E k \in 1 .. n - 1 : rest[k] = i
    BY <1>3, <1>5, <1>6
  <2> DEFINE l == n - 1
             t == Tail(s)
             T == S \ {m}
  <2>2. /\ rest \in [1 .. l -> T] /\ Len(t) = l
        /\ \A k \in 1 .. l : t[k] = c[rest[k]]
        /\ \A j, k \in 1 .. l : j < k => rest[j] < rest[k]
        /\ \A i \in T : \E k \in 1 .. l : rest[k] = i
    BY <1>7, <1>8, <2>1
  <2> HIDE DEF l, t, T
  <2>3. Lists(c, t, T)
    BY <2>2, ListedBy
  <2> QED
    BY <2>3 DEF t, T
<1> QED
  BY <1>3, <1>4, <1>5, <1>9

LEMMA AppendIsLast ==
  ASSUME NEW c, NEW s \in Seq(Opts), NEW S, \A i \in S : i \in Nat, Lists(c, s, S), NEW m \in Nat, \A i \in S : i < m,
         c[m] \in Opts
  PROVE  Lists(c, Append(s, c[m]), S \cup {m})
<1>1. PICK at \in [1 .. Len(s) -> S] :
        /\ \A k \in 1 .. Len(s) : s[k] = c[at[k]]
        /\ \A j, k \in 1 .. Len(s) : j < k => at[j] < at[k]
        /\ \A i \in S : \E k \in 1 .. Len(s) : at[k] = i
  BY DEF Lists
<1> DEFINE n == Len(s)
           t == Append(s, c[m])
           new == [k \in 1 .. n + 1 |-> IF k = n + 1 THEN m ELSE at[k]]
<1>2. n \in Nat /\ Len(t) = n + 1 /\ t[n + 1] = c[m] /\ \A k \in 1 .. n : t[k] = s[k]
  BY LenProperties, AppendProperties
<1>3. /\ new[n + 1] = m /\ \A k \in 1 .. n : new[k] = at[k]
      /\ \A k \in 1 .. n + 1 : k = n + 1 \/ k \in 1 .. n
      /\ \A k \in 1 .. n : k \in 1 .. n + 1
      /\ n + 1 \in 1 .. n + 1
  BY <1>2
<1>4. new \in [1 .. n + 1 -> S \cup {m}]
  BY <1>2, <1>3
<1> HIDE DEF new, t
<1>5. \A k \in 1 .. n + 1 : t[k] = c[new[k]]
  BY <1>1, <1>2, <1>3
<1>6. \A j, k \in 1 .. n + 1 : j < k => new[j] < new[k]
  <2> TAKE j, k \in 1 .. n + 1
  <2> HAVE j < k
  <2>1. j \in 1 .. n
    BY <1>2
  <2>2. CASE k = n + 1
    BY <1>1, <1>3, <2>1, <2>2
  <2>3. CASE k # n + 1
    <3>1. k \in 1 .. n
      BY <1>3, <2>3
    <3> QED
      BY <1>1, <1>3, <2>1, <3>1
  <2> QED
    BY <2>2, <2>3
<1>7. \A i \in S \cup {m} : \E k \in 1 .. n + 1 : new[k] = i
  BY <1>1, <1>3
<1>8. Lists(c, t, S \cup {m})
  <2>1. Len(t) = n + 1
    BY <1>2 DEF t
  <2> QED
    BY <1>4, <1>5, <1>6, <1>7, <2>1, ListedBy
<1> QED
  BY <1>8 DEF t

LEMMA LastIsMax ==
  ASSUME NEW S, \A i \in S : i \in Nat, NEW m \in Nat, \A i \in S : i < m
  PROVE  Max(S \cup {m}) = m
<1> DEFINE T == S \cup {m}
<1>1. m \in T /\ \A y \in T : m >= y
  OBVIOUS
<1>2. \A x \in T : (\A y \in T : x >= y) => x = m
  OBVIOUS
<1> HIDE DEF T
<1>3. Max(T) \in T /\ \A y \in T : Max(T) >= y
  BY <1>1 DEF Max
<1>4. Max(T) = m
  BY <1>2, <1>3
<1> QED
  BY <1>4 DEF T

-----------------------------------------------------------------------------
(* The names.  No old name stands for an option of the program itself, and  *)
(* only the cosine for itself.                                             *)

LEMMA CanonicalOfApp ==
  /\ \A k \in AppParams : Canonical(k) = k
  /\ \A k : Canonical(k) \in AppParams => Canonical(k) = k
  /\ \A k : Canonical(k) = Cosine <=> k = Cosine
<1>1. \A k \in AppParams : Canonical(k) = k
  BY DEF AppParams, Canonical
<1>2. ASSUME NEW k, Canonical(k) # k
      PROVE  Canonical(k) \notin AppParams /\ Canonical(k) # Cosine /\ k # Cosine
  BY <1>2 DEF Canonical, AppParams, Cosine
<1> QED
  BY <1>1, <1>2

LEMMA AppNamesAreApart ==
  /\ AppParams \cap RootKeys = {} /\ AppParams \cap CliKeys = {} /\ AppParams \cap SectionKeys = {}
  /\ CliKeys \subseteq RootKeys
  /\ \A k \in RootKeys : Canonical(k) \in Params /\ Canonical(k) \notin AppParams
  /\ AppParams \subseteq Params /\ Angle \in Params /\ Cosine \in Params
  /\ Angle \notin AppParams /\ Cosine \notin AppParams /\ Angle # Cosine
  /\ "positional" \notin CliKeys /\ "config" \in AppParams
<1>1. AppParams \cap RootKeys = {}
  BY DEF AppParams, RootKeys, InputParams, CropParams, OutputParams, ReconstructionParams, RootOnlyAliases
<1>2. CliKeys \subseteq RootKeys /\ AppParams \cap CliKeys = {}
  BY <1>1 DEF CliKeys
<1>3. \A k \in RootKeys : Canonical(k) \in Params /\ Canonical(k) \notin AppParams
  BY <1>1, CanonicalOfApp DEF Params
<1>4. Angle \notin AppParams /\ Cosine \notin AppParams /\ Angle # Cosine /\ "config" \in AppParams
  BY DEF Angle, Cosine, AppParams
<1>5. AppParams \cap SectionKeys = {}
  <2>1. InputParams \cup CropParams \cup OutputParams \cup ReconstructionParams \cup RootOnlyAliases = RootKeys
    BY DEF RootKeys
  <2> QED
    BY <1>1, <1>3, <1>4, <2>1 DEF SectionKeys
<1>6. AppParams \subseteq Params /\ Angle \in Params /\ Cosine \in Params
  <2>1. Cosine \in RootKeys /\ Canonical(Cosine) = Cosine
    BY CanonicalOfApp DEF Cosine, RootKeys, RootOnlyAliases
  <2> QED
    BY <2>1 DEF Params
<1>7. "positional" \notin CliKeys
  BY DEF CliKeys, RootKeys, InputParams, CropParams, OutputParams, ReconstructionParams, RootOnlyAliases
<1> QED
  BY <1>1, <1>2, <1>3, <1>4, <1>5, <1>6, <1>7

-----------------------------------------------------------------------------
(* What the values v are, after the options at a set of positions of the    *)
(* command line c, with the file f.                                        *)

Compared == Params \ {"crop-output", "loglevel"}
IsValues(v) == v = [p \in Params |-> v[p]]

AppOptionsOf(c, p, S) == {i \in S : IsAppOption(c[i]) /\ c[i].opt = p}
AfterFirst(c, p, S) ==
  IF AppOptionsOf(c, p, S) = {} THEN Default(p)
  ELSE [is |-> c[Max(AppOptionsOf(c, p, S))].is, from |-> "cli"]

(* What the file, if there is one, makes of a parameter. *)
HasFile(c) == AfterFirst(c, "config", Positions(c)).from = "cli"
OldNamesIn(f, p) == {k \in DOMAIN f.root : Canonical(k) = p}
AfterFile(c, f, p) ==
  IF ~HasFile(c) THEN Default(p)
  ELSE IF p \in DOMAIN f.section THEN [is |-> f.section[p], from |-> "section"]
  ELSE IF p = Angle /\ Cosine \in DOMAIN f.root
       THEN [is |-> f.root[Cosine], from |-> "root"]
  ELSE IF OldNamesIn(f, p) # {}
       THEN [is |-> f.root[CHOOSE k \in OldNamesIn(f, p) : TRUE], from |-> "root"]
  ELSE Default(p)

OptionsOf(c, p, S) == {i \in S : c[i].opt \in CliKeys /\ Canonical(c[i].opt) = p}
AfterSecond(c, f, p, S) ==
  IF p \in AppParams THEN AfterFirst(c, p, Positions(c))
  ELSE IF OptionsOf(c, p, S) = {} THEN AfterFile(c, f, p)
  ELSE [is |-> SetTo(c[Max(OptionsOf(c, p, S))]), from |-> "cli"]

FirstPassDone(c, v, S) == \A p \in Compared : v[p] = AfterFirst(c, p, S)
(* A file that was read names no option of the program itself. *)
FileIsKnown(c, f) ==
  HasFile(c) => \A p \in AppParams : p \notin DOMAIN f.section /\ OldNamesIn(f, p) = {}
SecondPassDone(c, f, v, S) ==
  /\ FileIsKnown(c, f)
  /\ \A p \in Compared : v[p] = AfterSecond(c, f, p, S)
  /\ \A i \in S : IsPositional(c[i]) \/ Understood(c[i])

(* In the middle of a pass t is still to be read, and k was put aside. *)
InFirst(c, t, k, v) ==
  \E S \in SUBSET Positions(c) :
    /\ Lists(c, t, S) /\ Before(Positions(c) \ S, S)
    /\ Lists(c, k, LeftOf(c) \ S)
    /\ FirstPassDone(c, v, Positions(c) \ S)

InSecond(c, f, t, v) ==
  \E S \in SUBSET LeftOf(c) :
    /\ Lists(c, t, S) /\ Before(LeftOf(c) \ S, S)
    /\ SecondPassDone(c, f, v, LeftOf(c) \ S)

LEMMA PositionsAreNatural ==
  ASSUME NEW c \in Seq(Opts)
  PROVE  /\ \A i \in Positions(c) : i \in Nat /\ c[i] \in Opts
         /\ LeftOf(c) \subseteq Positions(c)
<1>1. Len(c) \in Nat /\ \A i \in 1 .. Len(c) : c[i] \in Opts
  BY LenProperties, ElementOfSeq
<1> QED
  BY <1>1 DEF Positions, LeftOf

(* The first option of what is still to be read. *)
LEMMA NextOption ==
  ASSUME NEW c \in Seq(Opts), NEW S, S \subseteq Positions(c), NEW t \in Seq(Opts), t # <<>>, Lists(c, t, S)
  PROVE  \E m \in S : /\ Head(t) = c[m] /\ Tail(t) \in Seq(Opts)
                      /\ m \in Nat /\ c[m] \in Opts
                      /\ \A i \in S \ {m} : m < i
                      /\ Lists(c, Tail(t), S \ {m})
<1>1. \A i \in S : i \in Nat /\ c[i] \in Opts
  BY PositionsAreNatural
<1>2. \A i \in S : i \in Nat
  BY <1>1
<1>3. PICK m \in S : /\ Head(t) = c[m] /\ Tail(t) \in Seq(Opts)
                     /\ \A i \in S \ {m} : m < i
                     /\ Lists(c, Tail(t), S \ {m})
  BY <1>2, HeadIsFirst
<1> QED
  BY <1>1, <1>3

-----------------------------------------------------------------------------
(* The first pass. *)

LEMMA FirstStarts ==
  ASSUME NEW c \in Seq(Opts), NEW v, v = [p \in Params |-> Default(p)]
  PROVE  InFirst(c, c, <<>>, v)
<1>1. Lists(c, c, Positions(c)) /\ Lists(c, <<>>, LeftOf(c) \ Positions(c))
  <2>1. LeftOf(c) \ Positions(c) = {}
    BY DEF LeftOf
  <2> QED
    BY <2>1, CommandIsListed, NothingIsListed
<1>2. FirstPassDone(c, v, {})
  BY DEF FirstPassDone, AfterFirst, AppOptionsOf, Compared
<1>3. Positions(c) \ Positions(c) = {} /\ Before({}, Positions(c))
  BY DEF Before
<1> QED
  BY <1>1, <1>2, <1>3 DEF InFirst

LEMMA AppOptionCounts ==
  ASSUME NEW c, NEW D, \A i \in D : i \in Nat, NEW m \in Nat, \A i \in D : i < m, IsAppOption(c[m]), NEW p
  PROVE  AfterFirst(c, p, D \cup {m}) = IF p = c[m].opt THEN [is |-> c[m].is, from |-> "cli"]
                                        ELSE AfterFirst(c, p, D)
<1>1. CASE p = c[m].opt
  <2>1. AppOptionsOf(c, p, D \cup {m}) = AppOptionsOf(c, p, D) \cup {m}
    BY <1>1 DEF AppOptionsOf
  <2>2. \A i \in AppOptionsOf(c, p, D) : i \in Nat /\ i < m
    BY DEF AppOptionsOf
  <2>3. Max(AppOptionsOf(c, p, D) \cup {m}) = m
    BY <2>2, LastIsMax
  <2> QED
    BY <1>1, <2>1, <2>3 DEF AfterFirst
<1>2. CASE p # c[m].opt
  <2>1. AppOptionsOf(c, p, D \cup {m}) = AppOptionsOf(c, p, D)
    BY <1>2 DEF AppOptionsOf
  <2> QED
    BY <1>2, <2>1 DEF AfterFirst
<1> QED
  BY <1>1, <1>2

LEMMA FirstTakes ==
  ASSUME NEW c \in Seq(Opts), NEW t \in Seq(Opts), t # <<>>, NEW k, NEW v, InFirst(c, t, k, v),
         IsAppOption(Head(t)), NEW w,
         \A p \in Compared : w[p] = IF p = Head(t).opt THEN [is |-> Head(t).is, from |-> "cli"] ELSE v[p]
  PROVE  InFirst(c, Tail(t), k, w)
<1>1. PICK S \in SUBSET Positions(c) :
        /\ Lists(c, t, S) /\ Before(Positions(c) \ S, S) /\ Lists(c, k, LeftOf(c) \ S)
        /\ FirstPassDone(c, v, Positions(c) \ S)
  BY DEF InFirst
<1>2. PICK m \in S : /\ Head(t) = c[m] /\ Tail(t) \in Seq(Opts)
                     /\ m \in Nat /\ c[m] \in Opts
                     /\ \A i \in S \ {m} : m < i
                     /\ Lists(c, Tail(t), S \ {m})
  BY <1>1, NextOption
<1> DEFINE D == Positions(c) \ S
<1>3. /\ Positions(c) \ (S \ {m}) = D \cup {m} /\ LeftOf(c) \ (S \ {m}) = LeftOf(c) \ S
      /\ S \ {m} \in SUBSET Positions(c)
  <2>1. m \in Positions(c) /\ m \notin LeftOf(c)
    BY <1>1, <1>2 DEF LeftOf
  <2> QED
    BY <1>1, <2>1
<1>4. \A i \in D : i \in Nat /\ i < m
  BY <1>1, <1>2, PositionsAreNatural DEF Before
<1>5. Before(D \cup {m}, S \ {m})
  BY <1>1, <1>2 DEF Before
<1>6. FirstPassDone(c, w, D \cup {m})
  <2> SUFFICES ASSUME NEW p \in Compared PROVE w[p] = AfterFirst(c, p, D \cup {m})
    BY DEF FirstPassDone
  <2>1. v[p] = AfterFirst(c, p, D)
    BY <1>1 DEF FirstPassDone
  <2>2. IsAppOption(c[m])
    BY <1>2
  <2>3. AfterFirst(c, p, D \cup {m}) = IF p = c[m].opt THEN [is |-> c[m].is, from |-> "cli"]
                                       ELSE AfterFirst(c, p, D)
    <3>1. (\A i \in D : i \in Nat) /\ (\A i \in D : i < m) /\ m \in Nat
      BY <1>2, <1>4
    <3> HIDE DEF D
    <3> QED
      BY <2>2, <3>1, AppOptionCounts
  <2> QED
    BY <1>2, <2>1, <2>3
<1> QED
  BY <1>1, <1>2, <1>3, <1>5, <1>6 DEF InFirst

LEMMA FirstLeaves ==
  ASSUME NEW c \in Seq(Opts), NEW t \in Seq(Opts), t # <<>>, NEW k \in Seq(Opts), NEW v, InFirst(c, t, k, v),
         ~IsAppOption(Head(t)), NEW w, \A p \in Compared : w[p] = v[p]
  PROVE  InFirst(c, Tail(t), Append(k, Head(t)), w)
<1>1. PICK S \in SUBSET Positions(c) :
        /\ Lists(c, t, S) /\ Before(Positions(c) \ S, S) /\ Lists(c, k, LeftOf(c) \ S)
        /\ FirstPassDone(c, v, Positions(c) \ S)
  BY DEF InFirst
<1>2. PICK m \in S : /\ Head(t) = c[m] /\ Tail(t) \in Seq(Opts)
                     /\ m \in Nat /\ c[m] \in Opts
                     /\ \A i \in S \ {m} : m < i
                     /\ Lists(c, Tail(t), S \ {m})
  BY <1>1, NextOption
<1> DEFINE D == Positions(c) \ S
           E == LeftOf(c) \ S
<1>3. /\ Positions(c) \ (S \ {m}) = D \cup {m} /\ LeftOf(c) \ (S \ {m}) = E \cup {m}
      /\ S \ {m} \in SUBSET Positions(c) /\ E \subseteq D
  <2>1. m \in Positions(c) /\ m \in LeftOf(c)
    BY <1>1, <1>2 DEF LeftOf
  <2> QED
    BY <1>1, <2>1, PositionsAreNatural
<1>4. \A i \in D : i \in Nat /\ i < m
  BY <1>1, <1>2, PositionsAreNatural DEF Before
<1>5. Before(D \cup {m}, S \ {m})
  BY <1>1, <1>2 DEF Before
<1>6. FirstPassDone(c, w, D \cup {m})
  <2> SUFFICES ASSUME NEW p \in Compared PROVE w[p] = AfterFirst(c, p, D \cup {m})
    BY DEF FirstPassDone
  <2>1. w[p] = AfterFirst(c, p, D)
    BY <1>1 DEF FirstPassDone
  <2>2. AppOptionsOf(c, p, D \cup {m}) = AppOptionsOf(c, p, D)
    BY <1>2 DEF AppOptionsOf
  <2> QED
    BY <2>1, <2>2 DEF AfterFirst
<1>7. Lists(c, Append(k, c[m]), E \cup {m})
  <2>1. \A i \in E : i \in Nat /\ i < m
    BY <1>3, <1>4
  <2>2. Lists(c, k, E)
    BY <1>1
  <2> HIDE DEF E
  <2> QED
    BY <1>2, <2>1, <2>2, AppendIsLast
<1> QED
  BY <1>1, <1>2, <1>3, <1>5, <1>6, <1>7 DEF InFirst

LEMMA FirstEnds ==
  ASSUME NEW c \in Seq(Opts), NEW k, NEW v, InFirst(c, <<>>, k, v)
  PROVE  Lists(c, k, LeftOf(c)) /\ FirstPassDone(c, v, Positions(c))
<1>1. PICK S \in SUBSET Positions(c) :
        /\ Lists(c, <<>>, S) /\ Lists(c, k, LeftOf(c) \ S) /\ FirstPassDone(c, v, Positions(c) \ S)
  BY DEF InFirst
<1>2. S = {}
  BY <1>1, NothingIsListed
<1>3. LeftOf(c) \ S = LeftOf(c) /\ Positions(c) \ S = Positions(c)
  BY <1>2
<1> QED
  BY <1>1, <1>3

-----------------------------------------------------------------------------
(* The file, and the second pass. *)

LEMMA GivenChangesOne ==
  ASSUME NEW v, IsValues(v), NEW q, NEW is, NEW from
  PROVE  /\ IsValues(Given(v, q, is, from))
         /\ \A p \in Params : Given(v, q, is, from)[p] = IF p = q THEN [is |-> is, from |-> from] ELSE v[p]
<1> DEFINE w == Given(v, q, is, from)
<1>1. DOMAIN v = Params
  BY DEF IsValues
<1>2. w = [p \in DOMAIN v |-> IF p = q THEN [is |-> is, from |-> from] ELSE v[p]]
  BY DEF Given
<1>3. w = [p \in Params |-> IF p = q THEN [is |-> is, from |-> from] ELSE v[p]]
  BY <1>1, <1>2
<1> HIDE DEF w
<1>4. \A p \in Params : w[p] = IF p = q THEN [is |-> is, from |-> from] ELSE v[p]
  BY <1>3
<1>5. IsValues(w)
  BY <1>3 DEF IsValues
<1> QED
  BY <1>4, <1>5 DEF w

LEMMA GivenElsewhere ==
  ASSUME NEW v, IsValues(v), NEW q, q \notin Compared, NEW is, NEW from
  PROVE  IsValues(Given(v, q, is, from)) /\ \A p \in Compared : Given(v, q, is, from)[p] = v[p]
<1> DEFINE w == Given(v, q, is, from)
<1>1. /\ IsValues(w)
      /\ \A p \in Params : w[p] = IF p = q THEN [is |-> is, from |-> from] ELSE v[p]
  BY GivenChangesOne
<1> HIDE DEF w
<1>2. \A p \in Compared : p \in Params /\ p # q
  BY DEF Compared
<1>3. IsValues(w) /\ \A p \in Compared : w[p] = v[p]
  BY <1>1, <1>2
<1> QED
  BY <1>3 DEF w

(* Options of the program itself have no other name, and no others count   *)
(* in the first pass.                                                      *)
LEMMA OthersAreUntouched ==
  ASSUME NEW c, NEW p, p \notin AppParams, NEW S
  PROVE  AfterFirst(c, p, S) = Default(p)
<1>1. AppOptionsOf(c, p, S) = {}
  BY DEF AppOptionsOf, IsAppOption
<1> QED
  BY <1>1 DEF AfterFirst

LEMMA WithoutFile ==
  ASSUME NEW c, NEW f, NEW v, FirstPassDone(c, v, Positions(c)), ~HasFile(c)
  PROVE  SecondPassDone(c, f, v, {})
<1>1. ASSUME NEW p \in Compared PROVE v[p] = AfterSecond(c, f, p, {})
  <2>1. v[p] = AfterFirst(c, p, Positions(c))
    BY DEF FirstPassDone
  <2>2. OptionsOf(c, p, {}) = {}
    BY DEF OptionsOf
  <2>3. p \notin AppParams => AfterSecond(c, f, p, {}) = Default(p)
    BY <2>2 DEF AfterSecond, AfterFile
  <2> QED
    BY <2>1, <2>3, OthersAreUntouched DEF AfterSecond
<1> QED
  BY <1>1 DEF SecondPassDone, FileIsKnown

LEMMA WithFile ==
  ASSUME NEW c, FirstPassDone(c, value, Positions(c)), IsValues(value), HasFile(c), ~FileThrows
  PROVE  IsValues(FileValues) /\ SecondPassDone(c, file, FileValues, {})
<1> DEFINE r == RootValues(value)
           a == ConvertNormalAngle(r)
           s == SectionValues(a)
           old(p) == {k \in DOMAIN file.root : Canonical(k) = p}
<1>1. (\A k \in DOMAIN file.root : k \in RootKeys) /\ (\A k \in DOMAIN file.section : k \in SectionKeys)
  BY DEF FileThrows
<1>2. /\ IsValues(r)
      /\ \A p \in Params : r[p] = IF old(p) = {} THEN value[p]
                                  ELSE [is |-> file.root[CHOOSE k \in old(p) : TRUE], from |-> "root"]
  BY DEF RootValues, IsValues
<1> HIDE DEF r
<1>3. /\ IsValues(a)
      /\ \A p \in Params : a[p] = IF p = Angle /\ Cosine \in DOMAIN file.root
                                  THEN [is |-> r[Cosine].is, from |-> "root"] ELSE r[p]
  <2>1. CASE Cosine \in DOMAIN file.root
    BY <1>2, <2>1, GivenChangesOne DEF ConvertNormalAngle
  <2>2. CASE Cosine \notin DOMAIN file.root
    BY <1>2, <2>2 DEF ConvertNormalAngle
  <2> QED
    BY <2>1, <2>2
<1> HIDE DEF a
<1>4. /\ IsValues(s)
      /\ \A p \in Params : s[p] = IF p \in DOMAIN file.section
                                  THEN [is |-> file.section[p], from |-> "section"] ELSE a[p]
  BY DEF SectionValues, IsValues
<1>5. s = FileValues
  BY DEF FileValues, s, a, r
<1> HIDE DEF s
<1>6. ASSUME NEW p \in Compared PROVE s[p] = AfterSecond(c, file, p, {})
  <2>1. p \in Params /\ value[p] = AfterFirst(c, p, Positions(c))
    BY DEF FirstPassDone, Compared
  <2>2. CASE p \in AppParams
    <3>1. p \notin DOMAIN file.section /\ p # Angle
      BY <1>1, <2>2, AppNamesAreApart
    <3>2. old(p) = {}
      BY <1>1, <2>2, AppNamesAreApart
    <3>3. s[p] = value[p]
      BY <1>2, <1>3, <1>4, <2>1, <3>1, <3>2
    <3> QED
      BY <2>1, <2>2, <3>3 DEF AfterSecond
  <2>3. CASE p \notin AppParams
    <3>1. value[p] = Default(p)
      BY <2>1, <2>3, OthersAreUntouched
    <3>2. AfterSecond(c, file, p, {}) = AfterFile(c, file, p)
      <4>1. OptionsOf(c, p, {}) = {}
        BY DEF OptionsOf
      <4> QED
        BY <2>3, <4>1 DEF AfterSecond
    <3>3. Cosine \in DOMAIN file.root => r[Cosine].is = file.root[Cosine]
      <4> HAVE Cosine \in DOMAIN file.root
      <4>1. old(Cosine) = {Cosine}
        BY CanonicalOfApp
      <4>2. (CHOOSE k \in old(Cosine) : TRUE) = Cosine
        BY <4>1
      <4>3. Cosine \in Params
        BY AppNamesAreApart
      <4> QED
        <5>1. r[Cosine] = [is |-> file.root[Cosine], from |-> "root"]
          <6>1. old(Cosine) # {}
            BY <4>1
          <6>2. r[Cosine] = [is |-> file.root[CHOOSE k \in old(Cosine) : TRUE], from |-> "root"]
            <7> HIDE DEF old
            <7> QED
              BY <1>2, <4>3, <6>1
          <6> QED
            BY <4>2, <6>2
        <5> QED
          BY <5>1
    <3>4. OldNamesIn(file, p) = old(p)
      BY DEF OldNamesIn
    <3> HIDE DEF old
    <3> QED
      BY <1>2, <1>3, <1>4, <2>1, <3>1, <3>2, <3>3, <3>4 DEF AfterFile
  <2> QED
    BY <2>2, <2>3
<1>7. SecondPassDone(c, file, s, {})
  <2>1. FileIsKnown(c, file)
    BY <1>1, AppNamesAreApart, CanonicalOfApp DEF FileIsKnown, OldNamesIn
  <2> QED
    BY <1>6, <2>1 DEF SecondPassDone
<1> QED
  BY <1>4, <1>5, <1>7

LEMMA SecondStarts ==
  ASSUME NEW c, NEW f, NEW t, Lists(c, t, LeftOf(c)), NEW v, SecondPassDone(c, f, v, {})
  PROVE  InSecond(c, f, t, v)
<1>1. LeftOf(c) \ LeftOf(c) = {} /\ Before({}, LeftOf(c)) /\ LeftOf(c) \in SUBSET LeftOf(c)
  BY DEF Before
<1> QED
  BY <1>1 DEF InSecond

LEMMA OptionCounts ==
  ASSUME NEW c, NEW f, NEW D, \A i \in D : i \in Nat, NEW m \in Nat, \A i \in D : i < m,
         c[m].opt \in CliKeys, NEW p, p \notin AppParams
  PROVE  AfterSecond(c, f, p, D \cup {m})
           = IF p = Canonical(c[m].opt) THEN [is |-> SetTo(c[m]), from |-> "cli"] ELSE AfterSecond(c, f, p, D)
<1>1. CASE p = Canonical(c[m].opt)
  <2>1. OptionsOf(c, p, D \cup {m}) = OptionsOf(c, p, D) \cup {m}
    BY <1>1 DEF OptionsOf
  <2>2. (\A i \in OptionsOf(c, p, D) : i \in Nat) /\ (\A i \in OptionsOf(c, p, D) : i < m)
    BY DEF OptionsOf
  <2>3. Max(OptionsOf(c, p, D) \cup {m}) = m
    BY <2>2, LastIsMax
  <2> QED
    BY <1>1, <2>1, <2>3 DEF AfterSecond
<1>2. CASE p # Canonical(c[m].opt)
  <2>1. OptionsOf(c, p, D \cup {m}) = OptionsOf(c, p, D)
    BY <1>2 DEF OptionsOf
  <2> QED
    BY <1>2, <2>1 DEF AfterSecond
<1> QED
  BY <1>1, <1>2

(* The next option of the second pass is set, or put aside. *)
LEMMA SecondGoesOn ==
  ASSUME NEW c \in Seq(Opts), NEW f, NEW t \in Seq(Opts), t # <<>>, NEW v, InSecond(c, f, t, v), NEW w,
         \/ /\ Understood(Head(t))
            /\ \A p \in Compared : w[p] = IF p = Canonical(Head(t).opt)
                                          THEN [is |-> SetTo(Head(t)), from |-> "cli"] ELSE v[p]
         \/ IsPositional(Head(t)) /\ w = v
  PROVE  InSecond(c, f, Tail(t), w)
<1>1. PICK S \in SUBSET LeftOf(c) :
        Lists(c, t, S) /\ Before(LeftOf(c) \ S, S) /\ SecondPassDone(c, f, v, LeftOf(c) \ S)
  BY DEF InSecond
<1>2. PICK m \in S : /\ Head(t) = c[m] /\ Tail(t) \in Seq(Opts)
                     /\ m \in Nat /\ c[m] \in Opts
                     /\ \A i \in S \ {m} : m < i
                     /\ Lists(c, Tail(t), S \ {m})
  <2>1. S \subseteq Positions(c)
    BY <1>1, PositionsAreNatural
  <2> QED
    BY <1>1, <2>1, NextOption
<1> DEFINE D == LeftOf(c) \ S
<1>3. LeftOf(c) \ (S \ {m}) = D \cup {m} /\ S \ {m} \in SUBSET LeftOf(c)
  BY <1>1, <1>2
<1>4. (\A i \in D : i \in Nat) /\ (\A i \in D : i < m) /\ m \in Nat
  BY <1>1, <1>2, PositionsAreNatural DEF Before
<1>5. Before(D \cup {m}, S \ {m})
  BY <1>1, <1>2 DEF Before
<1>6. \A i \in D \cup {m} : IsPositional(c[i]) \/ Understood(c[i])
  <2>1. IsPositional(c[m]) \/ Understood(c[m])
    BY <1>2
  <2> QED
    BY <1>1, <2>1 DEF SecondPassDone
<1>7. ASSUME NEW p \in Compared PROVE w[p] = AfterSecond(c, f, p, D \cup {m})
  <2>1. v[p] = AfterSecond(c, f, p, D)
    BY <1>1 DEF SecondPassDone
  <2>2. CASE p \in AppParams
    <3>1. w[p] = v[p]
      <4>1. Understood(Head(t)) => Canonical(Head(t).opt) # p
        BY <2>2, AppNamesAreApart DEF Understood
      <4> QED
        BY <4>1
    <3> QED
      BY <2>1, <2>2, <3>1 DEF AfterSecond
  <2>3. CASE p \notin AppParams /\ Understood(c[m])
    <3>1. c[m].opt \in CliKeys /\ c[m].opt # "positional"
      BY <2>3, AppNamesAreApart DEF Understood
    <3>2. AfterSecond(c, f, p, D \cup {m})
            = IF p = Canonical(c[m].opt) THEN [is |-> SetTo(c[m]), from |-> "cli"] ELSE AfterSecond(c, f, p, D)
      <4>1. (\A i \in D : i \in Nat) /\ (\A i \in D : i < m) /\ m \in Nat
        BY <1>4
      <4>2. p \notin AppParams /\ c[m].opt \in CliKeys
        BY <2>3, <3>1
      <4> HIDE DEF D
      <4> QED
        BY ONLY <4>1, <4>2, OptionCounts
    <3>3. ~IsPositional(Head(t))
      BY <1>2, <3>1 DEF IsPositional
    <3> QED
      BY <1>2, <2>1, <3>2, <3>3
  <2>4. CASE p \notin AppParams /\ ~Understood(c[m])
    <3>1. w = v /\ c[m].opt \notin CliKeys
      BY <1>2, <2>4, AppNamesAreApart DEF IsPositional
    <3>2. OptionsOf(c, p, D \cup {m}) = OptionsOf(c, p, D)
      BY <3>1 DEF OptionsOf
    <3> QED
      BY <2>1, <2>4, <3>1, <3>2 DEF AfterSecond
  <2> QED
    BY <2>2, <2>3, <2>4
<1>8. SecondPassDone(c, f, w, D \cup {m})
  BY <1>1, <1>6, <1>7 DEF SecondPassDone
<1> QED
  BY <1>2, <1>3, <1>5, <1>8 DEF InSecond

LEMMA SecondEnds ==
  ASSUME NEW c, NEW f, NEW v, InSecond(c, f, <<>>, v)
  PROVE  SecondPassDone(c, f, v, LeftOf(c))
<1>1. PICK S \in SUBSET LeftOf(c) : Lists(c, <<>>, S) /\ SecondPassDone(c, f, v, LeftOf(c) \ S)
  BY DEF InSecond
<1>2. LeftOf(c) \ S = LeftOf(c)
  BY <1>1, NothingIsListed
<1> QED
  BY <1>1, <1>2

-----------------------------------------------------------------------------
(* Where the reading of the configuration stands, and what the parameters   *)
(* are by then.                                                            *)

Phases == {"first", "file", "second", "validate", "configured", "tiled", "returned"}

ConfigInv ==
  /\ command \in Seq(Opts) /\ todo \in Seq(Opts) /\ kept \in Seq(Opts)
  /\ IsValues(value) /\ phase \in Phases
  /\ phase = "first" => InFirst(command, todo, kept, value)
  /\ phase = "file" => /\ Lists(command, todo, LeftOf(command)) /\ HasFile(command)
                       /\ FirstPassDone(command, value, Positions(command))
  /\ phase = "second" => InSecond(command, file, todo, value)
  /\ phase \in {"validate", "configured", "tiled"} =>
       SecondPassDone(command, file, value, LeftOf(command))
  /\ phase \in {"configured", "tiled"} => \A p \in Params \ {Cosine} : value[p].is # "bad"

LEMMA ConfigStarts == StartupInit => ConfigInv
<1> SUFFICES ASSUME StartupInit PROVE ConfigInv
  OBVIOUS
<1>1. command \in Seq(Opts) /\ todo = command /\ kept = <<>> /\ phase = "first"
  BY ScenariosAssumption DEF StartupInit, Init, Opts
<1>2. kept \in Seq(Opts)
  BY <1>1, EmptySeq
<1>3. value = [p \in Params |-> Default(p)]
  BY DEF StartupInit, Init
<1>4. IsValues(value)
  BY <1>3 DEF IsValues
<1>5. InFirst(command, todo, kept, value)
  BY <1>1, <1>3, FirstStarts
<1> QED
  BY <1>1, <1>2, <1>4, <1>5 DEF ConfigInv, Phases

LEMMA TakeAppOptionKeeps == ConfigInv /\ TakeAppOption => ConfigInv'
<1> SUFFICES ASSUME ConfigInv, TakeAppOption PROVE ConfigInv'
  OBVIOUS
<1> DEFINE o == Head(todo)
           v == Given(value, o.opt, o.is, "cli")
<1>1. /\ phase = "first" /\ todo # <<>> /\ IsAppOption(o)
      /\ value' = IF o.opt = "trace-interval" THEN Given(v, "loglevel", "trace", "cli") ELSE v
      /\ todo' = Tail(todo) /\ UNCHANGED <<command, phase, kept>>
  BY DEF TakeAppOption, InFirstPass, IsAppOption
<1>2. /\ command \in Seq(Opts) /\ todo \in Seq(Opts) /\ kept \in Seq(Opts)
      /\ IsValues(value) /\ InFirst(command, todo, kept, value)
  BY <1>1 DEF ConfigInv
<1>3. /\ IsValues(v)
      /\ \A p \in Params : v[p] = IF p = o.opt THEN [is |-> o.is, from |-> "cli"] ELSE value[p]
  BY <1>2, GivenChangesOne
<1> HIDE DEF v, o
<1>4. /\ IsValues(value')
      /\ \A p \in Compared : value'[p] = v[p]
  <2>1. CASE o.opt = "trace-interval"
    <3>1. "loglevel" \notin Compared
      BY DEF Compared
    <3>2. value' = Given(v, "loglevel", "trace", "cli")
      BY <1>1, <2>1
    <3>3. IsValues(v)
      BY <1>3
    <3> QED
      BY ONLY <3>1, <3>2, <3>3, GivenElsewhere
  <2>2. CASE o.opt # "trace-interval"
    BY <1>1, <1>3, <2>2
  <2> QED
    BY <2>1, <2>2
<1>5. \A p \in Compared : value'[p] = IF p = o.opt THEN [is |-> o.is, from |-> "cli"] ELSE value[p]
  BY <1>3, <1>4 DEF Compared
<1>6. InFirst(command, Tail(todo), kept, value')
  BY <1>1, <1>2, <1>5, FirstTakes DEF o
<1>7. Tail(todo) \in Seq(Opts)
  BY <1>1, <1>2, HeadTailProperties
<1> QED
  BY <1>1, <1>2, <1>4, <1>6, <1>7 DEF ConfigInv, Phases

LEMMA LeaveOptionKeeps == ConfigInv /\ LeaveOption => ConfigInv'
<1> SUFFICES ASSUME ConfigInv, LeaveOption PROVE ConfigInv'
  OBVIOUS
<1> DEFINE o == Head(todo)
<1>1. /\ phase = "first" /\ todo # <<>> /\ ~IsAppOption(o)
      /\ value' = ImplyCropOutput(value, o) /\ kept' = Append(kept, o)
      /\ todo' = Tail(todo) /\ UNCHANGED <<command, phase>>
  BY DEF LeaveOption, InFirstPass, IsAppOption
<1>2. /\ command \in Seq(Opts) /\ todo \in Seq(Opts) /\ kept \in Seq(Opts)
      /\ IsValues(value) /\ InFirst(command, todo, kept, value)
  BY <1>1 DEF ConfigInv
<1>3. IsValues(value') /\ \A p \in Compared : value'[p] = value[p]
  <2>1. CASE value' = Given(value, "crop-output", "on", "implied")
    <3>1. "crop-output" \notin Compared
      BY DEF Compared
    <3>2. IsValues(value)
      BY <1>2
    <3> QED
      BY ONLY <2>1, <3>1, <3>2, GivenElsewhere
  <2>2. CASE value' = value
    BY <1>2, <2>2
  <2> QED
    BY <1>1, <2>1, <2>2 DEF ImplyCropOutput
<1>4. InFirst(command, Tail(todo), Append(kept, o), value')
  BY <1>1, <1>2, <1>3, FirstLeaves
<1>5. Tail(todo) \in Seq(Opts) /\ Append(kept, o) \in Seq(Opts)
  BY <1>1, <1>2, HeadTailProperties, AppendProperties
<1> QED
  BY <1>1, <1>2, <1>3, <1>4, <1>5 DEF ConfigInv, Phases

(* A return keeps what was read. *)
LEMMA ReturnKeeps == ASSUME ConfigInv, NEW status, Return(status) PROVE ConfigInv'
  BY DEF ConfigInv, Return, Phases

LEMMA EndFirstPassKeeps == ConfigInv /\ EndFirstPass => ConfigInv'
<1> SUFFICES ASSUME ConfigInv, EndFirstPass PROVE ConfigInv'
  OBVIOUS
<1>1. CASE Return("success")
  BY <1>1, ReturnKeeps
<1>2. CASE ~Return("success")
  <2>1. /\ phase = "first" /\ todo = <<>>
        /\ phase' = IF value["config"].from = "cli" THEN "file" ELSE "second"
        /\ todo' = kept /\ kept' = <<>> /\ UNCHANGED <<command, file, value>>
    BY <1>2 DEF EndFirstPass
  <2>2. /\ command \in Seq(Opts) /\ kept \in Seq(Opts) /\ IsValues(value)
        /\ InFirst(command, <<>>, kept, value)
    BY <2>1 DEF ConfigInv
  <2>3. Lists(command, kept, LeftOf(command)) /\ FirstPassDone(command, value, Positions(command))
    BY <2>2, FirstEnds
  <2>4. HasFile(command) <=> value["config"].from = "cli"
    <3>1. "config" \in Compared
      BY AppNamesAreApart DEF Compared
    <3> QED
      BY <2>3, <3>1 DEF HasFile, FirstPassDone
  <2>5. kept' \in Seq(Opts)
    BY <2>1, EmptySeq
  <2>6. ~HasFile(command) => InSecond(command, file, kept, value)
    BY <2>2, <2>3, WithoutFile, SecondStarts
  <2> QED
    BY <2>1, <2>2, <2>3, <2>4, <2>5, <2>6 DEF ConfigInv, Phases
<1> QED
  BY <1>1, <1>2

LEMMA ReadFileKeeps == ConfigInv /\ ReadFile => ConfigInv'
<1> SUFFICES ASSUME ConfigInv, ReadFile PROVE ConfigInv'
  OBVIOUS
<1>1. /\ phase = "file" /\ ~FileThrows /\ value' = FileValues /\ phase' = "second"
      /\ UNCHANGED <<command, todo, kept, file>>
  BY DEF ReadFile
<1>2. /\ command \in Seq(Opts) /\ todo \in Seq(Opts) /\ kept \in Seq(Opts) /\ IsValues(value)
      /\ Lists(command, todo, LeftOf(command)) /\ HasFile(command)
      /\ FirstPassDone(command, value, Positions(command))
  BY <1>1 DEF ConfigInv
<1>3. IsValues(FileValues) /\ SecondPassDone(command, file, FileValues, {})
  BY <1>1, <1>2, WithFile
<1>4. InSecond(command, file, todo, FileValues)
  BY <1>2, <1>3, SecondStarts
<1> QED
  BY <1>1, <1>2, <1>3, <1>4 DEF ConfigInv, Phases

LEMMA SecondPassKeeps == ConfigInv /\ (SetOption \/ KeepPositional) => ConfigInv'
<1> SUFFICES ASSUME ConfigInv, SetOption \/ KeepPositional PROVE ConfigInv'
  OBVIOUS
<1> DEFINE o == Head(todo)
<1>1. /\ phase = "second" /\ todo # <<>> /\ todo' = Tail(todo)
      /\ UNCHANGED <<command, phase, file>>
      /\ \/ /\ Understood(o) /\ value' = Given(value, Canonical(o.opt), SetTo(o), "cli")
            /\ kept' = kept
         \/ IsPositional(o) /\ value' = value /\ kept' = Append(kept, o)
  BY DEF SetOption, KeepPositional, InSecondPass
<1>2. /\ command \in Seq(Opts) /\ todo \in Seq(Opts) /\ kept \in Seq(Opts) /\ IsValues(value)
      /\ InSecond(command, file, todo, value)
  BY <1>1 DEF ConfigInv
<1>3. Tail(todo) \in Seq(Opts) /\ o \in Opts
  BY <1>1, <1>2, HeadTailProperties
<1>4. kept' \in Seq(Opts)
  BY <1>1, <1>2, <1>3, AppendProperties
<1>5. CASE Understood(o) /\ value' = Given(value, Canonical(o.opt), SetTo(o), "cli")
  <2>1. /\ IsValues(value')
        /\ \A p \in Compared : value'[p] = IF p = Canonical(o.opt)
                                           THEN [is |-> SetTo(o), from |-> "cli"] ELSE value[p]
    BY <1>2, <1>5, GivenChangesOne DEF Compared
  <2>2. InSecond(command, file, Tail(todo), value')
    BY <1>1, <1>2, <1>5, <2>1, SecondGoesOn
  <2> QED
    BY <1>1, <1>2, <1>3, <1>4, <2>1, <2>2 DEF ConfigInv, Phases
<1>6. CASE IsPositional(o) /\ value' = value
  <2>1. InSecond(command, file, Tail(todo), value)
    BY <1>1, <1>2, <1>6, SecondGoesOn
  <2> QED
    BY <1>1, <1>2, <1>3, <1>4, <1>6, <2>1 DEF ConfigInv, Phases
<1> QED
  BY <1>1, <1>5, <1>6

LEMMA TakePositionalKeeps == ConfigInv /\ TakePositional => ConfigInv'
<1> SUFFICES ASSUME ConfigInv, TakePositional PROVE ConfigInv'
  OBVIOUS
<1>1. /\ phase = "second" /\ todo = <<>> /\ phase' = "validate"
      /\ UNCHANGED <<command, todo, kept, file, value>>
  BY DEF TakePositional
<1>2. /\ command \in Seq(Opts) /\ todo \in Seq(Opts) /\ kept \in Seq(Opts) /\ IsValues(value)
      /\ SecondPassDone(command, file, value, LeftOf(command))
  BY <1>1, SecondEnds DEF ConfigInv
<1> QED
  BY <1>1, <1>2 DEF ConfigInv, Phases

LEMMA ValidateKeeps == ASSUME ConfigInv, NEW writable, Validate(writable) PROVE ConfigInv'
<1>1. CASE Return("failure")
  BY <1>1, ReturnKeeps
<1>2. CASE ~Return("failure")
  <2>1. /\ phase = "validate" /\ Valid /\ phase' = "configured"
        /\ UNCHANGED <<command, todo, kept, file, value>>
    BY <1>2 DEF Validate
  <2>2. \A p \in Params \ {Cosine} : value[p].is # "bad"
    BY <2>1 DEF Valid
  <2> QED
    BY <2>1, <2>2 DEF ConfigInv, Phases
<1> QED
  BY <1>1, <1>2

LEMMA ConfigStays == ConfigInv /\ [Next]_vars => ConfigInv'
<1> SUFFICES ASSUME ConfigInv, [Next]_vars PROVE ConfigInv'
  OBVIOUS
<1>1. CASE Configure
  <2>1. CASE RejectAppOption \/ RejectFile \/ RejectOption \/ RejectPositional
    BY <2>1, ReturnKeeps DEF RejectAppOption, RejectFile, RejectOption, RejectPositional
  <2> QED
    BY <1>1, <2>1, TakeAppOptionKeeps, LeaveOptionKeeps, EndFirstPassKeeps, ReadFileKeeps,
       SecondPassKeeps, TakePositionalKeeps, ValidateKeeps DEF Configure
<1>2. CASE \E opened \in BOOLEAN : MakeTiles(opened)
  <2>1. CASE Return("failure")
    BY <2>1, ReturnKeeps
  <2>2. CASE ~Return("failure")
    <3>1. /\ phase = "configured" /\ phase' = "tiled"
          /\ UNCHANGED <<command, todo, kept, file, value>>
      BY <1>2, <2>2 DEF MakeTiles
    <3> QED
      BY <3>1 DEF ConfigInv, Phases
  <2> QED
    BY <2>1, <2>2
<1>3. CASE UNCHANGED configVars
  BY <1>3 DEF configVars, ConfigInv
<1> QED
  BY <1>1, <1>2, <1>3 DEF Next, vars, ReadTile

-----------------------------------------------------------------------------
(* Once both passes are done, no option of the program is negated and every *)
(* other one is understood, so that the options that count are all of them. *)
LEMMA AllOptionsCount ==
  ASSUME SecondPassDone(command, file, value, LeftOf(command)), NEW p \in Params
  PROVE  Options(p) = IF p \in AppParams THEN AppOptionsOf(command, p, Positions(command))
                      ELSE OptionsOf(command, p, LeftOf(command))
<1>1. \A i \in LeftOf(command) : command[i].opt = "positional" \/ command[i].opt \in CliKeys
  BY DEF SecondPassDone, IsPositional, Understood
<1>2. Canonical("positional") = "positional" /\ "positional" \notin Params
  <2>1. \A k : Canonical(k) = "positional" => k = "positional"
    BY DEF Canonical
  <2>2. "positional" \notin RootKeys /\ "positional" \notin AppParams /\ "positional" # Angle
    BY DEF Angle, AppParams, RootKeys, InputParams, CropParams, OutputParams, ReconstructionParams,
           RootOnlyAliases
  <2> QED
    BY <2>1, <2>2 DEF Params, Canonical
<1>3. Options(p) = {i \in Positions(command) :
                      command[i].opt \in Params \cup CliKeys /\ Canonical(command[i].opt) = p}
  BY DEF Options, Positions
<1>4. CASE p \in AppParams
  <2>1. ASSUME NEW i \in Positions(command)
        PROVE  command[i].opt \in Params \cup CliKeys /\ Canonical(command[i].opt) = p
                 <=> IsAppOption(command[i]) /\ command[i].opt = p
    <3>1. Canonical(command[i].opt) = p => command[i].opt = p
      BY <1>4, CanonicalOfApp
    <3>2. command[i].opt = p => IsAppOption(command[i])
      BY <1>1, <1>4, AppNamesAreApart DEF LeftOf, IsAppOption, AppParams
    <3>3. command[i].opt = p => Canonical(command[i].opt) = p /\ command[i].opt \in Params
      BY <1>4, CanonicalOfApp
    <3> QED
      BY <3>1, <3>2, <3>3
  <2> QED
    BY <1>3, <1>4, <2>1 DEF AppOptionsOf
<1>5. CASE p \notin AppParams
  <2>1. ASSUME NEW i \in Positions(command)
        PROVE  command[i].opt \in Params \cup CliKeys /\ Canonical(command[i].opt) = p
                 <=> i \in LeftOf(command) /\ command[i].opt \in CliKeys /\ Canonical(command[i].opt) = p
    <3>1. command[i].opt \in AppParams => Canonical(command[i].opt) # p
      BY <1>5, CanonicalOfApp
    <3>2. command[i].opt \notin AppParams => i \in LeftOf(command)
      BY DEF LeftOf, IsAppOption
    <3>3. Canonical(command[i].opt) = p => command[i].opt # "positional"
      BY <1>2
    <3> QED
      BY <1>1, <3>1, <3>2, <3>3
  <2>2. LeftOf(command) \subseteq Positions(command)
    BY DEF LeftOf
  <2> QED
    BY <1>3, <1>5, <2>1, <2>2 DEF OptionsOf
<1> QED
  BY <1>4, <1>5

LEMMA LastWord ==
  ASSUME command \in Seq(Opts), SecondPassDone(command, file, value, LeftOf(command)), NEW p \in Compared
  PROVE  value[p] = Effective(p)
<1>1. value[p] = AfterSecond(command, file, p, LeftOf(command)) /\ p \in Params
  BY DEF SecondPassDone, Compared
<1>2. FileRead <=> HasFile(command)
  <2>1. "config" \in Compared /\ "config" \in AppParams
    BY AppNamesAreApart DEF Compared
  <2>2. value["config"] = AfterSecond(command, file, "config", LeftOf(command))
    BY <2>1 DEF SecondPassDone
  <2> QED
    BY <2>1, <2>2 DEF FileRead, HasFile, AfterSecond
<1>3. Options(p) # {} => Max(Options(p)) \in Options(p)
  <2>1. Options(p) \subseteq 1 .. Len(command)
    BY DEF Options
  <2>2. IsFiniteSet(Options(p)) /\ \A i \in Options(p) : i \in Int
    <3>1. 1 \in Int /\ Len(command) \in Int
      BY LenProperties
    <3>2. IsFiniteSet(1 .. Len(command))
      <4> DEFINE n == Len(command)
      <4>1. n \in Int
        BY <3>1
      <4> HIDE DEF n
      <4>2. IsFiniteSet(1 .. n)
        BY <4>1, FS_Interval
      <4> QED
        BY <4>2 DEF n
    <3>3. IsFiniteSet(Options(p))
      BY <2>1, <3>2, FS_Subset
    <3> QED
      BY <2>1, <3>1, <3>3
  <2> QED
    BY <2>2, GreatestInteger
<1>4. CASE p \in AppParams
  <2>1. Options(p) = AppOptionsOf(command, p, Positions(command))
    BY <1>1, <1>4, AllOptionsCount
  <2>2. value[p] = AfterFirst(command, p, Positions(command))
    BY <1>1, <1>4 DEF AfterSecond
  <2>3. CASE Options(p) # {}
    <3>1. ~LastOption(p).neg
      BY <1>3, <2>1, <2>3 DEF LastOption, AppOptionsOf, IsAppOption
    <3> QED
      BY <2>1, <2>2, <2>3, <3>1 DEF AfterFirst, Effective, LastOption
  <2>4. CASE Options(p) = {}
    <3>1. value[p] = Default(p)
      BY <2>1, <2>2, <2>4 DEF AfterFirst
    <3>2. FileRead => p \notin DOMAIN file.section /\ OldNames(p) = {} /\ p # Angle
      BY <1>2, <1>4, AppNamesAreApart DEF SecondPassDone, FileIsKnown, OldNamesIn, OldNames
    <3> QED
      BY <2>4, <3>1, <3>2 DEF Effective
  <2> QED
    BY <2>3, <2>4
<1>5. CASE p \notin AppParams
  <2>1. Options(p) = OptionsOf(command, p, LeftOf(command))
    BY <1>1, <1>5, AllOptionsCount
  <2>2. value[p] = IF Options(p) = {} THEN AfterFile(command, file, p)
                   ELSE [is |-> SetTo(LastOption(p)), from |-> "cli"]
    BY <1>1, <1>5, <2>1 DEF AfterSecond, LastOption
  <2>3. OldNamesIn(file, p) = OldNames(p)
    BY DEF OldNamesIn, OldNames
  <2> QED
    BY <1>2, <2>2, <2>3 DEF Effective, AfterFile, SetTo
<1> QED
  BY <1>4, <1>5

(* Whatever stands on the command line and in the file, and in whatever     *)
(* order: an accepted configuration holds for each parameter what its last  *)
(* option says, without one what the file says, and without that the        *)
(* default, and nothing in it is invalid.                                  *)
THEOREM LastWordPrevails == Spec => []Precedence
<1>1. ConfigInv => Precedence
  <2> SUFFICES ASSUME ConfigInv, Configured, NEW p \in Params \ {"crop-output", "loglevel"}
               PROVE  value[p] = Effective(p) /\ (p # Cosine => value[p].is # "bad")
    BY DEF Precedence
  <2>1. phase \in {"configured", "tiled"}
    BY DEF ConfigInv, Configured, Phases
  <2>2. value[p] = Effective(p)
    BY <2>1, LastWord DEF ConfigInv, Compared
  <2> QED
    BY <2>1, <2>2 DEF ConfigInv
<1> QED
  BY <1>1, ConfigStarts, ConfigStays, PTL DEF Spec

-----------------------------------------------------------------------------
(***************************************************************************)
(* Logger.                                                                 *)
(***************************************************************************)
(* A thread in push_message has called log, and what it pushes is a        *)
(* message; the writer holds messages while it writes, and at no other     *)
(* time, or they would be overwritten by those it takes next.              *)
LoggerInv ==
  /\ TypeOK
  /\ \A t \in Threads : pc[t] # "idle" => calls[t] \in 1 .. MaxMessages
  /\ pending = <<>> <=> writer # "write"

(* Moving the first of the second sequence to the end of the first one     *)
(* leaves their concatenation.                                             *)
LEMMA MoveOver ==
  ASSUME NEW S, NEW done \in Seq(S), NEW rest \in Seq(S), rest # <<>>
  PROVE  Append(done, Head(rest)) \o Tail(rest) = done \o rest
<1>1. /\ Head(rest) \in S /\ Tail(rest) \in Seq(S) /\ Head(rest) = rest[1]
      /\ Len(rest) \in Nat \ {0}
  BY HeadTailProperties, EmptySeq
<1>2. rest = <<Head(rest)>> \o Tail(rest)
  <2>1. 1 \in 1 .. Len(rest) /\ Len(rest) \in 1 .. Len(rest)
    BY <1>1
  <2>2. SubSeq(rest, 1, Len(rest)) = <<rest[1]>> \o SubSeq(rest, 1 + 1, Len(rest))
    BY <2>1, SubSeqRecursiveFirst
  <2> QED  BY <2>2, <1>1, SubSeqFull, TailIsSubSeq
<1>3. Append(done, Head(rest)) = done \o <<Head(rest)>> /\ <<Head(rest)>> \in Seq(S)
  BY <1>1
<1>4. (done \o <<Head(rest)>>) \o Tail(rest) = done \o (<<Head(rest)>> \o Tail(rest))
  BY <1>1, <1>3, ConcatAssociative
<1> QED  BY <1>2, <1>3, <1>4

(* Appending to the last part of a concatenation appends to the whole.     *)
LEMMA AppendToLast ==
  ASSUME NEW S, NEW first \in Seq(S), NEW last \in Seq(S), NEW e \in S
  PROVE  first \o Append(last, e) = Append(first \o last, e)
<1>1. Append(last, e) = last \o <<e>> /\ <<e>> \in Seq(S)
  OBVIOUS
<1>2. first \o last \in Seq(S)
  BY ConcatProperties
<1>3. Append(first \o last, e) = (first \o last) \o <<e>>
  BY <1>2
<1>4. (first \o last) \o <<e>> = first \o (last \o <<e>>)
  BY <1>1, ConcatAssociative
<1> QED  BY <1>1, <1>3, <1>4

(* Types, and where the writer has messages (write_pending_message): the   *)
(* front of pending_messages is only taken when there is one.              *)
THEOREM LoggerTypes == LoggerSpec => []LoggerInv
<1>1. LoggerInit => LoggerInv
  BY LoggerAssumption DEF LoggerInit, LoggerInv, TypeOK
<1>2. LoggerInv /\ [LoggerNext]_loggervars => LoggerInv'
  <2> SUFFICES ASSUME LoggerInv, [LoggerNext]_loggervars  PROVE LoggerInv'
    OBVIOUS
  <2> USE LoggerAssumption DEF LoggerInv, TypeOK
  <2>1. CASE Construct
    BY <2>1 DEF Construct, loggers
  <2>14. CASE SetLevel
    BY <2>14 DEF SetLevel
  <2>2. ASSUME NEW t \in Threads, Log(t)  PROVE LoggerInv'
    BY <2>2 DEF Log
  <2>3. ASSUME NEW t \in Threads, Push(t)  PROVE LoggerInv'
    <3>1. <<t, calls[t]>> \in Message
      BY <2>3 DEF Push, Message
    <3> QED  BY <3>1, <2>3 DEF Push
  <2>4. ASSUME NEW t \in Threads, Notify(t)  PROVE LoggerInv'
    BY <2>4 DEF Notify, Wake
  <2>5. CASE TestActive
    BY <2>5 DEF TestActive, loggers
  <2>6. CASE Wait
    BY <2>6 DEF Wait, loggers
  <2>7. CASE SpuriousWakeup
    BY <2>7 DEF SpuriousWakeup, Wake, loggers
  <2>8. CASE Take
    BY <2>8 DEF Take, loggers
  <2>9. CASE WriteMessage
    <3>1. Head(pending) \in Message /\ Tail(pending) \in Seq(Message)
      BY <2>9, HeadTailProperties DEF WriteMessage
    <3>2. Tail(pending) = <<>> <=> Len(pending) = 1
      <4>1. Len(Tail(pending)) = Len(pending) - 1 /\ Len(pending) \in Nat \ {0}
        BY <2>9, HeadTailProperties, EmptySeq DEF WriteMessage
      <4>2. Tail(pending) = <<>> <=> Len(Tail(pending)) = 0
        BY <3>1, EmptySeq
      <4> QED  BY <4>1, <4>2
    <3> QED  BY <2>9, <3>1, <3>2 DEF WriteMessage, loggers
  <2>10. CASE Destroy
    BY <2>10 DEF Destroy, loggers
  <2>11. CASE NotifyEnd
    BY <2>11 DEF NotifyEnd, Wake, loggers
  <2>12. CASE Join
    BY <2>12 DEF Join, loggers
  <2>13. CASE UNCHANGED loggervars
    BY <2>13 DEF loggervars, loggers
  <2> QED
    BY <2>1, <2>2, <2>3, <2>4, <2>5, <2>6, <2>7, <2>8, <2>9, <2>10, <2>11, <2>12, <2>13, <2>14 DEF LoggerNext
<1> QED  BY <1>1, <1>2, PTL DEF LoggerSpec

(* The printed, what the writer holds and the queue are the messages in the *)
(* order of their pushes, wherever the writer is between its two queues    *)
(* (push_message, write_pending_message).                                  *)
THEOREM LoggedInTurn == LoggerSpec => []NothingOutOfTurn
<1>1. LoggerInit => NothingOutOfTurn
  BY DEF LoggerInit, NothingOutOfTurn
<1>2. LoggerInv /\ NothingOutOfTurn /\ [LoggerNext]_loggervars => NothingOutOfTurn'
  <2> SUFFICES ASSUME LoggerInv, NothingOutOfTurn, [LoggerNext]_loggervars  PROVE NothingOutOfTurn'
    OBVIOUS
  <2> DEFINE seqs == <<printed, pending, messages, pushed>>
  <2>1. ASSUME UNCHANGED seqs  PROVE NothingOutOfTurn'
    BY <2>1 DEF NothingOutOfTurn
  <2>2. /\ printed \in Seq(Message) /\ pending \in Seq(Message)
        /\ messages \in Seq(Message) /\ pushed \in Seq(Message)
    BY DEF LoggerInv, TypeOK
  <2>3. printed \o pending \in Seq(Message)
    BY <2>2, ConcatProperties
  <2>4. ASSUME NEW t \in Threads, Push(t)  PROVE NothingOutOfTurn'
    <3>1. <<t, calls[t]>> \in Message
      BY <2>4 DEF Push, LoggerInv, Message
    <3>2. (printed \o pending) \o Append(messages, <<t, calls[t]>>)
            = Append((printed \o pending) \o messages, <<t, calls[t]>>)
      BY <2>2, <2>3, <3>1, AppendToLast
    <3> QED  BY <3>2, <2>4 DEF Push, NothingOutOfTurn
  <2>5. CASE Take
    <3>1. pending = <<>>
      BY <2>5 DEF Take, LoggerInv
    <3>2. printed \o pending = printed /\ (printed \o messages) \o <<>> = printed \o messages
      BY <3>1, <2>2, ConcatEmptySeq, ConcatProperties
    <3> QED  BY <3>2, <2>5 DEF Take, loggers, NothingOutOfTurn
  <2>6. CASE WriteMessage
    <3>1. pending # <<>>
      BY <2>6 DEF WriteMessage, LoggerInv
    <3>2. Append(printed, Head(pending)) \o Tail(pending) = printed \o pending
      BY <3>1, <2>2, MoveOver
    <3> QED  BY <3>2, <2>6 DEF WriteMessage, loggers, NothingOutOfTurn
  <2>7. ASSUME NEW t \in Threads, Log(t) \/ Notify(t)  PROVE UNCHANGED seqs
    BY <2>7 DEF Log, Notify
  <2>8. CASE Construct \/ SetLevel \/ TestActive \/ Wait \/ SpuriousWakeup
    BY <2>8, <2>1 DEF Construct, SetLevel, TestActive, Wait, SpuriousWakeup, loggers
  <2>9. CASE Destroy \/ NotifyEnd \/ Join \/ UNCHANGED loggervars
    BY <2>9, <2>1 DEF Destroy, NotifyEnd, Join, loggervars, loggers
  <2> QED  BY <2>1, <2>4, <2>5, <2>6, <2>7, <2>8, <2>9 DEF LoggerNext
<1> QED  BY <1>1, <1>2, LoggerTypes, PTL DEF LoggerSpec

=============================================================================
