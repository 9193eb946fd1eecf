------------------------- MODULE DecodePlaneProofs -------------------------
(***************************************************************************)
(* Proofs about the decode plane, for every model, configuration and       *)
(* number of callers: a plane is disabled with one error that is reported  *)
(* once, and from then on a caller turns to the stages of at most the one  *)
(* layer it is in; a pass applies every layer once and in order, and fails *)
(* only for want of an interface or a working GPU; after Prewarm no pass   *)
(* builds a block.                                                         *)
(*                                                                         *)
(* The first needs to know who is inside of disable: only the caller whose *)
(* error disabled the plane is on its way to the warning.  The second      *)
(* needs that whoever is at a stage has met no other layer since the plane *)
(* was disabled, which holds because layerForward asks after attention.    *)
(* The third rests on what selectDirectBlockSpans returns: spans that lie  *)
(* within the model.  The last one needs that a span falls back only after *)
(* its block was asked for, whoever marks it.                              *)
(***************************************************************************)
EXTENDS DecodePlane, NaturalsInduction, WellFoundedInduction, FiniteSetTheorems,
        SequenceTheorems, TLAPS

-----------------------------------------------------------------------------
\* Which layers a span covers. Both loops are recursive functions: that such a function
\* exists is shown by giving it in closed form, and what it returns by looking at the
\* smallest layer where that would be wrong; neither takes induction over an operator.

\* A set of natural numbers that is not empty has a smallest one.
LEMMA Smallest ==
  ASSUME NEW S, S \subseteq Nat, S # {}
  PROVE  \E i \in S : \A j \in S : i <= j
<1> DEFINE Less == {ss \in Nat \X Nat : ss[1] < ss[2]}
<1>1. IsWellFoundedOn(Less, Nat)
  BY NatLessThanWellFounded DEF OpToRel
<1>2. \E x \in S : \A y \in S : <<y, x>> \notin Less
  <2> HIDE DEF Less
  <2> QED
    BY <1>1, WFMin
<1>3. PICK x \in S : \A y \in S : <<y, x>> \notin Less
  BY <1>2
<1>4. ASSUME NEW j \in S PROVE x <= j
  <2>1. x \in Nat /\ j \in Nat /\ <<j, x>> \notin Less
    BY <1>3
  <2> QED
    BY <2>1
<1> QED
  BY <1>4

\* And one that is bounded a largest one.
LEMMA Largest ==
  ASSUME NEW n \in Nat, NEW S, S \subseteq 0..n, S # {}
  PROVE  \E i \in S : \A j \in S : j <= i
<1> DEFINE T == {n - i : i \in S}
<1>1. T \subseteq Nat /\ T # {}
  <2>1. \A i \in S : n - i \in Nat
    OBVIOUS
  <2>2. PICK i \in S : TRUE
    OBVIOUS
  <2>3. n - i \in T
    OBVIOUS
  <2> QED
    BY <2>1, <2>3
<1>2. PICK x \in T : \A y \in T : x <= y
  <2> HIDE DEF T
  <2> QED
    BY <1>1, Smallest
<1>3. PICK i \in S : x = n - i
  BY <1>2
<1>4. ASSUME NEW j \in S PROVE j <= i
  <2>1. n - j \in T
    OBVIOUS
  <2>2. x <= n - j
    BY <1>2, <2>1
  <2>3. i \in 0..n /\ j \in 0..n
    OBVIOUS
  <2> HIDE DEF T
  <2> QED
    BY <1>3, <2>2, <2>3
<1> QED
  BY <1>4

-----------------------------------------------------------------------------
\* The first layer from i on that the next one does not join.
EndOf(n, offsets, i) ==
  CHOOSE j \in i..(n - 1) :
    /\ ~Joined(n, offsets, j)
    /\ \A m \in i..(n - 1) : m < j => Joined(n, offsets, m)

LEMMA EndExists ==
  ASSUME NEW n \in Nat, NEW offsets, NEW i \in 0..(n - 1)
  PROVE  LET j == EndOf(n, offsets, i)
         IN  /\ j \in i..(n - 1)
             /\ ~Joined(n, offsets, j)
             /\ \A m \in i..(n - 1) : m < j => Joined(n, offsets, m)
<1> DEFINE S == {j \in i..(n - 1) : ~Joined(n, offsets, j)}
<1>1. n - 1 \in S
  BY DEF Joined
<1>2. PICK j \in S : \A m \in S : j <= m
  <2>1. S \subseteq Nat /\ S # {}
    BY <1>1
  <2> HIDE DEF S
  <2> QED
    BY <2>1, Smallest
<1>3. /\ j \in i..(n - 1) /\ ~Joined(n, offsets, j)
      /\ \A m \in i..(n - 1) : m < j => Joined(n, offsets, m)
  BY <1>2
<1> QED
  BY <1>3 DEF EndOf

\* The inner loop ends at the first layer that is not joined (buildDirectSpans).
LEMMA LastIsEnd ==
  ASSUME NEW n \in Nat, NEW offsets
  PROVE  /\ LastFrom(n, offsets) =
              [i \in 0..(n - 1) |->
                 IF Joined(n, offsets, i) THEN LastFrom(n, offsets)[i + 1] ELSE i]
         /\ \A i \in 0..(n - 1) :
              /\ LastFrom(n, offsets)[i] \in i..(n - 1)
              /\ ~Joined(n, offsets, LastFrom(n, offsets)[i])
              /\ \A m \in i..(n - 1) : m < LastFrom(n, offsets)[i] => Joined(n, offsets, m)
<1> DEFINE Loop(f) == f = [i \in 0..(n - 1) |-> IF Joined(n, offsets, i) THEN f[i + 1] ELSE i]
           ends == [i \in 0..(n - 1) |-> EndOf(n, offsets, i)]
           last == CHOOSE f : Loop(f)
<1>1. Loop(ends)
  <2>1. ASSUME NEW i \in 0..(n - 1), Joined(n, offsets, i)
        PROVE  i + 1 \in 0..(n - 1) /\ EndOf(n, offsets, i) = EndOf(n, offsets, i + 1)
    <3>1. i + 1 \in 0..(n - 1)
      BY <2>1 DEF Joined
    <3> DEFINE a == EndOf(n, offsets, i)
               b == EndOf(n, offsets, i + 1)
    <3>2. /\ a \in i..(n - 1) /\ ~Joined(n, offsets, a)
          /\ \A m \in i..(n - 1) : m < a => Joined(n, offsets, m)
      BY EndExists
    <3>3. /\ b \in (i + 1)..(n - 1) /\ ~Joined(n, offsets, b)
          /\ \A m \in (i + 1)..(n - 1) : m < b => Joined(n, offsets, m)
      BY <3>1, EndExists
    <3> HIDE DEF a, b
    <3>4. a # i
      BY <2>1, <3>2
    <3>5. ~(b < a) /\ ~(a < b)
      BY <3>2, <3>3, <3>4
    <3> QED
      BY <3>1, <3>2, <3>3, <3>5 DEF a, b
  <2>2. ASSUME NEW i \in 0..(n - 1), ~Joined(n, offsets, i) PROVE EndOf(n, offsets, i) = i
    <3> DEFINE a == EndOf(n, offsets, i)
    <3>1. a \in i..(n - 1) /\ \A m \in i..(n - 1) : m < a => Joined(n, offsets, m)
      BY EndExists
    <3> HIDE DEF a
    <3> QED
      BY <2>2, <3>1 DEF a
  <2> QED
    BY <2>1, <2>2
<1>2. Loop(last)
  <2> HIDE DEF Loop, ends
  <2> QED
    BY <1>1
<1>3. LastFrom(n, offsets) = last
  BY DEF LastFrom
<1> DEFINE Ends(i, j) == /\ j \in i..(n - 1) /\ ~Joined(n, offsets, j)
                         /\ \A m \in i..(n - 1) : m < j => Joined(n, offsets, m)
<1>4. \A i \in 0..(n - 1) : Ends(i, last[i])
  <2> DEFINE Bad == {i \in 0..(n - 1) : ~Ends(i, last[i])}
  <2> SUFFICES ASSUME Bad # {} PROVE FALSE
    OBVIOUS
  <2>4. PICK i \in Bad : \A j \in Bad : j <= i
    <3>1. Bad \subseteq 0..n
      OBVIOUS
    <3> HIDE DEF Bad
    <3> QED
      BY <3>1, Largest
  <2>5. last[i] = IF Joined(n, offsets, i) THEN last[i + 1] ELSE i
    <3> HIDE DEF last
    <3> QED
      BY <1>2
  <2> HIDE DEF last
  <2>6. CASE Joined(n, offsets, i)
    <3>1. i + 1 \in 0..(n - 1) /\ i + 1 \notin Bad
      BY <2>4, <2>6 DEF Joined
    <3>2. Ends(i + 1, last[i + 1])
      BY <3>1
    <3>3. \A m \in i..(n - 1) : m < last[i] => m = i \/ m \in (i + 1)..(n - 1)
      OBVIOUS
    <3> QED
      BY <2>5, <2>6, <3>2, <3>3
  <2>7. CASE ~Joined(n, offsets, i)
    BY <2>5, <2>7
  <2> QED
    BY <2>6, <2>7
<1> QED
  <2> HIDE DEF last
  <2> QED
    BY <1>2, <1>3, <1>4

-----------------------------------------------------------------------------
\* Two dense layers next to each other have offsets next to each other.
LEMMA DenseJoined ==
  ASSUME NEW n \in Nat, NEW kind \in [0..(n - 1) -> Kind], NEW i \in DenseLayers(kind)
  PROVE  Joined(n, DenseOffsets(kind), i) <=> i + 1 \in DenseLayers(kind)
<1> DEFINE D == DenseLayers(kind)
           Below(j) == {m \in D : m < j}
<1>1. D \subseteq 0..(n - 1) /\ DOMAIN DenseOffsets(kind) = D
  BY DEF DenseLayers, DenseOffsets
<1>2. ASSUME i + 1 \in D PROVE DenseOffsets(kind)[i + 1] = DenseOffsets(kind)[i] + 1
  <2>1. Below(i + 1) = Below(i) \cup {i} /\ i \notin Below(i)
    BY <1>1
  <2>2. IsFiniteSet(Below(i))
    <3>1. IsFiniteSet(0..(n - 1))
      BY FS_Interval
    <3>2. Below(i) \in SUBSET (0..(n - 1))
      BY <1>1
    <3> QED
      BY <3>1, <3>2, FS_Subset
  <2>3. Cardinality(Below(i) \cup {i}) = Cardinality(Below(i)) + 1
    <3> HIDE DEF Below
    <3> QED
      BY <2>1, <2>2, FS_AddElement
  <2>4. DenseOffsets(kind)[i] = Cardinality(Below(i))
    BY DEF DenseOffsets
  <2>5. DenseOffsets(kind)[i + 1] = Cardinality(Below(i + 1))
    BY <1>2 DEF DenseOffsets
  <2> QED
    BY <2>1, <2>3, <2>4, <2>5
<1>3. i + 1 \in D => i + 1 < n
  BY <1>1
<1> QED
  BY <1>1, <1>2, <1>3 DEF Joined

\* What the inner loop returns on a dense layer: the end of its run.
LEMMA LastOfRun ==
  ASSUME NEW n \in Nat, NEW kind \in [0..(n - 1) -> Kind], NEW i \in DenseLayers(kind)
  PROVE  LET last == LastFrom(n, DenseOffsets(kind))
         IN  /\ last[i] \in i..(n - 1)
             /\ i..last[i] \subseteq DenseLayers(kind)
             /\ last[i] + 1 \notin DenseLayers(kind)
<1> DEFINE D == DenseLayers(kind)
           off == DenseOffsets(kind)
           e == LastFrom(n, off)[i]
<1>1. D \subseteq 0..(n - 1)
  BY DEF DenseLayers
<1>2. /\ e \in i..(n - 1) /\ ~Joined(n, off, e)
      /\ \A m \in i..(n - 1) : m < e => Joined(n, off, m)
  BY <1>1, LastIsEnd
<1> HIDE DEF off, e
<1>3. i..e \subseteq D
  <2> DEFINE Bad == (i..e) \ D
  <2> SUFFICES ASSUME Bad # {} PROVE FALSE
    OBVIOUS
  <2>1. Bad \subseteq Nat
    BY <1>1, <1>2
  <2>2. PICK m \in Bad : \A j \in Bad : m <= j
    <3> HIDE DEF Bad
    <3> QED
      BY <2>1, Smallest
  <2>3. m \in Nat /\ i \in Nat /\ e \in Nat /\ n \in Nat
    BY <1>1, <1>2
  <2>4. m # i /\ i <= m /\ m <= e /\ m \notin D
    BY <2>2
  <2>5. m - 1 \in i..e /\ m - 1 \in i..(n - 1) /\ m - 1 < e
    BY <1>2, <2>3, <2>4
  <2>6. m - 1 \notin Bad
    BY <2>2, <2>3
  <2>7. m - 1 \in D
    BY <2>5, <2>6
  <2>8. Joined(n, off, m - 1)
    BY <1>2, <2>5
  <2>9. (m - 1) + 1 \in D
    BY <2>7, <2>8, DenseJoined DEF off
  <2> QED
    BY <2>3, <2>4, <2>9
<1>4. e \in D
  BY <1>1, <1>2, <1>3
<1>5. e + 1 \notin D
  BY <1>2, <1>4, DenseJoined DEF off
<1> QED
  BY <1>2, <1>3, <1>5 DEF e, off

\* Where the outer loop starts a span: at a dense layer that has none before it.
LEMMA StartsAreRuns ==
  ASSUME NEW n \in Nat, NEW kind \in [0..(n - 1) -> Kind]
  PROVE  StartsFrom(n, DenseOffsets(kind))[0] =
           {i \in DenseLayers(kind) : i - 1 \notin DenseLayers(kind)}
<1> DEFINE D == DenseLayers(kind)
           off == DenseOffsets(kind)
           last == LastFrom(n, off)
           Loop(f) == f = [i \in 0..n |->
                             IF i = n THEN {}
                             ELSE IF i \notin DOMAIN off THEN f[i + 1]
                             ELSE {i} \cup f[last[i] + 1]]
           After(i) == {j \in D : j >= i /\ (j = i \/ j - 1 \notin D)}
           runs == [i \in 0..n |-> After(i)]
           starts == CHOOSE f : Loop(f)
<1>1. D \subseteq 0..(n - 1) /\ DOMAIN off = D
  BY DEF DenseLayers, DenseOffsets
<1>2. \A i \in D : /\ last[i] \in i..(n - 1) /\ i..last[i] \subseteq D
                   /\ last[i] + 1 \notin D
  BY LastOfRun
<1>3. starts = StartsFrom(n, off)
  BY DEF StartsFrom
<1> HIDE DEF D, off, last
<1>4. Loop(runs)
  <2>1. After(n) = {}
    <3>1. ASSUME NEW j \in D, j >= n PROVE FALSE
      <4>1. j \in 0..(n - 1)
        BY <1>1
      <4> QED
        BY <3>1, <4>1
    <3> QED
      BY <3>1
  <2>2. ASSUME NEW i \in 0..n, i # n, i \notin D
        PROVE  i + 1 \in 0..n /\ After(i) = After(i + 1)
    <3>1. ASSUME NEW j \in D
          PROVE  (j >= i /\ (j = i \/ j - 1 \notin D))
                   <=> (j >= i + 1 /\ (j = i + 1 \/ j - 1 \notin D))
      <4>1. j \in 0..(n - 1) /\ j # i /\ i \in Int
        BY <1>1, <2>2
      <4>2. j = i + 1 => j - 1 = i
        BY <4>1
      <4>3. j >= i <=> j >= i + 1
        BY <4>1
      <4> QED
        BY <2>2, <4>1, <4>2, <4>3
    <3>2. After(i) = After(i + 1)
      BY <3>1
    <3> QED
      BY <2>2, <3>2
  <2>3. ASSUME NEW i \in 0..n, i # n, i \in D
        PROVE  last[i] + 1 \in 0..n /\ After(i) = {i} \cup After(last[i] + 1)
    <3>1. last[i] \in i..(n - 1) /\ i..last[i] \subseteq D /\ last[i] + 1 \notin D
      BY <1>2, <2>3
    <3>2. ASSUME NEW j \in After(i), j # i PROVE j \in After(last[i] + 1)
      <4>1. j \in D /\ j > i /\ j - 1 \notin D /\ j \in 0..(n - 1)
        BY <1>1, <2>3, <3>2
      <4>2. j - 1 \notin i..last[i]
        BY <3>1, <4>1
      <4> QED
        BY <3>1, <4>1, <4>2
    <3>3. ASSUME NEW j \in After(last[i] + 1) PROVE j \in After(i)
      <4>1. j \in D /\ j \in 0..(n - 1) /\ j >= last[i] + 1
        BY <1>1, <3>3
      <4>2. j # last[i] + 1
        BY <3>1, <4>1
      <4> QED
        BY <3>1, <3>3, <4>1, <4>2
    <3>4. i \in After(i) /\ last[i] + 1 \in 0..n
      BY <2>3, <3>1
    <3>5. After(i) = {i} \cup After(last[i] + 1)
      <4> HIDE DEF After
      <4> QED
        BY <3>2, <3>3, <3>4
    <3> QED
      BY <3>4, <3>5
  <2> QED
    BY <1>1, <2>1, <2>2, <2>3
<1>5. Loop(starts)
  <2> HIDE DEF Loop, runs
  <2> QED
    BY <1>4
<1>6. \A i \in 0..n : starts[i] = After(i)
  <2> HIDE DEF starts
  <2> DEFINE Bad == {i \in 0..n : starts[i] # After(i)}
  <2> SUFFICES ASSUME Bad # {} PROVE FALSE
    OBVIOUS
  <2>1. PICK i \in Bad : \A j \in Bad : j <= i
    <3>1. Bad \subseteq 0..n
      OBVIOUS
    <3> HIDE DEF Bad
    <3> QED
      BY <3>1, Largest
  <2>2. starts[i] = IF i = n THEN {}
                    ELSE IF i \notin DOMAIN off THEN starts[i + 1]
                    ELSE {i} \cup starts[last[i] + 1]
    BY <1>5
  <2>3. After(i) = IF i = n THEN {}
                   ELSE IF i \notin DOMAIN off THEN runs[i + 1]
                   ELSE {i} \cup runs[last[i] + 1]
    BY <1>4
  <2>4. i # n /\ i \notin DOMAIN off => i + 1 \in 0..n /\ i + 1 \notin Bad
    BY <2>1
  <2>5. i # n /\ i \in DOMAIN off => last[i] + 1 \in 0..n /\ last[i] + 1 \notin Bad
    BY <1>1, <1>2, <2>1
  <2>6. \A j \in 0..n : j \notin Bad => starts[j] = runs[j]
    OBVIOUS
  <2> QED
    BY <2>2, <2>3, <2>4, <2>5, <2>6
<1>7. starts[0] = After(0)
  BY <1>6
<1>8. After(0) = {i \in D : i - 1 \notin D}
  <2>1. ASSUME NEW j \in D PROVE j >= 0 /\ (j = 0 => j - 1 \notin D)
    <3>1. j \in 0..(n - 1) /\ -1 \notin D
      BY <1>1
    <3>2. j = 0 => j - 1 = -1
      OBVIOUS
    <3> QED
      BY <3>1, <3>2
  <2> QED
    BY <2>1
<1> QED
  BY <1>3, <1>7, <1>8 DEF D, off

\* The spans that are built are the maximal runs of dense layers, each once.
LEMMA SpansAreRuns ==
  ASSUME NEW n \in Nat, NEW kind \in [0..(n - 1) -> Kind]
  PROVE  LET built == BuildSpans(n, DenseOffsets(kind))
         IN  /\ DOMAIN built \subseteq DenseLayers(kind)
             /\ \A i \in DOMAIN built : built[i] \in i..(n - 1) /\ <<i, built[i]>> \in DenseRuns(kind)
             /\ \A r \in DenseRuns(kind) :
                  r[1] \in DOMAIN built /\ r = <<r[1], built[r[1]]>>
<1> DEFINE D == DenseLayers(kind)
           last == LastFrom(n, DenseOffsets(kind))
           built == BuildSpans(n, DenseOffsets(kind))
<1>1. D \subseteq 0..(n - 1) /\ DOMAIN kind = 0..(n - 1)
  BY DEF DenseLayers
<1>2. \A i \in D : last[i] \in i..(n - 1) /\ i..last[i] \subseteq D /\ last[i] + 1 \notin D
  BY LastOfRun
<1>3. DOMAIN built = {i \in D : i - 1 \notin D} /\ \A i \in DOMAIN built : built[i] = last[i]
  BY StartsAreRuns DEF BuildSpans
<1>4. DenseRuns(kind) =
        {r \in (0..(n - 1)) \X (0..(n - 1)) :
           r[1] <= r[2] /\ r[1]..r[2] \subseteq D /\ r[1] - 1 \notin D /\ r[2] + 1 \notin D}
  BY <1>1 DEF DenseRuns
<1> HIDE DEF D, last, built
<1>5. ASSUME NEW i \in DOMAIN built
      PROVE  built[i] \in i..(n - 1) /\ <<i, built[i]>> \in DenseRuns(kind)
  <2>1. i \in D /\ i - 1 \notin D /\ built[i] = last[i] /\ i \in 0..(n - 1)
    BY <1>1, <1>3
  <2>2. built[i] \in i..(n - 1) /\ i..built[i] \subseteq D /\ built[i] + 1 \notin D
    BY <1>2, <2>1
  <2>3. built[i] \in 0..(n - 1) /\ i <= built[i]
    BY <2>1, <2>2
  <2> QED
    BY <1>4, <2>1, <2>2, <2>3
<1>6. ASSUME NEW r \in DenseRuns(kind)
      PROVE  r[1] \in DOMAIN built /\ r = <<r[1], built[r[1]]>>
  <2>1. /\ r = <<r[1], r[2]>> /\ r[1] \in 0..(n - 1) /\ r[2] \in 0..(n - 1) /\ r[1] <= r[2]
        /\ r[1]..r[2] \subseteq D /\ r[1] - 1 \notin D /\ r[2] + 1 \notin D
    BY <1>4
  <2>2. r[1] \in D /\ r[1] \in DOMAIN built
    BY <1>3, <2>1
  <2>3. /\ last[r[1]] \in r[1]..(n - 1) /\ r[1]..last[r[1]] \subseteq D
        /\ last[r[1]] + 1 \notin D
    BY <1>2, <2>2
  <2>4. ~(r[2] < last[r[1]]) /\ ~(last[r[1]] < r[2])
    BY <2>1, <2>3
  <2>5. r[2] = last[r[1]]
    BY <2>1, <2>3, <2>4
  <2> QED
    BY <1>3, <2>1, <2>2, <2>5
<1> QED
  BY <1>3, <1>5, <1>6 DEF D, built

\* selectDirectBlockSpans, for every model and every rule: the spans it returns are the
\* maximal runs of dense layers that the rule asks for.
THEOREM SelectionIsWanted ==
  ASSUME NEW n \in Nat, NEW kind \in [0..(n - 1) -> Kind], NEW rule \in Rule, NEW allowed
  PROVE  SelectsWanted(n, kind, rule, allowed)
<1> DEFINE off == DenseOffsets(kind)
           built == BuildSpans(n, off)
           Runs == DenseRuns(kind)
           Below(i) == Cardinality({j \in DenseLayers(kind) : j < i})
           Pairs(A) == {<<i, built[i]>> : i \in A}
           long == {r \in Runs : r[1] < r[2]}
           sel == SelectSpans(n, off, rule, allowed)
<1>1. DOMAIN built \subseteq DenseLayers(kind)
  BY SpansAreRuns
<1>2. \A i \in DOMAIN built : built[i] \in i..(n - 1) /\ <<i, built[i]>> \in Runs
  BY SpansAreRuns
<1>3. \A r \in Runs : r[1] \in DOMAIN built /\ r = <<r[1], built[r[1]]>>
  BY SpansAreRuns
<1>4. \A i \in DOMAIN built : off[i] = Below(i)
  BY <1>1 DEF DenseOffsets
<1>5. /\ sel = [i \in DOMAIN sel |-> built[i]]
      /\ rule = "auto" /\ Several(built) # {} => DOMAIN sel = Several(built)
      /\ rule = "auto" /\ Several(built) = {} => DOMAIN sel = DOMAIN built
      /\ rule = "multi" => DOMAIN sel = Several(built)
      /\ rule = "first" => DOMAIN sel = {i \in DOMAIN built : off[i] = 0}
      /\ rule = "all" => DOMAIN sel = DOMAIN built
      /\ rule = "offsets" => DOMAIN sel = {i \in DOMAIN built : off[i] \in allowed}
  BY DEF SelectSpans
<1> HIDE DEF off, built, Runs, sel, Below
<1>6. {<<i, sel[i]>> : i \in DOMAIN sel} = Pairs(DOMAIN sel)
  BY <1>5
<1>7. Pairs(DOMAIN built) = Runs
  BY <1>2, <1>3
<1>8. Pairs(Several(built)) = long /\ (Several(built) = {} <=> long = {})
  <2>1. ASSUME NEW i \in Several(built) PROVE <<i, built[i]>> \in long
    <3>1. i \in DOMAIN built /\ built[i] > i
      BY <2>1 DEF Several
    <3> QED
      BY <1>2, <3>1
  <2>2. ASSUME NEW r \in long PROVE r[1] \in Several(built) /\ r = <<r[1], built[r[1]]>>
    <3>1. r[1] \in DOMAIN built /\ r = <<r[1], built[r[1]]>> /\ r[1] < r[2]
      BY <1>3, <2>2
    <3>2. built[r[1]] > r[1]
      BY <3>1
    <3> QED
      BY <3>1, <3>2 DEF Several
  <2> HIDE DEF long
  <2> QED
    BY <2>1, <2>2
<1>9. Pairs({i \in DOMAIN built : off[i] = 0}) = {r \in Runs : Below(r[1]) = 0}
  BY <1>2, <1>3, <1>4
<1>10. Pairs({i \in DOMAIN built : off[i] \in allowed}) = {r \in Runs : Below(r[1]) \in allowed}
  BY <1>2, <1>3, <1>4
<1>11. /\ rule = "all" \/ (rule = "auto" /\ long = {}) => Wanted(kind, rule, allowed) = Runs
       /\ rule = "multi" \/ (rule = "auto" /\ long # {}) => Wanted(kind, rule, allowed) = long
       /\ rule = "first" => Wanted(kind, rule, allowed) = {r \in Runs : Below(r[1]) = 0}
       /\ rule = "offsets" => Wanted(kind, rule, allowed) = {r \in Runs : Below(r[1]) \in allowed}
  BY DEF Wanted, Runs, Below
<1>12. Pairs(DOMAIN sel) = Wanted(kind, rule, allowed)
  <2> HIDE DEF Pairs, long
  <2> QED
    BY <1>5, <1>7, <1>8, <1>9, <1>10, <1>11 DEF Rule
<1> QED
  BY <1>6, <1>12 DEF SelectsWanted, sel, off

\* What the runs check of the selection on small models (buildDirectSpans and
\* selectDirectBlockSpans) follows.
THEOREM SpansAreMaximal == Spec => []SpansAreMaximalRuns
<1>1. \A n \in 1..5 : \A kind \in [0..(n - 1) -> Kind], rule \in Rule : \A allowed :
        SelectsWanted(n, kind, rule, allowed)
  BY SelectionIsWanted
<1>2. SpansAreMaximalRuns
  BY <1>1 DEF SpansAreMaximalRuns
<1> QED
  BY <1>2, PTL

\* A span that is selected lies within the model (selectDirectBlockSpans).
LEMMA SelectedInModel ==
  ASSUME NEW n \in Nat, NEW kind \in [0..(n - 1) -> Kind], NEW rule \in Rule, NEW allowed
  PROVE  LET built == SelectSpans(n, DenseOffsets(kind), rule, allowed)
         IN  \A i \in DOMAIN built : i \in 0..(n - 1) /\ built[i] \in i..(n - 1)
<1> DEFINE built == SelectSpans(n, DenseOffsets(kind), rule, allowed)
<1>1. Wanted(kind, rule, allowed) \subseteq DenseRuns(kind)
  BY DEF Wanted, Rule
<1>2. {<<i, built[i]>> : i \in DOMAIN built} = Wanted(kind, rule, allowed)
  BY SelectionIsWanted DEF SelectsWanted
<1>3. \A r \in DenseRuns(kind) : r[1] \in 0..(n - 1) /\ r[2] \in 0..(n - 1) /\ r[1] <= r[2]
  BY DEF DenseRuns
<1> HIDE DEF built
<1>4. ASSUME NEW i \in DOMAIN built PROVE i \in 0..(n - 1) /\ built[i] \in i..(n - 1)
  <2>1. <<i, built[i]>> \in DenseRuns(kind)
    BY <1>1, <1>2
  <2> QED
    BY <1>3, <2>1
<1> QED
  BY <1>4 DEF built

-----------------------------------------------------------------------------
\* Where a caller is inside of disable, and on the way to the warning.
Counting == {"count", "countfirst"}
First == {"countfirst", "warn"}
Inside == Counting \cup First

\* Where a caller works with the stages of its layer.
AtStage == {"stage", "compiled", "fused", "residual", "standard", "experts", "moe"}

Shape ==
  /\ pc \in [Caller -> PC]
  /\ DOMAIN late = Caller /\ DOMAIN calls = Caller /\ DOMAIN layer = Caller
  /\ disabled \in BOOLEAN /\ disableErr \in Caller \cup {None}
  /\ stat \in [disabled : BOOLEAN, reason : Caller \cup {None}, fallbacks : Nat]

\* One caller disabled the plane; until it has warned there is no warning.
DisableInv ==
  /\ disabled <=> disableErr # None
  /\ ~disabled => warnings = << >>
  /\ \A c \in Caller : pc[c] \in Inside => disabled
  /\ \A c \in Caller : pc[c] \in First => c = disableErr /\ warnings = << >>
  /\ disabled /\ (\A c \in Caller : pc[c] \notin First) => warnings = <<disableErr>>

\* The statistics follow.
StatInv ==
  /\ stat.disabled <=> stat.reason # None
  /\ stat.disabled => disabled
  /\ disabled /\ (\A c \in Caller : pc[c] \notin Counting) => stat.disabled

\* What a caller met late is the layer it is in, as long as it is at a stage.
LateInv ==
  /\ ~disabled => \A c \in Caller : late[c] = {}
  /\ \A c \in Caller : pc[c] \in AtStage => late[c] \subseteq {<<calls[c], layer[c]>>}
  /\ AtMostOneLateLayer

IInv == Shape /\ DisableInv /\ StatInv /\ LateInv

-----------------------------------------------------------------------------
LEMMA InitInvariant == Init => IInv
<1> SUFFICES ASSUME Init PROVE IInv
  OBVIOUS
<1>1. /\ disabled = FALSE /\ disableErr = None /\ warnings = << >>
      /\ stat = [disabled |-> FALSE, reason |-> None, fallbacks |-> 0]
      /\ pc = [c \in Caller |-> "idle"]
      /\ layer = [c \in Caller |-> 0] /\ calls = [c \in Caller |-> 0]
      /\ late = [c \in Caller |-> {}]
  BY DEF Init
<1>2. Shape
  BY <1>1 DEF Shape, PC
<1>3. \A c \in Caller : pc[c] \notin Inside /\ pc[c] \notin AtStage
  BY <1>1 DEF Inside, Counting, First, AtStage
<1>4. DisableInv /\ StatInv
  BY <1>1, <1>3 DEF DisableInv, StatInv, Inside
<1>5. LateInv
  BY <1>1 DEF LateInv, AtMostOneLateLayer
<1>6. QED
  BY <1>2, <1>4, <1>5 DEF IInv

\* Supported chooses one of the dense paths.
LEMMA SupportedPath ==
  ASSUME NEW after \in 1..3
  PROVE  Supported(after) \in {"compiled", "fused", "residual", "standard"}
<1> DEFINE left == {k \in after..3 : Fast[k] \in setup.fast}
<1>1. CASE left = {}
  BY <1>1 DEF Supported
<1>2. CASE left # {}
  <2>1. left \subseteq {1, 2, 3}
    OBVIOUS
  <2>2. \E k \in left : \A j \in left : k <= j
    BY <1>2, <2>1
  <2>3. (CHOOSE k \in left : \A j \in left : k <= j) \in {1, 2, 3}
    BY <2>1, <2>2
  <2>4. \A k \in {1, 2, 3} : Fast[k] \in {"compiled", "fused", "residual"}
    BY DEF Fast
  <2>5. QED
    BY <1>2, <2>3, <2>4 DEF Supported
<1>3. QED
  BY <1>1, <1>2

\* A step outside of disable leaves what disable did.
LEMMA OutsideDisable ==
  ASSUME IInv, NEW c \in Caller, NEW to \in PC \ Inside,
         pc[c] \notin Inside, pc' = [pc EXCEPT ![c] = to],
         UNCHANGED <<disabled, disableErr, warnings>>,
         stat'.disabled = stat.disabled, stat'.reason = stat.reason
  PROVE  DisableInv' /\ StatInv'
<1>1. /\ pc' \in [Caller -> PC]
      /\ \A d \in Caller : \A S \in {Inside, First, Counting} : pc'[d] \in S <=> pc[d] \in S
  <2>1. pc' \in [Caller -> PC] /\ pc'[c] = to /\ \A d \in Caller \ {c} : pc'[d] = pc[d]
    BY DEF IInv, Shape
  <2>2. First \subseteq Inside /\ Counting \subseteq Inside
    BY DEF Inside
  <2>3. QED
    BY <2>1, <2>2
<1>2. DisableInv'
  BY <1>1 DEF IInv, DisableInv
<1>3. StatInv'
  BY <1>1 DEF IInv, StatInv
<1>4. QED
  BY <1>2, <1>3

\* A step that meets no stage, and does not go to one.
LEMMA AwayFromStage ==
  ASSUME IInv, NEW c \in Caller, NEW to \in PC \ AtStage,
         pc' = [pc EXCEPT ![c] = to], late' = late,
         disabled => disabled',
         \A d \in Caller \ {c} : calls'[d] = calls[d] /\ layer'[d] = layer[d]
  PROVE  LateInv'
<1>1. \A d \in Caller : pc'[d] \in AtStage =>
         pc[d] \in AtStage /\ calls'[d] = calls[d] /\ layer'[d] = layer[d]
  BY DEF IInv, Shape
<1>2. QED
  BY <1>1 DEF IInv, LateInv, AtMostOneLateLayer

\* A caller at a stage of its layer turns to it.
LEMMA TouchesStage ==
  ASSUME IInv, NEW c \in Caller, NEW to \in PC,
         pc[c] \in AtStage, pc' = [pc EXCEPT ![c] = to], Touch(c),
         UNCHANGED <<disabled, calls, layer>>
  PROVE  LateInv' /\ DOMAIN late' = Caller
<1>1. \A d \in Caller \ {c} : late'[d] = late[d] /\ pc'[d] = pc[d]
  BY DEF Touch, IInv, Shape
<1>2. late'[c] \subseteq {<<calls[c], layer[c]>>}
  BY DEF Touch, IInv, Shape, LateInv
<1>3. ~disabled => late' = late
  BY DEF Touch
<1>4. DOMAIN late' = Caller
  BY DEF Touch, IInv, Shape
<1>5. \A d \in Caller : pc'[d] \in AtStage => late'[d] \subseteq {<<calls'[d], layer'[d]>>}
  BY <1>1, <1>2 DEF IInv, LateInv
<1>6. AtMostOneLateLayer'
  BY <1>1, <1>2 DEF IInv, LateInv, AtMostOneLateLayer
<1>7. QED
  BY <1>3, <1>4, <1>5, <1>6 DEF IInv, LateInv

\* The same for the whole invariant: a step between other places than disable and stages.
LEMMA QuietStep ==
  ASSUME IInv, NEW c \in Caller, NEW to \in PC \ (Inside \cup AtStage),
         pc[c] \notin Inside, pc' = [pc EXCEPT ![c] = to],
         UNCHANGED <<disabled, disableErr, warnings, late>>,
         stat' = stat \/ stat' = [stat EXCEPT !.fallbacks = @ + 1],
         DOMAIN calls' = Caller, DOMAIN layer' = Caller,
         \A d \in Caller \ {c} : calls'[d] = calls[d] /\ layer'[d] = layer[d]
  PROVE  IInv'
<1>1. /\ stat' \in [disabled : BOOLEAN, reason : Caller \cup {None}, fallbacks : Nat]
      /\ stat'.disabled = stat.disabled /\ stat'.reason = stat.reason
  BY DEF IInv, Shape
<1>2. Shape'
  BY <1>1 DEF IInv, Shape
<1>3. DisableInv' /\ StatInv'
  BY <1>1, OutsideDisable
<1>4. LateInv'
  BY AwayFromStage
<1>5. QED
  BY <1>2, <1>3, <1>4 DEF IInv

LEMMA StageStep ==
  ASSUME IInv, NEW c \in Caller, NEW to \in PC \ Inside,
         pc[c] \in AtStage, pc' = [pc EXCEPT ![c] = to], Touch(c),
         UNCHANGED <<disabled, disableErr, warnings, stat, calls, layer>>
  PROVE  IInv'
<1>1. pc[c] \notin Inside
  BY DEF AtStage, Inside, Counting, First
<1>2. DisableInv' /\ StatInv'
  BY <1>1, OutsideDisable
<1>3. LateInv' /\ DOMAIN late' = Caller
  BY TouchesStage
<1>4. Shape'
  BY <1>3 DEF IInv, Shape
<1>5. QED
  BY <1>2, <1>3, <1>4 DEF IInv

\* The places a quiet step may lead to.
LEMMA QuietPlaces ==
  {"idle", "enter", "loop", "block", "marking", "marked", "attend", "disable", "fallback",
   "mlp", "apply"} \subseteq PC \ (Inside \cup AtStage)
BY DEF PC, Inside, Counting, First, AtStage

\* The pass of a caller outside of stages and disable.
LEMMA RoutingPreserves ==
  ASSUME IInv, NEW c \in Caller,
         \/ ForwardBase(c) \/ ForwardDecode(c) \/ RunBase(c) \/ RunBaseFails(c) \/ StartLoop(c)
         \/ Finish(c) \/ FinishFails(c)
  PROVE  IInv'
<1>1. PICK to \in {"idle", "enter", "loop"} :
        /\ pc' = [pc EXCEPT ![c] = to] /\ pc[c] \in {"idle", "enter", "loop"}
        /\ UNCHANGED <<planeVars, late>>
        /\ calls' = calls \/ calls' = [calls EXCEPT ![c] = @ + 1]
        /\ layer' = layer \/ layer' = [layer EXCEPT ![c] = 0]
  BY DEF ForwardBase, ForwardDecode, RunBase, RunBaseFails, StartLoop, Finish, FinishFails,
         Fail, Answer, Delegated, Begun, Goto, At, Elsewhere
<1>2. pc[c] \notin Inside /\ to \in PC \ (Inside \cup AtStage)
  BY <1>1 DEF PC, Inside, Counting, First, AtStage
<1>3. /\ DOMAIN calls' = Caller /\ DOMAIN layer' = Caller
      /\ \A d \in Caller \ {c} : calls'[d] = calls[d] /\ layer'[d] = layer[d]
  BY <1>1 DEF IInv, Shape
<1>4. QED
  BY <1>1, <1>2, <1>3, QuietStep DEF planeVars

LEMMA BlockPreserves ==
  ASSUME IInv, NEW c \in Caller,
         TryBlock(c) \/ RunBlock(c) \/ BlockFails(c) \/ MarkFallback(c) \/ CountFallback(c)
  PROVE  IInv'
<1>1. PICK to \in {"block", "attend", "loop", "marking", "marked"} :
        /\ pc' = [pc EXCEPT ![c] = to] /\ pc[c] \in {"loop", "block", "marking", "marked"}
        /\ UNCHANGED <<disabled, disableErr, warnings, late, calls>>
        /\ stat' = stat \/ stat' = [stat EXCEPT !.fallbacks = @ + 1]
        /\ layer' = layer \/ layer' = [layer EXCEPT ![c] = spans[layer[c]] + 1]
  BY DEF TryBlock, RunBlock, BlockFails, MarkFallback, CountFallback, Goto, At, Elsewhere, planeVars
<1>2. pc[c] \notin Inside /\ to \in PC \ (Inside \cup AtStage)
  BY <1>1 DEF PC, Inside, Counting, First, AtStage
<1>3. /\ DOMAIN calls' = Caller /\ DOMAIN layer' = Caller
      /\ \A d \in Caller \ {c} : calls'[d] = calls[d] /\ layer'[d] = layer[d]
  BY <1>1 DEF IInv, Shape
<1>4. QED
  BY <1>1, <1>2, <1>3, QuietStep

LEMMA LayerPreserves ==
  ASSUME IInv, NEW c \in Caller,
         LayerFails(c) \/ NoRouter(c) \/ Mlp(c) \/ NoMlp(c) \/ Apply(c)
  PROVE  IInv'
<1>1. PICK to \in {"idle", "disable", "apply", "loop"} :
        /\ pc' = [pc EXCEPT ![c] = to]
        /\ pc[c] \in {"attend", "apply", "stage", "fallback", "mlp"}
        /\ UNCHANGED <<planeVars, late, calls>>
        /\ layer' = layer \/ layer' = [layer EXCEPT ![c] = @ + 1]
  BY DEF LayerFails, NoRouter, Mlp, NoMlp, Apply, Fail, Answer, Goto, At, Elsewhere
<1>2. pc[c] \notin Inside /\ to \in PC \ (Inside \cup AtStage)
  BY <1>1 DEF PC, Inside, Counting, First, AtStage
<1>3. /\ DOMAIN calls' = Caller /\ DOMAIN layer' = Caller
      /\ \A d \in Caller \ {c} : calls'[d] = calls[d] /\ layer'[d] = layer[d]
  BY <1>1 DEF IInv, Shape
<1>4. QED
  BY <1>1, <1>2, <1>3, QuietStep DEF planeVars

\* On a disabled plane attention leads to the GPU: a caller on its way to a stage has met
\* none late.
LEMMA AttendPreserves ==
  ASSUME IInv, NEW c \in Caller, Attend(c)
  PROVE  IInv'
<1> DEFINE to == IF disabled \/ setup.gpu THEN "mlp" ELSE "stage"
<1>1. /\ pc[c] = "attend" /\ pc' = [pc EXCEPT ![c] = to]
      /\ UNCHANGED <<planeVars, late, calls, layer>>
  BY DEF Attend, At, Goto, Elsewhere
<1>2. pc[c] \notin Inside /\ to \in PC \ Inside
  BY <1>1 DEF PC, Inside, Counting, First
<1>3. CASE to = "mlp"
  <2>1. to \in PC \ (Inside \cup AtStage)
    BY <1>2, <1>3 DEF AtStage
  <2>2. QED
    BY <1>1, <1>2, <2>1, QuietStep DEF planeVars, IInv, Shape
<1>4. CASE to = "stage"
  <2>1. ~disabled
    BY <1>4
  <2>2. late'[c] = {} /\ \A d \in Caller : late'[d] = {}
    BY <1>1, <2>1 DEF IInv, LateInv
  <2>3. LateInv'
    BY <2>2 DEF LateInv, AtMostOneLateLayer
  <2>4. DisableInv' /\ StatInv'
    BY <1>1, <1>2, OutsideDisable DEF planeVars
  <2>5. Shape'
    BY <1>1, <1>2 DEF IInv, Shape, planeVars
  <2>6. QED
    BY <2>3, <2>4, <2>5 DEF IInv
<1>5. QED
  BY <1>3, <1>4

LEMMA StagePreserves ==
  ASSUME IInv, NEW c \in Caller,
         \/ AskDense(c) \/ AskShared(c) \/ AskExperts(c)
         \/ DispatchOk(c) \/ CompiledFails(c) \/ FastFails(c) \/ DispatchFails(c)
  PROVE  IInv'
<1>1. Supported(1) \in PC \ Inside /\ Supported(2) \in PC \ Inside
  <2>1. /\ Supported(1) \in {"compiled", "fused", "residual", "standard"}
        /\ Supported(2) \in {"compiled", "fused", "residual", "standard"}
    BY SupportedPath
  <2>2. QED
    BY <2>1 DEF PC, Inside, Counting, First
<1>2. {"fallback", "experts", "disable", "moe", "apply"} \subseteq PC \ Inside
  BY DEF PC, Inside, Counting, First
<1>3. PICK to \in PC \ Inside : pc' = [pc EXCEPT ![c] = to]
  <2>1. CASE AskDense(c)
    BY <1>1, <1>2, <2>1 DEF AskDense, Goto
  <2>2. CASE AskShared(c)
    BY <1>2, <2>2 DEF AskShared, Goto
  <2>3. CASE AskExperts(c)
    BY <1>2, <2>3 DEF AskExperts, Goto
  <2>4. CASE CompiledFails(c)
    BY <1>1, <2>4 DEF CompiledFails, Goto
  <2>5. CASE DispatchOk(c) \/ FastFails(c) \/ DispatchFails(c)
    BY <1>2, <2>5 DEF DispatchOk, FastFails, DispatchFails, Goto
  <2>6. QED
    BY <2>1, <2>2, <2>3, <2>4, <2>5
<1>4. pc[c] \in AtStage /\ Touch(c) /\ UNCHANGED <<planeVars, calls, layer>>
  BY DEF AskDense, AskShared, AskExperts, DispatchOk, CompiledFails, FastFails, DispatchFails,
         At, AtStage
<1>5. QED
  BY <1>3, <1>4, StageStep DEF planeVars

\* The first to get here disables the plane and owes the warning.
LEMMA DisablePreserves ==
  ASSUME IInv, NEW c \in Caller, Disable(c)
  PROVE  IInv'
<1> DEFINE to == IF disabled THEN "count" ELSE "countfirst"
<1>1. /\ pc[c] = "disable" /\ pc' = [pc EXCEPT ![c] = to]
      /\ disabled' /\ disabled' \in BOOLEAN
      /\ disableErr' = IF disabled THEN disableErr ELSE c
      /\ UNCHANGED <<stat, warnings, layer, calls, late>>
  BY DEF Disable, At, Goto
<1>2. to \in PC \ AtStage /\ to \in Counting
  BY DEF PC, AtStage, Counting
<1>3. LateInv'
  BY <1>1, <1>2, AwayFromStage
<1>4. Shape'
  BY <1>1, <1>2 DEF IInv, Shape
<1>5. pc'[c] = to /\ \A d \in Caller \ {c} : pc'[d] = pc[d]
  BY <1>1 DEF IInv, Shape
<1>6. StatInv'
  BY <1>1, <1>2, <1>5 DEF IInv, StatInv
<1>7. CASE disabled
  <2>1. disabled' = disabled /\ disableErr' = disableErr
    BY <1>1, <1>7 DEF IInv, Shape
  <2>2. pc'[c] \notin First /\ pc[c] \notin First
    BY <1>1, <1>5, <1>7 DEF First
  <2>3. DisableInv'
    BY <1>1, <1>5, <1>7, <2>1, <2>2 DEF IInv, DisableInv
  <2>4. QED
    BY <1>3, <1>4, <1>6, <2>3 DEF IInv
<1>8. CASE ~disabled
  <2>1. disableErr' = c /\ warnings' = << >> /\ c # None
    BY <1>1, <1>8, PlaneAssumption DEF IInv, DisableInv
  <2>2. \A d \in Caller \ {c} : pc'[d] \notin Inside
    BY <1>5, <1>8 DEF IInv, DisableInv
  <2>3. pc'[c] \in First /\ First \subseteq Inside
    BY <1>5, <1>8 DEF First, Inside
  <2>4. DisableInv'
    BY <1>1, <2>1, <2>2, <2>3 DEF DisableInv
  <2>5. QED
    BY <1>3, <1>4, <1>6, <2>4 DEF IInv
<1>9. QED
  BY <1>7, <1>8

LEMMA CountPreserves ==
  ASSUME IInv, NEW c \in Caller, CountDisable(c)
  PROVE  IInv'
<1> DEFINE to == IF pc[c] = "countfirst" THEN "warn" ELSE "fallback"
<1>1. /\ pc[c] \in Counting /\ pc' = [pc EXCEPT ![c] = to]
      /\ stat' = [stat EXCEPT !.disabled = TRUE, !.reason = IF @ = None THEN c ELSE @]
      /\ UNCHANGED <<disabled, disableErr, warnings, layer, calls, late>>
  BY DEF CountDisable, At, Goto, Counting
<1>2. to \in PC \ AtStage
  BY DEF PC, AtStage
<1>3. LateInv'
  BY <1>1, <1>2, AwayFromStage
<1>4. /\ stat' \in [disabled : BOOLEAN, reason : Caller \cup {None}, fallbacks : Nat]
      /\ stat'.disabled /\ stat'.reason # None
  BY <1>1, PlaneAssumption DEF IInv, Shape
<1>5. Shape'
  BY <1>1, <1>2, <1>4 DEF IInv, Shape
<1>6. disabled
  BY <1>1 DEF IInv, DisableInv, Inside
<1>7. StatInv'
  BY <1>1, <1>4, <1>6 DEF StatInv
<1>8. pc'[c] = to /\ \A d \in Caller \ {c} : pc'[d] = pc[d]
  BY <1>1 DEF IInv, Shape
<1>9. \A d \in Caller : pc'[d] \in First <=> pc[d] \in First
  BY <1>1, <1>8 DEF First, Counting
<1>10. DisableInv'
  BY <1>1, <1>6, <1>9 DEF IInv, DisableInv
<1>11. QED
  BY <1>3, <1>5, <1>7, <1>10 DEF IInv

\* Whoever warns is the one whose error disabled the plane, and nobody has warned.
LEMMA WarnPreserves ==
  ASSUME IInv, NEW c \in Caller, Warn(c)
  PROVE  IInv'
<1>1. /\ pc[c] = "warn" /\ pc' = [pc EXCEPT ![c] = "fallback"]
      /\ warnings' = IF warnings = << >> THEN <<c>> ELSE warnings
      /\ UNCHANGED <<disabled, disableErr, stat, layer, calls, late>>
  BY DEF Warn, At, Goto
<1>2. "fallback" \in PC \ AtStage
  BY DEF PC, AtStage
<1>3. LateInv'
  BY <1>1, <1>2, AwayFromStage
<1>4. Shape'
  BY <1>1, <1>2 DEF IInv, Shape
<1>5. /\ pc'[c] \notin Counting /\ pc[c] \notin Counting
      /\ pc'[c] \notin First /\ pc[c] \in First /\ First \subseteq Inside
      /\ \A d \in Caller \ {c} : pc'[d] = pc[d]
  BY <1>1 DEF IInv, Shape, Counting, First, Inside
<1>6. StatInv'
  BY <1>1, <1>5 DEF IInv, StatInv
<1>7. c = disableErr /\ disabled /\ warnings' = <<disableErr>>
  BY <1>1, <1>5 DEF IInv, DisableInv
<1>8. \A d \in Caller : pc'[d] \notin First
  BY <1>5, <1>7 DEF IInv, DisableInv
<1>9. DisableInv'
  BY <1>1, <1>7, <1>8 DEF IInv, DisableInv
<1>10. QED
  BY <1>3, <1>4, <1>6, <1>9 DEF IInv

LEMMA PrewarmPreserves ==
  ASSUME IInv, Prewarm
  PROVE  IInv'
<1>1. /\ UNCHANGED <<disabled, disableErr, warnings, passVars>>
      /\ stat' = stat \/ stat' = [stat EXCEPT !.fallbacks = @ + 1]
  BY DEF Prewarm, PrewarmStart, PrewarmLayer, PrewarmBlock, PrewarmMark, PrewarmCount,
         PrewarmStage, planeVars
<1>2. /\ stat' \in [disabled : BOOLEAN, reason : Caller \cup {None}, fallbacks : Nat]
      /\ stat'.disabled = stat.disabled /\ stat'.reason = stat.reason
  BY <1>1 DEF IInv, Shape
<1>3. QED
  BY <1>1, <1>2 DEF IInv, Shape, DisableInv, StatInv, LateInv, AtMostOneLateLayer, passVars

LEMMA NextPreserves == IInv /\ [Next]_vars => IInv'
<1> SUFFICES ASSUME IInv, [Next]_vars PROVE IInv'
  OBVIOUS
<1>1. CASE UNCHANGED vars
  BY <1>1 DEF vars, planeVars, passVars, IInv, Shape, DisableInv, StatInv, LateInv,
              AtMostOneLateLayer
<1>2. CASE Next
  <2>1. ASSUME NEW c \in Caller, Pass(c) PROVE IInv'
    BY <2>1, RoutingPreserves, BlockPreserves, LayerPreserves, AttendPreserves, StagePreserves,
       DisablePreserves, CountPreserves, WarnPreserves DEF Pass
  <2>2. CASE Prewarm
    BY <2>2, PrewarmPreserves
  <2>3. CASE Finished
    BY <1>1, <2>3 DEF Finished
  <2>4. QED
    BY <1>2, <2>1, <2>2, <2>3 DEF Next
<1>3. QED
  BY <1>1, <1>2

LEMMA Invariant == Spec => []IInv
BY InitInvariant, NextPreserves, PTL DEF Spec

-----------------------------------------------------------------------------
\* disable: the plane goes out of use with one error, which is the one warned about, and
\* the statistics agree when nobody is inside of disable.
THEOREM DisableSafety == Spec => []DisableSettles
<1>1. IInv => DisableSettles
  <2> SUFFICES ASSUME IInv PROVE DisableSettles
    OBVIOUS
  <2>1. CASE \E c \in Caller : pc[c] \in First
    <3>1. disabled /\ warnings = << >>
      BY <2>1 DEF IInv, DisableInv, Inside
    <3>2. QED
      BY <2>1, <3>1 DEF IInv, DisableInv, StatInv, DisableSettles, First, Counting
  <2>2. CASE \A c \in Caller : pc[c] \notin First
    BY <2>2 DEF IInv, DisableInv, StatInv, DisableSettles, First, Counting
  <2>3. QED
    BY <2>1, <2>2
<1>2. QED
  BY <1>1, Invariant, PTL

\* layerForward asks after attention whether the plane is disabled: a caller that is on
\* its way finishes with the stages of one layer and turns to no other.
THEOREM LateSafety == Spec => []AtMostOneLateLayer
<1>1. IInv => AtMostOneLateLayer
  BY DEF IInv, LateInv
<1>2. QED
  BY <1>1, Invariant, PTL

-----------------------------------------------------------------------------
\* Outside of the layer loop, or between two layers.
Between == {"idle", "enter", "loop"}

PassShape ==
  /\ pc \in [Caller -> PC]
  /\ layer \in [Caller -> 0..NumLayers]
  /\ DOMAIN done = Caller /\ DOMAIN result = Caller
  /\ \A i \in DOMAIN spans : i \in Layer /\ spans[i] \in i..(NumLayers - 1)
  /\ \A c \in Caller : pc[c] \notin Between => layer[c] \in Layer
  /\ \A c \in Caller : pc[c] = "block" => layer[c] \in DOMAIN spans

PassInv == PassShape /\ EveryLayerOnce

\* The layers below l, in order.
LEMMA Prefix ==
  /\ \A l \in 0..NumLayers : SubSeq(All, 1, l) = [k \in 1..l |-> k - 1]
  /\ SubSeq(All, 1, NumLayers) = All
<1>1. NumLayers \in Nat
  BY PlaneAssumption
<1>2. All \in Seq(Int) /\ Len(All) = NumLayers /\ All = [k \in 1..NumLayers |-> k - 1]
  BY <1>1 DEF All
<1>3. ASSUME NEW l \in 0..NumLayers PROVE SubSeq(All, 1, l) = [k \in 1..l |-> k - 1]
  <2>1. SubSeq(All, 1, l) = [k \in 1..l |-> All[k]]
    BY <1>1, <1>2, <1>3
  <2> QED
    BY <1>1, <1>2, <1>3, <2>1
<1> QED
  BY <1>1, <1>2, <1>3

\* One more layer.
LEMMA PrefixAppend ==
  ASSUME NEW l \in Layer
  PROVE  Append(SubSeq(All, 1, l), l) = SubSeq(All, 1, l + 1)
<1>1. NumLayers \in Nat /\ l \in Nat /\ l \in 0..NumLayers /\ l + 1 \in 0..NumLayers
  BY PlaneAssumption DEF Layer
<1>2. SubSeq(All, 1, l) = [k \in 1..l |-> k - 1] /\ SubSeq(All, 1, l + 1) = [k \in 1..(l + 1) |-> k - 1]
  BY <1>1, Prefix
<1>3. Append([k \in 1..l |-> k - 1], l) = [k \in 1..(l + 1) |-> k - 1]
  BY <1>1
<1> QED
  BY <1>2, <1>3

\* All layers of a span.
LEMMA PrefixSpan ==
  ASSUME NEW l \in Layer, NEW e \in l..(NumLayers - 1)
  PROVE  SubSeq(All, 1, l) \o [k \in 1..(e - l + 1) |-> l + k - 1] = SubSeq(All, 1, e + 1)
<1>1. /\ NumLayers \in Nat /\ l \in Nat /\ e \in Nat /\ l <= e
      /\ l \in 0..NumLayers /\ e + 1 \in 0..NumLayers
  BY PlaneAssumption DEF Layer
<1>2. /\ SubSeq(All, 1, l) = [k \in 1..l |-> k - 1]
      /\ SubSeq(All, 1, e + 1) = [k \in 1..(e + 1) |-> k - 1]
  BY <1>1, Prefix
<1> DEFINE s == [k \in 1..l |-> k - 1]
           t == [k \in 1..(e - l + 1) |-> l + k - 1]
           u == [k \in 1..(e + 1) |-> k - 1]
<1>3. s \in Seq(Int) /\ t \in Seq(Int) /\ Len(s) = l /\ Len(t) = e - l + 1
  BY <1>1
<1>4. \A k \in 1..l : s[k] = k - 1
  OBVIOUS
<1>5. \A k \in 1..(e - l + 1) : t[k] = l + k - 1
  OBVIOUS
<1> HIDE DEF s, t
<1>6. /\ s \o t \in Seq(Int) /\ Len(s \o t) = e + 1
      /\ \A k \in 1..(e + 1) : (s \o t)[k] = IF k <= l THEN s[k] ELSE t[k - l]
  <2>1. /\ s \o t \in Seq(Int) /\ Len(s \o t) = Len(s) + Len(t)
        /\ \A k \in 1..(Len(s) + Len(t)) :
             (s \o t)[k] = IF k <= Len(s) THEN s[k] ELSE t[k - Len(s)]
    BY <1>3, ConcatProperties
  <2>2. Len(s) + Len(t) = e + 1
    BY <1>1, <1>3
  <2> QED
    BY <1>3, <2>1, <2>2
<1>7. ASSUME NEW k \in 1..(e + 1)
      PROVE  (IF k <= l THEN s[k] ELSE t[k - l]) = k - 1
  BY <1>1, <1>4, <1>5
<1>8. u \in Seq(Int) /\ Len(u) = e + 1 /\ \A k \in 1..(e + 1) : u[k] = k - 1
  BY <1>1
<1>9. s \o t = u
  <2> HIDE DEF u
  <2> QED
    BY <1>6, <1>7, <1>8, SeqEqual
<1> QED
  BY <1>2, <1>9 DEF s, t, u

\* From one place of a layer to another.
LEMMA MovesOn ==
  ASSUME PassInv, NEW c \in Caller, NEW to \in PC,
         pc' = [pc EXCEPT ![c] = to], UNCHANGED <<layer, done, result, spans>>,
         pc[c] \notin {"idle", "enter"}, to \notin {"idle", "enter"},
         to # "loop" => layer[c] \in Layer,
         to = "block" => layer[c] \in DOMAIN spans
  PROVE  PassInv'
<1>1. pc' \in [Caller -> PC] /\ pc'[c] = to /\ \A d \in Caller \ {c} : pc'[d] = pc[d]
  BY DEF PassInv, PassShape
<1>2. PassShape'
  BY <1>1 DEF PassInv, PassShape, Between
<1>3. EveryLayerOnce'
  BY <1>1 DEF PassInv, EveryLayerOnce, At
<1> QED
  BY <1>2, <1>3 DEF PassInv

\* A pass answers: an error, or with every layer applied.
LEMMA Answers ==
  ASSUME PassInv, NEW c \in Caller, NEW r \in {"ok", "error"}, Answer(c, r),
         UNCHANGED <<layer, spans>>,
         done' = done \/ done' = [done EXCEPT ![c] = All],
         r = "ok" => done'[c] = All
  PROVE  PassInv'
<1>1. /\ pc' \in [Caller -> PC] /\ pc'[c] = "idle" /\ \A d \in Caller \ {c} : pc'[d] = pc[d]
      /\ DOMAIN result' = Caller /\ result'[c] = r
      /\ \A d \in Caller \ {c} : result'[d] = result[d]
      /\ DOMAIN done' = Caller /\ \A d \in Caller \ {c} : done'[d] = done[d]
  BY DEF PassInv, PassShape, Answer, Goto, PC
<1>2. PassShape'
  BY <1>1 DEF PassInv, PassShape, Between
<1>3. EveryLayerOnce'
  BY <1>1 DEF PassInv, EveryLayerOnce, At
<1> QED
  BY <1>2, <1>3 DEF PassInv

\* A layer, or a span, is behind the pass.
LEMMA LayersApplied ==
  ASSUME PassInv, NEW c \in Caller, NEW next \in 0..NumLayers,
         pc' = [pc EXCEPT ![c] = "loop"], layer' = [layer EXCEPT ![c] = next],
         DOMAIN done' = Caller, done'[c] = SubSeq(All, 1, next),
         \A d \in Caller \ {c} : done'[d] = done[d],
         UNCHANGED <<result, spans>>
  PROVE  PassInv'
<1>1. /\ pc' \in [Caller -> PC] /\ pc'[c] = "loop" /\ \A d \in Caller \ {c} : pc'[d] = pc[d]
      /\ layer' \in [Caller -> 0..NumLayers] /\ layer'[c] = next
      /\ \A d \in Caller \ {c} : layer'[d] = layer[d]
  BY DEF PassInv, PassShape, PC
<1>2. PassShape'
  BY <1>1 DEF PassInv, PassShape, Between
<1>3. EveryLayerOnce'
  BY <1>1 DEF PassInv, EveryLayerOnce, At
<1> QED
  BY <1>2, <1>3 DEF PassInv

LEMMA PassInit == Init => PassInv
<1> SUFFICES ASSUME Init PROVE PassInv
  OBVIOUS
<1>1. NumLayers \in Nat /\ setup \in Setup
  BY PlaneAssumption DEF Init
<1>2. /\ setup.kind \in [0..(NumLayers - 1) -> Kind] /\ setup.rule \in Rule
  BY <1>1 DEF Setup, Layer
<1>3. \A i \in DOMAIN spans : i \in Layer /\ spans[i] \in i..(NumLayers - 1)
  <2>1. CASE setup.gpu
    BY <2>1 DEF Init
  <2>2. CASE ~setup.gpu
    <3>1. spans = SelectSpans(NumLayers, DenseOffsets(setup.kind), setup.rule, setup.allowed)
      BY <2>2 DEF Init
    <3> QED
      BY <1>1, <1>2, <3>1, SelectedInModel DEF Layer
  <2> QED
    BY <2>1, <2>2
<1>4. /\ pc = [c \in Caller |-> "idle"] /\ layer = [c \in Caller |-> 0]
      /\ done = [c \in Caller |-> << >>] /\ result = [c \in Caller |-> "none"]
  BY DEF Init
<1>5. PassShape
  BY <1>1, <1>3, <1>4 DEF PassShape, PC, Between
<1>6. EveryLayerOnce
  BY <1>4 DEF EveryLayerOnce, At
<1> QED
  BY <1>5, <1>6 DEF PassInv

LEMMA PassStep ==
  ASSUME PassInv, NEW c \in Caller, Pass(c)
  PROVE  PassInv'
<1>1. CASE RunBaseFails(c) \/ LayerFails(c) \/ NoMlp(c) \/ FinishFails(c)
  <2>1. Fail(c)
    BY <1>1 DEF RunBaseFails, LayerFails, NoMlp, FinishFails
  <2> QED
    BY <2>1, Answers DEF Fail
<1>2. CASE ForwardBase(c) \/ RunBase(c)
  <2>1. Delegated(c) /\ UNCHANGED <<layer, spans>>
    BY <1>2 DEF ForwardBase, RunBase, Elsewhere
  <2>2. done'[c] = All
    BY <2>1 DEF Delegated, PassInv, PassShape
  <2> QED
    BY <2>1, <2>2, Answers DEF Delegated
<1>3. CASE ForwardDecode(c)
  <2>1. /\ pc' = [pc EXCEPT ![c] = "enter"] /\ UNCHANGED <<layer, done, result, spans>>
    BY <1>3 DEF ForwardDecode, Goto, Elsewhere
  <2>2. pc' \in [Caller -> PC] /\ pc'[c] = "enter" /\ \A d \in Caller \ {c} : pc'[d] = pc[d]
    BY <2>1 DEF PassInv, PassShape, PC
  <2> QED
    BY <2>1, <2>2 DEF PassInv, PassShape, EveryLayerOnce, At, Between
<1>4. CASE StartLoop(c)
  <2>1. /\ pc' = [pc EXCEPT ![c] = "loop"] /\ layer' = [layer EXCEPT ![c] = 0]
        /\ done' = [done EXCEPT ![c] = << >>] /\ UNCHANGED <<result, spans>>
    BY <1>4 DEF StartLoop, Goto, Elsewhere
  <2>2. SubSeq(All, 1, 0) = << >> /\ 0 \in 0..NumLayers
    BY Prefix, PlaneAssumption
  <2>3. /\ DOMAIN done' = Caller /\ done'[c] = SubSeq(All, 1, 0)
        /\ \A d \in Caller \ {c} : done'[d] = done[d]
    BY <2>1, <2>2 DEF PassInv, PassShape
  <2> QED
    BY <2>1, <2>2, <2>3, LayersApplied
<1>5. CASE TryBlock(c)
  <2> DEFINE to == IF ~hooked[c] /\ HasSpan(layer[c]) THEN "block" ELSE "attend"
  <2>1. /\ pc' = [pc EXCEPT ![c] = to] /\ pc[c] = "loop" /\ layer[c] < NumLayers
        /\ UNCHANGED <<layer, done, result, spans>>
    BY <1>5 DEF TryBlock, Goto, At, Elsewhere
  <2>2. layer[c] \in Layer
    BY <2>1, PlaneAssumption DEF PassInv, PassShape, Layer
  <2>3. to \in PC /\ to \notin {"idle", "enter"} /\ (to = "block" => layer[c] \in DOMAIN spans)
    BY DEF PC, HasSpan
  <2> QED
    BY <2>1, <2>2, <2>3, MovesOn
<1>6. CASE RunBlock(c)
  <2>1. /\ pc[c] = "block" /\ pc' = [pc EXCEPT ![c] = "loop"]
        /\ layer' = [layer EXCEPT ![c] = spans[layer[c]] + 1]
        /\ done' = [done EXCEPT ![c] = @ \o [k \in 1..(spans[layer[c]] - layer[c] + 1) |-> layer[c] + k - 1]]
        /\ UNCHANGED <<result, spans>>
    BY <1>6 DEF RunBlock, Goto, At
  <2>2. layer[c] \in Layer /\ spans[layer[c]] \in layer[c]..(NumLayers - 1)
    BY <2>1 DEF PassInv, PassShape
  <2>3. done[c] = SubSeq(All, 1, layer[c])
    BY <2>1 DEF PassInv, EveryLayerOnce, At
  <2>4. done'[c] = SubSeq(All, 1, spans[layer[c]] + 1)
    BY <2>1, <2>2, <2>3, PrefixSpan DEF PassInv, PassShape
  <2>5. spans[layer[c]] + 1 \in 0..NumLayers
    BY <2>2, PlaneAssumption DEF Layer
  <2>6. DOMAIN done' = Caller /\ \A d \in Caller \ {c} : done'[d] = done[d]
    BY <2>1 DEF PassInv, PassShape
  <2> QED
    BY <2>1, <2>4, <2>5, <2>6, LayersApplied
<1>7. CASE Apply(c)
  <2>1. /\ pc[c] = "apply" /\ pc' = [pc EXCEPT ![c] = "loop"]
        /\ layer' = [layer EXCEPT ![c] = layer[c] + 1]
        /\ done' = [done EXCEPT ![c] = Append(done[c], layer[c])]
        /\ UNCHANGED <<result, spans>>
    BY <1>7 DEF Apply, Goto, At, Elsewhere
  <2>2. layer[c] \in Layer
    BY <2>1 DEF PassInv, PassShape, Between
  <2>3. done[c] = SubSeq(All, 1, layer[c])
    BY <2>1 DEF PassInv, EveryLayerOnce, At
  <2>4. done'[c] = SubSeq(All, 1, layer[c] + 1)
    BY <2>1, <2>2, <2>3, PrefixAppend DEF PassInv, PassShape
  <2>5. layer[c] + 1 \in 0..NumLayers
    BY <2>2, PlaneAssumption DEF Layer
  <2>6. DOMAIN done' = Caller /\ \A d \in Caller \ {c} : done'[d] = done[d]
    BY <2>1 DEF PassInv, PassShape
  <2> QED
    BY <2>1, <2>4, <2>5, <2>6, LayersApplied
<1>8. CASE Finish(c)
  <2>1. /\ pc[c] = "loop" /\ layer[c] = NumLayers /\ Answer(c, "ok")
        /\ UNCHANGED <<layer, done, spans>>
    BY <1>8 DEF Finish, At, Elsewhere
  <2>2. done'[c] = All
    BY <2>1, Prefix DEF PassInv, EveryLayerOnce, At
  <2> QED
    BY <2>1, <2>2, Answers
<1>9. CASE \/ BlockFails(c) \/ MarkFallback(c) \/ CountFallback(c) \/ Attend(c)
           \/ AskDense(c) \/ AskShared(c) \/ NoRouter(c) \/ AskExperts(c)
           \/ DispatchOk(c) \/ CompiledFails(c) \/ FastFails(c) \/ DispatchFails(c)
           \/ Disable(c) \/ CountDisable(c) \/ Warn(c) \/ Mlp(c)
  <2>1. pc[c] \notin Between /\ UNCHANGED <<layer, done, result, spans>>
    BY <1>9 DEF BlockFails, MarkFallback, CountFallback, Attend, AskDense, AskShared, NoRouter,
       AskExperts, DispatchOk, CompiledFails, FastFails, DispatchFails, Disable, CountDisable,
       Warn, Mlp, At, Elsewhere, Between
  <2>2. PICK to \in PC \ (Between \cup {"block"}) : pc' = [pc EXCEPT ![c] = to]
    <3>1. /\ Supported(1) \in {"compiled", "fused", "residual", "standard"}
          /\ Supported(2) \in {"compiled", "fused", "residual", "standard"}
      BY SupportedPath
    <3>2. {"marking", "marked", "attend", "stage", "compiled", "fused", "residual", "standard",
           "experts", "moe", "disable", "count", "countfirst", "warn", "fallback", "mlp", "apply"}
            \subseteq PC \ (Between \cup {"block"})
      BY DEF PC, Between
    <3>3. CASE BlockFails(c) \/ MarkFallback(c) \/ CountFallback(c) \/ Attend(c) \/ NoRouter(c)
      BY <3>2, <3>3 DEF BlockFails, MarkFallback, CountFallback, Attend, NoRouter, Goto
    <3>4. CASE AskDense(c) \/ AskShared(c) \/ AskExperts(c)
      BY <3>1, <3>2, <3>4 DEF AskDense, AskShared, AskExperts, Goto
    <3>5. CASE DispatchOk(c) \/ CompiledFails(c) \/ FastFails(c) \/ DispatchFails(c)
      BY <3>1, <3>2, <3>5 DEF DispatchOk, CompiledFails, FastFails, DispatchFails, Goto
    <3>6. CASE Disable(c) \/ CountDisable(c) \/ Warn(c) \/ Mlp(c)
      BY <3>2, <3>6 DEF Disable, CountDisable, Warn, Mlp, Goto
    <3> QED
      BY <1>9, <3>3, <3>4, <3>5, <3>6
  <2>3. layer[c] \in Layer
    BY <2>1 DEF PassInv, PassShape
  <2> QED
    BY <2>1, <2>2, <2>3, MovesOn DEF Between
<1> QED
  BY <1>1, <1>2, <1>3, <1>4, <1>5, <1>6, <1>7, <1>8, <1>9 DEF Pass

LEMMA PassPreserves == PassInv /\ [Next]_vars => PassInv'
<1> SUFFICES ASSUME PassInv, [Next]_vars PROVE PassInv'
  OBVIOUS
<1>1. CASE UNCHANGED <<passVars, spans>>
  BY <1>1 DEF passVars, PassInv, PassShape, EveryLayerOnce, At
<1>2. CASE Next /\ ~UNCHANGED vars
  <2>1. CASE Prewarm
    BY <1>1, <2>1 DEF Prewarm, PrewarmStart, PrewarmLayer, PrewarmBlock, PrewarmMark,
       PrewarmCount, PrewarmStage
  <2> QED
    BY <1>2, <2>1, PassStep DEF Next, Finished
<1> QED
  BY <1>1, <1>2 DEF vars, passVars

\* A pass that succeeds has applied every layer once and in order, and so has one that is
\* between two layers, however blocks, stages, the GPU and the model share them.
THEOREM LayersSafety == Spec => []EveryLayerOnce
<1>1. PassInv => EveryLayerOnce
  BY DEF PassInv
<1> QED
  BY <1>1, PassInit, PassPreserves, PTL DEF Spec

-----------------------------------------------------------------------------
\* Only a pass that lacks an interface, or whose GPU fails, returns an error.
LEMMA SoftStep ==
  ASSUME DOMAIN result = Caller, ANEFailuresSoft, NEW c \in Caller, Pass(c)
  PROVE  DOMAIN result' = Caller /\ ANEFailuresSoft'
<1>1. setup' = setup /\ \A d \in Caller \ {c} : DOMAIN result' = Caller /\ result'[d] = result[d]
  BY DEF Pass, ForwardBase, ForwardDecode, RunBase, RunBaseFails, StartLoop, TryBlock, RunBlock,
     BlockFails, MarkFallback, CountFallback, Attend, LayerFails, AskDense, AskShared, NoRouter,
     AskExperts, DispatchOk, CompiledFails, FastFails, DispatchFails, Disable, CountDisable,
     Warn, Mlp, NoMlp, Apply, Finish, FinishFails, Fail, Answer, Delegated, Elsewhere
<1>2. /\ DOMAIN result' = Caller
      /\ \/ result'[c] = result[c] \/ result'[c] = "ok"
         \/ ~Can("embeddings") \/ ~Can("mlp") \/ CanFail("gpu")
  BY DEF Pass, ForwardBase, ForwardDecode, RunBase, RunBaseFails, StartLoop, TryBlock, RunBlock,
     BlockFails, MarkFallback, CountFallback, Attend, LayerFails, AskDense, AskShared, NoRouter,
     AskExperts, DispatchOk, CompiledFails, FastFails, DispatchFails, Disable, CountDisable,
     Warn, Mlp, NoMlp, Apply, Finish, FinishFails, Fail, Answer, Delegated, Elsewhere
<1> QED
  BY <1>1, <1>2 DEF ANEFailuresSoft, Can, CanFail

\* An ANE failure is soft: with the interfaces the fallbacks need and a GPU that works no
\* pass returns an error.
THEOREM SoftSafety == Spec => []ANEFailuresSoft
<1> DEFINE Inv == DOMAIN result = Caller /\ ANEFailuresSoft
<1>1. Init => Inv
  BY DEF Init, ANEFailuresSoft
<1>2. Inv /\ [Next]_vars => Inv'
  <2> SUFFICES ASSUME Inv, [Next]_vars PROVE Inv'
    OBVIOUS
  <2>1. CASE UNCHANGED <<setup, result>>
    BY <2>1 DEF ANEFailuresSoft, CanFail
  <2>2. CASE Prewarm
    BY <2>1, <2>2 DEF Prewarm, PrewarmStart, PrewarmLayer, PrewarmBlock, PrewarmMark,
       PrewarmCount, PrewarmStage, passVars
  <2> QED
    BY <2>1, <2>2, SoftStep DEF Next, Finished, vars, passVars
<1> QED
  BY <1>1, <1>2, PTL DEF Spec

-----------------------------------------------------------------------------
\* What Prewarm has seen to: the blocks of spans, the stages of other layers.
Seen(i) == IF i \in DOMAIN spans THEN block[i] # "none" ELSE stage[i] # "none"

PrewarmShape ==
  /\ block \in [Layer -> Built] /\ stage \in [Layer -> Built]
  /\ prewarm \in [at : {"no", "layer", "block", "marking", "marked", "stage", "ok", "error"},
                  layer : 0..NumLayers]
  /\ prewarm.at \in {"block", "marking", "marked", "stage"} => prewarm.layer \in Layer
  /\ prewarm.at = "block" => prewarm.layer \in DOMAIN spans
  /\ prewarm.at = "ok" => prewarm.layer = NumLayers

\* A span fell back only after its block was asked for.
FallbackInv ==
  /\ \A i \in fallbacks : i \in Layer /\ block[i] # "none"
  /\ \A c \in Caller : pc[c] = "marking" => block[layer[c]] # "none"
  /\ prewarm.at = "marking" => block[prewarm.layer] # "none"

SeenInv ==
  /\ prewarm.at \in {"marked", "stage"} =>
       (prewarm.layer \in DOMAIN spans => block[prewarm.layer] # "none")
  /\ \A i \in Layer : i < prewarm.layer => Seen(i)

PrewarmInv == PrewarmShape /\ FallbackInv /\ SeenInv

LEMMA PrewarmInit == Init => PrewarmInv
BY PlaneAssumption DEF Init, PrewarmInv, PrewarmShape, FallbackInv, SeenInv, Built, Layer

\* Asking builds what was not there and keeps the rest.
LEMMA AskKeeps ==
  ASSUME NEW built \in [Layer -> Built], NEW built_, NEW i \in Layer, NEW step,
         NEW outcome, Ask(built, built_, i, step, outcome)
  PROVE  /\ built_ \in [Layer -> Built] /\ built_[i] # "none"
         /\ \A j \in Layer : built[j] # "none" => built_[j] = built[j]
         /\ \A j \in Layer : j # i => built_[j] = built[j]
<1>1. CASE built[i] = "none"
  <2>1. outcome \in {"ok", "err"} /\ built_ = [built EXCEPT ![i] = outcome]
    BY <1>1 DEF Ask
  <2> QED
    BY <1>1, <2>1 DEF Built
<1>2. CASE built[i] # "none"
  BY <1>2 DEF Ask
<1> QED
  BY <1>1, <1>2

\* What a caller builds: the block of a span, or the stage of its layer.
LEMMA PassBuilds ==
  ASSUME PassInv, PrewarmInv, NEW c \in Caller, Pass(c)
  PROVE  /\ block' \in [Layer -> Built] /\ stage' \in [Layer -> Built]
         /\ \A j \in Layer : block[j] # "none" => block'[j] = block[j]
         /\ \A j \in Layer : stage[j] # "none" => stage'[j] = stage[j]
         /\ \A j \in Layer : block'[j] # block[j] => j \in DOMAIN spans
<1>0. block \in [Layer -> Built] /\ stage \in [Layer -> Built]
  BY DEF PrewarmInv, PrewarmShape
<1>1. CASE RunBlock(c) \/ BlockFails(c)
  <2>1. /\ layer[c] \in DOMAIN spans /\ layer[c] \in Layer /\ stage' = stage
    BY <1>1 DEF RunBlock, BlockFails, At, PassInv, PassShape
  <2>2. PICK outcome : Ask(block, block', layer[c], "blockbuild", outcome)
    BY <1>1 DEF RunBlock, BlockFails
  <2>3. /\ block' \in [Layer -> Built]
        /\ \A j \in Layer : block[j] # "none" => block'[j] = block[j]
        /\ \A j \in Layer : j # layer[c] => block'[j] = block[j]
    <3>1. /\ block' \in [Layer -> Built] /\ block'[layer[c]] # "none"
          /\ \A j \in Layer : block[j] # "none" => block'[j] = block[j]
      BY <1>0, <2>1, <2>2, AskKeeps
    <3>2. \A j \in Layer : j # layer[c] => block'[j] = block[j]
      BY <1>0, <2>1, <2>2 DEF Ask
    <3> QED
      BY <3>1, <3>2
  <2> QED
    BY <1>0, <2>1, <2>3
<1>2. CASE AskDense(c) \/ AskShared(c)
  <2>1. layer[c] \in Layer /\ block' = block
    BY <1>2 DEF AskDense, AskShared, At, PassInv, PassShape, Between
  <2>2. PICK outcome : Ask(stage, stage', layer[c], "build", outcome)
    BY <1>2 DEF AskDense, AskShared
  <2> QED
    BY <1>0, <2>1, <2>2, AskKeeps
<1>3. CASE block' = block /\ stage' = stage
  BY <1>0, <1>3
<1>4. QED
  BY <1>1, <1>2, <1>3 DEF Pass, ForwardBase, ForwardDecode, RunBase, RunBaseFails, StartLoop,
     TryBlock, MarkFallback, CountFallback, Attend, LayerFails, NoRouter,
     AskExperts, DispatchOk, CompiledFails, FastFails, DispatchFails, Disable, CountDisable,
     Warn, Mlp, NoMlp, Apply, Finish, FinishFails, Fail, Elsewhere, builtVars

LEMMA PassKeepsPrewarm ==
  ASSUME PassInv, PrewarmInv, NEW c \in Caller, Pass(c)
  PROVE  PrewarmInv'
<1>1. prewarm' = prewarm /\ spans' = spans
  BY DEF Pass, ForwardBase, ForwardDecode, RunBase, RunBaseFails, StartLoop, TryBlock, RunBlock,
     BlockFails, MarkFallback, CountFallback, Attend, LayerFails, AskDense, AskShared, NoRouter,
     AskExperts, DispatchOk, CompiledFails, FastFails, DispatchFails, Disable, CountDisable,
     Warn, Mlp, NoMlp, Apply, Finish, FinishFails, Fail, Elsewhere
<1>2. /\ block' \in [Layer -> Built] /\ stage' \in [Layer -> Built]
      /\ \A j \in Layer : block[j] # "none" => block'[j] # "none"
      /\ \A j \in Layer : stage[j] # "none" => stage'[j] # "none"
  BY PassBuilds
<1>3. \A i \in Layer : Seen(i) => Seen(i)'
  BY <1>1, <1>2 DEF Seen
<1>4. PrewarmShape' /\ SeenInv'
  BY <1>1, <1>2, <1>3 DEF PrewarmInv, PrewarmShape, SeenInv
<1>5. \A d \in Caller : pc[d] = "marking" => layer[d] \in Layer
  BY DEF PassInv, PassShape, Between
<1>6. FallbackInv'
  <2>1. CASE MarkFallback(c)
    <3>1. /\ pc[c] = "marking" /\ fallbacks' = fallbacks \cup {layer[c]} /\ block' = block
          /\ layer' = layer /\ \A d \in Caller : pc'[d] = "marking" => pc[d] = "marking"
      BY <2>1 DEF MarkFallback, At, Goto, builtVars, PassInv, PassShape
    <3> QED
      BY <1>1, <1>5, <3>1 DEF PrewarmInv, FallbackInv
  <2>2. CASE BlockFails(c)
    <3>1. /\ layer' = layer /\ fallbacks' = fallbacks /\ layer[c] \in Layer
          /\ \A d \in Caller : pc'[d] = "marking" => d = c \/ pc[d] = "marking"
      BY <2>2 DEF BlockFails, At, Goto, planeVars, PassInv, PassShape, Between
    <3>2. block'[layer[c]] # "none"
      BY <2>2, <3>1, AskKeeps DEF BlockFails, PrewarmInv, PrewarmShape
    <3> QED
      BY <1>1, <1>2, <1>5, <3>1, <3>2 DEF PrewarmInv, PrewarmShape, FallbackInv
  <2>3. CASE ~(MarkFallback(c) \/ BlockFails(c))
    <3>1. /\ fallbacks' = fallbacks
          /\ \A d \in Caller : pc'[d] = "marking" => pc[d] = "marking" /\ layer'[d] = layer[d]
      <4>1. /\ Supported(1) \in {"compiled", "fused", "residual", "standard"}
            /\ Supported(2) \in {"compiled", "fused", "residual", "standard"}
        BY SupportedPath
      <4>2. fallbacks' = fallbacks
        BY <2>3 DEF Pass, ForwardBase, ForwardDecode, RunBase, RunBaseFails, StartLoop, TryBlock,
           RunBlock, CountFallback, Attend, LayerFails, AskDense, AskShared, NoRouter,
           AskExperts, DispatchOk, CompiledFails, FastFails, DispatchFails, Disable,
           CountDisable, Warn, Mlp, NoMlp, Apply, Finish, FinishFails, Fail, Elsewhere, planeVars
      <4>3. PICK to \in PC \ {"marking"} : pc' = [pc EXCEPT ![c] = to]
        <5>1. {"idle", "enter", "loop", "block", "marked", "attend", "stage", "compiled", "fused",
               "residual", "standard", "experts", "moe", "disable", "count", "countfirst", "warn",
               "fallback", "mlp", "apply"} \subseteq PC \ {"marking"}
          BY DEF PC
        <5>2. CASE \/ ForwardBase(c) \/ ForwardDecode(c) \/ RunBase(c) \/ RunBaseFails(c)
                   \/ StartLoop(c) \/ Finish(c) \/ FinishFails(c) \/ LayerFails(c) \/ NoMlp(c)
          BY <5>1, <5>2 DEF ForwardBase, ForwardDecode, RunBase, RunBaseFails, StartLoop, Finish,
             FinishFails, LayerFails, NoMlp, Fail, Answer, Delegated, Goto
        <5>3. CASE RunBlock(c) \/ CountFallback(c) \/ NoRouter(c) \/ Mlp(c) \/ Apply(c) \/ Warn(c)
          BY <5>1, <5>3 DEF RunBlock, CountFallback, NoRouter, Mlp, Apply, Warn, Goto
        <5>4. CASE TryBlock(c) \/ Attend(c)
          BY <5>1, <5>4 DEF TryBlock, Attend, Goto
        <5>5. CASE Disable(c)
          BY <5>1, <5>5 DEF Disable, Goto
        <5>6. CASE CountDisable(c)
          BY <5>1, <5>6 DEF CountDisable, Goto
        <5>7. CASE AskDense(c) \/ AskShared(c) \/ AskExperts(c)
          BY <4>1, <5>1, <5>7 DEF AskDense, AskShared, AskExperts, Goto
        <5>8. CASE DispatchOk(c) \/ CompiledFails(c) \/ FastFails(c) \/ DispatchFails(c)
          BY <4>1, <5>1, <5>8 DEF DispatchOk, CompiledFails, FastFails, DispatchFails, Goto
        <5> QED
          BY <2>3, <5>2, <5>3, <5>4, <5>5, <5>6, <5>7, <5>8 DEF Pass
      <4>4. \A d \in Caller \ {c} : layer'[d] = layer[d]
        BY <2>3 DEF Pass, ForwardBase, ForwardDecode, RunBase, RunBaseFails, StartLoop, TryBlock,
           RunBlock, CountFallback, Attend, LayerFails, AskDense, AskShared, NoRouter,
           AskExperts, DispatchOk, CompiledFails, FastFails, DispatchFails, Disable,
           CountDisable, Warn, Mlp, NoMlp, Apply, Finish, FinishFails, Fail, PassInv, PassShape
      <4> QED
        BY <4>2, <4>3, <4>4 DEF PassInv, PassShape
    <3> QED
      BY <1>1, <1>2, <1>5, <3>1 DEF PrewarmInv, PrewarmShape, FallbackInv
  <2> QED
    BY <2>1, <2>2, <2>3
<1> QED
  BY <1>4, <1>6 DEF PrewarmInv

\* On to the next layer when this one has been seen to.
LEMMA PrewarmGoesOn ==
  ASSUME PrewarmInv, prewarm.layer \in Layer, PrewarmNext, spans' = spans,
         block' \in [Layer -> Built], stage' \in [Layer -> Built],
         \A i \in Layer : Seen(i) \/ i = prewarm.layer => Seen(i)'
  PROVE  PrewarmShape' /\ SeenInv' /\ prewarm'.at = "layer"
<1>1. /\ prewarm' = [at |-> "layer", layer |-> prewarm.layer + 1]
      /\ NumLayers \in Nat /\ prewarm.layer \in 0..(NumLayers - 1)
  BY PlaneAssumption DEF PrewarmNext, Layer
<1>2. PrewarmShape'
  BY <1>1 DEF PrewarmInv, PrewarmShape
<1>3. \A i \in Layer : i < prewarm'.layer => i < prewarm.layer \/ i = prewarm.layer
  BY <1>1 DEF Layer
<1>4. SeenInv'
  BY <1>1, <1>3 DEF PrewarmInv, SeenInv
<1> QED
  BY <1>1, <1>2, <1>4

LEMMA PrewarmStepKeeps ==
  ASSUME PassInv, PrewarmInv, Prewarm
  PROVE  PrewarmInv'
<1>1. pc' = pc /\ layer' = layer /\ spans' = spans
  BY DEF Prewarm, PrewarmStart, PrewarmLayer, PrewarmBlock, PrewarmMark, PrewarmCount,
     PrewarmStage, passVars
<1>2. \A d \in Caller : pc[d] = "marking" => layer[d] \in Layer
  BY DEF PassInv, PassShape, Between
<1> USE DEF PrewarmInv
<1>3. CASE PrewarmStart \/ PrewarmCount
  <2>1. /\ UNCHANGED <<block, stage, fallbacks>> /\ prewarm'.layer = prewarm.layer
        /\ \/ prewarm.at = "no" /\ prewarm'.at = "layer"
           \/ prewarm.at = "marked" /\ prewarm'.at = "stage"
        /\ prewarm' = [prewarm EXCEPT !.at = prewarm'.at]
    BY <1>3 DEF PrewarmStart, PrewarmCount, PrewarmAt, PrewarmGoto, planeVars, builtVars,
       PrewarmShape
  <2> QED
    BY <1>1, <2>1 DEF PrewarmShape, FallbackInv, SeenInv, Seen
<1>4. CASE PrewarmLayer
  <2> DEFINE to == IF prewarm.layer = NumLayers THEN "ok"
                   ELSE IF disabled THEN "error"
                   ELSE IF HasSpan(prewarm.layer) THEN "block" ELSE "stage"
  <2>1. /\ UNCHANGED <<block, stage, fallbacks>> /\ prewarm' = [prewarm EXCEPT !.at = to]
        /\ prewarm.at = "layer"
    BY <1>4 DEF PrewarmLayer, PrewarmAt, PrewarmGoto, planeVars, builtVars
  <2>2. /\ prewarm'.at = to /\ prewarm'.layer = prewarm.layer
        /\ prewarm.layer # NumLayers => prewarm.layer \in Layer
    BY <2>1, PlaneAssumption DEF PrewarmShape, Layer
  <2>3. PrewarmShape'
    BY <1>1, <2>1, <2>2 DEF PrewarmShape, HasSpan
  <2>4. SeenInv'
    BY <1>1, <2>1, <2>2 DEF SeenInv, Seen, HasSpan, FallbackInv
  <2>5. FallbackInv'
    BY <1>1, <2>1, <2>2 DEF FallbackInv
  <2> QED
    BY <2>3, <2>4, <2>5
<1>5. CASE PrewarmBlock
  <2>1. prewarm.at = "block" /\ prewarm.layer \in Layer /\ prewarm.layer \in DOMAIN spans
    BY <1>5 DEF PrewarmBlock, PrewarmAt, PrewarmShape
  <2>2. /\ UNCHANGED <<stage, fallbacks>>
        /\ PrewarmNext \/ prewarm' = [prewarm EXCEPT !.at = "marking"]
    BY <1>5 DEF PrewarmBlock, PrewarmGoto, planeVars
  <2>3. /\ block' \in [Layer -> Built] /\ block'[prewarm.layer] # "none"
        /\ \A j \in Layer : block[j] # "none" => block'[j] # "none"
    <3>1. PICK outcome : Ask(block, block', prewarm.layer, "blockbuild", outcome)
      BY <1>5 DEF PrewarmBlock
    <3>2. /\ block' \in [Layer -> Built] /\ block'[prewarm.layer] # "none"
          /\ \A j \in Layer : block[j] # "none" => block'[j] = block[j]
      BY <2>1, <3>1, AskKeeps DEF PrewarmShape
    <3> QED
      BY <3>2
  <2>4. \A i \in Layer : Seen(i) \/ i = prewarm.layer => Seen(i)'
    BY <1>1, <2>1, <2>2, <2>3 DEF Seen
  <2>5. CASE PrewarmNext
    <3>1. PrewarmShape' /\ SeenInv' /\ prewarm'.at = "layer"
      BY <1>1, <2>1, <2>2, <2>3, <2>4, <2>5, PrewarmGoesOn DEF PrewarmShape
    <3> QED
      BY <1>1, <1>2, <2>2, <2>3, <3>1 DEF FallbackInv
  <2>6. CASE prewarm' = [prewarm EXCEPT !.at = "marking"]
    <3>1. prewarm'.at = "marking" /\ prewarm'.layer = prewarm.layer
      BY <2>6 DEF PrewarmShape
    <3> QED
      BY <1>1, <1>2, <2>1, <2>2, <2>3, <2>4, <2>6, <3>1
         DEF PrewarmShape, FallbackInv, SeenInv
  <2> QED
    BY <2>2, <2>5, <2>6
<1>6. CASE PrewarmMark
  <2> DEFINE to == IF prewarm.layer \in fallbacks THEN "stage" ELSE "marked"
  <2>1. /\ UNCHANGED <<block, stage>> /\ prewarm' = [prewarm EXCEPT !.at = to]
        /\ fallbacks' = fallbacks \cup {prewarm.layer} /\ prewarm.at = "marking"
    BY <1>6 DEF PrewarmMark, PrewarmAt, PrewarmGoto, builtVars
  <2>2. prewarm'.at = to /\ prewarm'.layer = prewarm.layer /\ prewarm.layer \in Layer
    BY <2>1 DEF PrewarmShape
  <2> QED
    BY <1>1, <2>1, <2>2 DEF PrewarmShape, FallbackInv, SeenInv, Seen
<1>7. CASE PrewarmStage
  <2>1. prewarm.at = "stage" /\ prewarm.layer \in Layer
    BY <1>7 DEF PrewarmStage, PrewarmAt, PrewarmShape
  <2>2. /\ UNCHANGED <<block, fallbacks>>
        /\ PrewarmNext \/ prewarm' = [prewarm EXCEPT !.at = "error"]
    BY <1>7 DEF PrewarmStage, PrewarmGoto, planeVars
  <2>3. /\ stage' \in [Layer -> Built] /\ stage'[prewarm.layer] # "none"
        /\ \A j \in Layer : stage[j] # "none" => stage'[j] # "none"
    BY <1>7, <2>1, AskKeeps DEF PrewarmStage, PrewarmShape
  <2>4. \A i \in Layer : Seen(i) \/ i = prewarm.layer => Seen(i)'
    BY <1>1, <2>1, <2>2, <2>3 DEF Seen, SeenInv
  <2>5. CASE PrewarmNext
    <3>1. PrewarmShape' /\ SeenInv' /\ prewarm'.at = "layer"
      BY <1>1, <2>1, <2>2, <2>3, <2>4, <2>5, PrewarmGoesOn DEF PrewarmShape
    <3> QED
      BY <1>1, <2>2, <3>1 DEF FallbackInv
  <2>6. CASE prewarm' = [prewarm EXCEPT !.at = "error"]
    <3>1. prewarm'.at = "error" /\ prewarm'.layer = prewarm.layer
      BY <2>6 DEF PrewarmShape
    <3> QED
      BY <1>1, <2>2, <2>3, <2>4, <2>6, <3>1 DEF PrewarmShape, FallbackInv, SeenInv
  <2> QED
    BY <2>2, <2>5, <2>6
<1> QED
  BY <1>3, <1>4, <1>5, <1>6, <1>7 DEF Prewarm

LEMMA PrewarmInvPreserved == PassInv /\ PrewarmInv /\ [Next]_vars => PrewarmInv'
<1> SUFFICES ASSUME PassInv, PrewarmInv, [Next]_vars PROVE PrewarmInv'
  OBVIOUS
<1>1. CASE UNCHANGED vars
  BY <1>1 DEF vars, builtVars, planeVars, passVars, PrewarmInv, PrewarmShape, FallbackInv,
     SeenInv, Seen
<1> QED
  BY <1>1, PassKeepsPrewarm, PrewarmStepKeeps DEF Next, Finished

\* Prewarm: after it ended well no pass builds a block any more, and a stage only for the
\* first layer of a span.
THEOREM PrewarmSafety == Spec => PrewarmCovers
<1> DEFINE Covers == PrewarmAt("ok") =>
             \A i \in Layer : /\ block'[i] = block[i]
                              /\ stage'[i] # stage[i] => i \in DOMAIN spans
<1>1. PassInv /\ PrewarmInv /\ [Next]_vars => [Covers]_vars
  <2> SUFFICES ASSUME PassInv, PrewarmInv, [Next]_vars, PrewarmAt("ok"), NEW i \in Layer
               PROVE  block'[i] = block[i] /\ (stage'[i] # stage[i] => i \in DOMAIN spans)
    OBVIOUS
  <2>1. Seen(i)
    BY PlaneAssumption DEF PrewarmInv, PrewarmShape, SeenInv, PrewarmAt, Layer
  <2>2. CASE UNCHANGED <<block, stage>>
    BY <2>2
  <2>3. ASSUME NEW c \in Caller, Pass(c)
        PROVE  block'[i] = block[i] /\ (stage'[i] # stage[i] => i \in DOMAIN spans)
    BY <2>1, <2>3, PassBuilds DEF Seen
  <2>4. ~Prewarm
    BY DEF Prewarm, PrewarmStart, PrewarmLayer, PrewarmBlock, PrewarmMark, PrewarmCount,
       PrewarmStage, PrewarmAt
  <2> QED
    BY <2>2, <2>3, <2>4 DEF Next, Finished, vars, builtVars
<1> QED
  BY <1>1, PassInit, PassPreserves, PrewarmInit, PrewarmInvPreserved, PTL DEF Spec, PrewarmCovers

-----------------------------------------------------------------------------
\* The types that the invariants above leave out.
TypeRest ==
  /\ setup \in Setups
  /\ warnings \in Seq(Caller)
  /\ experts \in [Layer -> Built]
  /\ hooked \in [Caller -> BOOLEAN]
  /\ done \in [Caller -> Seq(Layer)]
  /\ result \in [Caller -> {"none", "ok", "error"}]
  /\ calls \in [Caller -> Nat]
  /\ late \in [Caller -> SUBSET (Nat \X Layer)]

LEMMA PrefixInLayers ==
  /\ All \in Seq(Layer)
  /\ \A l \in 0..NumLayers : SubSeq(All, 1, l) \in Seq(Layer)
<1>1. NumLayers \in Nat
  BY PlaneAssumption
<1>2. ASSUME NEW l \in 0..NumLayers PROVE [k \in 1..l |-> k - 1] \in Seq(Layer)
  BY <1>1, <1>2 DEF Layer
<1>3. \A l \in 0..NumLayers : SubSeq(All, 1, l) \in Seq(Layer)
  BY <1>2, Prefix
<1>4. NumLayers \in 0..NumLayers
  BY <1>1
<1> QED
  BY <1>3, <1>4, Prefix

LEMMA RestStep ==
  ASSUME PassInv, TypeRest, NEW c \in Caller, Pass(c)
  PROVE  TypeRest'
<1> USE DEF TypeRest
<1>1. setup' \in Setups /\ warnings' \in Seq(Caller)
  <2>1. setup' = setup /\ (warnings' = warnings \/ warnings' = <<c>>)
    BY DEF Pass, ForwardBase, ForwardDecode, RunBase, RunBaseFails, StartLoop, TryBlock, RunBlock,
     BlockFails, MarkFallback, CountFallback, Attend, LayerFails, AskDense, AskShared, NoRouter,
     AskExperts, DispatchOk, CompiledFails, FastFails, DispatchFails, Disable, CountDisable,
     Warn, Mlp, NoMlp, Apply, Finish, FinishFails, Fail, Answer, Delegated, Begun, Elsewhere, planeVars
  <2>2. <<c>> \in Seq(Caller) /\ setup \in Setups /\ warnings \in Seq(Caller)
    OBVIOUS
  <2> QED
    BY <2>1, <2>2
<1>2. experts' \in [Layer -> Built]
  <2>1. CASE AskExperts(c)
    <3>1. layer[c] \in Layer
      BY <2>1 DEF AskExperts, At, PassInv, PassShape, Between
    <3>2. PICK outcome : Ask(experts, experts', layer[c], "build", outcome)
      BY <2>1 DEF AskExperts
    <3> QED
      BY <3>1, <3>2, AskKeeps
  <2>2. CASE ~AskExperts(c)
    <3>1. experts' = experts
      BY <2>2 DEF Pass, ForwardBase, ForwardDecode, RunBase, RunBaseFails, StartLoop, TryBlock, RunBlock,
     BlockFails, MarkFallback, CountFallback, Attend, LayerFails, AskDense, AskShared, NoRouter,
     AskExperts, DispatchOk, CompiledFails, FastFails, DispatchFails, Disable, CountDisable,
     Warn, Mlp, NoMlp, Apply, Finish, FinishFails, Fail, Answer, Delegated, Begun, Elsewhere, builtVars
    <3> QED
      BY <3>1
  <2> QED
    BY <2>1, <2>2
<1>3. hooked' \in [Caller -> BOOLEAN]
  <2>1. hooked' = hooked \/ hooked' \in {[hooked EXCEPT ![c] = b] : b \in BOOLEAN}
    BY DEF Pass, ForwardBase, ForwardDecode, RunBase, RunBaseFails, StartLoop, TryBlock, RunBlock,
     BlockFails, MarkFallback, CountFallback, Attend, LayerFails, AskDense, AskShared, NoRouter,
     AskExperts, DispatchOk, CompiledFails, FastFails, DispatchFails, Disable, CountDisable,
     Warn, Mlp, NoMlp, Apply, Finish, FinishFails, Fail, Answer, Delegated, Begun, Elsewhere
  <2> QED
    BY <2>1
<1>4. done' \in [Caller -> Seq(Layer)]
  <2>1. CASE RunBlock(c) \/ Apply(c)
    <3>1. PassInv'
      BY PassStep
    <3>2. pc'[c] = "loop" /\ layer'[c] \in 0..NumLayers
      BY <2>1, <3>1 DEF RunBlock, Apply, Goto, PassInv, PassShape
    <3>3. done'[c] = SubSeq(All, 1, layer'[c])
      BY <3>1, <3>2 DEF PassInv, EveryLayerOnce, At
    <3>4. \E d : done' = [done EXCEPT ![c] = d]
      BY <2>1 DEF RunBlock, Apply
    <3> QED
      BY <3>2, <3>3, <3>4, PrefixInLayers
  <2>2. CASE ~(RunBlock(c) \/ Apply(c))
    <3>1. \/ done' = done \/ done' = [done EXCEPT ![c] = All] \/ done' = [done EXCEPT ![c] = << >>]
      BY <2>2 DEF Pass, ForwardBase, ForwardDecode, RunBase, RunBaseFails, StartLoop, TryBlock, RunBlock,
     BlockFails, MarkFallback, CountFallback, Attend, LayerFails, AskDense, AskShared, NoRouter,
     AskExperts, DispatchOk, CompiledFails, FastFails, DispatchFails, Disable, CountDisable,
     Warn, Mlp, NoMlp, Apply, Finish, FinishFails, Fail, Answer, Delegated, Begun, Elsewhere
    <3>2. All \in Seq(Layer) /\ << >> \in Seq(Layer)
      BY PrefixInLayers
    <3> QED
      BY <3>1, <3>2
  <2> QED
    BY <2>1, <2>2
<1>5. result' \in [Caller -> {"none", "ok", "error"}]
  <2>1. \/ result' = result \/ result' = [result EXCEPT ![c] = "ok"]
        \/ result' = [result EXCEPT ![c] = "error"]
    BY DEF Pass, ForwardBase, ForwardDecode, RunBase, RunBaseFails, StartLoop, TryBlock, RunBlock,
     BlockFails, MarkFallback, CountFallback, Attend, LayerFails, AskDense, AskShared, NoRouter,
     AskExperts, DispatchOk, CompiledFails, FastFails, DispatchFails, Disable, CountDisable,
     Warn, Mlp, NoMlp, Apply, Finish, FinishFails, Fail, Answer, Delegated, Begun, Elsewhere
  <2> QED
    BY <2>1
<1>6. calls' \in [Caller -> Nat]
  <2>1. calls' = calls \/ calls' = [calls EXCEPT ![c] = @ + 1]
    BY DEF Pass, ForwardBase, ForwardDecode, RunBase, RunBaseFails, StartLoop, TryBlock, RunBlock,
     BlockFails, MarkFallback, CountFallback, Attend, LayerFails, AskDense, AskShared, NoRouter,
     AskExperts, DispatchOk, CompiledFails, FastFails, DispatchFails, Disable, CountDisable,
     Warn, Mlp, NoMlp, Apply, Finish, FinishFails, Fail, Answer, Delegated, Begun, Elsewhere
  <2>2. calls[c] + 1 \in Nat
    OBVIOUS
  <2> HIDE DEF TypeRest
  <2>3. calls \in [Caller -> Nat]
    BY DEF TypeRest
  <2> QED
    BY <2>1, <2>2, <2>3
<1>7. late' \in [Caller -> SUBSET (Nat \X Layer)]
  <2>1. late' = late \/ (Touch(c) /\ pc[c] \notin Between)
    BY DEF Pass, ForwardBase, ForwardDecode, RunBase, RunBaseFails, StartLoop, TryBlock, RunBlock,
     BlockFails, MarkFallback, CountFallback, Attend, LayerFails, AskDense, AskShared, NoRouter,
     AskExperts, DispatchOk, CompiledFails, FastFails, DispatchFails, Disable, CountDisable,
     Warn, Mlp, NoMlp, Apply, Finish, FinishFails, Fail, Answer, Delegated, Begun, Elsewhere, At, Between
  <2>2. CASE Touch(c) /\ pc[c] \notin Between
    <3>1. <<calls[c], layer[c]>> \in Nat \X Layer
      BY <2>2 DEF PassInv, PassShape
    <3> QED
      BY <2>2, <3>1 DEF Touch
  <2> QED
    BY <2>1, <2>2
<1> QED
  BY <1>1, <1>2, <1>3, <1>4, <1>5, <1>6, <1>7

\* Every variable keeps to its type.
THEOREM TypeCorrect == Spec => []TypeOK
<1>1. Init => TypeRest
  BY DEF Init, TypeRest, Built
<1>2. PassInv /\ TypeRest /\ [Next]_vars => TypeRest'
  <2> SUFFICES ASSUME PassInv, TypeRest, [Next]_vars PROVE TypeRest'
    OBVIOUS
  <2>1. CASE UNCHANGED <<setup, warnings, experts, passVars>>
    BY <2>1 DEF TypeRest, passVars
  <2>2. CASE Prewarm
    BY <2>1, <2>2 DEF Prewarm, PrewarmStart, PrewarmLayer, PrewarmBlock, PrewarmMark,
       PrewarmCount, PrewarmStage, planeVars, builtVars
  <2> QED
    BY <2>1, <2>2, RestStep DEF Next, Finished, vars, planeVars, builtVars
<1>3. IInv /\ PassInv /\ PrewarmInv /\ TypeRest => TypeOK
  <2> SUFFICES ASSUME IInv, PassInv, PrewarmInv, TypeRest PROVE TypeOK
    OBVIOUS
  <2>1. DOMAIN spans \subseteq Layer /\ \A i \in DOMAIN spans : spans[i] \in Layer
    BY PlaneAssumption DEF PassInv, PassShape, Layer
  <2>2. fallbacks \subseteq Layer
    BY DEF PrewarmInv, FallbackInv
  <2> QED
    BY <2>1, <2>2 DEF IInv, Shape, PassInv, PassShape, PrewarmInv, PrewarmShape, TypeRest, TypeOK
<1> QED
  BY <1>1, <1>2, <1>3, Invariant, PassInit, PassPreserves, PrewarmInit, PrewarmInvPreserved, PTL
     DEF Spec
=============================================================================
