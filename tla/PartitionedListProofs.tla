----------------------- MODULE PartitionedListProofs -----------------------
(***************************************************************************)
(* A list of several clusters, page by page: what is proved of it for any  *)
(* number of keys and clusters, any page size, any number of writes and    *)
(* compactions; and what the users of RevisionIsNewer may rely on.         *)
(***************************************************************************)
EXTENDS PartitionedList, TLAPS, FiniteSetTheorems, SequenceTheorems, WellFoundedInduction

-----------------------------------------------------------------------------
(* Comparison of revisions.                                                *)

\* A larger revision is not of an earlier millisecond.
LEMMA MilliSecondMonotone ==
  ASSUME NEW r1 \in Nat, NEW r2 \in Nat, r1 <= r2
  PROVE  extractMilliSecond(r1) <= extractMilliSecond(r2)
BY SMT DEF extractMilliSecond

\* The comparison without its cases: r1 is newer if it is larger, or if both are
\* new revisions, of different clusters, and r1 is behind by less than the
\* tolerance.
Near(r1, r2) ==
  /\ r1 >= V2MinRevision /\ r2 >= V2MinRevision
  /\ extractClusterId(r1) # extractClusterId(r2)
  /\ extractMilliSecond(r2) - extractMilliSecond(r1) < AllowedNTPDiff

\* The parts of a revision
LEMMA MilliSecondType ==
  ASSUME NEW r \in Nat
  PROVE  extractMilliSecond(r) \in Nat /\ extractClusterId(r) \in 0 .. 63
BY SMT DEF extractMilliSecond, extractClusterId

(***************************************************************************)
(* RevisionIsNewer says what the comment of revisionCompare says: it adds  *)
(* to the order of the numbers the pairs of different clusters that are    *)
(* near, and nothing else.                                                 *)
(***************************************************************************)
THEOREM NewerOrNear ==
  ASSUME NEW r1 \in Nat, NEW r2 \in Nat
  PROVE  RevisionIsNewer(r1, r2) <=> (r1 > r2 \/ Near(r1, r2))
<1> DEFINE m1 == extractMilliSecond(r1)
           m2 == extractMilliSecond(r2)
<1>1. m1 \in Nat /\ m2 \in Nat
  BY MilliSecondType
<1>2. (r1 > r2 => m1 >= m2) /\ (r2 > r1 => m2 >= m1)
  BY MilliSecondMonotone
<1>3. CASE r1 < V2MinRevision \/ r2 < V2MinRevision
  BY <1>3, RevisionAssumption DEF RevisionIsNewer, Near
<1>4. CASE ~(r1 < V2MinRevision \/ r2 < V2MinRevision)
           /\ extractClusterId(r1) = extractClusterId(r2)
  BY <1>4, RevisionAssumption DEF RevisionIsNewer, revisionCompare, Near
<1>5. CASE ~(r1 < V2MinRevision \/ r2 < V2MinRevision)
           /\ extractClusterId(r1) # extractClusterId(r2)
  <2>1. RevisionIsNewer(r1, r2) <=> m2 - m1 < AllowedNTPDiff
    <3> HIDE DEF m1, m2
    <3>1. RevisionIsNewer(r1, r2) <=> revisionCompare(r1, r2) >= 0
      BY <1>5 DEF RevisionIsNewer
    <3>2. revisionCompare(r1, r2) =
            IF m1 - m2 < AllowedNTPDiff /\ -(m1 - m2) < AllowedNTPDiff THEN 0
            ELSE IF m1 - m2 < 0 THEN -1 ELSE IF m1 - m2 = 0 THEN 0 ELSE 1
      BY <1>1, <1>5, RevisionAssumption DEF revisionCompare, m1, m2
    <3>3. QED
      BY <1>1, <3>1, <3>2, RevisionAssumption
  <2>2. r1 > r2 => m2 - m1 < AllowedNTPDiff
    BY <1>1, <1>2, RevisionAssumption
  <2>3. QED
    BY <1>5, <2>1, <2>2, RevisionAssumption DEF Near
<1>6. QED
  BY <1>3, <1>4, <1>5

(***************************************************************************)
(* Nothing falls between the chairs: of two different revisions one is     *)
(* newer, so an event is sent, accepted or processed on one side at least; *)
(* and both are only if they are of different clusters and near.           *)
(***************************************************************************)
THEOREM OneIsNewer ==
  ASSUME NEW r1 \in Nat, NEW r2 \in Nat, r1 # r2
  PROVE  /\ RevisionIsNewer(r1, r2) \/ RevisionIsNewer(r2, r1)
         /\ RevisionIsNewer(r1, r2) /\ RevisionIsNewer(r2, r1) => Near(r1, r2) /\ Near(r2, r1)
<1>1. r1 < r2 \/ r2 < r1
  OBVIOUS
<1>2. r1 > r2 /\ r1 >= V2MinRevision /\ r2 >= V2MinRevision
        /\ extractClusterId(r1) # extractClusterId(r2) => Near(r1, r2)
  <2>1. r1 > r2 => extractMilliSecond(r2) <= extractMilliSecond(r1)
    BY MilliSecondMonotone
  <2>2. QED
    BY <2>1, MilliSecondType, RevisionAssumption DEF Near
<1>3. r2 > r1 /\ r1 >= V2MinRevision /\ r2 >= V2MinRevision
        /\ extractClusterId(r1) # extractClusterId(r2) => Near(r2, r1)
  <2>1. r2 > r1 => extractMilliSecond(r1) <= extractMilliSecond(r2)
    BY MilliSecondMonotone
  <2>2. QED
    BY <2>1, MilliSecondType, RevisionAssumption DEF Near
<1>4. QED
  BY <1>1, <1>2, <1>3, NewerOrNear DEF Near

(***************************************************************************)
(* Taking the newer of two revisions, as updatelist and the typed clients  *)
(* do one after the other, goes back in time by less than the tolerance:   *)
(* one step of the bound that VersionNotFarBehind states for a whole list. *)
(***************************************************************************)
THEOREM NewerNotFarBehind ==
  ASSUME NEW r1 \in Nat, NEW r2 \in Nat, RevisionIsNewer(r1, r2)
  PROVE  extractMilliSecond(r2) - extractMilliSecond(r1) < AllowedNTPDiff
<1>1. CASE r1 > r2
  <2>1. extractMilliSecond(r2) <= extractMilliSecond(r1)
    BY <1>1, MilliSecondMonotone
  <2>2. QED
    BY <2>1, MilliSecondType, RevisionAssumption
<1>2. CASE Near(r1, r2)
  BY <1>2 DEF Near
<1>3. QED
  BY <1>1, <1>2, NewerOrNear

-----------------------------------------------------------------------------
(* Numbers, orders and folds.                                              *)

\* A nonempty set of natural numbers has a least one.
LEMMA LeastOf ==
  ASSUME NEW S \in SUBSET Nat, S # {}
  PROVE  \E m \in S : \A k \in S : m <= k
<1> DEFINE R == OpToRel(<, Nat)
<1>1. IsWellFoundedOn(R, Nat)
  BY NatLessThanWellFounded, Zenon
<1>2. \A x, y \in Nat : x < y => <<x, y>> \in R
  BY Zenon DEF OpToRel
<1> HIDE DEF R
<1>3. PICK x \in S : \A y \in S : ~(<<y, x>> \in R)
  BY <1>1, WFMin
<1>4. \A y \in S : y \in Nat /\ x \in Nat /\ ~(y < x)
  BY <1>2, <1>3
<1>5. QED
  BY <1>4

\* Max of a nonempty set of numbers up to n is its greatest.
LEMMA MaxOf ==
  ASSUME NEW n \in Nat, NEW W \in SUBSET (1 .. n), W # {}
  PROVE  Max(W) \in W /\ \A k \in W : k <= Max(W)
<1> DEFINE U == {u \in Nat : \A k \in W : k <= u}
<1>1. n \in U /\ U \in SUBSET Nat
  OBVIOUS
<1>2. PICK m \in U : \A u \in U : m <= u
  BY <1>1, LeastOf
<1>3. m \in Nat /\ m # 0
  <2>1. PICK w \in W : TRUE
    OBVIOUS
  <2>2. w >= 1 /\ w <= m /\ m \in Nat
    BY <1>2, <2>1
  <2>3. QED
    BY <2>2
<1>4. m - 1 \notin U
  BY <1>2, <1>3
<1>5. PICK k \in W : ~(k <= m - 1)
  BY <1>3, <1>4
<1>6. k = m
  BY <1>2, <1>3, <1>5
<1>7. m \in W /\ \A y \in W : m >= y
  BY <1>2, <1>6
<1>8. QED
  BY <1>7 DEF Max

\* A sequence of SetToSeqs has every element of the set.
LEMMA OrderFacts ==
  ASSUME NEW S, IsFiniteSet(S), NEW order \in SetToSeqs(S)
  PROVE  /\ Cardinality(S) \in Nat
         /\ order \in [1 .. Cardinality(S) -> S]
         /\ order \in Seq(S) /\ Len(order) = Cardinality(S)
         /\ \A x \in S : \E i \in 1 .. Cardinality(S) : order[i] = x
<1> DEFINE n == Cardinality(S)
<1>1. n \in Nat
  BY FS_CardinalityType
<1>2. order \in [1 .. n -> S] /\ \A i, j \in 1 .. n : i # j => order[i] # order[j]
  BY DEF SetToSeqs
<1> HIDE DEF n
<1>3. IsFiniteSet(1 .. n) /\ Cardinality(1 .. n) = n
  BY <1>1, FS_Interval
<1>4. order \in Injection(1 .. n, S)
  BY <1>2 DEF Injection, IsInjective
<1>5. order \in Surjection(1 .. n, S)
  BY <1>3, <1>4, FS_Injection DEF n
<1>6. order \in Seq(S) /\ Len(order) = n
  BY <1>1, <1>2
<1>7. QED
  BY <1>1, <1>2, <1>5, <1>6 DEF Surjection, n

\* The function that a fold over the places 1 .. n of a sequence calls on
\* sets of places is defined, whatever the step h.
FoldEquation(f, n, base, h) ==
  f = [s \in SUBSET (1 .. n) |->
         IF s = {} THEN base ELSE h[f[s \ {Max(s)}], Max(s)]]

\* The recursive function that the library defines a fold by exists, for any
\* base and step.
LEMMA FoldDefined ==
  ASSUME NEW N \in Nat, NEW A, NEW base \in A, NEW h \in [A \X (1 .. N) -> A]
  PROVE  \E f \in [SUBSET (1 .. N) -> A] : FoldEquation(f, N, base, h)
<1> DEFINE Ok(n) == \E f \in [SUBSET (1 .. n) -> A] : FoldEquation(f, n, base, h)
           Bad == {n \in 0 .. N : ~Ok(n)}
<1>1. SUFFICES Ok(N)
  OBVIOUS
<1> HIDE DEF Ok
<1>2. SUFFICES ASSUME Bad # {} PROVE FALSE
  OBVIOUS
<1>3. PICK n \in Bad : \A k \in Bad : n <= k
  <2>1. Bad \in SUBSET Nat
    OBVIOUS
  <2>2. QED
    BY <1>2, <2>1, LeastOf
<1>4. CASE n = 0
  <2> DEFINE f == [s \in SUBSET (1 .. 0) |-> base]
  <2>1. \A s \in SUBSET (1 .. 0) : s = {}
    OBVIOUS
  <2>2. f \in [SUBSET (1 .. 0) -> A] /\ FoldEquation(f, 0, base, h)
    BY <2>1 DEF FoldEquation
  <2>3. QED
    BY <1>4, <2>2 DEF Ok
<1>5. CASE n # 0
  <2>1. n \in 1 .. N /\ n - 1 \in 0 .. N /\ n - 1 \notin Bad
    BY <1>3, <1>5
  <2>2. PICK g \in [SUBSET (1 .. n - 1) -> A] : FoldEquation(g, n - 1, base, h)
    BY <2>1 DEF Ok
  <2> DEFINE f == [s \in SUBSET (1 .. n) |-> IF n \in s THEN h[g[s \ {n}], n] ELSE g[s]]
  <2>3. \A s \in SUBSET (1 .. n) : n \notin s => s \in SUBSET (1 .. n - 1)
    BY <2>1
  <2>4. \A s \in SUBSET (1 .. n) : s \ {n} \in SUBSET (1 .. n - 1)
    BY <2>1
  <2>5. f \in [SUBSET (1 .. n) -> A]
    BY <2>1, <2>2, <2>3, <2>4
  <2>6. ASSUME NEW s \in SUBSET (1 .. n)
        PROVE  f[s] = IF s = {} THEN base ELSE h[f[s \ {Max(s)}], Max(s)]
    <3>1. CASE n \in s
      <4>1. Max(s) = n
        <5>1. Max(s) \in s /\ \A k \in s : k <= Max(s)
          <6>1. n \in Nat /\ s # {}
            BY <2>1, <3>1
          <6> HIDE DEF f, Bad
          <6>2. QED
            BY <6>1, MaxOf
        <5>2. Max(s) \in 1 .. n /\ n <= Max(s)
          BY <3>1, <5>1
        <5>3. QED
          BY <2>1, <5>2
      <4>2. f[s \ {n}] = g[s \ {n}]
        OBVIOUS
      <4>3. QED
        BY <3>1, <4>1, <4>2
    <3>2. CASE n \notin s /\ s # {}
      <4>1. s \in SUBSET (1 .. n - 1)
        BY <2>3, <3>2
      <4>2. g[s] = h[g[s \ {Max(s)}], Max(s)]
        BY <2>2, <3>2, <4>1 DEF FoldEquation
      <4>3. f[s] = g[s] /\ f[s \ {Max(s)}] = g[s \ {Max(s)}]
        BY <3>2
      <4>4. QED
        BY <3>2, <4>2, <4>3
    <3>3. CASE s = {}
      <4>1. g[{}] = base
        BY <2>2 DEF FoldEquation
      <4>2. QED
        BY <3>3, <4>1
    <3>4. QED
      BY <3>1, <3>2, <3>3
  <2>7. FoldEquation(f, n, base, h)
    <3>1. f = [s \in SUBSET (1 .. n) |-> f[s]]
      OBVIOUS
    <3> HIDE DEF f
    <3>2. QED
      BY <2>6, <3>1 DEF FoldEquation
  <2>8. QED
    BY <1>3, <2>5, <2>7 DEF Ok
<1>6. QED
  BY <1>4, <1>5

\* The version of a list is computed from cluster to cluster.
NewestSteps(g, order, n) ==
  /\ g \in [0 .. n -> Nat] /\ g[0] = 0
  /\ \A i \in 1 .. n :
       g[i] = IF RevisionIsNewer(Number(parts[order[i]].returned), Number(g[i - 1]))
              THEN parts[order[i]].returned ELSE g[i - 1]

\* Newest, step by step along the order of the map
LEMMA NewestIsFold ==
  ASSUME NEW S, NEW n \in Nat, NEW order \in [1 .. n -> S],
         \A c \in S : parts[c].returned \in Nat
  PROVE  \E g : NewestSteps(g, order, n) /\ Newest(order) = g[n]
<1> DEFINE op(r, c) == IF RevisionIsNewer(Number(parts[c].returned), Number(r))
                       THEN parts[c].returned ELSE r
           h == [x \in Nat \X (1 .. n) |-> op(x[1], order[x[2]])]
           D == SUBSET (1 .. n)
           iter == CHOOSE it : it = [s \in D |-> IF s = {} THEN 0
                                         ELSE op(it[s \ {Max(s)}], order[Max(s)])]
<1>1. Newest(order) = iter[1 .. n]
  BY Zenon DEF Newest, FoldLeft, MapThenFoldSet
<1>2. h \in [Nat \X (1 .. n) -> Nat]
  OBVIOUS
<1>3. PICK f \in [SUBSET (1 .. n) -> Nat] : FoldEquation(f, n, 0, h)
  BY <1>2, FoldDefined
<1>4. \A s \in D : s # {} => Max(s) \in 1 .. n /\ s \ {Max(s)} \in D
  <2>1. \A s \in D : s # {} => Max(s) \in s
    BY MaxOf
  <2>2. QED
    BY <2>1
<1>5. f = [s \in D |-> IF s = {} THEN 0 ELSE op(f[s \ {Max(s)}], order[Max(s)])]
  <2>1. ASSUME NEW s \in D, s # {}
        PROVE  h[f[s \ {Max(s)}], Max(s)] = op(f[s \ {Max(s)}], order[Max(s)])
    <3>1. f[s \ {Max(s)}] \in Nat /\ Max(s) \in 1 .. n
      BY <1>4, <2>1
    <3> HIDE DEF op
    <3>2. QED
      BY <3>1
  <2> HIDE DEF op, h
  <2>2. QED
    BY <1>3, <2>1, Zenon DEF FoldEquation
<1> HIDE DEF op, h
<1>6. iter = [s \in D |-> IF s = {} THEN 0 ELSE op(iter[s \ {Max(s)}], order[Max(s)])]
  BY <1>5, Zenon
<1> HIDE DEF iter
<1>7. ASSUME NEW i \in 1 .. n
      PROVE  iter[1 .. i] = op(iter[1 .. i - 1], order[i])
  <2>1. 1 .. i \in D /\ i \in 1 .. i /\ 1 .. i # {}
    <3>1. i \in 1 .. i /\ \A j \in 1 .. i : j \in 1 .. n
      OBVIOUS
    <3>2. QED
      BY <3>1, Zenon
  <2>2. Max(1 .. i) \in 1 .. i /\ i <= Max(1 .. i)
    BY <2>1, MaxOf
  <2>3. Max(1 .. i) = i
    BY <2>2
  <2>4. (1 .. i) \ {i} = 1 .. i - 1
    OBVIOUS
  <2>5. QED
    BY <1>6, <2>1, <2>3, <2>4
<1>8. 1 .. 0 = {} /\ {} \in D
  OBVIOUS
<1>9. iter[1 .. 0] = 0
  BY <1>6, <1>8
<1> DEFINE g == [i \in 0 .. n |-> iter[1 .. i]]
<1>10. g[0] = 0 /\ Newest(order) = g[n]
  BY <1>1, <1>9
<1>11. ASSUME NEW i \in 1 .. n PROVE g[i] = op(g[i - 1], order[i])
  BY <1>7
<1>12. \A i \in 0 .. n : g[i] \in Nat
  <2> DEFINE Bad == {i \in 0 .. n : g[i] \notin Nat}
  <2>1. ASSUME Bad # {} PROVE FALSE
    <3>1. PICK i \in Bad : \A k \in Bad : i <= k
      <4>1. Bad \in SUBSET Nat
        OBVIOUS
      <4> HIDE DEF Bad
      <4>2. QED
        BY <2>1, <4>1, LeastOf
    <3>2. i \in 1 .. n
      BY <1>10, <3>1
    <3>3. g[i - 1] \in Nat
      BY <3>1, <3>2
    <3>4. g[i] \in Nat
      <4> HIDE DEF g
      <4>1. order[i] \in S
        BY <3>2
      <4>2. QED
        BY <1>11, <3>2, <3>3, <4>1 DEF op
    <3>5. QED
      BY <3>1, <3>4
  <2>2. QED
    BY <2>1
<1>13. NewestSteps(g, order, n)
  <2>1. g \in [0 .. n -> Nat]
    BY <1>12
  <2> HIDE DEF g
  <2>2. QED
    BY <1>10, <1>11, <2>1 DEF NewestSteps, op
<1>14. QED
  BY <1>10, <1>13

\* The clusters with more are collected from cluster to cluster.
ResultSteps(g, order, S, n) ==
  /\ g \in [0 .. n -> Seq(S)] /\ g[0] = << >>
  /\ \A i \in 1 .. n :
       g[i] = IF parts[order[i]].more THEN Append(g[i - 1], order[i]) ELSE g[i - 1]

\* compactedListResult, step by step along the order of the map
LEMMA ResultIsFold ==
  ASSUME NEW S, NEW n \in Nat, NEW order \in [1 .. n -> S]
  PROVE  \E g : ResultSteps(g, order, S, n) /\ compactedListResult(order) = g[n]
<1> DEFINE op(q, c) == IF parts[c].more THEN Append(q, c) ELSE q
           h == [x \in Seq(S) \X (1 .. n) |-> op(x[1], order[x[2]])]
           D == SUBSET (1 .. n)
           iter == CHOOSE it : it = [s \in D |-> IF s = {} THEN << >>
                                         ELSE op(it[s \ {Max(s)}], order[Max(s)])]
<1>1. compactedListResult(order) = iter[1 .. n]
  BY Zenon DEF compactedListResult, FoldLeft, MapThenFoldSet
<1>2. h \in [Seq(S) \X (1 .. n) -> Seq(S)]
  OBVIOUS
<1>0. << >> \in Seq(S)
  BY EmptySeq
<1>3. PICK f \in [SUBSET (1 .. n) -> Seq(S)] : FoldEquation(f, n, << >>, h)
  BY <1>0, <1>2, FoldDefined
<1>4. \A s \in D : s # {} => Max(s) \in 1 .. n /\ s \ {Max(s)} \in D
  <2>1. \A s \in D : s # {} => Max(s) \in s
    BY MaxOf
  <2>2. QED
    BY <2>1
<1>5. f = [s \in D |-> IF s = {} THEN << >> ELSE op(f[s \ {Max(s)}], order[Max(s)])]
  <2>1. ASSUME NEW s \in D, s # {}
        PROVE  h[f[s \ {Max(s)}], Max(s)] = op(f[s \ {Max(s)}], order[Max(s)])
    <3>1. f[s \ {Max(s)}] \in Seq(S) /\ Max(s) \in 1 .. n
      BY <1>4, <2>1
    <3> HIDE DEF op
    <3>2. QED
      BY <3>1
  <2> HIDE DEF op, h
  <2>2. QED
    BY <1>3, <2>1, Zenon DEF FoldEquation
<1> HIDE DEF op, h
<1>6. iter = [s \in D |-> IF s = {} THEN << >> ELSE op(iter[s \ {Max(s)}], order[Max(s)])]
  BY <1>5, Zenon
<1> HIDE DEF iter
<1>7. ASSUME NEW i \in 1 .. n
      PROVE  iter[1 .. i] = op(iter[1 .. i - 1], order[i])
  <2>1. 1 .. i \in D /\ i \in 1 .. i /\ 1 .. i # {}
    <3>1. i \in 1 .. i /\ \A j \in 1 .. i : j \in 1 .. n
      OBVIOUS
    <3>2. QED
      BY <3>1, Zenon
  <2>2. Max(1 .. i) \in 1 .. i /\ i <= Max(1 .. i)
    BY <2>1, MaxOf
  <2>3. Max(1 .. i) = i
    BY <2>2
  <2>4. (1 .. i) \ {i} = 1 .. i - 1
    OBVIOUS
  <2>5. QED
    BY <1>6, <2>1, <2>3, <2>4
<1>8. 1 .. 0 = {} /\ {} \in D
  OBVIOUS
<1>9. iter[1 .. 0] = << >>
  BY <1>6, <1>8
<1> DEFINE g == [i \in 0 .. n |-> iter[1 .. i]]
<1>10. g[0] = << >> /\ compactedListResult(order) = g[n]
  BY <1>1, <1>9
<1>11. ASSUME NEW i \in 1 .. n PROVE g[i] = op(g[i - 1], order[i])
  BY <1>7
<1>12. \A i \in 0 .. n : g[i] \in Seq(S)
  <2> DEFINE Bad == {i \in 0 .. n : g[i] \notin Seq(S)}
  <2>1. ASSUME Bad # {} PROVE FALSE
    <3>1. PICK i \in Bad : \A k \in Bad : i <= k
      <4>1. Bad \in SUBSET Nat
        OBVIOUS
      <4> HIDE DEF Bad
      <4>2. QED
        BY <2>1, <4>1, LeastOf
    <3>2. i \in 1 .. n
      <4>1. i \in 0 .. n /\ g[i] \notin Seq(S)
        BY <3>1
      <4>2. i # 0
        BY <1>0, <1>10, <4>1, Zenon
      <4> HIDE DEF g
      <4>3. QED
        BY <4>1, <4>2
    <3>3. g[i - 1] \in Seq(S)
      BY <3>1, <3>2
    <3>4. g[i] \in Seq(S)
      <4> HIDE DEF g
      <4>1. order[i] \in S
        BY <3>2
      <4>2. QED
        <5>1. Append(g[i - 1], order[i]) \in Seq(S)
          BY <3>3, <4>1, AppendProperties
        <5>2. g[i] = op(g[i - 1], order[i])
          BY <1>11, <3>2
        <5>3. QED
          BY <3>3, <5>1, <5>2, Zenon DEF op
    <3>5. QED
      BY <3>1, <3>4
  <2>2. QED
    BY <2>1
<1>13. ResultSteps(g, order, S, n)
  <2>1. g \in [0 .. n -> Seq(S)]
    BY <1>12
  <2> HIDE DEF g
  <2>2. QED
    BY <1>10, <1>11, <2>1 DEF ResultSteps, op
<1>14. QED
  BY <1>10, <1>13

\* A number made of a time, a cluster of 6 bits and the event 1 has that time.
LEMMA NumberOfTime ==
  ASSUME NEW r \in Nat, r > 0, NEW c \in 0 .. 63
  PROVE  /\ getRevisionNumber(r, c, 1) \in Nat /\ getRevisionNumber(r, c, 1) > 0
         /\ extractMilliSecond(getRevisionNumber(r, c, 1)) = r
<1>1. getRevisionNumber(r, c, 1) = r * 524288 + (c * 8192 + 1)
  BY DEF getRevisionNumber
<1>2. c * 8192 + 1 \in Nat /\ c * 8192 + 1 < 524288
  OBVIOUS
<1> DEFINE x == c * 8192 + 1
<1> HIDE DEF x
<1>3. r * 524288 + x \in Nat /\ r * 524288 + x > 0 /\ (r * 524288 + x) \div 524288 = r
  BY <1>2 DEF x
<1>4. QED
  BY <1>1, <1>3 DEF x, extractMilliSecond

\* The number of a revision keeps its time, for the id of a cluster has 6 bits.
LEMMA NumberFacts ==
  ASSUME log \in Seq(Keys), NEW r \in 1 .. Len(log)
  PROVE  Number(r) \in Nat /\ Number(r) > 0 /\ extractMilliSecond(Number(r)) = r
<1>1. Home[log[r]] \in 0 .. 63
  <2>1. log[r] \in Keys
    BY ElementOfSeq
  <2>2. QED
    BY <2>1, KeyAssumption DEF Keys
<1>2. Number(r) = getRevisionNumber(r, Home[log[r]], 1) /\ r \in Nat /\ r > 0
  BY LenProperties DEF Number
<1>3. QED
  BY <1>1, <1>2, NumberOfTime

\* A revision is preferred to another only if it is behind by less than the
\* tolerance, and never put aside for one that is older.
LEMMA PreferredFacts ==
  ASSUME log \in Seq(Keys), NEW r \in 1 .. Len(log), NEW q \in 1 .. Len(log)
  PROVE  /\ RevisionIsNewer(Number(r), Number(q)) => q - r <= AllowedNTPDiff - 1
         /\ ~RevisionIsNewer(Number(r), Number(q)) => r <= q
         /\ RevisionIsNewer(Number(r), Number(0))
<1> DEFINE a == Number(r)
           b == Number(q)
<1>1. a \in Nat /\ b \in Nat /\ a > 0 /\ extractMilliSecond(a) = r /\ extractMilliSecond(b) = q
  BY NumberFacts
<1>2. Number(0) = 0
  BY DEF Number
<1>3. r \in Nat /\ q \in Nat
  BY LenProperties
<1> HIDE DEF a, b
<1>4. RevisionIsNewer(a, b) => q - r <= AllowedNTPDiff - 1
  BY <1>1, <1>3, NewerNotFarBehind, RevisionAssumption
<1>5. ~RevisionIsNewer(a, b) => a <= b
  BY <1>1, NewerOrNear
<1>6. a <= b => r <= q
  BY <1>1, MilliSecondMonotone
<1>7. RevisionIsNewer(a, 0)
  BY <1>1, NewerOrNear
<1>8. QED
  BY <1>2, <1>4, <1>5, <1>6, <1>7 DEF a, b

\* The version of a list is that of one of its clusters, and behind each of
\* the others by no more than the tolerance for each step of the loop.
LEMMA NewestFacts ==
  ASSUME log \in Seq(Keys), NEW S, NEW n \in Nat, NEW order \in [1 .. n -> S],
         \A c \in S : parts[c].returned \in 1 .. Len(log)
  PROVE  /\ n = 0 => Newest(order) = 0
         /\ n # 0 => \E j \in 1 .. n : Newest(order) = parts[order[j]].returned
         /\ \A j \in 1 .. n :
              parts[order[j]].returned - Newest(order) <= (AllowedNTPDiff - 1) * (n - 1)
<1> DEFINE ret(i) == parts[order[i]].returned
           d == AllowedNTPDiff - 1
<1>1. \A i \in 1 .. n : ret(i) \in 1 .. Len(log)
  OBVIOUS
<1>2. PICK g : NewestSteps(g, order, n) /\ Newest(order) = g[n]
  <2>1. \A c \in S : parts[c].returned \in Nat
    BY LenProperties
  <2>2. QED
    BY <2>1, NewestIsFold
<1>3. d \in Nat
  BY RevisionAssumption
<1>4. g[0] = 0 /\ \A i \in 1 .. n : g[i] = IF RevisionIsNewer(Number(ret(i)), Number(g[i - 1]))
                                       THEN ret(i) ELSE g[i - 1]
  BY <1>2 DEF NewestSteps
<1> HIDE DEF ret, d
<1> DEFINE Ok(i) == /\ \E j \in 1 .. i : g[i] = ret(j)
                    /\ \A j \in 1 .. i : ret(j) - g[i] <= d * (i - 1)
           Bad == {i \in 1 .. n : ~Ok(i)}
<1>5. ASSUME NEW i \in 1 .. n, i = 1 PROVE Ok(i)
  <2>1. g[i] = ret(1)
    BY <1>1, <1>4, <1>5, PreferredFacts
  <2>2. ret(1) \in Nat
    BY <1>1, <1>5, LenProperties
  <2>3. d * (i - 1) = 0
    BY <1>3, <1>5
  <2>4. QED
    BY <1>5, <2>1, <2>2, <2>3
<1>6. ASSUME NEW i \in 1 .. n, i > 1, Ok(i - 1) PROVE Ok(i)
  <2>1. PICK j \in 1 .. i - 1 : g[i - 1] = ret(j)
    BY <1>6
  <2>2. g[i - 1] \in 1 .. Len(log) /\ ret(i) \in 1 .. Len(log)
    BY <1>1, <1>6, <2>1
  <2>3. Len(log) \in Nat
    BY LenProperties
  <2>4. d * (i - 1) = d * (i - 2) + d /\ d * (i - 2) \in Nat /\ d * (i - 1) \in Nat
    <3>1. i - 2 \in Nat
      BY <1>6
    <3>2. QED
      BY <1>3, <3>1
  <2>5. \A k \in 1 .. i - 1 : ret(k) \in Nat /\ ret(k) - g[i - 1] <= d * (i - 2)
    <3>1. \A k \in 1 .. i - 1 : ret(k) \in 1 .. Len(log)
      BY <1>1, <1>6
    <3>2. (i - 1) - 1 = i - 2
      BY <1>6
    <3>3. QED
      BY <1>6, <2>3, <3>1, <3>2
  <2>6. CASE RevisionIsNewer(Number(ret(i)), Number(g[i - 1]))
    <3>1. g[i] = ret(i)
      BY <1>4, <2>6
    <3>2. g[i - 1] - ret(i) <= d
      BY <2>2, <2>6, PreferredFacts DEF d
    <3>3. ASSUME NEW k \in 1 .. i PROVE ret(k) - g[i] <= d * (i - 1)
      <4>1. CASE k = i
        BY <2>2, <2>3, <2>4, <3>1, <4>1
      <4>2. CASE k # i
        <5>1. ret(k) \in Nat /\ ret(k) - g[i - 1] <= d * (i - 2)
          BY <2>5, <4>2
        <5>2. g[i - 1] \in Nat /\ ret(i) \in Nat
          BY <2>2, <2>3
        <5> DEFINE x == d * (i - 1)
                   y == d * (i - 2)
        <5> HIDE DEF x, y
        <5>3. ret(k) - g[i - 1] <= y /\ x = y + d /\ x \in Nat /\ y \in Nat
          BY <2>4, <5>1 DEF x, y
        <5>4. ret(k) \in Nat
          BY <5>1
        <5>5. ret(k) - ret(i) <= x
          BY <1>3, <3>2, <5>2, <5>3, <5>4
        <5>6. QED
          BY <3>1, <5>5 DEF x
      <4>3. QED
        BY <4>1, <4>2
    <3>4. i \in 1 .. i
      OBVIOUS
    <3>5. QED
      BY <3>1, <3>3, <3>4
  <2>7. CASE ~RevisionIsNewer(Number(ret(i)), Number(g[i - 1]))
    <3>1. g[i] = g[i - 1]
      BY <1>4, <2>7
    <3>2. ret(i) <= g[i - 1]
      BY <2>2, <2>7, PreferredFacts
    <3>3. ASSUME NEW k \in 1 .. i PROVE ret(k) - g[i] <= d * (i - 1)
      <4> DEFINE x == d * (i - 1)
                 y == d * (i - 2)
      <4> HIDE DEF x, y
      <4>1. x = y + d /\ x \in Nat /\ y \in Nat
        BY <2>4 DEF x, y
      <4>2. CASE k = i
        <5>1. ret(i) - g[i] <= x
          BY <2>2, <2>3, <3>1, <3>2, <4>1
        <5>2. QED
          BY <4>2, <5>1 DEF x
      <4>3. CASE k # i
        <5>1. ret(k) \in Nat /\ ret(k) - g[i - 1] <= y
          BY <2>5, <4>3 DEF y
        <5>2. ret(k) - g[i] <= x
          BY <1>3, <2>2, <2>3, <3>1, <4>1, <5>1
        <5>3. QED
          BY <5>2 DEF x
      <4>4. QED
        BY <4>2, <4>3
    <3>4. j \in 1 .. i
      BY <2>1
    <3>5. QED
      BY <2>1, <3>1, <3>3, <3>4
  <2>8. QED
    BY <2>6, <2>7
<1> HIDE DEF Ok
<1>7. Bad = {}
  <2>1. ASSUME Bad # {} PROVE FALSE
    <3>1. PICK i \in Bad : \A k \in Bad : i <= k
      <4>1. Bad \in SUBSET Nat
        OBVIOUS
      <4> HIDE DEF Bad
      <4>2. QED
        BY <2>1, <4>1, LeastOf
    <3>2. i \in 1 .. n /\ ~Ok(i)
      BY <3>1
    <3>3. i > 1
      BY <1>5, <3>2
    <3>4. Ok(i - 1)
      BY <3>1, <3>2, <3>3
    <3>5. QED
      BY <1>6, <3>2, <3>3, <3>4
  <2>2. QED
    BY <2>1
<1>8. n # 0 => Ok(n)
  BY <1>7
<1>9. n = 0 => Newest(order) = 0
  BY <1>2, <1>4
<1>10. QED
  BY <1>2, <1>8, <1>9 DEF Ok, ret, d

\* The clusters that get a token are those that have more.
LEMMA ResultFacts ==
  ASSUME NEW S, NEW n \in Nat, NEW order \in [1 .. n -> S]
  PROVE  /\ compactedListResult(order) \in Seq(S)
         /\ \A i \in DOMAIN compactedListResult(order) : parts[compactedListResult(order)[i]].more
         /\ \A i \in 1 .. n : parts[order[i]].more =>
              \E j \in DOMAIN compactedListResult(order) : compactedListResult(order)[j] = order[i]
<1>1. PICK g : ResultSteps(g, order, S, n) /\ compactedListResult(order) = g[n]
  BY ResultIsFold
<1>2. /\ g \in [0 .. n -> Seq(S)] /\ g[0] = << >>
      /\ \A i \in 1 .. n :
           g[i] = IF parts[order[i]].more THEN Append(g[i - 1], order[i]) ELSE g[i - 1]
  BY <1>1 DEF ResultSteps
<1> DEFINE Ok(i) == /\ \A j \in DOMAIN g[i] : parts[g[i][j]].more
                    /\ \A k \in 1 .. i : parts[order[k]].more => \E j \in DOMAIN g[i] : g[i][j] = order[k]
           Bad == {i \in 0 .. n : ~Ok(i)}
<1>3. Ok(0)
  BY <1>2
<1>4. ASSUME NEW i \in 1 .. n, Ok(i - 1) PROVE Ok(i)
  <2>1. g[i - 1] \in Seq(S) /\ order[i] \in S
    BY <1>2
  <2>2. CASE parts[order[i]].more
    <3> DEFINE q == g[i - 1]
               x == order[i]
    <3>1. g[i] = Append(q, x)
      BY <1>2, <2>2
    <3> HIDE DEF q, x
    <3>2. /\ DOMAIN g[i] = 1 .. Len(q) + 1 /\ Len(q) \in Nat /\ DOMAIN q = 1 .. Len(q)
          /\ g[i][Len(q) + 1] = x /\ \A j \in 1 .. Len(q) : g[i][j] = q[j]
      BY <2>1, <3>1, AppendProperties, LenProperties DEF q, x
    <3>3. \A j \in DOMAIN g[i] : parts[g[i][j]].more
      <4>1. ASSUME NEW j \in DOMAIN g[i] PROVE parts[g[i][j]].more
        <5>1. CASE j = Len(q) + 1
          BY <2>2, <3>2, <5>1 DEF x
        <5>2. CASE j # Len(q) + 1
          <6>1. j \in DOMAIN q /\ g[i][j] = q[j]
            BY <3>2, <5>2
          <6>2. QED
            BY <1>4, <6>1 DEF q
        <5>3. QED
          BY <5>1, <5>2
      <4>2. QED
        BY <4>1
    <3>4. ASSUME NEW k \in 1 .. i, parts[order[k]].more
          PROVE  \E j \in DOMAIN g[i] : g[i][j] = order[k]
      <4>1. CASE k = i
        BY <3>2, <4>1 DEF x
      <4>2. CASE k # i
        <5>1. PICK j \in DOMAIN q : q[j] = order[k]
          BY <1>4, <3>4, <4>2 DEF q
        <5>2. j \in DOMAIN g[i] /\ g[i][j] = q[j]
          BY <3>2, <5>1
        <5>3. QED
          BY <5>1, <5>2
      <4>3. QED
        BY <4>1, <4>2
    <3>5. QED
      BY <3>3, <3>4
  <2>3. CASE ~parts[order[i]].more
    <3>1. g[i] = g[i - 1]
      BY <1>2, <2>3
    <3>2. QED
      BY <1>4, <2>3, <3>1
  <2>4. QED
    BY <2>2, <2>3
<1> HIDE DEF Ok
<1>5. Bad = {}
  <2>1. ASSUME Bad # {} PROVE FALSE
    <3>1. PICK i \in Bad : \A k \in Bad : i <= k
      <4>1. Bad \in SUBSET Nat
        OBVIOUS
      <4> HIDE DEF Bad
      <4>2. QED
        BY <2>1, <4>1, LeastOf
    <3>2. i \in 1 .. n /\ ~Ok(i)
      BY <1>3, <3>1
    <3>3. Ok(i - 1)
      BY <3>1, <3>2
    <3>4. QED
      BY <1>4, <3>2, <3>3
  <2>2. QED
    BY <2>1
<1>6. Ok(n)
  BY <1>5
<1>7. QED
  BY <1>1, <1>2, <1>6 DEF Ok

-----------------------------------------------------------------------------
(* The log.                                                                *)

\* What a step may do to the log
LogGrows ==
  /\ log \in Seq(Keys) /\ log' \in Seq(Keys) /\ Len(log) <= Len(log')
  /\ \A i \in 1 .. Len(log) : log'[i] = log[i]

\* A cluster as it was at a revision does not change afterwards.
LEMMA SnapshotStable ==
  ASSUME LogGrows
  PROVE  \A c, r : r \in 0 .. Len(log) => Snapshot(c, r)' = Snapshot(c, r)
<1> SUFFICES ASSUME NEW c, NEW r \in 0 .. Len(log)
             PROVE  Snapshot(c, r)' = Snapshot(c, r)
  OBVIOUS
<1>1. Len(log) \in Nat
  BY LenProperties DEF LogGrows
<1>2. \A i \in 1 .. r : i \in 1 .. Len(log)
  BY <1>1
<1>3. \A i \in 1 .. r : log'[i] = log[i]
  BY <1>2 DEF LogGrows
<1>4. \A k : {i \in 1 .. r : log'[i] = k} = {i \in 1 .. r : log[i] = k}
  BY <1>3
<1>5. QED
  BY <1>4, Zenon DEF Snapshot

\* Every cluster has been written.
Written == \A c \in Clusters : \E i \in 1 .. Len(log) : Home[log[i]] = c

\* The revision of a cluster is in the log, and shows the cluster as it is now.
LEMMA HeaderFacts ==
  ASSUME log \in Seq(Keys), Written, NEW c \in Clusters
  PROVE  /\ Header(c) \in 1 .. Len(log)
         /\ Snapshot(c, Header(c)) = Snapshot(c, Len(log))
<1> DEFINE W == {i \in 1 .. Len(log) : Home[log[i]] = c}
<1>1. Len(log) \in Nat
  BY LenProperties
<1>2. W \in SUBSET (1 .. Len(log)) /\ W # {}
  BY DEF Written
<1>3. Header(c) = Max(W)
  BY DEF Header
<1>4. Header(c) \in W /\ \A i \in W : i <= Header(c)
  <2> HIDE DEF W
  <2>1. QED
    BY <1>1, <1>2, <1>3, MaxOf
<1> DEFINE h == Header(c)
<1> HIDE DEF h
<1>5. h \in 1 .. Len(log) /\ \A i \in 1 .. Len(log) : Home[log[i]] = c => i <= h
  BY <1>4 DEF h
<1>6. ASSUME NEW k, Home[k] = c
      PROVE  {i \in 1 .. h : log[i] = k} = {i \in 1 .. Len(log) : log[i] = k}
  BY <1>1, <1>5, <1>6
<1>7. Snapshot(c, h) = Snapshot(c, Len(log))
  BY <1>6, Zenon DEF Snapshot
<1>8. QED
  BY <1>5, <1>7 DEF h

-----------------------------------------------------------------------------
(* Types.                                                                  *)

PartTypeOf(n) ==
  [pc : {"get", "take", "check", "done", "error", "compacted"},
   rev : 0 .. n, returned : 0 .. n, start : 0 .. MaxKey, last : 0 .. MaxKey,
   resp : SUBSET Keys, more : BOOLEAN]

TokenTypeOf(n) == [cluster : Clusters, rev : {-1} \cup 1 .. n, last : Keys]

RequestTypeOf(n) ==
  [scope : SUBSET Clusters, sel : SUBSET Keys, limit : {0, Limit}, rev : 0 .. n]

StoreInv ==
  /\ log \in Seq(Keys) /\ Len(log) <= MaxKey + MaxWrites
  /\ compacted \in [Clusters -> 0 .. Len(log)] /\ compactions \in 0 .. MaxCompactions
  /\ Written

RequestInv ==
  /\ phase \in {"idle", "listing", "paging", "expired", "done", "failed"}
  /\ request \in RequestTypeOf(Len(log))
  /\ phase # "idle" => request.scope # {}
  /\ request.rev \in {0, began}

\* A goroutine that got an answer has its revision; a list with tokens has one
\* for each of its clusters, not always its own.
PartsType ==
  /\ DOMAIN parts \subseteq Clusters
  /\ \A c \in DOMAIN parts :
       /\ parts[c] \in PartTypeOf(Len(log))
       /\ parts[c].pc \in {"take", "check", "done"} => parts[c].returned > 0
       /\ tokens # << >> => c + 1 \in DOMAIN tokens
  /\ phase # "listing" => DOMAIN parts = {} /\ items = {}

PageInv == items \subseteq Keys /\ (Paging => Cardinality(items) <= Limit)

TokensType ==
  /\ tokens \in Seq(TokenTypeOf(Len(log)))
  /\ phase = "idle" => tokens = << >>
  /\ phase \in {"paging", "expired"} => tokens # << >>
  /\ \A i \in DOMAIN tokens : tokens[i].rev = -1 => Len(tokens) = 1

ClientType ==
  /\ got \subseteq Keys /\ twice \subseteq Keys
  /\ rv \in 0 .. Len(log) /\ began \in 0 .. Len(log) /\ firstEnd \in 0 .. Len(log)
  /\ straight \in BOOLEAN /\ consistent \in BOOLEAN

TypeInv == StoreInv /\ RequestInv /\ PartsType /\ PageInv /\ TokensType /\ ClientType

\* The inductive invariant has the types of TypeOK.
LEMMA TypeInvTypeOK == ASSUME TypeInv PROVE TypeOK
<1> USE DEF TypeInv
<1>1. Len(log) \in Nat /\ MaxKey \in Nat
  BY LenProperties, KeyAssumption DEF StoreInv
<1>2. /\ request.scope \subseteq Clusters /\ request.sel \subseteq Keys
      /\ request.limit \in {0, Limit} /\ request.rev \in 0 .. Len(log)
  BY DEF RequestInv, RequestTypeOf
<1>3. ASSUME NEW c \in DOMAIN parts
      PROVE  /\ parts[c].pc \in {"get", "take", "check", "done", "error", "compacted"}
             /\ {parts[c].rev, parts[c].returned} \subseteq 0 .. Len(log)
             /\ {parts[c].start, parts[c].last} \subseteq 0 .. MaxKey
             /\ parts[c].resp \subseteq Keys /\ parts[c].more \in BOOLEAN
  BY DEF PartsType, PartTypeOf
<1>4. ASSUME NEW i \in DOMAIN tokens
      PROVE  /\ tokens[i].cluster \in Clusters
             /\ tokens[i].rev \in {-1} \cup 1 .. Len(log) /\ tokens[i].last \in Keys
  <2>1. tokens[i] \in TokenTypeOf(Len(log))
    BY ElementOfSeq, LenProperties DEF TokensType
  <2>2. QED
    BY <2>1 DEF TokenTypeOf
<1>5. items \cup got \cup twice \subseteq Keys /\ (Paging => Cardinality(items) <= Limit)
  BY DEF PageInv, ClientType
<1>6. {rv, began, firstEnd} \subseteq 0 .. Len(log)
  BY DEF ClientType
<1>7. QED
  BY <1>2, <1>3, <1>4, <1>5, <1>6 DEF TypeOK, StoreInv, RequestInv, PartsType, ClientType

\* Keys are written one after the other at the beginning.
LEMMA TypeInit == ASSUME Init PROVE TypeInv
<1> USE DEF Init
<1>1. IsFiniteSet(Keys) /\ Cardinality(Keys) = MaxKey
  BY FS_Interval, KeyAssumption DEF Keys
<1>2. /\ log \in Seq(Keys) /\ Len(log) = MaxKey
      /\ \A k \in Keys : \E i \in 1 .. MaxKey : log[i] = k
  BY <1>1, OrderFacts
<1>3. StoreInv
  <2>1. Written
    <3>1. ASSUME NEW c \in Clusters PROVE \E i \in 1 .. Len(log) : Home[log[i]] = c
      <4>1. PICK k \in Keys : Home[k] = c
        BY KeyAssumption DEF Keys
      <4>2. PICK i \in 1 .. MaxKey : log[i] = k
        BY <1>2
      <4>3. QED
        BY <1>2, <4>1, <4>2
    <3>2. QED
      BY <3>1 DEF Written
  <2>2. Len(log) <= MaxKey + MaxWrites
    BY <1>2, KeyAssumption, PageAssumption
  <2>3. 0 \in 0 .. Len(log) /\ 0 \in 0 .. MaxCompactions
    BY <1>2, KeyAssumption, PageAssumption
  <2>4. QED
    BY <1>2, <2>1, <2>2, <2>3 DEF StoreInv
<1>4. RequestInv
  <2>1. 0 \in 0 .. Len(log)
    BY <1>2, KeyAssumption
  <2>2. request \in RequestTypeOf(Len(log))
    BY <2>1 DEF RequestTypeOf
  <2>3. QED
    BY <2>2 DEF RequestInv
<1>5. DOMAIN parts = {} /\ DOMAIN tokens = {}
  OBVIOUS
<1>6. PartsType
  BY <1>5 DEF PartsType
<1>7. PageInv
  <2>1. ~Paging
    BY DEF Paging
  <2>2. QED
    BY <2>1 DEF PageInv
<1>8. TokensType
  BY <1>5, EmptySeq DEF TokensType
<1>9. ClientType
  BY <1>2, KeyAssumption DEF ClientType
<1>10. QED
  BY <1>3, <1>4, <1>6, <1>7, <1>8, <1>9 DEF TypeInv

\* Types of a shorter log are types of a longer one.
LEMMA TypesGrow ==
  ASSUME NEW n \in Nat, NEW m \in Nat, n <= m
  PROVE  /\ PartTypeOf(n) \subseteq PartTypeOf(m) /\ RequestTypeOf(n) \subseteq RequestTypeOf(m)
         /\ TokenTypeOf(n) \subseteq TokenTypeOf(m)
<1>1. 0 .. n \subseteq 0 .. m /\ 1 .. n \subseteq 1 .. m
  OBVIOUS
<1>2. QED
  BY <1>1 DEF PartTypeOf, RequestTypeOf, TokenTypeOf

\* A write makes the log longer and changes nothing else.
LEMMA WriteType ==
  ASSUME TypeInv, NEW k \in Keys, WriteKey(k)
  PROVE  TypeInv' /\ LogGrows
<1> USE DEF TypeInv
<1>1. /\ log' = Append(log, k) /\ Len(log) < MaxKey + MaxWrites
      /\ UNCHANGED <<compacted, compactions, phase, request, parts, items, tokens, got, rv,
                     began, firstEnd, twice, straight, consistent>>
  BY DEF WriteKey, clientVars
<1> DEFINE n == Len(log)
<1>2. /\ n \in Nat /\ log' \in Seq(Keys) /\ Len(log') = n + 1
      /\ \A i \in 1 .. n : log'[i] = log[i]
  BY <1>1, AppendProperties, LenProperties DEF StoreInv
<1>3. LogGrows
  BY <1>2 DEF LogGrows, StoreInv
<1>4. 0 .. n \subseteq 0 .. n + 1 /\ 1 .. n \subseteq 1 .. n + 1
  BY <1>2
<1>5. /\ PartTypeOf(n) \subseteq PartTypeOf(n + 1)
      /\ RequestTypeOf(n) \subseteq RequestTypeOf(n + 1)
      /\ TokenTypeOf(n) \subseteq TokenTypeOf(n + 1)
  BY <1>2, TypesGrow
<1>6. StoreInv'
  <2>1. Written'
    <3>1. ASSUME NEW c \in Clusters PROVE \E i \in 1 .. n + 1 : Home[log'[i]] = c
      <4>1. PICK i \in 1 .. n : Home[log[i]] = c
        BY DEF StoreInv, Written
      <4>2. QED
        BY <1>2, <1>4, <4>1
    <3>2. QED
      BY <1>2, <3>1 DEF Written
  <2>2. compacted' \in [Clusters -> 0 .. n + 1]
    BY <1>1, <1>4 DEF StoreInv
  <2>3. n + 1 <= MaxKey + MaxWrites
    BY <1>1, <1>2, KeyAssumption, PageAssumption
  <2> HIDE DEF n
  <2>4. QED
    BY <1>1, <1>2, <2>1, <2>2, <2>3 DEF StoreInv
<1> HIDE DEF n
<1>7. RequestInv'
  BY <1>1, <1>2, <1>5 DEF RequestInv, n
<1>8. PartsType'
  BY <1>1, <1>2, <1>5 DEF PartsType, n
<1>9. PageInv'
  BY <1>1 DEF PageInv, Paging
<1>10. TokensType'
  <2>1. tokens \in Seq(TokenTypeOf(n + 1))
    BY <1>5, SeqMonotonic DEF TokensType, n
  <2>2. QED
    BY <1>1, <1>2, <2>1 DEF TokensType
<1>11. ClientType'
  BY <1>1, <1>2, <1>4 DEF ClientType, n
<1>12. QED
  BY <1>3, <1>6, <1>7, <1>8, <1>9, <1>10, <1>11

\* A compaction does not go beyond the log.
LEMMA CompactType ==
  ASSUME TypeInv, NEW c \in Clusters, CompactCluster(c)
  PROVE  TypeInv'
<1> USE DEF TypeInv
<1>1. /\ compactions < MaxCompactions /\ compactions' = compactions + 1
      /\ compacted' = [compacted EXCEPT ![c] = Header(c)]
      /\ UNCHANGED <<log, phase, request, parts, items, tokens, got, rv,
                     began, firstEnd, twice, straight, consistent>>
  BY DEF CompactCluster, clientVars
<1>2. StoreInv'
  <2>1. Header(c) \in 0 .. Len(log)
    BY HeaderFacts, LenProperties DEF StoreInv
  <2>2. compactions' \in 0 .. MaxCompactions
    BY <1>1, PageAssumption DEF StoreInv
  <2>3. compacted' \in [Clusters -> 0 .. Len(log)]
    BY <1>1, <2>1 DEF StoreInv
  <2>4. QED
    BY <1>1, <2>2, <2>3 DEF StoreInv, Written
<1>3. RequestInv' /\ PartsType' /\ PageInv' /\ TokensType' /\ ClientType'
  BY <1>1 DEF RequestInv, PartsType, PageInv, Paging, TokensType, ClientType
<1>4. QED
  BY <1>2, <1>3

\* A goroutine that starts
LEMMA PartFacts ==
  ASSUME NEW n \in Nat, NEW r \in 0 .. n, NEW k \in 0 .. MaxKey
  PROVE  /\ Part(r, k) \in PartTypeOf(n)
         /\ Part(r, k).pc = "get" /\ Part(r, k).rev = r /\ Part(r, k).returned = r
         /\ Part(r, k).start = k /\ Part(r, k).last = 0 /\ ~Part(r, k).more
<1>1. 0 \in 0 .. MaxKey
  BY KeyAssumption
<1>2. QED
  BY <1>1 DEF Part, PartTypeOf

\* A list starts a goroutine for each cluster of its key.
LEMMA ListType ==
  ASSUME TypeInv, NEW scope \in getClientsFromKey, NEW sel \in Selections,
         NEW limit \in {0, Limit}, NEW r \in {0, Len(log)}, List(scope, sel, limit, r)
  PROVE  TypeInv'
<1> USE DEF TypeInv
<1>1. /\ phase = "idle" /\ phase' = "listing"
      /\ request' = [scope |-> scope, sel |-> sel, limit |-> limit, rev |-> r]
      /\ parts' = [c \in scope |-> Part(r, 0)]
      /\ items' = {} /\ began' = Len(log)
      /\ UNCHANGED <<log, compacted, compactions, tokens, got, rv, firstEnd, twice, straight,
                     consistent>>
  BY DEF List, storageVars
<1> DEFINE n == Len(log)
<1>2. n \in Nat /\ r \in 0 .. n
  BY LenProperties DEF StoreInv
<1>3. scope \in SUBSET Clusters /\ scope # {} /\ sel \in SUBSET Keys
  BY KeyAssumption DEF getClientsFromKey, Keys
<1>4. StoreInv'
  BY <1>1 DEF StoreInv, Written
<1>5. RequestInv'
  <2>1. request' \in RequestTypeOf(n)
    BY <1>1, <1>2, <1>3 DEF RequestTypeOf
  <2>2. QED
    BY <1>1, <1>3, <2>1 DEF RequestInv
<1>6. PartsType'
  <2>1. Part(r, 0) \in PartTypeOf(n) /\ Part(r, 0).pc = "get"
    <3>1. 0 \in 0 .. MaxKey
      BY KeyAssumption
    <3>2. QED
      BY <1>2, <3>1, PartFacts
  <2>2. tokens' = << >>
    BY <1>1 DEF TokensType
  <2>3. QED
    BY <1>1, <1>3, <2>1, <2>2 DEF PartsType
<1>7. PageInv'
  BY <1>1, FS_EmptySet, PageAssumption DEF PageInv
<1>8. TokensType'
  BY <1>1 DEF TokensType
<1>9. ClientType'
  BY <1>1, <1>2 DEF ClientType
<1>10. QED
  BY <1>4, <1>5, <1>6, <1>7, <1>8, <1>9

\* A cluster that has a token has a place among the tokens.
LEMMA TokenPlace ==
  ASSUME TypeInv, NEW c \in Clusters, c < Len(tokens)
  PROVE  /\ c + 1 \in DOMAIN tokens /\ tokens[c + 1] \in TokenTypeOf(Len(log))
         /\ tokens[c + 1].cluster \in Clusters /\ tokens[c + 1].last \in Keys
         /\ tokens[c + 1].rev \in {-1} \cup 1 .. Len(log)
<1>1. tokens \in Seq(TokenTypeOf(Len(log))) /\ Len(tokens) \in Nat /\ c \in Nat
  BY LenProperties, KeyAssumption DEF TypeInv, TokensType
<1>2. c + 1 \in 1 .. Len(tokens)
  BY <1>1
<1>3. tokens[c + 1] \in TokenTypeOf(Len(log))
  BY <1>1, <1>2, ElementOfSeq
<1>4. QED
  BY <1>1, <1>2, <1>3, LenProperties DEF TokenTypeOf

\* The revision a goroutine goes on from
TokenRev(c) == IF tokens[c + 1].rev > 0 THEN tokens[c + 1].rev ELSE 0

\* The next page has a goroutine only for a cluster that has a place among
\* the tokens.
LEMMA ContinueType ==
  ASSUME TypeInv, Continue
  PROVE  TypeInv'
<1> USE DEF TypeInv
<1> DEFINE ok == \A c \in ContinueClusters : c \in Clusters /\ c < Len(tokens)
<1>1. /\ phase = "paging" /\ items' = {}
      /\ UNCHANGED <<log, compacted, compactions, request, tokens, got, rv, began, firstEnd, twice>>
  BY DEF Continue, storageVars, clientVars
<1>2. ok => /\ parts' = [c \in ContinueClusters |-> Part(TokenRev(c), tokens[c + 1].last)]
            /\ phase' = "listing" /\ straight' \in BOOLEAN /\ consistent' \in BOOLEAN
  BY Zenon DEF Continue, TokenRev
<1>3. ~ok => phase' = "failed" /\ UNCHANGED <<parts, straight, consistent>>
  BY Zenon DEF Continue
<1>4. StoreInv'
  BY <1>1 DEF StoreInv, Written
<1>5. RequestInv'
  BY <1>1, <1>2, <1>3 DEF RequestInv
<1>6. PartsType'
  <2>1. CASE ok
    <3>1. DOMAIN parts' = ContinueClusters /\ ContinueClusters \subseteq Clusters
      BY <1>2, <2>1
    <3>2. ASSUME NEW c \in ContinueClusters
          PROVE  parts'[c] \in PartTypeOf(Len(log)) /\ parts'[c].pc = "get" /\ c + 1 \in DOMAIN tokens
      <4>1. c + 1 \in DOMAIN tokens /\ tokens[c + 1].last \in Keys
            /\ tokens[c + 1].rev \in {-1} \cup 1 .. Len(log)
        BY <2>1, TokenPlace
      <4>2. Len(log) \in Nat
        BY LenProperties DEF StoreInv
      <4>3. TokenRev(c) \in 0 .. Len(log) /\ tokens[c + 1].last \in 0 .. MaxKey
        BY <4>1, <4>2, KeyAssumption DEF TokenRev, Keys
      <4>4. QED
        BY <1>2, <2>1, <4>1, <4>2, <4>3, PartFacts
    <3> HIDE DEF ok
    <3>3. QED
      BY <1>1, <1>2, <2>1, <3>1, <3>2 DEF PartsType
  <2>2. CASE ~ok
    <3> HIDE DEF ok
    <3>1. QED
      BY <1>1, <1>3, <2>2 DEF PartsType
  <2>3. QED
    BY <2>1, <2>2
<1> HIDE DEF ok
<1>7. PageInv'
  BY <1>1, FS_EmptySet, PageAssumption DEF PageInv
<1>8. TokensType'
  BY <1>1, <1>2, <1>3 DEF TokensType
<1>9. ClientType'
  BY <1>1, <1>2, <1>3 DEF ClientType
<1>10. QED
  BY <1>4, <1>5, <1>6, <1>7, <1>8, <1>9

\* KV.Get changes its goroutine only.
GetRev(c) == IF parts[c].rev = 0 THEN Header(c) ELSE parts[c].rev
GetAll(c) == {k \in Snapshot(c, GetRev(c)) : Home[k] \in request.scope /\ k > parts[c].start}
GetResp(c) ==
  {k \in GetAll(c) : Paging => Cardinality({j \in GetAll(c) : j < k}) < request.limit}

\* The goroutine after an error, and after an answer
Failing(p, pc) == [p EXCEPT !.pc = pc]
Answered(c) ==
  [parts[c] EXCEPT !.pc = "take", !.resp = GetResp(c), !.more = (GetResp(c) # GetAll(c)),
                   !.returned = IF @ = 0 THEN Header(c) ELSE @]

\* KV.Get, in the terms of the proofs
LEMMA GetEffect ==
  ASSUME NEW c, Get(c)
  PROVE  /\ parts[c].pc = "get"
         /\ parts' = [parts EXCEPT ![c] =
              IF GetRev(c) > Header(c) THEN Failing(parts[c], "error")
              ELSE IF GetRev(c) < compacted[c] THEN Failing(parts[c], "compacted")
              ELSE Answered(c)]
         /\ UNCHANGED <<log, compacted, compactions, phase, request, items, tokens, got, rv,
                        began, firstEnd, twice, straight, consistent>>
BY Zenon DEF Get, GetRev, GetAll, GetResp, Failing, Answered, storageVars, clientVars

\* A goroutine after an error is where it was.
LEMMA FailingFacts ==
  ASSUME NEW n, NEW p \in PartTypeOf(n), NEW pc \in {"error", "compacted"}
  PROVE  /\ Failing(p, pc) \in PartTypeOf(n) /\ Failing(p, pc).pc = pc
         /\ Failing(p, pc).rev = p.rev /\ Failing(p, pc).start = p.start
         /\ Failing(p, pc).returned = p.returned
BY DEF Failing, PartTypeOf

\* A goroutine after an answer is where it was, with the answer and its
\* revision.
LEMMA AnsweredFacts ==
  ASSUME TypeInv, NEW c \in DOMAIN parts
  PROVE  /\ Answered(c) \in PartTypeOf(Len(log)) /\ Answered(c).pc = "take"
         /\ Answered(c).rev = parts[c].rev /\ Answered(c).start = parts[c].start
         /\ Answered(c).last = parts[c].last
         /\ Answered(c).resp = GetResp(c) /\ Answered(c).more = (GetResp(c) # GetAll(c))
         /\ Answered(c).returned = IF parts[c].returned = 0 THEN Header(c) ELSE parts[c].returned
         /\ Answered(c).returned \in 1 .. Len(log)
<1>1. parts[c] \in PartTypeOf(Len(log)) /\ c \in Clusters
  BY DEF TypeInv, PartsType
<1>2. Header(c) \in 1 .. Len(log) /\ Len(log) \in Nat
  BY <1>1, HeaderFacts, LenProperties DEF TypeInv, StoreInv
<1>3. GetResp(c) \subseteq Keys
  BY DEF GetResp, GetAll, Snapshot
<1> DEFINE R == GetResp(c)
           b == GetResp(c) # GetAll(c)
           q == IF parts[c].returned = 0 THEN Header(c) ELSE parts[c].returned
           n == Len(log)
<1> HIDE DEF R, b, q, n
<1>4. Answered(c) = [parts[c] EXCEPT !.pc = "take", !.resp = R, !.more = b, !.returned = q]
  BY DEF Answered, R, b, q
<1>5. parts[c] \in PartTypeOf(n) /\ n \in Nat /\ R \in SUBSET Keys /\ b \in BOOLEAN
  BY <1>1, <1>2, <1>3 DEF R, b, n
<1>8. q \in 1 .. n
  BY <1>1, <1>2 DEF q, n, PartTypeOf
<1>6. /\ Answered(c) \in PartTypeOf(n) /\ Answered(c).pc = "take"
      /\ Answered(c).rev = parts[c].rev /\ Answered(c).start = parts[c].start
      /\ Answered(c).last = parts[c].last
      /\ Answered(c).resp = R /\ Answered(c).more = b
      /\ Answered(c).returned = q
  <2>1. q \in 0 .. n
    BY <1>5, <1>8
  <2>2. Answered(c) \in PartTypeOf(n)
    BY <1>4, <1>5, <2>1 DEF PartTypeOf
  <2>3. /\ Answered(c).pc = "take"
        /\ Answered(c).rev = parts[c].rev /\ Answered(c).start = parts[c].start
        /\ Answered(c).last = parts[c].last
        /\ Answered(c).resp = R /\ Answered(c).returned = q
    BY <1>4, <1>5, <2>1 DEF PartTypeOf
  <2>4. Answered(c).more = b
    BY <1>4, <1>5, <2>1 DEF PartTypeOf
  <2>5. QED
    BY <2>2, <2>3, <2>4
<1>7. QED
  BY <1>6, <1>8, Zenon DEF R, b, q, n

\* KV.Get keeps the types.
LEMMA GetType ==
  ASSUME TypeInv, NEW c \in DOMAIN parts, Get(c)
  PROVE  TypeInv'
<1> USE DEF TypeInv
<1>1. UNCHANGED <<log, compacted, compactions, phase, request, items, tokens, got, rv,
                  began, firstEnd, twice, straight, consistent>>
  BY GetEffect
<1> DEFINE n == Len(log)
<1>2. /\ DOMAIN parts' = DOMAIN parts
      /\ \A d \in DOMAIN parts : d # c => parts'[d] = parts[d]
      /\ parts'[c] \in {Failing(parts[c], "error"), Failing(parts[c], "compacted"), Answered(c)}
  <2> HIDE DEF TypeInv
  <2>1. QED
    BY GetEffect
<1>3. parts'[c] \in PartTypeOf(n)
      /\ (parts'[c].pc \in {"take", "check", "done"} => parts'[c].returned > 0)
  <2>1. Failing(parts[c], "error") \in PartTypeOf(n) /\ Failing(parts[c], "error").pc = "error"
    BY FailingFacts DEF PartsType
  <2>2. Failing(parts[c], "compacted") \in PartTypeOf(n)
        /\ Failing(parts[c], "compacted").pc = "compacted"
    BY FailingFacts DEF PartsType
  <2>3. Answered(c) \in PartTypeOf(n) /\ Answered(c).returned \in 1 .. n /\ n \in Nat
    BY AnsweredFacts, LenProperties DEF StoreInv
  <2> HIDE DEF n, TypeInv
  <2>4. QED
    BY <1>2, <2>1, <2>2, <2>3
<1>4. PartsType'
  BY <1>1, <1>2, <1>3 DEF PartsType
<1>5. StoreInv' /\ RequestInv' /\ PageInv' /\ TokensType' /\ ClientType'
  BY <1>1 DEF StoreInv, Written, RequestInv, PageInv, Paging, TokensType, ClientType
<1>6. QED
  BY <1>4, <1>5

(***************************************************************************)
(* What is taken of a response R while the list has the items I, if S      *)
(* matches and L is the limit: no more than fit, from the first on, and if *)
(* something is left the list is full.                                     *)
(***************************************************************************)
TakenOf(R, S, I, L) == {k \in R : Cardinality(I) + Cardinality({j \in R \cap S : j < k}) < L}

\* Sets of keys can be counted.
LEMMA KeysFinite ==
  ASSUME NEW X \in SUBSET Keys
  PROVE  IsFiniteSet(X) /\ Cardinality(X) \in Nat
<1>1. IsFiniteSet(Keys)
  BY FS_Interval, KeyAssumption DEF Keys
<1>2. QED
  BY <1>1, FS_Subset, FS_CardinalityType

\* Keys are numbers in the order of etcd.
LEMMA KeysAreNumbers == Keys \subseteq Nat
BY KeyAssumption DEF Keys

\* No more is taken than the page has room for.
LEMMA TakenBound ==
  ASSUME NEW R \in SUBSET Keys, NEW S, NEW I \in SUBSET Keys, NEW L \in Nat,
         Cardinality(I) <= L
  PROVE  Cardinality(I \cup (TakenOf(R, S, I, L) \cap S)) <= L
<1> DEFINE X == TakenOf(R, S, I, L) \cap S
<1>1. X \in SUBSET Keys
  BY DEF TakenOf
<1>2. CASE X = {}
  <2>1. I \cup X = I
    BY <1>2
  <2>2. QED
    BY <2>1
<1>3. CASE X # {}
  <2> DEFINE m == Max(X)
             B == {j \in R \cap S : j < m}
  <2>1. m \in X /\ \A k \in X : k <= m
    <3>1. X \in SUBSET (1 .. MaxKey) /\ MaxKey \in Nat
      BY <1>1, KeyAssumption DEF Keys
    <3> HIDE DEF X
    <3>2. QED
      BY <1>3, <3>1, MaxOf
  <2>2. Cardinality(I) + Cardinality(B) < L
    BY <2>1 DEF TakenOf
  <2> HIDE DEF m
  <2>3. X \subseteq B \cup {m} /\ B \in SUBSET Keys
    <3>1. \A k \in X : k \in R \cap S /\ k \in Int /\ m \in Int
      BY <1>1, <2>1, KeyAssumption DEF TakenOf, Keys
    <3>2. QED
      BY <2>1, <3>1
  <2> HIDE DEF X, B
  <2>4. IsFiniteSet(B) /\ Cardinality(B) \in Nat /\ IsFiniteSet(I) /\ Cardinality(I) \in Nat
        /\ IsFiniteSet(X) /\ Cardinality(X) \in Nat /\ Cardinality(I \cap X) \in Nat
        /\ Cardinality(I \cup X) \in Nat
    BY <1>1, <2>3, KeysFinite
  <2>5. IsFiniteSet(B \cup {m}) /\ Cardinality(B \cup {m}) <= Cardinality(B) + 1
    <3>1. IsFiniteSet(B \cup {m})
          /\ Cardinality(B \cup {m}) = IF m \in B THEN Cardinality(B) ELSE Cardinality(B) + 1
      BY <2>4, FS_AddElement
    <3>2. QED
      BY <2>4, <3>1
  <2>6. Cardinality(X) <= Cardinality(B \cup {m})
    BY <2>3, <2>5, FS_Subset
  <2>7. Cardinality(B \cup {m}) \in Nat
    BY <2>5, FS_CardinalityType
  <2>8. Cardinality(I \cup X) = Cardinality(I) + Cardinality(X) - Cardinality(I \cap X)
    BY <2>4, FS_Union
  <2>9. Cardinality(I \cup X) <= L
    BY <2>2, <2>4, <2>5, <2>6, <2>7, <2>8
  <2>10. QED
    BY <2>9 DEF X
<1>4. QED
  BY <1>2, <1>3

\* What is before a key that is taken is taken too.
LEMMA TakenClosed ==
  ASSUME NEW R \in SUBSET Keys, NEW S, NEW I \in SUBSET Keys, NEW L \in Nat,
         NEW m \in TakenOf(R, S, I, L), NEW k \in R, k <= m
  PROVE  k \in TakenOf(R, S, I, L)
<1> DEFINE B(x) == {j \in R \cap S : j < x}
<1>1. m \in Keys /\ k \in Keys
  BY DEF TakenOf
<1>2. B(k) \in SUBSET B(m) /\ B(k) \in SUBSET Keys /\ B(m) \in SUBSET Keys
  <2>1. \A j \in Keys : j < k => j < m
    <3>1. \A j \in Keys : j \in Nat /\ k \in Nat /\ m \in Nat
      BY <1>1, KeysAreNumbers
    <3>2. QED
      BY <3>1
  <2>2. QED
    BY <2>1
<1>3. Cardinality(I) + Cardinality(B(m)) < L
  BY DEF TakenOf
<1> HIDE DEF B
<1>4. Cardinality(B(k)) <= Cardinality(B(m)) /\ Cardinality(B(k)) \in Nat
      /\ Cardinality(B(m)) \in Nat /\ Cardinality(I) \in Nat
  BY <1>2, FS_Subset, KeysFinite
<1>5. Cardinality(I) + Cardinality(B(k)) < L
  BY <1>3, <1>4
<1>6. QED
  BY <1>5 DEF B, TakenOf

\* If something is left, the page is full.
LEMMA TakenFull ==
  ASSUME NEW R \in SUBSET Keys, NEW S, NEW I \in SUBSET Keys, NEW L \in Nat,
         TakenOf(R, S, I, L) # R, TakenOf(R, S, I, L) \cap I = {}
  PROVE  Cardinality(I \cup (TakenOf(R, S, I, L) \cap S)) >= L
<1> DEFINE T == TakenOf(R, S, I, L)
           Y == T \cap S
<1>1. T \in SUBSET R
  BY DEF TakenOf
<1>2. PICK k \in R \ T : \A j \in R \ T : k <= j
  <2>1. R \ T \in SUBSET Nat /\ R \ T # {}
    <3> HIDE DEF T
    <3>1. R # T
      BY DEF T
    <3>2. QED
      BY <1>1, <3>1, KeysAreNumbers
  <2> HIDE DEF T
  <2>2. QED
    BY <2>1, LeastOf
<1> DEFINE B == {j \in R \cap S : j < k}
<1>3. ~(Cardinality(I) + Cardinality(B) < L)
  BY <1>2 DEF TakenOf
<1> HIDE DEF T
<1>4. B \subseteq Y
  <2>1. ASSUME NEW j \in B PROVE j \in T
    <3>1. j \in Int /\ k \in Int /\ j < k /\ j \in R
      BY <1>2, KeyAssumption DEF Keys
    <3>2. QED
      BY <1>2, <3>1
  <2>2. QED
    BY <2>1
<1>5. Y \in SUBSET Keys /\ B \in SUBSET Keys /\ I \cap Y = {}
  BY <1>1 DEF T
<1> HIDE DEF Y, B
<1>6. IsFiniteSet(B) /\ Cardinality(B) \in Nat /\ IsFiniteSet(I) /\ Cardinality(I) \in Nat
      /\ IsFiniteSet(Y) /\ Cardinality(Y) \in Nat
  BY <1>5, KeysFinite
<1>7. Cardinality(B) <= Cardinality(Y)
  BY <1>4, <1>6, FS_Subset
<1>8. Cardinality(I \cup Y) = Cardinality(I) + Cardinality(Y) - Cardinality(I \cap Y)
  BY <1>6, FS_Union
<1>9. Cardinality(I \cap Y) = 0
  BY <1>5, FS_EmptySet
<1>10. Cardinality(I \cup Y) >= L
  BY <1>3, <1>6, <1>7, <1>8, <1>9
<1>11. QED
  BY <1>10 DEF Y, T

\* What a goroutine takes of its response, and the goroutine after it
Taken(c) ==
  {k \in parts[c].resp : Paging =>
     Cardinality(items) + Cardinality({j \in parts[c].resp \cap request.sel : j < k})
       < request.limit}

Took(c) ==
  [parts[c] EXCEPT !.pc = "check", !.resp = {}, !.more = (@ \/ Taken(c) # parts[c].resp),
                   !.last = IF Taken(c) = {} THEN @ ELSE Max(Taken(c))]

\* Take, in the terms of the proofs
LEMMA TakeEffect ==
  ASSUME NEW c, Take(c)
  PROVE  /\ parts[c].pc = "take"
         /\ items' = items \cup (Taken(c) \cap request.sel)
         /\ parts' = [parts EXCEPT ![c] = Took(c)]
         /\ UNCHANGED <<log, compacted, compactions, phase, request, tokens, got, rv,
                        began, firstEnd, twice, straight, consistent>>
BY Zenon DEF Take, Taken, Took, storageVars, clientVars

\* What is taken, with and without a limit
LEMMA TakenFacts ==
  ASSUME TypeInv, NEW c \in DOMAIN parts
  PROVE  /\ Taken(c) \subseteq parts[c].resp /\ parts[c].resp \in SUBSET Keys
         /\ request.sel \in SUBSET Keys /\ items \in SUBSET Keys
         /\ request.limit \in Nat /\ (Paging <=> request.limit = Limit) /\ Limit > 0
         /\ Paging => Taken(c) = TakenOf(parts[c].resp, request.sel, items, request.limit)
         /\ ~Paging => Taken(c) = parts[c].resp
         /\ Taken(c) # {} => Max(Taken(c)) \in Taken(c) /\ \A k \in Taken(c) : k <= Max(Taken(c))
<1>1. parts[c].resp \in SUBSET Keys /\ items \in SUBSET Keys
  BY DEF TypeInv, PartsType, PartTypeOf, PageInv
<1>2. request.sel \in SUBSET Keys /\ request.limit \in {0, Limit}
  BY DEF TypeInv, RequestInv, RequestTypeOf
<1>3. request.limit \in Nat /\ (Paging <=> request.limit = Limit) /\ Limit > 0
  BY <1>2, PageAssumption DEF Paging
<1>4. Taken(c) \subseteq parts[c].resp
  BY DEF Taken
<1>5. Paging => Taken(c) = TakenOf(parts[c].resp, request.sel, items, request.limit)
  BY Zenon DEF Taken, TakenOf
<1>6. ~Paging => Taken(c) = parts[c].resp
  BY Zenon DEF Taken
<1>7. Taken(c) # {} => Max(Taken(c)) \in Taken(c) /\ \A k \in Taken(c) : k <= Max(Taken(c))
  <2>1. Taken(c) \in SUBSET (1 .. MaxKey) /\ MaxKey \in Nat
    BY <1>1, <1>4, KeyAssumption DEF Keys
  <2>2. QED
    BY <2>1, MaxOf
<1>8. QED
  BY <1>1, <1>2, <1>3, <1>4, <1>5, <1>6, <1>7

\* A goroutine after it appended is at the last key it took.
LEMMA TookFacts ==
  ASSUME TypeInv, NEW c \in DOMAIN parts
  PROVE  /\ Took(c) \in PartTypeOf(Len(log)) /\ Took(c).pc = "check"
         /\ Took(c).rev = parts[c].rev /\ Took(c).start = parts[c].start
         /\ Took(c).returned = parts[c].returned
         /\ Took(c).last = IF Taken(c) = {} THEN parts[c].last ELSE Max(Taken(c))
         /\ Took(c).more <=> parts[c].more \/ Taken(c) # parts[c].resp
<1> DEFINE n == Len(log)
           l == IF Taken(c) = {} THEN parts[c].last ELSE Max(Taken(c))
           b == parts[c].more \/ Taken(c) # parts[c].resp
<1>1. parts[c] \in PartTypeOf(n)
  BY DEF TypeInv, PartsType
<1>2. b \in BOOLEAN
  OBVIOUS
<1>3. l \in 0 .. MaxKey
  <2>1. parts[c].last \in 0 .. MaxKey
    BY <1>1 DEF PartTypeOf
  <2>2. Taken(c) # {} => Max(Taken(c)) \in Keys
    BY TakenFacts
  <2>3. Keys \subseteq 0 .. MaxKey
    BY KeyAssumption DEF Keys
  <2>4. QED
    BY <2>1, <2>2, <2>3
<1>4. Took(c) = [parts[c] EXCEPT !.pc = "check", !.resp = {}, !.more = b, !.last = l]
  BY DEF Took
<1> HIDE DEF n, l, b
<1>5. Took(c) \in PartTypeOf(n)
  BY <1>1, <1>2, <1>3, <1>4 DEF PartTypeOf
<1>6. /\ Took(c).pc = "check" /\ Took(c).rev = parts[c].rev /\ Took(c).start = parts[c].start
      /\ Took(c).returned = parts[c].returned /\ Took(c).last = l
  BY <1>1, <1>2, <1>3, <1>4 DEF PartTypeOf
<1>7. Took(c).more = b
  BY <1>1, <1>2, <1>3, <1>4 DEF PartTypeOf
<1>8. QED
  BY <1>5, <1>6, <1>7, Zenon DEF n, l, b

\* Take keeps the types, the size of the page among them.
LEMMA TakeType ==
  ASSUME TypeInv, NEW c \in DOMAIN parts, Take(c)
  PROVE  TypeInv'
<1> USE DEF TypeInv
<1>1. /\ items' = items \cup (Taken(c) \cap request.sel)
      /\ UNCHANGED <<log, compacted, compactions, phase, request, tokens, got, rv,
                  began, firstEnd, twice, straight, consistent>>
  BY TakeEffect
<1>2. /\ DOMAIN parts' = DOMAIN parts /\ parts[c].pc = "take"
      /\ \A d \in DOMAIN parts : d # c => parts'[d] = parts[d]
      /\ parts'[c] = Took(c)
  <2> HIDE DEF TypeInv
  <2>1. QED
    BY TakeEffect
<1>3. Took(c) \in PartTypeOf(Len(log)) /\ Took(c).returned > 0
  BY <1>2, TookFacts DEF PartsType
<1>4. PartsType'
  <2>1. phase = "listing"
    BY DEF PartsType
  <2>2. QED
    BY <1>1, <1>2, <1>3, <2>1 DEF PartsType
<1>5. PageInv'
  <2>1. items' \subseteq Keys
    BY <1>1, TakenFacts
  <2>2. CASE Paging
    <3>1. request.limit = Limit /\ Cardinality(items) <= Limit
      BY <2>2, TakenFacts DEF PageInv
    <3>2. Cardinality(items \cup (Taken(c) \cap request.sel)) <= Limit
      BY <2>2, <3>1, TakenFacts, TakenBound
    <3>3. QED
      BY <1>1, <2>1, <3>2 DEF PageInv
  <2>3. CASE ~Paging
    BY <1>1, <2>1, <2>3 DEF PageInv, Paging
  <2>4. QED
    BY <2>2, <2>3
<1>6. StoreInv' /\ RequestInv' /\ TokensType' /\ ClientType'
  BY <1>1 DEF StoreInv, Written, RequestInv, TokensType, ClientType
<1>7. QED
  BY <1>4, <1>5, <1>6

\* After the list was looked at
Full(c) == ~parts[c].more \/ ~Paging \/ Cardinality(items) >= request.limit

\* Check, in the terms of the proofs
LEMMA CheckEffect ==
  ASSUME NEW c, Check(c)
  PROVE  /\ parts[c].pc = "check"
         /\ parts' = [parts EXCEPT ![c] =
              IF Full(c) THEN [parts[c] EXCEPT !.pc = "done"]
              ELSE [parts[c] EXCEPT !.pc = "get", !.start = parts[c].last]]
         /\ UNCHANGED <<log, compacted, compactions, phase, request, items, tokens, got, rv,
                        began, firstEnd, twice, straight, consistent>>
BY Zenon DEF Check, Full, storageVars, clientVars

\* A goroutine goes on from the last key, or is done.
LEMMA CheckFacts ==
  ASSUME TypeInv, NEW c \in DOMAIN parts, Check(c)
  PROVE  /\ DOMAIN parts' = DOMAIN parts
         /\ \A d \in DOMAIN parts : d # c => parts'[d] = parts[d]
         /\ parts'[c] \in PartTypeOf(Len(log)) /\ parts[c].pc = "check"
         /\ parts'[c].pc = IF Full(c) THEN "done" ELSE "get"
         /\ parts'[c].start = IF Full(c) THEN parts[c].start ELSE parts[c].last
         /\ parts'[c].rev = parts[c].rev /\ parts'[c].returned = parts[c].returned
         /\ parts'[c].last = parts[c].last
         /\ parts'[c].more = parts[c].more
<1>1. parts[c] \in PartTypeOf(Len(log))
  BY DEF TypeInv, PartsType
<1>2. /\ DOMAIN parts' = DOMAIN parts /\ parts[c].pc = "check"
      /\ \A d \in DOMAIN parts : d # c => parts'[d] = parts[d]
      /\ parts'[c] = IF Full(c) THEN [parts[c] EXCEPT !.pc = "done"]
                     ELSE [parts[c] EXCEPT !.pc = "get", !.start = parts[c].last]
  BY CheckEffect
<1> DEFINE p == parts[c]
           q == parts'[c]
<1> HIDE DEF p, q
<1>3. /\ p \in PartTypeOf(Len(log))
      /\ q = IF Full(c) THEN [p EXCEPT !.pc = "done"] ELSE [p EXCEPT !.pc = "get", !.start = p.last]
  BY <1>1, <1>2 DEF p, q
<1>4. CASE Full(c)
  <2>1. q = [p EXCEPT !.pc = "done"]
    BY <1>3, <1>4
  <2>2. /\ q \in PartTypeOf(Len(log)) /\ q.pc = "done" /\ q.start = p.start /\ q.rev = p.rev
        /\ q.returned = p.returned /\ q.last = p.last /\ q.more = p.more
    BY <1>3, <2>1 DEF PartTypeOf
  <2>3. QED
    BY <1>2, <1>4, <2>2 DEF p, q
<1>5. CASE ~Full(c)
  <2>1. q = [p EXCEPT !.pc = "get", !.start = p.last]
    BY <1>3, <1>5
  <2>2. /\ q \in PartTypeOf(Len(log)) /\ q.pc = "get" /\ q.start = p.last /\ q.rev = p.rev
        /\ q.returned = p.returned /\ q.last = p.last /\ q.more = p.more
    BY <1>3, <2>1 DEF PartTypeOf
  <2>3. QED
    BY <1>2, <1>5, <2>2 DEF p, q
<1>6. QED
  BY <1>4, <1>5

\* Check keeps the types.
LEMMA CheckType ==
  ASSUME TypeInv, NEW c \in DOMAIN parts, Check(c)
  PROVE  TypeInv'
<1>1. UNCHANGED <<log, compacted, compactions, phase, request, items, tokens, got, rv,
                  began, firstEnd, twice, straight, consistent>>
  BY CheckEffect
<1>2. PartsType'
  <2>1. parts[c].returned > 0 /\ PartsType
    BY CheckFacts DEF TypeInv, PartsType
  <2>2. QED
    BY <1>1, <2>1, CheckFacts DEF PartsType
<1>3. StoreInv' /\ RequestInv' /\ PageInv' /\ TokensType' /\ ClientType'
  BY <1>1 DEF TypeInv, StoreInv, Written, RequestInv, PageInv, Paging, TokensType, ClientType
<1>4. QED
  BY <1>2, <1>3 DEF TypeInv

\* Where the goroutines end with a page: a token for each cluster with more,
\* and the version of one of them
EndOfPage ==
  /\ phase' \in {"paging", "done"} /\ (phase' = "done" <=> tokens' = << >>)
  /\ got' = got \cup items /\ twice' = twice \cup (got \cap items)
  /\ firstEnd' = IF firstEnd = 0 THEN Len(log) ELSE firstEnd
  /\ tokens' \in Seq(TokenTypeOf(Len(log)))
  /\ \A i \in DOMAIN tokens' :
       /\ tokens'[i].cluster \in DOMAIN parts
       /\ parts[tokens'[i].cluster].more /\ parts[tokens'[i].cluster].last # 0
       /\ tokens'[i].rev = parts[tokens'[i].cluster].returned
       /\ tokens'[i].last = parts[tokens'[i].cluster].last
  /\ \A c \in DOMAIN parts : parts[c].more => \E i \in DOMAIN tokens' : tokens'[i].cluster = c
  /\ rv # 0 => rv' = rv
  /\ rv = 0 /\ DOMAIN parts # {} => \E c \in DOMAIN parts : rv' = parts[c].returned
  /\ rv = 0 /\ DOMAIN parts = {} => rv' = 0

\* Clusters can be counted, since their ids have six bits.
LEMMA ClustersFinite ==
  ASSUME NEW S \in SUBSET Clusters
  PROVE  IsFiniteSet(S)
<1>1. \A b \in Int : IsFiniteSet(0 .. b)
  BY FS_Interval
<1>2. 63 \in Int
  OBVIOUS
<1>3. IsFiniteSet(0 .. 63)
  BY <1>1, <1>2, Zenon
<1>4. S \in SUBSET (0 .. 63)
  BY KeyAssumption, Zenon
<1>5. QED
  BY <1>3, <1>4, FS_Subset, Zenon

\* The order of a page, whatever the map gives
LEMMA PageOrder ==
  ASSUME TypeInv, NEW order \in SetToSeqs(DOMAIN parts),
         \A c \in DOMAIN parts : parts[c].pc = "done"
  PROVE  /\ Cardinality(DOMAIN parts) \in Nat
         /\ order \in [1 .. Cardinality(DOMAIN parts) -> DOMAIN parts]
         /\ \A c \in DOMAIN parts : \E i \in 1 .. Cardinality(DOMAIN parts) : order[i] = c
         /\ Cardinality(DOMAIN parts) = 0 <=> DOMAIN parts = {}
         /\ \A c \in DOMAIN parts : parts[c].returned \in 1 .. Len(log)
<1>1. IsFiniteSet(DOMAIN parts)
  BY ClustersFinite DEF TypeInv, PartsType
<1>2. ASSUME NEW c \in DOMAIN parts PROVE parts[c].returned \in 1 .. Len(log)
  <2>1. parts[c].returned \in 0 .. Len(log) /\ parts[c].returned > 0
    BY DEF TypeInv, PartsType, PartTypeOf
  <2>2. Len(log) \in Nat
    BY LenProperties DEF TypeInv, StoreInv
  <2>3. QED
    BY <2>1, <2>2
<1>3. Cardinality(DOMAIN parts) = 0 <=> DOMAIN parts = {}
  BY <1>1, FS_EmptySet
<1>4. /\ Cardinality(DOMAIN parts) \in Nat
      /\ order \in [1 .. Cardinality(DOMAIN parts) -> DOMAIN parts]
      /\ \A c \in DOMAIN parts : \E i \in 1 .. Cardinality(DOMAIN parts) : order[i] = c
  BY <1>1, OrderFacts
<1>5. QED
  BY <1>2, <1>3, <1>4

\* A page ends with an error, or as EndOfPage says.
LEMMA FinishFacts ==
  ASSUME TypeInv, NEW order \in SetToSeqs(DOMAIN parts), Finish(order)
  PROVE  /\ phase = "listing" /\ \A c \in DOMAIN parts : parts[c].pc = "done"
         /\ DOMAIN parts' = {} /\ items' = {}
         /\ UNCHANGED <<log, compacted, compactions, request, began, straight, consistent>>
         /\ \/ phase' = "failed" /\ UNCHANGED <<tokens, got, twice, rv, firstEnd>>
            \/ EndOfPage
<1> DEFINE next == compactedListResult(order)
           encoded == \A i \in DOMAIN next : parts[next[i]].last # 0
           S == DOMAIN parts
           n == Cardinality(S)
<1>1. /\ phase = "listing" /\ \A c \in S : parts[c].pc = "done"
      /\ parts' = << >> /\ items' = {}
      /\ UNCHANGED <<log, compacted, compactions, request, began, straight, consistent>>
  BY DEF Finish, Listed, storageVars
<1>2. ~encoded => phase' = "failed" /\ UNCHANGED <<tokens, got, twice, rv, firstEnd>>
  BY Zenon DEF Finish
<1>3. encoded => /\ tokens' = [i \in DOMAIN next |->
                          Token(next[i], parts[next[i]].returned, parts[next[i]].last)]
                 /\ got' = got \cup items /\ twice' = twice \cup (got \cap items)
                 /\ rv' = IF rv = 0 THEN Newest(order) ELSE rv
                 /\ firstEnd' = IF firstEnd = 0 THEN Len(log) ELSE firstEnd
                 /\ phase' = IF next = << >> THEN "done" ELSE "paging"
  BY Zenon DEF Finish
<1>4. /\ n \in Nat /\ order \in [1 .. n -> S] /\ (n = 0 <=> S = {})
      /\ \A c \in S : \E i \in 1 .. n : order[i] = c
      /\ \A c \in S : parts[c].returned \in 1 .. Len(log)
  BY <1>1, PageOrder
<1>5. /\ next \in Seq(S) /\ \A i \in DOMAIN next : parts[next[i]].more
      /\ \A i \in 1 .. n : parts[order[i]].more => \E j \in DOMAIN next : next[j] = order[i]
  <2> HIDE DEF n, S, next, encoded
  <2>1. n \in Nat /\ order \in [1 .. n -> S]
    BY <1>4
  <2>2. /\ compactedListResult(order) \in Seq(S)
        /\ \A i \in DOMAIN compactedListResult(order) : parts[compactedListResult(order)[i]].more
        /\ \A i \in 1 .. n : parts[order[i]].more =>
             \E j \in DOMAIN compactedListResult(order) : compactedListResult(order)[j] = order[i]
    BY <2>1, ResultFacts
  <2>3. QED
    BY <2>2, Zenon DEF next
<1>6. ASSUME encoded PROVE EndOfPage
  <2> HIDE DEF next
  <2>1. DOMAIN next = 1 .. Len(next) /\ Len(next) \in Nat
    BY <1>5, LenProperties
  <2>2. ASSUME NEW i \in DOMAIN next
        PROVE  /\ next[i] \in S /\ parts[next[i]].more
               /\ tokens'[i] = Token(next[i], parts[next[i]].returned, parts[next[i]].last)
               /\ tokens'[i].cluster = next[i] /\ tokens'[i].rev = parts[next[i]].returned
               /\ tokens'[i].last = parts[next[i]].last /\ parts[next[i]].last # 0
               /\ tokens'[i] \in TokenTypeOf(Len(log))
    <3>1. next[i] \in S /\ parts[next[i]].more /\ parts[next[i]].last # 0
      BY <1>5, <1>6, <2>1, ElementOfSeq
    <3>2. tokens'[i] = Token(next[i], parts[next[i]].returned, parts[next[i]].last)
      BY <1>3, <1>6
    <3>3. parts[next[i]].last \in Keys /\ next[i] \in Clusters
      <4>1. parts[next[i]].last \in 0 .. MaxKey /\ next[i] \in Clusters
        BY <3>1 DEF TypeInv, PartsType, PartTypeOf
      <4>2. QED
        BY <3>1, <4>1, KeyAssumption DEF Keys
    <3>4. parts[next[i]].returned \in 1 .. Len(log)
      BY <1>4, <3>1
    <3>5. QED
      BY <3>1, <3>2, <3>3, <3>4 DEF Token, TokenTypeOf
  <2>3. DOMAIN tokens' = DOMAIN next
    BY <1>3, <1>6
  <2>4. tokens' \in Seq(TokenTypeOf(Len(log))) /\ (tokens' = << >> <=> next = << >>)
    <3>1. tokens' \in [1 .. Len(next) -> TokenTypeOf(Len(log))]
      BY <1>3, <1>6, <2>1, <2>2
    <3>2. tokens' \in Seq(TokenTypeOf(Len(log))) /\ Len(tokens') = Len(next)
      BY <2>1, <3>1
    <3>3. QED
      BY <1>5, <3>2, EmptySeq
  <2>5. ASSUME NEW c \in S, parts[c].more PROVE \E i \in DOMAIN tokens' : tokens'[i].cluster = c
    <3>1. PICK j \in 1 .. n : order[j] = c
      BY <1>4
    <3>2. PICK i \in DOMAIN next : next[i] = c
      BY <1>5, <2>5, <3>1
    <3>3. QED
      BY <2>2, <2>3, <3>2
  <2>6. /\ n = 0 => Newest(order) = 0
        /\ n # 0 => \E j \in 1 .. n : Newest(order) = parts[order[j]].returned
    BY <1>4, NewestFacts DEF TypeInv, StoreInv
  <2>7. rv = 0 /\ S # {} => \E c \in S : rv' = parts[c].returned
    <3>1. SUFFICES ASSUME rv = 0, S # {} PROVE \E c \in S : rv' = parts[c].returned
      OBVIOUS
    <3>2. PICK j \in 1 .. n : Newest(order) = parts[order[j]].returned
      BY <1>4, <2>6, <3>1
    <3>3. order[j] \in S /\ rv' = parts[order[j]].returned
      BY <1>3, <1>4, <1>6, <3>1, <3>2
    <3>4. QED
      BY <3>3
  <2>8. rv = 0 /\ S = {} => rv' = 0
    BY <1>3, <1>4, <1>6, <2>6
  <2>9. /\ phase' \in {"paging", "done"} /\ (phase' = "done" <=> tokens' = << >>)
        /\ got' = got \cup items /\ twice' = twice \cup (got \cap items)
        /\ firstEnd' = IF firstEnd = 0 THEN Len(log) ELSE firstEnd
        /\ rv # 0 => rv' = rv
    BY <1>3, <1>6, <2>4
  <2>10. \A i \in DOMAIN tokens' :
       /\ tokens'[i].cluster \in DOMAIN parts
       /\ parts[tokens'[i].cluster].more /\ parts[tokens'[i].cluster].last # 0
       /\ tokens'[i].rev = parts[tokens'[i].cluster].returned
       /\ tokens'[i].last = parts[tokens'[i].cluster].last
    BY <2>2, <2>3
  <2> HIDE DEF n, encoded
  <2>11. QED
    BY <2>4, <2>5, <2>7, <2>8, <2>9, <2>10 DEF EndOfPage
<1>7. DOMAIN parts' = {}
  BY <1>1
<1>8. QED
  BY <1>1, <1>2, <1>6, <1>7

\* The end of a page keeps the types.
LEMMA FinishType ==
  ASSUME TypeInv, NEW order \in SetToSeqs(DOMAIN parts), Finish(order)
  PROVE  TypeInv'
<1>1. /\ phase = "listing" /\ \A c \in DOMAIN parts : parts[c].pc = "done"
      /\ DOMAIN parts' = {} /\ items' = {}
      /\ UNCHANGED <<log, compacted, compactions, request, began, straight, consistent>>
      /\ \/ phase' = "failed" /\ UNCHANGED <<tokens, got, twice, rv, firstEnd>>
         \/ EndOfPage
  BY FinishFacts
<1>2. StoreInv' /\ PartsType'
  BY <1>1 DEF TypeInv, StoreInv, Written, PartsType
<1>3. PageInv'
  BY <1>1, FS_EmptySet, PageAssumption DEF PageInv
<1>4. CASE phase' = "failed" /\ UNCHANGED <<tokens, got, twice, rv, firstEnd>>
  <2>1. RequestInv' /\ TokensType' /\ ClientType'
    BY <1>1, <1>4 DEF TypeInv, RequestInv, TokensType, ClientType
  <2>2. QED
    BY <1>2, <1>3, <2>1 DEF TypeInv
<1>5. CASE EndOfPage
  <2>1. RequestInv'
    BY <1>1, <1>5 DEF TypeInv, RequestInv, EndOfPage
  <2>2. \A c \in DOMAIN parts : parts[c].returned \in 1 .. Len(log)
    BY <1>1, PageOrder
  <2>3. TokensType'
    <3>1. \A i \in DOMAIN tokens' : tokens'[i].rev # -1
      <4>1. Len(log) \in Nat
        BY LenProperties DEF TypeInv, StoreInv
      <4>2. QED
        BY <1>5, <2>2, <4>1 DEF EndOfPage
    <3>2. QED
      BY <1>1, <1>5, <3>1 DEF EndOfPage, TokensType
  <2>4. ClientType'
    <3>1. Len(log) \in Nat /\ rv \in 0 .. Len(log)
      BY LenProperties DEF TypeInv, StoreInv, ClientType
    <3>2. rv' \in 0 .. Len(log)
      <4>1. CASE rv # 0
        BY <1>5, <3>1, <4>1 DEF EndOfPage
      <4>2. CASE rv = 0 /\ DOMAIN parts = {}
        BY <1>5, <3>1, <4>2 DEF EndOfPage
      <4>3. CASE rv = 0 /\ DOMAIN parts # {}
        <5>1. PICK c \in DOMAIN parts : rv' = parts[c].returned
          BY <1>5, <4>3 DEF EndOfPage
        <5>2. QED
          BY <2>2, <3>1, <5>1
      <4>4. QED
        BY <4>1, <4>2, <4>3
    <3>3. firstEnd' \in 0 .. Len(log)
      BY <1>5, <3>1 DEF EndOfPage, TypeInv, ClientType
    <3>4. got' \subseteq Keys /\ twice' \subseteq Keys
      BY <1>5 DEF EndOfPage, TypeInv, ClientType, PageInv
    <3>5. QED
      BY <1>1, <3>2, <3>3, <3>4 DEF TypeInv, ClientType
  <2>5. QED
    BY <1>2, <1>3, <2>1, <2>3, <2>4 DEF TypeInv
<1>6. QED
  BY <1>1, <1>4, <1>5

\* ListError, in the terms of the proofs
LEMMA ErrorEffect ==
  ASSUME TypeInv, NEW c \in DOMAIN parts, ListError(c)
  PROVE  /\ phase = "listing" /\ DOMAIN parts' = {} /\ items' = {}
         /\ UNCHANGED <<log, compacted, compactions, request, got, rv, began, firstEnd, twice,
                        straight, consistent>>
         /\ \/ phase' = "failed" /\ UNCHANGED tokens
            \/ /\ phase' = "expired" /\ tokens # << >>
               /\ tokens' = <<Token(0, -1, tokens[c + 1].last)>>
<1>1. /\ phase = "listing" /\ parts' = << >> /\ items' = {}
      /\ UNCHANGED <<log, compacted, compactions, request, got, rv, began, firstEnd, twice,
                     straight, consistent>>
  BY DEF ListError, Listed, storageVars, clientVars
<1>2. \/ phase' = "failed" /\ UNCHANGED tokens
      \/ /\ phase' = "expired" /\ tokens # << >>
         /\ tokens' = <<Token(0, -1, tokens[c + 1].last)>>
  BY DEF ListError
<1>3. DOMAIN parts' = {}
  BY <1>1
<1>4. QED
  BY <1>1, <1>2, <1>3

\* The token of a list that is too old
LEMMA ExpiredToken ==
  ASSUME NEW n \in Nat, NEW k \in Keys, NEW t, t = <<Token(0, -1, k)>>
  PROVE  /\ t \in Seq(TokenTypeOf(n)) /\ t # << >> /\ DOMAIN t = {1} /\ Len(t) = 1
         /\ t[1].cluster = 0 /\ t[1].rev = -1 /\ t[1].last = k
<1>1. Token(0, -1, k) \in TokenTypeOf(n)
  BY KeyAssumption DEF Token, TokenTypeOf
<1>2. t[1] = Token(0, -1, k) /\ Len(t) = 1 /\ t \in Seq(TokenTypeOf(n)) /\ t # << >>
  BY <1>1
<1>3. DOMAIN t = {1}
  BY <1>2
<1>4. QED
  BY <1>2, <1>3 DEF Token

\* An error keeps the types.
LEMMA ErrorType ==
  ASSUME TypeInv, NEW c \in DOMAIN parts, ListError(c)
  PROVE  TypeInv'
<1>1. /\ phase = "listing" /\ DOMAIN parts' = {} /\ items' = {}
      /\ UNCHANGED <<log, compacted, compactions, request, got, rv, began, firstEnd, twice,
                     straight, consistent>>
  BY ErrorEffect
<1>2. StoreInv' /\ PartsType' /\ ClientType'
  BY <1>1 DEF TypeInv, StoreInv, Written, PartsType, ClientType
<1>3. PageInv'
  BY <1>1, FS_EmptySet, PageAssumption DEF PageInv
<1>4. CASE phase' = "failed" /\ UNCHANGED tokens
  <2>1. RequestInv' /\ TokensType'
    BY <1>1, <1>4 DEF TypeInv, RequestInv, TokensType
  <2>2. QED
    BY <1>2, <1>3, <2>1 DEF TypeInv
<1>5. CASE phase' = "expired" /\ tokens # << >> /\ tokens' = <<Token(0, -1, tokens[c + 1].last)>>
  <2>1. RequestInv'
    BY <1>1, <1>5 DEF TypeInv, RequestInv
  <2>2. c + 1 \in DOMAIN tokens /\ tokens \in Seq(TokenTypeOf(Len(log))) /\ Len(log) \in Nat
    BY <1>5, LenProperties DEF TypeInv, PartsType, TokensType, StoreInv
  <2>3. tokens[c + 1] \in TokenTypeOf(Len(log))
    BY <2>2, ElementOfSeq, LenProperties
  <2>4. tokens[c + 1].last \in Keys
    BY <2>3 DEF TokenTypeOf
  <2>5. /\ tokens' \in Seq(TokenTypeOf(Len(log))) /\ tokens' # << >>
        /\ DOMAIN tokens' = {1} /\ Len(tokens') = 1
    BY <1>5, <2>2, <2>4, ExpiredToken
  <2>6. TokensType'
    BY <1>1, <1>5, <2>5 DEF TokensType
  <2>7. QED
    BY <1>2, <1>3, <2>1, <2>6 DEF TypeInv
<1>6. QED
  BY <1>4, <1>5, ErrorEffect

\* FullList, in the terms of the proofs
LEMMA FullEffect ==
  ASSUME TypeInv, FullList
  PROVE  /\ phase = "expired" /\ phase' = "listing"
         /\ request' = [request EXCEPT !.limit = 0]
         /\ parts' = [c \in request.scope |-> Part(request.rev, 0)]
         /\ tokens' = << >> /\ got' = {} /\ twice' = {} /\ rv' = 0 /\ firstEnd' = 0
         /\ straight' = TRUE /\ consistent' = TRUE /\ items' = {}
         /\ UNCHANGED <<log, compacted, compactions, began>>
         /\ request' \in RequestTypeOf(Len(log)) /\ request'.scope = request.scope
         /\ request'.sel = request.sel /\ request'.rev = request.rev /\ request'.limit = 0
         /\ request.scope \subseteq Clusters /\ request.scope # {}
         /\ request.rev \in 0 .. Len(log)
<1>1. /\ phase = "expired" /\ phase' = "listing"
      /\ request' = [request EXCEPT !.limit = 0]
      /\ parts' = [c \in request.scope |-> Part(request.rev, 0)]
      /\ tokens' = << >> /\ got' = {} /\ twice' = {} /\ rv' = 0 /\ firstEnd' = 0
      /\ straight' = TRUE /\ consistent' = TRUE
      /\ UNCHANGED <<log, compacted, compactions, began, items>>
  BY DEF FullList, storageVars
<1>2. items' = {}
  BY <1>1 DEF TypeInv, PartsType
<1>3. request \in RequestTypeOf(Len(log)) /\ request.scope # {}
  BY <1>1 DEF TypeInv, RequestInv
<1>4. /\ request' \in RequestTypeOf(Len(log)) /\ request'.scope = request.scope
      /\ request'.sel = request.sel /\ request'.rev = request.rev /\ request'.limit = 0
      /\ request.scope \subseteq Clusters /\ request.rev \in 0 .. Len(log)
  BY <1>1, <1>3 DEF RequestTypeOf
<1>5. QED
  BY <1>1, <1>2, <1>3, <1>4

\* A full list keeps the types.
LEMMA FullType ==
  ASSUME TypeInv, FullList
  PROVE  TypeInv'
<1>1. StoreInv'
  BY FullEffect DEF TypeInv, StoreInv, Written
<1>2. RequestInv'
  BY FullEffect DEF TypeInv, RequestInv
<1>3. Len(log) \in Nat /\ 0 \in 0 .. MaxKey
  BY LenProperties, KeyAssumption DEF TypeInv, StoreInv
<1>4. PartsType'
  <2>1. Part(request.rev, 0) \in PartTypeOf(Len(log)) /\ Part(request.rev, 0).pc = "get"
    BY <1>3, FullEffect, PartFacts
  <2>2. QED
    BY <2>1, FullEffect DEF PartsType
<1>5. PageInv'
  <2>1. items' = {}
    BY FullEffect
  <2>2. QED
    BY <2>1, FS_EmptySet, PageAssumption DEF PageInv
<1>6. TokensType'
  <2>1. tokens' = << >> /\ phase' = "listing" /\ DOMAIN tokens' = {}
    BY FullEffect
  <2>2. QED
    BY <2>1, EmptySeq DEF TokensType
<1>7. ClientType'
  <2>1. /\ got' = {} /\ twice' = {} /\ rv' = 0 /\ firstEnd' = 0 /\ straight' = TRUE
        /\ consistent' = TRUE /\ log' = log /\ began' = began /\ ClientType
    BY FullEffect DEF TypeInv
  <2>2. QED
    BY <1>3, <2>1 DEF ClientType
<1>8. QED
  BY <1>1, <1>2, <1>4, <1>5, <1>6, <1>7 DEF TypeInv

\* The client that goes on keeps the types.
LEMMA GoOnType ==
  ASSUME TypeInv, GoOnInconsistently
  PROVE  TypeInv'
<1>1. /\ phase = "expired" /\ phase' = "paging"
      /\ UNCHANGED <<log, compacted, compactions, request, parts, items, tokens, got, rv, began,
                     firstEnd, twice, straight, consistent>>
  BY DEF GoOnInconsistently, storageVars, clientVars
<1>2. QED
  BY <1>1 DEF TypeInv, StoreInv, Written, RequestInv, PartsType, PageInv, Paging, TokensType,
              ClientType

\* So does a step that changes nothing.
LEMMA StutterType ==
  ASSUME TypeInv, UNCHANGED vars
  PROVE  TypeInv'
BY DEF vars, TypeInv, StoreInv, Written, RequestInv, PartsType, PageInv, Paging, TokensType,
       ClientType

\* Every step keeps the types.
LEMMA NextType ==
  ASSUME TypeInv, [Next]_vars
  PROVE  TypeInv'
<1>1. ASSUME NEW k \in Keys, WriteKey(k) PROVE TypeInv'
  BY <1>1, WriteType
<1>2. ASSUME NEW c \in Clusters, CompactCluster(c) PROVE TypeInv'
  BY <1>2, CompactType
<1>3. ASSUME NEW scope \in getClientsFromKey, NEW sel \in Selections, NEW limit \in {0, Limit},
             NEW r \in {0, Len(log)}, List(scope, sel, limit, r)
      PROVE  TypeInv'
  BY <1>3, ListType
<1>4. CASE Continue
  BY <1>4, ContinueType
<1>5. ASSUME NEW c \in DOMAIN parts, Get(c) PROVE TypeInv'
  BY <1>5, GetType
<1>6. ASSUME NEW c \in DOMAIN parts, Take(c) PROVE TypeInv'
  BY <1>6, TakeType
<1>7. ASSUME NEW c \in DOMAIN parts, Check(c) PROVE TypeInv'
  BY <1>7, CheckType
<1>8. ASSUME NEW c \in DOMAIN parts, ListError(c) PROVE TypeInv'
  BY <1>8, ErrorType
<1>9. ASSUME NEW order \in SetToSeqs(DOMAIN parts), Finish(order) PROVE TypeInv'
  BY <1>9, FinishType
<1>10. CASE FullList
  BY <1>10, FullType
<1>11. CASE GoOnInconsistently
  BY <1>11, GoOnType
<1>12. CASE UNCHANGED vars
  BY <1>12, StutterType
<1>13. QED
  BY <1>1, <1>2, <1>3, <1>4, <1>5, <1>6, <1>7, <1>8, <1>9, <1>10, <1>11, <1>12 DEF Next

\* The inductive invariant of the types.
LEMMA TypeInvariant == Spec => []TypeInv
<1>1. Init => TypeInv
  BY TypeInit
<1>2. TypeInv /\ [Next]_vars => TypeInv'
  BY NextType
<1>3. QED
  BY <1>1, <1>2, PTL DEF Spec

(***************************************************************************)
(* TypeOK holds for any keys, clusters, selectors and page size: a page    *)
(* never has more objects than the limit says, though all goroutines       *)
(* append to it, and a token has a revision and a key to go on from.       *)
(***************************************************************************)
THEOREM ListTypeCorrect == Spec => []TypeOK
<1>1. TypeInv => TypeOK
  BY TypeInvTypeOK
<1>2. QED
  BY <1>1, TypeInvariant, PTL

(***************************************************************************)
(* VersionNotFarBehind: whatever the order of the map, the version of a    *)
(* list is behind that of each cluster by less than the tolerance for each *)
(* other cluster.                                                          *)
(***************************************************************************)
THEOREM VersionStaysNear == Spec => []VersionNotFarBehind
<1>1. ASSUME TypeInv PROVE VersionNotFarBehind
  <2>1. SUFFICES ASSUME \A c \in DOMAIN parts : parts[c].pc = "done",
                        NEW order \in SetToSeqs(DOMAIN parts), NEW c \in DOMAIN parts
                 PROVE  parts[c].returned - Newest(order)
                          <= (AllowedNTPDiff - 1) * (Cardinality(DOMAIN parts) - 1)
    BY DEF VersionNotFarBehind
  <2> DEFINE S == DOMAIN parts
             n == Cardinality(S)
  <2>2. /\ n \in Nat /\ order \in [1 .. n -> S] /\ \E i \in 1 .. n : order[i] = c
        /\ \A d \in S : parts[d].returned \in 1 .. Len(log)
    BY <1>1, <2>1, PageOrder
  <2>3. log \in Seq(Keys)
    BY <1>1 DEF TypeInv, StoreInv
  <2> HIDE DEF S, n
  <2>4. \A j \in 1 .. n : parts[order[j]].returned - Newest(order) <= (AllowedNTPDiff - 1) * (n - 1)
    BY <2>2, <2>3, NewestFacts
  <2>5. QED
    BY <2>2, <2>4 DEF n, S
<1>2. QED
  BY <1>1, TypeInvariant, PTL

-----------------------------------------------------------------------------
(* Nothing is lost between pages.                                          *)

\* Keys that a cluster had at some moment of the list, or all the time
May(c) == {k \in Keys : \E m \in Moments : k \in Snapshot(c, m)}
Must(c) == {k \in Keys : \A m \in Moments : k \in Snapshot(c, m)}

\* G has what it should of cluster c up to key cur: what matches and must be
\* there, nothing that may not, and nothing after cur.
Covered(G, c, cur, sel, may, must) ==
  \A k \in Keys : Home[k] = c =>
    /\ k \in G => k <= cur /\ k \in sel /\ k \in may
    /\ k \in sel /\ k <= cur /\ k \in must => k \in G

\* A revision at which the cluster is as the list may show it
AtMoment(c, r) == r \in 1 .. Len(log) /\ Must(c) \subseteq Snapshot(c, r) /\ Snapshot(c, r) \subseteq May(c)

\* How far a goroutine has got: all keys of its cluster up to this one
Cursor(p) ==
  IF p.pc \notin {"check", "done"} THEN p.start
  ELSE IF ~p.more THEN MaxKey
  ELSE IF p.last = 0 THEN p.start ELSE p.last

\* A response is the first keys after `start` of a state of the cluster, as many
\* as the limit says if there are more.
AnswerOf(p, snap, limit) ==
  /\ \A k \in p.resp : k \in snap /\ k > p.start
  /\ \A k \in snap : k \notin p.resp /\ k > p.start => p.more /\ \A j \in p.resp : j < k
  /\ p.more => limit > 0 /\ Cardinality(p.resp) >= limit

CoverInv(c) == Covered(got \cup items, c, Cursor(parts[c]), request.sel, May(c), Must(c))

\* A goroutine without revision is one that may take the newest.
RevInv(c) ==
  /\ parts[c].rev > 0 => AtMoment(c, parts[c].rev)
  /\ parts[c].returned > 0 => AtMoment(c, parts[c].returned)
  /\ parts[c].rev = 0 \/ parts[c].returned = 0 => request.rev = 0 \/ ~consistent

AnswerInv(c) ==
  /\ parts[c].pc \in {"get", "take"} => parts[c].last = 0 \/ parts[c].last = parts[c].start
  /\ parts[c].pc = "take" =>
       \E r \in 1 .. Len(log) : AtMoment(c, r) /\ AnswerOf(parts[c], Snapshot(c, r), request.limit)
  /\ parts[c].pc = "check" /\ parts[c].more /\ parts[c].last = 0 /\ Paging =>
       Cardinality(items) >= request.limit

\* A page that is being made: no key twice, each goroutine as far as its cursor,
\* and the clusters without one are done.
PartsInv ==
  phase = "listing" /\ straight =>
    /\ got \cap items = {}
    /\ DOMAIN parts \subseteq request.scope
    /\ \A k \in items : Home[k] \in DOMAIN parts
    /\ \A c \in request.scope : c \notin DOMAIN parts =>
         Covered(got, c, MaxKey, request.sel, May(c), Must(c))
    /\ \A c \in DOMAIN parts : CoverInv(c) /\ RevInv(c) /\ AnswerInv(c)
    /\ tokens # << >> => \A c \in DOMAIN parts : tokens[c + 1].cluster = c

\* A token that names no cluster, of a list that has others than the system
\* cluster: it will be refused.
Refused == Len(tokens) = 1 /\ tokens[1].rev = -1 /\ request.scope # {0}

\* The token of a cluster is as far as the pages have got.
TokensGood ==
  /\ \A c, r : \A i \in DOMAIN tokens : tokens[i].cluster = c /\ tokens[i].rev = r =>
       /\ c \in request.scope
       /\ Covered(got, c, tokens[i].last, request.sel, May(c), Must(c))
       /\ r > 0 => AtMoment(c, r)
  /\ \A c \in request.scope :
       (\A i \in DOMAIN tokens : tokens[i].cluster # c) =>
         Covered(got, c, MaxKey, request.sel, May(c), Must(c))

TokensInv ==
  straight /\ tokens # << >> /\ phase \in {"listing", "paging", "expired"} =>
    \/ phase # "listing" /\ Refused
    \/ TokensGood

GotInv ==
  straight =>
    /\ twice = {} /\ \A k \in got : Home[k] \in request.scope
    /\ phase = "idle" => got = {}
    /\ phase = "done" => \A c \in request.scope :
         Covered(got, c, MaxKey, request.sel, May(c), Must(c))

FindInv == PartsInv /\ TokensInv /\ GotInv

\* Later moments only add to what may be, and take from what must.
LEMMA CoveredGrows ==
  ASSUME NEW G, NEW c, NEW cur, NEW sel, NEW may, NEW must, NEW may2, NEW must2,
         Covered(G, c, cur, sel, may, must), may \subseteq may2, must2 \subseteq must
  PROVE  Covered(G, c, cur, sel, may2, must2)
BY DEF Covered

\* Keys of other clusters do not matter.
LEMMA CoveredSame ==
  ASSUME NEW G, NEW H, NEW c, NEW cur, NEW sel, NEW may, NEW must,
         Covered(G, c, cur, sel, may, must),
         \A k \in Keys : Home[k] = c => (k \in G <=> k \in H)
  PROVE  Covered(H, c, cur, sel, may, must)
BY DEF Covered

\* Nothing is before the first key.
LEMMA CoveredNone ==
  ASSUME NEW c, NEW sel, NEW may, NEW must
  PROVE  Covered({}, c, 0, sel, may, must)
BY KeyAssumption DEF Covered, Keys

\* The moments of a list are in the log; the newest is one, unless the list is
\* for an older one; the revision asked for is one.
MomentsGood ==
  /\ Moments \subseteq 0 .. Len(log) /\ Moments # {}
  /\ request.rev = 0 \/ ~consistent => Len(log) \in Moments
  /\ request.rev > 0 => request.rev \in Moments
  /\ \A c : \A m \in Moments : m > 0 => AtMoment(c, m)

\* It has a moment, and every moment is one at which it may show its clusters.
LEMMA MomentsFacts == TypeInv => MomentsGood
<1> SUFFICES ASSUME TypeInv
             PROVE  MomentsGood
  OBVIOUS
<1>1. /\ request.rev \in 0 .. Len(log) /\ (request.rev = 0 \/ request.rev = began)
      /\ began \in 0 .. Len(log) /\ Len(log) \in Nat
  BY LenProperties DEF TypeInv, StoreInv, RequestInv, RequestTypeOf, ClientType
<1>2. Moments \subseteq 0 .. Len(log) /\ Moments # {}
      /\ (request.rev = 0 \/ ~consistent => Len(log) \in Moments)
      /\ (request.rev > 0 => request.rev \in Moments)
  <2>1. CASE request.rev > 0 /\ consistent
    <3>1. Moments = {request.rev}
      BY <2>1 DEF Moments
    <3>2. QED
      BY <1>1, <2>1, <3>1
  <2>2. CASE ~(request.rev > 0 /\ consistent)
    <3>1. Moments = began .. Len(log)
      BY <2>2 DEF Moments
    <3>2. Len(log) \in Moments /\ began \in Moments /\ Moments \subseteq 0 .. Len(log)
      BY <1>1, <3>1
    <3>3. QED
      BY <1>1, <3>2
  <2>3. QED
    BY <2>1, <2>2
<1>3. ASSUME NEW c, NEW m \in Moments, m > 0
      PROVE  AtMoment(c, m)
  <2>1. m \in 1 .. Len(log)
    BY <1>1, <1>2, <1>3
  <2>2. Must(c) \subseteq Snapshot(c, m)
    BY <1>3, Zenon DEF Must
  <2>3. Snapshot(c, m) \subseteq May(c)
    <3>1. Snapshot(c, m) \subseteq Keys
      BY DEF Snapshot
    <3>2. QED
      BY <1>3, <3>1, Zenon DEF May
  <2>4. QED
    BY <2>1, <2>2, <2>3 DEF AtMoment
<1>4. QED
  BY <1>2, <1>3 DEF MomentsGood

\* The same of the next state
LEMMA MomentsNext == TypeInv' => MomentsGood'
BY MomentsFacts, PTL

\* While a list goes on its moments stay moments.
Later ==
  /\ LogGrows /\ UNCHANGED <<request, began>>
  /\ consistent' => consistent

\* Moments only add: what may be there grows, what must be there shrinks.
LEMMA MomentsGrow ==
  ASSUME TypeInv, TypeInv', Later
  PROVE  /\ Moments \subseteq Moments'
         /\ \A c : May(c) \subseteq May(c)' /\ Must(c)' \subseteq Must(c)
         /\ \A c, r : AtMoment(c, r) => AtMoment(c, r)'
<1>1. /\ request.rev \in 0 .. Len(log) /\ (request.rev = 0 \/ request.rev = began)
      /\ began \in 0 .. Len(log) /\ Len(log) \in Nat /\ Len(log') \in Nat
      /\ Len(log) <= Len(log') /\ request' = request /\ began' = began
      /\ consistent \in BOOLEAN /\ consistent' \in BOOLEAN /\ (consistent' => consistent)
  BY LenProperties DEF TypeInv, StoreInv, RequestInv, RequestTypeOf, ClientType, Later, LogGrows
<1>2. Moments \subseteq Moments'
  <2>1. CASE request.rev > 0 /\ consistent
    <3>1. Moments = {request.rev}
      BY <2>1 DEF Moments
    <3>2. CASE consistent'
      <4>1. Moments' = {request.rev}
        BY <1>1, <2>1, <3>2 DEF Moments
      <4>2. QED
        BY <3>1, <4>1
    <3>3. CASE ~consistent'
      <4>1. Moments' = began .. Len(log')
        BY <1>1, <3>3 DEF Moments
      <4>2. request.rev \in began .. Len(log')
        BY <1>1, <2>1
      <4>3. QED
        BY <3>1, <4>1, <4>2
    <3>4. QED
      BY <3>2, <3>3
  <2>2. CASE ~(request.rev > 0 /\ consistent)
    <3>1. Moments = began .. Len(log)
      BY <2>2 DEF Moments
    <3>2. Moments' = began .. Len(log')
      BY <1>1, <2>2 DEF Moments
    <3>3. QED
      BY <1>1, <3>1, <3>2
  <2>3. QED
    BY <2>1, <2>2
<1>3. \A c, r : r \in 0 .. Len(log) => Snapshot(c, r)' = Snapshot(c, r)
  BY SnapshotStable DEF Later
<1>4. Moments \subseteq 0 .. Len(log)
  BY MomentsFacts DEF MomentsGood
<1>5. ASSUME NEW c PROVE May(c) \subseteq May(c)' /\ Must(c)' \subseteq Must(c)
  <2>1. \A m \in Moments : m \in Moments' /\ Snapshot(c, m)' = Snapshot(c, m)
    BY <1>2, <1>3, <1>4
  <2>2. May(c) \subseteq May(c)'
    BY <2>1, Zenon DEF May
  <2>3. Must(c)' \subseteq Must(c)
    BY <2>1, Zenon DEF Must
  <2>4. QED
    BY <2>2, <2>3
<1>6. ASSUME NEW c, NEW r, AtMoment(c, r) PROVE AtMoment(c, r)'
  <2>1. r \in 1 .. Len(log) /\ r \in 0 .. Len(log) /\ r \in 1 .. Len(log')
    BY <1>1, <1>6 DEF AtMoment
  <2>2. Snapshot(c, r)' = Snapshot(c, r)
    BY <1>3, <2>1
  <2>3. QED
    BY <1>5, <1>6, <2>1, <2>2 DEF AtMoment
<1>7. QED
  BY <1>2, <1>5, <1>6

\* A goroutine that does nothing keeps what it has, whatever the others append.
LEMMA PartKept ==
  ASSUME TypeInv, TypeInv', Later, NEW d, parts'[d] = parts[d], got' = got,
         items \subseteq items', \A k \in items' : k \in items \/ Home[k] # d,
         CoverInv(d), RevInv(d), AnswerInv(d)
  PROVE  CoverInv(d)' /\ RevInv(d)' /\ AnswerInv(d)'
<1>1. /\ May(d) \subseteq May(d)' /\ Must(d)' \subseteq Must(d) /\ request' = request
      /\ LogGrows /\ \A r : AtMoment(d, r) => AtMoment(d, r)'
  BY MomentsGrow DEF Later
<1>2. CoverInv(d)'
  <2>1. Covered(got \cup items, d, Cursor(parts[d]), request.sel, May(d)', Must(d)')
    BY <1>1, CoveredGrows DEF CoverInv
  <2>2. \A k \in Keys : Home[k] = d => (k \in got \cup items <=> k \in got' \cup items')
    OBVIOUS
  <2>3. Covered(got' \cup items', d, Cursor(parts[d]), request.sel, May(d)', Must(d)')
    BY <2>1, <2>2, CoveredSame
  <2>4. QED
    BY <1>1, <2>3 DEF CoverInv
<1>3. RevInv(d)'
  BY <1>1, Zenon DEF RevInv, Later
<1>4. AnswerInv(d)'
  <2>1. parts'[d].pc = "take" =>
          \E r \in 1 .. Len(log') :
            AtMoment(d, r)' /\ AnswerOf(parts'[d], Snapshot(d, r)', request'.limit)
    <3>1. SUFFICES ASSUME parts[d].pc = "take"
                   PROVE  \E r \in 1 .. Len(log') :
                            AtMoment(d, r)' /\ AnswerOf(parts[d], Snapshot(d, r)', request.limit)
      BY <1>1
    <3>2. PICK r \in 1 .. Len(log) :
            AtMoment(d, r) /\ AnswerOf(parts[d], Snapshot(d, r), request.limit)
      BY <3>1, Zenon DEF AnswerInv
    <3>3. r \in 0 .. Len(log) /\ r \in 1 .. Len(log')
      BY <1>1, <3>2, LenProperties DEF LogGrows
    <3>4. Snapshot(d, r)' = Snapshot(d, r)
      BY <1>1, <3>3, SnapshotStable
    <3>5. QED
      BY <1>1, <3>2, <3>3, <3>4
  <2>2. parts'[d].pc = "check" /\ parts'[d].more /\ parts'[d].last = 0 /\ Paging' =>
          Cardinality(items') >= request'.limit
    <3>1. SUFFICES ASSUME parts[d].pc = "check" /\ parts[d].more /\ parts[d].last = 0 /\ Paging
                   PROVE  Cardinality(items') >= request.limit
      BY <1>1, Zenon DEF Paging
    <3>2. Cardinality(items) >= request.limit
      BY <3>1, Zenon DEF AnswerInv
    <3>3. items' \in SUBSET Keys /\ items \in SUBSET Keys
      BY DEF TypeInv, PageInv
    <3>4. IsFiniteSet(items') /\ Cardinality(items') \in Nat /\ Cardinality(items) \in Nat
      BY <3>3, KeysFinite
    <3>5. Cardinality(items) <= Cardinality(items')
      BY <3>4, FS_Subset
    <3>6. request.limit \in Nat
      BY PageAssumption DEF TypeInv, RequestInv, RequestTypeOf
    <3>7. QED
      BY <3>2, <3>4, <3>5, <3>6
  <2>3. parts'[d].pc \in {"get", "take"} => parts'[d].last = 0 \/ parts'[d].last = parts'[d].start
    BY DEF AnswerInv
  <2>4. QED
    BY <2>1, <2>2, <2>3, Zenon DEF AnswerInv
<1>5. QED
  BY <1>2, <1>3, <1>4

\* The tokens of the last page, and what was got with them, stay good.
LEMMA TokensKept ==
  ASSUME TypeInv, TypeInv', Later, UNCHANGED <<tokens, got>>, TokensGood
  PROVE  TokensGood'
<1>1. /\ request' = request
      /\ \A c : May(c) \subseteq May(c)' /\ Must(c)' \subseteq Must(c)
      /\ \A c, r : AtMoment(c, r) => AtMoment(c, r)'
  BY MomentsGrow DEF Later
<1>2. \A c, cur : Covered(got, c, cur, request.sel, May(c), Must(c)) =>
                   Covered(got', c, cur, request'.sel, May(c)', Must(c)')
  BY <1>1, CoveredGrows
<1>3. QED
  BY <1>1, <1>2, Zenon DEF TokensGood

\* A page goes on: what is got already, and the clusters that are done, stay.
LEMMA PageGoesOn ==
  ASSUME TypeInv, TypeInv', FindInv, Later, UNCHANGED <<tokens, got, twice, straight, phase>>,
         DOMAIN parts' = DOMAIN parts, items \subseteq items',
         phase = "listing" /\ straight =>
           /\ got \cap items' = {} /\ \A k \in items' : Home[k] \in DOMAIN parts
           /\ \A c \in DOMAIN parts : CoverInv(c)' /\ RevInv(c)' /\ AnswerInv(c)'
  PROVE  FindInv'
<1>1. /\ request' = request
      /\ \A c : May(c) \subseteq May(c)' /\ Must(c)' \subseteq Must(c)
  BY MomentsGrow DEF Later
<1>2. \A c, cur : Covered(got, c, cur, request.sel, May(c), Must(c)) =>
                   Covered(got', c, cur, request'.sel, May(c)', Must(c)')
  BY <1>1, CoveredGrows
<1>3. GotInv'
  BY <1>1, <1>2, Zenon DEF FindInv, GotInv
<1>4. TokensInv'
  <2>1. TokensGood => TokensGood'
    BY TokensKept
  <2>2. Refused => Refused'
    BY <1>1, Zenon DEF Refused
  <2>3. QED
    BY <2>1, <2>2, Zenon DEF FindInv, TokensInv
<1>5. PartsInv'
  <2>1. SUFFICES ASSUME phase = "listing", straight PROVE PartsInv'
    BY Zenon DEF PartsInv
  <2>2. PartsInv
    BY DEF FindInv
  <2>3. /\ DOMAIN parts \subseteq request.scope
        /\ \A c \in request.scope : c \notin DOMAIN parts =>
             Covered(got, c, MaxKey, request.sel, May(c), Must(c))
        /\ tokens # << >> => \A c \in DOMAIN parts : tokens[c + 1].cluster = c
    BY <2>1, <2>2, Zenon DEF PartsInv
  <2>4. \A c \in request'.scope : c \notin DOMAIN parts' =>
             Covered(got', c, MaxKey, request'.sel, May(c)', Must(c)')
    BY <1>1, <1>2, <2>3, Zenon
  <2>5. /\ got' \cap items' = {}
        /\ \A k \in items' : Home[k] \in DOMAIN parts'
        /\ \A c \in DOMAIN parts' : CoverInv(c)' /\ RevInv(c)' /\ AnswerInv(c)'
    BY <2>1, Zenon
  <2>6. DOMAIN parts' \subseteq request'.scope
    BY <1>1, <2>3
  <2>7. tokens' # << >> => \A c \in DOMAIN parts' : tokens'[c + 1].cluster = c
    BY <2>3, Zenon
  <2>8. QED
    BY <2>4, <2>5, <2>6, <2>7, Zenon DEF PartsInv
<1>6. QED
  BY <1>3, <1>4, <1>5 DEF FindInv

\* Writes and compactions
LEMMA QuietFind ==
  ASSUME TypeInv, TypeInv', FindInv, LogGrows,
         UNCHANGED <<phase, request, parts, items, tokens, got, twice, began, straight, consistent>>
  PROVE  FindInv'
<1>1. Later
  BY Zenon DEF Later
<1>2. ASSUME phase = "listing", straight
      PROVE  /\ got \cap items' = {} /\ \A k \in items' : Home[k] \in DOMAIN parts
             /\ \A c \in DOMAIN parts : CoverInv(c)' /\ RevInv(c)' /\ AnswerInv(c)'
  <2>1. PartsInv
    BY DEF FindInv
  <2>2. /\ got \cap items = {} /\ \A k \in items : Home[k] \in DOMAIN parts
        /\ \A c \in DOMAIN parts : CoverInv(c) /\ RevInv(c) /\ AnswerInv(c)
    BY <1>2, <2>1, Zenon DEF PartsInv
  <2>3. ASSUME NEW c \in DOMAIN parts PROVE CoverInv(c)' /\ RevInv(c)' /\ AnswerInv(c)'
    <3>1. CoverInv(c) /\ RevInv(c) /\ AnswerInv(c)
      BY <2>2
    <3>2. /\ parts'[c] = parts[c] /\ got' = got /\ items \subseteq items'
          /\ \A k \in items' : k \in items \/ Home[k] # c
      OBVIOUS
    <3>3. QED
      BY <1>1, <3>1, <3>2, PartKept
  <2>4. QED
    BY <2>2, <2>3
<1>3. items \subseteq items' /\ DOMAIN parts' = DOMAIN parts
  OBVIOUS
<1>4. QED
  BY <1>1, <1>2, <1>3, PageGoesOn

\* A list without token: every cluster from its first key
Fresh ==
  /\ phase = "listing" /\ parts = [c \in request.scope |-> Part(request.rev, 0)]
  /\ tokens = << >> /\ items = {} /\ (straight => got = {} /\ twice = {})

\* A list that starts has nothing, up to no key.
LEMMA FreshFind == TypeInv /\ Fresh => FindInv
<1> SUFFICES ASSUME TypeInv, Fresh, straight
             PROVE  FindInv
  BY Zenon DEF FindInv, PartsInv, TokensInv, GotInv
<1>1. /\ request.rev \in 0 .. Len(log) /\ Len(log) \in Nat /\ 0 \in 0 .. MaxKey
      /\ DOMAIN parts = request.scope
  BY KeyAssumption, LenProperties DEF TypeInv, StoreInv, RequestInv, RequestTypeOf, Fresh
<1>2. MomentsGood
  BY MomentsFacts
<1>3. ASSUME NEW c \in DOMAIN parts
      PROVE  CoverInv(c) /\ RevInv(c) /\ AnswerInv(c)
  <2>1. parts[c] = Part(request.rev, 0)
    BY <1>1 DEF Fresh
  <2>2. /\ parts[c].pc = "get" /\ parts[c].rev = request.rev
        /\ parts[c].returned = request.rev /\ parts[c].start = 0 /\ parts[c].last = 0
    BY <1>1, <2>1, PartFacts
  <2>3. CoverInv(c)
    <3>1. Cursor(parts[c]) = 0
      BY <2>2 DEF Cursor
    <3>2. got \cup items = {}
      BY DEF Fresh
    <3>3. QED
      BY <3>1, <3>2, CoveredNone DEF CoverInv
  <2>4. RevInv(c)
    <3>1. request.rev > 0 => AtMoment(c, request.rev)
      BY <1>2 DEF MomentsGood
    <3>2. QED
      BY <2>2, <3>1 DEF RevInv
  <2>5. AnswerInv(c)
    BY <2>2 DEF AnswerInv
  <2>6. QED
    BY <2>3, <2>4, <2>5
<1>4. PartsInv
  <2>1. got = {} /\ items = {} /\ tokens = << >>
    BY DEF Fresh
  <2>2. QED
    BY <1>1, <1>3, <2>1 DEF PartsInv
<1>5. TokensInv /\ GotInv
  BY DEF TokensInv, GotInv, Fresh
<1>6. QED
  BY <1>4, <1>5 DEF FindInv

\* The same of the next state
LEMMA FreshNext == TypeInv' /\ Fresh' => FindInv'
BY FreshFind, PTL

\* Nothing is listed initially.
LEMMA FindInit == ASSUME Init PROVE FindInv
BY DEF Init, FindInv, PartsInv, TokensInv, GotInv

\* A list of an idle client starts with nothing.
LEMMA ListFresh ==
  ASSUME TypeInv, FindInv, NEW scope \in getClientsFromKey, NEW sel \in Selections,
         NEW limit \in {0, Limit}, NEW r \in {0, Len(log)}, List(scope, sel, limit, r)
  PROVE  Fresh'
<1>1. /\ request' = [scope |-> scope, sel |-> sel, limit |-> limit, rev |-> r]
      /\ parts' = [c \in scope |-> Part(r, 0)]
      /\ items' = {} /\ phase' = "listing" /\ phase = "idle"
      /\ UNCHANGED <<tokens, got, twice, straight>>
  BY DEF List
<1>2. tokens = << >> /\ (straight => got = {} /\ twice = {})
  BY <1>1 DEF TypeInv, TokensType, FindInv, GotInv
<1>3. request'.scope = scope /\ request'.rev = r
  BY <1>1
<1>4. QED
  BY <1>1, <1>2, <1>3 DEF Fresh

\* List keeps FindInv.
LEMMA ListFind ==
  ASSUME TypeInv, TypeInv', FindInv, NEW scope \in getClientsFromKey, NEW sel \in Selections,
         NEW limit \in {0, Limit}, NEW r \in {0, Len(log)}, List(scope, sel, limit, r)
  PROVE  FindInv'
BY ListFresh, FreshNext

\* A full list starts again with nothing.
LEMMA FullFind ==
  ASSUME TypeInv, TypeInv', FullList
  PROVE  FindInv'
<1>1. Fresh'
  BY FullEffect DEF Fresh
<1>2. QED
  BY <1>1, FreshNext

\* A log that does not change does not lose anything.
LEMMA SameLog == ASSUME TypeInv, log' = log PROVE LogGrows
BY LenProperties DEF TypeInv, StoreInv, LogGrows

\* The client that goes on keeps the token it got.
LEMMA GoOnFind ==
  ASSUME TypeInv, TypeInv', FindInv, GoOnInconsistently
  PROVE  FindInv'
<1>1. /\ phase = "expired" /\ phase' = "paging"
      /\ UNCHANGED <<log, request, began, tokens, got, twice, straight, consistent>>
  BY DEF GoOnInconsistently, storageVars, clientVars
<1>2. Later
  BY <1>1, SameLog, Zenon DEF Later
<1>3. PartsInv'
  BY <1>1 DEF PartsInv
<1>4. GotInv'
  BY <1>1, Zenon DEF FindInv, GotInv
<1>5. TokensInv'
  <2>1. TokensGood => TokensGood'
    BY <1>1, <1>2, TokensKept
  <2>2. Refused => Refused'
    BY <1>1, Zenon DEF Refused
  <2>3. QED
    BY <1>1, <2>1, <2>2 DEF FindInv, TokensInv
<1>6. QED
  BY <1>3, <1>4, <1>5 DEF FindInv

-----------------------------------------------------------------------------
\* What KV.Get answers: the first keys after `start`, and whether there are more
LEMMA GetAnswer ==
  ASSUME TypeInv, NEW c \in DOMAIN parts, c \in request.scope
  PROVE  AnswerOf(Answered(c), Snapshot(c, GetRev(c)), request.limit)
<1> DEFINE A == GetAll(c)
           R == GetResp(c)
           snap == Snapshot(c, GetRev(c))
           L == request.limit
<1>1. A = {k \in snap : k > parts[c].start} /\ snap \subseteq Keys
  BY DEF GetAll, Snapshot
<1>2. A \in SUBSET Keys /\ {} \in SUBSET Keys /\ L \in Nat
  BY <1>1, TakenFacts
<1>3. R \subseteq A
  BY DEF GetResp
<1>4. CASE Paging
  <2>1. Cardinality({}) = 0
    BY FS_EmptySet
  <2>2. R = TakenOf(A, Keys, {}, L)
    <3>1. \A k : {j \in A \cap Keys : j < k} = {j \in A : j < k}
      BY <1>2
    <3>2. \A k \in A : Cardinality({j \in A : j < k}) \in Nat
      BY <1>2, KeysFinite
    <3>3. ASSUME NEW k \in A
          PROVE  Cardinality({}) + Cardinality({j \in A \cap Keys : j < k})
                   = Cardinality({j \in A : j < k})
      <4> DEFINE n == Cardinality({j \in A : j < k})
                 m == Cardinality({j \in A \cap Keys : j < k})
      <4>1. n \in Nat
        BY <3>2
      <4>2. m = n
        BY <3>1
      <4> HIDE DEF n, m
      <4>3. Cardinality({}) + m = n
        BY <2>1, <4>1, <4>2
      <4>4. QED
        BY <4>3 DEF n, m
    <3>4. QED
      BY <1>4, <3>3, Zenon DEF TakenOf, GetResp
  <2>3. \A k \in A, j \in R : k <= j => k \in R
    BY <1>2, <2>2, TakenClosed
  <2>4. R # A => Cardinality(R) >= L
    <3>1. R # A => Cardinality({} \cup (R \cap Keys)) >= L
      <4>1. R \cap {} = {}
        OBVIOUS
      <4>2. QED
        BY <1>2, <2>2, <4>1, TakenFull
    <3>2. {} \cup (R \cap Keys) = R
      BY <1>2, <1>3
    <3>3. QED
      BY <3>1, <3>2
  <2>5. L > 0
    BY <1>4 DEF Paging
  <2>6. QED
    <3>1. \A k \in A : k \notin R => \A j \in R : j < k
      <4>1. A \subseteq Nat /\ R \subseteq Nat
        BY <1>2, <1>3, KeysAreNumbers
      <4>2. QED
        BY <2>3, <4>1
    <3> HIDE DEF A, R, snap, L
    <3>2. /\ Answered(c).start = parts[c].start /\ Answered(c).resp = R
          /\ Answered(c).more = (R # A)
      BY AnsweredFacts DEF A, R
    <3>3. AnswerOf(Answered(c), snap, L)
      BY <1>1, <1>3, <2>4, <2>5, <3>1, <3>2 DEF AnswerOf
    <3>4. QED
      BY <3>3 DEF snap, L
<1>5. CASE ~Paging
  <2>1. R = A
    BY <1>5 DEF GetResp
  <2> HIDE DEF A, R, snap, L
  <2>2. /\ Answered(c).start = parts[c].start /\ Answered(c).resp = R
        /\ Answered(c).more = (R # A)
    BY AnsweredFacts DEF A, R
  <2>3. AnswerOf(Answered(c), snap, L)
    BY <1>1, <1>3, <2>1, <2>2 DEF AnswerOf
  <2>4. QED
    BY <2>3 DEF snap, L
<1>6. QED
  BY <1>4, <1>5

\* The newest revision is one the list may show, if it is not for an older one.
LEMMA HeaderMoment ==
  ASSUME TypeInv, NEW c \in Clusters, request.rev = 0 \/ ~consistent
  PROVE  AtMoment(c, Header(c))
<1>1. Header(c) \in 1 .. Len(log) /\ Snapshot(c, Header(c)) = Snapshot(c, Len(log))
  BY HeaderFacts DEF TypeInv, StoreInv
<1>2. Len(log) \in Moments /\ \A m \in Moments : m > 0 => AtMoment(c, m)
  BY MomentsFacts DEF MomentsGood
<1>3. Len(log) > 0
  BY <1>1, LenProperties DEF TypeInv, StoreInv
<1>4. AtMoment(c, Len(log))
  BY <1>2, <1>3
<1>5. QED
  BY <1>1, <1>4 DEF AtMoment

\* What the invariant says while there are goroutines
LEMMA PartsFacts ==
  ASSUME TypeInv, FindInv, NEW c \in DOMAIN parts
  PROVE  /\ phase = "listing" /\ c \in Clusters /\ parts[c] \in PartTypeOf(Len(log))
         /\ parts[c].pc \in {"take", "check", "done"} => parts[c].returned > 0
         /\ straight =>
              /\ got \cap items = {} /\ c \in request.scope
              /\ \A k \in items : Home[k] \in DOMAIN parts
              /\ \A d \in DOMAIN parts : CoverInv(d) /\ RevInv(d) /\ AnswerInv(d)
<1>1. phase = "listing"
  BY DEF TypeInv, PartsType
<1>2. c \in Clusters /\ parts[c] \in PartTypeOf(Len(log))
      /\ (parts[c].pc \in {"take", "check", "done"} => parts[c].returned > 0)
  BY DEF TypeInv, PartsType
<1>3. straight =>
        /\ got \cap items = {} /\ DOMAIN parts \subseteq request.scope
        /\ \A k \in items : Home[k] \in DOMAIN parts
        /\ \A d \in DOMAIN parts : CoverInv(d) /\ RevInv(d) /\ AnswerInv(d)
  BY <1>1, Zenon DEF FindInv, PartsInv
<1>4. QED
  BY <1>1, <1>2, <1>3

\* A goroutine that does a step alone changes its own part of the invariant.
LEMMA OneStep ==
  ASSUME TypeInv, TypeInv', FindInv, NEW c \in DOMAIN parts,
         UNCHANGED <<log, request, began, tokens, got, twice, straight, consistent, phase>>,
         NEW p, parts' = [parts EXCEPT ![c] = p], items \subseteq items',
         straight =>
           /\ \A k \in items' : k \in items \/ (Home[k] = c /\ k \notin got)
           /\ CoverInv(c)' /\ RevInv(c)' /\ AnswerInv(c)'
  PROVE  FindInv'
<1>1. Later
  BY SameLog, Zenon DEF Later
<1>2. DOMAIN parts' = DOMAIN parts /\ \A d \in DOMAIN parts : d # c => parts'[d] = parts[d]
  OBVIOUS
<1>3. ASSUME straight
      PROVE  /\ got \cap items' = {} /\ \A k \in items' : Home[k] \in DOMAIN parts
             /\ \A d \in DOMAIN parts : CoverInv(d)' /\ RevInv(d)' /\ AnswerInv(d)'
  <2>1. /\ got \cap items = {} /\ \A k \in items : Home[k] \in DOMAIN parts
        /\ \A d \in DOMAIN parts : CoverInv(d) /\ RevInv(d) /\ AnswerInv(d)
    BY <1>3, PartsFacts
  <2>2. \A k \in items' : k \in items \/ (Home[k] = c /\ k \notin got)
    BY <1>3
  <2>3. got \cap items' = {} /\ \A k \in items' : Home[k] \in DOMAIN parts
    BY <2>1, <2>2
  <2>4. ASSUME NEW d \in DOMAIN parts, d # c
        PROVE  CoverInv(d)' /\ RevInv(d)' /\ AnswerInv(d)'
    <3>1. CoverInv(d) /\ RevInv(d) /\ AnswerInv(d)
      BY <2>1
    <3>2. parts'[d] = parts[d] /\ got' = got /\ \A k \in items' : k \in items \/ Home[k] # d
      BY <1>2, <2>2, <2>4
    <3>3. QED
      BY <1>1, <3>1, <3>2, PartKept
  <2>5. QED
    BY <1>3, <2>3, <2>4
<1>4. QED
  BY <1>1, <1>2, <1>3, PageGoesOn

\* KV.Get keeps FindInv: it moves no cursor, and its answer is of a moment of
\* the list.
LEMMA GetFind ==
  ASSUME TypeInv, TypeInv', FindInv, NEW c \in DOMAIN parts, Get(c)
  PROVE  FindInv'
<1> DEFINE p == parts'[c]
<1>1. /\ parts[c].pc = "get"
      /\ UNCHANGED <<log, phase, request, items, tokens, got, began, twice, straight, consistent>>
  BY GetEffect
<1>2. /\ p = Failing(parts[c], "error") \/ p = Failing(parts[c], "compacted") \/ p = Answered(c)
      /\ parts' = [parts EXCEPT ![c] = p]
  BY GetEffect
<1>3. ASSUME straight
      PROVE  CoverInv(c)' /\ RevInv(c)' /\ AnswerInv(c)'
  <2>1. /\ c \in Clusters /\ c \in request.scope /\ parts[c] \in PartTypeOf(Len(log))
        /\ CoverInv(c) /\ RevInv(c) /\ AnswerInv(c)
    BY <1>3, PartsFacts
  <2>2. /\ p.start = parts[c].start /\ p.rev = parts[c].rev
        /\ p.pc \in {"error", "compacted", "take"}
    BY <1>2, <2>1, FailingFacts, AnsweredFacts
  <2>3. \A r : (AtMoment(c, r) => AtMoment(c, r)') /\ Snapshot(c, r)' = Snapshot(c, r)
    <3>1. Later
      BY <1>1, SameLog, Zenon DEF Later
    <3>2. \A r : AtMoment(c, r) => AtMoment(c, r)'
      BY <3>1, MomentsGrow
    <3>3. \A r : Snapshot(c, r)' = Snapshot(c, r)
      BY <1>1 DEF Snapshot
    <3>4. QED
      BY <3>2, <3>3
  <2>4. May(c)' = May(c) /\ Must(c)' = Must(c)
    BY <1>1 DEF Must, May, Moments, Snapshot
  <2>5. CoverInv(c)'
    <3>1. Cursor(p) = Cursor(parts[c])
      BY <1>1, <2>2 DEF Cursor
    <3>2. QED
      BY <1>1, <2>1, <2>4, <3>1 DEF CoverInv
  <2>6. p.returned = parts[c].returned \/ p = Answered(c)
    BY <1>2, <2>1, FailingFacts
  <2>7. RevInv(c)'
    <3>1. parts[c].returned = 0 => AtMoment(c, Header(c))
      BY <2>1, HeaderMoment DEF RevInv
    <3>2. p.returned = parts[c].returned \/ (parts[c].returned = 0 /\ p.returned = Header(c))
      BY <2>6, AnsweredFacts
    <3>3. p.returned > 0 => AtMoment(c, p.returned)
      BY <2>1, <3>1, <3>2 DEF RevInv
    <3>4. p.rev = 0 \/ p.returned = 0 => request.rev = 0 \/ ~consistent
      BY <2>1, <2>2, <3>2 DEF RevInv
    <3>5. p.rev > 0 => AtMoment(c, p.rev)
      BY <2>1, <2>2 DEF RevInv
    <3>6. QED
      BY <1>1, <2>3, <3>3, <3>4, <3>5 DEF RevInv
  <2>8. AnswerInv(c)'
    <3>1. CASE p = Answered(c)
      <4>1. p.last = parts[c].last /\ p.pc = "take"
        BY <3>1, AnsweredFacts
      <4>2. AtMoment(c, GetRev(c))
        BY <2>1, HeaderMoment DEF RevInv, GetRev, PartTypeOf
      <4>3. GetRev(c) \in 1 .. Len(log)
        BY <4>2 DEF AtMoment
      <4>4. AnswerOf(p, Snapshot(c, GetRev(c)), request.limit)
        BY <2>1, <3>1, GetAnswer
      <4>5. p.last = 0 \/ p.last = p.start
        BY <1>1, <2>1, <2>2, <4>1 DEF AnswerInv
      <4>6. \E r \in 1 .. Len(log') :
              AtMoment(c, r)' /\ AnswerOf(p, Snapshot(c, r)', request'.limit)
        BY <1>1, <2>3, <4>2, <4>3, <4>4
      <4>7. QED
        BY <4>1, <4>5, <4>6 DEF AnswerInv
    <3>2. CASE p # Answered(c)
      <4>1. p.pc \in {"error", "compacted"}
        BY <1>2, <2>1, <3>2, FailingFacts
      <4>2. QED
        BY <4>1 DEF AnswerInv
    <3>3. QED
      BY <3>1, <3>2
  <2>9. QED
    BY <2>5, <2>7, <2>8
<1>4. QED
  <2>1. straight => \A k \in items' : k \in items \/ (Home[k] = c /\ k \notin got)
    BY <1>1
  <2> HIDE DEF p
  <2>2. QED
    BY <1>1, <1>2, <1>3, <2>1, OneStep

\* What is taken is what the cluster has after `start` up to the cursor.
LEMMA TakenPrefix ==
  ASSUME TypeInv, NEW c \in DOMAIN parts, NEW snap \in SUBSET Keys,
         AnswerOf(parts[c], snap, request.limit),
         parts[c].last = 0 \/ parts[c].last = parts[c].start
  PROVE  /\ parts[c].start <= Cursor(Took(c))
         /\ \A k \in Keys : k \in Taken(c) <=>
              k \in snap /\ parts[c].start < k /\ k <= Cursor(Took(c))
<1> DEFINE T == Taken(c)
           R == parts[c].resp
           s == parts[c].start
           cur == Cursor(Took(c))
<1>1. /\ s \in 0 .. MaxKey /\ s \in Nat /\ Keys \subseteq Nat /\ MaxKey \in Nat
      /\ \A k \in Keys : k > 0 /\ k <= MaxKey
  BY KeyAssumption DEF TypeInv, PartsType, PartTypeOf, Keys
<1>2. /\ T \subseteq R /\ R \subseteq Keys
      /\ T # {} => Max(T) \in T /\ \A k \in T : k <= Max(T)
      /\ \A m \in T, k \in R : k <= m => k \in T
  <2>1. /\ T \subseteq R /\ R \in SUBSET Keys /\ request.sel \in SUBSET Keys
        /\ items \in SUBSET Keys /\ request.limit \in Nat
        /\ T # {} => Max(T) \in T /\ \A k \in T : k <= Max(T)
        /\ Paging => T = TakenOf(R, request.sel, items, request.limit)
        /\ ~Paging => T = R
    BY TakenFacts
  <2> HIDE DEF T, R
  <2>2. Paging => \A m \in T, k \in R : k <= m => k \in T
    BY <2>1, TakenClosed
  <2>3. QED
    BY <2>1, <2>2
<1>3. /\ \A k \in R : k \in snap /\ k > s
      /\ \A k \in snap : k \notin R /\ k > s => parts[c].more /\ \A j \in R : j < k
  BY DEF AnswerOf
<1>4. /\ Took(c).pc = "check" /\ Took(c).start = s
      /\ Took(c).last = IF T = {} THEN parts[c].last ELSE Max(T)
      /\ Took(c).more <=> parts[c].more \/ T # R
  BY TookFacts
<1>5. parts[c].last = 0 \/ parts[c].last = s
  OBVIOUS
<1>6. /\ ~Took(c).more => cur = MaxKey
      /\ Took(c).more /\ Took(c).last = 0 => cur = s
      /\ Took(c).more /\ Took(c).last # 0 => cur = Took(c).last
  BY <1>4 DEF Cursor
<1> HIDE DEF T, R, s, cur
<1>7. CASE ~Took(c).more
  <2>1. cur = MaxKey /\ T = R /\ ~parts[c].more
    BY <1>4, <1>6, <1>7
  <2>2. \A k \in snap : k > s => k \in T
    BY <1>3, <2>1
  <2>3. s <= cur
    BY <1>1, <2>1
  <2>4. \A k \in Keys : k \in T <=> k \in snap /\ s < k /\ k <= cur
    BY <1>1, <1>2, <1>3, <2>1, <2>2
  <2>5. QED
    BY <2>3, <2>4 DEF T, s, cur
<1>8. CASE Took(c).more /\ T = {}
  <2>1. cur = s
    BY <1>4, <1>5, <1>6, <1>8
  <2>2. s <= cur /\ \A k \in Keys : ~(s < k /\ k <= cur)
    BY <1>1, <2>1
  <2>3. QED
    BY <1>8, <2>2 DEF T, s, cur
<1>9. CASE Took(c).more /\ T # {}
  <2>1. Max(T) \in T /\ (\A k \in T : k <= Max(T)) /\ Max(T) \in R /\ Max(T) \in Keys
    BY <1>2, <1>9
  <2>2. cur = Max(T)
    BY <1>1, <1>4, <1>6, <1>9, <2>1
  <2>3. s <= cur
    <3>1. cur \in Nat /\ cur > s
      BY <1>1, <1>3, <2>1, <2>2
    <3>2. QED
      BY <1>1, <3>1
  <2>4. ASSUME NEW k \in Keys, k \in snap, s < k, k <= cur
        PROVE  k \in T
    <3>1. k \in R
      <4>1. k > s /\ k \in Nat /\ cur \in Nat /\ cur \in R
        BY <1>1, <2>1, <2>2, <2>4
      <4>2. k \notin R => cur < k
        BY <1>3, <2>4, <4>1
      <4>3. QED
        BY <2>4, <4>1, <4>2
    <3>2. QED
      BY <1>2, <2>1, <2>2, <2>4, <3>1
  <2>5. ASSUME NEW k \in T PROVE k \in snap /\ s < k /\ k <= cur
    <3>1. k \in R /\ k \in Nat /\ k <= cur
      BY <1>1, <1>2, <2>1, <2>2
    <3>2. QED
      BY <1>1, <1>3, <3>1
  <2>6. QED
    BY <2>3, <2>4, <2>5 DEF T, s, cur
<1>10. QED
  BY <1>7, <1>8, <1>9

\* If something is left of a response, or it is empty and not the last one,
\* the list is full.
LEMMA TakeFull ==
  ASSUME TypeInv, NEW c \in DOMAIN parts, NEW snap,
         AnswerOf(parts[c], snap, request.limit), Taken(c) \cap items = {},
         Took(c).more, Taken(c) = {} \/ Taken(c) # parts[c].resp
  PROVE  Paging => Cardinality(items \cup (Taken(c) \cap request.sel)) >= request.limit
<1> SUFFICES ASSUME Paging
             PROVE  Cardinality(items \cup (Taken(c) \cap request.sel)) >= request.limit
  OBVIOUS
<1> DEFINE T == Taken(c)
           R == parts[c].resp
<1>1. /\ T \subseteq R /\ R \in SUBSET Keys /\ request.sel \in SUBSET Keys
      /\ items \in SUBSET Keys /\ request.limit \in Nat
      /\ T = TakenOf(R, request.sel, items, request.limit)
  BY TakenFacts
<1>2. T # R
  <2>1. Took(c).more <=> parts[c].more \/ T # R
    BY TookFacts
  <2>2. parts[c].more => request.limit > 0 /\ Cardinality(R) >= request.limit
    BY DEF AnswerOf
  <2>3. Cardinality({}) = 0
    BY FS_EmptySet
  <2>4. R # {} \/ ~parts[c].more
    BY <1>1, <2>2, <2>3
  <2>5. QED
    BY <2>1, <2>4
<1>3. T \cap items = {}
  OBVIOUS
<1> HIDE DEF T, R
<1>4. Cardinality(items \cup (T \cap request.sel)) >= request.limit
  BY <1>1, <1>2, <1>3, TakenFull
<1>5. QED
  BY <1>4 DEF T

\* What is taken makes a page cover its cluster up to the new cursor, if the
\* response is of a state between what must be there and what may be.
LEMMA TakeCovers ==
  ASSUME TypeInv, NEW c \in DOMAIN parts, NEW snap \in SUBSET Keys, \A k \in snap : Home[k] = c,
         AnswerOf(parts[c], snap, request.limit),
         parts[c].last = 0 \/ parts[c].last = parts[c].start,
         NEW may, NEW must, must \subseteq snap, snap \subseteq may,
         Covered(got \cup items, c, parts[c].start, request.sel, may, must)
  PROVE  /\ Covered(got \cup (items \cup (Taken(c) \cap request.sel)), c, Cursor(Took(c)),
                    request.sel, may, must)
         /\ Taken(c) \cap items = {} /\ Taken(c) \cap got = {} /\ \A k \in Taken(c) : Home[k] = c
<1> DEFINE T == Taken(c)
           s == parts[c].start
           cur == Cursor(Took(c))
           G == got \cup (items \cup (T \cap request.sel))
<1>1. s <= cur /\ \A k \in Keys : k \in T <=> k \in snap /\ s < k /\ k <= cur
  BY TakenPrefix
<1>2. Covered(got \cup items, c, s, request.sel, may, must)
  OBVIOUS
<1>3. T \subseteq Keys /\ s \in Nat /\ Keys \subseteq Nat
  BY TakenFacts, KeyAssumption, KeysAreNumbers DEF TypeInv, PartsType, PartTypeOf
<1>4. cur \in Nat
  BY TookFacts, KeyAssumption DEF Cursor, PartTypeOf
<1>5. T \cap items = {} /\ T \cap got = {} /\ \A k \in T : Home[k] = c
  <2> HIDE DEF s, cur
  <2>1. \A k \in T : k \in Keys /\ Home[k] = c /\ s < k
    BY <1>1, <1>3
  <2>2. \A k \in Keys : Home[k] = c /\ k \in got \cup items => k <= s
    BY <1>2 DEF Covered
  <2>3. ASSUME NEW k \in T PROVE k \notin got \cup items
    <3> HIDE DEF T
    <3>1. k \in Nat /\ s < k /\ s \in Nat /\ (k \in got \cup items => k <= s)
      BY <1>3, <2>1, <2>2, <2>3
    <3>2. QED
      BY <3>1
  <2>4. QED
    BY <2>1, <2>3
<1> HIDE DEF s, cur, T
<1>6. ASSUME NEW k \in Keys, Home[k] = c, k \in G
      PROVE  k <= cur /\ k \in request.sel /\ k \in may
  <2>1. CASE k \in got \cup items
    BY <1>1, <1>2, <1>3, <1>4, <1>6, <2>1 DEF Covered
  <2>2. CASE k \in T /\ k \in request.sel
    BY <1>1, <1>6, <2>2
  <2>3. QED
    BY <1>6, <2>1, <2>2
<1>7. ASSUME NEW k \in Keys, Home[k] = c, k \in request.sel, k <= cur, k \in must
      PROVE  k \in G
  <2>1. CASE k <= s
    BY <1>2, <1>7, <2>1 DEF Covered
  <2>2. CASE k > s
    BY <1>1, <1>7, <2>2
  <2>3. QED
    BY <1>3, <1>7, <2>1, <2>2
<1>8. Covered(G, c, cur, request.sel, may, must)
  <2> HIDE DEF G
  <2>1. QED
    BY <1>6, <1>7 DEF Covered
<1>9. QED
  BY <1>5, <1>8 DEF T, cur

\* Take keeps FindInv: the cursor moves over what is appended.
LEMMA TakeFind ==
  ASSUME TypeInv, TypeInv', FindInv, NEW c \in DOMAIN parts, Take(c)
  PROVE  FindInv'
<1>1. /\ parts[c].pc = "take" /\ parts' = [parts EXCEPT ![c] = Took(c)]
      /\ items' = items \cup (Taken(c) \cap request.sel)
      /\ UNCHANGED <<log, phase, request, tokens, got, began, twice, straight, consistent>>
  BY TakeEffect
<1>2. parts'[c] = Took(c)
  BY <1>1
<1>3. ASSUME straight
      PROVE  /\ \A k \in items' : k \in items \/ (Home[k] = c /\ k \notin got)
             /\ CoverInv(c)' /\ RevInv(c)' /\ AnswerInv(c)'
  <2>1. /\ c \in request.scope /\ CoverInv(c) /\ RevInv(c) /\ AnswerInv(c)
        /\ parts[c] \in PartTypeOf(Len(log))
    BY <1>3, PartsFacts
  <2>2. PICK r \in 1 .. Len(log) :
          AtMoment(c, r) /\ AnswerOf(parts[c], Snapshot(c, r), request.limit)
    BY <1>1, <2>1, Zenon DEF AnswerInv
  <2> DEFINE snap == Snapshot(c, r)
  <2>3. snap \in SUBSET Keys /\ \A k \in snap : Home[k] = c
    BY DEF Snapshot
  <2>4. parts[c].last = 0 \/ parts[c].last = parts[c].start
    BY <1>1, <2>1 DEF AnswerInv
  <2>5. Must(c) \subseteq snap /\ snap \subseteq May(c)
    BY <2>2 DEF AtMoment
  <2>6. Covered(got \cup items, c, parts[c].start, request.sel, May(c), Must(c))
    BY <1>1, <2>1 DEF CoverInv, Cursor
  <2>7. May(c)' = May(c) /\ Must(c)' = Must(c)
    BY <1>1 DEF Must, May, Moments, Snapshot
  <2>8. /\ Covered(got \cup items', c, Cursor(Took(c)), request.sel, May(c), Must(c))
        /\ Taken(c) \cap items = {} /\ Taken(c) \cap got = {} /\ \A k \in Taken(c) : Home[k] = c
    <3> HIDE DEF snap
    <3>1. AnswerOf(parts[c], snap, request.limit)
      BY <2>2 DEF snap
    <3>2. QED
      BY <1>1, <2>3, <2>4, <2>5, <2>6, <3>1, TakeCovers
  <2>9. CoverInv(c)'
    BY <1>1, <1>2, <2>7, <2>8 DEF CoverInv
  <2>10. RevInv(c)'
    <3>1. Later
      BY <1>1, SameLog, Zenon DEF Later
    <3>2. \A q : AtMoment(c, q) => AtMoment(c, q)'
      BY <3>1, MomentsGrow
    <3>3. parts'[c].rev = parts[c].rev /\ parts'[c].returned = parts[c].returned
      BY <1>2, TookFacts
    <3>4. QED
      BY <1>1, <2>1, <3>2, <3>3 DEF RevInv
  <2>11. AnswerInv(c)'
    <3>1. parts'[c].pc = "check"
      BY <1>2, TookFacts
    <3>2. ASSUME parts'[c].more, parts'[c].last = 0, Paging'
          PROVE  Cardinality(items') >= request'.limit
      <4>1. Took(c).more /\ Taken(c) = {}
        <5>1. Took(c).last = IF Taken(c) = {} THEN parts[c].last ELSE Max(Taken(c))
          BY TookFacts
        <5>2. Taken(c) # {} => Max(Taken(c)) \in Taken(c)
          BY TakenFacts
        <5>3. Taken(c) \subseteq Keys /\ \A k \in Keys : k # 0
          BY TakenFacts, KeyAssumption DEF Keys
        <5>4. QED
          BY <1>2, <3>2, <5>1, <5>2, <5>3
      <4>2. Paging
        BY <1>1, <3>2, Zenon DEF Paging
      <4>3. QED
        BY <1>1, <2>2, <2>8, <4>1, <4>2, TakeFull
    <3>3. QED
      BY <3>1, <3>2 DEF AnswerInv
  <2>12. \A k \in items' : k \in items \/ (Home[k] = c /\ k \notin got)
    BY <1>1, <2>8
  <2>13. QED
    BY <2>9, <2>10, <2>11, <2>12
<1>4. items \subseteq items'
  BY <1>1
<1>5. QED
  BY <1>1, <1>3, <1>4, OneStep

\* Check keeps FindInv: the next request starts at the cursor.
LEMMA CheckFind ==
  ASSUME TypeInv, TypeInv', FindInv, NEW c \in DOMAIN parts, Check(c)
  PROVE  FindInv'
<1> DEFINE p == parts'[c]
<1>1. /\ UNCHANGED <<log, phase, request, items, tokens, got, began, twice, straight, consistent>>
      /\ parts' = [parts EXCEPT ![c] = p]
  BY CheckEffect
<1>2. /\ parts[c].pc = "check" /\ p.pc = IF Full(c) THEN "done" ELSE "get"
      /\ p.start = IF Full(c) THEN parts[c].start ELSE parts[c].last
      /\ p.rev = parts[c].rev /\ p.returned = parts[c].returned
      /\ p.last = parts[c].last /\ p.more = parts[c].more
  BY CheckFacts
<1>3. ASSUME straight
      PROVE  CoverInv(c)' /\ RevInv(c)' /\ AnswerInv(c)'
  <2>1. CoverInv(c) /\ RevInv(c) /\ AnswerInv(c)
    BY <1>3, PartsFacts
  <2>2. May(c)' = May(c) /\ Must(c)' = Must(c)
    BY <1>1 DEF Must, May, Moments, Snapshot
  <2>3. Cursor(p) = Cursor(parts[c])
    <3>1. CASE Full(c)
      BY <1>2, <3>1 DEF Cursor
    <3>2. CASE ~Full(c)
      <4>1. parts[c].more /\ Paging /\ ~(Cardinality(items) >= request.limit)
        BY <3>2, Zenon DEF Full
      <4>2. parts[c].last # 0
        BY <1>2, <2>1, <4>1, Zenon DEF AnswerInv
      <4>3. QED
        BY <1>2, <3>2, <4>1, <4>2 DEF Cursor
    <3>3. QED
      BY <3>1, <3>2
  <2>4. CoverInv(c)'
    BY <1>1, <2>1, <2>2, <2>3 DEF CoverInv
  <2>5. RevInv(c)'
    <3>1. Later
      BY <1>1, SameLog, Zenon DEF Later
    <3>2. \A q : AtMoment(c, q) => AtMoment(c, q)'
      BY <3>1, MomentsGrow
    <3>3. QED
      BY <1>1, <1>2, <2>1, <3>2 DEF RevInv
  <2>6. AnswerInv(c)'
    BY <1>2 DEF AnswerInv
  <2>7. QED
    BY <2>4, <2>5, <2>6
<1>4. QED
  <2>1. straight => \A k \in items' : k \in items \/ (Home[k] = c /\ k \notin got)
    BY <1>1
  <2> HIDE DEF p
  <2>2. QED
    BY <1>1, <1>3, <2>1, OneStep

\* Moments depend on the log and the request.
LEMMA SameMoments ==
  ASSUME UNCHANGED <<log, request, began, consistent>>
  PROVE  \A c : /\ May(c)' = May(c) /\ Must(c)' = Must(c)
                /\ \A r : AtMoment(c, r) => AtMoment(c, r)'
<1>1. Moments' = Moments /\ \A c, r : Snapshot(c, r)' = Snapshot(c, r)
  BY DEF Moments, Snapshot
<1>2. \A c : May(c)' = May(c) /\ Must(c)' = Must(c)
  BY <1>1 DEF May, Must
<1>3. QED
  BY <1>1, <1>2 DEF AtMoment

\* A page that ends well: every cluster has a token that is as far as its
\* goroutine, or is done.
LEMMA FinishFind ==
  ASSUME TypeInv, TypeInv', FindInv, NEW order \in SetToSeqs(DOMAIN parts), Finish(order)
  PROVE  FindInv'
<1>1. /\ phase = "listing" /\ \A c \in DOMAIN parts : parts[c].pc = "done"
      /\ UNCHANGED <<log, request, began, straight, consistent>>
      /\ \/ phase' = "failed" /\ UNCHANGED <<tokens, got, twice, rv, firstEnd>>
         \/ EndOfPage
  BY FinishFacts
<1>2. CASE phase' = "failed" /\ UNCHANGED <<tokens, got, twice>>
  BY <1>1, <1>2 DEF FindInv, PartsInv, TokensInv, GotInv
<1>3. CASE EndOfPage
  <2> SUFFICES ASSUME straight PROVE FindInv'
    BY <1>1, Zenon DEF FindInv, PartsInv, TokensInv, GotInv
  <2>1. /\ phase' \in {"paging", "done"} /\ (phase' = "done" <=> tokens' = << >>)
        /\ got' = got \cup items /\ twice' = twice \cup (got \cap items)
        /\ \A i \in DOMAIN tokens' :
             /\ tokens'[i].cluster \in DOMAIN parts
             /\ parts[tokens'[i].cluster].more /\ parts[tokens'[i].cluster].last # 0
             /\ tokens'[i].rev = parts[tokens'[i].cluster].returned
             /\ tokens'[i].last = parts[tokens'[i].cluster].last
        /\ \A c \in DOMAIN parts : parts[c].more => \E i \in DOMAIN tokens' : tokens'[i].cluster = c
    BY <1>3, Zenon DEF EndOfPage
  <2>2. /\ got \cap items = {} /\ DOMAIN parts \subseteq request.scope
        /\ \A k \in items : Home[k] \in DOMAIN parts
        /\ \A c \in request.scope : c \notin DOMAIN parts =>
             Covered(got, c, MaxKey, request.sel, May(c), Must(c))
        /\ \A c \in DOMAIN parts : CoverInv(c) /\ RevInv(c)
    BY <1>1, Zenon DEF FindInv, PartsInv
  <2>3. twice = {} /\ \A k \in got : Home[k] \in request.scope
    BY DEF FindInv, GotInv
  <2>4. \A c : /\ May(c)' = May(c) /\ Must(c)' = Must(c)
               /\ \A r : AtMoment(c, r) => AtMoment(c, r)'
    BY <1>1, SameMoments
  <2>5. ASSUME NEW c \in request.scope, c \in DOMAIN parts => ~parts[c].more
        PROVE  Covered(got', c, MaxKey, request'.sel, May(c)', Must(c)')
    <3>1. CASE c \in DOMAIN parts
      <4>1. Cursor(parts[c]) = MaxKey
        BY <1>1, <2>5, <3>1 DEF Cursor
      <4>2. QED
        BY <1>1, <2>1, <2>2, <2>4, <3>1, <4>1 DEF CoverInv
    <3>2. CASE c \notin DOMAIN parts
      <4>1. Covered(got, c, MaxKey, request.sel, May(c), Must(c))
        BY <2>2, <3>2
      <4>2. \A k \in Keys : Home[k] = c => (k \in got <=> k \in got')
        BY <2>1, <2>2, <3>2
      <4>3. Covered(got', c, MaxKey, request.sel, May(c), Must(c))
        BY <4>1, <4>2, CoveredSame
      <4>4. QED
        BY <1>1, <2>4, <4>3
    <3>3. QED
      BY <3>1, <3>2
  <2>6. TokensGood'
    <3>1. ASSUME NEW c, NEW r, NEW i \in DOMAIN tokens', tokens'[i].cluster = c, tokens'[i].rev = r
          PROVE  /\ c \in request'.scope
                 /\ Covered(got', c, tokens'[i].last, request'.sel, May(c)', Must(c)')
                 /\ r > 0 => AtMoment(c, r)'
      <4>1. /\ c \in DOMAIN parts /\ parts[c].more /\ parts[c].last # 0
            /\ r = parts[c].returned /\ tokens'[i].last = parts[c].last
        BY <2>1, <3>1
      <4>2. Cursor(parts[c]) = parts[c].last
        BY <1>1, <4>1 DEF Cursor
      <4>3. CoverInv(c) /\ RevInv(c) /\ c \in request.scope
        BY <2>2, <4>1
      <4>4. Covered(got', c, parts[c].last, request'.sel, May(c)', Must(c)')
        BY <1>1, <2>1, <2>4, <4>2, <4>3 DEF CoverInv
      <4>5. r > 0 => AtMoment(c, r)
        BY <4>1, <4>3 DEF RevInv
      <4>6. QED
        BY <1>1, <2>4, <4>1, <4>3, <4>4, <4>5
    <3>2. ASSUME NEW c \in request'.scope, \A i \in DOMAIN tokens' : tokens'[i].cluster # c
          PROVE  Covered(got', c, MaxKey, request'.sel, May(c)', Must(c)')
      BY <1>1, <2>1, <2>5, <3>2
    <3>3. QED
      BY <3>1, <3>2, Zenon DEF TokensGood
  <2>7. TokensInv' /\ PartsInv'
    BY <2>1, <2>6 DEF TokensInv, PartsInv
  <2>8. GotInv'
    <3>1. twice' = {}
      BY <2>1, <2>2, <2>3
    <3>2. \A k \in got' : Home[k] \in request'.scope
      BY <1>1, <2>1, <2>2, <2>3
    <3>3. ASSUME phase' = "done", NEW c \in request'.scope
          PROVE  Covered(got', c, MaxKey, request'.sel, May(c)', Must(c)')
      <4>1. DOMAIN tokens' = {}
        BY <2>1, <3>3, EmptySeq
      <4>2. QED
        BY <1>1, <2>1, <2>5, <3>3, <4>1
    <3>4. QED
      BY <2>1, <3>1, <3>2, <3>3 DEF GotInv
  <2>9. QED
    BY <2>7, <2>8 DEF FindInv
<1>4. QED
  BY <1>1, <1>2, <1>3

\* A token that is too old is of the system cluster, which the new one stands
\* for, or the new one will be refused.
LEMMA ErrorFind ==
  ASSUME TypeInv, TypeInv', FindInv, NEW c \in DOMAIN parts, ListError(c)
  PROVE  FindInv'
<1>1. /\ phase = "listing"
      /\ UNCHANGED <<log, request, got, began, twice, straight, consistent>>
      /\ \/ phase' = "failed" /\ UNCHANGED tokens
         \/ /\ phase' = "expired" /\ tokens # << >>
            /\ tokens' = <<Token(0, -1, tokens[c + 1].last)>>
  BY ErrorEffect
<1>2. GotInv' /\ PartsInv'
  BY <1>1 DEF FindInv, GotInv, PartsInv
<1>3. CASE phase' = "failed"
  BY <1>2, <1>3 DEF FindInv, TokensInv
<1>4. CASE /\ phase' = "expired" /\ tokens # << >>
           /\ tokens' = <<Token(0, -1, tokens[c + 1].last)>>
  <2> SUFFICES ASSUME straight PROVE TokensInv'
    BY <1>1, <1>2, Zenon DEF FindInv, TokensInv
  <2>1. c + 1 \in DOMAIN tokens /\ tokens \in Seq(TokenTypeOf(Len(log)))
    BY <1>4 DEF TypeInv, PartsType, TokensType
  <2>2. tokens[c + 1].last \in Keys
    <3>1. tokens[c + 1] \in TokenTypeOf(Len(log))
      BY <2>1, ElementOfSeq, LenProperties
    <3>2. QED
      BY <3>1 DEF TokenTypeOf
  <2>3. /\ DOMAIN tokens' = {1} /\ Len(tokens') = 1 /\ tokens'[1].cluster = 0
        /\ tokens'[1].rev = -1 /\ tokens'[1].last = tokens[c + 1].last
    BY <1>4, <2>2, ExpiredToken, 0 \in Nat
  <2>4. CASE request.scope # {0}
    BY <1>1, <2>3, <2>4, <1>4 DEF TokensInv, Refused
  <2>5. CASE request.scope = {0}
    <3>1. c = 0 /\ tokens[c + 1].cluster = c
      BY <1>1, <1>4, <2>5 DEF FindInv, PartsInv
    <3>2. TokensGood
      BY <1>1, <1>4 DEF FindInv, TokensInv
    <3>3. Covered(got, 0, tokens'[1].last, request.sel, May(0), Must(0))
      BY <2>1, <2>3, <3>1, <3>2, Zenon DEF TokensGood
    <3>4. May(0)' = May(0) /\ Must(0)' = Must(0)
      BY <1>1, SameMoments
    <3>5. Covered(got', 0, tokens'[1].last, request'.sel, May(0)', Must(0)')
      BY <1>1, <3>3, <3>4
    <3>6. TokensGood'
      BY <1>1, <2>3, <2>5, <3>5 DEF TokensGood
    <3>7. QED
      BY <3>6, Zenon DEF TokensInv
  <2>6. QED
    BY <2>4, <2>5
<1>5. QED
  BY <1>1, <1>3, <1>4

\* The next page goes on from the tokens, each of which is of its cluster if the
\* list is still straight; a token for all clusters is for the system cluster.
LEMMA ContinueFind ==
  ASSUME TypeInv, TypeInv', FindInv, Continue
  PROVE  FindInv'
<1> DEFINE C == ContinueClusters
           ok == \A c \in C : c \in Clusters /\ c < Len(tokens)
<1>1. /\ phase = "paging" /\ items' = {}
      /\ UNCHANGED <<log, request, tokens, got, began, twice>>
  BY DEF Continue, storageVars, clientVars
<1>2. ok => /\ parts' = [c \in C |-> Part(TokenRev(c), tokens[c + 1].last)]
            /\ phase' = "listing"
            /\ straight' = (straight /\ \A c \in C : tokens[c + 1].cluster = c)
            /\ consistent' = (consistent /\ \A c \in C : tokens[c + 1].rev > 0)
  BY Zenon DEF Continue, TokenRev
<1>3. ~ok => phase' = "failed" /\ UNCHANGED <<straight, consistent>>
  BY Zenon DEF Continue
<1>4. straight' => straight
  <2> HIDE DEF C
  <2>1. CASE ok
    BY <1>2, <2>1
  <2> HIDE DEF ok
  <2>2. CASE ~ok
    BY <1>3, <2>2
  <2>3. QED
    BY <2>1, <2>2
<1>5. CASE ~ok
  <2> HIDE DEF ok
  <2>1. phase' = "failed" /\ straight' = straight
    BY <1>3, <1>5
  <2>2. QED
    BY <1>1, <2>1 DEF FindInv, PartsInv, TokensInv, GotInv
<1>6. CASE ok /\ ~straight'
  BY <1>6 DEF FindInv, PartsInv, TokensInv, GotInv
<1>7. CASE ok /\ straight'
  <2>1. /\ straight /\ \A c \in C : tokens[c + 1].cluster = c
        /\ consistent' => consistent /\ \A c \in C : tokens[c + 1].rev > 0
        /\ phase' = "listing" /\ parts' = [c \in C |-> Part(TokenRev(c), tokens[c + 1].last)]
        /\ DOMAIN parts' = C
    <3> HIDE DEF ok, C
    <3>1. QED
      BY <1>2, <1>7
  <2>2. /\ Len(tokens) \in Nat /\ DOMAIN tokens = 1 .. Len(tokens) /\ Len(log) \in Nat
        /\ tokens # << >> /\ request.scope # {} /\ Clusters \subseteq Nat
    BY <1>1, LenProperties, KeyAssumption DEF TypeInv, TokensType, RequestInv, StoreInv
  <2>3. \A c \in C : c \in Clusters /\ c \in Nat /\ c < Len(tokens) /\ c + 1 \in DOMAIN tokens
    <3> HIDE DEF C
    <3>1. \A c \in C : c \in Clusters /\ c < Len(tokens)
      BY <1>7, Zenon
    <3> HIDE DEF ok
    <3>2. ASSUME NEW c \in C
          PROVE  c \in Clusters /\ c \in Nat /\ c < Len(tokens) /\ c + 1 \in DOMAIN tokens
      <4>1. c \in Nat /\ c < Len(tokens)
        BY <2>2, <3>1
      <4>2. c + 1 \in 1 .. Len(tokens)
        BY <2>2, <4>1
      <4>3. QED
        BY <2>2, <3>1, <4>1, <4>2
    <3>3. QED
      BY <3>2
  <2>4. ~Refused
    <3> SUFFICES ASSUME Refused PROVE FALSE
      OBVIOUS
    <3>1. C = request.scope /\ Len(tokens) = 1 /\ request.scope # {0}
      BY DEF ContinueClusters, Refused
    <3>2. \A c \in request.scope : c = 0
      BY <2>3, <3>1
    <3>3. QED
      BY <2>2, <3>1, <3>2
  <2>5. TokensGood
    BY <1>1, <2>1, <2>2, <2>4 DEF FindInv, TokensInv
  <2>6. Later
    BY <1>1, <2>1, SameLog, Zenon DEF Later
  <2>7. /\ \A c : May(c) \subseteq May(c)' /\ Must(c)' \subseteq Must(c)
        /\ \A c, r : AtMoment(c, r) => AtMoment(c, r)'
    BY <2>6, MomentsGrow
  <2>8. \A c, cur : Covered(got, c, cur, request.sel, May(c), Must(c)) =>
                     Covered(got', c, cur, request'.sel, May(c)', Must(c)')
    BY <1>1, <2>7, CoveredGrows
  <2> HIDE DEF ok
  <2>9. C \subseteq request.scope
    BY <2>1, <2>3, <2>5 DEF TokensGood
  <2>10. ASSUME NEW d \in request.scope, d \notin C
         PROVE  Covered(got', d, MaxKey, request'.sel, May(d)', Must(d)')
    <3>1. C = 0 .. Len(tokens) - 1
      BY <2>10 DEF ContinueClusters
    <3>2. \A i \in DOMAIN tokens : tokens[i].cluster # d
      <4>1. SUFFICES ASSUME NEW i \in DOMAIN tokens PROVE tokens[i].cluster # d
        OBVIOUS
      <4>2. i - 1 \in C /\ (i - 1) + 1 = i
        BY <2>2, <3>1
      <4>3. tokens[i].cluster = i - 1
        BY <2>1, <4>2
      <4>4. QED
        BY <2>10, <4>2, <4>3
    <3>3. Covered(got, d, MaxKey, request.sel, May(d), Must(d))
      BY <2>5, <3>2 DEF TokensGood
    <3>4. QED
      BY <2>8, <3>3
  <2>11. ASSUME NEW c \in C
         PROVE  CoverInv(c)' /\ RevInv(c)' /\ AnswerInv(c)'
    <3> DEFINE r == tokens[c + 1].rev
    <3>1. /\ tokens[c + 1].last \in Keys /\ r \in {-1} \cup 1 .. Len(log)
          /\ tokens[c + 1].cluster = c /\ c + 1 \in DOMAIN tokens
      BY <1>7, <2>1, <2>3, TokenPlace DEF ok
    <3>2. /\ Covered(got, c, tokens[c + 1].last, request.sel, May(c), Must(c))
          /\ r > 0 => AtMoment(c, r)
      BY <2>5, <3>1 DEF TokensGood
    <3> HIDE DEF r
    <3>3. /\ TokenRev(c) = (IF r > 0 THEN r ELSE 0) /\ TokenRev(c) \in 0 .. Len(log)
          /\ tokens[c + 1].last \in 0 .. MaxKey
      BY <2>2, <3>1, KeyAssumption DEF TokenRev, Keys, r
    <3>4. /\ parts'[c].pc = "get" /\ parts'[c].rev = TokenRev(c)
          /\ parts'[c].returned = TokenRev(c) /\ parts'[c].start = tokens[c + 1].last
          /\ parts'[c].last = 0
      BY <2>1, <2>2, <3>3, PartFacts
    <3>5. CoverInv(c)'
      <4>1. Cursor(parts'[c]) = tokens[c + 1].last
        BY <3>4 DEF Cursor
      <4>2. got' \cup items' = got'
        BY <1>1
      <4>3. QED
        BY <2>8, <3>2, <4>1, <4>2 DEF CoverInv
    <3>6. RevInv(c)'
      <4>1. \A q : q = TokenRev(c) /\ q > 0 => AtMoment(c, q)'
        BY <2>7, <3>2, <3>3
      <4>2. TokenRev(c) = 0 => ~consistent'
        BY <2>1, <3>1, <3>3 DEF r
      <4>3. QED
        BY <3>4, <4>1, <4>2 DEF RevInv
    <3>7. AnswerInv(c)'
      BY <3>4 DEF AnswerInv
    <3>8. QED
      BY <3>5, <3>6, <3>7
  <2>12. PartsInv'
    <3> HIDE DEF C
    <3>1. tokens' # << >> => \A c \in DOMAIN parts' : tokens'[c + 1].cluster = c
      BY <1>1, <2>1
    <3>2. QED
      BY <1>1, <2>1, <2>9, <2>10, <2>11, <3>1 DEF PartsInv
  <2>13. TokensInv'
    <3>1. TokensGood'
      BY <1>1, <2>5, <2>6, TokensKept
    <3>2. QED
      BY <3>1 DEF TokensInv
  <2>14. GotInv'
    BY <1>1, <2>1 DEF FindInv, GotInv
  <2>15. QED
    BY <2>12, <2>13, <2>14 DEF FindInv
<1>8. QED
  BY <1>5, <1>6, <1>7

\* Every step keeps FindInv.
LEMMA NextFind ==
  ASSUME TypeInv, TypeInv', FindInv, [Next]_vars
  PROVE  FindInv'
<1>1. CASE \E k \in Keys : WriteKey(k)
  <2>1. PICK k \in Keys : WriteKey(k)
    BY <1>1
  <2>2. LogGrows
    BY <2>1, WriteType
  <2>3. UNCHANGED <<phase, request, parts, items, tokens, got, twice, began, straight, consistent>>
    BY <2>1 DEF WriteKey, clientVars
  <2>4. QED
    BY <2>2, <2>3, QuietFind
<1>2. CASE \E c \in Clusters : CompactCluster(c)
  <2>1. UNCHANGED <<log, phase, request, parts, items, tokens, got, twice, began, straight, consistent>>
    BY <1>2 DEF CompactCluster, clientVars
  <2>2. LogGrows
    BY <2>1, SameLog
  <2>3. QED
    BY <2>1, <2>2, QuietFind
<1>3. CASE UNCHANGED vars
  <2>1. UNCHANGED <<log, phase, request, parts, items, tokens, got, twice, began, straight, consistent>>
    BY <1>3 DEF vars
  <2>2. LogGrows
    BY <2>1, SameLog
  <2>3. QED
    BY <2>1, <2>2, QuietFind
<1>4. CASE \E scope \in getClientsFromKey, sel \in Selections, limit \in {0, Limit},
              r \in {0, Len(log)} : List(scope, sel, limit, r)
  BY <1>4, ListFind
<1>5. CASE Continue
  BY <1>5, ContinueFind
<1>6. CASE \E c \in DOMAIN parts : Get(c) \/ Take(c) \/ Check(c) \/ ListError(c)
  BY <1>6, GetFind, TakeFind, CheckFind, ErrorFind
<1>7. CASE \E order \in SetToSeqs(DOMAIN parts) : Finish(order)
  BY <1>7, FinishFind
<1>8. CASE FullList
  BY <1>8, FullFind
<1>9. CASE GoOnInconsistently
  BY <1>9, GoOnFind
<1>10. QED
  BY <1>1, <1>2, <1>3, <1>4, <1>5, <1>6, <1>7, <1>8, <1>9 DEF Next

\* What all clusters are covered by is what the property asks for.
LEMMA FindResult == TypeInv /\ FindInv => NothingLostBetweenPages
<1> SUFFICES ASSUME TypeInv, FindInv, phase = "done", straight
             PROVE  Always \subseteq got /\ got \subseteq Sometimes /\ twice = {}
  BY Zenon DEF NothingLostBetweenPages
<1>1. /\ twice = {} /\ \A k \in got : Home[k] \in request.scope
      /\ \A c \in request.scope : Covered(got, c, MaxKey, request.sel, May(c), Must(c))
  BY DEF FindInv, GotInv
<1>2. got \subseteq Keys /\ request.sel \subseteq Keys /\ Moments # {}
  BY MomentsFacts DEF TypeInv, ClientType, RequestInv, RequestTypeOf, MomentsGood
<1>3. \A k \in Keys : k <= MaxKey
  BY KeyAssumption DEF Keys
<1>4. ASSUME NEW k \in Always PROVE k \in got
  <2>1. PICK c \in request.scope : \A r \in Moments : k \in Snapshot(c, r)
    BY <1>4 DEF Always
  <2>2. k \in request.sel /\ k \in Keys
    BY <1>2, <1>4 DEF Always
  <2>3. Home[k] = c
    <3>1. PICK m : m \in Moments
      BY <1>2
    <3>2. k \in Snapshot(c, m)
      BY <2>1, <3>1
    <3>3. QED
      BY <3>2 DEF Snapshot
  <2>4. k \in Must(c)
    BY <2>1, <2>2, Zenon DEF Must
  <2>5. QED
    BY <1>1, <1>3, <2>2, <2>3, <2>4 DEF Covered
<1>5. ASSUME NEW k \in got PROVE k \in Sometimes
  <2> DEFINE c == Home[k]
  <2>1. c \in request.scope /\ k \in Keys
    BY <1>1, <1>2, <1>5
  <2>2. k \in request.sel /\ k \in May(c)
    BY <1>1, <1>5, <2>1 DEF Covered
  <2>3. \E m \in Moments : k \in Snapshot(c, m)
    BY <2>2, Zenon DEF May
  <2> HIDE DEF c
  <2>4. QED
    BY <2>1, <2>2, <2>3 DEF Sometimes
<1>6. QED
  BY <1>1, <1>4, <1>5

(***************************************************************************)
(* NothingLostBetweenPages, for any keys, clusters, selectors, page size,  *)
(* writes and compactions: the pages of a list together have every object  *)
(* that was there all the time, once, and none that never was, whatever    *)
(* the goroutines that fill one page do.  FindInv says how far each        *)
(* goroutine, and each token between two pages, has got.                   *)
(***************************************************************************)
THEOREM NothingIsLost == Spec => []NothingLostBetweenPages
<1>1. Init => FindInv
  BY FindInit
<1>2. TypeInv /\ TypeInv' /\ FindInv /\ [Next]_vars => FindInv'
  BY NextFind
<1>3. QED
  BY <1>1, <1>2, TypeInvariant, FindResult, PTL DEF Spec

-----------------------------------------------------------------------------
(* The pages are a snapshot.                                               *)

\* The first page: a list that has none yet has no version, one that is done has.
FirstInv ==
  /\ phase = "listing" => DOMAIN parts # {}
  /\ phase = "idle" \/ (phase = "listing" /\ tokens = << >>) => rv = 0 /\ firstEnd = 0
  /\ phase = "done" => rv # 0 /\ firstEnd # 0
  /\ phase = "expired" => \E i \in DOMAIN tokens : tokens[i].rev = -1

\* The time of the first page, and the revisions that show a cluster as it was
\* then; of one cluster alone it is the version of the list.
Window == began .. (IF firstEnd = 0 THEN Len(log) ELSE firstEnd)

Version(c, r) ==
  /\ r \in 1 .. Len(log) /\ \E m \in Window : Snapshot(c, r) = Snapshot(c, m)
  /\ request.scope = {c} /\ rv # 0 => r = rv

\* G has exactly what is in snap up to key cur.
Exactly(G, c, cur, snap) == Covered(G, c, cur, Keys, snap, snap)

Whole(c) == \E r \in 1 .. Len(log) : Version(c, r) /\ Exactly(got, c, MaxKey, Snapshot(c, r))

\* A goroutine reads its cluster once for a page, at one revision.
ReadInv(c) ==
  /\ parts[c].pc = "get" => parts[c].returned = parts[c].rev
  /\ parts[c].pc = "get" /\ parts[c].rev = 0 =>
       tokens = << >> /\ parts[c].start = 0 /\ Exactly(got \cup items, c, 0, {})
  /\ parts[c].pc = "take" => AnswerOf(parts[c], Snapshot(c, parts[c].returned), request.limit)
  /\ parts[c].pc = "check" /\ parts[c].more /\ Paging => Cardinality(items) >= request.limit

ExactInv(c) ==
  parts[c].pc \in {"get", "take", "check", "done"} /\ parts[c].returned # 0 =>
    /\ Version(c, parts[c].returned)
    /\ Exactly(got \cup items, c, Cursor(parts[c]), Snapshot(c, parts[c].returned))

TokensExact ==
  /\ \A c, r : \A i \in DOMAIN tokens : tokens[i].cluster = c /\ tokens[i].rev = r =>
       Version(c, r) /\ Exactly(got, c, tokens[i].last, Snapshot(c, r))
  /\ \A c \in request.scope : (\A i \in DOMAIN tokens : tokens[i].cluster # c) => Whole(c)

PageExact ==
  /\ \A c \in request.scope : c \notin DOMAIN parts => Whole(c)
  /\ \A c \in DOMAIN parts : ReadInv(c) /\ ExactInv(c)

SnapInv ==
  straight /\ consistent /\ request.sel = Keys =>
    /\ phase = "listing" => PageExact
    /\ phase = "paging" => TokensExact \/ \E i \in DOMAIN tokens : tokens[i].rev = -1
    /\ phase = "done" => \A c \in request.scope : Whole(c)

\* A cluster of which nothing was got is covered up to no key.
LEMMA ExactlyNone ==
  ASSUME NEW G, NEW c, Exactly(G, c, 0, {}), NEW snap
  PROVE  Exactly(G, c, 0, snap)
BY KeyAssumption DEF Exactly, Covered, Keys

\* A version stays one.
LEMMA VersionGrows ==
  ASSUME TypeInv, TypeInv', LogGrows, UNCHANGED <<request, began, rv, firstEnd>>
  PROVE  \A c, r : Version(c, r) => Version(c, r)' /\ Snapshot(c, r)' = Snapshot(c, r)
<1>1. /\ began \in 0 .. Len(log) /\ firstEnd \in 0 .. Len(log)
      /\ Len(log) \in Nat /\ Len(log') \in Nat /\ Len(log) <= Len(log')
  BY LenProperties DEF TypeInv, ClientType, StoreInv, LogGrows
<1>2. \A c, r : r \in 0 .. Len(log) => Snapshot(c, r)' = Snapshot(c, r)
  BY SnapshotStable
<1>3. \A m \in Window : m \in Window' /\ m \in 0 .. Len(log)
  BY <1>1 DEF Window
<1>4. ASSUME NEW c, NEW r, Version(c, r)
      PROVE  Version(c, r)' /\ Snapshot(c, r)' = Snapshot(c, r)
  <2>1. r \in 1 .. Len(log) /\ r \in 0 .. Len(log) /\ r \in 1 .. Len(log')
    BY <1>1, <1>4 DEF Version
  <2>2. PICK m \in Window : Snapshot(c, r) = Snapshot(c, m)
    BY <1>4 DEF Version
  <2>3. m \in Window' /\ Snapshot(c, m)' = Snapshot(c, m) /\ Snapshot(c, r)' = Snapshot(c, r)
    BY <1>2, <1>3, <2>1, <2>2
  <2>4. QED
    BY <1>4, <2>1, <2>2, <2>3 DEF Version
<1>5. QED
  BY <1>4

\* A cluster that is whole stays so.
LEMMA WholeGrows ==
  ASSUME TypeInv, TypeInv', LogGrows, UNCHANGED <<request, began, rv, firstEnd, got>>
  PROVE  \A c : Whole(c) => Whole(c)'
<1>1. SUFFICES ASSUME NEW c, Whole(c) PROVE Whole(c)'
  OBVIOUS
<1>2. PICK r \in 1 .. Len(log) : Version(c, r) /\ Exactly(got, c, MaxKey, Snapshot(c, r))
  BY <1>1 DEF Whole
<1>3. Version(c, r)' /\ Snapshot(c, r)' = Snapshot(c, r)
  BY <1>2, VersionGrows
<1>4. r \in 1 .. Len(log')
  BY <1>3 DEF Version
<1>5. QED
  BY <1>2, <1>3, <1>4 DEF Whole

\* So do tokens.
LEMMA TokensExactGrows ==
  ASSUME TypeInv, TypeInv', LogGrows, UNCHANGED <<request, began, rv, firstEnd, got, tokens>>,
         TokensExact
  PROVE  TokensExact'
<1>1. \A c : Whole(c) => Whole(c)'
  BY WholeGrows
<1>2. \A c, r : Version(c, r) => Version(c, r)' /\ Snapshot(c, r)' = Snapshot(c, r)
  BY VersionGrows
<1>3. ASSUME NEW c, NEW r, NEW i \in DOMAIN tokens, tokens[i].cluster = c, tokens[i].rev = r
      PROVE  Version(c, r)' /\ Exactly(got', c, tokens[i].last, Snapshot(c, r)')
  <2>1. Version(c, r) /\ Exactly(got, c, tokens[i].last, Snapshot(c, r))
    BY <1>3 DEF TokensExact
  <2>2. QED
    BY <1>2, <2>1
<1>4. \A c \in request'.scope : (\A i \in DOMAIN tokens' : tokens'[i].cluster # c) => Whole(c)'
  BY <1>1 DEF TokensExact
<1>5. QED
  BY <1>3, <1>4 DEF TokensExact

\* A goroutine that does nothing keeps what it has.
LEMMA SnapKept ==
  ASSUME TypeInv, TypeInv', LogGrows, UNCHANGED <<request, began, rv, firstEnd, got, tokens>>,
         NEW d \in DOMAIN parts, parts'[d] = parts[d],
         items \subseteq items', \A k \in items' : k \in items \/ Home[k] # d,
         ReadInv(d), ExactInv(d)
  PROVE  ReadInv(d)' /\ ExactInv(d)'
<1>1. \A c, r : Version(c, r) => Version(c, r)' /\ Snapshot(c, r)' = Snapshot(c, r)
  BY VersionGrows
<1>2. ASSUME NEW cur, NEW snap, Exactly(got \cup items, d, cur, snap)
      PROVE  Exactly(got' \cup items', d, cur, snap)
  <2>1. \A k \in Keys : Home[k] = d => (k \in got \cup items <=> k \in got' \cup items')
    OBVIOUS
  <2>2. QED
    BY <1>2, <2>1, CoveredSame DEF Exactly
<1>3. ExactInv(d)'
  <2>1. SUFFICES ASSUME parts[d].pc \in {"get", "take", "check", "done"}, parts[d].returned # 0
                 PROVE  \A r : r = parts[d].returned =>
                          /\ Version(d, r)'
                          /\ Exactly(got' \cup items', d, Cursor(parts[d]), Snapshot(d, r)')
    BY DEF ExactInv
  <2>2. /\ Version(d, parts[d].returned)
        /\ Exactly(got \cup items, d, Cursor(parts[d]), Snapshot(d, parts[d].returned))
    BY <2>1 DEF ExactInv
  <2>3. QED
    BY <1>1, <1>2, <2>2
<1>4. ReadInv(d)'
  <2>1. parts[d].pc = "get" => parts[d].returned = parts[d].rev
    BY DEF ReadInv
  <2>2. parts[d].pc = "get" /\ parts[d].rev = 0 =>
          tokens = << >> /\ parts[d].start = 0 /\ Exactly(got' \cup items', d, 0, {})
    BY <1>2 DEF ReadInv
  <2>3. ASSUME parts[d].pc = "take", NEW r, r = parts[d].returned
        PROVE  AnswerOf(parts[d], Snapshot(d, r)', request.limit)
    <3>1. AnswerOf(parts[d], Snapshot(d, r), request.limit)
      BY <2>3 DEF ReadInv
    <3>2. parts[d].returned > 0
      BY <2>3 DEF TypeInv, PartsType
    <3>3. Version(d, r)
      BY <2>3, <3>2 DEF ExactInv
    <3>4. QED
      BY <1>1, <3>1, <3>3
  <2>4. ASSUME parts[d].pc = "check", parts[d].more, Paging
        PROVE  Cardinality(items') >= request.limit
    <3>1. Cardinality(items) >= request.limit
      BY <2>4, Zenon DEF ReadInv
    <3>2. items' \in SUBSET Keys /\ items \in SUBSET Keys
      BY DEF TypeInv, PageInv
    <3>3. IsFiniteSet(items') /\ Cardinality(items') \in Nat /\ Cardinality(items) \in Nat
      BY <3>2, KeysFinite
    <3>4. Cardinality(items) <= Cardinality(items')
      BY <3>3, FS_Subset
    <3>5. request.limit \in Nat
      BY PageAssumption DEF TypeInv, RequestInv, RequestTypeOf
    <3>6. QED
      BY <3>1, <3>3, <3>4, <3>5
  <2>5. Paging' = Paging
    BY DEF Paging
  <2>6. parts'[d].pc = "check" /\ parts'[d].more /\ Paging' => Cardinality(items') >= request'.limit
    BY <2>4, <2>5, Zenon
  <2>7. QED
    BY <2>1, <2>2, <2>3, <2>6 DEF ReadInv
<1>5. QED
  BY <1>3, <1>4

\* There is no page initially.
LEMMA FirstInit == ASSUME Init PROVE FirstInv
BY DEF Init, FirstInv

\* Every step keeps FirstInv.
LEMMA NextFirst ==
  ASSUME TypeInv, TypeInv', FirstInv, [Next]_vars
  PROVE  FirstInv'
<1>1. CASE UNCHANGED <<phase, parts, tokens, rv, firstEnd>>
  BY <1>1 DEF FirstInv
<1>2. CASE \E k \in Keys : WriteKey(k)
  BY <1>1, <1>2 DEF WriteKey, clientVars
<1>3. CASE \E c \in Clusters : CompactCluster(c)
  BY <1>1, <1>3 DEF CompactCluster, clientVars
<1>4. CASE UNCHANGED vars
  BY <1>1, <1>4 DEF vars
<1>5. CASE \E scope \in getClientsFromKey, sel \in Selections, limit \in {0, Limit},
              r \in {0, Len(log)} : List(scope, sel, limit, r)
  <2>1. PICK scope \in getClientsFromKey, sel \in Selections, limit \in {0, Limit},
             r \in {0, Len(log)} : List(scope, sel, limit, r)
    BY <1>5
  <2>2. /\ phase = "idle" /\ phase' = "listing" /\ UNCHANGED <<rv, firstEnd>>
        /\ DOMAIN parts' = scope /\ request'.scope = scope
    BY <2>1 DEF List
  <2>3. request'.scope # {}
    BY <2>2 DEF TypeInv, RequestInv
  <2>4. QED
    BY <2>2, <2>3 DEF FirstInv
<1>6. CASE Continue
  <2>1. /\ phase = "paging" /\ phase' \in {"listing", "failed"} /\ tokens' = tokens
        /\ phase' = "listing" => DOMAIN parts' = ContinueClusters
    BY <1>6 DEF Continue
  <2>2. tokens # << >> /\ Len(tokens) \in Nat /\ request.scope # {} /\ Len(tokens) # 0
    BY <2>1, LenProperties, EmptySeq DEF TypeInv, TokensType, RequestInv
  <2>3. ContinueClusters # {}
    <3>1. 0 \in 0 .. Len(tokens) - 1
      BY <2>2
    <3>2. QED
      BY <2>2, <3>1 DEF ContinueClusters
  <2>4. QED
    BY <2>1, <2>2, <2>3 DEF FirstInv
<1>7. CASE \E c \in DOMAIN parts : Get(c) \/ Take(c) \/ Check(c)
  <2>1. UNCHANGED <<phase, tokens, rv, firstEnd>> /\ DOMAIN parts' = DOMAIN parts
    BY <1>7, GetEffect, TakeEffect, CheckEffect
  <2>2. QED
    BY <2>1 DEF FirstInv
<1>8. CASE \E c \in DOMAIN parts : ListError(c)
  <2>1. PICK c \in DOMAIN parts : ListError(c)
    BY <1>8
  <2>2. \/ phase' = "failed"
        \/ /\ phase' = "expired" /\ tokens # << >>
           /\ tokens' = <<Token(0, -1, tokens[c + 1].last)>>
    BY <2>1, ErrorEffect
  <2>3. CASE phase' = "failed"
    BY <2>3 DEF FirstInv
  <2>4. CASE phase' = "expired" /\ tokens' = <<Token(0, -1, tokens[c + 1].last)>>
    <3>1. 1 \in DOMAIN tokens' /\ tokens'[1].rev = -1
      BY <2>4 DEF Token
    <3>2. QED
      BY <2>4, <3>1 DEF FirstInv
  <2>5. QED
    BY <2>2, <2>3, <2>4
<1>9. CASE \E order \in SetToSeqs(DOMAIN parts) : Finish(order)
  <2>1. PICK order \in SetToSeqs(DOMAIN parts) : Finish(order)
    BY <1>9
  <2>2. /\ phase = "listing" /\ \A c \in DOMAIN parts : parts[c].pc = "done"
        /\ phase' = "failed" \/ EndOfPage
    BY <2>1, FinishFacts
  <2>3. CASE phase' = "failed"
    BY <2>3 DEF FirstInv
  <2>4. CASE EndOfPage
    <3>1. DOMAIN parts # {} /\ \A c \in DOMAIN parts : parts[c].returned > 0
      BY <2>2 DEF FirstInv, TypeInv, PartsType
    <3>2. rv' # 0
      BY <2>4, <3>1 DEF EndOfPage
    <3>3. Header(0) \in 1 .. Len(log) /\ Len(log) \in Nat
      BY HeaderFacts, KeyAssumption, LenProperties DEF TypeInv, StoreInv
    <3>4. firstEnd' # 0
      BY <2>4, <3>3 DEF EndOfPage
    <3>5. phase' \in {"paging", "done"}
      BY <2>4 DEF EndOfPage
    <3>6. QED
      BY <3>2, <3>4, <3>5 DEF FirstInv
  <2>5. QED
    BY <2>2, <2>3, <2>4
<1>10. CASE FullList
  <2>1. /\ phase' = "listing" /\ rv' = 0 /\ firstEnd' = 0
        /\ DOMAIN parts' = request.scope /\ request.scope # {}
    BY <1>10, FullEffect
  <2>2. QED
    BY <2>1 DEF FirstInv
<1>11. CASE GoOnInconsistently
  BY <1>11 DEF GoOnInconsistently, FirstInv
<1>12. QED
  BY <1>2, <1>3, <1>4, <1>5, <1>6, <1>7, <1>8, <1>9, <1>10, <1>11 DEF Next

-----------------------------------------------------------------------------
\* A list without token starts at its revision, or at none.
LEMMA FreshSnap == TypeInv /\ FirstInv /\ Fresh => SnapInv
<1> SUFFICES ASSUME TypeInv, FirstInv, Fresh, straight
             PROVE  PageExact
  BY DEF SnapInv, Fresh
<1>1. /\ request.rev \in 0 .. Len(log) /\ Len(log) \in Nat /\ 0 \in 0 .. MaxKey
      /\ began \in 0 .. Len(log) /\ (request.rev = 0 \/ request.rev = began)
      /\ DOMAIN parts = request.scope
  BY KeyAssumption, LenProperties DEF TypeInv, StoreInv, RequestInv, RequestTypeOf, ClientType, Fresh
<1>2. rv = 0 /\ firstEnd = 0 /\ tokens = << >> /\ got \cup items = {}
  BY DEF FirstInv, Fresh
<1>3. ASSUME NEW c \in DOMAIN parts
      PROVE  ReadInv(c) /\ ExactInv(c)
  <2>1. parts[c] = Part(request.rev, 0)
    BY <1>1 DEF Fresh
  <2>2. /\ parts[c].pc = "get" /\ parts[c].rev = request.rev
        /\ parts[c].returned = request.rev /\ parts[c].start = 0
    BY <1>1, <2>1, PartFacts
  <2>3. \A snap : Exactly(got \cup items, c, 0, snap)
    BY <1>2, CoveredNone DEF Exactly
  <2>4. Cursor(parts[c]) = 0
    BY <2>2 DEF Cursor
  <2>5. request.rev # 0 => Version(c, request.rev)
    <3>1. Window = began .. Len(log)
      BY <1>2 DEF Window
    <3>2. request.rev # 0 => request.rev \in Window /\ request.rev \in 1 .. Len(log)
      BY <1>1, <3>1
    <3>3. QED
      BY <1>2, <3>2 DEF Version
  <2>6. ReadInv(c)
    BY <1>2, <2>2, <2>3 DEF ReadInv
  <2>7. ExactInv(c)
    BY <2>2, <2>3, <2>4, <2>5 DEF ExactInv
  <2>8. QED
    BY <2>6, <2>7
<1>4. QED
  BY <1>1, <1>3 DEF PageExact

\* The same of the next state
LEMMA FreshSnapNext == TypeInv' /\ FirstInv' /\ Fresh' => SnapInv'
BY FreshSnap, PTL

\* Steps that change nothing of the list
LEMMA QuietSnap ==
  ASSUME TypeInv, TypeInv', SnapInv, LogGrows,
         UNCHANGED <<phase, request, parts, items, tokens, got, rv, began, firstEnd, straight, consistent>>
  PROVE  SnapInv'
<1>1. \A c : Whole(c) => Whole(c)'
  BY WholeGrows
<1>2. TokensExact => TokensExact'
  BY TokensExactGrows
<1>3. PageExact => PageExact'
  <2>1. ASSUME NEW d \in DOMAIN parts, ReadInv(d), ExactInv(d)
        PROVE  ReadInv(d)' /\ ExactInv(d)'
    <3>1. parts'[d] = parts[d] /\ items \subseteq items' /\ \A k \in items' : k \in items \/ Home[k] # d
      OBVIOUS
    <3>2. QED
      BY <2>1, <3>1, SnapKept
  <2>2. QED
    BY <1>1, <2>1, Zenon DEF PageExact
<1>4. QED
  BY <1>1, <1>2, <1>3, Zenon DEF SnapInv

\* A goroutine that does a step alone
LEMMA OneSnap ==
  ASSUME TypeInv, TypeInv', SnapInv, NEW c \in DOMAIN parts, phase = "listing",
         UNCHANGED <<log, request, began, rv, firstEnd, tokens, got, straight, consistent, phase>>,
         NEW p, parts' = [parts EXCEPT ![c] = p], items \subseteq items',
         straight => \A k \in items' : k \in items \/ Home[k] = c,
         straight /\ request.sel = Keys /\ ReadInv(c) /\ ExactInv(c) => ReadInv(c)' /\ ExactInv(c)'
  PROVE  SnapInv'
<1> SUFFICES ASSUME straight, consistent, request.sel = Keys PROVE PageExact'
  BY DEF SnapInv
<1>1. LogGrows
  BY SameLog
<1>2. PageExact
  BY DEF SnapInv
<1>3. \A d : Whole(d) => Whole(d)'
  BY <1>1, WholeGrows
<1>4. DOMAIN parts' = DOMAIN parts /\ \A d \in DOMAIN parts : d # c => parts'[d] = parts[d]
  OBVIOUS
<1>5. ASSUME NEW d \in DOMAIN parts PROVE ReadInv(d)' /\ ExactInv(d)'
  <2>1. ReadInv(d) /\ ExactInv(d)
    BY <1>2 DEF PageExact
  <2>2. CASE d = c
    BY <2>1, <2>2
  <2>3. CASE d # c
    <3>1. parts'[d] = parts[d] /\ \A k \in items' : k \in items \/ Home[k] # d
      BY <1>4, <2>3
    <3>2. QED
      BY <1>1, <2>1, <3>1, SnapKept
  <2>4. QED
    BY <2>2, <2>3
<1>6. QED
  BY <1>2, <1>3, <1>4, <1>5 DEF PageExact

\* KV.Get keeps SnapInv: the first request of a page settles the revision.
LEMMA GetSnap ==
  ASSUME TypeInv, TypeInv', FindInv, FirstInv, SnapInv, NEW c \in DOMAIN parts, Get(c)
  PROVE  SnapInv'
<1> DEFINE p == parts'[c]
<1>1. /\ parts[c].pc = "get"
      /\ UNCHANGED <<log, phase, request, items, tokens, got, rv, began, firstEnd, straight, consistent>>
  BY GetEffect
<1>2. /\ p = Failing(parts[c], "error") \/ p = Failing(parts[c], "compacted") \/ p = Answered(c)
      /\ parts' = [parts EXCEPT ![c] = p]
  BY GetEffect
<1>3. /\ c \in Clusters /\ phase = "listing" /\ parts[c] \in PartTypeOf(Len(log))
      /\ straight => c \in request.scope
  BY PartsFacts
<1>4. ASSUME straight, ReadInv(c), ExactInv(c)
      PROVE  ReadInv(c)' /\ ExactInv(c)'
  <2>1. CASE p # Answered(c)
    <3>1. p.pc \in {"error", "compacted"}
      BY <1>2, <1>3, <2>1, FailingFacts
    <3>2. QED
      BY <3>1 DEF ReadInv, ExactInv
  <2>2. CASE p = Answered(c)
    <3> DEFINE r == GetRev(c)
    <3>1. parts[c].returned = parts[c].rev
      BY <1>1, <1>4 DEF ReadInv
    <3>2. p.pc = "take" /\ p.start = parts[c].start /\ p.returned = r
      BY <2>2, <3>1, AnsweredFacts DEF GetRev
    <3>3. AnswerOf(p, Snapshot(c, r), request.limit)
      BY <1>3, <1>4, <2>2, GetAnswer
    <3>4. Cursor(p) = parts[c].start
      BY <3>2 DEF Cursor
    <3>5. Version(c, r) /\ Exactly(got \cup items, c, parts[c].start, Snapshot(c, r))
      <4>1. CASE parts[c].rev = 0
        <5>1. tokens = << >> /\ parts[c].start = 0 /\ Exactly(got \cup items, c, 0, {})
          BY <1>1, <1>4, <4>1 DEF ReadInv
        <5>2. rv = 0 /\ firstEnd = 0
          BY <1>3, <5>1 DEF FirstInv
        <5>3. r = Header(c) /\ r \in 1 .. Len(log) /\ Snapshot(c, r) = Snapshot(c, Len(log))
          BY <1>3, <4>1, HeaderFacts DEF GetRev, TypeInv, StoreInv
        <5>4. Len(log) \in Window
          BY <5>2, LenProperties DEF Window, TypeInv, ClientType, StoreInv
        <5>5. Version(c, r)
          BY <5>2, <5>3, <5>4 DEF Version
        <5>6. QED
          BY <5>1, <5>5, ExactlyNone
      <4>2. CASE parts[c].rev # 0
        <5>1. r = parts[c].returned
          BY <3>1, <4>2 DEF GetRev
        <5>2. Cursor(parts[c]) = parts[c].start
          BY <1>1 DEF Cursor
        <5>3. QED
          BY <1>1, <1>4, <3>1, <4>2, <5>1, <5>2 DEF ExactInv
      <4>3. QED
        BY <4>1, <4>2
    <3> HIDE DEF r, p
    <3>6. PICK q : q = r
      OBVIOUS
    <3>7. Version(c, q)' /\ Snapshot(c, q)' = Snapshot(c, q)
      <4>1. LogGrows
        BY <1>1, SameLog
      <4>2. QED
        BY <1>1, <3>5, <3>6, <4>1, VersionGrows
    <3>8. ExactInv(c)'
      BY <1>1, <3>2, <3>4, <3>5, <3>6, <3>7 DEF ExactInv, p
    <3>9. ReadInv(c)'
      BY <1>1, <3>2, <3>3, <3>6, <3>7 DEF ReadInv, p
    <3>10. QED
      BY <3>8, <3>9
  <2>3. QED
    BY <2>1, <2>2
<1>5. items \subseteq items' /\ (straight => \A k \in items' : k \in items \/ Home[k] = c)
  BY <1>1
<1> HIDE DEF p
<1>6. QED
  BY <1>1, <1>2, <1>3, <1>4, <1>5, OneSnap

\* Without a selector a response that is not the last one fills the page.
LEMMA TakeFills ==
  ASSUME TypeInv, NEW c \in DOMAIN parts, NEW snap,
         AnswerOf(parts[c], snap, request.limit), Taken(c) \cap items = {},
         Took(c).more, request.sel = Keys, Paging
  PROVE  Cardinality(items \cup (Taken(c) \cap request.sel)) >= request.limit
<1>1. CASE Taken(c) # parts[c].resp
  BY <1>1, TakeFull
<1>2. CASE Taken(c) = parts[c].resp
  <2> DEFINE R == parts[c].resp
             I == items \cup (Taken(c) \cap request.sel)
  <2>1. parts[c].more
    BY <1>2, TookFacts
  <2>2. Cardinality(R) >= request.limit
    BY <2>1 DEF AnswerOf
  <2>3. R \in SUBSET Keys /\ items \in SUBSET Keys /\ request.limit \in Nat
    BY TakenFacts
  <2>4. R \subseteq I /\ I \in SUBSET Keys
    BY <1>2, <2>3
  <2> HIDE DEF R, I
  <2>5. IsFiniteSet(I) /\ Cardinality(I) \in Nat /\ Cardinality(R) \in Nat
    BY <2>3, <2>4, KeysFinite
  <2>6. Cardinality(R) <= Cardinality(I)
    BY <2>4, <2>5, FS_Subset
  <2>7. Cardinality(I) >= request.limit
    BY <2>2, <2>3, <2>5, <2>6
  <2>8. QED
    BY <2>7 DEF I
<1>3. QED
  BY <1>1, <1>2

\* Take keeps SnapInv.
LEMMA TakeSnap ==
  ASSUME TypeInv, TypeInv', FindInv, SnapInv, NEW c \in DOMAIN parts, Take(c)
  PROVE  SnapInv'
<1>1. /\ parts[c].pc = "take" /\ parts' = [parts EXCEPT ![c] = Took(c)]
      /\ items' = items \cup (Taken(c) \cap request.sel)
      /\ UNCHANGED <<log, phase, request, tokens, got, rv, began, firstEnd, straight, consistent>>
  BY TakeEffect
<1>2. parts'[c] = Took(c) /\ items \subseteq items'
  BY <1>1
<1>3. phase = "listing" /\ parts[c].returned > 0
  BY <1>1, PartsFacts
<1>4. Took(c).pc = "check" /\ Took(c).returned = parts[c].returned
  BY TookFacts
<1>5. straight => parts[c].last = 0 \/ parts[c].last = parts[c].start
  BY <1>1, PartsFacts DEF AnswerInv
<1>6. ASSUME straight PROVE \A k \in items' : k \in items \/ Home[k] = c
  <2>1. CoverInv(c) /\ AnswerInv(c)
    BY <1>6, PartsFacts
  <2>2. PICK r \in 1 .. Len(log) :
          AtMoment(c, r) /\ AnswerOf(parts[c], Snapshot(c, r), request.limit)
    BY <1>1, <2>1, Zenon DEF AnswerInv
  <2>3. \A k \in parts[c].resp : Home[k] = c
    BY <2>2 DEF AnswerOf, Snapshot
  <2>4. Taken(c) \subseteq parts[c].resp
    BY TakenFacts
  <2>5. QED
    BY <1>1, <2>3, <2>4
<1>7. ASSUME straight, request.sel = Keys, ReadInv(c), ExactInv(c)
      PROVE  ReadInv(c)' /\ ExactInv(c)'
  <2>1. PICK r : r = parts[c].returned
    OBVIOUS
  <2> DEFINE snap == Snapshot(c, r)
  <2>2. snap \in SUBSET Keys /\ \A k \in snap : Home[k] = c
    BY DEF Snapshot
  <2>3. AnswerOf(parts[c], snap, request.limit)
    BY <1>1, <1>7, <2>1 DEF ReadInv
  <2>4. Version(c, r) /\ Covered(got \cup items, c, parts[c].start, request.sel, snap, snap)
    BY <1>1, <1>3, <1>7, <2>1 DEF ExactInv, Exactly, Cursor
  <2>5. Version(c, r)' /\ Snapshot(c, r)' = snap
    <3>1. LogGrows
      BY <1>1, SameLog
    <3>2. QED
      BY <1>1, <2>4, <3>1, VersionGrows
  <2> HIDE DEF snap
  <2>6. /\ Covered(got \cup items', c, Cursor(Took(c)), request.sel, snap, snap)
        /\ Taken(c) \cap items = {}
    BY <1>1, <1>5, <1>7, <2>2, <2>3, <2>4, TakeCovers
  <2>7. ExactInv(c)'
    BY <1>1, <1>2, <1>4, <1>7, <2>1, <2>5, <2>6 DEF ExactInv, Exactly
  <2>8. Took(c).more /\ Paging => Cardinality(items') >= request.limit
    BY <1>1, <1>7, <2>3, <2>6, TakeFills
  <2>9. Paging' = Paging
    BY <1>1 DEF Paging
  <2>10. ReadInv(c)'
    BY <1>1, <1>2, <1>4, <2>8, <2>9 DEF ReadInv
  <2>11. QED
    BY <2>7, <2>10
<1>8. QED
  BY <1>1, <1>2, <1>3, <1>6, <1>7, OneSnap

\* Check keeps SnapInv: there is no second request.
LEMMA CheckSnap ==
  ASSUME TypeInv, TypeInv', FindInv, SnapInv, NEW c \in DOMAIN parts, Check(c)
  PROVE  SnapInv'
<1> DEFINE p == parts'[c]
<1>1. /\ UNCHANGED <<log, phase, request, items, tokens, got, rv, began, firstEnd, straight, consistent>>
      /\ parts' = [parts EXCEPT ![c] = p]
  BY CheckEffect
<1>2. /\ parts[c].pc = "check" /\ p.pc = IF Full(c) THEN "done" ELSE "get"
      /\ p.start = IF Full(c) THEN parts[c].start ELSE parts[c].last
      /\ p.rev = parts[c].rev /\ p.returned = parts[c].returned
      /\ p.last = parts[c].last /\ p.more = parts[c].more
  BY CheckFacts
<1>3. phase = "listing" /\ parts[c].returned > 0
  BY <1>2, PartsFacts
<1>4. ASSUME straight, request.sel = Keys, ReadInv(c), ExactInv(c)
      PROVE  ReadInv(c)' /\ ExactInv(c)'
  <2>1. Full(c)
    BY <1>2, <1>4, Zenon DEF Full, ReadInv
  <2>2. p.pc = "done" /\ p.start = parts[c].start
    BY <1>2, <2>1
  <2>3. Cursor(p) = Cursor(parts[c])
    BY <1>2, <2>2 DEF Cursor
  <2>4. PICK r : r = parts[c].returned
    OBVIOUS
  <2>5. Version(c, r) /\ Exactly(got \cup items, c, Cursor(parts[c]), Snapshot(c, r))
    BY <1>2, <1>3, <1>4, <2>4 DEF ExactInv
  <2>6. Version(c, r)' /\ Snapshot(c, r)' = Snapshot(c, r)
    <3>1. LogGrows
      BY <1>1, SameLog
    <3>2. QED
      BY <1>1, <2>5, <3>1, VersionGrows
  <2>7. ExactInv(c)'
    BY <1>1, <1>2, <2>2, <2>3, <2>4, <2>5, <2>6 DEF ExactInv
  <2>8. ReadInv(c)'
    BY <2>2 DEF ReadInv
  <2>9. QED
    BY <2>7, <2>8
<1>5. items \subseteq items' /\ (straight => \A k \in items' : k \in items \/ Home[k] = c)
  BY <1>1
<1> HIDE DEF p
<1>6. QED
  BY <1>1, <1>3, <1>4, <1>5, OneSnap

\* The version of the first page is that of its only cluster, if it has one.
LEMMA FinishSnap ==
  ASSUME TypeInv, TypeInv', FindInv, FirstInv, SnapInv,
         NEW order \in SetToSeqs(DOMAIN parts), Finish(order)
  PROVE  SnapInv'
<1>1. /\ phase = "listing" /\ \A c \in DOMAIN parts : parts[c].pc = "done"
      /\ UNCHANGED <<log, request, began, straight, consistent>>
      /\ phase' = "failed" \/ EndOfPage
  BY FinishFacts
<1>2. CASE phase' = "failed"
  BY <1>2 DEF SnapInv
<1>3. CASE EndOfPage
  <2> SUFFICES ASSUME straight, consistent, request.sel = Keys
               PROVE  TokensExact' /\ (phase' = "done" => \A c \in request'.scope : Whole(c)')
    <3>1. phase' # "listing"
      BY <1>3 DEF EndOfPage
    <3>2. QED
      BY <1>1, <3>1 DEF SnapInv
  <2>1. /\ (phase' = "done" <=> tokens' = << >>) /\ got' = got \cup items
        /\ \A i \in DOMAIN tokens' :
             /\ tokens'[i].cluster \in DOMAIN parts
             /\ parts[tokens'[i].cluster].more /\ parts[tokens'[i].cluster].last # 0
             /\ tokens'[i].rev = parts[tokens'[i].cluster].returned
             /\ tokens'[i].last = parts[tokens'[i].cluster].last
        /\ \A c \in DOMAIN parts : parts[c].more => \E i \in DOMAIN tokens' : tokens'[i].cluster = c
    BY <1>3, Zenon DEF EndOfPage
  <2>2. /\ firstEnd' = (IF firstEnd = 0 THEN Len(log) ELSE firstEnd)
        /\ rv # 0 => rv' = rv
        /\ rv = 0 /\ DOMAIN parts # {} => \E c \in DOMAIN parts : rv' = parts[c].returned
    BY <1>3, Zenon DEF EndOfPage
  <2>3. /\ DOMAIN parts # {} /\ DOMAIN parts \subseteq request.scope
        /\ \A k \in items : Home[k] \in DOMAIN parts
        /\ \A c \in DOMAIN parts : parts[c].returned > 0
    BY <1>1 DEF FirstInv, FindInv, PartsInv, TypeInv, PartsType
  <2>4. PageExact
    BY <1>1 DEF SnapInv
  <2>5. Window' = Window /\ \A c, r : Snapshot(c, r)' = Snapshot(c, r)
    <3>1. Window' = Window
      BY <1>1, <2>2 DEF Window
    <3>2. \A c, r : Snapshot(c, r)' = Snapshot(c, r)
      BY <1>1 DEF Snapshot
    <3>3. QED
      BY <3>1, <3>2
  <2>6. ASSUME NEW c, NEW r, Version(c, r), request.scope = {c} => r = parts[c].returned
        PROVE  Version(c, r)'
    <3>1. r \in 1 .. Len(log') /\ \E m \in Window' : Snapshot(c, r)' = Snapshot(c, m)'
      BY <1>1, <2>5, <2>6 DEF Version
    <3>2. request.scope = {c} => r = rv'
      BY <2>2, <2>3, <2>6 DEF Version
    <3>3. QED
      BY <1>1, <3>1, <3>2 DEF Version
  <2>7. ASSUME NEW c \in DOMAIN parts, NEW r, r = parts[c].returned
        PROVE  Version(c, r)' /\ Exactly(got', c, Cursor(parts[c]), Snapshot(c, r)')
    <3>1. Version(c, r) /\ Exactly(got \cup items, c, Cursor(parts[c]), Snapshot(c, r))
      <4>1. ExactInv(c) /\ parts[c].pc = "done"
        BY <1>1, <2>4 DEF PageExact
      <4>2. parts[c].returned # 0
        BY <2>3
      <4>3. QED
        BY <2>7, <4>1, <4>2 DEF ExactInv
    <3>2. Version(c, r)'
      BY <2>6, <2>7, <3>1
    <3>3. QED
      BY <2>1, <2>5, <3>1, <3>2
  <2>8. ASSUME NEW c \in request.scope, c \in DOMAIN parts => ~parts[c].more
        PROVE  Whole(c)'
    <3>1. CASE c \in DOMAIN parts
      <4>1. Cursor(parts[c]) = MaxKey
        BY <1>1, <2>8, <3>1 DEF Cursor
      <4>2. PICK r : r = parts[c].returned
        OBVIOUS
      <4>3. Version(c, r)' /\ Exactly(got', c, MaxKey, Snapshot(c, r)')
        BY <2>7, <3>1, <4>1, <4>2
      <4>4. r \in 1 .. Len(log')
        BY <4>3 DEF Version
      <4>5. QED
        BY <4>3, <4>4 DEF Whole
    <3>2. CASE c \notin DOMAIN parts
      <4>1. PICK r \in 1 .. Len(log) : Version(c, r) /\ Exactly(got, c, MaxKey, Snapshot(c, r))
        BY <2>4, <3>2 DEF PageExact, Whole
      <4>2. request.scope # {c}
        BY <2>3, <3>2
      <4>3. Version(c, r)'
        BY <2>6, <4>1, <4>2
      <4>4. \A k \in Keys : Home[k] = c => (k \in got <=> k \in got')
        BY <2>1, <2>3, <3>2
      <4>5. Exactly(got', c, MaxKey, Snapshot(c, r))
        BY <4>1, <4>4, CoveredSame DEF Exactly
      <4>6. QED
        BY <1>1, <2>5, <4>3, <4>5 DEF Whole
    <3>3. QED
      BY <3>1, <3>2
  <2>9. TokensExact'
    <3>1. ASSUME NEW c, NEW r, NEW i \in DOMAIN tokens', tokens'[i].cluster = c, tokens'[i].rev = r
          PROVE  Version(c, r)' /\ Exactly(got', c, tokens'[i].last, Snapshot(c, r)')
      <4>1. /\ c \in DOMAIN parts /\ parts[c].more /\ parts[c].last # 0
            /\ r = parts[c].returned /\ tokens'[i].last = parts[c].last
        BY <2>1, <3>1
      <4>2. Cursor(parts[c]) = parts[c].last
        BY <1>1, <4>1 DEF Cursor
      <4>3. QED
        BY <2>7, <4>1, <4>2
    <3>2. ASSUME NEW c \in request'.scope, \A i \in DOMAIN tokens' : tokens'[i].cluster # c
          PROVE  Whole(c)'
      BY <1>1, <2>1, <2>8, <3>2
    <3>3. QED
      BY <3>1, <3>2, Zenon DEF TokensExact
  <2>10. ASSUME phase' = "done", NEW c \in request'.scope
         PROVE  Whole(c)'
    <3>1. DOMAIN tokens' = {}
      BY <2>1, <2>10, EmptySeq
    <3>2. QED
      BY <1>1, <2>1, <2>8, <2>10, <3>1
  <2>11. QED
    BY <2>9, <2>10
<1>4. QED
  BY <1>1, <1>2, <1>3

\* The next page goes on at the revisions of the tokens.
LEMMA ContinueSnap ==
  ASSUME TypeInv, TypeInv', SnapInv, Continue
  PROVE  SnapInv'
<1> DEFINE C == ContinueClusters
           ok == \A c \in C : c \in Clusters /\ c < Len(tokens)
<1>1. /\ phase = "paging" /\ items' = {}
      /\ UNCHANGED <<log, request, tokens, got, rv, began, firstEnd>>
  BY DEF Continue, storageVars, clientVars
<1>2. ok => /\ parts' = [c \in C |-> Part(TokenRev(c), tokens[c + 1].last)]
            /\ phase' = "listing"
            /\ straight' = (straight /\ \A c \in C : tokens[c + 1].cluster = c)
            /\ consistent' = (consistent /\ \A c \in C : tokens[c + 1].rev > 0)
  BY Zenon DEF Continue, TokenRev
<1>3. ~ok => phase' = "failed"
  BY Zenon DEF Continue
<1>4. CASE ~ok
  <2>1. phase' = "failed"
    BY <1>3, <1>4
  <2>2. QED
    BY <2>1 DEF SnapInv
<1>5. CASE ok
  <2> SUFFICES ASSUME straight', consistent', request.sel = Keys PROVE PageExact'
    <3> HIDE DEF ok
    <3>1. phase' = "listing"
      BY <1>2, <1>5
    <3>2. QED
      BY <1>1, <3>1 DEF SnapInv
  <2>1. /\ straight /\ consistent
        /\ \A c \in C : tokens[c + 1].cluster = c /\ tokens[c + 1].rev > 0
        /\ parts' = [c \in C |-> Part(TokenRev(c), tokens[c + 1].last)]
        /\ DOMAIN parts' = C
    <3> HIDE DEF ok, C
    <3>1. QED
      BY <1>2, <1>5
  <2>2. /\ Len(tokens) \in Nat /\ DOMAIN tokens = 1 .. Len(tokens) /\ Len(log) \in Nat
        /\ request.scope # {} /\ Clusters \subseteq Nat
        /\ \A i \in DOMAIN tokens : tokens[i].rev = -1 => Len(tokens) = 1
    BY <1>1, LenProperties, KeyAssumption DEF TypeInv, TokensType, RequestInv, StoreInv
  <2>3. ASSUME NEW c \in C
        PROVE  c \in Clusters /\ c \in Nat /\ c < Len(tokens) /\ c + 1 \in DOMAIN tokens
    <3>1. c \in Clusters /\ c < Len(tokens)
      BY <1>5, <2>3
    <3> HIDE DEF ok, C
    <3>2. c \in Nat
      BY <2>2, <3>1
    <3>3. c + 1 \in 1 .. Len(tokens)
      BY <2>2, <3>1, <3>2
    <3>4. QED
      BY <2>2, <3>1, <3>2, <3>3
  <2>4. TokensExact
    <3>1. ASSUME NEW i \in DOMAIN tokens, tokens[i].rev = -1 PROVE FALSE
      <4>1. Len(tokens) = 1 /\ i = 1
        BY <2>2, <3>1
      <4>2. C = request.scope
        BY <3>1, <4>1 DEF ContinueClusters
      <4>3. PICK c : c \in C
        BY <2>2, <4>2
      <4>4. c + 1 = 1
        BY <2>3, <4>1, <4>3
      <4>5. tokens[1].rev > 0
        BY <2>1, <4>3, <4>4
      <4>6. QED
        BY <3>1, <4>1, <4>5
    <3>2. QED
      BY <1>1, <2>1, <3>1 DEF SnapInv
  <2>5. LogGrows
    BY <1>1, SameLog
  <2>6. /\ \A c : Whole(c) => Whole(c)'
        /\ \A c, r : Version(c, r) => Version(c, r)' /\ Snapshot(c, r)' = Snapshot(c, r)
    BY <1>1, <2>5, WholeGrows, VersionGrows
  <2>7. ASSUME NEW d \in request.scope, d \notin C PROVE Whole(d)'
    <3>1. C = 0 .. Len(tokens) - 1
      BY <2>7 DEF ContinueClusters
    <3>2. \A i \in DOMAIN tokens : tokens[i].cluster # d
      <4>1. SUFFICES ASSUME NEW i \in DOMAIN tokens PROVE tokens[i].cluster # d
        OBVIOUS
      <4>2. i - 1 \in C /\ (i - 1) + 1 = i
        BY <2>2, <3>1
      <4>3. tokens[i].cluster = i - 1
        BY <2>1, <4>2
      <4>4. QED
        BY <2>7, <4>2, <4>3
    <3>3. QED
      BY <2>4, <2>6, <3>2 DEF TokensExact
  <2>8. ASSUME NEW c \in C
        PROVE  ReadInv(c)' /\ ExactInv(c)'
    <3>1. PICK r : r = tokens[c + 1].rev
      OBVIOUS
    <3>2. /\ tokens[c + 1].last \in Keys /\ r \in {-1} \cup 1 .. Len(log) /\ r > 0
          /\ tokens[c + 1].cluster = c /\ c + 1 \in DOMAIN tokens
      BY <2>1, <2>3, <3>1, TokenPlace
    <3>3. Version(c, r) /\ Exactly(got, c, tokens[c + 1].last, Snapshot(c, r))
      BY <2>4, <3>1, <3>2 DEF TokensExact
    <3>4. TokenRev(c) = r /\ r \in 0 .. Len(log) /\ tokens[c + 1].last \in 0 .. MaxKey
      BY <2>2, <3>1, <3>2, KeyAssumption DEF TokenRev, Keys
    <3>5. /\ parts'[c].pc = "get" /\ parts'[c].rev = r /\ parts'[c].returned = r
          /\ parts'[c].start = tokens[c + 1].last
      BY <2>1, <2>2, <3>4, PartFacts
    <3>6. Cursor(parts'[c]) = tokens[c + 1].last
      BY <3>5 DEF Cursor
    <3>7. got' \cup items' = got
      BY <1>1
    <3>8. ExactInv(c)'
      BY <2>6, <3>3, <3>5, <3>6, <3>7 DEF ExactInv
    <3>9. ReadInv(c)'
      BY <3>2, <3>5 DEF ReadInv
    <3>10. QED
      BY <3>8, <3>9
  <2> HIDE DEF C, ok
  <2>9. QED
    BY <1>1, <2>1, <2>7, <2>8 DEF PageExact
<1>6. QED
  BY <1>4, <1>5

\* Every step keeps SnapInv.
LEMMA NextSnap ==
  ASSUME TypeInv, TypeInv', FindInv, FirstInv, FirstInv', SnapInv, [Next]_vars
  PROVE  SnapInv'
<1>1. CASE \E k \in Keys : WriteKey(k)
  <2>1. PICK k \in Keys : WriteKey(k)
    BY <1>1
  <2>2. LogGrows
    BY <2>1, WriteType
  <2>3. UNCHANGED <<phase, request, parts, items, tokens, got, rv, began, firstEnd, straight, consistent>>
    BY <2>1 DEF WriteKey, clientVars
  <2>4. QED
    BY <2>2, <2>3, QuietSnap
<1>2. CASE (\E c \in Clusters : CompactCluster(c)) \/ UNCHANGED vars
  <2>1. UNCHANGED <<log, phase, request, parts, items, tokens, got, rv, began, firstEnd,
                    straight, consistent>>
    BY <1>2 DEF CompactCluster, clientVars, vars
  <2>2. LogGrows
    BY <2>1, SameLog
  <2>3. QED
    BY <2>1, <2>2, QuietSnap
<1>3. CASE \E scope \in getClientsFromKey, sel \in Selections, limit \in {0, Limit},
              r \in {0, Len(log)} : List(scope, sel, limit, r)
  <2>1. Fresh'
    BY <1>3, ListFresh
  <2>2. QED
    BY <2>1, FreshSnapNext
<1>4. CASE Continue
  BY <1>4, ContinueSnap
<1>5. CASE \E c \in DOMAIN parts : Get(c) \/ Take(c) \/ Check(c)
  BY <1>5, GetSnap, TakeSnap, CheckSnap
<1>6. CASE \E c \in DOMAIN parts : ListError(c)
  <2>1. phase' \in {"failed", "expired"}
    BY <1>6, ErrorEffect
  <2>2. QED
    BY <2>1 DEF SnapInv
<1>7. CASE \E order \in SetToSeqs(DOMAIN parts) : Finish(order)
  BY <1>7, FinishSnap
<1>8. CASE FullList
  <2>1. Fresh'
    BY <1>8, FullEffect DEF Fresh
  <2>2. QED
    BY <2>1, FreshSnapNext
<1>9. CASE GoOnInconsistently
  <2>1. phase = "expired" /\ phase' = "paging" /\ tokens' = tokens
    BY <1>9 DEF GoOnInconsistently
  <2>2. QED
    BY <2>1 DEF FirstInv, SnapInv
<1>10. QED
  BY <1>1, <1>2, <1>3, <1>4, <1>5, <1>6, <1>7, <1>8, <1>9 DEF Next

\* What is whole is the cluster at a revision of the first page's time.
LEMMA SnapResult == TypeInv /\ FirstInv /\ SnapInv => PagesAreSnapshot
<1> SUFFICES ASSUME TypeInv, FirstInv, SnapInv, phase = "done", straight, consistent,
                    request.sel = Keys, NEW c \in request.scope
             PROVE  \E r \in IF request.scope = {c} THEN {rv} ELSE began .. firstEnd :
                      {k \in got : Home[k] = c} = Snapshot(c, r)
  BY DEF PagesAreSnapshot
<1>1. PICK r \in 1 .. Len(log) : Version(c, r) /\ Exactly(got, c, MaxKey, Snapshot(c, r))
  BY DEF SnapInv, Whole
<1>2. rv # 0 /\ firstEnd # 0
  BY DEF FirstInv
<1>3. {k \in got : Home[k] = c} = Snapshot(c, r)
  <2>1. got \subseteq Keys /\ Snapshot(c, r) \subseteq Keys /\ (\A k \in Keys : k <= MaxKey)
    BY KeyAssumption DEF TypeInv, ClientType, Snapshot, Keys
  <2>2. \A k \in Snapshot(c, r) : Home[k] = c
    BY DEF Snapshot
  <2>3. \A k \in Keys : Home[k] = c => (k \in got <=> k \in Snapshot(c, r))
    BY <1>1, <2>1 DEF Exactly, Covered
  <2>4. QED
    BY <2>1, <2>2, <2>3
<1>4. CASE request.scope = {c}
  BY <1>1, <1>2, <1>3, <1>4 DEF Version
<1>5. CASE request.scope # {c}
  <2>1. PICK m \in Window : Snapshot(c, r) = Snapshot(c, m)
    BY <1>1 DEF Version
  <2>2. m \in began .. firstEnd
    BY <1>2, <2>1 DEF Window
  <2>3. QED
    BY <1>3, <1>5, <2>1, <2>2
<1>6. QED
  BY <1>4, <1>5

(***************************************************************************)
(* PagesAreSnapshot, for any keys, clusters, page size, writes and         *)
(* compactions: without a selector and as long as each token is used for   *)
(* its cluster, the pages are the cluster as it was at the version of the  *)
(* list, or each of several as it was during the first page.  SnapInv says *)
(* that each goroutine reads its cluster once for a page, at the revision  *)
(* of the first, and FirstInv which page is the first.                     *)
(***************************************************************************)
THEOREM PagesStaySnapshot == Spec => []PagesAreSnapshot
<1>1. Init => FindInv /\ FirstInv /\ SnapInv
  <2>1. Init => SnapInv
    BY DEF Init, SnapInv
  <2>2. QED
    BY <2>1, FindInit, FirstInit
<1>2. TypeInv /\ TypeInv' /\ FindInv /\ FirstInv /\ SnapInv /\ [Next]_vars
        => FindInv' /\ FirstInv' /\ SnapInv'
  BY NextFind, NextFirst, NextSnap
<1>3. QED
  BY <1>1, <1>2, TypeInvariant, SnapResult, PTL DEF Spec
=============================================================================
