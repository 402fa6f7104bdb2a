--------------------------- MODULE KeyRangeProofs ---------------------------
(***************************************************************************)
(* Facts about the ranges of KeyRange and the loop of ReassignKeys, for    *)
(* every MaxKey and every number of instances.                             *)
(***************************************************************************)
EXTENDS ReassignKeys, TLAPS

(***************************************************************************)
(* What integer division gives: the interval reassignControllerKeys hands  *)
(* out fits n times into the key space.                                    *)
(***************************************************************************)
LEMMA DivFacts ==
  ASSUME NEW a \in Nat, NEW b \in Nat, b > 0
  PROVE  /\ a \div b \in Nat
         /\ (a \div b) * b <= a
         /\ a < (a \div b) * b + b
<1>1. a \div b \in Nat
  OBVIOUS
<1>2. a % b \in 0 .. b - 1
  OBVIOUS
<1>3. a = b * (a \div b) + (a % b)
  OBVIOUS
<1>4. QED
  BY <1>1, <1>2, <1>3

\* Multiplication by a natural number is monotone.
LEMMA TimesMono ==
  ASSUME NEW a \in Nat, NEW b \in Nat, NEW d \in Nat, a <= b
  PROVE  /\ a * d \in Nat
         /\ b * d \in Nat
         /\ a * d <= b * d
<1>1. (b - a) * d \in Nat
  OBVIOUS
<1>2. b * d = a * d + (b - a) * d
  OBVIOUS
<1>3. QED
  BY <1>1, <1>2

\* A product strictly smaller means a factor strictly smaller.
LEMMA TimesCancel ==
  ASSUME NEW a \in Nat, NEW b \in Nat, NEW d \in Nat, a * d < b * d
  PROVE  a < b
<1>1. SUFFICES ASSUME b <= a PROVE FALSE
  OBVIOUS
<1>2. b * d <= a * d
  BY <1>1, TimesMono
<1>3. QED
  BY <1>2

\* n intervals fit into the key space.
LEMMA IntervalFacts ==
  ASSUME NEW n \in Nat, n > 0
  PROVE  Interval(n) \in Nat /\ n * Interval(n) <= MaxKey
<1>1. Interval(n) \in Nat /\ Interval(n) * n <= MaxKey
  BY DivFacts, MaxKeyAssumption DEF Interval
<1>2. QED
  BY <1>1

\* The ends of a range are keys.
LEMMA BoundsAreKeys ==
  ASSUME NEW n \in Nat, n > 0, NEW i \in 0 .. n - 1
  PROVE  UpperKey(n, i) \in Keys /\ LowerKey(n, i) \in Keys
<1> DEFINE d == Interval(n)
<1>1. d \in Nat /\ n * d <= MaxKey
  BY IntervalFacts
<1> HIDE DEF d
<1>2. (n - 1 - i) * d \in Nat /\ (n - 1 - i) * d <= n * d
  BY <1>1, TimesMono, n - 1 - i \in Nat, n - 1 - i <= n
<1>3. (n - i) * d \in Nat /\ (n - i) * d <= n * d
  BY <1>1, TimesMono, n - i \in Nat, n - i <= n
<1>4. UpperKey(n, i) = MaxKey - (n - 1 - i) * d
  BY DEF UpperKey, d
<1>5. LowerKey(n, i) = IF i = 0 THEN 0 ELSE MaxKey - (n - i) * d
  BY DEF LowerKey, d
<1>6. QED
  BY <1>1, <1>2, <1>3, <1>4, <1>5, MaxKeyAssumption DEF Keys

\* A range ends before the next ones begin.
LEMMA RangesOrdered ==
  ASSUME NEW n \in Nat, n > 0, NEW i \in 0 .. n - 1, NEW j \in 0 .. n - 1, i < j
  PROVE  UpperKey(n, i) <= LowerKey(n, j)
<1> DEFINE d == Interval(n)
<1>1. d \in Nat
  BY IntervalFacts
<1> HIDE DEF d
<1>2. /\ (n - j) * d \in Nat /\ (n - 1 - i) * d \in Nat
      /\ (n - j) * d <= (n - 1 - i) * d
  BY <1>1, TimesMono, n - j \in Nat, n - 1 - i \in Nat, n - j <= n - 1 - i
<1>3. UpperKey(n, i) = MaxKey - (n - 1 - i) * d
  BY DEF UpperKey, d
<1>4. LowerKey(n, j) = MaxKey - (n - j) * d
  BY j # 0 DEF LowerKey, d
<1>5. QED
  BY <1>2, <1>3, <1>4, MaxKeyAssumption

(***************************************************************************)
(* No key is in the ranges of two positions: two controllers with the same *)
(* list of instances never both answer TRUE in IsInRange.                  *)
(***************************************************************************)
THEOREM RangesDisjoint ==
  ASSUME NEW n \in Nat, n > 0, NEW i \in 0 .. n - 1, NEW j \in 0 .. n - 1,
         NEW k \in Keys,
         InRange(k, LowerKey(n, i), UpperKey(n, i)),
         InRange(k, LowerKey(n, j), UpperKey(n, j))
  PROVE  i = j
<1>1. ASSUME NEW a \in 0 .. n - 1, NEW b \in 0 .. n - 1, a < b,
             InRange(k, LowerKey(n, a), UpperKey(n, a)),
             InRange(k, LowerKey(n, b), UpperKey(n, b))
      PROVE  FALSE
  <2>1. /\ UpperKey(n, a) \in Keys /\ LowerKey(n, a) \in Keys
        /\ UpperKey(n, b) \in Keys /\ LowerKey(n, b) \in Keys
    BY BoundsAreKeys
  <2>2. UpperKey(n, a) <= LowerKey(n, b)
    BY <1>1, RangesOrdered
  <2>3. CASE k # 0
    BY <2>1, <2>2, <2>3, <1>1, MaxKeyAssumption DEF InRange, Keys
  <2>4. CASE k = 0
    \* then the lower end of b is 0, so the upper end of a is 0 as well
    <3>1. LowerKey(n, b) = 0
      BY <1>1, <2>1, <2>4, MaxKeyAssumption DEF InRange, Keys
    <3> DEFINE d == Interval(n)
    <3>2. d \in Nat /\ n * d <= MaxKey
      BY IntervalFacts
    <3> HIDE DEF d
    <3>3. LowerKey(n, b) = MaxKey - (n - b) * d
      BY <1>1, b # 0 DEF LowerKey, d
    <3>4. (n - b) * d \in Nat /\ (n - b) * d <= (n - 1) * d /\ (n - 1) * d \in Nat
      BY <1>1, <3>2, TimesMono, n - b \in Nat, n - 1 \in Nat, n - b <= n - 1
    <3>5. n * d = (n - 1) * d + d
      BY <3>2
    <3>6. d = 0
      BY <3>1, <3>2, <3>3, <3>4, <3>5, MaxKeyAssumption
    <3>7. (n - b) * d = 0
      BY <3>6
    <3>8. QED
      BY <3>1, <3>3, <3>7, MaxKeyAssumption
  <2>5. QED
    BY <2>3, <2>4
<1>2. QED
  BY <1>1

(***************************************************************************)
(* Every key is in the range of some position: no workload is without an   *)
(* owner, whatever the remainder of the division.                          *)
(***************************************************************************)
THEOREM RangesCover ==
  ASSUME NEW n \in Nat, n > 0, NEW k \in Keys
  PROVE  \E i \in 0 .. n - 1 : InRange(k, LowerKey(n, i), UpperKey(n, i))
<1> DEFINE d == Interval(n)
<1>1. d \in Nat
  BY IntervalFacts
<1>2. UpperKey(n, 0) \in Keys /\ LowerKey(n, 0) = 0
  BY BoundsAreKeys, 0 \in 0 .. n - 1 DEF LowerKey
<1>3. UpperKey(n, 0) = MaxKey - (n - 1) * d
  BY DEF UpperKey
<1>4. CASE k <= UpperKey(n, 0)
  <2>1. InRange(k, LowerKey(n, 0), UpperKey(n, 0))
    BY <1>2, <1>4, MaxKeyAssumption DEF InRange, Keys
  <2>2. QED
    BY <2>1, 0 \in 0 .. n - 1
<1>5. CASE k > UpperKey(n, 0)
  <2> HIDE DEF d
  <2>1. d > 0
    <3>1. ASSUME d = 0 PROVE FALSE
      <4>1. (n - 1) * d = 0
        BY <3>1
      <4>2. QED
        BY <4>1, <1>3, <1>5, MaxKeyAssumption DEF Keys
    <3>2. QED
      BY <3>1, <1>1
  <2> DEFINE q == (MaxKey - k) \div d
  <2>2. MaxKey - k \in Nat
    BY MaxKeyAssumption DEF Keys
  <2>3. q \in Nat /\ q * d <= MaxKey - k /\ MaxKey - k < q * d + d
    BY <1>1, <2>1, <2>2, DivFacts
  <2> HIDE DEF q
  <2>4. n - 1 \in Nat /\ (n - 1) * d \in Nat
    BY <1>1, TimesMono
  <2>5. q * d < (n - 1) * d
    BY <1>1, <1>3, <1>5, <2>3, <2>4, TimesMono, MaxKeyAssumption DEF Keys
  <2>6. q < n - 1
    BY <1>1, <2>3, <2>4, <2>5, TimesCancel
  <2> DEFINE p == n - 1 - q
  <2>7. p \in 1 .. n - 1 /\ n - 1 - p = q /\ n - p = q + 1
    BY <2>3, <2>6
  <2>8. (q + 1) * d = q * d + d /\ q * d \in Nat
    BY <1>1, <2>3, TimesMono
  <2>9. UpperKey(n, p) = MaxKey - q * d
    BY <2>7 DEF UpperKey, d
  <2>10. LowerKey(n, p) = MaxKey - (q + 1) * d
    BY <2>7, p # 0 DEF LowerKey, d
  <2>11. InRange(k, LowerKey(n, p), UpperKey(n, p))
    BY <1>1, <2>3, <2>8, <2>9, <2>10, MaxKeyAssumption DEF InRange, Keys
  <2>12. QED
    BY <2>7, <2>11
<1>6. QED
  BY <1>2, <1>4, <1>5 DEF Keys

-----------------------------------------------------------------------------
(* The loop of reassignControllerKeys computes the ranges of KeyRange and  *)
(* so partitions the key space.                                            *)

\* One step down the list takes one interval off the upper end.
LEMMA StepDown ==
  ASSUME NEW m \in Nat, m > 0, NEW j \in 0 .. m - 1
  PROVE  /\ j > 0 => UpperKey(m, j) - Interval(m) = LowerKey(m, j)
         /\ j > 0 => UpperKey(m, j) - Interval(m) = UpperKey(m, j - 1)
         /\ j = 0 => LowerKey(m, j) = 0
<1> DEFINE d == Interval(m)
<1>1. d \in Nat
  BY IntervalFacts
<1>2. UpperKey(m, j) = MaxKey - (m - 1 - j) * d
  BY DEF UpperKey
<1>3. j > 0 => UpperKey(m, j - 1) = MaxKey - (m - j) * d
  BY m - 1 - (j - 1) = m - j DEF UpperKey
<1>4. j > 0 => LowerKey(m, j) = MaxKey - (m - j) * d
  BY DEF LowerKey
<1> HIDE DEF d
<1>5. (m - j) * d = (m - 1 - j) * d + d
  BY <1>1
<1>6. (m - 1 - j) * d \in Int
  BY <1>1
<1>7. j = 0 => LowerKey(m, j) = 0
  BY DEF LowerKey
<1>8. j > 0 => /\ UpperKey(m, j) - d = LowerKey(m, j)
               /\ UpperKey(m, j) - d = UpperKey(m, j - 1)
  BY <1>1, <1>2, <1>3, <1>4, <1>5, <1>6, MaxKeyAssumption
<1>9. QED
  BY <1>7, <1>8 DEF d

(***************************************************************************)
(* The loop invariant of reassignControllerKeys: the instances already     *)
(* visited hold their final keys and startKey is the next upper end.       *)
(***************************************************************************)
THEOREM LoopInvariant == LoopSpec => []LoopInv
<1>1. LoopInit => LoopInv
  <2> SUFFICES ASSUME LoopInit PROVE LoopInv
    OBVIOUS
  <2>1. count \in Nat /\ count > 0 /\ count \in 1 .. MaxInstances
    BY MaxInstancesAssumption DEF LoopInit
  <2>2. LoopTypeOK
    BY <2>1, MaxKeyAssumption DEF LoopInit, LoopTypeOK, Positions
  <2>3. UpperKey(count, count - 1) = MaxKey
    <3>1. (count - 1 - (count - 1)) * Interval(count) = 0
      BY <2>1, IntervalFacts
    <3>2. QED
      BY <3>1, MaxKeyAssumption DEF UpperKey
  <2>4. QED
    BY <2>1, <2>2, <2>3 DEF LoopInit, LoopInv, Positions
<1>2. LoopInv /\ [LoopNext]_loopVars => LoopInv'
  <2> SUFFICES ASSUME LoopInv, [LoopNext]_loopVars PROVE LoopInv'
    OBVIOUS
  <2>0. count \in Nat /\ count > 0 /\ Interval(count) \in Nat
    BY IntervalFacts, MaxInstancesAssumption DEF LoopInv, LoopTypeOK
  <2>1. CASE AssignNext
    <3>1. index \in 0 .. count - 1 /\ count' = count /\ index' = index - 1 /\ index' \in -1 .. count - 1
      BY <2>0, <2>1 DEF AssignNext, LoopInv, LoopTypeOK
    <3>2. startKey = UpperKey(count, index)
      BY <3>1 DEF LoopInv
    <3>3. UpperKey(count, index) \in Int /\ LowerKey(count, index) \in Int
      BY <2>0, <3>1, BoundsAreKeys DEF Keys
    <3>4. /\ index > 0 => startKey - Interval(count) = LowerKey(count, index)
          /\ index > 0 => startKey - Interval(count) = UpperKey(count, index - 1)
          /\ index = 0 => LowerKey(count, index) = 0
      BY <2>0, <3>1, <3>2, StepDown
    <3>5. upperKeys' = [upperKeys EXCEPT ![index] = UpperKey(count, index)]
      BY <2>1, <3>2 DEF AssignNext
    <3>6. lowerKeys' = [lowerKeys EXCEPT ![index] = LowerKey(count, index)]
      <4>1. (IF index > 0 THEN startKey - Interval(count) ELSE 0) = LowerKey(count, index)
        BY <3>1, <3>4
      <4>2. QED
        BY <2>1, <4>1 DEF AssignNext
    <3>7. LoopTypeOK'
      BY <2>0, <2>1, <3>1, <3>3, <3>5, <3>6 DEF AssignNext, LoopInv, LoopTypeOK, Positions
    <3>8. index' >= 0 => startKey' = UpperKey(count', index')
      BY <2>1, <3>1, <3>4 DEF AssignNext
    <3>9. ASSUME NEW j \in Positions', j > index'
          PROVE  upperKeys'[j] = UpperKey(count', j) /\ lowerKeys'[j] = LowerKey(count', j)
      <4>1. CASE j = index
        BY <3>1, <3>5, <3>6, <4>1 DEF LoopInv, LoopTypeOK, Positions
      <4>2. CASE j # index
        BY <3>1, <3>5, <3>6, <3>9, <4>2 DEF LoopInv, LoopTypeOK, Positions
      <4>3. QED
        BY <4>1, <4>2
    <3>10. QED
      BY <3>7, <3>8, <3>9 DEF LoopInv
  <2>2. CASE UNCHANGED loopVars
    BY <2>2 DEF LoopInv, LoopTypeOK, Positions, loopVars
  <2>3. QED
    BY <2>1, <2>2 DEF LoopNext, LoopDone
<1>3. QED
  BY <1>1, <1>2, PTL DEF LoopSpec

(***************************************************************************)
(* reassignControllerKeys ends with every key of the space in the range of *)
(* exactly one instance.                                                   *)
(***************************************************************************)
THEOREM LoopPartitions == LoopSpec => []KeysPartitioned
<1>1. LoopInv => KeysPartitioned
  <2> SUFFICES ASSUME LoopInv, index = -1, NEW k \in Keys
               PROVE  /\ \E j \in Positions : InRange(k, lowerKeys[j], upperKeys[j])
                      /\ \A j1, j2 \in Positions :
                           InRange(k, lowerKeys[j1], upperKeys[j1]) /\ InRange(k, lowerKeys[j2], upperKeys[j2])
                             => j1 = j2
    BY DEF KeysPartitioned
  <2>1. count \in Nat /\ count > 0 /\ Positions = 0 .. count - 1
    BY MaxInstancesAssumption DEF LoopInv, LoopTypeOK, Positions
  <2>2. \A j \in Positions : upperKeys[j] = UpperKey(count, j) /\ lowerKeys[j] = LowerKey(count, j)
    BY <2>1 DEF LoopInv
  <2>3. \E j \in Positions : InRange(k, lowerKeys[j], upperKeys[j])
    BY <2>1, <2>2, RangesCover
  <2>4. \A j1, j2 \in Positions :
          InRange(k, lowerKeys[j1], upperKeys[j1]) /\ InRange(k, lowerKeys[j2], upperKeys[j2]) => j1 = j2
    BY <2>1, <2>2, RangesDisjoint
  <2>5. QED
    BY <2>3, <2>4
<1>2. QED
  BY <1>1, LoopInvariant, PTL

(***************************************************************************)
(* Where the fold of GetHashOfUUID puts a sum: in the key space, but for   *)
(* the largest one.                                                        *)
(***************************************************************************)
LEMMA HashInKeys ==
  ASSUME NEW raw \in RawHashes
  PROVE  IF raw = 2 * MaxKey + 1 THEN GetHashOfUUID(raw) < 0 ELSE GetHashOfUUID(raw) \in Keys
BY MaxKeyAssumption DEF RawHashes, GetHashOfUUID, ToInt64, Keys

(***************************************************************************)
(* After reassignControllerKeys every workload but those with one hash has *)
(* exactly one owner, for every width of the hash and number of instances. *)
(***************************************************************************)
THEOREM HashesOwned == LoopSpec => []EveryHashOwnedButOne
<1>1. KeysPartitioned => EveryHashOwnedButOne
  <2> SUFFICES ASSUME KeysPartitioned, index = -1, NEW raw \in RawHashes
               PROVE  LET Owners == {j \in Positions :
                                       InRange(GetHashOfUUID(raw), lowerKeys[j], upperKeys[j])}
                      IN IF raw = 2 * MaxKey + 1 THEN Owners = {}
                         ELSE \E j \in Positions : Owners = {j}
    BY DEF EveryHashOwnedButOne
  <2> DEFINE h == GetHashOfUUID(raw)
             Owners == {j \in Positions : InRange(h, lowerKeys[j], upperKeys[j])}
  <2>1. CASE raw = 2 * MaxKey + 1
    <3>1. ~(h >= 0)
      BY <2>1, HashInKeys, MaxKeyAssumption DEF RawHashes, GetHashOfUUID, ToInt64
    <3>2. QED
      BY <2>1, <3>1 DEF InRange
  <2>2. CASE raw # 2 * MaxKey + 1
    <3>1. h \in Keys
      BY <2>2, HashInKeys
    <3> HIDE DEF h
    <3>2. PICK j \in Positions : InRange(h, lowerKeys[j], upperKeys[j])
      BY <3>1 DEF KeysPartitioned
    <3>3. Owners = {j}
      BY <3>1, <3>2 DEF KeysPartitioned
    <3>4. QED
      BY <2>2, <3>3 DEF h
  <2>3. QED
    BY <2>1, <2>2
<1>2. QED
  BY <1>1, LoopPartitions, PTL
=============================================================================
