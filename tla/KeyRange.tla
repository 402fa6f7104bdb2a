------------------------------ MODULE KeyRange ------------------------------
(***************************************************************************)
(* The arithmetic of the controller scale-out framework: how the space of  *)
(* workload hash keys is cut into one range per controller instance.       *)
(*                                                                         *)
(*   pkg/cloudfabric-controller/controllerframework/                       *)
(*        controller_framework_utils.go, controller_framework.go           *)
(*   staging/src/k8s.io/apimachinery/pkg/apis/meta/fuzzer/fuzzer.go        *)
(*                                                                         *)
(* MaxKey stands for math.MaxInt64.  Positions are 0-based as in Go.       *)
(***************************************************************************)
EXTENDS Integers

CONSTANT MaxKey     \* the largest int64, the upper end of the key space

ASSUME MaxKeyAssumption == MaxKey \in Nat \ {0}

Keys == 0 .. MaxKey

(***************************************************************************)
(* reassignControllerKeys walks the sorted instances from the last to the  *)
(* first and gives each one the interval below the previous one.  These    *)
(* are the values the loop leaves at position i of n instances; module     *)
(* ReassignKeys models the loop itself and shows it computes them.         *)
(***************************************************************************)
Interval(n) == MaxKey \div n

\* Mutant: the walk starts one interval too high.
UpperKeyTooHigh(n, i) == MaxKey - (n - 2 - i) * Interval(n)

UpperKey(n, i) == MaxKey - (n - 1 - i) * Interval(n)

LowerKey(n, i) == IF i = 0 THEN 0 ELSE MaxKey - (n - i) * Interval(n)

\* Mutant: the range is closed at both ends.
InRangeClosed(key, lower, upper) == key >= 0 /\ lower <= key /\ key <= upper

(***************************************************************************)
(* The comparison of IsInRange, once the instance has a position: the      *)
(* range is (lower, upper], closed below only at key 0.                    *)
(***************************************************************************)
InRange(key, lower, upper) ==
  /\ key >= 0
  /\ \/ key = 0 /\ lower = 0
     \/ lower < key /\ key <= upper

(***************************************************************************)
(* GetHashOfUUID folds a 64-bit FNV sum into an int64.  The sum ranges     *)
(* over the unsigned values 0 .. 2*MaxKey + 1; the final conversion is Go's *)
(* two's complement wrap of a value that does not fit.                     *)
(***************************************************************************)
RawHashes == 0 .. 2 * MaxKey + 1

ToInt64(u) == IF u > MaxKey THEN u - 2 * (MaxKey + 1) ELSE u

\* Mutant: the sum one above the largest key is not folded.
GetHashOfUUIDLate(raw) ==
  ToInt64(IF raw > MaxKey + 1 THEN raw - MaxKey ELSE raw)

GetHashOfUUID(raw) ==
  ToInt64(IF raw > MaxKey THEN raw - MaxKey ELSE raw)
=============================================================================
