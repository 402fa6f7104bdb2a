---------------------------- MODULE ReassignKeys ----------------------------
(***************************************************************************)
(* The loop of reassignControllerKeys                                      *)
(* (controller_framework_utils.go), one action per iteration, run on any   *)
(* number of instances up to MaxInstances.                                 *)
(***************************************************************************)
EXTENDS KeyRange

CONSTANT MaxInstances   \* bound on len(instances)

ASSUME MaxInstancesAssumption == MaxInstances \in Nat \ {0}

VARIABLES
  count,      \* len(instances)
  index,      \* the loop variable i; -1 once the loop has ended
  startKey,   \* the upper end still to be handed out
  upperKeys,  \* instances[_].controllerKey
  lowerKeys   \* instances[_].lowerboundKey

loopVars == <<count, index, startKey, upperKeys, lowerKeys>>

Positions == 0 .. count - 1

(***************************************************************************)
(* The instances arrive with the keys they had in the registry, which the  *)
(* loop overwrites: the model starts them at 0.  The function returns at   *)
(* once on an empty slice, so count is 1 or more.                          *)
(***************************************************************************)
LoopInit ==
  /\ count \in 1 .. MaxInstances
  /\ index = count - 1
  /\ startKey = MaxKey
  /\ upperKeys = [j \in Positions |-> 0]
  /\ lowerKeys = [j \in Positions |-> 0]

\* Mutant: the first instance keeps the computed lower end like the others.
AssignNextNoFloor ==
  /\ index >= 0
  /\ upperKeys' = [upperKeys EXCEPT ![index] = startKey]
  /\ startKey' = startKey - Interval(count)
  /\ lowerKeys' = [lowerKeys EXCEPT ![index] = startKey - Interval(count)]
  /\ index' = index - 1
  /\ UNCHANGED count

\* Mutant: the interval is taken off before the upper end is assigned.
AssignNextLate ==
  /\ index >= 0
  /\ upperKeys' = [upperKeys EXCEPT ![index] = startKey - Interval(count)]
  /\ startKey' = startKey - Interval(count)
  /\ lowerKeys' = [lowerKeys EXCEPT ![index] = IF index > 0 THEN startKey - Interval(count) ELSE 0]
  /\ index' = index - 1
  /\ UNCHANGED count

AssignNext ==
  /\ index >= 0
  /\ upperKeys' = [upperKeys EXCEPT ![index] = startKey]
  /\ startKey' = startKey - Interval(count)
  /\ lowerKeys' = [lowerKeys EXCEPT ![index] = IF index > 0 THEN startKey - Interval(count) ELSE 0]
  /\ index' = index - 1
  /\ UNCHANGED count

LoopDone == index = -1 /\ UNCHANGED loopVars

LoopNext == AssignNext \/ LoopDone

LoopSpec == LoopInit /\ [][LoopNext]_loopVars

-----------------------------------------------------------------------------
LoopTypeOK ==
  /\ count \in 1 .. MaxInstances
  /\ index \in -1 .. count - 1
  /\ startKey \in Int
  /\ upperKeys \in [Positions -> Int]
  /\ lowerKeys \in [Positions -> Int]

(***************************************************************************)
(* The loop invariant: startKey is what remains after the instances above  *)
(* index have taken one interval each, and those instances hold the closed *)
(* form values of KeyRange.                                                *)
(***************************************************************************)
LoopInv ==
  /\ LoopTypeOK
  /\ index >= 0 => startKey = UpperKey(count, index)
  /\ \A j \in Positions : j > index => /\ upperKeys[j] = UpperKey(count, j)
                                       /\ lowerKeys[j] = LowerKey(count, j)

(***************************************************************************)
(* reassignControllerKeys ends with the ranges tiling the key space: every *)
(* key of 0 .. MaxKey lies in the range of exactly one instance, whatever  *)
(* the remainder of the integer division.                                  *)
(***************************************************************************)
KeysPartitioned ==
  index = -1 =>
    \A k \in Keys :
      /\ \E j \in Positions : InRange(k, lowerKeys[j], upperKeys[j])
      /\ \A j1, j2 \in Positions :
            InRange(k, lowerKeys[j1], upperKeys[j1]) /\ InRange(k, lowerKeys[j2], upperKeys[j2])
              => j1 = j2

(***************************************************************************)
(* Once the ranges are assigned every workload has exactly one owner,      *)
(* whatever its hash, but for one: the largest sum folds to the smallest   *)
(* int64, which no range contains.  (docs/design-proposals/controller/     *)
(* scaleout-framework/ControllerFramework.md: "use 0 - max(int64) as the   *)
(* range")                                                                 *)
(***************************************************************************)
EveryHashOwnedButOne ==
  index = -1 =>
    \A raw \in RawHashes :
      LET Owners == {j \in Positions : InRange(GetHashOfUUID(raw), lowerKeys[j], upperKeys[j])}
      IN IF raw = 2 * MaxKey + 1 THEN Owners = {} ELSE \E j \in Positions : Owners = {j}
=============================================================================
