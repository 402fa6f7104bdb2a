----------------------- MODULE MCControllerFramework ------------------------
(***************************************************************************)
(* Instances of ControllerFramework for TLC.                               *)
(*                                                                         *)
(* SettledInit starts in the state two processes reach when the one with   *)
(* the larger uuid starts first, the other joins, and all messages drain:  *)
(* neither health report is needed, since the first keeps the key MaxKey.  *)
(* Entries expire and processes crash from there.                          *)
(***************************************************************************)
EXTENDS ControllerFramework

CONSTANT Settled    \* the two processes that are already running

ASSUME SettledAssumption == Settled \subseteq Procs /\ Cardinality(Settled) = 2

SettledInit ==
  LET Old == Settled \X Types
      First(c) == \A d \in Old : c[1] <= d[1]
      Place(c) == IF First(c) THEN 0 ELSE 1
      Team(t) == CHOOSE s \in SortedLists(Settled \X {t}) : TRUE
      One(c) == IF c \in Old THEN 1 ELSE 0
      Copies == [p \in Procs |-> [i \in Instances |-> IF p \in Settled THEN One(i) ELSE 0]]
  IN /\ log = [c \in Instances |->
                 IF c \in Old THEN <<[key |-> UpperKey(2, Place(c)), load |-> 0, live |-> TRUE]>>
                 ELSE <<>>]
     /\ proc = [p \in Procs |-> IF p \in Settled THEN "up" ELSE "off"]
     /\ pos = Copies /\ store = Copies /\ cim = Copies
     /\ updates = [c \in Instances |-> [t \in Types |-> 0]]
     /\ pc = [c \in Instances |-> IF c \in Old THEN "idle" ELSE "none"]
     /\ listing = [c \in Instances |-> {}]
     /\ listedLoad = [c \in Instances |-> 0]
     /\ sorted = [c \in Instances |-> IF c \in Old THEN Team(c[2]) ELSE <<>>]
     /\ curPos = [c \in Instances |-> IF c \in Old THEN Place(c) ELSE -1]
     /\ controllerKey = [c \in Instances |-> IF c \in Old THEN UpperKey(2, Place(c)) ELSE 0]
     /\ workloadNum = [c \in Instances |-> 0]
     /\ sends = [c \in Instances |-> <<>>]
     /\ filter = [c \in Instances |->
                    IF c \in Old THEN [lower |-> LowerKey(2, Place(c)), upper |-> UpperKey(2, Place(c))]
                    ELSE NoBound]
     /\ busy = [c \in Instances |-> {}]
     /\ budget = [beats |-> MaxBeats, leaves |-> MaxLeaves, crashes |-> MaxCrashes]
     /\ lost = [p \in Procs |-> {}]

SettledSpec == SettledInit /\ [][Next]_vars
=============================================================================
