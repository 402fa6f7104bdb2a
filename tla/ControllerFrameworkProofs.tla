--------------------- MODULE ControllerFrameworkProofs ----------------------
(***************************************************************************)
(* Safety of the controller scale-out framework, for every number of       *)
(* processes, types, workloads and bounds: the assumptions used are the    *)
(* ones ControllerFramework and KeyRange state of their constants.         *)
(***************************************************************************)
EXTENDS ControllerFramework, KeyRangeProofs, FiniteSetTheorems, SequenceTheorems

-----------------------------------------------------------------------------
(* Facts about the operators.                                              *)

LEMMA InstancesFinite ==
  /\ IsFiniteSet(Instances)
  /\ \A S \in SUBSET Instances : IsFiniteSet(S) /\ Cardinality(S) \in Nat
<1>1. IsFiniteSet(Instances)
  BY FS_Product, ProcsAssumption, TypesAssumption DEF Instances
<1>2. QED
  BY <1>1, FS_Subset, FS_CardinalityType

\* What a sorted list is: its positions are those of a Go slice with all of S.
LEMMA SortedListFacts ==
  ASSUME NEW S \in SUBSET Instances, NEW s \in SortedLists(S)
  PROVE  /\ Names(s) = S /\ Size(s) = Cardinality(S) /\ Size(s) \in Nat
         /\ DOMAIN s = 0 .. Size(s) - 1
         /\ s \in SortedLists(Names(s))
         /\ S # {} => Size(s) > 0
         /\ \A x \in S : \E a \in DOMAIN s : s[a] = x
<1>1. Names(s) = S /\ Size(s) = Cardinality(S)
  BY DEF SortedLists, Size
<1>2. IsFiniteSet(S) /\ Cardinality(S) \in Nat
  BY InstancesFinite
<1>3. S # {} => Cardinality(S) # 0
  BY <1>2, FS_EmptySet
<1>4. DOMAIN s = 0 .. Size(s) - 1
  BY <1>1 DEF SortedLists
<1>5. s \in SortedLists(Names(s))
  BY <1>1
<1>6. \A x \in S : \E a \in DOMAIN s : s[a] = x
  BY <1>1 DEF Names
<1>7. QED
  BY <1>1, <1>2, <1>3, <1>4, <1>5, <1>6

\* The empty list is the sorted list of nothing.
LEMMA EmptyList == Names(<<>>) = {} /\ <<>> \in SortedLists({})
<1>1. DOMAIN <<>> = {} /\ Names(<<>>) = {}
  BY DEF Names
<1>2. Cardinality({}) = 0 /\ 0 .. 0 - 1 = {}
  BY FS_EmptySet
<1>3. <<>> = [a \in DOMAIN <<>> |-> <<>>[a]]
  OBVIOUS
<1>4. <<>> \in [{} -> {}]
  BY <1>1, <1>3
<1>5. QED
  BY <1>1, <1>2, <1>4 DEF SortedLists

\* Taking the element at position a out of a sequence leaves a sequence.
LEMMA RemoveAt ==
  ASSUME NEW S, NEW s \in Seq(S), NEW a \in DOMAIN s
  PROVE  [b \in 1 .. Len(s) - 1 |-> IF b < a THEN s[b] ELSE s[b + 1]] \in Seq(S)
<1>1. Len(s) \in Nat /\ DOMAIN s = 1 .. Len(s) /\ \A b \in 1 .. Len(s) : s[b] \in S
  BY SeqDef
<1>2. Len(s) - 1 \in Nat
  BY <1>1
<1>3. \A b \in 1 .. Len(s) - 1 : (IF b < a THEN s[b] ELSE s[b + 1]) \in S
  BY <1>1
<1> DEFINE m == Len(s) - 1
           r == [b \in 1 .. m |-> IF b < a THEN s[b] ELSE s[b + 1]]
<1>4. r \in [1 .. m -> S]
  BY <1>3
<1> HIDE DEF r, m
<1>5. r \in Seq(S)
  BY <1>2, <1>4 DEF m
<1>6. QED
  BY <1>5 DEF r, m

(***************************************************************************)
(* What updateCachedControllerInstances does to the controller c it is     *)
(* called for, and that it leaves every other controller alone.            *)
(***************************************************************************)
LEMMA UpdateCachedFacts ==
  ASSUME TypeOK, NEW c \in Instances, NEW S \in SUBSET Instances, NEW load \in Loads,
         UpdateCachedControllerInstances(c, S, load)
  PROVE  /\ DOMAIN sorted' = Instances
         /\ \A d \in Instances : sorted'[d] \in SortedLists(Names(sorted'[d]))
         /\ curPos' \in [Instances -> Int]
         /\ controllerKey' \in [Instances -> Keys]
         /\ workloadNum' \in [Instances -> Loads]
         /\ sends' \in [Instances -> Seq(Bound)]
         /\ \A d \in Instances \ {c} : /\ sorted'[d] = sorted[d]
                                       /\ curPos'[d] = curPos[d]
                                       /\ controllerKey'[d] = controllerKey[d]
         /\ c \in S => Names(sorted'[c]) = S
         /\ c \notin S => UNCHANGED rangeVars
         /\ c \in S /\ sorted'[c] # sorted[c] =>
              /\ curPos'[c] \in DOMAIN sorted'[c]
              /\ sorted'[c][curPos'[c]] = c
              /\ controllerKey'[c] = UpperKey(Size(sorted'[c]), curPos'[c])
         /\ sorted'[c] = sorted[c] => UNCHANGED rangeVars
<1>1. PICK new \in SortedLists(S) :
        IF sorted[c] = new \/ c \notin S
        THEN UNCHANGED rangeVars
        ELSE LET n == Size(new)
                 newPos == CHOOSE a \in DOMAIN new : new[a] = c
                 isSelfUpdated == \/ controllerKey[c] # UpperKey(n, newPos)
                                  \/ curPos[c] < 0
                                  \/ LowerOf(c) # LowerKey(n, newPos)
             IN /\ sorted' = [sorted EXCEPT ![c] = new]
                /\ curPos' = [curPos EXCEPT ![c] = newPos]
                /\ workloadNum' = [workloadNum EXCEPT ![c] = load]
                /\ IF isSelfUpdated
                   THEN /\ controllerKey' = [controllerKey EXCEPT ![c] = UpperKey(n, newPos)]
                        /\ sends' = [sends EXCEPT ![c] =
                                       Append(@, [lower |-> LowerKey(n, newPos),
                                                  upper |-> UpperKey(n, newPos)])]
                   ELSE UNCHANGED <<controllerKey, sends>>
  BY DEF UpdateCachedControllerInstances
<1>2. /\ Names(new) = S /\ Size(new) \in Nat /\ DOMAIN new = 0 .. Size(new) - 1
      /\ new \in SortedLists(Names(new))
      /\ c \in S => Size(new) > 0 /\ \E a \in DOMAIN new : new[a] = c
  BY SortedListFacts
<1>3. CASE sorted[c] = new \/ c \notin S
  <2>1. UNCHANGED rangeVars
    BY <1>1, <1>3
  <2>2. QED
    BY <1>2, <1>3, <2>1 DEF TypeOK, rangeVars
<1>4. CASE ~(sorted[c] = new \/ c \notin S)
  <2> DEFINE n == Size(new)
             newPos == CHOOSE a \in DOMAIN new : new[a] = c
             bound == [lower |-> LowerKey(n, newPos), upper |-> UpperKey(n, newPos)]
  <2>1. newPos \in DOMAIN new /\ new[newPos] = c
    BY <1>2, <1>4
  <2>2. newPos \in 0 .. n - 1 /\ n \in Nat /\ n > 0
    BY <1>2, <1>4, <2>1
  <2>3. /\ sorted' = [sorted EXCEPT ![c] = new]
        /\ curPos' = [curPos EXCEPT ![c] = newPos]
        /\ workloadNum' = [workloadNum EXCEPT ![c] = load]
        /\ \/ /\ controllerKey' = [controllerKey EXCEPT ![c] = UpperKey(n, newPos)]
              /\ sends' = [sends EXCEPT ![c] = Append(@, bound)]
           \/ /\ controllerKey[c] = UpperKey(n, newPos)
              /\ UNCHANGED <<controllerKey, sends>>
    BY <1>1, <1>4
  <2> HIDE DEF newPos, n
  <2>4. UpperKey(n, newPos) \in Keys /\ bound \in Bound
    BY <2>2, BoundsAreKeys DEF Bound
  <2> HIDE DEF bound
  <2>5. sorted'[c] = new /\ \A d \in Instances \ {c} : sorted'[d] = sorted[d]
    BY <2>3 DEF TypeOK
  <2>6. \A d \in Instances : sorted'[d] \in SortedLists(Names(sorted'[d]))
    BY <1>2, <2>5 DEF TypeOK
  <2>7. /\ curPos' \in [Instances -> Int] /\ curPos'[c] = newPos
        /\ \A d \in Instances \ {c} : curPos'[d] = curPos[d]
    BY <2>2, <2>3 DEF TypeOK
  <2>8. /\ controllerKey' \in [Instances -> Keys]
        /\ controllerKey'[c] = UpperKey(n, newPos)
        /\ \A d \in Instances \ {c} : controllerKey'[d] = controllerKey[d]
    <3>1. controllerKey \in [Instances -> Keys]
      BY DEF TypeOK
    <3>2. QED
      BY <2>3, <2>4, <3>1
  <2>9. sends' \in [Instances -> Seq(Bound)]
    <3>1. sends \in [Instances -> Seq(Bound)]
      BY DEF TypeOK
    <3>2. \A q \in Seq(Bound) : Append(q, bound) \in Seq(Bound)
      BY <2>4
    <3>3. QED
      BY <2>3, <3>1, <3>2
  <2>10. DOMAIN sorted' = Instances
    BY <2>3 DEF TypeOK
  <2>11. Size(sorted'[c]) = n
    BY <2>5 DEF n
  <2>12. workloadNum' \in [Instances -> Loads]
    BY <2>3 DEF TypeOK
  <2>13. QED
    BY <1>2, <1>4, <2>1, <2>5, <2>6, <2>7, <2>8, <2>9, <2>10, <2>11, <2>12
<1>5. QED
  BY <1>3, <1>4

LEMMA InstanceParts ==
  /\ \A c \in Instances : c[1] \in Procs /\ c[2] \in Types /\ c = <<c[1], c[2]>>
  /\ \A p \in Procs, t \in Types : <<p, t>> \in Instances
BY DEF Instances

\* A write to the registry appends a version and leaves the other names alone.
LEMMA WriteFacts ==
  ASSUME TypeOK, NEW i \in Instances, NEW key \in Keys, NEW load \in Loads,
         NEW live \in BOOLEAN, Write(i, key, load, live)
  PROVE  /\ log' \in [Instances -> Seq(Version)]
         /\ Len(log'[i]) = Len(log[i]) + 1
         /\ \A v \in 1 .. Len(log[i]) : log'[i][v] = log[i][v]
         /\ log'[i][Len(log'[i])].live = live
         /\ \A j \in Instances \ {i} : log'[j] = log[j]
<1> DEFINE ver == [key |-> key, load |-> load, live |-> live]
<1>1. ver \in Version /\ ver.live = live
  BY DEF Version
<1>2. log \in [Instances -> Seq(Version)]
  BY DEF TypeOK
<1>3. log' = [log EXCEPT ![i] = Append(@, ver)]
  BY DEF Write
<1> HIDE DEF ver
<1>4. log[i] \in Seq(Version) /\ log'[i] = Append(log[i], ver)
  BY <1>2, <1>3
<1>5. /\ Append(log[i], ver) \in Seq(Version)
      /\ Len(Append(log[i], ver)) = Len(log[i]) + 1
      /\ \A v \in 1 .. Len(log[i]) : Append(log[i], ver)[v] = log[i][v]
      /\ Append(log[i], ver)[Len(log[i]) + 1] = ver
  BY <1>1, <1>4
<1>6. QED
  BY <1>1, <1>2, <1>3, <1>4, <1>5

\* A live version is followed by one that is not.
LEMMA LeaveFacts ==
  ASSUME TypeOK, NEW i \in Instances, Leave(i)
  PROVE  /\ log' \in [Instances -> Seq(Version)]
         /\ Len(log'[i]) = Len(log[i]) + 1 /\ Len(log[i]) > 0
         /\ \A v \in 1 .. Len(log[i]) : log'[i][v] = log[i][v]
         /\ \A j \in Instances \ {i} : log'[j] = log[j]
<1>1. log[i] \in Seq(Version) /\ Len(log[i]) > 0
  BY DEF Leave, Registered, Last, TypeOK
<1>2. log[i][Last(i)] \in Version
  BY <1>1 DEF Last
<1>3. log[i][Last(i)].key \in Keys /\ log[i][Last(i)].load \in Loads
  BY <1>2 DEF Version
<1>4. QED
  BY <1>1, <1>3, WriteFacts DEF Leave

(***************************************************************************)
(* InformerEvent for the version v it takes in: what the informer and the  *)
(* handler it calls change.                                                *)
(***************************************************************************)
EventAt(p, i, v) ==
  /\ pos' = [pos EXCEPT ![p][i] = v]
  /\ store' = [store EXCEPT ![p][i] = IF log[i][v].live THEN v ELSE 0]
  /\ \/ /\ log[i][v].live /\ store[p][i] = 0
        /\ AddControllerInstance(p, i, v)
     \/ /\ log[i][v].live /\ store[p][i] # 0
        /\ UpdateControllerInstance(p, i, store[p][i], v)
     \/ /\ ~log[i][v].live /\ store[p][i] # 0
        /\ DeleteControllerInstance(p, i)
     \/ /\ ~log[i][v].live /\ store[p][i] = 0
        /\ UNCHANGED <<cim, updates>>

LEMMA InformerEventAt ==
  ASSUME NEW p \in Procs, NEW i \in Instances, InformerEvent(p, i)
  PROVE  \E v \in pos[p][i] + 1 .. Last(i) : EventAt(p, i, v)
BY DEF InformerEvent, EventAt

\* notifyControllerInstanceChanges wakes the controllers of p for i's type.
LEMMA NotifyFacts ==
  ASSUME TypeOK, NEW p \in Procs, NEW i \in Instances,
         NotifyControllerInstanceChanges(p, i)
  PROVE  /\ updates' \in [Instances -> [Types -> Nat]]
         /\ \A c \in Instances : c[1] # p => updates'[c] = updates[c]
         /\ \A c \in Instances, t \in Types : updates'[c][t] >= updates[c][t]
         /\ \A c \in Instances : c[1] = p /\ c[2] = i[2] => updates'[c][c[2]] > 0
<1>1. i[2] \in Types /\ \A c \in Instances : c[2] \in Types
  BY InstanceParts
<1>2. updates \in [Instances -> [Types -> Nat]]
  BY DEF TypeOK
<1>3. QED
  BY <1>1, <1>2 DEF NotifyControllerInstanceChanges

(***************************************************************************)
(* What a handler call does: at most the map entry of i in process p       *)
(* changes, the controllers of i's type are woken or nothing is sent.      *)
(***************************************************************************)
LEMMA HandlerShape ==
  ASSUME TypeOK, NEW p \in Procs, NEW i \in Instances, NEW v \in Nat, v > 0,
         EventAt(p, i, v)
  PROVE  /\ cim' \in [Procs -> [Instances -> Nat]]
         /\ cim'[p][i] \in {0, cim[p][i], v}
         /\ updates' = updates \/ NotifyControllerInstanceChanges(p, i)
         /\ \A q \in Procs, j \in Instances : <<q, j>> # <<p, i>> => cim'[q][j] = cim[q][j]
         /\ log[i][v].live /\ cim[p][i] # 0 => cim'[p][i] # 0
         /\ log[i][v].live /\ cim[p][i] = 0 /\ store[p][i] = 0 =>
              cim'[p][i] # 0 /\ NotifyControllerInstanceChanges(p, i)
         /\ ~log[i][v].live /\ store[p][i] # 0 /\ cim[p][i] # 0 =>
              cim'[p][i] = 0 /\ NotifyControllerInstanceChanges(p, i)
         /\ ~log[i][v].live /\ store[p][i] # 0 => cim'[p][i] = 0
         /\ ~log[i][v].live /\ store[p][i] = 0 => UNCHANGED <<cim, updates>>
<1>1. cim \in [Procs -> [Instances -> Nat]]
  BY DEF TypeOK
<1>2. CASE log[i][v].live
  <2>1. CASE store[p][i] = 0 /\ cim[p][i] = 0
    BY <1>1, <1>2, <2>1 DEF EventAt, AddControllerInstance
  <2>2. CASE store[p][i] = 0 /\ cim[p][i] # 0
    <3>1. UpdateControllerInstance(p, i, cim[p][i], v)
      BY <1>2, <2>2 DEF EventAt, AddControllerInstance
    <3>2. QED
      BY <1>1, <1>2, <2>2, <3>1 DEF UpdateControllerInstance
  <2>3. CASE store[p][i] # 0
    <3>1. UpdateControllerInstance(p, i, store[p][i], v)
      BY <1>2, <2>3 DEF EventAt
    <3>2. QED
      BY <1>1, <1>2, <2>3, <3>1 DEF UpdateControllerInstance
  <2>4. QED
    BY <2>1, <2>2, <2>3
<1>3. CASE ~log[i][v].live
  <2>1. CASE store[p][i] # 0
    <3>1. DeleteControllerInstance(p, i)
      BY <1>3, <2>1 DEF EventAt
    <3>2. QED
      BY <1>1, <1>3, <2>1, <3>1 DEF DeleteControllerInstance
  <2>2. CASE store[p][i] = 0
    BY <1>1, <1>3, <2>2 DEF EventAt
  <2>3. QED
    BY <2>1, <2>2
<1>4. QED
  BY <1>2, <1>3

(***************************************************************************)
(* When the informer's store is within the map, an instance that appears   *)
(* in the map or leaves it wakes the controllers of its type.              *)
(***************************************************************************)
LEMMA HandlerWakes ==
  ASSUME TypeOK, NEW p \in Procs, NEW i \in Instances, NEW v \in Nat, v > 0,
         EventAt(p, i, v), store[p][i] # 0 => cim[p][i] # 0
  PROVE  /\ log[i][v].live => cim'[p][i] # 0
         /\ \A c \in Instances, t \in Types : updates'[c][t] >= updates[c][t]
         /\ \/ (cim'[p][i] # 0) = (cim[p][i] # 0)
            \/ \A c \in Instances : c[1] = p /\ c[2] = i[2] => updates'[c][c[2]] > 0
<1>1. \A c \in Instances, t \in Types : updates'[c][t] >= updates[c][t]
  <2>1. CASE updates' = updates
    BY <2>1 DEF TypeOK
  <2>2. CASE NotifyControllerInstanceChanges(p, i)
    BY <2>2, NotifyFacts
  <2>3. QED
    BY <2>1, <2>2, HandlerShape
<1>2. log[i][v].live => cim'[p][i] # 0
  BY HandlerShape
<1>3. \/ (cim'[p][i] # 0) = (cim[p][i] # 0)
      \/ NotifyControllerInstanceChanges(p, i)
  BY HandlerShape
<1>4. QED
  BY <1>1, <1>2, <1>3, NotifyFacts

\* One unit of a bound is spent.
LEMMA BudgetFacts ==
  ASSUME NEW b \in [beats : Nat, leaves : Nat, crashes : Nat]
  PROVE  /\ b.beats > 0 => [b EXCEPT !.beats = @ - 1] \in [beats : Nat, leaves : Nat, crashes : Nat]
         /\ b.leaves > 0 => [b EXCEPT !.leaves = @ - 1] \in [beats : Nat, leaves : Nat, crashes : Nat]
         /\ b.crashes > 0 => [b EXCEPT !.crashes = @ - 1] \in [beats : Nat, leaves : Nat, crashes : Nat]
OBVIOUS

-----------------------------------------------------------------------------
(* Type correctness.                                                       *)

LEMMA InitType == Init => TypeOK
<1> SUFFICES ASSUME Init PROVE TypeOK
  OBVIOUS
<1>1. \A c \in Instances : sorted[c] \in SortedLists(Names(sorted[c]))
  BY EmptyList DEF Init
<1>2. 0 \in Keys /\ NoBound \in Bound
  BY MaxKeyAssumption DEF Keys, NoBound, Bound
<1>3. <<>> \in Seq(Version) /\ <<>> \in Seq(Bound)
  OBVIOUS
<1>4. QED
  BY <1>1, <1>2, <1>3, LoadsAssumption, BoundsAssumption DEF Init, TypeOK

LEMMA NextType ==
  ASSUME TypeOK, Mirror, [Next]_vars
  PROVE  TypeOK'
<1>1. ASSUME NEW p \in Procs, StartControllerInstanceManager(p) PROVE TypeOK'
  <2>1. \A i \in Instances : Last(i) \in Nat
    BY DEF TypeOK, Last
  <2>2. [i \in Instances |-> IF Registered(i) THEN Last(i) ELSE 0] \in [Instances -> Nat]
    BY <2>1
  <2>3. QED
    BY <1>1, <2>2 DEF StartControllerInstanceManager, SyncControllerInstances, TypeOK
<1>2. ASSUME NEW p \in Procs, StartInformers(p) PROVE TypeOK'
  BY <1>2 DEF StartInformers, TypeOK
<1>3. ASSUME NEW p \in Procs, Crash(p) PROVE TypeOK'
  <2>1. 0 \in Keys /\ NoBound \in Bound
    BY MaxKeyAssumption DEF Keys, NoBound, Bound
  <2>2. \A c \in Instances : sorted'[c] \in SortedLists(Names(sorted'[c]))
    BY <1>3, EmptyList DEF Crash, TypeOK
  <2>3. budget' \in [beats : Nat, leaves : Nat, crashes : Nat]
    BY <1>3, BudgetFacts DEF Crash, TypeOK
  <2>4. /\ proc' \in [Procs -> {"off", "synced", "up", "dead"}]
        /\ pos' \in [Procs -> [Instances -> Nat]]
        /\ store' \in [Procs -> [Instances -> Nat]]
        /\ cim' \in [Procs -> [Instances -> Nat]]
        /\ lost' \in [Procs -> SUBSET Instances]
    BY <1>3 DEF Crash, TypeOK
  <2>5. /\ updates' \in [Instances -> [Types -> Nat]]
        /\ pc' \in [Instances -> {"none", "joining", "registered", "idle", "listed", "dead"}]
        /\ listing' \in [Instances -> SUBSET Instances]
        /\ listedLoad' \in [Instances -> Loads]
        /\ DOMAIN sorted' = Instances
        /\ curPos' \in [Instances -> Int]
    BY <1>3, LoadsAssumption DEF Crash, TypeOK
  <2>6. /\ controllerKey' \in [Instances -> Keys]
        /\ workloadNum' \in [Instances -> Loads]
        /\ sends' \in [Instances -> Seq(Bound)]
        /\ filter' \in [Instances -> Bound]
        /\ busy' \in [Instances -> SUBSET Workloads]
    BY <1>3, <2>1, LoadsAssumption DEF Crash, TypeOK
  <2>7. log' \in [Instances -> Seq(Version)]
    BY <1>3 DEF Crash, TypeOK
  <2>8. QED
    BY <2>2, <2>3, <2>4, <2>5, <2>6, <2>7 DEF TypeOK
<1>4. ASSUME NEW p \in Procs, NEW i \in Instances, InformerEvent(p, i) PROVE TypeOK'
  <2>1. PICK v \in pos[p][i] + 1 .. Last(i) : EventAt(p, i, v)
    BY <1>4, InformerEventAt
  <2>2. v \in Nat /\ v > 0
    BY DEF TypeOK, Last
  <2>3. pos' \in [Procs -> [Instances -> Nat]] /\ store' \in [Procs -> [Instances -> Nat]]
    BY <2>1, <2>2 DEF EventAt, TypeOK
  <2>4. cim' \in [Procs -> [Instances -> Nat]] /\ updates' \in [Instances -> [Types -> Nat]]
    <3>1. CASE updates' = updates
      BY <2>1, <2>2, <3>1, HandlerShape DEF TypeOK
    <3>2. CASE NotifyControllerInstanceChanges(p, i)
      BY <2>1, <2>2, <3>2, HandlerShape, NotifyFacts
    <3>3. QED
      BY <2>1, <2>2, <3>1, <3>2, HandlerShape
  <2>5. QED
    BY <1>4, <2>3, <2>4 DEF InformerEvent, TypeOK
<1>5. ASSUME NEW c \in Instances, NewControllerBase(c) PROVE TypeOK'
  <2>1. View(c) \cup {c} \in SUBSET Instances /\ 0 \in Loads
    BY LoadsAssumption DEF View
  <2>2. UpdateCachedControllerInstances(c, View(c) \cup {c}, 0)
    BY <1>5 DEF NewControllerBase
  <2>3. QED
    BY <1>5, <2>1, <2>2, UpdateCachedFacts DEF NewControllerBase, TypeOK
<1>6. ASSUME NEW c \in Instances, RegistControllerInstance(c) PROVE TypeOK'
  <2>1. log' \in [Instances -> Seq(Version)]
    BY <1>6, WriteFacts, LoadsAssumption DEF RegistControllerInstance, TypeOK
  <2>2. QED
    BY <1>6, <2>1 DEF RegistControllerInstance, TypeOK
<1>7. ASSUME NEW c \in Instances, RunController(c) PROVE TypeOK'
  BY <1>7 DEF RunController, TypeOK
<1>8. ASSUME NEW c \in Instances, NEW t \in Types, IgnoreUpdate(c, t) PROVE TypeOK'
  BY <1>8 DEF IgnoreUpdate, TypeOK
<1>9. ASSUME NEW c \in Instances, ListControllerInstancesByType(c) PROVE TypeOK'
  <2>1. listedLoad' \in [Instances -> Loads]
    <3>1. CASE c \notin View(c)
      BY <1>9, <3>1, LoadsAssumption DEF ListControllerInstancesByType, TypeOK
    <3>2. CASE c \in View(c)
      <4>1. cim[c[1]][c] \in 1 .. Len(log[c]) /\ log[c] \in Seq(Version)
        BY <3>2, InstanceParts DEF View, Mirror, TypeOK, Last
      <4>2. log[c][cim[c[1]][c]] \in Version
        BY <4>1
      <4>3. listedLoad' = [listedLoad EXCEPT ![c] = log[c][cim[c[1]][c]].load]
        BY <1>9, <3>2 DEF ListControllerInstancesByType
      <4>4. log[c][cim[c[1]][c]].load \in Loads
        BY <4>2 DEF Version
      <4>5. QED
        BY <4>3, <4>4 DEF TypeOK
    <3>3. QED
      BY <3>1, <3>2
  <2>2. updates' \in [Instances -> [Types -> Nat]] /\ listing' \in [Instances -> SUBSET Instances]
    BY <1>9, InstanceParts DEF ListControllerInstancesByType, TypeOK, View
  <2>3. QED
    BY <1>9, <2>1, <2>2 DEF ListControllerInstancesByType, TypeOK
<1>10. ASSUME NEW c \in Instances, InstanceUpdateProcess(c) PROVE TypeOK'
  <2>1. listing[c] \in SUBSET Instances /\ listedLoad[c] \in Loads
    BY DEF TypeOK
  <2>2. listedLoad' \in [Instances -> Loads] /\ listing' \in [Instances -> SUBSET Instances]
    BY <1>10, LoadsAssumption DEF InstanceUpdateProcess, TypeOK
  <2>3. QED
    BY <1>10, <2>1, <2>2, UpdateCachedFacts DEF InstanceUpdateProcess, TypeOK
<1>11. ASSUME NEW c \in Instances, ResetFilter(c) PROVE TypeOK'
  <2>1. PICK a \in DOMAIN sends[c] :
          /\ filter' = [filter EXCEPT ![c] = sends[c][a]]
          /\ sends' = [sends EXCEPT ![c] =
                         [b \in 1 .. Len(@) - 1 |-> IF b < a THEN @[b] ELSE @[b + 1]]]
    BY <1>11 DEF ResetFilter
  <2>2. sends \in [Instances -> Seq(Bound)] /\ filter \in [Instances -> Bound]
    BY DEF TypeOK
  <2>3. sends[c] \in Seq(Bound) /\ sends[c][a] \in Bound
    BY <2>2
  <2>4. [b \in 1 .. Len(sends[c]) - 1 |-> IF b < a THEN sends[c][b] ELSE sends[c][b + 1]]
          \in Seq(Bound)
    BY <2>3, RemoveAt
  <2>5. sends' \in [Instances -> Seq(Bound)]
    BY <2>1, <2>2, <2>4
  <2>6. filter' \in [Instances -> Bound]
    BY <2>1, <2>2, <2>3
  <2>7. QED
    BY <1>11, <2>5, <2>6 DEF ResetFilter, TypeOK
<1>12. ASSUME NEW c \in Instances, ReportHealth(c) PROVE TypeOK'
  <2>1. log' \in [Instances -> Seq(Version)]
    BY <1>12, WriteFacts DEF ReportHealth, TypeOK
  <2>2. budget' \in [beats : Nat, leaves : Nat, crashes : Nat]
    BY <1>12, BudgetFacts DEF ReportHealth, TypeOK
  <2>3. QED
    BY <1>12, <2>1, <2>2 DEF ReportHealth, TypeOK
<1>13. ASSUME NEW c \in Instances, Expire(c) PROVE TypeOK'
  <2>1. Leave(c)
    BY <1>13 DEF Expire
  <2>2. log' \in [Instances -> Seq(Version)]
    BY <2>1, LeaveFacts
  <2>3. budget' \in [beats : Nat, leaves : Nat, crashes : Nat]
    BY <1>13, BudgetFacts DEF Expire, TypeOK
  <2>4. lost' \in [Procs -> SUBSET Instances]
    BY <2>1 DEF Leave, TypeOK
  <2>5. QED
    BY <2>1, <2>2, <2>3, <2>4 DEF Leave, TypeOK
<1>14. ASSUME NEW c \in Instances, NEW k \in Workloads, AddProcessingWorkItem(c, k)
       PROVE  TypeOK'
  BY <1>14 DEF AddProcessingWorkItem, TypeOK
<1>15. ASSUME NEW c \in Instances, NEW k \in Workloads, NEW load \in Loads,
              DoneProcessingWorkItem(c, k, load)
       PROVE  TypeOK'
  BY <1>15 DEF DoneProcessingWorkItem, TypeOK
<1>16. CASE UNCHANGED vars
  BY <1>16 DEF vars, TypeOK
<1>17. QED
  BY <1>1, <1>2, <1>3, <1>4, <1>5, <1>6, <1>7, <1>8, <1>9, <1>10, <1>11, <1>12,
     <1>13, <1>14, <1>15, <1>16 DEF Next

-----------------------------------------------------------------------------
(* The range of a controller.                                              *)

LEMMA NextRange ==
  ASSUME TypeOK, Life, RangeConsistent, [Next]_vars
  PROVE  RangeConsistent'
<1>1. ASSUME NEW p \in Procs, StartControllerInstanceManager(p) PROVE RangeConsistent'
  BY <1>1 DEF StartControllerInstanceManager, SyncControllerInstances, RangeConsistent
<1>2. ASSUME NEW p \in Procs, StartInformers(p) PROVE RangeConsistent'
  BY <1>2 DEF StartInformers, RangeConsistent
<1>3. ASSUME NEW p \in Procs, Crash(p) PROVE RangeConsistent'
  <2>1. \A c \in Instances : c[1] = p => pc'[c] = "dead"
    BY <1>3 DEF Crash
  <2>2. \A c \in Instances : c[1] # p =>
          /\ pc'[c] = pc[c] /\ sorted'[c] = sorted[c]
          /\ curPos'[c] = curPos[c] /\ controllerKey'[c] = controllerKey[c]
    BY <1>3 DEF Crash
  <2>3. QED
    BY <2>1, <2>2 DEF RangeConsistent
<1>4. ASSUME NEW p \in Procs, NEW i \in Instances,
             InformerEvent(p, i)
      PROVE  RangeConsistent'
  BY <1>4 DEF InformerEvent, RangeConsistent
<1>5. ASSUME NEW c \in Instances, NewControllerBase(c) PROVE RangeConsistent'
  <2>1. UpdateCachedControllerInstances(c, View(c) \cup {c}, 0) /\ pc[c] = "none"
    BY <1>5 DEF NewControllerBase
  <2>2. View(c) \cup {c} \in SUBSET Instances /\ 0 \in Loads
    BY LoadsAssumption DEF View
  <2>3. Names(sorted'[c]) # {} /\ Names(sorted[c]) = {}
    BY <2>1, <2>2, UpdateCachedFacts, EmptyList DEF Life
  <2>4. /\ curPos'[c] \in DOMAIN sorted'[c]
        /\ sorted'[c][curPos'[c]] = c
        /\ controllerKey'[c] = UpperKey(Size(sorted'[c]), curPos'[c])
    BY <2>1, <2>2, <2>3, UpdateCachedFacts
  <2>5. \A d \in Instances \ {c} : /\ sorted'[d] = sorted[d]
                                  /\ curPos'[d] = curPos[d]
                                  /\ controllerKey'[d] = controllerKey[d]
    BY <2>1, <2>2, UpdateCachedFacts
  <2>6. pc' = [pc EXCEPT ![c] = "joining"]
    BY <1>5 DEF NewControllerBase
  <2>7. QED
    BY <2>4, <2>5, <2>6 DEF RangeConsistent, TypeOK
<1>6. ASSUME NEW c \in Instances, RegistControllerInstance(c) PROVE RangeConsistent'
  BY <1>6 DEF RegistControllerInstance, RangeConsistent, TypeOK
<1>7. ASSUME NEW c \in Instances, RunController(c) PROVE RangeConsistent'
  BY <1>7 DEF RunController, RangeConsistent, TypeOK
<1>8. ASSUME NEW c \in Instances, NEW t \in Types,
             IgnoreUpdate(c, t)
      PROVE  RangeConsistent'
  BY <1>8 DEF IgnoreUpdate, RangeConsistent
<1>9. ASSUME NEW c \in Instances,
             ListControllerInstancesByType(c)
      PROVE  RangeConsistent'
  BY <1>9 DEF ListControllerInstancesByType, RangeConsistent, TypeOK
<1>10. ASSUME NEW c \in Instances, InstanceUpdateProcess(c) PROVE RangeConsistent'
  <2>1. UpdateCachedControllerInstances(c, listing[c], listedLoad[c]) /\ pc[c] = "listed"
    BY <1>10 DEF InstanceUpdateProcess
  <2>2. listing[c] \in SUBSET Instances /\ listedLoad[c] \in Loads
    BY DEF TypeOK
  <2>3. /\ curPos'[c] \in DOMAIN sorted'[c]
        /\ sorted'[c][curPos'[c]] = c
        /\ controllerKey'[c] = UpperKey(Size(sorted'[c]), curPos'[c])
    <3>1. CASE c \in listing[c] /\ sorted'[c] # sorted[c]
      BY <2>1, <2>2, <3>1, UpdateCachedFacts
    <3>2. CASE ~(c \in listing[c] /\ sorted'[c] # sorted[c])
      <4>1. UNCHANGED rangeVars
        BY <2>1, <2>2, <3>2, UpdateCachedFacts
      <4>2. QED
        BY <2>1, <4>1 DEF RangeConsistent, rangeVars
    <3>3. QED
      BY <3>1, <3>2
  <2>4. \A d \in Instances \ {c} : /\ sorted'[d] = sorted[d]
                                  /\ curPos'[d] = curPos[d]
                                  /\ controllerKey'[d] = controllerKey[d]
    BY <2>1, <2>2, UpdateCachedFacts
  <2>5. pc' = [pc EXCEPT ![c] = "idle"]
    BY <1>10 DEF InstanceUpdateProcess
  <2>6. QED
    BY <2>3, <2>4, <2>5 DEF RangeConsistent, TypeOK
<1>11. ASSUME NEW c \in Instances, ResetFilter(c) PROVE RangeConsistent'
  BY <1>11 DEF ResetFilter, RangeConsistent
<1>12. ASSUME NEW c \in Instances, ReportHealth(c) PROVE RangeConsistent'
  BY <1>12 DEF ReportHealth, RangeConsistent
<1>13. ASSUME NEW c \in Instances, Expire(c) PROVE RangeConsistent'
  BY <1>13 DEF Expire, Leave, RangeConsistent
<1>14. ASSUME NEW c \in Instances, NEW k \in Workloads,
             AddProcessingWorkItem(c, k)
      PROVE  RangeConsistent'
  BY <1>14 DEF AddProcessingWorkItem, RangeConsistent
<1>15. ASSUME NEW c \in Instances, NEW k \in Workloads, NEW load \in Loads,
             DoneProcessingWorkItem(c, k, load)
      PROVE  RangeConsistent'
  BY <1>15 DEF DoneProcessingWorkItem, RangeConsistent
<1>16. CASE UNCHANGED vars
  BY <1>16 DEF vars, RangeConsistent
<1>17. QED
  BY <1>1, <1>2, <1>3, <1>4, <1>5, <1>6, <1>7, <1>8,
     <1>9, <1>10, <1>11, <1>12, <1>13, <1>14, <1>15, <1>16 DEF Next

-----------------------------------------------------------------------------
(* How far processes and controllers are.                                  *)

LEMMA NextLife ==
  ASSUME TypeOK, Life, [Next]_vars
  PROVE  Life'
<1>1. ASSUME NEW p \in Procs, StartControllerInstanceManager(p) PROVE Life'
  <2>1. proc[p] = "off" /\ proc' = [proc EXCEPT ![p] = "synced"]
    BY <1>1 DEF StartControllerInstanceManager, SyncControllerInstances
  <2>2. \A t \in Types : ~Registered(<<p, t>>)
    <3>1. \A t \in Types : pc[<<p, t>>] = "none" /\ log[<<p, t>>] = <<>>
      BY <2>1, InstanceParts DEF Life
    <3>2. QED
      BY <3>1 DEF Registered, Last
  <2>3. \A t \in Types : cim'[p][<<p, t>>] = 0
    BY <1>1, <2>2, InstanceParts DEF StartControllerInstanceManager, SyncControllerInstances, TypeOK
  <2>4. \A q \in Procs : q # p => cim'[q] = cim[q] /\ proc'[q] = proc[q]
    BY <1>1, <2>1 DEF StartControllerInstanceManager, SyncControllerInstances, TypeOK
  <2>5. UNCHANGED <<log, pos, store, pc, sorted>> /\ proc'[p] = "synced"
    BY <1>1 DEF StartControllerInstanceManager, SyncControllerInstances, TypeOK
  <2>6. \A c \in Instances : c[1] = p => pc[c] = "none"
    BY <2>1 DEF Life
  <2>7. \A q \in Procs : proc'[q] \in {"off", "synced"} =>
          /\ \A i \in Instances : pos'[q][i] = 0 /\ store'[q][i] = 0
          /\ \A t \in Types : cim'[q][<<q, t>>] = 0
    BY <2>1, <2>3, <2>4, <2>5 DEF Life
  <2>8. \A c \in Instances :
          /\ pc'[c] = "none" => proc'[c[1]] \in {"off", "synced"} /\ sorted'[c] = <<>>
          /\ pc'[c] = "joining" => proc'[c[1]] = "synced"
          /\ pc'[c] \in {"none", "joining"} => log'[c] = <<>>
          /\ proc'[c[1]] = "off" => pc'[c] = "none"
          /\ proc'[c[1]] = "dead" => pc'[c] = "dead"
    BY <2>4, <2>5, <2>6, InstanceParts DEF Life
  <2>9. QED
    BY <2>7, <2>8 DEF Life
<1>2. ASSUME NEW p \in Procs, StartInformers(p) PROVE Life'
  <2>1. \A c \in Instances : c[1] = p => pc[c] = "registered"
    BY <1>2, InstanceParts DEF StartInformers
  <2>2. QED
    BY <1>2, <2>1, InstanceParts DEF StartInformers, Life, TypeOK
<1>3. ASSUME NEW p \in Procs, Crash(p) PROVE Life'
  <2>1. \A c \in Instances : c[1] = p => pc'[c] = "dead" /\ proc'[c[1]] = "dead"
    BY <1>3 DEF Crash, TypeOK
  <2>2. \A c \in Instances : c[1] # p =>
          /\ pc'[c] = pc[c] /\ sorted'[c] = sorted[c] /\ proc'[c[1]] = proc[c[1]]
    BY <1>3, InstanceParts DEF Crash, TypeOK
  <2>3. log' = log /\ proc'[p] = "dead"
    BY <1>3 DEF Crash, TypeOK
  <2>4. \A q \in Procs : q # p =>
          pos'[q] = pos[q] /\ store'[q] = store[q] /\ cim'[q] = cim[q] /\ proc'[q] = proc[q]
    BY <1>3 DEF Crash, TypeOK
  <2>5. QED
    BY <2>1, <2>2, <2>3, <2>4 DEF Life
<1>4. ASSUME NEW p \in Procs, NEW i \in Instances, InformerEvent(p, i) PROVE Life'
  <2>1. PICK v \in pos[p][i] + 1 .. Last(i) : EventAt(p, i, v)
    BY <1>4, InformerEventAt
  <2>2. v \in Nat /\ v > 0 /\ proc[p] = "up"
    BY <1>4 DEF TypeOK, Last, InformerEvent
  <2>3. \A q \in Procs : q # p =>
          /\ pos'[q] = pos[q] /\ store'[q] = store[q]
          /\ \A j \in Instances : cim'[q][j] = cim[q][j]
    <3>1. \A q \in Procs : q # p => pos'[q] = pos[q] /\ store'[q] = store[q]
      BY <2>1 DEF EventAt, TypeOK
    <3>2. QED
      BY <2>1, <2>2, <3>1, HandlerShape
  <2>4. UNCHANGED <<log, proc, pc, sorted>>
    BY <1>4 DEF InformerEvent
  <2>5. QED
    BY <2>2, <2>3, <2>4, InstanceParts DEF Life
<1>5. ASSUME NEW c \in Instances, NewControllerBase(c) PROVE Life'
  <2>1. UpdateCachedControllerInstances(c, View(c) \cup {c}, 0)
    BY <1>5 DEF NewControllerBase
  <2>2. View(c) \cup {c} \in SUBSET Instances /\ 0 \in Loads
    BY LoadsAssumption DEF View
  <2>3. \A d \in Instances \ {c} : sorted'[d] = sorted[d]
    BY <2>1, <2>2, UpdateCachedFacts
  <2>4. pc[c] = "none" /\ proc[c[1]] = "synced" /\ pc' = [pc EXCEPT ![c] = "joining"]
    BY <1>5 DEF NewControllerBase
  <2>5. UNCHANGED <<log, proc, pos, store, cim>>
    BY <1>5 DEF NewControllerBase
  <2>6. QED
    BY <2>3, <2>4, <2>5 DEF Life, TypeOK
<1>6. ASSUME NEW c \in Instances, RegistControllerInstance(c) PROVE Life'
  <2>1. pc[c] = "joining" /\ pc' = [pc EXCEPT ![c] = "registered"]
    BY <1>6 DEF RegistControllerInstance
  <2>2. \A d \in Instances \ {c} : log'[d] = log[d]
    BY <1>6, WriteFacts, LoadsAssumption DEF RegistControllerInstance, TypeOK
  <2>3. UNCHANGED <<proc, pos, store, cim, sorted>>
    BY <1>6 DEF RegistControllerInstance
  <2>4. QED
    BY <2>1, <2>2, <2>3 DEF Life, TypeOK
<1>7. ASSUME NEW c \in Instances, RunController(c) PROVE Life'
  <2>1. /\ pc[c] = "registered" /\ proc[c[1]] = "up" /\ pc' = [pc EXCEPT ![c] = "idle"]
        /\ UNCHANGED <<log, proc, pos, store, cim, sorted>>
    BY <1>7 DEF RunController
  <2>2. \A d \in Instances : pc'[d] = IF d = c THEN "idle" ELSE pc[d]
    BY <2>1 DEF TypeOK
  <2>3. QED
    BY <2>1, <2>2 DEF Life
<1>8. ASSUME NEW c \in Instances, NEW t \in Types, IgnoreUpdate(c, t) PROVE Life'
  BY <1>8 DEF IgnoreUpdate, Life
<1>9. ASSUME NEW c \in Instances, ListControllerInstancesByType(c) PROVE Life'
  BY <1>9 DEF ListControllerInstancesByType, Life, TypeOK
<1>10. ASSUME NEW c \in Instances, InstanceUpdateProcess(c) PROVE Life'
  <2>1. UpdateCachedControllerInstances(c, listing[c], listedLoad[c]) /\ listing[c] \in SUBSET Instances /\ listedLoad[c] \in Loads
    BY <1>10 DEF InstanceUpdateProcess, TypeOK
  <2>2. \A d \in Instances \ {c} : sorted'[d] = sorted[d]
    BY <2>1, UpdateCachedFacts
  <2>3. pc[c] = "listed" /\ pc' = [pc EXCEPT ![c] = "idle"]
    BY <1>10 DEF InstanceUpdateProcess
  <2>4. UNCHANGED <<log, proc, pos, store, cim>>
    BY <1>10 DEF InstanceUpdateProcess
  <2>5. QED
    BY <2>2, <2>3, <2>4 DEF Life, TypeOK
<1>11. ASSUME NEW c \in Instances, ResetFilter(c) PROVE Life'
  BY <1>11 DEF ResetFilter, Life
<1>12. ASSUME NEW c \in Instances, ReportHealth(c) PROVE Life'
  <2>1. pc[c] \notin {"none", "joining"}
    BY <1>12 DEF ReportHealth
  <2>2. \A d \in Instances \ {c} : log'[d] = log[d]
    BY <1>12, WriteFacts DEF ReportHealth, TypeOK
  <2>3. UNCHANGED <<proc, pos, store, cim, sorted, pc>>
    BY <1>12 DEF ReportHealth
  <2>4. QED
    BY <2>1, <2>2, <2>3 DEF Life
<1>13. ASSUME NEW c \in Instances, Expire(c) PROVE Life'
  <2>1. Leave(c)
    BY <1>13 DEF Expire
  <2>2. Len(log[c]) > 0 /\ \A d \in Instances \ {c} : log'[d] = log[d]
    BY <2>1, LeaveFacts
  <2>3. pc[c] \notin {"none", "joining"}
    BY <2>2 DEF Life
  <2>4. UNCHANGED <<proc, pos, store, cim, sorted, pc>>
    BY <2>1 DEF Leave
  <2>5. QED
    BY <2>2, <2>3, <2>4 DEF Life
<1>14. ASSUME NEW c \in Instances, NEW k \in Workloads,
             AddProcessingWorkItem(c, k)
      PROVE  Life'
  BY <1>14 DEF AddProcessingWorkItem, Life
<1>15. ASSUME NEW c \in Instances, NEW k \in Workloads, NEW load \in Loads,
             DoneProcessingWorkItem(c, k, load)
      PROVE  Life'
  BY <1>15 DEF DoneProcessingWorkItem, Life
<1>16. CASE UNCHANGED vars
  BY <1>16 DEF vars, Life
<1>17. QED
  BY <1>1, <1>2, <1>3, <1>4, <1>5, <1>6, <1>7, <1>8,
     <1>9, <1>10, <1>11, <1>12, <1>13, <1>14, <1>15, <1>16 DEF Next

-----------------------------------------------------------------------------
(* The CIM's map and the informer's store.                                 *)

\* A version is appended to the log of i, and i is still there or lost.
LEMMA MirrorWrite ==
  ASSUME TypeOK, Mirror, NEW i \in Instances,
         log' \in [Instances -> Seq(Version)],
         Len(log'[i]) = Len(log[i]) + 1,
         \A v \in 1 .. Len(log[i]) : log'[i][v] = log[i][v],
         \A j \in Instances \ {i} : log'[j] = log[j],
         UNCHANGED <<proc, pos, store, cim>>,
         \A p \in Procs :
           /\ lost[p] \subseteq lost'[p]
           /\ \/ Registered(i)'
              \/ proc[p] \in {"synced", "up"} /\ cim[p][i] # 0 /\ store[p][i] = 0
                    => i \in lost'[p]
  PROVE  Mirror'
<1>1. \A j \in Instances \ {i} : Last(j)' = Last(j) /\ Registered(j)' = Registered(j)
  BY DEF Last, Registered
<1>2. Last(i) \in Nat /\ Last(i)' = Last(i) + 1
  BY DEF Last, TypeOK
<1>3. \A p \in Procs : /\ pos[p][i] \in Nat /\ pos[p][i] <= Last(i)
                       /\ cim[p][i] \in Nat /\ cim[p][i] <= Last(i)
  BY DEF Mirror, TypeOK
<1>4. \A p \in Procs : pos[p][i] > 0 => log'[i][pos[p][i]] = log[i][pos[p][i]]
  BY <1>2, <1>3 DEF Last
<1>5. QED
  BY <1>1, <1>2, <1>3, <1>4 DEF Mirror

LEMMA NextMirror ==
  ASSUME TypeOK, Life, Mirror, [Next]_vars
  PROVE  Mirror'
<1>1. ASSUME NEW p \in Procs, StartControllerInstanceManager(p) PROVE Mirror'
  <2>1. /\ proc[p] = "off" /\ proc' = [proc EXCEPT ![p] = "synced"]
        /\ cim' = [cim EXCEPT ![p] = [i \in Instances |-> IF Registered(i) THEN Last(i) ELSE 0]]
        /\ UNCHANGED <<log, pos, store, lost>>
    BY <1>1 DEF StartControllerInstanceManager, SyncControllerInstances
  <2>2. \A i \in Instances : store[p][i] = 0
    BY <2>1 DEF Life
  <2>3. \A i \in Instances : cim'[p][i] # 0 => Registered(i)
    BY <2>1 DEF TypeOK
  <2>4. \A q \in Procs : q # p => cim'[q] = cim[q] /\ proc'[q] = proc[q]
    BY <2>1 DEF TypeOK
  <2>5. \A i \in Instances : Registered(i)' = Registered(i) /\ Last(i)' = Last(i)
    BY <2>1 DEF Registered, Last
  <2>6. \A i \in Instances : cim'[p][i] <= Last(i)
    BY <2>1 DEF TypeOK, Last
  <2>7. QED
    BY <2>1, <2>2, <2>3, <2>4, <2>5, <2>6 DEF Mirror
<1>2. ASSUME NEW p \in Procs, StartInformers(p) PROVE Mirror'
  <2>1. proc[p] = "synced" /\ \A q \in Procs : q # p => proc'[q] = proc[q]
    BY <1>2 DEF StartInformers, TypeOK
  <2>2. UNCHANGED <<log, pos, store, cim, lost>>
    BY <1>2 DEF StartInformers
  <2>3. \A i \in Instances : Registered(i)' = Registered(i) /\ Last(i)' = Last(i)
    BY <2>2 DEF Registered, Last
  <2>4. QED
    BY <2>1, <2>2, <2>3 DEF Mirror
<1>3. ASSUME NEW p \in Procs, Crash(p) PROVE Mirror'
  <2>1. /\ proc'[p] = "dead" /\ log' = log
        /\ \A i \in Instances : pos'[p][i] = 0 /\ store'[p][i] = 0 /\ cim'[p][i] = 0
    BY <1>3 DEF Crash, TypeOK
  <2>2. \A q \in Procs : q # p =>
          /\ pos'[q] = pos[q] /\ store'[q] = store[q] /\ cim'[q] = cim[q]
          /\ proc'[q] = proc[q] /\ lost'[q] = lost[q]
    BY <1>3 DEF Crash, TypeOK
  <2>3. \A i \in Instances : Registered(i)' = Registered(i) /\ Last(i)' = Last(i) /\ Last(i) \in Nat
    BY <2>1 DEF Registered, Last, TypeOK
  <2>4. QED
    BY <2>1, <2>2, <2>3 DEF Mirror
<1>4. ASSUME NEW p \in Procs, NEW i \in Instances, InformerEvent(p, i) PROVE Mirror'
  <2>1. PICK v \in pos[p][i] + 1 .. Last(i) : EventAt(p, i, v)
    BY <1>4, InformerEventAt
  <2>2. v \in Nat /\ v > 0 /\ v <= Last(i)
    BY DEF TypeOK, Last
  <2>3. UNCHANGED <<log, proc, lost>>
    BY <1>4 DEF InformerEvent
  <2>4. \A j \in Instances : Registered(j)' = Registered(j) /\ Last(j)' = Last(j)
    BY <2>3 DEF Registered, Last
  <2>5. pos'[p][i] = v /\ store'[p][i] = IF log[i][v].live THEN v ELSE 0
    BY <2>1 DEF EventAt, TypeOK
  <2>6. \A q \in Procs, j \in Instances : <<q, j>> # <<p, i>> =>
          pos'[q][j] = pos[q][j] /\ store'[q][j] = store[q][j] /\ cim'[q][j] = cim[q][j]
    <3>1. \A q \in Procs, j \in Instances : <<q, j>> # <<p, i>> =>
            pos'[q][j] = pos[q][j] /\ store'[q][j] = store[q][j]
      BY <2>1 DEF EventAt, TypeOK
    <3>2. QED
      BY <2>1, <2>2, <3>1, HandlerShape
  <2>7. store[p][i] # 0 => cim[p][i] # 0
    BY DEF Mirror
  <2>8. /\ log[i][v].live => cim'[p][i] # 0
        /\ ~log[i][v].live /\ store[p][i] # 0 => cim'[p][i] = 0
        /\ ~log[i][v].live /\ store[p][i] = 0 => cim'[p][i] = cim[p][i]
        /\ cim'[p][i] \in {0, cim[p][i], v}
    BY <2>1, <2>2, <2>7, HandlerShape, HandlerWakes
  <2>9. cim[p][i] \in Nat /\ Last(i) \in Nat /\ cim'[p][i] <= Last(i)
    BY <2>2, <2>8 DEF Mirror, TypeOK, Last
  <2>10. QED
    BY <2>2, <2>3, <2>4, <2>5, <2>6, <2>8, <2>9 DEF Mirror
<1>5. ASSUME NEW c \in Instances, NewControllerBase(c) PROVE Mirror'
  BY <1>5 DEF NewControllerBase, Mirror, Registered, Last
<1>6. ASSUME NEW c \in Instances, RegistControllerInstance(c) PROVE Mirror'
  <2>1. /\ log' \in [Instances -> Seq(Version)]
        /\ Len(log'[c]) = Len(log[c]) + 1
        /\ \A v \in 1 .. Len(log[c]) : log'[c][v] = log[c][v]
        /\ log'[c][Len(log'[c])].live = TRUE
        /\ \A j \in Instances \ {c} : log'[j] = log[j]
    BY <1>6, WriteFacts, LoadsAssumption DEF RegistControllerInstance, TypeOK
  <2>2. Registered(c)'
    BY <2>1 DEF Registered, Last, TypeOK
  <2>3. UNCHANGED <<proc, pos, store, cim, lost>>
    BY <1>6 DEF RegistControllerInstance
  <2>4. QED
    BY <2>1, <2>2, <2>3, MirrorWrite
<1>7. ASSUME NEW c \in Instances, RunController(c) PROVE Mirror'
  BY <1>7 DEF RunController, Mirror, Registered, Last
<1>8. ASSUME NEW c \in Instances, NEW t \in Types, IgnoreUpdate(c, t) PROVE Mirror'
  BY <1>8 DEF IgnoreUpdate, Mirror, Registered, Last
<1>9. ASSUME NEW c \in Instances, ListControllerInstancesByType(c) PROVE Mirror'
  BY <1>9 DEF ListControllerInstancesByType, Mirror, Registered, Last
<1>10. ASSUME NEW c \in Instances, InstanceUpdateProcess(c) PROVE Mirror'
  BY <1>10 DEF InstanceUpdateProcess, Mirror, Registered, Last
<1>11. ASSUME NEW c \in Instances, ResetFilter(c) PROVE Mirror'
  BY <1>11 DEF ResetFilter, Mirror, Registered, Last
<1>12. ASSUME NEW c \in Instances, ReportHealth(c) PROVE Mirror'
  <2>1. UNCHANGED <<proc, pos, store, cim, lost>>
    BY <1>12 DEF ReportHealth
  <2>2. CASE Registered(c)
    <3>1. /\ log' \in [Instances -> Seq(Version)]
          /\ Len(log'[c]) = Len(log[c]) + 1
          /\ \A v \in 1 .. Len(log[c]) : log'[c][v] = log[c][v]
          /\ log'[c][Len(log'[c])].live = TRUE
          /\ \A j \in Instances \ {c} : log'[j] = log[j]
      BY <1>12, <2>2, WriteFacts DEF ReportHealth, TypeOK
    <3>2. Registered(c)'
      BY <3>1 DEF Registered, Last, TypeOK
    <3>3. QED
      BY <2>1, <3>1, <3>2, MirrorWrite
  <2>3. CASE ~Registered(c)
    BY <1>12, <2>1, <2>3 DEF ReportHealth, Mirror, Registered, Last
  <2>4. QED
    BY <2>2, <2>3
<1>13. ASSUME NEW c \in Instances, Expire(c) PROVE Mirror'
  <2>1. Leave(c)
    BY <1>13 DEF Expire
  <2>2. /\ log' \in [Instances -> Seq(Version)]
        /\ Len(log'[c]) = Len(log[c]) + 1
        /\ \A v \in 1 .. Len(log[c]) : log'[c][v] = log[c][v]
        /\ \A j \in Instances \ {c} : log'[j] = log[j]
    BY <2>1, LeaveFacts
  <2>3. UNCHANGED <<proc, pos, store, cim>>
    BY <2>1 DEF Leave
  <2>4. \A p \in Procs :
          /\ lost[p] \subseteq lost'[p]
          /\ proc[p] \in {"synced", "up"} /\ cim[p][c] # 0 /\ store[p][c] = 0 => c \in lost'[p]
    BY <2>1 DEF Leave, TypeOK
  <2>5. QED
    BY <2>2, <2>3, <2>4, MirrorWrite
<1>14. ASSUME NEW c \in Instances, NEW k \in Workloads,
             AddProcessingWorkItem(c, k)
      PROVE  Mirror'
  BY <1>14 DEF AddProcessingWorkItem, Mirror, Registered, Last
<1>15. ASSUME NEW c \in Instances, NEW k \in Workloads, NEW load \in Loads,
             DoneProcessingWorkItem(c, k, load)
      PROVE  Mirror'
  BY <1>15 DEF DoneProcessingWorkItem, Mirror, Registered, Last
<1>16. CASE UNCHANGED vars
  BY <1>16 DEF vars, Mirror, Registered, Last
<1>17. QED
  BY <1>1, <1>2, <1>3, <1>4, <1>5, <1>6, <1>7, <1>8,
     <1>9, <1>10, <1>11, <1>12, <1>13, <1>14, <1>15, <1>16 DEF Next

-----------------------------------------------------------------------------
(* Wake-ups.                                                               *)

LEMMA NextWake ==
  ASSUME TypeOK, Life, Mirror, NoLostUpdate, [Next]_vars
  PROVE  NoLostUpdate'
<1>0. TypeOK'
  BY NextType
<1>1. ASSUME NEW p \in Procs, StartControllerInstanceManager(p) PROVE NoLostUpdate'
  <2>1. proc[p] = "off" /\ UNCHANGED <<pc, sorted, listing, updates>>
    BY <1>1 DEF StartControllerInstanceManager, SyncControllerInstances
  <2>2. \A c \in Instances : c[1] = p => pc[c] = "none"
    BY <2>1 DEF Life
  <2>3. \A q \in Procs : q # p => cim'[q] = cim[q]
    BY <1>1 DEF StartControllerInstanceManager, SyncControllerInstances, TypeOK
  <2>4. \A c \in Instances : c[1] # p => View(c)' = View(c)
    BY <2>3, InstanceParts DEF View
  <2>5. QED
    BY <2>1, <2>2, <2>4 DEF NoLostUpdate
<1>2. ASSUME NEW p \in Procs, StartInformers(p) PROVE NoLostUpdate'
  BY <1>2 DEF StartInformers, NoLostUpdate, View
<1>3. ASSUME NEW p \in Procs, Crash(p) PROVE NoLostUpdate'
  <2>1. \A c \in Instances : c[1] = p => pc'[c] = "dead"
    BY <1>3 DEF Crash
  <2>2. \A c \in Instances : c[1] # p =>
          /\ pc'[c] = pc[c] /\ sorted'[c] = sorted[c]
          /\ listing'[c] = listing[c] /\ updates'[c] = updates[c]
    BY <1>3 DEF Crash
  <2>3. \A q \in Procs : q # p => cim'[q] = cim[q]
    BY <1>3 DEF Crash, TypeOK
  <2>4. \A c \in Instances : c[1] # p => View(c)' = View(c)
    BY <2>3, InstanceParts DEF View
  <2>5. QED
    BY <2>1, <2>2, <2>4 DEF NoLostUpdate
<1>4. ASSUME NEW p \in Procs, NEW i \in Instances,
             InformerEvent(p, i)
      PROVE  NoLostUpdate'
  <2>1. PICK v \in pos[p][i] + 1 .. Last(i) : EventAt(p, i, v)
    BY <1>4, InformerEventAt
  <2>2. v \in Nat /\ v > 0
    BY DEF TypeOK, Last
  <2>3. UNCHANGED <<pc, sorted, listing>>
    BY <1>4 DEF InformerEvent
  <2>4. store[p][i] # 0 => cim[p][i] # 0
    BY DEF Mirror
  <2>5. \A q \in Procs, j \in Instances : <<q, j>> # <<p, i>> => cim'[q][j] = cim[q][j]
    BY <2>1, <2>2, HandlerShape
  <2>6. /\ \A c \in Instances, t \in Types : updates'[c][t] >= updates[c][t]
        /\ \/ (cim'[p][i] # 0) = (cim[p][i] # 0)
           \/ \A c \in Instances : c[1] = p /\ c[2] = i[2] => updates'[c][c[2]] > 0
    BY <2>1, <2>2, <2>4, HandlerWakes
  <2>7. \A c \in Instances : View(c)' = View(c) \/ updates'[c][c[2]] > 0
    <3>1. \A c \in Instances : c[1] # p \/ c[2] # i[2] => View(c)' = View(c)
      BY <2>5, InstanceParts DEF View
    <3>2. (cim'[p][i] # 0) = (cim[p][i] # 0) =>
            \A c \in Instances : c[1] = p => View(c)' = View(c)
      BY <2>5, InstanceParts DEF View
    <3>3. QED
      BY <2>6, <3>1, <3>2
  <2>8. \A c \in Instances : updates[c][c[2]] > 0 => updates'[c][c[2]] > 0
    <3>1. /\ updates \in [Instances -> [Types -> Nat]]
          /\ updates' \in [Instances -> [Types -> Nat]]
      BY <1>0 DEF TypeOK
    <3>2. \A c \in Instances : /\ updates[c][c[2]] \in Nat
                               /\ updates'[c][c[2]] \in Nat
                               /\ updates'[c][c[2]] >= updates[c][c[2]]
      BY <2>6, <3>1, InstanceParts
    <3>3. QED
      BY <3>2
  <2>9. QED
    BY <2>3, <2>7, <2>8 DEF NoLostUpdate
<1>5. ASSUME NEW c \in Instances, NewControllerBase(c) PROVE NoLostUpdate'
  <2>1. UpdateCachedControllerInstances(c, View(c) \cup {c}, 0)
    BY <1>5 DEF NewControllerBase
  <2>2. View(c) \cup {c} \in SUBSET Instances /\ 0 \in Loads
    BY LoadsAssumption DEF View
  <2>3. \A d \in Instances \ {c} : sorted'[d] = sorted[d]
    BY <2>1, <2>2, UpdateCachedFacts
  <2>4. pc' = [pc EXCEPT ![c] = "joining"] /\ UNCHANGED <<cim, updates, listing>>
    BY <1>5 DEF NewControllerBase
  <2>5. \A d \in Instances : View(d)' = View(d)
    BY <2>4 DEF View
  <2>6. QED
    BY <2>3, <2>4, <2>5 DEF NoLostUpdate, TypeOK
<1>6. ASSUME NEW c \in Instances, RegistControllerInstance(c) PROVE NoLostUpdate'
  <2>1. /\ pc[c] = "joining" /\ pc' = [pc EXCEPT ![c] = "registered"]
        /\ UNCHANGED <<cim, updates, listing, sorted>>
    BY <1>6 DEF RegistControllerInstance
  <2>2. \A d \in Instances : View(d)' = View(d)
    BY <2>1 DEF View
  <2>3. c \notin View(c)
    <3>1. cim[c[1]][<<c[1], c[2]>>] = 0
      BY <2>1, InstanceParts DEF Life
    <3>2. QED
      BY <3>1, InstanceParts DEF View
  <2>4. QED
    BY <2>1, <2>2, <2>3 DEF NoLostUpdate, TypeOK
<1>7. ASSUME NEW c \in Instances, RunController(c) PROVE NoLostUpdate'
  <2>1. /\ pc[c] = "registered" /\ pc' = [pc EXCEPT ![c] = "idle"]
        /\ UNCHANGED <<cim, updates, listing, sorted>>
    BY <1>7 DEF RunController
  <2>2. \A d \in Instances : View(d)' = View(d)
    BY <2>1 DEF View
  <2>3. QED
    BY <2>1, <2>2 DEF NoLostUpdate, TypeOK
<1>8. ASSUME NEW c \in Instances, NEW t \in Types,
             IgnoreUpdate(c, t)
      PROVE  NoLostUpdate'
  <2>1. t # c[2] /\ updates' = [updates EXCEPT ![c][t] = @ - 1]
    BY <1>8 DEF IgnoreUpdate
  <2>2. UNCHANGED <<cim, pc, listing, sorted>>
    BY <1>8 DEF IgnoreUpdate
  <2>3. \A d \in Instances : View(d)' = View(d)
    BY <2>2 DEF View
  <2>4. \A d \in Instances : updates'[d][d[2]] = updates[d][d[2]]
    BY <2>1, InstanceParts DEF TypeOK
  <2>5. QED
    BY <2>2, <2>3, <2>4 DEF NoLostUpdate
<1>9. ASSUME NEW c \in Instances, ListControllerInstancesByType(c) PROVE NoLostUpdate'
  <2>1. /\ updates' = [updates EXCEPT ![c][c[2]] = @ - 1]
        /\ listing' = [listing EXCEPT ![c] = View(c)]
        /\ pc' = [pc EXCEPT ![c] = "listed"]
        /\ UNCHANGED <<cim, sorted>>
    BY <1>9 DEF ListControllerInstancesByType
  <2>2. \A d \in Instances : View(d)' = View(d)
    BY <2>1 DEF View
  <2>3. pc'[c] = "listed" /\ listing'[c] = View(c)
    BY <2>1 DEF TypeOK
  <2>4. \A d \in Instances \ {c} :
          pc'[d] = pc[d] /\ listing'[d] = listing[d] /\ updates'[d] = updates[d]
    BY <2>1 DEF TypeOK
  <2>5. QED
    BY <2>1, <2>2, <2>3, <2>4 DEF NoLostUpdate
<1>10. ASSUME NEW c \in Instances, InstanceUpdateProcess(c) PROVE NoLostUpdate'
  <2>1. /\ pc[c] = "listed" /\ UpdateCachedControllerInstances(c, listing[c], listedLoad[c])
        /\ listing[c] \in SUBSET Instances /\ listedLoad[c] \in Loads
        /\ UNCHANGED <<cim, updates>>
    BY <1>10 DEF InstanceUpdateProcess, TypeOK
  <2>2. pc'[c] = "idle"
    BY <1>10 DEF InstanceUpdateProcess, TypeOK
  <2>3. \A d \in Instances \ {c} :
          pc'[d] = pc[d] /\ listing'[d] = listing[d] /\ sorted'[d] = sorted[d]
    <3>1. \A d \in Instances \ {c} : pc'[d] = pc[d] /\ listing'[d] = listing[d]
      BY <1>10 DEF InstanceUpdateProcess, TypeOK
    <3>2. QED
      BY <2>1, <3>1, UpdateCachedFacts
  <2>4. \A d \in Instances : View(d)' = View(d)
    BY <2>1 DEF View
  <2>5. c \in listing[c] => Names(sorted'[c]) = listing[c]
    BY <2>1, UpdateCachedFacts
  <2>6. listing[c] = View(c) \/ updates[c][c[2]] > 0
    BY <2>1 DEF NoLostUpdate
  <2>7. QED
    BY <2>1, <2>2, <2>3, <2>4, <2>5, <2>6 DEF NoLostUpdate
<1>11. ASSUME NEW c \in Instances, ResetFilter(c) PROVE NoLostUpdate'
  BY <1>11 DEF ResetFilter, NoLostUpdate, View
<1>12. ASSUME NEW c \in Instances, ReportHealth(c) PROVE NoLostUpdate'
  BY <1>12 DEF ReportHealth, NoLostUpdate, View
<1>13. ASSUME NEW c \in Instances, Expire(c) PROVE NoLostUpdate'
  <2>1. UNCHANGED <<pc, cim, updates, listing, sorted>>
    BY <1>13 DEF Expire, Leave
  <2>2. QED
    BY <2>1 DEF NoLostUpdate, View
<1>14. ASSUME NEW c \in Instances, NEW k \in Workloads,
             AddProcessingWorkItem(c, k)
      PROVE  NoLostUpdate'
  BY <1>14 DEF AddProcessingWorkItem, NoLostUpdate, View
<1>15. ASSUME NEW c \in Instances, NEW k \in Workloads, NEW load \in Loads,
             DoneProcessingWorkItem(c, k, load)
      PROVE  NoLostUpdate'
  BY <1>15 DEF DoneProcessingWorkItem, NoLostUpdate, View
<1>16. CASE UNCHANGED vars
  BY <1>16 DEF vars, NoLostUpdate, View
<1>17. QED
  BY <1>1, <1>2, <1>3, <1>4, <1>5, <1>6, <1>7, <1>8,
     <1>9, <1>10, <1>11, <1>12, <1>13, <1>14, <1>15, <1>16 DEF Next

-----------------------------------------------------------------------------
(* The theorems.                                                           *)

(***************************************************************************)
(* The inductive invariant.  RangeConsistent needs Life (a controller that *)
(* takes its first range had none); NoLostUpdate needs Mirror (an Update   *)
(* event finds the object in the CIM's map, so it never adds one silently) *)
(* and Life (a controller registers before its own CIM can know it).       *)
(***************************************************************************)
IInv == TypeOK /\ Life /\ Mirror /\ RangeConsistent /\ NoLostUpdate

LEMMA Inductive == Spec => []IInv
<1>1. Init => IInv
  <2> SUFFICES ASSUME Init PROVE IInv
    OBVIOUS
  <2>1. TypeOK
    BY InitType
  <2>2. Life
    BY InstanceParts DEF Init, Life
  <2>3. Mirror
    BY DEF Init, Mirror, Last
  <2>4. RangeConsistent
    BY DEF Init, RangeConsistent
  <2>5. NoLostUpdate
    BY DEF Init, NoLostUpdate
  <2>6. QED
    BY <2>1, <2>2, <2>3, <2>4, <2>5 DEF IInv
<1>2. IInv /\ [Next]_vars => IInv'
  BY NextType, NextLife, NextMirror, NextRange, NextWake DEF IInv
<1>3. QED
  BY <1>1, <1>2, PTL DEF Spec

(***************************************************************************)
(* Every variable keeps its type: in particular every key a controller     *)
(* takes or registers lies in the key space, and every list it keeps is    *)
(* sorted without gaps.                                                    *)
(***************************************************************************)
THEOREM TypeCorrect == Spec => []TypeOK
<1>1. IInv => TypeOK
  BY DEF IInv
<1>2. QED
  BY <1>1, Inductive, PTL

(***************************************************************************)
(* Position, list and key of a controller fit together in every state: the *)
(* unchecked indexing of sortedControllerInstancesLocal with curPos in     *)
(* ReportHealth and SetWorkloadNum is within bounds.                       *)
(***************************************************************************)
THEOREM RangesConsistent == Spec => []RangeConsistent
<1>1. IInv => RangeConsistent
  BY DEF IInv
<1>2. QED
  BY <1>1, Inductive, PTL

(***************************************************************************)
(* No wake-up between the CIM and a controller is lost.                    *)
(***************************************************************************)
THEOREM NoUpdateLost == Spec => []NoLostUpdate
<1>1. IInv => NoLostUpdate
  BY DEF IInv
<1>2. QED
  BY <1>1, Inductive, PTL

\* With pos at the end of the log, the store holds i exactly when i is registered.
LEMMA MirrorExact == TypeOK /\ Mirror => ViewExact
<1> SUFFICES ASSUME TypeOK, Mirror, NEW p \in Procs, Drained(p), NEW i \in Instances
             PROVE  /\ Registered(i) => cim[p][i] # 0
                    /\ cim[p][i] # 0 => Registered(i) \/ i \in lost[p]
  BY DEF ViewExact
<1>1. proc[p] = "up" /\ pos[p][i] = Last(i) /\ Last(i) \in Nat
  BY DEF Drained, Last, TypeOK
<1>2. store[p][i] # 0 <=> Registered(i)
  BY <1>1 DEF Mirror, Registered
<1>3. QED
  BY <1>1, <1>2 DEF Mirror

(***************************************************************************)
(* A CIM whose informer has caught up holds every registered instance, and *)
(* holds no other except those that left between its two lists.            *)
(***************************************************************************)
THEOREM ViewsExact == Spec => []ViewExact
<1>1. IInv => ViewExact
  BY MirrorExact DEF IInv
<1>2. QED
  BY <1>1, Inductive, PTL

-----------------------------------------------------------------------------
(* Every key has exactly one owner, from these invariants and the          *)
(* arithmetic of KeyRangeProofs.                                           *)

(***************************************************************************)
(* The position of a name in a sorted list is the number of smaller names, *)
(* so it does not depend on who sorted the list.                           *)
(***************************************************************************)
LEMMA PositionIsRank ==
  ASSUME NEW S \in SUBSET Instances, NEW s \in SortedLists(S), NEW a \in DOMAIN s
  PROVE  a = Cardinality({y \in S : y[1] < s[a][1]})
<1> DEFINE T == {y \in S : y[1] < s[a][1]}
           f == [b \in 0 .. a - 1 |-> s[b]]
<1>1. DOMAIN s = 0 .. Size(s) - 1 /\ Size(s) \in Nat /\ Names(s) = S
  BY SortedListFacts
<1>2. a \in Nat /\ \A b \in 0 .. a - 1 : b \in DOMAIN s
  BY <1>1
<1>3. \A b, d \in DOMAIN s : b < d => s[b][1] < s[d][1]
  BY DEF SortedLists
<1>4. \A b \in DOMAIN s : s[b] \in S /\ s[b][1] \in Nat
  BY <1>1, InstanceParts, ProcsAssumption DEF Names
<1>5. f \in [0 .. a - 1 -> T]
  BY <1>2, <1>3, <1>4
<1>6. \A b, d \in 0 .. a - 1 : f[b] = f[d] => b = d
  <2>1. \A b, d \in 0 .. a - 1 : b < d => f[b] # f[d]
    BY <1>2, <1>3, <1>4
  <2>2. QED
    BY <1>2, <2>1
<1>7. \A y \in T : \E b \in 0 .. a - 1 : f[b] = y
  <2> SUFFICES ASSUME NEW y \in T PROVE \E b \in 0 .. a - 1 : s[b] = y
    BY <1>2
  <2>1. PICK b \in DOMAIN s : s[b] = y
    BY <1>1 DEF Names
  <2>2. ~(a < b) /\ a # b
    BY <1>3, <1>4, <2>1
  <2>3. b \in 0 .. a - 1
    BY <1>1, <1>2, <2>2
  <2>4. QED
    BY <2>1, <2>3
<1> HIDE DEF f, T
<1>8. f \in Bijection(0 .. a - 1, T)
  BY <1>5, <1>6, <1>7 DEF Bijection, Injection, Surjection, IsInjective
<1>9. Cardinality(T) = Cardinality(0 .. a - 1)
  BY <1>2, <1>8, FS_Bijection, FS_Interval DEF ExistsBijection
<1>10. Cardinality(0 .. a - 1) = a
  BY <1>2, FS_Interval
<1>11. QED
  BY <1>9, <1>10 DEF T

(***************************************************************************)
(* When messages have drained and the registry lists exactly the working   *)
(* controllers, every working controller's list is the list of them all.   *)
(***************************************************************************)
LEMMA QuietLists ==
  ASSUME IInv, Quiet, Healthy, NEW t \in Types, NEW c \in Instances, c[2] = t, Working(c)
  PROVE  Names(sorted[c]) = {d \in Instances : d[2] = t /\ Working(d)}
<1>1. c[1] \in Procs /\ c = <<c[1], t>>
  BY InstanceParts
<1>2. proc[c[1]] \notin {"off", "dead"}
  BY DEF IInv, Life, Working
<1>3. Drained(c[1]) /\ pc[c] = "idle" /\ updates[c][t] = 0
  BY <1>1, <1>2 DEF Quiet
<1>4. \A i \in Instances : cim[c[1]][i] # 0 <=> Registered(i)
  BY <1>1, <1>3, MirrorExact DEF IInv, ViewExact, Healthy
<1>5. View(c) = {d \in Instances : d[2] = t /\ Working(d)}
  BY <1>4 DEF View, Healthy
<1>6. c \in View(c)
  BY <1>5
<1>7. QED
  BY <1>3, <1>5, <1>6 DEF IInv, NoLostUpdate

(***************************************************************************)
(* After any history, once messages have drained and the registry lists    *)
(* exactly the working controllers, IsInRange answers TRUE for every key   *)
(* in exactly one controller of each type that runs.                       *)
(***************************************************************************)
THEOREM OneOwner == Spec => []ExactlyOneOwner
<1>1. IInv => ExactlyOneOwner
  <2> SUFFICES ASSUME IInv, Quiet, Healthy, NEW t \in Types, NEW k \in Keys,
                      {c \in Instances : c[2] = t /\ Working(c)} # {}
               PROVE  \E c \in {c \in Instances : c[2] = t /\ Working(c)} :
                        /\ IsInRange(c, k)
                        /\ \A d \in {x \in Instances : x[2] = t /\ Working(x)} :
                             IsInRange(d, k) => d = c
    BY DEF ExactlyOneOwner
  <2> DEFINE Team == {c \in Instances : c[2] = t /\ Working(c)}
             n == Cardinality(Team)
             Rank(x) == Cardinality({y \in Team : y[1] < x[1]})
  <2>1. Team \in SUBSET Instances /\ n \in Nat /\ n > 0
    BY InstancesFinite, FS_EmptySet
  <2>2. \A c \in Team : Names(sorted[c]) = Team /\ sorted[c] \in SortedLists(Team)
    BY QuietLists DEF IInv, TypeOK
  <2> HIDE DEF Team, n, Rank
  <2>3. ASSUME NEW c \in Team
        PROVE  /\ curPos[c] = Rank(c) /\ Size(sorted[c]) = n /\ DOMAIN sorted[c] = 0 .. n - 1
               /\ curPos[c] \in 0 .. n - 1
               /\ controllerKey[c] = UpperKey(n, curPos[c])
    <3>1. Size(sorted[c]) = n /\ DOMAIN sorted[c] = 0 .. n - 1
      BY <2>1, <2>2, SortedListFacts DEF n
    <3>2. pc[c] \notin {"none", "dead"} /\ c \in Instances
      BY DEF Team, Working
    <3>3. /\ curPos[c] \in DOMAIN sorted[c] /\ sorted[c][curPos[c]] = c
          /\ controllerKey[c] = UpperKey(Size(sorted[c]), curPos[c])
      BY <3>2 DEF IInv, RangeConsistent
    <3>4. curPos[c] = Rank(c)
      BY <2>1, <2>2, <3>3, PositionIsRank DEF Rank
    <3>5. QED
      BY <3>1, <3>3, <3>4
  <2>4. ASSUME NEW c \in Team
        PROVE  IsInRange(c, k) <=> InRange(k, LowerKey(n, Rank(c)), UpperKey(n, Rank(c)))
    BY <2>1, <2>3 DEF IsInRange, LowerOf
  <2>5. \A c, d \in Team : Rank(c) = Rank(d) => c = d
    <3> SUFFICES ASSUME NEW c \in Team, NEW d \in Team, Rank(c) = Rank(d) PROVE c = d
      OBVIOUS
    <3> DEFINE s == sorted[c]
    <3>1. PICK a \in DOMAIN s : s[a] = d
      BY <2>1, <2>2, SortedListFacts
    <3>2. a = Rank(d)
      BY <2>1, <2>2, <3>1, PositionIsRank DEF Rank
    <3>3. s[Rank(c)] = c
      <4>1. pc[c] \notin {"none", "dead"} /\ c \in Instances
        BY DEF Team, Working
      <4>2. QED
        BY <2>3, <4>1 DEF IInv, RangeConsistent
    <3>4. QED
      BY <3>1, <3>2, <3>3
  <2>6. PICK a \in 0 .. n - 1 : InRange(k, LowerKey(n, a), UpperKey(n, a))
    BY <2>1, RangesCover
  <2>7. \E c \in Team : Rank(c) = a
    <3>1. PICK x \in Team : TRUE
      BY DEF Team
    <3>2. a \in DOMAIN sorted[x] /\ sorted[x] \in SortedLists(Team)
      BY <2>2, <2>3
    <3>3. sorted[x][a] \in Team
      BY <2>2, <3>1, <3>2 DEF Names
    <3>4. Rank(sorted[x][a]) = a
      BY <2>1, <3>2, PositionIsRank DEF Rank
    <3>5. QED
      BY <3>3, <3>4
  <2>8. PICK c \in Team : Rank(c) = a
    BY <2>7
  <2>9. IsInRange(c, k)
    BY <2>4, <2>6, <2>8
  <2>10. ASSUME NEW d \in Team, IsInRange(d, k) PROVE d = c
    <3>1. InRange(k, LowerKey(n, Rank(d)), UpperKey(n, Rank(d))) /\ Rank(d) \in 0 .. n - 1
      BY <2>3, <2>4, <2>10
    <3>2. Rank(d) = a
      BY <2>1, <2>6, <3>1, RangesDisjoint
    <3>3. QED
      BY <2>5, <2>8, <3>2
  <2>11. QED
    BY <2>9, <2>10 DEF Team
<1>2. QED
  BY <1>1, Inductive, PTL

-----------------------------------------------------------------------------
(* The bounds of the workload informers.                                   *)

RangeOf(c) == [lower |-> LowerOf(c), upper |-> controllerKey[c]]

NoneOvertaken == \A c \in Instances : Len(sends[c]) <= 1

\* The range of a controller is the last one announced: with the informers, if
\* no message is under way, or in the only message that is.
Announced(c) ==
  /\ sends[c] = <<>> => filter[c] = RangeOf(c)
  /\ Len(sends[c]) = 1 => sends[c][1] = RangeOf(c)

RangeAnnounced ==
  \A c \in Instances :
    /\ pc[c] = "none" => curPos[c] = -1 /\ sends[c] = <<>>
    /\ pc[c] \notin {"none", "dead"} => Announced(c)

\* updateCachedControllerInstances announces the range of c, or leaves it as it
\* was; the first one is announced.
LEMMA UpdateAnnounces ==
  ASSUME TypeOK, NEW c \in Instances, NEW S \in SUBSET Instances, NEW load \in Loads,
         UpdateCachedControllerInstances(c, S, load)
  PROVE  /\ \/ sends'[c] = Append(sends[c], RangeOf(c)')
            \/ /\ sends'[c] = sends[c] /\ RangeOf(c)' = RangeOf(c)
               /\ curPos[c] >= 0 \/ sorted'[c] = sorted[c]
         /\ \A d \in Instances \ {c} :
              sends'[d] = sends[d] /\ RangeOf(d)' = RangeOf(d) /\ curPos'[d] = curPos[d]
<1>0. /\ sends \in [Instances -> Seq(Bound)] /\ curPos \in [Instances -> Int]
      /\ controllerKey \in [Instances -> Keys] /\ DOMAIN sorted = Instances
  BY DEF TypeOK
<1>1. PICK new \in SortedLists(S) :
        IF sorted[c] = new \/ c \notin S
        THEN UNCHANGED rangeVars
        ELSE LET n == Size(new)
                 newPos == CHOOSE a \in DOMAIN new : new[a] = c
                 isSelfUpdated == \/ controllerKey[c] # UpperKey(n, newPos)
                                  \/ curPos[c] < 0
                                  \/ LowerOf(c) # LowerKey(n, newPos)
             IN /\ sorted' = [sorted EXCEPT ![c] = new]
                /\ curPos' = [curPos EXCEPT ![c] = newPos]
                /\ workloadNum' = [workloadNum EXCEPT ![c] = load]
                /\ IF isSelfUpdated
                   THEN /\ controllerKey' = [controllerKey EXCEPT ![c] = UpperKey(n, newPos)]
                        /\ sends' = [sends EXCEPT ![c] =
                                       Append(@, [lower |-> LowerKey(n, newPos),
                                                  upper |-> UpperKey(n, newPos)])]
                   ELSE UNCHANGED <<controllerKey, sends>>
  BY DEF UpdateCachedControllerInstances
<1>2. CASE sorted[c] = new \/ c \notin S
  BY <1>1, <1>2 DEF rangeVars, RangeOf, LowerOf
<1>3. CASE ~(sorted[c] = new \/ c \notin S)
  <2> DEFINE n == Size(new)
             newPos == CHOOSE a \in DOMAIN new : new[a] = c
             lower == LowerKey(n, newPos)
             upper == UpperKey(n, newPos)
             bound == [lower |-> lower, upper |-> upper]
  <2>1. /\ sorted' = [sorted EXCEPT ![c] = new]
        /\ curPos' = [curPos EXCEPT ![c] = newPos]
        /\ \/ /\ controllerKey' = [controllerKey EXCEPT ![c] = upper]
              /\ sends' = [sends EXCEPT ![c] = Append(@, bound)]
           \/ /\ controllerKey[c] = upper /\ ~(curPos[c] < 0) /\ LowerOf(c) = lower
              /\ UNCHANGED <<controllerKey, sends>>
    BY <1>1, <1>3
  <2> HIDE DEF newPos, bound, upper
  <2>2. LowerOf(c)' = lower
    <3>1. sorted'[c] = new /\ curPos'[c] = newPos
      BY <1>0, <2>1
    <3>2. QED
      BY <3>1 DEF LowerOf
  <2> HIDE DEF lower
  <2>3. controllerKey'[c] = upper
    BY <1>0, <2>1
  <2>4. RangeOf(c)' = bound
    BY <2>2, <2>3 DEF RangeOf, bound
  <2>5. \/ sends'[c] = Append(sends[c], bound)
        \/ /\ sends'[c] = sends[c] /\ RangeOf(c) = bound /\ curPos[c] >= 0
    BY <1>0, <2>1 DEF RangeOf, bound
  <2>6. \A d \in Instances \ {c} :
          /\ sorted'[d] = sorted[d] /\ curPos'[d] = curPos[d]
          /\ sends'[d] = sends[d] /\ controllerKey'[d] = controllerKey[d]
    BY <1>0, <2>1
  <2>7. \A d \in Instances \ {c} : RangeOf(d)' = RangeOf(d)
    BY <2>6 DEF RangeOf, LowerOf
  <2>8. QED
    BY <2>4, <2>5, <2>6, <2>7
<1>4. QED
  BY <1>2, <1>3

\* A range that replaces none under way is announced alone.
LEMMA AppendAnnounced ==
  ASSUME NEW q \in Seq(Bound), NEW u, NEW b, u = Append(q, b)
  PROVE  u # <<>> /\ (Len(u) = 1 => u[1] = b)
<1>1. Len(q) \in Nat /\ Len(u) = Len(q) + 1 /\ u[Len(q) + 1] = b
  BY AppendProperties, LenProperties
<1>2. u # <<>>
  BY <1>1
<1>3. QED
  BY <1>1, <1>2

\* As long as no two ranges are under way, every step keeps the last one known.
LEMMA NextAnnounced ==
  ASSUME TypeOK, Life, RangeConsistent, RangeAnnounced, NoneOvertaken, [Next]_vars
  PROVE  RangeAnnounced'
<1>0. /\ sends \in [Instances -> Seq(Bound)] /\ filter \in [Instances -> Bound]
      /\ pc \in [Instances -> {"none", "joining", "registered", "idle", "listed", "dead"}]
  BY DEF TypeOK
<1>1. ASSUME UNCHANGED <<sorted, curPos, controllerKey, sends, filter>>,
             \A c \in Instances : \/ pc'[c] = pc[c]
                                  \/ pc[c] \notin {"none", "dead"} /\ pc'[c] # "none"
      PROVE  RangeAnnounced'
  <2>1. \A c \in Instances : RangeOf(c)' = RangeOf(c)
    BY <1>1 DEF RangeOf, LowerOf
  <2>2. QED
    BY <1>1, <2>1 DEF RangeAnnounced, Announced
<1>2. ASSUME NEW c \in Instances, NEW S \in SUBSET Instances, NEW load \in Loads,
             UpdateCachedControllerInstances(c, S, load), UNCHANGED filter,
             NEW state \in {"joining", "idle"}, pc' = [pc EXCEPT ![c] = state],
             \/ pc[c] = "listed"
             \/ pc[c] = "none" /\ sorted'[c] # sorted[c]
      PROVE  RangeAnnounced'
  <2>1. /\ \/ sends'[c] = Append(sends[c], RangeOf(c)')
           \/ /\ sends'[c] = sends[c] /\ RangeOf(c)' = RangeOf(c)
              /\ curPos[c] >= 0 \/ sorted'[c] = sorted[c]
        /\ \A d \in Instances \ {c} :
             sends'[d] = sends[d] /\ RangeOf(d)' = RangeOf(d) /\ curPos'[d] = curPos[d]
    BY <1>2, UpdateAnnounces
  <2>2. pc'[c] = state /\ \A d \in Instances \ {c} : pc'[d] = pc[d]
    BY <1>0, <1>2
  <2>3. \A d \in Instances \ {c} : Announced(d) => Announced(d)'
    BY <1>2, <2>1 DEF Announced
  <2>4. Announced(c)'
    <3>1. CASE sends'[c] = Append(sends[c], RangeOf(c)')
      <4>1. sends'[c] # <<>> /\ (Len(sends'[c]) = 1 => sends'[c][1] = RangeOf(c)')
        BY <1>0, <3>1, AppendAnnounced
      <4>2. QED
        BY <4>1 DEF Announced
    <3>2. CASE /\ sends'[c] = sends[c] /\ RangeOf(c)' = RangeOf(c)
               /\ curPos[c] >= 0 \/ sorted'[c] = sorted[c]
      <4>1. pc[c] = "listed"
        BY <1>2, <3>2 DEF RangeAnnounced
      <4>2. Announced(c)
        BY <4>1 DEF RangeAnnounced
      <4>3. QED
        BY <1>2, <3>2, <4>2 DEF Announced
    <3>3. QED
      BY <2>1, <3>1, <3>2
  <2>5. QED
    BY <2>1, <2>2, <2>3, <2>4 DEF RangeAnnounced
<1>3. ASSUME NEW c \in Instances, NewControllerBase(c) PROVE RangeAnnounced'
  <2>1. /\ UpdateCachedControllerInstances(c, View(c) \cup {c}, 0) /\ pc[c] = "none"
        /\ pc' = [pc EXCEPT ![c] = "joining"] /\ UNCHANGED filter
    BY <1>3 DEF NewControllerBase
  <2>2. View(c) \cup {c} \in SUBSET Instances /\ 0 \in Loads
    BY LoadsAssumption DEF View
  <2>3. Names(sorted'[c]) # {} /\ Names(sorted[c]) = {}
    BY <2>1, <2>2, UpdateCachedFacts, EmptyList DEF Life
  <2>4. sorted'[c] # sorted[c]
    BY <2>3
  <2>5. QED
    BY <1>2, <2>1, <2>2, <2>4
<1>4. ASSUME NEW c \in Instances, InstanceUpdateProcess(c) PROVE RangeAnnounced'
  <2>1. /\ UpdateCachedControllerInstances(c, listing[c], listedLoad[c]) /\ pc[c] = "listed"
        /\ pc' = [pc EXCEPT ![c] = "idle"] /\ UNCHANGED filter
    BY <1>4 DEF InstanceUpdateProcess
  <2>2. listing[c] \in SUBSET Instances /\ listedLoad[c] \in Loads
    BY DEF TypeOK
  <2>3. QED
    BY <1>2, <2>1, <2>2
<1>5. ASSUME NEW c \in Instances, ResetFilter(c) PROVE RangeAnnounced'
  <2>1. PICK a \in DOMAIN sends[c] :
          /\ filter' = [filter EXCEPT ![c] = sends[c][a]]
          /\ sends' = [sends EXCEPT ![c] =
                         [b \in 1 .. Len(@) - 1 |-> IF b < a THEN @[b] ELSE @[b + 1]]]
          /\ UNCHANGED <<sorted, curPos, controllerKey, pc>>
    BY <1>5 DEF ResetFilter
  <2>2. sends[c] \in Seq(Bound) /\ Len(sends[c]) \in Nat /\ DOMAIN sends[c] = 1 .. Len(sends[c])
    BY <1>0, LenProperties
  <2>3. Len(sends[c]) = 1 /\ a = 1
    <3> DEFINE k == Len(sends[c])
    <3>1. k \in Nat /\ a \in 1 .. k
      BY <2>2
    <3>2. k <= 1
      BY DEF NoneOvertaken
    <3> HIDE DEF k
    <3>3. k = 1 /\ a = 1
      BY <3>1, <3>2
    <3>4. QED
      BY <3>3 DEF k
  <2>4. filter'[c] = sends[c][1] /\ sends'[c] = <<>>
    <3>1. filter'[c] = sends[c][1]
      BY <1>0, <2>1, <2>3
    <3> DEFINE rest == [b \in 1 .. Len(sends[c]) - 1 |->
                          IF b < a THEN sends[c][b] ELSE sends[c][b + 1]]
    <3>2. rest \in Seq(Bound)
      BY <2>1, <2>2, RemoveAt
    <3>3. DOMAIN rest = {}
      BY <2>3
    <3>4. sends'[c] = rest
      BY <1>0, <2>1
    <3> HIDE DEF rest
    <3>5. rest = <<>>
      <4>1. Len(rest) \in Nat /\ DOMAIN rest = 1 .. Len(rest)
        BY <3>2, LenProperties
      <4>2. Len(rest) = 0
        BY <3>3, <4>1
      <4>3. QED
        BY <3>2, <4>2, EmptySeq
    <3>6. QED
      BY <3>1, <3>4, <3>5
  <2>5. \A d \in Instances \ {c} : filter'[d] = filter[d] /\ sends'[d] = sends[d]
    BY <1>0, <2>1
  <2>6. \A d \in Instances : RangeOf(d)' = RangeOf(d)
    BY <2>1 DEF RangeOf, LowerOf
  <2>7. pc[c] \notin {"none", "dead"} => Announced(c)'
    BY <2>3, <2>4, <2>6 DEF RangeAnnounced, Announced
  <2>8. \A d \in Instances \ {c} : Announced(d) => Announced(d)'
    BY <2>5, <2>6 DEF Announced
  <2>9. pc[c] # "none"
    BY <2>3 DEF RangeAnnounced
  <2>10. QED
    BY <2>1, <2>5, <2>7, <2>8, <2>9 DEF RangeAnnounced
<1>6. ASSUME NEW p \in Procs, Crash(p) PROVE RangeAnnounced'
  <2>1. \A c \in Instances : c[1] = p => pc'[c] = "dead"
    BY <1>6 DEF Crash
  <2>2. \A c \in Instances : c[1] # p =>
          /\ pc'[c] = pc[c] /\ sorted'[c] = sorted[c] /\ curPos'[c] = curPos[c]
          /\ controllerKey'[c] = controllerKey[c] /\ sends'[c] = sends[c]
          /\ filter'[c] = filter[c]
    BY <1>6 DEF Crash
  <2>3. \A c \in Instances : c[1] # p => RangeOf(c)' = RangeOf(c)
    BY <2>2 DEF RangeOf, LowerOf
  <2>4. \A c \in Instances : c[1] # p /\ Announced(c) => Announced(c)'
    BY <2>2, <2>3 DEF Announced
  <2>5. QED
    BY <2>1, <2>2, <2>4 DEF RangeAnnounced
<1>7. ASSUME NEW c \in Instances,
             RegistControllerInstance(c) \/ RunController(c) \/ ListControllerInstancesByType(c)
      PROVE  RangeAnnounced'
  <2>1. /\ UNCHANGED <<sorted, curPos, controllerKey, sends, filter>>
        /\ pc[c] \in {"joining", "registered", "idle"}
        /\ \E state \in {"registered", "idle", "listed"} : pc' = [pc EXCEPT ![c] = state]
    BY <1>7 DEF RegistControllerInstance, RunController, ListControllerInstancesByType
  <2>2. \A d \in Instances : \/ pc'[d] = pc[d]
                             \/ pc[d] \notin {"none", "dead"} /\ pc'[d] # "none"
    BY <1>0, <2>1
  <2>3. QED
    BY <1>1, <2>1, <2>2
<1>8. ASSUME \/ \E p \in Procs : \/ StartControllerInstanceManager(p) \/ StartInformers(p)
                                 \/ \E i \in Instances : InformerEvent(p, i)
             \/ \E c \in Instances : \/ \E t \in Types : IgnoreUpdate(c, t)
                                     \/ ReportHealth(c) \/ Expire(c)
                                     \/ \E k \in Workloads :
                                          \/ AddProcessingWorkItem(c, k)
                                          \/ \E load \in Loads : DoneProcessingWorkItem(c, k, load)
             \/ UNCHANGED vars
      PROVE  RangeAnnounced'
  <2>1. UNCHANGED <<sorted, curPos, controllerKey, sends, filter, pc>>
    BY <1>8 DEF StartControllerInstanceManager, StartInformers, InformerEvent, IgnoreUpdate,
                ReportHealth, Expire, Leave, AddProcessingWorkItem, DoneProcessingWorkItem, vars
  <2>2. QED
    BY <1>1, <2>1
<1>9. QED
  BY <1>3, <1>4, <1>5, <1>6, <1>7, <1>8 DEF Next

(***************************************************************************)
(* resetFilter sends a range whenever either end of it changes, so unless  *)
(* two of its goroutines are under way at the same time the workload       *)
(* informers end up with the range the controller owns, for any number of  *)
(* processes and types and through joins, crashes and lost entries.        *)
(***************************************************************************)
THEOREM FilterFollows == Spec => FilterOffOnlyIfOvertaken
<1>1. Init => RangeAnnounced
  BY DEF Init, RangeAnnounced
<1>2. IInv /\ RangeAnnounced /\ NoneOvertaken /\ [Next]_vars => RangeAnnounced'
  BY NextAnnounced DEF IInv
<1>3. RangeAnnounced => FilterFollowsRange
  BY DEF RangeAnnounced, Announced, FilterFollowsRange, RangeOf, Working
<1>4. FilterOffOnlyIfOvertaken <=> ([]NoneOvertaken => []FilterFollowsRange)
  BY PTL DEF FilterOffOnlyIfOvertaken, NoneOvertaken
<1>5. QED
  BY <1>1, <1>2, <1>3, <1>4, Inductive, PTL DEF Spec

=============================================================================
