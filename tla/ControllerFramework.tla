------------------------- MODULE ControllerFramework ------------------------
(***************************************************************************)
(* The controller scale-out framework of the workload controller manager.  *)
(*                                                                         *)
(*   cmd/workload-controller-manager/app/controllermanager.go              *)
(*   pkg/cloudfabric-controller/controllerframework/                       *)
(*        controllerinstancemanager.go, controller_framework.go,           *)
(*        controller_framework_utils.go                                    *)
(*                                                                         *)
(* Every manager process runs one ControllerInstanceManager (CIM), which   *)
(* mirrors the ControllerInstance objects of the API server, and one       *)
(* controller per controller type.  A controller computes from the mirror  *)
(* the range of workload hash keys it owns; nobody else assigns ranges, so *)
(* the processes agree on who owns a key only when their mirrors agree.    *)
(*                                                                         *)
(* A controller instance is identified by <<process, type>>: its name is   *)
(* "<type>-<uuid of the CIM>" and a restarted process has a new uuid, so a *)
(* name is created at most once.  Instances of a type sort by process.     *)
(*                                                                         *)
(* The registry keeps, for each name, the sequence of the versions written *)
(* to it: a version is identified by its index, which plays the part of    *)
(* the resource version (only versions of one object are ever compared).   *)
(* Version 0 is "no object".                                               *)
(***************************************************************************)
EXTENDS KeyRange, Sequences, FiniteSets

CONSTANTS
  Procs,        \* manager processes, numbered in the order of their uuids
  Types,        \* controller types (replicaset, deployment)
  Workloads,    \* hash keys of the workloads that exist
  Loads,        \* the workload counts a controller may report
  MaxBeats,     \* bound on health reports written to the registry
  MaxLeaves,    \* bound on expiries and deletions of registry entries
  MaxCrashes    \* bound on process crashes

ASSUME ProcsAssumption == Procs \subseteq Nat /\ IsFiniteSet(Procs)
ASSUME TypesAssumption == IsFiniteSet(Types)
ASSUME WorkloadsAssumption == Workloads \subseteq Keys
ASSUME LoadsAssumption == Loads \subseteq Nat /\ 0 \in Loads
ASSUME BoundsAssumption ==
  MaxBeats \in Nat /\ MaxLeaves \in Nat /\ MaxCrashes \in Nat

VARIABLES
  log,           \* registry: the versions of each ControllerInstance object
  proc,          \* life of each process: off, synced, up, dead
  pos,           \* how many versions of an object a process' informer took in
  store,         \* the version in the informer's local store, 0 if none
  cim,           \* CIM.currentControllers: the version held, 0 if not in the map
  updates,       \* undelivered messages of cimUpdateChGrp, by controller and type
  pc,            \* what each controller is doing
  listing,       \* names returned by the last listControllerInstancesByType
  listedLoad,    \* workloadNum of the controller's own entry in that list
  sorted,        \* ControllerBase.sortedControllerInstancesLocal (the names)
  curPos,        \* ControllerBase.curPos
  controllerKey, \* ControllerBase.controllerKey
  workloadNum,   \* workloadNum of the controller's own entry
  sends,         \* range messages of resetFilter whose goroutine has not sent
  filter,        \* the bounds in force in the workload informers
  busy,          \* workloads under processing
  budget,        \* what is left of the bounds
  lost           \* history: names deleted while known only from the CIM's own list

registryVars == <<log, lost>>
cimVars      == <<proc, pos, store, cim>>
rangeVars    == <<sorted, curPos, controllerKey, workloadNum, sends>>
workVars     == <<filter, busy>>
vars == <<log, proc, pos, store, cim, updates, pc, listing, listedLoad, sorted,
          curPos, controllerKey, workloadNum, sends, filter, busy, budget, lost>>

Instances == Procs \X Types

-----------------------------------------------------------------------------
(* The registry.                                                           *)

Version == [key : Keys, load : Loads, live : BOOLEAN]

Last(i) == Len(log[i])

Registered(i) == Last(i) > 0 /\ log[i][Last(i)].live

Write(i, key, load, live) ==
  log' = [log EXCEPT ![i] = Append(@, [key |-> key, load |-> load, live |-> live])]

-----------------------------------------------------------------------------
(* Ranges.                                                                 *)

Names(s) == {s[a] : a \in DOMAIN s}

Size(s) == Cardinality(Names(s))

\* sortControllerInstancesByKeyAndConvertToLocal: the list of the names of S
\* in increasing order, in the positions Go gives them (it sorts by name,
\* whatever its own name says).  There is exactly one.
SortedLists(S) ==
  {s \in [0 .. Cardinality(S) - 1 -> S] :
     /\ Names(s) = S
     /\ \A a, b \in DOMAIN s : a < b => s[a][1] < s[b][1]}

NoBound == [lower |-> -1, upper |-> -1]

Bound == [lower : Keys \cup {-1}, upper : Keys \cup {-1}]

LowerOf(c) == LowerKey(Size(sorted[c]), curPos[c])

IsInRange(c, key) ==
  /\ curPos[c] # -1
  /\ InRange(key, LowerOf(c), controllerKey[c])

\* cim.ListControllerInstances(type) of c's process
View(c) == {i \in Instances : i[2] = c[2] /\ cim[c[1]][i] # 0}

-----------------------------------------------------------------------------
Init ==
  /\ log = [i \in Instances |-> <<>>]
  /\ proc = [p \in Procs |-> "off"]
  /\ pos = [p \in Procs |-> [i \in Instances |-> 0]]
  /\ store = [p \in Procs |-> [i \in Instances |-> 0]]
  /\ cim = [p \in Procs |-> [i \in Instances |-> 0]]
  /\ updates = [c \in Instances |-> [t \in Types |-> 0]]
  /\ pc = [c \in Instances |-> "none"]
  /\ listing = [c \in Instances |-> {}]
  /\ listedLoad = [c \in Instances |-> 0]
  /\ sorted = [c \in Instances |-> <<>>]
  /\ curPos = [c \in Instances |-> -1]
  /\ controllerKey = [c \in Instances |-> 0]
  /\ workloadNum = [c \in Instances |-> 0]
  /\ sends = [c \in Instances |-> <<>>]
  /\ filter = [c \in Instances |-> NoBound]
  /\ busy = [c \in Instances |-> {}]
  /\ budget = [beats |-> MaxBeats, leaves |-> MaxLeaves, crashes |-> MaxCrashes]
  /\ lost = [p \in Procs |-> {}]

-----------------------------------------------------------------------------
(***************************************************************************)
(* The process: NewControllerInstanceManager lists the registry into its   *)
(* map (syncControllerInstances), the controllers are built and register,  *)
(* and only then the informers start.                                      *)
(***************************************************************************)
SyncControllerInstances(p) ==
  cim' = [cim EXCEPT ![p] =
            [i \in Instances |-> IF Registered(i) THEN Last(i) ELSE 0]]

StartControllerInstanceManager(p) ==
  /\ proc[p] = "off"
  /\ proc' = [proc EXCEPT ![p] = "synced"]
  /\ SyncControllerInstances(p)
  /\ UNCHANGED <<log, pos, store, updates, pc, listing, listedLoad, sorted, curPos,
                 controllerKey, workloadNum, sends, filter, busy, budget, lost>>

\* Mutant: isSelfUpdated compares only the lower ends.
UpdateCachedLowerOnly(c, S, load) ==
  \E new \in SortedLists(S) :
    IF sorted[c] = new \/ c \notin S
    THEN UNCHANGED rangeVars
    ELSE LET n == Size(new)
             newPos == CHOOSE a \in DOMAIN new : new[a] = c
             isSelfUpdated == curPos[c] < 0 \/ LowerOf(c) # LowerKey(n, newPos)
         IN /\ sorted' = [sorted EXCEPT ![c] = new]
            /\ curPos' = [curPos EXCEPT ![c] = newPos]
            /\ workloadNum' = [workloadNum EXCEPT ![c] = load]
            /\ IF isSelfUpdated
               THEN /\ controllerKey' = [controllerKey EXCEPT ![c] = UpperKey(n, newPos)]
                    /\ sends' = [sends EXCEPT ![c] =
                                   Append(@, [lower |-> LowerKey(n, newPos),
                                              upper |-> UpperKey(n, newPos)])]
               ELSE UNCHANGED <<controllerKey, sends>>

\* Mutant: isSelfUpdated compares only the upper ends.
UpdateCachedUpperOnly(c, S, load) ==
  \E new \in SortedLists(S) :
    IF sorted[c] = new \/ c \notin S
    THEN UNCHANGED rangeVars
    ELSE LET n == Size(new)
             newPos == CHOOSE a \in DOMAIN new : new[a] = c
             isSelfUpdated == curPos[c] < 0 \/ controllerKey[c] # UpperKey(n, newPos)
         IN /\ sorted' = [sorted EXCEPT ![c] = new]
            /\ curPos' = [curPos EXCEPT ![c] = newPos]
            /\ workloadNum' = [workloadNum EXCEPT ![c] = load]
            /\ IF isSelfUpdated
               THEN /\ controllerKey' = [controllerKey EXCEPT ![c] = UpperKey(n, newPos)]
                    /\ sends' = [sends EXCEPT ![c] =
                                   Append(@, [lower |-> LowerKey(n, newPos),
                                              upper |-> UpperKey(n, newPos)])]
               ELSE UNCHANGED <<controllerKey, sends>>

(***************************************************************************)
(* updateCachedControllerInstances with the list S of the names of c's     *)
(* type: needToUpdateControllerKeys compares the names and the keys, and   *)
(* since equally long lists get equal keys the names decide.  When c is    *)
(* not in the list, tryConsolidateControllerInstancesLocal reports nothing *)
(* to update and the old range stays in force.  A new list brings along    *)
(* the workloadNum of c's entry in the CIM's map, the parameter load.      *)
(***************************************************************************)
UpdateCachedControllerInstances(c, S, load) ==
  \E new \in SortedLists(S) :
    IF sorted[c] = new \/ c \notin S
    THEN UNCHANGED rangeVars
    ELSE LET n == Size(new)
             newPos == CHOOSE a \in DOMAIN new : new[a] = c
             isSelfUpdated == \/ controllerKey[c] # UpperKey(n, newPos)
                              \/ curPos[c] < 0
                              \/ LowerOf(c) # LowerKey(n, newPos)
         IN /\ sorted' = [sorted EXCEPT ![c] = new]
            /\ curPos' = [curPos EXCEPT ![c] = newPos]
            /\ workloadNum' = [workloadNum EXCEPT ![c] = load]
            /\ IF isSelfUpdated
               THEN /\ controllerKey' = [controllerKey EXCEPT ![c] = UpperKey(n, newPos)]
                    /\ sends' = [sends EXCEPT ![c] =
                                   Append(@, [lower |-> LowerKey(n, newPos),
                                              upper |-> UpperKey(n, newPos)])]
               ELSE UNCHANGED <<controllerKey, sends>>

(***************************************************************************)
(* NewControllerBase up to the registration: the instance adds itself to   *)
(* the list of the others and takes its range.                             *)
(***************************************************************************)
NewControllerBase(c) ==
  /\ pc[c] = "none" /\ proc[c[1]] = "synced"
  /\ UpdateCachedControllerInstances(c, View(c) \cup {c}, 0)
  /\ pc' = [pc EXCEPT ![c] = "joining"]
  /\ UNCHANGED <<log, proc, pos, store, cim, updates, listing, listedLoad,
                 filter, busy, budget, lost>>

\* registControllerInstance: an error is fatal to the process (see Crash).
RegistControllerInstance(c) ==
  /\ pc[c] = "joining"
  /\ Write(c, controllerKey[c], 0, TRUE)
  /\ pc' = [pc EXCEPT ![c] = "registered"]
  /\ UNCHANGED <<proc, pos, store, cim, updates, listing, listedLoad, sorted, curPos,
                 controllerKey, workloadNum, sends, filter, busy, budget, lost>>

\* The end of StartControllerManager: InformerFactory.Start.
StartInformers(p) ==
  /\ proc[p] = "synced"
  /\ \A t \in Types : pc[<<p, t>>] = "registered"
  /\ proc' = [proc EXCEPT ![p] = "up"]
  /\ UNCHANGED <<log, pos, store, cim, updates, pc, listing, listedLoad, sorted, curPos,
                 controllerKey, workloadNum, sends, filter, busy, budget, lost>>

(***************************************************************************)
(* Run waits for the workload informers to sync; those wait for the first  *)
(* bounds of every controller of the process (waitForBoundInit: the pod    *)
(* and replicaset informers are shared).  Then the workers and             *)
(* WatchInstanceUpdate start.                                              *)
(***************************************************************************)
RunController(c) ==
  /\ pc[c] = "registered" /\ proc[c[1]] = "up"
  /\ \A t \in Types : filter[<<c[1], t>>] # NoBound
  /\ pc' = [pc EXCEPT ![c] = "idle"]
  /\ UNCHANGED <<log, proc, pos, store, cim, updates, listing, listedLoad, sorted, curPos,
                 controllerKey, workloadNum, sends, filter, busy, budget, lost>>

-----------------------------------------------------------------------------
(***************************************************************************)
(* The CIM's event handlers.  notifyControllerInstanceChanges sends the    *)
(* type to every controller of the process from a goroutine of its own; the *)
(* messages of a type are alike, so the channel is a counter per type.     *)
(***************************************************************************)
NotifyControllerInstanceChanges(p, i) ==
  updates' = [c \in Instances |->
                IF c[1] = p THEN [updates[c] EXCEPT ![i[2]] = @ + 1]
                            ELSE updates[c]]

UpdateControllerInstance(p, i, old, cur) ==
  IF cur <= old
  THEN UNCHANGED <<cim, updates>>
  ELSE /\ cim' = [cim EXCEPT ![p][i] = cur]
       /\ IF log[i][cur].load # log[i][old].load \/ log[i][cur].key # log[i][old].key
          THEN NotifyControllerInstanceChanges(p, i)
          ELSE UNCHANGED updates

\* Mutant: a new instance is stored without telling the controllers.
AddControllerInstanceSilent(p, i, v) ==
  IF cim[p][i] # 0
  THEN UpdateControllerInstance(p, i, cim[p][i], v)
  ELSE cim' = [cim EXCEPT ![p][i] = v] /\ UNCHANGED updates

AddControllerInstance(p, i, v) ==
  IF cim[p][i] # 0
  THEN UpdateControllerInstance(p, i, cim[p][i], v)
  ELSE /\ cim' = [cim EXCEPT ![p][i] = v]
       /\ NotifyControllerInstanceChanges(p, i)

\* Mutant: an instance is removed without telling the controllers.
DeleteControllerInstanceSilent(p, i) ==
  /\ cim' = [cim EXCEPT ![p][i] = 0]
  /\ UNCHANGED updates

\* Mutant: only an entry that is still at its first version is removed.
DeleteControllerInstanceStale(p, i) ==
  IF cim[p][i] = 1
  THEN /\ cim' = [cim EXCEPT ![p][i] = 0]
       /\ NotifyControllerInstanceChanges(p, i)
  ELSE UNCHANGED <<cim, updates>>

DeleteControllerInstance(p, i) ==
  IF cim[p][i] # 0
  THEN /\ cim' = [cim EXCEPT ![p][i] = 0]
       /\ NotifyControllerInstanceChanges(p, i)
  ELSE UNCHANGED <<cim, updates>>

(***************************************************************************)
(* The shared informer (client-go) takes in version v of object i and      *)
(* calls a handler: Add when the object is new to its store, Update with   *)
(* the stored object as the old one, Delete when a stored object is gone.  *)
(* Versions of one object arrive in order; DeltaFIFO gives no order across *)
(* objects; a list, and the list that follows a broken watch, skips the    *)
(* versions in between, and never tells of an object that came and went.   *)
(***************************************************************************)
InformerEvent(p, i) ==
  /\ proc[p] = "up"
  /\ \E v \in pos[p][i] + 1 .. Last(i) :
       /\ pos' = [pos EXCEPT ![p][i] = v]
       /\ store' = [store EXCEPT ![p][i] = IF log[i][v].live THEN v ELSE 0]
       /\ \/ /\ log[i][v].live /\ store[p][i] = 0
             /\ AddControllerInstance(p, i, v)
          \/ /\ log[i][v].live /\ store[p][i] # 0
             /\ UpdateControllerInstance(p, i, store[p][i], v)
          \/ /\ ~log[i][v].live /\ store[p][i] # 0
             /\ DeleteControllerInstance(p, i)
          \/ /\ ~log[i][v].live /\ store[p][i] = 0
             /\ UNCHANGED <<cim, updates>>
  /\ UNCHANGED <<log, proc, pc, listing, listedLoad, sorted, curPos, controllerKey,
                 workloadNum, sends, filter, busy, budget, lost>>

-----------------------------------------------------------------------------
\* Mutant: the type of the message is not looked at.
IgnoreUpdateOfAnyType(c, t) ==
  /\ pc[c] = "idle" /\ updates[c][t] > 0
  /\ updates' = [updates EXCEPT ![c][t] = @ - 1]
  /\ UNCHANGED <<log, proc, pos, store, cim, pc, listing, listedLoad, sorted, curPos,
                 controllerKey, workloadNum, sends, filter, busy, budget, lost>>

(***************************************************************************)
(* WatchInstanceUpdate and instanceUpdateProcess: a message of another     *)
(* type is dropped; for its own type the controller reads the CIM's map    *)
(* (without the CIM's mutex) and then, in a step of its own, applies it.   *)
(***************************************************************************)
IgnoreUpdate(c, t) ==
  /\ pc[c] = "idle" /\ t # c[2] /\ updates[c][t] > 0
  /\ updates' = [updates EXCEPT ![c][t] = @ - 1]
  /\ UNCHANGED <<log, proc, pos, store, cim, pc, listing, listedLoad, sorted, curPos,
                 controllerKey, workloadNum, sends, filter, busy, budget, lost>>

ListControllerInstancesByType(c) ==
  /\ pc[c] = "idle" /\ updates[c][c[2]] > 0
  /\ updates' = [updates EXCEPT ![c][c[2]] = @ - 1]
  /\ listing' = [listing EXCEPT ![c] = View(c)]
  /\ listedLoad' = [listedLoad EXCEPT ![c] =
                      IF c \in View(c) THEN log[c][cim[c[1]][c]].load ELSE 0]
  /\ pc' = [pc EXCEPT ![c] = "listed"]
  /\ UNCHANGED <<log, proc, pos, store, cim, sorted, curPos, controllerKey,
                 workloadNum, sends, filter, busy, budget, lost>>

InstanceUpdateProcess(c) ==
  /\ pc[c] = "listed"
  /\ UpdateCachedControllerInstances(c, listing[c], listedLoad[c])
  /\ pc' = [pc EXCEPT ![c] = "idle"]
  /\ listing' = [listing EXCEPT ![c] = {}]
  /\ listedLoad' = [listedLoad EXCEPT ![c] = 0]
  /\ UNCHANGED <<log, proc, pos, store, cim, updates, filter, busy, budget, lost>>

(***************************************************************************)
(* One goroutine of resetFilter gets its message into the broadcast group  *)
(* and the workload informers set their bounds.  The goroutines are not    *)
(* ordered; past the group, messages stay in order.                        *)
(***************************************************************************)
ResetFilter(c) ==
  /\ proc[c[1]] = "up"
  /\ \E a \in DOMAIN sends[c] :
       /\ filter' = [filter EXCEPT ![c] = sends[c][a]]
       /\ sends' = [sends EXCEPT ![c] =
                      [b \in 1 .. Len(@) - 1 |-> IF b < a THEN @[b] ELSE @[b + 1]]]
  /\ UNCHANGED <<log, proc, pos, store, cim, updates, pc, listing, listedLoad, sorted,
                 curPos, controllerKey, workloadNum, busy, budget, lost>>

-----------------------------------------------------------------------------
Working(c) == pc[c] \in {"idle", "listed"}

(***************************************************************************)
(* A worker takes a workload from the queue; syncReplicaSet and            *)
(* syncDeployment return at once when the informer no longer shows it or   *)
(* when its key is not in range.                                           *)
(***************************************************************************)
Handles(c, k) == InRange(k, filter[c].lower, filter[c].upper) /\ IsInRange(c, k)

AddProcessingWorkItem(c, k) ==
  /\ Working(c) /\ k \notin busy[c]
  /\ Handles(c, k)
  /\ busy' = [busy EXCEPT ![c] = @ \cup {k}]
  /\ UNCHANGED <<log, proc, pos, store, cim, updates, pc, listing, listedLoad, sorted,
                 curPos, controllerKey, workloadNum, sends, filter, budget, lost>>

\* The worker is done with k, or had nothing to do for it, and stores the
\* length of the queue (SetWorkloadNum).
DoneProcessingWorkItem(c, k, load) ==
  /\ Working(c)
  /\ k \in busy[c] \/ ~Handles(c, k)
  /\ busy' = [busy EXCEPT ![c] = @ \ {k}]
  /\ workloadNum' = [workloadNum EXCEPT ![c] = load]
  /\ UNCHANGED <<log, proc, pos, store, cim, updates, pc, listing, listedLoad, sorted,
                 curPos, controllerKey, sends, filter, budget, lost>>

(***************************************************************************)
(* ReportHealth, started with the controller: an unconditional update of   *)
(* the own entry with the current key and workload number, which fails     *)
(* (and is only logged) when the entry is gone: AllowCreateOnUpdate is     *)
(* false.                                                                  *)
(***************************************************************************)
ReportHealth(c) ==
  /\ pc[c] \in {"registered", "idle", "listed"} /\ budget.beats > 0
  /\ IF Registered(c) THEN Write(c, controllerKey[c], workloadNum[c], TRUE)
                      ELSE UNCHANGED log
  /\ budget' = [budget EXCEPT !.beats = @ - 1]
  /\ UNCHANGED <<proc, pos, store, cim, updates, pc, listing, listedLoad, sorted, curPos,
                 controllerKey, workloadNum, sends, filter, busy, lost>>

(***************************************************************************)
(* The entry goes: its TTL of 30 seconds ran out because the process died, *)
(* hung or lost the API server, or DeleteController removed it.            *)
(***************************************************************************)
Leave(i) ==
  /\ Registered(i)
  /\ Write(i, log[i][Last(i)].key, log[i][Last(i)].load, FALSE)
  /\ lost' = [p \in Procs |->
                IF proc[p] \in {"synced", "up"} /\ cim[p][i] # 0 /\ store[p][i] = 0
                THEN lost[p] \cup {i} ELSE lost[p]]
  /\ UNCHANGED <<proc, pos, store, cim, updates, pc, listing, listedLoad, sorted, curPos,
                 controllerKey, workloadNum, sends, filter, busy>>

Expire(i) ==
  \/ /\ proc[i[1]] = "dead"
     /\ Leave(i) /\ UNCHANGED budget
  \/ /\ proc[i[1]] # "dead" /\ budget.leaves > 0
     /\ Leave(i) /\ budget' = [budget EXCEPT !.leaves = @ - 1]

\* The process stops at any point (klog.Fatalf included): its memory is gone.
Crash(p) ==
  /\ proc[p] \in {"synced", "up"} /\ budget.crashes > 0
  /\ budget' = [budget EXCEPT !.crashes = @ - 1]
  /\ proc' = [proc EXCEPT ![p] = "dead"]
  /\ pos' = [pos EXCEPT ![p] = [i \in Instances |-> 0]]
  /\ store' = [store EXCEPT ![p] = [i \in Instances |-> 0]]
  /\ cim' = [cim EXCEPT ![p] = [i \in Instances |-> 0]]
  /\ updates' = [c \in Instances |->
                   IF c[1] = p THEN [t \in Types |-> 0] ELSE updates[c]]
  /\ pc' = [c \in Instances |-> IF c[1] = p THEN "dead" ELSE pc[c]]
  /\ listing' = [c \in Instances |-> IF c[1] = p THEN {} ELSE listing[c]]
  /\ listedLoad' = [c \in Instances |-> IF c[1] = p THEN 0 ELSE listedLoad[c]]
  /\ sorted' = [c \in Instances |-> IF c[1] = p THEN <<>> ELSE sorted[c]]
  /\ curPos' = [c \in Instances |-> IF c[1] = p THEN -1 ELSE curPos[c]]
  /\ controllerKey' = [c \in Instances |-> IF c[1] = p THEN 0 ELSE controllerKey[c]]
  /\ workloadNum' = [c \in Instances |-> IF c[1] = p THEN 0 ELSE workloadNum[c]]
  /\ sends' = [c \in Instances |-> IF c[1] = p THEN <<>> ELSE sends[c]]
  /\ filter' = [c \in Instances |-> IF c[1] = p THEN NoBound ELSE filter[c]]
  /\ busy' = [c \in Instances |-> IF c[1] = p THEN {} ELSE busy[c]]
  /\ lost' = [lost EXCEPT ![p] = {}]
  /\ UNCHANGED log

-----------------------------------------------------------------------------
Next ==
  \/ \E p \in Procs : \/ StartControllerInstanceManager(p)
                      \/ StartInformers(p)
                      \/ Crash(p)
                      \/ \E i \in Instances : InformerEvent(p, i)
  \/ \E c \in Instances : \/ NewControllerBase(c)
                          \/ RegistControllerInstance(c)
                          \/ RunController(c)
                          \/ \E t \in Types : IgnoreUpdate(c, t)
                          \/ ListControllerInstancesByType(c)
                          \/ InstanceUpdateProcess(c)
                          \/ ResetFilter(c)
                          \/ ReportHealth(c)
                          \/ Expire(c)
                          \/ \E k \in Workloads :
                               \/ AddProcessingWorkItem(c, k)
                               \/ \E load \in Loads : DoneProcessingWorkItem(c, k, load)

Spec == Init /\ [][Next]_vars

(***************************************************************************)
(* Goroutines that can run do run, the API server answers, the informer    *)
(* keeps retrying, and the entry of a dead process expires.  Nothing makes *)
(* a process start, crash, lose its entry or have work.                    *)
(***************************************************************************)
Fairness ==
  /\ \A p \in Procs :
       /\ WF_vars(StartInformers(p))
       /\ \A i \in Instances : WF_vars(InformerEvent(p, i))
  /\ \A c \in Instances :
       /\ WF_vars(NewControllerBase(c)) /\ WF_vars(RegistControllerInstance(c))
       /\ WF_vars(RunController(c)) /\ WF_vars(ResetFilter(c))
       /\ \A t \in Types : WF_vars(IgnoreUpdate(c, t))
       /\ WF_vars(ListControllerInstancesByType(c))
       /\ WF_vars(InstanceUpdateProcess(c))
       /\ WF_vars(proc[c[1]] = "dead" /\ Expire(c))

FairSpec == Spec /\ Fairness

-----------------------------------------------------------------------------
(* Properties.                                                             *)

TypeOK ==
  /\ log \in [Instances -> Seq(Version)]
  /\ proc \in [Procs -> {"off", "synced", "up", "dead"}]
  /\ pos \in [Procs -> [Instances -> Nat]]
  /\ store \in [Procs -> [Instances -> Nat]]
  /\ cim \in [Procs -> [Instances -> Nat]]
  /\ updates \in [Instances -> [Types -> Nat]]
  /\ pc \in [Instances -> {"none", "joining", "registered", "idle", "listed", "dead"}]
  /\ listing \in [Instances -> SUBSET Instances]
  /\ listedLoad \in [Instances -> Loads]
  /\ DOMAIN sorted = Instances
  /\ \A c \in Instances : sorted[c] \in SortedLists(Names(sorted[c]))
  /\ curPos \in [Instances -> Int]
  /\ controllerKey \in [Instances -> Keys]
  /\ workloadNum \in [Instances -> Loads]
  /\ sends \in [Instances -> Seq(Bound)]
  /\ filter \in [Instances -> Bound]
  /\ busy \in [Instances -> SUBSET Workloads]
  /\ budget \in [beats : Nat, leaves : Nat, crashes : Nat]
  /\ lost \in [Procs -> SUBSET Instances]

\* The informer of p has taken in everything written to the registry.
Drained(p) == proc[p] = "up" /\ \A i \in Instances : pos[p][i] = Last(i)

(***************************************************************************)
(* A controller that has a range holds a consistent one: it stands at      *)
(* curPos in its own list and controllerKey is the upper end of that       *)
(* position, although the list, the position and the key are replaced by   *)
(* updates that may leave some of them alone (updateCachedControllerInstances). *)
(* ReportHealth and SetWorkloadNum index the list with curPos unchecked.   *)
(***************************************************************************)
RangeConsistent ==
  \A c \in Instances : pc[c] \notin {"none", "dead"} =>
    /\ curPos[c] \in DOMAIN sorted[c]
    /\ sorted[c][curPos[c]] = c
    /\ controllerKey[c] = UpperKey(Size(sorted[c]), curPos[c])

(***************************************************************************)
(* No lost wake-up between the CIM and its controllers: a controller whose *)
(* list differs from the CIM's map has a message coming, and so has one    *)
(* that is about to apply a map it read before the map changed.  (A        *)
(* controller that is missing from the map keeps its list:                 *)
(* tryConsolidateControllerInstancesLocal.)                                *)
(***************************************************************************)
NoLostUpdate ==
  \A c \in Instances :
    /\ pc[c] \in {"registered", "idle"} /\ c \in View(c) =>
         Names(sorted[c]) = View(c) \/ updates[c][c[2]] > 0
    /\ pc[c] = "listed" =>
         listing[c] = View(c) \/ updates[c][c[2]] > 0

(***************************************************************************)
(* Once its informer has caught up, the CIM's map holds every registered   *)
(* instance and nothing else, except the instances that went away while    *)
(* the CIM knew them only from the list it made before its informer.       *)
(***************************************************************************)
ViewExact ==
  \A p \in Procs : Drained(p) =>
    \A i \in Instances :
      /\ Registered(i) => cim[p][i] # 0
      /\ cim[p][i] # 0 => Registered(i) \/ i \in lost[p]

(***************************************************************************)
(* What the proofs need besides.  Life: how far a controller can be, given *)
(* how far its process is; before it registers nobody has seen its name.   *)
(* Mirror: the informer's store is the version it last took in, every      *)
(* stored object is in the CIM's map, and whatever else is in the map is   *)
(* registered or was lost.                                                 *)
(***************************************************************************)
Life ==
  /\ \A c \in Instances :
       /\ pc[c] = "none" => /\ proc[c[1]] \in {"off", "synced"}
                            /\ sorted[c] = <<>>
       /\ pc[c] = "joining" => proc[c[1]] = "synced"
       /\ pc[c] \in {"none", "joining"} => log[c] = <<>>
       /\ proc[c[1]] = "off" => pc[c] = "none"
       /\ proc[c[1]] = "dead" => pc[c] = "dead"
  /\ \A p \in Procs : proc[p] \in {"off", "synced"} =>
       /\ \A i \in Instances : pos[p][i] = 0 /\ store[p][i] = 0
       /\ \A t \in Types : cim[p][<<p, t>>] = 0

Mirror ==
  \A p \in Procs, i \in Instances :
    /\ pos[p][i] <= Last(i)
    /\ store[p][i] = IF pos[p][i] > 0 /\ log[i][pos[p][i]].live THEN pos[p][i] ELSE 0
    /\ store[p][i] # 0 => cim[p][i] # 0
    /\ cim[p][i] <= Last(i)
    /\ proc[p] \in {"synced", "up"} /\ cim[p][i] # 0 /\ store[p][i] = 0 =>
         Registered(i) \/ i \in lost[p]

\* Every started process has caught up and no message is on its way.
Quiet ==
  \A p \in Procs :
    \/ proc[p] \in {"off", "dead"}
    \/ /\ Drained(p)
       /\ \A t \in Types : pc[<<p, t>>] = "idle" /\ updates[<<p, t>>][t] = 0

\* Exactly the working controllers are registered and no CIM holds a ghost.
Healthy ==
  /\ \A c \in Instances : Working(c) <=> Registered(c)
  /\ \A p \in Procs : lost[p] = {}

(***************************************************************************)
(* The point of the framework: after any history of joins, health reports, *)
(* expiries and crashes, when the messages have drained and the registry   *)
(* lists exactly the working controllers, every key of the key space is in *)
(* the range of exactly one controller of each type that runs at all, even *)
(* though every controller computed its range alone.                       *)
(***************************************************************************)
ExactlyOneOwner ==
  Quiet /\ Healthy =>
    \A t \in Types : \A k \in Keys :
      LET Team == {c \in Instances : c[2] = t /\ Working(c)}
      IN Team # {} => \E c \in Team : /\ IsInRange(c, k)
                                      /\ \A d \in Team : IsInRange(d, k) => d = c

(***************************************************************************)
(* A working controller ends up, for good, with the list of all registered *)
(* instances of its type, unless it dies or its own entry goes away.       *)
(***************************************************************************)
ListConverges ==
  \A c \in Instances :
    <>[](\/ ~Working(c)
         \/ ~Registered(c)
         \/ {i \in Instances : i[2] = c[2] /\ Registered(i)} \subseteq Names(sorted[c]))

(***************************************************************************)
(* "Adjust filter based on new controller instance records": unless two    *)
(* ranges of one controller are under way at the same time, whose          *)
(* goroutines may overtake each other, its workload informers show it the  *)
(* range it owns whenever no range message is on its way, through joins,   *)
(* crashes and the updates that leave the key alone.                       *)
(***************************************************************************)
FilterFollowsRange ==
  \A c \in Instances : Working(c) /\ sends[c] = <<>> =>
    filter[c] = [lower |-> LowerOf(c), upper |-> controllerKey[c]]

FilterOffOnlyIfOvertaken ==
  [](\A c \in Instances : Len(sends[c]) <= 1) => []FilterFollowsRange
=============================================================================
