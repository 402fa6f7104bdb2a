------------------------ MODULE FilteredReflector ------------------------
(***************************************************************************)
(* The reflector of a filtered informer: it lists and watches only the     *)
(* objects whose hash key lies in the bounds of the controllers it serves, *)
(* and starts again when a controller announces other bounds.              *)
(*                                                                         *)
(*   client-go/tools/cache/reflector.go                                    *)
(*   client-go/tools/cache/shared_informer.go (AddResetCh)                 *)
(*                                                                         *)
(* A bound has a reset channel of its own, and several bounds may have the *)
(* same source: the pods of a replica set controller are selected by the   *)
(* key of their owner, or by their own for adoption.  A source announces   *)
(* its bounds to each of its reset channels.                               *)
(*                                                                         *)
(* The API server (external) is the history of the objects' versions; a    *)
(* resource version is a place in it.  A list answers with a state at      *)
(* least as new as the version it is asked for.                            *)
(***************************************************************************)
EXTENDS Integers, Sequences, FiniteSets

CONSTANTS
  Objects,       \* objects of the reflected type
  Members,       \* indices of filterBounds, each with its reset channel
  SourceOf,      \* filterBound.sourceName of a member
  KeyOf,         \* KeyOf[o][m]: the hash key of o that the bounds of m are about
  NoKey,         \* ... if it has one
  Bounds,        \* bounds a source may announce: <<lower, upper>>
  None,          \* no bounds yet, no signal
  Exited,        \* a forwarder that returned
  MaxWrites,     \* bound on writes of objects
  MaxResets,     \* bound on announced bounds
  MaxFaults,     \* bound on lists and watches that fail or break off
  MaxClientSets  \* bound on updates of the client set

Sources == {SourceOf[m] : m \in Members}

ASSUME MemberAssumption ==
  /\ Members # {} /\ DOMAIN SourceOf = Members
  /\ KeyOf \in [Objects -> [Members -> Nat \cup {NoKey}]]
ASSUME BoundsAssumption == Bounds \subseteq Nat \X Nat
ASSUME NoneAssumption == {None, Exited} \cap Bounds = {} /\ None # Exited /\ NoKey \notin Nat
ASSUME BoundAssumption ==
  /\ MaxWrites \in Nat /\ MaxResets \in Nat /\ MaxFaults \in Nat /\ MaxClientSets \in Nat

VARIABLES
  history,      \* the objects after each write: the version of each, 0 if it is deleted
  announced,    \* the last bounds of each source
  queue,        \* signals waiting in the reset channel of each member
  resets,
  held,         \* the signal each forwarder of a member holds out to aggChan
  rounds,       \* bodies of BackoffUntil that started: each starts a forwarder per member
  pc,           \* where Run is
  bounds,       \* Reflector.filterBounds[m].bounds
  store,        \* Reflector.store: the version of each object, 0 if it is not there
  rv,           \* resourceVersion of ListAndWatch
  lastSync,     \* lastSyncResourceVersion, 0 for ""
  gone,         \* isLastSyncResourceVersionGone
  unfiltered,   \* the last list was the one after an expired version, without selector
  clientSets,   \* messages waiting in clientSetUpdateChan
  updates,
  faults,
  stopped       \* stopCh is closed

serverVars == <<history, announced, queue, resets, clientSets, updates, stopped>>
runVars == <<pc, bounds, store, rv, lastSync, gone, unfiltered>>
vars == <<history, announced, queue, resets, held, rounds, pc, bounds, store, rv,
          lastSync, gone, unfiltered, clientSets, updates, faults, stopped>>

Now == Len(history)

Rounds == 1 .. MaxFaults + 1

-----------------------------------------------------------------------------
(* The selector.                                                           *)

\* createHashkeyListOptions: gt the lower bound, or gte if it is 0, and lte
\* the upper bound.  The comment on the field bounds (reflector.go:62) says "The
\* lower bound is inclusive while the upper bound is exclusive"; the code is
\* the other way round, and agrees with InRange of the controllers, which
\* announce the bounds.
InBound(k, b) ==
  /\ k # NoKey /\ b # None
  /\ k > b[1] \/ b[1] = 0
  /\ k <= b[2]

\* ... of one of the members
Selected(o, bs) == \E m \in Members : InBound(KeyOf[o][m], bs[m])

HasInitBounds(bs) == \E m \in Members : bs[m] = None

\* A signal sets the bounds of every member of its source.
SetBounds(m, b) ==
  bounds' = [i \in Members |-> IF SourceOf[i] = SourceOf[m] THEN b ELSE bounds[i]]

-----------------------------------------------------------------------------
Init ==
  /\ history = <<[o \in Objects |-> 0]>>
  /\ announced = [s \in Sources |-> None]
  /\ queue = [m \in Members |-> << >>] /\ resets = 0
  /\ held = [m \in Members |-> [i \in Rounds |-> None]] /\ rounds = 0
  /\ pc = "body"
  /\ bounds = [m \in Members |-> None]
  /\ store = [o \in Objects |-> 0]
  /\ rv = 0 /\ lastSync = 0 /\ gone = FALSE /\ unfiltered = FALSE
  /\ clientSets = 0 /\ updates = 0 /\ faults = 0 /\ stopped = FALSE

-----------------------------------------------------------------------------
(* The outside: clients of the API server, the controllers, the process.   *)

Write(o) ==
  /\ Now <= MaxWrites
  /\ \E v \in {0, Now + 1} :
       /\ history[Now][o] # v
       /\ history' = Append(history, [history[Now] EXCEPT ![o] = v])
  /\ UNCHANGED <<announced, queue, resets, held, rounds, runVars, clientSets, updates,
                 faults, stopped>>

\* ControllerBase announces a range that differs from its last.
Announce(s) ==
  /\ resets < MaxResets
  /\ resets' = resets + 1
  /\ \E b \in Bounds \ {announced[s]} :
       /\ announced' = [announced EXCEPT ![s] = b]
       /\ queue' = [m \in Members |-> IF SourceOf[m] = s THEN Append(queue[m], b)
                                      ELSE queue[m]]
  /\ UNCHANGED <<history, held, rounds, runVars, clientSets, updates, faults, stopped>>

UpdateClientSets ==
  /\ updates < MaxClientSets
  /\ updates' = updates + 1 /\ clientSets' = clientSets + 1
  /\ UNCHANGED <<history, announced, queue, resets, held, rounds, runVars, faults, stopped>>

Stop ==
  /\ ~stopped /\ stopped' = TRUE
  /\ UNCHANGED <<history, announced, queue, resets, held, rounds, runVars, clientSets,
                 updates, faults>>

-----------------------------------------------------------------------------
(* The forwarders that Run starts.                                         *)

\* It takes a signal and offers it to aggChan, with no regard to stopCh ...
Forward(m, i) ==
  /\ i <= rounds /\ held[m][i] = None /\ queue[m] # << >>
  /\ held' = [held EXCEPT ![m][i] = Head(queue[m])]
  /\ queue' = [queue EXCEPT ![m] = Tail(@)]
  /\ UNCHANGED <<history, announced, resets, rounds, runVars, clientSets, updates,
                 faults, stopped>>

\* ... and returns when it waits for the next one.
ForwarderExits(m, i) ==
  /\ stopped /\ i <= rounds /\ held[m][i] = None
  /\ held' = [held EXCEPT ![m][i] = Exited]
  /\ UNCHANGED <<serverVars, rounds, runVars, faults>>

-----------------------------------------------------------------------------
(* Run, and the loop of BackoffUntil around it.                            *)

RunBody ==
  /\ pc = "body"
  /\ IF stopped THEN pc' = "done" /\ UNCHANGED rounds
     ELSE pc' = "start" /\ rounds' = rounds + 1
  /\ UNCHANGED <<serverVars, held, bounds, store, rv, lastSync, gone, unfiltered, faults>>

\* ListAndWatch returned nil or asked for a reset: Run calls it again.
Again == pc' = "start"

\* ... another error, and the body of Run ends
Fail == pc' = "body"

\* The head of ListAndWatch.  A closed stopCh makes it return nil.
ListAndWatch ==
  /\ pc = "start"
  /\ IF HasInitBounds(bounds) THEN pc' = "init"
     ELSE IF stopped THEN Again ELSE pc' = "list"
  /\ UNCHANGED <<serverVars, held, rounds, bounds, store, rv, lastSync, gone, unfiltered,
                 faults>>

WaitForBoundInit(m, i) ==
  /\ pc = "init" /\ held[m][i] \in Bounds
  /\ SetBounds(m, held[m][i])
  /\ held' = [held EXCEPT ![m][i] = None]
  /\ pc' = IF HasInitBounds(bounds') THEN "init" ELSE "list"
  /\ UNCHANGED <<serverVars, rounds, store, rv, lastSync, gone, unfiltered, faults>>

\* stopCh is closed, wherever ListAndWatch looks at it
StopRequested ==
  /\ stopped /\ pc \in {"init", "list", "watch", "handle"}
  /\ Again
  /\ UNCHANGED <<serverVars, held, rounds, bounds, store, rv, lastSync, gone, unfiltered,
                 faults>>

-----------------------------------------------------------------------------
(* The list.                                                               *)

\* A bug: a relist may be served from any state the server still has.
OldestAllowed == 1

\* relistResourceVersion: no older than what was seen, and after "gone" the newest
RelistVersion == IF gone THEN Now ELSE IF lastSync = 0 THEN 1 ELSE lastSync

\* A bug: the watch starts one version too late.
SyncWithNext(objects, n) ==
  /\ store' = objects
  /\ rv' = n + 1 /\ lastSync' = n + 1 /\ gone' = FALSE
  /\ pc' = "watch"

SyncWith(objects, n) ==
  /\ store' = objects
  /\ rv' = n /\ lastSync' = n /\ gone' = FALSE
  /\ pc' = "watch"

\* A bug: the old items stay in the store.
ListMerges ==
  /\ pc = "list"
  /\ \E n \in RelistVersion .. Now :
       SyncWith([o \in Objects |-> IF Selected(o, bounds) THEN history[n][o] ELSE store[o]], n)
  /\ unfiltered' = FALSE
  /\ UNCHANGED <<serverVars, held, rounds, bounds, faults>>

List ==
  /\ pc = "list"
  /\ \E n \in RelistVersion .. Now :
       SyncWith([o \in Objects |-> IF Selected(o, bounds) THEN history[n][o] ELSE 0], n)
  /\ unfiltered' = FALSE
  /\ UNCHANGED <<serverVars, held, rounds, bounds, faults>>

Fault == faults < MaxFaults /\ faults' = faults + 1

\* The version is expired: the list is tried again with options of its own,
\* the version "" and no selector.
ListExpired ==
  /\ pc = "list" /\ lastSync # 0 /\ ~gone /\ Fault
  /\ \/ SyncWith(history[Now], Now) /\ unfiltered' = TRUE
     \/ gone' = TRUE /\ Fail /\ UNCHANGED <<store, rv, lastSync, unfiltered>>
  /\ UNCHANGED <<serverVars, held, rounds, bounds>>

ListFails ==
  /\ pc = "list" /\ Fault /\ Fail
  /\ UNCHANGED <<serverVars, held, rounds, bounds, store, rv, lastSync, gone, unfiltered>>

-----------------------------------------------------------------------------
(* The watch.  (A refused connection is only tried again.)                 *)

Watch ==
  /\ pc = "watch"
  /\ pc' = "handle"
  /\ UNCHANGED <<serverVars, held, rounds, bounds, store, rv, lastSync, gone, unfiltered,
                 faults>>

WatchFails ==
  /\ pc = "watch" /\ ~stopped /\ Fault /\ Again
  /\ UNCHANGED <<serverVars, held, rounds, bounds, store, rv, lastSync, gone, unfiltered>>

\* Version n is the next one the server reports: no selected object changed
\* between rv and n.  A bookmark if none changed in n either.
Reported(n) ==
  /\ n \in rv + 1 .. Now
  /\ \A k \in rv + 1 .. n - 1 : \A o \in Objects :
       Selected(o, bounds) => history[k][o] = history[k - 1][o]

\* watchHandlerHelper
WatchHandler(n) ==
  /\ pc = "handle" /\ Reported(n)
  /\ store' = [o \in Objects |->
       IF Selected(o, bounds) /\ history[n][o] # history[n - 1][o]
       THEN history[n][o] ELSE store[o]]
  /\ rv' = n /\ lastSync' = n
  /\ UNCHANGED <<serverVars, held, rounds, pc, bounds, gone, unfiltered, faults>>

\* The watch ends; an error event, a resync error or a very short watch makes
\* ListAndWatch return nil, otherwise it watches again.
WatchCloses ==
  /\ pc = "handle" /\ Fault
  /\ pc' = "watch" \/ Again
  /\ UNCHANGED <<serverVars, held, rounds, bounds, store, rv, lastSync, gone, unfiltered>>

\* A bug: the signal only starts the list again.
ResetForgets(m, i) ==
  /\ pc = "handle" /\ held[m][i] \in Bounds
  /\ held' = [held EXCEPT ![m][i] = None]
  /\ Again
  /\ UNCHANGED <<serverVars, rounds, bounds, store, rv, lastSync, gone, unfiltered, faults>>

\* errorResetFilterBoundRequested
ResetFilterBound(m, i) ==
  /\ pc = "handle" /\ held[m][i] \in Bounds
  /\ SetBounds(m, held[m][i])
  /\ held' = [held EXCEPT ![m][i] = None]
  /\ Again
  /\ UNCHANGED <<serverVars, rounds, store, rv, lastSync, gone, unfiltered, faults>>

\* errorClientSetResetRequested
ResetClientSet ==
  /\ pc = "handle" /\ clientSets > 0
  /\ clientSets' = clientSets - 1
  /\ Again
  /\ UNCHANGED <<history, announced, queue, resets, updates, stopped, held, rounds, bounds,
                 store, rv, lastSync, gone, unfiltered, faults>>

-----------------------------------------------------------------------------
\* aggChan is not buffered: a forwarder's send and Run's receive are one step.
Receive == \E m \in Members, i \in Rounds : WaitForBoundInit(m, i) \/ ResetFilterBound(m, i)

RunStep ==
  \/ RunBody \/ ListAndWatch \/ Receive \/ StopRequested
  \/ List \/ ListExpired \/ ListFails
  \/ Watch \/ WatchFails \/ (\E n \in 1 .. Now : WatchHandler(n)) \/ WatchCloses
  \/ ResetClientSet

ForwarderStep(m, i) == Forward(m, i) \/ ForwarderExits(m, i)

Next ==
  \/ \E o \in Objects : Write(o)
  \/ \E s \in Sources : Announce(s)
  \/ UpdateClientSets \/ Stop
  \/ \E m \in Members, i \in Rounds : ForwarderStep(m, i)
  \/ RunStep

Spec == Init /\ [][Next]_vars

\* Run and the forwarders go on while they can.
FairSpec ==
  /\ Spec
  /\ WF_vars(RunStep)
  /\ \A m \in Members, i \in Rounds : WF_vars(ForwarderStep(m, i))
-----------------------------------------------------------------------------
(* Properties.                                                             *)

TypeOK ==
  /\ history \in Seq([Objects -> Nat]) /\ Now \in 1 .. MaxWrites + 1
  /\ announced \in [Sources -> Bounds \cup {None}]
  /\ queue \in [Members -> Seq(Bounds)] /\ resets \in 0 .. MaxResets
  /\ held \in [Members -> [Rounds -> Bounds \cup {None, Exited}]]
  /\ rounds \in 0 .. MaxFaults + 1
  /\ pc \in {"body", "start", "init", "list", "watch", "handle", "done"}
  /\ bounds \in [Members -> Bounds \cup {None}]
  /\ store \in [Objects -> Nat]
  /\ rv \in 0 .. Now /\ lastSync \in 0 .. Now
  /\ gone \in BOOLEAN /\ unfiltered \in BOOLEAN
  /\ clientSets \in 0 .. MaxClientSets /\ updates \in 0 .. MaxClientSets
  /\ faults \in 0 .. MaxFaults /\ stopped \in BOOLEAN

\* While it watches, the store is exactly the state of the API server at
\* resourceVersion, cut down to the bounds in force: nothing is missing and
\* nothing of the former bounds is left after resets, breaks and relists in any
\* order.  Only the list after an expired version leaves objects of others in
\* it, which the watch then says no more about.  (At the ends of a range this
\* is what createHashkeyListOptions asks for, not what the comment on bounds
\* says: see InBound.)
StoreExact ==
  pc \in {"watch", "handle"} =>
    \A o \in Objects :
      IF Selected(o, bounds) THEN store[o] = history[rv][o]
      ELSE store[o] = 0 \/ unfiltered

\* The cache never goes back in time: no step puts an older version of an
\* object in the place of a newer one (relistResourceVersion: "no older than
\* has already been observed in relist results or watch events").
NeverBack ==
  [][\A o \in Objects : store'[o] # 0 => store'[o] >= store[o]]_vars

\* No two forwarders of one reset channel hold signals: they could swap them.
InOrder ==
  \A m \in Members :
    Cardinality({i \in Rounds : held[m][i] \in Bounds}) <= 1

\* Whatever the interleaving of the reset channels, the client set updates and
\* the faults, Run ends up with the bounds announced last and with a store
\* that has every object they select, in its last version, provided that Run
\* is not stopped and the signals of a channel stay in order.
FollowsAnnounced ==
  ([](~stopped /\ InOrder) /\ \A s \in Sources : <>(announced[s] # None))
    => <>[](/\ \A m \in Members : bounds[m] = announced[SourceOf[m]]
            /\ \A o \in Objects : Selected(o, bounds) => store[o] = history[Now][o])

=============================================================================
