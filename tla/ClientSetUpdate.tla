-------------------------- MODULE ClientSetUpdate --------------------------
(***************************************************************************)
(* How the clients of one process follow the set of API servers.           *)
(*                                                                         *)
(*   client-go/datapartition/apiserverconfigmanager.go                     *)
(*   client-go/apiserverupdate/update.go                                   *)
(*   client-go/rest/config.go                                              *)
(*   client-go/kubernetes/typed/<group>/<version>/<group>_client.go (run)  *)
(*                                                                         *)
(* The manager reads the "kubernetes" endpoints and then watches them.     *)
(* Every change starts a goroutine that stores the new server map, starts  *)
(* to wait for the clients, and broadcasts to the Configs; a Config copies *)
(* the map and broadcasts to its clients; a client rebuilds its REST       *)
(* clients and reports that it is done; the last one to do so ends the     *)
(* wait and tells the reflectors to reconnect.                             *)
(*                                                                         *)
(* A server map is the set of its service groups' load balancers, which is *)
(* all that the comparisons of maps and the numbers of hosts depend on.    *)
(*                                                                         *)
(* sync.RWMutex (external): a pending Lock keeps later RLocks out.         *)
(* bcast.Group (external): Send queues a message for every member, and     *)
(* each member receives its messages in order.                             *)
(***************************************************************************)
EXTENDS Naturals, Integers, Sequences, FiniteSets

CONSTANTS
  Servers,      \* load balancers of service groups
  Configs,      \* rest.Config objects
  Clients,      \* typed clients
  ConfigOf,     \* the Config a client was created from
  MaxChanges    \* bound on changes of the endpoints object

ASSUME ConfigOfAssumption == ConfigOf \in [Clients -> Configs]
ASSUME ClientsAssumption == IsFiniteSet(Clients) /\ 0 \notin Clients
ASSUME ServersAssumption == IsFiniteSet(Servers)
ASSUME MaxChangesAssumption == MaxChanges \in Nat

VARIABLES
  hist,         \* the maps the endpoints object has held, oldest first
  seen,         \* how many of them the informer took in, 0 before its first list
  started,      \* syncApiServerConfig has succeeded
  managerMap,   \* APIServerConfigManager.APIServerMap
  initialized,  \* APIServerConfigManager.isApiServerConfigInitialized
  mux,          \* APIServerConfigManager.mux: the update holding it, or Free
  upd,          \* what the goroutine of each update is doing
  apiServerMap, \* apiserverupdate.apiServerMap
  readers,      \* read locks of muxUpdateServerMap held across steps
  pending,      \* a Lock of muxUpdateServerMap waits for them
  startWaiting, \* muxStartWaiting is locked
  watcherCount, \* ClientSetsWatcher.watcherCount
  waitingCount, \* ClientSetsWatcher.waitingCount
  wmux,         \* ClientSetsWatcher.mux: the client holding it, or Free
  cfgMsgs,      \* messages of apiServerConfigUpdateChGrp waiting for a Config
  cfgPc,        \* what the goroutine of each Config is doing
  config,       \* Config.config: the map its hosts were taken from
  cliMsgs,      \* messages of a Config's downstreamNotifyChGrp waiting for a client
  cliPc,        \* what the goroutine of each client is doing
  size,         \* length of the slice a client has allocated
  saw,          \* the waitingCount a client has read
  restClients,  \* the map a client's REST clients were made from
  resets        \* messages sent to clientsetUpdateChGrp

managerVars == <<hist, seen, started, managerMap, initialized, mux, upd>>
lockVars    == <<apiServerMap, readers, pending, startWaiting>>
countVars   == <<watcherCount, waitingCount, wmux, resets>>
cfgVars     == <<cfgMsgs, cfgPc, config>>
cliVars     == <<cliMsgs, cliPc, size, saw, restClients>>
vars == <<hist, seen, started, managerMap, initialized, mux, upd,
          apiServerMap, readers, pending, startWaiting,
          watcherCount, waitingCount, wmux, resets,
          cfgMsgs, cfgPc, config, cliMsgs, cliPc, size, saw, restClients>>

Maps == (SUBSET Servers) \ {{}}

NoMap == {}                       \* the host of the process' own kubeconfig file

Updates == 1 .. MaxChanges + 1    \* the first Get, and every change

Free == 0                         \* nobody holds the mutex

Endpoints == hist[Len(hist)]

\* an update that still has work to do
Running(u) == upd[u] \notin {"none", "done"}

-----------------------------------------------------------------------------
Init ==
  /\ \E m \in Maps : hist = <<m>>
  /\ seen = 0 /\ started = FALSE
  /\ managerMap = NoMap /\ initialized = FALSE /\ mux = Free
  /\ upd = [u \in Updates |-> "none"]
  /\ apiServerMap = NoMap /\ readers = 0 /\ pending = FALSE /\ startWaiting = FALSE
  /\ watcherCount = 0 /\ waitingCount = 0 /\ wmux = Free /\ resets = 0
  /\ cfgMsgs = [c \in Configs |-> 0]
  /\ cfgPc = [c \in Configs |-> "new"]
  /\ config = [c \in Configs |-> NoMap]
  /\ cliMsgs = [k \in Clients |-> 0]
  /\ cliPc = [k \in Clients |-> "new"]
  /\ size = [k \in Clients |-> 0]
  /\ saw = [k \in Clients |-> 0]
  /\ restClients = [k \in Clients |-> NoMap]

-----------------------------------------------------------------------------
(* The endpoints object (external: written by the API servers).            *)

\* Nothing of an earlier change is left to do in this process.
Quiet ==
  /\ \A u \in Updates : ~Running(u)
  /\ \A c \in Configs : cfgMsgs[c] = 0 /\ cfgPc[c] = "read"
  /\ \A k \in Clients : cliMsgs[k] = 0 /\ cliPc[k] = "read"

\* At any time: before the informer's first list, or while an earlier change is
\* being applied
ChangeEndpoints ==
  /\ Len(hist) <= MaxChanges /\ started
  /\ \E m \in Maps \ {Endpoints} : hist' = Append(hist, m)
  /\ UNCHANGED <<seen, started, managerMap, initialized, mux, upd,
                 lockVars, countVars, cfgVars, cliVars>>

-----------------------------------------------------------------------------
(* APIServerConfigManager.                                                 *)

\* Takes the map over under mux, and starts the goroutine that applies it.
\* The two loops leave exactly m, and report an update since m is not empty.
SetApiServerConfigMap(m) ==
  /\ mux = Free
  /\ managerMap' = m
  /\ \E u \in Updates :
       /\ upd[u] = "none" /\ \A v \in 1 .. u - 1 : upd[v] # "none"
       /\ upd' = [upd EXCEPT ![u] = "wait"]

\* NewAPIServerConfigManagerWithInformer, once Get succeeds (it is retried)
SyncApiServerConfig ==
  /\ ~started
  /\ started' = TRUE
  /\ SetApiServerConfigMap(Endpoints)
  /\ UNCHANGED <<hist, seen, initialized, mux, lockVars, countVars, cfgVars, cliVars>>

\* The informer's first list.  It makes an add event, which has no handler.
ListEndpoints ==
  /\ started /\ seen = 0
  /\ seen' = Len(hist)
  /\ UNCHANGED <<hist, started, managerMap, initialized, mux, upd,
                 lockVars, countVars, cfgVars, cliVars>>

\* An update event: the next version, or a later one after a relist.  The
\* handler returns at once when the subsets are the same.
UpdateApiServer ==
  /\ seen > 0
  /\ \E n \in seen + 1 .. Len(hist) :
       /\ seen' = n
       /\ IF hist[n] = hist[seen] THEN UNCHANGED <<managerMap, upd>>
          ELSE SetApiServerConfigMap(hist[n])
  /\ UNCHANGED <<hist, started, initialized, mux, lockVars, countVars, cfgVars, cliVars>>

\* All clients and Configs made at start-up are listening: what the delay of
\* firstUpdateTime, 30 seconds, is there for.
StartUpOver ==
  /\ \A c \in Configs : cfgPc[c] # "new"
  /\ \A k \in Clients : cliPc[k] \notin {"new", "joined"}

\* The goroutine enters its critical section.  The first one returns when
\* there is a single server, the one the process is connected to.
BeginUpdate(u) ==
  /\ upd[u] = "wait" /\ mux = Free
  /\ StartUpOver
  /\ initialized' = TRUE
  /\ IF ~initialized /\ Cardinality(managerMap) = 1
     THEN /\ upd' = [upd EXCEPT ![u] = "done"]
          /\ UNCHANGED mux
     ELSE /\ upd' = [upd EXCEPT ![u] = "compare"]
          /\ mux' = u
  /\ UNCHANGED <<hist, seen, started, managerMap, lockVars, countVars, cfgVars, cliVars>>

-----------------------------------------------------------------------------
(* apiserverupdate.                                                        *)

CanRLock == ~pending

\* SetAPIServerConfig under the read lock: nothing to do for an equal map
CompareServerMap(u) ==
  /\ upd[u] = "compare" /\ CanRLock
  /\ IF apiServerMap = managerMap
     THEN /\ upd' = [upd EXCEPT ![u] = "done"]
          /\ mux' = Free
     ELSE /\ upd' = [upd EXCEPT ![u] = "lock"]
          /\ UNCHANGED mux
  /\ UNCHANGED <<hist, seen, started, managerMap, initialized,
                 lockVars, countVars, cfgVars, cliVars>>

\* muxUpdateServerMap.Lock() is called
LockServerMap(u) ==
  /\ upd[u] = "lock"
  /\ upd' = [upd EXCEPT ![u] = "write"]
  /\ pending' = TRUE
  /\ UNCHANGED <<hist, seen, started, managerMap, initialized, mux, apiServerMap,
                 readers, startWaiting, countVars, cfgVars, cliVars>>

\* A bug: the map is written while readers rely on it.
SetAPIServerConfigAtOnce(u) ==
  /\ upd[u] = "write"
  /\ upd' = [upd EXCEPT ![u] = "start"]
  /\ pending' = FALSE
  /\ apiServerMap' = managerMap
  /\ UNCHANGED <<hist, seen, started, managerMap, initialized, mux,
                 readers, startWaiting, countVars, cfgVars, cliVars>>

\* ... is granted, the map is copied, and the lock released
SetAPIServerConfig(u) ==
  /\ upd[u] = "write" /\ readers = 0
  /\ upd' = [upd EXCEPT ![u] = "start"]
  /\ pending' = FALSE
  /\ apiServerMap' = managerMap
  /\ UNCHANGED <<hist, seen, started, managerMap, initialized, mux,
                 readers, startWaiting, countVars, cfgVars, cliVars>>

\* muxStartWaiting.Lock() of StartWaitingForComplete
LockStartWaiting(u) ==
  /\ upd[u] = "start" /\ ~startWaiting
  /\ startWaiting' = TRUE
  /\ upd' = [upd EXCEPT ![u] = "count"]
  /\ UNCHANGED <<hist, seen, started, managerMap, initialized, mux, apiServerMap,
                 readers, pending, countVars, cfgVars, cliVars>>

\* A bug: the map may be replaced while clients still take it over.
StartWaitingUnlocked(u) ==
  /\ upd[u] = "count" /\ CanRLock
  /\ waitingCount' = watcherCount
  /\ mux' = Free
  /\ upd' = [upd EXCEPT ![u] = "send"]
  /\ UNCHANGED <<hist, seen, started, managerMap, initialized, lockVars,
                 watcherCount, wmux, resets, cfgVars, cliVars>>

\* The rest of it.  The read lock stays held until the last client is done;
\* waitingCount is assigned without ClientSetsWatcher.mux.  The goroutine
\* then leaves the message to another one and releases mux.
StartWaitingForComplete(u) ==
  /\ upd[u] = "count" /\ CanRLock
  /\ readers' = readers + 1
  /\ waitingCount' = watcherCount
  /\ mux' = Free
  /\ upd' = [upd EXCEPT ![u] = "send"]
  /\ UNCHANGED <<hist, seen, started, managerMap, initialized, apiServerMap,
                 pending, startWaiting, watcherCount, wmux, resets, cfgVars, cliVars>>

\* sendUpdateMessage: a message for every Config that has joined the group
SendUpdateMessage(u) ==
  /\ upd[u] = "send"
  /\ upd' = [upd EXCEPT ![u] = "done"]
  /\ cfgMsgs' = [c \in Configs |-> IF cfgPc[c] = "new" THEN 0 ELSE cfgMsgs[c] + 1]
  /\ UNCHANGED <<hist, seen, started, managerMap, initialized, mux,
                 lockVars, countVars, cfgPc, config, cliVars>>

-----------------------------------------------------------------------------
(* rest.Config.                                                            *)

ClientsOf(c) == {k \in Clients : ConfigOf[k] = c}

Joined(k) == cliPc[k] # "new"

\* NewAggregatedConfig's goroutine joins the group
JoinConfig(c) ==
  /\ cfgPc[c] = "new"
  /\ cfgPc' = [cfgPc EXCEPT ![c] = "read"]
  /\ UNCHANGED <<managerVars, lockVars, countVars, cfgMsgs, config, cliVars>>

\* ... receives a message and enters updateConfig, which takes the Config's mutex
ReadConfigMessage(c) ==
  /\ cfgPc[c] = "read" /\ cfgMsgs[c] > 0
  /\ cfgMsgs' = [cfgMsgs EXCEPT ![c] = @ - 1]
  /\ cfgPc' = [cfgPc EXCEPT ![c] = "update"]
  /\ UNCHANGED <<managerVars, lockVars, countVars, config, cliVars>>

\* GetAPIServerConfig needs the read lock; one host for each server follows
UpdateConfig(c) ==
  /\ cfgPc[c] = "update" /\ CanRLock
  /\ config' = [config EXCEPT ![c] = apiServerMap]
  /\ cfgPc' = [cfgPc EXCEPT ![c] = "notify"]
  /\ UNCHANGED <<managerVars, lockVars, countVars, cfgMsgs, cliVars>>

\* A bug: the clients are not told.
NotifyNobody(c) ==
  /\ cfgPc[c] = "notify"
  /\ cfgPc' = [cfgPc EXCEPT ![c] = "read"]
  /\ UNCHANGED <<managerVars, lockVars, countVars, cfgMsgs, config, cliVars>>

\* A message for every client that has joined; none if there is no group yet
NotifyClients(c) ==
  /\ cfgPc[c] = "notify"
  /\ cfgPc' = [cfgPc EXCEPT ![c] = "read"]
  /\ cliMsgs' = [k \in Clients |->
                   IF k \in ClientsOf(c) /\ Joined(k) THEN cliMsgs[k] + 1 ELSE cliMsgs[k]]
  /\ UNCHANGED <<managerVars, lockVars, countVars, cfgMsgs, config,
                 cliPc, size, saw, restClients>>

\* A reader of the Config's mutex gets in unless updateConfig holds it.
Readable(c) == cfgPc[c] # "update"

-----------------------------------------------------------------------------
(* A typed client.                                                         *)

\* run: the client joins its Config's group ...
WatchUpdate(k) ==
  /\ cliPc[k] = "new"
  /\ Readable(ConfigOf[k])
  /\ cliPc' = [cliPc EXCEPT ![k] = "joined"]
  /\ UNCHANGED <<managerVars, lockVars, countVars, cfgVars, cliMsgs, size, saw, restClients>>

\* ... and is counted
AddWatcher(k) ==
  /\ cliPc[k] = "joined" /\ wmux = Free
  /\ watcherCount' = watcherCount + 1
  /\ cliPc' = [cliPc EXCEPT ![k] = "read"]
  /\ UNCHANGED <<managerVars, lockVars, waitingCount, wmux, resets, cfgVars,
                 cliMsgs, size, saw, restClients>>

\* A message: a slice is allocated for the hosts the Config has now ...
AllocateClients(k) ==
  /\ cliPc[k] = "read" /\ cliMsgs[k] > 0
  /\ Readable(ConfigOf[k])
  /\ cliMsgs' = [cliMsgs EXCEPT ![k] = @ - 1]
  /\ size' = [size EXCEPT ![k] = Cardinality(config[ConfigOf[k]])]
  /\ cliPc' = [cliPc EXCEPT ![k] = "fill"]
  /\ UNCHANGED <<managerVars, lockVars, countVars, cfgVars, saw, restClients>>

\* ... the hosts are read again, and a REST client made for each
RebuildClients(k) ==
  /\ cliPc[k] = "fill"
  /\ Readable(ConfigOf[k])
  /\ restClients' = [restClients EXCEPT ![k] = config[ConfigOf[k]]]
  /\ cliPc' = [cliPc EXCEPT ![k] = "done"]
  /\ UNCHANGED <<managerVars, lockVars, countVars, cfgVars, cliMsgs, size, saw>>

\* A bug: off by one, the last client but one already ends the wait.
NotifyLastButOne(k) ==
  /\ cliPc[k] = "done" /\ wmux = Free /\ waitingCount \in {1, 2}
  /\ waitingCount' = 0
  /\ readers' = readers - 1
  /\ startWaiting' = FALSE
  /\ resets' = resets + 1
  /\ cliPc' = [cliPc EXCEPT ![k] = "read"]
  /\ UNCHANGED <<managerVars, apiServerMap, pending, watcherCount, wmux, cfgVars,
                 cliMsgs, size, saw, restClients>>

\* NotifyDone of the last client: both locks are released, the reflectors told
NotifyLast(k) ==
  /\ cliPc[k] = "done" /\ wmux = Free /\ waitingCount = 1
  /\ waitingCount' = 0
  /\ readers' = readers - 1
  /\ startWaiting' = FALSE
  /\ resets' = resets + 1
  /\ cliPc' = [cliPc EXCEPT ![k] = "read"]
  /\ UNCHANGED <<managerVars, apiServerMap, pending, watcherCount, wmux, cfgVars,
                 cliMsgs, size, saw, restClients>>

\* A bug: waitingCount is read without the mutex.
NotifyDoneUnlocked(k) ==
  /\ cliPc[k] = "done" /\ waitingCount # 1
  /\ saw' = [saw EXCEPT ![k] = waitingCount]
  /\ cliPc' = [cliPc EXCEPT ![k] = "store"]
  /\ UNCHANGED <<managerVars, lockVars, countVars, cfgVars, cliMsgs, size, restClients>>

\* NotifyDone of another: waitingCount is read, and written in the next step
NotifyDone(k) ==
  /\ cliPc[k] = "done" /\ wmux = Free /\ waitingCount # 1
  /\ wmux' = k
  /\ saw' = [saw EXCEPT ![k] = waitingCount]
  /\ cliPc' = [cliPc EXCEPT ![k] = "store"]
  /\ UNCHANGED <<managerVars, lockVars, watcherCount, waitingCount, resets, cfgVars,
                 cliMsgs, size, restClients>>

StoreWaitingCount(k) ==
  /\ cliPc[k] = "store"
  /\ waitingCount' = saw[k] - 1
  /\ wmux' = Free
  /\ cliPc' = [cliPc EXCEPT ![k] = "read"]
  /\ UNCHANGED <<managerVars, lockVars, watcherCount, resets, cfgVars,
                 cliMsgs, size, saw, restClients>>

-----------------------------------------------------------------------------
UpdateStep(u) ==
  \/ BeginUpdate(u) \/ CompareServerMap(u) \/ LockServerMap(u) \/ SetAPIServerConfig(u)
  \/ LockStartWaiting(u) \/ StartWaitingForComplete(u) \/ SendUpdateMessage(u)

ConfigStep(c) ==
  JoinConfig(c) \/ ReadConfigMessage(c) \/ UpdateConfig(c) \/ NotifyClients(c)

ClientStep(k) ==
  \/ WatchUpdate(k) \/ AddWatcher(k) \/ AllocateClients(k) \/ RebuildClients(k)
  \/ NotifyLast(k) \/ NotifyDone(k) \/ StoreWaitingCount(k)

InformerStep == ListEndpoints \/ UpdateApiServer

Next ==
  \/ ChangeEndpoints \/ SyncApiServerConfig \/ InformerStep
  \/ \E u \in Updates : UpdateStep(u)
  \/ \E c \in Configs : ConfigStep(c)
  \/ \E k \in Clients : ClientStep(k)

Spec == Init /\ [][Next]_vars

\* Every goroutine that can go on does.  A mutex is taken by a goroutine that
\* waits for it for ever only if somebody else holds it for ever: at most one
\* update is past mux, and sync.Mutex hands over to a starved waiter, hence
\* strong fairness where a mutex is acquired.  The endpoints need not change.
FairSpec ==
  /\ Spec
  /\ WF_vars(SyncApiServerConfig) /\ WF_vars(ListEndpoints) /\ SF_vars(UpdateApiServer)
  /\ \A u \in Updates : SF_vars(UpdateStep(u))
  /\ \A c \in Configs : WF_vars(ConfigStep(c))
  /\ \A k \in Clients : SF_vars(ClientStep(k))

-----------------------------------------------------------------------------
(* Properties.                                                             *)

TypeOK ==
  /\ hist \in Seq(Maps) /\ Len(hist) \in 1 .. MaxChanges + 1
  /\ seen \in 0 .. Len(hist) /\ started \in BOOLEAN
  /\ managerMap \in SUBSET Servers /\ initialized \in BOOLEAN
  /\ mux \in Updates \cup {Free}
  /\ upd \in [Updates -> {"none", "wait", "compare", "lock", "write", "start",
                          "count", "send", "done"}]
  /\ apiServerMap \in SUBSET Servers /\ readers \in Nat /\ pending \in BOOLEAN
  /\ startWaiting \in BOOLEAN
  /\ watcherCount \in Nat /\ waitingCount \in Int /\ wmux \in Clients \cup {Free}
  /\ resets \in Nat
  /\ cfgMsgs \in [Configs -> Nat]
  /\ cfgPc \in [Configs -> {"new", "read", "update", "notify"}]
  /\ config \in [Configs -> SUBSET Servers]
  /\ cliMsgs \in [Clients -> Nat]
  /\ cliPc \in [Clients -> {"new", "joined", "read", "fill", "done", "store"}]
  /\ size \in [Clients -> Nat] /\ saw \in [Clients -> Int]
  /\ restClients \in [Clients -> SUBSET Servers]

\* The update the clients are taking over: let in by SetAPIServerConfig, over
\* when the read lock that StartWaitingForComplete keeps is released
RoundOpen == readers > 0 \/ \E u \in Updates : upd[u] \in {"start", "count"}

Rounds == INSTANCE ServerMapRounds
  WITH inForce <- apiServerMap, using <- restClients, open <- RoundOpen, resets <- resets

\* The locks, counters and messages of any number of overlapping changes
\* implement rounds: the reflectors are told "when the last clientset is
\* updated" (update.go), when every client does use the map in force, and no
\* client ever rebuilds itself from another map than the one of its round.
ImplementsRounds == Rounds!Spec

\* A client that rebuilds its REST clients reads its Config twice.  The second
\* read never finds more hosts than the slice made from the first one has room
\* for: no later update reaches the Config in between.
RebuildFits ==
  \A k \in Clients : cliPc[k] = "fill" => Cardinality(config[ConfigOf[k]]) <= size[k]

\* waitingCount is positive exactly while StartWaitingForComplete's two locks
\* are held, and then it counts the clients that have not reported: each
\* client reports once, whichever way messages and reports interleave.
WaitCountsUnreported ==
  LET Open == {k \in Clients : cliPc[k] = "store"}
      Reported == IF Open = {} THEN waitingCount ELSE waitingCount - 1
      Unreported ==
        {k \in Clients :
           \/ cliPc[k] \in {"fill", "done"} \/ cliMsgs[k] > 0
           \/ cfgPc[ConfigOf[k]] \in {"update", "notify"} \/ cfgMsgs[ConfigOf[k]] > 0
           \/ \E u \in Updates : upd[u] = "send"}
  IN /\ waitingCount > 0 => startWaiting /\ readers = 1
     /\ Reported = Cardinality(Unreported)

\* The write lock of SetAPIServerConfig queues behind the wait of an earlier
\* update.
QueuesBehindWait == pending /\ readers > 0

\* The endpoints change between the manager's own Get and the informer's first
\* list, which makes an add event that has no handler.
ChangedBeforeList == seen = 0 /\ Len(hist) > 1

\* If neither happens, the endpoints reach every client: in the end all
\* REST clients are made from the endpoints as they are, unless the process
\* never left the single server it began with, and every lock is free.
ChangesReachClients ==
  [](~QueuesBehindWait /\ ~ChangedBeforeList) =>
    <>[](/\ Quiet /\ waitingCount = 0 /\ ~startWaiting /\ readers = 0
         /\ apiServerMap = Endpoints \/ (apiServerMap = NoMap /\ Cardinality(Endpoints) = 1)
         /\ \A k \in Clients : restClients[k] = apiServerMap)

\* "upon update message received from API Server config manager, update its
\* KubeConfig definition; afterwards, notify clientsets" (update.go): a Config
\* that took a message in does update itself.
MessageUpdatesConfig ==
  \A c \in Configs : (cfgPc[c] = "update") ~> (cfgPc[c] = "notify")

=============================================================================
