# Arktos: TLA+ models, checks and proofs

Arktos is a fork of Kubernetes for large clusters: many tenants, several API
servers with a partition of the data each, several storage clusters, and
controllers that scale out by sharing the workloads of one type among many
processes. This project models the parts that Arktos adds, not the upstream
code it keeps. Paths below are relative to `src/`.

Contents: [inventory](#inventory), [modules and the code](#modules-and-the-code),
[runs](#runs), [fairness](#fairness), [findings](#findings), [proofs](#proofs),
[limits of the models](#limits-of-the-models), [plan](#plan).

## Inventory

"Modelled" means that every operation of the part that changes state is an action;
what "partly" leaves out is under [limits](#limits-of-the-models) and in `PROJECT.json`.

### Controller scale-out framework (partly modelled)

`pkg/cloudfabric-controller/controllerframework/`, started from
`cmd/workload-controller-manager/app/controllermanager.go`, used by the replica
set and deployment controllers under `pkg/cloudfabric-controller/`.

* **State.** In the registry (API server and etcd), one `ControllerInstance`
  object per controller, with a TTL of 30 seconds renewed by health reports. In
  every process, one `ControllerInstanceManager` (CIM): `currentControllers`, a
  mirror of those objects, fed by a list of its own and then by an informer. In
  every controller (`ControllerBase`): the sorted list of the instances of its
  type, its position `curPos`, its `controllerKey`, and the filter bounds in force
  in its informers.
* **Operations.** `NewControllerInstanceManager` (list), `NewControllerBase` (take
  a range, register), the informer's add, update and delete handlers, the
  broadcast to the controllers, `instanceUpdateProcess` (read the mirror, compute
  a new range, reset the filters), `ReportHealth`, the workers' `IsInRange`.
* **Interaction.** Registry to informer (watch), informer to CIM (callbacks), CIM
  to controllers (`bcast` group, one goroutine per message), controllers to the
  reflectors (another group, again one goroutine per message).
* **What is hard.** Nobody assigns ranges: each controller computes its own from
  its own mirror, so agreement is a matter of all queues draining to the same
  list. Lists are read without the mutex of their owner, messages are sent from
  goroutines without order, entries expire while their owner lives, processes
  crash between any two steps, and the CIM's own list and its informer's list
  leave a window between them.
* **What makes it correct.** The ranges of one list tile the key space. A
  controller whose list is out of date has a message coming. A mirror that has
  caught up is exact. Position, list and key never get out of step. When
  everything has drained every key has exactly one owner, and it does drain.

### API server configuration update (partly modelled)

`staging/src/k8s.io/client-go/`: `datapartition/apiserverconfigmanager.go`,
`apiserverupdate/update.go`, `rest/config.go`, and the `run` method of each typed
client (`kubernetes/typed/node/v1alpha1/node_client.go` stands for them all).

* **State.** `APIServerMap` of the manager, `apiServerMap` under the read-write
  lock `muxUpdateServerMap`, the counters of `ClientSetsWatcher` under its mutex,
  `muxStartWaiting`, the hosts of each `Config`, the REST clients of each typed
  client.
* **Operations.** A change of the "kubernetes" endpoints starts a goroutine that
  stores the map, takes the two locks that mean "an update is under way" and
  broadcasts to the Configs; a Config copies the map and broadcasts to its
  clients; a client rebuilds and calls `NotifyDone`; the last one releases the
  locks and tells the reflectors to reconnect.
* **What is hard.** Locks taken in one goroutine and released in another, a
  read-write lock with a pending writer, counters touched under different locks,
  two reads of one Config, changes that overlap.
* **What makes it correct.** The reflectors are told only when all clients use the
  map in force; a client never rebuilds across two maps; a change reaches every
  client.

### Filtered reflector (modelled)

`staging/src/k8s.io/client-go/tools/cache/reflector.go`, with `AddResetCh` of
`shared_informer.go`.

* **State.** The bounds of each reset channel (`filterBounds`), the unbuffered
  `aggChan`, the store, `lastSyncResourceVersion`, whether that version is gone.
* **Operations.** `Run` starts a forwarder per bound and calls `ListAndWatch` again
  and again; that waits for the first bounds, lists with the selector, watches, and
  returns when bounds or client sets change, when the watch breaks or on stop.
* **What is hard.** Signals of several channels, client set updates, events and
  faults arrive in one `select`; every failure adds forwarders that read the same
  channel; the list after an expired version has no selector.
* **What makes it correct.** The store is what the bounds select at the version it
  has, no object goes back, and the bounds announced last win. The bounds select the
  keys above the lower one, up to and with the upper one (and 0, if that is the lower
  one); the comment on them says the opposite, see [findings](#findings).

### Data partitions (modelled)

`staging/src/k8s.io/apiserver/pkg/storage/datapartition/datapartitionmanager.go` and
`etcd3/watcher.go`: the manager of the `DataPartitionConfig` objects of a service group, and
the watches of the store, which look at a range of tenants and at the system tenant.

* **State.** The partition in force, the goroutines that announce one, the range in
  the watcher, and for each watch its channels, their place in the history of etcd
  and what a stopped channel has still buffered.
* **What is hard.** One member of the broadcast group serves all watches of a store;
  a reset goes back to the revision the watch was first asked for, which may be
  compacted, or which is 0, so that the state is read again; deletes are ignored and a
  second object of the group, or re-creation, is fatal; an update that gives the group
  its first partition is not announced.
* **What makes it correct.** A watch has no gap wherever its range moves, only a second
  partition is fatal, and a partition that changes takes effect.

### Storage clusters and the map of tenants (partly modelled)

`.../storage/storagecluster/`, `.../storagebackend/factory/etcd3.go` and the clients
of `.../etcd3/store.go`: two managers follow the `StorageCluster` and `Tenant`
objects; the store keeps a client for each cluster and asks the map for the cluster
of a tenant.

* **What is hard.** One revision for all objects decides what is a duplicate, though
  informers keep order only within an object and a deletion may come as a tombstone
  with an old version; a goroutine reads an address without the mutex; a new cluster is
  handed to one watch over a channel without buffer with the mutex held, which the
  watch takes next; objects share ids or are terminating when the server starts;
  requests do not wait for either manager.
* **What makes it correct.** Clients and map end up as the registry is, and an
  object is in its tenant's cluster or, if it was made too early, in the system
  cluster, and nowhere else.

### Lists over several clusters (modelled)

`List`, `listPartition`, `updatelist` and the continue tokens of
`.../etcd3/store.go`, `errors.go`, the pager of client-go, and the comparison of
revisions in `apimachinery/pkg/util/diff/compare.go`.

* **What is hard.** A goroutine for each cluster fills one page; a selector makes
  several requests for a page; compaction and writes happen between pages; the
  comparison of revisions has a clock tolerance and is no order, so the version of
  the list depends on the order of a map.
* **What makes it correct.** The pages together are the list.

### Tenant lifecycle (partly modelled)

`pkg/registry/core/tenant/`, `pkg/controller/tenant/`, and the admission plugins
`namespace/lifecycle` and `tenant/exists`.

* **State.** The tenant with its finalizers and deletion mark, the content, the
  caches of API servers and controllers, the work queue, what a deleter has read and
  still has to look at.
* **What is hard.** Default content is created, and users create objects, while the
  deleter goes from kind to kind; caches lag; the name may be used again while a
  deleter is at work with what it read before; the controller panics on a tenant
  that leaves the lister between two reads.
* **What makes it correct.** Content does not outlive its tenant, the deleter of a
  tenant never writes the object of the next one of the name (it may purge its content:
  deletes of content carry no UID), a deleted tenant goes, a tenant that stays is
  furnished.

### Not modelled yet

| Part | Source | What is hard about it |
|---|---|---|
| Aggregated watcher | `staging/src/k8s.io/apimachinery/pkg/watch/watch.go` | goroutines per watch, a stop that races additions |
| Networks | `cmd/arktos-network-controller/`, `pkg/controller/network/` | status transitions around several creations that may fail |

### Left out

The Mizar controllers (queues in front of a gRPC service that is not in the
repository), the logic of deployments and replica sets beyond their range checks
(upstream's), VM pods (calls of the runtime interface), the kubelet's client
manager and the node cache (lookups), the tenant filter, the OpenStack routes and
the HAProxy generator (stateless conversions), and all upstream, vendored and
generated code. `PROJECT.json` gives the reason for each.

## Modules and the code

| Module | Models | Theorems |
|---|---|---|
| `KeyRange` | closed form of `reassignControllerKeys`, the comparison of `IsInRange`, `GetHashOfUUID` | `KeyRangeProofs` |
| `ReassignKeys` | the loop of `reassignControllerKeys`, one action per iteration | `KeyRangeProofs` |
| `ControllerFramework` | CIM, controllers, registry and informer of any number of processes; extends `KeyRange` | `ControllerFrameworkProofs` |
| `ClientSetUpdate` | manager, watcher, Configs and clients of one process | `ClientSetUpdateProofs` |
| `ServerMapRounds` | what an update of the server map promises (abstract); `ClientSetUpdate` implements it | `ClientSetUpdateProofs` |
| `FilteredReflector` | one reflector with bounds, its reset channels, and the API server's history | `FilteredReflectorProofs` |
| `PartitionedWatch` | data partition manager, watcher and watch channels of one API server | `PartitionedWatchProofs` |
| `StorageClusters` | both managers, the clients and watches of the store, the routing of a tenant | `StorageClustersProofs` |
| `Revision` | `compare.go` | `PartitionedListProofs` |
| `PartitionedList` | paged lists over several clusters; extends `Revision` | `PartitionedListProofs` |
| `TenantLifecycle` | one tenant name: registry, admission, controller, deleter | `TenantLifecycleProofs` |
| `MC...` | instances for TLC of the module they are named after | |

**Key space.** `MaxKey` stands for `math.MaxInt64`. `GetHashOfUUID` folds an
unsigned sum of twice the width into `0..MaxKey` and keeps the wrap of the
conversion to a signed integer (`ToInt64`).

**ControllerFramework.** A controller is `<<process, type>>`; its name is the type
and the uuid its process drew at start, so a restarted process is another member
of `Procs` and names never come back. The registry keeps for each name the
sequence of versions written, and an index stands for a resource version. The
informer (`InformerEvent`) takes in the versions of one object in order, in any
order across objects, and may skip versions as a list does; it calls the CIM's
handlers, which are operators with the names of the code. `listing` is what
`listControllerInstancesByType` returned, a step before
`updateCachedControllerInstances` applies it, since the mirror may change between
the two. `sends` holds the ranges whose `resetFilter` goroutine has not run yet.
`lost` is a history variable: instances that went away while a CIM knew them only
from its own list. Budgets bound health reports, expiries of living controllers
and crashes.

**ClientSetUpdate.** A server map is a set of servers. Each goroutine has a program
counter, and each acquisition of a lock that may block is a step. `pending` is a
`Lock` that waits; while it does, no `RLock` is granted, as `sync.RWMutex`
documents. `NotifyDone` reads and writes `waitingCount` in two steps, because
`StartWaitingForComplete` assigns it without the mutex. Endpoints may change at any
time once the manager runs. The refinement `Rounds` maps the server map, the maps
the clients were built from and "an update is under way" to `ServerMapRounds`; every
other step is a stutter there.

**FilteredReflector.** A resource version is a place in the history of the API
server, and a list is answered at any version from `relistResourceVersion` on. A
member is a bound with its reset channel; `held` is the signal a forwarder holds out
to `aggChan`, whose send and receive are one step. `unfiltered` remembers the list
without selector after an expired version. `Announce` is the step that
`ControllerFramework` calls `ResetFilter`, seen from the other side.

**PartitionedWatch.** A key is the position of its tenant in key order, an event is
the put or the deletion of a tenant's object, a revision a place in etcd's log.
`KeyRanges` is `getKeyAndOptFromPartitionConfig`; `Partition` is the partition's
meaning, against which `Follows` measures it. The data partition is any number of
objects, each with versions of this service group or another, with a deletion timestamp
or without; the informer reports the versions of an object in order, may leave some out
as a new list does, and keeps no order between objects (`shared_informer.go:86` promises
no more). A channel has its `initialRev` (`from`): if that is 0, `Sync` reads what exists
under the key of the resource, not of the channel's range, and moves `from` to the
present, in each channel of each reset; `todo` is what of it is not handed out yet. Only
then is the watch registered with etcd. A stopped channel moves to `draining`, from where
what it had buffered is still read.

**StorageClusters.** The log is the history of the `StorageCluster` and `Tenant`
objects. A storage cluster object is not its id: two may name the same one. `seen` is
the last write an informer has reported of each object, with the freedom above; what
the informer reports as an add, an update or a deletion follows from `seen` and the
write. A deletion comes with its own version, or as a tombstone with the version that
was known (`Deletes`), always so if an earlier write was left out. An update may carry a
deletion timestamp, and an object that has one when it is first reported is passed over
by the add handlers. `tenantMap` holds the write an entry comes from, so that an entry of
an earlier tenant can be told from one of the present. The goroutine of an address change
reads the address in a step of its own (`ReadAddress`), or before `updateCluster` has
stored the new one. `handoff` is a cluster id that `AddDataClient` offers to the watches
while it holds the mutex; a watch receives it (`ReceiveCluster`, after which
`AddDataClient` returns and unlocks) and then needs the mutex to add the cluster
(`AddToWatch`). Restart forgets all but the log and the objects.

**PartitionedList.** The log is the history of all clusters, and its places are
milliseconds: `Number` makes the 64-bit revision of one. Each goroutine of
`listPartition` takes three steps (`Get`, `Take` under the mutex, `Check` after it).
`Finish` takes any order of the map of results. `straight` says that no token was
used for another cluster than its own, `consistent` that no page was read later than
the one before.

**TenantLifecycle.** A version of the tenant is a place in its history; caches are
places in the history too. `content` says for which tenant an object was created, so
that an object that outlives it can be told from one of the next. A create is
admitted and stored in two steps; `late` remembers one that was stored when no pass
of a deleter could see it any more, which the code does not prevent. `Ends` says where
the functions that create default content end in `Defaults`: each of them tries all it
has to create, whatever fails, and its errors end the handler together (`remaining`,
which for the deleter says that content was left).

Definitions marked as mutants or bugs in the modules are variants of a mapped
definition, kept next to it: each breaks the property named in `PROJECT.json`.
Nothing in `Next` uses them.

## Runs

| Run | Bounds | Shows |
|---|---|---|
| `reassign` | 41 keys, 1 to 45 instances | `LoopInv`, `KeysPartitioned`, `EveryHashOwnedButOne`: the loop hands out exactly the closed form, the ranges tile the key space, and of all sums of the hash one alone has no owner. 45 > 41, so the interval of zero is met; every remainder of 40 is met too |
| `cf_two` | 2 processes from scratch, 1 type, 1 workload, 2 workload numbers, 1 report, 1 crash | `TypeOK`, `NoLostUpdate`, `ViewExact`, `RangeConsistent`, `ExactlyOneOwner`, `FilterOffOnlyIfOvertaken`, `ListConverges`, with every order of start-up, join, report and crash |
| `cf_types` | 2 settled processes, 2 types, 1 report, 1 crash, the entry of 1 living controller lost | `NoLostUpdate`, `ViewExact` when the types share one broadcast group |
| `csu_overlap` | 2 Configs with a client each, 2 servers, 2 changes that may overlap | `TypeOK`, `RebuildFits`, `WaitCountsUnreported`, `ImplementsRounds` (the refinement), `ChangesReachClients` |
| `rf_follow` | 2 objects, 2 reset channels of one controller, 2 bounds, 2 writes, 2 announcements, 1 fault, 1 client set update, stop | `TypeOK`, `StoreExact`, `NeverBack`, `FollowsAnnounced` |
| `pw_follow` | 2 tenants, 2 ranges beside the whole resource, 2 data partition objects, 1 watch at revision 0 or that of a list; 3 versions, 2 events, 3 of both together, 1 compaction | `TypeOK`, `NothingSkipped`, `FatalOnlyIfSecond`, `PartitionReachesWatch`; the fatal error is reached by two objects and by one that is made again |
| `sc_follow` | 2 cluster ids, 2 cluster objects, 2 addresses (one the system cluster's), 2 tenants, 1 watch, 3 writes, 1 restart; the writes of one behaviour are of both cluster objects, or of one and the tenants (`Together`) | `TypeOK`, `TenantMapOfInformer`, `StraysOnlyInSystem`, `DiesOnlyInRace`, `ClientsFollowRegistry`, `TenantMapFollowsRegistry` |
| `pl_follow` | 3 clusters, 6 keys, pages of 2, 2 writes, 1 compaction, tolerance 2 ms | `TypeOK`, `NothingLostBetweenPages`, `PagesAreSnapshot`, `VersionNotFarBehind` |
| `tl_follow` | 2 tenants of a name, 1 deletion, a default namespace and a default network, 1 other finalizer, 1 create of a user or failed request | `TypeOK`, `Purged`, `OnlyAskedFor`, `DeletedTenantGoes`, `TenantGetsDefaults` |
| `csu_stuck`, `sc_stuck`, `pl_pages` | smaller | a violation each, see [findings](#findings) |

Why the bounds are enough to mean something. Ranges depend on the length of the
list and the position only. Two processes make lists grow from one to two and shrink
again, at either position, so that the lower end, the upper end or nothing changes for a
controller; with `MaxKey` = 7 the division leaves a remainder. That both ends move takes
a third process, which the theorems have: every invariant of `cf_two` is proved for any
number of them. A lost wake-up needs two changes around one read of the mirror, which
two processes already produce. The deadlock of the update needs two overlapping changes;
two servers give maps of different sizes, and two clients a first and a last one to
report.

For the others: one fault gives a reflector a second forwarder for each channel, and
two announcements are what those can swap. A version of a partition with two
events, or two with one, give a tenant that comes into the range after an event of its
own, an object that is deleted between two reads of a watch at 0, and a compaction before
or after; two tenants, one of them the system tenant, are what the two ranges tell apart.
Three versions are a partition that is deleted and made again, or two objects of the
group and an update. Three writes are a cluster that is created, moved or deleted, and
created again, which is enough for the deadlock of `sc_stuck`; two objects of one id; a
cluster and a tenant in either order; or a tenant that is deleted while another is
written, which is what a dropped tombstone takes. The restart makes a first list of more
than one object, in any order. A group of default objects of which the first create
fails and the second succeeds is not in the run, where each group has one; the theorems
have any groups. Three clusters make the
comparison of revisions intransitive, pages of two are filled by one cluster while
another has taken nothing. One deletion and two tenants are a name used again while
the deleter of the first still runs.

`CHECK_DEADLOCK FALSE` is set in all runs but `reassign`, which stutters when the
loop is done: the systems come to rest when their budgets are used up, and a process
that is not restarted stays dead. Whether rest is the right state is what the
liveness properties ask.

## Fairness

`ControllerFramework!Fairness` is weak fairness of what the Go scheduler, the
informer and etcd do by themselves: goroutines that can run, an informer that
retries its watch, the expiry of a dead process' entry. No process has to start,
crash, lose its entry or have work. `ListConverges` needs no strong fairness,
because no step of another process keeps disabling these.

`ClientSetUpdate!FairSpec` uses strong fairness for goroutines that acquire a
mutex, which other goroutines take and give back in between: `sync.Mutex` hands
over to a waiter that starves. The endpoints never have to change.

The other modules use weak fairness only: of informers, of goroutines that can run,
of the forwarders and the loop of `Run`, of the worker of the tenant controller and
its resync (the handlers are added with a resync period), of finalizers of other
controllers and of requests that were admitted. Nobody has to write an object, open
or stop a watch, announce bounds, crash or restart; in `TenantLifecycle` the
controller's restart after a panic is a step of its worker, since its supervisor
starts it again. `PartitionedList` has no liveness property.

## Findings

Three runs end in a violation of something the repository says of itself;
`PROJECT.json` quotes the lines.

* `csu_stuck`: a second change of the endpoints waits for the write lock while the
  first update holds a read lock until all clients report; the Configs these
  clients wait for then queue behind the writer, and nothing moves again.
* `sc_stuck`: a watch receives the id of a new cluster and then waits for
  `dataClientMux`, which `AddDataClient` holds while it offers the next id. With one
  watch nobody receives it, and no later cluster gets a client.
* `pl_pages`: the index of a continue token is used as the id of its cluster. The
  second page of a list of a tenant in data cluster 1 is read from the system
  cluster, and the rest of the list is missing without an error.

One comment contradicts the code that follows it. `reflector.go:62-63` says of the bounds
of a reflector "The lower bound is inclusive while the upper bound is exclusive";
`createHashkeyListOptions` (`reflector.go:782-790`) asks for the keys greater than the
lower bound, or equal if it is 0, and less than or equal to the upper one. `InBound`
follows the code. `IsInRange` of the controllers, whose ranges these are, agrees with it,
so it is the comment that is wrong: read as the comment has it, an object whose key is the
upper end of a range would be in the store of nobody who owns it. Keys of `rf_follow` lie
on the bounds, where the two readings differ.

Several properties that hold have an exception, which is the code's and is named in
the formula. They are what a maintainer should look at next:

* `EveryHashOwnedButOne`: one FNV sum folds to the smallest `int64`, a key that no
  range contains (`fuzzer.go:350`).
* `ViewExact` leaves out `lost`: an instance that goes away between the CIM's list
  and its informer's first list stays in the mirror, with its share of the keys,
  until the process ends (`controllerinstancemanager.go:103`).
* `FilterOffOnlyIfOvertaken`: ranges sent by two goroutines may arrive in the
  opposite order, and the informers keep the older one (`controller_framework.go:480`).
* `ExactlyOneOwner` is about drained states in which the registry lists exactly the
  working controllers. A controller whose entry expired keeps its range and its
  workers, though the comment at `controller_framework.go:361` says it pauses; and a
  joining controller works on what the old owner is still working on.
* `ChangesReachClients` leaves out the deadlock above and a change between the
  manager's `Get` and its informer's first list, which is an add event without
  handler (`apiserverconfigmanager.go:127`).
* `StoreExact` leaves out the list after an expired version, which has no selector
  (`reflector.go:368`); `FollowsAnnounced` leaves out two forwarders of one channel
  that hold signals at the same time (`reflector.go:226`), and a stopped reflector,
  whose `Run` with bounds never returns.
* `PartitionReachesWatch` is about a watch that is alone on its store (all watches
  read one member of the broadcast group, `watcher.go:142`), changes that do not
  overtake each other, and a partition that was announced. It allows for a watch
  ended by compaction.
* `NothingSkipped` owes a watch asked for at 0 what exists at each read and all that
  follows, not what happened between two reads: every reset of the partition reads the
  state again and goes on from there (`watcher.go:274-280`), so an object that was told
  as added and was deleted before that read is never told as removed. `Follows` asks of
  such a watch the objects that exist, and of others every event.
* `FatalOnlyIfSecond`: a second partition object of the group ends the API server, and so
  does creating a deleted one again.
* `DiesOnlyInRace`, `ClientsFollowRegistry`, `TenantMapFollowsRegistry` leave out the
  two races of the managers: an address read by a goroutine that was overtaken
  (`storageclustermanager.go:209`) and objects reported out of the order of their
  versions (line 147). The first two are about storage clusters that are `Regular`: with
  two objects of one id the deletion of either removes the client, and one that is
  terminating at the start is passed over.
* `ClientsFollowRegistry` needs a watch at `dataClientAddCh` again and again, which
  leaves out a server without watches and `sc_stuck`.
* `TenantMapOfInformer` and `TenantMapFollowsRegistry` allow for an entry that is
  `Stale`: a deletion that the informer missed comes as a tombstone with an old version,
  and `deleteTenant` drops it if another tenant was written since
  (`tenantstoragemapmanager.go:247`); the entry stays, and the next tenant of the name is
  looked for in the old one's cluster (line 152). They also allow for a tenant that is
  terminating at a restart and is not mapped again (`tenantstoragemapmanager.go:135`).
* `StraysOnlyInSystem`: objects made while map or clients lag stay in the system
  cluster, although the design says that a tenant is in one cluster.
* `Purged` leaves out creates stored behind the last pass of a deleter.
* `NothingLostBetweenPages` and `PagesAreSnapshot` leave out the lists of `pl_pages`.

## Proofs

Checked by TLAPS, for every value of the constants allowed by their `ASSUME`s:
any finite set of processes numbered by naturals, any finite set of types, any
`MaxKey` in `Nat`; any finite set of clients on any Configs; any objects, bounds and
reset channels; any tenants, ranges and watches; any clusters, addresses and
tenants; any nonempty list of default content; any keys, selectors and page size, and any
clusters with the ids 0 to 63 that `GetClusterIdFromString` accepts; any positive clock
tolerance and first revision of the new format; and any bounds on writes, faults, changes and
restarts. The parts of an inductive invariant
beyond the property are in the module of the proof.

* `KeyRangeProofs`. `RangesDisjoint` and `RangesCover`: the ranges of the closed form
  are disjoint and cover all keys. The provers need the division spelled out
  (`DivFacts`) and monotonicity of multiplication (`TimesMono`), since both are
  nonlinear. The cover is shown by picking the position directly. `LoopInvariant`:
  the variables of the loop equal the closed form after every iteration.
  `LoopPartitions`: when the loop ends, every key is in exactly one range.
  `HashesOwned`: so every hash sum but one has exactly one owner; the step is that
  the fold of any other sum is a key (`HashInKeys`).
* `PartitionedListProofs`, on revisions. `NewerOrNear`: `RevisionIsNewer` is the order of
  the numbers with the near pairs of different clusters added, and nothing else, since
  the milliseconds are the leading part of a number (`MilliSecondMonotone`).
  `OneIsNewer`: of two revisions one is newer, so no event is refused on both sides.
  `NewerNotFarBehind`: who takes the newer one goes back by less than the tolerance.
* `PartitionedListProofs`, on lists. `ListTypeCorrect` and `VersionStaysNear` follow from
  `TypeInv`, which adds to the types that every cluster has been written, that a
  goroutine with an answer has its revision, and that it has a place among the tokens.
  That a page does not exceed its limit is a count: the keys taken of a response are
  its first ones, as many as there is room for (`TakenBound`, `TakenClosed`,
  `TakenFull`). `VersionStaysNear` goes along the order of the map, one `NewerNotFarBehind`
  for each cluster. A fold of the library is a recursive function that is chosen, not
  defined; `FoldDefined` shows that it exists, by the least number of clusters for which it
  would not, and `NewestIsFold` and `ResultIsFold` give its steps.

  `NothingIsLost` is `NothingLostBetweenPages`. Its inductive invariant is `FindInv`: each
  goroutine, and between two pages each token, has a cursor (`Cursor`), and what was got
  of its cluster is right up to that key and empty after it (`Covered`); a cluster without
  either is complete. `RevInv` says that a revision in use is one at which the list may
  show its clusters, and `AnswerInv` what a response is: the first keys after `start` of
  one such state, and the rest known to exist (`more`). The key step is `TakenPrefix`:
  what is taken is exactly what that state has between the old cursor and the new one, also
  when nothing fits and the cursor must stay. Where a request follows another in one
  page, the cursor must be the last key; that it is one, and not none, is because a
  goroutine that took nothing leaves a full page (`TakeFull`). The token after an error,
  which names the system cluster whatever cluster it is of, is good if the list is of
  that cluster alone and will be refused otherwise (`Refused`). Writes and inconsistent
  tokens only add moments (`MomentsGrow`), so what is covered stays covered.

  `PagesStaySnapshot` is `PagesAreSnapshot`. `SnapInv` is the same cursor with one state
  instead of a range of them: a goroutine of a list without selector makes one request
  for a page (`ReadInv`, since a response with more fills the page, `TakeFills`), and its
  revision shows the cluster as it was during the first page (`Version`). `FirstInv` says
  which page is the first: no version before it, a version of its clusters after it.
* `ControllerFrameworkProofs`. `TypeCorrect`, `RangesConsistent`, `NoUpdateLost`,
  `ViewsExact`, all from one inductive invariant,
  `IInv == TypeOK /\ Life /\ Mirror /\ RangeConsistent /\ NoLostUpdate`.
  `Life` relates a controller's progress to its process' and says that a name is
  unknown before it is registered; without it a registration could overwrite an
  entry, and a controller could hold a list before it has a range. `Mirror` says
  that the informer's store is the version it last took in, that what is stored
  is also in the CIM's map, and that whatever else is in the map is registered or
  was lost; without it an update event might refer to an object the CIM never
  had, so that the list would change with no message sent. Each of the five parts
  has a lemma with one step per action (`NextType`, `NextLife`, `NextMirror`,
  `NextRange`, `NextWake`). `OneOwner`: when messages have drained and the registry
  lists exactly the working controllers, `ViewExact` and `NoLostUpdate` make all
  lists of a type equal (`QuietLists`); a position in a sorted list is the number of
  smaller names (`PositionIsRank`), so different controllers hold different positions
  of equally long lists; `RangeConsistent` turns positions into ranges, and
  `RangesCover` and `RangesDisjoint` finish. `FilterFollows` is
  `FilterOffOnlyIfOvertaken`, of the form `[]A => []B`: from a state with at most one
  message of each controller under way, every step keeps `RangeAnnounced`, which says
  that the range a controller owns is with its informers or in that message.
* `ClientSetUpdateProofs`. `TypeCorrect`, `RebuildAlwaysFits`, `WaitIsCounted` and the
  refinement `UpdatesImplementRounds`. The argument follows one token for each
  client: `StartWaitingForComplete` makes them, the message to the Config and the
  one to the client carry them, `NotifyDone` takes them away (`Tokens`). `OneRound`
  and `OneToken` say that a client never has two and that the read lock is held
  while there is one, so the map cannot change; `Exclusive`, `NewMap` and
  `NobodyLate` are what that needs of the updates. `Fresh` says that a client meets
  only the map of the round on its way, and `Counts` that `waitingCount` is the
  number of tokens, or one more between the two steps of `NotifyDone`. Nothing of
  this holds by a lock alone: `waitingCount` is assigned without the mutex, and it
  is the round that keeps others out.
* `FilteredReflectorProofs`. `TypeCorrect`, `StoreIsExact` and the action property
  `StoreNeverBack`. `Synced` ties the version the watch goes on from to the one the
  next list will ask for; `VersionsGrow` says that the history of an object has
  growing versions, and `StoreSeen` that what is in the store was the object's state
  at a version already seen, also when it stays there from other bounds: a new list
  cannot then be older. `Counted` bounds the counters.
* `PartitionedWatchProofs`. `RangesArePartition`: `KeyRanges` watches exactly
  `Partition`, for every interval and place of the system tenant; an interval that
  ends where it begins watches nobody. `TypeCorrect`, `NothingIsSkipped` and
  `FatalNeedsSecond` need `AnnouncesRanges` (only ranges of the own group are announced),
  `KnownFromEvent` (the manager is initialized by an event that its informer has
  reported, so an add event it meets then is of another object, or of one that was
  deleted in between), `Unopened`, and `SyncsOnlyAtZero` (only a watch asked for at 0 has
  a channel that must read what exists), without which a reset of an ordinary watch
  might start later than its revision.
* `StorageClustersProofs`. `TypeCorrect`, `TenantMapIsInformers`, `StraysAreInSystem`
  and `DeathNeedsRace`. The inductive invariant of the first three is
  `IInv == TypeOK /\ SeenIsOf /\ RevKnown /\ OneCluster /\ TenantMapOfInformer /\
  StraysOnlyInSystem`. `SeenIsOf` says that what an informer last reported of an object
  is a write of it; `RevKnown` that the tenant manager's revision is that of a write of a
  tenant which the informer has reported, so that a deletion can be dropped only because
  of another tenant's write; `OneCluster` that the writes of a name never deleted name
  one cluster, which makes a lagging entry the right one. `DeathNeedsRace` has the form
  `[]NoRace => []~dead`: `Orderly` holds initially and is kept by every step from a
  state with `IInv` and `NoRace` (no goroutine overtaken, no add out of order, `Regular`).
  It says that the manager has the clusters its informer reported (`BackendOfInformer`),
  that an ADD in the queue will find no client (`AddsFit`), and that the queue leaves no
  client of a cluster the manager does not have (`GoneInTheEnd`), so that the next ADD
  fits too.
* `TenantLifecycleProofs`. `TypeCorrect`, `OnlyAskedForIsDeleted`, `ContentIsPurged`,
  for any number of controllers. `HasRead` says that a deleter works with something
  that was once written and was to be deleted, and `Versioned` that a version tells
  its write, so the conditional update of a deleter can only hit the tenant it
  read. This is about the object of the tenant; its content is `ContentIsPurged`.
  `PassedEmpty` follows the pass of a deleter over the kinds, `FinalizedEmpty`
  says that a tenant without the finalizer is empty; both hold until `late`.

Only model-checked:

* the liveness properties (`ListConverges`, `ChangesReachClients`, `FollowsAnnounced`,
  `PartitionReachesWatch`, `ClientsFollowRegistry`, `TenantMapFollowsRegistry`,
  `DeletedTenantGoes`, `TenantGetsDefaults`), which need fairness and are outside
  this prover's reach;
* the violations.

Every invariant and every action property of the passing runs is a theorem.

Induction theorems whose parameter is an operator are of no use to the installed
provers. Where a proof needs the least or the greatest of a set of numbers it takes
it from well-foundedness (`LeastNumber`, `GreatestNumber`, `LeastOf`), which is stated
about sets.

## Limits of the models

* `updateCachedControllerInstances` runs under the controller's mutex and is one
  step. Readers without the mutex (`IsInRange`, `ReportHealth`) therefore see a
  whole update; the torn reads the code allows are listed as a hazard.
* A health report reads and writes in one step.
* The branch of `addControllerInstance` for objects with a deletion timestamp is
  not reached: entries have no finalizers, so they are removed at once.
* A worker's work on a workload is its beginning and its end.
* `ResetFilter` sets the bounds of all informers of a controller at once;
  `FilteredReflector` has the steps of one of them.
* Updates of `ClientSetUpdate` begin when all clients listen, which is what the
  delay of 30 seconds after start is there for; later clients are not modelled.
  Endpoints are never empty.
* Events of a watch are handed on in one step in `PartitionedWatch`; buffers do not
  fill up. A closed range that begins where it ends, which watches nothing, is
  excluded from the run.
* `StorageClusters` has one watch in its runs: with more watches the hand-off goes to
  any of them, and nothing is claimed of the others. An update keeps the storage cluster
  id of an object, as `pkg/apis/core/validation/validation.go:5333` and `:5353` have it.
* `TenantLifecycle` has one worker and one API server; a second controller is the
  short action `PeerFinalizes`. Content has one object of a kind.
* `PartitionedList` reads the length of the shared list as it is; a torn slice header
  is not modelled. The model's etcd refuses a revision it has not reached.
* The retry of the first `Get`, logging, metrics and events are left out.

## Plan

In this order.

1. `RangeRace`: `updateCachedControllerInstances` and its readers without the mutex,
   one assignment per step.
2. An abstract specification of ownership (each key of a type has a set of owners,
   changed by joins and leaves) that `ControllerFramework` implements.
3. `AggregatedWatcher`, composed with `PartitionedWatch`.
4. `NetworkLifecycle`.
