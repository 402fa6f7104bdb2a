-------------------------- MODULE StorageClusters --------------------------
(***************************************************************************)
(* How an API server spreads the tenants over several etcd clusters.       *)
(*                                                                         *)
(*   apiserver/pkg/storage/storagecluster/storageclustermanager.go         *)
(*   apiserver/pkg/storage/storagecluster/tenantstoragemapmanager.go       *)
(*   apiserver/pkg/storage/storagebackend/factory/etcd3.go                 *)
(*   apiserver/pkg/storage/etcd3/store.go                                  *)
(*                                                                         *)
(* Storage cluster and tenant objects are in the system cluster.  Two      *)
(* managers follow them with informers.  The first announces clusters to   *)
(* the store, which keeps a client for each and adds a new cluster to one  *)
(* of its watches; the second says in which cluster a tenant is.           *)
(*                                                                         *)
(* The log is the history of those objects in the system cluster (etcd is  *)
(* external), and the place of a write in it is its resource version: all  *)
(* of them have one cluster's id, for which RevisionIsNewer is >.          *)
(***************************************************************************)
EXTENDS Naturals, Sequences, FiniteSets

CONSTANTS
  Clusters,       \* storage cluster ids, without 0, the system cluster
  ClusterObjects, \* names of storage cluster objects
  Addresses,      \* service addresses of etcd clusters
  SystemAddress,  \* ... the one of the system cluster
  Tenants,
  Watches,        \* watches opened on the store
  None,
  MaxWrites,      \* bound on writes of storage cluster and tenant objects
  Together,       \* bound on which of them are written in one behaviour
  MaxRestarts     \* bound on restarts of the API server

ASSUME IdAssumption ==
  /\ Clusters \subseteq Nat \ {0} /\ Tenants \cap ClusterObjects = {}
  /\ None \notin Clusters \cup Addresses \cup {0}
ASSUME BoundAssumption == MaxWrites \in Nat /\ MaxRestarts \in Nat

VARIABLES
  log,        \* writes of storage cluster and tenant objects
  seen,       \* the last write its informer has reported of each object
  rev,        \* rev of each manager
  backend,    \* StorageClusterManager.backendClusters: addresses
  updating,   \* goroutines of updateCluster: write, cluster, address read or None
  tenantMap,  \* tenantToClusterMap: the write an entry comes from, 0 if none
  messages,   \* actions waiting for the goroutine of newETCD3Storage
  clients,    \* store.dataClusterClients: addresses
  watchers,   \* clusters whose store.dataClusterWatchers has a client not closed
  handoff,    \* the cluster id AddDataClient is sending to dataClientAddCh, or 0;
              \* it holds dataClientMux meanwhile
  opened,     \* watches whose goroutine receives from it; none of them ends
  taken,      \* the id each of them has received and waits with for the mutex, or 0
  watching,   \* data clusters each watch gets events from
  placed,     \* clusters that hold objects of a tenant
  dead,       \* a panic or klog.Fatalf ended the API server
  restarts

managerVars == <<rev, backend, updating, tenantMap>>
storeVars == <<clients, watchers, handoff, opened, taken, watching>>
vars == <<log, seen, rev, backend, updating, tenantMap, messages,
          clients, watchers, handoff, opened, taken, watching, placed, dead, restarts>>

Managers == {"cluster", "tenant"}

Ids(m) == IF m = "cluster" THEN ClusterObjects ELSE Tenants

Objects == ClusterObjects \cup Tenants

\* A write of an object: the storage cluster id it names, None if the object is
\* deleted; the address, for a storage cluster; and if it is being deleted,
\* with a deletion timestamp
Entry(id, c, a, d) == [id |-> id, cluster |-> c, address |-> a, deleting |-> d]

Gone(id) == Entry(id, None, None, FALSE)

\* The last write of an object among the first n, 0 if there is none
LastOf(id, n) ==
  LET W == {i \in 1 .. n : log[i].id = id}
  IN IF W = {} THEN 0 ELSE CHOOSE i \in W : \A j \in W : j <= i

\* The object as it is registered
Registered(id) ==
  IF LastOf(id, Len(log)) = 0 THEN Gone(id) ELSE log[LastOf(id, Len(log))]

Exists(id) == Registered(id).cluster # None

-----------------------------------------------------------------------------
\* A process that has just started.  syncClusters and syncTenants run before
\* the informers and find nothing.
ProcessInit(s, r, b, u, t, m, c, d, h, o, k, w) ==
  /\ s = [i \in Objects |-> 0]
  /\ r = [i \in Managers |-> 0]
  /\ b = [i \in Clusters |-> None] /\ u = {}
  /\ t = [i \in Tenants |-> 0]
  /\ m = << >>
  /\ c = [i \in Clusters |-> None] /\ d = {} /\ h = 0
  /\ o = {} /\ k = [i \in Watches |-> 0] /\ w = [i \in Watches |-> {}]

Init ==
  /\ log = << >>
  /\ ProcessInit(seen, rev, backend, updating, tenantMap, messages,
                 clients, watchers, handoff, opened, taken, watching)
  /\ placed = [t \in Tenants |-> {}]
  /\ dead = FALSE /\ restarts = 0

-----------------------------------------------------------------------------
(* The administrator.  An update keeps the storage cluster id of an object *)
(* and a deletion timestamp it has; an object that is made has none.       *)

Write(entry) ==
  /\ Len(log) < MaxWrites
  /\ \E S \in Together : {log[i].id : i \in 1 .. Len(log)} \cup {entry.id} \subseteq S
  /\ log' = Append(log, entry)
  /\ UNCHANGED <<seen, managerVars, messages, storeVars, dead, restarts>>

Keeps(id, c, d) ==
  IF Exists(id) THEN Registered(id).cluster = c /\ (Registered(id).deleting => d) ELSE ~d

\* Nothing keeps two objects from naming one storage cluster id.
WriteCluster(id) ==
  /\ \E c \in Clusters, a \in Addresses, d \in BOOLEAN :
       Keeps(id, c, d) /\ Write(Entry(id, c, a, d))
  /\ UNCHANGED placed

DeleteClusterObject(id) == Exists(id) /\ Write(Gone(id)) /\ UNCHANGED placed

WriteTenant(t) ==
  /\ \E c \in Clusters, d \in BOOLEAN : Keeps(t, c, d) /\ Write(Entry(t, c, None, d))
  /\ UNCHANGED placed

\* The tenant controller has deleted the tenant's objects before.
DeleteTenantObject(t) ==
  /\ Exists(t) /\ Write(Gone(t))
  /\ placed' = [placed EXCEPT ![t] = {}]

-----------------------------------------------------------------------------
(* Informers.  The writes of one object are reported in their order, and   *)
(* some are left out when the informer lists again; between objects it     *)
(* promises no order.                                                      *)

Known(id) == seen[id] # 0 /\ log[seen[id]].cluster # None

Event(m, n) ==
  /\ ~dead /\ n \in 1 .. Len(log) /\ log[n].id \in Ids(m)
  /\ n > seen[log[n].id]
  /\ seen' = [seen EXCEPT ![log[n].id] = n]

Adds(m, n) == Event(m, n) /\ ~Known(log[n].id) /\ log[n].cluster # None

Updates(m, n) == Event(m, n) /\ Known(log[n].id) /\ log[n].cluster # None

\* A deletion that was watched comes with its own version; one that a list
\* shows comes as a tombstone with the version that was known.
Deletes(m, n, v) ==
  LET id == log[n].id IN
  /\ Event(m, n) /\ Known(id) /\ log[n].cluster = None
  /\ \/ v = seen[id]
     \/ v = n /\ \A k \in seen[id] + 1 .. n - 1 : log[k].id # id

-----------------------------------------------------------------------------
(* StorageClusterManager.                                                  *)

Action(action, c, address) == [action |-> action, cluster |-> c, address |-> address]

\* An object that is being deleted, an event older than the last one taken in
\* and an id that is in use are passed over.
AddCluster(n) ==
  LET c == log[n].cluster IN
  /\ Adds("cluster", n)
  /\ IF log[n].deleting \/ rev["cluster"] > n \/ backend[c] # None
     THEN UNCHANGED <<backend, messages, rev>>
     ELSE /\ backend' = [backend EXCEPT ![c] = log[n].address]
          /\ messages' = Append(messages, Action("ADD", c, log[n].address))
          /\ rev' = [rev EXCEPT !["cluster"] = n]
  /\ UNCHANGED <<log, updating, tenantMap, storeVars, placed, dead, restarts>>

\* The goroutine that announces a new address may look it up before the next
\* statement stores it: it then finds the old one, or none and panics.
UpdateCluster(n) ==
  LET c == log[n].cluster
      old == log[seen[log[n].id]]
  IN
  /\ Updates("cluster", n) /\ old.cluster = c
  /\ backend' = [backend EXCEPT ![c] = log[n].address]
  /\ rev' = [rev EXCEPT !["cluster"] = n]
  /\ \/ /\ log[n].address = old.address /\ UNCHANGED <<updating, dead>>
     \/ /\ log[n].address # old.address /\ backend[c] = None
        /\ dead' = TRUE /\ UNCHANGED updating
     \/ /\ log[n].address # old.address
        /\ \E a \in {None, backend[c]} :
             updating' = updating \cup {[write |-> n, cluster |-> c, address |-> a]}
        /\ UNCHANGED dead
  /\ UNCHANGED <<log, tenantMap, messages, storeVars, placed, restarts>>

\* ... and an object that was made anew with another id meanwhile is only
\* logged: "Got unexpected storage cluster update".
UpdateOtherId(n) ==
  /\ Updates("cluster", n) /\ log[seen[log[n].id]].cluster # log[n].cluster
  /\ UNCHANGED <<log, managerVars, messages, storeVars, placed, dead, restarts>>

\* updateBackendStorageConfig in that goroutine: the address ...
ReadAddress(g) ==
  /\ ~dead /\ g \in updating /\ g.address = None
  /\ IF backend[g.cluster] = None
     THEN dead' = TRUE /\ UNCHANGED updating
     ELSE /\ updating' = (updating \ {g}) \cup {[g EXCEPT !.address = backend[g.cluster]]}
          /\ UNCHANGED dead
  /\ UNCHANGED <<log, seen, rev, backend, tenantMap, messages, storeVars,
                 placed, restarts>>

\* A bug: the goroutine does not look the address up.
SendUpdateUnread(g) ==
  /\ ~dead /\ g \in updating
  /\ updating' = updating \ {g}
  /\ messages' = Append(messages, Action("UPDATE", g.cluster, g.address))
  /\ UNCHANGED <<log, seen, rev, backend, tenantMap, storeVars, placed, dead, restarts>>

\* ... and the message
SendUpdate(g) ==
  /\ ~dead /\ g \in updating /\ g.address # None
  /\ updating' = updating \ {g}
  /\ messages' = Append(messages, Action("UPDATE", g.cluster, g.address))
  /\ UNCHANGED <<log, seen, rev, backend, tenantMap, storeVars, placed, dead, restarts>>

\* A bug: the store is not told.
DeleteClusterQuietly(n, v) ==
  LET c == log[seen[log[n].id]].cluster IN
  /\ Deletes("cluster", n, v)
  /\ backend' = [backend EXCEPT ![c] = None]
  /\ rev' = IF backend[c] = None THEN rev ELSE [rev EXCEPT !["cluster"] = v]
  /\ UNCHANGED <<log, updating, tenantMap, messages, storeVars, placed, dead, restarts>>

\* A duplicate is logged and handled all the same; and so is the deletion of an
\* object that was passed over because of another with its id.
DeleteCluster(n, v) ==
  LET c == log[seen[log[n].id]].cluster IN
  /\ Deletes("cluster", n, v)
  /\ IF backend[c] = None THEN UNCHANGED <<backend, messages, rev>>
     ELSE /\ messages' = Append(messages, Action("DELETE", c, backend[c]))
          /\ backend' = [backend EXCEPT ![c] = None]
          /\ rev' = [rev EXCEPT !["cluster"] = v]
  /\ UNCHANGED <<log, updating, tenantMap, storeVars, placed, dead, restarts>>

-----------------------------------------------------------------------------
(* TenantStorageMapManager.                                                *)

\* A bug: the first tenant is the only one.
AddTenantOnce(n) ==
  /\ Adds("tenant", n)
  /\ IF rev["tenant"] > 0 THEN UNCHANGED <<tenantMap, rev>>
     ELSE /\ tenantMap' = [tenantMap EXCEPT ![log[n].id] = n]
          /\ rev' = [rev EXCEPT !["tenant"] = n]
  /\ UNCHANGED <<log, backend, updating, messages, storeVars, placed, dead, restarts>>

\* A tenant that is being deleted, an event older than the last one taken in
\* and a tenant that is in the map, with this cluster or another, are passed over.
AddTenant(n) ==
  LET t == log[n].id IN
  /\ Adds("tenant", n)
  /\ IF log[n].deleting \/ rev["tenant"] > n \/ tenantMap[t] # 0
     THEN UNCHANGED <<tenantMap, rev>>
     ELSE /\ tenantMap' = [tenantMap EXCEPT ![t] = n]
          /\ rev' = [rev EXCEPT !["tenant"] = n]
  /\ UNCHANGED <<log, backend, updating, messages, storeVars, placed, dead, restarts>>

UpdateTenant(n) ==
  /\ Updates("tenant", n)
  /\ tenantMap' = [tenantMap EXCEPT ![log[n].id] = n]
  /\ rev' = [rev EXCEPT !["tenant"] = n]
  /\ UNCHANGED <<log, backend, updating, messages, storeVars, placed, dead, restarts>>

\* A bug: the entry stays.
DeleteTenantNot(n, v) ==
  /\ Deletes("tenant", n, v)
  /\ UNCHANGED <<log, managerVars, messages, storeVars, placed, dead, restarts>>

\* An event older than the last one taken in, of any tenant, is passed over:
\* the entry then stays.
DeleteTenant(n, v) ==
  /\ Deletes("tenant", n, v)
  /\ tenantMap' = IF rev["tenant"] > v THEN tenantMap
                  ELSE [tenantMap EXCEPT ![log[n].id] = 0]
  /\ UNCHANGED <<log, rev, backend, updating, messages, storeVars, placed, dead, restarts>>

-----------------------------------------------------------------------------
(* The store, and the goroutine of newETCD3Storage that maintains it.      *)

\* its next message; it waits for AddDataClient to return before
Received(action) ==
  /\ ~dead /\ handoff = 0 /\ messages # << >> /\ Head(messages).action = action
  /\ messages' = Tail(messages)

\* A client and a watcher are stored, and the id offered to the watches, the
\* mutex held; an id that has a client already is an error, which is fatal.
AddDataClient(c, address) ==
  /\ IF clients[c] # None
     THEN dead' = TRUE /\ UNCHANGED <<clients, watchers, handoff>>
     ELSE /\ clients' = [clients EXCEPT ![c] = address]
          /\ watchers' = watchers \cup {c}
          /\ handoff' = c /\ UNCHANGED dead
  /\ UNCHANGED watching

ReceiveAdd ==
  LET msg == Head(messages) IN
  /\ Received("ADD")
  /\ IF msg.address = SystemAddress
     THEN UNCHANGED <<clients, watchers, handoff, watching, dead>>
     ELSE AddDataClient(msg.cluster, msg.address)
  /\ UNCHANGED <<log, seen, managerVars, opened, taken, placed, restarts>>

\* destroyFunc closes the old client, which ends the watches made with it; the
\* watcher of the cluster is not replaced.
CloseClient(c) ==
  /\ watchers' = watchers \ {c}
  /\ watching' = [w \in Watches |-> watching[w] \ {c}]

ReceiveUpdate ==
  LET msg == Head(messages) IN
  /\ Received("UPDATE")
  /\ IF clients[msg.cluster] = None THEN AddDataClient(msg.cluster, msg.address)
     ELSE IF clients[msg.cluster] = msg.address
     THEN UNCHANGED <<clients, watchers, handoff, watching, dead>>
     ELSE /\ clients' = [clients EXCEPT ![msg.cluster] = msg.address]
          /\ CloseClient(msg.cluster)
          /\ UNCHANGED <<handoff, dead>>
  /\ UNCHANGED <<log, seen, managerVars, opened, taken, placed, restarts>>

\* A bug: the client stays.
ReceiveDeleteNot ==
  /\ Received("DELETE")
  /\ UNCHANGED <<log, seen, managerVars, storeVars, placed, dead, restarts>>

ReceiveDelete ==
  LET c == Head(messages).cluster IN
  /\ Received("DELETE")
  /\ clients' = [clients EXCEPT ![c] = None]
  /\ CloseClient(c)
  /\ UNCHANGED <<log, seen, managerVars, handoff, opened, taken, placed, dead, restarts>>

\* store.watch: the system cluster's watch, and a goroutine for clusters to come
OpenWatch(w) ==
  /\ ~dead /\ w \notin opened
  /\ opened' = opened \cup {w}
  /\ UNCHANGED <<log, seen, managerVars, messages, clients, watchers, handoff, taken,
                 watching, placed, dead, restarts>>

\* One of the watches that wait at dataClientAddCh receives the id, and
\* AddDataClient returns and unlocks the mutex ...
ReceiveCluster(w) ==
  /\ ~dead /\ w \in opened /\ handoff # 0 /\ taken[w] = 0
  /\ taken' = [taken EXCEPT ![w] = handoff]
  /\ handoff' = 0
  /\ UNCHANGED <<log, seen, managerVars, messages, clients, watchers, opened, watching,
                 placed, dead, restarts>>

\* ... which the watch needs to add the cluster, unless the next AddDataClient
\* has it
AddToWatch(w) ==
  /\ ~dead /\ taken[w] # 0 /\ handoff = 0
  /\ watching' = [watching EXCEPT ![w] = @ \cup ({taken[w]} \cap watchers)]
  /\ taken' = [taken EXCEPT ![w] = 0]
  /\ UNCHANGED <<log, seen, managerVars, messages, clients, watchers, handoff, opened,
                 placed, dead, restarts>>

\* GetClusterIdFromTenant: the system cluster for a tenant that is not known
ClusterOf(t) == IF tenantMap[t] = 0 THEN 0 ELSE log[tenantMap[t]].cluster

\* A bug: a cluster without client is replaced by one that has one.
ClientForAny(t) ==
  LET known == {c \in Clusters : clients[c] # None} IN
  IF ClusterOf(t) = 0 THEN 0
  ELSE IF clients[ClusterOf(t)] # None THEN ClusterOf(t)
  ELSE IF known = {} THEN 0 ELSE CHOOSE c \in known : TRUE

\* getClientForTenant: the system cluster for a cluster that has no client
ClientFor(t) ==
  IF ClusterOf(t) = 0 THEN 0
  ELSE IF clients[ClusterOf(t)] = None THEN 0 ELSE ClusterOf(t)

\* An object of a tenant that exists is created.
CreateObject(t) ==
  /\ ~dead /\ Exists(t)
  /\ placed' = [placed EXCEPT ![t] = @ \cup {ClientFor(t)}]
  /\ UNCHANGED <<log, seen, managerVars, messages, storeVars, dead, restarts>>

Restart ==
  /\ restarts < MaxRestarts
  /\ restarts' = restarts + 1 /\ dead' = FALSE
  /\ ProcessInit(seen', rev', backend', updating', tenantMap', messages',
                 clients', watchers', handoff', opened', taken', watching')
  /\ UNCHANGED <<log, placed>>

-----------------------------------------------------------------------------
ClusterEvent(n) ==
  \/ AddCluster(n) \/ UpdateCluster(n) \/ UpdateOtherId(n)
  \/ \E v \in 1 .. n : DeleteCluster(n, v)

TenantEvent(n) ==
  \/ AddTenant(n) \/ UpdateTenant(n)
  \/ \E v \in 1 .. n : DeleteTenant(n, v)

StoreStep == ReceiveAdd \/ ReceiveUpdate \/ ReceiveDelete

Next ==
  \/ \E id \in ClusterObjects : WriteCluster(id) \/ DeleteClusterObject(id)
  \/ \E t \in Tenants : WriteTenant(t) \/ DeleteTenantObject(t) \/ CreateObject(t)
  \/ \E n \in 1 .. MaxWrites : ClusterEvent(n) \/ TenantEvent(n)
  \/ \E g \in updating : ReadAddress(g) \/ SendUpdate(g)
  \/ StoreStep
  \/ \E w \in Watches : OpenWatch(w) \/ ReceiveCluster(w) \/ AddToWatch(w)
  \/ Restart

Spec == Init /\ [][Next]_vars

\* Informers, goroutines and the store go on while they can.
FairSpec ==
  /\ Spec
  /\ WF_vars(\E n \in 1 .. MaxWrites : ClusterEvent(n))
  /\ WF_vars(\E n \in 1 .. MaxWrites : TenantEvent(n))
  /\ WF_vars(\E g \in updating : ReadAddress(g) \/ SendUpdate(g))
  /\ WF_vars(StoreStep)
  /\ \A w \in Watches : WF_vars(ReceiveCluster(w)) /\ WF_vars(AddToWatch(w))
-----------------------------------------------------------------------------
(* Properties.                                                             *)

TypeOK ==
  /\ log \in Seq([id : ClusterObjects, cluster : Clusters, address : Addresses,
                   deleting : BOOLEAN]
                 \cup [id : Tenants, cluster : Clusters, address : {None},
                       deleting : BOOLEAN]
                 \cup [id : Objects, cluster : {None}, address : {None}, deleting : {FALSE}])
  /\ Len(log) <= MaxWrites
  /\ seen \in [Objects -> 0 .. Len(log)] /\ rev \in [Managers -> 0 .. Len(log)]
  /\ backend \in [Clusters -> Addresses \cup {None}]
  /\ updating \subseteq [write : 1 .. Len(log), cluster : Clusters,
                         address : Addresses \cup {None}]
  /\ tenantMap \in [Tenants -> 0 .. Len(log)]
  /\ messages \in Seq([action : {"ADD", "UPDATE", "DELETE"}, cluster : Clusters,
                       address : Addresses])
  /\ clients \in [Clusters -> Addresses \cup {None}] /\ watchers \subseteq Clusters
  /\ handoff \in Clusters \cup {0} /\ opened \subseteq Watches
  /\ taken \in [Watches -> Clusters \cup {0}] /\ watching \in [Watches -> SUBSET Clusters]
  /\ placed \in [Tenants -> SUBSET (Clusters \cup {0})]
  /\ dead \in BOOLEAN /\ restarts \in 0 .. MaxRestarts

\* write n deletes object id
Deletion(id, n) == log[n].id = id /\ log[n].cluster = None

\* The entry of a tenant is older than a deletion the informer has reported.
Stale(t) ==
  tenantMap[t] # 0 /\ \E d \in tenantMap[t] + 1 .. seen[t] : Deletion(t, d)

\* An entry of tenantToClusterMap is the tenant the informer knows, through
\* deletes, re-creation and restarts, or it is left from an earlier tenant of
\* that name: then there is a newer write of another tenant, because of which
\* deleteTenant took the deletion for a duplicate.
TenantMapOfInformer ==
  \A t \in Tenants : tenantMap[t] # 0 =>
    /\ log[tenantMap[t]].id = t /\ log[tenantMap[t]].cluster # None
    /\ \/ tenantMap[t] = seen[t]
       \/ /\ Stale(t)
          /\ \E k \in tenantMap[t] + 1 .. Len(log) : log[k].id \in Tenants \ {t}

\* An object the manager does not know has a write that is older than the last
\* event taken in: the manager will take its add for a duplicate.
OutOfOrder(m) ==
  \E n \in 1 .. Len(log) :
    /\ log[n].id \in Ids(m) /\ log[n].cluster # None
    /\ n > seen[log[n].id] /\ ~Known(log[n].id) /\ n < rev[m]

\* The goroutine of an address change was overtaken: the cluster is gone, or
\* has another address than the goroutine is about to announce.
Overtaken ==
  \E g \in updating : backend[g.cluster] = None
                      \/ g.address \notin {None, backend[g.cluster]}

\* Storage cluster objects and ids are one to one, and none is being deleted
\* with a deletion timestamp.
Regular ==
  \A i, j \in 1 .. Len(log) :
    (/\ log[i].id \in ClusterObjects /\ log[j].id \in ClusterObjects
     /\ log[i].cluster # None /\ log[j].cluster # None)
      => (log[i].id = log[j].id <=> log[i].cluster = log[j].cluster) /\ ~log[i].deleting

\* The fatal errors of the store ("Unexpected storage cluster add event", a
\* nil cluster in updateBackendStorageConfig) need one of these two races, or
\* objects that share an id or terminate: no sequence of adds, updates, deletes
\* and tombstones alone leads there.
DiesOnlyInRace ==
  [](~Overtaken /\ ~OutOfOrder("cluster") /\ Regular) => []~dead

\* The clients of the store are the storage clusters.  A cluster at the system
\* cluster's address may have none.
ClientsAreRegistered ==
  \A c \in Clusters :
    LET addresses == {Registered(id).address :
                        id \in {o \in ClusterObjects : Registered(o).cluster = c}}
    IN IF addresses = {} THEN clients[c] = None
       ELSE \/ clients[c] \in addresses
            \/ clients[c] = None /\ SystemAddress \in addresses

\* Neither race, regular objects, and the API server does not die
Undisturbed == ~Overtaken /\ ~OutOfOrder("cluster") /\ Regular /\ ~dead

\* Then the clients end up as the storage clusters are, as long as there is
\* again and again a watch at dataClientAddCh: AddDataClient waits for one.
ClientsFollowRegistry ==
  ([]Undisturbed /\ []<>(\E w \in opened : taken[w] = 0)) => <>[]ClientsAreRegistered

\* "Api servers can automatically connect to ETCD cluster(s)": as long as
\* somebody watches, every data cluster that stays registered gets a client.
\* (It does not hold: the watch that has received one id waits for the mutex
\* that AddDataClient holds while it offers the next.)
ClustersGetClients ==
  ([]Undisturbed /\ <>[](opened # {})) =>
    <>[](\A id \in ClusterObjects :
           Exists(id) /\ Registered(id).address # SystemAddress
             => clients[Registered(id).cluster] # None)

\* Tenants reported in the order of their versions are all in the map in the
\* end, but for one that is being deleted and was passed over, or that an entry
\* left from an earlier tenant of its name keeps out.
TenantMapFollowsRegistry ==
  []~OutOfOrder("tenant") =>
    <>[](dead \/ \A t \in Tenants :
           \/ Stale(t)
           \/ ~Exists(t) /\ tenantMap[t] = 0
           \/ Exists(t) /\ tenantMap[t] = LastOf(t, Len(log))
           \/ Exists(t) /\ Registered(t).deleting /\ tenantMap[t] = 0)

\* "Objects for a single tenant can only located in one tenant cluster"
\* (docs/design-proposals/etcd/ETCD-Data-Partition-Design.md).  Objects made
\* while the map or the clients lag are in the system cluster; but as long as
\* the tenant's name is not used again none is in a third one.
StraysOnlyInSystem ==
  \A t \in Tenants :
    (\A i \in 1 .. Len(log) : log[i].id = t => log[i].cluster # None)
      => placed[t] \subseteq {0, Registered(t).cluster}

=============================================================================
