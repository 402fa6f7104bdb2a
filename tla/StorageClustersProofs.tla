----------------------- MODULE StorageClustersProofs ------------------------
(***************************************************************************)
(* Where tenants are, and when the store dies, for any number of storage   *)
(* clusters, objects, addresses, tenants, watches, writes and restarts.    *)
(***************************************************************************)
EXTENDS StorageClusters, TLAPS, SequenceTheorems, WellFoundedInduction

-----------------------------------------------------------------------------
(* The parts of the inductive invariant.                                   *)

\* What the informers have reported of an object is a write of it.
SeenIsOf == \A o \in Objects : seen[o] # 0 => log[seen[o]].id = o

\* The version the tenant manager has is one of a tenant, and its informer has
\* reported it.
RevKnown ==
  rev["tenant"] # 0 => /\ log[rev["tenant"]].id \in Tenants
                       /\ rev["tenant"] <= seen[log[rev["tenant"]].id]

\* Nobody has deleted the tenant of a name.
NeverDeleted(t) == \A i \in 1 .. Len(log) : log[i].id = t => log[i].cluster # None

\* The tenants of a name that was never deleted are all in one cluster.
OneCluster ==
  \A t \in Tenants : NeverDeleted(t) =>
    \A i \in 1 .. Len(log) : log[i].id = t => log[i].cluster = Registered(t).cluster

IInv ==
  /\ TypeOK /\ SeenIsOf /\ RevKnown /\ OneCluster
  /\ TenantMapOfInformer /\ StraysOnlyInSystem

-----------------------------------------------------------------------------
(* ... and of the one that holds as long as there was no race.             *)

\* The cluster manager has the clusters of the objects its informer reported.
BackendOfInformer ==
  \A c \in Clusters :
    backend[c] # None <=> \E o \in ClusterObjects : Known(o) /\ log[seen[o]].cluster = c

\* With the messages q and the clients f, there is no client of c when the
\* store comes to message i.
GoneIn(q, f, c, i) ==
  \/ \E j \in 1 .. i - 1 : /\ q[j].cluster = c /\ q[j].action = "DELETE"
                           /\ \A k \in j + 1 .. i - 1 : q[k].cluster # c
  \/ f[c] = None /\ \A k \in 1 .. i - 1 : q[k].cluster # c

GoneBefore(c, i) == GoneIn(messages, clients, c, i)

\* Adds find no client.
AddsFit ==
  \A i \in 1 .. Len(messages) : messages[i].action = "ADD" => GoneBefore(messages[i].cluster, i)

\* The store will have no client of a cluster that the manager does not have.
GoneInTheEnd == \A c \in Clusters : backend[c] = None => GoneBefore(c, Len(messages) + 1)

NoRace == ~Overtaken /\ ~OutOfOrder("cluster") /\ Regular

Orderly == ~dead /\ BackendOfInformer /\ AddsFit /\ GoneInTheEnd

-----------------------------------------------------------------------------
(* The history of the system cluster.                                      *)

Entries == [id : ClusterObjects, cluster : Clusters, address : Addresses, deleting : BOOLEAN]
           \cup [id : Tenants, cluster : Clusters, address : {None}, deleting : BOOLEAN]
           \cup [id : Objects, cluster : {None}, address : {None}, deleting : {FALSE}]

\* The last write of an object in any history, and the cluster it names
LastIn(s, id, n) ==
  LET W == {i \in 1 .. n : s[i].id = id}
  IN IF W = {} THEN 0 ELSE CHOOSE i \in W : \A j \in W : j <= i

ClusterIn(s, id, n) == IF LastIn(s, id, n) = 0 THEN None ELSE s[LastIn(s, id, n)].cluster

\* A nonempty set of natural numbers has a least element.
LEMMA LeastNumber ==
  ASSUME NEW S \in SUBSET Nat, S # {}
  PROVE  \E m \in S : \A k \in S : m <= k
<1> DEFINE R == OpToRel(<, Nat)
<1>1. IsWellFoundedOn(R, Nat)
  BY NatLessThanWellFounded, Zenon
<1>2. \A x, y \in Nat : x < y => <<x, y>> \in R
  BY Zenon DEF OpToRel
<1> HIDE DEF R
<1>3. PICK x \in S : \A y \in S : ~(<<y, x>> \in R)
  BY <1>1, WFMin
<1>4. \A y \in S : y \in Nat /\ x \in Nat /\ ~(y < x)
  BY <1>2, <1>3
<1>5. QED
  BY <1>4

\* A nonempty set of numbers up to n has a greatest one: its least upper bound.
LEMMA GreatestNumber ==
  ASSUME NEW n \in Nat, NEW W \in SUBSET (1 .. n), W # {}
  PROVE  \E m \in W : \A k \in W : k <= m
<1> DEFINE U == {u \in Nat : \A k \in W : k <= u}
<1>1. n \in U /\ U \in SUBSET Nat
  OBVIOUS
<1>2. PICK m \in U : \A u \in U : m <= u
  BY <1>1, LeastNumber
<1>3. m \in Nat /\ m # 0
  <2>1. PICK w \in W : TRUE
    OBVIOUS
  <2>2. w >= 1 /\ w <= m /\ m \in Nat
    BY <1>2, <2>1
  <2>3. QED
    BY <2>2
<1>4. m - 1 \notin U
  BY <1>2, <1>3
<1>5. PICK k \in W : ~(k <= m - 1)
  BY <1>3, <1>4
<1>6. k = m
  BY <1>2, <1>3, <1>5
<1>7. QED
  BY <1>2, <1>6

\* LastIn is the last.
LEMMA LastFacts ==
  ASSUME NEW s, NEW id, NEW n \in Nat
  PROVE  /\ LastIn(s, id, n) \in 0 .. n
         /\ LastIn(s, id, n) # 0 => s[LastIn(s, id, n)].id = id
         /\ \A i \in LastIn(s, id, n) + 1 .. n : s[i].id # id
<1> DEFINE W == {i \in 1 .. n : s[i].id = id}
           l == LastIn(s, id, n)
<1>1. CASE W = {}
  <2>1. l = 0
    BY <1>1 DEF LastIn
  <2>2. QED
    BY <1>1, <2>1
<1>2. CASE W # {}
  <2>1. l = CHOOSE i \in W : \A j \in W : j <= i
    BY <1>2 DEF LastIn
  <2>2. \E i \in W : \A j \in W : j <= i
    BY <1>2, GreatestNumber
  <2>3. l \in W /\ \A j \in W : j <= l
    BY <2>1, <2>2
  <2>4. l \in 1 .. n /\ s[l].id = id
    BY <2>3
  <2> HIDE DEF l
  <2>5. \A i \in l + 1 .. n : s[i].id # id
    BY <2>3, <2>4
  <2>6. QED
    BY <2>4, <2>5 DEF l
<1>3. QED
  BY <1>1, <1>2

\* There is only one.
LEMMA LastIs ==
  ASSUME NEW s, NEW id, NEW n \in Nat, NEW k \in 0 .. n, k # 0 => s[k].id = id,
         \A i \in k + 1 .. n : s[i].id # id
  PROVE  LastIn(s, id, n) = k
<1> DEFINE l == LastIn(s, id, n)
<1>1. l \in 0 .. n /\ (l # 0 => s[l].id = id) /\ \A i \in l + 1 .. n : s[i].id # id
  BY LastFacts
<1> HIDE DEF l
<1>2. l = k
  BY <1>1
<1>3. QED
  BY <1>2 DEF l

\* The cluster of a registered object, in these terms
LEMMA RegisteredCluster ==
  /\ \A id : Registered(id).cluster = ClusterIn(log, id, Len(log))
  /\ \A id : (Registered(id).cluster)' = ClusterIn(log', id, Len(log'))
<1>1. \A id, n : LastOf(id, n) = LastIn(log, id, n) /\ LastOf(id, n)' = LastIn(log', id, n)
  BY DEF LastOf, LastIn
<1>2. \A id : Gone(id).cluster = None
  BY DEF Gone, Entry
<1>3. QED
  BY <1>1, <1>2 DEF Registered, ClusterIn

\* An entry of the log holds what its object can have.
LEMMA EntryFacts ==
  ASSUME NEW e \in Entries
  PROVE  /\ e.id \in Objects /\ e.cluster \in Clusters \cup {None}
         /\ e.id \in ClusterObjects /\ e.cluster # None => e.address \in Addresses
BY IdAssumption DEF Entries, Objects

\* The history u is s with one more write.
Extends(u, s, e) == u = Append(s, e)

\* Only the object of the write has another cluster, then.
LEMMA AppendFacts ==
  ASSUME NEW s \in Seq(Entries), NEW e \in Entries, NEW u, Extends(u, s, e)
  PROVE  /\ u \in Seq(Entries) /\ Len(s) \in Nat /\ Len(u) = Len(s) + 1
         /\ \A i \in 1 .. Len(s) : u[i] = s[i]
         /\ u[Len(s) + 1] = e
         /\ \A id : ClusterIn(u, id, Len(u))
                      = IF id = e.id THEN e.cluster ELSE ClusterIn(s, id, Len(s))
<1> DEFINE n == Len(s)
<1>1. /\ u \in Seq(Entries) /\ n \in Nat /\ Len(u) = n + 1
      /\ \A i \in 1 .. n : u[i] = s[i]
      /\ u[n + 1] = e
  BY AppendProperties, LenProperties DEF Extends
<1> HIDE DEF n
<1>2. ASSUME NEW id
      PROVE  ClusterIn(u, id, n + 1) = IF id = e.id THEN e.cluster ELSE ClusterIn(s, id, n)
  <2>1. CASE id = e.id
    <3>1. n + 1 \in Nat /\ n + 1 \in 0 .. n + 1 /\ u[n + 1].id = id /\ n + 1 # 0
      BY <1>1, <2>1
    <3>2. \A i \in (n + 1) + 1 .. n + 1 : u[i].id # id
      BY <1>1
    <3>3. LastIn(u, id, n + 1) = n + 1
      BY <3>1, <3>2, LastIs
    <3>4. QED
      BY <1>1, <2>1, <3>1, <3>3 DEF ClusterIn
  <2>2. CASE id # e.id
    <3> DEFINE l == LastIn(s, id, n)
    <3>1. l \in 0 .. n /\ (l # 0 => s[l].id = id) /\ \A i \in l + 1 .. n : s[i].id # id
      BY <1>1, LastFacts
    <3> HIDE DEF l
    <3>2. l \in 0 .. n + 1 /\ n + 1 \in Nat /\ (l # 0 => u[l] = s[l])
      BY <1>1, <3>1
    <3>3. (l # 0 => u[l].id = id) /\ \A i \in l + 1 .. n + 1 : u[i].id # id
      BY <1>1, <2>2, <3>1, <3>2
    <3>4. LastIn(u, id, n + 1) = l
      BY <3>2, <3>3, LastIs
    <3>5. QED
      BY <2>2, <3>2, <3>4 DEF ClusterIn, l
  <2>3. QED
    BY <2>1, <2>2
<1>3. QED
  BY <1>1, <1>2 DEF n

\* What a write does to the log
LEMMA WriteFacts ==
  ASSUME log \in Seq(Entries), NEW e \in Entries, log' = Append(log, e)
  PROVE  /\ log' \in Seq(Entries) /\ Len(log) \in Nat /\ Len(log') = Len(log) + 1
         /\ \A i \in 1 .. Len(log) : log'[i] = log[i]
         /\ log'[Len(log) + 1] = e
         /\ \A id : (Registered(id).cluster)'
                      = IF id = e.id THEN e.cluster ELSE Registered(id).cluster
<1>1. Extends(log', log, e)
  BY DEF Extends
<1>2. /\ log' \in Seq(Entries) /\ Len(log) \in Nat /\ Len(log') = Len(log) + 1
      /\ \A i \in 1 .. Len(log) : log'[i] = log[i]
      /\ log'[Len(log) + 1] = e
      /\ \A id : ClusterIn(log', id, Len(log'))
                   = IF id = e.id THEN e.cluster ELSE ClusterIn(log, id, Len(log))
  BY <1>1, AppendFacts
<1>3. QED
  BY <1>2, RegisteredCluster

\* Without a write nothing is registered anew.
LEMMA SameLog ==
  ASSUME UNCHANGED log
  PROVE  \A id : (Registered(id).cluster)' = Registered(id).cluster
BY RegisteredCluster

-----------------------------------------------------------------------------
(* What is written, and what the informers make of it.                     *)

\* The administrator writes e.
Writes(e) ==
  /\ Len(log) < MaxWrites /\ log' = Append(log, e)
  /\ e.id \in Tenants =>
       e.cluster = None \/ Registered(e.id).cluster \in {None, e.cluster}
  /\ placed' \in [Tenants -> SUBSET (Clusters \cup {0})]
  /\ \A t \in Tenants : placed'[t] \in {placed[t], {}}
  /\ UNCHANGED <<seen, rev, backend, updating, tenantMap, messages, clients, watchers,
                 handoff, opened, taken, watching, dead, restarts>>

\* The actions of Next, with the writes as one
LEMMA NextCases ==
  ASSUME TypeOK, Next
  PROVE  \/ \E e \in Entries : Writes(e)
         \/ \E t \in Tenants : CreateObject(t)
         \/ \E n : \/ AddCluster(n) \/ UpdateCluster(n) \/ UpdateOtherId(n)
                   \/ \E v : DeleteCluster(n, v)
         \/ \E n : AddTenant(n) \/ UpdateTenant(n) \/ \E v : DeleteTenant(n, v)
         \/ \E g \in updating : ReadAddress(g) \/ SendUpdate(g)
         \/ ReceiveAdd \/ ReceiveUpdate \/ ReceiveDelete
         \/ \E w \in Watches : OpenWatch(w) \/ ReceiveCluster(w) \/ AddToWatch(w)
         \/ Restart
<1> USE DEF Write, managerVars, storeVars
<1>0. placed \in [Tenants -> SUBSET (Clusters \cup {0})]
  BY DEF TypeOK
<1>1. ASSUME NEW o \in ClusterObjects, WriteCluster(o) \/ DeleteClusterObject(o)
      PROVE  \E e \in Entries : Writes(e)
  <2>1. PICK e : /\ e = Gone(o) \/ \E c \in Clusters, a \in Addresses, d \in BOOLEAN :
                                     e = Entry(o, c, a, d)
                 /\ Write(e) /\ UNCHANGED placed
    BY <1>1 DEF WriteCluster, DeleteClusterObject
  <2>2. e \in Entries /\ e.id \notin Tenants
    <3>1. CASE e = Gone(o)
      BY <3>1, IdAssumption DEF Entries, Gone, Entry, Objects
    <3>2. ASSUME NEW c \in Clusters, NEW a \in Addresses, NEW d \in BOOLEAN, e = Entry(o, c, a, d)
          PROVE  e \in Entries /\ e.id \notin Tenants
      BY <3>2, IdAssumption DEF Entries, Entry
    <3>3. QED
      BY <2>1, <3>1, <3>2
  <2>3. Writes(e)
    BY <1>0, <2>1, <2>2 DEF Writes
  <2>4. QED
    BY <2>2, <2>3
<1>2. ASSUME NEW t \in Tenants, WriteTenant(t)
      PROVE  \E e \in Entries : Writes(e)
  <2>1. PICK c \in Clusters, d \in BOOLEAN : /\ Keeps(t, c, d) /\ UNCHANGED placed
                                             /\ Write(Entry(t, c, None, d))
    BY <1>2 DEF WriteTenant
  <2> DEFINE e == Entry(t, c, None, d)
  <2>2. e \in Entries /\ e.id = t /\ e.cluster = c
    BY DEF Entries, Entry
  <2>3. Registered(t).cluster \in {None, c}
    BY <2>1 DEF Keeps, Exists
  <2> HIDE DEF e
  <2>4. Write(e)
    BY <2>1 DEF e
  <2>5. Writes(e)
    BY <1>0, <2>1, <2>2, <2>3, <2>4 DEF Writes
  <2>6. QED
    BY <2>2, <2>5
<1>3. ASSUME NEW t \in Tenants, DeleteTenantObject(t)
      PROVE  \E e \in Entries : Writes(e)
  <2>1. Write(Gone(t)) /\ placed' = [placed EXCEPT ![t] = {}]
    BY <1>3 DEF DeleteTenantObject
  <2>2. Gone(t) \in Entries /\ Gone(t).id = t /\ Gone(t).cluster = None
    BY DEF Entries, Gone, Entry, Objects
  <2>3. /\ placed' \in [Tenants -> SUBSET (Clusters \cup {0})]
        /\ \A x \in Tenants : placed'[x] \in {placed[x], {}}
    BY <1>0, <2>1
  <2>4. Writes(Gone(t))
    BY <2>1, <2>2, <2>3 DEF Writes
  <2>5. QED
    BY <2>2, <2>4
<1>4. QED
  BY <1>1, <1>2, <1>3 DEF Next, ClusterEvent, TenantEvent, StoreStep

\* An event brings its object to write n, and leaves the others as they were.
LEMMA EventFacts ==
  ASSUME TypeOK, SeenIsOf, NEW m \in Managers, NEW n, Event(m, n), UNCHANGED log
  PROVE  /\ n \in 1 .. Len(log) /\ Len(log) \in Nat /\ log[n].id \in Ids(m)
         /\ Ids(m) \subseteq Objects /\ log[n] \in Entries /\ n > seen[log[n].id]
         /\ seen \in [Objects -> 0 .. Len(log)] /\ seen' \in [Objects -> 0 .. Len(log)]
         /\ seen'[log[n].id] = n
         /\ \A o \in Objects \ {log[n].id} : seen'[o] = seen[o]
         /\ SeenIsOf'
<1>1. /\ log \in Seq(Entries) /\ Len(log) \in Nat /\ seen \in [Objects -> 0 .. Len(log)]
  BY LenProperties DEF TypeOK, Entries
<1>2. /\ n \in 1 .. Len(log) /\ log[n].id \in Ids(m) /\ n > seen[log[n].id]
      /\ seen' = [seen EXCEPT ![log[n].id] = n]
  BY DEF Event
<1>3. log[n] \in Entries /\ Ids(m) \subseteq Objects
  BY <1>1, <1>2, ElementOfSeq DEF Ids, Objects
<1>4. /\ seen' \in [Objects -> 0 .. Len(log)] /\ seen'[log[n].id] = n
      /\ \A o \in Objects \ {log[n].id} : seen'[o] = seen[o]
  BY <1>1, <1>2, <1>3
<1>5. SeenIsOf'
  BY <1>4 DEF SeenIsOf
<1>6. QED
  BY <1>1, <1>2, <1>3, <1>4, <1>5

\* The version a deletion comes with is not older than what was known.
LEMMA DeleteFacts ==
  ASSUME TypeOK, SeenIsOf, NEW m \in Managers, NEW n, NEW v, Deletes(m, n, v), UNCHANGED log
  PROVE  /\ v \in 1 .. Len(log) /\ seen[log[n].id] <= v
         /\ Event(m, n) /\ Known(log[n].id) /\ log[n].cluster = None
<1>1. /\ Event(m, n) /\ Known(log[n].id) /\ log[n].cluster = None
      /\ v = seen[log[n].id] \/ v = n
  BY DEF Deletes
<1>2. seen[log[n].id] \in 1 .. Len(log) /\ n \in 1 .. Len(log) /\ n > seen[log[n].id]
  <2>1. /\ seen[log[n].id] \in 0 .. Len(log) /\ Len(log) \in Nat /\ n \in 1 .. Len(log)
        /\ n > seen[log[n].id]
    BY <1>1, EventFacts
  <2>2. QED
    BY <1>1, <2>1 DEF Known
<1>3. QED
  BY <1>1, <1>2

-----------------------------------------------------------------------------
(* Types.                                                                  *)

Goroutines == [write : 1 .. Len(log), cluster : Clusters, address : Addresses \cup {None}]

Messages == [action : {"ADD", "UPDATE", "DELETE"}, cluster : Clusters, address : Addresses]

\* The types of the system cluster and of what restarts keep
StoredType ==
  /\ log \in Seq(Entries) /\ Len(log) <= MaxWrites
  /\ placed \in [Tenants -> SUBSET (Clusters \cup {0})] /\ restarts \in 0 .. MaxRestarts

\* ... of the informers
InformerType == seen \in [Objects -> 0 .. Len(log)]

\* ... of the managers
ManagerType ==
  /\ rev \in [Managers -> 0 .. Len(log)]
  /\ backend \in [Clusters -> Addresses \cup {None}] /\ updating \subseteq Goroutines
  /\ tenantMap \in [Tenants -> 0 .. Len(log)] /\ messages \in Seq(Messages)

\* ... and of the store
StoreType ==
  /\ clients \in [Clusters -> Addresses \cup {None}] /\ watchers \subseteq Clusters
  /\ handoff \in Clusters \cup {0} /\ opened \subseteq Watches
  /\ taken \in [Watches -> Clusters \cup {0}] /\ watching \in [Watches -> SUBSET Clusters]
  /\ dead \in BOOLEAN

\* The type invariant is made of these four.
LEMMA TypeParts == TypeOK <=> StoredType /\ InformerType /\ ManagerType /\ StoreType
BY DEF TypeOK, StoredType, InformerType, ManagerType, StoreType, Entries, Goroutines, Messages

\* A process that starts has the types.
LEMMA StartType ==
  ASSUME Len(log) \in Nat,
         ProcessInit(seen, rev, backend, updating, tenantMap, messages,
                     clients, watchers, handoff, opened, taken, watching), dead = FALSE
  PROVE  InformerType /\ ManagerType /\ StoreType
<1>1. InformerType
  BY DEF ProcessInit, InformerType
<1>2. ManagerType
  BY EmptySeq DEF ProcessInit, ManagerType
<1>3. StoreType
  BY DEF ProcessInit, StoreType
<1>4. QED
  BY <1>1, <1>2, <1>3

\* The store keeps its types in AddDataClient.
LEMMA AddDataClientType ==
  ASSUME StoreType, NEW c \in Clusters, NEW a \in Addresses, AddDataClient(c, a),
         UNCHANGED <<opened, taken>>
  PROVE  StoreType'
<1>1. UNCHANGED watching
  BY DEF AddDataClient
<1>2. CASE clients[c] # None
  BY <1>1, <1>2 DEF AddDataClient, StoreType
<1>3. CASE clients[c] = None
  BY <1>1, <1>3 DEF AddDataClient, StoreType
<1>4. QED
  BY <1>2, <1>3

\* The message the goroutine receives, and those that are left
LEMMA ReceivedFacts ==
  ASSUME messages \in Seq(Messages), NEW action, Received(action)
  PROVE  /\ ~dead /\ Len(messages) \in Nat /\ Len(messages) > 0
         /\ Head(messages) = messages[1] /\ messages[1] \in Messages
         /\ messages[1].cluster \in Clusters /\ messages[1].address \in Addresses
         /\ messages[1].action = action
         /\ messages' = Tail(messages) /\ messages' \in Seq(Messages)
         /\ Len(messages') = Len(messages) - 1
         /\ \A i \in 1 .. Len(messages') : messages'[i] = messages[i + 1]
<1>1. messages # << >> /\ ~dead /\ Head(messages).action = action /\ messages' = Tail(messages)
  BY DEF Received
<1>2. Len(messages) \in Nat /\ Len(messages) > 0
  BY <1>1, EmptySeq, LenProperties
<1>3. Head(messages) = messages[1] /\ messages[1] \in Messages
  BY <1>1, <1>2, HeadTailProperties, ElementOfSeq
<1>4. /\ messages' \in Seq(Messages) /\ Len(messages') = Len(messages) - 1
      /\ \A i \in 1 .. Len(messages') : messages'[i] = messages[i + 1]
  BY <1>1, HeadTailProperties
<1>5. messages[1].cluster \in Clusters /\ messages[1].address \in Addresses
  BY <1>3 DEF Messages
<1>6. QED
  BY <1>1, <1>2, <1>3, <1>4, <1>5

\* The version of an event fits rev.
LEMMA RevType ==
  ASSUME ManagerType, Len(log) \in Nat, NEW m, NEW n \in 1 .. Len(log),
         rev' = [rev EXCEPT ![m] = n]
  PROVE  rev' \in [Managers -> 0 .. Len(log)]
<1>1. rev \in [Managers -> 0 .. Len(log)] /\ n \in 0 .. Len(log)
  BY DEF ManagerType
<1>2. QED
  BY <1>1

\* Every step keeps the types.
LEMMA NextType ==
  ASSUME TypeOK, SeenIsOf, TenantMapOfInformer, [Next]_vars
  PROVE  TypeOK'
<1> USE DEF managerVars, storeVars
<1>0. StoredType /\ InformerType /\ ManagerType /\ StoreType /\ Len(log) \in Nat
  BY TypeParts, LenProperties DEF StoredType
<1>1. StoredType' /\ InformerType' /\ ManagerType' /\ StoreType' => TypeOK'
  BY DEF TypeOK, StoredType, InformerType, ManagerType, StoreType, Entries, Goroutines, Messages
<1>2. UNCHANGED <<log, placed, restarts>> => StoredType'
  BY <1>0 DEF StoredType
<1>3. UNCHANGED <<log, seen>> => InformerType'
  BY <1>0 DEF InformerType
<1>4. UNCHANGED <<log, rev, backend, updating, tenantMap, messages>> => ManagerType'
  BY <1>0 DEF ManagerType, Goroutines
<1>5. UNCHANGED <<clients, watchers, handoff, opened, taken, watching, dead>> => StoreType'
  BY <1>0 DEF StoreType
<1>6. ASSUME NEW e \in Entries, Writes(e) PROVE TypeOK'
  <2>1. log' \in Seq(Entries) /\ Len(log') = Len(log) + 1 /\ Len(log') \in Nat
    BY <1>0, <1>6, WriteFacts DEF Writes, StoredType
  <2>2. StoredType'
    BY <1>0, <1>6, <2>1, BoundAssumption DEF Writes, StoredType
  <2>3. InformerType'
    BY <1>0, <1>6, <2>1 DEF Writes, InformerType
  <2>4. ManagerType'
    <3>1. Goroutines \subseteq Goroutines'
      BY <1>0, <2>1 DEF Goroutines
    <3>2. rev \in [Managers -> 0 .. Len(log')] /\ tenantMap \in [Tenants -> 0 .. Len(log')]
      BY <1>0, <2>1 DEF ManagerType
    <3>3. QED
      BY <1>0, <1>6, <3>1, <3>2 DEF Writes, ManagerType
  <2>5. QED
    BY <1>1, <1>5, <1>6, <2>2, <2>3, <2>4 DEF Writes
<1>7. ASSUME NEW t \in Tenants, CreateObject(t) PROVE TypeOK'
  <2>1. ClientFor(t) \in Clusters \cup {0}
    <3>1. tenantMap[t] \in 0 .. Len(log)
      BY <1>0 DEF ManagerType
    <3>2. tenantMap[t] # 0 => log[tenantMap[t]] \in Entries /\ log[tenantMap[t]].cluster # None
      BY <1>0, <3>1, ElementOfSeq DEF StoredType, TenantMapOfInformer
    <3>3. ClusterOf(t) \in Clusters \cup {0}
      BY <3>2, EntryFacts DEF ClusterOf
    <3>4. QED
      BY <3>3 DEF ClientFor
  <2>2. StoredType'
    BY <1>0, <1>7, <2>1 DEF CreateObject, StoredType
  <2>3. QED
    BY <1>1, <1>3, <1>4, <1>5, <1>7, <2>2 DEF CreateObject
<1>8. ASSUME NEW n, AddCluster(n) PROVE TypeOK'
  <2>1. /\ Adds("cluster", n) /\ UNCHANGED <<log, updating, tenantMap, placed, restarts>>
        /\ UNCHANGED <<clients, watchers, handoff, opened, taken, watching, dead>>
    BY <1>8 DEF AddCluster
  <2> DEFINE c == log[n].cluster
  <2>2. /\ n \in 1 .. Len(log) /\ log[n].id \in ClusterObjects /\ log[n] \in Entries
        /\ c # None /\ seen' \in [Objects -> 0 .. Len(log)]
    BY <2>1, EventFacts DEF Ids, Managers, Adds
  <2>3. log[n].address \in Addresses /\ c \in Clusters
    BY <2>2, EntryFacts
  <2> HIDE DEF c
  <2>4. ManagerType'
    <3>1. CASE UNCHANGED <<backend, messages, rev>>
      BY <1>4, <2>1, <3>1
    <3>2. CASE /\ backend' = [backend EXCEPT ![c] = log[n].address]
               /\ messages' = Append(messages, Action("ADD", c, log[n].address))
               /\ rev' = [rev EXCEPT !["cluster"] = n]
      <4>1. Action("ADD", c, log[n].address) \in Messages
        BY <2>3 DEF Action, Messages
      <4>2. messages' \in Seq(Messages)
        BY <1>0, <3>2, <4>1, AppendProperties DEF ManagerType
      <4>3. backend' \in [Clusters -> Addresses \cup {None}]
        BY <1>0, <2>3, <3>2 DEF ManagerType
      <4>4. rev' \in [Managers -> 0 .. Len(log)]
        BY <1>0, <2>2, <3>2, RevType
      <4>5. QED
        BY <1>0, <2>1, <4>2, <4>3, <4>4 DEF ManagerType, Goroutines
    <3>3. QED
      BY <1>8, <3>1, <3>2 DEF AddCluster, c
  <2>5. InformerType'
    BY <2>1, <2>2 DEF InformerType
  <2>6. QED
    BY <1>1, <1>2, <1>5, <2>1, <2>4, <2>5
<1>9. ASSUME NEW n, UpdateCluster(n) PROVE TypeOK'
  <2> DEFINE c == log[n].cluster
  <2>1. /\ Updates("cluster", n) /\ UNCHANGED <<log, tenantMap, messages, placed, restarts>>
        /\ UNCHANGED <<clients, watchers, handoff, opened, taken, watching>>
    BY <1>9 DEF UpdateCluster
  <2>2. /\ n \in 1 .. Len(log) /\ log[n].id \in ClusterObjects /\ log[n] \in Entries
        /\ c # None /\ seen' \in [Objects -> 0 .. Len(log)]
    BY <2>1, EventFacts DEF Ids, Managers, Updates
  <2>3. log[n].address \in Addresses /\ c \in Clusters
    BY <2>2, EntryFacts
  <2>4. /\ backend' = [backend EXCEPT ![c] = log[n].address]
        /\ rev' = [rev EXCEPT !["cluster"] = n]
        /\ dead' = TRUE \/ dead' = dead
        /\ \/ UNCHANGED updating
           \/ \E a \in {None, backend[c]} :
                updating' = updating \cup {[write |-> n, cluster |-> c, address |-> a]}
    BY <1>9 DEF UpdateCluster
  <2> HIDE DEF c
  <2>5. updating' \subseteq Goroutines
    <3>1. backend[c] \in Addresses \cup {None}
      BY <1>0, <2>3 DEF ManagerType
    <3>2. ASSUME NEW a \in {None, backend[c]}
          PROVE  [write |-> n, cluster |-> c, address |-> a] \in Goroutines
      BY <2>2, <2>3, <3>1, <3>2 DEF Goroutines
    <3>3. QED
      BY <1>0, <2>4, <3>2 DEF ManagerType
  <2>6. backend' \in [Clusters -> Addresses \cup {None}]
    BY <1>0, <2>3, <2>4 DEF ManagerType
  <2>7. rev' \in [Managers -> 0 .. Len(log)]
    BY <1>0, <2>2, <2>4, RevType
  <2>8. ManagerType'
    BY <1>0, <2>1, <2>5, <2>6, <2>7 DEF ManagerType, Goroutines
  <2>9. StoreType' /\ InformerType'
    BY <1>0, <2>1, <2>2, <2>4 DEF StoreType, InformerType
  <2>10. QED
    BY <1>1, <1>2, <2>1, <2>8, <2>9
<1>10. ASSUME NEW n, UpdateOtherId(n) PROVE TypeOK'
  <2>1. /\ Updates("cluster", n)
        /\ UNCHANGED <<log, rev, backend, updating, tenantMap, messages, placed, restarts>>
        /\ UNCHANGED <<clients, watchers, handoff, opened, taken, watching, dead>>
    BY <1>10 DEF UpdateOtherId
  <2>2. seen' \in [Objects -> 0 .. Len(log)]
    BY <2>1, EventFacts DEF Managers, Updates
  <2>3. InformerType'
    BY <2>1, <2>2 DEF InformerType
  <2>4. QED
    BY <1>1, <1>2, <1>4, <1>5, <2>1, <2>3
<1>11. ASSUME NEW n, NEW v, DeleteCluster(n, v) PROVE TypeOK'
  <2> DEFINE o == log[n].id
             c == log[seen[o]].cluster
  <2>1. /\ Deletes("cluster", n, v) /\ UNCHANGED <<log, updating, tenantMap, placed, restarts>>
        /\ UNCHANGED <<clients, watchers, handoff, opened, taken, watching, dead>>
    BY <1>11 DEF DeleteCluster
  <2>2. v \in 1 .. Len(log) /\ Event("cluster", n) /\ Known(o)
    BY <2>1, DeleteFacts DEF Managers
  <2>3. /\ o \in Objects /\ seen[o] \in 0 .. Len(log) /\ seen' \in [Objects -> 0 .. Len(log)]
    BY <2>1, <2>2, EventFacts DEF Managers
  <2>4. c \in Clusters
    <3>1. seen[o] \in 1 .. Len(log) /\ c # None
      BY <1>0, <2>2, <2>3 DEF Known
    <3>2. log[seen[o]] \in Entries
      BY <1>0, <3>1, ElementOfSeq DEF StoredType
    <3>3. QED
      BY <3>1, <3>2, EntryFacts
  <2> HIDE DEF c, o
  <2>5. ManagerType'
    <3>1. CASE UNCHANGED <<backend, messages, rev>>
      BY <1>4, <2>1, <3>1
    <3>2. CASE /\ backend[c] # None
               /\ messages' = Append(messages, Action("DELETE", c, backend[c]))
               /\ backend' = [backend EXCEPT ![c] = None]
               /\ rev' = [rev EXCEPT !["cluster"] = v]
      <4>1. Action("DELETE", c, backend[c]) \in Messages
        BY <1>0, <2>4, <3>2 DEF Action, Messages, ManagerType
      <4>2. messages' \in Seq(Messages)
        BY <1>0, <3>2, <4>1, AppendProperties DEF ManagerType
      <4>3. backend' \in [Clusters -> Addresses \cup {None}]
        BY <1>0, <2>4, <3>2 DEF ManagerType
      <4>4. rev' \in [Managers -> 0 .. Len(log)]
        BY <1>0, <2>2, <3>2, RevType
      <4>5. QED
        BY <1>0, <2>1, <4>2, <4>3, <4>4 DEF ManagerType, Goroutines
    <3>3. QED
      BY <1>11, <3>1, <3>2 DEF DeleteCluster, c, o
  <2>6. InformerType'
    BY <2>1, <2>3 DEF InformerType
  <2>7. QED
    BY <1>1, <1>2, <1>5, <2>1, <2>5, <2>6
<1>12. ASSUME NEW n, AddTenant(n) \/ UpdateTenant(n) \/ \E v : DeleteTenant(n, v) PROVE TypeOK'
  <2>1. /\ Event("tenant", n)
        /\ UNCHANGED <<log, backend, updating, messages, placed, restarts>>
        /\ UNCHANGED <<clients, watchers, handoff, opened, taken, watching, dead>>
    BY <1>12 DEF AddTenant, UpdateTenant, DeleteTenant, Adds, Updates, Deletes
  <2>2. n \in 1 .. Len(log) /\ log[n].id \in Tenants /\ seen' \in [Objects -> 0 .. Len(log)]
    BY <2>1, EventFacts DEF Ids, Managers
  <2>3. /\ \/ UNCHANGED tenantMap \/ tenantMap' = [tenantMap EXCEPT ![log[n].id] = 0]
           \/ tenantMap' = [tenantMap EXCEPT ![log[n].id] = n]
        /\ UNCHANGED rev \/ rev' = [rev EXCEPT !["tenant"] = n]
    BY <1>12 DEF AddTenant, UpdateTenant, DeleteTenant
  <2>4. n \in 0 .. Len(log) /\ 0 \in 0 .. Len(log)
    BY <1>0, <2>2
  <2>5. tenantMap' \in [Tenants -> 0 .. Len(log)] /\ rev' \in [Managers -> 0 .. Len(log)]
    BY <1>0, <2>2, <2>3, <2>4 DEF ManagerType
  <2>6. ManagerType'
    BY <1>0, <2>1, <2>5 DEF ManagerType, Goroutines
  <2>7. InformerType'
    BY <2>1, <2>2 DEF InformerType
  <2>8. QED
    BY <1>1, <1>2, <1>5, <2>1, <2>6, <2>7
<1>13. ASSUME NEW g \in updating, ReadAddress(g) PROVE TypeOK'
  <2>1. /\ UNCHANGED <<log, seen, rev, backend, tenantMap, messages, placed, restarts>>
        /\ UNCHANGED <<clients, watchers, handoff, opened, taken, watching>>
        /\ dead' = TRUE \/ dead' = dead
        /\ \/ UNCHANGED updating
           \/ updating' = (updating \ {g}) \cup {[g EXCEPT !.address = backend[g.cluster]]}
    BY <1>13 DEF ReadAddress
  <2>2. [g EXCEPT !.address = backend[g.cluster]] \in Goroutines
    BY <1>0 DEF ManagerType, Goroutines
  <2>3. ManagerType'
    BY <1>0, <2>1, <2>2 DEF ManagerType, Goroutines
  <2>4. StoreType'
    BY <1>0, <2>1 DEF StoreType
  <2>5. QED
    BY <1>1, <1>2, <1>3, <2>1, <2>3, <2>4
<1>14. ASSUME NEW g \in updating, SendUpdate(g) PROVE TypeOK'
  <2>1. /\ UNCHANGED <<log, seen, rev, backend, tenantMap, placed, restarts>>
        /\ UNCHANGED <<clients, watchers, handoff, opened, taken, watching, dead>>
        /\ g.address # None /\ updating' = updating \ {g}
        /\ messages' = Append(messages, Action("UPDATE", g.cluster, g.address))
    BY <1>14 DEF SendUpdate
  <2>2. Action("UPDATE", g.cluster, g.address) \in Messages
    BY <1>0, <2>1 DEF ManagerType, Goroutines, Action, Messages
  <2>3. messages' \in Seq(Messages)
    BY <1>0, <2>1, <2>2, AppendProperties DEF ManagerType
  <2>4. ManagerType'
    BY <1>0, <2>1, <2>3 DEF ManagerType, Goroutines
  <2>5. QED
    BY <1>1, <1>2, <1>3, <1>5, <2>1, <2>4
<1>15. ASSUME NEW action, Received(action),
             UNCHANGED <<log, seen, managerVars, opened, taken, placed, restarts>>,
             \/ UNCHANGED <<clients, watchers, handoff, watching, dead>>
             \/ AddDataClient(messages[1].cluster, messages[1].address)
             \/ /\ clients' \in [Clusters -> Addresses \cup {None}]
                /\ CloseClient(messages[1].cluster) /\ UNCHANGED <<handoff, dead>>
      PROVE  TypeOK'
  <2>1. /\ messages[1].cluster \in Clusters /\ messages[1].address \in Addresses
        /\ messages' \in Seq(Messages)
    BY <1>0, <1>15, ReceivedFacts DEF ManagerType
  <2>2. ManagerType'
    BY <1>0, <1>15, <2>1 DEF ManagerType, Goroutines
  <2>3. StoreType'
    <3>1. CASE UNCHANGED <<clients, watchers, handoff, watching, dead>>
      BY <1>5, <1>15, <3>1
    <3>2. CASE AddDataClient(messages[1].cluster, messages[1].address)
      BY <1>0, <1>15, <2>1, <3>2, AddDataClientType
    <3>3. CASE /\ clients' \in [Clusters -> Addresses \cup {None}]
               /\ CloseClient(messages[1].cluster) /\ UNCHANGED <<handoff, dead>>
      BY <1>0, <1>15, <2>1, <3>3 DEF StoreType, CloseClient
    <3>4. QED
      BY <1>15, <3>1, <3>2, <3>3
  <2>4. QED
    BY <1>1, <1>2, <1>3, <1>15, <2>2, <2>3
<1>16. CASE ReceiveAdd
  BY <1>0, <1>15, <1>16, ReceivedFacts DEF ReceiveAdd, ManagerType
<1>17. CASE ReceiveUpdate
  <2>1. /\ Received("UPDATE")
        /\ UNCHANGED <<log, seen, managerVars, opened, taken, placed, restarts>>
    BY <1>17 DEF ReceiveUpdate
  <2>2. /\ Head(messages) = messages[1] /\ messages[1].cluster \in Clusters
        /\ messages[1].address \in Addresses
    BY <1>0, <2>1, ReceivedFacts DEF ManagerType
  <2>3. \/ UNCHANGED <<clients, watchers, handoff, watching, dead>>
        \/ AddDataClient(messages[1].cluster, messages[1].address)
        \/ /\ clients' = [clients EXCEPT ![messages[1].cluster] = messages[1].address]
           /\ CloseClient(messages[1].cluster) /\ UNCHANGED <<handoff, dead>>
    BY <1>17, <2>2 DEF ReceiveUpdate
  <2>4. QED
    BY <1>0, <1>15, <2>1, <2>2, <2>3 DEF StoreType
<1>18. CASE ReceiveDelete
  <2>1. /\ Received("DELETE") /\ UNCHANGED <<handoff, dead>>
        /\ UNCHANGED <<log, seen, managerVars, opened, taken, placed, restarts>>
    BY <1>18 DEF ReceiveDelete
  <2>2. Head(messages) = messages[1] /\ messages[1].cluster \in Clusters
    BY <1>0, <2>1, ReceivedFacts DEF ManagerType
  <2>3. /\ clients' = [clients EXCEPT ![messages[1].cluster] = None]
        /\ CloseClient(messages[1].cluster)
    BY <1>18, <2>2 DEF ReceiveDelete
  <2>4. QED
    BY <1>0, <1>15, <2>1, <2>2, <2>3 DEF StoreType
<1>19. ASSUME NEW w \in Watches, OpenWatch(w) \/ ReceiveCluster(w) \/ AddToWatch(w)
       PROVE  TypeOK'
  <2>1. StoreType'
    <3>1. CASE OpenWatch(w)
      BY <1>0, <3>1 DEF OpenWatch, StoreType
    <3>2. CASE ReceiveCluster(w)
      BY <1>0, <3>2 DEF ReceiveCluster, StoreType
    <3>3. CASE AddToWatch(w)
      <4>1. {taken[w]} \cap watchers \subseteq Clusters
        BY <1>0 DEF StoreType
      <4>2. QED
        BY <1>0, <3>3, <4>1 DEF AddToWatch, StoreType
    <3>4. QED
      BY <1>19, <3>1, <3>2, <3>3
  <2>2. QED
    BY <1>1, <1>2, <1>3, <1>4, <1>19, <2>1 DEF OpenWatch, ReceiveCluster, AddToWatch
<1>20. CASE Restart
  <2>1. StoredType' /\ Len(log') \in Nat
    BY <1>0, <1>20, BoundAssumption DEF Restart, StoredType
  <2>2. InformerType'
    BY <1>20, <2>1 DEF Restart, ProcessInit, InformerType
  <2>3. ManagerType'
    BY <1>20, <2>1, EmptySeq DEF Restart, ProcessInit, ManagerType
  <2>4. StoreType'
    BY <1>20 DEF Restart, ProcessInit, StoreType
  <2>5. QED
    BY <1>1, <2>1, <2>2, <2>3, <2>4
<1>21. CASE UNCHANGED vars
  BY <1>1, <1>2, <1>3, <1>4, <1>5, <1>21 DEF vars
<1>22. QED
  BY <1>6, <1>7, <1>8, <1>9, <1>10, <1>11, <1>12, <1>13, <1>14, <1>16, <1>17, <1>18, <1>19,
     <1>20, <1>21, NextCases

-----------------------------------------------------------------------------
(* The tenants.                                                            *)

\* The entry of tenant t in the map is as TenantMapOfInformer says.
EntryIsInformers(t) ==
  tenantMap[t] # 0 =>
    /\ log[tenantMap[t]].id = t /\ log[tenantMap[t]].cluster # None
    /\ \/ tenantMap[t] = seen[t]
       \/ /\ Stale(t)
          /\ \E k \in tenantMap[t] + 1 .. Len(log) : log[k].id \in Tenants \ {t}

\* A write keeps a tenant in its cluster.
LEMMA WriteKeeps ==
  ASSUME IInv, NEW e \in Entries, Writes(e)
  PROVE  SeenIsOf' /\ RevKnown' /\ OneCluster' /\ TenantMapOfInformer' /\ StraysOnlyInSystem'
<1>0. /\ log \in Seq(Entries) /\ seen \in [Objects -> 0 .. Len(log)]
      /\ rev \in [Managers -> 0 .. Len(log)] /\ tenantMap \in [Tenants -> 0 .. Len(log)]
  BY DEF IInv, TypeOK, Entries
<1>1. /\ Len(log) \in Nat /\ Len(log') = Len(log) + 1
      /\ \A i \in 1 .. Len(log) : log'[i] = log[i]
      /\ log'[Len(log) + 1] = e
      /\ \A id : (Registered(id).cluster)'
                   = IF id = e.id THEN e.cluster ELSE Registered(id).cluster
  BY <1>0, WriteFacts DEF Writes
<1>2. seen' = seen /\ rev' = rev /\ tenantMap' = tenantMap
  BY DEF Writes
<1>3. SeenIsOf'
  BY <1>0, <1>1, <1>2 DEF IInv, SeenIsOf
<1>4. RevKnown'
  <2>1. rev["tenant"] # 0 => log'[rev["tenant"]] = log[rev["tenant"]]
    BY <1>0, <1>1 DEF Managers
  <2>2. QED
    BY <1>2, <2>1 DEF IInv, RevKnown
<1>5. TenantMapOfInformer'
  <2> SUFFICES ASSUME NEW t \in Tenants PROVE EntryIsInformers(t)'
    BY DEF TenantMapOfInformer, EntryIsInformers
  <2>1. EntryIsInformers(t)
    BY DEF IInv, TenantMapOfInformer, EntryIsInformers
  <2>2. CASE tenantMap[t] = 0
    BY <1>2, <2>2 DEF EntryIsInformers
  <2>3. CASE tenantMap[t] # 0
    <3>1. tenantMap[t] \in 1 .. Len(log) /\ seen[t] \in 0 .. Len(log)
      BY <1>0, <1>1, <2>3 DEF Objects
    <3>2. log'[tenantMap[t]] = log[tenantMap[t]]
      BY <1>1, <3>1
    <3>3. Stale(t) => Stale(t)'
      BY <1>1, <1>2, <3>1 DEF Stale, Deletion
    <3>4. (\E k \in tenantMap[t] + 1 .. Len(log) : log[k].id \in Tenants \ {t})
            => \E k \in tenantMap[t] + 1 .. Len(log') : log'[k].id \in Tenants \ {t}
      BY <1>1, <3>1
    <3>5. QED
      BY <1>2, <2>1, <2>3, <3>2, <3>3, <3>4 DEF EntryIsInformers
  <2>4. QED
    BY <2>2, <2>3
<1>6. ASSUME NEW t \in Tenants, NeverDeleted(t)'
      PROVE  /\ NeverDeleted(t)
             /\ \/ (Registered(t).cluster)' = Registered(t).cluster
                \/ Registered(t).cluster = None
             /\ \A i \in 1 .. Len(log') :
                  log'[i].id = t => log'[i].cluster = (Registered(t).cluster)'
  <2>1. \A i \in 1 .. Len(log) + 1 : log'[i].id = t => log'[i].cluster # None
    BY <1>1, <1>6 DEF NeverDeleted
  <2>2. NeverDeleted(t)
    BY <1>1, <2>1 DEF NeverDeleted
  <2>3. e.id = t => e.cluster # None
    BY <1>1, <2>1
  <2>4. \A i \in 1 .. Len(log) : log[i].id = t => log[i].cluster = Registered(t).cluster
    BY <2>2 DEF IInv, OneCluster
  <2>5. CASE e.id # t
    <3>1. (Registered(t).cluster)' = Registered(t).cluster
      BY <1>1, <2>5
    <3>2. QED
      BY <1>1, <2>2, <2>4, <2>5, <3>1
  <2>6. CASE e.id = t
    <3>1. (Registered(t).cluster)' = e.cluster /\ Registered(t).cluster \in {None, e.cluster}
      BY <1>1, <2>3, <2>6 DEF Writes
    <3>2. Registered(t).cluster = None => \A i \in 1 .. Len(log) : log[i].id # t
      BY <2>2, <2>4 DEF NeverDeleted
    <3>3. \A i \in 1 .. Len(log) : log[i].id = t => log[i].cluster = e.cluster
      BY <2>4, <3>1, <3>2
    <3>4. QED
      BY <1>1, <2>2, <2>6, <3>1, <3>3
  <2>7. QED
    BY <2>5, <2>6
<1>7. OneCluster'
  BY <1>6 DEF OneCluster
<1>8. StraysOnlyInSystem'
  <2> SUFFICES ASSUME NEW t \in Tenants, NeverDeleted(t)'
               PROVE  placed'[t] \subseteq {0, (Registered(t).cluster)'}
    BY DEF StraysOnlyInSystem, NeverDeleted
  <2>1. placed[t] \subseteq {0, Registered(t).cluster} /\ placed[t] \subseteq Clusters \cup {0}
    <3>1. NeverDeleted(t)
      BY <1>6
    <3>2. placed[t] \subseteq {0, Registered(t).cluster}
      BY <3>1 DEF IInv, StraysOnlyInSystem, NeverDeleted
    <3>3. QED
      BY <3>2 DEF IInv, TypeOK
  <2>2. placed'[t] \in {placed[t], {}}
    BY DEF Writes
  <2>3. CASE (Registered(t).cluster)' = Registered(t).cluster
    BY <2>1, <2>2, <2>3
  <2>4. CASE Registered(t).cluster = None
    BY <2>1, <2>2, <2>4, IdAssumption
  <2>5. QED
    BY <1>6, <2>3, <2>4
<1>9. QED
  BY <1>3, <1>4, <1>5, <1>7, <1>8

\* An event of the tenant informer leaves the map true to it, or the entry of
\* a deleted tenant in it because of another tenant.
LEMMA TenantEvents ==
  ASSUME IInv, NEW n, NEW t, t = log[n].id,
         AddTenant(n) \/ UpdateTenant(n) \/ \E v : DeleteTenant(n, v)
  PROVE  SeenIsOf' /\ RevKnown' /\ TenantMapOfInformer'
<1> DEFINE m == "tenant"
<1>0. TypeOK /\ SeenIsOf /\ RevKnown /\ TenantMapOfInformer /\ m \in Managers /\ Ids(m) = Tenants
  BY DEF IInv, Managers, Ids
<1>1. UNCHANGED log /\ Event(m, n)
  BY DEF AddTenant, UpdateTenant, DeleteTenant, Adds, Updates, Deletes
<1>2. /\ n \in 1 .. Len(log) /\ Len(log) \in Nat /\ t \in Tenants /\ Tenants \subseteq Objects
      /\ n > seen[t] /\ seen \in [Objects -> 0 .. Len(log)]
      /\ seen'[t] = n /\ \A o \in Objects \ {t} : seen'[o] = seen[o]
      /\ SeenIsOf'
  BY <1>0, <1>1, EventFacts
<1>3. /\ rev[m] \in 0 .. Len(log) /\ rev \in [Managers -> 0 .. Len(log)]
      /\ tenantMap \in [Tenants -> 0 .. Len(log)]
  BY <1>0 DEF TypeOK
<1>4. EntryIsInformers(t) /\ tenantMap[t] \in 0 .. Len(log) /\ seen[t] \in 0 .. Len(log)
  BY <1>0, <1>2, <1>3 DEF TenantMapOfInformer, EntryIsInformers
<1>5. Stale(t) => \E d \in tenantMap[t] + 1 .. n : Deletion(t, d)
  BY <1>2, <1>4 DEF Stale
<1>6. \A x \in Tenants \ {t} : tenantMap'[x] = tenantMap[x]
  BY <1>2, <1>3 DEF AddTenant, UpdateTenant, DeleteTenant
<1>7. tenantMap'[t] = tenantMap[t] /\ Stale(t) => EntryIsInformers(t)'
  <2> SUFFICES ASSUME tenantMap'[t] = tenantMap[t], Stale(t) PROVE EntryIsInformers(t)'
    OBVIOUS
  <2>1. tenantMap[t] # 0 /\ \E d \in tenantMap[t] + 1 .. seen[t] : Deletion(t, d)
    BY DEF Stale
  <2>2. tenantMap[t] # seen[t]
    BY <1>4, <2>1
  <2>3. Stale(t)'
    BY <1>1, <1>2, <1>5, <2>1 DEF Stale, Deletion
  <2>4. QED
    BY <1>1, <1>4, <2>1, <2>2, <2>3 DEF EntryIsInformers
<1>8. tenantMap'[t] = n /\ log[n].cluster # None => EntryIsInformers(t)'
  BY <1>1, <1>2 DEF EntryIsInformers
<1>9. tenantMap'[t] = 0 => EntryIsInformers(t)'
  BY DEF EntryIsInformers
<1>10. EntryIsInformers(t)'
  <2>1. CASE AddTenant(n)
    <3>1. ~Known(t) /\ log[n].cluster # None
      BY <2>1 DEF AddTenant, Adds
    <3>2. tenantMap'[t] = n \/ tenantMap'[t] = tenantMap[t]
      BY <1>2, <1>3, <2>1 DEF AddTenant
    <3>3. CASE tenantMap'[t] = tenantMap[t]
      <4>1. CASE tenantMap[t] = 0
        BY <1>9, <3>3, <4>1
      <4>2. CASE tenantMap[t] # 0
        <5>1. tenantMap[t] # seen[t]
          BY <1>4, <3>1, <4>2 DEF EntryIsInformers, Known
        <5>2. Stale(t)
          BY <1>4, <4>2, <5>1 DEF EntryIsInformers
        <5>3. QED
          BY <1>7, <3>3, <5>2
      <4>3. QED
        BY <4>1, <4>2
    <3>4. QED
      BY <1>8, <3>1, <3>2, <3>3
  <2>2. CASE UpdateTenant(n)
    <3>1. log[n].cluster # None /\ tenantMap'[t] = n
      BY <1>2, <1>3, <2>2 DEF UpdateTenant, Updates
    <3>2. QED
      BY <1>8, <3>1
  <2>3. ASSUME NEW v, DeleteTenant(n, v) PROVE EntryIsInformers(t)'
    <3>1. Deletes(m, n, v)
      BY <2>3 DEF DeleteTenant
    <3>2. v \in 1 .. Len(log) /\ seen[t] <= v /\ log[n].cluster = None
      BY <1>0, <1>1, <3>1, DeleteFacts
    <3>3. CASE ~(rev[m] > v) \/ tenantMap[t] = 0
      <4>1. tenantMap'[t] = 0
        BY <1>2, <1>3, <2>3, <3>3 DEF DeleteTenant
      <4>2. QED
        BY <1>9, <4>1
    <3>4. CASE rev[m] > v /\ tenantMap[t] # 0
      <4>1. tenantMap'[t] = tenantMap[t]
        BY <2>3, <3>4 DEF DeleteTenant
      <4>2. CASE tenantMap[t] = seen[t]
        <5>1. Stale(t)'
          <6>1. n \in tenantMap[t] + 1 .. n /\ Deletion(t, n)
            BY <1>2, <1>4, <3>2, <4>2 DEF Deletion
          <6>2. QED
            BY <1>1, <1>2, <3>4, <4>1, <6>1 DEF Stale, Deletion
        <5>2. rev[m] \in tenantMap[t] + 1 .. Len(log)
          BY <1>2, <1>3, <1>4, <3>2, <3>4, <4>2
        <5>3. log[rev[m]].id \in Tenants /\ rev[m] <= seen[log[rev[m]].id]
          BY <1>0, <1>4, <5>2 DEF RevKnown
        <5>4. log[rev[m]].id # t
          BY <1>3, <1>4, <3>2, <3>4, <5>3
        <5>5. QED
          BY <1>1, <1>4, <3>4, <4>1, <5>1, <5>2, <5>3, <5>4 DEF EntryIsInformers
      <4>3. CASE tenantMap[t] # seen[t]
        <5>1. Stale(t)
          BY <1>4, <3>4, <4>3 DEF EntryIsInformers
        <5>2. QED
          BY <1>7, <4>1, <5>1
      <4>4. QED
        BY <4>2, <4>3
    <3>5. QED
      BY <3>3, <3>4
  <2>4. QED
    BY <2>1, <2>2, <2>3
<1>11. TenantMapOfInformer'
  <2> SUFFICES ASSUME NEW x \in Tenants PROVE EntryIsInformers(x)'
    BY DEF TenantMapOfInformer, EntryIsInformers
  <2>1. CASE x = t
    BY <1>10, <2>1
  <2>2. CASE x # t
    <3>1. EntryIsInformers(x) /\ tenantMap'[x] = tenantMap[x] /\ seen'[x] = seen[x]
      BY <1>0, <1>2, <1>6, <2>2 DEF TenantMapOfInformer, EntryIsInformers
    <3>2. QED
      BY <1>1, <3>1 DEF EntryIsInformers, Stale, Deletion
  <2>3. QED
    BY <2>1, <2>2
<1>12. RevKnown'
  <2>1. rev' = rev \/ rev' = [rev EXCEPT ![m] = n]
    BY DEF AddTenant, UpdateTenant, DeleteTenant
  <2>2. CASE rev' = rev
    <3>1. ASSUME rev[m] # 0
          PROVE  log[rev[m]].id \in Tenants /\ rev[m] <= seen'[log[rev[m]].id]
      <4>1. log[rev[m]].id \in Tenants /\ rev[m] <= seen[log[rev[m]].id]
        BY <1>0, <3>1 DEF RevKnown
      <4>2. seen[log[rev[m]].id] <= seen'[log[rev[m]].id]
        BY <1>2, <4>1
      <4>3. seen[log[rev[m]].id] \in Nat /\ seen'[log[rev[m]].id] \in Nat /\ rev[m] \in Nat
        BY <1>2, <1>3, <4>1
      <4>4. QED
        BY <4>1, <4>2, <4>3
    <3>2. QED
      BY <1>1, <2>2, <3>1 DEF RevKnown
  <2>3. CASE rev' = [rev EXCEPT ![m] = n]
    <3>1. rev'[m] = n
      BY <1>0, <1>3, <2>3
    <3>2. QED
      BY <1>1, <1>2, <3>1 DEF RevKnown
  <2>4. QED
    BY <2>1, <2>2, <2>3
<1>13. QED
  BY <1>2, <1>11, <1>12

\* An event of the cluster informer has nothing to do with tenants.
LEMMA ClusterEvents ==
  ASSUME IInv, NEW n,
         \/ AddCluster(n) \/ UpdateCluster(n) \/ UpdateOtherId(n)
         \/ \E v : DeleteCluster(n, v)
  PROVE  SeenIsOf' /\ RevKnown' /\ TenantMapOfInformer'
<1>0. /\ TypeOK /\ SeenIsOf /\ RevKnown /\ TenantMapOfInformer /\ "cluster" \in Managers
      /\ "tenant" \in Managers /\ Ids("cluster") = ClusterObjects
  BY DEF IInv, Managers, Ids
<1>1. UNCHANGED <<log, tenantMap>> /\ Event("cluster", n)
  BY DEF AddCluster, UpdateCluster, UpdateOtherId, DeleteCluster, Adds, Updates, Deletes,
         managerVars
<1>2. /\ log[n].id \in ClusterObjects /\ SeenIsOf'
      /\ \A o \in Objects \ {log[n].id} : seen'[o] = seen[o]
  BY <1>0, <1>1, EventFacts
<1>3. \A t \in Tenants : seen'[t] = seen[t]
  BY <1>2, IdAssumption DEF Objects
<1>4. TenantMapOfInformer'
  BY <1>0, <1>1, <1>3 DEF TenantMapOfInformer, Stale, Deletion
<1>5. rev'["tenant"] = rev["tenant"]
  <2>1. rev \in [Managers -> 0 .. Len(log)]
    BY <1>0 DEF TypeOK
  <2>2. rev' = rev \/ \E v : rev' = [rev EXCEPT !["cluster"] = v]
    BY DEF AddCluster, UpdateCluster, UpdateOtherId, DeleteCluster, managerVars
  <2>3. QED
    BY <1>0, <2>1, <2>2
<1>6. RevKnown'
  BY <1>0, <1>1, <1>3, <1>5 DEF RevKnown
<1>7. QED
  BY <1>2, <1>4, <1>6

\* Every step keeps the invariant.
LEMMA Inductive == IInv /\ [Next]_vars => IInv'
<1> SUFFICES ASSUME IInv, [Next]_vars PROVE IInv'
  OBVIOUS
<1> USE DEF managerVars, storeVars
<1>0. /\ TypeOK /\ SeenIsOf /\ RevKnown /\ OneCluster
      /\ TenantMapOfInformer /\ StraysOnlyInSystem
  BY DEF IInv
<1>1. TypeOK'
  BY <1>0, NextType
<1>2. UNCHANGED log => OneCluster'
  BY <1>0, SameLog DEF OneCluster, NeverDeleted
<1>3. UNCHANGED <<log, placed>> => StraysOnlyInSystem'
  BY <1>0, SameLog DEF StraysOnlyInSystem
<1>4. UNCHANGED <<log, seen, rev, tenantMap>> => TenantMapOfInformer' /\ RevKnown' /\ SeenIsOf'
  BY <1>0 DEF TenantMapOfInformer, RevKnown, SeenIsOf, Stale, Deletion
<1>5. ASSUME NEW e \in Entries, Writes(e) PROVE IInv'
  BY <1>1, <1>5, WriteKeeps DEF IInv
<1>6. ASSUME NEW t \in Tenants, CreateObject(t) PROVE IInv'
  <2>1. UNCHANGED <<log, seen, rev, tenantMap>>
        /\ placed' = [placed EXCEPT ![t] = @ \cup {ClientFor(t)}]
    BY <1>6 DEF CreateObject
  <2>2. NeverDeleted(t) => ClientFor(t) \in {0, Registered(t).cluster}
    <3> SUFFICES ASSUME NeverDeleted(t), ClientFor(t) # 0
                 PROVE  ClientFor(t) = Registered(t).cluster
      OBVIOUS
    <3>1. tenantMap[t] # 0 /\ ClientFor(t) = log[tenantMap[t]].cluster
      BY DEF ClientFor, ClusterOf
    <3>2. log[tenantMap[t]].id = t
      BY <1>0, <3>1 DEF TenantMapOfInformer
    <3>3. tenantMap[t] \in 1 .. Len(log)
      BY <1>0, <3>1, LenProperties DEF TypeOK
    <3>4. QED
      BY <1>0, <3>1, <3>2, <3>3 DEF OneCluster
  <2>3. StraysOnlyInSystem'
    <3> SUFFICES ASSUME NEW x \in Tenants, NeverDeleted(x)
                 PROVE  placed'[x] \subseteq {0, Registered(x).cluster}
      BY <2>1, SameLog DEF StraysOnlyInSystem, NeverDeleted
    <3>1. placed[x] \subseteq {0, Registered(x).cluster}
      BY <1>0 DEF StraysOnlyInSystem, NeverDeleted
    <3>2. placed'[x] = IF x = t THEN placed[x] \cup {ClientFor(t)} ELSE placed[x]
      BY <1>0, <2>1 DEF TypeOK
    <3>3. QED
      BY <2>2, <3>1, <3>2
  <2>4. QED
    BY <1>1, <1>2, <1>4, <2>1, <2>3 DEF IInv
<1>7. ASSUME NEW n, \/ AddCluster(n) \/ UpdateCluster(n) \/ UpdateOtherId(n)
                    \/ \E v : DeleteCluster(n, v)
      PROVE  IInv'
  <2>1. UNCHANGED <<log, placed>>
    BY <1>7 DEF AddCluster, UpdateCluster, UpdateOtherId, DeleteCluster
  <2>2. QED
    BY <1>1, <1>2, <1>3, <1>7, <2>1, ClusterEvents DEF IInv
<1>8. ASSUME NEW n, AddTenant(n) \/ UpdateTenant(n) \/ \E v : DeleteTenant(n, v) PROVE IInv'
  <2>1. UNCHANGED <<log, placed>>
    BY <1>8 DEF AddTenant, UpdateTenant, DeleteTenant
  <2>2. QED
    BY <1>1, <1>2, <1>3, <1>8, <2>1, TenantEvents DEF IInv
<1>9. ASSUME \/ \E g \in updating : ReadAddress(g) \/ SendUpdate(g)
             \/ ReceiveAdd \/ ReceiveUpdate \/ ReceiveDelete
             \/ \E w \in Watches : OpenWatch(w) \/ ReceiveCluster(w) \/ AddToWatch(w)
             \/ UNCHANGED vars
      PROVE  IInv'
  <2>1. UNCHANGED <<log, placed, seen, rev, tenantMap>>
    BY <1>9 DEF ReadAddress, SendUpdate, ReceiveAdd, ReceiveUpdate, ReceiveDelete, OpenWatch,
                ReceiveCluster, AddToWatch, vars
  <2>2. QED
    BY <1>1, <1>2, <1>3, <1>4, <2>1 DEF IInv
<1>10. CASE Restart
  <2>1. UNCHANGED <<log, placed>> /\ seen' = [i \in Objects |-> 0]
        /\ rev' = [i \in Managers |-> 0] /\ tenantMap' = [i \in Tenants |-> 0]
    BY <1>10 DEF Restart, ProcessInit
  <2>2. SeenIsOf' /\ RevKnown' /\ TenantMapOfInformer'
    BY <2>1 DEF SeenIsOf, RevKnown, TenantMapOfInformer, Managers
  <2>3. QED
    BY <1>1, <1>2, <1>3, <2>1, <2>2 DEF IInv
<1>11. QED
  BY <1>0, <1>5, <1>6, <1>7, <1>8, <1>9, <1>10, NextCases

\* In the beginning nothing is written and nobody knows anything.
LEMMA InitInv == Init => IInv
<1> SUFFICES ASSUME Init PROVE IInv
  OBVIOUS
<1>1. /\ log = << >> /\ placed = [t \in Tenants |-> {}] /\ dead = FALSE /\ restarts = 0
      /\ ProcessInit(seen, rev, backend, updating, tenantMap, messages,
                     clients, watchers, handoff, opened, taken, watching)
  BY DEF Init
<1>2. Len(log) = 0 /\ log \in Seq(Entries)
  BY <1>1, EmptySeq
<1>3. StoredType
  BY <1>1, <1>2, BoundAssumption DEF StoredType
<1>4. InformerType /\ ManagerType /\ StoreType
  BY <1>1, <1>2, StartType
<1>5. SeenIsOf /\ RevKnown /\ TenantMapOfInformer
  BY <1>1 DEF ProcessInit, SeenIsOf, RevKnown, TenantMapOfInformer, Managers
<1>6. OneCluster /\ StraysOnlyInSystem
  BY <1>1, <1>2 DEF OneCluster, StraysOnlyInSystem
<1>7. QED
  BY <1>3, <1>4, <1>5, <1>6, TypeParts DEF IInv

\* The invariant holds always.
LEMMA Invariant == Spec => []IInv
BY InitInv, Inductive, PTL DEF Spec

\* Type correctness
THEOREM TypeCorrect == Spec => []TypeOK
<1>1. IInv => TypeOK
  BY DEF IInv
<1>2. QED
  BY <1>1, Invariant, PTL

(***************************************************************************)
(* An entry of tenantToClusterMap is the tenant that the informer knows    *)
(* under the name, or it is left from an earlier tenant of the name, whose *)
(* deletion was taken for a duplicate because of another tenant's newer    *)
(* write.  So a single tenant's deletes, tombstones, re-creations and the  *)
(* restarts never leave one, and neither does any order of the events.     *)
(***************************************************************************)
THEOREM TenantMapIsInformers == Spec => []TenantMapOfInformer
<1>1. IInv => TenantMapOfInformer
  BY DEF IInv
<1>2. QED
  BY <1>1, Invariant, PTL

(***************************************************************************)
(* Objects of a tenant whose name was not used before are in its cluster   *)
(* or, if they were made while the map or the clients lagged, in the       *)
(* system cluster: never in a third one.                                   *)
(***************************************************************************)
THEOREM StraysAreInSystem == Spec => []StraysOnlyInSystem
<1>1. IInv => StraysOnlyInSystem
  BY DEF IInv
<1>2. QED
  BY <1>1, Invariant, PTL

-----------------------------------------------------------------------------
(* The store does not die unless there was a race.                         *)

\* A message at the end says nothing about what was gone before it.
LEMMA GoneStays ==
  ASSUME NEW q, NEW u, NEW f, NEW n \in Nat, \A i \in 1 .. n : u[i] = q[i]
  PROVE  \A c : \A i \in 1 .. n + 1 : GoneIn(q, f, c, i) => GoneIn(u, f, c, i)
<1> SUFFICES ASSUME NEW c, NEW i \in 1 .. n + 1, GoneIn(q, f, c, i) PROVE GoneIn(u, f, c, i)
  OBVIOUS
<1>1. CASE f[c] = None /\ \A k \in 1 .. i - 1 : q[k].cluster # c
  BY <1>1 DEF GoneIn
<1>2. ASSUME NEW j \in 1 .. i - 1, q[j].cluster = c, q[j].action = "DELETE",
             \A k \in j + 1 .. i - 1 : q[k].cluster # c
      PROVE  GoneIn(u, f, c, i)
  <2>1. u[j] = q[j] /\ \A k \in j + 1 .. i - 1 : u[k] = q[k]
    OBVIOUS
  <2>2. QED
    BY <1>2, <2>1 DEF GoneIn
<1>3. QED
  BY <1>1, <1>2 DEF GoneIn

\* A message of another cluster does not bring a client back, and a DELETE
\* takes it away.
LEMMA GoneOn ==
  ASSUME NEW q, NEW f, NEW c, NEW n \in Nat \ {0},
         \/ q[n].cluster # c /\ GoneIn(q, f, c, n)
         \/ q[n].cluster = c /\ q[n].action = "DELETE"
  PROVE  GoneIn(q, f, c, n + 1)
<1>1. CASE q[n].cluster = c /\ q[n].action = "DELETE"
  <2>1. n \in 1 .. (n + 1) - 1 /\ \A k \in n + 1 .. (n + 1) - 1 : q[k].cluster # c
    OBVIOUS
  <2>2. QED
    BY <1>1, <2>1 DEF GoneIn
<1>2. CASE q[n].cluster # c /\ f[c] = None /\ \A k \in 1 .. n - 1 : q[k].cluster # c
  <2>1. \A k \in 1 .. (n + 1) - 1 : q[k].cluster # c
    BY <1>2
  <2>2. QED
    BY <1>2, <2>1 DEF GoneIn
<1>3. ASSUME q[n].cluster # c, NEW j \in 1 .. n - 1, q[j].cluster = c, q[j].action = "DELETE",
             \A k \in j + 1 .. n - 1 : q[k].cluster # c
      PROVE  GoneIn(q, f, c, n + 1)
  <2>1. j \in 1 .. (n + 1) - 1 /\ \A k \in j + 1 .. (n + 1) - 1 : q[k].cluster # c
    BY <1>3
  <2>2. QED
    BY <1>3, <2>1 DEF GoneIn
<1>4. QED
  BY <1>1, <1>2, <1>3 DEF GoneIn

\* u are the messages q without the first, and g the clients f after it.
Handled(q, u, f, g, n) ==
  /\ \A i \in 1 .. n : u[i] = q[i + 1]
  /\ \A c \in Clusters \ {q[1].cluster} : g[c] = f[c]
  /\ q[1].action = "DELETE" => g[q[1].cluster] = None

\* What is gone before a message stays so when the first one is handled.
LEMMA GoneAfter ==
  ASSUME NEW q, NEW u, NEW f, NEW g, NEW n \in Nat, Handled(q, u, f, g, n),
         NEW c \in Clusters, NEW i \in 1 .. n + 1, GoneIn(q, f, c, i + 1)
  PROVE  GoneIn(u, g, c, i)
<1>1. \A k \in 1 .. i - 1 : u[k] = q[k + 1] /\ k + 1 \in 2 .. i
  BY DEF Handled
<1>2. CASE f[c] = None /\ \A k \in 1 .. i : q[k].cluster # c
  <2>1. g[c] = None
    BY <1>2 DEF Handled
  <2>2. \A k \in 1 .. i - 1 : u[k].cluster # c
    BY <1>1, <1>2
  <2>3. QED
    BY <2>1, <2>2 DEF GoneIn
<1>3. ASSUME NEW j \in 1 .. i, q[j].cluster = c, q[j].action = "DELETE",
             \A k \in j + 1 .. i : q[k].cluster # c
      PROVE  GoneIn(u, g, c, i)
  <2>1. CASE j = 1
    <3>1. g[c] = None
      BY <1>3, <2>1 DEF Handled
    <3>2. \A k \in 1 .. i - 1 : u[k].cluster # c
      BY <1>1, <1>3, <2>1
    <3>3. QED
      BY <3>1, <3>2 DEF GoneIn
  <2>2. CASE j # 1
    <3>1. j - 1 \in 1 .. i - 1 /\ u[j - 1] = q[j]
      BY <1>1, <2>2
    <3>2. \A k \in (j - 1) + 1 .. i - 1 : u[k].cluster # c
      BY <1>1, <1>3, <2>2
    <3>3. QED
      BY <1>3, <3>1, <3>2 DEF GoneIn
  <2>3. QED
    BY <2>1, <2>2
<1>4. (i + 1) - 1 = i
  OBVIOUS
<1>5. QED
  BY <1>2, <1>3, <1>4 DEF GoneIn

\* A message that is sent fits the ones before it.
LEMMA SendKeeps ==
  ASSUME messages \in Seq(Messages), AddsFit, GoneInTheEnd, NEW x \in Messages,
         messages' = Append(messages, x), UNCHANGED clients,
         x.action = "ADD" => backend[x.cluster] = None,
         \A c \in Clusters : backend'[c] = None =>
            \/ c = x.cluster /\ x.action = "DELETE"
            \/ c # x.cluster /\ backend[c] = None
  PROVE  AddsFit' /\ GoneInTheEnd'
<1> DEFINE n == Len(messages)
<1>1. /\ n \in Nat /\ Len(messages') = n + 1 /\ messages'[n + 1] = x
      /\ \A i \in 1 .. n : messages'[i] = messages[i]
  BY AppendProperties, LenProperties
<1>2. x.cluster \in Clusters
  BY DEF Messages
<1>3. \A c : \A i \in 1 .. n + 1 :
        GoneIn(messages, clients, c, i) => GoneIn(messages', clients, c, i)
  BY <1>1, GoneStays
<1>4. \A c \in Clusters : backend[c] = None => GoneIn(messages, clients, c, n + 1)
  BY DEF GoneInTheEnd, GoneBefore
<1> HIDE DEF n
<1>5. ASSUME NEW i \in 1 .. n + 1, messages'[i].action = "ADD"
      PROVE  GoneIn(messages', clients, messages'[i].cluster, i)
  <2>1. CASE i = n + 1
    BY <1>1, <1>2, <1>3, <1>4, <1>5, <2>1
  <2>2. CASE i # n + 1
    <3>1. i \in 1 .. n /\ messages'[i] = messages[i]
      BY <1>1, <2>2
    <3>2. GoneIn(messages, clients, messages[i].cluster, i)
      BY <1>5, <3>1 DEF AddsFit, GoneBefore, n
    <3>3. QED
      BY <1>3, <3>1, <3>2
  <2>3. QED
    BY <2>1, <2>2
<1>6. ASSUME NEW c \in Clusters, backend'[c] = None
      PROVE  GoneIn(messages', clients, c, (n + 1) + 1)
  <2>1. n + 1 \in Nat \ {0} /\ n + 1 \in 1 .. n + 1
    BY <1>1
  <2>2. \/ messages'[n + 1].cluster # c /\ GoneIn(messages', clients, c, n + 1)
        \/ messages'[n + 1].cluster = c /\ messages'[n + 1].action = "DELETE"
    BY <1>1, <1>3, <1>4, <1>6, <2>1
  <2>3. QED
    BY <2>1, <2>2, GoneOn
<1>7. AddsFit'
  BY <1>1, <1>5 DEF AddsFit, GoneBefore
<1>8. GoneInTheEnd'
  BY <1>1, <1>6 DEF GoneInTheEnd, GoneBefore
<1>9. QED
  BY <1>7, <1>8

\* A message that is handled leaves the ones after it fitting.
LEMMA ReceiveKeeps ==
  ASSUME messages \in Seq(Messages), AddsFit, GoneInTheEnd, NEW action, Received(action),
         UNCHANGED backend,
         \A c \in Clusters \ {messages[1].cluster} : clients'[c] = clients[c],
         action = "DELETE" => clients'[messages[1].cluster] = None
  PROVE  AddsFit' /\ GoneInTheEnd'
<1> DEFINE n == Len(messages')
<1>1. /\ n \in Nat /\ Len(messages) = n + 1 /\ messages[1].action = action
      /\ \A i \in 1 .. n : messages'[i] = messages[i + 1]
      /\ messages \in Seq(Messages)
  <2>1. /\ Len(messages) \in Nat /\ Len(messages) > 0 /\ n = Len(messages) - 1
        /\ messages[1].action = action
        /\ \A i \in 1 .. n : messages'[i] = messages[i + 1]
    BY ReceivedFacts
  <2>2. QED
    BY <2>1
<1> HIDE DEF n
<1>2. Handled(messages, messages', clients, clients', n)
  BY <1>1 DEF Handled
<1>3. \A c \in Clusters : \A i \in 1 .. n + 1 :
        GoneIn(messages, clients, c, i + 1) => GoneIn(messages', clients', c, i)
  BY <1>1, <1>2, GoneAfter
<1>4. ASSUME NEW i \in 1 .. n, messages'[i].action = "ADD"
      PROVE  GoneIn(messages', clients', messages'[i].cluster, i)
  <2>1. messages'[i] = messages[i + 1] /\ i + 1 \in 1 .. n + 1 /\ i \in 1 .. n + 1
    BY <1>1
  <2>2. messages[i + 1].cluster \in Clusters
    <3>1. messages[i + 1] \in Messages
      BY <1>1, <2>1, ElementOfSeq
    <3>2. QED
      BY <3>1 DEF Messages
  <2>3. GoneIn(messages, clients, messages[i + 1].cluster, i + 1)
    BY <1>1, <1>4, <2>1 DEF AddsFit, GoneBefore
  <2>4. QED
    BY <1>3, <2>1, <2>2, <2>3
<1>5. ASSUME NEW c \in Clusters, backend[c] = None
      PROVE  GoneIn(messages', clients', c, n + 1)
  <2>1. GoneIn(messages, clients, c, (n + 1) + 1)
    BY <1>1, <1>5 DEF GoneInTheEnd, GoneBefore
  <2>2. n + 1 \in 1 .. n + 1
    BY <1>1
  <2>3. QED
    BY <1>3, <2>1, <2>2
<1>6. AddsFit'
  BY <1>4 DEF AddsFit, GoneBefore, n
<1>7. GoneInTheEnd'
  BY <1>5 DEF GoneInTheEnd, GoneBefore, n
<1>8. QED
  BY <1>6, <1>7

\* Nothing changes for the messages if the manager only gains clusters.
LEMMA QuietKeeps ==
  ASSUME AddsFit, GoneInTheEnd, UNCHANGED <<messages, clients>>,
         \A c \in Clusters : backend'[c] = None => backend[c] = None
  PROVE  AddsFit' /\ GoneInTheEnd'
<1>1. AddsFit'
  BY DEF AddsFit, GoneBefore
<1>2. GoneInTheEnd'
  BY DEF GoneInTheEnd, GoneBefore
<1>3. QED
  BY <1>1, <1>2

\* Without a race an event of the cluster informer is never taken for a
\* duplicate, finds the cluster where an update or a delete needs it, and not
\* where an add does.
LEMMA ClusterEventOrderly ==
  ASSUME IInv, Orderly, NoRace, NEW n,
         \/ AddCluster(n) \/ UpdateCluster(n) \/ UpdateOtherId(n)
         \/ \E v : DeleteCluster(n, v)
  PROVE  Orderly'
<1> DEFINE m == "cluster"
           o == log[n].id
<1>0. /\ TypeOK /\ SeenIsOf /\ m \in Managers /\ Ids(m) = ClusterObjects
      /\ ~dead /\ BackendOfInformer /\ AddsFit /\ GoneInTheEnd
      /\ backend \in [Clusters -> Addresses \cup {None}] /\ messages \in Seq(Messages)
      /\ log \in Seq(Entries)
  BY DEF IInv, Managers, Ids, Orderly, TypeOK, Messages, Entries
<1>1. UNCHANGED <<log, clients>> /\ Event(m, n)
  BY DEF AddCluster, UpdateCluster, UpdateOtherId, DeleteCluster, Adds, Updates, Deletes, storeVars
<1>2. /\ n \in 1 .. Len(log) /\ Len(log) \in Nat /\ o \in ClusterObjects /\ log[n] \in Entries
      /\ n > seen[o] /\ seen \in [Objects -> 0 .. Len(log)]
      /\ seen'[o] = n /\ \A x \in Objects \ {o} : seen'[x] = seen[x]
  BY <1>0, <1>1, EventFacts
<1>3. log[n].cluster \in Clusters \cup {None}
      /\ (log[n].cluster # None => log[n].address \in Addresses)
  BY <1>2, EntryFacts
<1>4. ASSUME NEW x \in ClusterObjects, Known(x)
      PROVE  /\ seen[x] \in 1 .. Len(log) /\ log[seen[x]].id = x
             /\ log[seen[x]].cluster \in Clusters
  <2>1. seen[x] \in 1 .. Len(log) /\ x \in Objects /\ log[seen[x]].cluster # None
    BY <1>2, <1>4 DEF Known, Objects
  <2>2. log[seen[x]] \in Entries
    BY <1>0, <2>1, ElementOfSeq
  <2>3. QED
    BY <1>0, <2>1, <2>2, EntryFacts DEF SeenIsOf
<1>5. \A c \in Clusters : backend[c] # None <=>
        \E x \in ClusterObjects : Known(x) /\ log[seen[x]].cluster = c
  BY <1>0 DEF BackendOfInformer
<1>6. ASSUME NEW x \in ClusterObjects, Known(x), log[n].cluster # None
      PROVE  x = o <=> log[seen[x]].cluster = log[n].cluster
  <2>1. log[seen[x]].id = x /\ seen[x] \in 1 .. Len(log) /\ log[seen[x]].cluster # None
    BY <1>4, <1>6 DEF Known
  <2>2. QED
    BY <1>2, <1>6, <2>1 DEF NoRace, Regular
<1>7. ASSUME NEW x \in ClusterObjects, Known(x), Known(o),
             log[seen[x]].cluster = log[seen[o]].cluster
      PROVE  x = o
  <2>1. /\ log[seen[x]].id = x /\ seen[x] \in 1 .. Len(log) /\ log[seen[x]].cluster # None
        /\ log[seen[o]].id = o /\ seen[o] \in 1 .. Len(log) /\ log[seen[o]].cluster # None
    BY <1>2, <1>4, <1>7 DEF Known
  <2>2. QED
    BY <1>2, <1>7, <2>1 DEF NoRace, Regular
<1>8. \A x \in ClusterObjects : x # o => (Known(x)' <=> Known(x)) /\ seen'[x] = seen[x]
  BY <1>1, <1>2 DEF Known, Objects
<1>9. Known(o)' <=> log[n].cluster # None
  BY <1>1, <1>2 DEF Known
<1>10. ASSUME \A c \in Clusters : backend'[c] # None <=>
                \E x \in ClusterObjects :
                  \/ x # o /\ Known(x) /\ log[seen[x]].cluster = c
                  \/ x = o /\ log[n].cluster # None /\ log[n].cluster = c
       PROVE  BackendOfInformer'
  <2> SUFFICES ASSUME NEW c \in Clusters
               PROVE  backend'[c] # None <=>
                        \E x \in ClusterObjects : Known(x)' /\ log[seen'[x]].cluster = c
    BY <1>1 DEF BackendOfInformer
  <2>1. \A x \in ClusterObjects :
          Known(x)' /\ log[seen'[x]].cluster = c <=>
            \/ x # o /\ Known(x) /\ log[seen[x]].cluster = c
            \/ x = o /\ log[n].cluster # None /\ log[n].cluster = c
    <3> SUFFICES ASSUME NEW x \in ClusterObjects
                 PROVE  Known(x)' /\ log[seen'[x]].cluster = c <=>
                          \/ x # o /\ Known(x) /\ log[seen[x]].cluster = c
                          \/ x = o /\ log[n].cluster # None /\ log[n].cluster = c
      OBVIOUS
    <3>1. CASE x # o
      BY <1>8, <3>1
    <3>2. CASE x = o
      <4>1. Known(x)' <=> seen'[x] # 0 /\ log[seen'[x]].cluster # None
        BY <1>1 DEF Known
      <4>2. seen'[x] = n /\ n # 0
        BY <1>2, <3>2
      <4>3. QED
        BY <3>2, <4>1, <4>2
    <3>3. QED
      BY <3>1, <3>2
  <2>2. QED
    BY <1>10, <2>1
<1> HIDE DEF o
<1>11. CASE AddCluster(n)
  <2> DEFINE c == log[n].cluster
             a == log[n].address
  <2>1. ~Known(o) /\ c # None /\ UNCHANGED dead /\ Adds(m, n)
    BY <1>11 DEF AddCluster, Adds, o
  <2>2. c \in Clusters /\ a \in Addresses
    BY <1>3, <2>1
  <2>3. backend[c] = None
    BY <1>5, <1>6, <2>1, <2>2
  <2>4. ~(rev[m] > n)
    <3>1. ~(n < rev[m])
      BY <1>0, <1>2, <2>1 DEF NoRace, OutOfOrder, o
    <3>2. QED
      BY <3>1
  <2>5. ~log[n].deleting
    BY <1>2, <2>1 DEF NoRace, Regular, o
  <2>6. /\ backend' = [backend EXCEPT ![c] = a]
        /\ messages' = Append(messages, Action("ADD", c, a))
    BY <1>11, <2>3, <2>4, <2>5 DEF AddCluster
  <2>7. backend'[c] = a /\ \A d \in Clusters \ {c} : backend'[d] = backend[d]
    BY <1>0, <2>2, <2>6
  <2>8. BackendOfInformer'
    <3> SUFFICES ASSUME NEW d \in Clusters
                 PROVE  backend'[d] # None <=>
                          \E x \in ClusterObjects :
                            \/ x # o /\ Known(x) /\ log[seen[x]].cluster = d
                            \/ x = o /\ c # None /\ c = d
      BY <1>10
    <3>1. CASE d = c
      <4>1. backend'[d] # None
        BY <2>2, <2>7, <3>1, IdAssumption
      <4>2. QED
        BY <1>2, <2>1, <3>1, <4>1
    <3>2. CASE d # c
      BY <1>5, <2>1, <2>7, <3>2
    <3>3. QED
      BY <3>1, <3>2
  <2> DEFINE y == Action("ADD", c, a)
  <2>9. y \in Messages /\ y.action = "ADD" /\ y.cluster = c
    BY <2>2 DEF Action, Messages
  <2>10. messages' = Append(messages, y) /\ backend'[c] # None
    BY <2>2, <2>6, <2>7, IdAssumption
  <2> HIDE DEF y, c
  <2>11. AddsFit' /\ GoneInTheEnd'
    BY <1>0, <1>1, <2>3, <2>7, <2>9, <2>10, SendKeeps
  <2>12. QED
    BY <1>0, <2>1, <2>8, <2>11 DEF Orderly
<1>12. CASE UpdateCluster(n)
  <2> DEFINE c == log[n].cluster
             a == log[n].address
  <2>1. /\ Known(o) /\ c # None /\ log[seen[o]].cluster = c
        /\ backend' = [backend EXCEPT ![c] = a] /\ UNCHANGED messages
    BY <1>12 DEF UpdateCluster, Updates, o
  <2>2. c \in Clusters /\ a \in Addresses
    BY <1>3, <2>1
  <2>3. backend[c] # None
    BY <1>2, <1>5, <2>1, <2>2
  <2>4. UNCHANGED dead
    BY <1>12, <2>3 DEF UpdateCluster
  <2>5. backend'[c] # None /\ \A d \in Clusters \ {c} : backend'[d] = backend[d]
    BY <1>0, <2>1, <2>2, IdAssumption
  <2>6. BackendOfInformer'
    <3> SUFFICES ASSUME NEW d \in Clusters
                 PROVE  backend'[d] # None <=>
                          \E x \in ClusterObjects :
                            \/ x # o /\ Known(x) /\ log[seen[x]].cluster = d
                            \/ x = o /\ c # None /\ c = d
      BY <1>10
    <3>1. CASE d = c
      BY <1>2, <2>1, <2>5, <3>1
    <3>2. CASE d # c
      BY <1>5, <2>1, <2>5, <3>2
    <3>3. QED
      BY <3>1, <3>2
  <2> HIDE DEF c
  <2>7. AddsFit' /\ GoneInTheEnd'
    BY <1>0, <1>1, <2>1, <2>5, QuietKeeps
  <2>8. QED
    BY <1>0, <2>4, <2>6, <2>7 DEF Orderly
<1>13. CASE UpdateOtherId(n)
  <2>1. Known(o) /\ log[n].cluster # None /\ log[seen[o]].cluster # log[n].cluster
    BY <1>13 DEF UpdateOtherId, Updates, o
  <2>2. QED
    BY <1>2, <1>6, <2>1
<1>14. ASSUME NEW v, DeleteCluster(n, v) PROVE Orderly'
  <2> DEFINE c == log[seen[o]].cluster
  <2>1. Known(o) /\ log[n].cluster = None /\ UNCHANGED dead
    BY <1>14 DEF DeleteCluster, Deletes, o
  <2>2. c \in Clusters
    BY <1>2, <1>4, <2>1
  <2>3. backend[c] # None
    BY <1>2, <1>5, <2>1, <2>2
  <2>4. /\ backend' = [backend EXCEPT ![c] = None]
        /\ messages' = Append(messages, Action("DELETE", c, backend[c]))
    BY <1>14, <2>3 DEF DeleteCluster, o
  <2>5. backend'[c] = None /\ \A d \in Clusters \ {c} : backend'[d] = backend[d]
    BY <1>0, <2>2, <2>4
  <2>6. BackendOfInformer'
    <3> SUFFICES ASSUME NEW d \in Clusters
                 PROVE  backend'[d] # None <=>
                          \E x \in ClusterObjects : x # o /\ Known(x) /\ log[seen[x]].cluster = d
      BY <1>10, <2>1
    <3>1. CASE d = c
      BY <1>7, <2>1, <2>5, <3>1
    <3>2. CASE d # c
      BY <1>5, <2>1, <2>5, <3>2
    <3>3. QED
      BY <3>1, <3>2
  <2> DEFINE y == Action("DELETE", c, backend[c])
  <2>7. y \in Messages /\ y.action = "DELETE" /\ y.cluster = c
    BY <1>0, <2>2, <2>3 DEF Action, Messages
  <2>8. messages' = Append(messages, y)
    BY <2>4
  <2> HIDE DEF y, c
  <2>9. AddsFit' /\ GoneInTheEnd'
    BY <1>0, <1>1, <2>5, <2>7, <2>8, SendKeeps
  <2>10. QED
    BY <1>0, <2>1, <2>6, <2>9 DEF Orderly
<1>15. QED
  BY <1>11, <1>12, <1>13, <1>14

\* The store dies of no message, and keeps the others in order.
LEMMA StoreOrderly ==
  ASSUME TypeOK, Orderly, ReceiveAdd \/ ReceiveUpdate \/ ReceiveDelete
  PROVE  ~dead' /\ AddsFit' /\ GoneInTheEnd'
<1> DEFINE c == messages[1].cluster
<1>0. /\ ~dead /\ AddsFit /\ GoneInTheEnd /\ messages \in Seq(Messages)
      /\ clients \in [Clusters -> Addresses \cup {None}]
  BY DEF Orderly, TypeOK, Messages
<1>1. UNCHANGED backend /\ \E action : Received(action)
  BY DEF ReceiveAdd, ReceiveUpdate, ReceiveDelete, managerVars
<1>2. /\ c \in Clusters /\ Head(messages) = messages[1] /\ 1 \in 1 .. Len(messages)
  BY <1>0, <1>1, ReceivedFacts
<1>3. ASSUME NEW address, clients[c] = None, AddDataClient(c, address)
      PROVE  ~dead' /\ \A id \in Clusters \ {c} : clients'[id] = clients[id]
  BY <1>0, <1>3 DEF AddDataClient
<1>4. CASE ReceiveAdd
  <2>1. Received("ADD")
    BY <1>4 DEF ReceiveAdd
  <2>2. messages[1].action = "ADD"
    BY <1>0, <2>1, ReceivedFacts
  <2>3. GoneIn(messages, clients, c, 1)
    BY <1>0, <1>2, <2>2 DEF AddsFit, GoneBefore
  <2>4. clients[c] = None
    BY <2>3 DEF GoneIn
  <2>5. ~dead' /\ \A id \in Clusters \ {c} : clients'[id] = clients[id]
    BY <1>0, <1>2, <1>3, <1>4, <2>4 DEF ReceiveAdd
  <2>6. QED
    BY <1>0, <1>1, <2>1, <2>5, ReceiveKeeps
<1>5. CASE ReceiveUpdate
  <2>1. Received("UPDATE")
    BY <1>5 DEF ReceiveUpdate
  <2>2. CASE clients[c] = None
    <3>1. AddDataClient(c, messages[1].address)
      BY <1>2, <1>5, <2>2 DEF ReceiveUpdate
    <3>2. ~dead' /\ \A id \in Clusters \ {c} : clients'[id] = clients[id]
      BY <1>3, <2>2, <3>1
    <3>3. QED
      BY <1>0, <1>1, <2>1, <3>2, ReceiveKeeps
  <2>3. CASE clients[c] # None
    <3>1. UNCHANGED dead /\ \A id \in Clusters \ {c} : clients'[id] = clients[id]
      BY <1>0, <1>2, <1>5, <2>3 DEF ReceiveUpdate
    <3>2. QED
      BY <1>0, <1>1, <2>1, <3>1, ReceiveKeeps
  <2>4. QED
    BY <2>2, <2>3
<1>6. CASE ReceiveDelete
  <2>1. Received("DELETE") /\ UNCHANGED dead
    BY <1>6 DEF ReceiveDelete
  <2>2. clients'[c] = None /\ \A id \in Clusters \ {c} : clients'[id] = clients[id]
    BY <1>0, <1>2, <1>6 DEF ReceiveDelete
  <2>3. QED
    BY <1>0, <1>1, <2>1, <2>2, ReceiveKeeps
<1>7. QED
  BY <1>4, <1>5, <1>6

\* As long as there is no race every step keeps the store alive.
LEMMA OrderlyStep ==
  ASSUME IInv, Orderly, NoRace, [Next]_vars
  PROVE  Orderly'
<1> USE DEF managerVars, storeVars
<1>0. /\ TypeOK /\ SeenIsOf /\ ~dead /\ BackendOfInformer /\ AddsFit /\ GoneInTheEnd
  BY DEF IInv, Orderly
<1>1. UNCHANGED <<log, backend>> /\ (\A o \in ClusterObjects : seen'[o] = seen[o])
        => BackendOfInformer'
  BY <1>0 DEF BackendOfInformer, Known
<1>2. UNCHANGED <<messages, clients, backend>> => AddsFit' /\ GoneInTheEnd'
  BY <1>0, QuietKeeps
<1>3. ASSUME NEW e \in Entries, Writes(e) PROVE Orderly'
  <2>1. seen \in [Objects -> 0 .. Len(log)] /\ log \in Seq(Entries)
    BY <1>0 DEF TypeOK, Entries
  <2>2. Len(log) \in Nat /\ \A i \in 1 .. Len(log) : log'[i] = log[i]
    BY <1>3, <2>1, WriteFacts DEF Writes
  <2>3. \A o \in ClusterObjects : seen[o] # 0 => log'[seen[o]] = log[seen[o]]
    BY <2>1, <2>2 DEF Objects
  <2>4. \A o \in ClusterObjects : Known(o)' <=> Known(o)
    BY <1>3, <2>3 DEF Writes, Known
  <2>5. \A o \in ClusterObjects : Known(o) => log'[seen'[o]].cluster = log[seen[o]].cluster
    BY <1>3, <2>3 DEF Writes, Known
  <2>6. \A c : (\E o \in ClusterObjects : Known(o) /\ log[seen[o]].cluster = c)
                <=> \E o \in ClusterObjects : Known(o)' /\ log'[seen'[o]].cluster = c
    BY <1>3, <2>4, <2>5 DEF Writes
  <2>7. BackendOfInformer'
    BY <1>0, <1>3, <2>6 DEF Writes, BackendOfInformer
  <2>8. QED
    BY <1>0, <1>2, <1>3, <2>7 DEF Writes, Orderly
<1>4. ASSUME NEW n, AddTenant(n) \/ UpdateTenant(n) \/ \E v : DeleteTenant(n, v) PROVE Orderly'
  <2>1. Event("tenant", n) /\ UNCHANGED <<log, messages, clients, backend, dead>>
    BY <1>4 DEF AddTenant, UpdateTenant, DeleteTenant, Adds, Updates, Deletes
  <2>2. log[n].id \in Tenants /\ \A o \in Objects \ {log[n].id} : seen'[o] = seen[o]
    BY <1>0, <2>1, EventFacts DEF Managers, Ids
  <2>3. \A o \in ClusterObjects : seen'[o] = seen[o]
    BY <2>2, IdAssumption DEF Objects
  <2>4. QED
    BY <1>0, <1>1, <1>2, <2>1, <2>3 DEF Orderly
<1>5. ASSUME NEW g \in updating, ReadAddress(g) PROVE Orderly'
  <2>1. backend[g.cluster] # None
    BY DEF NoRace, Overtaken
  <2>2. UNCHANGED <<log, seen, backend, messages, clients, dead>>
    BY <1>5, <2>1 DEF ReadAddress
  <2>3. QED
    BY <1>0, <1>1, <1>2, <2>2 DEF Orderly
<1>6. ASSUME NEW g \in updating, SendUpdate(g) PROVE Orderly'
  <2>1. backend[g.cluster] # None
    BY DEF NoRace, Overtaken
  <2> DEFINE x == Action("UPDATE", g.cluster, g.address)
  <2>2. /\ UNCHANGED <<log, seen, backend, clients, dead>>
        /\ messages' = Append(messages, x) /\ g.address # None
    BY <1>6 DEF SendUpdate
  <2>3. x \in Messages /\ x.action = "UPDATE" /\ x.cluster = g.cluster
    BY <1>0, <2>2 DEF TypeOK, Action, Messages
  <2> HIDE DEF x
  <2>4. messages \in Seq(Messages)
    BY <1>0 DEF TypeOK, Messages
  <2>5. AddsFit' /\ GoneInTheEnd'
    BY <1>0, <2>1, <2>2, <2>3, <2>4, SendKeeps
  <2>6. QED
    BY <1>0, <1>1, <2>2, <2>5 DEF Orderly
<1>7. CASE ReceiveAdd \/ ReceiveUpdate \/ ReceiveDelete
  <2>1. UNCHANGED <<log, seen, backend>>
    BY <1>7 DEF ReceiveAdd, ReceiveUpdate, ReceiveDelete
  <2>2. QED
    BY <1>0, <1>1, <1>7, <2>1, StoreOrderly DEF Orderly
<1>8. ASSUME \/ \E t \in Tenants : CreateObject(t)
             \/ \E w \in Watches : OpenWatch(w) \/ ReceiveCluster(w) \/ AddToWatch(w)
             \/ UNCHANGED vars
      PROVE  Orderly'
  <2>1. UNCHANGED <<log, seen, backend, messages, clients, dead>>
    BY <1>8 DEF CreateObject, OpenWatch, ReceiveCluster, AddToWatch, vars
  <2>2. QED
    BY <1>0, <1>1, <1>2, <2>1 DEF Orderly
<1>9. CASE Restart
  <2>1. /\ seen' = [i \in Objects |-> 0]
        /\ backend' = [i \in Clusters |-> None] /\ clients' = [i \in Clusters |-> None]
        /\ messages' = << >> /\ dead' = FALSE
    BY <1>9 DEF Restart, ProcessInit
  <2>2. BackendOfInformer'
    BY <2>1 DEF BackendOfInformer, Known, Objects
  <2>3. AddsFit' /\ GoneInTheEnd'
    BY <2>1 DEF AddsFit, GoneInTheEnd, GoneBefore, GoneIn
  <2>4. QED
    BY <2>1, <2>2, <2>3 DEF Orderly
<1>10. QED
  BY <1>0, <1>3, <1>4, <1>5, <1>6, <1>7, <1>8, <1>9, ClusterEventOrderly, NextCases

\* A process starts in order.
LEMMA InitOrderly == Init => Orderly
<1> SUFFICES ASSUME Init PROVE Orderly
  OBVIOUS
<1>1. /\ seen = [i \in Objects |-> 0] /\ backend = [i \in Clusters |-> None]
      /\ clients = [i \in Clusters |-> None] /\ messages = << >> /\ dead = FALSE
  BY DEF Init, ProcessInit
<1>2. BackendOfInformer
  BY <1>1 DEF BackendOfInformer, Known, Objects
<1>3. AddsFit /\ GoneInTheEnd
  BY <1>1 DEF AddsFit, GoneInTheEnd, GoneBefore, GoneIn
<1>4. QED
  BY <1>1, <1>2, <1>3 DEF Orderly

(***************************************************************************)
(* The fatal errors of the store and of updateBackendStorageConfig need    *)
(* the goroutine of an address change to be overtaken, the events of two   *)
(* storage cluster objects to come out of the order of their versions, or  *)
(* objects that share a storage cluster id, take another or terminate: in  *)
(* every behaviour without these, through any writes, deletes, tombstones  *)
(* and restarts, the API server never ends by them.                        *)
(***************************************************************************)
THEOREM DeathNeedsRace == Spec => DiesOnlyInRace
<1>1. Orderly => ~dead
  BY DEF Orderly
<1>2. IInv /\ Orderly /\ NoRace /\ [Next]_vars => Orderly'
  BY OrderlyStep
<1>3. DiesOnlyInRace <=> ([]NoRace => []~dead)
  BY PTL DEF DiesOnlyInRace, NoRace
<1>4. QED
  BY <1>1, <1>2, <1>3, Invariant, InitOrderly, PTL DEF Spec

=============================================================================
