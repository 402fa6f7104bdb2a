------------------------- MODULE PartitionedWatch -------------------------
(***************************************************************************)
(* How the watches an API server keeps on its storage follow the data      *)
(* partition of its service group.                                         *)
(*                                                                         *)
(*   apiserver/pkg/storage/datapartition/datapartitionmanager.go           *)
(*   apiserver/pkg/storage/etcd3/watcher.go                                *)
(*                                                                         *)
(* The manager announces every new range from a goroutine of its own; the  *)
(* store's watcher is one member of the broadcast group, and all its       *)
(* watches read the messages of that one member.  The watch that gets the  *)
(* message stops its watch channels, stores the range, and opens channels  *)
(* for it from the revision the watch was asked for; a watch asked for at  *)
(* revision 0 reads what exists and goes on from there, every time.        *)
(*                                                                         *)
(* The keys of a resource are grouped by tenant, so a key is the position  *)
(* of its tenant in key order, with one object per tenant, and an event is *)
(* the put or the deletion of a tenant's object.  The revision of an event *)
(* is its place in the log of etcd (external).                             *)
(***************************************************************************)
EXTENDS Naturals, Sequences, FiniteSets

CONSTANTS
  MaxTenant,      \* tenants are 1 .. MaxTenant, in key order
  SystemTenant,   \* watched by every API server
  Objects,        \* names of data partition objects
  Intervals,      \* ranges a data partition may name: <<begin, end>>, 0 is open
  Other,          \* the object belongs to another service group
  Deleted,        \* there is no object
  FileInterval,   \* the range in the partition config file
  Watches,        \* watches opened on the store, each with its own run goroutine
  MaxVersions,    \* bound on versions of the data partition
  MaxEvents,      \* bound on events of the resource
  MaxChanges,     \* bound on both together
  MaxCompactions  \* bound on compactions of etcd

ASSUME TenantAssumption == MaxTenant \in Nat /\ SystemTenant \in 1 .. MaxTenant
ASSUME IntervalAssumption ==
  /\ Intervals \subseteq (0 .. MaxTenant + 1) \X (0 .. MaxTenant + 1)
  /\ FileInterval \in (0 .. MaxTenant + 1) \X (0 .. MaxTenant + 1)
ASSUME VersionAssumption ==
  Other \notin Intervals /\ Deleted \notin Intervals /\ Other # Deleted
ASSUME BoundAssumption ==
  /\ MaxVersions \in Nat /\ MaxEvents \in Nat /\ MaxChanges \in Nat
  /\ MaxCompactions \in Nat

VARIABLES
  hist,            \* versions of the data partition objects, oldest first
  seen,            \* the last version the informer took in of each object
  initialized,     \* DataPartitionConfigManager.isDataPartitionInitialized
  config,          \* DataPartitionConfigManager.DataPartitionConfig, its range
  dead,            \* klog.Fatalf ended the API server
  sending,         \* versions whose goroutine has still to call updateChGrp.Send
  messages,        \* messages waiting for the member updatePartitionCh
  partitionConfig, \* watcher.partitionConfig, the range of the watched key
  log,             \* events in etcd: the tenant of each, and if it is a deletion
  compacted,       \* etcd forgot the revisions up to this one
  compactions,
  run,             \* what the run goroutine of each watch is doing
  message,         \* the range it took from its message
  rev,             \* the revision the watch was asked for
  stopped,         \* AggregatedWatcher.stopped: its reader left
  chans,           \* watch channels it opened and did not stop
  draining,        \* stopped ones whose result buffer may not be empty yet
  got              \* revisions handed to the reader of the watch

managerVars == <<seen, initialized, config, dead>>
etcdVars == <<log, compacted, compactions>>
watchVars == <<run, message, rev, stopped, chans, draining, got>>
vars == <<hist, seen, initialized, config, dead, sending, messages, partitionConfig,
          log, compacted, compactions, run, message, rev, stopped, chans, draining, got>>

Tenants == 1 .. MaxTenant

-----------------------------------------------------------------------------
(* The ranges of keys to watch.                                            *)

\* A key range <<begin, end>> holds the tenants from begin up to and without
\* end.  The key of the resource itself is 0, the end of its prefix is
\* MaxTenant + 1.  A closed interval that begins where it ends gives no range.
KeyRanges(interval) ==
  LET begin == interval[1]
      end == IF interval[2] > 0 THEN interval[2]
             ELSE IF begin > 0 THEN MaxTenant + 1 ELSE 0
  IN IF begin # end
     THEN {<<begin, end>>} \cup
          (IF SystemTenant < begin \/ SystemTenant >= end
           THEN {<<SystemTenant, SystemTenant + 1>>} ELSE {})
     ELSE IF begin = 0 THEN {<<0, MaxTenant + 1>>} ELSE {}

TenantsIn(range) == {t \in Tenants : range[1] <= t /\ t < range[2]}

Watched(ranges) == UNION {TenantsIn(r) : r \in ranges}

\* What a data partition names: "Range start is inclusive", "Range end is
\* exclusive", an end that is not valid is open; and the system tenant.
Partition(interval) ==
  {t \in Tenants : /\ interval[1] = 0 \/ interval[1] <= t
                   /\ interval[2] = 0 \/ t < interval[2]} \cup {SystemTenant}

-----------------------------------------------------------------------------
\* syncDataPartition runs before the informer and finds nothing.  Revision 1
\* of etcd is its own, of no key.
Init ==
  /\ hist = << >> /\ seen = [o \in Objects |-> 0]
  /\ initialized = FALSE /\ config = FileInterval /\ dead = FALSE
  /\ sending = {} /\ messages = << >>
  /\ partitionConfig = FileInterval
  /\ log = <<[tenant |-> 0, deleted |-> FALSE]>> /\ compacted = 0 /\ compactions = 0
  /\ run = [w \in Watches |-> "none"]
  /\ message = [w \in Watches |-> FileInterval]
  /\ rev = [w \in Watches |-> 0]
  /\ stopped = [w \in Watches |-> FALSE]
  /\ chans = [w \in Watches |-> {}]
  /\ draining = [w \in Watches |-> {}]
  /\ got = [w \in Watches |-> {}]

-----------------------------------------------------------------------------
(* The outside: the administrator, the resource, etcd's compaction.        *)

\* The versions an object may have.  `deleting' is a deletion timestamp: it
\* comes with an update, and stays until the object is gone.
Values == Intervals \cup {Other, Deleted}

Versions == [object : Objects, value : Values, deleting : BOOLEAN]

Gone(o) == [object |-> o, value |-> Deleted, deleting |-> FALSE]

Latest(o) ==
  LET of == {n \in 1 .. Len(hist) : hist[n].object = o}
  IN IF of = {} THEN Gone(o) ELSE hist[CHOOSE n \in of : \A k \in of : k <= n]

\* Nothing keeps two objects from naming the same service group.
WriteDataPartition ==
  /\ Len(hist) < MaxVersions /\ Len(hist) + Len(log) <= MaxChanges
  /\ \E v \in Versions :
       /\ v # Latest(v.object)
       /\ IF v.value = Deleted THEN ~v.deleting
          ELSE IF Latest(v.object).value = Deleted THEN ~v.deleting
          ELSE Latest(v.object).deleting => v.deleting
       /\ hist' = Append(hist, v)
  /\ UNCHANGED <<managerVars, sending, messages, partitionConfig, etcdVars, watchVars>>

\* The objects at revision m, each by the revision of its last put
Existing(m) ==
  {n \in 1 .. m : /\ log[n].tenant \in Tenants /\ ~log[n].deleted
                  /\ \A k \in n + 1 .. m : log[k].tenant # log[n].tenant}

WriteResource ==
  /\ Len(log) <= MaxEvents /\ Len(hist) + Len(log) <= MaxChanges
  /\ \E t \in Tenants, d \in BOOLEAN :
       /\ d => \E n \in Existing(Len(log)) : log[n].tenant = t
       /\ log' = Append(log, [tenant |-> t, deleted |-> d])
  /\ UNCHANGED <<hist, managerVars, sending, messages, partitionConfig,
                 compacted, compactions, watchVars>>

Compact ==
  /\ compactions < MaxCompactions /\ compacted < Len(log)
  /\ compacted' = Len(log)
  /\ compactions' = compactions + 1
  /\ UNCHANGED <<hist, managerVars, sending, messages, partitionConfig, log, watchVars>>

-----------------------------------------------------------------------------
(* DataPartitionConfigManager.                                             *)

\* The informer reports the versions of one object in order, and may leave
\* some out when it lists again; between objects it promises no order.
Known(o) == seen[o] # 0 /\ hist[seen[o]].value # Deleted

Event(n) ==
  /\ ~dead /\ n \in 1 .. Len(hist)
  /\ n > seen[hist[n].object]
  /\ seen' = [seen EXCEPT ![hist[n].object] = n]

\* An object that is being deleted is passed over.  A second add for the group
\* is fatal: the version differs.
AddDataPartition(n) ==
  /\ Event(n) /\ ~Known(hist[n].object) /\ hist[n].value # Deleted
  /\ IF hist[n].deleting \/ hist[n].value = Other
     THEN UNCHANGED <<initialized, config, dead, sending>>
     ELSE IF initialized
     THEN dead' = TRUE /\ UNCHANGED <<initialized, config, sending>>
     ELSE /\ sending' = sending \cup {n}
          /\ config' = hist[n].value /\ initialized' = TRUE /\ UNCHANGED dead
  /\ UNCHANGED <<hist, messages, partitionConfig, etcdVars, watchVars>>

\* A bug: the range is stored and not announced.
UpdateQuietly(n) ==
  /\ Event(n) /\ Known(hist[n].object) /\ hist[n].value # Deleted
  /\ IF hist[n].value = Other THEN UNCHANGED <<initialized, config>>
     ELSE config' = hist[n].value /\ initialized' = TRUE
  /\ UNCHANGED <<hist, dead, sending, messages, partitionConfig, etcdVars, watchVars>>

\* A bug: an update is taken for a second data partition.
UpdateLikeAdd(n) ==
  /\ Event(n) /\ Known(hist[n].object) /\ hist[n].value # Deleted
  /\ IF hist[n].value = Other
     THEN UNCHANGED <<initialized, config, dead, sending>>
     ELSE IF initialized
     THEN dead' = TRUE /\ UNCHANGED <<initialized, config, sending>>
     ELSE config' = hist[n].value /\ initialized' = TRUE /\ UNCHANGED <<dead, sending>>
  /\ UNCHANGED <<hist, messages, partitionConfig, etcdVars, watchVars>>

\* Announced if it changes a range in force.  (The events of an informer
\* carry growing versions, so the test for a stale one never succeeds.)
UpdateDataPartition(n) ==
  /\ Event(n) /\ Known(hist[n].object) /\ hist[n].value # Deleted
  /\ IF hist[n].value = Other
     THEN UNCHANGED <<initialized, config, sending>>
     ELSE /\ sending' = IF initialized /\ config # hist[n].value
                        THEN sending \cup {n} ELSE sending
          /\ config' = hist[n].value /\ initialized' = TRUE
  /\ UNCHANGED <<hist, dead, messages, partitionConfig, etcdVars, watchVars>>

\* Only logged
DeleteDataPartition(n) ==
  /\ Event(n) /\ Known(hist[n].object) /\ hist[n].value = Deleted
  /\ UNCHANGED <<hist, initialized, config, dead, sending, messages, partitionConfig,
                 etcdVars, watchVars>>

\* The goroutine of notifyDataPartitionChanges
SendDataPartition(n) ==
  /\ n \in sending /\ ~dead
  /\ sending' = sending \ {n}
  /\ messages' = Append(messages, hist[n].value)
  /\ UNCHANGED <<hist, managerVars, partitionConfig, etcdVars, watchVars>>

-----------------------------------------------------------------------------
(* watcher.                                                                *)

\* Watch, at the revision of a list of the whole resource or at 0
OpenWatch(w) ==
  /\ ~dead /\ run[w] = "none"
  /\ run' = [run EXCEPT ![w] = "open"]
  /\ \E n \in {0, Len(log)} : rev' = [rev EXCEPT ![w] = n]
  /\ UNCHANGED <<hist, managerVars, sending, messages, partitionConfig, etcdVars,
                 message, stopped, chans, draining, got>>

\* A bug: the first event after the revision is left out.
ChanAfter(range, n) ==
  [range |-> range, from |-> n, next |-> n + 2, todo |-> {}, registered |-> FALSE]

\* A watch channel for a key range: initialRev, the next revision it will look
\* at, the objects of sync it has still to hand out, and whether etcd has
\* answered yet
Chan(range, n) ==
  [range |-> range, from |-> n, next |-> n + 1, todo |-> {}, registered |-> FALSE]

\* A bug: after a reset the channels go on with what is new.
OpenChansNow(w) ==
  /\ ~dead /\ run[w] = "open"
  /\ run' = [run EXCEPT ![w] = "read"]
  /\ chans' = [chans EXCEPT ![w] =
       IF stopped[w] THEN @
       ELSE {Chan(r, Len(log)) : r \in KeyRanges(partitionConfig)}]
  /\ UNCHANGED <<hist, managerVars, sending, messages, partitionConfig, etcdVars,
                 message, rev, stopped, draining, got>>

\* The head of run's loop.  Channels that are added to a stopped aggregated
\* watcher have no reader.
OpenChans(w) ==
  /\ ~dead /\ run[w] = "open"
  /\ run' = [run EXCEPT ![w] = "read"]
  /\ chans' = [chans EXCEPT ![w] =
       IF stopped[w] THEN @
       ELSE {Chan(r, rev[w]) : r \in KeyRanges(partitionConfig)}]
  /\ UNCHANGED <<hist, managerVars, sending, messages, partitionConfig, etcdVars,
                 message, rev, stopped, draining, got>>

\* What a channel that is stopped may still hand out: a channel that etcd has
\* not answered has at most what sync found
Leftover(c) ==
  [range |-> c.range, next |-> c.next, todo |-> c.todo,
   last |-> IF c.registered THEN Len(log) ELSE c.next - 1]

\* ... and whether that is nothing
Empty(c) == c.todo = {} /\ \A n \in c.next .. c.last : log[n].tenant \notin TenantsIn(c.range)

\* run takes a message, whether or not its watch was stopped, and stops its
\* channels.  What they had buffered for the reader is still read.
ReadMessage(w) ==
  /\ ~dead /\ run[w] = "read" /\ messages # << >>
  /\ run' = [run EXCEPT ![w] = "update"]
  /\ message' = [message EXCEPT ![w] = Head(messages)]
  /\ messages' = Tail(messages)
  /\ draining' = [draining EXCEPT ![w] =
       @ \cup {c \in {Leftover(d) : d \in chans[w]} : ~Empty(c)}]
  /\ chans' = [chans EXCEPT ![w] = {}]
  /\ UNCHANGED <<hist, managerVars, sending, partitionConfig, etcdVars, rev, stopped, got>>

UpdatePartitionConfig(w) ==
  /\ ~dead /\ run[w] = "update"
  /\ run' = [run EXCEPT ![w] = "open"]
  /\ partitionConfig' = message[w]
  /\ UNCHANGED <<hist, managerVars, sending, messages, etcdVars,
                 message, rev, stopped, chans, draining, got>>

\* AggregatedWatcher.Stop by the reader of the watch; run does not notice
StopWatch(w) ==
  /\ ~dead /\ run[w] # "none" /\ ~stopped[w]
  /\ stopped' = [stopped EXCEPT ![w] = TRUE]
  /\ chans' = [chans EXCEPT ![w] = {}]
  /\ draining' = [draining EXCEPT ![w] = {}]
  /\ UNCHANGED <<hist, managerVars, sending, messages, partitionConfig, etcdVars,
                 run, message, rev, got>>

-----------------------------------------------------------------------------
(* watchChan.                                                              *)

\* sync, for a watch asked for at revision 0: everything under the key of the
\* resource, not only in the channel's range
Sync(w, c) ==
  /\ ~dead /\ c \in chans[w] /\ c.from = 0
  /\ chans' = [chans EXCEPT ![w] = (@ \ {c}) \cup
       {[c EXCEPT !.from = Len(log), !.next = Len(log) + 1, !.todo = Existing(Len(log))]}]
  /\ UNCHANGED <<hist, managerVars, sending, messages, partitionConfig, etcdVars,
                 run, message, rev, stopped, draining, got>>

\* The first in key order of what is left of sync
FirstOf(todo, n) == n \in todo /\ \A k \in todo : log[n].tenant <= log[k].tenant

HandOut(w, c) ==
  /\ ~dead /\ c \in chans[w]
  /\ \E n \in c.todo :
       /\ FirstOf(c.todo, n)
       /\ chans' = [chans EXCEPT ![w] = (@ \ {c}) \cup {[c EXCEPT !.todo = @ \ {n}]}]
       /\ got' = [got EXCEPT ![w] = @ \cup {n}]
  /\ UNCHANGED <<hist, managerVars, sending, messages, partitionConfig, etcdVars,
                 run, message, rev, stopped, draining>>

\* startWatching: etcd takes the watch in
Register(w, c) ==
  /\ ~dead /\ c \in chans[w] /\ c.from # 0 /\ ~c.registered /\ c.next > compacted
  /\ chans' = [chans EXCEPT ![w] = (@ \ {c}) \cup {[c EXCEPT !.registered = TRUE]}]
  /\ UNCHANGED <<hist, managerVars, sending, messages, partitionConfig, etcdVars,
                 run, message, rev, stopped, draining, got>>

\* ... or refuses, since the revision is compacted: the channel closes after
\* an error event, at which the reader stops the watch
RefuseCompacted(w, c) ==
  /\ ~dead /\ c \in chans[w] /\ c.from # 0 /\ ~c.registered /\ c.next <= compacted
  /\ stopped' = [stopped EXCEPT ![w] = TRUE]
  /\ chans' = [chans EXCEPT ![w] = {}]
  /\ draining' = [draining EXCEPT ![w] = {}]
  /\ UNCHANGED <<hist, managerVars, sending, messages, partitionConfig, etcdVars,
                 run, message, rev, got>>

\* The first event of the range from revision n on
NextIn(range, n, m) ==
  /\ m \in n .. Len(log) /\ log[m].tenant \in TenantsIn(range)
  /\ \A k \in n .. m - 1 : log[k].tenant \notin TenantsIn(range)

\* startWatching, processEvent and the aggregated watcher hand it on
Deliver(w, c) ==
  /\ ~dead /\ c \in chans[w] /\ c.registered /\ c.todo = {}
  /\ \E m \in 1 .. Len(log) :
       /\ NextIn(c.range, c.next, m)
       /\ chans' = [chans EXCEPT ![w] = (@ \ {c}) \cup {[c EXCEPT !.next = m + 1]}]
       /\ got' = [got EXCEPT ![w] = @ \cup {m}]
  /\ UNCHANGED <<hist, managerVars, sending, messages, partitionConfig, etcdVars,
                 run, message, rev, stopped, draining>>

\* A stopped channel hands out what it had, as far as it gets, and closes.
Drain(w, c) ==
  /\ ~dead /\ c \in draining[w]
  /\ \/ /\ draining' = [draining EXCEPT ![w] = @ \ {c}]
        /\ UNCHANGED got
     \/ \E n \in c.todo :
          /\ FirstOf(c.todo, n)
          /\ draining' = [draining EXCEPT ![w] =
               (@ \ {c}) \cup {[c EXCEPT !.todo = @ \ {n}]}]
          /\ got' = [got EXCEPT ![w] = @ \cup {n}]
     \/ \E m \in 1 .. c.last :
          /\ c.todo = {}
          /\ NextIn(c.range, c.next, m)
          /\ draining' = [draining EXCEPT ![w] =
               (@ \ {c}) \cup {[c EXCEPT !.next = m + 1]}]
          /\ got' = [got EXCEPT ![w] = @ \cup {m}]
  /\ UNCHANGED <<hist, managerVars, sending, messages, partitionConfig, etcdVars,
                 run, message, rev, stopped, chans>>

-----------------------------------------------------------------------------
InformerStep ==
  \E n \in 1 .. MaxVersions :
    AddDataPartition(n) \/ UpdateDataPartition(n) \/ DeleteDataPartition(n)

RunStep(w) == OpenChans(w) \/ ReadMessage(w) \/ UpdatePartitionConfig(w)

ChanStep(w) ==
  \/ \E c \in chans[w] :
       Sync(w, c) \/ HandOut(w, c) \/ Register(w, c) \/ RefuseCompacted(w, c) \/ Deliver(w, c)
  \/ \E c \in draining[w] : Drain(w, c)

Next ==
  \/ WriteDataPartition \/ WriteResource \/ Compact
  \/ InformerStep
  \/ \E n \in 1 .. MaxVersions : SendDataPartition(n)
  \/ \E w \in Watches : OpenWatch(w) \/ StopWatch(w) \/ RunStep(w) \/ ChanStep(w)

Spec == Init /\ [][Next]_vars

\* Goroutines that can go on do.  Nobody has to write, open or stop a watch.
FairSpec ==
  /\ Spec
  /\ WF_vars(InformerStep)
  /\ \A n \in 1 .. MaxVersions : WF_vars(SendDataPartition(n))
  /\ \A w \in Watches : WF_vars(RunStep(w)) /\ WF_vars(ChanStep(w))
-----------------------------------------------------------------------------
(* Properties.                                                             *)

Ranges == (0 .. MaxTenant + 1) \X (0 .. MaxTenant + 1)

TypeOK ==
  /\ hist \in Seq(Versions) /\ Len(hist) <= MaxVersions
  /\ seen \in [Objects -> 0 .. Len(hist)]
  /\ initialized \in BOOLEAN /\ config \in Intervals \cup {FileInterval} /\ dead \in BOOLEAN
  /\ sending \subseteq 1 .. Len(hist)
  /\ messages \in Seq(Intervals)
  /\ partitionConfig \in Intervals \cup {FileInterval}
  /\ log \in Seq([tenant : 0 .. MaxTenant, deleted : BOOLEAN])
  /\ compacted \in 0 .. Len(log) /\ compactions \in Nat
  /\ run \in [Watches -> {"none", "open", "read", "update"}]
  /\ message \in [Watches -> Intervals \cup {FileInterval}]
  /\ rev \in [Watches -> 0 .. Len(log)]
  /\ stopped \in [Watches -> BOOLEAN]
  /\ chans \in [Watches -> SUBSET [range : Ranges, from : 0 .. Len(log),
                                   next : 1 .. Len(log) + 1,
                                   todo : SUBSET (1 .. Len(log)), registered : BOOLEAN]]
  /\ draining \in [Watches -> SUBSET [range : Ranges, next : 1 .. Len(log) + 1,
                                      todo : SUBSET (1 .. Len(log)), last : 0 .. Len(log)]]
  /\ got \in [Watches -> SUBSET (1 .. Len(log))]

\* The revision after which a channel owes its watch every event: the one the
\* watch was asked for, or the one at which the channel read what exists
Start(w, c) == IF rev[w] = 0 THEN c.from ELSE rev[w]

\* Wherever the range moves, no channel leaves a gap behind it: of its range it
\* has handed out all that happened since the revision the watch was asked
\* for, the events of tenants that came into the range later included.  (A
\* reset opens the new channels at that revision, not where the old ones
\* were.)  For a watch asked for at revision 0 the channel owes what existed
\* when it read the resource (startWatching, sync), and all that follows.
NothingSkipped ==
  \A w \in Watches : \A c \in chans[w] :
    /\ \A n \in Start(w, c) + 1 .. c.next - 1 :
         log[n].tenant \in TenantsIn(c.range) => n \in got[w]
    /\ rev[w] = 0 => Existing(c.from) \subseteq got[w] \cup c.todo

\* Version n names the service group of this API server.
Own(n) == hist[n].value \in Intervals

\* klog.Fatalf "Unexpected multiple data partitions for same service group id"
\* ends the API server only if the group had a second data partition: one of
\* another name, or one made after the first was deleted.  However the informer
\* skips versions and orders the objects, the updates of one never look like
\* a second one.
FatalOnlyIfSecond ==
  dead => \E i, j \in 1 .. Len(hist) :
    /\ Own(i) /\ Own(j)
    /\ \/ hist[i].object # hist[j].object
       \/ \E k \in i + 1 .. j - 1 : hist[k].object = hist[i].object /\ hist[k].value = Deleted

\* The watch whose run is the only one on the store, and that was never stopped
Alone(w) == ~stopped[w] /\ \A v \in Watches \ {w} : run[v] = "none"

\* Changes of the partition that are far enough apart: the goroutine of one
\* has sent its message before the next begins
FarApart == Cardinality(sending) <= 1

\* The manager announces its partition: it does not learn of its first one by
\* an update of an object it knows as another group's, or passed over
\* (updateDataPartition then takes it over without a message).
Announced ==
  initialized \/ \A n \in 1 .. Len(hist) :
    (Own(n) /\ Known(hist[n].object)) => n <= seen[hist[n].object]

\* w watches exactly the tenants of the partition in force, and has handed out
\* everything that happened to them since it was asked for or, asked for at
\* revision 0, every object that exists in its last version.
Follows(w) ==
  /\ Watched({c.range : c \in chans[w]}) = Partition(config)
  /\ \A n \in IF rev[w] = 0 THEN Existing(Len(log)) ELSE rev[w] + 1 .. Len(log) :
       log[n].tenant \in Partition(config) => n \in got[w]

\* A partition that changes takes effect: in the end the watch looks at the
\* tenants of the manager's partition, and none of their events is missing, or
\* none of their objects for a watch that began with what exists.
PartitionReachesWatch ==
  \A w \in Watches :
    (<>(run[w] # "none") /\ [](Alone(w) /\ FarApart /\ Announced /\ ~dead))
      => <>[]Follows(w)

=============================================================================
