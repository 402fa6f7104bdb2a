----------------------- MODULE PartitionedWatchProofs -----------------------
(***************************************************************************)
(* Safety of the watches that follow a data partition, for every number of *)
(* tenants, watches, versions and events and every set of ranges.          *)
(***************************************************************************)
EXTENDS PartitionedWatch, TLAPS, SequenceTheorems

-----------------------------------------------------------------------------
(* The parts of the inductive invariant.                                   *)

\* Only ranges of the own service group are announced.
AnnouncesRanges == \A n \in sending : Own(n)

\* The manager knows of a partition only from an event of its informer.
KnownFromEvent ==
  /\ \A o \in Objects : seen[o] # 0 => hist[seen[o]].object = o
  /\ initialized => \E i \in 1 .. Len(hist) : Own(i) /\ i <= seen[hist[i].object]

\* A watch that was not opened has no channel.
Unopened == \A w \in Watches : run[w] = "none" => chans[w] = {}

\* Only a watch asked for at revision 0 has a channel that must read what exists.
SyncsOnlyAtZero ==
  \A w \in Watches : \A c \in chans[w] : c.from = 0 => rev[w] = 0

IInv ==
  /\ TypeOK /\ AnnouncesRanges /\ KnownFromEvent /\ Unopened
  /\ SyncsOnlyAtZero /\ NothingSkipped /\ FatalOnlyIfSecond

-----------------------------------------------------------------------------
(* The ranges of keys.                                                     *)

\* Both ends of an interval are keys of the resource or its limits.
AllIntervals == (0 .. MaxTenant + 1) \X (0 .. MaxTenant + 1)

\* The interval ends where it begins, and is not the whole resource.
Degenerate(i) ==
  i[1] > 0 /\ i[1] = IF i[2] > 0 THEN i[2] ELSE MaxTenant + 1

\* The ranges that are watched are ranges of keys.
LEMMA KeyRangesType ==
  ASSUME NEW i \in AllIntervals
  PROVE  KeyRanges(i) \subseteq Ranges
<1>1. i[1] \in 0 .. MaxTenant + 1 /\ i[2] \in 0 .. MaxTenant + 1
  BY DEF AllIntervals
<1>2. SystemTenant \in 0 .. MaxTenant + 1 /\ SystemTenant + 1 \in 0 .. MaxTenant + 1
  BY TenantAssumption
<1>3. MaxTenant + 1 \in 0 .. MaxTenant + 1 /\ 0 \in 0 .. MaxTenant + 1
  BY TenantAssumption
<1>4. QED
  BY <1>1, <1>2, <1>3 DEF KeyRanges, Ranges

(***************************************************************************)
(* The key ranges that getKeyAndOptFromPartitionConfig makes of an         *)
(* interval hold exactly the tenants of the partition, with either end     *)
(* open or closed, and with the system tenant inside or outside: none is   *)
(* left out, and none of the others is watched.  Of an interval that ends  *)
(* where it begins they hold nobody, not even the system tenant.           *)
(***************************************************************************)
THEOREM RangesArePartition ==
  ASSUME NEW i \in AllIntervals
  PROVE  Watched(KeyRanges(i)) = IF Degenerate(i) THEN {} ELSE Partition(i)
<1> DEFINE begin == i[1]
           end == IF i[2] > 0 THEN i[2] ELSE IF begin > 0 THEN MaxTenant + 1 ELSE 0
           sys == <<SystemTenant, SystemTenant + 1>>
<1>1. begin \in 0 .. MaxTenant + 1 /\ i[2] \in 0 .. MaxTenant + 1 /\ end \in 0 .. MaxTenant + 1
  BY TenantAssumption DEF AllIntervals
<1>2. TenantsIn(sys) = {SystemTenant}
  BY TenantAssumption DEF TenantsIn, Tenants
<1>3. TenantsIn(<<begin, end>>) = {t \in Tenants : begin <= t /\ t < end}
  BY DEF TenantsIn
<1>4. CASE begin # end
  <2>1. KeyRanges(i) = {<<begin, end>>} \cup
          (IF SystemTenant < begin \/ SystemTenant >= end THEN {sys} ELSE {})
    BY <1>4 DEF KeyRanges
  <2>2. ~Degenerate(i)
    BY <1>1, <1>4 DEF Degenerate
  <2>3. Watched(KeyRanges(i)) = TenantsIn(<<begin, end>>) \cup {SystemTenant}
    <3>1. CASE SystemTenant < begin \/ SystemTenant >= end
      <4>1. KeyRanges(i) = {<<begin, end>>, sys}
        BY <2>1, <3>1
      <4>2. Watched(KeyRanges(i)) = TenantsIn(<<begin, end>>) \cup TenantsIn(sys)
        BY <4>1, Zenon DEF Watched
      <4>3. QED
        BY <1>2, <4>2
    <3>2. CASE ~(SystemTenant < begin \/ SystemTenant >= end)
      <4>1. KeyRanges(i) = {<<begin, end>>}
        BY <2>1, <3>2
      <4>2. Watched(KeyRanges(i)) = TenantsIn(<<begin, end>>)
        BY <4>1, Zenon DEF Watched
      <4>3. SystemTenant \in TenantsIn(<<begin, end>>)
        BY <1>1, <1>3, <3>2, TenantAssumption DEF Tenants
      <4>4. QED
        BY <4>2, <4>3
    <3>3. QED
      BY <3>1, <3>2
  <2>4. \A t \in Tenants : (begin <= t /\ t < end)
                             <=> (begin = 0 \/ begin <= t) /\ (i[2] = 0 \/ t < i[2])
    BY <1>1, <1>4, TenantAssumption DEF Tenants
  <2>5. Partition(i) = TenantsIn(<<begin, end>>) \cup {SystemTenant}
    BY <1>3, <2>4 DEF Partition
  <2>6. QED
    BY <2>2, <2>3, <2>5
<1>5. CASE begin = end /\ begin = 0
  <2>1. KeyRanges(i) = {<<0, MaxTenant + 1>>}
    BY <1>5 DEF KeyRanges
  <2>2. Watched(KeyRanges(i)) = TenantsIn(<<0, MaxTenant + 1>>)
    BY <2>1, Zenon DEF Watched
  <2>3. TenantsIn(<<0, MaxTenant + 1>>) = Tenants
    BY TenantAssumption DEF TenantsIn, Tenants
  <2>4. i[2] = 0
    BY <1>1, <1>5
  <2>5. Partition(i) = Tenants
    BY <1>5, <2>4, TenantAssumption DEF Partition, Tenants
  <2>6. QED
    BY <1>5, <2>2, <2>3, <2>5 DEF Degenerate
<1>6. CASE begin = end /\ begin # 0
  <2>1. KeyRanges(i) = {}
    BY <1>6 DEF KeyRanges
  <2>2. Degenerate(i)
    BY <1>1, <1>6 DEF Degenerate
  <2>3. QED
    BY <2>1, <2>2, Zenon DEF Watched
<1>7. QED
  BY <1>4, <1>5, <1>6

-----------------------------------------------------------------------------
(* The manager and the messages: types, and what ends the API server.      *)

\* The actions of Next.
LEMMA NextCases ==
  ASSUME Next
  PROVE  \/ WriteDataPartition \/ WriteResource \/ Compact
         \/ \E n \in 1 .. MaxVersions :
              \/ AddDataPartition(n) \/ UpdateDataPartition(n)
              \/ DeleteDataPartition(n) \/ SendDataPartition(n)
         \/ \E w \in Watches :
              \/ OpenWatch(w) \/ StopWatch(w)
              \/ OpenChans(w) \/ ReadMessage(w) \/ UpdatePartitionConfig(w)
              \/ \E c \in chans[w] :
                   \/ Sync(w, c) \/ HandOut(w, c)
                   \/ Register(w, c) \/ RefuseCompacted(w, c) \/ Deliver(w, c)
              \/ \E c \in draining[w] : Drain(w, c)
BY DEF Next, InformerStep, RunStep, ChanStep

\* The types of the manager's half of the state.
ManagerType ==
  /\ hist \in Seq(Versions) /\ Len(hist) <= MaxVersions
  /\ seen \in [Objects -> 0 .. Len(hist)]
  /\ initialized \in BOOLEAN /\ config \in Intervals \cup {FileInterval} /\ dead \in BOOLEAN
  /\ sending \subseteq 1 .. Len(hist)
  /\ messages \in Seq(Intervals)
  /\ partitionConfig \in Intervals \cup {FileInterval}
  /\ message \in [Watches -> Intervals \cup {FileInterval}]

\* ... and of the watches' half
ChanType(n) ==
  [range : Ranges, from : 0 .. n, next : 1 .. n + 1, todo : SUBSET (1 .. n),
   registered : BOOLEAN]

DrainType(n) ==
  [range : Ranges, next : 1 .. n + 1, todo : SUBSET (1 .. n), last : 0 .. n]

EventType == [tenant : 0 .. MaxTenant, deleted : BOOLEAN]

WatchType ==
  /\ log \in Seq(EventType) /\ compacted \in 0 .. Len(log) /\ compactions \in Nat
  /\ run \in [Watches -> {"none", "open", "read", "update"}]
  /\ rev \in [Watches -> 0 .. Len(log)]
  /\ stopped \in [Watches -> BOOLEAN]
  /\ chans \in [Watches -> SUBSET ChanType(Len(log))]
  /\ draining \in [Watches -> SUBSET DrainType(Len(log))]
  /\ got \in [Watches -> SUBSET (1 .. Len(log))]

\* The type invariant is made of these halves.
LEMMA TypeParts == TypeOK <=> ManagerType /\ WatchType
BY DEF TypeOK, ManagerType, WatchType, ChanType, DrainType, EventType

\* A new version leaves the earlier ones where they are.
LEMMA AppendVersion ==
  ASSUME ManagerType, WriteDataPartition
  PROVE  /\ hist' \in Seq(Versions)
         /\ Len(hist) \in Nat /\ Len(hist') = Len(hist) + 1 /\ Len(hist') <= MaxVersions
         /\ \A i \in 1 .. Len(hist) : hist'[i] = hist[i]
<1>1. PICK v \in Versions : hist' = Append(hist, v)
  BY DEF WriteDataPartition
<1>2. Len(hist) \in Nat /\ Len(hist) < MaxVersions
  BY LenProperties DEF ManagerType, WriteDataPartition
<1>3. QED
  BY <1>1, <1>2, AppendProperties, BoundAssumption DEF ManagerType

\* A version has the parts of one.
LEMMA VersionParts ==
  ASSUME ManagerType, NEW n \in 1 .. Len(hist)
  PROVE  hist[n].object \in Objects /\ hist[n].value \in Values
<1>1. hist[n] \in Versions
  BY ElementOfSeq DEF ManagerType
<1>2. QED
  BY <1>1 DEF Versions

\* An event of the informer is of a version that it has not seen, and takes no
\* object back.
LEMMA EventFacts ==
  ASSUME ManagerType, NEW n, Event(n)
  PROVE  /\ n \in 1 .. Len(hist) /\ hist[n].object \in Objects /\ hist[n].value \in Values
         /\ seen[hist[n].object] \in 0 .. Len(hist) /\ seen[hist[n].object] < n
         /\ seen' \in [Objects -> 0 .. Len(hist)]
         /\ \A o \in Objects : seen[o] <= seen'[o]
         /\ seen'[hist[n].object] = n
<1>1. Len(hist) \in Nat
  BY LenProperties DEF ManagerType
<1>2. /\ n \in 1 .. Len(hist) /\ n > seen[hist[n].object]
      /\ seen' = [seen EXCEPT ![hist[n].object] = n]
  BY DEF Event
<1>3. hist[n].object \in Objects /\ hist[n].value \in Values
  BY <1>2, VersionParts
<1>4. seen[hist[n].object] \in 0 .. Len(hist)
  BY <1>3 DEF ManagerType
<1>5. \A o \in Objects : seen[o] \in 0 .. Len(hist)
  BY DEF ManagerType
<1>6. QED
  BY <1>1, <1>2, <1>3, <1>4, <1>5 DEF ManagerType

\* What the manager knows of a partition stays true as the informer goes on.
LEMMA KnowledgeStays ==
  ASSUME ManagerType, KnownFromEvent, NEW n, Event(n), UNCHANGED hist,
         initialized' => initialized \/ Own(n)
  PROVE  KnownFromEvent'
<1>0. \A o \in Objects : seen'[o] # 0 => hist[seen'[o]].object = o
  <2>1. seen' = [seen EXCEPT ![hist[n].object] = n]
    BY DEF Event
  <2>2. QED
    BY <2>1 DEF KnownFromEvent, ManagerType
<1> SUFFICES ASSUME initialized'
             PROVE  \E i \in 1 .. Len(hist) : Own(i) /\ i <= seen'[hist[i].object]
  BY <1>0 DEF KnownFromEvent, Own
<1>1. CASE initialized
  <2>1. PICK i \in 1 .. Len(hist) : Own(i) /\ i <= seen[hist[i].object]
    BY <1>1 DEF KnownFromEvent
  <2>2. hist[i].object \in Objects
    BY VersionParts
  <2>3. seen[hist[i].object] \in Nat /\ seen'[hist[i].object] \in Nat
        /\ seen[hist[i].object] <= seen'[hist[i].object]
    BY <2>2, EventFacts DEF ManagerType
  <2>4. i <= seen'[hist[i].object]
    BY <2>1, <2>3
  <2>5. QED
    BY <2>1, <2>4
<1>2. CASE Own(n)
  BY <1>2, EventFacts
<1>3. QED
  BY <1>1, <1>2

\* The manager's half of the invariant goes through every step.
ManagerInv == ManagerType /\ AnnouncesRanges /\ KnownFromEvent /\ FatalOnlyIfSecond

LEMMA NextManager ==
  ASSUME ManagerInv, [Next]_vars
  PROVE  ManagerInv'
<1> USE DEF ManagerInv
<1>0. Len(hist) \in Nat
  BY LenProperties DEF ManagerType
<1>1. CASE UNCHANGED <<hist, managerVars, sending, messages, partitionConfig, message>>
  BY <1>1 DEF ManagerType, AnnouncesRanges, KnownFromEvent, FatalOnlyIfSecond, Own, managerVars
<1>2. CASE WriteDataPartition
  <2>0. UNCHANGED <<seen, initialized, config, dead, sending, messages, partitionConfig, message>>
    BY <1>2 DEF WriteDataPartition, managerVars, watchVars
  <2>1. ManagerType'
    BY <2>0, <1>2, AppendVersion DEF ManagerType
  <2>2. AnnouncesRanges'
    BY <2>0, <1>2, AppendVersion DEF AnnouncesRanges, ManagerType, Own
  <2>3. KnownFromEvent'
    <3>1. \A o \in Objects : seen[o] # 0 => seen[o] \in 1 .. Len(hist)
      BY <1>0 DEF ManagerType
    <3>2. \A o \in Objects : seen[o] # 0 => hist'[seen[o]].object = o
      BY <1>2, <3>1, AppendVersion DEF KnownFromEvent
    <3>3. initialized => \E i \in 1 .. Len(hist') :
                           hist'[i].value \in Intervals /\ i <= seen[hist'[i].object]
      BY <1>2, AppendVersion DEF KnownFromEvent, Own
    <3>4. QED
      BY <2>0, <3>2, <3>3 DEF KnownFromEvent, Own
  <2>4. FatalOnlyIfSecond'
    <3> SUFFICES ASSUME dead PROVE FatalOnlyIfSecond'
      BY <2>0 DEF FatalOnlyIfSecond
    <3>1. PICK i \in 1 .. Len(hist), j \in 1 .. Len(hist) :
            /\ Own(i) /\ Own(j)
            /\ \/ hist[i].object # hist[j].object
               \/ \E k \in i + 1 .. j - 1 :
                    hist[k].object = hist[i].object /\ hist[k].value = Deleted
      BY DEF FatalOnlyIfSecond
    <3>2. i \in 1 .. Len(hist') /\ j \in 1 .. Len(hist') /\ Own(i)' /\ Own(j)'
      BY <1>2, <3>1, AppendVersion DEF Own
    <3>3. \A k \in i + 1 .. j - 1 : k \in 1 .. Len(hist)
      BY <1>0
    <3>4. \A k \in i + 1 .. j - 1 : hist'[k] = hist[k]
      BY <1>2, <3>3, AppendVersion
    <3>5. hist'[i] = hist[i] /\ hist'[j] = hist[j]
      BY <1>2, AppendVersion
    <3>6. \/ hist'[i].object # hist'[j].object
          \/ \E k \in i + 1 .. j - 1 :
               hist'[k].object = hist'[i].object /\ hist'[k].value = Deleted
      BY <3>1, <3>4, <3>5
    <3>7. QED
      BY <3>2, <3>6 DEF FatalOnlyIfSecond
  <2>5. QED
    BY <2>1, <2>2, <2>3, <2>4
<1>3. ASSUME NEW n \in 1 .. MaxVersions, AddDataPartition(n) PROVE ManagerInv'
  <2>1. /\ Event(n) /\ n \in 1 .. Len(hist) /\ seen' \in [Objects -> 0 .. Len(hist)]
        /\ UNCHANGED <<hist, messages, partitionConfig, message>>
    BY <1>3, EventFacts DEF AddDataPartition, watchVars
  <2>2. hist[n].value = Other \/ Own(n)
    BY <1>3, <2>1, EventFacts DEF AddDataPartition, Values, Own
  <2>3. CASE hist[n].deleting \/ hist[n].value = Other
    <3>1. UNCHANGED <<initialized, config, dead, sending>>
      BY <1>3, <2>3 DEF AddDataPartition
    <3>2. ManagerType'
      BY <2>1, <3>1 DEF ManagerType
    <3>3. AnnouncesRanges' /\ FatalOnlyIfSecond'
      BY <2>1, <3>1 DEF AnnouncesRanges, FatalOnlyIfSecond, Own
    <3>4. KnownFromEvent'
      BY <2>1, <3>1, KnowledgeStays
    <3>5. QED
      BY <3>2, <3>3, <3>4
  <2>4. CASE ~(hist[n].deleting \/ hist[n].value = Other) /\ initialized
    <3>0. Own(n)
      BY <2>2, <2>4
    <3>1. UNCHANGED <<initialized, config, sending>> /\ dead' = TRUE
      BY <1>3, <2>4 DEF AddDataPartition
    <3>2. ManagerType'
      BY <2>1, <3>1 DEF ManagerType
    <3>3. AnnouncesRanges'
      BY <2>1, <3>1 DEF AnnouncesRanges, Own
    <3>4. KnownFromEvent'
      BY <2>1, <3>1, KnowledgeStays
    <3>5. PICK i \in 1 .. Len(hist) : Own(i) /\ i <= seen[hist[i].object]
      BY <2>4 DEF KnownFromEvent
    <3>6. \/ hist[i].object # hist[n].object
          \/ \E k \in i + 1 .. n - 1 :
               hist[k].object = hist[i].object /\ hist[k].value = Deleted
      <4> SUFFICES ASSUME hist[i].object = hist[n].object
                   PROVE  \E k \in i + 1 .. n - 1 :
                            hist[k].object = hist[i].object /\ hist[k].value = Deleted
        OBVIOUS
      <4> DEFINE k == seen[hist[n].object]
      <4>1. k \in 0 .. Len(hist) /\ k < n /\ i <= k
        BY <2>1, <3>5, EventFacts
      <4>2. k # 0
        BY <4>1
      <4>3. hist[k].value = Deleted
        BY <1>3, <4>2 DEF AddDataPartition, Known
      <4>4. i # k
        BY <3>5, <4>3, VersionAssumption DEF Own
      <4>5. k \in i + 1 .. n - 1
        BY <1>0, <4>1, <4>4
      <4>6. hist[k].object = hist[n].object
        BY <2>1, <4>2, EventFacts DEF KnownFromEvent
      <4>7. QED
        BY <4>3, <4>5, <4>6
    <3>7. FatalOnlyIfSecond'
      BY <2>1, <3>0, <3>5, <3>6 DEF FatalOnlyIfSecond, Own
    <3>8. QED
      BY <3>2, <3>3, <3>4, <3>7
  <2>5. CASE ~(hist[n].deleting \/ hist[n].value = Other) /\ ~initialized
    <3>0. Own(n)
      BY <2>2, <2>5
    <3>1. /\ sending' = sending \cup {n} /\ config' = hist[n].value
          /\ initialized' \in BOOLEAN /\ dead' = dead
      BY <1>3, <2>5 DEF AddDataPartition
    <3>2. ManagerType'
      BY <2>1, <3>0, <3>1 DEF ManagerType, Own
    <3>3. AnnouncesRanges' /\ FatalOnlyIfSecond'
      BY <2>1, <3>0, <3>1 DEF AnnouncesRanges, FatalOnlyIfSecond, Own
    <3>4. KnownFromEvent'
      BY <2>1, <3>0, KnowledgeStays
    <3>5. QED
      BY <3>2, <3>3, <3>4
  <2>6. QED
    BY <2>3, <2>4, <2>5
<1>4. ASSUME NEW n \in 1 .. MaxVersions, UpdateDataPartition(n) PROVE ManagerInv'
  <2>1. /\ Event(n) /\ n \in 1 .. Len(hist) /\ seen' \in [Objects -> 0 .. Len(hist)]
        /\ UNCHANGED <<hist, dead, messages, partitionConfig, message>>
    BY <1>4, EventFacts DEF UpdateDataPartition, watchVars
  <2>2. hist[n].value = Other \/ Own(n)
    BY <1>4, <2>1, EventFacts DEF UpdateDataPartition, Values, Own
  <2>3. CASE hist[n].value = Other
    <3>1. UNCHANGED <<initialized, config, sending>>
      BY <1>4, <2>3 DEF UpdateDataPartition
    <3>2. ManagerType'
      BY <2>1, <3>1 DEF ManagerType
    <3>3. AnnouncesRanges' /\ FatalOnlyIfSecond'
      BY <2>1, <3>1 DEF AnnouncesRanges, FatalOnlyIfSecond, Own
    <3>4. KnownFromEvent'
      BY <2>1, <3>1, KnowledgeStays
    <3>5. QED
      BY <3>2, <3>3, <3>4
  <2>4. CASE hist[n].value # Other
    <3>0. Own(n)
      BY <2>2, <2>4
    <3>1. /\ sending' = sending \cup {n} \/ sending' = sending
          /\ config' = hist[n].value /\ initialized' \in BOOLEAN
      BY <1>4, <2>4 DEF UpdateDataPartition
    <3>2. sending' \subseteq 1 .. Len(hist) /\ config' \in Intervals
      BY <2>1, <3>0, <3>1 DEF ManagerType, Own
    <3>3. ManagerType'
      BY <2>1, <3>1, <3>2 DEF ManagerType
    <3>4. AnnouncesRanges'
      BY <2>1, <3>0, <3>1 DEF AnnouncesRanges, Own
    <3>5. FatalOnlyIfSecond'
      BY <2>1 DEF FatalOnlyIfSecond, Own
    <3>6. KnownFromEvent'
      BY <2>1, <3>0, KnowledgeStays
    <3>7. QED
      BY <3>3, <3>4, <3>5, <3>6
  <2>5. QED
    BY <2>3, <2>4
<1>5. ASSUME NEW n \in 1 .. MaxVersions, DeleteDataPartition(n) PROVE ManagerInv'
  <2>1. /\ Event(n) /\ n \in 1 .. Len(hist) /\ seen' \in [Objects -> 0 .. Len(hist)]
        /\ UNCHANGED <<hist, initialized, config, dead, sending, messages, partitionConfig,
                       message>>
    BY <1>5, EventFacts DEF DeleteDataPartition, watchVars
  <2>2. ManagerType'
    BY <2>1 DEF ManagerType
  <2>3. AnnouncesRanges' /\ FatalOnlyIfSecond'
    BY <2>1 DEF AnnouncesRanges, FatalOnlyIfSecond, Own
  <2>4. KnownFromEvent'
    BY <2>1, KnowledgeStays
  <2>5. QED
    BY <2>2, <2>3, <2>4
<1>6. ASSUME NEW n \in 1 .. MaxVersions, SendDataPartition(n) PROVE ManagerInv'
  <2>1. hist[n].value \in Intervals
    BY <1>6 DEF SendDataPartition, AnnouncesRanges, Own
  <2>2. messages' \in Seq(Intervals)
    BY <1>6, <2>1, AppendProperties DEF SendDataPartition, ManagerType
  <2>3. /\ sending' \subseteq sending
        /\ UNCHANGED <<hist, seen, initialized, config, dead, partitionConfig, message>>
    BY <1>6 DEF SendDataPartition, managerVars, watchVars
  <2>4. ManagerType'
    BY <2>2, <2>3 DEF ManagerType
  <2>5. QED
    BY <2>3, <2>4 DEF AnnouncesRanges, KnownFromEvent, FatalOnlyIfSecond, Own
<1>7. ASSUME NEW w \in Watches, ReadMessage(w) PROVE ManagerInv'
  <2>1. Head(messages) \in Intervals /\ messages' \in Seq(Intervals)
    BY <1>7, HeadTailProperties DEF ReadMessage, ManagerType
  <2>2. message' \in [Watches -> Intervals \cup {FileInterval}]
    BY <1>7, <2>1 DEF ReadMessage, ManagerType
  <2>3. UNCHANGED <<hist, seen, initialized, config, dead, sending, partitionConfig>>
    BY <1>7 DEF ReadMessage, managerVars
  <2>4. ManagerType'
    BY <2>1, <2>2, <2>3 DEF ManagerType
  <2>5. QED
    BY <2>3, <2>4 DEF AnnouncesRanges, KnownFromEvent, FatalOnlyIfSecond, Own
<1>8. ASSUME NEW w \in Watches, UpdatePartitionConfig(w) PROVE ManagerInv'
  <2>1. /\ partitionConfig' = message[w]
        /\ UNCHANGED <<hist, seen, initialized, config, dead, sending, messages, message>>
    BY <1>8 DEF UpdatePartitionConfig, managerVars
  <2>2. ManagerType'
    BY <2>1 DEF ManagerType
  <2>3. QED
    BY <2>1, <2>2 DEF AnnouncesRanges, KnownFromEvent, FatalOnlyIfSecond, Own
<1>9. ASSUME NEW w \in Watches,
             \/ OpenWatch(w) \/ StopWatch(w) \/ OpenChans(w)
             \/ \E c \in chans[w] :
                  \/ Sync(w, c) \/ HandOut(w, c)
                  \/ Register(w, c) \/ RefuseCompacted(w, c) \/ Deliver(w, c)
             \/ \E c \in draining[w] : Drain(w, c)
      PROVE  UNCHANGED <<hist, managerVars, sending, messages, partitionConfig, message>>
  BY <1>9 DEF OpenWatch, StopWatch, OpenChans, Sync, HandOut, Register, RefuseCompacted,
              Deliver, Drain
<1>10. CASE WriteResource \/ Compact \/ UNCHANGED vars
  BY <1>1, <1>10 DEF WriteResource, Compact, vars, watchVars, managerVars
<1>11. QED
  BY NextCases, <1>1, <1>2, <1>3, <1>4, <1>5, <1>6, <1>7, <1>8, <1>9, <1>10

-----------------------------------------------------------------------------
(* The watches.                                                            *)

WatchInv == WatchType /\ Unopened /\ SyncsOnlyAtZero /\ NothingSkipped

\* The parts of a channel.
LEMMA ChanParts ==
  ASSUME NEW n \in Nat, NEW c \in ChanType(n)
  PROVE  /\ c.range \in Ranges /\ c.from \in 0 .. n /\ c.next \in 1 .. n + 1
         /\ c.todo \in SUBSET (1 .. n) /\ c.registered \in BOOLEAN
BY DEF ChanType

LEMMA NewChan ==
  ASSUME NEW n \in Nat, NEW r \in Ranges, NEW m \in 0 .. n
  PROVE  /\ Chan(r, m) \in ChanType(n)
         /\ Chan(r, m).from = m /\ Chan(r, m).next = m + 1
BY DEF ChanType, Chan

\* A write of the resource leaves the events before it where they are.
LEMMA AppendEvent ==
  ASSUME WatchType, WriteResource
  PROVE  /\ log' \in Seq(EventType) /\ Len(log) \in Nat /\ Len(log') = Len(log) + 1
         /\ \A i \in 1 .. Len(log) : log'[i] = log[i]
<1>1. PICK t \in Tenants, d \in BOOLEAN : log' = Append(log, [tenant |-> t, deleted |-> d])
  BY DEF WriteResource
<1>2. [tenant |-> t, deleted |-> d] \in EventType
  BY TenantAssumption DEF EventType, Tenants
<1>3. QED
  BY <1>1, <1>2, AppendProperties, LenProperties DEF WatchType

\* ... and so what existed at an earlier revision.
LEMMA ExistingStays ==
  ASSUME WatchType, WriteResource, NEW m \in 0 .. Len(log)
  PROVE  Existing(m)' = Existing(m)
<1>1. Len(log) \in Nat /\ \A i \in 1 .. m : log'[i] = log[i]
  BY AppendEvent
<1>2. \A n \in 1 .. m : n \in Nat /\ \A k \in n + 1 .. m : log'[k] = log[k]
  BY <1>1
<1>3. QED
  BY <1>1, <1>2 DEF Existing

\* What a channel of watch w owes.
Owed(w, c) ==
  /\ \A n \in Start(w, c) + 1 .. c.next - 1 :
       log[n].tenant \in TenantsIn(c.range) => n \in got[w]
  /\ rev[w] = 0 => Existing(c.from) \subseteq got[w] \cup c.todo

LEMMA SkippedParts == NothingSkipped <=> \A w \in Watches : \A c \in chans[w] : Owed(w, c)
BY DEF NothingSkipped, Owed

\* A step that changes one channel of a watch, and at most adds to what was
\* handed out, has only to settle what that channel owes.
LEMMA ReplaceChan ==
  ASSUME WatchInv, NEW w \in Watches, NEW c \in chans[w], NEW d \in ChanType(Len(log)),
         chans' = [chans EXCEPT ![w] = (@ \ {c}) \cup {d}],
         got' \in [Watches -> SUBSET (1 .. Len(log))],
         \A v \in Watches : got[v] \subseteq got'[v],
         UNCHANGED <<etcdVars, run, rev, stopped, draining>>,
         d.from = 0 => rev[w] = 0,
         \A n \in Start(w, d) + 1 .. d.next - 1 :
           log[n].tenant \in TenantsIn(d.range) => n \in got'[w],
         rev[w] = 0 => Existing(d.from) \subseteq got'[w] \cup d.todo
  PROVE  WatchInv'
<1> USE DEF WatchInv
<1>1. WatchType'
  BY DEF WatchType, etcdVars
<1>2. \A v \in Watches : \A e \in chans'[v] : e \in chans[v] \/ (v = w /\ e = d)
  BY DEF WatchType
<1>3. Unopened'
  BY DEF WatchType, Unopened
<1>4. SyncsOnlyAtZero'
  BY <1>2 DEF SyncsOnlyAtZero
<1>5. ASSUME NEW v \in Watches, NEW e \in chans'[v] PROVE Owed(v, e)'
  <2>1. log' = log /\ rev' = rev /\ got[v] \subseteq got'[v]
    BY DEF etcdVars
  <2>2. Existing(e.from)' = Existing(e.from) /\ Start(v, e)' = Start(v, e)
    BY <2>1 DEF Existing, Start
  <2>3. CASE e \in chans[v]
    <3>1. Owed(v, e)
      BY <2>3, SkippedParts
    <3>2. QED
      BY <2>1, <2>2, <3>1 DEF Owed
  <2>4. CASE v = w /\ e = d
    BY <2>1, <2>2, <2>4 DEF Owed
  <2>5. QED
    BY <1>2, <2>3, <2>4
<1>6. NothingSkipped'
  BY <1>5 DEF NothingSkipped, Owed
<1>7. QED
  BY <1>1, <1>3, <1>4, <1>6

\* A watch that loses its channels owes nothing.
LEMMA ClearChans ==
  ASSUME WatchInv, NEW w \in Watches, WatchType',
         chans' = [chans EXCEPT ![w] = {}], UNCHANGED <<log, rev, got>>,
         \A v \in Watches : run'[v] = "none" => run[v] = "none"
  PROVE  WatchInv'
<1> USE DEF WatchInv
<1>1. \A v \in Watches : chans'[v] \subseteq chans[v]
  BY DEF WatchType
<1>2. Unopened' /\ SyncsOnlyAtZero'
  BY <1>1 DEF Unopened, SyncsOnlyAtZero
<1>3. ASSUME NEW v \in Watches, NEW e \in chans'[v] PROVE Owed(v, e)'
  <2>1. Owed(v, e)
    BY <1>1, SkippedParts
  <2>2. QED
    BY <2>1 DEF Owed, Existing, Start
<1>4. NothingSkipped'
  BY <1>3 DEF NothingSkipped, Owed
<1>5. QED
  BY <1>2, <1>4

\* The watches' half of the invariant goes through every step.
LEMMA NextWatch ==
  ASSUME ManagerType, WatchInv, [Next]_vars
  PROVE  WatchInv'
<1> USE DEF WatchInv
<1> DEFINE L == Len(log)
<1>0. L \in Nat
  BY LenProperties DEF WatchType
<1>1. CASE UNCHANGED <<etcdVars, run, rev, stopped, chans, draining, got>>
  BY <1>1 DEF WatchType, Unopened, SyncsOnlyAtZero, NothingSkipped, Start, Existing, etcdVars
<1>2. CASE WriteResource
  <2>1. UNCHANGED <<compacted, compactions, run, rev, stopped, chans, draining, got>>
    BY <1>2 DEF WriteResource, watchVars
  <2>2. /\ ChanType(L) \subseteq ChanType(L + 1) /\ DrainType(L) \subseteq DrainType(L + 1)
        /\ 0 .. L \subseteq 0 .. L + 1 /\ 1 .. L \subseteq 1 .. L + 1
    BY <1>0 DEF ChanType, DrainType
  <2>3. WatchType'
    BY <1>0, <1>2, <2>1, <2>2, AppendEvent DEF WatchType
  <2>4. ASSUME NEW w \in Watches, NEW c \in chans[w] PROVE Owed(w, c)'
    <3>1. c \in ChanType(L) /\ rev[w] \in 0 .. L
      BY DEF WatchType
    <3>2. c.next \in 1 .. L + 1 /\ c.from \in 0 .. L
      BY <1>0, <3>1, ChanParts
    <3>3. Start(w, c)' = Start(w, c) /\ Start(w, c) \in 0 .. L
      BY <2>1, <3>1, <3>2 DEF Start
    <3>4. \A n \in Start(w, c) + 1 .. c.next - 1 : n \in 1 .. L
      BY <1>0, <3>2, <3>3
    <3>5. \A n \in Start(w, c) + 1 .. c.next - 1 : log'[n] = log[n]
      BY <1>2, <3>4, AppendEvent
    <3>6. Existing(c.from)' = Existing(c.from)
      BY <1>2, <3>2, ExistingStays
    <3>7. Owed(w, c)
      BY SkippedParts
    <3>8. QED
      BY <2>1, <3>3, <3>5, <3>6, <3>7 DEF Owed
  <2>5. NothingSkipped'
    BY <2>1, <2>4 DEF NothingSkipped, Owed
  <2>6. QED
    BY <2>1, <2>3, <2>5 DEF Unopened, SyncsOnlyAtZero
<1>3. CASE Compact
  <2>1. UNCHANGED <<log, run, rev, stopped, chans, draining, got>>
    BY <1>3 DEF Compact, watchVars
  <2>2. WatchType'
    BY <1>0, <1>3, <2>1 DEF Compact, WatchType
  <2>3. QED
    BY <2>1, <2>2 DEF Unopened, SyncsOnlyAtZero, NothingSkipped, Start, Existing
<1>4. ASSUME NEW w \in Watches, OpenWatch(w) PROVE WatchInv'
  <2>1. chans[w] = {} /\ \A v \in Watches : v # w => rev'[v] = rev[v] /\ run'[v] = run[v]
    BY <1>4 DEF OpenWatch, Unopened, WatchType
  <2>2. WatchType'
    BY <1>0, <1>4 DEF OpenWatch, WatchType, etcdVars
  <2>3. UNCHANGED <<log, chans, got>>
    BY <1>4 DEF OpenWatch, etcdVars
  <2>4. Unopened' /\ SyncsOnlyAtZero'
    BY <2>1, <2>3 DEF Unopened, SyncsOnlyAtZero
  <2>5. ASSUME NEW v \in Watches, NEW e \in chans'[v] PROVE Owed(v, e)'
    <3>1. v # w /\ Owed(v, e) /\ rev'[v] = rev[v]
      BY <2>1, <2>3, SkippedParts
    <3>2. QED
      BY <2>3, <3>1 DEF Owed, Start, Existing
  <2>6. NothingSkipped'
    BY <2>5 DEF NothingSkipped, Owed
  <2>7. QED
    BY <2>2, <2>4, <2>6
<1>5. ASSUME NEW w \in Watches, StopWatch(w) \/ \E c \in chans[w] : RefuseCompacted(w, c)
      PROVE  WatchInv'
  <2>1. /\ stopped' = [stopped EXCEPT ![w] = TRUE]
        /\ chans' = [chans EXCEPT ![w] = {}] /\ draining' = [draining EXCEPT ![w] = {}]
        /\ UNCHANGED <<etcdVars, run, rev, got>>
    BY <1>5 DEF StopWatch, RefuseCompacted
  <2>2. WatchType'
    BY <2>1 DEF WatchType, etcdVars
  <2>3. QED
    BY <2>1, <2>2, ClearChans DEF etcdVars
<1>6. ASSUME NEW w \in Watches, OpenChans(w) PROVE WatchInv'
  <2>1. partitionConfig \in AllIntervals
    BY IntervalAssumption DEF ManagerType, AllIntervals
  <2>2. KeyRanges(partitionConfig) \subseteq Ranges
    BY <2>1, KeyRangesType
  <2> DEFINE new == {Chan(r, rev[w]) : r \in KeyRanges(partitionConfig)}
  <2>3. rev[w] \in 0 .. L
    BY <1>0 DEF WatchType
  <2>4. new \subseteq ChanType(L) /\ \A c \in new : c.from = rev[w] /\ c.next = rev[w] + 1
    BY <1>0, <2>2, <2>3, NewChan
  <2> HIDE DEF new
  <2>5. /\ run' = [run EXCEPT ![w] = "read"]
        /\ chans' = [chans EXCEPT ![w] = IF stopped[w] THEN @ ELSE new]
        /\ UNCHANGED <<etcdVars, rev, stopped, draining, got>>
    BY <1>6 DEF OpenChans, new
  <2>6. WatchType'
    BY <2>4, <2>5 DEF WatchType, etcdVars
  <2>7. Unopened'
    BY <2>5 DEF WatchType, Unopened
  <2>8. \A v \in Watches : \A c \in chans'[v] : c \in chans[v] \/ (v = w /\ c \in new)
    BY <2>5 DEF WatchType
  <2>9. SyncsOnlyAtZero'
    BY <2>4, <2>5, <2>8 DEF SyncsOnlyAtZero
  <2>10. ASSUME NEW v \in Watches, NEW c \in chans'[v] PROVE Owed(v, c)'
    <3>1. CASE c \in chans[v]
      <4>1. Owed(v, c)
        BY <3>1, SkippedParts
      <4>2. QED
        BY <2>5, <4>1 DEF Owed, Start, Existing, etcdVars
    <3>2. CASE v = w /\ c \in new
      <4>1. c.from = rev[w] /\ c.next = rev[w] + 1 /\ Start(w, c) = rev[w]
        BY <2>4, <3>2 DEF Start
      <4>2. Start(w, c) + 1 .. c.next - 1 = {}
        BY <2>3, <4>1
      <4>3. rev[w] = 0 => Existing(c.from) = {}
        BY <4>1 DEF Existing
      <4>4. UNCHANGED <<log, rev, got>>
        BY <2>5 DEF etcdVars
      <4>5. Start(w, c)' = Start(w, c) /\ Existing(c.from)' = Existing(c.from)
        BY <4>4 DEF Start, Existing
      <4>6. QED
        BY <3>2, <4>2, <4>3, <4>4, <4>5 DEF Owed
    <3>3. QED
      BY <2>8, <3>1, <3>2
  <2>11. NothingSkipped'
    BY <2>10 DEF NothingSkipped, Owed
  <2>12. QED
    BY <2>6, <2>7, <2>9, <2>11
<1>7. ASSUME NEW w \in Watches, ReadMessage(w) PROVE WatchInv'
  <2> DEFINE ending == {c \in {Leftover(d) : d \in chans[w]} : ~Empty(c)}
  <2>1. \A c \in chans[w] : Leftover(c) \in DrainType(L)
    <3> SUFFICES ASSUME NEW c \in chans[w] PROVE Leftover(c) \in DrainType(L)
      OBVIOUS
    <3>1. /\ c.range \in Ranges /\ c.next \in 1 .. L + 1
          /\ c.todo \in SUBSET (1 .. L) /\ c.registered \in BOOLEAN
      BY <1>0, ChanParts DEF WatchType
    <3>2. (IF c.registered THEN L ELSE c.next - 1) \in 0 .. L
      BY <1>0, <3>1
    <3>3. QED
      BY <3>1, <3>2 DEF Leftover, DrainType
  <2>2. ending \subseteq DrainType(L)
    BY <2>1
  <2> HIDE DEF ending
  <2>3. /\ run' = [run EXCEPT ![w] = "update"]
        /\ draining' = [draining EXCEPT ![w] = @ \cup ending]
        /\ chans' = [chans EXCEPT ![w] = {}]
        /\ UNCHANGED <<etcdVars, rev, stopped, got>>
    BY <1>7 DEF ReadMessage, ending
  <2>4. WatchType'
    BY <2>2, <2>3 DEF WatchType, etcdVars
  <2>5. \A v \in Watches : run'[v] = "none" => run[v] = "none"
    BY <2>3 DEF WatchType
  <2>6. QED
    BY <2>3, <2>4, <2>5, ClearChans DEF etcdVars
<1>8. ASSUME NEW w \in Watches, UpdatePartitionConfig(w) PROVE WatchInv'
  <2>1. /\ run' = [run EXCEPT ![w] = "open"]
        /\ UNCHANGED <<etcdVars, rev, stopped, chans, draining, got>>
    BY <1>8 DEF UpdatePartitionConfig
  <2>2. WatchType' /\ Unopened'
    BY <2>1 DEF WatchType, Unopened, etcdVars
  <2>3. QED
    BY <2>1, <2>2 DEF SyncsOnlyAtZero, NothingSkipped, Start, Existing, etcdVars
<1>9. ASSUME NEW w \in Watches, NEW c \in chans[w], Register(w, c) PROVE WatchInv'
  <2> DEFINE d == [c EXCEPT !.registered = TRUE]
  <2>0. c \in ChanType(L)
    BY DEF WatchType
  <2>1. /\ d \in ChanType(L) /\ d.range = c.range /\ d.next = c.next
        /\ d.from = c.from /\ d.todo = c.todo
    BY <2>0 DEF ChanType
  <2>2. chans' = [chans EXCEPT ![w] = (@ \ {c}) \cup {d}]
    BY <1>9 DEF Register
  <2>3. UNCHANGED <<etcdVars, run, rev, stopped, draining, got>>
    BY <1>9 DEF Register
  <2> HIDE DEF d
  <2>4. Owed(w, c) /\ (c.from = 0 => rev[w] = 0)
    BY SkippedParts DEF SyncsOnlyAtZero
  <2>5. Start(w, d) = Start(w, c)
    BY <2>1 DEF Start
  <2>6. got' \in [Watches -> SUBSET (1 .. L)]
    BY <2>3 DEF WatchType
  <2>7. /\ \A n \in Start(w, d) + 1 .. d.next - 1 :
             log[n].tenant \in TenantsIn(d.range) => n \in got'[w]
        /\ rev[w] = 0 => Existing(d.from) \subseteq got'[w] \cup d.todo
    BY <2>1, <2>3, <2>4, <2>5 DEF Owed
  <2>8. QED
    BY <2>1, <2>2, <2>3, <2>4, <2>6, <2>7, ReplaceChan
<1>10. ASSUME NEW w \in Watches, NEW c \in chans[w], Deliver(w, c) PROVE WatchInv'
  <2>1. PICK m \in 1 .. L :
          /\ NextIn(c.range, c.next, m)
          /\ chans' = [chans EXCEPT ![w] = (@ \ {c}) \cup {[c EXCEPT !.next = m + 1]}]
          /\ got' = [got EXCEPT ![w] = @ \cup {m}]
    BY <1>10 DEF Deliver
  <2>2. UNCHANGED <<etcdVars, run, rev, stopped, draining>>
    BY <1>10 DEF Deliver
  <2>3. m \in Nat /\ m + 1 \in 1 .. L + 1 /\ c \in ChanType(L)
    BY <1>0 DEF WatchType
  <2> DEFINE d == [c EXCEPT !.next = m + 1]
  <2>4. /\ c.next \in 1 .. L + 1 /\ c.from \in 0 .. L
        /\ d \in ChanType(L) /\ d.range = c.range /\ d.next = m + 1
        /\ d.from = c.from /\ d.todo = c.todo
    BY <1>0, <2>3 DEF ChanType
  <2>5. chans' = [chans EXCEPT ![w] = (@ \ {c}) \cup {d}]
    BY <2>1
  <2> HIDE DEF d
  <2>6. Owed(w, c) /\ (c.from = 0 => rev[w] = 0)
    BY SkippedParts DEF SyncsOnlyAtZero
  <2>7. Start(w, d) = Start(w, c) /\ Start(w, c) \in 0 .. L
    BY <2>4 DEF Start, WatchType
  <2>8. /\ got' \in [Watches -> SUBSET (1 .. L)] /\ m \in got'[w]
        /\ \A v \in Watches : got[v] \subseteq got'[v]
    BY <2>1 DEF WatchType
  <2>9. ASSUME NEW n \in Start(w, d) + 1 .. d.next - 1, log[n].tenant \in TenantsIn(d.range)
        PROVE  n \in got'[w]
    <3>1. n \in Start(w, c) + 1 .. m
      BY <1>0, <2>3, <2>4, <2>7
    <3>2. CASE n \in Start(w, c) + 1 .. c.next - 1
      BY <2>4, <2>6, <2>8, <2>9, <3>2 DEF Owed
    <3>3. CASE n \in c.next .. m - 1
      BY <2>1, <2>4, <2>9, <3>3 DEF NextIn
    <3>4. CASE n = m
      BY <2>8, <3>4
    <3>5. QED
      BY <2>3, <2>4, <2>7, <3>1, <3>2, <3>3, <3>4
  <2>10. rev[w] = 0 => Existing(d.from) \subseteq got'[w] \cup d.todo
    BY <2>4, <2>6, <2>8 DEF Owed
  <2>11. QED
    BY <2>2, <2>4, <2>5, <2>6, <2>8, <2>9, <2>10, ReplaceChan
<1>11. ASSUME NEW w \in Watches, NEW c \in chans[w], Sync(w, c) PROVE WatchInv'
  <2> DEFINE d == [c EXCEPT !.from = L, !.next = L + 1, !.todo = Existing(L)]
  <2>0. c \in ChanType(L) /\ Existing(L) \in SUBSET (1 .. L)
    BY DEF WatchType, Existing
  <2>1. /\ d \in ChanType(L) /\ d.range = c.range /\ d.next = L + 1
        /\ d.from = L /\ d.todo = Existing(L)
    <3>1. L \in 0 .. L /\ L + 1 \in 1 .. L + 1
      BY <1>0
    <3> HIDE DEF L
    <3>2. ASSUME NEW t \in SUBSET (1 .. L)
          PROVE  LET e == [c EXCEPT !.from = L, !.next = L + 1, !.todo = t]
                 IN  /\ e \in ChanType(L) /\ e.range = c.range /\ e.next = L + 1
                     /\ e.from = L /\ e.todo = t
      BY <2>0, <3>1 DEF ChanType
    <3>3. QED
      BY <2>0, <3>2
  <2>2. chans' = [chans EXCEPT ![w] = (@ \ {c}) \cup {d}]
    BY <1>11 DEF Sync
  <2>3. UNCHANGED <<etcdVars, run, rev, stopped, draining, got>>
    BY <1>11 DEF Sync
  <2> HIDE DEF d
  <2>4. rev[w] = 0
    BY <1>11 DEF Sync, SyncsOnlyAtZero
  <2>5. Start(w, d) + 1 .. d.next - 1 = {}
    BY <1>0, <2>1, <2>4 DEF Start
  <2>6. got' \in [Watches -> SUBSET (1 .. L)]
    BY <2>3 DEF WatchType
  <2>7. Existing(d.from) \subseteq got'[w] \cup d.todo
    BY <2>1
  <2>8. \A n \in Start(w, d) + 1 .. d.next - 1 :
          log[n].tenant \in TenantsIn(d.range) => n \in got'[w]
    BY <2>5
  <2>9. \A v \in Watches : got[v] \subseteq got'[v]
    BY <2>3
  <2>10. QED
    BY <2>1, <2>2, <2>3, <2>4, <2>6, <2>7, <2>8, <2>9, ReplaceChan
<1>12. ASSUME NEW w \in Watches, NEW c \in chans[w], HandOut(w, c) PROVE WatchInv'
  <2>1. PICK n \in c.todo :
          /\ chans' = [chans EXCEPT ![w] = (@ \ {c}) \cup {[c EXCEPT !.todo = @ \ {n}]}]
          /\ got' = [got EXCEPT ![w] = @ \cup {n}]
    BY <1>12 DEF HandOut
  <2>2. UNCHANGED <<etcdVars, run, rev, stopped, draining>>
    BY <1>12 DEF HandOut
  <2>3. c \in ChanType(L) /\ n \in 1 .. L
    BY <1>0, ChanParts DEF WatchType
  <2> DEFINE d == [c EXCEPT !.todo = @ \ {n}]
  <2>4. /\ d \in ChanType(L) /\ d.range = c.range /\ d.next = c.next
        /\ d.from = c.from /\ d.todo = c.todo \ {n}
    BY <2>3 DEF ChanType
  <2>5. chans' = [chans EXCEPT ![w] = (@ \ {c}) \cup {d}]
    BY <2>1
  <2> HIDE DEF d
  <2>6. Owed(w, c) /\ (c.from = 0 => rev[w] = 0)
    BY SkippedParts DEF SyncsOnlyAtZero
  <2>7. Start(w, d) = Start(w, c)
    BY <2>4 DEF Start
  <2>8. /\ got' \in [Watches -> SUBSET (1 .. L)] /\ n \in got'[w]
        /\ \A v \in Watches : got[v] \subseteq got'[v]
    BY <2>1, <2>3 DEF WatchType
  <2>9. /\ \A k \in Start(w, d) + 1 .. d.next - 1 :
             log[k].tenant \in TenantsIn(d.range) => k \in got'[w]
        /\ rev[w] = 0 => Existing(d.from) \subseteq got'[w] \cup d.todo
    BY <2>4, <2>6, <2>7, <2>8 DEF Owed
  <2>10. QED
    BY <2>2, <2>4, <2>5, <2>6, <2>8, <2>9, ReplaceChan
<1>13. ASSUME NEW w \in Watches, NEW c \in draining[w], Drain(w, c) PROVE WatchInv'
  <2>1. UNCHANGED <<etcdVars, run, rev, stopped, chans>>
    BY <1>13 DEF Drain
  <2>2. c \in DrainType(L)
    BY DEF WatchType
  <2> DEFINE Goal == /\ draining' \in [Watches -> SUBSET DrainType(L)]
                     /\ got' \in [Watches -> SUBSET (1 .. L)]
                     /\ \A v \in Watches : got[v] \subseteq got'[v]
  <2>3. ASSUME NEW d \in DrainType(L), NEW m \in 1 .. L,
               draining' = [draining EXCEPT ![w] = (@ \ {c}) \cup {d}],
               got' = [got EXCEPT ![w] = @ \cup {m}]
        PROVE  Goal
    BY <2>3 DEF WatchType
  <2>4. Goal
    <3>1. CASE draining' = [draining EXCEPT ![w] = @ \ {c}] /\ UNCHANGED got
      BY <3>1 DEF WatchType
    <3>2. ASSUME NEW n \in c.todo,
                 draining' = [draining EXCEPT ![w] = (@ \ {c}) \cup {[c EXCEPT !.todo = @ \ {n}]}],
                 got' = [got EXCEPT ![w] = @ \cup {n}]
          PROVE  Goal
      <4>1. n \in 1 .. L /\ [c EXCEPT !.todo = @ \ {n}] \in DrainType(L)
        BY <2>2 DEF DrainType
      <4> HIDE DEF Goal
      <4>2. QED
        BY <2>3, <3>2, <4>1
    <3>3. ASSUME NEW m \in 1 .. c.last,
                 draining' = [draining EXCEPT ![w] = (@ \ {c}) \cup {[c EXCEPT !.next = m + 1]}],
                 got' = [got EXCEPT ![w] = @ \cup {m}]
          PROVE  Goal
      <4>1. c.last \in 0 .. L
        BY <2>2 DEF DrainType
      <4>2. m \in 1 .. L /\ m + 1 \in 1 .. L + 1
        BY <1>0, <4>1
      <4>3. [c EXCEPT !.next = m + 1] \in DrainType(L)
        BY <2>2, <4>2 DEF DrainType
      <4> HIDE DEF Goal
      <4>4. QED
        BY <2>3, <3>3, <4>2, <4>3
    <3> HIDE DEF Goal
    <3>4. QED
      BY <1>13, <3>1, <3>2, <3>3 DEF Drain
  <2>5. WatchType'
    BY <2>1, <2>4 DEF WatchType, etcdVars
  <2>6. ASSUME NEW v \in Watches, NEW e \in chans'[v] PROVE Owed(v, e)'
    <3>1. Owed(v, e) /\ got[v] \subseteq got'[v]
      BY <2>1, <2>4, SkippedParts
    <3>2. UNCHANGED <<log, rev>>
      BY <2>1 DEF etcdVars
    <3>3. Start(v, e)' = Start(v, e) /\ Existing(e.from)' = Existing(e.from)
      BY <3>2 DEF Start, Existing
    <3>4. QED
      BY <3>1, <3>2, <3>3 DEF Owed
  <2>7. NothingSkipped'
    BY <2>6 DEF NothingSkipped, Owed
  <2>8. QED
    BY <2>1, <2>5, <2>7 DEF Unopened, SyncsOnlyAtZero
<1>14. CASE WriteDataPartition \/ UNCHANGED vars
  BY <1>1, <1>14 DEF WriteDataPartition, vars, watchVars, etcdVars
<1>15. ASSUME NEW n \in 1 .. MaxVersions,
              \/ AddDataPartition(n) \/ UpdateDataPartition(n)
              \/ DeleteDataPartition(n) \/ SendDataPartition(n)
       PROVE  WatchInv'
  BY <1>1, <1>15
  DEF AddDataPartition, UpdateDataPartition, DeleteDataPartition, SendDataPartition, watchVars
<1>16. QED
  BY NextCases, <1>2, <1>3, <1>4, <1>5, <1>6, <1>7, <1>8, <1>9, <1>10, <1>11, <1>12,
     <1>13, <1>14, <1>15

-----------------------------------------------------------------------------
(* The invariant and what follows from it.                                 *)

\* An API server that starts has no event, no watch and no message.
LEMMA InitInv == Init => IInv
<1> SUFFICES ASSUME Init PROVE IInv
  OBVIOUS
<1>1. Len(<< >>) = 0 /\ << >> \in Seq(Intervals) /\ << >> \in Seq(Versions)
  OBVIOUS
<1>2. ManagerType
  <2>1. initialized \in BOOLEAN /\ dead \in BOOLEAN
    BY DEF Init
  <2>2. /\ hist = << >> /\ seen \in [Objects -> {0}] /\ config = FileInterval /\ sending = {}
        /\ messages = << >> /\ partitionConfig = FileInterval
        /\ message \in [Watches -> Intervals \cup {FileInterval}]
    BY DEF Init
  <2>3. QED
    BY <1>1, <2>1, <2>2, BoundAssumption DEF ManagerType
<1>3. WatchType
  <2> DEFINE first == [tenant |-> 0, deleted |-> FALSE]
  <2>1. first \in EventType
    BY TenantAssumption DEF EventType
  <2> HIDE DEF first
  <2>2. <<first>> \in Seq(EventType) /\ Len(<<first>>) = 1
    BY <2>1
  <2>3. log \in Seq(EventType) /\ Len(log) = 1
    BY <2>2 DEF Init, first
  <2>4. QED
    BY <2>3 DEF Init, WatchType
<1>4. AnnouncesRanges /\ KnownFromEvent /\ Unopened /\ SyncsOnlyAtZero /\ NothingSkipped
      /\ FatalOnlyIfSecond
  BY DEF Init, AnnouncesRanges, KnownFromEvent, Unopened, SyncsOnlyAtZero, NothingSkipped,
         FatalOnlyIfSecond
<1>5. QED
  BY <1>2, <1>3, <1>4, TypeParts DEF IInv

\* The inductive invariant holds in every reachable state.
LEMMA Inductive == Spec => []IInv
<1>1. Init => IInv
  BY InitInv
<1>2. IInv /\ [Next]_vars => IInv'
  <2> SUFFICES ASSUME IInv, [Next]_vars PROVE IInv'
    OBVIOUS
  <2>1. ManagerInv /\ WatchInv
    BY TypeParts DEF IInv, ManagerInv, WatchInv
  <2>2. ManagerInv'
    BY <2>1, NextManager
  <2>3. WatchInv'
    BY <2>1, NextWatch DEF ManagerInv
  <2>4. TypeOK'
    BY <2>2, <2>3
    DEF ManagerInv, WatchInv, TypeOK, ManagerType, WatchType, ChanType, DrainType, EventType
  <2>5. QED
    BY <2>2, <2>3, <2>4 DEF IInv, ManagerInv, WatchInv
<1>3. QED
  BY <1>1, <1>2, PTL DEF Spec

\* Manager and watches keep their variables in range: what is announced, taken
\* from a message and watched is always a range of the partition objects or of
\* the file, and no channel looks beyond the log.
THEOREM TypeCorrect == Spec => []TypeOK
<1>1. IInv => TypeOK
  BY DEF IInv
<1>2. QED
  BY Inductive, <1>1, PTL

\* run opens the channels of a new range at the revision the watch was asked
\* for, so however often the range moves, whatever watch takes the message and
\* wherever the stopped channels were, no event behind a channel is missing.
\* For a watch asked for at revision 0, startWatching reads what exists at every
\* reset: none of that is missing, and no event after it.
THEOREM NothingIsSkipped == Spec => []NothingSkipped
<1>1. IInv => NothingSkipped
  BY DEF IInv
<1>2. QED
  BY Inductive, <1>1, PTL

\* addDataPartition ends the API server only if its service group had a second
\* data partition: the manager knows of a partition from an earlier event only,
\* so the object of a second add has another name, or a deletion before it.
THEOREM FatalNeedsSecond == Spec => []FatalOnlyIfSecond
<1>1. IInv => FatalOnlyIfSecond
  BY DEF IInv
<1>2. QED
  BY Inductive, <1>1, PTL

=============================================================================
