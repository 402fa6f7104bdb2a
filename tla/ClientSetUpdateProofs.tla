----------------------- MODULE ClientSetUpdateProofs ------------------------
(***************************************************************************)
(* The update of the API server configuration, for any finite sets of      *)
(* Configs and clients, any server maps and any number of changes: counts, *)
(* the slices of the clients, and the rounds it implements.                *)
(*                                                                         *)
(* The argument follows one token for each client.  StartWaitingForComplete*)
(* makes the tokens, a message to the Config carries them, the Config's    *)
(* message hands each client its own, and NotifyDone takes it away.  While *)
(* there is a token the read lock is held, so the map does not change; and *)
(* there are never two for one client.                                     *)
(***************************************************************************)
EXTENDS ClientSetUpdate, TLAPS, FiniteSetTheorems, SequenceTheorems

-----------------------------------------------------------------------------
(* The parts of the inductive invariant.                                   *)

Critical == {"compare", "lock", "write", "start", "count"}

\* APIServerConfigManager.mux is held by the update in its critical section.
Exclusive == \A u \in Updates : upd[u] \in Critical <=> mux = u

\* An update has a map to store, and goes on to store it only if it is new.
NewMap ==
  \A u \in Updates : /\ upd[u] # "none" => managerMap # NoMap
                     /\ upd[u] \in {"lock", "write"} => managerMap # apiServerMap

\* Nobody is late once an update has begun.
NobodyLate == (\E u \in Updates : upd[u] \notin {"none", "wait"}) => StartUpOver

UpdateInv == Exclusive /\ NewMap /\ NobodyLate

Flag(b) == IF b THEN 1 ELSE 0

Sending == \E u \in Updates : upd[u] = "send"

\* What client k has still to do of a round: it is in the message to its
\* Config, with the Config, in the message to the client, or with the client.
Tokens(k) ==
  Flag(Sending) + cfgMsgs[ConfigOf[k]] + Flag(cfgPc[ConfigOf[k]] \in {"update", "notify"})
  + cliMsgs[k] + Flag(cliPc[k] \in {"fill", "done"})

\* The read lock that StartWaitingForComplete keeps is held by one round, which
\* began when there was none, and while there is anything left to do of it.
OneRound ==
  /\ readers \in {0, 1} /\ (readers = 1 => startWaiting)
  /\ \A u \in Updates : upd[u] = "count" => startWaiting
  /\ \A u \in Updates : upd[u] \in {"start", "count"} => readers = 0
  /\ \A u \in Updates : upd[u] = "send" => readers = 1
  /\ \A u, v \in Updates : upd[u] = "send" /\ upd[v] = "send" => u = v
  /\ readers = 1 => StartUpOver

OneToken ==
  \A k \in Clients : /\ Tokens(k) \in {0, 1}
                     /\ Tokens(k) = 1 \/ cliPc[k] = "store" => readers = 1

RoundInv == OneRound /\ OneToken

\* What a client finds on its way through a round is the map of the round.
Fresh ==
  \A k \in Clients :
    LET c == ConfigOf[k] IN
    /\ cfgPc[c] = "notify" \/ cliMsgs[k] > 0 \/ cliPc[k] \in {"fill", "done"}
         => config[c] = apiServerMap
    /\ cliPc[k] = "fill" => size[k] = Cardinality(config[c])
    /\ cliPc[k] = "done" => restClients[k] = apiServerMap
    /\ readers = 1 /\ Tokens(k) = 0 => restClients[k] = apiServerMap

Counted == {k \in Clients : cliPc[k] \notin {"new", "joined"}}

Left == {k \in Clients : Tokens(k) = 1}

\* watcherCount and waitingCount are numbers of clients; between the two
\* steps of NotifyDone waitingCount is one too large.
Counts ==
  /\ watcherCount = Cardinality(Counted)
  /\ \A k \in Clients : wmux = k <=> cliPc[k] = "store"
  /\ wmux = Free => waitingCount = Cardinality(Left)
  /\ \A k \in Clients : cliPc[k] = "store" => /\ saw[k] = waitingCount
                                              /\ waitingCount = Cardinality(Left) + 1

IInv == TypeOK /\ UpdateInv /\ RoundInv /\ Fresh /\ Counts

-----------------------------------------------------------------------------
(* Types.                                                                  *)

\* The actions of Next.
LEMMA NextCases ==
  ASSUME Next
  PROVE  \/ ChangeEndpoints \/ SyncApiServerConfig \/ ListEndpoints \/ UpdateApiServer
         \/ \E u \in Updates :
              \/ BeginUpdate(u) \/ CompareServerMap(u) \/ LockServerMap(u)
              \/ SetAPIServerConfig(u) \/ LockStartWaiting(u)
              \/ StartWaitingForComplete(u) \/ SendUpdateMessage(u)
         \/ \E c \in Configs :
              JoinConfig(c) \/ ReadConfigMessage(c) \/ UpdateConfig(c) \/ NotifyClients(c)
         \/ \E k \in Clients :
              \/ WatchUpdate(k) \/ AddWatcher(k) \/ AllocateClients(k) \/ RebuildClients(k)
              \/ NotifyLast(k) \/ NotifyDone(k) \/ StoreWaitingCount(k)
BY DEF Next, InformerStep, UpdateStep, ConfigStep, ClientStep

\* The types of the manager's state.
ManagerType ==
  /\ hist \in Seq(Maps) /\ Len(hist) \in 1 .. MaxChanges + 1
  /\ seen \in 0 .. Len(hist) /\ started \in BOOLEAN
  /\ managerMap \in SUBSET Servers /\ initialized \in BOOLEAN
  /\ mux \in Updates \cup {Free}
  /\ upd \in [Updates -> {"none", "wait", "compare", "lock", "write", "start",
                          "count", "send", "done"}]

\* ... of the locks and counters
LockType ==
  /\ apiServerMap \in SUBSET Servers /\ readers \in Nat /\ pending \in BOOLEAN
  /\ startWaiting \in BOOLEAN
  /\ watcherCount \in Nat /\ waitingCount \in Int /\ wmux \in Clients \cup {Free}
  /\ resets \in Nat

\* ... and of the Configs and clients
ReceiverType ==
  /\ cfgMsgs \in [Configs -> Nat]
  /\ cfgPc \in [Configs -> {"new", "read", "update", "notify"}]
  /\ config \in [Configs -> SUBSET Servers]
  /\ cliMsgs \in [Clients -> Nat]
  /\ cliPc \in [Clients -> {"new", "joined", "read", "fill", "done", "store"}]
  /\ size \in [Clients -> Nat] /\ saw \in [Clients -> Int]
  /\ restClients \in [Clients -> SUBSET Servers]

\* The type invariant is made of these three.
LEMMA TypeParts == TypeOK <=> ManagerType /\ LockType /\ ReceiverType
BY DEF TypeOK, ManagerType, LockType, ReceiverType

\* Versions of the endpoints are server maps; a new one leaves the others alone.
LEMMA HistFacts ==
  ASSUME ManagerType
  PROVE  /\ Len(hist) \in Nat /\ Endpoints \in Maps
         /\ \A n \in 1 .. Len(hist) : hist[n] \in Maps
BY ElementOfSeq, LenProperties, MaxChangesAssumption DEF ManagerType, Endpoints

\* The manager's variables keep their types.
LEMMA NextManagerType ==
  ASSUME ManagerType, [Next]_vars
  PROVE  ManagerType'
<1>1. CASE UNCHANGED managerVars
  BY <1>1 DEF managerVars, ManagerType
<1>2. CASE ChangeEndpoints
  <2>1. PICK m \in Maps : hist' = Append(hist, m)
    BY <1>2 DEF ChangeEndpoints
  <2>2. hist' \in Seq(Maps) /\ Len(hist') = Len(hist) + 1
    BY <2>1, AppendProperties DEF ManagerType
  <2>3. QED
    BY <1>2, <2>2, HistFacts, MaxChangesAssumption DEF ChangeEndpoints, ManagerType
<1>3. ASSUME NEW m \in Maps, SetApiServerConfigMap(m)
      PROVE  /\ managerMap' \in SUBSET Servers
             /\ upd' \in [Updates -> {"none", "wait", "compare", "lock", "write", "start",
                                      "count", "send", "done"}]
  BY <1>3 DEF SetApiServerConfigMap, Maps, ManagerType
<1>4. CASE SyncApiServerConfig
  <2>1. started' \in BOOLEAN
    BY <1>4 DEF SyncApiServerConfig
  <2>2. QED
    BY <1>3, <1>4, <2>1, HistFacts DEF SyncApiServerConfig, ManagerType
<1>5. CASE ListEndpoints
  BY <1>5, HistFacts DEF ListEndpoints, ManagerType
<1>6. CASE UpdateApiServer
  <2>1. PICK n \in seen + 1 .. Len(hist) :
          /\ seen' = n
          /\ IF hist[n] = hist[seen] THEN UNCHANGED <<managerMap, upd>>
             ELSE SetApiServerConfigMap(hist[n])
    BY <1>6 DEF UpdateApiServer
  <2>2. n \in 1 .. Len(hist)
    BY HistFacts DEF ManagerType
  <2>3. QED
    BY <1>3, <1>6, <2>1, <2>2, HistFacts DEF UpdateApiServer, ManagerType
<1>7. ASSUME NEW u \in Updates,
             \/ BeginUpdate(u) \/ CompareServerMap(u) \/ LockServerMap(u)
             \/ SetAPIServerConfig(u) \/ LockStartWaiting(u)
             \/ StartWaitingForComplete(u) \/ SendUpdateMessage(u)
      PROVE  ManagerType'
  <2>1. /\ mux' \in Updates \cup {Free} /\ UNCHANGED <<hist, seen, started, managerMap>>
        /\ \E l \in {"compare", "lock", "write", "start", "count", "send", "done"} :
             upd' = [upd EXCEPT ![u] = l]
    BY <1>7
    DEF BeginUpdate, CompareServerMap, LockServerMap, SetAPIServerConfig, LockStartWaiting,
        StartWaitingForComplete, SendUpdateMessage, ManagerType
  <2>2. initialized' \in BOOLEAN
    BY <1>7
    DEF BeginUpdate, CompareServerMap, LockServerMap, SetAPIServerConfig, LockStartWaiting,
        StartWaitingForComplete, SendUpdateMessage, ManagerType
  <2>3. QED
    BY <2>1, <2>2 DEF ManagerType
<1>8. ASSUME NEW c \in Configs,
             JoinConfig(c) \/ ReadConfigMessage(c) \/ UpdateConfig(c) \/ NotifyClients(c)
      PROVE  UNCHANGED managerVars
  BY <1>8 DEF JoinConfig, ReadConfigMessage, UpdateConfig, NotifyClients
<1>9. ASSUME NEW k \in Clients,
             \/ WatchUpdate(k) \/ AddWatcher(k) \/ AllocateClients(k) \/ RebuildClients(k)
             \/ NotifyLast(k) \/ NotifyDone(k) \/ StoreWaitingCount(k)
      PROVE  UNCHANGED managerVars
  BY <1>9 DEF WatchUpdate, AddWatcher, AllocateClients, RebuildClients, NotifyLast,
              NotifyDone, StoreWaitingCount
<1>10. CASE UNCHANGED vars
  BY <1>1, <1>10 DEF vars, managerVars
<1>11. QED
  BY NextCases, <1>1, <1>2, <1>4, <1>5, <1>6, <1>7, <1>8, <1>9, <1>10

\* A client that is done with its round holds a read lock to release.
LEMMA DoneInRound ==
  ASSUME ReceiverType, OneRound, OneToken, NEW k \in Clients, cliPc[k] \in {"fill", "done"}
  PROVE  readers = 1 /\ Tokens(k) = 1
<1>1. ConfigOf[k] \in Configs
  BY ConfigOfAssumption
<1>2. cfgMsgs[ConfigOf[k]] \in Nat /\ cliMsgs[k] \in Nat
  BY <1>1 DEF ReceiverType
<1>3. Tokens(k) >= 1
  BY <1>2 DEF Tokens, Flag
<1>4. QED
  BY <1>3 DEF OneToken

\* Locks and counters keep their types.
LEMMA NextLockType ==
  ASSUME ManagerType, LockType, ReceiverType, RoundInv, [Next]_vars
  PROVE  LockType'
<1>1. CASE UNCHANGED <<lockVars, countVars>>
  BY <1>1 DEF lockVars, countVars, LockType
<1>2. ASSUME NEW u \in Updates, LockServerMap(u) \/ LockStartWaiting(u) PROVE LockType'
  <2>1. pending' \in BOOLEAN /\ startWaiting' \in BOOLEAN
    BY <1>2 DEF LockServerMap, LockStartWaiting, LockType
  <2>2. UNCHANGED <<apiServerMap, readers, countVars>>
    BY <1>2 DEF LockServerMap, LockStartWaiting
  <2>3. QED
    BY <2>1, <2>2 DEF LockType, countVars
<1>3. ASSUME NEW u \in Updates, SetAPIServerConfig(u) PROVE LockType'
  <2>1. pending' \in BOOLEAN
    BY <1>3 DEF SetAPIServerConfig
  <2>2. QED
    BY <1>3, <2>1 DEF SetAPIServerConfig, LockType, ManagerType, countVars
<1>4. ASSUME NEW u \in Updates, StartWaitingForComplete(u) PROVE LockType'
  BY <1>4 DEF StartWaitingForComplete, LockType
<1>5. ASSUME NEW k \in Clients, NotifyLast(k) PROVE LockType'
  <2>1. readers = 1
    BY <1>5, DoneInRound DEF NotifyLast, RoundInv
  <2>2. startWaiting' \in BOOLEAN
    BY <1>5 DEF NotifyLast
  <2>3. QED
    BY <1>5, <2>1, <2>2 DEF NotifyLast, LockType
<1>6. ASSUME NEW k \in Clients, AddWatcher(k) \/ NotifyDone(k) \/ StoreWaitingCount(k)
      PROVE  LockType'
  BY <1>6 DEF AddWatcher, NotifyDone, StoreWaitingCount, LockType, ReceiverType, lockVars
<1>7. ASSUME \/ ChangeEndpoints \/ SyncApiServerConfig \/ ListEndpoints \/ UpdateApiServer
             \/ UNCHANGED vars
             \/ \E u \in Updates : BeginUpdate(u) \/ CompareServerMap(u) \/ SendUpdateMessage(u)
      PROVE  UNCHANGED <<lockVars, countVars>>
  BY <1>7 DEF ChangeEndpoints, SyncApiServerConfig, ListEndpoints, UpdateApiServer, vars,
              BeginUpdate, CompareServerMap, SendUpdateMessage, lockVars, countVars
<1>8. ASSUME \/ \E c \in Configs :
                  JoinConfig(c) \/ ReadConfigMessage(c) \/ UpdateConfig(c) \/ NotifyClients(c)
             \/ \E k \in Clients :
                  WatchUpdate(k) \/ AllocateClients(k) \/ RebuildClients(k)
      PROVE  UNCHANGED <<lockVars, countVars>>
  BY <1>8 DEF JoinConfig, ReadConfigMessage, UpdateConfig, NotifyClients, WatchUpdate,
              AllocateClients, RebuildClients
<1>9. QED
  BY NextCases, <1>1, <1>2, <1>3, <1>4, <1>5, <1>6, <1>7, <1>8

\* A server map has finitely many servers.
LEMMA MapSize ==
  ASSUME NEW m \in SUBSET Servers
  PROVE  Cardinality(m) \in Nat
BY ServersAssumption, FS_Subset, FS_CardinalityType

\* Configs and clients keep their types.
LEMMA NextReceiverType ==
  ASSUME LockType, ReceiverType, [Next]_vars
  PROVE  ReceiverType'
<1>1. CASE UNCHANGED <<cfgVars, cliVars>>
  BY <1>1 DEF cfgVars, cliVars, ReceiverType
<1>2. ASSUME NEW u \in Updates, SendUpdateMessage(u) PROVE ReceiverType'
  BY <1>2 DEF SendUpdateMessage, ReceiverType, cliVars
<1>3. ASSUME NEW c \in Configs, JoinConfig(c) \/ ReadConfigMessage(c) PROVE ReceiverType'
  BY <1>3 DEF JoinConfig, ReadConfigMessage, ReceiverType, cliVars
<1>4. ASSUME NEW c \in Configs, UpdateConfig(c) PROVE ReceiverType'
  BY <1>4 DEF UpdateConfig, ReceiverType, LockType, cliVars
<1>5. ASSUME NEW c \in Configs, NotifyClients(c) PROVE ReceiverType'
  BY <1>5 DEF NotifyClients, ReceiverType
<1>6. ASSUME NEW k \in Clients, WatchUpdate(k) \/ AddWatcher(k) \/ NotifyLast(k) \/ StoreWaitingCount(k)
      PROVE  ReceiverType'
  BY <1>6 DEF WatchUpdate, AddWatcher, NotifyLast, StoreWaitingCount, ReceiverType, cfgVars
<1>7. ASSUME NEW k \in Clients, AllocateClients(k) PROVE ReceiverType'
  <2>1. Cardinality(config[ConfigOf[k]]) \in Nat
    BY MapSize, ConfigOfAssumption DEF ReceiverType
  <2>2. QED
    BY <1>7, <2>1 DEF AllocateClients, ReceiverType, cfgVars
<1>8. ASSUME NEW k \in Clients, RebuildClients(k) PROVE ReceiverType'
  BY <1>8, ConfigOfAssumption DEF RebuildClients, ReceiverType, cfgVars
<1>9. ASSUME NEW k \in Clients, NotifyDone(k) PROVE ReceiverType'
  BY <1>9 DEF NotifyDone, ReceiverType, LockType, cfgVars
<1>10. ASSUME \/ ChangeEndpoints \/ SyncApiServerConfig \/ ListEndpoints \/ UpdateApiServer
              \/ UNCHANGED vars
              \/ \E u \in Updates :
                   \/ BeginUpdate(u) \/ CompareServerMap(u) \/ LockServerMap(u)
                   \/ SetAPIServerConfig(u) \/ LockStartWaiting(u) \/ StartWaitingForComplete(u)
       PROVE  UNCHANGED <<cfgVars, cliVars>>
  BY <1>10 DEF ChangeEndpoints, SyncApiServerConfig, ListEndpoints, UpdateApiServer, vars,
               BeginUpdate, CompareServerMap, LockServerMap, SetAPIServerConfig,
               LockStartWaiting, StartWaitingForComplete, cfgVars, cliVars
<1>11. QED
  BY NextCases, <1>1, <1>2, <1>3, <1>4, <1>5, <1>6, <1>7, <1>8, <1>9, <1>10

-----------------------------------------------------------------------------
(* The updates.                                                            *)

\* No update is mistaken for nobody.
LEMMA FreeMux == Free \notin Updates /\ \A u \in Updates : u # Free
BY MaxChangesAssumption DEF Free, Updates

\* Once everybody listens, everybody goes on listening.
LEMMA StartUpStaysOver ==
  ASSUME ReceiverType, StartUpOver, [Next]_vars
  PROVE  StartUpOver'
<1>1. CASE UNCHANGED <<cfgPc, cliPc>>
  BY <1>1 DEF StartUpOver
<1>2. ASSUME NEW c \in Configs,
             JoinConfig(c) \/ ReadConfigMessage(c) \/ UpdateConfig(c) \/ NotifyClients(c)
      PROVE  StartUpOver'
  BY <1>2 DEF JoinConfig, ReadConfigMessage, UpdateConfig, NotifyClients, StartUpOver,
              ReceiverType, cliVars
<1>3. ASSUME NEW k \in Clients,
             \/ WatchUpdate(k) \/ AddWatcher(k) \/ AllocateClients(k) \/ RebuildClients(k)
             \/ NotifyLast(k) \/ NotifyDone(k) \/ StoreWaitingCount(k)
      PROVE  StartUpOver'
  BY <1>3 DEF WatchUpdate, AddWatcher, AllocateClients, RebuildClients, NotifyLast,
              NotifyDone, StoreWaitingCount, StartUpOver, ReceiverType, cfgVars
<1>4. ASSUME \/ ChangeEndpoints \/ SyncApiServerConfig \/ ListEndpoints \/ UpdateApiServer
             \/ UNCHANGED vars
             \/ \E u \in Updates :
                  \/ BeginUpdate(u) \/ CompareServerMap(u) \/ LockServerMap(u)
                  \/ SetAPIServerConfig(u) \/ LockStartWaiting(u)
                  \/ StartWaitingForComplete(u) \/ SendUpdateMessage(u)
      PROVE  UNCHANGED <<cfgPc, cliPc>>
  BY <1>4 DEF ChangeEndpoints, SyncApiServerConfig, ListEndpoints, UpdateApiServer, vars,
              BeginUpdate, CompareServerMap, LockServerMap, SetAPIServerConfig,
              LockStartWaiting, StartWaitingForComplete, SendUpdateMessage, cfgVars, cliVars
<1>5. QED
  BY NextCases, <1>1, <1>2, <1>3, <1>4

\* What a change of the endpoints does to the updates: one more waits.
LEMMA NewUpdate ==
  ASSUME ManagerType, SyncApiServerConfig \/ UpdateApiServer
  PROVE  /\ UNCHANGED <<mux, lockVars, countVars, cfgVars, cliVars>>
         /\ \/ UNCHANGED <<managerMap, upd>>
            \/ /\ mux = Free /\ managerMap' # NoMap
               /\ \E u \in Updates : upd[u] = "none" /\ upd' = [upd EXCEPT ![u] = "wait"]
<1>1. ASSUME NEW m \in Maps, SetApiServerConfigMap(m)
      PROVE  /\ mux = Free /\ managerMap' # NoMap
             /\ \E u \in Updates : upd[u] = "none" /\ upd' = [upd EXCEPT ![u] = "wait"]
  <2>1. m # NoMap
    BY DEF Maps, NoMap
  <2>2. QED
    BY <1>1, <2>1 DEF SetApiServerConfigMap
<1>2. CASE SyncApiServerConfig
  BY <1>1, <1>2, HistFacts DEF SyncApiServerConfig
<1>3. CASE UpdateApiServer
  <2>1. PICK n \in seen + 1 .. Len(hist) :
          /\ seen' = n
          /\ IF hist[n] = hist[seen] THEN UNCHANGED <<managerMap, upd>>
             ELSE SetApiServerConfigMap(hist[n])
    BY <1>3 DEF UpdateApiServer
  <2>2. n \in 1 .. Len(hist)
    BY HistFacts DEF ManagerType
  <2>3. QED
    BY <1>1, <1>3, <2>1, <2>2, HistFacts DEF UpdateApiServer
<1>4. QED
  BY <1>2, <1>3

\* Updates hold mux one at a time, with a new map, and begin when all listen.
LEMMA NextUpdateInv ==
  ASSUME ManagerType, ReceiverType, UpdateInv, [Next]_vars
  PROVE  UpdateInv'
<1> USE DEF UpdateInv
<1>1. CASE UNCHANGED <<managerMap, mux, upd, apiServerMap>>
  <2>1. Exclusive' /\ NewMap'
    BY <1>1 DEF Exclusive, NewMap
  <2>2. NobodyLate'
    BY <1>1, StartUpStaysOver DEF NobodyLate
  <2>3. QED
    BY <2>1, <2>2
<1>2. CASE SyncApiServerConfig \/ UpdateApiServer
  <2>1. /\ UNCHANGED <<mux, apiServerMap>>
        /\ \/ UNCHANGED <<managerMap, upd>>
           \/ /\ mux = Free /\ managerMap' # NoMap
              /\ \E u \in Updates : upd[u] = "none" /\ upd' = [upd EXCEPT ![u] = "wait"]
    BY <1>2, NewUpdate DEF lockVars
  <2>2. CASE UNCHANGED <<managerMap, upd>>
    BY <1>1, <2>1, <2>2
  <2>3. ASSUME mux = Free, managerMap' # NoMap, NEW u \in Updates, upd[u] = "none",
               upd' = [upd EXCEPT ![u] = "wait"]
        PROVE  UpdateInv'
    <3>1. \A v \in Updates : upd[v] \notin Critical /\ upd'[v] \notin Critical
      BY <2>3, FreeMux DEF Exclusive, Critical, ManagerType
    <3>2. Exclusive'
      BY <2>1, <2>3, <3>1, FreeMux DEF Exclusive
    <3>3. NewMap'
      BY <2>1, <2>3, <3>1 DEF NewMap, Critical
    <3>4. NobodyLate'
      BY <2>3, StartUpStaysOver DEF NobodyLate, ManagerType
    <3>5. QED
      BY <3>2, <3>3, <3>4
  <2>4. QED
    BY <2>1, <2>2, <2>3
<1>3. ASSUME NEW u \in Updates, BeginUpdate(u) PROVE UpdateInv'
  <2>1. /\ mux = Free /\ StartUpOver' /\ upd[u] = "wait"
        /\ UNCHANGED <<managerMap, apiServerMap>>
    BY <1>3, StartUpStaysOver DEF BeginUpdate, lockVars
  <2>2. \/ upd' = [upd EXCEPT ![u] = "done"] /\ mux' = mux
        \/ upd' = [upd EXCEPT ![u] = "compare"] /\ mux' = u
    BY <1>3 DEF BeginUpdate
  <2>3. Exclusive'
    BY <2>1, <2>2, FreeMux DEF Exclusive, Critical, ManagerType
  <2>4. NewMap'
    BY <2>1, <2>2 DEF NewMap, ManagerType
  <2>5. QED
    BY <2>1, <2>3, <2>4 DEF NobodyLate
<1>4. ASSUME NEW u \in Updates, CompareServerMap(u) PROVE UpdateInv'
  <2>1. upd[u] = "compare" /\ mux = u /\ StartUpOver' /\ UNCHANGED <<managerMap, apiServerMap>>
    BY <1>4, StartUpStaysOver DEF CompareServerMap, lockVars, Exclusive, Critical, NobodyLate
  <2>2. \/ upd' = [upd EXCEPT ![u] = "done"] /\ mux' = Free
        \/ upd' = [upd EXCEPT ![u] = "lock"] /\ mux' = u /\ managerMap # apiServerMap
    BY <1>4, <2>1 DEF CompareServerMap
  <2>3. Exclusive'
    BY <2>1, <2>2, FreeMux DEF Exclusive, Critical, ManagerType
  <2>4. NewMap'
    BY <2>1, <2>2 DEF NewMap, ManagerType
  <2>5. QED
    BY <2>1, <2>3, <2>4 DEF NobodyLate
<1>5. ASSUME NEW u \in Updates,
             \/ LockServerMap(u) \/ SetAPIServerConfig(u) \/ LockStartWaiting(u)
      PROVE  UpdateInv'
  <2>1. /\ upd[u] \in Critical \ {"compare", "count"} /\ mux = u /\ mux' = u /\ StartUpOver'
        /\ UNCHANGED managerMap
    BY <1>5, StartUpStaysOver
    DEF LockServerMap, SetAPIServerConfig, LockStartWaiting, Exclusive, Critical, NobodyLate
  <2>2. \/ upd[u] = "lock" /\ upd' = [upd EXCEPT ![u] = "write"] /\ UNCHANGED apiServerMap
        \/ upd' = [upd EXCEPT ![u] = "start"]
        \/ upd' = [upd EXCEPT ![u] = "count"] /\ UNCHANGED apiServerMap
    BY <1>5 DEF LockServerMap, SetAPIServerConfig, LockStartWaiting
  <2>3. Exclusive'
    BY <2>1, <2>2 DEF Exclusive, Critical, ManagerType
  <2>4. \A v \in Updates : upd[v] \in {"lock", "write"} => v = u
    BY <2>1 DEF Exclusive, Critical
  <2>5. NewMap'
    BY <2>1, <2>2, <2>4 DEF NewMap, ManagerType, Critical
  <2>6. QED
    BY <2>1, <2>3, <2>5 DEF NobodyLate
<1>6. ASSUME NEW u \in Updates, StartWaitingForComplete(u) PROVE UpdateInv'
  <2>1. /\ upd[u] = "count" /\ mux = u /\ mux' = Free /\ StartUpOver'
        /\ UNCHANGED <<managerMap, apiServerMap>> /\ upd' = [upd EXCEPT ![u] = "send"]
    BY <1>6, StartUpStaysOver DEF StartWaitingForComplete, Exclusive, Critical, NobodyLate
  <2>2. Exclusive'
    BY <2>1, FreeMux DEF Exclusive, Critical, ManagerType
  <2>3. NewMap'
    BY <2>1 DEF NewMap, ManagerType
  <2>4. QED
    BY <2>1, <2>2, <2>3 DEF NobodyLate
<1>7. ASSUME NEW u \in Updates, SendUpdateMessage(u) PROVE UpdateInv'
  <2>1. /\ upd[u] = "send" /\ StartUpOver'
        /\ UNCHANGED <<mux, managerMap, apiServerMap>> /\ upd' = [upd EXCEPT ![u] = "done"]
    BY <1>7, StartUpStaysOver DEF SendUpdateMessage, NobodyLate, lockVars
  <2>2. Exclusive'
    BY <2>1 DEF Exclusive, Critical, ManagerType
  <2>3. NewMap'
    BY <2>1 DEF NewMap, ManagerType
  <2>4. QED
    BY <2>1, <2>2, <2>3 DEF NobodyLate
<1>8. ASSUME \/ ChangeEndpoints \/ ListEndpoints \/ UNCHANGED vars
             \/ \E c \in Configs :
                  JoinConfig(c) \/ ReadConfigMessage(c) \/ UpdateConfig(c) \/ NotifyClients(c)
      PROVE  UNCHANGED <<managerMap, mux, upd, apiServerMap>>
  BY <1>8 DEF ChangeEndpoints, ListEndpoints, vars, JoinConfig, ReadConfigMessage,
              UpdateConfig, NotifyClients, managerVars, lockVars
<1>9. ASSUME NEW k \in Clients,
             \/ WatchUpdate(k) \/ AddWatcher(k) \/ AllocateClients(k) \/ RebuildClients(k)
             \/ NotifyLast(k) \/ NotifyDone(k) \/ StoreWaitingCount(k)
      PROVE  UNCHANGED <<managerMap, mux, upd, apiServerMap>>
  BY <1>9 DEF WatchUpdate, AddWatcher, AllocateClients, RebuildClients, NotifyLast,
              NotifyDone, StoreWaitingCount, managerVars, lockVars
<1>10. QED
  BY NextCases, <1>1, <1>2, <1>3, <1>4, <1>5, <1>6, <1>7, <1>8, <1>9

-----------------------------------------------------------------------------
(* The tokens.                                                             *)

\* The stages of a token.
LEMMA TokenParts ==
  ASSUME ReceiverType, NEW k \in Clients
  PROVE  /\ ConfigOf[k] \in Configs /\ cfgMsgs[ConfigOf[k]] \in Nat /\ cliMsgs[k] \in Nat
         /\ Tokens(k) \in Nat
         /\ Sending => Tokens(k) >= 1
         /\ cfgMsgs[ConfigOf[k]] > 0 => Tokens(k) >= 1
         /\ cfgPc[ConfigOf[k]] \in {"update", "notify"} => Tokens(k) >= 1
         /\ cliMsgs[k] > 0 => Tokens(k) >= 1
         /\ cliPc[k] \in {"fill", "done"} => Tokens(k) >= 1
<1>1. ConfigOf[k] \in Configs
  BY ConfigOfAssumption
<1>2. cfgMsgs[ConfigOf[k]] \in Nat /\ cliMsgs[k] \in Nat
  BY <1>1 DEF ReceiverType
<1> DEFINE s == Flag(Sending)
           p == Flag(cfgPc[ConfigOf[k]] \in {"update", "notify"})
           q == Flag(cliPc[k] \in {"fill", "done"})
<1>3. /\ s \in {0, 1} /\ p \in {0, 1} /\ q \in {0, 1}
      /\ Sending => s = 1
      /\ cfgPc[ConfigOf[k]] \in {"update", "notify"} => p = 1
      /\ cliPc[k] \in {"fill", "done"} => q = 1
  BY DEF Flag
<1>4. Tokens(k) = s + cfgMsgs[ConfigOf[k]] + p + cliMsgs[k] + q
  BY DEF Tokens
<1> HIDE DEF s, p, q
<1>5. /\ Tokens(k) \in Nat /\ Tokens(k) >= s /\ Tokens(k) >= p /\ Tokens(k) >= q
      /\ Tokens(k) >= cfgMsgs[ConfigOf[k]] /\ Tokens(k) >= cliMsgs[k]
  BY <1>2, <1>3, <1>4
<1>6. (Sending => Tokens(k) >= 1) /\ (cliPc[k] \in {"fill", "done"} => Tokens(k) >= 1)
  BY <1>3, <1>5
<1>7. cfgPc[ConfigOf[k]] \in {"update", "notify"} => Tokens(k) >= 1
  BY <1>3, <1>5
<1>8. (cfgMsgs[ConfigOf[k]] > 0 => Tokens(k) >= 1) /\ (cliMsgs[k] > 0 => Tokens(k) >= 1)
  BY <1>2, <1>5
<1>9. QED
  BY <1>1, <1>2, <1>5, <1>6, <1>7, <1>8

\* A client is in one place only.
LEMMA OnePlace ==
  ASSUME ReceiverType, OneToken, NEW k \in Clients
  PROVE  /\ Sending => cfgMsgs[ConfigOf[k]] = 0 /\ cfgPc[ConfigOf[k]] \notin {"update", "notify"}
                       /\ cliMsgs[k] = 0 /\ cliPc[k] \notin {"fill", "done"}
         /\ cfgPc[ConfigOf[k]] \in {"update", "notify"}
              => cliMsgs[k] = 0 /\ cliPc[k] \notin {"fill", "done"}
         /\ cliMsgs[k] > 0 => cliPc[k] \notin {"fill", "done"}
<1>1. cfgMsgs[ConfigOf[k]] \in Nat /\ cliMsgs[k] \in Nat
  BY TokenParts
<1>2. Tokens(k) <= 1
  BY DEF OneToken
<1>3. QED
  BY <1>1, <1>2 DEF Tokens, Flag

\* Steps that touch neither an update that sends nor messages nor what a client
\* has to do leave the tokens alone.
LEMMA SameTokens ==
  ASSUME NEW k \in Clients, Sending' <=> Sending,
         cfgMsgs'[ConfigOf[k]] = cfgMsgs[ConfigOf[k]], cliMsgs'[k] = cliMsgs[k],
         cfgPc'[ConfigOf[k]] \in {"update", "notify"} <=> cfgPc[ConfigOf[k]] \in {"update", "notify"},
         cliPc'[k] \in {"fill", "done"} <=> cliPc[k] \in {"fill", "done"}
  PROVE  Tokens(k)' = Tokens(k)
BY DEF Tokens, Flag

\* Only these steps make tokens or take them away.
TokenStep ==
  \/ \E u \in Updates : StartWaitingForComplete(u)
  \/ \E k \in Clients : NotifyLast(k) \/ NotifyDone(k)

\* Every other step leaves each client's token, or moves it to its next place.
LEMMA TokensMove ==
  ASSUME ManagerType, ReceiverType, NobodyLate, RoundInv, [Next]_vars, ~TokenStep,
         NEW k \in Clients
  PROVE  Tokens(k)' = Tokens(k)
<1> DEFINE cf == ConfigOf[k]
<1>0. cf \in Configs /\ cfgMsgs[cf] \in Nat /\ cliMsgs[k] \in Nat
  BY TokenParts
<1>1. CASE UNCHANGED <<upd, cfgMsgs, cfgPc, cliMsgs, cliPc>>
  BY <1>1, SameTokens DEF Sending
<1>2. CASE SyncApiServerConfig \/ UpdateApiServer
  <2>1. UNCHANGED <<cfgMsgs, cfgPc, cliMsgs, cliPc>>
    BY <1>2, NewUpdate DEF cfgVars, cliVars
  <2>2. Sending' <=> Sending
    BY <1>2, NewUpdate DEF Sending, ManagerType
  <2>3. QED
    BY <2>1, <2>2, SameTokens
<1>3. ASSUME NEW u \in Updates,
             \/ BeginUpdate(u) \/ CompareServerMap(u) \/ LockServerMap(u)
             \/ SetAPIServerConfig(u) \/ LockStartWaiting(u)
      PROVE  Tokens(k)' = Tokens(k)
  <2>1. /\ UNCHANGED <<cfgMsgs, cfgPc, cliMsgs, cliPc>> /\ upd[u] # "send"
        /\ \E l \in Critical \cup {"done"} : upd' = [upd EXCEPT ![u] = l]
    BY <1>3 DEF BeginUpdate, CompareServerMap, LockServerMap, SetAPIServerConfig,
                LockStartWaiting, cfgVars, cliVars, Critical
  <2>2. Sending' <=> Sending
    BY <2>1 DEF Sending, ManagerType, Critical
  <2>3. QED
    BY <2>1, <2>2, SameTokens
<1>4. ASSUME NEW u \in Updates, SendUpdateMessage(u) PROVE Tokens(k)' = Tokens(k)
  <2>1. /\ upd[u] = "send" /\ upd' = [upd EXCEPT ![u] = "done"] /\ StartUpOver
        /\ UNCHANGED <<cfgPc, cliMsgs, cliPc>>
    BY <1>4 DEF SendUpdateMessage, cliVars, NobodyLate
  <2>2. Sending /\ ~Sending'
    BY <2>1 DEF Sending, RoundInv, OneRound, ManagerType
  <2>3. cfgMsgs'[cf] = cfgMsgs[cf] + 1
    BY <1>0, <1>4, <2>1 DEF SendUpdateMessage, StartUpOver
  <2>4. QED
    BY <1>0, <2>1, <2>2, <2>3 DEF Tokens, Flag
<1>5. ASSUME NEW c \in Configs, JoinConfig(c) PROVE Tokens(k)' = Tokens(k)
  <2>1. /\ UNCHANGED <<upd, cfgMsgs, cliMsgs, cliPc>> /\ cfgPc[c] = "new"
        /\ cfgPc' = [cfgPc EXCEPT ![c] = "read"]
    BY <1>5 DEF JoinConfig, managerVars, cliVars
  <2>2. QED
    BY <1>0, <2>1, SameTokens DEF Sending, ReceiverType
<1>6. ASSUME NEW c \in Configs, ReadConfigMessage(c) PROVE Tokens(k)' = Tokens(k)
  <2>1. /\ UNCHANGED <<upd, cliMsgs, cliPc>> /\ cfgPc[c] = "read" /\ cfgMsgs[c] > 0
        /\ cfgPc' = [cfgPc EXCEPT ![c] = "update"]
        /\ cfgMsgs' = [cfgMsgs EXCEPT ![c] = @ - 1]
    BY <1>6 DEF ReadConfigMessage, managerVars, cliVars
  <2>2. CASE c # cf
    BY <1>0, <2>1, <2>2, SameTokens DEF Sending, ReceiverType
  <2>3. CASE c = cf
    <3>1. cfgMsgs'[cf] = cfgMsgs[cf] - 1 /\ cfgPc'[cf] = "update" /\ cfgPc[cf] = "read"
      BY <1>0, <2>1, <2>3 DEF ReceiverType
    <3>2. QED
      BY <1>0, <2>1, <3>1 DEF Tokens, Flag, Sending
  <2>4. QED
    BY <2>2, <2>3
<1>7. ASSUME NEW c \in Configs, UpdateConfig(c) PROVE Tokens(k)' = Tokens(k)
  <2>1. /\ UNCHANGED <<upd, cfgMsgs, cliMsgs, cliPc>> /\ cfgPc[c] = "update"
        /\ cfgPc' = [cfgPc EXCEPT ![c] = "notify"]
    BY <1>7 DEF UpdateConfig, managerVars, cliVars
  <2>2. QED
    BY <1>0, <2>1, SameTokens DEF Sending, ReceiverType
<1>8. ASSUME NEW c \in Configs, NotifyClients(c) PROVE Tokens(k)' = Tokens(k)
  <2>1. /\ UNCHANGED <<upd, cfgMsgs, cliPc>> /\ cfgPc[c] = "notify"
        /\ cfgPc' = [cfgPc EXCEPT ![c] = "read"]
        /\ cliMsgs'[k] = IF k \in ClientsOf(c) /\ Joined(k) THEN cliMsgs[k] + 1 ELSE cliMsgs[k]
    BY <1>8 DEF NotifyClients, managerVars
  <2>2. CASE c # cf
    <3>1. k \notin ClientsOf(c)
      BY <2>2 DEF ClientsOf
    <3>2. QED
      BY <1>0, <2>1, <2>2, <3>1, SameTokens DEF Sending, ReceiverType
  <2>3. CASE c = cf
    <3>1. k \in ClientsOf(c)
      BY <2>3 DEF ClientsOf
    <3>2. Joined(k)
      BY <1>0, <2>1, <2>3, TokenParts DEF RoundInv, OneToken, OneRound, StartUpOver, Joined
    <3>3. cliMsgs'[k] = cliMsgs[k] + 1 /\ cfgPc'[cf] = "read" /\ cfgPc[cf] = "notify"
      BY <1>0, <2>1, <2>3, <3>1, <3>2 DEF ReceiverType
    <3>4. QED
      BY <1>0, <2>1, <3>3 DEF Tokens, Flag, Sending
  <2>4. QED
    BY <2>2, <2>3
<1>9. ASSUME NEW j \in Clients, WatchUpdate(j) \/ AddWatcher(j) \/ StoreWaitingCount(j)
      PROVE  Tokens(k)' = Tokens(k)
  <2>1. /\ UNCHANGED <<upd, cfgMsgs, cfgPc, cliMsgs>> /\ cliPc[j] \in {"new", "joined", "store"}
        /\ \E l \in {"joined", "read"} : cliPc' = [cliPc EXCEPT ![j] = l]
    BY <1>9 DEF WatchUpdate, AddWatcher, StoreWaitingCount, managerVars, cfgVars
  <2>2. cliPc'[k] \in {"fill", "done"} <=> cliPc[k] \in {"fill", "done"}
    BY <2>1 DEF ReceiverType
  <2>3. QED
    BY <1>0, <2>1, <2>2, SameTokens DEF Sending
<1>10. ASSUME NEW j \in Clients, AllocateClients(j) PROVE Tokens(k)' = Tokens(k)
  <2>1. /\ UNCHANGED <<upd, cfgMsgs, cfgPc>> /\ cliPc[j] = "read" /\ cliMsgs[j] > 0
        /\ cliPc' = [cliPc EXCEPT ![j] = "fill"]
        /\ cliMsgs' = [cliMsgs EXCEPT ![j] = @ - 1]
    BY <1>10 DEF AllocateClients, managerVars, cfgVars
  <2>2. CASE j # k
    BY <2>1, <2>2, SameTokens DEF Sending, ReceiverType
  <2>3. CASE j = k
    <3>1. cliMsgs'[k] = cliMsgs[k] - 1 /\ cliPc'[k] = "fill" /\ cliPc[k] = "read"
      BY <2>1, <2>3 DEF ReceiverType
    <3>2. QED
      BY <1>0, <2>1, <3>1 DEF Tokens, Flag, Sending
  <2>4. QED
    BY <2>2, <2>3
<1>11. ASSUME NEW j \in Clients, RebuildClients(j) PROVE Tokens(k)' = Tokens(k)
  <2>1. /\ UNCHANGED <<upd, cfgMsgs, cfgPc, cliMsgs>> /\ cliPc[j] = "fill"
        /\ cliPc' = [cliPc EXCEPT ![j] = "done"]
    BY <1>11 DEF RebuildClients, managerVars, cfgVars
  <2>2. QED
    BY <2>1, SameTokens DEF Sending, ReceiverType
<1>12. ASSUME ChangeEndpoints \/ ListEndpoints \/ UNCHANGED vars
       PROVE  UNCHANGED <<upd, cfgMsgs, cfgPc, cliMsgs, cliPc>>
  BY <1>12 DEF ChangeEndpoints, ListEndpoints, vars, cfgVars, cliVars
<1>13. QED
  BY NextCases, <1>1, <1>2, <1>3, <1>4, <1>5, <1>6, <1>7, <1>8, <1>9, <1>10, <1>11, <1>12
  DEF TokenStep

\* A round begins when nothing is left of the one before: every client gets a
\* token.
LEMMA RoundBegins ==
  ASSUME ManagerType, ReceiverType, UpdateInv, RoundInv,
         NEW u \in Updates, StartWaitingForComplete(u)
  PROVE  /\ readers = 0 /\ readers' = 1 /\ startWaiting' /\ StartUpOver /\ ~Sending
         /\ upd' = [upd EXCEPT ![u] = "send"]
         /\ \A k \in Clients : Tokens(k) = 0 /\ Tokens(k)' = 1 /\ cliPc[k] # "store"
<1>1. /\ upd[u] = "count" /\ upd' = [upd EXCEPT ![u] = "send"] /\ readers' = readers + 1
      /\ UNCHANGED <<startWaiting, cfgMsgs, cfgPc, cliMsgs, cliPc>>
  BY DEF StartWaitingForComplete, cfgVars, cliVars
<1>2. readers = 0 /\ startWaiting
  BY <1>1 DEF RoundInv, OneRound
<1>3. StartUpOver
  BY <1>1 DEF UpdateInv, NobodyLate
<1>4. ~Sending
  BY <1>2 DEF Sending, RoundInv, OneRound
<1>5. Sending'
  BY <1>1 DEF Sending, ManagerType
<1>6. ASSUME NEW k \in Clients PROVE Tokens(k) = 0 /\ Tokens(k)' = 1 /\ cliPc[k] # "store"
  <2>1. Tokens(k) = 0 /\ cliPc[k] # "store"
    BY <1>2 DEF RoundInv, OneToken
  <2>2. cfgMsgs[ConfigOf[k]] \in Nat /\ cliMsgs[k] \in Nat
    BY TokenParts
  <2>3. Tokens(k)' = Tokens(k) + 1
    BY <1>1, <1>4, <1>5, <2>2 DEF Tokens, Flag
  <2>4. QED
    BY <2>1, <2>3
<1>7. QED
  BY <1>1, <1>2, <1>3, <1>4, <1>6

\* NotifyDone takes the token of its client and leaves the others'.
LEMMA Reports ==
  ASSUME ReceiverType, RoundInv, NEW k \in Clients, NotifyLast(k) \/ NotifyDone(k)
  PROVE  /\ readers = 1 /\ Tokens(k) = 1 /\ Tokens(k)' = 0 /\ ~Sending
         /\ \A j \in Clients \ {k} : Tokens(j)' = Tokens(j)
<1>1. /\ cliPc[k] = "done" /\ UNCHANGED <<upd, cfgMsgs, cfgPc, cliMsgs>>
      /\ \E l \in {"read", "store"} : cliPc' = [cliPc EXCEPT ![k] = l]
  BY DEF NotifyLast, NotifyDone, managerVars, cfgVars
<1>2. readers = 1 /\ Tokens(k) = 1
  BY <1>1, DoneInRound DEF RoundInv
<1>3. ~Sending
  BY <1>1, OnePlace DEF RoundInv
<1>4. cfgMsgs[ConfigOf[k]] \in Nat /\ cliMsgs[k] \in Nat
  BY TokenParts
<1>5. cliPc'[k] \notin {"fill", "done"} /\ \A j \in Clients \ {k} : cliPc'[j] = cliPc[j]
  BY <1>1 DEF ReceiverType
<1>6. Tokens(k)' = Tokens(k) - 1
  BY <1>1, <1>4, <1>5 DEF Tokens, Flag, Sending
<1>7. \A j \in Clients \ {k} : Tokens(j)' = Tokens(j)
  BY <1>1, <1>5, SameTokens DEF Sending
<1>8. QED
  BY <1>2, <1>3, <1>6, <1>7

\* The clients that have something left to do, or are counted, are finitely many.
LEMMA FiniteClients ==
  /\ IsFiniteSet(Clients) /\ IsFiniteSet(Left) /\ IsFiniteSet(Counted)
  /\ Cardinality(Left) \in Nat /\ Cardinality(Counted) \in Nat
  /\ IsFiniteSet(Left') /\ IsFiniteSet(Counted')
<1>1. IsFiniteSet(Clients)
  BY ClientsAssumption
<1>2. Left \in SUBSET Clients /\ Counted \in SUBSET Clients
  BY DEF Left, Counted
<1>3. Left' \in SUBSET Clients /\ Counted' \in SUBSET Clients
  BY DEF Left, Counted
<1>4. QED
  BY <1>1, <1>2, <1>3, FS_Subset, FS_CardinalityType

\* NotifyDone ends the round when its client is the only one left.
LEMMA LastReports ==
  ASSUME ReceiverType, RoundInv, Counts, NEW k \in Clients, NotifyLast(k)
  PROVE  \A j \in Clients : Tokens(j)' = 0 /\ cliPc'[j] # "store" /\ (j # k => Tokens(j) = 0)
<1>1. wmux = Free /\ waitingCount = 1 /\ cliPc' = [cliPc EXCEPT ![k] = "read"]
  BY DEF NotifyLast
<1>2. Cardinality(Left) = 1
  BY <1>1 DEF Counts
<1>3. k \in Left
  BY Reports DEF Left
<1>4. Cardinality(Left \ {k}) = 0 /\ IsFiniteSet(Left \ {k})
  BY <1>2, <1>3, FiniteClients, FS_RemoveElement
<1>5. Left \ {k} = {}
  BY <1>4, FS_EmptySet
<1>6. \A j \in Clients \ {k} : Tokens(j) = 0
  BY <1>5 DEF Left, RoundInv, OneToken
<1>7. \A j \in Clients : cliPc'[j] # "store"
  BY <1>1, ClientsAssumption DEF Counts, Free, ReceiverType
<1>8. QED
  BY <1>6, <1>7, Reports

\* Rounds follow one another and every client has at most one token.
LEMMA NextRoundInv ==
  ASSUME ManagerType, ReceiverType, UpdateInv, RoundInv, Counts, [Next]_vars
  PROVE  RoundInv'
<1>1. ASSUME NEW u \in Updates, StartWaitingForComplete(u) PROVE RoundInv'
  <2>1. \A v \in Updates : upd'[v] \in {"start", "count"} => FALSE
    BY <1>1, RoundBegins DEF UpdateInv, Exclusive, Critical, ManagerType, StartWaitingForComplete
  <2>2. \A v \in Updates : upd'[v] = "send" => v = u
    BY <1>1, RoundBegins DEF Sending, ManagerType
  <2>3. OneRound'
    BY <1>1, <2>1, <2>2, RoundBegins, StartUpStaysOver DEF OneRound
  <2>4. OneToken'
    BY <1>1, RoundBegins DEF OneToken
  <2>5. QED
    BY <2>3, <2>4 DEF RoundInv
<1>2. ASSUME NEW k \in Clients, NotifyLast(k) PROVE RoundInv'
  <2>0. readers = 1 /\ ~Sending
    BY <1>2, Reports
  <2>1. readers' = 0 /\ ~Sending /\ UNCHANGED upd
    BY <1>2, <2>0 DEF NotifyLast, managerVars
  <2>2. OneRound'
    BY <2>0, <2>1 DEF RoundInv, OneRound, Sending
  <2>3. OneToken'
    BY <1>2, LastReports DEF OneToken
  <2>4. QED
    BY <2>2, <2>3 DEF RoundInv
<1>3. ASSUME NEW k \in Clients, NotifyDone(k) PROVE RoundInv'
  <2>1. readers' = 1 /\ UNCHANGED <<startWaiting, upd, readers>>
    BY <1>3, Reports DEF NotifyDone, managerVars, lockVars
  <2>2. OneRound'
    BY <2>1, StartUpStaysOver DEF RoundInv, OneRound
  <2>3. OneToken'
    BY <1>3, <2>1, Reports DEF RoundInv, OneToken
  <2>4. QED
    BY <2>2, <2>3 DEF RoundInv
<1>4. CASE ~TokenStep
  <2>1. \A k \in Clients : Tokens(k)' = Tokens(k)
    BY <1>4, TokensMove DEF UpdateInv
  <2>2. UNCHANGED readers
    <3>1. ASSUME NEW k \in Clients,
                 \/ WatchUpdate(k) \/ AddWatcher(k) \/ AllocateClients(k) \/ RebuildClients(k)
                 \/ StoreWaitingCount(k)
          PROVE  UNCHANGED readers
      BY <3>1 DEF WatchUpdate, AddWatcher, AllocateClients, RebuildClients,
                  StoreWaitingCount, lockVars
    <3>2. ASSUME NEW c \in Configs,
                 JoinConfig(c) \/ ReadConfigMessage(c) \/ UpdateConfig(c) \/ NotifyClients(c)
          PROVE  UNCHANGED readers
      BY <3>2 DEF JoinConfig, ReadConfigMessage, UpdateConfig, NotifyClients, lockVars
    <3>3. ASSUME \/ ChangeEndpoints \/ SyncApiServerConfig \/ ListEndpoints \/ UpdateApiServer
                 \/ UNCHANGED vars
                 \/ \E u \in Updates :
                      \/ BeginUpdate(u) \/ CompareServerMap(u) \/ LockServerMap(u)
                      \/ SetAPIServerConfig(u) \/ LockStartWaiting(u) \/ SendUpdateMessage(u)
          PROVE  UNCHANGED readers
      BY <3>3 DEF ChangeEndpoints, SyncApiServerConfig, ListEndpoints, UpdateApiServer, vars,
                  BeginUpdate, CompareServerMap, LockServerMap, SetAPIServerConfig,
                  LockStartWaiting, SendUpdateMessage, lockVars
    <3>4. QED
      BY <1>4, <3>1, <3>2, <3>3, NextCases DEF TokenStep
  <2>3. \A k \in Clients : cliPc'[k] = "store" => cliPc[k] = "store"
    <3>1. ASSUME NEW j \in Clients,
                 \/ WatchUpdate(j) \/ AddWatcher(j) \/ AllocateClients(j) \/ RebuildClients(j)
                 \/ StoreWaitingCount(j)
          PROVE  \E l \in {"joined", "read", "fill", "done"} : cliPc' = [cliPc EXCEPT ![j] = l]
      BY <3>1 DEF WatchUpdate, AddWatcher, AllocateClients, RebuildClients, StoreWaitingCount
    <3>2. ASSUME NEW c \in Configs,
                 JoinConfig(c) \/ ReadConfigMessage(c) \/ UpdateConfig(c) \/ NotifyClients(c)
          PROVE  UNCHANGED cliPc
      BY <3>2 DEF JoinConfig, ReadConfigMessage, UpdateConfig, NotifyClients, cliVars
    <3>3. ASSUME \/ ChangeEndpoints \/ SyncApiServerConfig \/ ListEndpoints \/ UpdateApiServer
                 \/ UNCHANGED vars
                 \/ \E u \in Updates :
                      \/ BeginUpdate(u) \/ CompareServerMap(u) \/ LockServerMap(u)
                      \/ SetAPIServerConfig(u) \/ LockStartWaiting(u) \/ SendUpdateMessage(u)
          PROVE  UNCHANGED cliPc
      BY <3>3 DEF ChangeEndpoints, SyncApiServerConfig, ListEndpoints, UpdateApiServer, vars,
                  BeginUpdate, CompareServerMap, LockServerMap, SetAPIServerConfig,
                  LockStartWaiting, SendUpdateMessage, cliVars
    <3>4. \/ UNCHANGED cliPc
          \/ \E j \in Clients : \E l \in {"joined", "read", "fill", "done"} :
               cliPc' = [cliPc EXCEPT ![j] = l]
      BY <1>4, <3>1, <3>2, <3>3, NextCases DEF TokenStep
    <3>5. QED
      BY <3>4 DEF ReceiverType
  <2>4. OneToken'
    BY <2>1, <2>2, <2>3 DEF RoundInv, OneToken
  <2>5. OneRound'
    <3>0. OneRound /\ (readers' = 1 => StartUpOver')
      BY <2>2, StartUpStaysOver DEF RoundInv, OneRound
    <3>1. CASE UNCHANGED <<upd, startWaiting>>
      BY <2>2, <3>0, <3>1 DEF OneRound
    <3>2. CASE SyncApiServerConfig \/ UpdateApiServer
      <4>1. UNCHANGED startWaiting
        BY <3>2, NewUpdate DEF lockVars
      <4>2. CASE UNCHANGED upd
        BY <3>1, <4>1, <4>2
      <4>3. ASSUME NEW u \in Updates, upd' = [upd EXCEPT ![u] = "wait"] PROVE OneRound'
        BY <2>2, <3>0, <4>1, <4>3 DEF OneRound, ManagerType
      <4>4. QED
        BY <3>2, <4>2, <4>3, NewUpdate
    <3>3. ASSUME NEW u \in Updates,
                 BeginUpdate(u) \/ CompareServerMap(u) \/ LockServerMap(u) \/ SendUpdateMessage(u)
          PROVE  OneRound'
      <4>1. /\ UNCHANGED startWaiting
            /\ \E l \in {"compare", "lock", "write", "done"} : upd' = [upd EXCEPT ![u] = l]
        BY <3>3 DEF BeginUpdate, CompareServerMap, LockServerMap, SendUpdateMessage, lockVars
      <4>2. QED
        BY <2>2, <3>0, <4>1 DEF OneRound, ManagerType
    <3>4. ASSUME NEW u \in Updates, SetAPIServerConfig(u) PROVE OneRound'
      <4>1. /\ UNCHANGED startWaiting /\ readers = 0 /\ upd' = [upd EXCEPT ![u] = "start"]
        BY <3>4 DEF SetAPIServerConfig
      <4>2. QED
        BY <2>2, <3>0, <4>1 DEF OneRound, ManagerType
    <3>5. ASSUME NEW u \in Updates, LockStartWaiting(u) PROVE OneRound'
      <4>1. /\ startWaiting' /\ upd[u] = "start" /\ upd' = [upd EXCEPT ![u] = "count"]
        BY <3>5 DEF LockStartWaiting
      <4>2. QED
        BY <2>2, <3>0, <4>1 DEF OneRound, ManagerType
    <3>6. ASSUME \/ ChangeEndpoints \/ ListEndpoints \/ UNCHANGED vars
                 \/ \E c \in Configs :
                      JoinConfig(c) \/ ReadConfigMessage(c) \/ UpdateConfig(c) \/ NotifyClients(c)
                 \/ \E k \in Clients :
                      \/ WatchUpdate(k) \/ AddWatcher(k) \/ AllocateClients(k)
                      \/ RebuildClients(k) \/ StoreWaitingCount(k)
          PROVE  UNCHANGED <<upd, startWaiting>>
      BY <3>6 DEF ChangeEndpoints, ListEndpoints, vars, JoinConfig, ReadConfigMessage,
                  UpdateConfig, NotifyClients, WatchUpdate, AddWatcher, AllocateClients,
                  RebuildClients, StoreWaitingCount, managerVars, lockVars
    <3>7. QED
      BY <1>4, <3>1, <3>2, <3>3, <3>4, <3>5, <3>6, NextCases DEF TokenStep
  <2>6. QED
    BY <2>4, <2>5 DEF RoundInv
<1>5. QED
  BY <1>1, <1>2, <1>3, <1>4 DEF TokenStep

-----------------------------------------------------------------------------
(* The map of a round.                                                     *)

\* What Fresh says of one client
FreshFor(k) ==
  LET c == ConfigOf[k] IN
  /\ cfgPc[c] = "notify" \/ cliMsgs[k] > 0 \/ cliPc[k] \in {"fill", "done"}
       => config[c] = apiServerMap
  /\ cliPc[k] = "fill" => size[k] = Cardinality(config[c])
  /\ cliPc[k] = "done" => restClients[k] = apiServerMap
  /\ readers = 1 /\ Tokens(k) = 0 => restClients[k] = apiServerMap

\* A client takes over the map of its round, and no other.
LEMMA NextFresh ==
  ASSUME ManagerType, LockType, ReceiverType, UpdateInv, RoundInv, Counts, Fresh, [Next]_vars
  PROVE  Fresh'
<1> SUFFICES ASSUME NEW k \in Clients PROVE FreshFor(k)'
  BY DEF Fresh, FreshFor
<1> DEFINE cf == ConfigOf[k]
<1>0. /\ FreshFor(k) /\ cf \in Configs /\ cfgMsgs[cf] \in Nat /\ cliMsgs[k] \in Nat
      /\ Tokens(k) \in {0, 1} /\ readers \in {0, 1}
  BY TokenParts DEF Fresh, FreshFor, RoundInv, OneRound, OneToken
<1>2. ASSUME NEW u \in Updates, SetAPIServerConfig(u) PROVE FreshFor(k)'
  <2>1. readers = 0 /\ UNCHANGED <<readers, cfgPc, cliMsgs, cliPc>>
    BY <1>2 DEF SetAPIServerConfig, cfgVars, cliVars
  <2>2. Tokens(k) = 0
    BY <2>1 DEF RoundInv, OneToken
  <2>3. cfgPc[cf] # "notify" /\ cliMsgs[k] = 0 /\ cliPc[k] \notin {"fill", "done"}
    BY <1>0, <2>2, TokenParts
  <2>4. QED
    BY <2>1, <2>3 DEF FreshFor
<1>3. ASSUME NEW u \in Updates, StartWaitingForComplete(u) PROVE FreshFor(k)'
  <2>1. UNCHANGED <<cfgPc, config, apiServerMap, cliMsgs, cliPc, size, restClients>>
    BY <1>3 DEF StartWaitingForComplete, cfgVars, cliVars
  <2>2. Tokens(k)' = 1
    BY <1>3, RoundBegins
  <2>3. QED
    BY <1>0, <2>1, <2>2 DEF FreshFor
<1>4. ASSUME NEW j \in Clients, NotifyLast(j) \/ NotifyDone(j) PROVE FreshFor(k)'
  <2>1. /\ UNCHANGED <<cfgPc, config, apiServerMap, cliMsgs, size, restClients>>
        /\ cliPc[j] = "done"
        /\ \E l \in {"read", "store"} : cliPc' = [cliPc EXCEPT ![j] = l]
    BY <1>4 DEF NotifyLast, NotifyDone, cfgVars, lockVars
  <2>2. readers = 1
    BY <1>4, Reports
  <2>3. CASE j = k
    <3>1. restClients[k] = apiServerMap /\ config[cf] = apiServerMap
      BY <1>0, <2>1, <2>3 DEF FreshFor
    <3>2. cliPc'[k] \notin {"fill", "done"}
      BY <2>1, <2>3 DEF ReceiverType
    <3>3. QED
      BY <2>1, <3>1, <3>2 DEF FreshFor
  <2>4. CASE j # k
    <3>1. Tokens(k)' = Tokens(k)
      BY <1>4, <2>4, Reports
    <3>2. cliPc'[k] = cliPc[k]
      BY <2>1, <2>4 DEF ReceiverType
    <3>3. QED
      BY <1>0, <2>1, <2>2, <3>1, <3>2 DEF FreshFor
  <2>5. QED
    BY <2>3, <2>4
<1>5. CASE ~TokenStep
  <2>1. Tokens(k)' = Tokens(k)
    BY <1>5, TokensMove DEF UpdateInv
  <2>2. ASSUME \/ ChangeEndpoints \/ SyncApiServerConfig \/ ListEndpoints \/ UpdateApiServer
               \/ UNCHANGED vars
               \/ \E u \in Updates :
                    \/ BeginUpdate(u) \/ CompareServerMap(u) \/ LockServerMap(u)
                    \/ LockStartWaiting(u) \/ SendUpdateMessage(u)
               \/ \E c \in Configs : ReadConfigMessage(c) \/ JoinConfig(c)
        PROVE  /\ UNCHANGED <<config, apiServerMap, cliMsgs, cliPc, size, restClients, readers>>
               /\ \/ UNCHANGED cfgPc
                  \/ \E c \in Configs, l \in {"read", "update"} : cfgPc' = [cfgPc EXCEPT ![c] = l]
    BY <2>2 DEF ChangeEndpoints, SyncApiServerConfig, ListEndpoints, UpdateApiServer, vars,
                BeginUpdate, CompareServerMap, LockServerMap, LockStartWaiting,
                SendUpdateMessage, ReadConfigMessage, JoinConfig, lockVars, cfgVars, cliVars
  <2>3. ASSUME UNCHANGED <<config, apiServerMap, cliMsgs, cliPc, size, restClients, readers>>,
               \/ UNCHANGED cfgPc
               \/ \E c \in Configs, l \in {"read", "update"} : cfgPc' = [cfgPc EXCEPT ![c] = l]
        PROVE  FreshFor(k)'
    <3>1. cfgPc'[cf] = "notify" => cfgPc[cf] = "notify"
      BY <1>0, <2>3 DEF ReceiverType
    <3>2. QED
      BY <1>0, <2>1, <2>3, <3>1 DEF FreshFor
  <2>4. ASSUME NEW c \in Configs, UpdateConfig(c) PROVE FreshFor(k)'
    <3>1. /\ UNCHANGED <<apiServerMap, cliMsgs, cliPc, size, restClients, readers>>
          /\ cfgPc[c] = "update" /\ cfgPc' = [cfgPc EXCEPT ![c] = "notify"]
          /\ config' = [config EXCEPT ![c] = apiServerMap]
      BY <2>4 DEF UpdateConfig, lockVars, cliVars
    <3>2. CASE c = cf
      <4>1. cliMsgs[k] = 0 /\ cliPc[k] \notin {"fill", "done"}
        BY <3>1, <3>2, OnePlace DEF RoundInv
      <4>2. config'[cf] = apiServerMap
        BY <1>0, <3>1, <3>2 DEF ReceiverType
      <4>3. QED
        BY <1>0, <2>1, <3>1, <4>1, <4>2 DEF FreshFor
    <3>3. CASE c # cf
      <4>1. config'[cf] = config[cf] /\ cfgPc'[cf] = cfgPc[cf]
        BY <1>0, <3>1, <3>3 DEF ReceiverType
      <4>2. QED
        BY <1>0, <2>1, <3>1, <4>1 DEF FreshFor
    <3>4. QED
      BY <3>2, <3>3
  <2>5. ASSUME NEW c \in Configs, NotifyClients(c) PROVE FreshFor(k)'
    <3>1. /\ UNCHANGED <<config, apiServerMap, cliPc, size, restClients, readers>>
          /\ cfgPc[c] = "notify" /\ cfgPc' = [cfgPc EXCEPT ![c] = "read"]
          /\ cliMsgs'[k] # cliMsgs[k] => c = cf
      BY <2>5 DEF NotifyClients, lockVars, ClientsOf
    <3>2. cfgPc'[cf] # "notify" \/ cfgPc'[cf] = cfgPc[cf]
      BY <1>0, <3>1 DEF ReceiverType
    <3>3. QED
      BY <1>0, <2>1, <3>1, <3>2 DEF FreshFor
  <2>6. ASSUME NEW j \in Clients, WatchUpdate(j) \/ AddWatcher(j) \/ StoreWaitingCount(j)
        PROVE  FreshFor(k)'
    <3>1. /\ UNCHANGED <<config, cfgPc, apiServerMap, cliMsgs, size, restClients, readers>>
          /\ \E l \in {"joined", "read"} : cliPc' = [cliPc EXCEPT ![j] = l]
      BY <2>6 DEF WatchUpdate, AddWatcher, StoreWaitingCount, lockVars, cfgVars
    <3>2. cliPc'[k] \in {"fill", "done"} => cliPc'[k] = cliPc[k]
      BY <3>1 DEF ReceiverType
    <3>3. QED
      BY <1>0, <2>1, <3>1, <3>2 DEF FreshFor
  <2>7. ASSUME NEW j \in Clients, AllocateClients(j) PROVE FreshFor(k)'
    <3>1. /\ UNCHANGED <<config, cfgPc, apiServerMap, restClients, readers>>
          /\ cliMsgs[j] > 0 /\ cliMsgs' = [cliMsgs EXCEPT ![j] = @ - 1]
          /\ size' = [size EXCEPT ![j] = Cardinality(config[ConfigOf[j]])]
          /\ cliPc' = [cliPc EXCEPT ![j] = "fill"]
      BY <2>7 DEF AllocateClients, lockVars, cfgVars
    <3>2. CASE j = k
      <4>1. cliPc'[k] = "fill" /\ size'[k] = Cardinality(config[cf]) /\ config[cf] = apiServerMap
        BY <1>0, <3>1, <3>2 DEF ReceiverType, FreshFor
      <4>2. QED
        BY <1>0, <2>1, <3>1, <4>1 DEF FreshFor
    <3>3. CASE j # k
      <4>1. cliPc'[k] = cliPc[k] /\ size'[k] = size[k] /\ cliMsgs'[k] = cliMsgs[k]
        BY <3>1, <3>3 DEF ReceiverType
      <4>2. QED
        BY <1>0, <2>1, <3>1, <4>1 DEF FreshFor
    <3>4. QED
      BY <3>2, <3>3
  <2>8. ASSUME NEW j \in Clients, RebuildClients(j) PROVE FreshFor(k)'
    <3>1. /\ UNCHANGED <<config, cfgPc, apiServerMap, cliMsgs, size, readers>>
          /\ cliPc[j] = "fill" /\ cliPc' = [cliPc EXCEPT ![j] = "done"]
          /\ restClients' = [restClients EXCEPT ![j] = config[ConfigOf[j]]]
      BY <2>8 DEF RebuildClients, lockVars, cfgVars
    <3>2. CASE j = k
      <4>1. /\ cliPc'[k] = "done" /\ restClients'[k] = config[cf] /\ config[cf] = apiServerMap
        BY <1>0, <3>1, <3>2 DEF ReceiverType, FreshFor
      <4>2. QED
        BY <1>0, <2>1, <3>1, <4>1 DEF FreshFor
    <3>3. CASE j # k
      <4>1. cliPc'[k] = cliPc[k] /\ restClients'[k] = restClients[k]
        BY <3>1, <3>3 DEF ReceiverType
      <4>2. QED
        BY <1>0, <2>1, <3>1, <4>1 DEF FreshFor
    <3>4. QED
      BY <3>2, <3>3
  <2>9. QED
    BY <1>2, <1>5, <2>2, <2>3, <2>4, <2>5, <2>6, <2>7, <2>8, NextCases DEF TokenStep
<1>6. QED
  BY <1>3, <1>4, <1>5 DEF TokenStep

-----------------------------------------------------------------------------
(* The counters.                                                           *)

\* watcherCount and waitingCount keep counting clients.
LEMMA NextCounts ==
  ASSUME ManagerType, LockType, ReceiverType, UpdateInv, RoundInv, Counts, [Next]_vars
  PROVE  Counts'
<1>0. \A k \in Clients : k # Free
  BY ClientsAssumption DEF Free
<1>1. ASSUME NEW u \in Updates, StartWaitingForComplete(u) PROVE Counts'
  <2>1. waitingCount' = watcherCount /\ UNCHANGED <<watcherCount, wmux, cliPc>>
    BY <1>1 DEF StartWaitingForComplete, cliVars
  <2>2. Counted = Clients /\ Counted' = Clients
    BY <1>1, <2>1, RoundBegins DEF Counted, StartUpOver
  <2>3. Left' = Clients
    BY <1>1, RoundBegins DEF Left
  <2>4. \A k \in Clients : cliPc'[k] # "store"
    BY <1>1, <2>1, RoundBegins
  <2>5. watcherCount' = Cardinality(Counted') /\ waitingCount' = Cardinality(Left')
    BY <2>1, <2>2, <2>3 DEF Counts
  <2>6. \A k \in Clients : wmux' = k <=> cliPc'[k] = "store"
    BY <2>1 DEF Counts
  <2>7. QED
    BY <2>4, <2>5, <2>6 DEF Counts
<1>2. ASSUME NEW k \in Clients, NotifyLast(k) PROVE Counts'
  <2>1. /\ waitingCount' = 0 /\ wmux = Free /\ UNCHANGED <<watcherCount, wmux>>
        /\ cliPc[k] = "done" /\ cliPc' = [cliPc EXCEPT ![k] = "read"]
    BY <1>2 DEF NotifyLast
  <2>2. Counted' = Counted
    BY <2>1 DEF Counted, ReceiverType
  <2>3. Left' = {} /\ \A j \in Clients : cliPc'[j] # "store"
    BY <1>2, LastReports DEF Left
  <2>4. Cardinality(Left') = 0
    BY <2>3, FS_EmptySet
  <2>5. \A j \in Clients : wmux' = j <=> cliPc'[j] = "store"
    BY <1>0, <2>1, <2>3
  <2>6. QED
    BY <2>1, <2>2, <2>3, <2>4, <2>5 DEF Counts
<1>3. ASSUME NEW k \in Clients, NotifyDone(k) PROVE Counts'
  <2>1. /\ wmux = Free /\ wmux' = k /\ UNCHANGED <<watcherCount, waitingCount>>
        /\ cliPc[k] = "done" /\ cliPc' = [cliPc EXCEPT ![k] = "store"]
        /\ saw' = [saw EXCEPT ![k] = waitingCount]
    BY <1>3 DEF NotifyDone
  <2>2. Counted' = Counted
    BY <2>1 DEF Counted, ReceiverType
  <2>3. Left' = Left \ {k} /\ k \in Left
    BY <1>3, Reports DEF Left
  <2>4. waitingCount = Cardinality(Left') + 1
    BY <2>1, <2>3, FiniteClients, FS_RemoveElement DEF Counts
  <2>5. \A j \in Clients : cliPc'[j] = "store" <=> j = k
    BY <1>0, <2>1 DEF Counts, ReceiverType
  <2>6. saw'[k] = waitingCount
    BY <2>1 DEF ReceiverType
  <2>7. QED
    BY <1>0, <2>1, <2>2, <2>4, <2>5, <2>6 DEF Counts
<1>4. CASE ~TokenStep
  <2>1. Left' = Left
    BY <1>4, TokensMove DEF UpdateInv, Left
  <2>2. ASSUME NEW k \in Clients, AddWatcher(k) PROVE Counts'
    <3>1. /\ watcherCount' = watcherCount + 1 /\ UNCHANGED <<waitingCount, wmux, saw>>
          /\ cliPc[k] = "joined" /\ cliPc' = [cliPc EXCEPT ![k] = "read"]
      BY <2>2 DEF AddWatcher
    <3>2. Counted' = Counted \cup {k} /\ k \notin Counted
      BY <3>1 DEF Counted, ReceiverType
    <3>3. watcherCount' = Cardinality(Counted')
      BY <3>1, <3>2, FiniteClients, FS_AddElement DEF Counts
    <3>4. \A j \in Clients : cliPc'[j] = "store" <=> cliPc[j] = "store"
      BY <3>1 DEF ReceiverType
    <3>5. QED
      BY <2>1, <3>1, <3>3, <3>4 DEF Counts
  <2>3. ASSUME NEW k \in Clients, StoreWaitingCount(k) PROVE Counts'
    <3>1. /\ waitingCount' = saw[k] - 1 /\ wmux' = Free /\ UNCHANGED <<watcherCount, saw>>
          /\ cliPc[k] = "store" /\ cliPc' = [cliPc EXCEPT ![k] = "read"]
      BY <2>3 DEF StoreWaitingCount
    <3>2. Counted' = Counted
      BY <3>1 DEF Counted, ReceiverType
    <3>3. waitingCount' = Cardinality(Left)
      BY <3>1, FiniteClients DEF Counts
    <3>4. \A j \in Clients : cliPc'[j] # "store"
      BY <3>1 DEF Counts, ReceiverType
    <3>5. QED
      BY <1>0, <2>1, <3>1, <3>2, <3>3, <3>4 DEF Counts
  <2>4. ASSUME UNCHANGED <<watcherCount, waitingCount, wmux, saw>>,
               \A j \in Clients : /\ cliPc'[j] = "store" <=> cliPc[j] = "store"
                                  /\ cliPc'[j] \in {"new", "joined"} <=> cliPc[j] \in {"new", "joined"}
        PROVE  Counts'
    <3>1. Counted' = Counted
      BY <2>4 DEF Counted
    <3>2. QED
      BY <2>1, <2>4, <3>1 DEF Counts
  <2>5. ASSUME NEW k \in Clients, WatchUpdate(k) \/ AllocateClients(k) \/ RebuildClients(k)
        PROVE  Counts'
    <3>1. /\ UNCHANGED <<watcherCount, waitingCount, wmux, saw>>
          /\ \/ cliPc[k] = "new" /\ cliPc' = [cliPc EXCEPT ![k] = "joined"]
             \/ cliPc[k] = "read" /\ cliPc' = [cliPc EXCEPT ![k] = "fill"]
             \/ cliPc[k] = "fill" /\ cliPc' = [cliPc EXCEPT ![k] = "done"]
      BY <2>5 DEF WatchUpdate, AllocateClients, RebuildClients, countVars
    <3>2. QED
      BY <2>4, <3>1 DEF ReceiverType
  <2>6. ASSUME \/ ChangeEndpoints \/ SyncApiServerConfig \/ ListEndpoints \/ UpdateApiServer
               \/ UNCHANGED vars
               \/ \E u \in Updates :
                    \/ BeginUpdate(u) \/ CompareServerMap(u) \/ LockServerMap(u)
                    \/ SetAPIServerConfig(u) \/ LockStartWaiting(u) \/ SendUpdateMessage(u)
               \/ \E c \in Configs :
                    JoinConfig(c) \/ ReadConfigMessage(c) \/ UpdateConfig(c) \/ NotifyClients(c)
        PROVE  UNCHANGED <<watcherCount, waitingCount, wmux, saw, cliPc>>
    BY <2>6 DEF ChangeEndpoints, SyncApiServerConfig, ListEndpoints, UpdateApiServer, vars,
                BeginUpdate, CompareServerMap, LockServerMap, SetAPIServerConfig,
                LockStartWaiting, SendUpdateMessage, JoinConfig, ReadConfigMessage,
                UpdateConfig, NotifyClients, countVars, cliVars
  <2>7. QED
    BY <1>4, <2>2, <2>3, <2>4, <2>5, <2>6, NextCases DEF TokenStep
<1>5. QED
  BY <1>1, <1>2, <1>3, <1>4 DEF TokenStep

-----------------------------------------------------------------------------
(* The invariant.                                                          *)

\* A process that starts has no update, no message and nobody who listens.
LEMMA InitInv == Init => IInv
<1> SUFFICES ASSUME Init PROVE IInv
  OBVIOUS
<1>1. ManagerType
  <2>1. PICK m \in Maps : hist = <<m>>
    BY DEF Init
  <2>2. hist \in Seq(Maps) /\ Len(hist) = 1
    BY <2>1
  <2>3. started \in BOOLEAN /\ initialized \in BOOLEAN
    BY DEF Init
  <2>4. seen = 0 /\ managerMap = {} /\ mux = Free /\ upd = [u \in Updates |-> "none"]
    BY DEF Init, NoMap
  <2>5. QED
    BY <2>2, <2>3, <2>4, MaxChangesAssumption DEF ManagerType
<1>2. LockType
  <2>1. pending \in BOOLEAN /\ startWaiting \in BOOLEAN
    BY DEF Init
  <2>2. apiServerMap = {} /\ readers = 0 /\ watcherCount = 0 /\ waitingCount = 0 /\ wmux = Free
        /\ resets = 0
    BY DEF Init, NoMap
  <2>3. QED
    BY <2>1, <2>2 DEF LockType
<1>3. ReceiverType
  BY DEF Init, ReceiverType, NoMap
<1>4. UpdateInv
  <2>1. \A u \in Updates : upd[u] = "none" /\ mux # u
    BY FreeMux DEF Init
  <2>2. QED
    BY <2>1 DEF UpdateInv, Exclusive, Critical, NewMap, NobodyLate
<1>5. ASSUME NEW k \in Clients PROVE Tokens(k) = 0 /\ cliPc[k] = "new" /\ cfgPc[ConfigOf[k]] = "new"
  <2>1. ConfigOf[k] \in Configs
    BY ConfigOfAssumption
  <2>2. ~Sending
    BY DEF Init, Sending
  <2>3. /\ cfgMsgs[ConfigOf[k]] = 0 /\ cfgPc[ConfigOf[k]] = "new" /\ cliMsgs[k] = 0
        /\ cliPc[k] = "new"
    BY <2>1 DEF Init
  <2>4. QED
    BY <2>2, <2>3 DEF Tokens, Flag
<1>6. RoundInv
  BY <1>5 DEF Init, RoundInv, OneRound, OneToken
<1>7. Fresh
  <2>1. \A k \in Clients : cliMsgs[k] = 0 /\ readers = 0
    BY DEF Init
  <2>2. QED
    BY <1>5, <2>1 DEF Fresh
<1>8. Counts
  <2>1. Left = {} /\ Counted = {}
    BY <1>5 DEF Left, Counted
  <2>2. Cardinality(Left) = 0 /\ Cardinality(Counted) = 0
    BY <2>1, FS_EmptySet
  <2>3. \A k \in Clients : wmux # k
    BY ClientsAssumption DEF Init, Free
  <2>4. QED
    BY <1>5, <2>2, <2>3 DEF Init, Counts
<1>9. QED
  BY <1>1, <1>2, <1>3, <1>4, <1>6, <1>7, <1>8, TypeParts DEF IInv

\* Every step preserves the invariant.
LEMMA NextInv == IInv /\ [Next]_vars => IInv'
<1> SUFFICES ASSUME IInv, [Next]_vars PROVE IInv'
  OBVIOUS
<1>1. ManagerType /\ LockType /\ ReceiverType /\ UpdateInv /\ RoundInv /\ Fresh /\ Counts
  BY TypeParts DEF IInv
<1>2. ManagerType' /\ LockType' /\ ReceiverType'
  BY <1>1, NextManagerType, NextLockType, NextReceiverType
<1>3. TypeOK'
  BY <1>2 DEF TypeOK, ManagerType, LockType, ReceiverType
<1>4. UpdateInv' /\ RoundInv' /\ Fresh' /\ Counts'
  BY <1>1, NextUpdateInv, NextRoundInv, NextFresh, NextCounts
<1>5. QED
  BY <1>3, <1>4 DEF IInv

\* The inductive invariant holds in every reachable state.
LEMMA Inductive == Spec => []IInv
BY InitInv, NextInv, PTL DEF Spec

-----------------------------------------------------------------------------
(* What follows from it.                                                   *)

\* No lock is released that is not held (readers stays a natural number), and
\* nothing goes out of its range, whatever updates overlap.
THEOREM TypeCorrect == Spec => []TypeOK
<1>1. IInv => TypeOK
  BY DEF IInv
<1>2. QED
  BY Inductive, <1>1, PTL

\* run of a typed client fills its slice from a second read of the Config,
\* which finds as many hosts as the first did: until the client has reported,
\* the round goes on and no update reaches its Config.
THEOREM RebuildAlwaysFits == Spec => []RebuildFits
<1>1. IInv => RebuildFits
  <2> SUFFICES ASSUME IInv, NEW k \in Clients, cliPc[k] = "fill"
               PROVE  Cardinality(config[ConfigOf[k]]) <= size[k]
    BY DEF RebuildFits
  <2>1. size[k] = Cardinality(config[ConfigOf[k]])
    BY DEF IInv, Fresh
  <2>2. size[k] \in Nat
    BY DEF IInv, TypeOK
  <2>3. QED
    BY <2>1, <2>2
<1>2. QED
  BY Inductive, <1>1, PTL

\* waitingCount of ClientSetsWatcher is the number of clients that have not
\* reported, for any number of clients on any number of Configs: NotifyDone is
\* never called twice in a round, nor by a client of an earlier one.
THEOREM WaitIsCounted == Spec => []WaitCountsUnreported
<1>1. IInv => WaitCountsUnreported
  <2> SUFFICES ASSUME IInv PROVE WaitCountsUnreported
    OBVIOUS
  <2> DEFINE Open == {k \in Clients : cliPc[k] = "store"}
             Reported == IF Open = {} THEN waitingCount ELSE waitingCount - 1
             Unreported ==
               {k \in Clients :
                  \/ cliPc[k] \in {"fill", "done"} \/ cliMsgs[k] > 0
                  \/ cfgPc[ConfigOf[k]] \in {"update", "notify"} \/ cfgMsgs[ConfigOf[k]] > 0
                  \/ \E u \in Updates : upd[u] = "send"}
  <2>0. ReceiverType /\ LockType /\ RoundInv /\ Counts
    BY TypeParts DEF IInv
  <2>1. ASSUME NEW k \in Clients PROVE k \in Unreported <=> Tokens(k) = 1
    <3>1. Tokens(k) \in {0, 1} /\ cfgMsgs[ConfigOf[k]] \in Nat /\ cliMsgs[k] \in Nat
      BY <2>0, TokenParts DEF RoundInv, OneToken
    <3>2. CASE k \in Unreported
      BY <2>0, <3>1, <3>2, TokenParts DEF Sending
    <3>3. CASE k \notin Unreported
      <4>1. /\ cliPc[k] \notin {"fill", "done"} /\ cliMsgs[k] = 0
            /\ cfgPc[ConfigOf[k]] \notin {"update", "notify"} /\ cfgMsgs[ConfigOf[k]] = 0
            /\ ~Sending
        BY <3>1, <3>3 DEF Sending
      <4>2. Tokens(k) = 0
        BY <4>1 DEF Tokens, Flag
      <4>3. QED
        BY <3>3, <4>2
    <3>4. QED
      BY <3>2, <3>3
  <2>2. Unreported = Left
    BY <2>1 DEF Left
  <2>3. Reported = Cardinality(Left)
    <3>1. CASE Open = {}
      <4>1. wmux = Free
        BY <2>0, <3>1 DEF Counts, LockType
      <4>2. QED
        BY <2>0, <3>1, <4>1 DEF Counts
    <3>2. CASE Open # {}
      <4>1. PICK k \in Clients : cliPc[k] = "store"
        BY <3>2
      <4>2. waitingCount = Cardinality(Left) + 1
        BY <2>0, <4>1 DEF Counts
      <4>3. QED
        BY <3>2, <4>2, FiniteClients
    <3>3. QED
      BY <3>1, <3>2
  <2>4. waitingCount > 0 => startWaiting /\ readers = 1
    <3>1. SUFFICES ASSUME waitingCount > 0, readers # 1 PROVE FALSE
      BY <2>0 DEF RoundInv, OneRound
    <3>2. \A k \in Clients : Tokens(k) = 0 /\ cliPc[k] # "store"
      BY <2>0, <3>1 DEF RoundInv, OneToken
    <3>3. Left = {} /\ Open = {}
      BY <3>2 DEF Left
    <3>4. Cardinality(Left) = 0
      BY <3>3, FS_EmptySet
    <3>5. QED
      BY <2>3, <3>1, <3>3, <3>4
  <2>5. QED
    BY <2>2, <2>3, <2>4 DEF WaitCountsUnreported
<1>2. QED
  BY Inductive, <1>1, PTL

(***************************************************************************)
(* The locks, counters and messages of apiserverupdate implement rounds:   *)
(* SetAPIServerConfig lets a map in only between rounds, a client rebuilds *)
(* itself only in a round and only from its map, and the NotifyDone that   *)
(* tells the reflectors finds every client on the map in force.            *)
(***************************************************************************)
THEOREM UpdatesImplementRounds == Spec => ImplementsRounds
<1>1. Init => Rounds!Init
  BY DEF Init, Rounds!Init, RoundOpen, NoMap
<1>2. IInv /\ [Next]_vars => [Rounds!Next]_Rounds!vars
  <2> SUFFICES ASSUME IInv, [Next]_vars PROVE [Rounds!Next]_Rounds!vars
    OBVIOUS
  <2>0. ManagerType /\ LockType /\ ReceiverType /\ UpdateInv /\ RoundInv /\ Fresh /\ Counts
    BY TypeParts DEF IInv
  <2>1. ASSUME NEW u \in Updates, SetAPIServerConfig(u) PROVE Rounds!LetIn
    <3>1. /\ upd[u] = "write" /\ readers = 0 /\ apiServerMap' = managerMap
          /\ upd' = [upd EXCEPT ![u] = "start"] /\ UNCHANGED <<restClients, resets>>
      BY <2>1 DEF SetAPIServerConfig, cliVars, countVars
    <3>2. managerMap \in SUBSET Servers /\ managerMap # {} /\ managerMap # apiServerMap
      BY <2>0, <3>1 DEF UpdateInv, NewMap, ManagerType, NoMap
    <3>3. ~RoundOpen
      BY <2>0, <3>1 DEF RoundOpen, UpdateInv, Exclusive, Critical
    <3>4. RoundOpen'
      BY <2>0, <3>1 DEF RoundOpen, ManagerType
    <3>5. QED
      BY <3>1, <3>2, <3>3, <3>4 DEF Rounds!LetIn
  <2>2. ASSUME NEW k \in Clients, RebuildClients(k) PROVE Rounds!TakeOver(k)
    <3>1. /\ cliPc[k] = "fill" /\ UNCHANGED <<apiServerMap, readers, upd, resets>>
          /\ restClients' = [restClients EXCEPT ![k] = config[ConfigOf[k]]]
      BY <2>2 DEF RebuildClients, lockVars, managerVars, countVars
    <3>2. config[ConfigOf[k]] = apiServerMap
      BY <2>0, <3>1 DEF Fresh
    <3>3. readers = 1
      BY <2>0, <3>1, DoneInRound DEF RoundInv
    <3>4. RoundOpen /\ (RoundOpen' <=> RoundOpen)
      BY <3>1, <3>3 DEF RoundOpen
    <3>5. QED
      BY <3>1, <3>2, <3>4 DEF Rounds!TakeOver
  <2>3. ASSUME NEW k \in Clients, NotifyLast(k) PROVE Rounds!Reset
    <3>1. /\ cliPc[k] = "done" /\ readers' = readers - 1 /\ resets' = resets + 1
          /\ UNCHANGED <<apiServerMap, restClients, upd>>
      BY <2>3 DEF NotifyLast, managerVars
    <3>2. readers = 1
      BY <2>0, <2>3, Reports
    <3>3. \A j \in Clients : restClients[j] = apiServerMap
      BY <2>0, <2>3, <3>1, <3>2, LastReports DEF Fresh
    <3>4. RoundOpen /\ ~RoundOpen'
      BY <2>0, <3>1, <3>2 DEF RoundOpen, RoundInv, OneRound
    <3>5. QED
      BY <3>1, <3>3, <3>4 DEF Rounds!Reset
  <2>4. ASSUME UNCHANGED <<apiServerMap, restClients, resets>>, RoundOpen' <=> RoundOpen
        PROVE  UNCHANGED Rounds!vars
    BY <2>4 DEF Rounds!vars
  <2>5. ASSUME NEW u \in Updates, LockStartWaiting(u) \/ StartWaitingForComplete(u)
        PROVE  UNCHANGED Rounds!vars
    <3>1. /\ upd[u] \in {"start", "count"} /\ UNCHANGED <<apiServerMap, restClients, resets>>
          /\ \/ upd' = [upd EXCEPT ![u] = "count"]
             \/ readers' = readers + 1
      BY <2>5 DEF LockStartWaiting, StartWaitingForComplete, cliVars, countVars
    <3>2. RoundOpen /\ RoundOpen'
      BY <2>0, <3>1 DEF RoundOpen, ManagerType, LockType
    <3>3. QED
      BY <2>4, <3>1, <3>2
  <2>6. ASSUME NEW u \in Updates,
               BeginUpdate(u) \/ CompareServerMap(u) \/ LockServerMap(u) \/ SendUpdateMessage(u)
        PROVE  UNCHANGED Rounds!vars
    <3>1. /\ upd[u] \notin {"start", "count"} /\ UNCHANGED <<apiServerMap, readers, restClients, resets>>
          /\ \E l \in {"compare", "lock", "write", "done"} : upd' = [upd EXCEPT ![u] = l]
      BY <2>6 DEF BeginUpdate, CompareServerMap, LockServerMap, SendUpdateMessage, lockVars,
                  cliVars, countVars
    <3>2. RoundOpen' <=> RoundOpen
      BY <2>0, <3>1 DEF RoundOpen, ManagerType
    <3>3. QED
      BY <2>4, <3>1, <3>2
  <2>7. CASE SyncApiServerConfig \/ UpdateApiServer
    <3>1. UNCHANGED <<apiServerMap, readers, restClients, resets>>
      BY <2>0, <2>7, NewUpdate DEF lockVars, cliVars, countVars
    <3>2. UNCHANGED upd \/ \E u \in Updates : upd[u] = "none" /\ upd' = [upd EXCEPT ![u] = "wait"]
      BY <2>0, <2>7, NewUpdate
    <3>3. RoundOpen' <=> RoundOpen
      BY <2>0, <3>1, <3>2 DEF RoundOpen, ManagerType
    <3>4. QED
      BY <2>4, <3>1, <3>3
  <2>8. ASSUME \/ ChangeEndpoints \/ ListEndpoints \/ UNCHANGED vars
               \/ \E c \in Configs :
                    JoinConfig(c) \/ ReadConfigMessage(c) \/ UpdateConfig(c) \/ NotifyClients(c)
               \/ \E k \in Clients :
                    \/ WatchUpdate(k) \/ AddWatcher(k) \/ AllocateClients(k)
                    \/ NotifyDone(k) \/ StoreWaitingCount(k)
        PROVE  UNCHANGED Rounds!vars
    <3>1. UNCHANGED <<apiServerMap, readers, upd, restClients, resets>>
      BY <2>8 DEF ChangeEndpoints, ListEndpoints, vars, JoinConfig, ReadConfigMessage,
                  UpdateConfig, NotifyClients, WatchUpdate, AddWatcher, AllocateClients,
                  NotifyDone, StoreWaitingCount, managerVars, lockVars, cliVars, countVars
    <3>2. RoundOpen' <=> RoundOpen
      BY <3>1 DEF RoundOpen
    <3>3. QED
      BY <2>4, <3>1, <3>2
  <2>9. QED
    BY <2>1, <2>2, <2>3, <2>5, <2>6, <2>7, <2>8, NextCases DEF Rounds!Next
<1>3. QED
  BY Inductive, <1>1, <1>2, PTL DEF Spec, ImplementsRounds, Rounds!Spec

=============================================================================
