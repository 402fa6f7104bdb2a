---------------------- MODULE FilteredReflectorProofs ----------------------
(***************************************************************************)
(* Safety of the filtered reflector, for every set of objects, members and *)
(* bounds and every number of writes, resets, faults and updates.          *)
(***************************************************************************)
EXTENDS FilteredReflector, TLAPS, SequenceTheorems, WellFoundedInduction

-----------------------------------------------------------------------------
(* The parts of the inductive invariant.                                   *)

\* A body of Run starts once, and again after each fault that ended one; an
\* update of the client set makes one message.
Counted ==
  /\ rounds <= faults + 1
  /\ pc = "body" => rounds <= faults
  /\ clientSets <= updates

\* The versions of an object grow: a write makes a version newer than any.
VersionsGrow ==
  \A o \in Objects, j \in 1 .. Now :
    /\ history[j][o] <= j
    /\ \A i \in 1 .. j : history[j][o] # 0 => history[i][o] <= history[j][o]

\* While it watches, the reflector goes on from the version it will ask for
\* in the next list.
Synced == pc \in {"watch", "handle"} => rv = lastSync /\ rv >= 1

\* Whatever is in the store, also what a list left there for other bounds, was
\* the state of its object at some version up to the last one seen.
StoreSeen ==
  \A o \in Objects : store[o] # 0 => \E k \in 1 .. lastSync : store[o] = history[k][o]

IInv == TypeOK /\ Counted /\ VersionsGrow /\ Synced /\ StoreSeen /\ StoreExact

-----------------------------------------------------------------------------
(* Facts about the operators.                                              *)

\* A nonempty set of natural numbers has a least element.
LEMMA LeastNatural ==
  ASSUME NEW S \in SUBSET Nat, S # {}
  PROVE  \E m \in S : \A k \in S : m <= k
<1> DEFINE R == OpToRel(<, Nat)
<1>1. IsWellFoundedOn(R, Nat)
  BY NatLessThanWellFounded, Zenon
<1>2. \A x, y \in Nat : x < y => <<x, y>> \in R
  BY Zenon DEF OpToRel
<1> HIDE DEF R
<1>3. PICK x \in S : \A y \in S : ~(<<y, x>> \in R)
  BY <1>1, WFMin
<1>4. \A y \in S : y \in Nat /\ x \in Nat /\ ~(y < x)
  BY <1>2, <1>3
<1>5. QED
  BY <1>4

\* Each place of the history has a version, or 0, for each object.
LEMMA HistoryType ==
  ASSUME TypeOK
  PROVE  /\ Now \in Nat /\ Now >= 1
         /\ \A n \in 1 .. Now : history[n] \in [Objects -> Nat]
BY BoundAssumption, ElementOfSeq DEF TypeOK, Now

\* A list is of a place of the history, and not of one before the last seen.
LEMMA RelistFacts ==
  ASSUME TypeOK, NEW n \in RelistVersion .. Now
  PROVE  n \in 1 .. Now /\ n >= lastSync
BY HistoryType DEF TypeOK, RelistVersion

\* What Write does to the history.
LEMMA WriteFacts ==
  ASSUME TypeOK, NEW o \in Objects, Write(o)
  PROVE  \E v \in {0, Now + 1} :
           /\ history' \in Seq([Objects -> Nat]) /\ Now' = Now + 1
           /\ \A i \in 1 .. Now : history'[i] = history[i]
           /\ history'[Now + 1] = [history[Now] EXCEPT ![o] = v]
           /\ Now + 1 <= MaxWrites + 1
<1>1. PICK v \in {0, Now + 1} : history' = Append(history, [history[Now] EXCEPT ![o] = v])
  BY DEF Write
<1>2. history \in Seq([Objects -> Nat]) /\ Now \in Nat /\ Now >= 1 /\ Now <= MaxWrites
  BY BoundAssumption DEF TypeOK, Write, Now
<1>3. history[Now] \in [Objects -> Nat]
  BY <1>2, ElementOfSeq DEF Now
<1> DEFINE new == [history[Now] EXCEPT ![o] = v]
<1>4. new \in [Objects -> Nat]
  BY <1>2, <1>3
<1>5. history' = Append(history, new)
  BY <1>1
<1> HIDE DEF new
<1>6. /\ history' \in Seq([Objects -> Nat]) /\ Now' = Now + 1
      /\ \A i \in 1 .. Now : history'[i] = history[i]
      /\ history'[Now + 1] = new
  BY <1>2, <1>4, <1>5, AppendProperties DEF Now
<1>7. Now + 1 <= MaxWrites + 1
  BY <1>2, BoundAssumption
<1>8. QED
  BY <1>6, <1>7, Zenon DEF new

-----------------------------------------------------------------------------
LEMMA InitType == Init => TypeOK /\ Counted
<1> SUFFICES ASSUME Init PROVE TypeOK /\ Counted
  OBVIOUS
<1>1. [o \in Objects |-> 0] \in [Objects -> Nat]
  OBVIOUS
<1>2. history \in Seq([Objects -> Nat]) /\ Len(history) = 1
  BY <1>1 DEF Init
<1>3. queue \in [Members -> Seq(Bounds)]
  BY EmptySeq DEF Init
<1>4. /\ announced \in [Sources -> Bounds \cup {None}]
      /\ held \in [Members -> [Rounds -> Bounds \cup {None, Exited}]]
      /\ bounds \in [Members -> Bounds \cup {None}]
  BY DEF Init
<1>5. /\ Now \in 1 .. MaxWrites + 1 /\ resets \in 0 .. MaxResets
      /\ rounds \in 0 .. MaxFaults + 1 /\ rv \in 0 .. Now /\ lastSync \in 0 .. Now
      /\ clientSets \in 0 .. MaxClientSets /\ updates \in 0 .. MaxClientSets
      /\ faults \in 0 .. MaxFaults
  BY <1>2, BoundAssumption DEF Init, Now
<1>6. /\ pc \in {"body", "start", "init", "list", "watch", "handle", "done"}
      /\ store \in [Objects -> Nat]
      /\ gone \in BOOLEAN /\ unfiltered \in BOOLEAN /\ stopped \in BOOLEAN
  BY <1>1 DEF Init
<1>7. TypeOK
  BY <1>2, <1>3, <1>4, <1>5, <1>6 DEF TypeOK
<1>8. Counted
  BY DEF Init, Counted
<1>9. QED
  BY <1>7, <1>8

\* The names of the actions of Run and of what surrounds it.
LEMMA NextCases ==
  ASSUME Next
  PROVE  \/ \E o \in Objects : Write(o)
         \/ \E s \in Sources : Announce(s)
         \/ UpdateClientSets \/ Stop
         \/ \E m \in Members, i \in Rounds :
              \/ Forward(m, i) \/ ForwarderExits(m, i)
              \/ WaitForBoundInit(m, i) \/ ResetFilterBound(m, i)
         \/ RunBody \/ ListAndWatch \/ StopRequested
         \/ List \/ ListExpired \/ ListFails
         \/ Watch \/ WatchFails \/ (\E n \in 1 .. Now : WatchHandler(n)) \/ WatchCloses
         \/ ResetClientSet
BY DEF Next, ForwarderStep, RunStep, Receive

\* TypeOK and Counted are inductive together.
LEMMA NextType ==
  ASSUME TypeOK, Counted, [Next]_vars
  PROVE  TypeOK' /\ Counted'
<1> USE BoundAssumption
<1>1. CASE UNCHANGED vars
  BY <1>1 DEF TypeOK, Counted, vars, Now
<1>2. ASSUME NEW o \in Objects, Write(o) PROVE TypeOK' /\ Counted'
  <2>1. /\ history' \in Seq([Objects -> Nat]) /\ Now' = Now + 1
        /\ Now + 1 <= MaxWrites + 1
    BY <1>2, WriteFacts
  <2>2. Now' \in 1 .. MaxWrites + 1 /\ rv' \in 0 .. Now' /\ lastSync' \in 0 .. Now'
    BY <1>2, <2>1, HistoryType DEF TypeOK, Write, runVars
  <2>3. QED
    BY <1>2, <2>1, <2>2 DEF TypeOK, Counted, Write, runVars
<1>3. ASSUME NEW s \in Sources, Announce(s) PROVE TypeOK' /\ Counted'
  BY <1>3 DEF TypeOK, Counted, Announce, runVars, Now
<1>4. CASE UpdateClientSets
  BY <1>4 DEF TypeOK, Counted, UpdateClientSets, runVars, Now
<1>5. CASE Stop
  BY <1>5 DEF TypeOK, Counted, Stop, runVars, Now
<1>6. ASSUME NEW m \in Members, NEW i \in Rounds, Forward(m, i) PROVE TypeOK' /\ Counted'
  BY <1>6 DEF TypeOK, Counted, Forward, runVars, Now
<1>7. ASSUME NEW m \in Members, NEW i \in Rounds, ForwarderExits(m, i)
      PROVE  TypeOK' /\ Counted'
  BY <1>7 DEF TypeOK, Counted, ForwarderExits, serverVars, runVars, Now
<1>8. ASSUME NEW m \in Members, NEW i \in Rounds, WaitForBoundInit(m, i)
      PROVE  TypeOK' /\ Counted'
  BY <1>8 DEF TypeOK, Counted, WaitForBoundInit, SetBounds, serverVars, Now
<1>9. ASSUME NEW m \in Members, NEW i \in Rounds, ResetFilterBound(m, i)
      PROVE  TypeOK' /\ Counted'
  BY <1>9 DEF TypeOK, Counted, ResetFilterBound, SetBounds, Again, serverVars, Now
<1>10. CASE RunBody
  BY <1>10 DEF TypeOK, Counted, RunBody, serverVars, Now
<1>11. CASE ListAndWatch
  BY <1>11 DEF TypeOK, Counted, ListAndWatch, Again, serverVars, Now
<1>12. CASE StopRequested
  BY <1>12 DEF TypeOK, Counted, StopRequested, Again, serverVars, Now
<1>13. CASE List
  <2>1. PICK n \in RelistVersion .. Now :
          SyncWith([o \in Objects |-> IF Selected(o, bounds) THEN history[n][o] ELSE 0], n)
    BY <1>13 DEF List
  <2>2. n \in 1 .. Now
    BY RelistFacts
  <2>3. store' \in [Objects -> Nat] /\ rv' \in 0 .. Now /\ lastSync' \in 0 .. Now
    BY <2>1, <2>2, HistoryType DEF SyncWith, TypeOK
  <2>4. QED
    BY <1>13, <2>1, <2>3 DEF TypeOK, Counted, List, SyncWith, serverVars, Now
<1>14. CASE ListExpired
  <2>1. history[Now] \in [Objects -> Nat]
    BY HistoryType
  <2>2. CASE SyncWith(history[Now], Now) /\ unfiltered' = TRUE
    <3>1. store' \in [Objects -> Nat] /\ rv' \in 0 .. Now /\ lastSync' \in 0 .. Now
      BY <2>1, <2>2, HistoryType DEF SyncWith
    <3>2. /\ faults' = faults + 1 /\ faults < MaxFaults /\ pc' = "watch"
          /\ gone' \in BOOLEAN /\ unfiltered' \in BOOLEAN
          /\ UNCHANGED <<serverVars, held, rounds, bounds>>
      BY <1>14, <2>2 DEF ListExpired, SyncWith, Fault
    <3>3. QED
      BY <3>1, <3>2 DEF TypeOK, Counted, serverVars, Now
  <2>3. CASE gone' = TRUE /\ Fail /\ UNCHANGED <<store, rv, lastSync, unfiltered>>
    BY <1>14, <2>3 DEF TypeOK, Counted, ListExpired, Fault, Fail, serverVars, Now
  <2>4. QED
    BY <1>14, <2>2, <2>3 DEF ListExpired
<1>15. CASE ListFails
  BY <1>15 DEF TypeOK, Counted, ListFails, Fault, Fail, serverVars, Now
<1>16. CASE Watch
  BY <1>16 DEF TypeOK, Counted, Watch, serverVars, Now
<1>17. CASE WatchFails
  BY <1>17 DEF TypeOK, Counted, WatchFails, Fault, Again, serverVars, Now
<1>18. ASSUME NEW n \in 1 .. Now, WatchHandler(n) PROVE TypeOK' /\ Counted'
  BY <1>18 DEF TypeOK, Counted, WatchHandler, serverVars, Now
<1>19. CASE WatchCloses
  BY <1>19 DEF TypeOK, Counted, WatchCloses, Fault, Again, serverVars, Now
<1>20. CASE ResetClientSet
  BY <1>20 DEF TypeOK, Counted, ResetClientSet, Again, Now
<1>21. QED
  BY NextCases, <1>1, <1>2, <1>3, <1>4, <1>5, <1>6, <1>7, <1>8, <1>9, <1>10, <1>11,
     <1>12, <1>13, <1>14, <1>15, <1>16, <1>17, <1>18, <1>19, <1>20

-----------------------------------------------------------------------------
(* The store and the history.                                              *)

\* A step that leaves the store, the versions and the history alone, and does
\* not bring Run to the watch.
Aside ==
  /\ UNCHANGED <<history, store, rv, lastSync>>
  /\ pc' \in {"watch", "handle"} =>
       pc \in {"watch", "handle"} /\ UNCHANGED <<bounds, unfiltered>>

\* The store is brought to version n by a list: the objects of S are as they
\* were at n, others are not in it.
ListedAt(n, S) ==
  /\ n \in 1 .. Now /\ n >= lastSync
  /\ store' = [o \in Objects |-> IF o \in S THEN history[n][o] ELSE 0]
  /\ rv' = n /\ lastSync' = n /\ pc' = "watch"
  /\ UNCHANGED <<history, bounds>>

\* Every step writes an object, lists with or without the selector, handles an
\* event, or leaves store, versions and history alone.
LEMMA NextShape ==
  ASSUME TypeOK, [Next]_vars
  PROVE  \/ \E o \in Objects : Write(o)
         \/ \E n \in 1 .. Now : ListedAt(n, {o \in Objects : Selected(o, bounds)})
         \/ ListedAt(Now, Objects) /\ unfiltered' = TRUE
         \/ \E n \in 1 .. Now : WatchHandler(n)
         \/ Aside
<1>1. CASE UNCHANGED vars
  BY <1>1 DEF vars, Aside
<1>2. ASSUME NEW s \in Sources, Announce(s) PROVE Aside
  BY <1>2 DEF Announce, Aside, runVars
<1>3. CASE UpdateClientSets \/ Stop
  BY <1>3 DEF UpdateClientSets, Stop, Aside, runVars
<1>4. ASSUME NEW m \in Members, NEW i \in Rounds, Forward(m, i) \/ ForwarderExits(m, i)
      PROVE  Aside
  BY <1>4 DEF Forward, ForwarderExits, Aside, serverVars, runVars
<1>5. ASSUME NEW m \in Members, NEW i \in Rounds,
             WaitForBoundInit(m, i) \/ ResetFilterBound(m, i)
      PROVE  Aside
  BY <1>5 DEF WaitForBoundInit, ResetFilterBound, Again, Aside, serverVars
<1>6. CASE RunBody \/ ListAndWatch \/ StopRequested \/ ListFails
  BY <1>6 DEF RunBody, ListAndWatch, StopRequested, ListFails, Again, Fail, Aside, serverVars
<1>7. CASE List
  <2>1. PICK n \in RelistVersion .. Now :
          SyncWith([o \in Objects |-> IF Selected(o, bounds) THEN history[n][o] ELSE 0], n)
    BY <1>7 DEF List
  <2>2. n \in 1 .. Now /\ n >= lastSync
    BY RelistFacts
  <2>3. ListedAt(n, {o \in Objects : Selected(o, bounds)})
    BY <1>7, <2>1, <2>2 DEF List, SyncWith, ListedAt, serverVars
  <2>4. QED
    BY <2>2, <2>3
<1>8. CASE ListExpired
  <2>1. CASE SyncWith(history[Now], Now) /\ unfiltered' = TRUE
    <3>1. Now \in 1 .. Now /\ Now >= lastSync /\ history[Now] \in [Objects -> Nat]
      BY HistoryType DEF TypeOK
    <3>2. store' = [o \in Objects |-> IF o \in Objects THEN history[Now][o] ELSE 0]
      BY <2>1, <3>1 DEF SyncWith
    <3>3. ListedAt(Now, Objects)
      BY <1>8, <2>1, <3>1, <3>2 DEF ListExpired, SyncWith, ListedAt, serverVars
    <3>4. QED
      BY <2>1, <3>3
  <2>2. CASE gone' = TRUE /\ Fail /\ UNCHANGED <<store, rv, lastSync, unfiltered>>
    BY <1>8, <2>2 DEF ListExpired, Fail, Aside, serverVars
  <2>3. QED
    BY <1>8, <2>1, <2>2 DEF ListExpired
<1>9. CASE Watch \/ WatchFails \/ WatchCloses \/ ResetClientSet
  BY <1>9 DEF Watch, WatchFails, WatchCloses, ResetClientSet, Again, Aside, serverVars
<1>10. QED
  BY NextCases, <1>1, <1>2, <1>3, <1>4, <1>5, <1>6, <1>7, <1>8, <1>9

\* Versions grow with every write and the history has no other changes.
LEMMA NextVersionsGrow ==
  ASSUME TypeOK, [Next]_vars, VersionsGrow
  PROVE  VersionsGrow'
<1>1. ASSUME NEW o \in Objects, Write(o) PROVE VersionsGrow'
  <2>1. PICK v \in {0, Now + 1} :
          /\ Now' = Now + 1
          /\ \A i \in 1 .. Now : history'[i] = history[i]
          /\ history'[Now + 1] = [history[Now] EXCEPT ![o] = v]
    BY <1>1, WriteFacts
  <2>2. SUFFICES ASSUME NEW p \in Objects, NEW j \in 1 .. Now + 1
                 PROVE  /\ history'[j][p] <= j
                        /\ \A i \in 1 .. j :
                             history'[j][p] # 0 => history'[i][p] <= history'[j][p]
    BY <2>1 DEF VersionsGrow
  <2>3. CASE j \in 1 .. Now
    BY <2>1, <2>3, HistoryType DEF VersionsGrow
  <2>4. CASE j = Now + 1
    <3>1. \A i \in 1 .. Now : history'[i][p] = history[i][p] /\ history[i][p] \in Nat
                              /\ history[i][p] <= i
      BY <2>1, HistoryType DEF VersionsGrow
    <3>2. \A i \in 1 .. Now : history[Now][p] # 0 => history[i][p] <= history[Now][p]
      BY HistoryType DEF VersionsGrow
    <3>3. history'[j][p] = IF p = o THEN v ELSE history[Now][p]
      BY <2>1, <2>4, HistoryType
    <3>4. Now \in Nat /\ Now >= 1
      BY HistoryType
    <3>5. history'[j][p] \in Nat /\ history'[j][p] <= j
      BY <2>4, <3>1, <3>3, <3>4
    <3>6. \A i \in 1 .. Now : history'[j][p] # 0 => history'[i][p] <= history'[j][p]
      BY <3>1, <3>2, <3>3, <3>4
    <3>7. QED
      BY <2>4, <3>4, <3>5, <3>6
  <2>5. QED
    BY <2>3, <2>4, HistoryType
<1>2. CASE UNCHANGED history
  BY <1>2 DEF VersionsGrow, Now
<1>3. QED
  BY <1>1, <1>2, NextShape DEF ListedAt, WatchHandler, Aside, serverVars

\* The server reports nothing between rv and n of a selected object, so that
\* the object is before n as it was at rv.
LEMMA ReportedNext ==
  ASSUME TypeOK, rv >= 1, NEW n \in 1 .. Now, Reported(n),
         NEW o \in Objects, Selected(o, bounds)
  PROVE  history[n - 1][o] = history[rv][o]
<1> DEFINE S == {k \in rv .. n - 1 : history[k][o] # history[rv][o]}
<1>1. rv \in Nat /\ n \in Nat /\ rv + 1 <= n
  BY HistoryType DEF TypeOK, Reported
<1>2. \A k \in rv + 1 .. n - 1 : history[k][o] = history[k - 1][o]
  BY DEF Reported
<1>3. S = {}
  <2> SUFFICES ASSUME S # {} PROVE FALSE
    OBVIOUS
  <2>1. S \in SUBSET Nat
    BY <1>1
  <2>2. PICK m \in S : \A k \in S : m <= k
    BY <2>1, LeastNatural
  <2>3. m \in rv + 1 .. n - 1
    BY <1>1, <2>2
  <2>4. m - 1 \in rv .. n - 1 /\ m - 1 \notin S
    BY <1>1, <2>2, <2>3
  <2>5. history[m - 1][o] = history[rv][o]
    BY <2>4
  <2>6. QED
    BY <1>2, <2>2, <2>3, <2>5
<1>4. QED
  BY <1>1, <1>3

\* What WatchHandler puts into the store.
LEMMA HandlerFacts ==
  ASSUME TypeOK, Synced, NEW n \in 1 .. Now, WatchHandler(n)
  PROVE  /\ rv = lastSync /\ rv >= 1 /\ rv + 1 <= n
         /\ rv' = n /\ lastSync' = n /\ UNCHANGED <<history, bounds, unfiltered>>
         /\ \A o \in Objects : store'[o] \in {store[o], history[n][o]}
         /\ \A o \in Objects : ~Selected(o, bounds) => store'[o] = store[o]
         /\ \A o \in Objects : Selected(o, bounds) =>
              store'[o] = IF history[n][o] # history[rv][o] THEN history[n][o] ELSE store[o]
<1>1. pc = "handle" /\ Reported(n)
  BY DEF WatchHandler
<1>2. rv = lastSync /\ rv >= 1 /\ rv + 1 <= n
  BY <1>1 DEF Synced, Reported
<1>3. store' = [o \in Objects |->
        IF Selected(o, bounds) /\ history[n][o] # history[n - 1][o]
        THEN history[n][o] ELSE store[o]]
  BY DEF WatchHandler
<1>4. \A o \in Objects : Selected(o, bounds) => history[n - 1][o] = history[rv][o]
  BY <1>1, <1>2, ReportedNext
<1>5. QED
  BY <1>2, <1>3, <1>4 DEF WatchHandler, serverVars

\* Synced, StoreSeen and StoreExact go through every step.
LEMMA NextStore ==
  ASSUME TypeOK, Synced, StoreSeen, StoreExact, [Next]_vars
  PROVE  Synced' /\ StoreSeen' /\ StoreExact'
<1> USE HistoryType
<1>0. rv \in 0 .. Now /\ lastSync \in 0 .. Now
  BY DEF TypeOK
<1>1. ASSUME NEW w \in Objects, Write(w) PROVE Synced' /\ StoreSeen' /\ StoreExact'
  <2>1. /\ \A i \in 1 .. Now : history'[i] = history[i]
        /\ UNCHANGED <<pc, bounds, store, rv, lastSync, unfiltered>>
    BY <1>1, WriteFacts DEF Write, runVars
  <2>2. Synced'
    BY <2>1 DEF Synced
  <2>3. StoreSeen'
    BY <1>0, <2>1 DEF StoreSeen
  <2>4. StoreExact'
    BY <1>0, <2>1 DEF StoreExact, Selected, Synced
  <2>5. QED
    BY <2>2, <2>3, <2>4
<1>2. ASSUME NEW n \in 1 .. Now, NEW S, ListedAt(n, S),
             S = {o \in Objects : Selected(o, bounds)} \/ (S = Objects /\ unfiltered' = TRUE)
      PROVE  Synced' /\ StoreSeen' /\ StoreExact'
  <2>1. Synced'
    BY <1>2 DEF ListedAt, Synced
  <2>2. StoreSeen'
    BY <1>2 DEF ListedAt, StoreSeen
  <2>3. StoreExact'
    BY <1>2 DEF ListedAt, StoreExact, Selected
  <2>4. QED
    BY <2>1, <2>2, <2>3
<1>3. ASSUME NEW n \in 1 .. Now, WatchHandler(n) PROVE Synced' /\ StoreSeen' /\ StoreExact'
  <2>1. Synced'
    BY <1>3, HandlerFacts DEF Synced
  <2>2. StoreSeen'
    <3> SUFFICES ASSUME NEW o \in Objects, store'[o] # 0
                 PROVE  \E k \in 1 .. n : store'[o] = history[k][o]
      BY <1>3, HandlerFacts DEF StoreSeen
    <3>1. CASE store'[o] = history[n][o]
      BY <3>1
    <3>2. CASE store'[o] = store[o]
      <4>1. PICK k \in 1 .. lastSync : store[o] = history[k][o]
        BY <3>2 DEF StoreSeen
      <4>2. k \in 1 .. n
        BY <1>0, <1>3, HandlerFacts
      <4>3. QED
        BY <3>2, <4>1, <4>2
    <3>3. QED
      BY <1>3, <3>1, <3>2, HandlerFacts
  <2>3. StoreExact'
    <3>1. pc = "handle"
      BY <1>3 DEF WatchHandler
    <3>2. \A o \in Objects : IF Selected(o, bounds) THEN store'[o] = history[n][o]
                             ELSE store'[o] = 0 \/ unfiltered
      BY <1>3, <3>1, HandlerFacts DEF StoreExact
    <3>3. QED
      BY <1>3, <3>2, HandlerFacts DEF StoreExact, Selected
  <2>4. QED
    BY <2>1, <2>2, <2>3
<1>4. CASE Aside
  BY <1>4 DEF Aside, Synced, StoreSeen, StoreExact, Selected
<1>5. Now \in 1 .. Now
  OBVIOUS
<1>6. QED
  BY <1>1, <1>2, <1>3, <1>4, <1>5, NextShape

-----------------------------------------------------------------------------
(* The theorems.                                                           *)

\* The inductive invariant holds in every reachable state.
LEMMA Inductive == Spec => []IInv
<1>1. Init => IInv
  <2> SUFFICES ASSUME Init PROVE IInv
    OBVIOUS
  <2>1. TypeOK /\ Counted
    BY InitType
  <2>2. VersionsGrow
    BY DEF Init, VersionsGrow, Now
  <2>3. Synced /\ StoreSeen /\ StoreExact
    BY DEF Init, Synced, StoreSeen, StoreExact
  <2>4. QED
    BY <2>1, <2>2, <2>3 DEF IInv
<1>2. IInv /\ [Next]_vars => IInv'
  BY NextType, NextVersionsGrow, NextStore DEF IInv
<1>3. QED
  BY <1>1, <1>2, PTL DEF Spec

\* Every variable of the reflector, its forwarders and the server keeps its
\* type: no counter passes its bound, rv and lastSync never run ahead of the
\* server, and the bounds in force are always ones that were announced.
THEOREM TypeCorrect == Spec => []TypeOK
<1>1. IInv => TypeOK
  BY DEF IInv
<1>2. QED
  BY <1>1, Inductive, PTL

\* While it watches, the store is the server's state at resourceVersion cut
\* down to the bounds in force, after any number of resets, breaks and relists.
THEOREM StoreIsExact == Spec => []StoreExact
<1>1. IInv => StoreExact
  BY DEF IInv
<1>2. QED
  BY <1>1, Inductive, PTL

\* No step, a relist with other bounds or after an expired version included,
\* puts an older version of an object in the place of a newer one.
THEOREM StoreNeverBack == Spec => NeverBack
<1> DEFINE Forth == \A o \in Objects : store'[o] # 0 => store'[o] >= store[o]
<1>1. ASSUME IInv, [Next]_vars PROVE Forth
  <2> USE HistoryType
  <2>1. TypeOK /\ VersionsGrow /\ Synced /\ StoreSeen
    BY <1>1 DEF IInv
  <2>2. lastSync \in 0 .. Now /\ \A o \in Objects : store[o] \in Nat
    BY <2>1 DEF TypeOK
  <2>3. ASSUME NEW n \in 1 .. Now, n >= lastSync, NEW o \in Objects, history[n][o] # 0
        PROVE  history[n][o] >= store[o]
    <3>1. CASE store[o] = 0
      BY <2>1, <3>1
    <3>2. CASE store[o] # 0
      <4>1. PICK k \in 1 .. lastSync : store[o] = history[k][o]
        BY <2>1, <3>2 DEF StoreSeen
      <4>2. k \in 1 .. n
        BY <2>2, <2>3
      <4>3. QED
        BY <2>1, <2>3, <4>1, <4>2 DEF VersionsGrow
    <3>3. QED
      BY <3>1, <3>2
  <2>4. ASSUME NEW w \in Objects, Write(w) PROVE Forth
    BY <2>2, <2>4 DEF Write, runVars
  <2>5. ASSUME NEW n \in 1 .. Now, NEW S, ListedAt(n, S) PROVE Forth
    BY <2>2, <2>3, <2>5 DEF ListedAt
  <2>6. ASSUME NEW n \in 1 .. Now, WatchHandler(n) PROVE Forth
    <3>1. n >= lastSync /\ \A o \in Objects : store'[o] \in {store[o], history[n][o]}
      BY <2>1, <2>2, <2>6, HandlerFacts
    <3>2. QED
      BY <2>2, <2>3, <3>1
  <2>7. CASE Aside
    BY <2>2, <2>7 DEF Aside
  <2>8. Now \in 1 .. Now
    BY <2>1
  <2>9. QED
    BY <1>1, <2>1, <2>4, <2>5, <2>6, <2>7, <2>8, NextShape
<1>2. IInv /\ [Next]_vars => [Forth]_vars
  BY <1>1
<1>3. QED
  BY <1>2, Inductive, PTL DEF Spec, NeverBack

=============================================================================
