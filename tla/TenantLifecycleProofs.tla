----------------------- MODULE TenantLifecycleProofs ------------------------
(***************************************************************************)
(* The deletion of tenants, for any number of controllers, API servers,    *)
(* kinds of content and tenants of the name: only a tenant that somebody   *)
(* asked to delete is deleted, and it leaves nothing behind.               *)
(***************************************************************************)
EXTENDS TenantLifecycle, TLAPS, SequenceTheorems, FiniteSetTheorems

-----------------------------------------------------------------------------
(* The parts of the inductive invariant.                                   *)

\* The version of a tenant tells which write it is of.
Versioned == \A i \in 1 .. Now : Exists(history[i]) => history[i].version = i

\* A deleter at work has a tenant that it once read, and that was to be deleted.
HasRead ==
  \A c \in Controllers :
    /\ pc[c] \in {"purge", "finalize", "retry", "delete"} => Exists(loc[c])
    /\ Exists(loc[c]) => \E i \in 1 .. Now : history[i] = loc[c]
    /\ Exists(loc[c]) => loc[c].uid \in asked

Empty == \A r \in Resources : content[r] = 0

\* The deleter c has deleted r in this pass, and nothing was left so far.
Cleared(c, r) ==
  \/ pc[c] = "purge" /\ ~remaining[c] /\ r \notin todo[c]
  \/ pc[c] \in {"finalize", "retry"}

\* What a deleter has cleared is not there.
PassedEmpty ==
  late \/ \A c \in Controllers, r \in Resources : Cleared(c, r) => content[r] = 0

\* A tenant that the controller has let go has no content.
FinalizedEmpty ==
  late \/ (Exists(Current) /\ Arktos \notin Current.finalizers => Empty)

IInv ==
  /\ TypeOK /\ Versioned /\ HasRead /\ OnlyAskedFor
  /\ PassedEmpty /\ FinalizedEmpty /\ Purged

-----------------------------------------------------------------------------
(* The writes of the tenant.                                               *)

\* The actions of Next.
LEMMA NextCases ==
  ASSUME Next
  PROVE  \/ CreateTenant \/ RemoveOtherFinalizer \/ PeerFinalizes
         \/ \E r \in Resources : Collect(r)
         \/ \E a \in Servers : DeleteTenantRequest(a) \/ ForceLiveExpires(a) \/ ObserveAdm(a)
         \/ \E a \in Servers, r \in Resources : AdmitCreate(a, r)
         \/ \E q \in inflight : StoreCreate(q)
         \/ \E c \in Controllers :
              \/ Observe(c) \/ ObserveContent(c) \/ Resync(c) \/ DeleterFails(c)
              \/ ProcessQueue(c) \/ SyncTenant(c) \/ RestartController(c)
              \/ GetTenant(c) \/ PurgeEnds(c) \/ FinalizeTenant(c)
              \/ RetryOnConflict(c) \/ DeleteTenant(c)
              \/ \E a \in Servers : CreateDefault(c, a) \/ \E r \in Resources : Purge(c, a, r)
BY DEF Next, WorkerStep

\* The types of what the API server stores
StoredType ==
  /\ history \in Seq(Tenant \cup {Gone}) /\ Now > 0
  /\ asked \subseteq 1 .. MaxTenants

\* ... of the content and its creation
ContentType ==
  /\ content \in [Resources -> 0 .. MaxTenants] /\ terminating \subseteq Resources
  /\ inflight \subseteq [resource : Resources, uid : 1 .. MaxTenants, server : Servers]
  /\ creates \in 0 .. MaxTroubles /\ faults \in 0 .. MaxTroubles
  /\ late \in BOOLEAN

\* ... of the informers
InformerType ==
  /\ admSeen \in [Servers -> 1 .. Now] /\ forceLive \in [Servers -> BOOLEAN]
  /\ seen \in [Controllers -> 1 .. Now] /\ known \in [Controllers -> SUBSET Resources]
  /\ queue \in [Controllers -> BOOLEAN]

\* ... and of the workers
WorkerType ==
  /\ pc \in [Controllers -> Labels]
  /\ step \in [Controllers -> 1 .. Len(Defaults)]
  /\ loc \in [Controllers -> Tenant \cup {Gone}]
  /\ todo \in [Controllers -> SUBSET Resources] /\ remaining \in [Controllers -> BOOLEAN]

\* The type invariant is made of these four.
LEMMA TypeParts == TypeOK <=> StoredType /\ ContentType /\ InformerType /\ WorkerType
BY DEF TypeOK, StoredType, ContentType, InformerType, WorkerType

\* A tenant is a record with these fields, and is there.
LEMMA TenantFacts ==
  ASSUME NEW t \in Tenant
  PROVE  /\ Exists(t) /\ t.uid \in 1 .. MaxTenants /\ t.version \in Nat /\ t.deleting \in BOOLEAN
         /\ t.finalizers \in SUBSET ({Arktos} \cup OtherFinalizers)
<1>1. /\ t.uid \in 1 .. MaxTenants /\ t.version \in Nat /\ t.deleting \in BOOLEAN
      /\ t.finalizers \in SUBSET ({Arktos} \cup OtherFinalizers)
  BY DEF Tenant
<1>2. t.uid # 0
  BY <1>1, BoundAssumption
<1>3. QED
  BY <1>1, <1>2 DEF Exists, Gone

\* Changes of a tenant make tenants.
LEMMA TenantUpdates ==
  ASSUME NEW t \in Tenant
  PROVE  /\ Marked(t) \in Tenant /\ Marked(t).uid = t.uid /\ Marked(t).finalizers = t.finalizers
         /\ \A f : LET u == [t EXCEPT !.finalizers = @ \ {f}]
                   IN u \in Tenant /\ u.uid = t.uid /\ u.deleting = t.deleting
                      /\ u.finalizers = t.finalizers \ {f}
         /\ \A n \in Nat : LET u == [t EXCEPT !.version = n]
                           IN u \in Tenant /\ u.uid = t.uid /\ u.deleting = t.deleting
                              /\ u.finalizers = t.finalizers /\ u.version = n
<1>1. Marked(t) \in Tenant /\ Marked(t).uid = t.uid /\ Marked(t).finalizers = t.finalizers
  BY DEF Tenant, Marked
<1>2. ASSUME NEW f
      PROVE  LET u == [t EXCEPT !.finalizers = @ \ {f}]
             IN u \in Tenant /\ u.uid = t.uid /\ u.deleting = t.deleting
                /\ u.finalizers = t.finalizers \ {f}
  BY DEF Tenant
<1>3. ASSUME NEW n \in Nat
      PROVE  LET u == [t EXCEPT !.version = n]
             IN u \in Tenant /\ u.uid = t.uid /\ u.deleting = t.deleting
                /\ u.finalizers = t.finalizers /\ u.version = n
  BY DEF Tenant
<1>4. QED
  BY <1>1, <1>2, <1>3

\* The history holds tenants, and times when there was none.
LEMMA HistoryFacts ==
  ASSUME StoredType
  PROVE  /\ Now \in Nat /\ Now > 0 /\ Current \in Tenant \cup {Gone}
         /\ \A i \in 1 .. Now : history[i] \in Tenant \cup {Gone}
BY LenProperties, ElementOfSeq DEF StoredType, Now, Current

\* What a write of the tenant does: earlier versions stay, and the tenant is as
\* written, or gone if nothing keeps it.
LEMMA PutFacts ==
  ASSUME StoredType, Versioned, NEW t \in Tenant, Put(t)
  PROVE  /\ history' \in Seq(Tenant \cup {Gone}) /\ Now' \in Nat /\ Now' >= Now
         /\ \A i \in 1 .. Now : history'[i] = history[i]
         /\ Versioned'
         /\ \/ ~Exists(Current)' /\ t.deleting /\ t.finalizers = {}
            \/ /\ Current' \in Tenant /\ Current'.uid = t.uid /\ Current'.deleting = t.deleting
               /\ Current'.finalizers = t.finalizers
<1>0. Now \in Nat /\ Now > 0 /\ history \in Seq(Tenant \cup {Gone})
  BY HistoryFacts DEF StoredType
<1>1. CASE t = Current
  <2>1. history' = history
    BY <1>1 DEF Put
  <2>2. QED
    BY <1>0, <1>1, <2>1 DEF Now, Current, Versioned
<1>2. CASE t # Current
  <2> DEFINE u == [t EXCEPT !.version = Now + 1]
             v == IF t.deleting /\ t.finalizers = {} THEN Gone ELSE u
  <2>1. history' = Append(history, v)
    BY <1>2 DEF Put
  <2>2. u \in Tenant /\ u.uid = t.uid /\ u.deleting = t.deleting
        /\ u.finalizers = t.finalizers /\ u.version = Now + 1
    BY <1>0, TenantUpdates
  <2>3. v \in Tenant \cup {Gone} /\ (Exists(v) => v.version = Now + 1)
    BY <2>2 DEF Exists
  <2>4. \/ v = Gone /\ t.deleting /\ t.finalizers = {}
        \/ v = u
    OBVIOUS
  <2> HIDE DEF u, v
  <2>5. /\ history' \in Seq(Tenant \cup {Gone}) /\ Now' = Now + 1
        /\ \A i \in 1 .. Now : history'[i] = history[i]
        /\ history'[Now + 1] = v
    BY <1>0, <2>1, <2>3, AppendProperties DEF Now
  <2>6. Current' = v
    BY <2>5 DEF Current
  <2>7. Versioned'
    <3> SUFFICES ASSUME NEW i \in 1 .. Now', Exists(history'[i]) PROVE history'[i].version = i
      BY DEF Versioned
    <3>1. CASE i \in 1 .. Now
      BY <2>5, <3>1 DEF Versioned
    <3>2. CASE i = Now + 1
      BY <2>3, <2>5, <3>2
    <3>3. QED
      BY <1>0, <2>5, <3>1, <3>2
  <2>8. \/ ~Exists(Current)' /\ t.deleting /\ t.finalizers = {}
        \/ /\ Current' \in Tenant /\ Current'.uid = t.uid /\ Current'.deleting = t.deleting
           /\ Current'.finalizers = t.finalizers
    BY <2>2, <2>4, <2>6 DEF Exists
  <2>9. QED
    BY <1>0, <2>5, <2>7, <2>8
<1>3. QED
  BY <1>1, <1>2

\* A tenant that is there, as a record.
LEMMA CurrentTenant ==
  ASSUME StoredType, Exists(Current)
  PROVE  Current \in Tenant
BY HistoryFacts DEF Exists

\* A deleter whose tenant has the version of the current one has the current one.
LEMMA SameVersion ==
  ASSUME StoredType, WorkerType, Versioned, HasRead, NEW c \in Controllers,
         Exists(loc[c]), Exists(Current), Current.version = loc[c].version
  PROVE  loc[c] = Current
<1>1. PICK i \in 1 .. Now : history[i] = loc[c]
  BY DEF HasRead
<1>2. Now \in 1 .. Now /\ i \in Nat
  BY HistoryFacts
<1>3. Current.version = Now /\ loc[c].version = i
  BY <1>1, <1>2 DEF Versioned, Current
<1>4. QED
  BY <1>1, <1>3 DEF Current

\* The tenant t is written in place of the current one, if there is one.
Replaces(t) ==
  /\ Put(t) /\ UNCHANGED <<content, late>>
  /\ \/ ~Exists(Current) /\ ~t.deleting /\ Arktos \in t.finalizers
     \/ /\ Exists(Current) /\ t.uid = Current.uid /\ t.uid \in asked'
        /\ Arktos \notin t.finalizers => late \/ Empty

(***************************************************************************)
(* Whoever writes the tenant creates it, or goes on with the deletion that *)
(* was asked for: nobody lets it go before its content is.                 *)
(***************************************************************************)
LEMMA Writes ==
  ASSUME StoredType, WorkerType, Versioned, HasRead, OnlyAskedFor, PassedEmpty, FinalizedEmpty,
         [Next]_vars
  PROVE  \/ UNCHANGED <<history, asked>>
         \/ asked \subseteq asked' /\ asked' \subseteq 1 .. MaxTenants /\ \E t \in Tenant : Replaces(t)
<1>0. asked \subseteq 1 .. MaxTenants
  BY DEF StoredType
<1>1. CASE CreateTenant
  <2> DEFINE n == Cardinality(Tenants)
             t == [uid |-> n + 1, version |-> 0, deleting |-> FALSE,
                   finalizers |-> {Arktos} \cup OtherFinalizers]
  <2>1. Now \in Nat
    BY HistoryFacts
  <2>2. IsFiniteSet(Tenants)
    <3>1. ASSUME NEW i \in 1 .. Now, history[i].uid # 0
          PROVE  history[i].uid \in 1 .. MaxTenants
      BY <3>1, HistoryFacts, TenantFacts DEF Gone
    <3>2. Tenants \subseteq 1 .. MaxTenants
      BY <3>1 DEF Tenants
    <3>3. IsFiniteSet(1 .. MaxTenants)
      BY BoundAssumption, FS_Interval
    <3>4. QED
      BY <3>2, <3>3, FS_Subset
  <2>3. n \in Nat /\ n < MaxTenants
    BY <1>1, <2>2, FS_CardinalityType DEF CreateTenant
  <2>4. t \in Tenant
    BY <2>3, BoundAssumption DEF Tenant
  <2>5. ~t.deleting /\ Arktos \in t.finalizers
    OBVIOUS
  <2>6. ~Exists(Current) /\ Put(t) /\ UNCHANGED <<content, late, asked>>
    BY <1>1 DEF CreateTenant
  <2> HIDE DEF t
  <2>7. Replaces(t)
    BY <2>5, <2>6 DEF Replaces
  <2>8. QED
    BY <1>0, <2>4, <2>6, <2>7
<1>2. ASSUME NEW a \in Servers, DeleteTenantRequest(a)
      PROVE  asked \subseteq asked' /\ asked' \subseteq 1 .. MaxTenants /\ \E t \in Tenant : Replaces(t)
  <2>1. /\ Exists(Current) /\ Put(Marked(Current)) /\ asked' = asked \cup {Current.uid}
        /\ UNCHANGED <<content, late>>
    BY <1>2 DEF DeleteTenantRequest
  <2>2. Current \in Tenant
    BY <2>1, CurrentTenant
  <2>3. /\ Marked(Current) \in Tenant /\ Marked(Current).uid = Current.uid
        /\ Marked(Current).finalizers = Current.finalizers /\ Current.uid \in 1 .. MaxTenants
    BY <2>2, TenantUpdates, TenantFacts
  <2>4. Replaces(Marked(Current))
    BY <2>1, <2>3 DEF Replaces, FinalizedEmpty
  <2>5. QED
    BY <1>0, <2>1, <2>3, <2>4
<1>3. CASE RemoveOtherFinalizer
  <2>1. PICK f \in Current.finalizers \ {Arktos} : Put([Current EXCEPT !.finalizers = @ \ {f}])
    BY <1>3 DEF RemoveOtherFinalizer
  <2>2. Exists(Current) /\ Current.deleting /\ UNCHANGED <<asked, content, late>>
    BY <1>3 DEF RemoveOtherFinalizer
  <2> DEFINE t == [Current EXCEPT !.finalizers = @ \ {f}]
  <2>3. t \in Tenant /\ t.uid = Current.uid /\ t.finalizers = Current.finalizers \ {f}
    BY <2>2, CurrentTenant, TenantUpdates
  <2>4. Put(t)
    BY <2>1
  <2> HIDE DEF t
  <2>5. Replaces(t)
    BY <2>1, <2>2, <2>3, <2>4 DEF Replaces, FinalizedEmpty, OnlyAskedFor
  <2>6. QED
    BY <1>0, <2>2, <2>3, <2>5
<1>4. CASE PeerFinalizes
  <2> DEFINE t == [Current EXCEPT !.finalizers = @ \ {Arktos}]
  <2>1. Exists(Current) /\ Current.deleting /\ Empty /\ Put(t) /\ UNCHANGED <<asked, content, late>>
    BY <1>4 DEF PeerFinalizes, Empty
  <2>2. t \in Tenant /\ t.uid = Current.uid
    BY <2>1, CurrentTenant, TenantUpdates
  <2> HIDE DEF t
  <2>3. Replaces(t)
    BY <2>1, <2>2 DEF Replaces, OnlyAskedFor
  <2>4. QED
    BY <1>0, <2>1, <2>2, <2>3
<1>5. ASSUME NEW c \in Controllers, FinalizeTenant(c)
      PROVE  UNCHANGED asked /\ (UNCHANGED history \/ \E t \in Tenant : Replaces(t))
  <2> DEFINE t == [loc[c] EXCEPT !.finalizers = @ \ {Arktos}]
  <2>1. pc[c] = "finalize" /\ UNCHANGED <<asked, content, late>>
    BY <1>5 DEF FinalizeTenant
  <2>2. CASE UNCHANGED history
    BY <2>1, <2>2
  <2>3. CASE Exists(Current) /\ Current.version = loc[c].version /\ Put(t)
    <3>1. Exists(loc[c]) /\ loc[c].uid \in asked
      BY <2>1 DEF HasRead
    <3>2. loc[c] = Current
      BY <2>3, <3>1, SameVersion
    <3>3. t \in Tenant /\ t.uid = Current.uid
      BY <2>3, <3>2, CurrentTenant, TenantUpdates
    <3>4. late \/ Empty
      BY <2>1 DEF PassedEmpty, Cleared, Empty
    <3> HIDE DEF t
    <3>5. Replaces(t)
      BY <2>1, <2>3, <3>1, <3>2, <3>3, <3>4 DEF Replaces
    <3>6. QED
      BY <2>1, <3>3, <3>5
  <2>4. QED
    BY <1>5, <2>2, <2>3 DEF FinalizeTenant
<1>6. ASSUME NEW c \in Controllers, DeleteTenant(c)
      PROVE  UNCHANGED asked /\ (UNCHANGED history \/ \E t \in Tenant : Replaces(t))
  <2>1. pc[c] = "delete" /\ UNCHANGED <<asked, content, late>>
    BY <1>6 DEF DeleteTenant
  <2>2. CASE UNCHANGED history
    BY <2>1, <2>2
  <2>3. CASE Exists(Current) /\ Current.uid = loc[c].uid /\ Put(Marked(Current))
    <3>1. loc[c].uid \in asked
      BY <2>1 DEF HasRead
    <3>2. /\ Marked(Current) \in Tenant /\ Marked(Current).uid = Current.uid
          /\ Marked(Current).finalizers = Current.finalizers
      BY <2>3, CurrentTenant, TenantUpdates
    <3>3. Replaces(Marked(Current))
      BY <2>1, <2>3, <3>1, <3>2 DEF Replaces, FinalizedEmpty
    <3>4. QED
      BY <2>1, <3>2, <3>3
  <2>4. QED
    BY <1>6, <2>2, <2>3 DEF DeleteTenant
<1>7. ASSUME \/ \E r \in Resources : Collect(r)
             \/ \E a \in Servers : ForceLiveExpires(a) \/ ObserveAdm(a)
             \/ \E a \in Servers, r \in Resources : AdmitCreate(a, r)
             \/ \E q \in inflight : StoreCreate(q)
             \/ UNCHANGED vars
      PROVE  UNCHANGED <<history, asked>>
  BY <1>7 DEF Collect, ForceLiveExpires, ObserveAdm, AdmitCreate, StoreCreate, vars, apiVars
<1>8. ASSUME NEW c \in Controllers,
             \/ Observe(c) \/ ObserveContent(c) \/ Resync(c) \/ DeleterFails(c)
             \/ ProcessQueue(c) \/ SyncTenant(c) \/ RestartController(c)
             \/ GetTenant(c) \/ PurgeEnds(c) \/ RetryOnConflict(c)
             \/ \E a \in Servers : CreateDefault(c, a) \/ \E r \in Resources : Purge(c, a, r)
      PROVE  UNCHANGED <<history, asked>>
  BY <1>8 DEF Observe, ObserveContent, Resync, DeleterFails, ProcessQueue, SyncTenant,
              RestartController, GetTenant, PurgeEnds, RetryOnConflict, CreateDefault, Purge,
              apiVars
<1>9. QED
  BY <1>0, <1>1, <1>2, <1>3, <1>4, <1>5, <1>6, <1>7, <1>8, NextCases

\* What is stored stays well formed, and its past stays as it was.
LEMMA StoredSteps ==
  ASSUME StoredType, WorkerType, Versioned, HasRead, OnlyAskedFor, PassedEmpty, FinalizedEmpty,
         [Next]_vars
  PROVE  /\ StoredType' /\ Versioned' /\ OnlyAskedFor'
         /\ Now' >= Now /\ asked \subseteq asked'
         /\ \A i \in 1 .. Now : history'[i] = history[i]
<1>0. Now \in Nat /\ Now > 0
  BY HistoryFacts
<1>1. CASE UNCHANGED <<history, asked>>
  BY <1>0, <1>1 DEF StoredType, Versioned, OnlyAskedFor, Now, Current
<1>2. CASE asked \subseteq asked' /\ asked' \subseteq 1 .. MaxTenants /\ \E t \in Tenant : Replaces(t)
  <2>1. PICK t \in Tenant : Replaces(t)
    BY <1>2
  <2>2. Put(t)
    BY <2>1 DEF Replaces
  <2>3. /\ history' \in Seq(Tenant \cup {Gone}) /\ Now' \in Nat /\ Now' >= Now
        /\ \A i \in 1 .. Now : history'[i] = history[i]
        /\ Versioned'
        /\ \/ ~Exists(Current)'
           \/ /\ Current'.uid = t.uid /\ Current'.deleting = t.deleting
              /\ Current'.finalizers = t.finalizers
    BY <2>2, PutFacts
  <2>4. OnlyAskedFor'
    BY <2>1, <2>3 DEF Replaces, OnlyAskedFor, Exists
  <2>5. QED
    BY <1>0, <1>2, <2>3, <2>4 DEF StoredType
<1>3. QED
  BY <1>1, <1>2, Writes

-----------------------------------------------------------------------------
(* The content.                                                            *)

\* What Create does
LEMMA CreateFacts ==
  ASSUME ContentType, NEW r \in Resources, NEW uid \in 0 .. MaxTenants, Create(r, uid)
  PROVE  /\ content' \in [Resources -> 0 .. MaxTenants] /\ late' \in BOOLEAN
         /\ late => late'
         /\ \A s \in Resources :
              content'[s] = content[s] \/ late' \/ ~TooLate(s, content'[s])
<1>1. TooLate(r, uid) \in BOOLEAN
  BY DEF TooLate
<1>2. CASE UNCHANGED <<content, late>>
  BY <1>2 DEF ContentType
<1>3. CASE content' = [content EXCEPT ![r] = uid] /\ late' = (late \/ TooLate(r, uid))
  <2>1. /\ content' \in [Resources -> 0 .. MaxTenants] /\ content'[r] = uid
        /\ \A s \in Resources \ {r} : content'[s] = content[s]
    BY <1>3 DEF ContentType
  <2>2. late' \in BOOLEAN /\ (late => late') /\ (TooLate(r, uid) => late')
    BY <1>1, <1>3 DEF ContentType
  <2>3. QED
    BY <2>1, <2>2
<1>4. QED
  BY <1>2, <1>3 DEF Create

\* An object is created for a tenant that there is or was.
LEMMA AdmittedTenant ==
  ASSUME StoredType, InformerType, NEW a \in Servers, NEW r \in Resources, Admits(a, r)
  PROVE  AdmittedFor(a, r) \in 1 .. MaxTenants
<1>1. Cached(a) \in Tenant \cup {Gone} /\ Current \in Tenant \cup {Gone}
  BY HistoryFacts DEF Cached, InformerType
<1>2. ASSUME NEW t \in Tenant \cup {Gone}, Exists(t)
      PROVE  t.uid \in 1 .. MaxTenants
  BY <1>2, TenantFacts DEF Exists
<1>3. View(a) \in Tenant \cup {Gone}
  BY <1>1 DEF View
<1>4. QED
  BY <1>1, <1>2, <1>3 DEF Admits, AdmittedFor

(***************************************************************************)
(* An object stays, goes, or is created for a tenant whose deleters will   *)
(* see it; or late tells that one was created otherwise.                   *)
(***************************************************************************)
LEMMA ContentSteps ==
  ASSUME StoredType, ContentType, InformerType, WorkerType, [Next]_vars
  PROVE  /\ ContentType' /\ (late => late')
         /\ \A r \in Resources :
              content'[r] \in {0, content[r]} \/ late' \/ ~TooLate(r, content'[r])
<1> USE BoundAssumption
<1>1. CASE UNCHANGED <<content, terminating, inflight, creates, late, faults>>
  BY <1>1 DEF ContentType
<1>2. ASSUME \/ CreateTenant \/ RemoveOtherFinalizer \/ PeerFinalizes
             \/ \E a \in Servers : DeleteTenantRequest(a) \/ ForceLiveExpires(a) \/ ObserveAdm(a)
             \/ \E c \in Controllers :
                  \/ Observe(c) \/ ObserveContent(c) \/ Resync(c)
                  \/ ProcessQueue(c) \/ SyncTenant(c) \/ RestartController(c)
                  \/ GetTenant(c) \/ PurgeEnds(c) \/ FinalizeTenant(c)
                  \/ RetryOnConflict(c) \/ DeleteTenant(c)
             \/ UNCHANGED vars
      PROVE  UNCHANGED <<content, terminating, inflight, creates, late, faults>>
  BY <1>2 DEF CreateTenant, RemoveOtherFinalizer, PeerFinalizes, DeleteTenantRequest,
              ForceLiveExpires, ObserveAdm, Observe, ObserveContent, Resync, ProcessQueue,
              SyncTenant, RestartController, GetTenant, PurgeEnds, FinalizeTenant,
              RetryOnConflict, DeleteTenant, apiVars, vars
<1>3. ASSUME NEW r \in Resources, Collect(r)
      PROVE  ContentType' /\ UNCHANGED late /\ \A s \in Resources : content'[s] \in {0, content[s]}
  BY <1>3 DEF Collect, ContentType
<1>4. ASSUME NEW a \in Servers, NEW r \in Resources, AdmitCreate(a, r)
      PROVE  ContentType' /\ UNCHANGED <<late, content>>
  <2>1. /\ creates + faults < MaxTroubles /\ creates' = creates + 1 /\ Admits(a, r)
        /\ inflight' = inflight \cup {[resource |-> r, uid |-> AdmittedFor(a, r), server |-> a]}
        /\ UNCHANGED <<content, terminating, late, faults>>
    BY <1>4 DEF AdmitCreate
  <2>2. AdmittedFor(a, r) \in 1 .. MaxTenants
    BY <2>1, AdmittedTenant
  <2>3. QED
    BY <2>1, <2>2 DEF ContentType
<1>5. ASSUME NEW q \in inflight, StoreCreate(q)
      PROVE  /\ ContentType' /\ (late => late')
             /\ \A r \in Resources : content'[r] = content[r] \/ late' \/ ~TooLate(r, content'[r])
  <2>1. /\ Create(q.resource, q.uid) /\ inflight' \subseteq inflight
        /\ UNCHANGED <<terminating, creates, faults>>
    BY <1>5 DEF StoreCreate
  <2>2. q.resource \in Resources /\ q.uid \in 0 .. MaxTenants
    BY DEF ContentType
  <2>3. /\ content' \in [Resources -> 0 .. MaxTenants] /\ late' \in BOOLEAN /\ (late => late')
        /\ \A r \in Resources : content'[r] = content[r] \/ late' \/ ~TooLate(r, content'[r])
    BY <2>1, <2>2, CreateFacts
  <2>4. QED
    BY <2>1, <2>3 DEF ContentType
<1>6. ASSUME NEW c \in Controllers, NEW a \in Servers, CreateDefault(c, a)
      PROVE  /\ ContentType' /\ (late => late')
             /\ \A r \in Resources : content'[r] = content[r] \/ late' \/ ~TooLate(r, content'[r])
  <2> DEFINE r == Defaults[step[c]]
  <2>1. UNCHANGED <<terminating, inflight, creates>> /\ faults' \in 0 .. MaxTroubles
    <3>1. UNCHANGED <<terminating, inflight, creates>> /\ (UNCHANGED faults \/ Fault)
      BY <1>6 DEF CreateDefault
    <3>2. QED
      BY <3>1, BoundAssumption DEF Fault, ContentType
  <2>2. r \in Resources
    BY ElementOfSeq, ResourceAssumption DEF WorkerType
  <2>3. CASE UNCHANGED <<content, late>>
    BY <2>1, <2>3 DEF ContentType
  <2>4. CASE Admits(a, r) /\ Create(r, AdmittedFor(a, r))
    <3> HIDE DEF r
    <3>1. AdmittedFor(a, r) \in 0 .. MaxTenants
      BY <2>2, <2>4, AdmittedTenant
    <3>2. /\ content' \in [Resources -> 0 .. MaxTenants] /\ late' \in BOOLEAN /\ (late => late')
          /\ \A s \in Resources : content'[s] = content[s] \/ late' \/ ~TooLate(s, content'[s])
      BY <2>2, <2>4, <3>1, CreateFacts
    <3>3. QED
      BY <2>1, <3>2 DEF ContentType
  <2>5. QED
    BY <1>6, <2>3, <2>4 DEF CreateDefault
<1>7. ASSUME NEW c \in Controllers, NEW a \in Servers, NEW r \in Resources, Purge(c, a, r)
      PROVE  ContentType' /\ UNCHANGED late /\ \A s \in Resources : content'[s] \in {0, content[s]}
  <2>1. /\ UNCHANGED <<inflight, creates, faults, late>>
        /\ content' = content \/ content' = [content EXCEPT ![r] = 0]
        /\ terminating' = terminating \/ terminating' = terminating \cup {r}
    BY <1>7 DEF Purge
  <2>2. QED
    BY <2>1 DEF ContentType
<1>8. ASSUME NEW c \in Controllers, DeleterFails(c)
      PROVE  ContentType' /\ UNCHANGED <<late, content>>
  BY <1>8 DEF DeleterFails, Fault, apiVars, ContentType
<1>9. QED
  BY <1>1, <1>2, <1>3, <1>4, <1>5, <1>6, <1>7, <1>8, NextCases

\* A tenant that is let go, or goes, has no content.
LEMMA PurgedSteps ==
  ASSUME StoredType, ContentType, InformerType, WorkerType, Versioned, HasRead, OnlyAskedFor,
         PassedEmpty, FinalizedEmpty, Purged, [Next]_vars
  PROVE  FinalizedEmpty' /\ Purged'
<1>1. /\ ContentType' /\ (late => late')
      /\ \A r \in Resources :
           content'[r] \in {0, content[r]} \/ late' \/ ~TooLate(r, content'[r])
  BY ContentSteps
<1>2. CASE UNCHANGED <<history, asked>>
  <2>1. UNCHANGED Current
    BY <1>2 DEF Current, Now
  <2>2. FinalizedEmpty'
    BY <1>1, <2>1 DEF FinalizedEmpty, Empty, TooLate
  <2>3. Purged'
    BY <1>1, <2>1 DEF Purged, TooLate
  <2>4. QED
    BY <2>2, <2>3
<1>3. ASSUME NEW t \in Tenant, Replaces(t)
      PROVE  FinalizedEmpty' /\ Purged'
  <2>1. Put(t) /\ UNCHANGED <<content, late>>
    BY <1>3 DEF Replaces
  <2>2. \/ ~Exists(Current)' /\ t.deleting /\ t.finalizers = {}
        \/ /\ Current' \in Tenant /\ Current'.uid = t.uid
           /\ Current'.finalizers = t.finalizers
    BY <2>1, PutFacts
  <2>3. \/ ~Exists(Current) /\ Arktos \in t.finalizers
        \/ /\ Exists(Current) /\ t.uid = Current.uid
           /\ Arktos \notin t.finalizers => late \/ Empty
    BY <1>3 DEF Replaces
  <2>4. Exists(Current)' \/ ~Exists(Current)'
    OBVIOUS
  <2>5. FinalizedEmpty'
    BY <2>1, <2>2, <2>3 DEF FinalizedEmpty, Empty
  <2>6. Purged'
    <3>1. CASE late \/ Empty
      BY <2>1, <3>1 DEF Purged, Empty
    <3>2. CASE ~late /\ ~Empty
      <4>1. Exists(Current)
        BY <3>2 DEF Purged, Empty
      <4>2. /\ Current' \in Tenant /\ Current'.uid = Current.uid
        BY <2>2, <2>3, <3>2, <4>1
      <4>3. Exists(Current')
        BY <4>2, TenantFacts
      <4>4. QED
        BY <2>1, <4>2, <4>3 DEF Purged, Exists
    <3>3. QED
      BY <3>1, <3>2
  <2>7. QED
    BY <2>5, <2>6
<1>4. QED
  BY <1>2, <1>3, Writes

-----------------------------------------------------------------------------
(* The workers.                                                            *)

\* No worker moves.
IdleWorkers == UNCHANGED <<pc, step, loc, todo, remaining>>

\* What a return does to the variables of a worker
LEMMA ReturnFacts ==
  ASSUME WorkerType, NEW c \in Controllers, NEW label \in {"idle", "dead"}, Return(c, label)
  PROVE  /\ WorkerType' /\ pc'[c] = label /\ loc'[c] = Gone
         /\ \A d \in Controllers \ {c} :
              /\ pc'[d] = pc[d] /\ loc'[d] = loc[d]
              /\ todo'[d] = todo[d] /\ remaining'[d] = remaining[d]
<1>1. 1 \in 1 .. Len(Defaults)
  BY ResourceAssumption, LenProperties
<1>2. QED
  BY <1>1 DEF Return, Goto, WorkerType, Labels

\* What a jump does to them
LEMMA GotoFacts ==
  ASSUME WorkerType, NEW c \in Controllers, NEW label \in Labels, Goto(c, label)
  PROVE  /\ pc' \in [Controllers -> Labels] /\ pc'[c] = label
         /\ \A d \in Controllers \ {c} : pc'[d] = pc[d]
BY DEF Goto, WorkerType

\* The worker c leaves the deleter, or is not in it.
Leaves(c) == pc'[c] \notin {"purge", "finalize", "retry", "delete"} /\ loc'[c] \in {loc[c], Gone}

\* The worker c stays in the deleter, with the tenant it has.
Stays(c) ==
  /\ pc[c] \in {"purge", "finalize", "retry", "delete"} /\ loc'[c] = loc[c]

\* It reads the tenant, to delete it.
Reads(c) ==
  /\ UNCHANGED history /\ Exists(Current) /\ loc'[c] = Current
  /\ \/ Current.deleting
     \/ pc[c] \in {"purge", "finalize", "retry", "delete"} /\ Current.uid = loc[c].uid

\* It does not take for cleared what it has not cleared.
ClearsSoundly(c) ==
  \A r \in Resources : Cleared(c, r)' => Cleared(c, r) \/ content'[r] = 0

\* A step of the worker c, for the invariant: the others do nothing.
MovesOnly(c) ==
  /\ WorkerType'
  /\ Leaves(c) \/ Stays(c) \/ Reads(c)
  /\ ClearsSoundly(c)
  /\ \A d \in Controllers \ {c} :
       /\ pc'[d] = pc[d] /\ loc'[d] = loc[d]
       /\ todo'[d] = todo[d] /\ remaining'[d] = remaining[d]

\* A return is such a step.
LEMMA ReturnMoves ==
  ASSUME WorkerType, NEW c \in Controllers, NEW label \in {"idle", "dead"}, Return(c, label)
  PROVE  MovesOnly(c)
BY ReturnFacts DEF MovesOnly, Leaves, ClearsSoundly, Cleared

\* So is a jump that only changes pc, if it stays where it was or leaves.
LEMMA GotoMoves ==
  ASSUME WorkerType, NEW c \in Controllers, NEW label \in Labels, Goto(c, label),
         UNCHANGED locals,
         \/ label \in {"idle", "sync", "create", "get", "dead"}
         \/ pc[c] \in {"purge", "finalize", "retry", "delete"},
         label \in {"purge", "finalize", "retry"}
           => \A r \in Resources : Cleared(c, r) \/ content'[r] = 0
  PROVE  MovesOnly(c)
<1>1. UNCHANGED <<step, loc, todo, remaining>>
  BY DEF locals
<1>2. WorkerType'
  BY <1>1, GotoFacts DEF WorkerType
<1>3. pc'[c] = label
  BY GotoFacts
<1>4. Leaves(c) \/ Stays(c)
  BY <1>1, <1>3 DEF Leaves, Stays
<1>5. ClearsSoundly(c)
  BY <1>3 DEF ClearsSoundly, Cleared
<1>6. QED
  BY <1>1, <1>2, <1>4, <1>5, GotoFacts DEF MovesOnly

\* Every step leaves the workers alone, or is the move of one.
LEMMA WorkerSteps ==
  ASSUME StoredType, ContentType, WorkerType, [Next]_vars
  PROVE  IdleWorkers \/ \E c \in Controllers : MovesOnly(c)
<1>1. ASSUME \/ CreateTenant \/ RemoveOtherFinalizer \/ PeerFinalizes
             \/ \E r \in Resources : Collect(r)
             \/ \E a \in Servers : DeleteTenantRequest(a) \/ ForceLiveExpires(a) \/ ObserveAdm(a)
             \/ \E a \in Servers, r \in Resources : AdmitCreate(a, r)
             \/ \E q \in inflight : StoreCreate(q)
             \/ \E c \in Controllers : Observe(c) \/ ObserveContent(c) \/ Resync(c)
             \/ UNCHANGED vars
      PROVE  IdleWorkers
  BY <1>1 DEF CreateTenant, RemoveOtherFinalizer, PeerFinalizes, Collect, DeleteTenantRequest,
              ForceLiveExpires, ObserveAdm, AdmitCreate, StoreCreate, Observe, ObserveContent,
              Resync, workVars, vars, IdleWorkers
<1>2. ASSUME NEW c \in Controllers,
             ProcessQueue(c) \/ SyncTenant(c) \/ RestartController(c)
      PROVE  MovesOnly(c)
  <2>1. UNCHANGED locals
    BY <1>2 DEF ProcessQueue, SyncTenant, RestartController
  <2>2. \E label \in {"idle", "sync", "create", "get", "dead"} : Goto(c, label)
    BY <1>2 DEF ProcessQueue, SyncTenant, RestartController
  <2>3. QED
    BY <2>1, <2>2, GotoMoves DEF Labels
<1>3. ASSUME NEW c \in Controllers, DeleterFails(c)
      PROVE  MovesOnly(c)
  BY <1>3, ReturnMoves DEF DeleterFails, Requeue
<1>4. ASSUME NEW c \in Controllers, NEW a \in Servers, CreateDefault(c, a)
      PROVE  MovesOnly(c)
  <2>1. CASE \E label \in {"idle", "dead"} : Return(c, label)
    BY <2>1, ReturnMoves
  <2>2. CASE /\ step[c] # Len(Defaults) /\ step' = [step EXCEPT ![c] = @ + 1]
             /\ remaining' \in [Controllers -> BOOLEAN] /\ pc[c] = "create"
             /\ \A d \in Controllers \ {c} : remaining'[d] = remaining[d]
             /\ UNCHANGED <<pc, loc, todo>>
    <3>1. Len(Defaults) \in Nat /\ step[c] \in 1 .. Len(Defaults)
      BY ResourceAssumption, LenProperties DEF WorkerType
    <3>2. step' \in [Controllers -> 1 .. Len(Defaults)]
      BY <2>2, <3>1 DEF WorkerType
    <3>3. WorkerType'
      BY <2>2, <3>2 DEF WorkerType
    <3>4. QED
      BY <2>2, <3>3 DEF MovesOnly, Leaves, ClearsSoundly, Cleared
  <2>3. ASSUME NEW failed \in BOOLEAN, NextDefault(c, failed), pc[c] = "create"
        PROVE  MovesOnly(c)
    <3>1. remaining \in [Controllers -> BOOLEAN]
      BY DEF WorkerType
    <3>2. QED
      BY <2>1, <2>2, <2>3, <3>1 DEF NextDefault, Forget, Requeue
  <2>4. remaining[c] \in BOOLEAN
    BY DEF WorkerType
  <2>5. Return(c, "dead") \/ NextDefault(c, remaining[c]) \/ NextDefault(c, TRUE)
    BY <1>4 DEF CreateDefault
  <2>6. QED
    BY <1>4, <2>1, <2>3, <2>4, <2>5 DEF CreateDefault
<1>5. ASSUME NEW c \in Controllers, GetTenant(c)
      PROVE  MovesOnly(c)
  <2>1. CASE Exists(Current) /\ Current.deleting
    <3>1. /\ loc' = [loc EXCEPT ![c] = Current] /\ UNCHANGED <<history, step, remaining>>
          /\ todo' = [todo EXCEPT ![c] = Resources]
          /\ \E label \in {"delete", "purge"} : Goto(c, label)
      BY <1>5, <2>1 DEF GetTenant, apiVars
    <3>2. PICK label \in {"delete", "purge"} : Goto(c, label)
      BY <3>1
    <3>3. /\ pc' \in [Controllers -> Labels] /\ pc'[c] \in {"delete", "purge"}
          /\ \A d \in Controllers \ {c} : pc'[d] = pc[d]
      BY <3>2, GotoFacts DEF Labels
    <3>4. Current \in Tenant
      BY <2>1, CurrentTenant
    <3>5. /\ WorkerType' /\ loc'[c] = Current /\ todo'[c] = Resources
          /\ \A d \in Controllers \ {c} :
               loc'[d] = loc[d] /\ todo'[d] = todo[d] /\ remaining'[d] = remaining[d]
      BY <3>1, <3>3, <3>4 DEF WorkerType
    <3>6. Reads(c)
      BY <2>1, <3>1, <3>5 DEF Reads
    <3>7. ClearsSoundly(c)
      BY <3>3, <3>5 DEF ClearsSoundly, Cleared
    <3>8. QED
      BY <3>3, <3>5, <3>6, <3>7 DEF MovesOnly
  <2>2. CASE Return(c, "idle")
    BY <2>2, ReturnMoves
  <2>3. QED
    BY <1>5, <2>1, <2>2 DEF GetTenant, Forget
<1>6. ASSUME NEW c \in Controllers, NEW a \in Servers, NEW r \in Resources, Purge(c, a, r)
      PROVE  MovesOnly(c)
  <2>1. /\ pc[c] = "purge" /\ UNCHANGED <<pc, step, loc>>
        /\ todo' = [todo EXCEPT ![c] = @ \ {r}]
        /\ \/ UNCHANGED remaining /\ ((content[r] = 0 /\ UNCHANGED content)
                                      \/ content' = [content EXCEPT ![r] = 0])
           \/ remaining' = [remaining EXCEPT ![c] = TRUE]
    BY <1>6 DEF Purge
  <2>2. WorkerType'
    BY <2>1 DEF WorkerType
  <2>3. /\ todo'[c] = todo[c] \ {r}
        /\ \A d \in Controllers \ {c} : todo'[d] = todo[d] /\ remaining'[d] = remaining[d]
    BY <2>1 DEF WorkerType
  <2>4. ClearsSoundly(c)
    <3> SUFFICES ASSUME NEW s \in Resources, Cleared(c, s)'
                 PROVE  Cleared(c, s) \/ content'[s] = 0
      BY DEF ClearsSoundly
    <3>1. ~remaining'[c] /\ s \notin todo'[c]
      BY <2>1 DEF Cleared
    <3>2. UNCHANGED remaining /\ ((content[r] = 0 /\ UNCHANGED content)
                                   \/ content' = [content EXCEPT ![r] = 0])
      BY <2>1, <3>1 DEF WorkerType
    <3>3. CASE s = r
      BY <3>2, <3>3 DEF ContentType
    <3>4. CASE s # r
      BY <2>1, <2>3, <3>1, <3>2, <3>4 DEF Cleared
    <3>5. QED
      BY <3>3, <3>4
  <2>5. QED
    BY <2>1, <2>2, <2>3, <2>4 DEF MovesOnly, Stays
<1>7. ASSUME NEW c \in Controllers, PurgeEnds(c)
      PROVE  MovesOnly(c)
  <2>1. CASE Return(c, "idle")
    BY <2>1, ReturnMoves
  <2>2. CASE ~remaining[c] /\ Goto(c, "finalize") /\ UNCHANGED locals
    <3>1. pc[c] = "purge" /\ todo[c] = {}
      BY <1>7 DEF PurgeEnds
    <3>2. \A r \in Resources : Cleared(c, r)
      BY <2>2, <3>1 DEF Cleared
    <3>3. QED
      BY <2>2, <3>1, <3>2, GotoMoves DEF Labels
  <2>3. QED
    BY <1>7, <2>1, <2>2 DEF PurgeEnds, Requeue
<1>8. ASSUME NEW c \in Controllers, FinalizeTenant(c)
      PROVE  MovesOnly(c)
  <2>1. pc[c] = "finalize"
    BY <1>8 DEF FinalizeTenant
  <2>2. CASE Return(c, "idle")
    BY <2>2, ReturnMoves
  <2>3. CASE UNCHANGED locals /\ \E label \in {"retry", "delete"} : Goto(c, label)
    <3>1. \A r \in Resources : Cleared(c, r)
      BY <2>1 DEF Cleared
    <3>2. QED
      BY <2>1, <2>3, <3>1, GotoMoves DEF Labels
  <2>4. QED
    BY <1>8, <2>2, <2>3 DEF FinalizeTenant, Requeue, Forget
<1>9. ASSUME NEW c \in Controllers, RetryOnConflict(c)
      PROVE  MovesOnly(c)
  <2>1. pc[c] = "retry" /\ UNCHANGED history
    BY <1>9 DEF RetryOnConflict, apiVars
  <2>2. CASE Return(c, "idle")
    BY <2>2, ReturnMoves
  <2>3. CASE /\ Exists(Current) /\ Current.uid = loc[c].uid
             /\ loc' = [loc EXCEPT ![c] = Current] /\ Goto(c, "finalize")
             /\ UNCHANGED <<step, todo, remaining>>
    <3>1. /\ pc' \in [Controllers -> Labels] /\ pc'[c] = "finalize"
          /\ \A d \in Controllers \ {c} : pc'[d] = pc[d]
      BY <2>3, GotoFacts DEF Labels
    <3>2. Current \in Tenant
      BY <2>3, CurrentTenant
    <3>3. /\ WorkerType' /\ loc'[c] = Current
          /\ \A d \in Controllers \ {c} : loc'[d] = loc[d]
      BY <2>3, <3>1, <3>2 DEF WorkerType
    <3>4. Reads(c)
      BY <2>1, <2>3, <3>3 DEF Reads
    <3>5. ClearsSoundly(c)
      BY <2>1 DEF ClearsSoundly, Cleared
    <3>6. QED
      BY <2>3, <3>1, <3>3, <3>4, <3>5 DEF MovesOnly
  <2>4. QED
    BY <1>9, <2>2, <2>3 DEF RetryOnConflict, Requeue, Forget
<1>10. ASSUME NEW c \in Controllers, DeleteTenant(c)
       PROVE  MovesOnly(c)
  BY <1>10, ReturnMoves DEF DeleteTenant, Requeue, Forget
<1>11. QED
  BY <1>1, <1>2, <1>3, <1>4, <1>5, <1>6, <1>7, <1>8, <1>9, <1>10, NextCases

\* A deleter knows a tenant that was to be deleted.
LEMMA HasReadSteps ==
  ASSUME StoredType, ContentType, WorkerType, Versioned, HasRead, OnlyAskedFor, PassedEmpty,
         FinalizedEmpty, [Next]_vars
  PROVE  HasRead'
<1> USE DEF Exists
<1>1. /\ Now' >= Now /\ asked \subseteq asked' /\ Now \in Nat /\ Now' \in Nat /\ Now > 0
      /\ \A i \in 1 .. Now : history'[i] = history[i]
  BY StoredSteps, HistoryFacts DEF StoredType, Now
<1>2. ASSUME NEW d \in Controllers, Exists(loc[d])
      PROVE  loc[d].uid \in asked' /\ \E i \in 1 .. Now' : history'[i] = loc[d]
  BY <1>1, <1>2 DEF HasRead
<1>3. ASSUME NEW d \in Controllers, loc'[d] = loc[d],
             \/ pc'[d] \notin {"purge", "finalize", "retry", "delete"}
             \/ pc[d] \in {"purge", "finalize", "retry", "delete"}
      PROVE  /\ pc'[d] \in {"purge", "finalize", "retry", "delete"} => Exists(loc'[d])
             /\ Exists(loc'[d]) => \E i \in 1 .. Now' : history'[i] = loc'[d]
             /\ Exists(loc'[d]) => loc'[d].uid \in asked'
  BY <1>2, <1>3 DEF HasRead
<1>4. ASSUME NEW d \in Controllers, Reads(d)
      PROVE  /\ Exists(loc'[d]) /\ \E i \in 1 .. Now' : history'[i] = loc'[d]
             /\ loc'[d].uid \in asked'
  <2>1. loc'[d] = Current /\ Exists(Current) /\ history' = history
    BY <1>4 DEF Reads
  <2>2. history[Now] = loc'[d]
    BY <2>1 DEF Current
  <2>3. Current.uid \in asked
    BY <1>4 DEF Reads, OnlyAskedFor, HasRead
  <2>4. QED
    BY <1>1, <2>1, <2>2, <2>3 DEF Now
<1>5. CASE IdleWorkers
  BY <1>3, <1>5 DEF IdleWorkers, HasRead
<1>6. ASSUME NEW c \in Controllers, MovesOnly(c)
      PROVE  HasRead'
  <2> SUFFICES ASSUME NEW d \in Controllers
               PROVE  /\ pc'[d] \in {"purge", "finalize", "retry", "delete"} => Exists(loc'[d])
                      /\ Exists(loc'[d]) => \E i \in 1 .. Now' : history'[i] = loc'[d]
                      /\ Exists(loc'[d]) => loc'[d].uid \in asked'
    BY DEF HasRead
  <2>1. CASE d # c
    BY <1>3, <1>6, <2>1 DEF MovesOnly
  <2>2. CASE d = c /\ Leaves(c)
    BY <1>3, <2>2 DEF Leaves
  <2>3. CASE d = c /\ Stays(c)
    BY <1>3, <2>3 DEF Stays
  <2>4. CASE d = c /\ Reads(c)
    BY <1>4, <2>4
  <2>5. QED
    BY <1>6, <2>1, <2>2, <2>3, <2>4 DEF MovesOnly
<1>7. QED
  BY <1>5, <1>6, WorkerSteps

(***************************************************************************)
(* Content that a deleter has cleared does not come back: a create behind  *)
(* its back is late.                                                       *)
(***************************************************************************)
LEMMA PassedSteps ==
  ASSUME StoredType, ContentType, InformerType, WorkerType, PassedEmpty, [Next]_vars
  PROVE  PassedEmpty' /\ WorkerType'
<1>1. /\ ContentType' /\ (late => late')
      /\ \A r \in Resources :
           content'[r] \in {0, content[r]} \/ late' \/ ~TooLate(r, content'[r])
  BY ContentSteps
<1>2. WorkerType' /\ \A c \in Controllers : ClearsSoundly(c)
  <2>1. CASE IdleWorkers
    BY <2>1 DEF IdleWorkers, WorkerType, ClearsSoundly, Cleared
  <2>2. ASSUME NEW c \in Controllers, MovesOnly(c)
        PROVE  WorkerType' /\ \A d \in Controllers : ClearsSoundly(d)
    BY <2>2 DEF MovesOnly, ClearsSoundly, Cleared
  <2>3. QED
    BY <2>1, <2>2, WorkerSteps
<1>3. ASSUME ~late', NEW c \in Controllers, NEW r \in Resources, Cleared(c, r)'
      PROVE  content'[r] = 0
  <2>1. CASE content'[r] = 0
    BY <2>1
  <2>2. CASE Cleared(c, r)
    <3>1. content[r] = 0
      BY <1>1, <1>3, <2>2 DEF PassedEmpty
    <3>2. TooLate(r, content'[r])
      BY <2>2 DEF TooLate, Passed, Cleared
    <3>3. QED
      BY <1>1, <1>3, <3>1, <3>2
  <2>3. QED
    BY <1>2, <1>3, <2>1, <2>2 DEF ClearsSoundly
<1>4. QED
  BY <1>2, <1>3 DEF PassedEmpty

\* Informers show a moment of the past.
LEMMA InformerSteps ==
  ASSUME StoredType, ContentType, InformerType, WorkerType, Versioned, HasRead, OnlyAskedFor,
         PassedEmpty, FinalizedEmpty, [Next]_vars
  PROVE  InformerType'
<1>0. Now' >= Now /\ Now \in Nat /\ Now' \in Nat /\ Now > 0
  BY StoredSteps, HistoryFacts DEF StoredType, Now
<1>1. /\ admSeen \in [Servers -> 1 .. Now'] /\ seen \in [Controllers -> 1 .. Now']
      /\ forceLive \in [Servers -> BOOLEAN] /\ known \in [Controllers -> SUBSET Resources]
      /\ queue \in [Controllers -> BOOLEAN]
  BY <1>0 DEF InformerType
<1>2. ASSUME UNCHANGED <<admSeen, seen, known>>,
             forceLive' \in [Servers -> BOOLEAN], queue' \in [Controllers -> BOOLEAN]
      PROVE  InformerType'
  BY <1>1, <1>2 DEF InformerType
<1>3. ASSUME NEW a \in Servers, DeleteTenantRequest(a) \/ ForceLiveExpires(a)
      PROVE  InformerType'
  BY <1>1, <1>2, <1>3 DEF DeleteTenantRequest, ForceLiveExpires
<1>4. ASSUME NEW a \in Servers, ObserveAdm(a)
      PROVE  InformerType'
  <2>1. admSeen[a] \in 1 .. Now /\ admSeen[a] < Now /\ admSeen' = [admSeen EXCEPT ![a] = @ + 1]
        /\ UNCHANGED <<forceLive, seen, known, queue>>
    BY <1>4 DEF ObserveAdm, InformerType
  <2>2. admSeen' \in [Servers -> 1 .. Now']
    BY <1>0, <1>1, <2>1
  <2>3. QED
    BY <1>1, <2>1, <2>2 DEF InformerType
<1>5. ASSUME NEW c \in Controllers, Observe(c)
      PROVE  InformerType'
  <2>1. seen[c] \in 1 .. Now /\ seen[c] < Now /\ seen' = [seen EXCEPT ![c] = @ + 1]
        /\ queue' = [queue EXCEPT ![c] = @ \/ Exists(history[seen[c] + 1])]
        /\ UNCHANGED <<forceLive, admSeen, known>>
    BY <1>5 DEF Observe, InformerType, admVars
  <2>2. seen' \in [Controllers -> 1 .. Now']
    BY <1>0, <1>1, <2>1
  <2>3. queue' \in [Controllers -> BOOLEAN]
    BY <1>1, <2>1
  <2>4. QED
    BY <1>1, <2>1, <2>2, <2>3 DEF InformerType
<1>6. ASSUME NEW c \in Controllers, RestartController(c)
      PROVE  InformerType'
  <2>1. /\ seen' = [seen EXCEPT ![c] = Now] /\ queue' = [queue EXCEPT ![c] = Exists(Current)]
        /\ known' = [known EXCEPT ![c] = {r \in Resources : content[r] # 0}]
        /\ UNCHANGED <<forceLive, admSeen>>
    BY <1>6 DEF RestartController, admVars
  <2>2. Exists(Current) \in BOOLEAN
    BY DEF Exists
  <2>3. QED
    BY <1>0, <1>1, <2>1, <2>2 DEF InformerType
<1>7. ASSUME NEW c \in Controllers, ObserveContent(c)
      PROVE  InformerType'
  <2>1. /\ known' = [known EXCEPT ![c] = {r \in Resources : content[r] # 0}]
        /\ UNCHANGED <<forceLive, admSeen, seen, queue>>
    BY <1>7 DEF ObserveContent, admVars
  <2>2. QED
    BY <1>1, <2>1 DEF InformerType
<1>8. ASSUME \/ CreateTenant \/ RemoveOtherFinalizer \/ PeerFinalizes
             \/ \E r \in Resources : Collect(r)
             \/ \E a \in Servers, r \in Resources : AdmitCreate(a, r)
             \/ \E q \in inflight : StoreCreate(q)
             \/ UNCHANGED vars
      PROVE  InformerType'
  <2>1. UNCHANGED <<admSeen, seen, known, forceLive, queue>>
    BY <1>8 DEF CreateTenant, RemoveOtherFinalizer, PeerFinalizes, Collect, AdmitCreate,
                StoreCreate, admVars, vars
  <2>2. QED
    BY <1>1, <1>2, <2>1
<1>9. ASSUME NEW c \in Controllers,
             \/ Resync(c) \/ DeleterFails(c) \/ ProcessQueue(c) \/ SyncTenant(c)
             \/ GetTenant(c) \/ PurgeEnds(c) \/ FinalizeTenant(c)
             \/ RetryOnConflict(c) \/ DeleteTenant(c)
             \/ \E a \in Servers : CreateDefault(c, a) \/ \E r \in Resources : Purge(c, a, r)
      PROVE  InformerType'
  <2>1. UNCHANGED <<admSeen, seen, known, forceLive>>
    BY <1>9 DEF Resync, DeleterFails, ProcessQueue, SyncTenant, GetTenant, PurgeEnds,
                FinalizeTenant, RetryOnConflict, DeleteTenant, CreateDefault, Purge, admVars
  <2>2. \/ UNCHANGED queue \/ queue' = [queue EXCEPT ![c] = TRUE]
        \/ queue' = [queue EXCEPT ![c] = FALSE]
    BY <1>9 DEF Resync, DeleterFails, ProcessQueue, SyncTenant, GetTenant, PurgeEnds,
                FinalizeTenant, RetryOnConflict, DeleteTenant, CreateDefault, NextDefault, Purge,
                Requeue, Forget
  <2>3. QED
    BY <1>1, <1>2, <2>1, <2>2
<1>10. QED
  BY <1>3, <1>4, <1>5, <1>6, <1>7, <1>8, <1>9, NextCases

-----------------------------------------------------------------------------
(* The theorems.                                                           *)

\* In the beginning there is no tenant, no content, and nobody at work.
LEMMA InitInv == Init => IInv
<1> SUFFICES ASSUME Init PROVE IInv
  OBVIOUS
<1> USE DEF Init
<1>1. Now = 1 /\ history[1] = Gone /\ Current = Gone /\ history \in Seq(Tenant \cup {Gone})
  BY DEF Now, Current
<1>2. 1 \in 1 .. Len(Defaults)
  BY ResourceAssumption, LenProperties
<1>3. StoredType /\ InformerType
  BY <1>1 DEF StoredType, InformerType
<1>4. ContentType /\ WorkerType
  <2>1. ContentType
    <3>1. 0 \in 0 .. MaxTenants /\ 0 \in 0 .. MaxTroubles
      BY BoundAssumption
    <3>2. late \in BOOLEAN
      OBVIOUS
    <3>3. content \in [Resources -> 0 .. MaxTenants] /\ creates \in 0 .. MaxTroubles
          /\ faults \in 0 .. MaxTroubles
      BY <3>1
    <3>4. QED
      BY <3>2, <3>3 DEF ContentType
  <2>2. WorkerType
    BY <1>2 DEF WorkerType, Labels
  <2>3. QED
    BY <2>1, <2>2
<1>5. Versioned /\ OnlyAskedFor /\ FinalizedEmpty /\ Purged
  BY <1>1 DEF Versioned, OnlyAskedFor, FinalizedEmpty, Purged, Exists, Empty
<1>6. HasRead /\ PassedEmpty
  BY DEF HasRead, PassedEmpty, Cleared, Exists
<1>7. QED
  BY <1>3, <1>4, <1>5, <1>6, TypeParts DEF IInv

\* Every step keeps the invariant.
LEMMA Inductive == IInv /\ [Next]_vars => IInv'
<1> SUFFICES ASSUME IInv, [Next]_vars PROVE IInv'
  OBVIOUS
<1>1. /\ StoredType /\ ContentType /\ InformerType /\ WorkerType
      /\ Versioned /\ HasRead /\ OnlyAskedFor /\ PassedEmpty /\ FinalizedEmpty /\ Purged
  BY TypeParts DEF IInv
<1>2. StoredType' /\ Versioned' /\ OnlyAskedFor'
  BY <1>1, StoredSteps
<1>3. ContentType' /\ InformerType' /\ WorkerType'
  BY <1>1, ContentSteps, InformerSteps, PassedSteps
<1>4. HasRead' /\ PassedEmpty' /\ FinalizedEmpty' /\ Purged'
  BY <1>1, HasReadSteps, PassedSteps, PurgedSteps
<1>5. TypeOK'
  BY <1>2, <1>3 DEF TypeOK, StoredType, ContentType, InformerType, WorkerType
<1>6. QED
  BY <1>2, <1>4, <1>5 DEF IInv

\* The invariant holds always.
LEMMA Invariant == Spec => []IInv
BY InitInv, Inductive, PTL DEF Spec

\* Type correctness
THEOREM TypeCorrect == Spec => []TypeOK
<1>1. IInv => TypeOK
  BY DEF IInv
<1>2. QED
  BY <1>1, Invariant, PTL

(***************************************************************************)
(* However many controllers work on earlier tenants of the name with what  *)
(* they read of them, a tenant is marked or let go only if somebody asked  *)
(* to delete it.                                                           *)
(***************************************************************************)
THEOREM OnlyAskedForIsDeleted == Spec => []OnlyAskedFor
<1>1. IInv => OnlyAskedFor
  BY DEF IInv
<1>2. QED
  BY <1>1, Invariant, PTL

(***************************************************************************)
(* No object outlives its tenant or turns up in the next one of the name,  *)
(* unless its create was stored behind the back of a deleter's last pass.  *)
(***************************************************************************)
THEOREM ContentIsPurged == Spec => []Purged
<1>1. IInv => Purged
  BY DEF IInv
<1>2. QED
  BY <1>1, Invariant, PTL

=============================================================================
