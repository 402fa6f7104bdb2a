------------------------- MODULE TenantLifecycle -------------------------
(***************************************************************************)
(* The life of a tenant: created, furnished with its default content,      *)
(* deleted with everything in it, and perhaps created again.               *)
(*                                                                         *)
(*   pkg/registry/core/tenant (storage.go, strategy.go)                    *)
(*   pkg/controller/tenant/tenant_controller.go                            *)
(*   pkg/controller/tenant/deletion/tenanted_resources_deleter.go          *)
(*   apiserver/pkg/admission/plugin/namespace/lifecycle/admission.go       *)
(*   plugin/pkg/admission/tenant/exists/admission.go                       *)
(*                                                                         *)
(* One tenant name, and the history of the tenants that bear it; a version *)
(* of a tenant is a place in the history.  Controllers and API servers     *)
(* have informers that lag behind it.  A tenant is Terminating exactly     *)
(* while it has a deletion timestamp: REST.Delete sets both in one update, *)
(* and the strategies keep the status, so the deleter's own update of the  *)
(* phase has nothing to do.                                                *)
(***************************************************************************)
EXTENDS Naturals, Sequences, FiniteSets

CONSTANTS
  Controllers,   \* running tenant controllers, each with one worker on the name
  Servers,       \* API servers
  Resources,     \* kinds of content, one object each
  Namespaces,    \* those that are namespaces
  Defaults,      \* what the controller creates, in its order
  Ends,          \* where syncNamespaces, syncInitialRoleAndBinding, ... end in it
  Arktos,        \* the finalizer of the tenant controller
  OtherFinalizers,
  MaxTenants,    \* bound on tenants of the name
  MaxDeletes,    \* bound on tenants that somebody asks to delete
  MaxTroubles    \* bound on objects users create and on failed requests, together

ASSUME ResourceAssumption ==
  /\ Namespaces \subseteq Resources
  /\ Defaults \in Seq(Resources) /\ Len(Defaults) > 0
  /\ Ends \subseteq 1 .. Len(Defaults) /\ Len(Defaults) \in Ends
  /\ Arktos \notin OtherFinalizers
ASSUME BoundAssumption ==
  MaxTenants \in Nat /\ MaxDeletes \in Nat /\ MaxTroubles \in Nat

VARIABLES
  history,     \* the tenant after each write
  content,     \* the tenant each object was created for, 0 if there is no object
  terminating, \* objects that wait for their finalizers
  asked,       \* tenants that somebody asked to delete
  inflight,    \* creates that are admitted and not stored yet
  creates, faults,
  admSeen,     \* tenantLister of each API server: a place in the history
  forceLive,   \* the name is in its forceLiveTenantLookupCache
  seen,        \* tenantLister of each controller
  known,       \* the content its other listers show
  queue,       \* the name is in its work queue
  pc,          \* what its worker does
  step,        \* the default it has come to
  loc,         \* the tenant the deleter works on
  todo,        \* content it still has to delete in this pass
  remaining,   \* content was left in this pass, or a default not created
  late         \* a create was stored that no pass of a deleter could see

apiVars == <<history, content, terminating, asked, inflight, creates, late>>
admVars == <<admSeen, forceLive>>
workVars == <<pc, step, loc, todo, remaining>>
vars == <<history, content, terminating, asked, inflight, creates, faults, admSeen,
          forceLive, seen, known, queue, pc, step, loc, todo, remaining, late>>

Tenant == [uid : 1 .. MaxTenants, version : Nat, deleting : BOOLEAN,
           finalizers : SUBSET ({Arktos} \cup OtherFinalizers)]

Gone == [uid |-> 0]

Exists(t) == t # Gone

Now == Len(history)
Current == history[Now]

\* A write of the tenant.  One that changes nothing makes no version; a deleted
\* tenant without finalizers is removed in the same update
\* (ShouldDeleteTenantDuringUpdate).
Put(t) ==
  IF t = Current THEN UNCHANGED history
  ELSE history' = Append(history, IF t.deleting /\ t.finalizers = {} THEN Gone
                                  ELSE [t EXCEPT !.version = Now + 1])

Tenants == {history[i].uid : i \in 1 .. Now} \ {0}

-----------------------------------------------------------------------------
Init ==
  /\ history = <<Gone>>
  /\ content = [r \in Resources |-> 0] /\ terminating = {}
  /\ asked = {} /\ inflight = {} /\ creates = 0 /\ faults = 0
  /\ admSeen = [a \in Servers |-> 1] /\ forceLive = [a \in Servers |-> FALSE]
  /\ seen = [c \in Controllers |-> 1] /\ known = [c \in Controllers |-> {}]
  /\ queue = [c \in Controllers |-> FALSE]
  /\ pc = [c \in Controllers |-> "idle"] /\ step = [c \in Controllers |-> 1]
  /\ loc = [c \in Controllers |-> Gone]
  /\ todo = [c \in Controllers |-> {}] /\ remaining = [c \in Controllers |-> FALSE]
  /\ late = FALSE

-----------------------------------------------------------------------------
(* The registry.                                                           *)

\* PrepareForCreate adds the finalizer of the controller.
CreateTenant ==
  /\ ~Exists(Current) /\ Cardinality(Tenants) < MaxTenants
  /\ Put([uid |-> Cardinality(Tenants) + 1, version |-> 0, deleting |-> FALSE,
          finalizers |-> {Arktos} \cup OtherFinalizers])
  /\ UNCHANGED <<content, terminating, asked, inflight, creates, late, faults, admVars,
                 seen, known, queue, workVars>>

\* What the first REST.Delete does; a later one is refused while there are
\* finalizers.
Marked(t) == [t EXCEPT !.deleting = TRUE]

\* A user's request.  Admission makes the server look up the tenant live.
DeleteTenantRequest(a) ==
  /\ Exists(Current) /\ ~Current.deleting /\ Cardinality(asked) < MaxDeletes
  /\ forceLive' = [forceLive EXCEPT ![a] = TRUE]
  /\ asked' = asked \cup {Current.uid}
  /\ Put(Marked(Current))
  /\ UNCHANGED <<content, terminating, inflight, creates, late, faults, admSeen,
                 seen, known, queue, workVars>>

\* forceLiveLookupTTL is over.
ForceLiveExpires(a) ==
  /\ forceLive[a] /\ forceLive' = [forceLive EXCEPT ![a] = FALSE]
  /\ UNCHANGED <<apiVars, faults, admSeen, seen, known, queue, workVars>>

\* Another controller removes its finalizer from a deleted tenant.
RemoveOtherFinalizer ==
  /\ Exists(Current) /\ Current.deleting
  /\ \E f \in Current.finalizers \ {Arktos} :
       Put([Current EXCEPT !.finalizers = @ \ {f}])
  /\ UNCHANGED <<content, terminating, asked, inflight, creates, late, faults, admVars,
                 seen, known, queue, workVars>>

\* finalizeTenant of a second tenant controller with the same finalizer token,
\* whose pass of deleteAllContent found the tenant empty.
PeerFinalizes ==
  /\ Exists(Current) /\ Current.deleting /\ \A r \in Resources : content[r] = 0
  /\ Arktos \in Current.finalizers
  /\ Put([Current EXCEPT !.finalizers = @ \ {Arktos}])
  /\ UNCHANGED <<content, terminating, asked, inflight, creates, late, faults, admVars,
                 seen, known, queue, workVars>>

\* An object's own finalizers are done.
Collect(r) ==
  /\ r \in terminating
  /\ terminating' = terminating \ {r}
  /\ content' = [content EXCEPT ![r] = 0]
  /\ UNCHANGED <<history, asked, inflight, creates, late, faults, admVars, seen, known,
                 queue, workVars>>

-----------------------------------------------------------------------------
(* Admission.                                                              *)

ObserveAdm(a) ==
  /\ admSeen[a] < Now /\ admSeen' = [admSeen EXCEPT ![a] = @ + 1]
  /\ UNCHANGED <<apiVars, faults, forceLive, seen, known, queue, workVars>>

Cached(a) == history[admSeen[a]]

\* tenantLifecycleAdmit: the tenant the decision is made on
View(a) ==
  IF ~Exists(Cached(a)) \/ (forceLive[a] /\ ~Cached(a).deleting) THEN Current ELSE Cached(a)

\* A bug: namespaces are not looked at, whether or not the tenant exists.
AdmitsAnyNamespace(a, r) == r \in Namespaces \/ (Exists(View(a)) /\ ~View(a).deleting)

\* Lifecycle.Admit and Exists.Validate of a create.  For a namespace it only
\* matters that the tenant exists.
Admits(a, r) ==
  IF r \in Namespaces THEN Exists(Cached(a)) \/ Exists(Current)
  ELSE Exists(View(a)) /\ ~View(a).deleting

\* The tenant a create is meant for: the one the server decided on
AdmittedFor(a, r) ==
  IF r \in Namespaces THEN IF Exists(Cached(a)) THEN Cached(a).uid ELSE Current.uid
  ELSE View(a).uid

\* A user creates an object: admission ...
AdmitCreate(a, r) ==
  /\ creates + faults < MaxTroubles /\ Admits(a, r)
  /\ creates' = creates + 1
  /\ inflight' = inflight \cup {[resource |-> r, uid |-> AdmittedFor(a, r), server |-> a]}
  /\ UNCHANGED <<history, content, terminating, asked, late, faults, admVars, seen, known,
                 queue, workVars>>

\* A deleter has looked for r already and will not again before it finalizes.
Passed(r) ==
  \E c \in Controllers : \/ pc[c] = "purge" /\ r \notin todo[c]
                         \/ pc[c] \in {"finalize", "retry"}

TooLate(r, uid) ==
  \/ ~Exists(Current) \/ Current.uid # uid \/ Arktos \notin Current.finalizers
  \/ Passed(r)

Create(r, uid) ==
  IF content[r] # 0 THEN UNCHANGED <<content, late>>
  ELSE /\ content' = [content EXCEPT ![r] = uid]
       /\ late' = (late \/ TooLate(r, uid))

\* ... and the write
StoreCreate(q) ==
  /\ q \in inflight
  /\ inflight' = inflight \ {q}
  /\ Create(q.resource, q.uid)
  /\ UNCHANGED <<history, terminating, asked, creates, faults, admVars, seen, known,
                 queue, workVars>>

-----------------------------------------------------------------------------
(* TenantController.                                                       *)

\* Adds and updates are queued, deletes are not.
Observe(c) ==
  /\ pc[c] # "dead" /\ seen[c] < Now
  /\ seen' = [seen EXCEPT ![c] = @ + 1]
  /\ queue' = [queue EXCEPT ![c] = @ \/ Exists(history[seen[c] + 1])]
  /\ UNCHANGED <<apiVars, faults, admVars, known, workVars>>

Lister(c) == history[seen[c]]

\* The other informers of the controller
ObserveContent(c) ==
  /\ pc[c] # "dead" /\ known[c] # {r \in Resources : content[r] # 0}
  /\ known' = [known EXCEPT ![c] = {r \in Resources : content[r] # 0}]
  /\ UNCHANGED <<apiVars, faults, admVars, seen, queue, workVars>>

\* A bug: the handlers are added without a resync period.
NoResync(c) == FALSE /\ UNCHANGED vars

\* An update event for each tenant of the lister every resyncPeriod
Resync(c) ==
  /\ pc[c] # "dead" /\ Exists(Lister(c)) /\ ~queue[c]
  /\ queue' = [queue EXCEPT ![c] = TRUE]
  /\ UNCHANGED <<apiVars, faults, admVars, seen, known, workVars>>

\* A request of a worker fails.
Fault == creates + faults < MaxTroubles /\ faults' = faults + 1

Goto(c, label) == pc' = [pc EXCEPT ![c] = label]

locals == <<step, loc, todo, remaining>>

\* The handler returns, and its variables are gone.
Return(c, label) ==
  /\ Goto(c, label)
  /\ step' = [step EXCEPT ![c] = 1] /\ loc' = [loc EXCEPT ![c] = Gone]
  /\ todo' = [todo EXCEPT ![c] = {}] /\ remaining' = [remaining EXCEPT ![c] = FALSE]

\* ... with an error: AddRateLimited
Requeue(c) == Return(c, "idle") /\ queue' = [queue EXCEPT ![c] = TRUE]

\* ... with nil
Forget(c) == Return(c, "idle") /\ UNCHANGED queue

\* worker takes the name, processQueue looks it up.
ProcessQueue(c) ==
  /\ pc[c] = "idle" /\ queue[c]
  /\ queue' = [queue EXCEPT ![c] = FALSE]
  /\ Goto(c, IF Exists(Lister(c)) THEN "sync" ELSE "idle")
  /\ UNCHANGED <<apiVars, faults, admVars, seen, known, locals>>

\* syncTenant looks it up again, and ignores the error.
SyncTenant(c) ==
  /\ pc[c] = "sync"
  /\ Goto(c, IF ~Exists(Lister(c)) THEN "dead"
             ELSE IF Lister(c).deleting THEN "get" ELSE "create")
  /\ UNCHANGED <<apiVars, faults, admVars, seen, known, queue, locals>>

\* The next default.  Each function tries all of its own and returns what failed
\* of them, and the handler ends with the first error.
NextDefault(c, failed) ==
  IF failed /\ step[c] \in Ends THEN Requeue(c)
  ELSE IF step[c] = Len(Defaults) THEN Forget(c)
  ELSE /\ step' = [step EXCEPT ![c] = @ + 1]
       /\ remaining' = [remaining EXCEPT ![c] = failed]
       /\ UNCHANGED <<pc, queue, loc, todo>>

\* syncNamespaces, syncInitialRoleAndBinding, syncDefaultNetworkObject: what a
\* lister shows is not created.  The last of them looks at the tenant again.
CreateDefault(c, a) ==
  LET r == Defaults[step[c]]
      last == step[c] = Len(Defaults)
      skip == r \in known[c] \/ (last /\ Lister(c).deleting)
  IN
  /\ pc[c] = "create"
  /\ IF last /\ ~Exists(Lister(c))
     THEN Return(c, "dead") /\ UNCHANGED <<queue, content, late, faults>>
     ELSE \/ skip /\ NextDefault(c, remaining[c]) /\ UNCHANGED <<content, late, faults>>
          \/ /\ ~skip /\ Admits(a, r)
             /\ NextDefault(c, remaining[c]) /\ Create(r, AdmittedFor(a, r)) /\ UNCHANGED faults
          \/ /\ ~skip /\ NextDefault(c, TRUE) /\ UNCHANGED <<content, late>>
             /\ IF Admits(a, r) THEN Fault ELSE UNCHANGED faults
  /\ UNCHANGED <<history, terminating, asked, inflight, creates, admVars, seen, known>>

\* The process ends with the panic of its worker and is started again.
RestartController(c) ==
  /\ pc[c] = "dead"
  /\ Goto(c, "idle")
  /\ seen' = [seen EXCEPT ![c] = Now]
  /\ queue' = [queue EXCEPT ![c] = Exists(Current)]
  /\ known' = [known EXCEPT ![c] = {r \in Resources : content[r] # 0}]
  /\ UNCHANGED <<apiVars, faults, admVars, locals>>

-----------------------------------------------------------------------------
(* tenantedResourcesDeleter.                                               *)

\* Delete: the tenant as it is now
GetTenant(c) ==
  /\ pc[c] = "get"
  /\ IF Exists(Current) /\ Current.deleting
     THEN /\ loc' = [loc EXCEPT ![c] = Current]
          /\ Goto(c, IF Current.finalizers = {} THEN "delete" ELSE "purge")
          /\ todo' = [todo EXCEPT ![c] = Resources]
          /\ UNCHANGED <<queue, step, remaining>>
     ELSE Forget(c)
  /\ UNCHANGED <<apiVars, faults, admVars, seen, known>>

\* A bug: what is left after the delete is not looked for.
PurgeUnverified(c, a, r) ==
  /\ pc[c] = "purge" /\ r \in todo[c]
  /\ todo' = [todo EXCEPT ![c] = @ \ {r}]
  /\ \/ content[r] = 0 /\ UNCHANGED <<content, terminating>>
     \/ /\ content[r] # 0 /\ r \notin terminating
        /\ content' = [content EXCEPT ![r] = 0] /\ UNCHANGED terminating
     \/ content[r] # 0 /\ terminating' = terminating \cup {r} /\ UNCHANGED content
  /\ UNCHANGED <<history, asked, inflight, creates, late, faults, admVars, seen, known, queue,
                 pc, step, loc, remaining>>

\* A bug: the default namespaces of every tenant are immortal.
NeverDeletesNamespaces(a, r) == r \notin Namespaces

\* Exists.Validate of a delete: the tenant is in the server's lister or stored.
\* Lifecycle.Admit: a default namespace may only be deleted if the lister shows
\* that the tenant is terminating.
AdmitsDelete(a, r) ==
  /\ Exists(Cached(a)) \/ Exists(Current)
  /\ r \in Namespaces => Exists(Cached(a)) /\ Cached(a).deleting

\* deleteAllContentForGroupVersionResource: delete, and see what is left
Purge(c, a, r) ==
  /\ pc[c] = "purge" /\ r \in todo[c]
  /\ todo' = [todo EXCEPT ![c] = @ \ {r}]
  /\ \/ content[r] = 0 /\ UNCHANGED <<content, terminating, remaining>>
     \/ /\ content[r] # 0 /\ r \notin terminating /\ AdmitsDelete(a, r)
        /\ content' = [content EXCEPT ![r] = 0] /\ UNCHANGED <<terminating, remaining>>
     \/ /\ content[r] # 0 /\ remaining' = [remaining EXCEPT ![c] = TRUE]
        /\ terminating' = IF AdmitsDelete(a, r) THEN terminating \cup {r} ELSE terminating
        /\ UNCHANGED content
  /\ UNCHANGED <<history, asked, inflight, creates, late, faults, admVars, seen, known, queue,
                 pc, step, loc>>

\* deleteAllContent is done: an error if anything is left, or finalizeTenant
PurgeEnds(c) ==
  /\ pc[c] = "purge" /\ todo[c] = {}
  /\ IF remaining[c] THEN Requeue(c) ELSE Goto(c, "finalize") /\ UNCHANGED <<queue, locals>>
  /\ UNCHANGED <<apiVars, faults, admVars, seen, known>>

\* finalizeTenant.  If the tenant is gone the result is an empty tenant, whose
\* name cannot be deleted.
FinalizeTenant(c) ==
  LET left == [loc[c] EXCEPT !.finalizers = @ \ {Arktos}] IN
  /\ pc[c] = "finalize"
  /\ IF ~Exists(Current) THEN Requeue(c) /\ UNCHANGED history
     ELSE IF Current.version # loc[c].version
     THEN Goto(c, "retry") /\ UNCHANGED <<history, queue, locals>>
     ELSE /\ Put(left)
          /\ IF left.finalizers = {}
             THEN Goto(c, "delete") /\ UNCHANGED <<queue, locals>> ELSE Forget(c)
  /\ UNCHANGED <<content, terminating, asked, inflight, creates, late, faults, admVars,
                 seen, known>>

\* A bug: the tenant that is found is taken for the one before.
RetryAnyTenant(c) ==
  /\ pc[c] = "retry"
  /\ IF ~Exists(Current) THEN Forget(c)
     ELSE /\ loc' = [loc EXCEPT ![c] = Current]
          /\ Goto(c, "finalize") /\ UNCHANGED <<queue, step, todo, remaining>>
  /\ UNCHANGED <<apiVars, faults, admVars, seen, known>>

\* retryOnConflictError after a conflict
RetryOnConflict(c) ==
  /\ pc[c] = "retry"
  /\ IF ~Exists(Current) THEN Forget(c)
     ELSE IF Current.uid # loc[c].uid THEN Requeue(c)
     ELSE /\ loc' = [loc EXCEPT ![c] = Current]
          /\ Goto(c, "finalize") /\ UNCHANGED <<queue, step, todo, remaining>>
  /\ UNCHANGED <<apiVars, faults, admVars, seen, known>>

\* deleteTenant: REST.Delete, with the uid as a precondition, marks a tenant
\* that is not marked, and refuses one that has finalizers.
DeleteTenant(c) ==
  /\ pc[c] = "delete"
  /\ IF ~Exists(Current) THEN Forget(c) /\ UNCHANGED history
     ELSE IF Current.uid = loc[c].uid /\ ~Current.deleting THEN Put(Marked(Current)) /\ Forget(c)
     ELSE Requeue(c) /\ UNCHANGED history
  /\ UNCHANGED <<content, terminating, asked, inflight, creates, late, faults, admVars,
                 seen, known>>

\* A request of the deleter fails.
DeleterFails(c) ==
  /\ pc[c] \in {"get", "purge", "finalize", "retry", "delete"}
  /\ Fault
  /\ Requeue(c)
  /\ UNCHANGED <<apiVars, admVars, seen, known>>

-----------------------------------------------------------------------------
WorkerStep(c) ==
  \/ ProcessQueue(c) \/ SyncTenant(c) \/ RestartController(c)
  \/ GetTenant(c) \/ PurgeEnds(c) \/ FinalizeTenant(c) \/ RetryOnConflict(c) \/ DeleteTenant(c)
  \/ \E a \in Servers : CreateDefault(c, a) \/ \E r \in Resources : Purge(c, a, r)

Next ==
  \/ CreateTenant \/ RemoveOtherFinalizer \/ PeerFinalizes
  \/ \E r \in Resources : Collect(r)
  \/ \E a \in Servers : DeleteTenantRequest(a) \/ ForceLiveExpires(a) \/ ObserveAdm(a)
  \/ \E a \in Servers, r \in Resources : AdmitCreate(a, r)
  \/ \E q \in inflight : StoreCreate(q)
  \/ \E c \in Controllers :
       \/ Observe(c) \/ ObserveContent(c) \/ Resync(c) \/ WorkerStep(c) \/ DeleterFails(c)

Spec == Init /\ [][Next]_vars

\* Informers and workers go on, a request that was admitted ends, finalizers
\* of objects and other controllers do their work.
FairSpec ==
  /\ Spec
  /\ WF_vars(RemoveOtherFinalizer)
  /\ \A r \in Resources : WF_vars(Collect(r))
  /\ \A a \in Servers : WF_vars(ObserveAdm(a))
  /\ WF_vars(\E q \in inflight : StoreCreate(q))
  /\ \A c \in Controllers :
       /\ WF_vars(Observe(c)) /\ WF_vars(ObserveContent(c)) /\ WF_vars(Resync(c))
       /\ WF_vars(WorkerStep(c))
-----------------------------------------------------------------------------
(* Properties.                                                             *)

Labels == {"idle", "sync", "create", "get", "purge", "finalize", "retry", "delete", "dead"}

TypeOK ==
  /\ history \in Seq(Tenant \cup {Gone}) /\ Now > 0
  /\ content \in [Resources -> 0 .. MaxTenants] /\ terminating \subseteq Resources
  /\ asked \subseteq 1 .. MaxTenants
  /\ inflight \subseteq [resource : Resources, uid : 1 .. MaxTenants, server : Servers]
  /\ creates \in 0 .. MaxTroubles /\ faults \in 0 .. MaxTroubles
  /\ admSeen \in [Servers -> 1 .. Now] /\ forceLive \in [Servers -> BOOLEAN]
  /\ seen \in [Controllers -> 1 .. Now] /\ known \in [Controllers -> SUBSET Resources]
  /\ queue \in [Controllers -> BOOLEAN] /\ pc \in [Controllers -> Labels]
  /\ step \in [Controllers -> 1 .. Len(Defaults)]
  /\ loc \in [Controllers -> Tenant \cup {Gone}]
  /\ todo \in [Controllers -> SUBSET Resources] /\ remaining \in [Controllers -> BOOLEAN]
  /\ late \in BOOLEAN

\* The deleter "will ensure all resources in the tenant are purged prior to
\* releasing tenant itself" (tenanted_resources_deleter.go:336): an object
\* never outlives its tenant, nor turns up in the next one of the name, unless
\* its create was stored behind the back of the last pass.
Purged ==
  late \/ \A r \in Resources :
            content[r] # 0 => Exists(Current) /\ Current.uid = content[r]

\* Only a tenant that somebody asked to delete is ever marked or finalized: a
\* deleter that is still at work on an earlier tenant of the name, with what it
\* read of it, never writes the object of the next one (UID preconditions,
\* retryOnConflict).  Its content is another matter: deletes of content name
\* the tenant without a UID, and a late pass purges what the next one has.
OnlyAskedFor ==
  Exists(Current) => /\ Current.deleting => Current.uid \in asked
                     /\ Arktos \notin Current.finalizers => Current.uid \in asked

\* A tenant that is marked for deletion goes away.
DeletedTenantGoes ==
  (Exists(Current) /\ Current.deleting) ~> ~Exists(Current)

\* A tenant that stays gets all its default content, though the listers of the
\* controller may show what an earlier tenant of the name had, the caches of the
\* API servers lag, and its controllers fail.
TenantGetsDefaults ==
  <>[](Exists(Current) /\ ~Current.deleting)
    => <>[](\A i \in 1 .. Len(Defaults) : content[Defaults[i]] # 0)

=============================================================================
