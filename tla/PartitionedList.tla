-------------------------- MODULE PartitionedList --------------------------
(***************************************************************************)
(* A list, page by page, of objects that are in several etcd clusters.     *)
(*                                                                         *)
(*   apiserver/pkg/storage/etcd3/store.go     List, listPartition,         *)
(*                                            updatelist, the continue     *)
(*                                            tokens, getClientsFromKey    *)
(*   apiserver/pkg/storage/etcd3/errors.go    interpretListError           *)
(*   client-go/tools/pager/pager.go           the client                   *)
(*                                                                         *)
(* A goroutine for each cluster appends to one list, under a mutex, until  *)
(* the list has as many objects as the limit says.  A page ends with a     *)
(* token for each cluster that has more.                                   *)
(*                                                                         *)
(* etcd is external.  The log is the history of all clusters: a write      *)
(* creates its key, or deletes it if it exists.  The place of a write in   *)
(* the log is its time, in milliseconds, and stands for its revision.      *)
(***************************************************************************)
EXTENDS Revision, Sequences, SequencesExt, FiniteSets, FiniteSetsExt

CONSTANTS
  MaxKey,         \* keys are 1 .. MaxKey, in the order of etcd
  Clusters,       \* ids of clusters, 6 bits each, the system cluster 0 included
  Home,           \* the cluster that has a key
  Selections,     \* the keys a selector may match
  Limit,          \* page size
  MaxWrites,      \* bound on writes during the list
  MaxCompactions  \* bound on compactions

ASSUME KeyAssumption ==
  /\ MaxKey \in Nat /\ Home \in [1 .. MaxKey -> Clusters]
  /\ Clusters \subseteq 0 .. 63 /\ 0 \in Clusters
  /\ \A c \in Clusters : \E k \in 1 .. MaxKey : Home[k] = c
  /\ Selections \subseteq SUBSET (1 .. MaxKey)
ASSUME PageAssumption == Limit \in Nat \ {0} /\ MaxWrites \in Nat /\ MaxCompactions \in Nat

VARIABLES
  log,         \* keys written
  compacted,   \* revisions below it are gone, for each cluster
  compactions,
  phase,       \* of the client: "idle", "listing", "paging", "expired", "done", "failed"
  request,     \* clusters of the key, selector, limit, resource version asked for
  parts,       \* goroutines of listPartition
  items,       \* listObj: keys in the page
  tokens,      \* continue tokens of the last page
  got,         \* keys in the pages the client has
  rv,          \* resource version of its list
  began,       \* length of the log when the list began ...
  firstEnd,    \* ... and when its first page ended
  twice,       \* keys it got twice
  straight,    \* each token was used for the cluster it is of
  consistent   \* no page was read at a later revision than the one before

storageVars == <<log, compacted, compactions>>
clientVars == <<got, rv, began, firstEnd, twice>>
vars == <<log, compacted, compactions, phase, request, parts, items, tokens, got, rv,
          began, firstEnd, twice, straight, consistent>>

Keys == 1 .. MaxKey

\* The keys of a cluster at revision r, and its revision now
Snapshot(c, r) ==
  {k \in Keys : Home[k] = c /\ Cardinality({i \in 1 .. r : log[i] = k}) % 2 = 1}

Header(c) == Max({i \in 1 .. Len(log) : Home[log[i]] = c})

\* The revision itself, with the id of its cluster; 0 is none
Number(r) == IF r = 0 THEN 0 ELSE getRevisionNumber(r, Home[log[r]], 1)

Token(c, r, last) == [cluster |-> c, rev |-> r, last |-> last]

\* A goroutine that starts after key `last`, at revision r unless it is 0
Part(r, last) ==
  [pc |-> "get", rev |-> r, returned |-> r, start |-> last, last |-> 0,
   resp |-> {}, more |-> FALSE]

-----------------------------------------------------------------------------
Init ==
  /\ log \in SetToSeqs(Keys) /\ \A i, j \in DOMAIN log : i < j => log[i] < log[j]
  /\ compacted = [c \in Clusters |-> 0] /\ compactions = 0
  /\ phase = "idle"
  /\ request = [scope |-> {}, sel |-> {}, limit |-> 0, rev |-> 0]
  /\ parts = << >> /\ items = {} /\ tokens = << >>
  /\ got = {} /\ rv = 0 /\ began = 0 /\ firstEnd = 0 /\ twice = {}
  /\ straight = TRUE /\ consistent = TRUE

\* External: an object is created or deleted, a cluster is compacted.
WriteKey(k) ==
  /\ Len(log) < MaxKey + MaxWrites
  /\ log' = Append(log, k)
  /\ UNCHANGED <<compacted, compactions, phase, request, parts, items, tokens, clientVars,
                 straight, consistent>>

CompactCluster(c) ==
  /\ compactions < MaxCompactions
  /\ compactions' = compactions + 1
  /\ compacted' = [compacted EXCEPT ![c] = Header(c)]
  /\ UNCHANGED <<log, phase, request, parts, items, tokens, clientVars, straight, consistent>>

-----------------------------------------------------------------------------
(* store.List.                                                             *)

\* getClientsFromKey: the cluster of the tenant in the key, or all of them, or
\* the system cluster alone for events
getClientsFromKey == {{c} : c \in Clusters} \cup {Clusters}

\* A list without continue token, of the newest objects or at a revision
List(scope, sel, limit, r) ==
  /\ phase = "idle"
  /\ request' = [scope |-> scope, sel |-> sel, limit |-> limit, rev |-> r]
  /\ parts' = [c \in scope |-> Part(r, 0)]
  /\ items' = {} /\ phase' = "listing" /\ began' = Len(log)
  /\ UNCHANGED <<storageVars, tokens, got, rv, firstEnd, twice, straight, consistent>>

\* The clusters of a continue token are the places of its members, not their ids.
ContinueClusters ==
  IF Len(tokens) = 1 /\ tokens[1].rev = -1 THEN request.scope ELSE 0 .. Len(tokens) - 1

\* A bug: the next page is of the newest revision.
ContinueNow ==
  /\ phase = "paging"
  /\ IF \A c \in ContinueClusters : c \in Clusters /\ c < Len(tokens)
     THEN /\ parts' = [c \in ContinueClusters |-> Part(0, tokens[c + 1].last)]
          /\ phase' = "listing"
          /\ straight' = (straight /\ \A c \in ContinueClusters : tokens[c + 1].cluster = c)
          /\ consistent' = (consistent /\ \A c \in ContinueClusters : tokens[c + 1].rev > 0)
     ELSE phase' = "failed" /\ UNCHANGED <<parts, straight, consistent>>
  /\ items' = {}
  /\ UNCHANGED <<storageVars, request, tokens, clientVars>>

\* A list with the tokens of the page before; a cluster that does not exist is
\* a bad request, and one that has no token a panic.
Continue ==
  /\ phase = "paging"
  /\ IF \A c \in ContinueClusters : c \in Clusters /\ c < Len(tokens)
     THEN /\ parts' = [c \in ContinueClusters |->
                         Part(IF tokens[c + 1].rev > 0 THEN tokens[c + 1].rev ELSE 0,
                              tokens[c + 1].last)]
          /\ phase' = "listing"
          /\ straight' = (straight /\ \A c \in ContinueClusters : tokens[c + 1].cluster = c)
          /\ consistent' = (consistent /\ \A c \in ContinueClusters : tokens[c + 1].rev > 0)
     ELSE phase' = "failed" /\ UNCHANGED <<parts, straight, consistent>>
  /\ items' = {}
  /\ UNCHANGED <<storageVars, request, tokens, clientVars>>

-----------------------------------------------------------------------------
(* listPartition, in a goroutine for each cluster.                         *)

Paging == request.limit > 0

\* KV.Get: keys with the prefix after `start`, no more than the limit.  A key
\* with the prefix is in a cluster of the list.
Get(c) ==
  LET p == parts[c]
      r == IF p.rev = 0 THEN Header(c) ELSE p.rev
      all == {k \in Snapshot(c, r) : Home[k] \in request.scope /\ k > p.start}
      resp == {k \in all : Paging => Cardinality({j \in all : j < k}) < request.limit}
  IN
  /\ p.pc = "get"
  /\ parts' = [parts EXCEPT ![c] =
       IF r > Header(c) THEN [p EXCEPT !.pc = "error"]
       ELSE IF r < compacted[c] THEN [p EXCEPT !.pc = "compacted"]
       ELSE [p EXCEPT !.pc = "take", !.resp = resp, !.more = (resp # all),
                      !.returned = IF @ = 0 THEN Header(c) ELSE @]]
  /\ UNCHANGED <<storageVars, phase, request, items, tokens, clientVars, straight, consistent>>

\* A bug: what was left in the response is forgotten.
TakeNoMore(c) ==
  LET p == parts[c]
      taken == {k \in p.resp : Paging =>
                  Cardinality(items) + Cardinality({j \in p.resp \cap request.sel : j < k})
                    < request.limit}
  IN
  /\ p.pc = "take"
  /\ items' = items \cup (taken \cap request.sel)
  /\ parts' = [parts EXCEPT ![c] =
       [p EXCEPT !.pc = "check", !.resp = {},
                 !.last = IF taken = {} THEN @ ELSE Max(taken)]]
  /\ UNCHANGED <<storageVars, phase, request, tokens, clientVars, straight, consistent>>

\* Under the mutex: keys that match, until the list is full
Take(c) ==
  LET p == parts[c]
      taken == {k \in p.resp : Paging =>
                  Cardinality(items) + Cardinality({j \in p.resp \cap request.sel : j < k})
                    < request.limit}
  IN
  /\ p.pc = "take"
  /\ items' = items \cup (taken \cap request.sel)
  /\ parts' = [parts EXCEPT ![c] =
       [p EXCEPT !.pc = "check", !.resp = {}, !.more = (@ \/ taken # p.resp),
                 !.last = IF taken = {} THEN @ ELSE Max(taken)]]
  /\ UNCHANGED <<storageVars, phase, request, tokens, clientVars, straight, consistent>>

\* After it: the next request, for what is after the last key, unless the list
\* is full, which another goroutine may have made it.
Check(c) ==
  LET p == parts[c]
      full == ~p.more \/ ~Paging \/ Cardinality(items) >= request.limit
  IN
  /\ p.pc = "check"
  /\ parts' = [parts EXCEPT ![c] =
       IF full THEN [p EXCEPT !.pc = "done"]
       ELSE [p EXCEPT !.pc = "get", !.start = p.last]]
  /\ UNCHANGED <<storageVars, phase, request, items, tokens, clientVars, straight, consistent>>

-----------------------------------------------------------------------------
(* updatelist, when all of them are done, over a map whose order is random.*)

Listed == phase = "listing" /\ \A c \in DOMAIN parts : parts[c].pc \in {"done", "error", "compacted"}

Newest(order) ==
  FoldLeft(LAMBDA r, c : IF RevisionIsNewer(Number(parts[c].returned), Number(r))
                         THEN parts[c].returned ELSE r, 0, order)

\* The clusters that have more
compactedListResult(order) ==
  FoldLeft(LAMBDA s, c : IF parts[c].more THEN Append(s, c) ELSE s, << >>, order)

\* A bug: a token from no key.
FinishUnchecked(order) ==
  LET next == compactedListResult(order) IN
  /\ Listed /\ \A c \in DOMAIN parts : parts[c].pc = "done"
  /\ tokens' = [i \in DOMAIN next |->
                  Token(next[i], parts[next[i]].returned, parts[next[i]].last)]
  /\ got' = got \cup items /\ twice' = twice \cup (got \cap items)
  /\ rv' = IF rv = 0 THEN Newest(order) ELSE rv
  /\ firstEnd' = IF firstEnd = 0 THEN Len(log) ELSE firstEnd
  /\ phase' = IF next = << >> THEN "done" ELSE "paging"
  /\ parts' = << >> /\ items' = {}
  /\ UNCHANGED <<storageVars, request, began, straight, consistent>>

\* encodeContinue: a token for each cluster that has more.  A cluster of which
\* nothing was taken has no key to go on from, which is an error.
Finish(order) ==
  LET next == compactedListResult(order)
      encoded == \A i \in DOMAIN next : parts[next[i]].last # 0
  IN
  /\ Listed /\ \A c \in DOMAIN parts : parts[c].pc = "done"
  /\ order \in SetToSeqs(DOMAIN parts)
  /\ IF encoded
     THEN /\ tokens' = [i \in DOMAIN next |->
                          Token(next[i], parts[next[i]].returned, parts[next[i]].last)]
          /\ got' = got \cup items /\ twice' = twice \cup (got \cap items)
          /\ rv' = IF rv = 0 THEN Newest(order) ELSE rv
          /\ firstEnd' = IF firstEnd = 0 THEN Len(log) ELSE firstEnd
          /\ phase' = IF next = << >> THEN "done" ELSE "paging"
     ELSE phase' = "failed" /\ UNCHANGED <<tokens, got, twice, rv, firstEnd>>
  /\ parts' = << >> /\ items' = {}
  /\ UNCHANGED <<storageVars, request, began, straight, consistent>>

\* The error of one of the clusters.  If it is that a continue token is too old
\* it comes with a token for the newest revision, which names no cluster.
ListError(c) ==
  /\ Listed /\ c \in DOMAIN parts /\ parts[c].pc # "done"
  /\ IF parts[c].pc = "compacted" /\ tokens # << >>
     THEN phase' = "expired" /\ tokens' = <<Token(0, -1, tokens[c + 1].last)>>
     ELSE phase' = "failed" /\ UNCHANGED tokens
  /\ parts' = << >> /\ items' = {}
  /\ UNCHANGED <<storageVars, request, clientVars, straight, consistent>>

-----------------------------------------------------------------------------
(* The client, when its list is too old: a full list, as the pager makes   *)
(* it, or the rest at the newest revision.                                 *)

FullList ==
  /\ phase = "expired"
  /\ request' = [request EXCEPT !.limit = 0]
  /\ parts' = [c \in request.scope |-> Part(request.rev, 0)]
  /\ tokens' = << >> /\ got' = {} /\ twice' = {} /\ rv' = 0 /\ firstEnd' = 0
  /\ straight' = TRUE /\ consistent' = TRUE
  /\ phase' = "listing"
  /\ UNCHANGED <<storageVars, items, began>>

GoOnInconsistently ==
  /\ phase = "expired" /\ phase' = "paging"
  /\ UNCHANGED <<storageVars, request, parts, items, tokens, clientVars, straight, consistent>>

-----------------------------------------------------------------------------
Next ==
  \/ \E k \in Keys : WriteKey(k)
  \/ \E c \in Clusters : CompactCluster(c)
  \/ \E scope \in getClientsFromKey, sel \in Selections, limit \in {0, Limit},
        r \in {0, Len(log)} : List(scope, sel, limit, r)
  \/ Continue
  \/ \E c \in DOMAIN parts : Get(c) \/ Take(c) \/ Check(c) \/ ListError(c)
  \/ \E order \in SetToSeqs(DOMAIN parts) : Finish(order)
  \/ FullList \/ GoOnInconsistently

Spec == Init /\ [][Next]_vars

-----------------------------------------------------------------------------
(* Properties.                                                             *)

TypeOK ==
  /\ log \in Seq(Keys) /\ Len(log) <= MaxKey + MaxWrites
  /\ compacted \in [Clusters -> 0 .. Len(log)] /\ compactions \in 0 .. MaxCompactions
  /\ phase \in {"idle", "listing", "paging", "expired", "done", "failed"}
  /\ request.scope \subseteq Clusters /\ request.sel \subseteq Keys
  /\ request.limit \in {0, Limit} /\ request.rev \in 0 .. Len(log)
  /\ DOMAIN parts \subseteq Clusters
  /\ \A c \in DOMAIN parts :
       /\ parts[c].pc \in {"get", "take", "check", "done", "error", "compacted"}
       /\ {parts[c].rev, parts[c].returned} \subseteq 0 .. Len(log)
       /\ {parts[c].start, parts[c].last} \subseteq 0 .. MaxKey
       /\ parts[c].resp \subseteq Keys /\ parts[c].more \in BOOLEAN
  /\ items \cup got \cup twice \subseteq Keys
  /\ Paging => Cardinality(items) <= Limit
  /\ \A i \in DOMAIN tokens :
       /\ tokens[i].cluster \in Clusters
       /\ tokens[i].rev \in {-1} \cup 1 .. Len(log) /\ tokens[i].last \in Keys
  /\ {rv, began, firstEnd} \subseteq 0 .. Len(log)
  /\ straight \in BOOLEAN /\ consistent \in BOOLEAN

\* What the list is about: keys that match, of its clusters, that were there at
\* some moment of it, or all the time
Moments == IF request.rev > 0 /\ consistent THEN {request.rev} ELSE began .. Len(log)

Sometimes ==
  {k \in request.sel : \E c \in request.scope, r \in Moments : k \in Snapshot(c, r)}

Always ==
  {k \in request.sel : \E c \in request.scope : \A r \in Moments : k \in Snapshot(c, r)}

\* Pages together have every object that matches, once, if it was there all the
\* time, and none that never was, whatever the goroutines, the writes between
\* the requests of one page, compactions and inconsistent tokens do: as long as
\* no token was used for another cluster than its own.
NothingLostBetweenPages ==
  phase = "done" /\ straight => Always \subseteq got /\ got \subseteq Sometimes /\ twice = {}

\* Without a selector, which makes several requests for a page, and without the
\* inconsistent token, the pages are a snapshot: of one cluster, at the version
\* the list has; of several, of each at a version of the first page's time.
PagesAreSnapshot ==
  phase = "done" /\ straight /\ consistent /\ request.sel = Keys =>
    \A c \in request.scope :
      \E r \in IF request.scope = {c} THEN {rv} ELSE began .. firstEnd :
        {k \in got : Home[k] = c} = Snapshot(c, r)

\* "The server guarantees that the objects returned when using continue will be
\* identical to issuing a single list call without a limit"
\* (apimachinery/pkg/apis/meta/v1/types.go)
ContinueIsOneList ==
  phase = "done" /\ consistent /\ request.sel = Keys =>
    \A c \in request.scope : \E r \in began .. firstEnd :
      {k \in got : Home[k] = c} = Snapshot(c, r)

\* The version of a list of several clusters may be older than the newest of
\* theirs, for the order of the map decides between two that are near, but by
\* less than the tolerance for each cluster: a watch from there replays no more.
VersionNotFarBehind ==
  Listed /\ (\A c \in DOMAIN parts : parts[c].pc = "done") =>
    \A order \in SetToSeqs(DOMAIN parts), c \in DOMAIN parts :
      parts[c].returned - Newest(order)
        <= (AllowedNTPDiff - 1) * (Cardinality(DOMAIN parts) - 1)

=============================================================================
