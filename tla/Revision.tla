------------------------------ MODULE Revision ------------------------------
(***************************************************************************)
(* Comparison of revisions that come from different etcd clusters.         *)
(*                                                                         *)
(*   apimachinery/pkg/util/diff/compare.go                                 *)
(*                                                                         *)
(* A revision is a number: the milliseconds of the write, 6 bits for the   *)
(* cluster, 13 bits for the number of the event.                           *)
(***************************************************************************)
EXTENDS Integers

CONSTANTS
  AllowedNTPDiff,  \* allowedNTPDiffInMilliSecond
  V2MinRevision    \* v2MinRevision: below it revisions are plain etcd revisions

ASSUME RevisionAssumption == AllowedNTPDiff \in Nat \ {0} /\ V2MinRevision \in Nat \ {0}

getRevisionNumber(ms, cluster, seq) == (ms * 64 + cluster) * 8192 + seq

extractClusterId(rev) == (rev \div 8192) % 64

extractMilliSecond(rev) == rev \div 524288

\* -1, 0 or 1; 0 for different clusters at about the same time
revisionCompare(r1, r2) ==
  LET diff == extractMilliSecond(r1) - extractMilliSecond(r2)
      near == diff < AllowedNTPDiff /\ -diff < AllowedNTPDiff
      d == IF extractClusterId(r1) = extractClusterId(r2) THEN r1 - r2
           ELSE IF near THEN 0 ELSE diff
  IN IF d < 0 THEN -1 ELSE IF d = 0 THEN 0 ELSE 1

\* A bug: every revision of another cluster is newer.
IsNewerAcross(r1, r2) ==
  IF extractClusterId(r1) = extractClusterId(r2) THEN r1 > r2 ELSE TRUE

\* r1 is to be sent or processed after r2
RevisionIsNewer(r1, r2) ==
  IF r1 < V2MinRevision \/ r2 < V2MinRevision THEN r1 > r2
  ELSE IF extractClusterId(r1) = extractClusterId(r2) THEN revisionCompare(r1, r2) > 0
  ELSE revisionCompare(r1, r2) >= 0

=============================================================================
