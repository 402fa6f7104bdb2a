---------------------- MODULE MCFilteredReflector ----------------------
(* Two reset channels of one controller, for the owner's key and the      *)
(* object's own: o1 is owned, o2 is an orphan.                            *)
EXTENDS FilteredReflector, TLC

CONSTANTS o1, o2

OneSource == [m \in {"owner", "own"} |-> "replicaset"]

Keys == (o1 :> [m \in {"owner", "own"} |-> IF m = "owner" THEN 1 ELSE 3])
        @@ (o2 :> [m \in {"owner", "own"} |-> IF m = "owner" THEN NoKey ELSE 1])

TwoBounds == {<<0, 1>>, <<1, 3>>}

=============================================================================
