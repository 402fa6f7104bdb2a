------------------------- MODULE MCClientSetUpdate --------------------------
(***************************************************************************)
(* Instances of ClientSetUpdate for TLC: NewForConfig's CopyConfigs gives  *)
(* every typed client a Config of its own.                                 *)
(***************************************************************************)
EXTENDS ClientSetUpdate, TLC

CONSTANTS c1, c2, k1, k2

OwnConfig == (k1 :> c1) @@ (k2 :> c2)
=============================================================================
