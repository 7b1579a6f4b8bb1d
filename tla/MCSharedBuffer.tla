---------------------------- MODULE MCSharedBuffer ----------------------------
(***************************************************************************)
(* Two producers and two consumers of a bounded buffer: with every call of *)
(* the interface for the safety properties, with the pop that never gives  *)
(* up by itself for the liveness properties.                               *)
(***************************************************************************)
EXTENDS SharedBuffer, TLC

CONSTANTS c1, c2, v1, v2

MCConsumers == {c1, c2}
MCOpsOf == c1 :> {"pop"} @@ c2 :> {"timedPop", "tryPop", "back", "backInto"}
MCPopOnly == [c \in MCConsumers |-> {"pop"}]
MCSymmetry == Permutations({v1, v2})
=============================================================================
