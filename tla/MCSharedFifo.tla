----------------------------- MODULE MCSharedFifo -----------------------------
(***************************************************************************)
(* Three consumers of one queue: one that pops with and without a deadline,*)
(* one that pops and peeks, one that polls.                                 *)
(***************************************************************************)
EXTENDS SharedFifo, TLC

CONSTANTS c1, c2, c3, v1, v2

MCConsumers == {c1, c2, c3}
MCOpsOf == c1 :> {"pop", "timedPop"} @@ c2 :> {"pop", "back", "backInto"}
           @@ c3 :> {"tryPop"}
MCSymmetry == Permutations({v1, v2})
=============================================================================
