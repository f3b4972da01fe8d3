------------------------- MODULE MCCoordinatorExec -------------------------
(***************************************************************************)
(* Two signers, hence two transactions in flight, over one journal with    *)
(* two nullifiers and another that repeats one of them, and a third that   *)
(* is too large to store.                                                 *)
(***************************************************************************)
EXTENDS CoordinatorExec, TLC

CONSTANTS good, n1, n2, jPair, jAgain, jLarge

MCSha256 == (jPair :> 1) @@ (jAgain :> 2) @@ (jLarge :> 3)
Row(a, b) == [k \in 0 .. 1 |-> IF k = 0 THEN a ELSE b]
MCDecode == (jPair :> Row(n1, n2)) @@ (jAgain :> Row(n2, NoNullifier)) @@
            (jLarge :> Row(n1, NoNullifier))
MCOutputs == (good :> {jPair, jAgain})
=============================================================================
