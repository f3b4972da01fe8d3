--------------------------- MODULE MCCoordinator ---------------------------
(***************************************************************************)
(* A small instance of Coordinator: a journal with two nullifiers, another *)
(* journal that holds one of them again, a journal whose second entry does *)
(* not decode, and one that is too large to store; two images, one of      *)
(* which can commit to a nullifier the other never proves.                 *)
(***************************************************************************)
EXTENDS Coordinator, TLC

CONSTANTS good, other, n1, n2, n3, jPair, jAgain, jForeign, jLarge

MCImage == {good, other}
MCNullifier == {n1, n2, n3}
MCJournal == {jPair, jAgain, jForeign, jLarge}
MCSmall == MCJournal \ {jLarge}
MCMaxIndex == 1

MCDigest == 1 .. 4
MCSha256 == (jPair :> 1) @@ (jAgain :> 2) @@ (jForeign :> 3) @@ (jLarge :> 4)

Row(a, b) == [k \in 0 .. 1 |-> IF k = 0 THEN a ELSE b]
MCDecode ==
    (jPair    :> Row(n1, n2))          @@ (jAgain :> Row(n2, NoNullifier)) @@
    (jForeign :> Row(n3, NoNullifier)) @@ (jLarge :> Row(n1, n2))

MCOutputs == (good :> {jPair, jAgain, jLarge}) @@ (other :> {jPair, jForeign})
=============================================================================
