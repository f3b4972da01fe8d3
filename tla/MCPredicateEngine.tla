-------------------------- MODULE MCPredicateEngine --------------------------
(***************************************************************************)
(* Two shielded accounts, one on each side of the threshold, the predicate *)
(* and another program.                                                    *)
(***************************************************************************)
EXTENDS PredicateEngine, TLC

CONSTANTS circuit, n1, n2, jRich, jPoor, rich, poor

MCSha256 == (jRich :> 1) @@ (jPoor :> 2)
MCDecode == (jRich :> [k \in {0} |-> n1]) @@ (jPoor :> [k \in {0} |-> n2])
MCOutputs == circuit :> {jRich, jPoor}
MCOutputOf == (rich :> jRich) @@ (poor :> jPoor)
MCBalance == (rich :> 5000) @@ (poor :> 500)
=============================================================================
