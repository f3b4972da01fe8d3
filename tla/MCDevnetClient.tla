--------------------------- MODULE MCDevnetClient ---------------------------
(***************************************************************************)
(* Two images with one journal each, the client's key and a rival's.       *)
(***************************************************************************)
EXTENDS DevnetClient, TLC

CONSTANTS good, other, n1, n2, jGood, jOther

MCSha256 == (jGood :> 1) @@ (jOther :> 2)
MCDecode == (jGood :> [k \in {0} |-> n1]) @@ (jOther :> [k \in {0} |-> n2])
MCOutputs == (good :> {jGood}) @@ (other :> {jOther})
=============================================================================
