----------------------------- MODULE Settlement -----------------------------
(***************************************************************************)
(* What the coordinator promises to whoever reads its accounts and its    *)
(* event stream, with no accounts, transactions, seals or programs in it:  *)
(* a verifying image is fixed once; from then on nullifiers are accepted  *)
(* one at a time, never twice, and only nullifiers that an execution of    *)
(* the fixed image really committed to; and a saturating counter tells     *)
(* how many there were.  Coordinator.tla is shown to implement it.         *)
(***************************************************************************)
EXTENDS Naturals, Sequences

CONSTANTS
    Nullifier,  \* the nullifiers there are
    Image,      \* the identities of zkVM programs
    Committed,  \* Committed[i]: the nullifiers some output of image i holds
    NoImage,    \* the value of image before it is fixed
    CountMax    \* the largest value of the counter

VARIABLES
    image,      \* the image whose proofs are accepted
    accepted,   \* the nullifiers accepted so far, in order
    count       \* the saturating counter

vars == <<image, accepted, count>>

Init ==
    /\ image = NoImage
    /\ accepted = <<>>
    /\ count = 0

FixImage ==
    /\ image = NoImage
    /\ image' \in Image
    /\ UNCHANGED <<accepted, count>>

Accept(n) ==
    /\ image # NoImage
    /\ n \in Committed[image]
    /\ \A i \in DOMAIN accepted : accepted[i] # n
    /\ accepted' = Append(accepted, n)
    /\ count' = IF count < CountMax THEN count + 1 ELSE CountMax
    /\ UNCHANGED image

Next == FixImage \/ \E n \in Nullifier : Accept(n)

Spec == Init /\ [][Next]_vars
=============================================================================
