-------------------------- MODULE MCProverService --------------------------
(* Two proofs of two circuit versions, with different journals, and one HTTP  *)
(* request: requests share nothing but the file they read, which they do not  *)
(* write.                                                                     *)
EXTENDS ProverService, TLC

CONSTANTS p1, p2, j1, j2, i1, i2

MCJournalOf == (p1 :> j1) @@ (p2 :> j2)
MCImageOf == (p1 :> i1) @@ (p2 :> i2)
=============================================================================
