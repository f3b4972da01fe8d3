--------------------------- MODULE JournalEncoding ---------------------------
(***************************************************************************)
(* The journals that an execution of the privacy circuit commits, as       *)
(* risc0-serde encodes them: a vector is its length and its elements, a    *)
(* byte is a word.  The public states are empty, and what stands behind    *)
(* the nullifiers is not looked at.                                        *)
(***************************************************************************)
EXTENDS JournalDecode, SequencesExt

CONSTANT Output     \* PrivacyPreservingCircuitOutput, without the empty states

\* A Nullifier, a Commitment or a CommitmentSetDigest; a ciphertext is bytes too.
Field == {f \in Seq(0 .. ByteMax) : Len(f) = FieldLen}

ASSUME OutputAssumption ==
    \A o \in Output :
        /\ o.ciphertexts \in Seq(Seq(0 .. ByteMax))
        /\ o.commitments \in Seq(Field)
        /\ o.nullifiers \in Seq(Field \X Field)
        /\ o.windows \in Seq(0 .. WordMax)

Vector(elements) == <<Len(elements)>> \o FlattenSeq(elements)

Ciphertexts(o) == [i \in 1 .. Len(o.ciphertexts) |->
                      <<Len(o.ciphertexts[i])>> \o o.ciphertexts[i]]
Nullifiers(o) == [i \in 1 .. Len(o.nullifiers) |->
                     o.nullifiers[i][1] \o o.nullifiers[i][2]]

Encode(o) ==
    <<0, 0>> \o Vector(Ciphertexts(o)) \o Vector(o.commitments)
      \o Vector(Nullifiers(o)) \o o.windows

Encoding == [o \in Output |-> Encode(o)]
Encoded == {Encoding[o] : o \in Output}

\* The bytes that an honest prover commits decode to the nullifier at the
\* index, and to the range error from the number of nullifiers on: the walker's
\* constants and field order are those of the encoding.
DecodesOutputs ==
    Done /\ journal.odd = 0 =>
      \A o \in Output : journal.words = Encoding[o] =>
        IF entryIndex < Len(o.nullifiers)
        THEN pc = "ok" /\ nullifier = o.nullifiers[entryIndex + 1][1]
        ELSE pc = "NullifierIndexOutOfRange"
=============================================================================
