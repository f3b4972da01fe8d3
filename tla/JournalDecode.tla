--------------------------- MODULE JournalDecode ---------------------------
(***************************************************************************)
(* decode_nullifier_from_journal (coordinator/programs/coordinator/src/    *)
(* journal_decode.rs): a cursor walks the risc0-serde words of a journal   *)
(* that anyone may have stored, one action per field it reads, one action  *)
(* per ciphertext it skips.  Coordinator.tla takes the result as Decode.   *)
(*                                                                         *)
(* A journal is its whole little-endian words and the number of bytes left *)
(* over behind them.  Word positions count from 0, as in the code.         *)
(***************************************************************************)
EXTENDS Integers, Sequences

CONSTANTS
    Journal,    \* the journals given to the decoder
    FieldLen,   \* bytes of a Nullifier, Commitment or CommitmentSetDigest: 32
    WordMax,    \* u32::MAX
    ByteMax,    \* u8::MAX
    UsizeMax,   \* usize::MAX
    MaxIndex    \* the largest entry_index, a u8

Index == 0 .. MaxIndex
NumWords(j) == Len(j.words)

\* A slice's length in bytes fits usize, and there is room behind it for what
\* the largest entry_index can add: true of every journal a Solana account can
\* hold, on 32-bit targets too.
ASSUME WidthAssumption ==
    /\ FieldLen \in Nat \ {0} /\ WordMax \in Nat \ {0} /\ ByteMax \in Nat
    /\ UsizeMax \in Nat /\ MaxIndex \in Nat
    /\ MaxIndex <= WordMax
    /\ \A j \in Journal :
         /\ j.words \in Seq(0 .. WordMax)
         /\ j.odd \in 0 .. 3
         /\ Len(j.words) + 2 * FieldLen * (MaxIndex + 1) <= UsizeMax

Errors == {"JournalTooShort", "NotWordAligned", "UnsupportedShape",
           "NullifierIndexOutOfRange", "InvalidByteWord"}
Fields == {"start", "pre_states", "post_states", "ciphertexts", "ciphertext",
           "commitments", "nullifiers", "entry"}

VARIABLES
    journal,     \* the argument: bytes
    entryIndex,  \* the argument: u8
    pc,          \* the field read next, "ok", or the error returned
    word,        \* the cursor
    left,        \* ciphertexts still to be skipped
    nullifier    \* the result once pc is "ok"

vars == <<journal, entryIndex, pc, word, left, nullifier>>

TypeOK ==
    /\ journal \in Journal
    /\ entryIndex \in Index
    /\ pc \in Fields \union {"ok"} \union Errors
    /\ word \in 0 .. UsizeMax
    /\ left \in 0 .. WordMax
    /\ nullifier \in Seq(0 .. ByteMax)

Init ==
    /\ journal \in Journal
    /\ entryIndex \in Index
    /\ pc = "start" /\ word = 0 /\ left = 0 /\ nullifier = <<>>

-----------------------------------------------------------------------------
\* Mutant: the bound lets the word behind the journal through, read as zero.
MutReadable(i) == i <= NumWords(journal)

\* read_word(journal, i) succeeds exactly on the whole words of the journal: a
\* product or sum that overflows is past the end as well.
Readable(i) == i < NumWords(journal)
WordAt(i) == IF i < NumWords(journal) THEN journal.words[i + 1] ELSE 0

Return(result) ==
    /\ pc' = result
    /\ UNCHANGED <<journal, entryIndex, word, left, nullifier>>

\* The cursor moves to position p, a checked sum, and the walk goes on there.
Advance(p, field) ==
    /\ word' = p
    /\ pc' = field
    /\ UNCHANGED <<journal, entryIndex, nullifier>>

TooShort == ~Readable(word) /\ Return("JournalTooShort")

Start ==
    /\ pc = "start"
    /\ \/ journal.odd # 0 /\ Return("NotWordAligned")
       \/ journal.odd = 0 /\ NumWords(journal) = 0 /\ Return("JournalTooShort")
       \/ journal.odd = 0 /\ NumWords(journal) > 0 /\ Return("pre_states")

\* public_pre_states and public_post_states must be empty.
ReadEmpty(field, next) ==
    /\ pc = field
    /\ \/ TooShort
       \/ Readable(word) /\ WordAt(word) # 0 /\ Return("UnsupportedShape")
       \/ /\ Readable(word) /\ WordAt(word) = 0
          /\ Advance(word + 1, next) /\ UNCHANGED left

ReadCiphertextCount ==
    /\ pc = "ciphertexts"
    /\ \/ TooShort
       \/ /\ Readable(word)
          /\ left' = WordAt(word)
          /\ Advance(word + 1, "ciphertext")

\* Mutant: an empty ciphertext ends the pass before the cursor moves.
MutSkipCiphertext ==
    /\ pc = "ciphertext"
    /\ left > 0
    /\ \/ TooShort
       \/ /\ Readable(word)
          /\ word + 1 + WordAt(word) <= UsizeMax
          /\ IF WordAt(word) = 0
             THEN UNCHANGED vars
             ELSE /\ Advance(word + 1 + WordAt(word), "ciphertext")
                  /\ left' = left - 1

\* Mutant: the lengths are only checked when the cursor has left the loop.
MutWorkSkipCiphertext ==
    /\ pc = "ciphertext"
    /\ left > 0
    /\ word + 1 + WordAt(word) <= UsizeMax
    /\ Advance(word + 1 + WordAt(word), "ciphertext")
    /\ left' = left - 1

\* One pass of the loop.  The bytes skipped are not looked at: only the next
\* read notices that the cursor has left the journal.
SkipCiphertext ==
    /\ pc = "ciphertext"
    /\ left > 0
    /\ \/ TooShort
       \/ /\ Readable(word)
          /\ word + 1 + WordAt(word) > UsizeMax
          /\ Return("JournalTooShort")
       \/ /\ Readable(word)
          /\ word + 1 + WordAt(word) <= UsizeMax
          /\ Advance(word + 1 + WordAt(word), "ciphertext")
          /\ left' = left - 1

EndCiphertexts ==
    /\ pc = "ciphertext"
    /\ left = 0
    /\ Return("commitments")

\* Mutant: the sum is not checked.
MutSkipCommitments ==
    /\ pc = "commitments"
    /\ \/ TooShort
       \/ /\ Readable(word)
          /\ Advance(word + 1 + WordAt(word) * FieldLen, "nullifiers")
          /\ UNCHANGED left

SkipCommitments ==
    /\ pc = "commitments"
    /\ \/ TooShort
       \/ /\ Readable(word)
          /\ word + 1 + WordAt(word) * FieldLen > UsizeMax
          /\ Return("JournalTooShort")
       \/ /\ Readable(word)
          /\ word + 1 + WordAt(word) * FieldLen <= UsizeMax
          /\ Advance(word + 1 + WordAt(word) * FieldLen, "nullifiers")
          /\ UNCHANGED left

\* Mutant: an entry is taken for a bare Nullifier.
MutEntryOffset(base) == base + entryIndex * FieldLen

\* An entry is a Nullifier and a CommitmentSetDigest.  Its checked sum cannot
\* fail, unlike the two above: TypeOK holds without a case for it.
EntryOffset(base) == base + entryIndex * (2 * FieldLen)

\* Mutant: the entry's place is found from the count the journal claims.
MutFindEntry ==
    /\ pc = "nullifiers"
    /\ \/ TooShort
       \/ Readable(word) /\ Advance(word + 1 + WordAt(word), "entry") /\ UNCHANGED left

FindEntry ==
    /\ pc = "nullifiers"
    /\ \/ TooShort
       \/ /\ Readable(word) /\ ~(entryIndex < WordAt(word))
          /\ Return("NullifierIndexOutOfRange")
       \/ /\ Readable(word) /\ entryIndex < WordAt(word)
          /\ Advance(EntryOffset(word + 1), "entry")
          /\ UNCHANGED left

\* Mutant: 0xFF is taken for no byte.
MutIsByteAt(i) == Readable(i) /\ WordAt(i) < ByteMax

\* read_bytes32: the first of the words that cannot be read, or is no byte,
\* decides the error.
IsByteAt(i) == Readable(i) /\ WordAt(i) <= ByteMax

ReadEntry ==
    /\ pc = "entry"
    /\ \/ /\ \A k \in 0 .. FieldLen - 1 : IsByteAt(word + k)
          /\ nullifier' = [k \in 1 .. FieldLen |-> WordAt(word + k - 1)]
          /\ pc' = "ok"
          /\ UNCHANGED <<journal, entryIndex, word, left>>
       \/ \E k \in 0 .. FieldLen - 1 :
            /\ ~IsByteAt(word + k)
            /\ \A h \in 0 .. k - 1 : IsByteAt(word + h)
            /\ Return(IF Readable(word + k) THEN "InvalidByteWord"
                                            ELSE "JournalTooShort")

Next ==
    \/ Start
    \/ ReadEmpty("pre_states", "post_states")
    \/ ReadEmpty("post_states", "ciphertexts")
    \/ ReadCiphertextCount
    \/ SkipCiphertext
    \/ EndCiphertexts
    \/ SkipCommitments
    \/ FindEntry
    \/ ReadEntry

Spec == Init /\ [][Next]_vars /\ WF_vars(Next)
-----------------------------------------------------------------------------
(***************************************************************************)
(* Properties                                                              *)
(***************************************************************************)
Done == pc = "ok" \/ pc \in Errors

\* The unchecked additions `i + k` of read_bytes32 cannot overflow, however large
\* the counts that have moved the cursor: the reads before confine it.  (The
\* unchecked `word += 1` each follow a read at the very word, so it is below the
\* journal's length; TypeOK says that no cursor leaves usize.)
NoUncheckedOverflow ==
    pc = "entry" => word + FieldLen <= UsizeMax

\* The loop is paid for by the journal: it never makes more passes than the
\* journal has words, though ciphertext_count is a free u32 (a program on Solana
\* that loops 2^32 times runs out of compute).
WorkBounded ==
    pc = "ciphertext" => WordAt(2) - left <= NumWords(journal)

\* The result is what the journal holds at word position pos.
HoldsAt(pos) ==
    /\ pos + FieldLen <= NumWords(journal)
    /\ \A k \in 1 .. FieldLen : nullifier[k] = WordAt(pos + k - 1)

\* A result is never read from a misplaced cursor, out of a shape the walker
\* does not support, or from behind the journal: whenever the walk succeeds, the
\* journal has a layout in which the result is entry entryIndex of the
\* new_nullifiers that the journal announces (journal_decode.rs:8-14).
AcceptedHasLayout ==
    pc = "ok" =>
      /\ journal.odd = 0
      /\ WordAt(0) = 0 /\ WordAt(1) = 0
      /\ \E starts \in [0 .. WordAt(2) -> 3 .. NumWords(journal) - 1] :
           /\ starts[0] = 3
           /\ \A i \in 1 .. WordAt(2) :
                starts[i] = starts[i - 1] + 1 + WordAt(starts[i - 1])
           /\ LET commitments == starts[WordAt(2)]
                  nullifiers  == commitments + 1 + WordAt(commitments) * FieldLen
              IN /\ entryIndex < WordAt(nullifiers)
                 /\ HoldsAt(nullifiers + 1 + entryIndex * 2 * FieldLen)

\* Where ciphertext i + 1 begins and, behind the last one, the commitments, if
\* the lengths in the journal are taken at their word.
Starts[i \in 0 .. WordAt(2)] ==
    IF i = 0 THEN 3 ELSE LET before == Starts[i - 1] IN before + 1 + WordAt(before)

\* The lengths lead to an entry at the index, and it is one.
HasEntry ==
    LET commitments == Starts[WordAt(2)]
        nullifiers  == commitments + 1 + WordAt(commitments) * FieldLen
        entry       == nullifiers + 1 + entryIndex * (2 * FieldLen)
    IN /\ journal.odd = 0 /\ WordAt(0) = 0 /\ WordAt(1) = 0
       /\ entryIndex < WordAt(nullifiers)
       /\ entry + FieldLen <= NumWords(journal)
       /\ \A k \in 0 .. FieldLen - 1 : WordAt(entry + k) <= ByteMax

\* No error, and no sum that leaves usize, stands between a caller and an entry
\* that is there: a nullifier that a proof committed to can always be spent.
RejectedHasNoEntry == pc \in Errors => ~HasEntry

\* Every walk returns, whatever the journal.
Termination == <>Done
=============================================================================
