------------------------ MODULE JournalDecodeProofs ------------------------
(***************************************************************************)
(* Proofs about the journal walker, for every set of journals, every index *)
(* and every width that satisfies WidthAssumption, the code's among them.  *)
(***************************************************************************)
EXTENDS JournalEncoding, SumTheorems, SequenceTheorems

\* How far behind the first entry the entry at the index, and the last entry an
\* index can name, begin; and how long an entry is.
Skip == entryIndex * (2 * FieldLen)
Room == MaxIndex * (2 * FieldLen)
EntryLen == 2 * FieldLen

\* Where the cursor stands before each field, and how far the loop has come:
\* its passes number WordAt(2) - left, each of them moved the cursor by a word
\* at least, and each of them began inside the journal.
Position ==
    /\ pc \in {"start", "pre_states"} => word = 0
    /\ pc = "post_states" => word = 1
    /\ pc = "ciphertexts" => word = 2
    /\ pc = "ciphertext" =>
         /\ 2 < NumWords(journal)
         /\ left <= WordAt(2)
         /\ WordAt(2) - left + 3 <= word
         /\ WordAt(2) - left + 3 <= NumWords(journal)
    /\ pc = "entry" => word <= NumWords(journal) + Room

Inv == TypeOK /\ Position

\* The widths alone.
LEMMA Widths ==
    /\ FieldLen \in Nat \ {0} /\ WordMax \in Nat \ {0} /\ ByteMax \in Nat
    /\ UsizeMax \in Nat /\ MaxIndex \in Nat /\ MaxIndex <= WordMax
  BY WidthAssumption

\* Multiplication by a stride is monotonic.
LEMMA Stride ==
    ASSUME NEW a \in Nat, NEW b \in Nat, NEW c \in Nat, a <= b
    PROVE  a * c \in Nat /\ b * c \in Nat /\ a * c <= b * c
<1>1. /\ \A x, y \in Nat : x * y \in Nat
      /\ (a + (b - a)) * c = a * c + (b - a) * c
  OBVIOUS
<1>2. b - a \in Nat /\ a + (b - a) = b
  OBVIOUS
<1> QED
  BY <1>1, <1>2

\* Every word read is a u32, and the journal's length leaves room for an entry.
LEMMA JournalFacts ==
    ASSUME TypeOK
    PROVE  /\ NumWords(journal) \in Nat
           /\ NumWords(journal) + Room + EntryLen <= UsizeMax
           /\ \A i \in Nat : WordAt(i) \in 0 .. WordMax
           /\ Skip \in Nat /\ Room \in Nat /\ Skip <= Room
           /\ EntryLen \in Nat /\ FieldLen <= EntryLen
<1>1. /\ journal.words \in Seq(0 .. WordMax)
      /\ Len(journal.words) + 2 * FieldLen * (MaxIndex + 1) <= UsizeMax
  BY WidthAssumption DEF TypeOK
<1>2. NumWords(journal) \in Nat
  BY <1>1 DEF NumWords
<1>3. 2 * FieldLen * (MaxIndex + 1) = Room + EntryLen
  BY WidthAssumption DEF Room, EntryLen
<1>4. \A i \in Nat : WordAt(i) \in 0 .. WordMax
  BY <1>1, WidthAssumption DEF WordAt, NumWords
<1>5. /\ entryIndex \in Nat /\ MaxIndex \in Nat /\ entryIndex <= MaxIndex
      /\ EntryLen \in Nat /\ FieldLen <= EntryLen
  BY WidthAssumption DEF TypeOK, Index, EntryLen
<1>6. Skip \in Nat /\ Room \in Nat /\ Skip <= Room
  BY <1>5, Stride DEF Skip, Room, EntryLen
<1>7. NumWords(journal) + (Room + EntryLen) <= UsizeMax
  BY <1>1, <1>3 DEF NumWords
<1>8. NumWords(journal) + Room + EntryLen <= UsizeMax
  BY <1>2, <1>5, <1>6, <1>7, Widths
<1> QED
  BY <1>2, <1>4, <1>5, <1>6, <1>8

\* A return changes the outcome only.
LEMMA ReturnInv ==
    ASSUME Inv, NEW r \in {"pre_states", "ok"} \union Errors, Return(r),
           r = "pre_states" => word = 0
    PROVE  Inv'
  BY DEF Inv, TypeOK, Position, Return, Errors, Fields
\* No field is read from a misplaced cursor, and no sum leaves usize.
LEMMA StepInv == Inv /\ [Next]_vars => Inv'
<1> SUFFICES ASSUME Inv, [Next]_vars PROVE Inv'
  OBVIOUS
<1> USE Widths DEF Inv
<1>0. /\ NumWords(journal) \in Nat
      /\ NumWords(journal) + Room + EntryLen <= UsizeMax
      /\ \A i \in Nat : WordAt(i) \in 0 .. WordMax
      /\ Skip \in Nat /\ Room \in Nat /\ Skip <= Room
      /\ EntryLen \in Nat /\ FieldLen <= EntryLen
  BY JournalFacts
<1>w. word \in Nat /\ WordAt(word) \in 0 .. WordMax
  <2>1. word \in Nat
    BY DEF TypeOK
  <2> QED
    BY <1>0, <2>1
<1>s. TooShort => Inv'
  BY ReturnInv DEF TooShort, Errors
<1>1. CASE Start
  BY <1>1, ReturnInv DEF Start, Errors, Position
<1>2. CASE ReadEmpty("pre_states", "post_states")
  <2>1. CASE Readable(word) /\ WordAt(word) # 0 /\ Return("UnsupportedShape")
    BY <2>1, ReturnInv DEF Errors
  <2>2. CASE Readable(word) /\ Advance(word + 1, "post_states") /\ UNCHANGED left
    BY <1>0, <1>2, <2>2 DEF ReadEmpty, Readable, Advance, TypeOK, Position, Fields
  <2> QED
    BY <1>2, <1>s, <2>1, <2>2 DEF ReadEmpty
<1>3. CASE ReadEmpty("post_states", "ciphertexts")
  <2>1. CASE Readable(word) /\ WordAt(word) # 0 /\ Return("UnsupportedShape")
    BY <2>1, ReturnInv DEF Errors
  <2>2. CASE Readable(word) /\ Advance(word + 1, "ciphertexts") /\ UNCHANGED left
    BY <1>0, <1>3, <2>2 DEF ReadEmpty, Readable, Advance, TypeOK, Position, Fields
  <2> QED
    BY <1>3, <1>s, <2>1, <2>2 DEF ReadEmpty
<1>4. CASE ReadCiphertextCount
  <2>1. CASE /\ Readable(word) /\ left' = WordAt(word)
             /\ Advance(word + 1, "ciphertext")
    <3>1. word = 2
      BY <1>4 DEF ReadCiphertextCount, Position
    <3>2. WordAt(2)' = WordAt(2) /\ NumWords(journal)' = NumWords(journal)
      BY <2>1 DEF Advance, WordAt, NumWords
    <3>3. /\ word' = 3 /\ left' = WordAt(2) /\ 2 < NumWords(journal)
          /\ WordAt(2) \in 0 .. WordMax /\ 3 \in 0 .. UsizeMax
      BY <1>0, <1>w, <2>1, <3>1 DEF Readable, Advance
    <3>4. TypeOK'
      BY <2>1, <3>3 DEF Advance, TypeOK, Fields
    <3>5. Position'
      BY <1>0, <2>1, <3>2, <3>3 DEF Advance, Position
    <3> QED
      BY <3>4, <3>5
  <2> QED
    BY <1>4, <1>s, <2>1 DEF ReadCiphertextCount
<1>5. CASE SkipCiphertext
  <2>1. CASE /\ Readable(word)
             /\ word + 1 + WordAt(word) <= UsizeMax
             /\ Advance(word + 1 + WordAt(word), "ciphertext")
             /\ left' = left - 1
    <3>1. WordAt(2)' = WordAt(2) /\ NumWords(journal)' = NumWords(journal)
      BY <2>1 DEF Advance, WordAt, NumWords
    <3>2. /\ 2 < NumWords(journal) /\ left <= WordAt(2)
          /\ WordAt(2) - left + 3 <= word /\ left > 0
          /\ WordAt(2) \in 0 .. WordMax /\ left \in 0 .. WordMax
      BY <1>0, <1>5 DEF SkipCiphertext, Position, TypeOK
    <3>3. /\ word < NumWords(journal)
          /\ word' \in 0 .. UsizeMax /\ word' >= word + 1
          /\ left' \in 0 .. WordMax /\ left' = left - 1
      BY <1>0, <1>w, <2>1, <3>2 DEF Readable, Advance
    <3>4. TypeOK'
      BY <2>1, <3>3 DEF Advance, TypeOK, Fields
    <3>5. /\ WordAt(2) - left' + 3 <= word'
          /\ WordAt(2) - left' + 3 <= NumWords(journal)
          /\ left' <= WordAt(2)
      BY <1>0, <1>w, <3>2, <3>3
    <3>6. Position'
      BY <2>1, <3>1, <3>2, <3>5 DEF Advance, Position
    <3> QED
      BY <3>4, <3>6
  <2>2. CASE Return("JournalTooShort")
    BY <2>2, ReturnInv DEF Errors
  <2> QED
    BY <1>5, <1>s, <2>1, <2>2 DEF SkipCiphertext
<1>6. CASE EndCiphertexts
  BY <1>6 DEF EndCiphertexts, Return, TypeOK, Position, Fields, Errors
<1>7. CASE SkipCommitments
  <2>1. CASE /\ Readable(word)
             /\ word + 1 + WordAt(word) * FieldLen <= UsizeMax
             /\ Advance(word + 1 + WordAt(word) * FieldLen, "nullifiers")
             /\ UNCHANGED left
    <3>1. WordAt(word) * FieldLen \in Nat
      BY <1>w, Stride
    <3> DEFINE p == WordAt(word) * FieldLen
    <3>2. word + 1 + p \in 0 .. UsizeMax
      BY <1>w, <2>1, <3>1
    <3> HIDE DEF p
    <3> QED
      BY <2>1, <3>2 DEF Advance, TypeOK, Position, Fields, p
  <2>2. CASE Return("JournalTooShort")
    BY <2>2, ReturnInv DEF Errors
  <2> QED
    BY <1>7, <1>s, <2>1, <2>2 DEF SkipCommitments
<1>8. CASE FindEntry
  <2>1. CASE /\ Readable(word)
             /\ Advance(EntryOffset(word + 1), "entry")
             /\ UNCHANGED left
    <3>1. NumWords(journal)' = NumWords(journal)
      BY <2>1 DEF Advance, NumWords
    <3>2. EntryOffset(word + 1) = word + 1 + Skip
      BY DEF EntryOffset, Skip
    <3>3. word + 1 <= NumWords(journal)
      BY <1>0, <1>w, <2>1 DEF Readable
    <3>4. /\ word + 1 + Skip \in 0 .. UsizeMax
          /\ word + 1 + Skip <= NumWords(journal) + Room
      BY <1>0, <1>w, <3>3
    <3>5. word' \in 0 .. UsizeMax /\ word' <= NumWords(journal) + Room
      BY <2>1, <3>2, <3>4 DEF Advance
    <3>6. /\ pc' = "entry" /\ Room' = Room
          /\ UNCHANGED <<journal, entryIndex, left, nullifier>>
      BY <2>1 DEF Advance, Room
    <3> QED
      BY <3>1, <3>5, <3>6 DEF TypeOK, Position, Fields
  <2>2. CASE Return("NullifierIndexOutOfRange")
    BY <2>2, ReturnInv DEF Errors
  <2> QED
    BY <1>8, <1>s, <2>1, <2>2 DEF FindEntry
<1>9. CASE ReadEntry
  <2>1. CASE /\ \A k \in 0 .. FieldLen - 1 : IsByteAt(word + k)
             /\ nullifier' = [k \in 1 .. FieldLen |-> WordAt(word + k - 1)]
             /\ pc' = "ok"
             /\ UNCHANGED <<journal, entryIndex, word, left>>
    <3>1. \A k \in 1 .. FieldLen : WordAt(word + k - 1) \in 0 .. ByteMax
      <4> SUFFICES ASSUME NEW k \in 1 .. FieldLen
                   PROVE  WordAt(word + k - 1) \in 0 .. ByteMax
        OBVIOUS
      <4>1. k - 1 \in 0 .. FieldLen - 1 /\ word + (k - 1) = word + k - 1
        BY <1>w
      <4>2. word + k - 1 \in Nat
        BY <1>w
      <4> QED
        BY <1>0, <2>1, <4>1, <4>2 DEF IsByteAt
    <3>2. nullifier' \in Seq(0 .. ByteMax)
      BY <2>1, <3>1
    <3> QED
      BY <2>1, <3>2 DEF TypeOK, Position, Errors, Fields
  <2>2. ASSUME NEW k \in 0 .. FieldLen - 1,
               Return(IF Readable(word + k) THEN "InvalidByteWord"
                                            ELSE "JournalTooShort")
        PROVE  Inv'
    BY <2>2, ReturnInv DEF Errors
  <2> QED
    BY <1>9, <2>1, <2>2 DEF ReadEntry
<1>10. CASE UNCHANGED vars
  BY <1>10 DEF vars, TypeOK, Position, NumWords, WordAt
<1> QED
  BY <1>1, <1>2, <1>3, <1>4, <1>5, <1>6, <1>7, <1>8, <1>9, <1>10 DEF Next
\* The walk starts at the first word.
LEMMA InitInv == Init => Inv
  BY Widths DEF Init, Inv, TypeOK, Position, Fields

\* Every reachable state of a walk over any journal is well placed.
THEOREM Placed == Spec => []Inv
  BY InitInv, StepInv, PTL DEF Spec

\* The cursor never exceeds usize: in particular the checked sum that finds the
\* entry (journal_decode.rs:121) cannot fail.
THEOREM TypeCorrect == Spec => []TypeOK
<1>1. Inv => TypeOK
  BY DEF Inv
<1> QED
  BY <1>1, Placed, PTL

\* The unchecked additions of read_bytes32 (journal_decode.rs:63) cannot
\* overflow.
THEOREM NoOverflow == Spec => []NoUncheckedOverflow
<1>1. Inv => NoUncheckedOverflow
  <2> SUFFICES ASSUME Inv, pc = "entry" PROVE word + FieldLen <= UsizeMax
    BY DEF NoUncheckedOverflow
  <2>1. /\ NumWords(journal) \in Nat
        /\ NumWords(journal) + Room + EntryLen <= UsizeMax
        /\ Room \in Nat /\ EntryLen \in Nat /\ FieldLen <= EntryLen
    BY JournalFacts DEF Inv
  <2>2. word \in Nat /\ word <= NumWords(journal) + Room
    BY DEF Inv, TypeOK, Position
  <2> QED
    BY <2>1, <2>2, Widths
<1> QED
  BY <1>1, Placed, PTL

\* However many ciphertexts a journal announces, the loop over them makes no
\* more passes than the journal has words (journal_decode.rs:94).
THEOREM LoopBound == Spec => []WorkBounded
<1>1. Inv => WorkBounded
  <2> SUFFICES ASSUME Inv, pc = "ciphertext"
               PROVE  WordAt(2) - left <= NumWords(journal)
    BY DEF WorkBounded
  <2>1. /\ NumWords(journal) \in Nat
        /\ WordAt(2) \in 0 .. WordMax /\ left \in 0 .. WordMax
    BY JournalFacts DEF Inv, TypeOK
  <2>2. WordAt(2) - left + 3 <= NumWords(journal)
    BY DEF Inv, Position
  <2> QED
    BY <2>1, <2>2, Widths
<1> QED
  BY <1>1, Placed, PTL

-----------------------------------------------------------------------------
\* Position p is where the walk stands after n ciphertexts: they began inside
\* the journal, each one where the one before it ended.
Chain(n, p) ==
    \E starts \in [0 .. n -> Nat \ 0 .. 2] :
        /\ starts[0] = 3 /\ starts[n] = p
        /\ \A i \in 1 .. n :
             /\ starts[i - 1] < NumWords(journal)
             /\ starts[i] = starts[i - 1] + 1 + WordAt(starts[i - 1])

\* Position q is that of the number of nullifiers.
NullifiersAt(q) ==
    \E c \in Nat : /\ Chain(WordAt(2), c) /\ c < NumWords(journal)
                   /\ q = c + 1 + WordAt(c) * FieldLen

\* What the fields read so far say about the journal; an error says nothing.
Layout ==
    /\ pc \notin {"start"} \union Errors => journal.odd = 0
    /\ pc \notin {"start", "pre_states"} \union Errors => WordAt(0) = 0
    /\ pc \notin {"start", "pre_states", "post_states"} \union Errors =>
         WordAt(1) = 0
    /\ pc = "ciphertext" => Chain(WordAt(2) - left, word)
    /\ pc = "commitments" => Chain(WordAt(2), word)
    /\ pc = "nullifiers" => NullifiersAt(word)
    /\ pc \in {"entry", "ok"} =>
         \E q \in Nat : /\ NullifiersAt(q) /\ entryIndex < WordAt(q)
                        /\ word = EntryOffset(q + 1)
    /\ pc = "ok" => HoldsAt(word)

\* One more ciphertext that begins inside the journal.
LEMMA ChainGrows ==
    ASSUME TypeOK, NEW n \in Nat, NEW p \in Nat, Chain(n, p), p < NumWords(journal)
    PROVE  Chain(n + 1, p + 1 + WordAt(p))
<1>1. PICK starts \in [0 .. n -> Nat \ 0 .. 2] :
        /\ starts[0] = 3 /\ starts[n] = p
        /\ \A i \in 1 .. n :
             /\ starts[i - 1] < NumWords(journal)
             /\ starts[i] = starts[i - 1] + 1 + WordAt(starts[i - 1])
  BY DEF Chain
<1>2. n \in 0 .. n /\ p \in Nat \ 0 .. 2 /\ WordAt(p) \in Nat
  <2>1. WordAt(p) \in 0 .. WordMax
    BY JournalFacts
  <2> QED
    BY <1>1, <2>1, Widths
<1> DEFINE q == p + 1 + WordAt(p)
           more == [i \in 0 .. n + 1 |-> IF i = n + 1 THEN q ELSE starts[i]]
<1>3. q \in Nat \ 0 .. 2
  BY <1>2
<1> HIDE DEF q
<1>4. more \in [0 .. n + 1 -> Nat \ 0 .. 2]
  BY <1>1, <1>3
<1>5. /\ more[n + 1] = q
      /\ \A i \in 0 .. n : more[i] = starts[i]
  OBVIOUS
<1> HIDE DEF more
<1>6. more[0] = 3 /\ more[n] = p
  BY <1>1, <1>2, <1>5
<1>7. ASSUME NEW i \in 1 .. n + 1
      PROVE  /\ more[i - 1] < NumWords(journal)
             /\ more[i] = more[i - 1] + 1 + WordAt(more[i - 1])
  <2>1. CASE i = n + 1
    <3>1. i - 1 = n
      BY <2>1
    <3> QED
      BY <1>5, <1>6, <2>1, <3>1 DEF q
  <2>2. CASE i # n + 1
    <3>1. i \in 1 .. n /\ i \in 0 .. n /\ i - 1 \in 0 .. n
      BY <2>2
    <3>2. more[i] = starts[i] /\ more[i - 1] = starts[i - 1]
      BY <1>5, <3>1
    <3> QED
      BY <1>1, <3>1, <3>2
  <2> QED
    BY <2>1, <2>2
<1>8. Chain(n + 1, q)
  BY <1>4, <1>5, <1>6, <1>7 DEF Chain
<1> QED
  BY <1>8 DEF q

\* The first ciphertext begins behind the three counts.
LEMMA ChainBegins == Chain(0, 3)
<1> DEFINE starts == [i \in 0 .. 0 |-> 3]
<1>1. starts \in [0 .. 0 -> Nat \ 0 .. 2] /\ starts[0] = 3
  OBVIOUS
<1> HIDE DEF starts
<1> QED
  BY <1>1 DEF Chain

\* An error ends the walk and claims nothing.
LEMMA ErrorLayout ==
    ASSUME NEW r \in Errors, Return(r)
    PROVE  Layout'
<1>1. pc' \in Errors
  BY DEF Return
<1> QED
  BY <1>1 DEF Layout, Errors

\* No step changes what the walk was given.
LEMMA ArgumentsStay == [Next]_vars => UNCHANGED <<journal, entryIndex>>
  BY DEF Next, vars, Start, ReadEmpty, ReadCiphertextCount, SkipCiphertext,
     EndCiphertexts, SkipCommitments, FindEntry, ReadEntry, TooShort, Return, Advance

\* Every field that is read adds to the layout what it says.
LEMMA LayoutStep == Inv /\ Layout /\ [Next]_vars => Layout'
<1> SUFFICES ASSUME Inv, Layout, [Next]_vars PROVE Layout'
  OBVIOUS
<1>0. /\ TypeOK /\ Position /\ word \in Nat /\ left \in Nat
      /\ WordAt(2) \in Nat /\ WordAt(word) \in Nat
  <2>1. TypeOK /\ Position /\ word \in Nat /\ left \in Nat
    BY Widths DEF Inv, TypeOK
  <2>2. WordAt(2) \in 0 .. WordMax /\ WordAt(word) \in 0 .. WordMax
    BY <2>1, JournalFacts
  <2> QED
    BY <2>1, <2>2, Widths
<1>w. /\ UNCHANGED <<journal, entryIndex>>
      /\ \A i : WordAt(i)' = WordAt(i)
      /\ NumWords(journal)' = NumWords(journal)
  <2>1. UNCHANGED <<journal, entryIndex>>
    BY ArgumentsStay
  <2> QED
    BY <2>1 DEF WordAt, NumWords
<1>c. /\ \A n, p : Chain(n, p)' <=> Chain(n, p)
      /\ \A q : NullifiersAt(q)' <=> NullifiersAt(q)
      /\ \A p : UNCHANGED nullifier => (HoldsAt(p)' <=> HoldsAt(p))
      /\ \A p : EntryOffset(p)' = EntryOffset(p)
  BY <1>w DEF Chain, NullifiersAt, HoldsAt, EntryOffset
<1>s. ASSUME TooShort PROVE Layout'
  BY <1>s, ErrorLayout DEF TooShort, Errors
<1> USE DEF Errors
<1>1. CASE Start
  <2>1. CASE Return("pre_states")
    <3>1. journal.odd = 0 /\ pc' = "pre_states"
      BY <1>1, <2>1 DEF Start, Return
    <3> QED
      BY <1>w, <3>1 DEF Layout
  <2> QED
    BY <1>1, <2>1, ErrorLayout DEF Start
<1>2. CASE ReadEmpty("pre_states", "post_states")
  <2>1. CASE WordAt(word) = 0 /\ pc' = "post_states"
    <3>1. pc = "pre_states" /\ word = 0
      BY <1>0, <1>2 DEF ReadEmpty, Position
    <3> QED
      BY <1>w, <2>1, <3>1 DEF Layout
  <2> QED
    BY <1>2, <1>s, <2>1, ErrorLayout DEF ReadEmpty, Advance
<1>3. CASE ReadEmpty("post_states", "ciphertexts")
  <2>1. CASE WordAt(word) = 0 /\ pc' = "ciphertexts"
    <3>1. pc = "post_states" /\ word = 1
      BY <1>0, <1>3 DEF ReadEmpty, Position
    <3> QED
      BY <1>w, <2>1, <3>1 DEF Layout
  <2> QED
    BY <1>3, <1>s, <2>1, ErrorLayout DEF ReadEmpty, Advance
<1>4. CASE ReadCiphertextCount
  <2>1. CASE left' = WordAt(word) /\ word' = word + 1 /\ pc' = "ciphertext"
    <3>1. pc = "ciphertexts" /\ word = 2
      BY <1>0, <1>4 DEF ReadCiphertextCount, Position
    <3>2. WordAt(2)' - left' = 0 /\ word' = 3
      BY <1>0, <1>w, <2>1, <3>1
    <3>3. Chain(WordAt(2)' - left', word')
      BY <3>2, ChainBegins
    <3>4. Chain(WordAt(2) - left, word)'
      BY <1>w, <3>3 DEF Chain
    <3> QED
      BY <1>w, <2>1, <3>1, <3>4 DEF Layout
  <2> QED
    BY <1>4, <1>s, <2>1 DEF ReadCiphertextCount, Advance
<1>5. CASE SkipCiphertext
  <2>1. CASE /\ Readable(word) /\ left' = left - 1 /\ pc' = "ciphertext"
             /\ word' = word + 1 + WordAt(word)
    <3>1. /\ pc = "ciphertext" /\ left <= WordAt(2) /\ word < NumWords(journal)
          /\ Chain(WordAt(2) - left, word)
      BY <1>0, <1>5, <2>1 DEF SkipCiphertext, Position, Readable, Layout
    <3>2. WordAt(2) - left \in Nat
      BY <1>0, <3>1
    <3>3. Chain(WordAt(2) - left + 1, word')
      BY <1>0, <2>1, <3>1, <3>2, ChainGrows
    <3>4. WordAt(2)' - left' = WordAt(2) - left + 1
      BY <1>0, <1>w, <2>1
    <3>5. Chain(WordAt(2) - left, word)'
      BY <1>w, <3>3, <3>4 DEF Chain
    <3> QED
      BY <1>w, <2>1, <3>1, <3>5 DEF Layout
  <2> QED
    BY <1>5, <1>s, <2>1, ErrorLayout DEF SkipCiphertext, Advance
<1>6. CASE EndCiphertexts
  <2>1. /\ pc = "ciphertext" /\ pc' = "commitments" /\ word' = word
        /\ WordAt(2) - left = WordAt(2)
    BY <1>0, <1>6 DEF EndCiphertexts, Return
  <2>2. Chain(WordAt(2), word)
    BY <2>1 DEF Layout
  <2>3. Chain(WordAt(2), word)'
    BY <1>w, <2>1, <2>2 DEF Chain
  <2> QED
    BY <1>w, <2>1, <2>3 DEF Layout
<1>7. CASE SkipCommitments
  <2>1. CASE /\ Readable(word) /\ pc' = "nullifiers"
             /\ word' = word + 1 + WordAt(word) * FieldLen
    <3>1. pc = "commitments" /\ word < NumWords(journal) /\ Chain(WordAt(2), word)
      BY <1>7, <2>1 DEF SkipCommitments, Readable, Layout
    <3>2. NullifiersAt(word')
      BY <1>0, <2>1, <3>1 DEF NullifiersAt
    <3>3. NullifiersAt(word)'
      BY <1>w, <3>2 DEF NullifiersAt, Chain
    <3> QED
      BY <1>w, <2>1, <3>1, <3>3 DEF Layout
  <2> QED
    BY <1>7, <1>s, <2>1, ErrorLayout DEF SkipCommitments, Advance
<1>8. CASE FindEntry
  <2>1. CASE /\ entryIndex < WordAt(word) /\ pc' = "entry"
             /\ word' = EntryOffset(word + 1)
    <3>1. pc = "nullifiers" /\ NullifiersAt(word)
      BY <1>8 DEF FindEntry, Layout
    <3>2. PICK q \in Nat : q = word
      BY <1>0
    <3>3. /\ NullifiersAt(q)' /\ entryIndex' < WordAt(q)'
          /\ word' = EntryOffset(q + 1)'
      BY <1>w, <1>c, <2>1, <3>1, <3>2
    <3> QED
      BY <1>w, <2>1, <3>1, <3>3 DEF Layout
  <2> QED
    BY <1>8, <1>s, <2>1, ErrorLayout DEF FindEntry, Advance
<1>9. CASE ReadEntry
  <2>1. CASE /\ \A k \in 0 .. FieldLen - 1 : IsByteAt(word + k)
             /\ nullifier' = [k \in 1 .. FieldLen |-> WordAt(word + k - 1)]
             /\ pc' = "ok" /\ UNCHANGED word
    <3>1. /\ pc = "entry"
          /\ \E q \in Nat : /\ NullifiersAt(q) /\ entryIndex < WordAt(q)
                            /\ word = EntryOffset(q + 1)
      BY <1>9 DEF ReadEntry, Layout
    <3>2. PICK q \in Nat : /\ NullifiersAt(q) /\ entryIndex < WordAt(q)
                           /\ word = EntryOffset(q + 1)
      BY <3>1
    <3>3. /\ NullifiersAt(q)' /\ entryIndex' < WordAt(q)'
          /\ word' = EntryOffset(q + 1)'
      BY <1>w, <1>c, <2>1, <3>2
    <3>4. word + FieldLen <= NumWords(journal)
      <4>1. FieldLen - 1 \in 0 .. FieldLen - 1 /\ NumWords(journal) \in Nat
        BY <1>0, Widths, JournalFacts
      <4>2. word + (FieldLen - 1) < NumWords(journal)
        BY <2>1, <4>1 DEF IsByteAt, Readable
      <4> QED
        BY <1>0, <4>1, <4>2, Widths
    <3>5. HoldsAt(word)'
      BY <1>w, <2>1, <3>4 DEF HoldsAt
    <3> QED
      BY <1>w, <2>1, <3>1, <3>3, <3>5 DEF Layout
  <2>2. ASSUME NEW k \in 0 .. FieldLen - 1,
               Return(IF Readable(word + k) THEN "InvalidByteWord"
                                            ELSE "JournalTooShort")
        PROVE  Layout'
    BY <2>2, ErrorLayout
  <2> QED
    BY <1>9, <2>1, <2>2 DEF ReadEntry
<1>10. CASE UNCHANGED vars
  <2>1. UNCHANGED <<pc, word, left, nullifier>>
    BY <1>10 DEF vars
  <2>2. Chain(WordAt(2) - left, word)' <=> Chain(WordAt(2) - left, word)
    BY <1>w, <2>1 DEF Chain
  <2>3. Chain(WordAt(2), word)' <=> Chain(WordAt(2), word)
    BY <1>w, <2>1 DEF Chain
  <2>4. NullifiersAt(word)' <=> NullifiersAt(word)
    BY <1>w, <2>1 DEF NullifiersAt, Chain
  <2>5. HoldsAt(word)' <=> HoldsAt(word)
    BY <1>w, <2>1 DEF HoldsAt
  <2>6. pc \in {"entry", "ok"} =>
          \E q \in Nat : /\ NullifiersAt(q)' /\ entryIndex' < WordAt(q)'
                         /\ word' = EntryOffset(q + 1)'
    BY <1>w, <1>c, <2>1 DEF Layout
  <2> QED
    BY <1>w, <2>1, <2>2, <2>3, <2>4, <2>5, <2>6 DEF Layout
<1> QED
  BY <1>1, <1>2, <1>3, <1>4, <1>5, <1>6, <1>7, <1>8, <1>9, <1>10 DEF Next

\* A walk that succeeded has seen a whole layout.
LEMMA LayoutAccepts == Inv /\ Layout => AcceptedHasLayout
<1> SUFFICES ASSUME Inv, Layout, pc = "ok"
             PROVE  /\ journal.odd = 0
                    /\ WordAt(0) = 0 /\ WordAt(1) = 0
                    /\ \E starts \in [0 .. WordAt(2) -> 3 .. NumWords(journal) - 1] :
                         /\ starts[0] = 3
                         /\ \A i \in 1 .. WordAt(2) :
                              starts[i] = starts[i - 1] + 1 + WordAt(starts[i - 1])
                         /\ LET commitments == starts[WordAt(2)]
                                nullifiers  ==
                                  commitments + 1 + WordAt(commitments) * FieldLen
                            IN /\ entryIndex < WordAt(nullifiers)
                               /\ HoldsAt(nullifiers + 1 + entryIndex * 2 * FieldLen)
  BY DEF AcceptedHasLayout
<1>1. journal.odd = 0 /\ WordAt(0) = 0 /\ WordAt(1) = 0 /\ HoldsAt(word)
  BY DEF Layout, Errors
<1>2. PICK q \in Nat : /\ NullifiersAt(q) /\ entryIndex < WordAt(q)
                       /\ word = EntryOffset(q + 1)
  BY DEF Layout
<1>3. PICK c \in Nat : /\ Chain(WordAt(2), c) /\ c < NumWords(journal)
                       /\ q = c + 1 + WordAt(c) * FieldLen
  BY <1>2 DEF NullifiersAt
<1>4. PICK starts \in [0 .. WordAt(2) -> Nat \ 0 .. 2] :
        /\ starts[0] = 3 /\ starts[WordAt(2)] = c
        /\ \A i \in 1 .. WordAt(2) :
             /\ starts[i - 1] < NumWords(journal)
             /\ starts[i] = starts[i - 1] + 1 + WordAt(starts[i - 1])
  BY <1>3 DEF Chain
<1>5. WordAt(2) \in Nat /\ NumWords(journal) \in Nat
  <2>1. WordAt(2) \in 0 .. WordMax /\ NumWords(journal) \in Nat
    BY JournalFacts DEF Inv
  <2> QED
    BY <2>1, Widths
<1>6. ASSUME NEW i \in 0 .. WordAt(2) PROVE starts[i] \in 3 .. NumWords(journal) - 1
  <2>1. starts[i] \in Nat \ 0 .. 2
    BY <1>4
  <2>2. starts[i] < NumWords(journal)
    <3>1. CASE i = WordAt(2)
      BY <1>3, <1>4, <3>1
    <3>2. CASE i # WordAt(2)
      <4>1. i + 1 \in 1 .. WordAt(2) /\ (i + 1) - 1 = i
        BY <1>5, <3>2
      <4> QED
        BY <1>4, <4>1
    <3> QED
      BY <3>1, <3>2
  <2> QED
    BY <1>5, <2>1, <2>2
<1>7. starts \in [0 .. WordAt(2) -> 3 .. NumWords(journal) - 1]
  BY <1>4, <1>6
<1>8. entryIndex * 2 * FieldLen = entryIndex * (2 * FieldLen)
  BY Widths DEF Inv, TypeOK, Index
<1>9. HoldsAt(q + 1 + entryIndex * 2 * FieldLen)
  BY <1>1, <1>2, <1>8 DEF EntryOffset
<1>10. LET commitments == starts[WordAt(2)]
           nullifiers  == commitments + 1 + WordAt(commitments) * FieldLen
       IN /\ entryIndex < WordAt(nullifiers)
          /\ HoldsAt(nullifiers + 1 + entryIndex * 2 * FieldLen)
  BY <1>2, <1>3, <1>4, <1>9
<1> QED
  BY <1>1, <1>4, <1>7, <1>10

\* decode_nullifier_from_journal succeeds only on a journal with a layout in
\* which its result is the entry asked for, whatever bytes were stored.
THEOREM Accepted == Spec => []AcceptedHasLayout
<1>1. Init => Layout
  BY DEF Init, Layout, Errors
<1>2. Inv /\ Layout => AcceptedHasLayout
  BY LayoutAccepts
<1> QED
  BY <1>1, <1>2, LayoutStep, Placed, PTL DEF Spec

-----------------------------------------------------------------------------
(***************************************************************************)
(* What an encoding consists of, and where                                 *)
(***************************************************************************)
\* The sequence s lies in w behind the first p elements of w.
Lies(w, p, s) == p + Len(s) <= Len(w) /\ \A k \in 1 .. Len(s) : w[p + k] = s[k]

\* The parts of a concatenation lie in it.
LEMMA LiesInConcat ==
    ASSUME NEW S, NEW a \in Seq(S), NEW b \in Seq(S)
    PROVE  /\ a \o b \in Seq(S) /\ Len(a \o b) = Len(a) + Len(b)
           /\ Lies(a \o b, 0, a) /\ Lies(a \o b, Len(a), b)
<1>1. /\ a \o b \in Seq(S) /\ Len(a \o b) = Len(a) + Len(b)
      /\ Len(a) \in Nat /\ Len(b) \in Nat
  BY ConcatProperties, LenProperties
<1>2. \A k \in 1 .. Len(a) + Len(b) :
        (a \o b)[k] = IF k <= Len(a) THEN a[k] ELSE b[k - Len(a)]
  BY ConcatProperties
<1> DEFINE c == a \o b
<1> HIDE DEF c
<1>3. Lies(c, 0, a)
  <2>1. ASSUME NEW k \in 1 .. Len(a) PROVE c[0 + k] = a[k]
    BY <1>1, <1>2 DEF c
  <2> QED
    BY <1>1, <2>1 DEF Lies, c
<1>4. Lies(c, Len(a), b)
  <2>1. ASSUME NEW k \in 1 .. Len(b) PROVE c[Len(a) + k] = b[k]
    <3>1. /\ Len(a) + k \in 1 .. Len(a) + Len(b) /\ ~(Len(a) + k <= Len(a))
          /\ Len(a) + k - Len(a) = k
      BY <1>1
    <3> QED
      BY <1>2, <3>1 DEF c
  <2> QED
    BY <1>1, <2>1 DEF Lies, c
<1> QED
  BY <1>1, <1>3, <1>4 DEF c

\* What lies in a part lies in the whole.
LEMMA LiesInPart ==
    ASSUME NEW S, NEW w \in Seq(S), NEW p \in Nat, NEW s \in Seq(S), Lies(w, p, s),
           NEW q \in Nat, NEW t \in Seq(S), Lies(s, q, t)
    PROVE  Lies(w, p + q, t)
<1>1. Len(w) \in Nat /\ Len(s) \in Nat /\ Len(t) \in Nat
  BY LenProperties
<1>2. ASSUME NEW k \in 1 .. Len(t) PROVE w[p + q + k] = t[k]
  <2>1. q + k \in 1 .. Len(s) /\ p + q + k = p + (q + k)
    BY <1>1 DEF Lies
  <2> QED
    BY <2>1 DEF Lies
<1> QED
  BY <1>1, <1>2 DEF Lies

\* An element of a sequence that lies in w.
LEMMA LiesFirst ==
    ASSUME NEW w \in Seq(Nat), NEW p \in Nat, NEW x, Lies(w, p, <<x>>)
    PROVE  p < Len(w) /\ w[p + 1] = x
<1>1. Len(<<x>>) = 1 /\ <<x>>[1] = x /\ Len(w) \in Nat
  BY LenProperties
<1> QED
  BY <1>1 DEF Lies

\* f joins the elements of s one by one.
Joins(f, s) ==
    /\ f[0] = <<>>
    /\ \A i \in 1 .. Len(s) : f[i] = f[i - 1] \o s[i]

\* FlattenSeq joins all of them.
LEMMA Flattened ==
    ASSUME NEW S, NEW s \in Seq(Seq(S))
    PROVE  \E f \in [0 .. Len(s) -> Seq(S)] : Joins(f, s) /\ FlattenSeq(s) = f[Len(s)]
<1> DEFINE n == Len(s)
<1>1. n \in Nat /\ \A i \in 1 .. n : s[i] \in Seq(S)
  BY LenProperties, ElementOfSeq
<1>2. \E f \in [0 .. n -> Seq(S)] : Joins(f, s)
  <2> DEFINE T == Seq(S)
             pass == [i \in 1 .. n |-> [x \in T |-> x \o s[i]]]
  <2>1. pass \in [1 .. n -> [T -> T]]
    <3>1. ASSUME NEW i \in 1 .. n, NEW x \in T PROVE x \o s[i] \in T
      BY <1>1, ConcatProperties
    <3> QED
      BY <3>1
  <2>2. <<>> \in T
    BY EmptySeq
  <2> DEFINE base == <<>>
  <2>3. base \in T
    BY <2>2
  <2>4. \A i \in 1 .. n : \A x \in T : pass[i][x] = x \o s[i]
    OBVIOUS
  <2> HIDE DEF pass, T, base, n
  <2>5. PICK f \in [0 .. n -> T] : Loop(f, base, n, pass)
    <3>1. n \in Nat
      BY <1>1
    <3> QED
      BY <2>1, <2>3, <3>1, LoopRuns
  <2>6. ASSUME NEW i \in 1 .. n PROVE f[i] = f[i - 1] \o s[i]
    <3>1. f[i - 1] \in T
      <4>1. i - 1 \in 0 .. n
        BY <1>1
      <4> QED
        BY <2>5, <4>1
    <3> QED
      BY <2>4, <2>5, <3>1 DEF Loop
  <2>7. Joins(f, s)
    BY <2>5, <2>6 DEF Loop, Joins, base, n
  <2> QED
    BY <2>5, <2>7 DEF T
<1>3. PICK f \in [0 .. n -> Seq(S)] : Joins(f, s)
  BY <1>2
<1>4. CASE n = 0
  <2>1. s = <<>>
    BY <1>4, EmptySeq
  <2>2. FlattenSeq(s) = s
    BY <1>4 DEF FlattenSeq
  <2> QED
    BY <1>3, <1>4, <2>1, <2>2 DEF Joins
<1>5. CASE n # 0
  <2> DEFINE Eqn(g) == g = [i \in 1 .. Len(s) |->
                              IF i = 1 THEN s[i] ELSE g[i - 1] \o s[i]]
             g == CHOOSE h : Eqn(h)
  <2>1. FlattenSeq(s) = g[n]
    BY <1>5 DEF FlattenSeq
  <2>2. \A i \in 1 .. n : f[i] = IF i = 1 THEN s[i] ELSE f[i - 1] \o s[i]
    <3>1. \A i \in 1 .. n : f[i] = f[i - 1] \o s[i]
      BY <1>3 DEF Joins
    <3>2. 1 \in 1 .. n => f[1] = s[1]
      <4>1. 1 \in 1 .. n => f[1] = <<>> \o s[1]
        <5>1. f[1 - 1] = <<>>
          BY <1>3 DEF Joins
        <5> QED
          BY <3>1, <5>1
      <4> QED
        BY <1>1, <4>1, ConcatEmptySeq
    <3> QED
      BY <3>1, <3>2
  <2>3. Eqn(g)
    <3> DEFINE h == [i \in 1 .. n |-> f[i]]
    <3>1. \A i \in 1 .. n : i # 1 => i - 1 \in 1 .. n
      OBVIOUS
    <3>2. Eqn(h)
      BY <2>2, <3>1
    <3> HIDE DEF Eqn, h
    <3> QED
      BY <3>2
  <2> HIDE DEF g
  <2>4. \A i \in 1 .. n : g[i] = IF i = 1 THEN s[i] ELSE g[i - 1] \o s[i]
    <3>1. g = [i \in 1 .. n |-> IF i = 1 THEN s[i] ELSE g[i - 1] \o s[i]]
      BY <2>3
    <3> QED
      BY <3>1
  <2> HIDE DEF Eqn
  <2> DEFINE A == {k \in Nat : k = 0 \/ g[k] = f[k]}
  <2>5. 0 \in A
    OBVIOUS
  <2>6. \A k \in 0 .. n - 1 : k \in A => k + 1 \in A
    <3> SUFFICES ASSUME NEW k \in 0 .. n - 1, k \in A
                 PROVE  g[k + 1] = f[k + 1]
      OBVIOUS
    <3>1. k + 1 \in 1 .. n /\ (k + 1) - 1 = k /\ (k = 0 <=> k + 1 = 1)
      BY <1>1
    <3> QED
      BY <2>2, <2>4, <3>1
  <2> HIDE DEF A
  <2>7. 0 .. n \subseteq A
    BY <1>1, <2>5, <2>6, BoundedInduction, Zenon
  <2>8. n \in A
    BY <1>1, <2>7
  <2>9. g[n] = f[n]
    BY <1>5, <2>8 DEF A
  <2> QED
    BY <1>3, <2>1, <2>9
<1> QED
  BY <1>4, <1>5

\* Every element lies in the joined sequence, behind those before it.
LEMMA LiesInFlattened ==
    ASSUME NEW S, NEW s \in Seq(Seq(S)), NEW f \in [0 .. Len(s) -> Seq(S)], Joins(f, s),
           NEW i \in 1 .. Len(s)
    PROVE  Lies(f[Len(s)], Len(f[i - 1]), s[i])
<1> DEFINE n == Len(s)
           A == {m \in Nat : \A j \in 1 .. m : Lies(f[m], Len(f[j - 1]), s[j])}
<1>1. n \in Nat /\ \A j \in 1 .. n : s[j] \in Seq(S)
  BY LenProperties, ElementOfSeq
<1>2. 0 \in A
  OBVIOUS
<1>3. \A m \in 0 .. n - 1 : m \in A => m + 1 \in A
  <2> SUFFICES ASSUME NEW m \in 0 .. n - 1, m \in A PROVE m + 1 \in A
    OBVIOUS
  <2> SUFFICES ASSUME NEW j \in 1 .. m + 1
               PROVE  Lies(f[m + 1], Len(f[j - 1]), s[j])
    OBVIOUS
  <2>1. /\ m + 1 \in 1 .. n /\ (m + 1) - 1 = m /\ m \in 0 .. n /\ m + 1 \in 0 .. n
        /\ j \in 1 .. n /\ j - 1 \in 0 .. n
    BY <1>1
  <2>2. f[m + 1] = f[m] \o s[m + 1]
    BY <2>1 DEF Joins
  <2>3. f[m] \in Seq(S) /\ s[m + 1] \in Seq(S) /\ f[m + 1] \in Seq(S) /\ s[j] \in Seq(S)
    BY <1>1, <2>1
  <2>4. Lies(f[m + 1], 0, f[m]) /\ Lies(f[m + 1], Len(f[m]), s[m + 1])
    BY <2>2, <2>3, LiesInConcat
  <2>5. CASE j = m + 1
    BY <2>1, <2>4, <2>5
  <2>6. CASE j # m + 1
    <3>1. Lies(f[m], Len(f[j - 1]), s[j])
      BY <2>6
    <3>2. Len(f[j - 1]) \in Nat /\ 0 + Len(f[j - 1]) = Len(f[j - 1])
      <4>1. f[j - 1] \in Seq(S)
        BY <2>1
      <4>2. Len(f[j - 1]) \in Nat
        BY <4>1, LenProperties
      <4> QED
        BY <4>2
    <3>3. Lies(f[m + 1], 0 + Len(f[j - 1]), s[j])
      BY <2>3, <2>4, <3>1, <3>2, LiesInPart
    <3> QED
      BY <3>2, <3>3
  <2> QED
    BY <2>5, <2>6
<1> HIDE DEF A
<1>4. 0 .. n \subseteq A
  BY <1>1, <1>2, <1>3, BoundedInduction, Zenon
<1>5. n \in A
  <2>1. n \in 0 .. n
    BY <1>1
  <2> QED
    BY <1>4, <2>1
<1> QED
  BY <1>5 DEF A

\* Every element of s has length l.
Uniform(s, l) == \A i \in 1 .. Len(s) : Len(s[i]) = l

\* Elements of one length lie at its multiples.
LEMMA JoinedLength ==
    ASSUME NEW S, NEW s \in Seq(Seq(S)), NEW f \in [0 .. Len(s) -> Seq(S)], Joins(f, s),
           NEW l \in Nat, Uniform(s, l),
           NEW k \in 0 .. Len(s)
    PROVE  Len(f[k]) = k * l
<1> DEFINE n == Len(s)
           A == {m \in Nat : Len(f[m]) = m * l}
<1>1. n \in Nat /\ \A j \in 1 .. n : s[j] \in Seq(S)
  BY LenProperties, ElementOfSeq
<1>2. 0 \in A
  BY DEF Joins
<1>3. \A m \in 0 .. n - 1 : m \in A => m + 1 \in A
  <2> SUFFICES ASSUME NEW m \in 0 .. n - 1, m \in A
               PROVE  Len(f[m + 1]) = (m + 1) * l
    OBVIOUS
  <2>1. m + 1 \in 1 .. n /\ (m + 1) - 1 = m /\ m \in 0 .. n
    BY <1>1
  <2>2. f[m + 1] = f[m] \o s[m + 1] /\ f[m] \in Seq(S) /\ s[m + 1] \in Seq(S)
    BY <1>1, <2>1 DEF Joins
  <2>3. Len(f[m + 1]) = Len(f[m]) + Len(s[m + 1])
    BY <2>2, ConcatProperties
  <2>4. Len(f[m + 1]) = m * l + l
    BY <2>1, <2>3 DEF Uniform
  <2> QED
    BY <2>4
<1> HIDE DEF A
<1>4. 0 .. n \subseteq A
  BY <1>1, <1>2, <1>3, BoundedInduction, Zenon
<1> QED
  BY <1>4 DEF A

\* What the walker meets in the words w of an output o: ciphertext i begins at
\* place[i - 1], and behind the last one are the commitments.
Laid(w, o, place) ==
    /\ Len(w) > 2 /\ w[1] = 0 /\ w[2] = 0 /\ w[3] = Len(o.ciphertexts)
    /\ place[0] = 3
    /\ \A i \in 0 .. Len(o.ciphertexts) : place[i] < Len(w)
    /\ \A i \in 1 .. Len(o.ciphertexts) :
         place[i] = place[i - 1] + 1 + w[place[i - 1] + 1]

\* From word position c on: the commitments, the nullifiers and their digests.
Listed(w, o, c) ==
    LET q == c + 1 + Len(o.commitments) * FieldLen
    IN /\ c < Len(w) /\ w[c + 1] = Len(o.commitments)
       /\ q < Len(w) /\ w[q + 1] = Len(o.nullifiers)
       /\ \A e \in 0 .. Len(o.nullifiers) - 1 :
            Lies(w, q + 1 + e * EntryLen, o.nullifiers[e + 1][1])

\* A function over 1 .. n is a sequence.
LEMMA FunctionIsSeq ==
    ASSUME NEW T, NEW n \in Nat, NEW f \in [1 .. n -> T]
    PROVE  f \in Seq(T) /\ Len(f) = n
  OBVIOUS

\* A vector is its length and what it joins.
LEMMA VectorParts ==
    ASSUME NEW s \in Seq(Seq(Nat))
    PROVE  \E f \in [0 .. Len(s) -> Seq(Nat)] :
             /\ Joins(f, s)
             /\ Vector(s) \in Seq(Nat)
             /\ Len(Vector(s)) = 1 + Len(f[Len(s)])
             /\ Lies(Vector(s), 0, <<Len(s)>>) /\ Lies(Vector(s), 1, f[Len(s)])
<1>1. PICK f \in [0 .. Len(s) -> Seq(Nat)] : Joins(f, s) /\ FlattenSeq(s) = f[Len(s)]
  BY Flattened
<1>2. Len(s) \in Nat
  BY LenProperties
<1> DEFINE h == <<Len(s)>>
           g == f[Len(s)]
<1>3. g \in Seq(Nat) /\ h \in Seq(Nat) /\ Len(h) = 1
  BY <1>2
<1>4. Vector(s) = h \o g
  BY <1>1 DEF Vector
<1> HIDE DEF h, g
<1>5. /\ h \o g \in Seq(Nat) /\ Len(h \o g) = Len(h) + Len(g)
      /\ Lies(h \o g, 0, h) /\ Lies(h \o g, Len(h), g)
  BY <1>3, LiesInConcat
<1>6. /\ Vector(s) \in Seq(Nat)
      /\ Len(Vector(s)) = 1 + Len(f[Len(s)])
      /\ Lies(Vector(s), 0, <<Len(s)>>) /\ Lies(Vector(s), 1, f[Len(s)])
  BY <1>3, <1>4, <1>5 DEF g, h
<1> QED
  BY <1>1, <1>6

\* The vectors of an output are sequences of sequences of words.
LEMMA OutputParts ==
    ASSUME NEW o \in Output
    PROVE  /\ Len(o.ciphertexts) \in Nat /\ Len(o.commitments) \in Nat
           /\ Len(o.nullifiers) \in Nat /\ o.windows \in Seq(Nat)
           /\ Ciphertexts(o) \in Seq(Seq(Nat)) /\ Len(Ciphertexts(o)) = Len(o.ciphertexts)
           /\ \A i \in 1 .. Len(o.ciphertexts) :
                /\ Len(Ciphertexts(o)[i]) = 1 + Len(o.ciphertexts[i])
                /\ Lies(Ciphertexts(o)[i], 0, <<Len(o.ciphertexts[i])>>)
                /\ Len(o.ciphertexts[i]) \in Nat
           /\ o.commitments \in Seq(Seq(Nat))
           /\ \A i \in 1 .. Len(o.commitments) : Len(o.commitments[i]) = FieldLen
           /\ Nullifiers(o) \in Seq(Seq(Nat)) /\ Len(Nullifiers(o)) = Len(o.nullifiers)
           /\ \A i \in 1 .. Len(o.nullifiers) :
                /\ Len(Nullifiers(o)[i]) = EntryLen
                /\ Lies(Nullifiers(o)[i], 0, o.nullifiers[i][1])
                /\ o.nullifiers[i][1] \in Field
<1>b. ByteMax \in Nat /\ WordMax \in Nat /\ FieldLen \in Nat
  BY Widths
<1>o. /\ o.ciphertexts \in Seq(Seq(0 .. ByteMax))
      /\ o.commitments \in Seq(Field)
      /\ o.nullifiers \in Seq(Field \X Field)
      /\ o.windows \in Seq(0 .. WordMax)
  BY OutputAssumption
<1>1. /\ Len(o.ciphertexts) \in Nat /\ Len(o.commitments) \in Nat
      /\ Len(o.nullifiers) \in Nat
  BY <1>o, LenProperties
<1>n. \A n \in Nat : \A s \in Seq(0 .. n) : s \in Seq(Nat) /\ Len(s) \in Nat
  <2> SUFFICES ASSUME NEW n \in Nat, NEW s \in Seq(0 .. n)
               PROVE  s \in Seq(Nat) /\ Len(s) \in Nat
    OBVIOUS
  <2>1. Len(s) \in Nat /\ s \in [1 .. Len(s) -> 0 .. n]
    BY LenProperties
  <2> QED
    BY <2>1
<1>f. \A x \in Field : x \in Seq(Nat) /\ Len(x) = FieldLen
  BY <1>b, <1>n DEF Field
<1>2. o.windows \in Seq(Nat)
  BY <1>b, <1>o, <1>n
<1>3. ASSUME NEW i \in 1 .. Len(o.ciphertexts)
      PROVE  /\ Ciphertexts(o)[i] \in Seq(Nat)
             /\ Len(Ciphertexts(o)[i]) = 1 + Len(o.ciphertexts[i])
             /\ Lies(Ciphertexts(o)[i], 0, <<Len(o.ciphertexts[i])>>)
             /\ Len(o.ciphertexts[i]) \in Nat
  <2>1. o.ciphertexts[i] \in Seq(0 .. ByteMax)
    BY <1>o, ElementOfSeq
  <2> DEFINE c == o.ciphertexts[i]
  <2>2. c \in Seq(Nat) /\ Len(c) \in Nat
    BY <1>b, <1>n, <2>1
  <2>3. Ciphertexts(o)[i] = <<Len(c)>> \o c
    BY DEF Ciphertexts
  <2> DEFINE h == <<Len(c)>>
  <2>4. h \in Seq(Nat) /\ Len(h) = 1
    BY <2>2
  <2> HIDE DEF c, h
  <2>5. /\ h \o c \in Seq(Nat) /\ Len(h \o c) = Len(h) + Len(c)
        /\ Lies(h \o c, 0, h)
    BY <2>2, <2>4, LiesInConcat
  <2> QED
    BY <2>2, <2>3, <2>4, <2>5 DEF c, h
<1>4. Ciphertexts(o) \in Seq(Seq(Nat)) /\ Len(Ciphertexts(o)) = Len(o.ciphertexts)
  <2> DEFINE T == Seq(Nat)
  <2>1. \A i \in 1 .. Len(o.ciphertexts) : Ciphertexts(o)[i] \in T
    BY <1>3
  <2> HIDE DEF T
  <2>2. Ciphertexts(o) \in [1 .. Len(o.ciphertexts) -> T]
    BY <2>1 DEF Ciphertexts
  <2>3. Ciphertexts(o) \in Seq(T) /\ Len(Ciphertexts(o)) = Len(o.ciphertexts)
    BY <1>1, <2>2, FunctionIsSeq
  <2> QED
    BY <2>3 DEF T
<1>5. /\ o.commitments \in Seq(Seq(Nat))
      /\ \A i \in 1 .. Len(o.commitments) : Len(o.commitments[i]) = FieldLen
  <2>1. \A i \in 1 .. Len(o.commitments) : o.commitments[i] \in Field
    BY <1>o, ElementOfSeq
  <2>2. o.commitments \in [1 .. Len(o.commitments) -> Seq(Nat)]
    <3>1. o.commitments \in [1 .. Len(o.commitments) -> Field]
      BY <1>o, LenProperties
    <3> QED
      BY <1>f, <3>1
  <2> QED
    BY <1>1, <1>f, <2>1, <2>2
<1>6. ASSUME NEW i \in 1 .. Len(o.nullifiers)
      PROVE  /\ Nullifiers(o)[i] \in Seq(Nat)
             /\ Len(Nullifiers(o)[i]) = EntryLen
             /\ Lies(Nullifiers(o)[i], 0, o.nullifiers[i][1])
             /\ o.nullifiers[i][1] \in Field
  <2>1. o.nullifiers[i] \in Field \X Field
    BY <1>o, ElementOfSeq
  <2>2. PICK a \in Field, b \in Field : o.nullifiers[i] = <<a, b>>
    BY <2>1
  <2>3. Nullifiers(o)[i] = a \o b /\ o.nullifiers[i][1] = a
    <3>1. Nullifiers(o)[i] = o.nullifiers[i][1] \o o.nullifiers[i][2]
      BY DEF Nullifiers
    <3> QED
      BY <2>2, <3>1
  <2>4. /\ a \o b \in Seq(Nat) /\ Len(a \o b) = FieldLen + FieldLen
        /\ Lies(a \o b, 0, a)
    BY <1>f, LiesInConcat
  <2>5. FieldLen + FieldLen = EntryLen
    BY <1>b DEF EntryLen
  <2> QED
    BY <2>3, <2>4, <2>5
<1>7. Nullifiers(o) \in Seq(Seq(Nat)) /\ Len(Nullifiers(o)) = Len(o.nullifiers)
  <2> DEFINE T == Seq(Nat)
  <2>1. \A i \in 1 .. Len(o.nullifiers) : Nullifiers(o)[i] \in T
    BY <1>6
  <2> HIDE DEF T
  <2>2. Nullifiers(o) \in [1 .. Len(o.nullifiers) -> T]
    BY <2>1 DEF Nullifiers
  <2>3. Nullifiers(o) \in Seq(T) /\ Len(Nullifiers(o)) = Len(o.nullifiers)
    BY <1>1, <2>2, FunctionIsSeq
  <2> QED
    BY <2>3 DEF T
<1> QED
  BY <1>1, <1>2, <1>3, <1>4, <1>5, <1>6, <1>7

\* Vectors one behind the other.
LEMMA EncodeParts ==
    ASSUME NEW x \in Seq(Nat), NEW y \in Seq(Nat), NEW z \in Seq(Nat), NEW v \in Seq(Nat)
    PROVE  LET w == <<0, 0>> \o x \o y \o z \o v
           IN /\ w \in Seq(Nat) /\ Lies(w, 0, <<0, 0>>)
              /\ Lies(w, 2, x) /\ Lies(w, 2 + Len(x), y) /\ Lies(w, 2 + Len(x) + Len(y), z)
<1> DEFINE a == <<0, 0>>
           b == a \o x
           c == b \o y
           d == c \o z
           w == d \o v
<1>1. a \in Seq(Nat) /\ Len(a) = 2
  OBVIOUS
<1> HIDE DEF a
<1>2. /\ b \in Seq(Nat) /\ Len(b) = 2 + Len(x) /\ Lies(b, 0, a) /\ Lies(b, 2, x)
      /\ Len(x) \in Nat /\ Len(y) \in Nat
  BY <1>1, LiesInConcat, LenProperties
<1> HIDE DEF b
<1>3. /\ c \in Seq(Nat) /\ Len(c) = 2 + Len(x) + Len(y)
      /\ Lies(c, 0, b) /\ Lies(c, 2 + Len(x), y)
  BY <1>2, LiesInConcat
<1> HIDE DEF c
<1>4. d \in Seq(Nat) /\ Lies(d, 0, c) /\ Lies(d, 2 + Len(x) + Len(y), z)
  BY <1>3, LiesInConcat
<1> HIDE DEF d
<1>5. w \in Seq(Nat) /\ Lies(w, 0, d)
  BY <1>4, LiesInConcat
<1> HIDE DEF w
<1>6. /\ 2 + Len(x) + Len(y) \in Nat /\ 0 + (2 + Len(x) + Len(y)) = 2 + Len(x) + Len(y)
      /\ 2 + Len(x) \in Nat /\ 0 + (2 + Len(x)) = 2 + Len(x)
      /\ 0 \in Nat /\ 2 \in Nat /\ 0 + 0 = 0 /\ 0 + 2 = 2
  BY <1>2
<1>7. Lies(w, 2 + Len(x) + Len(y), z)
  <2>1. Lies(w, 0 + (2 + Len(x) + Len(y)), z)
    BY <1>4, <1>5, <1>6, LiesInPart
  <2> QED
    BY <1>6, <2>1
<1>8. Lies(w, 0, c)
  <2>1. Lies(w, 0 + 0, c)
    BY <1>3, <1>4, <1>5, <1>6, LiesInPart
  <2> QED
    BY <1>6, <2>1
<1>9. Lies(w, 2 + Len(x), y)
  <2>1. Lies(w, 0 + (2 + Len(x)), y)
    BY <1>3, <1>5, <1>6, <1>8, LiesInPart
  <2> QED
    BY <1>6, <2>1
<1>10. Lies(w, 0, b)
  <2>1. Lies(w, 0 + 0, b)
    BY <1>2, <1>3, <1>5, <1>6, <1>8, LiesInPart
  <2> QED
    BY <1>6, <2>1
<1>11. Lies(w, 2, x) /\ Lies(w, 0, a)
  <2>1. Lies(w, 0 + 2, x) /\ Lies(w, 0 + 0, a)
    BY <1>1, <1>2, <1>5, <1>6, <1>10, LiesInPart
  <2> QED
    BY <1>6, <2>1
<1>12. w = <<0, 0>> \o x \o y \o z \o v
  BY DEF a, b, c, d, w
<1> QED
  BY <1>5, <1>7, <1>9, <1>11, <1>12 DEF a

\* The first vector of the encoding: its elements begin at the places.
LEMMA EncodedCiphertexts ==
    ASSUME NEW o \in Output, NEW w \in Seq(Nat), Lies(w, 0, <<0, 0>>),
           Lies(w, 2, Vector(Ciphertexts(o))),
           2 + Len(Vector(Ciphertexts(o))) < Len(w)
    PROVE  \E place \in [0 .. Len(o.ciphertexts) -> Nat] :
             /\ Laid(w, o, place)
             /\ place[Len(o.ciphertexts)] = 2 + Len(Vector(Ciphertexts(o)))
<1> DEFINE s == Ciphertexts(o)
           n == Len(o.ciphertexts)
<1>1. /\ n \in Nat /\ s \in Seq(Seq(Nat)) /\ Len(s) = n
      /\ \A i \in 1 .. n :
           /\ Len(s[i]) = 1 + Len(o.ciphertexts[i])
           /\ Lies(s[i], 0, <<Len(o.ciphertexts[i])>>)
           /\ Len(o.ciphertexts[i]) \in Nat
  BY OutputParts
<1> HIDE DEF s, n
<1>2. PICK f \in [0 .. n -> Seq(Nat)] :
        /\ Joins(f, s)
        /\ Vector(s) \in Seq(Nat)
        /\ Len(Vector(s)) = 1 + Len(f[n])
        /\ Lies(Vector(s), 0, <<n>>) /\ Lies(Vector(s), 1, f[n])
  <2>1. \E f \in [0 .. Len(s) -> Seq(Nat)] :
          /\ Joins(f, s)
          /\ Vector(s) \in Seq(Nat)
          /\ Len(Vector(s)) = 1 + Len(f[Len(s)])
          /\ Lies(Vector(s), 0, <<Len(s)>>) /\ Lies(Vector(s), 1, f[Len(s)])
    BY <1>1, VectorParts
  <2>2. Len(s) = n
    BY <1>1
  <2> QED
    BY <2>1, <2>2
<1>3. \A i \in 0 .. n : f[i] \in Seq(Nat) /\ Len(f[i]) \in Nat
  BY LenProperties
<1>4. f[n] \in Seq(Nat)
  BY <1>1, <1>3
<1>5. Lies(w, 2, Vector(s))
  BY DEF s
<1>6. w[3] = n
  <2>1. <<n>> \in Seq(Nat) /\ 2 + 0 = 2
    BY <1>1
  <2>2. Lies(w, 2 + 0, <<n>>)
    BY <1>2, <1>5, <2>1, LiesInPart
  <2> QED
    BY <2>1, <2>2, LiesFirst
<1>7. Lies(w, 3, f[n])
  <2>1. Lies(w, 2 + 1, f[n])
    BY <1>2, <1>4, <1>5, LiesInPart
  <2> QED
    BY <2>1
<1>8. Len(w) > 2 /\ w[1] = 0 /\ w[2] = 0
  <2>1. Len(<<0, 0>>) = 2 /\ <<0, 0>>[1] = 0 /\ <<0, 0>>[2] = 0 /\ Len(w) \in Nat
    BY LenProperties
  <2>2. w[0 + 1] = 0 /\ w[0 + 2] = 0
    BY <2>1 DEF Lies
  <2>3. Len(w) > 2
    BY <1>2, <1>3, <1>1, <2>1 DEF s
  <2> QED
    BY <2>2, <2>3
<1> DEFINE place == [i \in 0 .. n |-> 3 + Len(f[i])]
<1>9. place \in [0 .. n -> Nat] /\ \A i \in 0 .. n : place[i] = 3 + Len(f[i])
  BY <1>3
<1> HIDE DEF place
<1>10. place[0] = 3 /\ place[n] = 2 + Len(Vector(s))
  <2>1. 0 \in 0 .. n /\ n \in 0 .. n
    BY <1>1
  <2>2. Len(f[0]) = 0
    BY <1>2 DEF Joins
  <2>3. place[0] = 3 + Len(f[0]) /\ place[n] = 3 + Len(f[n])
    BY <1>9, <2>1
  <2>4. Len(f[n]) \in Nat /\ Len(Vector(s)) = 1 + Len(f[n])
    BY <1>2, <1>3, <2>1
  <2>5. 3 + Len(f[n]) = 2 + Len(Vector(s))
    BY <2>4
  <2> QED
    BY <2>2, <2>3, <2>5
<1>11. ASSUME NEW i \in 1 .. n
       PROVE  /\ place[i - 1] < Len(w)
              /\ place[i] = place[i - 1] + 1 + w[place[i - 1] + 1]
  <2>1. i \in 0 .. n /\ i - 1 \in 0 .. n
    BY <1>1
  <2>2. /\ f[i] = f[i - 1] \o s[i] /\ s[i] \in Seq(Nat)
        /\ f[i - 1] \in Seq(Nat)
    BY <1>1, <1>2, <1>3, <2>1, ElementOfSeq DEF Joins
  <2>3. Len(f[i]) = Len(f[i - 1]) + Len(s[i])
    BY <2>2, ConcatProperties
  <2>4. Lies(f[n], Len(f[i - 1]), s[i])
    <3>1. i \in 1 .. Len(s) /\ Len(s) = n /\ f \in [0 .. Len(s) -> Seq(Nat)]
      BY <1>1
    <3>2. Lies(f[Len(s)], Len(f[i - 1]), s[i])
      BY <1>1, <1>2, <3>1, LiesInFlattened
    <3> QED
      BY <3>1, <3>2
  <2> DEFINE p == Len(f[i - 1])
             l == Len(o.ciphertexts[i])
  <2>5. p \in Nat /\ l \in Nat /\ Lies(s[i], 0, <<l>>) /\ <<l>> \in Seq(Nat)
    BY <1>1, <1>3, <2>1
  <2>6. Lies(w, 3 + p, s[i])
    BY <1>4, <1>7, <2>2, <2>4, <2>5, LiesInPart
  <2>7. Lies(w, 3 + p + 0, <<l>>)
    <3>1. 3 + p \in Nat /\ 0 \in Nat
      BY <2>5
    <3> QED
      BY <2>2, <2>5, <2>6, <3>1, LiesInPart
  <2>8. 3 + p + 0 = 3 + p /\ 3 + p \in Nat
    BY <2>5
  <2>9. 3 + p < Len(w) /\ w[3 + p + 1] = l
    BY <2>7, <2>8, LiesFirst
  <2>10. place[i - 1] = 3 + p /\ place[i] = 3 + (p + (1 + l))
    BY <1>1, <1>9, <2>1, <2>3
  <2> HIDE DEF p, l
  <2>11. place[i] = 3 + p + 1 + l
    BY <2>5, <2>10
  <2> QED
    BY <2>9, <2>10, <2>11
<1>12. ASSUME NEW i \in 0 .. n PROVE place[i] < Len(w)
  <2>1. CASE i = n
    BY <1>10, <2>1 DEF s
  <2>2. CASE i # n
    <3>1. i + 1 \in 1 .. n /\ (i + 1) - 1 = i
      BY <1>1, <2>2
    <3> QED
      BY <1>11, <3>1
  <2> QED
    BY <2>1, <2>2
<1>13. Laid(w, o, place)
  BY <1>6, <1>8, <1>10, <1>11, <1>12 DEF Laid, n
<1> QED
  BY <1>9, <1>10, <1>13 DEF n, s

\* Behind the ciphertexts: the commitments, which are all of one length, and the
\* nullifiers.
LEMMA EncodedLists ==
    ASSUME NEW o \in Output, NEW w \in Seq(Nat), NEW c \in Nat,
           Lies(w, c, Vector(o.commitments)),
           Lies(w, c + Len(Vector(o.commitments)), Vector(Nullifiers(o)))
    PROVE  Listed(w, o, c)
<1> DEFINE k == Len(o.commitments)
           n == Len(o.nullifiers)
           y == o.commitments
           z == Nullifiers(o)
<1>1. /\ k \in Nat /\ n \in Nat
      /\ y \in Seq(Seq(Nat)) /\ Len(y) = k
      /\ \A i \in 1 .. k : Len(y[i]) = FieldLen
      /\ z \in Seq(Seq(Nat)) /\ Len(z) = n
      /\ \A i \in 1 .. n :
           /\ Len(z[i]) = EntryLen
           /\ Lies(z[i], 0, o.nullifiers[i][1])
           /\ o.nullifiers[i][1] \in Field
  BY OutputParts
<1>2. FieldLen \in Nat /\ EntryLen \in Nat /\ k * FieldLen \in Nat
  BY <1>1, Widths DEF EntryLen
<1>3. PICK f \in [0 .. Len(y) -> Seq(Nat)] :
        /\ Joins(f, y) /\ Vector(y) \in Seq(Nat)
        /\ Len(Vector(y)) = 1 + Len(f[Len(y)])
        /\ Lies(Vector(y), 0, <<Len(y)>>) /\ Lies(Vector(y), 1, f[Len(y)])
  BY <1>1, VectorParts
<1>4. PICK g \in [0 .. Len(z) -> Seq(Nat)] :
        /\ Joins(g, z) /\ Vector(z) \in Seq(Nat)
        /\ Len(Vector(z)) = 1 + Len(g[Len(z)])
        /\ Lies(Vector(z), 0, <<Len(z)>>) /\ Lies(Vector(z), 1, g[Len(z)])
  BY <1>1, VectorParts
<1>5. Lies(w, c, Vector(y)) /\ Lies(w, c + Len(Vector(y)), Vector(z))
  OBVIOUS
<1> HIDE DEF y, z
<1>6. Len(f[Len(y)]) = k * FieldLen
  <2>1. Len(y) \in 0 .. Len(y) /\ Uniform(y, FieldLen)
    BY <1>1 DEF Uniform
  <2>2. y \in Seq(Seq(Nat)) /\ FieldLen \in Nat /\ Joins(f, y)
    BY <1>1, <1>2, <1>3
  <2>3. \A m \in 0 .. Len(y) : Len(f[m]) = m * FieldLen
    BY <2>1, <2>2, JoinedLength
  <2>4. Len(f[Len(y)]) = Len(y) * FieldLen
    BY <2>1, <2>3
  <2> QED
    BY <1>1, <2>4
<1> DEFINE q == c + 1 + k * FieldLen
<1>7. c + Len(Vector(y)) = q /\ q \in Nat
  <2> DEFINE r == k * FieldLen
  <2>1. r \in Nat /\ Len(Vector(y)) = 1 + r
    BY <1>2, <1>3, <1>6
  <2> HIDE DEF r
  <2>2. c + Len(Vector(y)) = c + 1 + r /\ c + 1 + r \in Nat
    BY <2>1
  <2> QED
    BY <2>2 DEF r
<1> HIDE DEF k, n, q
<1>8. c < Len(w) /\ w[c + 1] = k
  <2>1. <<Len(y)>> \in Seq(Nat) /\ c + 0 = c
    BY <1>1
  <2>2. Lies(w, c + 0, <<Len(y)>>)
    BY <1>3, <1>5, <2>1, LiesInPart
  <2>3. c < Len(w) /\ w[c + 1] = Len(y)
    BY <2>1, <2>2, LiesFirst
  <2> QED
    BY <1>1, <2>3
<1>9. Lies(w, q, Vector(z))
  BY <1>5, <1>7
<1>10. q < Len(w) /\ w[q + 1] = n
  <2>1. <<Len(z)>> \in Seq(Nat) /\ q + 0 = q
    BY <1>1, <1>7
  <2>2. Lies(w, q + 0, <<Len(z)>>)
    BY <1>4, <1>7, <1>9, <2>1, LiesInPart
  <2>3. q < Len(w) /\ w[q + 1] = Len(z)
    BY <1>7, <2>1, <2>2, LiesFirst
  <2> QED
    BY <1>1, <2>3
<1>11. g[Len(z)] \in Seq(Nat) /\ Lies(w, q + 1, g[Len(z)])
  <2>1. Len(z) \in 0 .. Len(z)
    BY <1>1
  <2>2. g[Len(z)] \in Seq(Nat)
    BY <2>1
  <2> QED
    BY <1>4, <1>7, <1>9, <2>2, LiesInPart
<1>12. ASSUME NEW e \in 0 .. n - 1
       PROVE  Lies(w, q + 1 + e * EntryLen, o.nullifiers[e + 1][1])
  <2> DEFINE i == e + 1
             p == e * EntryLen
  <2>1. i \in 1 .. Len(z) /\ i - 1 = e /\ e \in 0 .. Len(z) /\ i \in 1 .. n
    BY <1>1
  <2>2. Len(g[e]) = p
    <3>1. Uniform(z, EntryLen)
      BY <1>1 DEF Uniform
    <3>2. z \in Seq(Seq(Nat)) /\ EntryLen \in Nat /\ Joins(g, z)
      BY <1>1, <1>2, <1>4
    <3> QED
      BY <2>1, <3>1, <3>2, JoinedLength
  <2>3. Lies(g[Len(z)], Len(g[i - 1]), z[i])
    <3> HIDE DEF i
    <3> QED
      BY <1>1, <1>4, <2>1, LiesInFlattened
  <2>4. p \in Nat
    BY <1>2, <2>1
  <2> HIDE DEF p
  <2>5. Lies(g[Len(z)], p, z[i])
    BY <2>1, <2>2, <2>3
  <2>6. z[i] \in Seq(Nat) /\ o.nullifiers[i][1] \in Seq(Nat)
    <3>1. o.nullifiers[i][1] \in Seq(0 .. ByteMax)
      BY <1>1, <2>1 DEF Field
    <3>2. \A s \in Seq(0 .. ByteMax) : s \in Seq(Nat)
      <4> SUFFICES ASSUME NEW s \in Seq(0 .. ByteMax) PROVE s \in Seq(Nat)
        OBVIOUS
      <4>1. Len(s) \in Nat /\ s \in [1 .. Len(s) -> 0 .. ByteMax]
        BY LenProperties
      <4> QED
        BY <4>1, Widths
    <3>3. z[i] \in Seq(Nat)
      BY <1>1, <2>1, ElementOfSeq
    <3> QED
      BY <3>1, <3>2, <3>3
  <2>7. Lies(w, q + 1 + p, z[i])
    <3>1. q + 1 \in Nat
      BY <1>7
    <3> QED
      BY <1>11, <2>4, <2>5, <2>6, <3>1, LiesInPart
  <2>8. Lies(w, q + 1 + p + 0, o.nullifiers[i][1])
    <3>1. q + 1 + p \in Nat /\ Lies(z[i], 0, o.nullifiers[i][1])
      BY <1>1, <1>7, <2>1, <2>4
    <3> QED
      BY <2>6, <2>7, <3>1, LiesInPart
  <2>9. q + 1 + p + 0 = q + 1 + p
    BY <1>7, <2>4
  <2> QED
    BY <2>8, <2>9 DEF p
<1> QED
  BY <1>8, <1>10, <1>12 DEF Listed, k, n, q

\* An encoding has the shape that the walker takes for granted.
LEMMA EncodingIsLaid ==
    ASSUME NEW o \in Output
    PROVE  \E place \in [0 .. Len(o.ciphertexts) -> Nat] :
             /\ Laid(Encode(o), o, place)
             /\ Listed(Encode(o), o, place[Len(o.ciphertexts)])
<1> DEFINE x == Vector(Ciphertexts(o))
           y == Vector(o.commitments)
           z == Vector(Nullifiers(o))
           w == Encode(o)
<1>1. x \in Seq(Nat) /\ y \in Seq(Nat) /\ z \in Seq(Nat) /\ o.windows \in Seq(Nat)
  <2>1. /\ Ciphertexts(o) \in Seq(Seq(Nat)) /\ o.commitments \in Seq(Seq(Nat))
        /\ Nullifiers(o) \in Seq(Seq(Nat)) /\ o.windows \in Seq(Nat)
    BY OutputParts
  <2> QED
    BY <2>1, VectorParts
<1>2. w = <<0, 0>> \o x \o y \o z \o o.windows
  BY DEF Encode
<1> HIDE DEF x, y, z, w
<1>3. /\ w \in Seq(Nat) /\ Lies(w, 0, <<0, 0>>)
      /\ Lies(w, 2, x) /\ Lies(w, 2 + Len(x), y) /\ Lies(w, 2 + Len(x) + Len(y), z)
  BY <1>1, <1>2, EncodeParts
<1> DEFINE c == 2 + Len(x)
<1>4. c \in Nat
  BY <1>1, LenProperties
<1>5. Listed(w, o, c)
  <2>1. Lies(w, c, y) /\ Lies(w, c + Len(y), z)
    BY <1>3
  <2> HIDE DEF c
  <2> QED
    BY <1>3, <1>4, <2>1, EncodedLists DEF y, z
<1>6. PICK place \in [0 .. Len(o.ciphertexts) -> Nat] :
        Laid(w, o, place) /\ place[Len(o.ciphertexts)] = c
  <2>1. c < Len(w)
    BY <1>5 DEF Listed
  <2> QED
    BY <1>3, <2>1, EncodedCiphertexts DEF x
<1> HIDE DEF c
<1> QED
  BY <1>5, <1>6 DEF w

-----------------------------------------------------------------------------
(***************************************************************************)
(* The walk over an encoding                                               *)
(***************************************************************************)
\* Where the walk stands in the encoding of o, and how it can have ended.
Walks(o, place) ==
    LET c == place[Len(o.ciphertexts)]
        q == c + 1 + Len(o.commitments) * FieldLen
    IN /\ pc = "ciphertext" => /\ left <= Len(o.ciphertexts)
                               /\ word = place[Len(o.ciphertexts) - left]
       /\ pc = "commitments" => word = c
       /\ pc = "nullifiers" => word = q
       /\ pc = "entry" => /\ entryIndex < Len(o.nullifiers)
                          /\ word = q + 1 + entryIndex * EntryLen
       /\ pc = "ok" => /\ entryIndex < Len(o.nullifiers)
                       /\ nullifier = o.nullifiers[entryIndex + 1][1]
       /\ pc \in Errors => /\ pc = "NullifierIndexOutOfRange"
                           /\ ~(entryIndex < Len(o.nullifiers))

\* The journal holds the encoding of o, whose elements are at these places.
Carries(o, place) ==
    /\ journal.odd = 0
    /\ o \in Output /\ place \in [0 .. Len(o.ciphertexts) -> Nat]
    /\ Laid(journal.words, o, place)
    /\ Listed(journal.words, o, place[Len(o.ciphertexts)])

\* A walk over an encoding never leaves the places of its elements, and fails
\* only for an index from the number of nullifiers on.
LEMMA WalkStep ==
    ASSUME Inv, [Next]_vars, NEW o, NEW place, Carries(o, place), Walks(o, place)
    PROVE  Walks(o, place)'
<1> DEFINE n == Len(o.ciphertexts)
           m == Len(o.nullifiers)
           c == place[n]
           r == Len(o.commitments) * FieldLen
           q == c + 1 + r
           w == journal.words
<1>1. /\ journal.odd = 0 /\ o \in Output /\ place \in [0 .. n -> Nat]
      /\ Laid(w, o, place) /\ Listed(w, o, c)
  BY DEF Carries
<1>2. /\ n \in Nat /\ m \in Nat /\ Len(o.commitments) \in Nat
      /\ \A i \in 1 .. m : o.nullifiers[i][1] \in Field
  BY <1>1, OutputParts
<1>3. /\ FieldLen \in Nat \ {0} /\ ByteMax \in Nat /\ EntryLen \in Nat
      /\ r \in Nat
  BY <1>2, Widths DEF EntryLen
<1>4. /\ Len(w) \in Nat /\ Len(w) <= UsizeMax /\ UsizeMax \in Nat
      /\ entryIndex \in Nat /\ left \in Nat /\ word \in Nat
  <2>1. /\ NumWords(journal) \in Nat
        /\ NumWords(journal) + Room + EntryLen <= UsizeMax
        /\ Room \in Nat /\ EntryLen \in Nat
    BY JournalFacts DEF Inv
  <2>2. Len(w) \in Nat /\ Len(w) <= UsizeMax
    BY <2>1, Widths DEF NumWords
  <2> QED
    BY <2>2, Widths DEF Inv, TypeOK, Index
<1>5. c \in Nat /\ q \in Nat
  <2>1. c \in Nat
    BY <1>1, <1>2
  <2> HIDE DEF c, r
  <2> QED
    BY <1>3, <2>1
<1>6. \A i \in Nat : i < Len(w) => Readable(i) /\ WordAt(i) = w[i + 1]
  BY DEF Readable, WordAt, NumWords
<1>7. Len(w) > 2 /\ w[1] = 0 /\ w[2] = 0 /\ w[3] = n /\ place[0] = 3
  BY <1>1 DEF Laid
<1>8. /\ c < Len(w) /\ w[c + 1] = Len(o.commitments)
      /\ q < Len(w) /\ w[q + 1] = m
      /\ \A e \in 0 .. m - 1 : Lies(w, q + 1 + e * EntryLen, o.nullifiers[e + 1][1])
  BY <1>1 DEF Listed
<1>9. UNCHANGED <<journal, entryIndex>>
  BY ArgumentsStay
<1>10. /\ pc = "ciphertext" => left <= n /\ word = place[n - left]
       /\ pc = "commitments" => word = c
       /\ pc = "nullifiers" => word = q
       /\ pc = "entry" => entryIndex < m /\ word = q + 1 + entryIndex * EntryLen
       /\ pc = "ok" => entryIndex < m /\ nullifier = o.nullifiers[entryIndex + 1][1]
       /\ pc \in Errors => pc = "NullifierIndexOutOfRange" /\ ~(entryIndex < m)
  BY DEF Walks
<1> SUFFICES /\ pc' = "ciphertext" => left' <= n /\ word' = place[n - left']
             /\ pc' = "commitments" => word' = c
             /\ pc' = "nullifiers" => word' = q
             /\ pc' = "entry" => /\ entryIndex < m
                                 /\ word' = q + 1 + entryIndex * EntryLen
             /\ pc' = "ok" => /\ entryIndex < m
                              /\ nullifier' = o.nullifiers[entryIndex + 1][1]
             /\ pc' \in Errors => pc' = "NullifierIndexOutOfRange" /\ ~(entryIndex < m)
  BY <1>9 DEF Walks, EntryLen
<1> USE DEF Errors
<1> HIDE DEF n, m, c, r, q, w
<1>a. CASE Start
  <2>1. NumWords(journal) > 0
    BY <1>4, <1>7 DEF NumWords, w
  <2> QED
    BY <1>1, <1>a, <2>1 DEF Start, Return
<1>b. CASE ReadEmpty("pre_states", "post_states")
  <2>1. word = 0
    BY <1>b DEF ReadEmpty, Inv, Position
  <2>2. Readable(word) /\ WordAt(word) = 0
    BY <1>4, <1>6, <1>7, <2>1
  <2> QED
    BY <1>b, <2>2 DEF ReadEmpty, TooShort, Advance
<1>c. CASE ReadEmpty("post_states", "ciphertexts")
  <2>1. word = 1
    BY <1>c DEF ReadEmpty, Inv, Position
  <2>2. Readable(word) /\ WordAt(word) = 0
    BY <1>4, <1>6, <1>7, <2>1
  <2> QED
    BY <1>c, <2>2 DEF ReadEmpty, TooShort, Advance
<1>d. CASE ReadCiphertextCount
  <2>1. word = 2
    BY <1>d DEF ReadCiphertextCount, Inv, Position
  <2>2. Readable(word) /\ WordAt(word) = n
    BY <1>4, <1>6, <1>7, <2>1
  <2>3. word' = 3 /\ left' = n /\ pc' = "ciphertext"
    BY <1>d, <2>1, <2>2 DEF ReadCiphertextCount, TooShort, Advance
  <2>4. n - left' = 0 /\ left' <= n
    BY <1>2, <2>3
  <2> QED
    BY <1>7, <2>3, <2>4
<1>e. CASE SkipCiphertext
  <2> DEFINE i == n - left + 1
  <2>1. pc = "ciphertext" /\ left > 0 /\ left <= n /\ word = place[n - left]
    BY <1>10, <1>e DEF SkipCiphertext
  <2>2. /\ i \in 1 .. n /\ i \in 0 .. n /\ i - 1 \in 0 .. n
        /\ i - 1 = n - left /\ n - (left - 1) = i /\ left - 1 <= n
    BY <1>2, <1>4, <2>1
  <2> HIDE DEF i
  <2>3. /\ word < Len(w) /\ place[i] < Len(w)
        /\ place[i] = word + 1 + w[word + 1]
    BY <1>1, <2>1, <2>2 DEF Laid, n
  <2>4. Readable(word) /\ WordAt(word) = w[word + 1]
    BY <1>4, <1>6, <2>3
  <2>5. ~(word + 1 + WordAt(word) > UsizeMax)
    <3>1. place[i] \in Nat
      BY <1>1, <2>2
    <3> QED
      BY <1>4, <2>3, <2>4, <3>1
  <2>6. word' = word + 1 + WordAt(word) /\ left' = left - 1 /\ pc' = "ciphertext"
    BY <1>e, <2>4, <2>5 DEF SkipCiphertext, TooShort, Advance
  <2>7. word' = place[i] /\ n - left' = i /\ left' <= n
    BY <2>2, <2>3, <2>4, <2>6
  <2> QED
    BY <2>6, <2>7
<1>f. CASE EndCiphertexts
  <2>1. /\ pc = "ciphertext" /\ left = 0 /\ pc' = "commitments" /\ word' = word
    BY <1>f DEF EndCiphertexts, Return
  <2>2. n - left = n
    BY <1>2, <2>1
  <2> QED
    BY <1>10, <2>1, <2>2 DEF c
<1>g. CASE SkipCommitments
  <2>1. pc = "commitments" /\ word = c
    BY <1>10, <1>g DEF SkipCommitments
  <2>2. Readable(word) /\ WordAt(word) = Len(o.commitments)
    BY <1>5, <1>6, <1>8, <2>1
  <2>3. word + 1 + WordAt(word) * FieldLen = q
    BY <2>1, <2>2 DEF q, r
  <2>4. ~(q > UsizeMax)
    BY <1>4, <1>5, <1>8
  <2>5. word' = q /\ pc' = "nullifiers"
    BY <1>g, <2>2, <2>3, <2>4 DEF SkipCommitments, TooShort, Advance
  <2> QED
    BY <2>5
<1>h. CASE FindEntry
  <2>1. pc = "nullifiers" /\ word = q
    BY <1>10, <1>h DEF FindEntry
  <2>2. Readable(word) /\ WordAt(word) = m
    BY <1>5, <1>6, <1>8, <2>1
  <2>3. CASE ~(entryIndex < m)
    BY <1>h, <2>2, <2>3 DEF FindEntry, TooShort, Return
  <2>4. CASE entryIndex < m
    <3>1. word' = EntryOffset(q + 1) /\ pc' = "entry"
      BY <1>h, <2>1, <2>2, <2>4 DEF FindEntry, TooShort, Advance
    <3>2. EntryOffset(q + 1) = q + 1 + entryIndex * EntryLen
      BY DEF EntryOffset, EntryLen
    <3> QED
      BY <2>4, <3>1, <3>2
  <2> QED
    BY <2>3, <2>4
<1>i. CASE ReadEntry
  <2> DEFINE a == o.nullifiers[entryIndex + 1][1]
  <2>1. pc = "entry" /\ entryIndex < m /\ word = q + 1 + entryIndex * EntryLen
    BY <1>10, <1>i DEF ReadEntry
  <2>2. Lies(w, word, a)
    <3>1. entryIndex \in 0 .. m - 1
      BY <1>2, <1>4, <2>1
    <3> QED
      BY <1>8, <2>1, <3>1
  <2>3. a \in Seq(0 .. ByteMax) /\ Len(a) = FieldLen
    <3>1. entryIndex + 1 \in 1 .. m
      BY <1>2, <1>4, <2>1
    <3> QED
      BY <1>2, <3>1 DEF Field
  <2> HIDE DEF a
  <2>4. a \in [1 .. FieldLen -> 0 .. ByteMax]
    BY <2>3, LenProperties
  <2>5. ASSUME NEW k \in 1 .. FieldLen
        PROVE  Readable(word + k - 1) /\ WordAt(word + k - 1) = a[k]
    <3>1. word + k - 1 \in Nat /\ word + k - 1 + 1 = word + k
      BY <1>3, <1>4
    <3>2. w[word + k] = a[k] /\ word + k - 1 < Len(w)
      BY <1>3, <1>4, <2>2, <2>3 DEF Lies
    <3> QED
      BY <1>6, <3>1, <3>2
  <2>6. ASSUME NEW k \in 0 .. FieldLen - 1 PROVE IsByteAt(word + k)
    <3>1. k + 1 \in 1 .. FieldLen /\ word + (k + 1) - 1 = word + k
      BY <1>3, <1>4
    <3>2. a[k + 1] \in 0 .. ByteMax
      BY <2>4, <3>1
    <3>3. Readable(word + k) /\ WordAt(word + k) = a[k + 1]
      <4> DEFINE j == k + 1
      <4>1. j \in 1 .. FieldLen /\ word + j - 1 = word + k
        BY <3>1
      <4> HIDE DEF j
      <4>2. Readable(word + j - 1) /\ WordAt(word + j - 1) = a[j]
        BY <2>5, <4>1
      <4> QED
        BY <4>1, <4>2 DEF j
    <3> QED
      BY <1>3, <3>2, <3>3 DEF IsByteAt
  <2>7. nullifier' = [k \in 1 .. FieldLen |-> WordAt(word + k - 1)] /\ pc' = "ok"
    BY <1>i, <2>6 DEF ReadEntry
  <2>8. nullifier' = a
    BY <2>4, <2>5, <2>7
  <2> QED
    BY <2>1, <2>7, <2>8 DEF a
<1>j. CASE UNCHANGED vars
  BY <1>10, <1>j DEF vars
<1> QED
  BY <1>a, <1>b, <1>c, <1>d, <1>e, <1>f, <1>g, <1>h, <1>i, <1>j DEF Next

\* Over every output whose encoding the journal is, the walk is on its track.
OnTrack ==
    journal.odd = 0 =>
      \A o \in Output : journal.words = Encoding[o] =>
        \E place \in [0 .. Len(o.ciphertexts) -> Nat] :
          Carries(o, place) /\ Walks(o, place)

\* The walk starts on the track of the encoding it is given.
LEMMA TrackBegins == Init => OnTrack
<1> SUFFICES ASSUME Init, journal.odd = 0, NEW o \in Output, journal.words = Encoding[o]
             PROVE  \E place \in [0 .. Len(o.ciphertexts) -> Nat] :
                      Carries(o, place) /\ Walks(o, place)
  BY DEF OnTrack
<1>1. journal.words = Encode(o)
  BY DEF Encoding
<1>2. PICK place \in [0 .. Len(o.ciphertexts) -> Nat] :
        /\ Laid(Encode(o), o, place)
        /\ Listed(Encode(o), o, place[Len(o.ciphertexts)])
  BY EncodingIsLaid
<1>3. Carries(o, place)
  BY <1>1, <1>2 DEF Carries
<1>4. Walks(o, place)
  BY DEF Init, Walks, Errors
<1> QED
  BY <1>2, <1>3, <1>4

\* No step leaves it.
LEMMA TrackStep == Inv /\ OnTrack /\ [Next]_vars => OnTrack'
<1> SUFFICES ASSUME Inv, OnTrack, [Next]_vars, journal'.odd = 0,
                    NEW o \in Output, journal'.words = Encoding[o]
             PROVE  \E place \in [0 .. Len(o.ciphertexts) -> Nat] :
                      Carries(o, place)' /\ Walks(o, place)'
  BY DEF OnTrack, Encoding
<1>1. UNCHANGED journal
  BY ArgumentsStay
<1>2. PICK place \in [0 .. Len(o.ciphertexts) -> Nat] :
        Carries(o, place) /\ Walks(o, place)
  BY <1>1 DEF OnTrack
<1>3. Walks(o, place)'
  BY <1>2, WalkStep
<1>4. Carries(o, place)'
  BY <1>1, <1>2 DEF Carries
<1> QED
  BY <1>2, <1>3, <1>4

\* The bytes that an honest prover commits decode to the nullifier at the index,
\* for every circuit output and every field length.
THEOREM Decodes == Spec => []DecodesOutputs
<1>1. OnTrack => DecodesOutputs
  <2> SUFFICES ASSUME OnTrack, Done, journal.odd = 0,
                      NEW o \in Output, journal.words = Encoding[o]
               PROVE  IF entryIndex < Len(o.nullifiers)
                      THEN pc = "ok" /\ nullifier = o.nullifiers[entryIndex + 1][1]
                      ELSE pc = "NullifierIndexOutOfRange"
    BY DEF DecodesOutputs
  <2>1. PICK place \in [0 .. Len(o.ciphertexts) -> Nat] : Walks(o, place)
    BY DEF OnTrack
  <2> QED
    BY <2>1 DEF Walks, Done
<1> QED
  BY <1>1, TrackBegins, TrackStep, Placed, PTL DEF Spec

-----------------------------------------------------------------------------
(***************************************************************************)
(* The walk to an entry that is there                                      *)
(***************************************************************************)
\* What Starts computes.
AreStarts(starts) ==
    /\ starts \in [0 .. WordAt(2) -> Nat] /\ starts[0] = 3
    /\ \A i \in 1 .. WordAt(2) :
         starts[i] = starts[i - 1] + 1 + WordAt(starts[i - 1])

\* HasEntry, for these starts.
LeadToEntry(starts) ==
    LET c == starts[WordAt(2)]
        q == c + 1 + WordAt(c) * FieldLen
        p == q + 1 + entryIndex * EntryLen
    IN /\ journal.odd = 0 /\ WordAt(0) = 0 /\ WordAt(1) = 0
       /\ entryIndex < WordAt(q)
       /\ p + FieldLen <= NumWords(journal)
       /\ \A k \in 0 .. FieldLen - 1 : WordAt(p + k) <= ByteMax

\* Where the walk stands then; it has not failed.
Approaches(starts) ==
    LET c == starts[WordAt(2)]
        q == c + 1 + WordAt(c) * FieldLen
    IN /\ pc \notin Errors
       /\ pc = "ciphertext" => word = starts[WordAt(2) - left]
       /\ pc = "commitments" => word = c
       /\ pc = "nullifiers" => word = q
       /\ pc = "entry" => word = q + 1 + entryIndex * EntryLen

\* Every word read is a natural number.
LEMMA WordsNat ==
    ASSUME TypeOK
    PROVE  /\ NumWords(journal) \in Nat /\ NumWords(journal) <= UsizeMax
           /\ WordAt(2) \in Nat /\ \A i \in Nat : WordAt(i) \in Nat
<1>1. /\ NumWords(journal) \in Nat
      /\ NumWords(journal) + Room + EntryLen <= UsizeMax
      /\ \A i \in Nat : WordAt(i) \in 0 .. WordMax
      /\ Room \in Nat /\ EntryLen \in Nat
  BY JournalFacts
<1>2. NumWords(journal) <= UsizeMax
  BY <1>1, Widths
<1>3. \A i \in Nat : WordAt(i) \in Nat
  BY <1>1, Widths
<1> QED
  BY <1>1, <1>2, <1>3

\* The recursive function is defined.
LEMMA StartsAre == TypeOK => AreStarts(Starts)
<1> SUFFICES ASSUME TypeOK PROVE AreStarts(Starts)
  OBVIOUS
<1> DEFINE n == WordAt(2)
           move == [x \in Nat |-> x + 1 + WordAt(x)]
           pass == [i \in 1 .. n |-> move]
           Eqn(f) == f = [i \in 0 .. n |->
                            IF i = 0 THEN 3 ELSE f[i - 1] + 1 + WordAt(f[i - 1])]
           G == CHOOSE f : Eqn(f)
<1>1. n \in Nat /\ \A i \in Nat : WordAt(i) \in Nat
  BY WordsNat
<1>2. move \in [Nat -> Nat] /\ \A x \in Nat : move[x] = x + 1 + WordAt(x)
  BY <1>1
<1> HIDE DEF move
<1>3. pass \in [1 .. n -> [Nat -> Nat]] /\ \A i \in 1 .. n : pass[i] = move
  BY <1>2
<1> HIDE DEF pass
<1>4. PICK f \in [0 .. n -> Nat] : Loop(f, 3, n, pass)
  <2> DEFINE l == n
  <2>1. l \in Nat /\ pass \in [1 .. l -> [Nat -> Nat]] /\ 3 \in Nat
    BY <1>1, <1>3
  <2> HIDE DEF l
  <2>2. \E f \in [0 .. l -> Nat] : Loop(f, 3, l, pass)
    BY <2>1, LoopRuns
  <2> QED
    BY <2>2 DEF l
<1>5. f[0] = 3 /\ \A i \in 1 .. n : f[i] = f[i - 1] + 1 + WordAt(f[i - 1])
  <2>1. f[0] = 3 /\ \A i \in 1 .. n : f[i] = move[f[i - 1]]
    BY <1>3, <1>4 DEF Loop
  <2>2. \A i \in 1 .. n : f[i - 1] \in Nat
    <3> SUFFICES ASSUME NEW i \in 1 .. n PROVE f[i - 1] \in Nat
      OBVIOUS
    <3>1. i - 1 \in 0 .. n
      BY <1>1
    <3> QED
      BY <1>4, <3>1
  <2> QED
    BY <1>2, <2>1, <2>2
<1>6. Eqn(f)
  <2>1. \A i \in 0 .. n : i # 0 => i \in 1 .. n
    BY <1>1
  <2>2. \A i \in 0 .. n : f[i] = IF i = 0 THEN 3 ELSE f[i - 1] + 1 + WordAt(f[i - 1])
    BY <1>5, <2>1
  <2> HIDE DEF n
  <2> QED
    BY <1>4, <2>2
<1>7. Starts = G
  BY DEF Starts
<1>8. Eqn(G)
  <2> HIDE DEF Eqn
  <2> QED
    BY <1>6
<1> HIDE DEF G
<1>9. \A i \in 0 .. n : G[i] = IF i = 0 THEN 3 ELSE G[i - 1] + 1 + WordAt(G[i - 1])
  <2> HIDE DEF n
  <2> QED
    BY <1>8
<1>10. G[0] = 3 /\ \A i \in 1 .. n : G[i] = G[i - 1] + 1 + WordAt(G[i - 1])
  BY <1>1, <1>9
<1>11. \A i \in 0 .. n : G[i] \in Nat
  <2> DEFINE A == {i \in Nat : G[i] \in Nat}
             l == n
  <2>1. 0 \in A
    BY <1>10
  <2>2. \A i \in 0 .. l - 1 : i \in A => i + 1 \in A
    <3> SUFFICES ASSUME NEW i \in 0 .. l - 1, i \in A PROVE G[i + 1] \in Nat
      OBVIOUS
    <3>1. i + 1 \in 1 .. n /\ (i + 1) - 1 = i
      BY <1>1
    <3>2. G[i + 1] = G[i] + 1 + WordAt(G[i]) /\ G[i] \in Nat
      BY <1>10, <3>1
    <3>3. WordAt(G[i]) \in Nat
      BY <1>1, <3>2
    <3> QED
      BY <3>2, <3>3
  <2> HIDE DEF A, l
  <2>3. l \in Nat
    BY <1>1 DEF l
  <2>4. 0 .. l \subseteq A
    BY <2>1, <2>2, <2>3, BoundedInduction, Zenon
  <2> QED
    BY <2>4 DEF A, l
<1>12. G \in [0 .. n -> Nat]
  <2>1. G = [i \in 0 .. n |-> IF i = 0 THEN 3 ELSE G[i - 1] + 1 + WordAt(G[i - 1])]
    BY <1>8
  <2> HIDE DEF n, Eqn
  <2> QED
    BY <1>9, <1>11, <2>1
<1> QED
  BY <1>7, <1>10, <1>12 DEF AreStarts

\* Each ciphertext begins before the commitments.
LEMMA StartsGrow ==
    ASSUME TypeOK, NEW starts, AreStarts(starts), NEW i \in 0 .. WordAt(2)
    PROVE  starts[i] <= starts[WordAt(2)]
<1> DEFINE n == WordAt(2)
           A == {m \in Nat : \A j \in 0 .. m : starts[j] <= starts[m]}
<1>1. n \in Nat /\ \A j \in Nat : WordAt(j) \in Nat
  BY WordsNat
<1>2. /\ \A j \in 0 .. n : starts[j] \in Nat
      /\ \A j \in 1 .. n : starts[j] = starts[j - 1] + 1 + WordAt(starts[j - 1])
  BY DEF AreStarts
<1> HIDE DEF n
<1>3. 0 \in A
  <2>1. starts[0] \in Nat
    BY <1>1, <1>2
  <2> QED
    BY <2>1
<1>4. \A m \in 0 .. n - 1 : m \in A => m + 1 \in A
  <2> SUFFICES ASSUME NEW m \in 0 .. n - 1, m \in A PROVE m + 1 \in A
    OBVIOUS
  <2>1. /\ m \in 0 .. n /\ m + 1 \in 1 .. n /\ m + 1 \in 0 .. n /\ (m + 1) - 1 = m
        /\ n \in Nat
    BY <1>1
  <2>2. starts[m + 1] = starts[m] + 1 + WordAt(starts[m])
    BY <1>2, <2>1
  <2>3. starts[m] \in Nat /\ starts[m + 1] \in Nat /\ WordAt(starts[m]) \in Nat
    BY <1>1, <1>2, <2>1
  <2>4. starts[m] <= starts[m + 1]
    BY <2>2, <2>3
  <2> SUFFICES ASSUME NEW j \in 0 .. m + 1 PROVE starts[j] <= starts[m + 1]
    OBVIOUS
  <2>5. CASE j = m + 1
    BY <2>3, <2>5
  <2>6. CASE j # m + 1
    <3>1. j \in 0 .. m /\ j \in 0 .. n
      BY <2>1, <2>6
    <3>2. starts[j] <= starts[m] /\ starts[j] \in Nat
      BY <1>2, <3>1
    <3> HIDE DEF A
    <3> QED
      BY <2>3, <2>4, <3>2
  <2> QED
    BY <2>5, <2>6
<1> HIDE DEF A
<1>5. 0 .. n \subseteq A
  BY <1>1, <1>3, <1>4, BoundedInduction, Zenon
<1>6. n \in A
  <2>1. n \in 0 .. n
    BY <1>1
  <2> QED
    BY <1>5, <2>1
<1> QED
  BY <1>6 DEF A, n

\* No step strays from the way to an entry, or gives up on it.
LEMMA ApproachStep ==
    ASSUME Inv, [Next]_vars, NEW starts, AreStarts(starts), LeadToEntry(starts),
           Approaches(starts)
    PROVE  Approaches(starts)'
<1> DEFINE n == WordAt(2)
           c == starts[n]
           r == WordAt(c) * FieldLen
           q == c + 1 + r
           d == entryIndex * EntryLen
           p == q + 1 + d
<1>1. /\ NumWords(journal) \in Nat /\ NumWords(journal) <= UsizeMax
      /\ n \in Nat /\ \A i \in Nat : WordAt(i) \in Nat
      /\ FieldLen \in Nat \ {0} /\ UsizeMax \in Nat
      /\ word \in Nat /\ left \in Nat /\ entryIndex \in Nat
  BY WordsNat, Widths DEF Inv, TypeOK, Index
<1>2. /\ starts \in [0 .. n -> Nat] /\ starts[0] = 3
      /\ \A i \in 1 .. n : starts[i] = starts[i - 1] + 1 + WordAt(starts[i - 1])
  BY DEF AreStarts
<1>3. /\ journal.odd = 0 /\ WordAt(0) = 0 /\ WordAt(1) = 0
      /\ entryIndex < WordAt(q)
      /\ p + FieldLen <= NumWords(journal)
      /\ \A k \in 0 .. FieldLen - 1 : WordAt(p + k) <= ByteMax
  BY DEF LeadToEntry
<1>4. /\ pc \notin Errors
      /\ pc = "ciphertext" => word = starts[n - left]
      /\ pc = "commitments" => word = c
      /\ pc = "nullifiers" => word = q
      /\ pc = "entry" => word = p
  BY DEF Approaches
<1>5. c \in Nat /\ r \in Nat /\ d \in Nat /\ \A i \in 0 .. n : starts[i] \in Nat
  <2>1. c \in Nat
    BY <1>1, <1>2
  <2>2. EntryLen \in Nat /\ WordAt(c) \in Nat
    BY <1>1, <2>1, Widths DEF EntryLen
  <2>3. \A x, y \in Nat : x * y \in Nat
    OBVIOUS
  <2> QED
    BY <1>1, <1>2, <2>1, <2>2, <2>3
<1>6. \A i \in 0 .. n : starts[i] <= c
  BY StartsGrow DEF Inv
<1>7. UNCHANGED <<journal, entryIndex>>
  BY ArgumentsStay
<1>8. UNCHANGED WordAt(2) /\ \A i : UNCHANGED WordAt(i)
  BY <1>7 DEF WordAt, NumWords
<1> SUFFICES /\ pc' \notin Errors
             /\ pc' = "ciphertext" => word' = starts[n - left']
             /\ pc' = "commitments" => word' = c
             /\ pc' = "nullifiers" => word' = q
             /\ pc' = "entry" => word' = p
  BY <1>7, <1>8 DEF Approaches, EntryLen
<1> HIDE DEF r, d
<1>9. c < q /\ q < p /\ q \in Nat /\ p \in Nat /\ p < NumWords(journal)
  <2> HIDE DEF c
  <2> QED
    BY <1>1, <1>3, <1>5
<1> HIDE DEF p, q, c, n
<1>10. c < NumWords(journal) /\ q < NumWords(journal) /\ 2 < NumWords(journal)
  <2>1. 3 <= c
    BY <1>1, <1>2, <1>6
  <2> QED
    BY <1>1, <1>5, <1>9, <2>1
<1> USE DEF Errors, Readable
<1>a. CASE Start
  BY <1>1, <1>3, <1>10, <1>a DEF Start, Return
<1>b. CASE ReadEmpty("pre_states", "post_states")
  <2>1. word = 0
    BY <1>b DEF ReadEmpty, Inv, Position
  <2> QED
    BY <1>1, <1>3, <1>10, <1>b, <2>1 DEF ReadEmpty, TooShort, Advance
<1>c. CASE ReadEmpty("post_states", "ciphertexts")
  <2>1. word = 1
    BY <1>c DEF ReadEmpty, Inv, Position
  <2> QED
    BY <1>1, <1>3, <1>10, <1>c, <2>1 DEF ReadEmpty, TooShort, Advance
<1>d. CASE ReadCiphertextCount
  <2>1. word = 2
    BY <1>d DEF ReadCiphertextCount, Inv, Position
  <2>2. word' = 3 /\ left' = n /\ pc' = "ciphertext"
    BY <1>10, <1>d, <2>1 DEF ReadCiphertextCount, TooShort, Advance, n
  <2>3. n - left' = 0
    BY <1>1, <2>2
  <2> QED
    BY <1>2, <2>2, <2>3
<1>e. CASE SkipCiphertext
  <2> DEFINE i == n - left + 1
  <2>1. pc = "ciphertext" /\ left > 0 /\ left <= n /\ word = starts[n - left]
    BY <1>4, <1>e DEF SkipCiphertext, Inv, Position, n
  <2>2. /\ i \in 1 .. n /\ i \in 0 .. n /\ i - 1 \in 0 .. n
        /\ i - 1 = n - left /\ n - (left - 1) = i
    BY <1>1, <2>1
  <2> HIDE DEF i
  <2>3. starts[i] = word + 1 + WordAt(word)
    BY <1>2, <2>1, <2>2
  <2>4. word <= c /\ starts[i] <= c /\ starts[i] \in Nat
    BY <1>5, <1>6, <2>1, <2>2
  <2>5. Readable(word) /\ ~(word + 1 + WordAt(word) > UsizeMax)
    BY <1>1, <1>5, <1>10, <2>3, <2>4
  <2>6. word' = word + 1 + WordAt(word) /\ left' = left - 1 /\ pc' = "ciphertext"
    BY <1>e, <2>5 DEF SkipCiphertext, TooShort, Advance
  <2> QED
    BY <2>2, <2>3, <2>6
<1>f. CASE EndCiphertexts
  <2>1. /\ pc = "ciphertext" /\ left = 0 /\ pc' = "commitments" /\ word' = word
    BY <1>f DEF EndCiphertexts, Return
  <2>2. n - left = n
    BY <1>1, <2>1
  <2> QED
    BY <1>4, <2>1, <2>2 DEF c
<1>g. CASE SkipCommitments
  <2>1. pc = "commitments" /\ word = c
    BY <1>4, <1>g DEF SkipCommitments
  <2>2. Readable(word)
    BY <1>10, <2>1
  <2>3. word + 1 + WordAt(word) * FieldLen = q
    BY <2>1 DEF q, r
  <2>4. ~(q > UsizeMax)
    BY <1>1, <1>9, <1>10
  <2> QED
    BY <1>g, <2>2, <2>3, <2>4 DEF SkipCommitments, TooShort, Advance
<1>h. CASE FindEntry
  <2>1. pc = "nullifiers" /\ word = q
    BY <1>4, <1>h DEF FindEntry
  <2>2. Readable(word) /\ entryIndex < WordAt(word)
    BY <1>3, <1>10, <2>1
  <2>3. word' = EntryOffset(q + 1) /\ pc' = "entry"
    BY <1>h, <2>1, <2>2 DEF FindEntry, TooShort, Advance
  <2>4. EntryOffset(q + 1) = p
    BY DEF EntryOffset, EntryLen, p, d
  <2> QED
    BY <2>3, <2>4
<1>i. CASE ReadEntry
  <2>1. pc = "entry" /\ word = p
    BY <1>4, <1>i DEF ReadEntry
  <2>2. ASSUME NEW k \in 0 .. FieldLen - 1 PROVE IsByteAt(word + k)
    BY <1>1, <1>3, <1>9, <2>1 DEF IsByteAt
  <2>3. pc' = "ok"
    BY <1>i, <2>2 DEF ReadEntry
  <2> QED
    BY <2>3
<1>j. CASE UNCHANGED vars
  BY <1>4, <1>j DEF vars
<1> QED
  BY <1>a, <1>b, <1>c, <1>d, <1>e, <1>f, <1>g, <1>h, <1>i, <1>j DEF Next

\* Over a journal with an entry, the walk is on its way to it.
OnTheWay ==
    \A starts : AreStarts(starts) /\ LeadToEntry(starts) => Approaches(starts)

\* The decoder returns the entry at the index from every journal that has one:
\* with Accepted, it returns an error from the others only.
THEOREM Rejected == Spec => []RejectedHasNoEntry
<1>1. Init => OnTheWay
  BY DEF Init, OnTheWay, Approaches, Errors
<1>2. Inv /\ OnTheWay /\ [Next]_vars => OnTheWay'
  <2> SUFFICES ASSUME Inv, OnTheWay, [Next]_vars, NEW starts,
                      AreStarts(starts)', LeadToEntry(starts)'
               PROVE  Approaches(starts)'
    BY DEF OnTheWay
  <2>1. UNCHANGED <<journal, entryIndex>>
    BY ArgumentsStay
  <2>2. AreStarts(starts) /\ LeadToEntry(starts)
    BY <2>1 DEF AreStarts, LeadToEntry, WordAt, NumWords, EntryLen
  <2> QED
    BY <2>2, ApproachStep DEF OnTheWay
<1>3. Inv /\ OnTheWay => RejectedHasNoEntry
  <2> SUFFICES ASSUME Inv, OnTheWay, pc \in Errors, HasEntry PROVE FALSE
    BY DEF RejectedHasNoEntry
  <2>1. AreStarts(Starts)
    BY StartsAre DEF Inv
  <2>2. LeadToEntry(Starts)
    BY DEF HasEntry, LeadToEntry, EntryLen
  <2>3. Approaches(Starts)
    BY <2>1, <2>2 DEF OnTheWay
  <2> QED
    BY <2>3 DEF Approaches
<1> QED
  BY <1>1, <1>2, <1>3, Placed, PTL DEF Spec
=============================================================================
