-------------------------- MODULE MCJournalDecode --------------------------
(***************************************************************************)
(* The decoder on every short journal over three word values (0, 1 and one *)
(* larger than any journal), and on encodings of circuit outputs, some     *)
(* with bytes left over behind the last word.  FieldLen is 2 in place of   *)
(* 32, a byte is 0 or 1, and the widths shrink with them.                  *)
(***************************************************************************)
EXTENDS JournalEncoding

Huge == 40
MCWord == {0, 1, Huge}
MCByte == 0 .. 1
MCField == [1 .. 2 -> MCByte]

\* CommitmentSetDigest <<1, 0>>, and one trailing word of validity windows.
MCOutput == [ciphertexts : SeqOf(SeqOf({1}, 2), 2),
             commitments : SeqOf({<<1, 1>>}, 1),
             nullifiers  : SeqOf(MCField \X {<<1, 0>>}, 2),
             windows     : {<<1>>}]

Short == SeqOf(MCWord, 3) \union {<<0, 0>> \o t : t \in SeqOf(MCWord, 8)}
MCJournal == [words : Short \union Encoded, odd : {0}]
               \union [words : {<<>>, <<0, 0>>, <<0, 0, 0, 0, 1>>}, odd : 1 .. 3]
=============================================================================
