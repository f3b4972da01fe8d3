---------------------------- MODULE Coordinator ----------------------------
(***************************************************************************)
(* The coordinator program (coordinator/programs/coordinator/src/lib.rs),  *)
(* the consumer program it calls (coordinator/programs/consumer/src/       *)
(* lib.rs) and, from the way lib.rs uses it, the RISC Zero verifier        *)
(* router.  One action per instruction.  A Solana transaction that returns *)
(* an error changes no account, so an instruction is an action whose guard *)
(* is the conjunction of its account constraints and require!s, and a      *)
(* failing call is a stuttering step; CoordinatorExec.tla opens            *)
(* verify_predicate up into its steps and shows that this is sound.        *)
(*                                                                         *)
(* The accounts are program-derived addresses, so "the account exists" is  *)
(* the only question an `init` constraint asks, and a collection of PDAs   *)
(* seeded by a value is a set, or a function, indexed by that value.       *)
(***************************************************************************)
EXTENDS Naturals, Sequences, FiniteSets

CONSTANTS
    User,         \* signers: anyone may call every instruction
    Program,      \* programs a caller may name as consumer_program
    Consumer,     \* the one of them that is programs/consumer
    Image,        \* image ids, PRIVACY_PRESERVING_CIRCUIT_ID among them
    Selector,     \* seal selectors
    Journal,      \* journals, as byte strings
    Digest,       \* SHA-256 values
    Sha256,       \* [Journal -> Digest], collision-free
    Small,        \* the journals of at most MAX_JOURNAL_LEN bytes
    Nullifier,    \* 32-byte nullifiers
    NoNullifier,  \* the outcome of decode_nullifier_from_journal's errors
    MaxIndex,     \* the largest nullifier_index, 255 for the code's u8
    Decode,       \* Decode[j][k]: decode_nullifier_from_journal(j, k)
    Outputs,      \* Outputs[i]: the journals executions of image i commit
    NoAccount,    \* an account that does not exist
    CountMax,     \* the largest value of the u64 counters
    MaxCalls      \* bound: direct record_verification calls per nullifier

Index == 0 .. MaxIndex

ASSUME CountMaxAssumption == CountMax \in Nat /\ CountMax > 0
ASSUME BoundAssumption == MaxIndex \in Nat /\ MaxCalls \in Nat
ASSUME ConsumerAssumption == Consumer \in Program /\ NoAccount \notin Image

\* SHA-256 is modelled as a function nobody finds a collision of.
ASSUME HashAssumption ==
    /\ Sha256 \in [Journal -> Digest]
    /\ \A j1, j2 \in Journal : Sha256[j1] = Sha256[j2] => j1 = j2

ASSUME JournalAssumption ==
    /\ Small \subseteq Journal
    /\ NoNullifier \notin Nullifier
    /\ Decode \in [Journal -> [Index -> Nullifier \union {NoNullifier}]]
    /\ Outputs \in [Image -> SUBSET Journal]

\* The nullifiers that outputs of image i hold where the decoder finds them.
Committed == [i \in Image |->
    {n \in Nullifier : \E j \in Outputs[i], k \in Index : Decode[j][k] = n}]

\* A seal carries its selector and attests one claim: image and digest.
Seal == [selector : Selector, image : Image, digest : Digest]

VARIABLES
    config,    \* the config PDA: NoAccount or its contents
    journals,  \* the journal PDAs: digest |-> stored bytes
    spent,     \* the nullifiers whose spent_nullifier PDA exists
    registry,  \* the consumer's registry PDA: NoAccount or its contents
    router,    \* the router's own account and its verifier entries
    seals,     \* the valid seals that provers have made
    verified,  \* history: the PredicateVerified events, with their arguments
    recorded   \* history: how many VerificationRecorded events per nullifier

coordinatorVars == <<config, journals, spent, verified>>
consumerVars == <<registry, recorded>>
externalVars == <<router, seals>>
vars == <<config, journals, spent, registry, router, seals, verified, recorded>>

Config == [image_id : Image, authority : User, verified_count : 0 .. CountMax]
Registry == [authority : User, verified_count : 0 .. CountMax]
ASSUME NoAccountAssumption == NoAccount \notin Config \union Registry

EntryState == {"absent", "active", "stopped"}
Event == [by : User, nullifier : Nullifier, digest : Digest, index : Index,
          seal : Seal, program : Program]

\* An account holds its contents and its address's owner is never freed.
TypeOK ==
    /\ config \in Config \union {NoAccount}
    /\ DOMAIN journals \subseteq Digest
    /\ \A d \in DOMAIN journals : journals[d] \in Journal
    /\ spent \subseteq Nullifier
    /\ registry \in Registry \union {NoAccount}
    /\ router \in [initialized : BOOLEAN, entry : [Selector -> EntryState]]
    /\ seals \subseteq Seal
    /\ verified \in Seq(Event)
    /\ recorded \in [Nullifier -> Nat]

Init ==
    /\ config = NoAccount
    /\ journals = [d \in {} |-> d]
    /\ spent = {}
    /\ registry = NoAccount
    /\ router = [initialized |-> FALSE, entry |-> [s \in Selector |-> "absent"]]
    /\ seals = {}
    /\ verified = <<>>
    /\ recorded = [n \in Nullifier |-> 0]
-----------------------------------------------------------------------------
(***************************************************************************)
(* External: the verifier router and the provers                           *)
(***************************************************************************)
\* verifier_router::initialize creates the router PDA, once.
RouterInitialize ==
    /\ ~router.initialized
    /\ router' = [router EXCEPT !.initialized = TRUE]
    /\ UNCHANGED <<coordinatorVars, consumerVars, seals>>

\* verifier_router::add_verifier: an entry is keyed by its selector and is
\* never replaced.
AddVerifier(s) ==
    /\ router.initialized
    /\ router.entry[s] = "absent"
    /\ router' = [router EXCEPT !.entry[s] = "active"]
    /\ UNCHANGED <<coordinatorVars, consumerVars, seals>>

\* The router's owner stops an entry for good.
EmergencyStop(s) ==
    /\ router.entry[s] = "active"
    /\ router' = [router EXCEPT !.entry[s] = "stopped"]
    /\ UNCHANGED <<coordinatorVars, consumerVars, seals>>

\* A prover runs image i, whose journal is j, and wraps the receipt.
Prove(s, i, j) ==
    /\ j \in Outputs[i]
    /\ seals' = seals \union
                    {[selector |-> s, image |-> i, digest |-> Sha256[j]]}
    /\ UNCHANGED <<coordinatorVars, consumerVars, router>>

\* Mutant: the image id of the claim is taken from the caller, not from config.
MutRouterVerify(seal, image_id, journal_digest) ==
    seal \in seals /\ seal.digest = journal_digest

\* The outcome of verifier_router::verify.  Groth16 is taken to be sound: the
\* seals that verify are the ones provers made.
RouterVerify(seal, image_id, journal_digest) ==
    /\ seal \in seals
    /\ seal.image = image_id
    /\ seal.digest = journal_digest

-----------------------------------------------------------------------------
(***************************************************************************)
(* The consumer program                                                    *)
(***************************************************************************)
\* Mutant: a plain addition.
MutIncrement(count) == count + 1

\* u64::saturating_add(1)
Increment(count) == IF count < CountMax THEN count + 1 ELSE CountMax

ConsumerInitialize(u) ==
    /\ registry = NoAccount
    /\ registry' = [authority |-> u, verified_count |-> 0]
    /\ UNCHANGED <<coordinatorVars, recorded, externalVars>>

\* The instruction itself, for whichever signer calls it.
RecordVerification(nullifier) ==
    /\ registry # NoAccount
    /\ registry' = [registry EXCEPT !.verified_count = Increment(@)]
    /\ recorded' = [recorded EXCEPT ![nullifier] = @ + 1]

\* caller is any Signer, so the instruction can also be sent directly.
\* MaxCalls bounds the history counter; the code has no such bound.
CallRecordVerification(nullifier) ==
    /\ recorded[nullifier] < MaxCalls
    /\ RecordVerification(nullifier)
    /\ UNCHANGED <<coordinatorVars, externalVars>>

-----------------------------------------------------------------------------
(***************************************************************************)
(* The coordinator program                                                 *)
(***************************************************************************)
\* Mutant: `init_if_needed` in place of `init`.
MutInitialize(u, image_id) ==
    /\ config' = [image_id |-> image_id, authority |-> u, verified_count |-> 0]
    /\ UNCHANGED <<journals, spent, verified, consumerVars, externalVars>>

\* `init` lets this succeed once; whoever comes first chooses the image.
Initialize(u, image_id) ==
    /\ config = NoAccount
    /\ config' = [image_id |-> image_id, authority |-> u, verified_count |-> 0]
    /\ UNCHANGED <<journals, spent, verified, consumerVars, externalVars>>

\* Mutant: the PDA is seeded by a digest the caller passes.
MutStoreJournal(journal) ==
    /\ journal \in Small
    /\ \E digest \in Digest \ DOMAIN journals :
         journals' = [d \in DOMAIN journals \union {digest} |->
                        IF d = digest THEN journal ELSE journals[d]]
    /\ UNCHANGED <<config, spent, verified, consumerVars, externalVars>>

\* The PDA is seeded by the hash of the argument and `init` refuses a second
\* copy.
StoreJournal(journal) ==
    /\ Sha256[journal] \notin DOMAIN journals
    /\ journal \in Small
    /\ journals' = [d \in DOMAIN journals \union {Sha256[journal]} |->
                       IF d = Sha256[journal] THEN journal ELSE journals[d]]
    /\ UNCHANGED <<config, spent, verified, consumerVars, externalVars>>

\* Mutant: the replay guard does not insist on a fresh account.
MutVerifyAccounts(seal, journal_digest, claimed_nullifier) ==
    /\ config # NoAccount
    /\ journal_digest \in DOMAIN journals
    /\ router.initialized
    /\ router.entry[seal.selector] # "absent"

\* The account constraints of VerifyPredicate, in field order: config and the
\* journal PDA exist, the spent_nullifier PDA does not, the router account and
\* the entry of the seal's selector do.
VerifyAccounts(seal, journal_digest, claimed_nullifier) ==
    /\ config # NoAccount
    /\ journal_digest \in DOMAIN journals
    /\ claimed_nullifier \notin spent
    /\ router.initialized
    /\ router.entry[seal.selector] # "absent"

\* Mutant: the journal must hold some nullifier, not the one claimed.
MutNullifierBound(journal_digest, nullifier_index, claimed_nullifier) ==
    /\ Sha256[journals[journal_digest]] = journal_digest
    /\ Decode[journals[journal_digest]][nullifier_index] # NoNullifier

\* Steps 1 and 2 of the handler: the stored bytes hash to the digest, and the
\* nullifier they hold at the index is the one the caller claimed.
NullifierBound(journal_digest, nullifier_index, claimed_nullifier) ==
    /\ Sha256[journals[journal_digest]] = journal_digest
    /\ Decode[journals[journal_digest]][nullifier_index] = claimed_nullifier

\* Step 3: the CPI fails unless the entry is live and the proof verifies.
ProofAccepted(seal, journal_digest) ==
    /\ router.entry[seal.selector] = "active"
    /\ RouterVerify(seal, config.image_id, journal_digest)

\* Mutant: the result of the consumer's CPI is dropped.
MutForward(program, nullifier) ==
    IF program = Consumer /\ registry # NoAccount
    THEN RecordVerification(nullifier)
    ELSE UNCHANGED consumerVars

\* Step 5: the CPI into the program the caller named.  A foreign program that
\* calls the consumer in turn, which the caller could do as well, is followed
\* by CallRecordVerification.
Forward(program, nullifier) ==
    IF program = Consumer THEN RecordVerification(nullifier)
                          ELSE UNCHANGED consumerVars

\* Mutant: a rejected proof leaves the accounts written before it behind.
MutVerifyPredicate(u, seal, journal_digest, index, claimed_nullifier, program) ==
    /\ VerifyAccounts(seal, journal_digest, claimed_nullifier)
    /\ ~ProofAccepted(seal, journal_digest)
    /\ spent' = spent \union {claimed_nullifier}
    /\ UNCHANGED <<config, journals, verified, consumerVars, externalVars>>

VerifyPredicate(u, seal, journal_digest, index, claimed_nullifier, program) ==
    /\ VerifyAccounts(seal, journal_digest, claimed_nullifier)
    /\ NullifierBound(journal_digest, index, claimed_nullifier)
    /\ ProofAccepted(seal, journal_digest)
    /\ spent' = spent \union {claimed_nullifier}
    /\ config' = [config EXCEPT !.verified_count = Increment(@)]
    /\ Forward(program, claimed_nullifier)
    /\ verified' = Append(verified,
            [by |-> u, nullifier |-> claimed_nullifier,
             digest |-> journal_digest, index |-> index,
             seal |-> seal, program |-> program])
    /\ UNCHANGED <<journals, externalVars>>

-----------------------------------------------------------------------------
External ==
    \/ RouterInitialize
    \/ \E s \in Selector : AddVerifier(s) \/ EmergencyStop(s)
    \/ \E s \in Selector, i \in Image, j \in Journal : Prove(s, i, j)

ConsumerStep ==
    \/ \E u \in User : ConsumerInitialize(u)
    \/ \E n \in Nullifier : CallRecordVerification(n)

CoordinatorStep ==
    \/ \E u \in User, i \in Image : Initialize(u, i)
    \/ \E j \in Journal : StoreJournal(j)
    \/ \E u \in User, seal \in Seal, d \in Digest, k \in Index,
          n \in Nullifier, p \in Program : VerifyPredicate(u, seal, d, k, n, p)

Next == External \/ ConsumerStep \/ CoordinatorStep

Spec == Init /\ [][Next]_vars
-----------------------------------------------------------------------------
(***************************************************************************)
(* Properties                                                              *)
(***************************************************************************)
\* No two accepted verifications carry the same nullifier, whichever proofs,
\* journals, indices, callers and consumers they came with: the spent_nullifier
\* PDA is keyed by the value the journal holds, not by the transaction.
NoReplay ==
    \A a, b \in DOMAIN verified :
        verified[a].nullifier = verified[b].nullifier => a = b

\* "A caller cannot get a fabricated nullifier recorded" (lib.rs:84): every
\* nullifier ever accepted is one that a journal committed by an execution of
\* the configured image holds at the index the caller named.
NullifierWasCommitted ==
    \A a \in DOMAIN verified :
        /\ config # NoAccount
        /\ \E j \in Outputs[config.image_id] :
              /\ Sha256[j] = verified[a].digest
              /\ Decode[j][verified[a].index] = verified[a].nullifier

\* A transaction takes effect as a whole: a nullifier is spent exactly when a
\* verification was announced for it, and the config's count is the number of
\* announcements until it saturates.  (No nullifier is burned by a failing
\* proof or consumer, and none is announced without being spent.)
SpentIsVerified ==
    /\ spent = {verified[a].nullifier : a \in DOMAIN verified}
    /\ config # NoAccount =>
         config.verified_count =
            IF Len(verified) < CountMax THEN Len(verified) ELSE CountMax

\* The verifications that named the consumer.
Told == {a \in DOMAIN verified : verified[a].program = Consumer}

\* Every verification that named the consumer reached its registry, in the
\* same transaction: step 5 is never skipped once steps 1 to 4 took effect, so
\* the registry, which anyone may also write to, never counts fewer than the
\* coordinator has told it of, unless its u64 is full.
ConsumerWasTold ==
    /\ registry = NoAccount => Told = {}
    /\ registry # NoAccount =>
         \/ registry.verified_count >= Cardinality(Told)
         \/ registry.verified_count = CountMax
    /\ \A a \in Told : recorded[verified[a].nullifier] > 0

\* "keyed by the journal's own hash, so the content is self-certifying"
\* (lib.rs:61): the address of a journal account determines its bytes, and no
\* journal above MAX_JOURNAL_LEN is stored.
SelfCertifying ==
    \A d \in DOMAIN journals : Sha256[journals[d]] = d /\ journals[d] \in Small

\* Every seal attests a journal that its image really committed.  With it the
\* conjuncts above are inductive: a verification's claim is genuine because its
\* seal is, and its nullifier is fresh because spent holds exactly the old ones.
SealsGenuine ==
    \A s \in seals : \E j \in Outputs[s.image] : Sha256[j] = s.digest

IInv ==
    /\ TypeOK
    /\ SealsGenuine
    /\ SelfCertifying
    /\ SpentIsVerified
    /\ NoReplay
    /\ NullifierWasCommitted
    /\ ConsumerWasTold

\* What an account once said is never taken back: the image and the authority
\* set by initialize stay, counts do not decrease, a stored journal keeps its
\* bytes, and a spent nullifier stays spent.  No order of re-initialisations,
\* second stores and verifications can reopen one.
Irrevocable ==
    /\ config # NoAccount =>
         /\ config' # NoAccount
         /\ config'.image_id = config.image_id
         /\ config'.authority = config.authority
         /\ config'.verified_count >= config.verified_count
    /\ registry # NoAccount =>
         /\ registry' # NoAccount
         /\ registry'.verified_count >= registry.verified_count
    /\ \A d \in DOMAIN journals :
         d \in DOMAIN journals' /\ journals'[d] = journals[d]
    /\ spent \subseteq spent'

AccountsIrrevocable == [][Irrevocable]_vars

\* The coordinator implements the abstract settlement: accounts, seals, the
\* router, journals and the consumer are details of how a committed nullifier
\* is accepted once.
Ledger == INSTANCE Settlement WITH
    NoImage <- NoAccount,
    image <- IF config = NoAccount THEN NoAccount ELSE config.image_id,
    accepted <- [a \in DOMAIN verified |-> verified[a].nullifier],
    count <- IF config = NoAccount THEN 0 ELSE config.verified_count

ImplementsSettlement == Ledger!Spec

\* What a document says and the programs do not do.  "nullifier PDA replay
\* guard (one proof, one use)" (docs/architectural-research-litepaper.md:168):
\* a proof is used at most once.
OneProofOneUse ==
    \A a, b \in DOMAIN verified :
        verified[a].seal = verified[b].seal => a = b
=============================================================================
