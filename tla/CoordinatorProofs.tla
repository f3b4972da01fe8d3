------------------------- MODULE CoordinatorProofs -------------------------
(***************************************************************************)
(* Proofs about Coordinator, for every number of users, programs, images,  *)
(* selectors, journals and nullifiers, every decoder and every value of    *)
(* the counters' width.                                                    *)
(***************************************************************************)
EXTENDS Coordinator, FiniteSetTheorems, TLAPS

\* u64::saturating_add(1) stays within the width (lib.rs:135).
LEMMA IncrementType ==
    ASSUME NEW c \in 0 .. CountMax
    PROVE  Increment(c) \in 0 .. CountMax /\ Increment(c) >= c /\ Increment(c) > 0
  BY CountMaxAssumption DEF Increment

\* No account exists at first.
LEMMA InitType == Init => TypeOK
  BY CountMaxAssumption DEF Init, TypeOK, EntryState

\* Whatever instruction is executed, every account keeps its layout.
LEMMA StepType == TypeOK /\ [Next]_vars => TypeOK'
<1> SUFFICES ASSUME TypeOK, [Next]_vars PROVE TypeOK'
  OBVIOUS
<1> USE DEF TypeOK
<1>1. CASE RouterInitialize
  BY <1>1 DEF RouterInitialize, coordinatorVars, consumerVars, externalVars
<1>2. ASSUME NEW s \in Selector, AddVerifier(s) PROVE TypeOK'
  BY <1>2 DEF AddVerifier, coordinatorVars, consumerVars, EntryState
<1>3. ASSUME NEW s \in Selector, EmergencyStop(s) PROVE TypeOK'
  BY <1>3 DEF EmergencyStop, coordinatorVars, consumerVars, EntryState
<1>4. ASSUME NEW s \in Selector, NEW i \in Image, NEW j \in Journal,
             Prove(s, i, j)
      PROVE  TypeOK'
  BY <1>4, HashAssumption DEF Prove, coordinatorVars, consumerVars, Seal
<1>5. ASSUME NEW u \in User, ConsumerInitialize(u) PROVE TypeOK'
  BY <1>5, CountMaxAssumption
     DEF ConsumerInitialize, coordinatorVars, externalVars, Registry
<1>6. ASSUME NEW n \in Nullifier, RecordVerification(n)
      PROVE  /\ registry' \in Registry \union {NoAccount}
             /\ recorded' \in [Nullifier -> Nat]
  BY <1>6, IncrementType DEF RecordVerification, Registry
<1>7. ASSUME NEW n \in Nullifier, CallRecordVerification(n) PROVE TypeOK'
  BY <1>6, <1>7 DEF CallRecordVerification, coordinatorVars, externalVars
<1>8. ASSUME NEW u \in User, NEW i \in Image, Initialize(u, i) PROVE TypeOK'
  BY <1>8, CountMaxAssumption
     DEF Initialize, consumerVars, externalVars, Config
<1>9. ASSUME NEW j \in Journal, StoreJournal(j) PROVE TypeOK'
  BY <1>9, HashAssumption DEF StoreJournal, consumerVars, externalVars
<1>10. ASSUME NEW u \in User, NEW seal \in Seal, NEW d \in Digest,
              NEW k \in Index, NEW n \in Nullifier, NEW p \in Program,
              VerifyPredicate(u, seal, d, k, n, p)
       PROVE  TypeOK'
  <2> USE <1>10 DEF VerifyPredicate
  <2>1. config \in Config
    BY DEF VerifyAccounts
  <2>2. config' \in Config \union {NoAccount}
    BY <2>1, IncrementType DEF Config
  <2>3. /\ registry' \in Registry \union {NoAccount}
        /\ recorded' \in [Nullifier -> Nat]
    BY <1>6 DEF Forward, consumerVars
  <2>4. verified' \in Seq(Event)
    BY DEF Event
  <2> QED
    BY <2>2, <2>3, <2>4 DEF externalVars
<1>11. CASE UNCHANGED vars
  BY <1>11 DEF vars
<1> QED
  BY <1>1, <1>2, <1>3, <1>4, <1>5, <1>7, <1>8, <1>9, <1>10, <1>11
     DEF Next, External, ConsumerStep, CoordinatorStep

\* Accounts keep their layout whatever instructions are sent, in any order.
THEOREM TypeCorrect == Spec => []TypeOK
  BY InitType, StepType, PTL DEF Spec

-----------------------------------------------------------------------------
\* The two instructions that write more than one account, and the rest.
IsStore == \E j \in Journal : StoreJournal(j)
IsVerify == \E u \in User, seal \in Seal, d \in Digest, k \in Index,
              n \in Nullifier, p \in Program : VerifyPredicate(u, seal, d, k, n, p)

\* consumer::record_verification only moves its counts up (consumer lib.rs:30).
LEMMA RecordingGrows ==
    ASSUME TypeOK, NEW n \in Nullifier, RecordVerification(n)
    PROVE  /\ registry # NoAccount /\ registry' # NoAccount
           /\ registry'.verified_count >= registry.verified_count
           /\ registry'.verified_count = Increment(registry.verified_count)
           /\ \A m \in Nullifier : recorded'[m] >= recorded[m]
           /\ recorded'[n] > 0
<1>1. registry \in Registry /\ recorded \in [Nullifier -> Nat]
  BY DEF TypeOK, RecordVerification
<1>2. registry' = [registry EXCEPT !.verified_count =
                                     Increment(registry.verified_count)]
  BY DEF RecordVerification
<1>3. registry' \in Registry
  BY <1>1, <1>2, IncrementType DEF Registry
<1>4. registry'.verified_count = Increment(registry.verified_count)
  BY <1>1, <1>2 DEF Registry
<1>5. registry'.verified_count >= registry.verified_count
  BY <1>1, <1>4, IncrementType DEF Registry
<1>6. registry # NoAccount /\ registry' # NoAccount
  BY <1>1, <1>3, NoAccountAssumption
<1>7. /\ \A m \in Nullifier : recorded'[m] >= recorded[m]
      /\ recorded'[n] > 0
  BY <1>1 DEF RecordVerification
<1> QED
  BY <1>4, <1>5, <1>6, <1>7

\* There are finitely many verifications, and none at first.
LEMMA ToldIsFinite ==
    ASSUME TypeOK
    PROVE  /\ IsFiniteSet(Told) /\ Cardinality(Told) \in Nat
           /\ Told = {} => Cardinality(Told) = 0
<1>1. Len(verified) \in Nat /\ DOMAIN verified = 1 .. Len(verified)
  BY DEF TypeOK
<1>2. IsFiniteSet(1 .. Len(verified))
  BY <1>1, FS_Interval
<1>3. Told \subseteq 1 .. Len(verified)
  BY <1>1 DEF Told
<1>4. IsFiniteSet(Told)
  BY <1>2, <1>3, FS_Subset
<1> QED
  BY <1>4, FS_CardinalityType, FS_EmptySet

\* What every other instruction, of the coordinator, the consumer, the router
\* or a prover, leaves alone and what it may still change.
LEMMA QuietStep ==
    ASSUME TypeOK, [Next]_vars, ~IsStore, ~IsVerify
    PROVE  /\ UNCHANGED <<journals, spent, verified>>
           /\ \/ UNCHANGED config
              \/ /\ config = NoAccount
                 /\ config' # NoAccount
                 /\ config'.verified_count = 0
           /\ registry # NoAccount =>
                /\ registry' # NoAccount
                /\ registry'.verified_count >= registry.verified_count
           /\ \A m \in Nullifier : recorded'[m] >= recorded[m]
           /\ SealsGenuine => SealsGenuine'
<1> DEFINE Goal ==
      /\ UNCHANGED <<journals, spent, verified>>
      /\ \/ UNCHANGED config
         \/ /\ config = NoAccount
            /\ config' # NoAccount
            /\ config'.verified_count = 0
      /\ registry # NoAccount =>
           /\ registry' # NoAccount
           /\ registry'.verified_count >= registry.verified_count
      /\ \A m \in Nullifier : recorded'[m] >= recorded[m]
      /\ SealsGenuine => SealsGenuine'
<1>a. /\ recorded \in [Nullifier -> Nat]
      /\ registry # NoAccount => registry.verified_count \in Nat
  BY CountMaxAssumption DEF TypeOK, Registry
<1>b. ASSUME UNCHANGED <<coordinatorVars, consumerVars, seals>> PROVE Goal
  BY <1>a, <1>b DEF coordinatorVars, consumerVars, SealsGenuine
<1>1. CASE RouterInitialize
  BY <1>1, <1>b DEF RouterInitialize
<1>2. ASSUME NEW s \in Selector, AddVerifier(s) PROVE Goal
  BY <1>2, <1>b DEF AddVerifier
<1>3. ASSUME NEW s \in Selector, EmergencyStop(s) PROVE Goal
  BY <1>3, <1>b DEF EmergencyStop
<1>4. ASSUME NEW s \in Selector, NEW i \in Image, NEW j \in Journal,
             Prove(s, i, j)
      PROVE  Goal
  <2>1. SealsGenuine => SealsGenuine'
    BY <1>4 DEF Prove, SealsGenuine
  <2> QED
    BY <1>a, <1>4, <2>1 DEF Prove, coordinatorVars, consumerVars
<1>5. ASSUME NEW u \in User, ConsumerInitialize(u) PROVE Goal
  BY <1>a, <1>5
     DEF ConsumerInitialize, coordinatorVars, externalVars, SealsGenuine
<1>6. ASSUME NEW n \in Nullifier, CallRecordVerification(n) PROVE Goal
  BY <1>6, RecordingGrows
     DEF CallRecordVerification, coordinatorVars, externalVars, SealsGenuine
<1>7. ASSUME NEW u \in User, NEW i \in Image, Initialize(u, i) PROVE Goal
  <2>1. config' \in Config
    BY <1>7, CountMaxAssumption DEF Initialize, Config
  <2>2. config' # NoAccount
    BY <2>1, NoAccountAssumption
  <2> QED
    BY <1>a, <1>7, <2>2
       DEF Initialize, consumerVars, externalVars, SealsGenuine
<1>8. CASE UNCHANGED vars
  BY <1>8, <1>b DEF vars, coordinatorVars, consumerVars
<1> QED
  BY <1>1, <1>2, <1>3, <1>4, <1>5, <1>6, <1>7, <1>8
     DEF Next, External, ConsumerStep, CoordinatorStep, IsStore, IsVerify
\* Initially every part of the invariant holds of no verification at all.
LEMMA InitInv == Init => IInv
<1> SUFFICES ASSUME Init PROVE IInv
  OBVIOUS
<1>1. TypeOK
  BY InitType
<1>2. /\ verified = <<>> /\ DOMAIN verified = {} /\ config = NoAccount
      /\ spent = {} /\ seals = {} /\ DOMAIN journals = {}
      /\ registry = NoAccount
  BY DEF Init
<1>3. Told = {}
  BY <1>2 DEF Told
<1> QED
  BY <1>1, <1>2, <1>3 DEF IInv, SealsGenuine, SelfCertifying, SpentIsVerified,
                    NoReplay, NullifierWasCommitted, ConsumerWasTold

\* A quiet step keeps the invariant; initialize can set the count to zero
\* because nothing was verified before the config existed.
LEMMA QuietInv ==
    ASSUME IInv, [Next]_vars, ~IsStore, ~IsVerify
    PROVE  IInv'
<1>0. TypeOK
  BY DEF IInv
<1>1. TypeOK'
  BY <1>0, StepType
<1>q. /\ UNCHANGED <<journals, spent, verified>>
      /\ \/ UNCHANGED config
         \/ /\ config = NoAccount
            /\ config' # NoAccount
            /\ config'.verified_count = 0
      /\ registry # NoAccount =>
           /\ registry' # NoAccount
           /\ registry'.verified_count >= registry.verified_count
      /\ \A m \in Nullifier : recorded'[m] >= recorded[m]
      /\ SealsGenuine => SealsGenuine'
  BY <1>0, QuietStep
<1>2. verified \in Seq(Event) /\ \A a \in DOMAIN verified : verified[a] \in Event
  BY <1>0 DEF TypeOK
<1>3. config = NoAccount => DOMAIN verified = {} /\ Len(verified) = 0
  BY <1>2 DEF IInv, NullifierWasCommitted
<1>4. SealsGenuine' /\ SelfCertifying' /\ NoReplay'
  BY <1>q DEF IInv, SelfCertifying, NoReplay
<1>5. SpentIsVerified'
  BY <1>q, <1>3, CountMaxAssumption DEF IInv, SpentIsVerified
<1>6. NullifierWasCommitted'
  BY <1>q, <1>3 DEF IInv, NullifierWasCommitted
<1>7. ConsumerWasTold'
  <2>1. Told' = Told /\ Cardinality(Told) \in Nat
    BY <1>0, <1>q, ToldIsFinite DEF Told
  <2>2. /\ registry # NoAccount => registry \in Registry
        /\ registry' # NoAccount => registry' \in Registry
        /\ recorded \in [Nullifier -> Nat] /\ recorded' \in [Nullifier -> Nat]
    BY <1>0, <1>1 DEF TypeOK
  <2>3. registry' = NoAccount => Told' = {}
    BY <1>q, <2>1 DEF IInv, ConsumerWasTold
  <2>4. ASSUME registry' # NoAccount
        PROVE  \/ registry'.verified_count >= Cardinality(Told)
               \/ registry'.verified_count = CountMax
    <3>1. registry'.verified_count \in 0 .. CountMax
      BY <2>2, <2>4 DEF Registry
    <3>2. CASE registry = NoAccount
      <4>1. Cardinality(Told) = 0
        BY <1>0, <3>2, ToldIsFinite DEF IInv, ConsumerWasTold
      <4> QED
        BY <3>1, <4>1
    <3>3. CASE registry # NoAccount
      <4>1. /\ registry.verified_count \in 0 .. CountMax
            /\ registry'.verified_count >= registry.verified_count
        BY <1>q, <2>2, <3>3 DEF Registry
      <4>2. \/ registry.verified_count >= Cardinality(Told)
            \/ registry.verified_count = CountMax
        BY <3>3 DEF IInv, ConsumerWasTold
      <4> QED
        BY <2>1, <3>1, <4>1, <4>2, CountMaxAssumption
    <3> QED
      BY <3>2, <3>3
  <2>5. ASSUME NEW a \in Told PROVE recorded'[verified[a].nullifier] > 0
    <3>1. verified[a].nullifier \in Nullifier
      BY <1>2 DEF Told, Event
    <3>2. recorded[verified[a].nullifier] > 0
      BY DEF IInv, ConsumerWasTold
    <3> QED
      BY <1>q, <2>2, <3>1, <3>2
  <2> QED
    BY <1>q, <2>1, <2>3, <2>4, <2>5 DEF ConsumerWasTold
<1> QED
  BY <1>1, <1>4, <1>5, <1>6, <1>7 DEF IInv

\* store_journal adds a self-certifying account and nothing else.
LEMMA StoreInv ==
    ASSUME IInv, NEW j \in Journal, StoreJournal(j)
    PROVE  IInv'
<1>1. TypeOK'
  BY StepType DEF IInv, Next, CoordinatorStep
<1>2. UNCHANGED <<config, spent, verified, registry, recorded, seals>>
  BY DEF StoreJournal, consumerVars, externalVars
<1>3. SelfCertifying'
  BY HashAssumption DEF IInv, SelfCertifying, StoreJournal
<1> QED
  BY <1>1, <1>2, <1>3
     DEF IInv, SealsGenuine, SpentIsVerified, NoReplay, NullifierWasCommitted,
         ConsumerWasTold, Told

\* What verify_predicate establishes about the nullifier it accepts: it is
\* fresh, and an output of the configured image holds it at the index (lib.rs
\* lines 106 to 132 together with the init of spent_nullifier).
LEMMA AcceptedIsFreshAndCommitted ==
    ASSUME IInv,
           NEW u \in User, NEW seal \in Seal, NEW d \in Digest, NEW k \in Index,
           NEW n \in Nullifier, NEW p \in Program,
           VerifyPredicate(u, seal, d, k, n, p)
    PROVE  /\ \A a \in DOMAIN verified : verified[a].nullifier # n
           /\ config \in Config
           /\ \E j \in Outputs[config.image_id] :
                 Sha256[j] = d /\ Decode[j][k] = n
<1>1. config \in Config
  BY DEF VerifyPredicate, VerifyAccounts, IInv, TypeOK
<1>2. \A a \in DOMAIN verified : verified[a].nullifier # n
  BY DEF VerifyPredicate, VerifyAccounts, IInv, SpentIsVerified
<1>3. PICK j \in Outputs[config.image_id] : Sha256[j] = d
  BY DEF VerifyPredicate, ProofAccepted, RouterVerify, IInv, SealsGenuine
<1>4. j \in Journal /\ d \in DOMAIN journals /\ journals[d] \in Journal
  BY <1>1, <1>3, JournalAssumption
     DEF VerifyPredicate, VerifyAccounts, IInv, TypeOK, Config
<1>5. Sha256[journals[d]] = d /\ Decode[journals[d]][k] = n
  BY DEF VerifyPredicate, NullifierBound
<1>6. journals[d] = j
  BY <1>3, <1>4, <1>5, HashAssumption
<1> QED
  BY <1>1, <1>2, <1>3, <1>5, <1>6

\* verify_predicate keeps the invariant.
LEMMA VerifyInv ==
    ASSUME IInv,
           NEW u \in User, NEW seal \in Seal, NEW d \in Digest, NEW k \in Index,
           NEW n \in Nullifier, NEW p \in Program,
           VerifyPredicate(u, seal, d, k, n, p)
    PROVE  IInv'
<1> DEFINE e == [by |-> u, nullifier |-> n, digest |-> d, index |-> k,
                 seal |-> seal, program |-> p]
<1>0. TypeOK /\ verified \in Seq(Event) /\ e \in Event
  BY DEF IInv, TypeOK, Event
<1>1. TypeOK'
  BY <1>0, StepType DEF Next, CoordinatorStep
<1>2. /\ verified' = Append(verified, e)
      /\ DOMAIN verified = 1 .. Len(verified) /\ Len(verified) \in Nat
      /\ DOMAIN verified' = DOMAIN verified \union {Len(verified) + 1}
      /\ Len(verified') = Len(verified) + 1
      /\ verified'[Len(verified) + 1] = e
      /\ \A a \in DOMAIN verified : verified'[a] = verified[a]
  BY <1>0 DEF VerifyPredicate
<1>3. /\ \A a \in DOMAIN verified : verified[a].nullifier # n
      /\ config \in Config
      /\ \E j \in Outputs[config.image_id] :
            Sha256[j] = d /\ Decode[j][k] = n
  BY AcceptedIsFreshAndCommitted
<1>4. config # NoAccount /\ config'.image_id = config.image_id
      /\ config'.verified_count = Increment(config.verified_count)
      /\ config' # NoAccount
  <2>1. config' = [config EXCEPT !.verified_count =
                                   Increment(config.verified_count)]
    BY DEF VerifyPredicate
  <2>2. config' \in Config
    BY <1>3, <2>1, IncrementType DEF Config
  <2> QED
    BY <1>3, <2>1, <2>2, NoAccountAssumption DEF Config
<1>5. SealsGenuine' /\ SelfCertifying'
  BY DEF VerifyPredicate, externalVars, IInv, SealsGenuine, SelfCertifying
<1>6. NoReplay'
  BY <1>2, <1>3 DEF IInv, NoReplay
<1>7. SpentIsVerified'
  <2>1. spent' = {verified'[a].nullifier : a \in DOMAIN verified'}
    BY <1>2 DEF VerifyPredicate, IInv, SpentIsVerified
  <2>2. config.verified_count =
          IF Len(verified) < CountMax THEN Len(verified) ELSE CountMax
    BY <1>4 DEF IInv, SpentIsVerified
  <2>3. config'.verified_count =
          IF Len(verified') < CountMax THEN Len(verified') ELSE CountMax
    BY <1>2, <1>4, <2>2, CountMaxAssumption DEF Increment
  <2> QED
    BY <2>1, <2>3 DEF SpentIsVerified
<1>8. NullifierWasCommitted'
  BY <1>2, <1>3, <1>4 DEF IInv, NullifierWasCommitted
<1>9. ConsumerWasTold'
  <2> DEFINE l == Len(verified) + 1
  <2>1. ASSUME NEW a \in Told
        PROVE  a \in DOMAIN verified /\ verified[a].nullifier \in Nullifier
    <3>1. a \in DOMAIN verified
      BY DEF Told
    <3>2. verified[a] \in Event
      BY <1>0, <3>1
    <3> QED
      BY <3>1, <3>2 DEF Event
  <2>2. Told' = IF p = Consumer THEN Told \union {l} ELSE Told
    BY <1>2 DEF Told
  <2>3. IsFiniteSet(Told) /\ Cardinality(Told) \in Nat /\ l \notin Told
    BY <1>0, <1>2, ToldIsFinite DEF Told
  <2>4. CASE p = Consumer
    <3>1. RecordVerification(n)
      BY <2>4 DEF VerifyPredicate, Forward
    <3>2. /\ registry # NoAccount /\ registry' # NoAccount
          /\ registry'.verified_count = Increment(registry.verified_count)
          /\ recorded'[n] > 0
          /\ \A m \in Nullifier : recorded'[m] >= recorded[m]
      BY <1>0, <3>1, RecordingGrows
    <3>3. Cardinality(Told') = Cardinality(Told) + 1
      BY <2>2, <2>3, <2>4, FS_AddElement
    <3>4. registry.verified_count \in 0 .. CountMax
      BY <1>0, <3>2 DEF TypeOK, Registry
    <3>5. \/ registry.verified_count >= Cardinality(Told)
          \/ registry.verified_count = CountMax
      BY <3>2 DEF IInv, ConsumerWasTold
    <3>6. \/ registry'.verified_count >= Cardinality(Told')
          \/ registry'.verified_count = CountMax
      BY <2>3, <3>2, <3>3, <3>4, <3>5, CountMaxAssumption DEF Increment
    <3>7. ASSUME NEW a \in Told' PROVE recorded'[verified'[a].nullifier] > 0
      <4>1. CASE a = l
        BY <1>2, <3>2, <4>1
      <4>2. CASE a \in Told
        <5>1. verified'[a] = verified[a] /\ verified[a].nullifier \in Nullifier
          BY <1>2, <2>1, <4>2
        <5>2. recorded[verified[a].nullifier] > 0
          BY <4>2 DEF IInv, ConsumerWasTold
        <5>3. /\ recorded \in [Nullifier -> Nat]
              /\ recorded' \in [Nullifier -> Nat]
          BY <1>0, <1>1 DEF TypeOK
        <5> QED
          BY <3>2, <5>1, <5>2, <5>3
      <4> QED
        BY <2>2, <2>4, <3>7, <4>1, <4>2
    <3> QED
      BY <3>2, <3>6, <3>7 DEF ConsumerWasTold
  <2>5. CASE p # Consumer
    <3>1. UNCHANGED <<registry, recorded>> /\ Told' = Told
      BY <2>2, <2>5 DEF VerifyPredicate, Forward, consumerVars
    <3>2. \A a \in Told : verified'[a] = verified[a]
      BY <1>2, <2>1
    <3> QED
      BY <3>1, <3>2 DEF IInv, ConsumerWasTold
  <2> QED
    BY <2>4, <2>5
<1> QED
  BY <1>1, <1>5, <1>6, <1>7, <1>8, <1>9 DEF IInv

\* The strengthened invariant is inductive.
LEMMA StepInv == IInv /\ [Next]_vars => IInv'
<1> SUFFICES ASSUME IInv, [Next]_vars PROVE IInv'
  OBVIOUS
<1>1. CASE IsStore
  BY <1>1, StoreInv DEF IsStore
<1>2. CASE IsVerify
  BY <1>2, VerifyInv DEF IsVerify
<1>3. CASE ~IsStore /\ ~IsVerify
  BY <1>3, QuietInv
<1> QED
  BY <1>1, <1>2, <1>3

\* In every reachable state: no nullifier was accepted twice, each was committed
\* by an output of the configured image, spent accounts, events and the count
\* agree, the consumer was told, and journals sit at their own hash.
THEOREM Invariant == Spec => []IInv
  BY InitInv, StepInv, PTL DEF Spec
\* No nullifier is ever accepted twice.
THEOREM ReplayGuard == Spec => []NoReplay
<1>1. IInv => NoReplay
  BY DEF IInv
<1> QED
  BY <1>1, Invariant, PTL

\* No nullifier is accepted that the configured image did not commit to.
THEOREM NullifierBinding == Spec => []NullifierWasCommitted
<1>1. IInv => NullifierWasCommitted
  BY DEF IInv
<1> QED
  BY <1>1, Invariant, PTL

\* A nullifier is spent exactly when its verification was announced, and the
\* count says how many there were until it saturates.
THEOREM Atomicity == Spec => []SpentIsVerified
<1>1. IInv => SpentIsVerified
  BY DEF IInv
<1> QED
  BY <1>1, Invariant, PTL

\* A journal account holds the bytes its address is the hash of.
THEOREM SelfCertification == Spec => []SelfCertifying
<1>1. IInv => SelfCertifying
  BY DEF IInv
<1> QED
  BY <1>1, Invariant, PTL

\* Every verification that named the consumer reached its registry.
THEOREM Forwarding == Spec => []ConsumerWasTold
<1>1. IInv => ConsumerWasTold
  BY DEF IInv
<1> QED
  BY <1>1, Invariant, PTL

-----------------------------------------------------------------------------
\* An instruction never takes back what an account says.
LEMMA StepIrrevocable == TypeOK /\ [Next]_vars => Irrevocable
<1> SUFFICES ASSUME TypeOK, [Next]_vars PROVE Irrevocable
  OBVIOUS
<1>t. /\ config # NoAccount => config \in Config /\ config.verified_count \in 0 .. CountMax
      /\ registry # NoAccount => registry \in Registry /\ registry.verified_count \in 0 .. CountMax
  BY DEF TypeOK, Config, Registry
<1>1. CASE IsStore
  <2> PICK j \in Journal : StoreJournal(j)
    BY <1>1 DEF IsStore
  <2>1. /\ DOMAIN journals \subseteq DOMAIN journals'
        /\ \A d \in DOMAIN journals : journals'[d] = journals[d]
    BY DEF StoreJournal
  <2> QED
    BY <1>t, <2>1, CountMaxAssumption
       DEF StoreJournal, consumerVars, externalVars, Irrevocable
<1>2. CASE IsVerify
  <2> PICK u \in User, seal \in Seal, d \in Digest, k \in Index,
           n \in Nullifier, p \in Program : VerifyPredicate(u, seal, d, k, n, p)
    BY <1>2 DEF IsVerify
  <2>1. config \in Config
    BY DEF VerifyPredicate, VerifyAccounts, TypeOK
  <2>2. config' = [config EXCEPT !.verified_count =
                                   Increment(config.verified_count)]
    BY DEF VerifyPredicate
  <2>3. config' \in Config
    BY <2>1, <2>2, IncrementType DEF Config
  <2>4. /\ config' # NoAccount
        /\ config'.image_id = config.image_id
        /\ config'.authority = config.authority
        /\ config'.verified_count >= config.verified_count
    BY <2>1, <2>2, <2>3, IncrementType, NoAccountAssumption DEF Config
  <2>5. registry # NoAccount =>
          /\ registry' # NoAccount
          /\ registry'.verified_count >= registry.verified_count
    <3>1. CASE p = Consumer
      BY <3>1, RecordingGrows DEF VerifyPredicate, Forward
    <3>2. CASE p # Consumer
      BY <1>t, <3>2, CountMaxAssumption
         DEF VerifyPredicate, Forward, consumerVars
    <3> QED
      BY <3>1, <3>2
  <2>6. UNCHANGED journals /\ spent \subseteq spent'
    BY DEF VerifyPredicate
  <2> QED
    BY <2>4, <2>5, <2>6 DEF Irrevocable
<1>3. CASE ~IsStore /\ ~IsVerify
  BY <1>t, <1>3, QuietStep, CountMaxAssumption DEF Irrevocable
<1> QED
  BY <1>1, <1>2, <1>3

\* The image, the authority, the counts, the stored journals and the spent
\* nullifiers are irrevocable.
THEOREM Irrevocability == Spec => AccountsIrrevocable
<1>1. TypeOK /\ [Next]_vars => [Irrevocable]_vars
  BY StepIrrevocable
<1> QED
  BY <1>1, TypeCorrect, PTL DEF Spec, AccountsIrrevocable

-----------------------------------------------------------------------------
\* Mapping events to their nullifiers commutes with appending an event.
LEMMA MapAppend ==
    ASSUME NEW s \in Seq(Event), NEW e \in Event
    PROVE  [a \in DOMAIN Append(s, e) |-> Append(s, e)[a].nullifier]
             = Append([a \in DOMAIN s |-> s[a].nullifier], e.nullifier)
<1> DEFINE t == [a \in DOMAIN s |-> s[a].nullifier]
<1>1. DOMAIN s = 1 .. Len(s) /\ Len(s) \in Nat
  OBVIOUS
<1>2. \A a \in DOMAIN s : s[a] \in Event
  OBVIOUS
<1>3. t \in Seq(Nullifier) /\ Len(t) = Len(s)
  BY <1>1, <1>2 DEF Event
<1>4. e.nullifier \in Nullifier
  BY DEF Event
<1>5. /\ DOMAIN Append(s, e) = 1 .. Len(s) + 1
      /\ \A a \in 1 .. Len(s) : Append(s, e)[a] = s[a]
      /\ Append(s, e)[Len(s) + 1] = e
  BY <1>1
<1>6. /\ Append(t, e.nullifier) \in Seq(Nullifier)
      /\ DOMAIN Append(t, e.nullifier) = 1 .. Len(s) + 1
      /\ \A a \in 1 .. Len(s) : Append(t, e.nullifier)[a] = s[a].nullifier
      /\ Append(t, e.nullifier)[Len(s) + 1] = e.nullifier
  BY <1>1, <1>3, <1>4
<1> HIDE DEF t
<1> DEFINE l == [a \in DOMAIN Append(s, e) |-> Append(s, e)[a].nullifier]
<1>7. /\ DOMAIN l = 1 .. Len(s) + 1
      /\ \A a \in 1 .. Len(s) + 1 : l[a] = Append(t, e.nullifier)[a]
  BY <1>1, <1>5, <1>6
<1>8. l = Append(t, e.nullifier)
  BY <1>6, <1>7
<1> QED
  BY <1>8 DEF t
\* verify_predicate is the abstract acceptance of its claimed nullifier.
LEMMA VerifyAccepts ==
    ASSUME IInv,
           NEW u \in User, NEW seal \in Seal, NEW d \in Digest, NEW k \in Index,
           NEW n \in Nullifier, NEW p \in Program,
           VerifyPredicate(u, seal, d, k, n, p)
    PROVE  Ledger!Accept(n)
<1> DEFINE e == [by |-> u, nullifier |-> n, digest |-> d, index |-> k,
                 seal |-> seal, program |-> p]
<1>1. verified \in Seq(Event) /\ e \in Event /\ e.nullifier = n
  BY DEF IInv, TypeOK, Event
<1>2. /\ \A a \in DOMAIN verified : verified[a].nullifier # n
      /\ config \in Config
      /\ \E j \in Outputs[config.image_id] :
            Sha256[j] = d /\ Decode[j][k] = n
  BY AcceptedIsFreshAndCommitted
<1>3. config # NoAccount /\ config.image_id \in Image
      /\ config.image_id # NoAccount
  BY <1>2, ConsumerAssumption, NoAccountAssumption DEF Config
<1>4. config' = [config EXCEPT !.verified_count =
                                 Increment(config.verified_count)]
  BY DEF VerifyPredicate
<1>5. config' \in Config
  BY <1>2, <1>4, IncrementType DEF Config
<1>6. /\ config' # NoAccount /\ config'.image_id = config.image_id
      /\ config'.verified_count = Increment(config.verified_count)
  BY <1>2, <1>4, <1>5, NoAccountAssumption DEF Config
<1>7. n \in Committed[config.image_id]
  BY <1>2, <1>3 DEF Committed
<1>8. verified' = Append(verified, e)
  BY DEF VerifyPredicate
<1>9. [a \in DOMAIN verified' |-> verified'[a].nullifier]
        = Append([a \in DOMAIN verified |-> verified[a].nullifier], n)
  BY <1>1, <1>8, MapAppend
<1> HIDE DEF e
<1> QED
  BY <1>2, <1>3, <1>6, <1>7, <1>9 DEF Ledger!Accept, Increment

\* Every step of the programs is an abstract step or leaves the abstract state
\* alone.
LEMMA StepRefines ==
    IInv /\ [Next]_vars => [Ledger!Next]_(Ledger!vars)
<1> SUFFICES ASSUME IInv, [Next]_vars
             PROVE  Ledger!Next \/ UNCHANGED Ledger!vars
  OBVIOUS
<1>0. TypeOK
  BY DEF IInv
<1>1. CASE IsStore
  BY <1>1 DEF IsStore, StoreJournal, Ledger!vars
<1>2. CASE IsVerify
  BY <1>2, VerifyAccepts DEF IsVerify, Ledger!Next
<1>3. CASE ~IsStore /\ ~IsVerify
  <2>1. /\ UNCHANGED verified
        /\ \/ UNCHANGED config
           \/ /\ config = NoAccount
              /\ config' # NoAccount
              /\ config'.verified_count = 0
    BY <1>0, <1>3, QuietStep
  <2>2. CASE UNCHANGED config
    BY <2>1, <2>2 DEF Ledger!vars
  <2>3. CASE config = NoAccount /\ config' # NoAccount /\ config'.verified_count = 0
    <3>1. config' \in Config
      BY <1>0, <2>3, StepType DEF TypeOK
    <3>2. config'.image_id \in Image
      BY <3>1 DEF Config
    <3>3. Ledger!FixImage
      BY <2>1, <2>3, <3>2 DEF Ledger!FixImage
    <3> QED
      BY <3>3 DEF Ledger!Next
  <2> QED
    BY <2>1, <2>2, <2>3
<1> QED
  BY <1>1, <1>2, <1>3

\* The coordinator, with every other program that runs beside it, implements
\* the abstract settlement.
THEOREM Refinement == Spec => ImplementsSettlement
<1>1. Init => Ledger!Init
  <2> SUFFICES ASSUME Init PROVE Ledger!Init
    OBVIOUS
  <2>1. [a \in DOMAIN verified |-> verified[a].nullifier] = <<>>
    BY DEF Init
  <2> QED
    BY <2>1 DEF Init, Ledger!Init
<1> QED
  BY <1>1, StepRefines, Invariant, PTL DEF Spec, ImplementsSettlement, Ledger!Spec
=============================================================================
