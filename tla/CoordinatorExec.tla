-------------------------- MODULE CoordinatorExec --------------------------
(***************************************************************************)
(* The instructions of Coordinator.tla taken apart.  Solana's runtime runs *)
(* transactions in parallel when their account locks allow it; an          *)
(* instruction works on the accounts as they were loaded, Anchor checks    *)
(* its constraints, verify_predicate goes through its five steps with two  *)
(* CPIs between them, and only a transaction that came to its end writes   *)
(* its accounts back.  The locks follow from the accounts each instruction *)
(* declares and from the `mut` on them; the runtime itself is external.    *)
(* Every such execution is an execution of Coordinator.                    *)
(***************************************************************************)
EXTENDS Coordinator, FiniteSetsExt

\* A nullifier is 32 bytes.
ASSUME NullifierAssumption == IsFiniteSet(Nullifier)

VARIABLE
    tx   \* the transaction each signer has in flight, if any

execVars == <<vars, tx>>

\* A signer pays for its transaction, so its account is write-locked by it: a
\* signer has one transaction in flight at a time.
Idle == [pc |-> "idle"]

VerifyCall == [kind : {"verify"}, seal : Seal, digest : Digest, index : Index,
               claimed : Nullifier, program : Program]
StoreCall == [kind : {"store"}, journal : Journal]
RecordCall == [kind : {"record"}, claimed : Nullifier]
InitCall == [kind : {"initialize"}, image : Image]
ConsumerInitCall == [kind : {"consumer_initialize"}]
Call == VerifyCall \union StoreCall \union RecordCall \union InitCall
          \union ConsumerInitCall

InFlight(u) == tx[u].pc # "idle"

ExecInit == Init /\ tx = [u \in User |-> Idle]

-----------------------------------------------------------------------------
(***************************************************************************)
(* Locks                                                                   *)
(***************************************************************************)
\* Mutant: `mut` is missing on config in VerifyPredicate.
MutWrites(call) ==
    CASE call.kind = "verify" ->
           {<<"nullifier", call.claimed>>} \union
             IF call.program = Consumer THEN {<<"registry">>} ELSE {}
      [] call.kind = "store" -> {<<"journal", Sha256[call.journal]>>}
      [] call.kind = "initialize" -> {<<"config">>}
      [] OTHER -> {<<"registry">>}

\* Mutant: the caller may pass the registry as a read-only account.
MutRegistryWrites(call) ==
    CASE call.kind = "verify" -> {<<"config">>, <<"nullifier", call.claimed>>}
      [] call.kind = "store" -> {<<"journal", Sha256[call.journal]>>}
      [] call.kind = "initialize" -> {<<"config">>}
      [] OTHER -> {<<"registry">>}

\* The accounts an instruction declares with `init` or `mut`.  A foreign
\* consumer has a registry of its own.
Writes(call) ==
    CASE call.kind = "verify" ->
           {<<"config">>, <<"nullifier", call.claimed>>} \union
             IF call.program = Consumer THEN {<<"registry">>} ELSE {}
      [] call.kind = "store" -> {<<"journal", Sha256[call.journal]>>}
      [] call.kind = "initialize" -> {<<"config">>}
      [] OTHER -> {<<"registry">>}

\* The accounts it declares without: they must not be written meanwhile.
Reads(call) ==
    IF call.kind = "verify"
    THEN {<<"journal", call.digest>>, <<"router">>, <<"entry", call.seal.selector>>}
    ELSE {}

LockedBy(u) == Writes(tx[u].call) \union Reads(tx[u].call)

\* The runtime starts a transaction when no other one writes what it touches
\* or touches what it writes.
Unlocked(call) ==
    \A u \in User : InFlight(u) =>
        /\ Writes(call) \intersect LockedBy(u) = {}
        /\ Writes(tx[u].call) \intersect Reads(call) = {}

FreeForRouter(account) ==
    \A u \in User : InFlight(u) => account \notin LockedBy(u)

-----------------------------------------------------------------------------
(***************************************************************************)
(* Execution of one transaction                                            *)
(***************************************************************************)
\* What the instruction works on: copies of the accounts it loaded.
View == [config |-> config, registry |-> registry]

\* Loading: Anchor's account constraints.  A transaction that fails them is
\* dropped without effect.
AccountsOk(call) ==
    CASE call.kind = "verify" ->
           VerifyAccounts(call.seal, call.digest, call.claimed)
      [] call.kind = "store" -> Sha256[call.journal] \notin DOMAIN journals
      [] call.kind = "record" ->
           registry # NoAccount /\ recorded[call.claimed] < MaxCalls \* bound
      [] call.kind = "initialize" -> config = NoAccount
      [] call.kind = "consumer_initialize" -> registry = NoAccount

Begin(u, call) ==
    /\ ~InFlight(u)
    /\ Unlocked(call)
    /\ AccountsOk(call)
    /\ tx' = [tx EXCEPT ![u] = [pc |-> "handler", call |-> call, view |-> View]]
    /\ UNCHANGED vars

\* An error at any step ends the transaction; nothing is written back.
Abort(u) == tx' = [tx EXCEPT ![u] = Idle] /\ UNCHANGED vars

Goto(u, pc) == tx' = [tx EXCEPT ![u].pc = pc] /\ UNCHANGED vars

\* The step has changed the loaded accounts.
Continue(u, pc, view) ==
    /\ tx' = [tx EXCEPT ![u] = [@ EXCEPT !.pc = pc, !.view = view]]
    /\ UNCHANGED vars

At(u, pc) == InFlight(u) /\ tx[u].pc = pc /\ tx[u].call.kind = "verify"

\* Steps 1 and 2: the stored journal against the digest and the nullifier.
CheckJournal(u) ==
    /\ At(u, "handler")
    /\ IF NullifierBound(tx[u].call.digest, tx[u].call.index, tx[u].call.claimed)
       THEN Goto(u, "router") ELSE Abort(u)

\* Mutant: the router's answer is not propagated with `?`.
MutCallRouter(u) == At(u, "router") /\ Goto(u, "count")

\* Step 3: the CPI to the router, with the image id of the loaded config.
CallRouter(u) ==
    /\ At(u, "router")
    /\ IF /\ router.entry[tx[u].call.seal.selector] = "active"
          /\ RouterVerify(tx[u].call.seal, tx[u].view.config.image_id,
                          tx[u].call.digest)
       THEN Goto(u, "count") ELSE Abort(u)

\* Step 4: the loaded config's count.
RaiseCount(u) ==
    /\ At(u, "count")
    /\ Continue(u, "consumer",
                [tx[u].view EXCEPT !.config.verified_count = Increment(@)])

\* Step 5: the CPI to the consumer.  The consumer fails without its registry,
\* a foreign program whenever it likes.
CallConsumer(u) ==
    /\ At(u, "consumer")
    /\ \/ /\ tx[u].call.program = Consumer
          /\ IF tx[u].view.registry = NoAccount
             THEN Abort(u)
             ELSE Continue(u, "commit",
                      [tx[u].view EXCEPT !.registry.verified_count = Increment(@)])
       \/ tx[u].call.program # Consumer /\ (Abort(u) \/ Goto(u, "commit"))

\* The end of the transaction: the written accounts become visible, together.
CommitVerify(u) ==
    /\ At(u, "commit")
    /\ LET call == tx[u].call IN
       /\ spent' = spent \union {call.claimed}
       /\ config' = tx[u].view.config
       /\ IF call.program = Consumer
          THEN /\ registry' = tx[u].view.registry
               /\ recorded' = [recorded EXCEPT ![call.claimed] = @ + 1]
          ELSE UNCHANGED consumerVars
       /\ verified' = Append(verified,
              [by |-> u, nullifier |-> call.claimed, digest |-> call.digest,
               index |-> call.index, seal |-> call.seal,
               program |-> call.program])
    /\ tx' = [tx EXCEPT ![u] = Idle]
    /\ UNCHANGED <<journals, externalVars>>

\* The other handlers have no step that an interleaving could split: what they
\* loaded is what they write back.
RunsOnce(u, kind) ==
    InFlight(u) /\ tx[u].call.kind = kind /\ tx' = [tx EXCEPT ![u] = Idle]

CommitStore(u) ==
    /\ RunsOnce(u, "store")
    /\ LET journal == tx[u].call.journal IN
       IF journal \in Small
       THEN /\ journals' = [d \in DOMAIN journals \union {Sha256[journal]} |->
                     IF d = Sha256[journal] THEN journal ELSE journals[d]]
            /\ UNCHANGED <<config, spent, verified, consumerVars, externalVars>>
       ELSE UNCHANGED vars

CommitRecord(u) ==
    /\ RunsOnce(u, "record")
    /\ registry' = [tx[u].view.registry EXCEPT !.verified_count = Increment(@)]
    /\ recorded' = [recorded EXCEPT ![tx[u].call.claimed] = @ + 1]
    /\ UNCHANGED <<coordinatorVars, externalVars>>

CommitInitialize(u) ==
    /\ RunsOnce(u, "initialize")
    /\ config' = [image_id |-> tx[u].call.image, authority |-> u,
                  verified_count |-> 0]
    /\ UNCHANGED <<journals, spent, verified, consumerVars, externalVars>>

CommitConsumerInitialize(u) ==
    /\ RunsOnce(u, "consumer_initialize")
    /\ registry' = [authority |-> u, verified_count |-> 0]
    /\ UNCHANGED <<coordinatorVars, recorded, externalVars>>

-----------------------------------------------------------------------------
\* The router's instructions lock its accounts like any others; provers are not
\* on the chain.
RouterStep ==
    /\ \/ FreeForRouter(<<"router">>) /\ RouterInitialize
       \/ \E s \in Selector : /\ FreeForRouter(<<"entry", s>>)
                              /\ AddVerifier(s) \/ EmergencyStop(s)
    /\ UNCHANGED tx

ProverStep ==
    /\ \E s \in Selector, i \in Image, j \in Journal : Prove(s, i, j)
    /\ UNCHANGED tx

Run(u) ==
    \/ CheckJournal(u) \/ CallRouter(u) \/ RaiseCount(u) \/ CallConsumer(u)
    \/ CommitVerify(u) \/ CommitStore(u) \/ CommitRecord(u)
    \/ CommitInitialize(u) \/ CommitConsumerInitialize(u)

ExecNext ==
    \/ \E u \in User, call \in Call : Begin(u, call)
    \/ \E u \in User : Run(u)
    \/ RouterStep
    \/ ProverStep

ExecSpec == ExecInit /\ [][ExecNext]_execVars

-----------------------------------------------------------------------------
(***************************************************************************)
(* Properties                                                              *)
(***************************************************************************)
\* Steps of transactions running in parallel, an error after any of them, and
\* an entry stopped in the middle of them: what becomes visible is always what
\* some serial order of whole instructions makes visible.
ImplementsCoordinator == Spec

\* No count is lost between a verification and a direct record_verification
\* that ran at the same time: the registry's count is the number of events,
\* until it saturates.
TotalRecorded == SumFunction(recorded)

NoLostRecord ==
    registry # NoAccount =>
        registry.verified_count =
            IF TotalRecorded < CountMax THEN TotalRecorded ELSE CountMax

\* The config that a transaction is about to check the proof against, and will
\* write back, is the one on the chain: no other instruction changed it since it
\* was loaded.
ViewIsCurrent ==
    \A u \in User : At(u, "router") \/ At(u, "count") => tx[u].view.config = config
=============================================================================
