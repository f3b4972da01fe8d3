---------------------------- MODULE DevnetClient ----------------------------
(***************************************************************************)
(* The devnet client (devnet-client/src/main.rs) on the chain that         *)
(* Coordinator.tla models, next to everybody else who uses it.  One run    *)
(* reads the prover's response and submits five transactions in turn: four *)
(* that set the accounts up, whose errors it prints and ignores, and       *)
(* verify_predicate, whose error ends it.                                  *)
(*                                                                         *)
(* What the client is told and what happens are two things.  A transaction *)
(* is pending from when it is sent until it lands, well or badly, or its   *)
(* blockhash is too old; the client may have given up on it, or be dead    *)
(* and started again, before that.                                         *)
(***************************************************************************)
EXTENDS Coordinator, FiniteSets

CONSTANTS
    Payer,              \* whose key ~/.config/solana/id.json holds
    CapturedDigest,     \* the journal_digest and the NULLIFIER_HEX that are
    CapturedNullifier,  \* constants of the client
    NoResponse,
    Lifetime,           \* how old a blockhash may get, 150 blocks on Solana
    MaxPending          \* bound: transactions in flight at once

ASSUME ClientAssumption ==
    /\ Payer \in User /\ Consumer \in Program
    /\ CapturedDigest \in Digest /\ CapturedNullifier \in Nullifier
    /\ NoResponse \notin Seal
    /\ Lifetime \in Nat /\ MaxPending \in Nat

\* A client that waits for nothing, as it is between two runs.
NoRun == [at |-> "idle", resp |-> NoResponse, bh |-> 0, tx |-> "ready", said |-> {}]

VARIABLES
    client,   \* the client's process: where it is, the response it read, the
              \* age of the blockhash of line 132, what became of the
              \* transaction it waits for, and the steps it reported as ok
    pending,  \* the transactions in flight
    effects   \* history: how often the client's initialize of either program
              \* of the repository took effect

clientVars == <<client, pending, effects>>
allVars == <<vars, clientVars>>

Setup == {"router_init", "add_verifier", "consumer_init", "coordinator_init"}
Steps == Setup \union {"verify"}
Initializers == {"consumer_init", "coordinator_init"}
Age == 0 .. Lifetime

\* A response's seal, image and journal are of one proof, so the seal, with the
\* selector that the client takes from its first bytes, stands for it.
Response == Seal

\* own: the running client waits for it.
Transaction == [step : Steps, resp : Response, age : Age, own : BOOLEAN]
Waiting == {"ready", "waiting", "ok", "failed"}

ClientTypeOK ==
    /\ client \in [at : Steps \union {"idle"}, resp : Response \union {NoResponse},
                   bh : 0 .. Lifetime + 1, tx : Waiting, said : SUBSET Steps]
    /\ pending \subseteq Transaction
    /\ effects \in [Initializers -> 0 .. 2]

ClientInit ==
    /\ Init
    /\ client = NoRun
    /\ pending = {}
    /\ effects = [s \in Initializers |-> 0]
-----------------------------------------------------------------------------
(***************************************************************************)
(* What is sent and what the programs expect                               *)
(***************************************************************************)
SealArgs == <<"selector", "pi_a", "pi_b", "pi_c">>

\* The accounts and arguments of the client's instructions, in their order.
Sent == [
    consumer_init |-> [accounts |-> <<"registry", "signer", "system">>,
                       args |-> <<>>],
    coordinator_init |-> [accounts |-> <<"config", "signer", "system">>,
                          args |-> <<"image_id", "authorized_prover">>],
    verify |-> [accounts |-> <<"config", "spent_nullifier", "router",
                               "router_account", "verifier_entry",
                               "verifier_program", "consumer_program",
                               "consumer_registry", "signer", "system">>,
                args |-> SealArgs \o <<"journal_digest", "nullifier">>]]

\* Those that the programs' account structs and handlers declare.
Declared == [
    consumer_init |-> [accounts |-> <<"registry", "signer", "system">>,
                       args |-> <<>>],
    coordinator_init |-> [accounts |-> <<"config", "signer", "system">>,
                          args |-> <<"image_id">>],
    verify |-> [accounts |-> <<"config", "journal_account", "spent_nullifier",
                               "router", "router_account", "verifier_entry",
                               "verifier_program", "consumer_program",
                               "consumer_registry", "signer", "system">>,
                args |-> SealArgs \o
                           <<"journal_digest", "nullifier_index", "nullifier">>]]

StartsWith(seq, prefix) ==
    Len(prefix) <= Len(seq) /\ SubSeq(seq, 1, Len(prefix)) = prefix

\* Accounts are taken by their position and arguments are read one after the
\* other; what follows the last of either is ignored.  (The router's own
\* instructions, which are external, are taken to be sent as it expects.)
Binds(step) ==
    step \in DOMAIN Declared =>
        /\ StartsWith(Sent[step].accounts, Declared[step].accounts)
        /\ StartsWith(Sent[step].args, Declared[step].args)

\* What an instruction does on the chain.
Apply(step, resp) ==
    \/ step = "router_init" /\ RouterInitialize
    \/ step = "add_verifier" /\ AddVerifier(resp.selector)
    \/ step = "consumer_init" /\ ConsumerInitialize(Payer)
    \/ step = "coordinator_init" /\ Initialize(Payer, resp.image)

-----------------------------------------------------------------------------
(***************************************************************************)
(* The client                                                              *)
(***************************************************************************)
\* main up to line 132: the response is read once, and a blockhash fetched.
StartRun(resp) ==
    /\ client.at = "idle"
    /\ client' = [NoRun EXCEPT !.at = "router_init", !.resp = resp]
    /\ UNCHANGED <<vars, pending, effects>>

\* The steps during which the blockhash of line 132 is still to be used.
BeforeConsumer == {"router_init", "add_verifier", "consumer_init"}

\* Every step fetches a blockhash of its own, but for consumer::initialize,
\* which is signed with the one of line 132.
StartAge(step) == IF step = "consumer_init" THEN client.bh ELSE 0

\* Mutant: the node does not look at the blockhash.
MutSend ==
    /\ client.at \in Steps /\ client.tx = "ready"
    /\ Binds(client.at)
    /\ Cardinality(pending) < MaxPending
    /\ pending' = pending \union {[step |-> client.at, resp |-> client.resp,
                        age |-> StartAge(client.at), own |-> TRUE]}
    /\ client' = [client EXCEPT !.tx = "waiting"]
    /\ UNCHANGED <<vars, effects>>

\* The node simulates the transaction and passes it on, or refuses it.
Send ==
    /\ client.at \in Steps /\ client.tx = "ready"
    /\ \/ /\ client' = [client EXCEPT !.tx = "failed"]
          /\ UNCHANGED pending
       \/ /\ Binds(client.at)
          /\ StartAge(client.at) <= Lifetime
          /\ Cardinality(pending) < MaxPending
          /\ pending' = pending \union {[step |-> client.at, resp |-> client.resp,
                            age |-> StartAge(client.at), own |-> TRUE]}
          /\ client' = [client EXCEPT !.tx = "waiting"]
    /\ UNCHANGED <<vars, effects>>

Disowned == {[tx EXCEPT !.own = FALSE] : tx \in pending}

After == [router_init |-> "add_verifier", add_verifier |-> "consumer_init",
          consumer_init |-> "coordinator_init", coordinator_init |-> "verify",
          verify |-> "idle"]

\* Mutant: a step that failed is tried again.
MutGoOn(ok) ==
    client' = [client EXCEPT
        !.at = IF ok THEN After[@] ELSE @,
        !.tx = "ready",
        !.said = IF ok THEN @ \union {client.at} ELSE @]

\* The step's outcome is printed, and the next one comes whatever it was; after
\* the last one the process ends.
GoOn(ok) ==
    client' = [client EXCEPT
        !.at = After[@],
        !.bh = IF client.at = "consumer_init" THEN 0 ELSE @,
        !.tx = "ready",
        !.said = IF ok THEN @ \union {client.at} ELSE @]

\* Mutant: "may already exist" is taken for a fact.
MutConfirm ==
    /\ client.at \in Steps /\ client.tx \in {"ok", "failed"}
    /\ GoOn(TRUE)
    /\ UNCHANGED <<vars, pending, effects>>

\* send_and_confirm_transaction has learnt what became of the transaction.
Confirm ==
    /\ client.at \in Steps /\ client.tx \in {"ok", "failed"}
    /\ GoOn(client.tx = "ok")
    /\ UNCHANGED <<vars, pending, effects>>

\* It cannot reach the node any more; the transaction may still land.
GiveUp ==
    /\ client.at \in Steps /\ client.tx \in Waiting \ {"ready"}
    /\ GoOn(FALSE)
    /\ pending' = Disowned
    /\ UNCHANGED <<vars, effects>>

\* The process dies, or stops at one of its `?`s between two transactions.
Die ==
    /\ client.at # "idle"
    /\ client' = NoRun
    /\ pending' = Disowned
    /\ UNCHANGED <<vars, effects>>

-----------------------------------------------------------------------------
(***************************************************************************)
(* External: the cluster                                                   *)
(***************************************************************************)
Settled(tx, outcome) ==
    /\ pending' = pending \ {tx}
    /\ client' = IF tx.own THEN [client EXCEPT !.tx = outcome] ELSE client

Land(tx) ==
    /\ Apply(tx.step, tx.resp)
    /\ Settled(tx, "ok")
    /\ effects' = [s \in Initializers |->
                     IF s = tx.step /\ effects[s] < 2 THEN effects[s] + 1
                                                    ELSE effects[s]]

\* The instruction returns an error, or there are no fees to pay it with.
LandFails(tx) ==
    /\ Settled(tx, "failed")
    /\ UNCHANGED <<vars, effects>>

\* A block is made: every blockhash is a block older, and what was signed with
\* one that is too old now is never included.
Tick ==
    /\ pending' = {[tx EXCEPT !.age = @ + 1] : tx \in {t \in pending : t.age < Lifetime}}
    /\ client' = [client EXCEPT
            !.bh = IF client.at \in BeforeConsumer /\ @ <= Lifetime
                   THEN @ + 1 ELSE @,
            !.tx = IF \E t \in pending : t.own /\ t.age = Lifetime
                   THEN "failed" ELSE @]
    /\ UNCHANGED <<vars, effects>>

\* Everybody else, Payer's other transactions included.
Others == Next /\ UNCHANGED clientVars

ClientStep ==
    \/ \E resp \in seals : StartRun(resp)
    \/ Send \/ Confirm \/ GiveUp \/ Die

ClientNext ==
    \/ ClientStep
    \/ \E tx \in pending : Land(tx) \/ LandFails(tx)
    \/ Tick
    \/ Others

\* The client is a process that runs, and the cluster makes blocks.
ClientSpec ==
    /\ ClientInit /\ [][ClientNext]_allVars
    /\ WF_allVars(Send) /\ WF_allVars(Confirm) /\ WF_allVars(Tick)
-----------------------------------------------------------------------------
(***************************************************************************)
(* Properties                                                              *)
(***************************************************************************)
\* Whatever "ok" the client has printed is so, and stays so, although others
\* create the same accounts and an earlier run's transactions land late: the
\* accounts exist, and config and registry are those this run asked for.
SaidIsTrue ==
    /\ "router_init" \in client.said => router.initialized
    /\ "add_verifier" \in client.said =>
         router.entry[client.resp.selector] # "absent"
    /\ "consumer_init" \in client.said =>
         registry # NoAccount /\ registry.authority = Payer
    /\ "coordinator_init" \in client.said =>
         /\ config # NoAccount
         /\ config.image_id = client.resp.image
         /\ config.authority = Payer

\* A run that fails half way, or dies, is started again while transactions of
\* the first may still land: neither program is initialised twice.
SetUpOnce == \A s \in Initializers : effects[s] <= 1

\* However the cluster answers, a run comes to its end.
RunEnds == client.at # "idle" ~> client.at = "idle"

\* "submits coordinator::initialize + verify_predicate to Solana devnet via RPC"
\* (devnet-client/src/main.rs:3-4): when everything that the coordinator asks
\* of a verification is in place, the client's is one that it can execute.
InPlace ==
    /\ VerifyAccounts(client.resp, CapturedDigest, CapturedNullifier)
    /\ \E k \in Index : NullifierBound(CapturedDigest, k, CapturedNullifier)
    /\ ProofAccepted(client.resp, CapturedDigest)
    /\ registry # NoAccount

VerifySubmitted ==
    client.at = "verify" /\ InPlace => Binds("verify")
=============================================================================
