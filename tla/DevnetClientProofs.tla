------------------------- MODULE DevnetClientProofs -------------------------
(***************************************************************************)
(* Proofs about DevnetClient, for every number of users, responses and     *)
(* transactions in flight and every lifetime of a blockhash: the chain the *)
(* client uses is the coordinator's, so what CoordinatorProofs shows holds *)
(* beside it; what the client says is so; and nothing is set up twice.     *)
(***************************************************************************)
EXTENDS DevnetClient, CoordinatorProofs

\* What "ok" means for a step of a run with the response resp.
Fact(step, resp) ==
    /\ step = "router_init" => router.initialized
    /\ step = "add_verifier" => router.entry[resp.selector] # "absent"
    /\ step = "consumer_init" => registry # NoAccount /\ registry.authority = Payer
    /\ step = "coordinator_init" =>
         /\ config # NoAccount
         /\ config.image_id = resp.image /\ config.authority = Payer

\* The client waits for the one transaction it has sent for the step it is at.
OwnIsAwaited ==
    /\ \A tx \in pending : tx.own =>
         tx.step = client.at /\ tx.resp = client.resp /\ client.tx = "waiting"
    /\ \A t1, t2 \in pending : t1.own /\ t2.own => t1 = t2

\* The account that an initialize of the client's has created is there.
SetUp ==
    /\ \/ effects["consumer_init"] = 0
       \/ effects["consumer_init"] = 1 /\ registry # NoAccount
    /\ \/ effects["coordinator_init"] = 0
       \/ effects["coordinator_init"] = 1 /\ config # NoAccount

\* SaidIsTrue is not inductive: an outcome is learnt before it is said, and is
\* that of the transaction the client waits for.
ClientInv ==
    /\ ClientTypeOK
    /\ client.at # "idle" \/ client.said # {} => client.resp \in Response
    /\ OwnIsAwaited
    /\ client.tx = "ok" => Fact(client.at, client.resp)
    /\ \A s \in client.said : Fact(s, client.resp)
    /\ SetUp

-----------------------------------------------------------------------------
\* Initially nobody waits and nothing has been said.
LEMMA ClientInitInv == ClientInit => ClientInv
  BY ClientAssumption
     DEF ClientInit, ClientInv, ClientTypeOK, NoRun, OwnIsAwaited, SetUp, Steps,
         Waiting, Initializers, Fact

\* What lands is an instruction of the chain.
LEMMA ApplyIsNext ==
    ASSUME NEW step, NEW resp \in Response, Apply(step, resp)
    PROVE  Next
<1>1. resp \in Seal /\ resp.selector \in Selector /\ resp.image \in Image
  BY DEF Response, Seal
<1>2. Payer \in User
  BY ClientAssumption
<1> QED
  BY <1>1, <1>2 DEF Apply, Next, External, ConsumerStep, CoordinatorStep

\* Whatever the client and the cluster do is an instruction of the chain, or
\* leaves the chain alone.
LEMMA ClientStepRefines == ClientInv /\ [ClientNext]_allVars => [Next]_vars
<1> SUFFICES ASSUME ClientInv, [ClientNext]_allVars PROVE [Next]_vars
  OBVIOUS
<1>1. ASSUME NEW tx \in pending, Land(tx) PROVE Next
  <2>1. tx.resp \in Response
    BY DEF ClientInv, ClientTypeOK, Transaction
  <2> QED
    BY <1>1, <2>1, ApplyIsNext DEF Land
<1>2. ASSUME NEW tx \in pending, LandFails(tx) PROVE UNCHANGED vars
  BY <1>2 DEF LandFails
<1>3. CASE ClientStep \/ Tick
  BY <1>3 DEF ClientStep, StartRun, Send, Confirm, GiveUp, Die, Tick
<1>4. CASE Others
  BY <1>4 DEF Others
<1>5. CASE UNCHANGED allVars
  BY <1>5 DEF allVars
<1> QED
  BY <1>1, <1>2, <1>3, <1>4, <1>5 DEF ClientNext

-----------------------------------------------------------------------------
\* The router's account and its entries, and the registry's authority, stay.
LEMMA SetUpStays ==
    ASSUME TypeOK, [Next]_vars
    PROVE  /\ router.initialized => router'.initialized
           /\ \A s \in Selector : router.entry[s] # "absent" =>
                                    router'.entry[s] # "absent"
           /\ registry # NoAccount =>
                registry' # NoAccount /\ registry'.authority = registry.authority
<1> USE DEF TypeOK
<1>0. ASSUME registry # NoAccount
      PROVE  registry \in Registry
  BY <1>0
<1>1. ASSUME NEW n \in Nullifier, RecordVerification(n)
      PROVE  registry' # NoAccount /\ registry'.authority = registry.authority
  <2>1. registry' \in Registry /\ registry'.authority = registry.authority
    BY <1>0, <1>1, IncrementType DEF RecordVerification, Registry
  <2> QED
    BY <2>1, NoAccountAssumption
<1>2. CASE External
  <2>1. CASE RouterInitialize
    BY <2>1 DEF RouterInitialize, consumerVars
  <2>2. ASSUME NEW s \in Selector, AddVerifier(s) \/ EmergencyStop(s)
        PROVE  /\ router.initialized => router'.initialized
               /\ \A t \in Selector : router.entry[t] # "absent" =>
                                        router'.entry[t] # "absent"
               /\ UNCHANGED registry
    BY <2>2 DEF AddVerifier, EmergencyStop, consumerVars, EntryState
  <2>3. ASSUME NEW s \in Selector, NEW i \in Image, NEW j \in Journal, Prove(s, i, j)
        PROVE  UNCHANGED <<router, registry>>
    BY <2>3 DEF Prove, consumerVars
  <2> QED
    BY <1>2, <2>1, <2>2, <2>3 DEF External
<1>3. CASE ConsumerStep
  BY <1>1, <1>3 DEF ConsumerStep, ConsumerInitialize, CallRecordVerification, externalVars
<1>4. CASE CoordinatorStep
  <2>1. ASSUME NEW u \in User, NEW i \in Image, Initialize(u, i)
        PROVE  UNCHANGED <<router, registry>>
    BY <2>1 DEF Initialize, consumerVars, externalVars
  <2>2. ASSUME NEW j \in Journal, StoreJournal(j)
        PROVE  UNCHANGED <<router, registry>>
    BY <2>2 DEF StoreJournal, consumerVars, externalVars
  <2>3. ASSUME NEW u \in User, NEW seal \in Seal, NEW d \in Digest, NEW k \in Index,
               NEW n \in Nullifier, NEW p \in Program,
               VerifyPredicate(u, seal, d, k, n, p)
        PROVE  /\ UNCHANGED router
               /\ \/ UNCHANGED registry
                  \/ /\ registry' # NoAccount
                     /\ registry'.authority = registry.authority
    BY <1>1, <2>3 DEF VerifyPredicate, Forward, consumerVars, externalVars
  <2> QED
    BY <1>4, <2>1, <2>2, <2>3 DEF CoordinatorStep
<1>5. CASE UNCHANGED vars
  BY <1>5 DEF vars
<1> QED
  BY <1>2, <1>3, <1>4, <1>5 DEF Next

\* What was so stays so, whoever acts.
LEMMA FactStays ==
    ASSUME TypeOK, [Next]_vars, NEW step, NEW resp \in Response, Fact(step, resp)
    PROVE  Fact(step, resp)'
<1>1. resp.selector \in Selector
  BY DEF Response, Seal
<1>2. [Irrevocable]_vars
  BY StepIrrevocable DEF vars
<1>3. config # NoAccount =>
        config' # NoAccount /\ config'.image_id = config.image_id
                            /\ config'.authority = config.authority
  BY StepIrrevocable DEF Irrevocable
<1> QED
  BY <1>1, <1>3, SetUpStays DEF Fact

\* An instruction that takes effect makes its step's fact true.
LEMMA ApplyMakesFact ==
    ASSUME TypeOK, NEW step \in Steps, NEW resp \in Response, Apply(step, resp)
    PROVE  Fact(step, resp)'
<1>1. resp.selector \in Selector /\ resp.image \in Image /\ Payer \in User
  BY ClientAssumption DEF Response, Seal
<1>2. CASE step = "router_init" /\ RouterInitialize
  BY <1>2 DEF RouterInitialize, Fact, TypeOK
<1>3. CASE step = "add_verifier" /\ AddVerifier(resp.selector)
  BY <1>1, <1>3 DEF AddVerifier, Fact, TypeOK
<1>4. CASE step = "consumer_init" /\ ConsumerInitialize(Payer)
  <2>1. registry' \in Registry /\ registry'.authority = Payer
    BY <1>1, <1>4, CountMaxAssumption DEF ConsumerInitialize, Registry
  <2> QED
    BY <1>4, <2>1, NoAccountAssumption DEF Fact
<1>5. CASE step = "coordinator_init" /\ Initialize(Payer, resp.image)
  <2>1. config' \in Config /\ config'.image_id = resp.image /\ config'.authority = Payer
    BY <1>1, <1>5, CountMaxAssumption DEF Initialize, Config
  <2> QED
    BY <1>5, <2>1, NoAccountAssumption DEF Fact
<1> QED
  BY <1>2, <1>3, <1>4, <1>5 DEF Apply

-----------------------------------------------------------------------------
\* The fields of a client that a step changes.
LEMMA ClientParts ==
    ASSUME ClientInv
    PROVE  /\ client.at \in Steps \union {"idle"}
           /\ client.resp \in Response \union {NoResponse}
           /\ client.bh \in 0 .. Lifetime + 1
           /\ client.tx \in Waiting
           /\ client.said \subseteq Steps
           /\ \A tx \in pending : tx \in Transaction
           /\ Lifetime \in Nat /\ "idle" \notin Steps
  BY ClientAssumption DEF ClientInv, ClientTypeOK, Steps, Setup

\* The client's own moves say only what it has learnt and ask for only one
\* transaction at a time.
LEMMA ClientMoves ==
    ASSUME TypeOK, ClientInv, ClientStep
    PROVE  ClientInv'
<1> USE ClientParts
<1>0. UNCHANGED <<vars, effects>>
  BY DEF ClientStep, StartRun, Send, Confirm, GiveUp, Die
<1>1. /\ \A s, r : Fact(s, r)' <=> Fact(s, r)
      /\ SetUp' /\ effects' \in [Initializers -> 0 .. 2]
  BY <1>0 DEF Fact, vars, SetUp, ClientInv, ClientTypeOK
<1>2. ASSUME NEW resp \in seals, StartRun(resp) PROVE ClientInv'
  <2>1. resp \in Response
    BY DEF TypeOK, Response
  <2>2. client' = [at |-> "router_init", resp |-> resp, bh |-> 0, tx |-> "ready", said |-> {}]
    BY <1>2 DEF StartRun, NoRun
  <2>3. OwnIsAwaited'
    BY <1>2 DEF StartRun, OwnIsAwaited, ClientInv, Transaction
  <2>4. /\ client'.at \in Steps /\ client'.resp = resp /\ client'.tx = "ready"
        /\ client'.said = {}
        /\ client' \in [at : Steps \union {"idle"}, resp : Response \union {NoResponse},
                   bh : 0 .. Lifetime + 1, tx : Waiting, said : SUBSET Steps]
    BY <2>1, <2>2 DEF Steps, Setup, Waiting
  <2>5. pending' \subseteq Transaction
    BY <1>2 DEF StartRun
  <2> QED
    BY <1>1, <2>1, <2>3, <2>4, <2>5 DEF ClientInv, ClientTypeOK
<1>3. ASSUME Send PROVE ClientInv'
  <2>1. CASE client' = [client EXCEPT !.tx = "failed"] /\ UNCHANGED pending
    <3>1. OwnIsAwaited'
      BY <1>3, <2>1 DEF Send, OwnIsAwaited, ClientInv
    <3> QED
      BY <1>1, <2>1, <3>1 DEF ClientInv, ClientTypeOK, Waiting
  <2>2. CASE /\ StartAge(client.at) <= Lifetime
             /\ pending' = pending \union {[step |-> client.at, resp |-> client.resp,
                               age |-> StartAge(client.at), own |-> TRUE]}
             /\ client' = [client EXCEPT !.tx = "waiting"]
    <3> DEFINE new == [step |-> client.at, resp |-> client.resp,
                       age |-> StartAge(client.at), own |-> TRUE]
    <3>1. StartAge(client.at) \in Age
      BY <2>2 DEF StartAge, Age
    <3>2. new \in Transaction
      BY <1>3, <3>1 DEF Transaction, Send, ClientInv, Steps, Setup
    <3>3. \A tx \in pending : ~tx.own
      BY <1>3 DEF Send, ClientInv, OwnIsAwaited
    <3>4. /\ client'.at = client.at /\ client'.resp = client.resp
          /\ client'.said = client.said /\ client'.tx = "waiting"
          /\ client' \in [at : Steps \union {"idle"}, resp : Response \union {NoResponse},
                   bh : 0 .. Lifetime + 1, tx : Waiting, said : SUBSET Steps]
      <4>1. "waiting" \in Waiting /\ client' = [client EXCEPT !.tx = "waiting"]
        BY <2>2 DEF Waiting
      <4> QED
        BY <4>1 DEF ClientInv, ClientTypeOK
    <3>5. new.own /\ new.step = client.at /\ new.resp = client.resp
          /\ pending' = pending \union {new}
      BY <2>2
    <3> HIDE DEF new
    <3>6. OwnIsAwaited'
      BY <3>3, <3>4, <3>5 DEF OwnIsAwaited
    <3> QED
      BY <1>1, <3>2, <3>4, <3>5, <3>6 DEF ClientInv, ClientTypeOK
  <2> QED
    BY <1>3, <2>1, <2>2 DEF Send
<1>4. ASSUME NEW ok \in BOOLEAN, GoOn(ok), client.at \in Steps, ok => client.tx = "ok",
             pending' \subseteq Transaction, \A tx \in pending' : ~tx.own
      PROVE  ClientInv'
  <2>1. After[client.at] \in Steps \union {"idle"}
    BY <1>4 DEF After, Steps, Setup
  <2>2. /\ client'.at = After[client.at] /\ client'.resp = client.resp
        /\ client'.tx = "ready" /\ client'.said \subseteq client.said \union {client.at}
        /\ ~ok => client'.said = client.said
        /\ client'.bh \in {0, client.bh}
    BY <1>4 DEF GoOn, ClientInv, ClientTypeOK
  <2>3. client' \in [at : Steps \union {"idle"}, resp : Response \union {NoResponse},
                   bh : 0 .. Lifetime + 1, tx : Waiting, said : SUBSET Steps]
    <3> DEFINE bh == IF client.at = "consumer_init" THEN 0 ELSE client.bh
               said == IF ok THEN client.said \union {client.at} ELSE client.said
    <3>1. client' = [client EXCEPT !.at = After[client.at], !.bh = bh,
                                   !.tx = "ready", !.said = said]
      BY <1>4 DEF GoOn
    <3>2. bh \in 0 .. Lifetime + 1 /\ said \in SUBSET Steps /\ "ready" \in Waiting
      BY <1>4 DEF Waiting
    <3> HIDE DEF bh, said
    <3> QED
      BY <2>1, <3>1, <3>2 DEF ClientInv, ClientTypeOK
  <2>4. \A s \in client'.said : Fact(s, client.resp)
    BY <1>4, <2>2 DEF ClientInv
  <2>5. client.resp \in Response
    BY <1>4 DEF ClientInv
  <2>6. OwnIsAwaited'
    BY <1>4 DEF OwnIsAwaited
  <2> QED
    BY <1>1, <1>4, <2>2, <2>3, <2>4, <2>5, <2>6 DEF ClientInv, ClientTypeOK
<1>5. \A tx \in Disowned : tx \in Transaction /\ ~tx.own
  BY DEF Disowned, Transaction
<1>6. ASSUME Confirm PROVE ClientInv'
  <2>1. \A tx \in pending' : ~tx.own
    BY <1>6 DEF Confirm, ClientInv, OwnIsAwaited
  <2>2. pending' \subseteq Transaction
    BY <1>6 DEF Confirm
  <2> QED
    BY <1>4, <1>6, <2>1, <2>2 DEF Confirm
<1>7. ASSUME GiveUp PROVE ClientInv'
  BY <1>4, <1>5, <1>7 DEF GiveUp
<1>8. ASSUME Die PROVE ClientInv'
  <2>1. client' = NoRun /\ pending' = Disowned
    BY <1>8 DEF Die
  <2>2. OwnIsAwaited'
    BY <1>5, <2>1 DEF OwnIsAwaited
  <2> QED
    BY <1>1, <1>5, <2>1, <2>2
       DEF ClientInv, ClientTypeOK, NoRun, Steps, Setup, Waiting
<1> QED
  BY <1>2, <1>3, <1>6, <1>7, <1>8 DEF ClientStep


\* What the cluster makes of a transaction reaches the client that waits for it,
\* and nobody else.
LEMMA ClusterMoves ==
    ASSUME TypeOK, ClientInv,
           \/ \E tx \in pending : Land(tx) \/ LandFails(tx)
           \/ Tick
    PROVE  ClientInv'
<1> USE ClientParts
<1>1. [Next]_vars
  BY ClientStepRefines DEF ClientNext
<1>2. ASSUME NEW step, NEW resp \in Response, Fact(step, resp)
      PROVE  Fact(step, resp)'
  BY <1>1, <1>2, FactStays
<1>3. ASSUME NEW tx \in pending, NEW outcome \in {"ok", "failed"}, Settled(tx, outcome)
      PROVE  /\ client' \in [at : Steps \union {"idle"}, resp : Response \union {NoResponse},
                   bh : 0 .. Lifetime + 1, tx : Waiting, said : SUBSET Steps]
             /\ client'.at = client.at /\ client'.resp = client.resp
             /\ client'.said = client.said
             /\ client'.tx = IF tx.own THEN outcome ELSE client.tx
             /\ pending' \subseteq Transaction
             /\ OwnIsAwaited'
  <2>1. outcome \in Waiting
    BY DEF Waiting
  <2>2. client' = IF tx.own THEN [client EXCEPT !.tx = outcome] ELSE client
    BY <1>3 DEF Settled
  <2>3. /\ client' \in [at : Steps \union {"idle"}, resp : Response \union {NoResponse},
                   bh : 0 .. Lifetime + 1, tx : Waiting, said : SUBSET Steps]
        /\ client'.at = client.at /\ client'.resp = client.resp
        /\ client'.said = client.said
        /\ client'.tx = IF tx.own THEN outcome ELSE client.tx
    BY <2>1, <2>2 DEF ClientInv, ClientTypeOK
  <2>4. pending' = pending \ {tx}
    BY <1>3 DEF Settled
  <2>5. OwnIsAwaited'
    BY <2>3, <2>4 DEF OwnIsAwaited, ClientInv
  <2> QED
    BY <2>3, <2>4, <2>5
<1>4. ASSUME NEW tx \in pending, LandFails(tx) PROVE ClientInv'
  <2>1. UNCHANGED <<vars, effects>> /\ Settled(tx, "failed")
    BY <1>4 DEF LandFails
  <2>2. /\ \A s, r : Fact(s, r)' <=> Fact(s, r)
        /\ SetUp' /\ effects' \in [Initializers -> 0 .. 2]
    BY <2>1 DEF Fact, vars, SetUp, ClientInv, ClientTypeOK
  <2> QED
    BY <1>3, <2>1, <2>2 DEF ClientInv, ClientTypeOK
<1>5. ASSUME NEW tx \in pending, Land(tx) PROVE ClientInv'
  <2>1. /\ tx \in Transaction /\ tx.step \in Steps /\ tx.resp \in Response
        /\ Apply(tx.step, tx.resp) /\ Settled(tx, "ok")
    BY <1>5 DEF Land, Transaction
  <2>2. Fact(tx.step, tx.resp)'
    BY <2>1, ApplyMakesFact
  <2>3. (client.tx = "ok" => Fact(client.at, client.resp))'
    <3>1. CASE tx.own
      <4>1. client'.at = tx.step /\ client'.resp = tx.resp
        BY <1>3, <2>1, <3>1 DEF ClientInv, OwnIsAwaited
      <4> QED
        BY <2>2, <4>1
    <3>2. CASE ~tx.own /\ client.at # "idle"
      <4>1. PICK r \in Response : r = client.resp
        BY <3>2 DEF ClientInv
      <4>2. PICK s : s = client.at
        OBVIOUS
      <4>3. client.tx = "ok" => Fact(s, r)
        BY <4>1, <4>2 DEF ClientInv
      <4>4. client'.at = s /\ client'.resp = r /\ client'.tx = client.tx
        BY <1>3, <2>1, <3>2, <4>1, <4>2
      <4> QED
        BY <1>2, <4>3, <4>4
    <3>3. CASE ~tx.own /\ client.at = "idle"
      <4>1. client'.at = "idle"
        BY <1>3, <2>1, <3>3
      <4> QED
        BY <4>1 DEF Fact
    <3> QED
      BY <3>1, <3>2, <3>3
  <2>4. (\A s \in client.said : Fact(s, client.resp))'
    <3>1. client'.said = client.said /\ client'.resp = client.resp
      BY <1>3, <2>1
    <3> SUFFICES ASSUME NEW s \in client'.said PROVE Fact(s, client.resp)'
      OBVIOUS
    <3>2. PICK r \in Response : r = client.resp
      BY <3>1 DEF ClientInv
    <3>3. Fact(s, r)
      BY <3>1, <3>2 DEF ClientInv
    <3> QED
      BY <1>2, <3>1, <3>2, <3>3
  <2>5. effects' = [s \in Initializers |->
                     IF s = tx.step /\ effects[s] < 2 THEN effects[s] + 1
                                                      ELSE effects[s]]
    BY <1>5 DEF Land
  <2>6. effects' \in [Initializers -> 0 .. 2]
    BY <2>5 DEF ClientInv, ClientTypeOK
  <2>7. SetUp'
    <3> USE DEF Initializers
    <3>1. /\ registry # NoAccount => registry' # NoAccount
          /\ config # NoAccount => config' # NoAccount
      BY <1>1, SetUpStays, StepIrrevocable DEF Irrevocable
    <3>2. CASE tx.step \in Initializers
      <4>1. tx.step = "consumer_init" => registry = NoAccount /\ registry' # NoAccount
        BY <2>1, <2>2 DEF Apply, ConsumerInitialize, Fact
      <4>2. tx.step = "coordinator_init" => config = NoAccount /\ config' # NoAccount
        BY <2>1, <2>2 DEF Apply, Initialize, Fact
      <4> QED
        BY <2>5, <3>1, <3>2, <4>1, <4>2 DEF SetUp, ClientInv
    <3>3. CASE tx.step \notin Initializers
      BY <2>5, <3>1, <3>3 DEF SetUp, ClientInv
    <3> QED
      BY <3>2, <3>3
  <2> QED
    BY <1>3, <2>1, <2>3, <2>4, <2>6, <2>7 DEF ClientInv, ClientTypeOK
<1>6. ASSUME Tick PROVE ClientInv'
  <2>1. /\ \A s, r : Fact(s, r)' <=> Fact(s, r)
        /\ SetUp' /\ effects' \in [Initializers -> 0 .. 2]
    BY <1>6 DEF Tick, Fact, vars, SetUp, ClientInv, ClientTypeOK
  <2> DEFINE bh == IF client.at \in BeforeConsumer /\ client.bh <= Lifetime
                   THEN client.bh + 1 ELSE client.bh
             tx == IF \E t \in pending : t.own /\ t.age = Lifetime
                   THEN "failed" ELSE client.tx
  <2>2. client' = [client EXCEPT !.bh = bh, !.tx = tx]
    BY <1>6 DEF Tick
  <2>3. bh \in 0 .. Lifetime + 1 /\ tx \in Waiting /\ (tx = "ok" => client.tx = "ok")
    BY DEF Waiting
  <2>4. (\E t \in pending : t.own /\ t.age < Lifetime) => tx = "waiting" /\ client.tx = "waiting"
    BY DEF ClientInv, OwnIsAwaited
  <2> HIDE DEF bh, tx
  <2>5. /\ client' \in [at : Steps \union {"idle"}, resp : Response \union {NoResponse},
                   bh : 0 .. Lifetime + 1, tx : Waiting, said : SUBSET Steps]
        /\ client'.at = client.at /\ client'.resp = client.resp
        /\ client'.said = client.said /\ client'.tx = tx
    BY <2>2, <2>3 DEF ClientInv, ClientTypeOK
  <2>6. pending' = {[t EXCEPT !.age = t.age + 1] : t \in {t \in pending : t.age < Lifetime}}
    BY <1>6 DEF Tick
  <2>7. ASSUME NEW u \in pending'
        PROVE  \E t \in pending : /\ t.age < Lifetime /\ u = [t EXCEPT !.age = t.age + 1]
                                  /\ u \in Transaction /\ u.own = t.own
                                  /\ u.step = t.step /\ u.resp = t.resp
    <3>1. PICK t \in pending : t.age < Lifetime /\ u = [t EXCEPT !.age = t.age + 1]
      BY <2>6
    <3>2. t \in Transaction /\ t.age + 1 \in Age
      BY <3>1 DEF Transaction, Age
    <3>3. u \in Transaction /\ u.own = t.own /\ u.step = t.step /\ u.resp = t.resp
      BY <3>1, <3>2 DEF Transaction
    <3> QED
      BY <3>1, <3>3
  <2>8. OwnIsAwaited'
    <3>1. ASSUME NEW u \in pending', u.own
          PROVE  u.step = client'.at /\ u.resp = client'.resp /\ client'.tx = "waiting"
      BY <2>4, <2>5, <2>7, <3>1 DEF ClientInv, OwnIsAwaited
    <3>2. ASSUME NEW u1 \in pending', NEW u2 \in pending', u1.own, u2.own
          PROVE  u1 = u2
      BY <2>7, <3>2 DEF ClientInv, OwnIsAwaited
    <3> QED
      BY <3>1, <3>2 DEF OwnIsAwaited
  <2> QED
    BY <2>1, <2>3, <2>5, <2>7, <2>8 DEF ClientInv, ClientTypeOK
<1> QED
  BY <1>4, <1>5, <1>6

-----------------------------------------------------------------------------
\* Everybody else leaves the client alone and takes nothing back.
LEMMA OthersMove ==
    ASSUME TypeOK, ClientInv, Others
    PROVE  ClientInv'
<1>1. Next /\ UNCHANGED <<client, pending, effects>>
  BY DEF Others, clientVars
<1>2. ASSUME NEW step, NEW resp \in Response, Fact(step, resp)
      PROVE  Fact(step, resp)'
  BY <1>1, <1>2, FactStays
<1>3. /\ registry # NoAccount => registry' # NoAccount
      /\ config # NoAccount => config' # NoAccount
  BY <1>1, SetUpStays, StepIrrevocable DEF Irrevocable
<1>4. SetUp'
  BY <1>1, <1>3 DEF ClientInv, SetUp
<1>5. OwnIsAwaited' /\ ClientTypeOK'
  BY <1>1 DEF ClientInv, OwnIsAwaited, ClientTypeOK
<1>6. CASE client.resp \in Response
  <2>1. PICK r \in Response : r = client.resp
    BY <1>6
  <2>2. PICK at : at = client.at
    OBVIOUS
  <2>3. (client.tx = "ok" => Fact(client.at, client.resp))'
    <3>1. client.tx = "ok" => Fact(at, r)
      BY <2>1, <2>2 DEF ClientInv
    <3>2. client'.at = at /\ client'.resp = r /\ client'.tx = client.tx
      BY <1>1, <2>1, <2>2
    <3> QED
      BY <1>2, <3>1, <3>2
  <2>4. (\A s \in client.said : Fact(s, client.resp))'
    <3> SUFFICES ASSUME NEW s \in client'.said PROVE Fact(s, client.resp)'
      OBVIOUS
    <3>1. Fact(s, r)
      BY <1>1, <2>1 DEF ClientInv
    <3> QED
      BY <1>1, <1>2, <2>1, <3>1
  <2> QED
    BY <1>1, <1>4, <1>5, <1>6, <2>3, <2>4 DEF ClientInv
<1>7. CASE client.resp \notin Response
  <2>1. client.at = "idle" /\ client.said = {}
    BY <1>7 DEF ClientInv
  <2>2. client'.at = "idle" /\ client'.said = {}
    BY <1>1, <2>1
  <2>3. Fact("idle", client.resp)'
    BY DEF Fact
  <2> QED
    BY <1>1, <1>4, <1>5, <2>2, <2>3 DEF ClientInv
<1> QED
  BY <1>6, <1>7

\* A step in which nothing changes.
LEMMA ClientStepInv ==
    TypeOK /\ ClientInv /\ [ClientNext]_allVars => ClientInv'
<1> SUFFICES ASSUME TypeOK, ClientInv, [ClientNext]_allVars PROVE ClientInv'
  OBVIOUS
<1>1. CASE UNCHANGED allVars
  BY <1>1 DEF allVars, clientVars, vars, ClientInv, ClientTypeOK, OwnIsAwaited,
              Fact, SetUp
<1> QED
  BY <1>1, ClientMoves, ClusterMoves, OthersMove DEF ClientNext

\* The chain of the client is the coordinator's: its programs, routers and
\* provers cannot tell that some of their transactions are the client's.
THEOREM ClientUsesCoordinator == ClientSpec => Spec
<1>1. ClientInit => Init /\ ClientInv
  BY ClientInitInv DEF ClientInit
<1>2. IInv /\ ClientInv /\ [ClientNext]_allVars => IInv' /\ ClientInv'
  BY ClientStepRefines, ClientStepInv, StepInv DEF IInv
<1>3. Init => IInv
  BY InitInv
<1>4. IInv /\ ClientInv /\ [ClientNext]_allVars => [Next]_vars
  BY ClientStepRefines
<1> QED
  BY <1>1, <1>2, <1>3, <1>4, PTL DEF ClientSpec, Spec

\* The inductive invariant of the client holds in every reachable state.
THEOREM ClientInvariant == ClientSpec => []ClientInv
<1>1. TypeOK /\ ClientInv /\ [ClientNext]_allVars => ClientInv'
  BY ClientStepInv
<1> QED
  BY <1>1, ClientInitInv, ClientUsesCoordinator, TypeCorrect, PTL DEF ClientSpec

\* A transaction in flight is one that the client can have sent, with a
\* blockhash that is not too old.
THEOREM ClientTypeCorrect == ClientSpec => []ClientTypeOK
<1>1. ClientInv => ClientTypeOK
  BY DEF ClientInv
<1> QED
  BY <1>1, ClientInvariant, PTL

\* What the client printed as ok is so, and stays so.
THEOREM SaidStaysTrue == ClientSpec => []SaidIsTrue
<1>1. ClientInv => SaidIsTrue
  BY DEF ClientInv, SaidIsTrue, Fact
<1> QED
  BY <1>1, ClientInvariant, PTL

\* Neither program is set up twice, however late transactions land.
THEOREM NoSecondSetUp == ClientSpec => []SetUpOnce
<1>1. ClientInv => SetUpOnce
  BY DEF ClientInv, SetUp, SetUpOnce, Initializers
<1> QED
  BY <1>1, ClientInvariant, PTL
=============================================================================
