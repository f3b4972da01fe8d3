----------------------- MODULE CoordinatorExecProofs -----------------------
(***************************************************************************)
(* Proofs about CoordinatorExec, for every number of signers, programs,    *)
(* journals and nullifiers: the accounts that the instructions declare     *)
(* lock enough.  A transaction's copies stay current until it writes them  *)
(* back, so its steps, spread over those of others, have the effect of the *)
(* whole instruction at its end.                                           *)
(***************************************************************************)
EXTENDS CoordinatorExec, CoordinatorProofs, SumTheorems

Pcs == {"handler", "router", "count", "consumer", "commit"}
Views == [config : Config \union {NoAccount}, registry : Registry \union {NoAccount}]
Flight == [pc : Pcs, call : Call, view : Views]

Raised(account) == [account EXCEPT !.verified_count = Increment(@)]

\* What holds of a transaction in flight: its account constraints still do, the
\* checks it has passed still would, and its copies are the accounts, with the
\* counts raised that it has raised.
Current(t) ==
    /\ t.call.kind = "verify" =>
         /\ VerifyAccounts(t.call.seal, t.call.digest, t.call.claimed)
         /\ t.pc # "handler" =>
              NullifierBound(t.call.digest, t.call.index, t.call.claimed)
         /\ t.pc \in {"count", "consumer", "commit"} =>
              ProofAccepted(t.call.seal, t.call.digest)
         /\ t.view.config =
              IF t.pc \in {"consumer", "commit"} THEN Raised(config) ELSE config
         /\ t.call.program = Consumer =>
              /\ t.pc = "commit" => registry # NoAccount
              /\ t.view.registry =
                   IF t.pc = "commit" THEN Raised(registry) ELSE registry
    /\ t.call.kind = "store" => Sha256[t.call.journal] \notin DOMAIN journals
    /\ t.call.kind = "record" =>
         /\ registry # NoAccount /\ t.view.registry = registry
         /\ recorded[t.call.claimed] < MaxCalls
    /\ t.call.kind = "initialize" => config = NoAccount
    /\ t.call.kind = "consumer_initialize" => registry = NoAccount

\* The steps keep ViewIsCurrent only because nobody else holds what they need.
ExecInv ==
    /\ tx \in [User -> Flight \union {Idle}]
    /\ \A u \in User : InFlight(u) => Current(tx[u])
    /\ \A u, v \in User : u # v /\ InFlight(u) /\ InFlight(v) =>
         Writes(tx[u].call) \intersect LockedBy(v) = {}

-----------------------------------------------------------------------------
\* Which instructions need the config and the registry for themselves.
UsesConfig(c) == c.kind \in {"verify", "initialize"}
UsesRegistry(c) ==
    \/ c.kind \in {"record", "consumer_initialize"}
    \/ c.kind = "verify" /\ c.program = Consumer

\* What the locks of two transactions in flight at once exclude.
LEMMA Conflicts ==
    ASSUME NEW c \in Call, NEW d \in Call,
           Writes(c) \intersect (Writes(d) \union Reads(d)) = {}
    PROVE  /\ ~(UsesConfig(c) /\ UsesConfig(d))
           /\ ~(UsesRegistry(c) /\ UsesRegistry(d))
           /\ c.kind = "store" /\ d.kind = "store" =>
                Sha256[c.journal] # Sha256[d.journal]
           /\ c.kind = "store" /\ d.kind = "verify" =>
                Sha256[c.journal] # d.digest
<1>1. ASSUME NEW e \in Call
      PROVE  e.kind \in {"verify", "store", "record", "initialize", "consumer_initialize"}
  BY DEF Call, VerifyCall, StoreCall, RecordCall, InitCall, ConsumerInitCall
<1>2. ASSUME NEW e \in Call, UsesConfig(e) PROVE <<"config">> \in Writes(e)
  BY <1>2 DEF UsesConfig, Writes
<1>3. ASSUME NEW e \in Call, UsesRegistry(e) PROVE <<"registry">> \in Writes(e)
  BY <1>1, <1>3 DEF UsesRegistry, Writes
<1>4. ASSUME NEW e \in Call, e.kind = "store"
      PROVE  <<"journal", Sha256[e.journal]>> \in Writes(e)
  BY <1>4 DEF Writes
<1>5. d.kind = "verify" => <<"journal", d.digest>> \in Reads(d)
  BY DEF Reads
<1> QED
  BY <1>2, <1>3, <1>4, <1>5

\* A transaction in flight keeps what it needs while others change other
\* accounts.
LEMMA CurrentStays ==
    ASSUME NEW t \in Flight, Current(t),
           UsesConfig(t.call) => UNCHANGED config,
           UsesRegistry(t.call) => UNCHANGED <<registry, recorded>>,
           t.call.kind = "verify" =>
             /\ t.call.digest \in DOMAIN journals' 
             /\ journals'[t.call.digest] = journals[t.call.digest]
             /\ UNCHANGED spent
             /\ UNCHANGED router.initialized
             /\ UNCHANGED router.entry[t.call.seal.selector],
           t.call.kind = "store" => Sha256[t.call.journal] \notin DOMAIN journals',
           seals \subseteq seals'
    PROVE  Current(t)'
<1>1. CASE t.call.kind = "verify"
  BY <1>1 DEF Current, UsesConfig, UsesRegistry, VerifyAccounts, NullifierBound,
              ProofAccepted, RouterVerify
<1>2. CASE t.call.kind = "store"
  BY <1>2 DEF Current
<1>3. CASE t.call.kind = "record"
  BY <1>3 DEF Current, UsesRegistry
<1>4. CASE t.call.kind = "initialize"
  BY <1>4 DEF Current, UsesConfig
<1>5. CASE t.call.kind = "consumer_initialize"
  BY <1>5 DEF Current, UsesRegistry
<1>6. t.call.kind \in {"verify", "store", "record", "initialize", "consumer_initialize"}
  BY DEF Flight, Call, VerifyCall, StoreCall, RecordCall, InitCall, ConsumerInitCall
<1> QED
  BY <1>1, <1>2, <1>3, <1>4, <1>5, <1>6

-----------------------------------------------------------------------------
\* No transaction is in flight at first.
LEMMA ExecInitInv == ExecInit => ExecInv
  BY DEF ExecInit, ExecInv, InFlight, Idle

\* A transaction in flight has a call, copies and a place.
LEMMA InFlightType ==
    ASSUME ExecInv, NEW u \in User, InFlight(u)
    PROVE  /\ tx[u] \in Flight /\ tx[u].call \in Call /\ tx[u].pc \in Pcs
           /\ tx[u].view \in Views
           /\ tx[u].call.kind = "verify" => tx[u].call \in VerifyCall
           /\ tx[u].call.kind = "store" => tx[u].call \in StoreCall
           /\ tx[u].call.kind = "record" => tx[u].call \in RecordCall
           /\ tx[u].call.kind = "initialize" => tx[u].call \in InitCall
<1>1. tx[u] \in Flight
  BY DEF ExecInv, InFlight, Idle
<1>2. tx[u].call \in Call
  BY <1>1 DEF Flight
<1> QED
  BY <1>1, <1>2 DEF Flight, Call, VerifyCall, StoreCall, RecordCall, InitCall,
                    ConsumerInitCall

\* When nothing on the chain changes and one signer's transaction does, the
\* others' stay as they are, and so do the locks, unless there are new ones.
LEMMA OneMoves ==
    ASSUME ExecInv, UNCHANGED vars, NEW u \in User,
           NEW new \in Flight \union {Idle}, tx' = [tx EXCEPT ![u] = new],
           new.pc # "idle" => Current(new),
           new.pc # "idle" => InFlight(u) /\ new.call = tx[u].call
    PROVE  ExecInv'
<1>1. tx' \in [User -> Flight \union {Idle}]
  BY DEF ExecInv
<1>2. ASSUME NEW v \in User
      PROVE  tx'[v] = IF v = u THEN new ELSE tx[v]
  BY DEF ExecInv
<1>3. ASSUME NEW v \in User, InFlight(v)'
      PROVE  /\ InFlight(v)
             /\ tx'[v].call = tx[v].call
             /\ (LockedBy(v) = LockedBy(v)')
  BY <1>2, <1>3 DEF InFlight, LockedBy, Writes, Reads
<1>4. \A t : Current(t)' <=> Current(t)
  BY DEF Current, vars, VerifyAccounts, NullifierBound, ProofAccepted, RouterVerify
<1>5. ASSUME NEW v \in User, InFlight(v)' PROVE Current(tx[v])'
  <2>1. PICK t : t = tx'[v]
    OBVIOUS
  <2>2. Current(t)
    BY <1>2, <1>3, <1>5, <2>1 DEF ExecInv, InFlight
  <2> QED
    BY <1>4, <2>1, <2>2
<1>6. ASSUME NEW v \in User, NEW w \in User, v # w, InFlight(v)', InFlight(w)'
      PROVE  (Writes(tx[v].call) \intersect LockedBy(w) = {})'
  <2>1. Writes(tx[v].call) \intersect LockedBy(w) = {}
    BY <1>3, <1>6 DEF ExecInv
  <2>2. Writes(tx[v].call)' = Writes(tx[v].call)
    BY <1>3, <1>6 DEF Writes
  <2> QED
    BY <1>3, <1>6, <2>1, <2>2
<1> QED
  BY <1>1, <1>5, <1>6 DEF ExecInv

\* An aborted transaction leaves nothing.
LEMMA AbortInv ==
    ASSUME ExecInv, NEW u \in User, Abort(u)
    PROVE  ExecInv'
<1>1. UNCHANGED vars /\ tx' = [tx EXCEPT ![u] = Idle] /\ Idle.pc = "idle"
  BY DEF Abort, Idle
<1> QED
  BY <1>1, OneMoves

\* A step to another place, whose check it has just passed.
LEMMA GotoInv ==
    ASSUME ExecInv, NEW u \in User, InFlight(u), NEW pc \in Pcs, Goto(u, pc),
           Current([tx[u] EXCEPT !.pc = pc])
    PROVE  ExecInv'
<1>1. tx[u] \in Flight
  BY InFlightType
<1> DEFINE new == [tx[u] EXCEPT !.pc = pc]
<1>2. new \in Flight /\ new.pc = pc /\ new.call = tx[u].call
  BY <1>1 DEF Flight
<1>3. tx' = [tx EXCEPT ![u] = new] /\ UNCHANGED vars
  BY DEF Goto, ExecInv
<1>4. Current(new)
  OBVIOUS
<1> HIDE DEF new
<1> QED
  BY <1>2, <1>3, <1>4, OneMoves DEF Pcs

\* A step that changes its copies.
LEMMA ContinueInv ==
    ASSUME ExecInv, NEW u \in User, InFlight(u), NEW pc \in Pcs, NEW view \in Views,
           Continue(u, pc, view),
           \A new \in Flight : /\ new.pc = pc /\ new.call = tx[u].call
                               /\ new.view = view
                               => Current(new)
    PROVE  ExecInv'
<1>1. tx[u] \in Flight
  BY InFlightType
<1> DEFINE new == [tx[u] EXCEPT !.pc = pc, !.view = view]
<1>2. new \in Flight /\ new.pc = pc /\ new.call = tx[u].call /\ new.view = view
  BY <1>1 DEF Flight
<1>3. tx' = [tx EXCEPT ![u] = new] /\ UNCHANGED vars
  BY DEF Continue, ExecInv
<1> HIDE DEF new
<1>4. Current(new)
  BY <1>2
<1> QED
  BY <1>2, <1>3, <1>4, OneMoves DEF Pcs

-----------------------------------------------------------------------------
\* The runtime starts a transaction on current copies, and only when its locks
\* are free.
LEMMA BeginInv ==
    ASSUME ExecInv, TypeOK, NEW u \in User, NEW call \in Call, Begin(u, call)
    PROVE  ExecInv'
<1> DEFINE new == [pc |-> "handler", call |-> call, view |-> View]
<1>1. /\ new \in Flight /\ new.pc = "handler" /\ new.call = call
      /\ new.view.config = config /\ new.view.registry = registry
  BY DEF Flight, View, Views, Pcs, TypeOK
<1>2. tx' = [tx EXCEPT ![u] = new] /\ UNCHANGED vars
  BY DEF Begin
<1>3. call.kind \in {"verify", "store", "record", "initialize", "consumer_initialize"}
  BY DEF Call, VerifyCall, StoreCall, RecordCall, InitCall, ConsumerInitCall
<1>4. AccountsOk(call)
  BY DEF Begin
<1> HIDE DEF new
<1>5. Current(new)
  BY <1>1, <1>3, <1>4 DEF Current, AccountsOk
<1>6. tx' \in [User -> Flight \union {Idle}]
  BY <1>1, <1>2 DEF ExecInv
<1>7. ASSUME NEW v \in User
      PROVE  tx'[v] = IF v = u THEN new ELSE tx[v]
  BY <1>2 DEF ExecInv
<1>8. \A t : Current(t)' <=> Current(t)
  BY <1>2 DEF Current, vars, VerifyAccounts, NullifierBound, ProofAccepted, RouterVerify
<1>9. ASSUME NEW v \in User, InFlight(v)' PROVE Current(tx[v])'
  <2>1. PICK t : t = tx'[v]
    OBVIOUS
  <2>2. Current(t)
    BY <1>5, <1>7, <1>9, <2>1 DEF ExecInv, InFlight
  <2> QED
    BY <1>8, <2>1, <2>2
<1>10. ASSUME NEW v \in User, NEW w \in User, v # w, InFlight(v)', InFlight(w)'
       PROVE  (Writes(tx[v].call) \intersect LockedBy(w) = {})'
  <2>1. PICK c, d : c = tx'[v].call /\ d = tx'[w].call
    OBVIOUS
  <2>2. SUFFICES Writes(c) \intersect (Writes(d) \union Reads(d)) = {}
    BY <2>1 DEF LockedBy, Writes, Reads
  <2>3. CASE v # u /\ w # u
    BY <1>7, <1>10, <2>1, <2>3 DEF ExecInv, InFlight, LockedBy
  <2>4. CASE v = u
    <3>1. w # u /\ InFlight(w) /\ d = tx[w].call /\ c = call
      BY <1>1, <1>7, <1>10, <2>1, <2>4 DEF InFlight
    <3> QED
      BY <3>1 DEF Begin, Unlocked, LockedBy
  <2>5. CASE w = u
    <3>1. v # u /\ InFlight(v) /\ c = tx[v].call /\ d = call
      BY <1>1, <1>7, <1>10, <2>1, <2>5 DEF InFlight
    <3>2. /\ Writes(d) \intersect (Writes(c) \union Reads(c)) = {}
          /\ Writes(c) \intersect Reads(d) = {}
      BY <3>1 DEF Begin, Unlocked, LockedBy
    <3> QED
      BY <3>2
  <2> QED
    BY <2>3, <2>4, <2>5
<1> QED
  BY <1>6, <1>9, <1>10 DEF ExecInv

\* The steps of verify_predicate before its end.
LEMMA HandlerInv ==
    ASSUME ExecInv, TypeOK, NEW u \in User,
           CheckJournal(u) \/ CallRouter(u) \/ RaiseCount(u) \/ CallConsumer(u)
    PROVE  ExecInv' /\ UNCHANGED vars
<1> DEFINE t == tx[u]
<1>1. InFlight(u) /\ t.call.kind = "verify"
  BY DEF CheckJournal, CallRouter, RaiseCount, CallConsumer, At
<1>2. t \in Flight /\ t.call \in VerifyCall /\ t.view \in Views /\ Current(t)
  BY <1>1, InFlightType DEF ExecInv
<1>3. ASSUME Abort(u) PROVE ExecInv' /\ UNCHANGED vars
  BY <1>3, AbortInv DEF Abort
<1>4. ASSUME NEW pc \in Pcs
      PROVE  LET n == [t EXCEPT !.pc = pc] IN
             n.pc = pc /\ n.call = t.call /\ n.view = t.view
  BY <1>2 DEF Flight
<1>5. ASSUME CheckJournal(u) PROVE ExecInv' /\ UNCHANGED vars
  <2>1. CASE Abort(u)
    BY <1>3, <2>1
  <2>2. CASE NullifierBound(t.call.digest, t.call.index, t.call.claimed) /\ Goto(u, "router")
    <3>1. t.pc = "handler"
      BY <1>5 DEF CheckJournal, At
    <3>2. Current([t EXCEPT !.pc = "router"])
      BY <1>1, <1>2, <1>4, <2>2, <3>1 DEF Current, Pcs
    <3> QED
      BY <1>1, <2>2, <3>2, GotoInv DEF Pcs, Goto
  <2> QED
    BY <1>5, <2>1, <2>2 DEF CheckJournal
<1>6. ASSUME CallRouter(u) PROVE ExecInv' /\ UNCHANGED vars
  <2>1. CASE Abort(u)
    BY <1>3, <2>1
  <2>2. CASE /\ router.entry[t.call.seal.selector] = "active"
             /\ RouterVerify(t.call.seal, t.view.config.image_id, t.call.digest)
             /\ Goto(u, "count")
    <3>1. t.pc = "router"
      BY <1>6 DEF CallRouter, At
    <3>2. t.view.config = config
      BY <1>1, <1>2, <3>1 DEF Current
    <3>3. ProofAccepted(t.call.seal, t.call.digest)
      BY <2>2, <3>2 DEF ProofAccepted
    <3>4. Current([t EXCEPT !.pc = "count"])
      BY <1>1, <1>2, <1>4, <3>1, <3>3 DEF Current, Pcs
    <3> QED
      BY <1>1, <2>2, <3>4, GotoInv DEF Pcs, Goto
  <2> QED
    BY <1>6, <2>1, <2>2 DEF CallRouter
<1>7. ASSUME RaiseCount(u) PROVE ExecInv' /\ UNCHANGED vars
  <2>1. t.pc = "count"
    BY <1>7 DEF RaiseCount, At
  <2>2. t.view.config = config /\ config \in Config
    BY <1>1, <1>2, <2>1 DEF Current, VerifyAccounts, TypeOK
  <2>3. Raised(config) \in Config
    BY <2>2, IncrementType DEF Raised, Config
  <2> DEFINE view == [t.view EXCEPT !.config.verified_count = Increment(@)]
  <2>4. view = [config |-> Raised(config), registry |-> t.view.registry]
    BY <1>2, <2>2 DEF Views, Raised
  <2>5. Continue(u, "consumer", view)
    BY <1>7 DEF RaiseCount
  <2>6. view \in Views
    BY <1>2, <2>3, <2>4 DEF Views
  <2> HIDE DEF view
  <2>7. ASSUME NEW new \in Flight, new.pc = "consumer", new.call = t.call,
               new.view = view
        PROVE  Current(new)
    BY <1>1, <1>2, <2>1, <2>4, <2>7 DEF Current
  <2>8. "consumer" \in Pcs /\ UNCHANGED vars
    BY <2>5 DEF Pcs, Continue
  <2> QED
    BY <1>1, <2>5, <2>6, <2>7, <2>8, ContinueInv
<1>8. ASSUME CallConsumer(u) PROVE ExecInv' /\ UNCHANGED vars
  <2>1. t.pc = "consumer"
    BY <1>8 DEF CallConsumer, At
  <2>2. CASE Abort(u)
    BY <1>3, <2>2
  <2>3. CASE t.call.program # Consumer /\ Goto(u, "commit")
    <3>1. Current([t EXCEPT !.pc = "commit"])
      BY <1>1, <1>2, <1>4, <2>1, <2>3 DEF Current, Pcs
    <3> QED
      BY <1>1, <2>3, <3>1, GotoInv DEF Pcs, Goto
  <2> DEFINE view == [t.view EXCEPT !.registry.verified_count = Increment(@)]
  <2>4. CASE /\ t.call.program = Consumer /\ t.view.registry # NoAccount
             /\ Continue(u, "commit", view)
    <3>1. t.view.registry = registry /\ registry # NoAccount /\ registry \in Registry
      BY <1>1, <1>2, <2>1, <2>4 DEF Current, TypeOK
    <3>2. Raised(registry) \in Registry
      BY <3>1, IncrementType DEF Raised, Registry
    <3>3. view = [config |-> t.view.config, registry |-> Raised(registry)]
      BY <1>2, <3>1 DEF Views, Raised
    <3>4. view \in Views
      BY <1>2, <3>2, <3>3 DEF Views
    <3> HIDE DEF view
    <3>5. ASSUME NEW new \in Flight, new.pc = "commit", new.call = t.call,
                 new.view = view
          PROVE  Current(new)
      BY <1>1, <1>2, <2>1, <3>1, <3>3, <3>5 DEF Current
    <3>6. "commit" \in Pcs /\ UNCHANGED vars
      BY <2>4 DEF Pcs, Continue, view
    <3>7. Continue(u, "commit", view)
      BY <2>4 DEF view
    <3> QED
      BY <1>1, <3>4, <3>5, <3>6, <3>7, ContinueInv
  <2> QED
    BY <1>8, <2>2, <2>3, <2>4 DEF CallConsumer
<1> QED
  BY <1>5, <1>6, <1>7, <1>8

-----------------------------------------------------------------------------
\* A transaction that writes its accounts back takes nothing from the others in
\* flight, if what it changes is what its locks gave it alone.
LEMMA CommitInv ==
    ASSUME ExecInv, NEW u \in User, InFlight(u), tx' = [tx EXCEPT ![u] = Idle],
           UNCHANGED <<router, seals>>,
           UsesConfig(tx[u].call) \/ UNCHANGED <<config, spent>>,
           UsesRegistry(tx[u].call) \/ UNCHANGED <<registry, recorded>>,
           \A d \in DOMAIN journals : d \in DOMAIN journals' /\ journals'[d] = journals[d],
           \A d \in DOMAIN journals' \ DOMAIN journals :
               tx[u].call.kind = "store" /\ d = Sha256[tx[u].call.journal]
    PROVE  ExecInv'
<1>1. tx' \in [User -> Flight \union {Idle}]
  BY DEF ExecInv
<1>2. ASSUME NEW v \in User
      PROVE  tx'[v] = IF v = u THEN Idle ELSE tx[v]
  BY DEF ExecInv
<1>3. ASSUME NEW v \in User, InFlight(v)'
      PROVE  /\ v # u /\ InFlight(v) /\ tx'[v] = tx[v]
             /\ LockedBy(v)' = LockedBy(v)
             /\ Writes(tx[v].call)' = Writes(tx[v].call)
  <2>1. v # u /\ tx'[v] = tx[v]
    BY <1>2, <1>3 DEF InFlight, Idle
  <2> QED
    BY <1>3, <2>1 DEF InFlight, LockedBy, Writes, Reads
<1>4. ASSUME NEW v \in User, InFlight(v)' PROVE Current(tx[v])'
  <2>1. /\ tx[u].call \in Call /\ tx[v] \in Flight /\ tx[v].call \in Call
        /\ Current(tx[v])
    BY <1>3, <1>4, InFlightType DEF ExecInv
  <2>2. /\ Writes(tx[u].call) \intersect (Writes(tx[v].call) \union Reads(tx[v].call)) = {}
    BY <1>3, <1>4 DEF ExecInv, LockedBy
  <2>3. PICK c \in Call, t \in Flight : c = tx[u].call /\ t = tx[v]
    BY <2>1
  <2>4. /\ ~(UsesConfig(c) /\ UsesConfig(t.call))
        /\ ~(UsesRegistry(c) /\ UsesRegistry(t.call))
        /\ c.kind = "store" /\ t.call.kind = "store" =>
             Sha256[c.journal] # Sha256[t.call.journal]
    BY <2>1, <2>2, <2>3, Conflicts
  <2>5. UsesConfig(t.call) => UNCHANGED <<config, spent>>
    BY <2>3, <2>4
  <2>6. UsesRegistry(t.call) => UNCHANGED <<registry, recorded>>
    BY <2>3, <2>4
  <2>7. t.call.kind = "verify" =>
          /\ t.call.digest \in DOMAIN journals'
          /\ journals'[t.call.digest] = journals[t.call.digest]
          /\ UNCHANGED spent
    BY <2>1, <2>3, <2>5 DEF UsesConfig, Current, VerifyAccounts
  <2>8. t.call.kind = "store" => Sha256[t.call.journal] \notin DOMAIN journals'
    BY <2>1, <2>3, <2>4 DEF Current
  <2>9. Current(t)
    BY <2>1, <2>3
  <2>10. Current(t)'
    BY <2>5, <2>6, <2>7, <2>8, <2>9, CurrentStays
  <2>11. t = tx'[v]
    BY <1>3, <1>4, <2>3
  <2> QED
    BY <2>10, <2>11
<1>5. ASSUME NEW v \in User, NEW w \in User, v # w, InFlight(v)', InFlight(w)'
      PROVE  (Writes(tx[v].call) \intersect LockedBy(w) = {})'
  BY <1>3, <1>5 DEF ExecInv
<1> QED
  BY <1>1, <1>4, <1>5 DEF ExecInv

\* The end of verify_predicate is the whole instruction.
LEMMA VerifyCommits ==
    ASSUME ExecInv, TypeOK, NEW u \in User, CommitVerify(u)
    PROVE  Next /\ ExecInv'
<1> DEFINE t == tx[u]
           c == tx[u].call
<1>1. InFlight(u) /\ c.kind = "verify" /\ t.pc = "commit"
  BY DEF CommitVerify, At
<1>2. t \in Flight /\ c \in VerifyCall /\ t.view \in Views /\ Current(t)
  BY <1>1, InFlightType DEF ExecInv
<1>3. /\ VerifyAccounts(c.seal, c.digest, c.claimed)
      /\ NullifierBound(c.digest, c.index, c.claimed)
      /\ ProofAccepted(c.seal, c.digest)
      /\ t.view.config = Raised(config)
      /\ c.program = Consumer => registry # NoAccount /\ t.view.registry = Raised(registry)
  BY <1>1, <1>2 DEF Current
<1>4. /\ spent' = spent \union {c.claimed}
      /\ config' = Raised(config)
      /\ UNCHANGED <<journals, externalVars>>
      /\ verified' = Append(verified,
              [by |-> u, nullifier |-> c.claimed, digest |-> c.digest,
               index |-> c.index, seal |-> c.seal, program |-> c.program])
  BY <1>3 DEF CommitVerify
<1>5. Forward(c.program, c.claimed)
  BY <1>3 DEF CommitVerify, Forward, RecordVerification, Raised
<1>6. VerifyPredicate(u, c.seal, c.digest, c.index, c.claimed, c.program)
  BY <1>3, <1>4, <1>5 DEF VerifyPredicate, Raised
<1>7. /\ c.seal \in Seal /\ c.digest \in Digest /\ c.index \in Index
      /\ c.claimed \in Nullifier /\ c.program \in Program
  BY <1>2 DEF VerifyCall
<1>8. Next
  BY <1>6, <1>7 DEF Next, CoordinatorStep
<1>9. UsesRegistry(c) \/ UNCHANGED <<registry, recorded>>
  BY <1>1 DEF CommitVerify, UsesRegistry, consumerVars
<1>10. UsesConfig(c) /\ UNCHANGED <<router, seals, journals>>
  BY <1>1, <1>4 DEF UsesConfig, externalVars
<1>11. tx' = [tx EXCEPT ![u] = Idle]
  BY DEF CommitVerify
<1> QED
  BY <1>1, <1>8, <1>9, <1>10, <1>11, CommitInv

\* So is the end of each other instruction.
LEMMA OthersCommit ==
    ASSUME ExecInv, TypeOK, NEW u \in User,
           \/ CommitStore(u) \/ CommitRecord(u)
           \/ CommitInitialize(u) \/ CommitConsumerInitialize(u)
    PROVE  [Next]_vars /\ ExecInv'
<1> DEFINE c == tx[u].call
<1>1. InFlight(u) /\ tx' = [tx EXCEPT ![u] = Idle]
  BY DEF CommitStore, CommitRecord, CommitInitialize, CommitConsumerInitialize, RunsOnce
<1>2. Current(tx[u])
  BY <1>1 DEF ExecInv
<1>3. ASSUME CommitStore(u) PROVE [Next]_vars /\ ExecInv'
  <2>1. c.kind = "store" /\ c \in StoreCall /\ Sha256[c.journal] \notin DOMAIN journals
    BY <1>1, <1>2, <1>3, InFlightType DEF CommitStore, RunsOnce, Current
  <2>2. CASE UNCHANGED vars
    BY <1>1, <2>2, CommitInv DEF vars
  <2>3. CASE c.journal \in Small /\ ~UNCHANGED vars
    <3>1. StoreJournal(c.journal) /\ c.journal \in Journal
      BY <1>3, <2>1, <2>3 DEF CommitStore, StoreJournal, StoreCall
    <3>2. Next
      BY <3>1 DEF Next, CoordinatorStep
    <3>3. /\ UNCHANGED <<router, seals, config, spent, registry, recorded>>
          /\ \A d \in DOMAIN journals : d \in DOMAIN journals' /\ journals'[d] = journals[d]
          /\ \A d \in DOMAIN journals' \ DOMAIN journals : d = Sha256[c.journal]
      BY <3>1 DEF StoreJournal, consumerVars, externalVars
    <3> QED
      BY <1>1, <2>1, <3>2, <3>3, CommitInv
  <2> QED
    BY <1>3, <2>2, <2>3 DEF CommitStore
<1>4. ASSUME CommitRecord(u) PROVE [Next]_vars /\ ExecInv'
  <2>1. /\ c.kind = "record" /\ c \in RecordCall
        /\ registry # NoAccount /\ tx[u].view.registry = registry
        /\ recorded[c.claimed] < MaxCalls
    BY <1>1, <1>2, <1>4, InFlightType DEF CommitRecord, RunsOnce, Current
  <2>2. CallRecordVerification(c.claimed) /\ c.claimed \in Nullifier
    BY <1>4, <2>1 DEF CommitRecord, CallRecordVerification, RecordVerification, RecordCall
  <2>3. Next
    BY <2>2 DEF Next, ConsumerStep
  <2>4. UsesRegistry(c) /\ UNCHANGED <<router, seals, config, spent, journals>>
    BY <1>4, <2>1 DEF UsesRegistry, CommitRecord, coordinatorVars, externalVars
  <2> QED
    BY <1>1, <2>3, <2>4, CommitInv
<1>5. ASSUME CommitInitialize(u) PROVE [Next]_vars /\ ExecInv'
  <2>1. c.kind = "initialize" /\ c \in InitCall /\ config = NoAccount
    BY <1>1, <1>2, <1>5, InFlightType DEF CommitInitialize, RunsOnce, Current
  <2>2. Initialize(u, c.image) /\ c.image \in Image
    BY <1>5, <2>1 DEF CommitInitialize, Initialize, InitCall
  <2>3. Next
    BY <2>2 DEF Next, CoordinatorStep
  <2>4. UsesConfig(c) /\ UNCHANGED <<router, seals, registry, recorded, journals>>
    BY <2>1, <2>2 DEF UsesConfig, Initialize, consumerVars, externalVars
  <2> QED
    BY <1>1, <2>3, <2>4, CommitInv
<1>6. ASSUME CommitConsumerInitialize(u) PROVE [Next]_vars /\ ExecInv'
  <2>1. c.kind = "consumer_initialize" /\ registry = NoAccount
    BY <1>1, <1>2, <1>6 DEF CommitConsumerInitialize, RunsOnce, Current
  <2>2. ConsumerInitialize(u)
    BY <1>6, <2>1 DEF CommitConsumerInitialize, ConsumerInitialize
  <2>3. Next
    BY <2>2 DEF Next, ConsumerStep
  <2>4. UsesRegistry(c) /\ UNCHANGED <<router, seals, config, spent, journals>>
    BY <2>1, <2>2 DEF UsesRegistry, ConsumerInitialize, coordinatorVars, externalVars
  <2> QED
    BY <1>1, <2>3, <2>4, CommitInv
<1> QED
  BY <1>3, <1>4, <1>5, <1>6

\* While the accounts of the router and the provers' seals change, no
\* transaction starts or ends, and those that read what changed are not there.
LEMMA OutsideStays ==
    ASSUME ExecInv, UNCHANGED <<tx, coordinatorVars, consumerVars>>,
           seals \subseteq seals',
           \A u \in User : InFlight(u) /\ tx[u].call.kind = "verify" =>
               /\ UNCHANGED router.initialized
               /\ UNCHANGED router.entry[tx[u].call.seal.selector]
    PROVE  ExecInv'
<1>1. tx' = tx /\ UNCHANGED <<config, journals, spent, registry, recorded>>
  BY DEF coordinatorVars, consumerVars
<1>2. ASSUME NEW u \in User, InFlight(u)' PROVE Current(tx[u])'
  <2>1. InFlight(u)
    BY <1>1, <1>2 DEF InFlight
  <2>2. PICK t \in Flight : t = tx[u]
    BY <2>1, InFlightType
  <2>3. Current(t)
    BY <2>1, <2>2 DEF ExecInv
  <2>4. t.call.kind = "verify" => t.call.digest \in DOMAIN journals
    BY <2>3 DEF Current, VerifyAccounts
  <2>5. t.call.kind = "store" => Sha256[t.call.journal] \notin DOMAIN journals
    BY <2>3 DEF Current
  <2>6. t.call.kind = "verify" =>
          /\ UNCHANGED router.initialized
          /\ UNCHANGED router.entry[t.call.seal.selector]
    BY <2>1, <2>2
  <2>7. Current(t)'
    BY <1>1, <2>3, <2>4, <2>5, <2>6, CurrentStays
  <2>8. t = tx'[u]
    BY <1>1, <2>2
  <2> QED
    BY <2>7, <2>8
<1>3. ASSUME NEW u \in User
      PROVE  /\ InFlight(u)' <=> InFlight(u)
             /\ LockedBy(u)' = LockedBy(u)
             /\ Writes(tx[u].call)' = Writes(tx[u].call)
  BY <1>1 DEF InFlight, LockedBy, Writes, Reads
<1>4. ASSUME NEW u \in User, NEW v \in User, u # v, InFlight(u)', InFlight(v)'
      PROVE  (Writes(tx[u].call) \intersect LockedBy(v) = {})'
  BY <1>3, <1>4 DEF ExecInv
<1> QED
  BY <1>1, <1>2, <1>4 DEF ExecInv

\* The router's instructions and the provers are those of Coordinator.
LEMMA OutsideInv ==
    ASSUME ExecInv, TypeOK, RouterStep \/ ProverStep
    PROVE  Next /\ ExecInv'
<1>r. router \in [initialized : BOOLEAN, entry : [Selector -> EntryState]]
  BY DEF TypeOK
<1>1. ASSUME NEW u \in User, InFlight(u), tx[u].call.kind = "verify"
      PROVE  /\ <<"router">> \in LockedBy(u)
             /\ <<"entry", tx[u].call.seal.selector>> \in LockedBy(u)
  BY <1>1 DEF LockedBy, Reads
<1>2. CASE FreeForRouter(<<"router">>) /\ RouterInitialize /\ UNCHANGED tx
  <2>1. UNCHANGED <<coordinatorVars, consumerVars, seals>>
    BY <1>2 DEF RouterInitialize
  <2>2. \A u \in User : ~(InFlight(u) /\ tx[u].call.kind = "verify")
    BY <1>1, <1>2 DEF FreeForRouter
  <2>3. Next
    BY <1>2 DEF Next, External
  <2> QED
    BY <1>2, <2>1, <2>2, <2>3, OutsideStays
<1>3. ASSUME NEW s \in Selector, FreeForRouter(<<"entry", s>>),
             AddVerifier(s) \/ EmergencyStop(s), UNCHANGED tx
      PROVE  Next /\ ExecInv'
  <2>1. UNCHANGED <<coordinatorVars, consumerVars, seals>>
    BY <1>3 DEF AddVerifier, EmergencyStop
  <2>2. /\ UNCHANGED router.initialized
        /\ \A r \in Selector : r # s => router'.entry[r] = router.entry[r]
    BY <1>3, <1>r DEF AddVerifier, EmergencyStop
  <2>3. ASSUME NEW u \in User, InFlight(u), tx[u].call.kind = "verify"
        PROVE  UNCHANGED router.entry[tx[u].call.seal.selector]
    <3>1. tx[u].call.seal.selector # s
      BY <1>1, <1>3, <2>3 DEF FreeForRouter
    <3>2. tx[u].call.seal.selector \in Selector
      BY <2>3, InFlightType DEF VerifyCall, Seal
    <3>3. PICK r \in Selector : r = tx[u].call.seal.selector
      BY <3>2
    <3>4. router'.entry[r] = router.entry[r]
      BY <2>2, <3>1, <3>3
    <3>5. tx' = tx
      BY <1>3
    <3> QED
      BY <3>3, <3>4, <3>5
  <2>4. Next
    BY <1>3 DEF Next, External
  <2> QED
    BY <1>3, <2>1, <2>2, <2>3, <2>4, OutsideStays
<1>4. ASSUME NEW s \in Selector, NEW i \in Image, NEW j \in Journal, Prove(s, i, j),
             UNCHANGED tx
      PROVE  Next /\ ExecInv'
  <2>1. UNCHANGED <<coordinatorVars, consumerVars, router>> /\ seals \subseteq seals'
    BY <1>4 DEF Prove
  <2>2. Next
    BY <1>4 DEF Next, External
  <2>3. \A u \in User : InFlight(u) /\ tx[u].call.kind = "verify" =>
               /\ UNCHANGED router.initialized
               /\ UNCHANGED router.entry[tx[u].call.seal.selector]
    BY <1>4, <2>1
  <2> QED
    BY <1>4, <2>1, <2>2, <2>3, OutsideStays
<1> QED
  BY <1>2, <1>3, <1>4 DEF RouterStep, ProverStep

-----------------------------------------------------------------------------
\* Every step of a transaction is a step of Coordinator or changes nothing there.
LEMMA ExecStep ==
    TypeOK /\ ExecInv /\ [ExecNext]_execVars => [Next]_vars /\ ExecInv'
<1> SUFFICES ASSUME TypeOK, ExecInv, [ExecNext]_execVars
             PROVE  [Next]_vars /\ ExecInv'
  OBVIOUS
<1>1. CASE UNCHANGED execVars
  <2>1. /\ UNCHANGED <<vars, tx>>
        /\ UNCHANGED <<tx, coordinatorVars, consumerVars, seals, router>>
    BY <1>1 DEF execVars, vars, coordinatorVars, consumerVars
  <2>2. \A u \in User : InFlight(u) /\ tx[u].call.kind = "verify" =>
               /\ UNCHANGED router.initialized
               /\ UNCHANGED router.entry[tx[u].call.seal.selector]
    BY <2>1
  <2> QED
    BY <2>1, <2>2, OutsideStays
<1>2. ASSUME NEW u \in User, NEW call \in Call, Begin(u, call)
      PROVE  [Next]_vars /\ ExecInv'
  BY <1>2, BeginInv DEF Begin
<1>3. ASSUME NEW u \in User, Run(u) PROVE [Next]_vars /\ ExecInv'
  <2>1. CASE CheckJournal(u) \/ CallRouter(u) \/ RaiseCount(u) \/ CallConsumer(u)
    BY <2>1, HandlerInv
  <2>2. CASE CommitVerify(u)
    BY <2>2, VerifyCommits
  <2>3. CASE \/ CommitStore(u) \/ CommitRecord(u)
             \/ CommitInitialize(u) \/ CommitConsumerInitialize(u)
    BY <2>3, OthersCommit
  <2> QED
    BY <1>3, <2>1, <2>2, <2>3 DEF Run
<1>4. CASE RouterStep \/ ProverStep
  BY <1>4, OutsideInv
<1> QED
  BY <1>1, <1>2, <1>3, <1>4 DEF ExecNext

\* The invariant of the interleaved steps: copies are current and locks
\* disjoint, and Coordinator's own invariant holds of the accounts.
THEOREM ExecInvariant == ExecSpec => [](IInv /\ ExecInv)
<1>1. ExecInit => IInv /\ ExecInv
  BY ExecInitInv, InitInv DEF ExecInit
<1>2. IInv /\ ExecInv /\ [ExecNext]_execVars => (IInv /\ ExecInv)'
  BY ExecStep, StepInv DEF IInv
<1> QED
  BY <1>1, <1>2, PTL DEF ExecSpec

\* Instructions that run in parallel, fail half-way or meet a router entry being
\* stopped do to the accounts what whole instructions do one after the other.
THEOREM ExecImplements == ExecSpec => ImplementsCoordinator
<1>1. ExecInit => Init
  BY DEF ExecInit
<1>2. IInv /\ ExecInv /\ [ExecNext]_execVars => [Next]_vars
  BY ExecStep DEF IInv
<1> QED
  BY <1>1, <1>2, ExecInvariant, PTL DEF ExecSpec, ImplementsCoordinator, Spec

\* verify_predicate checks the proof against the image id that is on the chain,
\* and writes back a config nobody else has changed meanwhile.
THEOREM ViewCurrent == ExecSpec => []ViewIsCurrent
<1>1. ExecInv => ViewIsCurrent
  BY DEF ExecInv, ViewIsCurrent, At, Current
<1> QED
  BY <1>1, ExecInvariant, PTL

\* No interleaving spends a nullifier without announcing it or loses a count of
\* the config.
THEOREM ExecAtomicity == ExecSpec => []SpentIsVerified
<1>1. IInv => SpentIsVerified
  BY DEF IInv
<1> QED
  BY <1>1, ExecInvariant, PTL

-----------------------------------------------------------------------------
(***************************************************************************)
(* The registry counts what was recorded                                   *)
(***************************************************************************)
\* One more event for one nullifier is one more in the total.
LEMMA TotalRises ==
    ASSUME recorded \in [Nullifier -> Nat], NEW n \in Nullifier,
           recorded' = [recorded EXCEPT ![n] = @ + 1]
    PROVE  TotalRecorded \in Int /\ TotalRecorded' = TotalRecorded + 1
<1> DEFINE rest == SumFunctionOnSet(recorded, Nullifier \ {n})
           new == [recorded EXCEPT ![n] = @ + 1]
<1>1. /\ Summable(recorded, Nullifier) /\ Summable(new, Nullifier)
      /\ Summable(recorded, Nullifier \ {n})
  BY NullifierAssumption, FS_Subset DEF Summable
<1>2. TotalRecorded = SumFunctionOnSet(recorded, Nullifier)
      /\ TotalRecorded' = SumFunctionOnSet(new, Nullifier)
  BY DEF TotalRecorded, SumFunction
<1>3. SumFunctionOnSet(recorded, Nullifier) = recorded[n] + rest
  BY <1>1, SumWithout
<1>4. SumFunctionOnSet(new, Nullifier)
        = new[n] + SumFunctionOnSet(new, Nullifier \ {n})
  BY <1>1, SumWithout
<1>5. SumFunctionOnSet(new, Nullifier \ {n}) = rest
  BY <1>1, SumSame
<1>6. rest \in Int
  BY <1>1, SumType
<1>7. new[n] = recorded[n] + 1 /\ recorded[n] \in Int
  OBVIOUS
<1> HIDE DEF rest, new
<1> QED
  BY <1>2, <1>3, <1>4, <1>5, <1>6, <1>7

\* Before there is a registry nothing is recorded.
RecordsCounted == NoLostRecord /\ (registry = NoAccount => TotalRecorded = 0)

\* Nothing is recorded at first.
LEMMA InitCounted == Init => RecordsCounted
<1> SUFFICES ASSUME Init PROVE RecordsCounted
  OBVIOUS
<1>1. recorded = [n \in Nullifier |-> 0] /\ registry = NoAccount
  BY DEF Init
<1>2. TotalRecorded = 0
  <2>1. TotalRecorded = SumFunctionOnSet(recorded, Nullifier)
    BY <1>1 DEF TotalRecorded, SumFunction
  <2> QED
    BY <1>1, <2>1, SumZero, NullifierAssumption
<1> QED
  BY <1>1, <1>2 DEF RecordsCounted, NoLostRecord

\* record_verification raises the count and the total together.
LEMMA RecordCounted ==
    ASSUME TypeOK, RecordsCounted, NEW n \in Nullifier, RecordVerification(n)
    PROVE  RecordsCounted'
<1>1. /\ registry # NoAccount /\ registry' # NoAccount
  BY RecordingGrows
<1>2. registry \in Registry /\ recorded \in [Nullifier -> Nat]
  BY <1>1 DEF TypeOK
<1>3. TotalRecorded \in Int /\ TotalRecorded' = TotalRecorded + 1
  BY <1>2, TotalRises DEF RecordVerification
<1>4. registry'.verified_count = Increment(registry.verified_count)
  BY <1>2 DEF RecordVerification, Registry
<1>5. registry.verified_count =
        IF TotalRecorded < CountMax THEN TotalRecorded ELSE CountMax
  BY <1>1 DEF RecordsCounted, NoLostRecord
<1>6. registry'.verified_count =
        IF TotalRecorded' < CountMax THEN TotalRecorded' ELSE CountMax
  BY <1>3, <1>4, <1>5, CountMaxAssumption DEF Increment
<1> QED
  BY <1>1, <1>6 DEF RecordsCounted, NoLostRecord

\* Whatever the callers, the relayer and the runtime do next.
LEMMA StepCounted ==
    ASSUME TypeOK, RecordsCounted, [Next]_vars
    PROVE  RecordsCounted'
<1>1. CASE UNCHANGED consumerVars
  BY <1>1 DEF RecordsCounted, NoLostRecord, TotalRecorded, consumerVars
<1>2. CASE \E u \in User : ConsumerInitialize(u)
  <2>1. /\ registry = NoAccount /\ registry' \in Registry
        /\ registry'.verified_count = 0 /\ recorded' = recorded
    BY <1>2, CountMaxAssumption DEF ConsumerInitialize, Registry
  <2>2. registry' # NoAccount
    BY <2>1, NoAccountAssumption
  <2>3. TotalRecorded' = 0
    BY <2>1 DEF RecordsCounted, TotalRecorded
  <2> QED
    BY <2>1, <2>2, <2>3, CountMaxAssumption DEF RecordsCounted, NoLostRecord
<1>3. CASE \E n \in Nullifier : RecordVerification(n)
  BY <1>3, RecordCounted
<1> QED
  BY <1>1, <1>2, <1>3
     DEF Next, External, ConsumerStep, CoordinatorStep, RouterInitialize, AddVerifier,
         EmergencyStop, Prove, Initialize, StoreJournal, CallRecordVerification,
         VerifyPredicate, Forward, vars, consumerVars

\* However many transactions raise it in parallel, through verify_predicate or by
\* calling record_verification themselves, the registry's count is the number of
\* events, until it saturates.
THEOREM Records == ExecSpec => []NoLostRecord
<1>1. TypeOK /\ RecordsCounted /\ [Next]_vars => RecordsCounted'
  BY StepCounted
<1>2. RecordsCounted => NoLostRecord
  BY DEF RecordsCounted
<1>3. Spec => []NoLostRecord
  BY <1>1, <1>2, InitCounted, TypeCorrect, PTL DEF Spec
<1> QED
  BY <1>3, ExecImplements, PTL DEF ImplementsCoordinator
=============================================================================
