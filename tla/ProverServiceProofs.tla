------------------------ MODULE ProverServiceProofs ------------------------
(***************************************************************************)
(* Proofs about ProverService, for every number of requests, proofs and    *)
(* images: what the service answers and what it writes is attested, and    *)
(* what verify.rs passes stays whole.                                      *)
(***************************************************************************)
EXTENDS ProverService, TLAPS

\* A file that fs::write has truncated is torn until it is filled.
OpenIsTorn == run.open => run.next # "done" /\ artifacts[run.next] = Torn

\* There is a seal from the compression on, and only then.
SealLate == cli.pc \in {"write", "fill", "done"} <=> cli.seal # NoSeal

Untouched(file) == ~(run.open /\ run.next = file)

\* What verify.rs has read and not found torn is still on the disk, while
\* nothing has begun to rewrite it.
ReadingIsCurrent ==
    preflight = "reading" =>
        /\ cli.pc \in {"pre_journal", "pre_check"} /\ cli.proof # Torn =>
             artifacts.proof = cli.proof /\ Untouched("proof")
        /\ cli.pc = "pre_check" /\ cli.journal # Torn =>
             artifacts.journal = cli.journal /\ Untouched("journal")

\* After a PASS the two files belong together, and to the circuit.
PassedTogether ==
    preflight = "passed" =>
        /\ artifacts.proof \in Proof
        /\ artifacts.journal = JournalOf[artifacts.proof]
        /\ CircuitImage = ImageOf[artifacts.proof]
        /\ Untouched("proof") /\ Untouched("journal")

\* PassIsIntact and FilesSealedTogether are about finished runs; to be inductive
\* they need what is true in the middle of one.
IInv ==
    /\ TypeOK
    /\ OpenIsTorn
    /\ SealLate
    /\ AnswerIsAttested
    /\ FilesSealedTogether
    /\ ReadingIsCurrent
    /\ PassedTogether

-----------------------------------------------------------------------------
\* Nothing has been written, read or answered at first.
LEMMA InitInv == Init => IInv
<1> SUFFICES ASSUME Init PROVE IInv
  OBVIOUS
<1>1. PICK p0 \in Proof : run = [proof |-> p0, next |-> "done", open |-> FALSE]
  BY DEF Init
<1>2. PICK p \in [Request -> Proof \union {Torn}], i \in [Request -> Image \union {Torn, Cut}] :
        wrapReq = [r \in Request |->
            [pc |-> "new", proof |-> p[r], image_id |-> i[r], journal |-> Torn]]
  BY DEF Init
<1>3. wrapReq \in [Request -> RequestState]
  BY <1>2 DEF RequestState
<1>4. /\ artifacts \in Files /\ run \in RunState /\ cli \in CliState
      /\ answer \in [Request -> Answer \union {Missing}]
  BY <1>1 DEF Init, Files, RunState, CliState, CliAt
<1>5. TypeOK
  BY <1>3, <1>4 DEF Init, TypeOK
<1>6. ~run.open /\ preflight = "none" /\ cli.pc = "idle" /\ cli.seal = NoSeal
  BY <1>1 DEF Init, CliAt
<1>7. \A r \in Request : answer[r] = Missing
  BY DEF Init
<1> QED
  BY <1>5, <1>6, <1>7 DEF IInv, OpenIsTorn, SealLate, AnswerIsAttested,
     FilesSealedTogether, ReadingIsCurrent, PassedTogether

-----------------------------------------------------------------------------
\* The types of what prove.rs writes.
LEMMA ContentType ==
    ASSUME NEW p \in Proof
    PROVE  /\ Content(p, "proof") \in Proof
           /\ Content(p, "journal") \in Journal
           /\ Content(p, "image_id") \in Image
           /\ Claim(p) \in Seal
  BY DEF Content, Journal, Image, Claim, Seal

\* prove.rs: while a file is being rewritten, nobody holds a PASS about it.
LEMMA RunInv ==
    ASSUME IInv,
           (\E p \in Proof : StartRun(p)) \/ Truncate \/ Fill \/ CrashRun
    PROVE  IInv'
<1> USE DEF IInv
<1>1. UNCHANGED <<cli, wrapReq, answer>> /\ artifacts'.seal = artifacts.seal
  BY DEF StartRun, Truncate, Fill, CrashRun, TypeOK, Files, RunState, OpenIsTorn
<1>2. AnswerIsAttested' /\ SealLate' /\ FilesSealedTogether'
  BY <1>1 DEF AnswerIsAttested, SealLate, FilesSealedTogether, Claim
<1>3. ASSUME NEW p \in Proof, StartRun(p) PROVE IInv'
  <2>1. TypeOK'
    BY <1>3 DEF StartRun, TypeOK, RunState
  <2>2. ~run'.open /\ UNCHANGED <<artifacts, cli, preflight>>
    BY <1>3 DEF StartRun
  <2> QED
    BY <1>2, <2>1, <2>2 DEF OpenIsTorn, ReadingIsCurrent, PassedTogether, Untouched
<1>4. ASSUME CrashRun PROVE IInv'
  <2>1. TypeOK' /\ ~run'.open /\ UNCHANGED <<artifacts, cli, preflight>>
    BY <1>4 DEF CrashRun, TypeOK, RunState
  <2> QED
    BY <1>2, <2>1 DEF OpenIsTorn, ReadingIsCurrent, PassedTogether, Untouched
<1>5. ASSUME Truncate PROVE IInv'
  <2>1. /\ run.next \in {"proof", "journal", "image_id"}
        /\ run' = [run EXCEPT !.open = TRUE] /\ run \in RunState
        /\ artifacts' = [artifacts EXCEPT ![run.next] = Torn] /\ artifacts \in Files
        /\ preflight' = IF run.next = "image_id" THEN preflight ELSE "none"
    BY <1>5 DEF Truncate, TypeOK, RunState
  <2>2. artifacts' \in Files /\ run' \in RunState /\ run'.next = run.next /\ run'.open
    BY <2>1 DEF Files, RunState
  <2>3. TypeOK'
    BY <1>1, <2>1, <2>2 DEF TypeOK
  <2>4. OpenIsTorn'
    BY <2>1, <2>2 DEF OpenIsTorn, Files
  <2>5. CASE run.next = "image_id"
    <3>1. artifacts'.proof = artifacts.proof /\ artifacts'.journal = artifacts.journal
      BY <2>1, <2>5 DEF Files
    <3> QED
      BY <1>1, <1>2, <2>1, <2>2, <2>3, <2>4, <2>5, <3>1
         DEF ReadingIsCurrent, PassedTogether, Untouched
  <2>6. CASE run.next # "image_id"
    BY <1>2, <2>1, <2>3, <2>4, <2>6 DEF ReadingIsCurrent, PassedTogether
  <2> QED
    BY <2>5, <2>6
<1>6. ASSUME Fill PROVE IInv'
  <2>1. /\ run.open /\ run.next \in {"proof", "journal", "image_id"} /\ run.proof \in Proof
        /\ run' = [run EXCEPT !.next = After[run.next], !.open = FALSE]
        /\ artifacts' = [artifacts EXCEPT ![run.next] = Content(run.proof, run.next)]
        /\ run \in RunState /\ artifacts \in Files /\ UNCHANGED preflight
    BY <1>6 DEF Fill, TypeOK, RunState, OpenIsTorn
  <2>2. run' \in RunState /\ ~run'.open
    <3>1. After[run.next] \in {"journal", "image_id", "done"}
      <4>1. CASE run.next = "proof"
        BY <4>1 DEF After
      <4>2. CASE run.next = "journal"
        BY <4>2 DEF After
      <4>3. CASE run.next = "image_id"
        BY <4>3 DEF After
      <4> QED
        BY <2>1, <4>1, <4>2, <4>3
    <3> QED
      BY <2>1, <3>1 DEF RunState
  <2>3. artifacts' \in Files
    BY <2>1, ContentType DEF Files
  <2>4. TypeOK' /\ OpenIsTorn'
    BY <1>1, <2>1, <2>2, <2>3 DEF TypeOK, OpenIsTorn
  <2>5. \A f \in {"proof", "journal"} : Untouched(f) => artifacts'[f] = artifacts[f]
    BY <2>1 DEF Files, Untouched
  <2>6. ReadingIsCurrent' /\ PassedTogether'
    BY <1>1, <2>1, <2>2, <2>5 DEF ReadingIsCurrent, PassedTogether, Untouched
  <2> QED
    BY <1>2, <2>4, <2>6
<1> QED
  BY <1>3, <1>4, <1>5, <1>6

-----------------------------------------------------------------------------
\* What wrap() returns is an error or the claim of what it was given.
LEMMA WrapAttests ==
    ASSUME NEW proof, NEW journal, NEW image_id,
           NEW s \in WrapResults(proof, journal, image_id), s # NoSeal
    PROVE  /\ proof \in Proof /\ s = Claim(proof) /\ s \in Seal
           /\ s.image = image_id /\ s.journal = journal
<1>1. Verifies(proof, journal, image_id) /\ s = Claim(proof)
  BY DEF WrapResults
<1> QED
  BY <1>1, ContentType DEF Verifies, Claim

\* The one-shot prover leaves everything but its own seal alone.
LEMMA CliInv ==
    ASSUME IInv, Cli \/ CliCrash \/ CliRestart, UNCHANGED preflight
    PROVE  IInv'
<1> USE DEF IInv
<1>t. artifacts \in Files /\ cli \in CliState /\ run \in RunState
  BY DEF TypeOK
<1>1. UNCHANGED <<run, wrapReq, answer, preflight>>
  BY DEF Cli, CliCrash, CliRestart, CliRead, CliParse, CliWrap, CliWrite, CliStep
<1>2. AnswerIsAttested'
  BY <1>1 DEF AnswerIsAttested, Claim
<1> DEFINE Same == /\ artifacts'.proof = artifacts.proof
                   /\ artifacts'.journal = artifacts.journal
                   /\ artifacts'.image_id = artifacts.image_id
<1>3. ASSUME artifacts' \in Files, Same, cli' \in CliState, SealLate',
             FilesSealedTogether', cli'.pc \notin {"pre_journal", "pre_check"}
      PROVE  IInv'
  <2>1. TypeOK'
    BY <1>1, <1>3 DEF TypeOK
  <2>2. OpenIsTorn'
    BY <1>1, <1>3, <1>t DEF OpenIsTorn, RunState
  <2>3. ReadingIsCurrent' /\ PassedTogether'
    BY <1>1, <1>3 DEF ReadingIsCurrent, PassedTogether, Untouched
  <2> QED
    BY <1>2, <1>3, <2>1, <2>2, <2>3
<1>4. ASSUME NEW pc \in {"idle", "failed"}, cli' = CliAt(pc), UNCHANGED artifacts
      PROVE  IInv'
  <2>1. cli' \in CliState /\ cli'.pc = pc /\ cli'.seal = NoSeal
    BY <1>4 DEF CliAt, CliState
  <2> QED
    BY <1>3, <1>4, <1>t, <2>1 DEF SealLate, FilesSealedTogether
<1>5. ASSUME CliRead("idle", "proof", "journal") PROVE IInv'
  <2>1. CASE artifacts.proof # Missing
    <3>1. /\ cli' = [cli EXCEPT !.pc = "journal", !.proof = artifacts.proof]
          /\ UNCHANGED artifacts /\ cli.seal = NoSeal
      BY <1>5, <2>1 DEF CliRead, CliStep, SealLate
    <3>2. cli' \in CliState /\ cli'.pc = "journal" /\ cli'.seal = NoSeal
      BY <1>t, <2>1, <3>1 DEF CliState, Files
    <3> QED
      BY <1>3, <1>t, <3>1, <3>2 DEF SealLate, FilesSealedTogether
  <2> QED
    BY <1>4, <1>5, <2>1 DEF CliRead, CliStep
<1>6. ASSUME CliRead("journal", "journal", "image_id") PROVE IInv'
  <2>1. CASE artifacts.journal # Missing
    <3>1. /\ cli' = [cli EXCEPT !.pc = "image_id", !.journal = artifacts.journal]
          /\ UNCHANGED artifacts /\ cli.seal = NoSeal
      BY <1>6, <2>1 DEF CliRead, CliStep, SealLate
    <3>2. cli' \in CliState /\ cli'.pc = "image_id" /\ cli'.seal = NoSeal
      BY <1>t, <2>1, <3>1 DEF CliState, Files
    <3> QED
      BY <1>3, <1>t, <3>1, <3>2 DEF SealLate, FilesSealedTogether
  <2> QED
    BY <1>4, <1>6, <2>1 DEF CliRead, CliStep
<1>7. ASSUME CliParse PROVE IInv'
  <2>1. CASE artifacts.image_id \notin {Missing, Torn}
    <3>1. /\ cli' = [cli EXCEPT !.pc = "wrap", !.image_id = artifacts.image_id]
          /\ UNCHANGED artifacts /\ cli.seal = NoSeal
      BY <1>7, <2>1 DEF CliParse, CliStep, SealLate
    <3>2. cli' \in CliState /\ cli'.pc = "wrap" /\ cli'.seal = NoSeal
      BY <1>t, <2>1, <3>1 DEF CliState, Files
    <3> QED
      BY <1>3, <1>t, <3>1, <3>2 DEF SealLate, FilesSealedTogether
  <2> QED
    BY <1>4, <1>7, <2>1 DEF CliParse, CliStep
<1>8. ASSUME CliWrap PROVE IInv'
  <2>1. PICK s \in WrapResults(cli.proof, cli.journal, cli.image_id) :
          CliStep("wrap", IF s = NoSeal THEN CliAt("failed")
                          ELSE [cli EXCEPT !.pc = "write", !.seal = s])
    BY <1>8 DEF CliWrap
  <2>2. CASE s # NoSeal
    <3>1. /\ s = Claim(cli.proof) /\ s \in Seal
          /\ s.image = cli.image_id /\ s.journal = cli.journal
      BY <2>2, WrapAttests
    <3>2. cli' = [cli EXCEPT !.pc = "write", !.seal = s] /\ UNCHANGED artifacts
      BY <1>8, <2>1, <2>2 DEF CliStep, CliWrap
    <3>3. /\ cli' \in CliState /\ cli'.pc = "write" /\ cli'.seal = s
          /\ cli'.proof = cli.proof /\ cli'.journal = cli.journal
          /\ cli'.image_id = cli.image_id
      BY <1>t, <3>1, <3>2 DEF CliState
    <3>4. s = [image |-> cli.image_id, journal |-> cli.journal]
      BY <3>1 DEF Seal
    <3>5. FilesSealedTogether' /\ SealLate'
      BY <2>2, <3>1, <3>3, <3>4 DEF FilesSealedTogether, SealLate, Claim
    <3> QED
      BY <1>3, <1>t, <3>2, <3>3, <3>5
  <2>3. UNCHANGED artifacts
    BY <1>8 DEF CliWrap
  <2> QED
    BY <1>4, <2>1, <2>2, <2>3 DEF CliStep
<1>9. ASSUME CliWrite PROVE IInv'
  <2>1. ASSUME NEW pc \in {"fill", "done"}, cli' = [cli EXCEPT !.pc = pc],
               artifacts' = [artifacts EXCEPT !.seal = IF pc = "fill" THEN Torn ELSE cli.seal],
               cli.seal # NoSeal
        PROVE  IInv'
    <3>1. /\ cli' \in CliState /\ cli'.pc = pc /\ cli'.seal = cli.seal
          /\ cli'.proof = cli.proof /\ cli'.journal = cli.journal
          /\ cli'.image_id = cli.image_id
      BY <1>t, <2>1 DEF CliState
    <3>2. Same /\ artifacts'.seal = IF pc = "fill" THEN Torn ELSE cli.seal
      BY <1>t, <2>1 DEF Files
    <3>3. artifacts' \in Files
      BY <1>t, <2>1 DEF Files, CliState
    <3>4. FilesSealedTogether' /\ SealLate'
      BY <2>1, <3>1, <3>2 DEF FilesSealedTogether, SealLate, Claim
    <3> QED
      BY <1>3, <2>1, <3>1, <3>2, <3>3, <3>4
  <2> QED
    BY <1>9, <2>1 DEF CliWrite, CliStep, SealLate
<1>10. ASSUME CliCrash \/ CliRestart PROVE IInv'
  BY <1>4, <1>10 DEF CliCrash, CliRestart, CliStep
<1> QED
  BY <1>5, <1>6, <1>7, <1>8, <1>9, <1>10 DEF Cli

\* verify.rs only reads.
LEMMA PreflightInv ==
    ASSUME IInv, PreflightRead \/ PreflightCheck
    PROVE  IInv'
<1> USE DEF IInv
<1>t. /\ artifacts \in Files /\ cli \in CliState /\ run \in RunState
      /\ preflight \in {"none", "reading", "passed"}
  BY DEF TypeOK
<1>1. UNCHANGED <<run, wrapReq, answer, artifacts>>
  BY DEF PreflightRead, PreflightCheck, CliRead, CliStep
<1>2. ASSUME cli' \in CliState, preflight' \in {"none", "reading", "passed"},
             cli'.pc \notin {"write", "fill", "done"}, cli'.seal = NoSeal,
             ReadingIsCurrent', PassedTogether'
      PROVE  IInv'
  <2>1. TypeOK' /\ OpenIsTorn' /\ AnswerIsAttested'
    BY <1>1, <1>2 DEF TypeOK, OpenIsTorn, AnswerIsAttested, Claim
  <2>2. SealLate' /\ FilesSealedTogether'
    BY <1>2 DEF SealLate, FilesSealedTogether
  <2> QED
    BY <1>2, <2>1, <2>2
<1>3. ASSUME CliRead("idle", "proof", "pre_journal"), preflight' = "reading"
      PROVE  IInv'
  <2>1. CASE artifacts.proof # Missing
    <3>1. /\ cli' = [cli EXCEPT !.pc = "pre_journal", !.proof = artifacts.proof]
          /\ cli.seal = NoSeal
      BY <1>3, <2>1 DEF CliRead, CliStep, SealLate
    <3>2. /\ cli' \in CliState /\ cli'.pc = "pre_journal" /\ cli'.seal = NoSeal
          /\ cli'.proof = artifacts.proof
      BY <1>t, <2>1, <3>1 DEF CliState, Files
    <3>3. cli'.proof # Torn => Untouched("proof")
      BY <3>2 DEF OpenIsTorn, Untouched
    <3>4. ReadingIsCurrent' /\ PassedTogether'
      BY <1>1, <1>3, <3>2, <3>3 DEF ReadingIsCurrent, PassedTogether, Untouched
    <3> QED
      BY <1>2, <1>3, <3>2, <3>4
  <2>2. CASE artifacts.proof = Missing
    <3>1. cli' \in CliState /\ cli'.pc = "failed" /\ cli'.seal = NoSeal
      BY <1>3, <2>2 DEF CliRead, CliStep, CliAt, CliState
    <3>2. ReadingIsCurrent' /\ PassedTogether'
      BY <1>3, <3>1 DEF ReadingIsCurrent, PassedTogether
    <3> QED
      BY <1>2, <1>3, <3>1, <3>2
  <2> QED
    BY <2>1, <2>2
<1>4. ASSUME CliRead("pre_journal", "journal", "pre_check"), UNCHANGED preflight
      PROVE  IInv'
  <2>1. PassedTogether'
    BY <1>1, <1>4 DEF PassedTogether, Untouched
  <2>2. CASE artifacts.journal # Missing
    <3>1. /\ cli' = [cli EXCEPT !.pc = "pre_check", !.journal = artifacts.journal]
          /\ cli.seal = NoSeal /\ cli.pc = "pre_journal"
      BY <1>4, <2>2 DEF CliRead, CliStep, SealLate
    <3>2. /\ cli' \in CliState /\ cli'.pc = "pre_check" /\ cli'.seal = NoSeal
          /\ cli'.journal = artifacts.journal /\ cli'.proof = cli.proof
      BY <1>t, <2>2, <3>1 DEF CliState, Files
    <3>3. cli'.journal # Torn => Untouched("journal")
      BY <3>2 DEF OpenIsTorn, Untouched
    <3>4. ReadingIsCurrent'
      BY <1>1, <1>4, <3>1, <3>2, <3>3 DEF ReadingIsCurrent, Untouched
    <3> QED
      BY <1>2, <1>4, <1>t, <2>1, <3>2, <3>4
  <2>3. CASE artifacts.journal = Missing
    <3>1. cli' \in CliState /\ cli'.pc = "failed" /\ cli'.seal = NoSeal
      BY <1>4, <2>3 DEF CliRead, CliStep, CliAt, CliState
    <3>2. ReadingIsCurrent'
      BY <3>1 DEF ReadingIsCurrent
    <3> QED
      BY <1>2, <1>4, <1>t, <2>1, <3>1, <3>2
  <2> QED
    BY <2>2, <2>3
<1>5. ASSUME PreflightCheck PROVE IInv'
  <2>1. \E pc \in {"idle", "failed"} : cli' = CliAt(pc)
    BY <1>5 DEF PreflightCheck, CliStep
  <2>2. /\ cli' \in CliState /\ cli'.pc \in {"idle", "failed"} /\ cli'.seal = NoSeal
    BY <2>1 DEF CliAt, CliState
  <2>3. preflight' \in {"none", "passed"} /\ ReadingIsCurrent'
    BY <1>5 DEF PreflightCheck, ReadingIsCurrent
  <2>4. PassedTogether'
    <3>1. CASE preflight' = "passed"
      <4>1. /\ cli.pc = "pre_check" /\ preflight = "reading"
            /\ Verifies(cli.proof, cli.journal, CircuitImage)
        BY <1>5, <3>1 DEF PreflightCheck, CliStep
      <4>2. /\ cli.proof \in Proof /\ cli.journal = JournalOf[cli.proof]
            /\ CircuitImage = ImageOf[cli.proof]
        BY <4>1 DEF Verifies
      <4>3. cli.proof # Torn /\ cli.journal # Torn
        BY <4>2, ProofAssumption DEF Journal
      <4>4. /\ artifacts.proof = cli.proof /\ Untouched("proof")
            /\ artifacts.journal = cli.journal /\ Untouched("journal")
        BY <4>1, <4>3 DEF ReadingIsCurrent
      <4> QED
        BY <1>1, <4>2, <4>4 DEF PassedTogether, Untouched
    <3> QED
      BY <3>1 DEF PassedTogether
  <2> QED
    BY <1>2, <2>2, <2>3, <2>4
<1> QED
  BY <1>3, <1>4, <1>5 DEF PreflightRead

-----------------------------------------------------------------------------
\* A request is answered with 200 only by the seal of its own proof.
LEMMA HandleInv ==
    ASSUME IInv, NEW r \in Request, Handle(r)
    PROVE  IInv'
<1> USE DEF IInv
<1>t. /\ wrapReq \in [Request -> RequestState]
      /\ answer \in [Request -> Answer \union {Missing}]
      /\ artifacts \in Files
  BY DEF TypeOK
<1>1. UNCHANGED <<artifacts, run, cli, preflight>>
  BY DEF Handle, Accept, ReadJournal, Respond, Reply, Proceed
<1>2. /\ OpenIsTorn' /\ SealLate' /\ FilesSealedTogether'
      /\ ReadingIsCurrent' /\ PassedTogether'
  BY <1>1 DEF OpenIsTorn, SealLate, FilesSealedTogether, ReadingIsCurrent,
              PassedTogether, Untouched, Claim
<1>3. ASSUME NEW status \in {200, 400, 500}, NEW seal \in Seal \union {NoSeal},
             NEW journal \in Journal \union {Torn},
             Reply(r, status, seal, journal),
             status = 200 =>
               /\ wrapReq[r].proof \in Proof /\ seal = Claim(wrapReq[r].proof)
               /\ seal.image = wrapReq[r].image_id /\ seal.journal = journal
      PROVE  IInv'
  <2> DEFINE a == [status |-> status, seal |-> seal, journal |-> journal]
  <2>1. /\ answer' = [answer EXCEPT ![r] = a] /\ a \in Answer
        /\ wrapReq' = [wrapReq EXCEPT ![r].pc = "answered"]
    BY <1>3 DEF Reply, Answer
  <2>2. /\ wrapReq' \in [Request -> RequestState]
        /\ \A q \in Request : /\ wrapReq'[q].proof = wrapReq[q].proof
                              /\ wrapReq'[q].image_id = wrapReq[q].image_id
    BY <1>t, <2>1 DEF RequestState
  <2>3. /\ answer' \in [Request -> Answer \union {Missing}]
        /\ \A q \in Request : answer'[q] = IF q = r THEN a ELSE answer[q]
    BY <1>t, <2>1
  <2>4. TypeOK'
    BY <1>1, <2>2, <2>3 DEF TypeOK
  <2>5. a.status = status /\ a.seal = seal /\ a.journal = journal
    OBVIOUS
  <2> HIDE DEF a
  <2>6. ASSUME NEW q \in Request, answer'[q] # Missing, answer'[q].status = 200
        PROVE  /\ wrapReq'[q].proof \in Proof
               /\ answer'[q].seal = Claim(wrapReq'[q].proof)
               /\ answer'[q].seal.image = wrapReq'[q].image_id
               /\ answer'[q].seal.journal = answer'[q].journal
    BY <1>3, <2>2, <2>3, <2>5, <2>6 DEF AnswerIsAttested
  <2>7. AnswerIsAttested'
    BY <2>6 DEF AnswerIsAttested, Claim
  <2> QED
    BY <1>2, <2>4, <2>7
<1>4. ASSUME NEW pc \in {"journal", "wrap"}, NEW journal \in Journal \union {Torn},
             wrapReq' = [wrapReq EXCEPT ![r].pc = pc, ![r].journal = journal],
             UNCHANGED answer
      PROVE  IInv'
  <2>1. /\ wrapReq' \in [Request -> RequestState]
        /\ \A q \in Request : /\ wrapReq'[q].proof = wrapReq[q].proof
                              /\ wrapReq'[q].image_id = wrapReq[q].image_id
    BY <1>t, <1>4 DEF RequestState
  <2>2. TypeOK' /\ AnswerIsAttested'
    BY <1>1, <1>4, <2>1 DEF TypeOK, AnswerIsAttested, Claim
  <2> QED
    BY <1>2, <2>2
<1>5. ASSUME Accept(r) PROVE IInv'
  <2>1. CASE Reply(r, 400, NoSeal, Torn)
    BY <1>3, <2>1
  <2>2. ASSUME NEW pc \in {"journal", "dropped"}, Proceed(r, pc) PROVE IInv'
    <3>1. /\ wrapReq' \in [Request -> RequestState]
          /\ \A q \in Request : /\ wrapReq'[q].proof = wrapReq[q].proof
                                /\ wrapReq'[q].image_id = wrapReq[q].image_id
      BY <1>t, <2>2 DEF RequestState, Proceed
    <3>2. TypeOK' /\ AnswerIsAttested'
      BY <1>1, <2>2, <3>1 DEF TypeOK, AnswerIsAttested, Claim, Proceed
    <3> QED
      BY <1>2, <3>2
  <2> QED
    BY <1>5, <2>1, <2>2 DEF Accept
<1>6. ASSUME ReadJournal(r) PROVE IInv'
  <2>1. CASE artifacts.journal = Missing
    BY <1>3, <1>6, <2>1 DEF ReadJournal
  <2>2. CASE artifacts.journal # Missing
    <3>1. artifacts.journal \in Journal \union {Torn}
      BY <1>t, <2>2 DEF Files
    <3> QED
      BY <1>4, <1>6, <2>2, <3>1 DEF ReadJournal
  <2> QED
    BY <2>1, <2>2
<1>7. ASSUME Respond(r) PROVE IInv'
  <2>1. PICK s \in WrapResults(wrapReq[r].proof, wrapReq[r].journal,
                               wrapReq[r].image_id) :
           IF s = NoSeal THEN Reply(r, 500, NoSeal, Torn)
                         ELSE Reply(r, 200, s, wrapReq[r].journal)
    BY <1>7 DEF Respond
  <2>2. CASE s = NoSeal
    BY <1>3, <2>1, <2>2
  <2>3. CASE s # NoSeal
    <3>1. /\ wrapReq[r].proof \in Proof /\ s = Claim(wrapReq[r].proof) /\ s \in Seal
          /\ s.image = wrapReq[r].image_id /\ s.journal = wrapReq[r].journal
      BY <2>3, WrapAttests
    <3>2. wrapReq[r].journal \in Journal \union {Torn}
      BY <1>t DEF RequestState
    <3> QED
      BY <1>3, <2>1, <2>3, <3>1, <3>2
  <2> QED
    BY <2>2, <2>3
<1> QED
  BY <1>5, <1>6, <1>7 DEF Handle

-----------------------------------------------------------------------------
\* The programs that share the artifacts directory keep the invariant together.
LEMMA StepInv == IInv /\ [Next]_vars => IInv'
<1> SUFFICES ASSUME IInv, [Next]_vars PROVE IInv'
  OBVIOUS
<1>1. CASE UNCHANGED vars
  BY <1>1 DEF vars, IInv, TypeOK, OpenIsTorn, SealLate, AnswerIsAttested,
     FilesSealedTogether, ReadingIsCurrent, PassedTogether, Untouched, Claim
<1> QED
  BY <1>1, RunInv, CliInv, PreflightInv, HandleInv DEF Next

\* However prove.rs, verify.rs, the one-shot prover and the service interleave
\* and die.
THEOREM Invariant == Spec => []IInv
  BY InitInv, StepInv, PTL DEF Spec

\* Every process is at a step it has, and the files hold what files can hold.
THEOREM TypeCorrect == Spec => []TypeOK
<1>1. IInv => TypeOK
  BY DEF IInv
<1> QED
  BY <1>1, Invariant, PTL

\* A 200 of handle_wrap carries the seal of the proof that was sent, with the
\* journal that seal attests.
THEOREM AnswersAttested == Spec => []AnswerIsAttested
<1>1. IInv => AnswerIsAttested
  BY DEF IInv
<1> QED
  BY <1>1, Invariant, PTL

\* run_oneshot makes a seal only of three files that belong together.
THEOREM FilesTogether == Spec => []FilesSealedTogether
<1>1. IInv => FilesSealedTogether
  BY DEF IInv
<1> QED
  BY <1>1, Invariant, PTL

\* A PASS of verify.rs holds until something rewrites what it has read.
THEOREM PassIntact == Spec => []PassIsIntact
<1>1. IInv => PassIsIntact
  BY DEF IInv, PassedTogether, PassIsIntact, Verifies
<1> QED
  BY <1>1, Invariant, PTL
=============================================================================
