--------------------------- MODULE ProverService ---------------------------
(***************************************************************************)
(* How a proof becomes a seal.  predicate-engine/integration_tests/        *)
(* examples/prove.rs leaves three files in artifacts/, one write after the *)
(* other; prover/src/main.rs turns them into seal.bin (one-shot mode) or   *)
(* answers POST /wrap requests (serve mode), which carry the proof and the *)
(* image id but not the journal: that comes from artifacts/journal.bin.    *)
(* integration_tests/examples/verify.rs tries the files before that.       *)
(* Any of these run at the same time, and any process can die between two  *)
(* steps.                                                                  *)
(*                                                                         *)
(* A proof is one receipt: it verifies with one journal under one image.   *)
(***************************************************************************)
EXTENDS Naturals

CONSTANTS
    Proof,      \* the succinct receipts there are
    JournalOf,  \* the journal each commits
    ImageOf,    \* the image each is a run of
    CircuitImage,  \* PRIVACY_PRESERVING_CIRCUIT_ID, as verify.rs was built
    Request,    \* HTTP requests the service gets
    Missing,    \* a file that does not exist
    Torn,       \* a file, or a request's field, that holds no valid value
    Cut,        \* an image_id_hex of 64 bytes that is not of 64 characters: a
                \* slice of 8 bytes ends inside one before any word fails to parse
    NoSeal      \* no seal was made

Journal == {JournalOf[p] : p \in Proof}
Image == {ImageOf[p] : p \in Proof}

ASSUME ProofAssumption ==
    /\ DOMAIN JournalOf = Proof /\ DOMAIN ImageOf = Proof
    /\ CircuitImage \in Image
    /\ Missing # Torn
    /\ Missing \notin Proof \union Journal \union Image
    /\ Torn \notin Proof \union Journal \union Image
    /\ Cut \notin Image \union {Torn}

\* What a seal attests.
Seal == [image : Image, journal : Journal]

VARIABLES
    artifacts,  \* the directory: the contents of the four files
    run,        \* the run of prove.rs that is writing, and its next file
    cli,        \* the one-shot run of the prover, or of verify.rs
    preflight,  \* history: "passed" since verify.rs has and nothing has begun
                \* to rewrite what it read
    wrapReq,    \* each HTTP request: its progress, fields and journal bytes
    answer      \* the response each request got

vars == <<artifacts, run, cli, preflight, wrapReq, answer>>

Files == [proof : Proof \union {Missing, Torn},
          journal : Journal \union {Missing, Torn},
          image_id : Image \union {Missing, Torn},
          seal : Seal \union {Missing, Torn}]
RunState == [proof : Proof, next : {"proof", "journal", "image_id", "done"},
             open : BOOLEAN]
CliState == [pc : {"idle", "journal", "image_id", "wrap", "write", "fill",
                   "pre_journal", "pre_check", "failed", "done"},
             proof : Proof \union {Torn}, journal : Journal \union {Torn},
             image_id : Image \union {Torn}, seal : Seal \union {NoSeal}]
RequestState == [pc : {"new", "journal", "wrap", "answered", "dropped"},
                 proof : Proof \union {Torn}, image_id : Image \union {Torn, Cut},
                 journal : Journal \union {Torn}]
Answer == [status : {200, 400, 500}, seal : Seal \union {NoSeal},
           journal : Journal \union {Torn}]

TypeOK ==
    /\ artifacts \in Files
    /\ run \in RunState
    /\ cli \in CliState
    /\ preflight \in {"none", "reading", "passed"}
    /\ wrapReq \in [Request -> RequestState]
    /\ answer \in [Request -> Answer \union {Missing}]

\* A process that has read nothing yet, or is gone with all it had read.
CliAt(pc) == [pc |-> pc, proof |-> Torn, journal |-> Torn, image_id |-> Torn,
              seal |-> NoSeal]

Init ==
    /\ artifacts = [proof |-> Missing, journal |-> Missing,
                    image_id |-> Missing, seal |-> Missing]
    /\ \E p \in Proof : run = [proof |-> p, next |-> "done", open |-> FALSE]
    /\ cli = CliAt("idle")
    /\ preflight = "none"
    /\ \E p \in [Request -> Proof \union {Torn}],
          i \in [Request -> Image \union {Torn, Cut}] :
         wrapReq = [r \in Request |->
            [pc |-> "new", proof |-> p[r], image_id |-> i[r], journal |-> Torn]]
    /\ answer = [r \in Request |-> Missing]

-----------------------------------------------------------------------------
(***************************************************************************)
(* prove.rs                                                                *)
(***************************************************************************)
\* A new proof is ready; its files are still those of the previous one.
StartRun(p) ==
    /\ run.next = "done"
    /\ run' = [proof |-> p, next |-> "proof", open |-> FALSE]
    /\ UNCHANGED <<artifacts, cli, preflight, wrapReq, answer>>

Content(p, file) ==
    CASE file = "proof" -> p
      [] file = "journal" -> JournalOf[p]
      [] file = "image_id" -> ImageOf[p]

After == [proof |-> "journal", journal |-> "image_id", image_id |-> "done"]

\* fs::write truncates the file and fills it; a reader can come in between.
Truncate ==
    /\ run.next # "done" /\ ~run.open
    /\ artifacts' = [artifacts EXCEPT ![run.next] = Torn]
    /\ run' = [run EXCEPT !.open = TRUE]
    /\ preflight' = IF run.next = "image_id" THEN preflight ELSE "none"
    /\ UNCHANGED <<cli, wrapReq, answer>>

Fill ==
    /\ run.open
    /\ artifacts' = [artifacts EXCEPT ![run.next] = Content(run.proof, run.next)]
    /\ run' = [run EXCEPT !.next = After[run.next], !.open = FALSE]
    /\ UNCHANGED <<cli, preflight, wrapReq, answer>>

\* The run dies and leaves what it has written.
CrashRun ==
    /\ run.next # "done"
    /\ run' = [run EXCEPT !.next = "done", !.open = FALSE]
    /\ UNCHANGED <<artifacts, cli, preflight, wrapReq, answer>>

-----------------------------------------------------------------------------
(***************************************************************************)
(* wrap                                                                    *)
(***************************************************************************)
\* Receipt::verify: the receipt exists, is of that image, and commits to
\* exactly the journal it was put together with.
Verifies(proof, journal, image_id) ==
    /\ proof \in Proof
    /\ journal = JournalOf[proof]
    /\ image_id = ImageOf[proof]

\* The claim of a receipt, which compression to Groth16 keeps.
Claim(proof) == [image |-> ImageOf[proof], journal |-> JournalOf[proof]]

\* Mutant: whatever deserialises is compressed.
MutWrapResults(proof, journal, image_id) ==
    {NoSeal} \union {Claim(p) : p \in {proof} \intersect Proof}

\* wrap(): deserialisation, verification before and after the compression, and
\* the compression itself, which fails on a host without x86 or Docker.
\* Everything it needs was read before; the result is a seal or an error.
WrapResults(proof, journal, image_id) ==
    {NoSeal} \union
      IF Verifies(proof, journal, image_id) THEN {Claim(proof)} ELSE {}

-----------------------------------------------------------------------------
(***************************************************************************)
(* One-shot mode                                                           *)
(***************************************************************************)
CliStep(pc, next) ==
    /\ cli.pc = pc
    /\ cli' = next
    /\ UNCHANGED <<run, wrapReq, answer>>

\* Mutant: the error of the read is dropped.
MutCliRead(pc, file, next) ==
    /\ CliStep(pc, [cli EXCEPT !.pc = next, ![file] = artifacts[file]])
    /\ UNCHANGED artifacts

\* A missing file ends the run; a torn one is found out by what uses it.
CliRead(pc, file, next) ==
    /\ CliStep(pc, IF artifacts[file] = Missing
                   THEN CliAt("failed")
                   ELSE [cli EXCEPT !.pc = next, ![file] = artifacts[file]])
    /\ UNCHANGED artifacts

CliParse ==
    /\ CliStep("image_id",
               IF artifacts.image_id \in {Missing, Torn}
               THEN CliAt("failed")
               ELSE [cli EXCEPT !.pc = "wrap", !.image_id = artifacts.image_id])
    /\ UNCHANGED artifacts

CliWrap ==
    /\ \E s \in WrapResults(cli.proof, cli.journal, cli.image_id) :
         CliStep("wrap", IF s = NoSeal
                         THEN CliAt("failed")
                         ELSE [cli EXCEPT !.pc = "write", !.seal = s])
    /\ UNCHANGED artifacts

CliWrite ==
    \/ /\ CliStep("write", [cli EXCEPT !.pc = "fill"])
       /\ artifacts' = [artifacts EXCEPT !.seal = Torn]
    \/ /\ CliStep("fill", [cli EXCEPT !.pc = "done"])
       /\ artifacts' = [artifacts EXCEPT !.seal = cli.seal]

\* The process is killed.
CliCrash ==
    /\ cli.pc \notin {"idle", "failed", "done"}
    /\ CliStep(cli.pc, CliAt("failed"))
    /\ UNCHANGED artifacts

\* The prover is started again; nothing is left of the run before.
CliRestart ==
    /\ cli.pc \in {"failed", "done"}
    /\ CliStep(cli.pc, CliAt("idle"))
    /\ UNCHANGED artifacts

Cli ==
    \/ CliRead("idle", "proof", "journal")
    \/ CliRead("journal", "journal", "image_id")
    \/ CliParse
    \/ CliWrap
    \/ CliWrite

-----------------------------------------------------------------------------
(***************************************************************************)
(* verify.rs                                                               *)
(***************************************************************************)
PreflightRead ==
    \/ CliRead("idle", "proof", "pre_journal") /\ preflight' = "reading"
    \/ CliRead("pre_journal", "journal", "pre_check") /\ UNCHANGED preflight

\* Mutant: a receipt that deserialises passes.
MutPreflightCheck ==
    /\ CliStep("pre_check", CliAt(IF cli.proof \in Proof THEN "idle" ELSE "failed"))
    /\ preflight' = IF cli.proof \in Proof /\ preflight = "reading"
                    THEN "passed" ELSE "none"
    /\ UNCHANGED artifacts

\* The receipt is put together as the prover does it, and verified against the
\* circuit's image that the build knows, not the one of image_id.txt.
PreflightCheck ==
    LET pass == Verifies(cli.proof, cli.journal, CircuitImage) IN
    /\ CliStep("pre_check", CliAt(IF pass THEN "idle" ELSE "failed"))
    /\ preflight' = IF pass /\ preflight = "reading" THEN "passed" ELSE "none"
    /\ UNCHANGED artifacts

-----------------------------------------------------------------------------
(***************************************************************************)
(* Serve mode                                                              *)
(***************************************************************************)
Reply(r, status, seal, journal) ==
    /\ answer' = [answer EXCEPT ![r] =
         [status |-> status, seal |-> seal, journal |-> journal]]
    /\ wrapReq' = [wrapReq EXCEPT ![r].pc = "answered"]
    /\ UNCHANGED <<artifacts, run, cli, preflight>>

\* On without an answer: to the next step, or to none.
Proceed(r, pc) ==
    /\ wrapReq' = [wrapReq EXCEPT ![r].pc = pc]
    /\ UNCHANGED <<artifacts, run, cli, preflight, answer>>

\* The fields: base64, then eight words of hex, or 400.  A proof that decodes
\* from base64 need not be a receipt.  parse_image_id counts and slices bytes, so
\* a field that is Cut panics the handler, and the connection ends unanswered.
Accept(r) ==
    /\ wrapReq[r].pc = "new"
    /\ \/ wrapReq[r].proof = Torn /\ Reply(r, 400, NoSeal, Torn)
       \/ wrapReq[r].image_id = Torn /\ Reply(r, 400, NoSeal, Torn)
       \/ wrapReq[r].image_id = Cut /\ Proceed(r, "dropped")
       \/ wrapReq[r].image_id \in Image /\ Proceed(r, "journal")

\* Mutant: the handler waits for the file instead of failing without it.
MutReadJournal(r) ==
    /\ wrapReq[r].pc = "journal"
    /\ artifacts.journal # Missing
    /\ wrapReq' = [wrapReq EXCEPT ![r].pc = "wrap",
                                  ![r].journal = artifacts.journal]
    /\ UNCHANGED <<artifacts, run, cli, preflight, answer>>

\* The journal on the host at this moment.
ReadJournal(r) ==
    /\ wrapReq[r].pc = "journal"
    /\ IF artifacts.journal = Missing
       THEN Reply(r, 500, NoSeal, Torn)
       ELSE /\ wrapReq' = [wrapReq EXCEPT ![r].pc = "wrap",
                                          ![r].journal = artifacts.journal]
            /\ UNCHANGED <<artifacts, run, cli, preflight, answer>>

\* Mutant: the journal of the response is read again after the compression.
MutRespond(r) ==
    /\ wrapReq[r].pc = "wrap"
    /\ \E s \in WrapResults(wrapReq[r].proof, wrapReq[r].journal,
                            wrapReq[r].image_id) :
         IF s = NoSeal \/ artifacts.journal = Missing
         THEN Reply(r, 500, NoSeal, Torn)
         ELSE Reply(r, 200, s, artifacts.journal)

Respond(r) ==
    /\ wrapReq[r].pc = "wrap"
    /\ \E s \in WrapResults(wrapReq[r].proof, wrapReq[r].journal,
                            wrapReq[r].image_id) :
         IF s = NoSeal THEN Reply(r, 500, NoSeal, Torn)
                       ELSE Reply(r, 200, s, wrapReq[r].journal)

Handle(r) == Accept(r) \/ ReadJournal(r) \/ Respond(r)

-----------------------------------------------------------------------------
Next ==
    \/ \E p \in Proof : StartRun(p)
    \/ Truncate \/ Fill \/ CrashRun
    \/ (Cli \/ CliCrash \/ CliRestart) /\ UNCHANGED preflight
    \/ PreflightRead \/ PreflightCheck
    \/ \E r \in Request : Handle(r)

\* The server's tasks run to their end; nobody has to start anything, and prove.rs
\* and the one-shot prover may stop anywhere.
Spec ==
    /\ Init /\ [][Next]_vars
    /\ \A r \in Request : WF_vars(Handle(r))

-----------------------------------------------------------------------------
(***************************************************************************)
(* Properties                                                              *)
(***************************************************************************)
\* handle_wrap's 200 is good for an on-chain verification: the seal attests the
\* very proof the caller sent, under the image the caller named, and the journal
\* sent back is the one it attests, whatever prove.rs did to journal.bin while
\* the request was being served.
AnswerIsAttested ==
    \A r \in Request :
        answer[r] # Missing /\ answer[r].status = 200 =>
            /\ wrapReq[r].proof \in Proof
            /\ answer[r].seal = Claim(wrapReq[r].proof)
            /\ answer[r].seal.image = wrapReq[r].image_id
            /\ answer[r].seal.journal = answer[r].journal

\* run_oneshot reads three files one after the other while prove.rs may be
\* rewriting them: a seal comes only of three that belong together, and what
\* it finished writing is the seal it made.
FilesSealedTogether ==
    /\ cli.seal # NoSeal =>
         /\ cli.seal = Claim(cli.proof)
         /\ cli.seal = [image |-> cli.image_id, journal |-> cli.journal]
    /\ cli.pc = "done" => artifacts.seal = cli.seal

\* "if the later x86 Groth16 wrap fails, you know it's the wrap, not the artifact"
\* (verify.rs:9-10): after a PASS the files on the disk are ones that the prover
\* accepts, as long as nothing rewrites the two that verify.rs has read, and the
\* third, which it does not look at, is in place.
PassIsIntact ==
    preflight = "passed" /\ artifacts.image_id = CircuitImage =>
        Verifies(artifacts.proof, artifacts.journal, artifacts.image_id)

\* The server answers every request, whatever files it finds, whatever proof the
\* request holds and however malformed its image_id_hex is, but for the one kind
\* that panics parse_image_id (main.rs:41).
EveryRequestAnswered ==
    \A r \in Request : wrapReq[r].image_id # Cut => <>(answer[r] # Missing)

\* prover/src/main.rs:161: "The journal is embedded in the receipt -- we extract
\* it after verify."  If so, a valid proof sent with its image id could fail
\* only in the compression, never for want of the right journal.
ProofCarriesJournal ==
    \A r \in Request :
        /\ answer[r] # Missing /\ answer[r].status = 500
        /\ wrapReq[r].proof \in Proof
        /\ wrapReq[r].image_id = ImageOf[wrapReq[r].proof]
        => wrapReq[r].journal = JournalOf[wrapReq[r].proof]
=============================================================================
