# Tuniq in TLA+

Tuniq settles confidential predicates on Solana. A RISC Zero proof says that a
predicate held over private data; its journal carries nullifiers; the
*coordinator* program checks the journal, the nullifier and the proof on the
chain, guards against replay, counts, and tells a *consumer* program. This
directory holds TLA+ models of the parts of that path, TLC configurations that
check them on small instances, and TLAPS proofs for all values of the constants.

Paths below are relative to the root of the repository.

## 1. Inventory of the system

| Part | Source | State | Operations |
|---|---|---|---|
| coordinator | `coordinator/programs/coordinator/src/lib.rs` | `config` PDA (image, authority, count), one journal PDA per SHA-256, one `spent_nullifier` PDA per nullifier | `initialize`, `store_journal`, `verify_predicate` |
| journal decoder | `coordinator/.../journal_decode.rs` | a cursor into the journal's words | `decode_nullifier_from_journal` |
| consumer | `coordinator/programs/consumer/src/lib.rs` | `registry` PDA | `initialize`, `record_verification` |
| verifier router, Groth16 verifier | another repository (risc0-solana) | router PDA, verifier entries | `initialize`, `add_verifier`, emergency stop, `verify` |
| prover service | `prover/src/main.rs` | none of its own; files in `artifacts/` | one-shot wrap, `POST /wrap` |
| proof capture | `predicate-engine/integration_tests/examples/prove.rs` | files in `artifacts/` | prove, write three files |
| preflight | `predicate-engine/integration_tests/examples/verify.rs` | none; reads `artifacts/` | verify the receipt before the prover does |
| predicate program (LEZ) | `predicate-engine/src`, `core`, `methods/guest` | none | assert `balance >= threshold` |
| sBPF interpreter | `m6-interpreter/interpreter/src/lib.rs` | registers, pc, call stack, two memory regions, return data | one arm per opcode, syscalls |
| zkVM guest | `m6-interpreter/zkvm-guest/src/main.rs` | the journal | load, run, commit `(r0, success)` |
| M6 host prover, conformance test | `m6-interpreter/prover`, `m6-interpreter/conformance` | none | build the input, run, judge |
| balance-predicate | `m6-interpreter/programs/balance-predicate` | none | return code 0 or 1 |
| devnet client | `devnet-client/src/main.rs` | none; a fixed sequence of transactions | four setup calls, `verify_predicate` |
| shared types | `shared-types/src/lib.rs` | none | a Borsh layout |

**How they interact.** `prove.rs` writes `proof.bin`, `journal.bin` and
`image_id.txt`, one after the other. The prover reads them (one-shot), or reads
`journal.bin` only and takes the proof and the image id from an HTTP request, and
compresses the receipt to a Groth16 seal; `verify.rs` tries the receipt before that.
The devnet client reads the prover's response and sends five transactions, one after
the other. Any signer stores the journal on the
chain and calls `verify_predicate` with seal, digest, index and nullifier; the
coordinator calls the router, which calls the Groth16 verifier, and then the
program the caller named as its consumer. Nothing but accounts is shared on the
chain; the accounts' locks decide which transactions run in parallel. The M6
interpreter is a separate line of work: host prover -> guest -> interpreter ->
journal.

**What is hard.** On the chain: the order of calls by anyone, replays under
other proofs, journals, indices or consumers, transactions running in parallel,
and an error after accounts were already written. Off the chain: files rewritten
while they are read, processes that die between two writes, and transactions of the
client that land late, or after it gave up, died and was started again. In the decoder
and the interpreter: lengths and addresses chosen freely, unsigned arithmetic
that wraps, raw pointers, a stack of saved frames.

**What makes each part correct.** Coordinator: a nullifier is accepted once, and
only one that the configured image committed to; transactions take effect as a
whole; accounts take nothing back. Decoder: the nullifier at the index exactly if
there is one, within the journal, in bounded work. Consumer: no count is lost. Prover: a
seal and an answer belong to one proof; every request whose fields can be cut into
words is answered. Client: what it
reported as done is so, nothing is set up twice, every run ends. Interpreter:
memory accesses stay in their region, jumps land where they say or leave the program,
EXIT returns behind a CALL, stores are read back, signed results have their sign, a
guest's journal says what the test saw.

`PROJECT.json` lists every hazard at its line with the properties that cover it.

## 2. Modules

| Module | Models | Role |
|---|---|---|
| `Settlement` | - | abstract promise: fix an image once, accept committed nullifiers one at a time, count to saturation |
| `Coordinator` | coordinator, consumer, router and provers as used | one action per instruction; implements `Settlement` |
| `CoordinatorExec` | the steps of `verify_predicate`, account locks, rollback | transactions in parallel; implements `Coordinator` |
| `JournalDecode` | `decode_nullifier_from_journal` | the walker, field by field |
| `JournalEncoding` | the serialized circuit output, as `build_test_journal` writes it | the encoder that the decoder is checked against |
| `DevnetClient` | `devnet-client/src/main.rs` | the client's run, the transactions in flight, the cluster; composed with `Coordinator` |
| `PredicateEngine` | `check.rs`, `prove.rs` | what is executed and proved; composed with `Coordinator` |
| `ProverService` | `prover/src/main.rs`, `prove.rs`, `verify.rs` | files, one-shot mode, serve mode, preflight, crashes |
| `SbpfMemory` | the interpreter's memory and the loops of its syscalls | `resolve`, loads, stores, copies |
| `SbpfVm` | interpreter, guest `main`, conformance test, host verdict | one action per instruction class |
| `SbpfProgram` | balance-predicate | what its source decides, as programs of the modelled interpreter |
| `CoordinatorProofs`, `CoordinatorExecProofs`, `DevnetClientProofs`, `JournalDecodeProofs`, `ProverServiceProofs`, `SbpfMemoryProofs`, `SbpfVmProofs` | - | theorems |
| `SumTheorems` | - | induction, sums and loops, for the proofs |
| `MC...` | - | instances for TLC |

### Coordinator

An Anchor instruction either succeeds or changes nothing, so an instruction is one
action: its guard is the account constraints (`VerifyAccounts`), the `require!`s
of steps 1 and 2 (`NullifierBound`) and the router's answer (`ProofAccepted`);
its effects are the `init`ed accounts, the count, the CPI (`Forward`) and the
event. PDAs seeded by a value are a set (`spent`) or a function (`journals`)
indexed by that value. SHA-256 is an injective function (`HashAssumption`); Groth16
is sound (`RouterVerify`: the seals that verify are those provers made); what the
decoder returns is the constant `Decode`, whose computation `JournalDecode` models.
`verified` and `recorded` are history: the events.

A consumer other than `programs/consumer` is a program the caller chose. It may
succeed or fail, and may call `record_verification` itself, which is the same as
somebody calling it afterwards.

### CoordinatorExec

Each signer has at most one transaction in flight (it pays, so its account is
write-locked). `Begin` takes the locks that follow from `init` and `mut` in the
account structs (`Writes`, `Reads`), checks the constraints and loads copies;
`CheckJournal`, `CallRouter`, `RaiseCount`, `CallConsumer` are the handler's five
steps; `CommitVerify` writes back. An error after any step drops the copies. The
runtime's locking and rollback are external and modelled as the programs rely on
them. The run shows that the atomic actions of `Coordinator` are what such
executions amount to; it is the `mut` on `config` and `registry`
that makes it so, which its mutants remove.

### DevnetClient

A behaviour of `Coordinator` with one more process in it. `StartRun` reads a response;
`Send`, `Confirm` and `GiveUp` are the three ends of a `send_and_confirm_transaction`;
`Die` stops the process anywhere, and a run may be started again. `pending` holds the
transactions in flight, which land (`Land`: the coordinator's own action), fail
(`LandFails`) or grow too old (`Tick`). All but one step fetch a blockhash of their own;
`consumer::initialize` uses the one fetched before the router's two, so it may be too
old when it is sent. `Others` is every step of `Coordinator` by anybody. A setup
error is printed and the next step comes anyway; the model keeps that.

`Sent` and `Declared` are the accounts and arguments the client builds and the ones
the programs declare; `Binds` compares them by position, as the runtime and Borsh do.
`verify_predicate` does not bind, so it never takes effect: that is the finding of the
run `devnet_refused`.

### PredicateEngine

What `Outputs` of `Coordinator` leaves open: which program ran in the privacy circuit.
`check_balance_over_threshold` is the guard of an execution of the predicate program;
other programs run unguarded in the same circuit, under the same image id.

### JournalDecode

`pc` walks through the fields of `PrivacyPreservingCircuitOutput` as the function
does: the two empty vectors, the ciphertexts in a loop, the commitments, the
nullifiers, the entry. The final values
of `pc` are `ok` and the variants of `JournalDecodeError`.
Widths (`FieldLen`, `WordMax`, `UsizeMax`) are constants. `NoUncheckedOverflow` is
about the additions of `read_bytes32`, which no check precedes. Every other unchecked
one is a `word += 1` behind a successful read at `word`, which is thereby below the
journal's length.

What the function returns is stated from three sides. `AcceptedHasLayout`: a nullifier
that is returned is the entry at the index, in a layout of the journal. `RejectedHasNoEntry`:
where the lengths of the journal lead to an entry (`HasEntry`), no error is returned.
`DecodesOutputs`, in `JournalEncoding`: over what an honest execution commits, it returns the
nullifier committed at that index, or the range error behind the last one.

### ProverService

`artifacts` is the directory. `fs::write` is two steps, `Truncate` and `Fill`, and
`CrashRun` may come anywhere. The one-shot prover is a process with four reads
(`CliRead`, `CliParse`), `CliWrap` and a two-step `CliWrite`; the server a process per request,
`Accept`, `ReadJournal`, `Respond`. `parse_image_id` counts and slices bytes, so an
`image_id_hex` of 64 bytes with a longer character across a multiple of 8 panics the
handler: `Cut` is such a field, and its request ends as `dropped`, without an answer.
The other malformed fields (`Torn`) are answered 400. A receipt verifies with exactly its journal and
its image (`Verifies`); compression may fail for its own reasons (`NoSeal`). A torn
file is a value no check accepts. `verify.rs` (`PreflightRead`, `PreflightCheck`) takes
the image id from its build (`CircuitImage`) and does not look at `image_id.txt`;
`preflight` remembers whether it passed and nothing has begun to rewrite what it read.
The preflight and the one-shot prover are started by one person at one terminal and
share the process `cli`.

### SbpfMemory, SbpfVm

Instructions are decoded records: opcode class, function, operand form, registers,
offset, immediate. `Fault` gives the way in which an instruction fails, in the
order of the code's checks; the `Exec...` actions are those that do not. Widths
are scaled by `ByteBits` and stay in proportion. `panic` stands for a Rust
panic, which is not an `SbpfError`: a register field of 11 to 15, an offset behind a region, or
an overflow in a build that checks it. The build is part of the state: a behaviour is a
run of the conformance test (64-bit `usize`, overflow checks), which `Judge` ends and a
person may follow (`StartProof`) by the guest's run of the same program on the same
input (32-bit, no checks), which `Commit` ends; or the guest's run alone.

A 32-bit negation wraps in its own width before it is widened (`Alu32`). A `Vec` has at most
`isize::MAX` bytes (`VecAssumption`), which the guest reaches sooner than the test:
a `memmove`, or return data, that is too long for it (`TooLong`) panics. `overlapped` is
history: the guest has run a `memcpy` whose destination begins within its source, which is
where the two hosts' copies differ.

The compiled `balance_predicate.so` is not in the repository, and nothing is claimed about
it. Its source says that the result is the return code (`lib.rs:12-14`), the conformance
test and the host prover that `r0` is always 0. `BalancePredicates` of `SbpfProgram` are
two programs that do what the source does, its length check included, over the input layout
of `build_input_buffer`; one reports in `r0`, the other in the return data. They are what
the run `sbpf_verdict` is about, and two more programs for the other runs.

## 3. Runs

| Run | Configuration | Shows |
|---|---|---|
| `coordinator` | `MCCoordinator` | type, replay, binding, atomicity, consumer, self-certifying journals, irrevocability, refinement of `Settlement`, over every order of calls |
| `coordinator_exec` | `MCCoordinatorExec` | parallel step-by-step execution implements `Coordinator`; no lost counts |
| `journal_decode` | `MCJournalDecode` | cursor, bounds, work; a result is the entry asked for, an error means there is none, encodings decode; termination |
| `prover_service` | `MCProverService` | answers and seals belong to one proof; a preflight's PASS holds; every request is answered but one whose image id is `Cut` |
| `sbpf_vm` | `MCSbpfVm` | memory, jumps, call stack, stores, signs, syscalls, termination, and that the guest proves what the test saw |
| `devnet_client` | `MCDevnetClient` | what the client says is so, nothing is set up twice, every run ends |
| `one_proof_one_use` | `MCCoordinatorUse` | violation: one proof is accepted once per nullifier in its journal |
| `proof_carries_journal` | `MCProverServiceJournal` | violation: a valid proof is refused for want of its journal on the host |
| `devnet_refused` | `MCDevnetClientRefused` | violation: with everything in place, the client's `verify_predicate` is not one the coordinator can execute |
| `verified_predicate` | `MCPredicateEngine` | violation: `PredicateVerified` is announced for an execution of another program |
| `sbpf_verdict` | `MCSbpfVerdict` | violation: the verdict is true for a predicate that is false |
| `sbpf_lddw` | `MCSbpfLddw` | violation: LDDW loses its upper half |

A violation run checks one property: a sentence of a document or comment. The
sentence and the behaviour are in `PROJECT.json`, "findings".

**Bounds.** `coordinator`: one signer, two images, four journals (two nullifiers;
one of them again; one only the other image commits; one too large), three
nullifiers, indices 0 and 1, a foreign consumer, `CountMax` 2 so that counts
move and then saturate (the registry's, which anyone may raise). A nullifier can be claimed again through another journal,
another index, another seal and another consumer, which are all the ways there are.
A signer is a name the handlers store and never compare, so one is enough;
`CoordinatorExec` has two. `MaxCalls` bounds the direct `record_verification`
calls per nullifier, a history counter. `CoordinatorExec` uses `CountMax` 2, so that a lost
update is visible. `journal_decode`: all journals of up to three words, and of up to
eight behind the empty prefix, over 0, 1 and a value larger than any journal, and
the encodings of all circuit outputs with at most two ciphertexts of two bytes, one
commitment and two nullifiers; trailing bytes 1 to 3; `UsizeMax` 30 with words up to 40
makes every checked addition overflow somewhere. `prover_service`: two proofs of
two images, one request (requests share only a file they do not write) with any fields, one
process for the one-shot prover and the preflight, any number of runs and crashes.
`devnet_client`: the client's key and a rival's, two images with a proof each, hence two
responses; `Lifetime` 1, so that a blockhash is fresh, old or too old; `MaxPending` 2,
so that a transaction of a dead run and one of the next are in flight together. `Small` is
empty there: no journal is stored, because the four setup transactions do not touch one;
`devnet_refused` stores one. `verified_predicate`: two shielded accounts on
either side of one threshold, the predicate and one other program. `sbpf_vm`: bytes of two bits, hence 16-bit
registers; all 6859 programs of three instructions (then EXIT) from 19, which include
an access at the top of the address space, calls and jumps both ways, recursion, LDDW
whose second slot is jumped to; one program per arithmetic and jump
function, width and pair of extreme values (but for 64-bit products above TLC's
integers), per syscall and range, per access width and offset
across the ends of both regions, per unusable register, and per smallest number that is negated;
copies of 128 bytes, one more than the longest `Vec` of a 32-bit host at this scale; an
overlapping copy whose result is returned; call depth 2.

**Deadlock** is not checked: the chain may be silent for ever, a walk, a request and
a program end.

**Fairness.** `JournalDecode` and `SbpfVm` are functions that run to their end:
weak fairness of the step; in `SbpfVm` of the step, the commit and the judgement, but
not of `StartProof`, which a person does. `DevnetClient` assumes that the client's
process runs (`Send`, `Confirm`) and that blocks are made (`Tick`); no transaction needs to land, and
an old blockhash alone ends the wait. `ProverService` assumes that the server's tasks are
scheduled (tokio), nothing of `prove.rs` or of the one-shot prover, which may stop
anywhere. The coordinator's modules assume none: nobody has to call anything.

**Mutants.** Definitions named `Mut...` are plausible mistakes in the code (a lost
`mut`, `init_if_needed`, a dropped check, an off-by-one). Each property of a passing
run is violated when one of them takes the place of the definition it follows.

## 4. Proofs

The theorems are for every value of the constants; `PROJECT.json` lists them. Every
safety invariant and every action property of the passing runs is stated by one of
them. Each rests on an inductive invariant, since none of the properties is inductive alone.

**`SumTheorems`** holds what several proofs need and the library does not give in a form
these provers can use. Its induction theorems take an operator as a parameter;
`SetInduction` and `BoundedInduction` say the same of a set, as the complement of a set of
counterexamples with a least element, and a predicate becomes the set of the numbers it
holds of. From them follow: what `SumFunctionOnSet` is over a finite set (`SumIs`) and how a
term is taken out of it (`SumWithout`, `SumInterval`); and `LoopRuns`, that there is a
function that runs a given loop (`Loop`), from which a recursive function of a model gets
its values.

**`CoordinatorProofs`**, for any users, images, journals, nullifiers, `CountMax > 0`.
`Invariant` is `[]IInv`. That a fresh account means a fresh nullifier needs
`SpentIsVerified`; `NullifierWasCommitted` needs that a seal that verifies is genuine
(`SealsGenuine`) and that the journal account holds the bytes of its digest
(`SelfCertifying`), and, through the collision-freeness of `Sha256`, that the two
journals are the same one. Its consequences are `TypeCorrect`, `ReplayGuard`, `NullifierBinding`,
`Atomicity`, `SelfCertification`, `Forwarding` (that the registry counts at least the
verifications that named it, by the cardinality of `Told`). `Irrevocability` is the action property.
`Refinement` is `Spec => Ledger!Spec`: `Initialize` maps to `FixImage`,
`VerifyPredicate` to `Accept`, all else to stuttering.

**`CoordinatorExecProofs`**, for any number of transactions in flight. `ExecInv` says
that the locks of two transactions in flight are disjoint where one writes, and that each of them
is `Current`: the checks it has passed still hold, and its copies are the accounts with
the counts raised that it has raised. `Conflicts` derives from the declared accounts
what two transactions cannot both be doing, `CurrentStays` that nobody else can
invalidate a transaction, and so the end of `verify_predicate` is the whole instruction
(`VerifyCommits`). `ExecImplements` is `ExecSpec => ImplementsCoordinator`; `ViewCurrent`
and `ExecAtomicity` follow. Without the `mut` on `config`, `Conflicts` fails.
`Records` is that no count is lost: `verified_count` is the number of recordings, up to
`CountMax`, for any finite set of nullifiers. Its invariant, `RecordsCounted`, adds that
nothing is recorded before there is a registry. It is proved of `Coordinator`'s steps,
whose every recording raises one summand by one, and holds of the parallel executions
through `ExecImplements`.

**`DevnetClientProofs`**. `ClientUsesCoordinator`: what the client and the cluster do to
the chain is an execution of `Coordinator`, so every theorem above holds beside it.
`SaidStaysTrue` and `NoSecondSetUp` rest on an invariant that ties an `ok` the client
still waits for, and the history of effects, to the accounts that Payer created.

**`JournalDecodeProofs`**, for any journal and widths. The cursor never passes
`UsizeMax` (`Placed`, `TypeCorrect`), the unchecked additions cannot overflow
(`NoOverflow`), the loop makes at most one pass per word (`LoopBound`). `Accepted`: a walk
that succeeds has seen a layout in which its result is the entry asked for. Its
invariant (`Layout`) carries the starts of the ciphertexts skipped so far (`Chain`) through the loop,
and then the places of the two counts.
`Rejected` is the converse. The starts of the ciphertexts are a recursive function of the
journal (`Starts`), so the lemmas first show what it computes (`AreStarts`) and that it
never decreases; the invariant `OnTheWay` then says that over a journal with an entry
(`LeadToEntry`) each field ends before that entry does, so that no read runs out of words
and no checked sum fails, and that the walk stands where the starts say (`Approaches`).
`Accepted` and `Rejected` together: the decoder finds the entry exactly if there is one.
`Decodes` ties it to the encoder, for any circuit outputs. `EncodingIsLaid` finds in an
encoding, a concatenation of concatenations, the place of every ciphertext (`Laid`), of
the commitments and of each nullifier (`Listed`), from where the elements of a
`FlattenSeq` lie (`Flattened`); the invariant `OnTrack` says that the walk over it meets them in that
order (`Walks`).

**`ProverServiceProofs`**, for any proofs, images and requests. The invariant adds to the
properties that a file being rewritten is torn (`OpenIsTorn`), that there is a seal from the
compression on only (`SealLate`), that what the preflight has read is still on the disk
(`ReadingIsCurrent`) and that after a PASS nobody is half-way through rewriting it
(`PassedTogether`). Consequences: `TypeCorrect`, `AnswersAttested`, `FilesTogether`,
`PassIntact`.

**`SbpfMemoryProofs`**, for any width, region sizes and build. `Confined`: what
`resolve` lets through lies within one region. The case that needs an argument is
an address in the last eight bytes, where the wrapped sum passes the comparison
and only the slice that follows panics (`TopPanics`). `ReadsBack`: what a store wrote a
load of that width returns, cut to it, and every other byte is what it was; a sum over the bytes, by induction on their number
(`ByteSum`, `Digits`). `CopiesAgree`: the guest's memcpy, byte by byte, and the conformance
host's, which reads everything first, leave the same memory unless the destination begins within
the source and behind its start; by induction on the bytes copied.

**`SbpfVmProofs`**, for any programs and inputs that `TextAssumption` and `VmAssumption` admit. The inductive
invariant is `IInv`: the type invariant, `ReturnPoints`, the build, program and input are
the ones the run began with (`Fixed`), and a test is judged only when its run is over
(`JudgedAtEnd`). `Returns`: the call stack keeps its limit and EXIT lands behind a CALL.
`Typed` and `Memories`: registers are words and memory keeps its bytes and its extent; they need the
range of every arithmetic function in either width, of the bitwise ones (`BitsType`, a sum
over bits), of loads, and of the casts to a 32-bit `usize`. `Stores` is the action property that
a store is read back, and `Hosts` that the two hosts' memcpys agree where `CopiesAgree` lets them.

`Lands`: a jump that is taken, and a call, go where their distance says or out of the program.
What needs an argument is a target before the start, whose cast to a `usize` must end behind the
end: a program is a `Vec` of 8-byte words, so on 32 bits it has fewer than an eighth of `isize::MAX`
instructions (`TextAssumption`, `TextLimits`), and a distance is an `i32`. `Signs`: a number and its
negative add up to nothing in their width, and `NEG32` and `ARSH32` leave a widened `i32`
(`SignedHalf`, `WidenedBack`, `NegSum`), at the smallest numbers too.

`Tested`: a program that passes the conformance test is proved by the guest with the same
`r0`, although the guest's `usize` is half as wide and its build does not check overflow. Two
things can come between, and the statement names them: a `memcpy` that overlaps upwards, behind
which nothing is claimed (`overlapped`), and a `Vec` that is too long for the guest, where it
panics. The run of the guest has to be compared with a run that is over; its invariant `Tracing` keeps
the set of the machines that the test went through and says that the set is closed under the steps
the guest takes, up to the machine that was judged (`TraceGrows`, `TraceEnds`, `Follows`).
The steps agree since the test did not panic (`Passes`, `ChecksAgree`): a step that would have left
`usize` would have ended the test, and a `memcpy` that does not overlap upwards copies the same
in both (`CopiesAgree`).

**Assumptions** are the named `ASSUME`s of the modules, and TLC evaluates each of them on a passing run.
Those that say something of the code's surroundings: `HashAssumption` (no collisions are found),
`CountMaxAssumption`, `NullifierAssumption` (there are finitely many nullifiers: they
have 32 bytes), `WidthAssumption` and `OutputAssumption` (the widths of the journal's fields,
and what a circuit output is made of), `MemoryAssumption`, `VmAssumption`, `TestAssumption` (the
conformance test is built for 64 bits with checks), `TextAssumption` (a program fits into
memory and its fields into their types), `VecAssumption` (the limit of a `Vec`), `InputAssumption` (the input fits into the heap).
`PowerAssumption` is the defining equation of powers of two up to the width: the provers
know nothing of `^`.

**Only model-checked** is all liveness (`Termination`, of `JournalDecode` and of `SbpfVm`,
`EveryRequestAnswered`, `RunEnds`): progress under fairness needs ENABLED, which is out of the
prover's reach. The violation runs are counterexamples and prove nothing further.

## 5. Not modelled

* The devnet client's parsing of the response and `negate_g1`, arithmetic on one
  field element; the cluster but for what becomes of a transaction.
* Key derivation, the Groth16 verification itself, SHA-256, Borsh and base64:
  data formats behind the abstractions named above.
* LEZ and its privacy circuit: another repository; `PredicateEngine` takes from it that its
  output does not name the program that ran.
* The ELF loader (`load_text`): parsing of a fixed file. It starts at the first
  word of `.text` and not at the entry point; the model starts there too.
* `decode.rs`, the integration and litesvm tests, `shared-types`, the scaffold stubs
  of the coordinator (`constants.rs`, `error.rs`, `state.rs`, `instructions/`): no
  state, or unused.
* Return data and logs beyond what `sol_set_return_data` stores; the drivers of
  the guest ignore them.

## 6. Plan

Done: all modules of section 2, their runs and the proofs of section 4.

Left, in this order:

1. `Decode` in `Coordinator` tied to `JournalDecode`: the constant as the function that
   `Accepted` and `Rejected` determine, so that a nullifier the coordinator accepts is one
   that a journal's encoding, by `Decodes`, committed to.
2. The end-to-end composition: `ProverService`'s answer as the seal and journal of
   `store_journal` and `verify_predicate`. Today `DevnetClient` starts from a response
   that `AnswersAttested` says is of one proof.
