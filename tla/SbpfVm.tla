------------------------------- MODULE SbpfVm -------------------------------
(***************************************************************************)
(* The sBPF interpreter (m6-interpreter/interpreter) and the two programs  *)
(* that drive it: the conformance test, and the zkVM guest, whose journal  *)
(* the host prover turns into a verdict.  A behaviour is the guest's run   *)
(* of one program on one input, which the conformance test may have run    *)
(* before it.                                                              *)
(*                                                                         *)
(* A program is a sequence of decoded instructions; an instruction record  *)
(* names its opcode by class, function and operand form.  The second slot  *)
(* of LDDW is an instruction too: a jump can land on it.                   *)
(***************************************************************************)
EXTENDS SbpfMemory, Sequences

CONSTANTS
    Cases,          \* what is run: a program and <<balance, threshold>>
    Predicates,     \* programs that decide what balance-predicate decides
    Builds,         \* what runs them: the zkVM guest, the conformance test,
                    \* each with the usize and the checks it is built with,
                    \* and the longest Vec of bytes it can allocate
    MAX_CALL_DEPTH,
    NoJournal,
    NotTested

ASSUME VmAssumption ==
    /\ Builds \subseteq [host : {"conformance", "guest"},
                        usize : {HalfBits, WordBits}, checks : BOOLEAN, vec : Nat]
    /\ MAX_CALL_DEPTH \in Nat \ {0}
    /\ \A c \in Cases : c[2] \in Word \X Word

\* The conformance test is a debug build for a 64-bit host.
ASSUME TestAssumption ==
    \A b \in Builds : b.host = "conformance" => b.usize = WordBits /\ b.checks

\* A Vec is at most isize::MAX bytes long, whatever the allocator has; a longer one
\* is a capacity overflow.
ASSUME VecAssumption == \A b \in Builds : b.vec < 2 ^ (b.usize - 1)

\* A program is a Vec of words, of at most isize::MAX bytes on a 32-bit host; its
\* instructions hold an i16 and an i32, take their operand from the word or from a
\* register, and load or store one of four sizes.
ASSUME TextAssumption ==
    \A c \in Cases :
        /\ Len(c[1]) \in 0 .. (2 ^ (HalfBits - 1) - 1) \div 8
        /\ \A k \in 1 .. Len(c[1]) :
              /\ c[1][k].off \in -(2 ^ (2 * ByteBits - 1)) .. 2 ^ (2 * ByteBits - 1) - 1
              /\ c[1][k].imm \in -(2 ^ (HalfBits - 1)) .. 2 ^ (HalfBits - 1) - 1
              /\ c[1][k].use \in {"imm", "reg"}
              /\ c[1][k].op \in {"ldx", "st"} => c[1][k].size \in Sizes

VARIABLES
    build,          \* the build that runs
    text, input,    \* the program and its input, fixed
    regs, pc, call_stack, mem, return_data,
    status,         \* "running", "exit", an SbpfError, or "panic"
    journal,        \* what the guest committed
    tested,         \* what the conformance test made of its run
    overlapped      \* history: the guest ran a memcpy that overlaps upwards

machine == <<regs, pc, call_stack, mem, return_data, status>>
fixed == <<build, text, input, journal, tested>>
vars == <<machine, fixed, overlapped>>

Reg == 0 .. 10
Regs == [Reg -> Word]
Errors == {"UnknownOpcode", "OutOfBounds", "DivisionByZero",
           "InvalidMemoryAccess", "CallStackOverflow"}

\* What is behind a register index of four bits.
Field == 0 .. 15

-----------------------------------------------------------------------------
(***************************************************************************)
(* Arithmetic                                                              *)
(***************************************************************************)
Bitwise2(op(_, _), a, b) ==
    SumFunction([k \in 0 .. WordBits - 1 |->
                    op((a \div 2^k) % 2, (b \div 2^k) % 2) * 2^k])

Or(a, b) == Bitwise2(LAMBDA x, y : IF x + y > 0 THEN 1 ELSE 0, a, b)
And(a, b) == Bitwise2(LAMBDA x, y : x * y, a, b)
Xor(a, b) == Bitwise2(LAMBDA x, y : (x + y) % 2, a, b)

\* The functions that treat both widths alike, on operands of that width.
Alu(fn, a, b, bits) ==
    CASE fn = "mov" -> b
      [] fn = "add" -> (a + b) % 2 ^ bits
      [] fn = "sub" -> (a - b) % 2 ^ bits
      [] fn = "mul" -> (a * b) % 2 ^ bits
      [] fn = "div" -> a \div b
      [] fn = "mod" -> a % b
      [] fn = "or" -> Or(a, b)
      [] fn = "and" -> And(a, b)
      [] fn = "xor" -> Xor(a, b)
      [] fn = "lsh" -> (a * 2 ^ (b % bits)) % 2 ^ bits
      [] fn = "rsh" -> a \div 2 ^ (b % bits)

\* Mutant: the negative number is not taken back to u64.
MutAlu64(fn, a, b) ==
    CASE fn = "neg" -> -a
      [] fn = "arsh" -> U64(I64(a) \div 2 ^ (b % WordBits))
      [] OTHER -> Alu(fn, a, b, WordBits)

Alu64(fn, a, b) ==
    CASE fn = "neg" -> U64(-a)
      [] fn = "arsh" -> U64(I64(a) \div 2 ^ (b % WordBits))
      [] OTHER -> Alu(fn, a, b, WordBits)

\* Mutant: the i32 is widened before it is negated.
MutAlu32(fn, a, b) ==
    CASE fn = "neg" -> U64(-I32(a))
      [] fn = "arsh" -> U64(I32(a) \div 2 ^ (b % HalfBits))
      [] OTHER -> Alu(fn, U32(a), U32(b), HalfBits)

\* The result of a 32-bit operation goes through u32, but for neg and arsh,
\* which widen an i32; -(i32::MIN) wraps to itself before that.
Alu32(fn, a, b) ==
    CASE fn = "neg" -> U64(I32(-I32(a)))
      [] fn = "arsh" -> U64(I32(a) \div 2 ^ (b % HalfBits))
      [] OTHER -> Alu(fn, U32(a), U32(b), HalfBits)

\* MOD exists in 64 bits only.
Functions64 == {"mov", "add", "sub", "mul", "div", "mod", "or", "and", "xor",
                "lsh", "rsh", "arsh", "neg"}
Functions32 == Functions64 \ {"mod"}

\* -(i64::MIN) and -(i32::MIN).
NegOverflows(op, a) ==
    IF op = "alu64" THEN a = 2 ^ (WordBits - 1) ELSE U32(a) = 2 ^ (HalfBits - 1)

Jumps == {"always", "eq", "ne", "gt", "ge", "lt", "le", "set",
          "sgt", "sge", "slt", "sle"}

Taken(fn, a, b) ==
    CASE fn = "eq" -> a = b
      [] fn = "ne" -> a # b
      [] fn = "gt" -> a > b
      [] fn = "ge" -> a >= b
      [] fn = "lt" -> a < b
      [] fn = "le" -> a <= b
      [] fn = "set" -> And(a, b) # 0
      [] fn = "sgt" -> I64(a) > I64(b)
      [] fn = "sge" -> I64(a) >= I64(b)
      [] fn = "slt" -> I64(a) < I64(b)
      [] fn = "sle" -> I64(a) <= I64(b)

-----------------------------------------------------------------------------
(***************************************************************************)
(* Start                                                                   *)
(***************************************************************************)
Bytes(value) == [k \in 0 .. 7 |-> U8(value \div 2 ^ (ByteBits * k))]

\* build_input_buffer: no accounts, 16 bytes of data, the two values, and the
\* program id; a function from the offset.
InputLen == 64

\* The writes that put the pointer and the buffer there are unwrapped.
ASSUME InputAssumption == 8 + InputLen <= HeapLen

Buffer(in) ==
    [k \in 0 .. InputLen - 1 |->
        CASE k \in 8 .. 15 -> Bytes(16)[k - 8]
          [] k \in 16 .. 23 -> Bytes(in[1])[k - 16]
          [] k \in 24 .. 31 -> Bytes(in[2])[k - 24]
          [] OTHER -> 0]

\* A pointer to the buffer in front of the buffer.
LoadedMemory(in) ==
    LET slot == Stored([a \in Mapped |-> 0], HeapBase, 8, HeapBase + 8)
    IN [a \in Mapped |->
          IF a - (HeapBase + 8) \in DOMAIN Buffer(in)
          THEN Buffer(in)[a - (HeapBase + 8)] ELSE slot[a]]

\* Vm::new, with r1 at the pointer and r10 at the end of the stack.
StartRegs == [r \in Reg |-> IF r = 1 THEN HeapBase
                            ELSE IF r = 10 THEN StackBase + StackLen ELSE 0]

Init ==
    /\ build \in Builds
    /\ \E c \in Cases : text = c[1] /\ input = c[2]
    /\ regs = StartRegs
    /\ pc = 0
    /\ call_stack = <<>>
    /\ mem = LoadedMemory(input)
    /\ return_data = <<>>
    /\ status = "running"
    /\ journal = NoJournal
    /\ tested = NotTested
    /\ overlapped = FALSE

-----------------------------------------------------------------------------
(***************************************************************************)
(* One instruction                                                         *)
(***************************************************************************)
Running == status = "running" /\ pc < Len(text)
insn == text[pc + 1]

\* The opcodes the match has an arm for.
Known(i) ==
    \/ i.op \in {"lddw", "ldx", "st", "call", "syscall", "exit"}
    \/ i.op = "alu64" /\ i.fn \in Functions64
    \/ i.op = "alu32" /\ i.fn \in Functions32
    \/ i.op = "jump" /\ i.fn \in Jumps

\* The register indices an instruction uses; regs has eleven entries.
SourceUsed(i) ==
    \/ i.op = "ldx"
    \/ i.op \in {"alu64", "alu32", "jump", "st"} /\ i.use = "reg"
DestinationUsed(i) ==
    i.op \in {"alu64", "alu32", "lddw", "ldx", "st"} \/
    (i.op = "jump" /\ i.fn # "always")

\* imm as u64, or the other register.
Operand(i) == IF i.use = "imm" THEN U64(i.imm) ELSE regs[i.src]

DividesByZero(i) ==
    /\ i.fn \in {"div", "mod"}
    /\ \/ i.op = "alu64" /\ Operand(i) = 0
       \/ i.op = "alu32" /\ U32(Operand(i)) = 0

AddressOf(i) ==
    U64((IF i.op = "ldx" THEN regs[i.src] ELSE regs[i.dst]) + i.off)

\* The arguments of the syscalls that touch memory: <<start, length>> ranges.
Ranges(i) ==
    CASE i.fn \in {"memcpy", "memmove"} ->
           {<<regs[1], regs[3]>>, <<regs[2], regs[3]>>}
      [] i.fn = "memset" -> {<<regs[1], regs[3]>>}
      [] i.fn = "set_return_data" -> {<<regs[1], Usize(build, regs[2])>>}
      [] OTHER -> {}

\* How many bytes a syscall collects in a Vec before it goes on.
Collected(i) ==
    CASE i.fn = "memmove" \/ (i.fn = "memcpy" /\ build.host = "conformance") -> regs[3]
      [] i.fn = "set_return_data" -> Usize(build, regs[2])
      [] OTHER -> 0

TooLong(i) == i.op = "syscall" /\ Collected(i) > build.vec

\* How an instruction fails, or "none": the first of its checks that does.
Fault(i) ==
    IF ~Known(i) THEN "UnknownOpcode"
    ELSE IF i.op = "lddw" /\ pc + 1 >= Len(text) THEN "OutOfBounds"
    ELSE IF SourceUsed(i) /\ i.src \notin Reg THEN "panic"
    ELSE IF DividesByZero(i) THEN "DivisionByZero"
    ELSE IF i.op = "ldx" /\ Resolve(build, AddressOf(i), i.size) # "ok"
    THEN IF Resolve(build, AddressOf(i), i.size) = "none" THEN "InvalidMemoryAccess"
         ELSE "panic"
    ELSE IF DestinationUsed(i) /\ i.dst \notin Reg THEN "panic"
    ELSE IF i.op = "st" /\ Resolve(build, AddressOf(i), i.size) # "ok"
    THEN IF Resolve(build, AddressOf(i), i.size) = "none" THEN "InvalidMemoryAccess"
         ELSE "panic"
    ELSE IF i.fn = "neg" /\ build.checks /\ NegOverflows(i.op, regs[i.dst])
    THEN "panic"
    ELSE IF i.op = "call" /\ Len(call_stack) >= MAX_CALL_DEPTH
    THEN "CallStackOverflow"
    ELSE IF TooLong(i) THEN "panic"
    ELSE IF i.op = "syscall" /\ \E r \in Ranges(i) : RangePanics(r[1], r[2])
    THEN "panic"
    ELSE "none"

Executes(ops) == Running /\ insn.op \in ops /\ Fault(insn) = "none"

Stop(s) ==
    /\ status' = s
    /\ UNCHANGED <<regs, pc, call_stack, mem, return_data, fixed>>

Trap == Running /\ Fault(insn) # "none" /\ Stop(Fault(insn))

\* The pc is not in the program: behind its end, or, as usize, before its start.
LeaveText == status = "running" /\ pc >= Len(text) /\ Stop("OutOfBounds")

SetDst(value, next) ==
    /\ regs' = [regs EXCEPT ![insn.dst] = value]
    /\ pc' = next
    /\ UNCHANGED <<call_stack, mem, return_data, status, fixed>>

ExecAlu ==
    \/ /\ Executes({"alu64"})
       /\ SetDst(Alu64(insn.fn, regs[insn.dst], Operand(insn)), pc + 1)
    \/ /\ Executes({"alu32"})
       /\ SetDst(Alu32(insn.fn, regs[insn.dst], Operand(insn)), pc + 1)

\* The low half is `imm as u64`: of a negative i32, all upper bits are set.
LddwValue(i, slot) == Or(U64(i.imm), U32(slot.imm) * 2 ^ HalfBits)

ExecLddw ==
    /\ Executes({"lddw"})
    /\ SetDst(LddwValue(insn, text[pc + 2]), pc + 2)

ExecLoad ==
    /\ Executes({"ldx"})
    /\ SetDst(Loaded(mem, AddressOf(insn), insn.size), pc + 1)

ExecStore ==
    /\ Executes({"st"})
    /\ mem' = Stored(mem, AddressOf(insn), insn.size, Operand(insn))
    /\ pc' = pc + 1
    /\ UNCHANGED <<regs, call_stack, return_data, status, fixed>>

\* Mutant: the sum saturates at the start of the program.
MutTarget(distance) ==
    IF pc + 1 + distance < 0 THEN 0 ELSE Usize(build, pc + 1 + distance)

\* (pc as i64 + off as i64) as usize, where pc is that of the next instruction.
Target(distance) == Usize(build, pc + 1 + distance)

ExecJump ==
    /\ Executes({"jump"})
    /\ \/ insn.fn = "always" /\ pc' = Target(insn.off)
       \/ /\ insn.fn # "always"
          /\ pc' = IF Taken(insn.fn, regs[insn.dst], Operand(insn))
                   THEN Target(insn.off) ELSE pc + 1
    /\ UNCHANGED <<regs, call_stack, mem, return_data, status, fixed>>

\* Mutant: the pc of the call itself is saved.
MutExecCall ==
    /\ Executes({"call"})
    /\ call_stack' = Append(call_stack, [pc |-> pc, regs |-> regs])
    /\ pc' = Target(insn.imm)
    /\ UNCHANGED <<regs, mem, return_data, status, fixed>>

\* The frame keeps every register; r10 does not move.
ExecCall ==
    /\ Executes({"call"})
    /\ call_stack' = Append(call_stack, [pc |-> pc + 1, regs |-> regs])
    /\ pc' = Target(insn.imm)
    /\ UNCHANGED <<regs, mem, return_data, status, fixed>>

\* Mutant: the frame is read with last() and stays.
MutExecExit ==
    /\ Executes({"exit"})
    /\ IF call_stack = <<>>
       THEN Stop("exit")
       ELSE LET frame == call_stack[Len(call_stack)] IN
            /\ regs' = [frame.regs EXCEPT ![0] = regs[0]]
            /\ pc' = frame.pc
            /\ UNCHANGED <<call_stack, mem, return_data, status, fixed>>

ExecExit ==
    /\ Executes({"exit"})
    /\ IF call_stack = <<>>
       THEN Stop("exit")
       ELSE LET frame == call_stack[Len(call_stack)] IN
            /\ call_stack' = SubSeq(call_stack, 1, Len(call_stack) - 1)
            /\ regs' = [frame.regs EXCEPT ![0] = regs[0]]
            /\ pc' = frame.pc
            /\ UNCHANGED <<mem, return_data, status, fixed>>

\* The memory a syscall leaves; memcpy is the host's.
AfterSyscall(fn, m, r1, r2, n) ==
    CASE fn = "memcpy" /\ build.host = "guest" -> CopyForward(m, r1, r2, n)
      [] fn = "memcpy" /\ build.host = "conformance" -> CopyBuffered(m, r1, r2, n)
      [] fn = "memmove" -> CopyBuffered(m, r1, r2, n)
      [] fn = "memset" -> Filled(m, r1, n, U8(r2))
      [] OTHER -> m

\* sol_log_ and sol_panic_ do nothing but clear r0; an unknown one not even that.
Syscalls == {"log", "panic", "memcpy", "memset", "memmove", "set_return_data"}

ExecSyscall ==
    /\ Executes({"syscall"})
    /\ mem' = AfterSyscall(insn.fn, mem, regs[1], regs[2], regs[3])
    /\ return_data' =
         IF insn.fn = "set_return_data"
         THEN [k \in 1 .. Usize(build, regs[2]) |-> ByteAt(mem, regs[1] + k - 1)]
         ELSE return_data
    /\ regs' = IF insn.fn \in Syscalls THEN [regs EXCEPT ![0] = 0] ELSE regs
    /\ pc' = pc + 1
    /\ UNCHANGED <<call_stack, status, fixed>>

\* main of the guest: the result is committed, whatever it is.  A panic ends the
\* guest without a journal, and the host without a receipt.
Commit ==
    /\ build.host = "guest"
    /\ status \in Errors \union {"exit"} /\ journal = NoJournal
    /\ journal' = IF status = "exit"
                  THEN [r0 |-> regs[0], success |-> TRUE]
                  ELSE [r0 |-> 2 ^ WordBits - 1, success |-> FALSE]
    /\ UNCHANGED <<machine, build, text, input, tested>>

\* Mutant: a run that ended in an error is not counted as failed.
MutJudge ==
    /\ build.host = "conformance"
    /\ status \in Errors \union {"exit"} /\ tested = NotTested
    /\ tested' = [passed |-> return_data = <<>>, r0 |-> regs[0]]
    /\ UNCHANGED <<machine, build, text, input, journal>>

\* test! of the conformance test, all of whose cases expect Ok: the run ended
\* without an error and returned no data; r0 is shown, not looked at.  A panic
\* ends the test without a judgement.
Judge ==
    /\ build.host = "conformance"
    /\ status \in Errors \union {"exit"} /\ tested = NotTested
    /\ tested' = [passed |-> status = "exit" /\ return_data = <<>>,
                  r0 |-> regs[0]]
    /\ UNCHANGED <<machine, build, text, input, journal>>

\* After the test, prove_predicate hands the same program and input to the guest.
StartProof ==
    /\ build.host = "conformance"
    /\ tested # NotTested \/ status = "panic"
    /\ build' \in {b \in Builds : b.host = "guest"}
    /\ regs' = StartRegs
    /\ pc' = 0
    /\ call_stack' = <<>>
    /\ mem' = LoadedMemory(input)
    /\ return_data' = <<>>
    /\ status' = "running"
    /\ UNCHANGED <<text, input, journal, tested>>

Step ==
    \/ Trap \/ LeaveText
    \/ ExecAlu \/ ExecLddw \/ ExecLoad \/ ExecStore \/ ExecJump
    \/ ExecCall \/ ExecExit \/ ExecSyscall

\* A memcpy whose destination begins behind the start of its source, and within it.
OverlapsUpwards == regs[1] \in regs[2] + 1 .. regs[2] + regs[3] - 1

Remember ==
    overlapped' = (overlapped \/ /\ build.host = "guest" /\ Executes({"syscall"})
                                 /\ insn.fn = "memcpy" /\ OverlapsUpwards)

Next == (Step \/ Commit \/ Judge \/ StartProof) /\ Remember

\* run() is a loop that nothing interrupts, and its caller goes on; whether a
\* proof follows a test is up to a person.
Spec == Init /\ [][Next]_vars /\ WF_vars((Step \/ Commit \/ Judge) /\ Remember)

\* What prove_predicate makes of a run: the journal's flag.
Verdict == journal.success

-----------------------------------------------------------------------------
(***************************************************************************)
(* Properties                                                              *)
(***************************************************************************)
Frame == [pc : Nat, regs : Regs]

TypeOK ==
    /\ regs \in Regs
    /\ pc \in 0 .. 2 ^ build.usize - 1
    /\ call_stack \in Seq(Frame)
    /\ mem \in [Mapped -> Byte]
    /\ return_data \in Seq(Byte)
    /\ status \in {"running", "exit", "panic"} \union Errors
    /\ journal = NoJournal \/ journal \in [r0 : Word, success : BOOLEAN]
    /\ tested = NotTested \/ tested \in [passed : BOOLEAN, r0 : Word]
    /\ overlapped \in BOOLEAN

\* The raw pointers of read_uN and write_uN: an access that is let through lies
\* within one region, to its last byte, also at the top of the address space,
\* where addr + size wraps.
MemoryConfined ==
    Executes({"ldx", "st"}) =>
        \E region \in {Stack, Heap} :
            AddressOf(insn) .. AddressOf(insn) + insn.size - 1 \subseteq Within(region)

\* What write_uN has put somewhere is what read_uN of that width finds there,
\* and no other byte has changed.
StoreReadsBack ==
    [][Executes({"st"}) /\ status' = "running" =>
        LET addr == AddressOf(insn) IN
        /\ Loaded(mem', addr, insn.size)
             = Operand(insn) % 2 ^ (ByteBits * insn.size)
        /\ \A a \in Mapped : mem'[a] # mem[a] => a \in addr .. addr + insn.size - 1]_vars

\* The call stack never outgrows its limit, and every frame on it returns behind
\* a CALL: however calls, exits and jumps into the middle of functions follow
\* one another, EXIT never lands anywhere else.
ReturnPoints ==
    /\ Len(call_stack) <= MAX_CALL_DEPTH
    /\ \A k \in 1 .. Len(call_stack) :
         /\ call_stack[k].pc \in 1 .. Len(text)
         /\ text[call_stack[k].pc].op = "call"

\* There is no instruction budget, so a loop runs for ever; but a program that
\* jumps and calls forward only comes to an end.
ForwardOnly ==
    \A k \in 1 .. Len(text) :
        /\ text[k].op = "jump" => text[k].off >= 0
        /\ text[k].op = "call" => text[k].imm >= 0
Termination == ForwardOnly => []<>(status # "running")

\* The syscalls of the two hosts do the same, unless a memcpy overlaps upwards.
HostsAgree ==
    Executes({"syscall"}) /\ insn.fn = "memcpy" /\ ~OverlapsUpwards =>
        CopyForward(mem, regs[1], regs[2], regs[3])
          = CopyBuffered(mem, regs[1], regs[2], regs[3])

\* What the conformance test shows on a 64-bit host with overflow checks, the 32-bit
\* guest without them proves.  After a test that passed the guest's run returns no
\* error, and its journal holds the r0 of the test, up to where the guest comes upon
\* one of the two things it does differently: a memcpy that overlaps upwards, and a
\* Vec that is too long for it, where it panics and leaves no journal.
TestedIsProved ==
    tested # NotTested /\ tested.passed /\ build.host = "guest" /\ ~overlapped =>
        /\ status \in {"running", "exit"} \/ (status = "panic" /\ TooLong(insn))
        /\ journal \in {NoJournal, [r0 |-> tested.r0, success |-> TRUE]}

\* A jump that is taken, and a call, go where their distance says if that is in the
\* program, and otherwise leave it, in every build: the negative pc of a jump to
\* before the start is cast to a usize that is behind the end, on 32 bits too.
Distance ==
    IF insn.op = "call" THEN insn.imm
    ELSE IF insn.fn = "always" \/ Taken(insn.fn, regs[insn.dst], Operand(insn))
    THEN insn.off
    ELSE 0
JumpsLand ==
    [][Executes({"jump", "call"}) /\ status' = "running" =>
        IF pc + 1 + Distance \in 0 .. Len(text) - 1
        THEN pc' = pc + 1 + Distance
        ELSE pc' >= Len(text)]_vars

\* A number and its negative add up to nothing, for the smallest one too, which a
\* build without overflow checks lets through; and the two 32-bit operations that
\* are signed leave an i32 widened to 64 bits, unlike every other one.
SignsWiden ==
    [][Executes({"alu64", "alu32"}) /\ status' = "running" =>
        LET result == regs'[insn.dst]
            bits   == IF insn.op = "alu64" THEN WordBits ELSE HalfBits
        IN /\ insn.fn = "neg" => (regs[insn.dst] + result) % 2 ^ bits = 0
           /\ insn.op = "alu32" /\ insn.fn \in {"neg", "arsh"} =>
                result = U64(I32(result))]_vars

\* m6-interpreter/prover/src/main.rs:77 and :81 announce "balance=100,
\* threshold=50 (should pass)" and "balance=49, threshold=50 (should fail)": the
\* verdict of prove_predicate tells the two apart.
VerdictIsPredicate ==
    text \in Predicates /\ journal # NoJournal =>
        (Verdict <=> input[1] >= input[2])

\* interpreter/src/lib.rs:190 names LDDW a two-word instruction, of the "full
\* opcode set" of line 1: it loads the 64 bits its two slots hold.
LddwLoadsBothHalves ==
    Executes({"lddw"}) =>
        LddwValue(insn, text[pc + 2])
          = U32(insn.imm) + U32(text[pc + 2].imm) * 2 ^ HalfBits
=============================================================================
