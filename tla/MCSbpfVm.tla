------------------------------ MODULE MCSbpfVm ------------------------------
(* The machine at a quarter of its width: bytes of two bits, a u32 of eight,  *)
(* a u64 of sixteen.  The bases keep their place, 1 and 3 shifted by the width *)
(* of a u32.  Every program of three instructions from a small set is run, and *)
(* some longer ones.                                                          *)
EXTENDS SbpfVm, SbpfProgram

\* The guest is a release build for a 32-bit target, the test a debug build; both
\* have the memory for every Vec there can be.
MCBuilds ==
    {[host |-> "guest", usize |-> 8, checks |-> FALSE, vec |-> 127],
     [host |-> "conformance", usize |-> 16, checks |-> TRUE, vec |-> 32767]}

StImm(size, dst, off, imm) == I("st", "", "imm", size, dst, 0, off, imm)
Goto(off) == I("jump", "always", "imm", 0, 0, 0, off, 0)

\* Values at the ends of the ranges, addresses at the ends of the regions and
\* of the address space, jumps back and forth, and one of each way to fail.
Alphabet == {
    ImmOp("alu64", "mov", 2, -3), ImmOp("alu64", "mov", 0, 1),
    RegOp("alu64", "xor", 2, 10), RegOp("alu64", "mov", 1, 2),
    ImmOp("alu32", "sub", 2, 1), RegOp("alu64", "div", 2, 3),
    Ldx(8, 2, 1, 0), Ldx(2, 2, 10, -2), StReg(8, 10, -8, 2), StImm(4, 1, 3, -2),
    Goto(-2), Goto(1), JumpImm("eq", 2, 0, 1),
    CallTo(0), CallTo(1), CallTo(-2), Exit, Lddw(2, 5), Slot(3) }

Short == {Append(s, Exit) : s \in [1 .. 3 -> Alphabet]}

\* Each arithmetic and jump function on ends of the ranges.
Values == {-128, -1, 0, 1, 127}
AluText(op, fn, a, b) ==
    <<ImmOp("alu64", "mov", 2, a), ImmOp("alu64", "mov", 3, b),
      RegOp(op, fn, 2, 3), Exit>>
AluTexts ==
    {AluText("alu64", fn, a, b) : fn \in Functions64 \ {"mul"}, a, b \in Values}
    \union {AluText("alu32", fn, a, b) : fn \in Functions64, a, b \in Values}
    \union {AluText("alu64", "mul", a, b) : a \in Values, b \in {0, 1, 127}}
JumpTexts ==
    {<<ImmOp("alu64", "mov", 2, a), JumpImm(fn, 2, b, 1), Exit,
       ImmOp("alu64", "mov", 0, 1), Exit>> :
        fn \in Jumps \ {"always"}, a, b \in Values}

\* The smallest numbers, which have no negative.
Smallest == <<ImmOp("alu64", "mov", 2, 1), ImmOp("alu64", "lsh", 2, 15)>>
NegTexts ==
    {Smallest \o <<ImmOp("alu64", "neg", 2, 0), Exit>>,
     <<ImmOp("alu32", "mov", 2, -128), ImmOp("alu32", "neg", 2, 0), Exit>>}

\* Copies within the heap, over its end, to the stack and behind the address
\* space, and what a program hands back.
CopyTexts ==
    {<<RegOp("alu64", "mov", 2, 1), ImmOp("alu64", "add", 1, d),
       ImmOp("alu64", "add", 2, s), ImmOp("alu64", "mov", 3, n), Sys(fn), Exit>> :
        d \in {0, 3, 70, 127}, s \in {0, 4, 70, 127}, n \in {0, 1, 9, -1},
        fn \in {"memcpy", "memmove", "memset"}}
    \union {<<ImmOp("alu64", "mov", 2, n), ImmOp("alu64", "add", 1, 66), Sys(fn),
              Exit>> : n \in {0, 4, 9},
                       fn \in {"log", "panic", "memset", "set_return_data", "other"}}

\* A copy onto itself, one byte up, and a look at what it left.
OverlapText ==
    <<RegOp("alu64", "mov", 2, 1), ImmOp("alu64", "add", 1, 1),
      ImmOp("alu64", "mov", 3, 3), Sys("memcpy"), Ldx(4, 0, 1, 0), Exit>>

\* The shortest Vec that the guest cannot have.
LongTexts ==
    {<<RegOp("alu64", "mov", 2, 1), ImmOp("alu64", "add", 2, 4),
       ImmOp("alu64", "mov", 3, 127), ImmOp("alu64", "add", 3, 1), Sys(fn), Exit>> :
        fn \in {"memmove", "memset"}}
    \union {<<ImmOp("alu64", "mov", 2, 127), ImmOp("alu64", "add", 2, 1),
              Sys("set_return_data"), Exit>>}

\* Accesses of every width across both ends of both regions.
EdgeTexts ==
    {<<ImmOp("alu64", "add", 1, edge), RegOp("alu64", "mov", 3, base),
       i, Exit>> :
        edge \in {0, 76}, base \in {1, 10},
        i \in {Ldx(size, 2, 3, off) : size \in Sizes, off \in -8 .. 1}
             \union {StImm(size, 3, off, -2) : size \in Sizes, off \in -8 .. 1}}

\* Registers that there are not.
WrongTexts ==
    {<<i, Exit>> : i \in
        {ImmOp("alu64", "mov", 11, 0), RegOp("alu64", "mov", 2, 15), Ldx(8, 12, 1, 0),
         Ldx(8, 2, 12, 0), StReg(8, 11, 0, 1), StReg(8, 10, -8, 11), Lddw(13, 0),
         JumpImm("eq", 11, 0, 1), RegOp("alu64", "div", 12, 2),
         ImmOp("alu64", "div", 12, 0), ImmOp("alu32", "mod", 2, 1)}}
    \union {<<Lddw(2, 1)>>}

\* Two functions, the second of which recurses without end.
Recursion == <<CallTo(1), Exit, ImmOp("alu64", "add", 6, 1), CallTo(-2), Exit>>

MCTexts == Short \union AluTexts \union JumpTexts \union NegTexts
             \union CopyTexts \union LongTexts \union EdgeTexts \union WrongTexts
             \union {Recursion, OverlapText} \union BalancePredicates

\* The values around the threshold and at the ends of u64 matter to the
\* predicate only.
MCInputs == {0, 49, 50, 32768, 65535} \X {0, 50, 65535}
PredicateCases == BalancePredicates \X MCInputs
MCCases == (MCTexts \X {<<49, 50>>}) \union PredicateCases
LddwCases ==
    {<<<<Lddw(2, lo), Slot(hi), Exit>>, <<0, 0>>>> : lo, hi \in {-1, 0, 1}}
=============================================================================
