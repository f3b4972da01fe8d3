----------------------------- MODULE SbpfProgram -----------------------------
(***************************************************************************)
(* Instructions of the sBPF interpreter, as SbpfVm.tla names them, and the *)
(* program it is there for, balance-predicate.  The compiled program is    *)
(* not in the repository, which describes in two ways how it reports an    *)
(* error; each is assembled here, from the same source.                    *)
(***************************************************************************)
EXTENDS Integers, Sequences

I(op, fn, use, size, dst, src, off, imm) ==
    [op |-> op, fn |-> fn, use |-> use, size |-> size, dst |-> dst, src |-> src,
     off |-> off, imm |-> imm]

ImmOp(op, fn, dst, imm) == I(op, fn, "imm", 0, dst, 0, 0, imm)
RegOp(op, fn, dst, src) == I(op, fn, "reg", 0, dst, src, 0, 0)
Ldx(size, dst, src, off) == I("ldx", "", "reg", size, dst, src, off, 0)
StReg(size, dst, off, src) == I("st", "", "reg", size, dst, src, off, 0)
Lddw(dst, imm) == I("lddw", "", "imm", 0, dst, 0, 0, imm)
Slot(imm) == I("unknown", "", "imm", 0, 0, 0, 0, imm)
JumpImm(fn, dst, imm, off) == I("jump", fn, "imm", 0, dst, 0, off, imm)
JumpReg(fn, dst, src, off) == I("jump", fn, "reg", 0, dst, src, off, 0)
CallTo(distance) == I("call", "", "imm", 0, 0, 0, 0, distance)
Sys(name) == I("syscall", name, "imm", 0, 0, 1, 0, 0)
Exit == I("exit", "", "imm", 0, 0, 0, 0, 0)

\* "Output (via return code)": r0 is 0, the code of Custom(1), or that of
\* InvalidInstructionData, which a u32 does not hold.
PredicateByCode ==
    <<Ldx(8, 1, 1, 0), ImmOp("alu64", "add", 1, 16),
      Ldx(8, 4, 1, -8), Lddw(0, 0), Slot(3), JumpImm("lt", 4, 16, 6),
      Ldx(8, 2, 1, 0), ImmOp("alu64", "add", 1, 8), Ldx(8, 3, 1, 0),
      ImmOp("alu64", "mov", 0, 0), JumpReg("ge", 2, 3, 1),
      ImmOp("alu64", "mov", 0, 1), Exit>>

\* "r0=0 always", and an error is four bytes of return data.
PredicateByData ==
    <<Ldx(8, 1, 1, 0), ImmOp("alu64", "add", 1, 16),
      Ldx(8, 4, 1, -8), ImmOp("alu64", "mov", 5, 3), JumpImm("lt", 4, 16, 5),
      Ldx(8, 2, 1, 0), ImmOp("alu64", "add", 1, 8), Ldx(8, 3, 1, 0),
      ImmOp("alu64", "mov", 5, 1), JumpReg("ge", 2, 3, 3),
      StReg(4, 1, 0, 5), ImmOp("alu64", "mov", 2, 4), Sys("set_return_data"), Exit>>

BalancePredicates == {PredicateByCode, PredicateByData}
=============================================================================
