----------------------------- MODULE SbpfMemory -----------------------------
(***************************************************************************)
(* The words and the memory of the sBPF interpreter                        *)
(* (m6-interpreter/interpreter/src/lib.rs).  Widths are kept in proportion *)
(* and scaled by ByteBits, which is 8 in the code: a byte has ByteBits     *)
(* bits, an i16 two bytes, a u32 four, a u64 eight.                        *)
(*                                                                         *)
(* Loads and stores go through raw pointers, and resolve() is all that     *)
(* keeps them within the two regions.  It compares addr + size, which is   *)
(* u64 arithmetic: it wraps, or panics if the build checks overflow.  What *)
(* a build is like is an argument: [usize |-> its width, checks |-> whether *)
(* it panics on overflow], with whatever else the caller keeps in it.      *)
(***************************************************************************)
EXTENDS Integers, FiniteSetsExt

CONSTANTS
    ByteBits,        \* the width of a byte
    StackBase, StackLen,
    HeapBase, HeapLen

HalfBits == 4 * ByteBits
WordBits == 8 * ByteBits

MaxLen == IF StackLen < HeapLen THEN HeapLen ELSE StackLen

ASSUME MemoryAssumption ==
    /\ {ByteBits, StackBase, StackLen, HeapBase, HeapLen} \subseteq Nat
    /\ 0 < ByteBits
    /\ 0 < StackBase
    /\ StackBase + StackLen <= HeapBase
    /\ HeapBase + HeapLen + 8 <= 2 ^ WordBits
    /\ StackBase % 2 ^ HalfBits = 0 /\ HeapBase % 2 ^ HalfBits = 0
    /\ MaxLen + 8 < 2 ^ HalfBits

\* The powers of two that a word needs, by what defines them.
ASSUME PowerAssumption == \A k \in 0 .. WordBits - 1 : 2 ^ (k + 1) = 2 * 2 ^ k

Byte == 0 .. 2 ^ ByteBits - 1
Word == 0 .. 2 ^ WordBits - 1

\* Rust's casts: to the unsigned types, and of their bits to the signed ones.
U8(x) == x % 2 ^ ByteBits
U32(x) == x % 2 ^ HalfBits
U64(x) == x % 2 ^ WordBits
Usize(build, x) == x % 2 ^ build.usize
I32(x) == IF U32(x) < 2 ^ (HalfBits - 1) THEN U32(x) ELSE U32(x) - 2 ^ HalfBits
I64(x) == IF U64(x) < 2 ^ (WordBits - 1) THEN U64(x) ELSE U64(x) - 2 ^ WordBits

Stack == [base |-> StackBase, len |-> StackLen]
Heap == [base |-> HeapBase, len |-> HeapLen]

Within(region) == region.base .. region.base + region.len - 1
Mapped == Within(Stack) \union Within(Heap)

Sizes == {1, 2, 4, 8}

\* Mutant: the end of the access is not checked.
MutHits(region, addr, size) ==
    addr >= region.base /\ addr < region.base + region.len

\* The comparison of resolve(), with the wrap of addr + size.
Hits(region, addr, size) ==
    addr >= region.base /\ U64(addr + size) <= region.base + region.len

\* The slice it then takes from the offset on, which panics behind the end.
Slice(build, region, addr) ==
    IF Usize(build, addr - region.base) <= region.len THEN "ok" ELSE "panic"

\* resolve and resolve_mut: "none" is InvalidMemoryAccess.
Resolve(build, addr, size) ==
    IF build.checks /\ addr + size >= 2 ^ WordBits THEN "panic"
    ELSE IF Hits(Stack, addr, size) THEN Slice(build, Stack, addr)
    ELSE IF Hits(Heap, addr, size) THEN Slice(build, Heap, addr)
    ELSE "none"

\* Mutant: the bytes are put in the order of the network.
MutStored(mem, addr, size, value) ==
    [a \in DOMAIN mem |->
        IF a \in addr .. addr + size - 1
        THEN U8(value \div 2 ^ (ByteBits * (addr + size - 1 - a)))
        ELSE mem[a]]

\* write_u8 .. write_u64 and read_u8 .. read_u64, little endian.
Stored(mem, addr, size, value) ==
    [a \in DOMAIN mem |->
        IF a \in addr .. addr + size - 1
        THEN U8(value \div 2 ^ (ByteBits * (a - addr)))
        ELSE mem[a]]

Loaded(mem, addr, size) ==
    SumFunction([k \in 0 .. size - 1 |-> mem[addr + k] * 2 ^ (ByteBits * k)])

-----------------------------------------------------------------------------
(***************************************************************************)
(* The loops of the syscalls: one read_u8 or write_u8 per byte.  Where they *)
(* find nothing, a read gives 0 and a write is dropped.  The address of    *)
(* the topmost byte makes resolve() panic, and so ends every such loop     *)
(* that would go on beyond it.                                             *)
(***************************************************************************)
ByteAt(mem, addr) == IF addr \in DOMAIN mem THEN mem[addr] ELSE 0

RangePanics(addr, n) == n > 0 /\ addr + n >= 2 ^ WordBits

\* Mutant: the last byte is left out.
MutCopyForward(mem, dst, src, n) ==
    LET step[k \in 0 .. n] ==
          IF k \in {0, n} THEN IF k = 0 THEN mem ELSE step[k - 1]
          ELSE LET m == step[k - 1] IN
               IF dst + k - 1 \in DOMAIN m
               THEN [m EXCEPT ![dst + k - 1] = ByteAt(m, src + k - 1)]
               ELSE m
    IN step[n]

\* memcpy of the zkVM guest: byte by byte, each one read after the last write.
CopyForward(mem, dst, src, n) ==
    LET step[k \in 0 .. n] ==
          IF k = 0 THEN mem
          ELSE LET m == step[k - 1] IN
               IF dst + k - 1 \in DOMAIN m
               THEN [m EXCEPT ![dst + k - 1] = ByteAt(m, src + k - 1)]
               ELSE m
    IN step[n]

\* memmove, and memcpy of the conformance host: all bytes are read first, into a
\* Vec that must be there (TooLong of SbpfVm).
CopyBuffered(mem, dst, src, n) ==
    [a \in DOMAIN mem |->
        IF a \in dst .. dst + n - 1 THEN ByteAt(mem, src + (a - dst)) ELSE mem[a]]

Filled(mem, dst, n, value) ==
    [a \in DOMAIN mem |-> IF a \in dst .. dst + n - 1 THEN value ELSE mem[a]]
=============================================================================
