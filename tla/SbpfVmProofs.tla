---------------------------- MODULE SbpfVmProofs ----------------------------
(***************************************************************************)
(* Proofs about the sBPF interpreter, for every program, every input, every *)
(* width and every limit of the call stack: what its values, its memory    *)
(* and its control flow keep, and that the guest proves what the test has   *)
(* shown.                                                                  *)
(***************************************************************************)
EXTENDS SbpfVm, SbpfMemoryProofs, SequenceTheorems

-----------------------------------------------------------------------------
(***************************************************************************)
(* Arithmetic                                                              *)
(***************************************************************************)
\* Every register value, and every cast, is a natural number below its power.
LEMMA WordInt == 0 \in Word /\ \A w \in Word : w \in Nat /\ w \in Int
  BY Powers DEF Word

\* A cast to u64 or u32 is a word, one to i64 or i32 an integer.
LEMMA CastType ==
    ASSUME NEW x \in Int
    PROVE  /\ U64(x) \in Word /\ U32(x) \in 0 .. 2 ^ HalfBits - 1 /\ U32(x) \in Word
           /\ I64(x) \in Int /\ I32(x) \in Int
<1>1. U64(x) \in Word /\ U32(x) \in 0 .. 2 ^ HalfBits - 1
  BY Powers DEF U64, U32, Word
<1>2. 2 * 2 ^ HalfBits <= 2 ^ WordBits
  BY Widths, PowerLess
<1>3. U32(x) \in Word
  BY <1>1, <1>2, Powers DEF Word
<1>4. I64(x) \in Int /\ I32(x) \in Int
  BY <1>1, Powers DEF I64, I32, Word
<1> QED
  BY <1>1, <1>3, <1>4

\* A quotient of a word is a word.
LEMMA QuotientType ==
    ASSUME NEW x \in Word, NEW n \in Nat \ {0}
    PROVE  x \div n \in Word
<1>1. x \in Nat /\ x \div n \in 0 .. x
  BY WordInt, DividedNat
<1> QED
  BY <1>1, Powers DEF Word

\* So is a remainder.
LEMMA RemainderType ==
    ASSUME NEW x \in Int, NEW bits \in {HalfBits, WordBits}
    PROVE  x % 2 ^ bits \in Word
  BY CastType DEF U64, U32

\* The bits of two words, combined.
LEMMA BitsType ==
    ASSUME NEW a \in Word, NEW b \in Word
    PROVE  Or(a, b) \in Word /\ And(a, b) \in Word /\ Xor(a, b) \in Word
<1>1. ASSUME NEW k \in 0 .. WordBits - 1
      PROVE  2 ^ k \in Nat /\ (a \div 2 ^ k) % 2 \in {0, 1} /\ (b \div 2 ^ k) % 2 \in {0, 1}
  <2> DEFINE p == 2 ^ k
  <2>1. p \in Nat \ {0} /\ a \in Nat /\ b \in Nat
    BY PowerType, Widths, WordInt
  <2> HIDE DEF p
  <2>2. a \div p \in Nat /\ b \div p \in Nat
    BY <2>1, DividedNat
  <2>3. (a \div p) % 2 \in {0, 1} /\ (b \div p) % 2 \in {0, 1}
    BY <2>2
  <2> QED
    BY <2>1, <2>3 DEF p
<1>2. Or(a, b) \in Word
  <2> DEFINE F == [k \in 0 .. WordBits - 1 |->
           (IF ((a \div 2 ^ k) % 2) + ((b \div 2 ^ k) % 2) > 0 THEN 1 ELSE 0) * 2 ^ k]
  <2>1. \A k \in 0 .. WordBits - 1 : F[k] \in 0 .. 2 ^ k
    BY <1>1
  <2>2. Or(a, b) = SumFunctionOnSet(F, 0 .. WordBits - 1)
    BY DEF Or, Bitwise2, SumFunction
  <2> HIDE DEF F
  <2> QED
    BY <2>1, <2>2, BitSum
<1>3. And(a, b) \in Word
  <2> DEFINE F == [k \in 0 .. WordBits - 1 |->
           (((a \div 2 ^ k) % 2) * ((b \div 2 ^ k) % 2)) * 2 ^ k]
  <2>1. \A k \in 0 .. WordBits - 1 : F[k] \in 0 .. 2 ^ k
    BY <1>1
  <2>2. And(a, b) = SumFunctionOnSet(F, 0 .. WordBits - 1)
    BY DEF And, Bitwise2, SumFunction
  <2> HIDE DEF F
  <2> QED
    BY <2>1, <2>2, BitSum
<1>4. Xor(a, b) \in Word
  <2> DEFINE F == [k \in 0 .. WordBits - 1 |->
           ((((a \div 2 ^ k) % 2) + ((b \div 2 ^ k) % 2)) % 2) * 2 ^ k]
  <2>1. \A k \in 0 .. WordBits - 1 : F[k] \in 0 .. 2 ^ k
    BY <1>1
  <2>2. Xor(a, b) = SumFunctionOnSet(F, 0 .. WordBits - 1)
    BY DEF Xor, Bitwise2, SumFunction
  <2> HIDE DEF F
  <2> QED
    BY <2>1, <2>2, BitSum
<1> QED
  BY <1>2, <1>3, <1>4

\* The operations that treat both widths alike, on operands of that width.
LEMMA AluType ==
    ASSUME NEW bits \in {HalfBits, WordBits}, NEW a \in Word, NEW b \in Word,
           NEW fn \in Functions64 \ {"neg", "arsh"}, fn \in {"div", "mod"} => b # 0
    PROVE  Alu(fn, a, b, bits) \in Word
<1>1. a \in Nat /\ b \in Nat /\ bits \in Nat \ {0} /\ bits \in 0 .. WordBits
  BY WordInt, Widths
<1>2. b % bits \in 0 .. WordBits /\ 2 ^ (b % bits) \in Nat \ {0}
  <2>1. b % bits \in 0 .. bits - 1
    BY <1>1, Divided
  <2>2. b % bits \in 0 .. WordBits
    BY <1>1, <2>1, Widths
  <2> QED
    BY <2>2, PowerType
<1>3. CASE fn \in {"add", "sub", "mul", "lsh"}
  <2>1. a + b \in Int /\ a - b \in Int /\ a * b \in Int /\ a * 2 ^ (b % bits) \in Int
    BY <1>1, <1>2
  <2> QED
    BY <1>3, <2>1, RemainderType DEF Alu
<1>4. CASE fn \in {"or", "and", "xor"}
  BY <1>4, BitsType DEF Alu
<1>5. CASE fn \in {"div", "rsh"}
  BY <1>1, <1>2, <1>5, QuotientType DEF Alu
<1>6. CASE fn = "mod"
  <2>1. a % b \in 0 .. b - 1
    BY <1>1, <1>6
  <2>2. a % b \in Word
    BY <1>1, <2>1, Powers DEF Word
  <2> QED
    BY <1>6, <2>2 DEF Alu
<1>7. CASE fn = "mov"
  BY <1>7 DEF Alu
<1> QED
  BY <1>3, <1>4, <1>5, <1>6, <1>7 DEF Functions64

\* A 64-bit operation makes a word of two words.
LEMMA Alu64Type ==
    ASSUME NEW a \in Word, NEW b \in Word, NEW fn \in Functions64,
           fn \in {"div", "mod"} => b # 0
    PROVE  Alu64(fn, a, b) \in Word
<1>1. a \in Int /\ b \in Nat /\ WordBits \in Nat \ {0}
  BY WordInt, Widths
<1>2. CASE fn = "neg"
  BY <1>1, <1>2, CastType DEF Alu64
<1>3. CASE fn = "arsh"
  <2> DEFINE p == 2 ^ (b % WordBits)
  <2>1. b % WordBits \in 0 .. WordBits
    BY <1>1
  <2>2. p \in Nat \ {0} /\ I64(a) \in Int
    BY <1>1, <2>1, PowerType, CastType
  <2> HIDE DEF p
  <2>3. I64(a) \div p \in Int
    BY <2>2, Divided
  <2> QED
    BY <1>3, <2>3, CastType DEF Alu64, p
<1>4. CASE fn \notin {"neg", "arsh"}
  <2>1. Alu(fn, a, b, WordBits) \in Word
    BY <1>4, AluType
  <2> QED
    BY <1>4, <2>1 DEF Alu64
<1> QED
  BY <1>2, <1>3, <1>4

\* So does a 32-bit operation.
LEMMA Alu32Type ==
    ASSUME NEW a \in Word, NEW b \in Word, NEW fn \in Functions32,
           fn = "div" => U32(b) # 0
    PROVE  Alu32(fn, a, b) \in Word
<1>1. a \in Int /\ b \in Nat /\ HalfBits \in Nat \ {0} /\ HalfBits < WordBits
      /\ WordBits \in Nat
  BY WordInt, Widths
<1>2. CASE fn = "neg"
  <2>1. -I32(a) \in Int
    BY <1>1, CastType
  <2>2. I32(-I32(a)) \in Int
    BY <2>1, CastType
  <2> QED
    BY <1>2, <2>2, CastType DEF Alu32
<1>3. CASE fn = "arsh"
  <2> DEFINE p == 2 ^ (b % HalfBits)
  <2>1. b % HalfBits \in 0 .. WordBits
    BY <1>1
  <2>2. p \in Nat \ {0} /\ I32(a) \in Int
    BY <1>1, <2>1, PowerType, CastType
  <2> HIDE DEF p
  <2>3. I32(a) \div p \in Int
    BY <2>2, Divided
  <2> QED
    BY <1>3, <2>3, CastType DEF Alu32, p
<1>4. CASE fn \notin {"neg", "arsh"}
  <2>1. U32(a) \in Word /\ U32(b) \in Word
    BY <1>1, CastType
  <2>2. fn \in Functions64 \ {"neg", "arsh"} /\ (fn \in {"div", "mod"} => U32(b) # 0)
    BY <1>4 DEF Functions32
  <2>3. Alu(fn, U32(a), U32(b), HalfBits) \in Word
    BY <2>1, <2>2, AluType
  <2> QED
    BY <1>4, <2>3 DEF Alu32
<1> QED
  BY <1>2, <1>3, <1>4

\* A cast to i32 takes a multiple of 2^32 away, and leaves an i32, which is one less
\* than n at most.
LEMMA SignedHalf ==
    ASSUME NEW x \in Int, NEW n, n = 2 ^ (HalfBits - 1)
    PROVE  /\ n \in Nat \ {0} /\ 2 ^ HalfBits = 2 * n
           /\ I32(x) \in -n .. n - 1
           /\ \E k \in Int : I32(x) = x - k * (2 * n)
<1>1. n \in Nat \ {0} /\ 2 ^ HalfBits = 2 * n
  <2>1. HalfBits - 1 \in 0 .. WordBits - 1 /\ HalfBits - 1 + 1 = HalfBits
        /\ HalfBits - 1 \in 0 .. WordBits
    BY Widths
  <2> QED
    BY <2>1, PowerType, PowerAssumption
<1> DEFINE m == 2 * n
           q == x \div m
           u == x % m
<1>2. m \in Nat \ {0} /\ m = 2 * n
  BY <1>1
<1>3. U32(x) = u /\ I32(x) = IF u < n THEN u ELSE u - m
  BY <1>1 DEF U32, I32
<1> HIDE DEF m
<1>4. x = q * m + u /\ q \in Int /\ u \in 0 .. m - 1
  BY <1>2, Divided, Zenon
<1> HIDE DEF q, u
<1>5. I32(x) \in -n .. n - 1
  BY <1>1, <1>2, <1>3, <1>4
<1>6. \E k \in Int : I32(x) = x - k * m
  <2>1. CASE u < n
    <3>1. q * m \in Int
      BY <1>2, <1>4
    <3>2. I32(x) = x - q * m
      BY <1>3, <1>4, <2>1, <3>1
    <3> QED
      BY <1>4, <3>2
  <2>2. CASE ~(u < n)
    <3>1. I32(x) = x - q * m - m
      BY <1>2, <1>3, <1>4, <2>2
    <3>2. (q + 1) * m = q * m + m /\ q + 1 \in Int
      BY <1>2, <1>4
    <3>3. q * m \in Int
      BY <1>2, <1>4
    <3>4. I32(x) = x - (q + 1) * m
      BY <1>2, <3>1, <3>2, <3>3
    <3> QED
      BY <3>2, <3>4
  <2> QED
    BY <2>1, <2>2
<1> QED
  BY <1>1, <1>5, <1>6 DEF m

\* An i32 that is widened to 64 bits is found in them again.
LEMMA WidenedBack ==
    ASSUME NEW n, n = 2 ^ (HalfBits - 1), NEW y \in -n .. n - 1
    PROVE  I32(U64(y)) = y
<1>1. n \in Nat \ {0} /\ 2 ^ HalfBits = 2 * n
  BY SignedHalf, 0 \in Int
<1> DEFINE N == 2 ^ HalfBits
           M == 2 ^ WordBits
           u == U64(y)
<1>2. M = N * N /\ N \in Nat \ {0} /\ N = 2 * n
  <2>1. 2 ^ (HalfBits + HalfBits) = N * N /\ HalfBits + HalfBits = WordBits
    BY PowerAdd, Widths
  <2> QED
    BY <1>1, <2>1
<1>3. y \in Int
  BY <1>1
<1>4. u \in Int /\ \E k \in Int : u = y - (k * N) * N
  <2> DEFINE q == y \div M
  <2>1. M \in Nat \ {0} /\ u = y % M
    BY Powers DEF U64
  <2> HIDE DEF u, M, N
  <2>2. y = q * M + u /\ q \in Int /\ u \in 0 .. M - 1
    BY <1>3, <2>1, Divided, Zenon
  <2> HIDE DEF q
  <2>3. q * M = (q * N) * N /\ (q * N) * N \in Int
    BY <1>2, <2>2
  <2>4. u \in Int /\ u = y - (q * N) * N
    BY <1>3, <2>1, <2>2, <2>3
  <2> QED
    BY <2>2, <2>4
<1> HIDE DEF u, M
<1>5. PICK k \in Int : u = y - (k * N) * N
  BY <1>4
<1>6. PICK j \in Int : I32(u) = u - j * N
  BY <1>1, <1>4, SignedHalf
<1>7. I32(u) \in -n .. n - 1
  BY <1>4, SignedHalf
<1> HIDE DEF N
<1> DEFINE l == k * N + j
<1>8. l \in Int /\ l * N = (k * N) * N + j * N /\ (k * N) * N \in Int /\ j * N \in Int
  BY <1>2, <1>5, <1>6
<1> HIDE DEF l
<1>9. I32(u) = y - l * N /\ l * N \in Int
  BY <1>3, <1>5, <1>6, <1>8
<1>10. l * N < N /\ -N < l * N
  BY <1>1, <1>2, <1>7, <1>9
<1>11. l = 0
  BY <1>2, <1>8, <1>10
<1> QED
  BY <1>2, <1>3, <1>9, <1>11 DEF u

\* A quotient of an i32 is one.
LEMMA QuotientHalf ==
    ASSUME NEW n \in Nat \ {0}, NEW y \in -n .. n - 1, NEW p \in Nat \ {0}
    PROVE  y \div p \in -n .. n - 1
<1> DEFINE q == y \div p
           r == y % p
<1>1. y \in Int
  OBVIOUS
<1>2. y = q * p + r /\ q \in Int /\ r \in 0 .. p - 1
  BY <1>1, Divided, Zenon
<1> HIDE DEF q, r
<1>3. q <= n - 1
  <2> SUFFICES ASSUME q >= n PROVE FALSE
    BY <1>2
  <2>1. q * p >= q
    BY <1>2
  <2> QED
    BY <1>2, <2>1
<1>4. -n <= q
  <2> SUFFICES ASSUME q + 1 <= -n PROVE FALSE
    BY <1>2
  <2>1. (q + 1) * p <= q + 1 /\ (q + 1) * p = q * p + p
    BY <1>2
  <2> QED
    BY <1>2, <2>1
<1> QED
  BY <1>2, <1>3, <1>4 DEF q

\* A number and its negative add up to nothing, in 64 bits and in 32.
LEMMA NegSum ==
    ASSUME NEW a \in Word
    PROVE  /\ (a + U64(-a)) % 2 ^ WordBits = 0
           /\ (a + U64(I32(-I32(a)))) % 2 ^ HalfBits = 0
<1> DEFINE N == 2 ^ HalfBits
           M == 2 ^ WordBits
<1>1. a \in Int /\ -a \in Int
  BY WordInt
<1>2. M = N * N /\ N \in Nat \ {0} /\ M \in Nat \ {0}
  <2>1. 2 ^ (HalfBits + HalfBits) = N * N /\ HalfBits + HalfBits = WordBits
    BY PowerAdd, Widths
  <2> QED
    BY <2>1, Powers
<1>3. \A x \in Int : \E q \in Int : U64(x) = x - q * M /\ q * M \in Int
  <2> SUFFICES ASSUME NEW x \in Int
               PROVE  \E q \in Int : U64(x) = x - q * M /\ q * M \in Int
    OBVIOUS
  <2> DEFINE q == x \div M
             u == x % M
  <2>1. U64(x) = u
    BY DEF U64
  <2> HIDE DEF M
  <2>2. x = q * M + u /\ q \in Int /\ u \in 0 .. M - 1
    BY <1>2, Divided, Zenon
  <2> HIDE DEF q, u
  <2>3. q * M \in Int
    BY <1>2, <2>2
  <2> QED
    BY <2>1, <2>2, <2>3
<1>4. (a + U64(-a)) % M = 0
  <2>1. PICK q \in Int : U64(-a) = -a - q * M /\ q * M \in Int
    BY <1>1, <1>3
  <2> HIDE DEF M
  <2> DEFINE p == -q
  <2>2. p \in Int /\ p * M = -(q * M)
    BY <1>2
  <2> HIDE DEF p
  <2>3. a + U64(-a) = p * M + 0 /\ 0 \in 0 .. M - 1
    BY <1>1, <1>2, <2>1, <2>2
  <2>4. (p * M + 0) % M = 0
    BY <1>2, <2>2, <2>3, Remainder
  <2> QED
    BY <2>3, <2>4
<1>5. (a + U64(I32(-I32(a)))) % N = 0
  <2> DEFINE b == I32(a)
             c == I32(-b)
  <2>1. PICK n : n = 2 ^ (HalfBits - 1)
    OBVIOUS
  <2>2. b \in Int /\ \E k \in Int : b = a - k * N
    BY <1>1, <2>1, SignedHalf, CastType
  <2> HIDE DEF b
  <2>3. -b \in Int
    BY <2>2
  <2>4. c \in Int /\ \E k \in Int : c = -b - k * N
    BY <2>1, <2>3, SignedHalf, CastType
  <2> HIDE DEF c
  <2>5. PICK q \in Int : U64(c) = c - q * M /\ q * M \in Int
    BY <1>3, <2>4
  <2>6. PICK k \in Int : b = a - k * N
    BY <2>2
  <2>7. PICK j \in Int : c = -b - j * N
    BY <2>4
  <2> HIDE DEF N, M
  <2> DEFINE p == k - j - q * N
  <2>8. /\ p \in Int /\ p * N = k * N - j * N - (q * N) * N
        /\ q * M = (q * N) * N /\ k * N \in Int /\ j * N \in Int /\ (q * N) * N \in Int
    BY <1>2, <2>5, <2>6, <2>7
  <2> HIDE DEF p
  <2> DEFINE s == k * N
             t == j * N
             u == (q * N) * N
             v == p * N
  <2>11. /\ s \in Int /\ t \in Int /\ u \in Int /\ v = s - t - u
         /\ b = a - s /\ c = -b - t /\ U64(c) = c - u
    BY <2>5, <2>6, <2>7, <2>8
  <2> HIDE DEF s, t, u, v
  <2>12. a + U64(c) = v
    BY <1>1, <2>2, <2>4, <2>11
  <2>9. a + U64(c) = p * N + 0 /\ 0 \in 0 .. N - 1
    <3>1. p * N \in Int
      BY <1>2, <2>8
    <3> QED
      BY <1>2, <2>12, <3>1 DEF v
  <2>10. (p * N + 0) % N = 0
    BY <1>2, <2>8, <2>9, Remainder
  <2> QED
    BY <2>9, <2>10 DEF b, c
<1> QED
  BY <1>4, <1>5

\* And LDDW, whatever its second slot holds.
LEMMA LddwType ==
    ASSUME NEW i, NEW slot, i.imm \in Int, slot.imm \in Int
    PROVE  LddwValue(i, slot) \in Word
<1>1. U64(i.imm) \in Word
  BY CastType
<1>2. U32(slot.imm) * 2 ^ HalfBits \in Word
  <2> DEFINE N == 2 ^ HalfBits
             u == U32(slot.imm)
  <2>1. u \in 0 .. N - 1 /\ N \in Nat \ {0}
    BY CastType, Powers
  <2>2. 2 ^ WordBits = N * N
    <3>1. 2 ^ (HalfBits + HalfBits) = N * N /\ HalfBits + HalfBits = WordBits
      BY PowerAdd, Widths
    <3> QED
      BY <3>1
  <2> HIDE DEF N, u
  <2>3. u * N <= (N - 1) * N /\ (N - 1) * N = N * N - N /\ u * N \in Nat
    BY <2>1
  <2>4. u * N \in 0 .. N * N - 1
    BY <2>1, <2>3
  <2> QED
    BY <2>2, <2>4 DEF Word, N, u
<1> QED
  BY <1>1, <1>2, BitsType DEF LddwValue

-----------------------------------------------------------------------------
(***************************************************************************)
(* The invariant                                                           *)
(***************************************************************************)
\* The build is one of the builds, the program and its input one of the cases.
Fixed ==
    /\ build \in Builds
    /\ \E c \in Cases : text = c[1] /\ input = c[2]

\* A test is judged when its run is over, and its machine is not used again.
JudgedAtEnd ==
    build.host = "conformance" /\ tested # NotTested =>
        status \in Errors \union {"exit"}

IInv == Fixed /\ TypeOK /\ ReturnPoints /\ JudgedAtEnd

Pcs == 0 .. 2 ^ build.usize - 1

\* What the widths of the build that runs are.
LEMMA BuildFacts ==
    ASSUME Fixed
    PROVE  /\ build.usize \in {HalfBits, WordBits} /\ build.checks \in BOOLEAN
           /\ build.host \in {"conformance", "guest"} /\ build.vec \in Nat
           /\ 2 ^ build.usize \in Nat \ {0} /\ 2 ^ HalfBits <= 2 ^ build.usize
           /\ MAX_CALL_DEPTH \in Nat
<1>1. /\ build \in [host : {"conformance", "guest"}, usize : {HalfBits, WordBits},
                    checks : BOOLEAN, vec : Nat]
      /\ MAX_CALL_DEPTH \in Nat
  BY VmAssumption DEF Fixed
<1>2. 2 * 2 ^ HalfBits <= 2 ^ WordBits
  BY Widths, PowerLess
<1> QED
  BY <1>1, <1>2, Powers

\* The text is one of the programs; n is the first number that is no i32.
LEMMA TextLimits ==
    ASSUME Fixed, NEW n, n = 2 ^ (HalfBits - 1)
    PROVE  /\ n \in Nat \ {0} /\ 2 ^ HalfBits = 2 * n
           /\ Len(text) \in 0 .. n - 1
           /\ \A k \in 1 .. Len(text) :
                /\ text[k].off \in -n .. n - 1 /\ text[k].imm \in -n .. n - 1
                /\ text[k].use \in {"imm", "reg"}
                /\ text[k].op \in {"ldx", "st"} => text[k].size \in Sizes
<1> DEFINE h == 2 ^ (2 * ByteBits - 1)
<1>1. n \in Nat \ {0} /\ 2 ^ HalfBits = 2 * n /\ h \in Nat /\ h <= n
  <2>1. /\ HalfBits - 1 \in 0 .. WordBits - 1 /\ HalfBits - 1 + 1 = HalfBits
        /\ HalfBits - 1 \in 0 .. WordBits /\ 2 * ByteBits - 1 \in 0 .. WordBits
        /\ 2 * ByteBits - 1 \in Nat /\ 2 * ByteBits - 1 < HalfBits - 1
    BY Widths
  <2>2. n \in Nat \ {0} /\ 2 ^ HalfBits = 2 * n /\ h \in Nat
    BY <2>1, PowerType, PowerAssumption
  <2>3. 2 * h <= n
    BY <2>1, PowerLess
  <2> HIDE DEF h
  <2> QED
    BY <2>2, <2>3
<1>2. /\ Len(text) \in 0 .. (n - 1) \div 8
      /\ \A k \in 1 .. Len(text) :
            /\ text[k].off \in -h .. h - 1 /\ text[k].imm \in -n .. n - 1
            /\ text[k].use \in {"imm", "reg"}
            /\ text[k].op \in {"ldx", "st"} => text[k].size \in Sizes
  BY TextAssumption DEF Fixed
<1> HIDE DEF h
<1>3. (n - 1) \div 8 \in 0 .. n - 1
  BY <1>1, DividedNat
<1>4. Len(text) \in 0 .. n - 1
  BY <1>1, <1>2, <1>3
<1>5. -h .. h - 1 \subseteq -n .. n - 1
  BY <1>1
<1>6. \A k \in 1 .. Len(text) : text[k].off \in -n .. n - 1
  BY <1>2, <1>5
<1> QED
  BY <1>1, <1>2, <1>4, <1>6

\* Every place in the text, and the one behind it, is a usize.
LEMMA TextFacts ==
    ASSUME Fixed
    PROVE  /\ Len(text) \in Nat /\ 0 .. Len(text) \subseteq Pcs
           /\ Len(text) \in 0 .. 2 ^ HalfBits - 1
           /\ \A k \in 1 .. Len(text) :
                /\ text[k].off \in Int /\ text[k].imm \in Int
                /\ text[k].use \in {"imm", "reg"}
                /\ text[k].op \in {"ldx", "st"} => text[k].size \in Sizes
<1>1. PICK n : n = 2 ^ (HalfBits - 1)
  OBVIOUS
<1>2. /\ n \in Nat \ {0} /\ 2 ^ HalfBits = 2 * n /\ Len(text) \in 0 .. n - 1
      /\ \A k \in 1 .. Len(text) :
            /\ text[k].off \in -n .. n - 1 /\ text[k].imm \in -n .. n - 1
            /\ text[k].use \in {"imm", "reg"}
            /\ text[k].op \in {"ldx", "st"} => text[k].size \in Sizes
  BY <1>1, TextLimits
<1>3. Len(text) \in Nat /\ Len(text) \in 0 .. 2 ^ HalfBits - 1
  BY <1>2
<1>4. 0 .. Len(text) \subseteq Pcs
  BY <1>3, BuildFacts, Powers DEF Pcs
<1> QED
  BY <1>2, <1>3, <1>4

\* What an instruction that has no fault has passed.
LEMMA NoFault ==
    ASSUME NEW i, Fault(i) = "none"
    PROVE  /\ Known(i)
           /\ i.op = "lddw" => ~(pc + 1 >= Len(text))
           /\ SourceUsed(i) => i.src \in Reg
           /\ DestinationUsed(i) => i.dst \in Reg
           /\ ~DividesByZero(i)
           /\ i.op \in {"ldx", "st"} => Resolve(build, AddressOf(i), i.size) = "ok"
           /\ i.op = "call" => ~(Len(call_stack) >= MAX_CALL_DEPTH)
  BY DEF Fault

\* What an instruction that is executed may count on.
LEMMA Here ==
    ASSUME Fixed, pc \in Pcs, NEW ops, Executes(ops)
    PROVE  /\ status = "running" /\ insn.op \in ops /\ Fault(insn) = "none"
           /\ pc \in Nat /\ pc + 1 \in 1 .. Len(text) /\ pc + 1 \in Pcs
           /\ insn.off \in Int /\ insn.imm \in Int /\ insn.use \in {"imm", "reg"}
           /\ insn.op \in {"ldx", "st"} => insn.size \in Sizes
           /\ insn.op = "lddw" => pc + 2 \in 1 .. Len(text) /\ pc + 2 \in Pcs
<1>1. /\ status = "running" /\ pc < Len(text) /\ insn.op \in ops
      /\ Fault(insn) = "none"
  BY DEF Executes, Running
<1>2. pc \in Nat /\ Len(text) \in Nat
  BY TextFacts, BuildFacts DEF Pcs
<1>3. pc + 1 \in 1 .. Len(text) /\ pc + 1 \in Pcs
  BY <1>1, <1>2, TextFacts
<1>4. insn.op = "lddw" => pc + 2 \in 1 .. Len(text) /\ pc + 2 \in Pcs
  <2>1. insn.op = "lddw" => ~(pc + 1 >= Len(text))
    BY <1>1, NoFault
  <2> QED
    BY <1>2, <2>1, TextFacts
<1> QED
  BY <1>1, <1>2, <1>3, <1>4, TextFacts DEF insn

\* The registers an instruction uses hold words.
LEMMA OperandType ==
    ASSUME Fixed, pc \in Pcs, regs \in Regs,
           Executes({"alu64", "alu32", "jump", "st"})
    PROVE  Operand(insn) \in Word
<1>1. insn.use = "reg" => insn.src \in Reg
  BY Here, NoFault DEF SourceUsed
<1>2. insn.use # "imm" => insn.use = "reg"
  BY Here
<1>3. insn.imm \in Int
  BY Here
<1> QED
  BY <1>1, <1>2, <1>3, CastType DEF Operand, Regs

\* An address is a u64, however far the offset reaches.
LEMMA AddressType ==
    ASSUME Fixed, pc \in Pcs, regs \in Regs, Executes({"ldx", "st"})
    PROVE  AddressOf(insn) \in Word
<1> DEFINE start == IF insn.op = "ldx" THEN regs[insn.src] ELSE regs[insn.dst]
<1>1. insn.op = "ldx" => insn.src \in Reg
  BY Here, NoFault DEF SourceUsed
<1>2. insn.dst \in Reg /\ insn.off \in Int
  BY Here, NoFault DEF DestinationUsed
<1>3. start \in Int
  <2>1. \A r \in Reg : regs[r] \in Int
    BY WordInt DEF Regs
  <2> QED
    BY <1>1, <1>2, <2>1
<1>4. start + insn.off \in Int
  BY <1>2, <1>3
<1> QED
  BY <1>4, CastType DEF AddressOf

\* A relative jump ends at a usize, wherever it would have gone.
LEMMA TargetType ==
    ASSUME Fixed, pc \in Pcs, NEW d \in Int
    PROVE  Target(d) \in Pcs
<1>1. pc + 1 + d \in Int /\ 2 ^ build.usize \in Nat \ {0}
  BY BuildFacts DEF Pcs
<1> QED
  BY <1>1 DEF Target, Usize, Pcs

-----------------------------------------------------------------------------
(***************************************************************************)
(* The invariant holds                                                     *)
(***************************************************************************)
\* A step of a running machine, from what it makes of each part.
LEMMA Keeps ==
    ASSUME IInv, status = "running", UNCHANGED fixed, Remember,
           regs' \in Regs, pc' \in Pcs, call_stack' \in Seq(Frame), ReturnPoints',
           mem' \in Memory, return_data' \in Seq(Byte),
           status' \in {"running", "exit", "panic"} \union Errors
    PROVE  IInv'
<1>1. build' = build /\ text' = text /\ input' = input /\ journal' = journal
      /\ tested' = tested
  BY DEF fixed
<1>2. Fixed'
  BY <1>1 DEF IInv, Fixed
<1>3. TypeOK'
  BY <1>1 DEF IInv, TypeOK, Pcs, Memory, Remember
<1>4. ~(build.host = "conformance" /\ tested # NotTested)
  BY DEF IInv, JudgedAtEnd, Errors
<1>5. JudgedAtEnd'
  BY <1>1, <1>4 DEF JudgedAtEnd
<1> QED
  BY <1>2, <1>3, <1>5 DEF IInv

\* A step that leaves the call stack alone leaves its frames what they are.
LEMMA SameStack ==
    ASSUME IInv, UNCHANGED fixed, UNCHANGED call_stack
    PROVE  ReturnPoints' /\ call_stack' \in Seq(Frame)
  BY DEF IInv, ReturnPoints, TypeOK, fixed

\* The types of the parts of the machine.
LEMMA TypeFacts ==
    ASSUME IInv
    PROVE  /\ Fixed /\ regs \in Regs /\ pc \in Pcs /\ call_stack \in Seq(Frame)
           /\ mem \in Memory /\ return_data \in Seq(Byte)
  BY DEF IInv, TypeOK, Pcs, Memory

\* r0 to r3 hold words.
LEMMA RegisterType ==
    ASSUME IInv
    PROVE  /\ regs[0] \in Word
           /\ regs[1] \in Nat /\ regs[2] \in Nat /\ regs[3] \in Nat
<1>1. \A r \in Reg : regs[r] \in Word
  BY TypeFacts DEF Regs
<1>2. 0 \in Reg /\ 1 \in Reg /\ 2 \in Reg /\ 3 \in Reg
  BY DEF Reg
<1> QED
  BY <1>1, <1>2, WordInt

\* A run that stops keeps its machine.
LEMMA StopInv ==
    ASSUME IInv, status = "running", Remember, NEW s \in {"exit", "panic"} \union Errors, Stop(s)
    PROVE  IInv'
<1>1. UNCHANGED <<regs, pc, call_stack, mem, return_data, fixed>> /\ status' = s
  BY DEF Stop
<1> QED
  BY <1>1, TypeFacts, SameStack, Keeps

\* An instruction that sets a register to a word leaves a machine.
LEMMA SetDstInv ==
    ASSUME IInv, status = "running", Remember, NEW value \in Word, NEW next \in Pcs,
           SetDst(value, next)
    PROVE  IInv'
<1>1. /\ UNCHANGED <<call_stack, mem, return_data, status, fixed>> /\ pc' = next
      /\ regs' = [regs EXCEPT ![insn.dst] = value]
  BY DEF SetDst
<1>2. regs' \in Regs
  BY <1>1, TypeFacts DEF Regs
<1> QED
  BY <1>1, <1>2, TypeFacts, SameStack, Keeps

\* A fault is a panic or one of the errors.
LEMMA FaultType ==
    ASSUME NEW i, Fault(i) # "none"
    PROVE  Fault(i) \in {"panic"} \union Errors
  BY DEF Fault, Errors

\* A fault, and a pc outside of the text, end the run.
LEMMA TrapInv ==
    ASSUME IInv, Trap \/ LeaveText, Remember
    PROVE  IInv'
  BY StopInv, FaultType DEF Trap, LeaveText, Running, Errors

\* Arithmetic leaves words.
LEMMA AluInv ==
    ASSUME IInv, ExecAlu, Remember
    PROVE  IInv'
<1>1. CASE /\ Executes({"alu64"})
           /\ SetDst(Alu64(insn.fn, regs[insn.dst], Operand(insn)), pc + 1)
  <2>1. Executes({"alu64"}) /\ Executes({"alu64", "alu32", "jump", "st"})
    BY <1>1 DEF Executes
  <2>2. insn.op = "alu64" /\ Fault(insn) = "none" /\ status = "running" /\ pc + 1 \in Pcs
    BY <2>1, Here, TypeFacts
  <2>3. insn.fn \in Functions64 /\ insn.dst \in Reg /\ ~DividesByZero(insn)
    BY <2>2, NoFault DEF Known, DestinationUsed
  <2>4. Operand(insn) \in Word /\ regs[insn.dst] \in Word
    BY <2>1, <2>3, OperandType, TypeFacts DEF Regs
  <2>5. insn.fn \in {"div", "mod"} => Operand(insn) # 0
    BY <2>2, <2>3 DEF DividesByZero
  <2>6. Alu64(insn.fn, regs[insn.dst], Operand(insn)) \in Word
    BY <2>3, <2>4, <2>5, Alu64Type
  <2> QED
    BY <1>1, <2>2, <2>6, SetDstInv
<1>2. CASE /\ Executes({"alu32"})
           /\ SetDst(Alu32(insn.fn, regs[insn.dst], Operand(insn)), pc + 1)
  <2>1. Executes({"alu32"}) /\ Executes({"alu64", "alu32", "jump", "st"})
    BY <1>2 DEF Executes
  <2>2. insn.op = "alu32" /\ Fault(insn) = "none" /\ status = "running" /\ pc + 1 \in Pcs
    BY <2>1, Here, TypeFacts
  <2>3. insn.fn \in Functions32 /\ insn.dst \in Reg /\ ~DividesByZero(insn)
    BY <2>2, NoFault DEF Known, DestinationUsed
  <2>4. Operand(insn) \in Word /\ regs[insn.dst] \in Word
    BY <2>1, <2>3, OperandType, TypeFacts DEF Regs
  <2>5. insn.fn = "div" => U32(Operand(insn)) # 0
    BY <2>2, <2>3 DEF DividesByZero
  <2>6. Alu32(insn.fn, regs[insn.dst], Operand(insn)) \in Word
    BY <2>3, <2>4, <2>5, Alu32Type
  <2> QED
    BY <1>2, <2>2, <2>6, SetDstInv
<1> QED
  BY <1>1, <1>2 DEF ExecAlu

\* LDDW leaves a word, and has a second slot behind it.
LEMMA LddwInv ==
    ASSUME IInv, ExecLddw, Remember
    PROVE  IInv'
<1>1. Executes({"lddw"}) /\ SetDst(LddwValue(insn, text[pc + 2]), pc + 2)
  BY DEF ExecLddw
<1>2. insn.op = "lddw" /\ insn.imm \in Int /\ status = "running"
      /\ pc + 2 \in 1 .. Len(text) /\ pc + 2 \in Pcs
  BY <1>1, Here, TypeFacts
<1>3. text[pc + 2].imm \in Int
  BY <1>2, TextFacts, TypeFacts
<1>4. LddwValue(insn, text[pc + 2]) \in Word
  BY <1>2, <1>3, LddwType
<1> QED
  BY <1>1, <1>2, <1>4, SetDstInv

\* An access that is executed lies within one region, and so in the memory.
LEMMA AccessFacts ==
    ASSUME Fixed, pc \in Pcs, regs \in Regs, Executes({"ldx", "st"})
    PROVE  /\ \E region \in {Stack, Heap} :
                AddressOf(insn) .. AddressOf(insn) + insn.size - 1 \subseteq Within(region)
           /\ AddressOf(insn) .. AddressOf(insn) + insn.size - 1 \subseteq Mapped
           /\ AddressOf(insn) \in Int /\ insn.size \in Sizes
<1>1. insn.op \in {"ldx", "st"} /\ Fault(insn) = "none" /\ insn.size \in Sizes
  BY Here
<1>2. Resolve(build, AddressOf(insn), insn.size) = "ok"
  BY <1>1, NoFault
<1>3. AddressOf(insn) \in Word
  BY AddressType
<1>4. PICK region \in {Stack, Heap} :
        AddressOf(insn) .. AddressOf(insn) + insn.size - 1 \subseteq Within(region)
  BY <1>1, <1>2, <1>3, BuildFacts, Confined
<1>5. Within(region) \subseteq Mapped
  BY DEF Mapped
<1>6. AddressOf(insn) \in Int
  BY <1>3, WordInt
<1> QED
  BY <1>1, <1>4, <1>5, <1>6

\* A load leaves a word.
LEMMA LoadInv ==
    ASSUME IInv, ExecLoad, Remember
    PROVE  IInv'
<1>1. Executes({"ldx"}) /\ SetDst(Loaded(mem, AddressOf(insn), insn.size), pc + 1)
  BY DEF ExecLoad
<1>2. Executes({"ldx", "st"})
  BY <1>1 DEF Executes
<1>3. status = "running" /\ pc + 1 \in Pcs
  BY <1>2, Here, TypeFacts
<1>4. Loaded(mem, AddressOf(insn), insn.size) \in Word
  BY <1>2, AccessFacts, LoadedType, TypeFacts
<1> QED
  BY <1>1, <1>3, <1>4, SetDstInv

\* A store leaves bytes.
LEMMA StoreInv ==
    ASSUME IInv, ExecStore, Remember
    PROVE  IInv'
<1>1. /\ Executes({"st"}) /\ mem' = Stored(mem, AddressOf(insn), insn.size, Operand(insn))
      /\ pc' = pc + 1 /\ UNCHANGED <<regs, call_stack, return_data, status, fixed>>
  BY DEF ExecStore
<1>2. Executes({"ldx", "st"}) /\ Executes({"alu64", "alu32", "jump", "st"})
  BY <1>1 DEF Executes
<1>3. status = "running" /\ pc + 1 \in Pcs
  BY <1>2, Here, TypeFacts
<1>4. Operand(insn) \in Nat
  BY <1>2, OperandType, TypeFacts, WordInt
<1>5. mem' \in Memory
  BY <1>1, <1>2, <1>4, AccessFacts, StoredType, TypeFacts
<1> QED
  BY <1>1, <1>3, <1>5, TypeFacts, SameStack, Keeps

\* A jump ends at a usize.
LEMMA JumpInv ==
    ASSUME IInv, ExecJump, Remember
    PROVE  IInv'
<1>1. /\ Executes({"jump"}) /\ pc' \in {Target(insn.off), pc + 1}
      /\ UNCHANGED <<regs, call_stack, mem, return_data, status, fixed>>
  BY DEF ExecJump
<1>2. status = "running" /\ pc + 1 \in Pcs /\ insn.off \in Int
  BY <1>1, Here, TypeFacts
<1>3. pc' \in Pcs
  BY <1>1, <1>2, TargetType, TypeFacts
<1> QED
  BY <1>1, <1>2, <1>3, TypeFacts, SameStack, Keeps

\* CALL pushes the place behind itself, which lies in the text, if there is room.
LEMMA CallInv ==
    ASSUME IInv, ExecCall, Remember
    PROVE  IInv'
<1> DEFINE frame == [pc |-> pc + 1, regs |-> regs]
           n == Len(call_stack)
<1>1. /\ Executes({"call"}) /\ call_stack' = Append(call_stack, frame)
      /\ pc' = Target(insn.imm)
      /\ UNCHANGED <<regs, mem, return_data, status, fixed>>
  BY DEF ExecCall
<1>2. /\ status = "running" /\ insn.imm \in Int /\ pc + 1 \in 1 .. Len(text)
      /\ text[pc + 1].op = "call" /\ Fault(insn) = "none" /\ insn.op = "call"
  BY <1>1, Here, TypeFacts DEF insn
<1>3. pc' \in Pcs
  BY <1>1, <1>2, TargetType, TypeFacts
<1>4. frame \in Frame /\ frame.pc = pc + 1
  BY <1>2, TypeFacts DEF Frame
<1>5. n \in Nat /\ n < MAX_CALL_DEPTH /\ MAX_CALL_DEPTH \in Nat
  BY <1>2, NoFault, TypeFacts, BuildFacts
<1> HIDE DEF frame
<1>6. /\ call_stack' \in Seq(Frame) /\ Len(call_stack') = n + 1
      /\ \A k \in 1 .. n : call_stack'[k] = call_stack[k]
      /\ call_stack'[n + 1] = frame
  BY <1>1, <1>4, TypeFacts
<1> HIDE DEF n
<1>7. ReturnPoints'
  <2>1. text' = text
    BY <1>1 DEF fixed
  <2>2. \A k \in 1 .. n : /\ call_stack[k].pc \in 1 .. Len(text)
                          /\ text[call_stack[k].pc].op = "call"
    BY DEF IInv, ReturnPoints, n
  <2>3. \A k \in 1 .. n + 1 : k \in 1 .. n \/ k = n + 1
    BY <1>5
  <2>4. \A k \in 1 .. n + 1 : /\ call_stack'[k].pc \in 1 .. Len(text)
                              /\ text[call_stack'[k].pc].op = "call"
    BY <1>2, <1>4, <1>6, <2>2, <2>3
  <2>5. n + 1 <= MAX_CALL_DEPTH
    BY <1>5
  <2> QED
    BY <1>6, <2>1, <2>4, <2>5 DEF ReturnPoints
<1> QED
  BY <1>1, <1>2, <1>3, <1>6, <1>7, TypeFacts, Keeps

\* EXIT takes the topmost frame away and goes where it says.
LEMMA ExitInv ==
    ASSUME IInv, ExecExit, Remember
    PROVE  IInv'
<1>0. Executes({"exit"}) /\ status = "running"
  BY Here, TypeFacts DEF ExecExit
<1>1. CASE call_stack = <<>>
  BY <1>0, <1>1, StopInv DEF ExecExit
<1>2. CASE call_stack # <<>>
  <2> DEFINE n == Len(call_stack)
  <2>1. call_stack \in Seq(Frame) /\ n \in Nat \ {0}
    BY <1>2, TypeFacts
  <2>2. /\ call_stack' = SubSeq(call_stack, 1, n - 1)
        /\ regs' = [call_stack[n].regs EXCEPT ![0] = regs[0]]
        /\ pc' = call_stack[n].pc /\ UNCHANGED <<mem, return_data, status, fixed>>
    BY <1>2 DEF ExecExit
  <2>3. /\ call_stack' \in Seq(Frame) /\ Len(call_stack') = n - 1
        /\ \A k \in 1 .. n - 1 : call_stack'[k] = call_stack[k]
    <3>1. \A k \in 1 .. n - 1 : call_stack[k] \in Frame
      BY <2>1
    <3>2. /\ SubSeq(call_stack, 1, n - 1) \in Seq(Frame)
          /\ Len(SubSeq(call_stack, 1, n - 1)) = IF 1 <= n - 1 THEN n - 1 - 1 + 1 ELSE 0
          /\ \A k \in 1 .. n - 1 - 1 + 1 :
               SubSeq(call_stack, 1, n - 1)[k] = call_stack[1 + k - 1]
      <4> HIDE DEF n
      <4> QED
        BY <2>1, <3>1, SubSeqProperties
    <3> HIDE DEF n
    <3>3. \A k \in 1 .. n - 1 : k \in 1 .. n - 1 - 1 + 1 /\ 1 + k - 1 = k
      BY <2>1
    <3> QED
      BY <2>1, <2>2, <3>2, <3>3
  <2>4. n <= MAX_CALL_DEPTH /\ MAX_CALL_DEPTH \in Nat /\ text' = text
        /\ \A k \in 1 .. n : /\ call_stack[k].pc \in 1 .. Len(text)
                             /\ text[call_stack[k].pc].op = "call"
    BY <2>2, BuildFacts, TypeFacts DEF IInv, ReturnPoints, fixed
  <2>5. call_stack[n] \in Frame /\ call_stack[n].pc \in 1 .. Len(text)
    BY <2>1, <2>4
  <2> HIDE DEF n
  <2>6. pc' \in Pcs
    <3>1. 1 .. Len(text) \subseteq Pcs
      BY TextFacts, TypeFacts
    <3> QED
      BY <2>2, <2>5, <3>1
  <2>7. regs' \in Regs
    BY <2>2, <2>5, TypeFacts DEF Frame, Regs, Reg
  <2>8. ReturnPoints'
    <3>1. \A k \in 1 .. n - 1 : k \in 1 .. n
      BY <2>1
    <3>2. n - 1 <= MAX_CALL_DEPTH
      BY <2>1, <2>4
    <3> QED
      BY <2>3, <2>4, <3>1, <3>2 DEF ReturnPoints
  <2> QED
    BY <1>0, <2>2, <2>3, <2>6, <2>7, <2>8, TypeFacts, Keeps
<1> QED
  BY <1>1, <1>2

\* A syscall leaves a memory, and hands back bytes.
LEMMA SyscallInv ==
    ASSUME IInv, ExecSyscall, Remember
    PROVE  IInv'
<1>1. /\ Executes({"syscall"})
      /\ mem' = AfterSyscall(insn.fn, mem, regs[1], regs[2], regs[3])
      /\ return_data' =
           IF insn.fn = "set_return_data"
           THEN [k \in 1 .. Usize(build, regs[2]) |-> ByteAt(mem, regs[1] + k - 1)]
           ELSE return_data
      /\ regs' = IF insn.fn \in Syscalls THEN [regs EXCEPT ![0] = 0] ELSE regs
      /\ pc' = pc + 1 /\ UNCHANGED <<call_stack, status, fixed>>
  BY DEF ExecSyscall
<1>2. status = "running" /\ pc + 1 \in Pcs
  BY <1>1, Here, TypeFacts
<1>3. regs[1] \in Nat /\ regs[2] \in Nat /\ regs[3] \in Nat /\ mem \in Memory
  BY TypeFacts, RegisterType
<1>4. regs' \in Regs
  BY <1>1, TypeFacts, WordInt DEF Regs
<1>5. mem' \in Memory
  <2>1. U8(regs[2]) \in Byte
    BY <1>3, ByteType
  <2>2. /\ CopyForward(mem, regs[1], regs[2], regs[3]) \in Memory
        /\ CopyBuffered(mem, regs[1], regs[2], regs[3]) \in Memory
        /\ Filled(mem, regs[1], regs[3], U8(regs[2])) \in Memory
    BY <1>3, <2>1, CopyForwardType, CopyBufferedType, FilledType
  <2>3. build.host \in {"conformance", "guest"}
    BY BuildFacts, TypeFacts
  <2> QED
    BY <1>1, <1>3, <2>2, <2>3 DEF AfterSyscall
<1>6. return_data' \in Seq(Byte)
  <2>1. CASE insn.fn = "set_return_data"
    <3> DEFINE n == Usize(build, regs[2])
    <3>1. n \in Nat
      BY <1>3, BuildFacts, TypeFacts DEF Usize
    <3>2. \A k \in 1 .. n : ByteAt(mem, regs[1] + k - 1) \in Byte
      BY <1>3, ByteAtType
    <3>3. return_data' = [k \in 1 .. n |-> ByteAt(mem, regs[1] + k - 1)]
      BY <1>1, <2>1
    <3> HIDE DEF n
    <3> QED
      BY <3>1, <3>2, <3>3, IsASeq
  <2>2. CASE insn.fn # "set_return_data"
    BY <1>1, <2>2, TypeFacts
  <2> QED
    BY <2>1, <2>2
<1> QED
  BY <1>1, <1>2, <1>4, <1>5, <1>6, SameStack, TypeFacts, Keeps

\* The start of a run: the input is in place, and nothing else is.
LEMMA StartType ==
    ASSUME NEW in \in Word \X Word
    PROVE  StartRegs \in Regs /\ LoadedMemory(in) \in Memory
<1> DEFINE M == 2 ^ WordBits
<1>1. /\ HeapBase \in Nat /\ StackBase + StackLen \in Nat /\ HeapLen \in Nat
      /\ StackBase + StackLen <= HeapBase /\ HeapBase + HeapLen + 8 <= M
      /\ M \in Nat
  BY MemoryAssumption, Powers
<1>2. StartRegs \in Regs
  <2> HIDE DEF M
  <2>1. HeapBase \in 0 .. M - 1 /\ StackBase + StackLen \in 0 .. M - 1 /\ 0 \in 0 .. M - 1
    BY <1>1
  <2> QED
    BY <2>1 DEF StartRegs, Regs, Word, M
<1>3. \A v \in Nat : \A k \in 0 .. 7 : Bytes(v)[k] \in Byte
  <2> SUFFICES ASSUME NEW v \in Nat, NEW k \in 0 .. 7 PROVE Bytes(v)[k] \in Byte
    OBVIOUS
  <2> DEFINE p == 2 ^ (ByteBits * k)
  <2>1. p \in Nat \ {0}
    BY BytePlaces
  <2>2. Bytes(v)[k] = U8(v \div p)
    BY DEF Bytes
  <2> HIDE DEF p
  <2>3. v \div p \in Int
    BY <2>1, Divided
  <2> QED
    BY <2>2, <2>3, ByteType
<1>4. 0 \in Byte
  BY Powers DEF Byte
<1>5. in[1] \in Nat /\ in[2] \in Nat
  BY WordInt
<1>6. ASSUME NEW k \in DOMAIN Buffer(in) PROVE Buffer(in)[k] \in Byte
  <2>1. k \in 0 .. InputLen - 1 /\ k \in Int
    BY <1>6 DEF Buffer, InputLen
  <2>2. Buffer(in)[k] = CASE k \in 8 .. 15 -> Bytes(16)[k - 8]
                          [] k \in 16 .. 23 -> Bytes(in[1])[k - 16]
                          [] k \in 24 .. 31 -> Bytes(in[2])[k - 24]
                          [] OTHER -> 0
    BY <2>1 DEF Buffer
  <2>3. CASE k \in 8 .. 15
    BY <1>3, <2>1, <2>2, <2>3
  <2>4. CASE k \in 16 .. 23
    BY <1>3, <1>5, <2>1, <2>2, <2>4
  <2>5. CASE k \in 24 .. 31
    BY <1>3, <1>5, <2>1, <2>2, <2>5
  <2>6. CASE k \notin 8 .. 15 /\ k \notin 16 .. 23 /\ k \notin 24 .. 31
    BY <1>4, <2>2, <2>6
  <2> QED
    BY <2>3, <2>4, <2>5, <2>6
<1>7. Stored([a \in Mapped |-> 0], HeapBase, 8, HeapBase + 8) \in Memory
  <2>1. [a \in Mapped |-> 0] \in Memory
    BY <1>4 DEF Memory
  <2>2. HeapBase + 8 \in Nat /\ HeapBase \in Int /\ 8 \in Sizes
    BY <1>1 DEF Sizes
  <2> QED
    BY <2>1, <2>2, StoredType
<1>8. LoadedMemory(in) \in Memory
  BY <1>6, <1>7 DEF LoadedMemory, Memory
<1> QED
  BY <1>2, <1>8

\* A run starts at the top, with an empty stack.
LEMMA StartInv ==
    ASSUME Fixed', regs' = StartRegs, pc' = 0, call_stack' = <<>>,
           mem' = LoadedMemory(input'), return_data' = <<>>, status' = "running",
           journal' = NoJournal \/ journal' \in [r0 : Word, success : BOOLEAN],
           tested' = NotTested \/ tested' \in [passed : BOOLEAN, r0 : Word],
           build'.host = "conformance" => tested' = NotTested,
           overlapped' \in BOOLEAN
    PROVE  IInv'
<1>1. /\ 2 ^ build'.usize \in Nat \ {0} /\ MAX_CALL_DEPTH \in Nat
  <2>1. build' \in [host : {"conformance", "guest"}, usize : {HalfBits, WordBits},
                   checks : BOOLEAN, vec : Nat]
        /\ MAX_CALL_DEPTH \in Nat
    BY VmAssumption DEF Fixed
  <2> QED
    BY <2>1, Powers
<1>2. input' \in Word \X Word
  BY VmAssumption DEF Fixed
<1>3. regs' \in Regs /\ mem' \in Memory
  BY <1>2, StartType
<1>4. call_stack' \in Seq(Frame) /\ Len(call_stack') = 0 /\ return_data' \in Seq(Byte)
  OBVIOUS
<1>5. TypeOK'
  BY <1>1, <1>3, <1>4 DEF TypeOK, Memory
<1>6. ReturnPoints' /\ JudgedAtEnd'
  BY <1>1, <1>4 DEF ReturnPoints, JudgedAtEnd
<1> QED
  BY <1>5, <1>6 DEF IInv

\* The machine of Vm::new satisfies the invariant.
LEMMA InitInv == Init => IInv
<1> SUFFICES ASSUME Init PROVE IInv
  OBVIOUS
<1>1. Fixed
  BY DEF Init, Fixed
<1>2. input \in Word \X Word
  BY <1>1, VmAssumption DEF Fixed
<1>3. regs \in Regs /\ mem \in Memory
  BY <1>2, StartType DEF Init
<1>4. call_stack \in Seq(Frame) /\ Len(call_stack) = 0 /\ return_data \in Seq(Byte)
  BY DEF Init
<1>5. TypeOK
  <2>1. pc \in 0 .. 2 ^ build.usize - 1
    BY <1>1, BuildFacts DEF Init
  <2> QED
    BY <1>3, <1>4, <2>1 DEF TypeOK, Memory, Init
<1>6. ReturnPoints /\ JudgedAtEnd
  BY <1>1, <1>4, BuildFacts DEF ReturnPoints, JudgedAtEnd, Init
<1> QED
  BY <1>1, <1>5, <1>6 DEF IInv

\* Commit and Judge leave the machine as it is, and take what it has in r0.
LEMMA ResultInv ==
    ASSUME IInv, ((Commit \/ Judge) /\ Remember) \/ UNCHANGED vars
    PROVE  IInv'
<1>1. /\ UNCHANGED <<regs, pc, call_stack, mem, return_data, status>>
      /\ UNCHANGED <<build, text, input>>
  BY DEF Commit, Judge, vars, machine, fixed
<1>2. Fixed' /\ ReturnPoints' /\ overlapped' \in BOOLEAN
  BY <1>1 DEF IInv, TypeOK, Fixed, ReturnPoints, Remember, vars
<1>3. regs[0] \in Word /\ 2 ^ WordBits - 1 \in Word
  BY RegisterType, Powers DEF Word
<1>4. CASE Commit
  <2>1. journal' \in [r0 : Word, success : BOOLEAN] /\ tested' = tested
    BY <1>3, <1>4 DEF Commit
  <2> QED
    BY <1>1, <1>2, <2>1 DEF IInv, TypeOK, JudgedAtEnd
<1>5. CASE Judge
  <2>1. /\ tested' \in [passed : BOOLEAN, r0 : Word] /\ journal' = journal
        /\ status \in Errors \union {"exit"}
    BY <1>3, <1>5 DEF Judge
  <2> QED
    BY <1>1, <1>2, <2>1 DEF IInv, TypeOK, JudgedAtEnd
<1>6. CASE UNCHANGED vars
  BY <1>1, <1>2, <1>6 DEF IInv, TypeOK, JudgedAtEnd, vars, fixed
<1> QED
  BY <1>4, <1>5, <1>6

\* So does the one prove_predicate starts.
LEMMA StartProofInv ==
    ASSUME IInv, StartProof, Remember
    PROVE  IInv'
<1>1. /\ build' \in Builds /\ build'.host = "guest"
      /\ UNCHANGED <<text, input, journal, tested>>
      /\ regs' = StartRegs /\ pc' = 0 /\ call_stack' = <<>>
      /\ mem' = LoadedMemory(input') /\ return_data' = <<>> /\ status' = "running"
  BY DEF StartProof
<1>2. Fixed'
  BY <1>1 DEF IInv, Fixed
<1>3. /\ journal' = NoJournal \/ journal' \in [r0 : Word, success : BOOLEAN]
      /\ tested' = NotTested \/ tested' \in [passed : BOOLEAN, r0 : Word]
      /\ overlapped' \in BOOLEAN
  BY <1>1 DEF IInv, TypeOK, Remember
<1>4. ~(build'.host = "conformance")
  BY <1>1
<1> QED
  BY <1>1, <1>2, <1>3, <1>4, StartInv

\* Whatever the machine and its hosts do next.
LEMMA StepInv == IInv /\ [Next]_vars => IInv'
  BY TrapInv, AluInv, LddwInv, LoadInv, StoreInv, JumpInv, CallInv, ExitInv,
     SyscallInv, ResultInv, StartProofInv DEF Next, Step

\* The call stack keeps its limit, and EXIT goes behind a CALL, in every program:
\* also in one that jumps into the second slot of an LDDW or into the middle of a
\* function.
THEOREM Returns == Spec => []ReturnPoints
<1>1. IInv => ReturnPoints
  BY DEF IInv
<1> QED
  BY <1>1, InitInv, StepInv, PTL DEF Spec

\* Every register is a u64, every byte a u8 and the pc a usize of the build that
\* runs, whatever an instruction computes: no arithmetic of the interpreter leaves
\* the width of its type.
THEOREM Typed == Spec => []TypeOK
<1>1. IInv => TypeOK
  BY DEF IInv
<1> QED
  BY <1>1, InitInv, StepInv, PTL DEF Spec

\* The raw pointers of read_uN and write_uN stay within one region, to the last
\* byte of the access, in every program and at every address it computes.
THEOREM Memories == Spec => []MemoryConfined
<1>1. IInv => MemoryConfined
  <2> SUFFICES ASSUME IInv, Executes({"ldx", "st"})
               PROVE  \E region \in {Stack, Heap} : AddressOf(insn) ..
                        AddressOf(insn) + insn.size - 1 \subseteq Within(region)
    BY DEF MemoryConfined
  <2> QED
    BY AccessFacts, TypeFacts
<1> QED
  BY <1>1, InitInv, StepInv, PTL DEF Spec

\* What write_uN has put somewhere is what read_uN of that width finds there, and
\* no other byte has changed.
THEOREM Stores == Spec => StoreReadsBack
<1> DEFINE A == Executes({"st"}) /\ status' = "running" =>
        LET addr == AddressOf(insn) IN
        /\ Loaded(mem', addr, insn.size)
             = Operand(insn) % 2 ^ (ByteBits * insn.size)
        /\ \A a \in Mapped : mem'[a] # mem[a] => a \in addr .. addr + insn.size - 1
<1>1. IInv /\ [Next]_vars => [A]_vars
  <2> SUFFICES ASSUME IInv, Next, Executes({"st"}), status' = "running" PROVE A
    OBVIOUS
  <2>1. insn.op = "st" /\ status = "running" /\ Fault(insn) = "none" /\ ~(pc >= Len(text))
    <3>1. pc \in Nat /\ pc + 1 \in 1 .. Len(text) /\ Len(text) \in Nat
      BY Here, TypeFacts, TextFacts
    <3> QED
      BY <3>1, Here, TypeFacts
  <2>2. ~(build.host = "conformance" /\ tested # NotTested)
    BY <2>1 DEF IInv, JudgedAtEnd, Errors
  <2>3. ExecStore
    BY <2>1, <2>2 DEF Next, Step, Trap, LeaveText, ExecAlu, ExecLddw, ExecLoad,
          ExecJump, ExecCall, ExecExit, ExecSyscall, Executes, Commit, Judge,
          StartProof, Errors
  <2>4. Executes({"ldx", "st"}) /\ Executes({"alu64", "alu32", "jump", "st"})
    BY DEF Executes
  <2>5. mem' = Stored(mem, AddressOf(insn), insn.size, Operand(insn))
    BY <2>3 DEF ExecStore
  <2>6. /\ AddressOf(insn) \in Int /\ insn.size \in Sizes /\ mem \in Memory
        /\ AddressOf(insn) .. AddressOf(insn) + insn.size - 1 \subseteq Mapped
        /\ Operand(insn) \in Nat
    BY <2>4, AccessFacts, OperandType, TypeFacts, WordInt
  <2> QED
    BY <2>5, <2>6, ReadsBack, StoredType
<1> QED
  BY <1>1, InitInv, StepInv, PTL DEF Spec, StoreReadsBack

\* The syscalls of the two hosts do the same, unless a memcpy overlaps upwards.
THEOREM Hosts == Spec => []HostsAgree
<1>1. IInv => HostsAgree
  <2> SUFFICES ASSUME IInv, ~OverlapsUpwards
               PROVE  CopyForward(mem, regs[1], regs[2], regs[3])
                        = CopyBuffered(mem, regs[1], regs[2], regs[3])
    BY DEF HostsAgree
  <2>0. regs[1] \notin regs[2] + 1 .. regs[2] + regs[3] - 1
    BY DEF OverlapsUpwards
  <2>1. regs[1] \in Nat /\ regs[2] \in Nat /\ regs[3] \in Nat /\ mem \in Memory
    BY TypeFacts, RegisterType
  <2> QED
    BY <2>0, <2>1, CopiesAgree
<1> QED
  BY <1>1, InitInv, StepInv, PTL DEF Spec

\* A jump that is taken, and a call, go where their distance says if that is in the
\* program, and otherwise leave it, in every build, also to before the start.
THEOREM Lands == Spec => JumpsLand
<1> DEFINE A == Executes({"jump", "call"}) /\ status' = "running" =>
        IF pc + 1 + Distance \in 0 .. Len(text) - 1
        THEN pc' = pc + 1 + Distance
        ELSE pc' >= Len(text)
<1>1. IInv /\ [Next]_vars => [A]_vars
  <2> SUFFICES ASSUME IInv, Next, Executes({"jump", "call"}), status' = "running"
               PROVE  A
    OBVIOUS
  <2>1. /\ insn.op \in {"jump", "call"} /\ status = "running" /\ Fault(insn) = "none"
        /\ ~(pc >= Len(text))
    <3>1. pc \in Nat /\ pc + 1 \in 1 .. Len(text) /\ Len(text) \in Nat
      BY Here, TypeFacts, TextFacts
    <3> QED
      BY <3>1, Here, TypeFacts
  <2>2. ~(build.host = "conformance" /\ tested # NotTested)
    BY <2>1 DEF IInv, JudgedAtEnd, Errors
  <2>3. ExecJump \/ ExecCall
    BY <2>1, <2>2 DEF Next, Step, Trap, LeaveText, ExecAlu, ExecLddw, ExecLoad,
          ExecStore, ExecExit, ExecSyscall, Executes, Commit, Judge, StartProof, Errors
  <2>4. PICK n : n = 2 ^ (HalfBits - 1)
    OBVIOUS
  <2>5. pc \in Nat /\ pc + 1 \in 1 .. Len(text)
    BY Here, TypeFacts
  <2>6. /\ n \in Nat \ {0} /\ 2 ^ HalfBits = 2 * n /\ Len(text) \in 0 .. n - 1
        /\ insn.off \in -n .. n - 1 /\ insn.imm \in -n .. n - 1
    BY <2>4, <2>5, TextLimits, TypeFacts DEF insn
  <2> DEFINE N == 2 ^ build.usize
  <2>7. N \in Nat \ {0} /\ 2 * n <= N
    BY <2>6, BuildFacts, TypeFacts
  <2>8. ASSUME NEW d \in -n .. n - 1
        PROVE  IF pc + 1 + d \in 0 .. Len(text) - 1
               THEN Target(d) = pc + 1 + d ELSE Target(d) >= Len(text)
    <3> DEFINE x == pc + 1 + d
    <3>1. Target(d) = x % N
      BY DEF Target, Usize
    <3>2. x \in Int /\ x < 2 * n /\ x >= 1 - n
      BY <2>5, <2>6
    <3> HIDE DEF x, N
    <3>3. CASE x >= 0
      <4>1. x \in 0 .. N - 1
        BY <2>6, <2>7, <3>2, <3>3
      <4>2. x % N = x
        BY <2>7, <4>1
      <4> QED
        BY <2>6, <3>1, <3>2, <3>3, <4>2 DEF x
    <3>4. CASE x < 0
      <4>1. x + N \in 0 .. N - 1 /\ x = (-1) * N + (x + N)
        BY <2>6, <2>7, <3>2, <3>4
      <4>2. ((-1) * N + (x + N)) % N = x + N
        BY <2>7, <4>1, Remainder
      <4>3. Target(d) = x + N /\ x + N >= Len(text)
        BY <2>6, <2>7, <3>1, <3>2, <4>1, <4>2
      <4> QED
        BY <2>6, <3>4, <4>3 DEF x
    <3> QED
      BY <3>2, <3>3, <3>4
  <2> HIDE DEF N
  <2>9. CASE ExecCall
    <3>1. insn.op = "call" /\ pc' = Target(insn.imm)
      BY <2>9 DEF ExecCall, Executes
    <3> QED
      BY <2>6, <2>8, <3>1 DEF Distance
  <2>10. CASE ExecJump
    <3>1. insn.op = "jump"
      BY <2>10 DEF ExecJump, Executes
    <3>2. CASE insn.fn = "always" \/ Taken(insn.fn, regs[insn.dst], Operand(insn))
      <4>1. pc' = Target(insn.off) /\ Distance = insn.off
        BY <2>10, <3>1, <3>2 DEF ExecJump, Distance
      <4> QED
        BY <2>6, <2>8, <4>1
    <3>3. CASE ~(insn.fn = "always" \/ Taken(insn.fn, regs[insn.dst], Operand(insn)))
      <4>1. pc' = pc + 1 /\ Distance = 0
        BY <2>10, <3>1, <3>3 DEF ExecJump, Distance
      <4> QED
        BY <2>5, <2>6, <4>1
    <3> QED
      BY <3>2, <3>3
  <2> QED
    BY <2>3, <2>9, <2>10
<1> QED
  BY <1>1, InitInv, StepInv, PTL DEF Spec, JumpsLand

\* A number and its negative add up to nothing, and the two signed 32-bit operations
\* leave an i32 widened to 64 bits, at the smallest numbers too.
THEOREM Signs == Spec => SignsWiden
<1> DEFINE A == Executes({"alu64", "alu32"}) /\ status' = "running" =>
        LET result == regs'[insn.dst]
            bits   == IF insn.op = "alu64" THEN WordBits ELSE HalfBits
        IN /\ insn.fn = "neg" => (regs[insn.dst] + result) % 2 ^ bits = 0
           /\ insn.op = "alu32" /\ insn.fn \in {"neg", "arsh"} =>
                result = U64(I32(result))
<1>1. IInv /\ [Next]_vars => [A]_vars
  <2> SUFFICES ASSUME IInv, Next, Executes({"alu64", "alu32"}), status' = "running"
               PROVE  A
    OBVIOUS
  <2>1. /\ insn.op \in {"alu64", "alu32"} /\ status = "running"
        /\ Fault(insn) = "none" /\ ~(pc >= Len(text))
    <3>1. pc \in Nat /\ pc + 1 \in 1 .. Len(text) /\ Len(text) \in Nat
      BY Here, TypeFacts, TextFacts
    <3> QED
      BY <3>1, Here, TypeFacts
  <2>2. ~(build.host = "conformance" /\ tested # NotTested)
    BY <2>1 DEF IInv, JudgedAtEnd, Errors
  <2>3. ExecAlu
    BY <2>1, <2>2 DEF Next, Step, Trap, LeaveText, ExecLddw, ExecLoad, ExecStore,
          ExecJump, ExecCall, ExecExit, ExecSyscall, Executes, Commit, Judge,
          StartProof, Errors
  <2> DEFINE a == regs[insn.dst]
             b == Operand(insn)
  <2>4. insn.dst \in Reg /\ a \in Word /\ a \in Int /\ b \in Word /\ b \in Nat
    <3>1. insn.dst \in Reg
      BY <2>1, NoFault DEF DestinationUsed
    <3>2. Executes({"alu64", "alu32", "jump", "st"})
      BY DEF Executes
    <3> QED
      BY <3>1, <3>2, OperandType, TypeFacts, WordInt DEF Regs
  <2>5. regs \in Regs
    BY TypeFacts
  <2> HIDE DEF a, b
  <2>6. CASE insn.op = "alu64"
    <3>1. regs' = [regs EXCEPT ![insn.dst] = Alu64(insn.fn, a, b)]
      BY <2>3, <2>6 DEF ExecAlu, Executes, SetDst, a, b
    <3>2. regs'[insn.dst] = Alu64(insn.fn, a, b)
      BY <2>4, <2>5, <3>1 DEF Regs
    <3>3. insn.fn = "neg" => (a + regs'[insn.dst]) % 2 ^ WordBits = 0
      BY <2>4, <3>2, NegSum DEF Alu64
    <3> QED
      BY <2>6, <3>3 DEF a
  <2>7. CASE insn.op = "alu32"
    <3>1. regs' = [regs EXCEPT ![insn.dst] = Alu32(insn.fn, a, b)]
      BY <2>3, <2>7 DEF ExecAlu, Executes, SetDst, a, b
    <3>2. regs'[insn.dst] = Alu32(insn.fn, a, b)
      BY <2>4, <2>5, <3>1 DEF Regs
    <3>3. insn.fn = "neg" => (a + regs'[insn.dst]) % 2 ^ HalfBits = 0
      BY <2>4, <3>2, NegSum DEF Alu32
    <3>4. PICK n : n = 2 ^ (HalfBits - 1)
      OBVIOUS
    <3>5. n \in Nat \ {0} /\ I32(a) \in -n .. n - 1 /\ -I32(a) \in Int
      BY <2>4, <3>4, SignedHalf, CastType
    <3>6. CASE insn.fn = "neg"
      <4>1. I32(-I32(a)) \in -n .. n - 1
        BY <3>4, <3>5, SignedHalf
      <4>2. I32(U64(I32(-I32(a)))) = I32(-I32(a))
        BY <3>4, <4>1, WidenedBack
      <4>3. regs'[insn.dst] = U64(I32(-I32(a)))
        BY <3>2, <3>6 DEF Alu32
      <4>4. regs'[insn.dst] = U64(I32(regs'[insn.dst]))
        BY <4>2, <4>3
      <4> QED
        BY <2>7, <3>3, <3>6, <4>4 DEF a
    <3>7. CASE insn.fn = "arsh"
      <4> DEFINE p == 2 ^ (b % HalfBits)
                 y == I32(a) \div p
      <4>1. p \in Nat \ {0}
        <5>1. b % HalfBits \in 0 .. WordBits
          BY <2>4, Widths
        <5> QED
          BY <5>1, PowerType
      <4>2. regs'[insn.dst] = U64(y)
        BY <3>2, <3>7 DEF Alu32
      <4> HIDE DEF p
      <4>3. y \in -n .. n - 1
        BY <3>5, <4>1, QuotientHalf
      <4> HIDE DEF y
      <4>4. I32(U64(y)) = y
        BY <3>4, <4>3, WidenedBack
      <4>5. regs'[insn.dst] = U64(I32(regs'[insn.dst]))
        BY <4>2, <4>4
      <4> QED
        BY <2>7, <3>7, <4>5
    <3>8. CASE insn.fn \notin {"neg", "arsh"}
      BY <2>7, <3>8
    <3> QED
      BY <3>6, <3>7, <3>8
  <2> QED
    BY <2>1, <2>6, <2>7
<1> QED
  BY <1>1, InitInv, StepInv, PTL DEF Spec, SignsWiden

-----------------------------------------------------------------------------
(***************************************************************************)
(* The machine as a value, and what one instruction makes of it            *)
(***************************************************************************)
Made(r, p, s, m) == [regs |-> r, pc |-> p, call_stack |-> s, mem |-> m]
Machine == Made(regs, pc, call_stack, mem)
Ready(in) == Made(StartRegs, 0, <<>>, LoadedMemory(in))

OperandAt(m, i) == IF i.use = "imm" THEN U64(i.imm) ELSE m.regs[i.src]
AddressAt(m, i) ==
    U64((IF i.op = "ldx" THEN m.regs[i.src] ELSE m.regs[i.dst]) + i.off)
TargetAt(b, m, d) == Usize(b, m.pc + 1 + d)
RangesAt(b, m, i) ==
    CASE i.fn \in {"memcpy", "memmove"} ->
           {<<m.regs[1], m.regs[3]>>, <<m.regs[2], m.regs[3]>>}
      [] i.fn = "memset" -> {<<m.regs[1], m.regs[3]>>}
      [] i.fn = "set_return_data" -> {<<m.regs[1], Usize(b, m.regs[2])>>}
      [] OTHER -> {}
CollectedAt(b, m, i) ==
    CASE i.fn = "memmove" \/ (i.fn = "memcpy" /\ b.host = "conformance") -> m.regs[3]
      [] i.fn = "set_return_data" -> Usize(b, m.regs[2])
      [] OTHER -> 0
InsnAt(t, m) == t[m.pc + 1]

\* In build b, instruction i of text t has no fault in machine m: it passes the
\* checks, and the Vec it may need is there.
Checks(b, t, m, i) ==
    /\ Known(i)
    /\ ~(i.op = "lddw" /\ m.pc + 1 >= Len(t))
    /\ SourceUsed(i) => i.src \in Reg
    /\ ~ /\ i.fn \in {"div", "mod"}
         /\ \/ i.op = "alu64" /\ OperandAt(m, i) = 0
            \/ i.op = "alu32" /\ U32(OperandAt(m, i)) = 0
    /\ i.op \in {"ldx", "st"} => Resolve(b, AddressAt(m, i), i.size) = "ok"
    /\ DestinationUsed(i) => i.dst \in Reg
    /\ ~(i.fn = "neg" /\ b.checks /\ NegOverflows(i.op, m.regs[i.dst]))
    /\ ~(i.op = "call" /\ Len(m.call_stack) >= MAX_CALL_DEPTH)
    /\ i.op = "syscall" => \A r \in RangesAt(b, m, i) : ~RangePanics(r[1], r[2])
Fits(b, m, i) == ~(i.op = "syscall" /\ CollectedAt(b, m, i) > b.vec)
Passes(b, t, m, i) == Checks(b, t, m, i) /\ Fits(b, m, i)

\* What a machine is after an instruction that sets a register, and after
\* instruction i, but for an EXIT with an empty stack.
WithDst(m, i, value, next) ==
    Made([m.regs EXCEPT ![i.dst] = value], next, m.call_stack, m.mem)

Copied(b, m, fn) ==
    CASE fn = "memcpy" /\ b.host = "guest" ->
           CopyForward(m.mem, m.regs[1], m.regs[2], m.regs[3])
      [] fn = "memcpy" /\ b.host = "conformance" ->
           CopyBuffered(m.mem, m.regs[1], m.regs[2], m.regs[3])
      [] fn = "memmove" -> CopyBuffered(m.mem, m.regs[1], m.regs[2], m.regs[3])
      [] fn = "memset" -> Filled(m.mem, m.regs[1], m.regs[3], U8(m.regs[2]))
      [] OTHER -> m.mem

Returned(m, frame) ==
    Made([frame.regs EXCEPT ![0] = m.regs[0]], frame.pc,
         SubSeq(m.call_stack, 1, Len(m.call_stack) - 1), m.mem)

After(b, t, m, i) ==
    CASE i.op = "alu64" ->
           WithDst(m, i, Alu64(i.fn, m.regs[i.dst], OperandAt(m, i)), m.pc + 1)
      [] i.op = "alu32" ->
           WithDst(m, i, Alu32(i.fn, m.regs[i.dst], OperandAt(m, i)), m.pc + 1)
      [] i.op = "lddw" -> WithDst(m, i, LddwValue(i, t[m.pc + 2]), m.pc + 2)
      [] i.op = "ldx" -> WithDst(m, i, Loaded(m.mem, AddressAt(m, i), i.size), m.pc + 1)
      [] i.op = "st" ->
           Made(m.regs, m.pc + 1, m.call_stack,
                Stored(m.mem, AddressAt(m, i), i.size, OperandAt(m, i)))
      [] i.op = "jump" ->
           Made(m.regs, IF i.fn = "always" \/ Taken(i.fn, m.regs[i.dst], OperandAt(m, i))
                        THEN TargetAt(b, m, i.off) ELSE m.pc + 1, m.call_stack, m.mem)
      [] i.op = "call" ->
           Made(m.regs, TargetAt(b, m, i.imm),
                Append(m.call_stack, [pc |-> m.pc + 1, regs |-> m.regs]), m.mem)
      [] i.op = "exit" -> Returned(m, m.call_stack[Len(m.call_stack)])
      [] i.op = "syscall" ->
           Made(IF i.fn \in Syscalls THEN [m.regs EXCEPT ![0] = 0] ELSE m.regs,
                m.pc + 1, m.call_stack, Copied(b, m, i.fn))

\* The parts of the machine as a value.
LEMMA MachineParts ==
    /\ Machine.regs = regs /\ Machine.pc = pc /\ Machine.call_stack = call_stack
    /\ Machine.mem = mem /\ InsnAt(text, Machine) = insn
  BY DEF Machine, Made, InsnAt, insn

\* The checks of an instruction are those on the machine as a value; if only the
\* Vec is not there, it panics.
LEMMA FaultFree ==
    ASSUME NEW i
    PROVE  /\ Fault(i) = "none" <=> Passes(build, text, Machine, i)
           /\ TooLong(i) <=> ~Fits(build, Machine, i)
           /\ Checks(build, text, Machine, i) /\ TooLong(i) => Fault(i) = "panic"
<1>1. /\ Machine.regs = regs /\ Machine.pc = pc /\ Machine.call_stack = call_stack
      /\ Machine.mem = mem
  BY MachineParts
<1>2. /\ Operand(i) = OperandAt(Machine, i) /\ AddressOf(i) = AddressAt(Machine, i)
      /\ Ranges(i) = RangesAt(build, Machine, i)
      /\ Collected(i) = CollectedAt(build, Machine, i)
  BY <1>1 DEF Operand, OperandAt, AddressOf, AddressAt, Ranges, RangesAt,
              Collected, CollectedAt
<1>3. DividesByZero(i) <=> /\ i.fn \in {"div", "mod"}
                           /\ \/ i.op = "alu64" /\ OperandAt(Machine, i) = 0
                              \/ i.op = "alu32" /\ U32(OperandAt(Machine, i)) = 0
  BY <1>2 DEF DividesByZero
<1>4. TooLong(i) <=> ~Fits(build, Machine, i)
  BY <1>2 DEF TooLong, Fits
<1>5. Fault(i) = "none" <=> Passes(build, text, Machine, i)
  BY <1>1, <1>2, <1>3, <1>4 DEF Fault, Passes, Checks
<1>6. Checks(build, text, Machine, i) /\ TooLong(i) => Fault(i) = "panic"
  BY <1>1, <1>2, <1>3 DEF Fault, Checks
<1> QED
  BY <1>4, <1>5, <1>6

\* An instruction that goes on makes of the machine what After says.
Advances ==
    /\ pc < Len(text) /\ Passes(build, text, Machine, insn)
    /\ ~(insn.op = "exit" /\ call_stack = <<>>)
    /\ Machine' = After(build, text, Machine, insn)

\* A step that goes on executes the instruction at the pc as After says.
LEMMA ExecutesAfter ==
    ASSUME IInv, Step, status = "running", status' = "running"
    PROVE  Advances
<1>1. \A ops : Executes(ops) =>
         pc < Len(text) /\ Passes(build, text, Machine, insn) /\ insn.op \in ops
  BY FaultFree DEF Executes, Running
<1>2. /\ Machine.regs = regs /\ Machine.pc = pc /\ Machine.call_stack = call_stack
      /\ Machine.mem = mem
  BY MachineParts
<1>3. /\ Operand(insn) = OperandAt(Machine, insn)
      /\ AddressOf(insn) = AddressAt(Machine, insn)
      /\ \A d : Target(d) = TargetAt(build, Machine, d)
  BY <1>2 DEF Operand, OperandAt, AddressOf, AddressAt, Target, TargetAt
<1>4. Machine' = Made(regs', pc', call_stack', mem')
  BY DEF Machine
<1>5. CASE Trap \/ LeaveText
  BY <1>5, FaultType DEF Trap, LeaveText, Stop, Errors
<1>6. ASSUME NEW value, NEW next, SetDst(value, next)
      PROVE  Machine' = WithDst(Machine, insn, value, next)
  BY <1>2, <1>4, <1>6 DEF SetDst, WithDst
<1>7. CASE ExecAlu
  <2>1. CASE Executes({"alu64"}) /\ Machine' =
               WithDst(Machine, insn, Alu64(insn.fn, regs[insn.dst], Operand(insn)), pc + 1)
    BY <1>1, <1>2, <1>3, <2>1 DEF Advances, After
  <2>2. CASE Executes({"alu32"}) /\ Machine' =
               WithDst(Machine, insn, Alu32(insn.fn, regs[insn.dst], Operand(insn)), pc + 1)
    BY <1>1, <1>2, <1>3, <2>2 DEF Advances, After
  <2> QED
    BY <1>6, <1>7, <2>1, <2>2 DEF ExecAlu
<1>8. CASE ExecLddw
  BY <1>1, <1>2, <1>6, <1>8 DEF ExecLddw, Advances, After
<1>9. CASE ExecLoad
  BY <1>1, <1>2, <1>3, <1>6, <1>9 DEF ExecLoad, Advances, After
<1>10. CASE ExecStore
  BY <1>1, <1>2, <1>3, <1>4, <1>10 DEF ExecStore, Advances, After
<1>11. CASE ExecJump
  <2>1. Executes({"jump"}) /\ UNCHANGED <<regs, call_stack, mem>>
        /\ pc' = IF insn.fn = "always" \/ Taken(insn.fn, regs[insn.dst], Operand(insn))
                 THEN Target(insn.off) ELSE pc + 1
    BY <1>11 DEF ExecJump
  <2> QED
    BY <1>1, <1>2, <1>3, <1>4, <2>1 DEF Advances, After
<1>12. CASE ExecCall
  BY <1>1, <1>2, <1>3, <1>4, <1>12 DEF ExecCall, Advances, After
<1>13. CASE ExecExit
  <2>1. call_stack # <<>>
    BY <1>13 DEF ExecExit, Stop
  <2>2. Machine' = Returned(Machine, call_stack[Len(call_stack)])
    BY <1>2, <1>4, <1>13, <2>1 DEF ExecExit, Returned
  <2>3. Executes({"exit"})
    BY <1>13 DEF ExecExit
  <2> QED
    BY <1>1, <1>2, <2>1, <2>2, <2>3 DEF Advances, After
<1>14. CASE ExecSyscall
  <2>1. AfterSyscall(insn.fn, mem, regs[1], regs[2], regs[3])
          = Copied(build, Machine, insn.fn)
    BY <1>2 DEF AfterSyscall, Copied
  <2>2. Executes({"syscall"}) /\ call_stack' = call_stack /\ pc' = pc + 1
        /\ mem' = Copied(build, Machine, insn.fn)
        /\ regs' = IF insn.fn \in Syscalls THEN [regs EXCEPT ![0] = 0] ELSE regs
    BY <1>14, <2>1 DEF ExecSyscall
  <2> QED
    BY <1>1, <1>2, <1>4, <2>2 DEF Advances, After
<1> QED
  BY <1>5, <1>7, <1>8, <1>9, <1>10, <1>11, <1>12, <1>13, <1>14 DEF Step

\* A run that ends well ends at an EXIT with an empty stack, and keeps r0.
LEMMA ExitsAtEnd ==
    ASSUME Step, status' = "exit"
    PROVE  /\ pc < Len(text) /\ Passes(build, text, Machine, insn)
           /\ insn.op = "exit" /\ call_stack = <<>> /\ regs' = regs
<1>1. CASE Trap \/ LeaveText
  BY <1>1, FaultType DEF Trap, LeaveText, Stop, Errors
<1>2. CASE ExecExit /\ call_stack = <<>>
  BY <1>2, FaultFree DEF ExecExit, Executes, Running, Stop
<1>3. CASE ~(ExecExit /\ call_stack = <<>>) /\ ~(Trap \/ LeaveText)
  BY <1>3 DEF Step, ExecAlu, ExecLddw, ExecLoad, ExecStore, ExecJump, ExecCall,
              ExecExit, ExecSyscall, SetDst, Executes, Running
<1> QED
  BY <1>1, <1>2, <1>3

-----------------------------------------------------------------------------
(***************************************************************************)
(* What passes in the conformance test passes in every other build         *)
(***************************************************************************)
LEMMA TestFacts ==
    ASSUME NEW c \in Builds, c.host = "conformance", NEW b \in Builds
    PROVE  /\ c.usize = WordBits /\ c.checks
           /\ b.usize \in {HalfBits, WordBits}
           /\ 2 ^ b.usize \in Nat \ {0} /\ 2 ^ HalfBits <= 2 ^ b.usize
           /\ 2 ^ HalfBits \in Nat \ {0} /\ 2 ^ WordBits \in Nat \ {0}
<1>1. c.usize = WordBits /\ c.checks
  BY TestAssumption
<1>2. b.usize \in {HalfBits, WordBits}
  BY VmAssumption
<1>3. 2 * 2 ^ HalfBits <= 2 ^ WordBits
  BY Widths, PowerLess
<1> QED
  BY <1>1, <1>2, <1>3, Powers

\* An offset into a region fits into every usize.
LEMMA SliceAgrees ==
    ASSUME NEW b \in Builds, NEW region \in {Stack, Heap}, NEW addr \in Word,
           NEW size \in Sizes, addr + size < 2 ^ WordBits, Hits(region, addr, size)
    PROVE  Slice(b, region, addr) = "ok"
<1> DEFINE M == 2 ^ WordBits
           N == 2 ^ b.usize
           x == addr - region.base
<1>1. /\ b.usize \in {HalfBits, WordBits} /\ N \in Nat \ {0}
      /\ 2 ^ HalfBits <= N /\ 2 ^ HalfBits \in Nat /\ M \in Nat
  <2>1. 2 * 2 ^ HalfBits <= 2 ^ WordBits /\ b.usize \in {HalfBits, WordBits}
    BY Widths, PowerLess, VmAssumption
  <2> QED
    BY <2>1, Powers
<1>2. region.base \in Nat /\ region.len \in Nat /\ region.len + 8 < 2 ^ HalfBits
  BY MemoryAssumption, <1>1 DEF Stack, Heap, MaxLen
<1>3. addr \in Nat /\ size \in Nat
  BY WordInt DEF Sizes
<1>4. (addr + size) % M = addr + size
  <2> HIDE DEF M
  <2>1. addr + size \in 0 .. M - 1
    BY <1>1, <1>3 DEF M
  <2>2. (0 * M + (addr + size)) % M = addr + size
    BY <1>1, <2>1, Remainder
  <2> QED
    BY <1>1, <1>3, <2>2
<1>5. addr >= region.base /\ addr + size <= region.base + region.len
  BY <1>4 DEF Hits, U64
<1>6. x \in 0 .. region.len /\ x \in 0 .. N - 1
  <2> HIDE DEF N
  <2> QED
    BY <1>1, <1>2, <1>3, <1>5
<1> HIDE DEF N, x
<1>7. x % N = x
  BY <1>1, <1>6
<1>8. x % N <= region.len
  BY <1>2, <1>6, <1>7
<1> QED
  BY <1>8 DEF Slice, Usize, N, x

\* An access the test lets through is let through in every build.
LEMMA ResolveAgrees ==
    ASSUME NEW c \in Builds, c.host = "conformance", NEW b \in Builds,
           NEW addr \in Word, NEW size \in Sizes, Resolve(c, addr, size) = "ok"
    PROVE  Resolve(b, addr, size) = "ok"
<1>1. ~(addr + size >= 2 ^ WordBits)
  BY TestAssumption DEF Resolve
<1>2. addr + size < 2 ^ WordBits
  BY <1>1, TestFacts, WordInt DEF Sizes
<1>3. CASE Hits(Stack, addr, size)
  <2>1. Slice(b, Stack, addr) = "ok"
    BY <1>2, <1>3, SliceAgrees
  <2> QED
    BY <1>1, <1>3, <2>1 DEF Resolve
<1>4. CASE ~Hits(Stack, addr, size) /\ Hits(Heap, addr, size)
  <2>1. Slice(b, Heap, addr) = "ok"
    BY <1>2, <1>4, SliceAgrees
  <2> QED
    BY <1>1, <1>4, <2>1 DEF Resolve
<1>5. Hits(Stack, addr, size) \/ Hits(Heap, addr, size)
  BY <1>1 DEF Resolve
<1> QED
  BY <1>3, <1>4, <1>5

\* A length cut to a narrower usize is not longer.
LEMMA UsizeAgrees ==
    ASSUME NEW c \in Builds, c.host = "conformance", NEW b \in Builds, NEW x \in Word
    PROVE  Usize(b, x) \in Nat /\ Usize(c, x) = x /\ Usize(b, x) <= x
<1> DEFINE N == 2 ^ b.usize
           M == 2 ^ WordBits
<1>1. N \in Nat \ {0} /\ M \in Nat \ {0} /\ c.usize = WordBits /\ x \in 0 .. M - 1
      /\ x \in Nat
  BY TestFacts, WordInt DEF Word
<1> HIDE DEF N, M
<1>2. x % M = x
  BY <1>1
<1>3. x % N \in Nat /\ x % N <= x
  BY <1>1
<1> QED
  BY <1>1, <1>2, <1>3 DEF Usize, N, M

\* A range of a syscall that does not panic in the test panics in no build.
LEMMA RangesAgree ==
    ASSUME NEW c \in Builds, c.host = "conformance", NEW b \in Builds, NEW m, NEW i,
           m.regs \in Regs, \A r \in RangesAt(c, m, i) : ~RangePanics(r[1], r[2])
    PROVE  \A r \in RangesAt(b, m, i) : ~RangePanics(r[1], r[2])
<1>1. CASE i.fn \notin {"memcpy", "memmove", "memset", "set_return_data"}
  BY <1>1 DEF RangesAt
<1>2. CASE i.fn \in {"memcpy", "memmove", "memset"}
  <2>1. RangesAt(b, m, i) = RangesAt(c, m, i)
    BY <1>2 DEF RangesAt
  <2> QED
    BY <2>1
<1>3. CASE i.fn = "set_return_data"
  <2> DEFINE a == m.regs[1]
             n == Usize(b, m.regs[2])
             l == Usize(c, m.regs[2])
  <2>1. m.regs[1] \in Word /\ m.regs[2] \in Word
    BY DEF Regs, Reg
  <2>2. a \in Nat /\ n \in Nat /\ l \in Nat /\ n <= l
    BY <2>1, UsizeAgrees, WordInt
  <2>3. RangesAt(b, m, i) = {<<a, n>>} /\ RangesAt(c, m, i) = {<<a, l>>}
    BY <1>3 DEF RangesAt
  <2> HIDE DEF a, n, l
  <2>4. ~RangePanics(a, l)
    BY <2>3
  <2>5. ~RangePanics(a, n)
    BY <2>2, <2>4, Powers DEF RangePanics
  <2> QED
    BY <2>3, <2>5
<1> QED
  BY <1>1, <1>2, <1>3

\* Neither overflow checks nor a wider usize let anything through that a build
\* without them would not, but for the length of a Vec.
LEMMA ChecksAgree ==
    ASSUME NEW c \in Builds, c.host = "conformance", NEW b \in Builds,
           NEW t, NEW m, NEW i, m.regs \in Regs, i.off \in Int,
           i.op \in {"ldx", "st"} => i.size \in Sizes, Checks(c, t, m, i)
    PROVE  Checks(b, t, m, i)
<1>1. i.op \in {"ldx", "st"} => Resolve(b, AddressAt(m, i), i.size) = "ok"
  <2> SUFFICES ASSUME i.op \in {"ldx", "st"}
               PROVE  Resolve(b, AddressAt(m, i), i.size) = "ok"
    OBVIOUS
  <2> DEFINE start == IF i.op = "ldx" THEN m.regs[i.src] ELSE m.regs[i.dst]
  <2>1. (i.op = "ldx" => i.src \in Reg) /\ i.dst \in Reg
    BY DEF Checks, SourceUsed, DestinationUsed
  <2>2. \A r \in Reg : m.regs[r] \in Int
    BY WordInt DEF Regs
  <2>3. start \in Int
    BY <2>1, <2>2
  <2>4. start + i.off \in Int
    BY <2>3
  <2>5. AddressAt(m, i) \in Word
    BY <2>4, CastType DEF AddressAt
  <2>6. Resolve(c, AddressAt(m, i), i.size) = "ok"
    BY DEF Checks
  <2> QED
    BY <2>5, <2>6, ResolveAgrees
<1>2. ~(i.fn = "neg" /\ b.checks /\ NegOverflows(i.op, m.regs[i.dst]))
  BY TestFacts DEF Checks
<1>3. i.op = "syscall" => \A r \in RangesAt(b, m, i) : ~RangePanics(r[1], r[2])
  BY RangesAgree DEF Checks
<1> QED
  BY <1>1, <1>2, <1>3 DEF Checks

\* Wherever a jump goes, it is a number.
LEMMA TargetInt ==
    ASSUME NEW c \in Builds, NEW m, m.pc \in Nat, NEW d \in Int
    PROVE  TargetAt(c, m, d) \in Int
<1>1. 2 ^ c.usize \in Nat \ {0}
  BY VmAssumption, Powers
<1> QED
  BY <1>1 DEF TargetAt, Usize

\* A jump that stays in the text goes to the same place in every build.
LEMMA TargetAgrees ==
    ASSUME NEW c \in Builds, c.host = "conformance", NEW b \in Builds,
           NEW m, m.pc \in Nat, NEW d \in Int, TargetAt(c, m, d) < 2 ^ HalfBits
    PROVE  TargetAt(b, m, d) = TargetAt(c, m, d)
<1> DEFINE N == 2 ^ HalfBits
           x == m.pc + 1 + d
           M == 2 ^ WordBits
           q == x \div M
           r == x % M
<1>1. /\ N \in Nat \ {0} /\ M \in Nat \ {0} /\ c.usize = WordBits /\ x \in Int
      /\ b.usize \in {HalfBits, WordBits}
  BY TestFacts
<1>2. M = N * N
  <2>1. 2 ^ (HalfBits + HalfBits) = N * N /\ HalfBits + HalfBits = WordBits
    BY PowerAdd, Widths
  <2> QED
    BY <2>1
<1>3. r < N /\ TargetAt(c, m, d) = r
  BY <1>1 DEF TargetAt, Usize
<1> HIDE DEF N, x, M
<1>4. x = q * M + r /\ q \in Int /\ r \in 0 .. M - 1
  BY <1>1, Divided, Zenon
<1> HIDE DEF q, r
<1>5. r \in 0 .. N - 1
  BY <1>1, <1>3, <1>4
<1>6. x = (q * N) * N + r /\ q * N \in Int
  BY <1>1, <1>2, <1>4
<1> DEFINE p == q * N
<1>7. x = p * N + r /\ p \in Int
  BY <1>6
<1> HIDE DEF p
<1>8. x % N = r
  BY <1>1, <1>5, <1>7, Remainder
<1>9. CASE b.usize = HalfBits
  BY <1>3, <1>8, <1>9 DEF TargetAt, Usize, x, N
<1>10. CASE b.usize = WordBits
  BY <1>1, <1>10 DEF TargetAt, Usize
<1> QED
  BY <1>1, <1>9, <1>10

\* What an instruction makes of the machine is the same, if it stays in the text
\* and is no memcpy that overlaps upwards.
LEMMA AfterAgrees ==
    ASSUME NEW c \in Builds, c.host = "conformance", NEW b \in Builds,
           NEW t, NEW m, NEW i, m.pc \in Nat, i.off \in Int, i.imm \in Int,
           Len(t) \in 0 .. 2 ^ HalfBits - 1, After(c, t, m, i).pc < Len(t),
           m.mem \in Memory, m.regs \in Regs, Known(i),
           i.op = "syscall" /\ i.fn = "memcpy" =>
             m.regs[1] \notin m.regs[2] + 1 .. m.regs[2] + m.regs[3] - 1
    PROVE  After(b, t, m, i) = After(c, t, m, i)
<1>1. \A r, p, s, e : Made(r, p, s, e).pc = p
  BY DEF Made
<1>2. CASE i.op = "jump"
  <2>1. CASE i.fn = "always" \/ Taken(i.fn, m.regs[i.dst], OperandAt(m, i))
    <3>1. TargetAt(c, m, i.off) < Len(t)
      BY <1>1, <1>2, <2>1 DEF After
    <3>2. TargetAt(c, m, i.off) < 2 ^ HalfBits
      <4>1. TargetAt(c, m, i.off) \in Int
        BY TargetInt
      <4> QED
        BY <3>1, <4>1, Powers
    <3>3. TargetAt(b, m, i.off) = TargetAt(c, m, i.off)
      BY <3>2, TargetAgrees
    <3> QED
      BY <1>2, <3>3 DEF After
  <2>2. CASE ~(i.fn = "always" \/ Taken(i.fn, m.regs[i.dst], OperandAt(m, i)))
    BY <1>2, <2>2 DEF After
  <2> QED
    BY <2>1, <2>2
<1>3. CASE i.op = "call"
  <2>1. TargetAt(c, m, i.imm) < Len(t)
    BY <1>1, <1>3 DEF After
  <2>2. TargetAt(c, m, i.imm) < 2 ^ HalfBits
    <3>1. TargetAt(c, m, i.imm) \in Int
      BY TargetInt
    <3> QED
      BY <2>1, <3>1, Powers
  <2>3. TargetAt(b, m, i.imm) = TargetAt(c, m, i.imm)
    BY <2>2, TargetAgrees
  <2> QED
    BY <1>3, <2>3 DEF After
<1>4. CASE i.op = "syscall"
  <2>1. Copied(b, m, i.fn) = Copied(c, m, i.fn)
    <3>1. /\ m.regs[1] \in Nat /\ m.regs[2] \in Nat /\ m.regs[3] \in Nat
      <4>1. \A r \in Reg : m.regs[r] \in Word
        BY DEF Regs
      <4>2. 1 \in Reg /\ 2 \in Reg /\ 3 \in Reg
        BY DEF Reg
      <4> QED
        BY <4>1, <4>2, WordInt
    <3>2. CASE i.fn = "memcpy"
      <4>1. CopyForward(m.mem, m.regs[1], m.regs[2], m.regs[3])
              = CopyBuffered(m.mem, m.regs[1], m.regs[2], m.regs[3])
        BY <1>4, <3>1, <3>2, CopiesAgree
      <4>2. b.host \in {"guest", "conformance"}
        BY VmAssumption
      <4> QED
        BY <3>2, <4>1, <4>2 DEF Copied
    <3>3. CASE i.fn # "memcpy"
      BY <3>3 DEF Copied
    <3> QED
      BY <3>2, <3>3
  <2> QED
    BY <1>4, <2>1 DEF After
<1>5. CASE i.op \in {"alu64", "alu32", "lddw", "ldx", "st", "exit"}
  BY <1>5 DEF After
<1> QED
  BY <1>2, <1>3, <1>4, <1>5 DEF Known

-----------------------------------------------------------------------------
(***************************************************************************)
(* A test that passed is a proof that passes                               *)
(***************************************************************************)
\* In build b, text t ends in machine m and returns r; or goes on into a set.
Ends(b, t, m, r) ==
    /\ m.pc < Len(t) /\ Passes(b, t, m, InsnAt(t, m))
    /\ InsnAt(t, m).op = "exit" /\ m.call_stack = <<>> /\ m.regs[0] = r
Goes(b, t, m, T) ==
    /\ m.pc < Len(t) /\ Passes(b, t, m, InsnAt(t, m))
    /\ ~(InsnAt(t, m).op = "exit" /\ m.call_stack = <<>>)
    /\ After(b, t, m, InsnAt(t, m)) \in T

\* A run that ends with r does not leave T but by its end; and there is such a
\* run of the conformance test from the start.
Leads(b, t, T, r) == \A m \in T : Ends(b, t, m, r) \/ Goes(b, t, m, T)
Shown(t, in, r) ==
    \E b \in Builds : /\ b.host = "conformance"
                      /\ \E T : Ready(in) \in T /\ Leads(b, t, T, r)

\* The machines the run has gone through.
TraceSoFar ==
    \E T : /\ Ready(input) \in T /\ Machine \in T
           /\ \A m \in T : m = Machine \/ Goes(build, text, m, T)

\* The guest is in a machine the test went through, has ended as it did, or has
\* come upon a Vec that is too long for it.
OnTrack(T) ==
    \/ status = "running" /\ Machine \in T /\ journal = NoJournal
    \/ /\ status = "exit" /\ regs[0] = tested.r0
       /\ journal \in {NoJournal, [r0 |-> tested.r0, success |-> TRUE]}
    \/ status = "panic" /\ TooLong(insn) /\ journal = NoJournal
Proving ==
    \E c \in Builds : /\ c.host = "conformance"
                      /\ \E T : Leads(c, text, T, tested.r0) /\ OnTrack(T)

Passed == tested # NotTested /\ tested.passed

\* What is known of a run, of a run that ended, of a test that passed, and of the
\* proof that follows it.
Tracing ==
    /\ build.host = "conformance" => journal = NoJournal
    /\ build.host = "conformance" /\ status = "running" => TraceSoFar
    /\ build.host = "conformance" /\ status = "exit" => Shown(text, input, regs[0])
    /\ Passed => Shown(text, input, tested.r0)
    /\ Passed /\ build.host = "guest" /\ ~overlapped => Proving

TInv == IInv /\ Tracing

\* A step of the machine leaves the rest alone.
LEMMA StepFixed ==
    ASSUME Step
    PROVE  /\ UNCHANGED fixed /\ status = "running"
           /\ status' = "running" \/ status' = "exit" \/ status' \in {"panic"} \union Errors
<1>1. CASE Trap \/ LeaveText
  BY <1>1, FaultType DEF Trap, LeaveText, Stop, Running, Errors
<1>2. CASE ExecExit
  BY <1>2 DEF ExecExit, Stop, Executes, Running
<1> QED
  BY <1>1, <1>2 DEF Step, ExecAlu, ExecLddw, ExecLoad, ExecStore, ExecJump, ExecCall,
                    ExecSyscall, SetDst, Executes, Running

\* A running test goes through one machine more.
LEMMA TraceGrows ==
    ASSUME IInv, Step, status' = "running", TraceSoFar
    PROVE  TraceSoFar'
<1>1. UNCHANGED fixed /\ status = "running"
  BY StepFixed
<1>2. Advances
  BY <1>1, ExecutesAfter
<1>3. PICK T : /\ Ready(input) \in T /\ Machine \in T
               /\ \A m \in T : m = Machine \/ Goes(build, text, m, T)
  BY DEF TraceSoFar
<1> DEFINE U == T \union {Machine'}
<1>4. Goes(build, text, Machine, U)
  BY <1>2, MachineParts DEF Advances, Goes
<1>5. \A m \in T : Goes(build, text, m, T) => Goes(build, text, m, U)
  BY DEF Goes
<1>6. /\ Ready(input) \in U /\ Machine' \in U
      /\ \A m \in U : m = Machine' \/ Goes(build, text, m, U)
  BY <1>3, <1>4, <1>5
<1>7. build' = build /\ text' = text /\ input' = input
  BY <1>1 DEF fixed
<1> HIDE DEF U
<1> QED
  BY <1>6, <1>7 DEF TraceSoFar

\* A test that ends well has shown what the text does.
LEMMA TraceEnds ==
    ASSUME IInv, Step, status' = "exit", TraceSoFar, build.host = "conformance"
    PROVE  Shown(text, input, regs[0])
<1>1. PICK T : /\ Ready(input) \in T /\ Machine \in T
               /\ \A m \in T : m = Machine \/ Goes(build, text, m, T)
  BY DEF TraceSoFar
<1>2. Ends(build, text, Machine, regs[0])
  BY ExitsAtEnd, MachineParts DEF Ends
<1>3. Leads(build, text, T, regs[0])
  BY <1>1, <1>2 DEF Leads
<1>4. build \in Builds
  BY DEF IInv, Fixed
<1> QED
  BY <1>1, <1>3, <1>4 DEF Shown

\* A machine that goes on into T is in T next, and one that ends with r ends so.
LEMMA StaysOn ==
    ASSUME IInv, Step, NEW T, NEW r,
           Ends(build, text, Machine, r) \/ Goes(build, text, Machine, T)
    PROVE  \/ status' = "running" /\ Machine' \in T
           \/ status' = "exit" /\ regs'[0] = r
<1>1. UNCHANGED fixed /\ status = "running"
  BY StepFixed
<1>2. InsnAt(text, Machine) = insn /\ Machine.pc = pc /\ Machine.call_stack = call_stack
      /\ Machine.regs = regs
  BY MachineParts
<1>3. pc < Len(text) /\ Passes(build, text, Machine, insn)
  BY <1>2 DEF Ends, Goes
<1>4. Fault(insn) = "none"
  BY <1>3, FaultFree
<1>5. pc \in Nat /\ Len(text) \in Nat
  BY TypeFacts, TextFacts, BuildFacts DEF Pcs
<1>6. ~Trap /\ ~LeaveText
  BY <1>3, <1>4, <1>5 DEF Trap, LeaveText
<1>7. CASE Ends(build, text, Machine, r)
  <2>1. insn.op = "exit" /\ call_stack = <<>> /\ regs[0] = r
    BY <1>2, <1>7 DEF Ends
  <2>2. ExecExit
    BY <1>6, <2>1 DEF Step, ExecAlu, ExecLddw, ExecLoad, ExecStore, ExecJump,
                      ExecCall, ExecSyscall, Executes
  <2> QED
    BY <2>1, <2>2 DEF ExecExit, Stop
<1>8. CASE Goes(build, text, Machine, T)
  <2>1. ~(insn.op = "exit" /\ call_stack = <<>>)
        /\ After(build, text, Machine, insn) \in T
    BY <1>2, <1>8 DEF Goes
  <2>2. status' = "running"
    BY <1>1, <1>6, <2>1 DEF Step, ExecAlu, ExecLddw, ExecLoad, ExecStore, ExecJump,
                            ExecCall, ExecExit, ExecSyscall, SetDst, Executes
  <2>3. Machine' = After(build, text, Machine, insn)
    BY <1>1, <2>2, ExecutesAfter DEF Advances
  <2> QED
    BY <2>1, <2>2, <2>3
<1> QED
  BY <1>7, <1>8

\* The guest goes the way of the test.
LEMMA Follows ==
    ASSUME IInv, Step, Remember, ~overlapped', build.host = "guest", Proving
    PROVE  Proving'
<1>1. UNCHANGED fixed /\ status = "running"
  BY StepFixed
<1>2. PICK c \in Builds : /\ c.host = "conformance"
                          /\ \E T : Leads(c, text, T, tested.r0) /\ OnTrack(T)
  BY DEF Proving
<1>3. PICK T : Leads(c, text, T, tested.r0) /\ OnTrack(T)
  BY <1>2
<1>4. Machine \in T /\ journal = NoJournal
  BY <1>1, <1>3 DEF OnTrack
<1>5. /\ build' = build /\ text' = text /\ input' = input /\ tested' = tested
      /\ journal' = journal
  BY <1>1 DEF fixed
<1>6. /\ Machine.regs = regs /\ Machine.pc = pc /\ Machine.call_stack = call_stack
      /\ Machine.mem = mem /\ InsnAt(text, Machine) = insn
  BY MachineParts
<1>7. Ends(c, text, Machine, tested.r0) \/ Goes(c, text, Machine, T)
  BY <1>3, <1>4 DEF Leads
<1>8. pc < Len(text) /\ Passes(c, text, Machine, insn)
  BY <1>6, <1>7 DEF Ends, Goes
<1>9. /\ build \in Builds /\ regs \in Regs /\ mem \in Memory /\ pc \in Nat
      /\ Len(text) \in 0 .. 2 ^ HalfBits - 1 /\ pc + 1 \in 1 .. Len(text)
  BY <1>8, TypeFacts, TextFacts, BuildFacts DEF Pcs, Fixed
<1>10. /\ insn.off \in Int /\ insn.imm \in Int
       /\ insn.op \in {"ldx", "st"} => insn.size \in Sizes
  BY <1>9, TypeFacts, TextFacts DEF insn
<1>11. Checks(build, text, Machine, insn)
  BY <1>2, <1>6, <1>8, <1>9, <1>10, ChecksAgree DEF Passes
<1>12. CASE TooLong(insn)
  <2>1. Fault(insn) = "panic"
    BY <1>11, <1>12, FaultFree
  <2>2. Trap
    BY <1>8, <1>9, <2>1 DEF Step, LeaveText, ExecAlu, ExecLddw, ExecLoad, ExecStore,
          ExecJump, ExecCall, ExecExit, ExecSyscall, Executes
  <2>3. status' = "panic" /\ regs' = regs /\ pc' = pc
    BY <2>1, <2>2 DEF Trap, Stop
  <2>4. TooLong(insn)'
    BY <1>5, <1>12, <2>3 DEF TooLong, Collected, insn
  <2>5. OnTrack(T)'
    BY <1>4, <1>5, <2>3, <2>4 DEF OnTrack
  <2> QED
    BY <1>2, <1>3, <1>5, <2>5 DEF Proving
<1>13. CASE ~TooLong(insn)
  <2>1. Passes(build, text, Machine, insn) /\ Fault(insn) = "none"
    BY <1>11, <1>13, FaultFree DEF Passes
  <2>2. insn.op = "syscall" /\ insn.fn = "memcpy" =>
          regs[1] \notin regs[2] + 1 .. regs[2] + regs[3] - 1
    BY <1>1, <1>8, <2>1 DEF Remember, OverlapsUpwards, Executes, Running
  <2>3. Goes(c, text, Machine, T) => Goes(build, text, Machine, T)
    <3> SUFFICES ASSUME Goes(c, text, Machine, T)
                 PROVE  Goes(build, text, Machine, T)
      OBVIOUS
    <3>1. ~(insn.op = "exit" /\ call_stack = <<>>)
          /\ After(c, text, Machine, insn) \in T
      BY <1>6 DEF Goes
    <3>2. After(c, text, Machine, insn).pc < Len(text)
      BY <1>3, <3>1 DEF Leads, Ends, Goes
    <3>3. Known(insn)
      BY <1>11 DEF Checks
    <3>4. After(build, text, Machine, insn) = After(c, text, Machine, insn)
      BY <1>2, <1>6, <1>9, <1>10, <2>2, <3>2, <3>3, AfterAgrees
    <3> QED
      BY <1>6, <1>8, <2>1, <3>1, <3>4 DEF Goes
  <2>4. Ends(c, text, Machine, tested.r0) => Ends(build, text, Machine, tested.r0)
    BY <1>6, <2>1 DEF Ends
  <2>5. \/ status' = "running" /\ Machine' \in T
        \/ status' = "exit" /\ regs'[0] = tested.r0
    BY <1>7, <2>3, <2>4, StaysOn
  <2>6. OnTrack(T)'
    BY <1>4, <1>5, <2>5 DEF OnTrack
  <2> QED
    BY <1>2, <1>3, <1>5, <2>6 DEF Proving
<1> QED
  BY <1>12, <1>13

\* A run has gone through the machine it starts with.
LEMMA TracingInit == Init => Tracing
<1> SUFFICES ASSUME Init PROVE Tracing
  OBVIOUS
<1>1. /\ regs = StartRegs /\ pc = 0 /\ call_stack = <<>> /\ mem = LoadedMemory(input)
      /\ status = "running" /\ journal = NoJournal /\ tested = NotTested
  BY DEF Init
<1>2. Machine = Ready(input)
  BY <1>1 DEF Machine, Ready
<1>3. TraceSoFar
  <2> DEFINE T == {Machine}
  <2>1. Ready(input) \in T /\ Machine \in T
        /\ \A m \in T : m = Machine \/ Goes(build, text, m, T)
    BY <1>2
  <2> HIDE DEF T
  <2> QED
    BY <2>1 DEF TraceSoFar
<1> QED
  BY <1>1, <1>3 DEF Tracing, Passed

\* Whatever an instruction does.
LEMMA TracingStep ==
    ASSUME TInv, Step, Remember
    PROVE  Tracing'
<1>1. UNCHANGED fixed /\ status = "running"
      /\ (status' = "running" \/ status' = "exit" \/ status' \in {"panic"} \union Errors)
  BY StepFixed
<1>2. /\ build' = build /\ text' = text /\ input' = input /\ tested' = tested
      /\ journal' = journal
  BY <1>1 DEF fixed
<1>3. (~overlapped' => ~overlapped) /\ Passed' = Passed
  BY <1>2 DEF Remember, Passed
<1>4. ASSUME build.host = "conformance", status' = "running"
      PROVE  TraceSoFar'
  BY <1>1, <1>4, TraceGrows DEF TInv, Tracing
<1>5. ASSUME build.host = "conformance", status' = "exit"
      PROVE  Shown(text, input, regs[0]) /\ regs' = regs
  BY <1>1, <1>5, TraceEnds, ExitsAtEnd DEF TInv, Tracing
<1>6. ASSUME Passed, build.host = "guest", ~overlapped'
      PROVE  Proving'
  BY <1>3, <1>6, Follows DEF TInv, Tracing
<1>7. Passed => Shown(text, input, tested.r0)
  BY DEF TInv, Tracing
<1>8. build.host = "conformance" => journal = NoJournal
  BY DEF TInv, Tracing
<1> QED
  BY <1>2, <1>3, <1>4, <1>5, <1>6, <1>7, <1>8 DEF Tracing

\* The guest commits what the run left in r0.
LEMMA TracingCommit ==
    ASSUME TInv, Commit, Remember
    PROVE  Tracing'
<1>1. /\ regs' = regs /\ status' = status /\ build' = build /\ text' = text
      /\ input' = input /\ tested' = tested /\ build.host = "guest"
      /\ status \in Errors \union {"exit"}
      /\ journal' = IF status = "exit" THEN [r0 |-> regs[0], success |-> TRUE]
                    ELSE [r0 |-> 2 ^ WordBits - 1, success |-> FALSE]
  BY DEF Commit, machine
<1>2. (~overlapped' => ~overlapped) /\ Passed' = Passed
  BY <1>1 DEF Remember, Passed
<1>3. ASSUME Passed, ~overlapped
      PROVE  Proving'
  <2>1. Proving
    BY <1>1, <1>3 DEF TInv, Tracing
  <2>2. PICK c \in Builds : /\ c.host = "conformance"
                            /\ \E T : Leads(c, text, T, tested.r0) /\ OnTrack(T)
    BY <2>1 DEF Proving
  <2>3. PICK T : Leads(c, text, T, tested.r0) /\ OnTrack(T)
    BY <2>2
  <2>4. status = "exit" /\ regs[0] = tested.r0
    BY <1>1, <2>3 DEF OnTrack, Errors
  <2>5. OnTrack(T)'
    BY <1>1, <2>4 DEF OnTrack
  <2> QED
    BY <1>1, <2>2, <2>3, <2>5 DEF Proving
<1>4. Passed => Shown(text, input, tested.r0)
  BY DEF TInv, Tracing
<1>5. ~(build.host = "conformance")
  BY <1>1
<1> QED
  BY <1>1, <1>2, <1>3, <1>4, <1>5 DEF Tracing

\* A test that passed ended at an EXIT, with the r0 that is shown.
LEMMA TracingJudge ==
    ASSUME TInv, Judge, Remember
    PROVE  Tracing'
<1>1. /\ Machine' = Machine /\ status' = status /\ build' = build /\ text' = text
      /\ input' = input /\ journal' = journal /\ regs' = regs
      /\ build.host = "conformance" /\ status \in Errors \union {"exit"}
      /\ tested' = [passed |-> status = "exit" /\ return_data = <<>>, r0 |-> regs[0]]
  BY DEF Judge, machine, Machine
<1>2. status # "running"
  BY <1>1 DEF Errors
<1>3. journal = NoJournal
      /\ (status = "exit" => Shown(text, input, regs[0]))
  BY <1>1 DEF TInv, Tracing
<1>4. tested'.passed => status = "exit"
  BY <1>1
<1>5. tested'.r0 = regs[0]
  BY <1>1
<1>6. Passed' => Shown(text, input, tested.r0)'
  BY <1>1, <1>3, <1>4, <1>5 DEF Passed
<1> QED
  BY <1>1, <1>2, <1>3, <1>6 DEF Tracing

\* The guest starts where the test started.
LEMMA TracingStart ==
    ASSUME TInv, StartProof, Remember
    PROVE  Tracing'
<1>1. /\ text' = text /\ input' = input /\ tested' = tested /\ journal' = journal
      /\ build.host = "conformance" /\ build'.host = "guest" /\ status' = "running"
      /\ Machine' = Ready(input)
  BY DEF StartProof, Machine, Ready
<1>2. journal = NoJournal /\ (Passed => Shown(text, input, tested.r0))
  BY <1>1 DEF TInv, Tracing
<1>3. Passed' = Passed
  BY <1>1 DEF Passed
<1>4. ASSUME Passed
      PROVE  Proving'
  <2>1. PICK c \in Builds : /\ c.host = "conformance"
             /\ \E T : Ready(input) \in T /\ Leads(c, text, T, tested.r0)
    BY <1>2, <1>4 DEF Shown
  <2>2. PICK T : Ready(input) \in T /\ Leads(c, text, T, tested.r0)
    BY <2>1
  <2>3. OnTrack(T)'
    BY <1>1, <1>2, <2>2 DEF OnTrack
  <2> QED
    BY <1>1, <2>1, <2>2, <2>3 DEF Proving
<1>5. ~(build'.host = "conformance")
  BY <1>1
<1> QED
  BY <1>1, <1>2, <1>3, <1>4, <1>5 DEF Tracing

\* Whatever the machine and its hosts do next.
LEMMA TracingInv == TInv /\ [Next]_vars => TInv'
<1> SUFFICES ASSUME TInv, [Next]_vars PROVE Tracing'
  BY StepInv DEF TInv
<1>1. CASE UNCHANGED vars
  <2>1. /\ Machine' = Machine /\ status' = status /\ build' = build /\ text' = text
        /\ input' = input /\ journal' = journal /\ regs' = regs /\ tested' = tested
        /\ pc' = pc /\ overlapped' = overlapped
    BY <1>1 DEF vars, machine, fixed, Machine
  <2>2. TooLong(insn)' <=> TooLong(insn)
    BY <2>1 DEF TooLong, Collected, insn
  <2> QED
    BY <2>1, <2>2 DEF TInv, Tracing, TraceSoFar, Passed, Proving, OnTrack
<1> QED
  BY <1>1, TracingStep, TracingCommit, TracingJudge, TracingStart DEF Next

\* What the conformance test shows on its 64-bit host with overflow checks, the
\* 32-bit guest without them proves, for every program and every input: a test that
\* passed is followed by a run that returns no error, and whose journal holds the r0
\* of the test, up to a memcpy that overlaps upwards, and but for a panic over a Vec
\* that is too long for the guest.
THEOREM Tested == Spec => []TestedIsProved
<1>1. Init => TInv
  BY InitInv, TracingInit DEF TInv
<1>2. TInv => TestedIsProved
  <2> SUFFICES ASSUME TInv, Passed, build.host = "guest", ~overlapped
               PROVE  /\ status \in {"running", "exit"}
                           \/ (status = "panic" /\ TooLong(insn))
                      /\ journal \in {NoJournal, [r0 |-> tested.r0, success |-> TRUE]}
    BY DEF TestedIsProved, Passed
  <2>1. Proving
    BY DEF TInv, Tracing
  <2> QED
    BY <2>1 DEF Proving, OnTrack
<1> QED
  BY <1>1, <1>2, TracingInv, PTL DEF Spec

=============================================================================
