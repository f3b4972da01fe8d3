-------------------------- MODULE SbpfMemoryProofs --------------------------
(***************************************************************************)
(* What the interpreter's memory guarantees for every width, region and    *)
(* build: an access that resolve() lets through stays within its region,   *)
(* what a store writes a load reads back, every value read is of its width, *)
(* and the memcpys of the two hosts agree.                                 *)
(***************************************************************************)
EXTENDS SbpfMemory, SumTheorems

-----------------------------------------------------------------------------
(***************************************************************************)
(* Arithmetic                                                              *)
(***************************************************************************)
LEMMA Widths ==
    /\ ByteBits \in Nat \ {0} /\ HalfBits \in Nat /\ WordBits \in Nat
    /\ 0 < HalfBits /\ HalfBits < WordBits
    /\ HalfBits = 4 * ByteBits /\ WordBits = 8 * ByteBits
  BY MemoryAssumption DEF HalfBits, WordBits

\* A power of two is a positive number.
LEMMA PowerType ==
    ASSUME NEW k \in 0 .. WordBits
    PROVE  2 ^ k \in Nat \ {0}
<1> DEFINE S == {n \in Nat : 2 ^ n \in Nat \ {0}}
<1>1. 0 \in S
  OBVIOUS
<1>2. ASSUME NEW n \in 0 .. WordBits - 1, n \in S PROVE n + 1 \in S
  <2>1. 2 ^ (n + 1) = 2 * 2 ^ n
    BY PowerAssumption
  <2> QED
    BY <1>2, <2>1, Widths
<1>3. \A n \in 0 .. WordBits - 1 : n \in S => n + 1 \in S
  BY <1>2
<1> HIDE DEF S
<1>4. 0 .. WordBits \subseteq S
  BY <1>1, <1>3, Widths, BoundedInduction, Zenon
<1> QED
  BY <1>4 DEF S

\* The power of a sum is a product.
LEMMA PowerAdd ==
    ASSUME NEW a \in Nat, NEW b \in Nat, a + b <= WordBits
    PROVE  2 ^ (a + b) = 2 ^ a * 2 ^ b
<1> DEFINE S == {n \in Nat : 2 ^ (a + n) = 2 ^ a * 2 ^ n}
<1>0. a \in 0 .. WordBits /\ 2 ^ a \in Nat
  BY Widths, PowerType
<1>1. 0 \in S
  <2>1. a + 0 = a /\ 2 ^ 0 = 1
    OBVIOUS
  <2> QED
    BY <1>0, <2>1
<1>2. ASSUME NEW n \in 0 .. b - 1, n \in S PROVE n + 1 \in S
  <2>1. a + n \in 0 .. WordBits - 1 /\ n \in 0 .. WordBits - 1
    BY Widths
  <2>2. 2 ^ (a + n + 1) = 2 * 2 ^ (a + n) /\ 2 ^ (n + 1) = 2 * 2 ^ n
    BY <2>1, PowerAssumption
  <2>3. 2 ^ n \in Nat
    BY <2>1, PowerType, Widths
  <2>4. 2 ^ (a + n) = 2 ^ a * 2 ^ n /\ a + (n + 1) = a + n + 1
    BY <1>2
  <2>5. 2 * (2 ^ a * 2 ^ n) = 2 ^ a * (2 * 2 ^ n)
    BY <1>0, <2>3
  <2> QED
    BY <2>2, <2>4, <2>5
<1>3. \A n \in 0 .. b - 1 : n \in S => n + 1 \in S
  BY <1>2
<1> HIDE DEF S
<1>4. 0 .. b \subseteq S
  BY <1>1, <1>3, BoundedInduction, Zenon
<1> QED
  BY <1>4 DEF S

\* A wider word holds more.
LEMMA PowerLess ==
    ASSUME NEW a \in Nat, NEW b \in 0 .. WordBits, a < b
    PROVE  2 * 2 ^ a <= 2 ^ b
<1>1. a \in 0 .. WordBits - 1 /\ a + 1 \in Nat /\ b - a - 1 \in 0 .. WordBits
  BY Widths
<1>2. 2 ^ (a + 1) = 2 * 2 ^ a
  BY <1>1, PowerAssumption
<1>3. 2 ^ b = 2 ^ (a + 1) * 2 ^ (b - a - 1)
  <2>1. (a + 1) + (b - a - 1) = b /\ b <= WordBits
    BY Widths
  <2>2. b - a - 1 \in Nat
    BY <1>1, Widths
  <2>3. 2 ^ ((a + 1) + (b - a - 1)) = 2 ^ (a + 1) * 2 ^ (b - a - 1)
    BY <1>1, <2>1, <2>2, PowerAdd
  <2> QED
    BY <2>1, <2>3
<1>4. 2 ^ a \in Nat /\ 2 ^ (b - a - 1) \in Nat \ {0}
  BY <1>1, PowerType, Widths
<1>5. \A x \in Nat, y \in Nat \ {0} : 2 * x <= 2 * x * y
  <2> SUFFICES ASSUME NEW x \in Nat, NEW y \in Nat \ {0} PROVE 2 * x <= 2 * x * y
    OBVIOUS
  <2>1. 2 * x * y = 2 * x + 2 * x * (y - 1) /\ 2 * x * (y - 1) \in Nat
    OBVIOUS
  <2> QED
    BY <2>1
<1> QED
  BY <1>2, <1>3, <1>4, <1>5

\* The remainder is the only one there is.
LEMMA Remainder ==
    ASSUME NEW n \in Nat \ {0}, NEW q \in Int, NEW r \in 0 .. n - 1
    PROVE  (q * n + r) % n = r
  OBVIOUS

\* An integer is its quotient times the divisor, and its remainder.
LEMMA Divided ==
    ASSUME NEW n \in Nat \ {0}, NEW x \in Int
    PROVE  /\ x = (x \div n) * n + (x % n)
           /\ x \div n \in Int /\ x % n \in 0 .. n - 1
  OBVIOUS

\* The quotient of a natural number is one.
LEMMA DividedNat ==
    ASSUME NEW n \in Nat \ {0}, NEW x \in Nat
    PROVE  x \div n \in 0 .. x
  OBVIOUS

\* What the widths of the code need of the powers of two.
LEMMA Powers ==
    /\ 2 ^ ByteBits \in Nat \ {0} /\ 2 ^ HalfBits \in Nat \ {0}
    /\ 2 ^ WordBits \in Nat \ {0}
    /\ 2 ^ WordBits % 2 ^ HalfBits = 0
<1>1. 2 ^ ByteBits \in Nat \ {0} /\ 2 ^ HalfBits \in Nat \ {0} /\ 2 ^ WordBits \in Nat \ {0}
  BY Widths, PowerType
<1>2. WordBits = HalfBits + HalfBits /\ HalfBits \in Nat
  BY Widths
<1>3. 2 ^ (HalfBits + HalfBits) = 2 ^ HalfBits * 2 ^ HalfBits
  BY <1>2, Widths, PowerAdd
<1> DEFINE N == 2 ^ HalfBits
<1>4. 2 ^ WordBits = N * N + 0 /\ N \in Nat \ {0}
  BY <1>1, <1>2, <1>3
<1> HIDE DEF N
<1>5. 0 \in 0 .. N - 1 /\ N \in Int
  BY <1>4
<1>6. (N * N + 0) % N = 0
  BY <1>4, <1>5, Remainder, Zenon
<1> QED
  BY <1>1, <1>4, <1>6 DEF N

\* What a remainder of zero says.
LEMMA Multiple ==
    ASSUME NEW n \in Nat \ {0}, NEW x \in Nat, x % n = 0
    PROVE  \E q \in Nat : x = q * n
<1>1. x = (x \div n) * n + (x % n) /\ x \div n \in Nat
  OBVIOUS
<1> QED BY <1>1

\* A remainder of a product, digit by digit.
LEMMA Digits ==
    ASSUME NEW n \in Nat \ {0}, NEW m \in Nat \ {0}, NEW v \in Nat
    PROVE  v % (n * m) = (v % n) + ((v \div n) % m) * n
<1> DEFINE q == v \div n
           r == v % n
           p == q \div m
           d == q % m
           k == n * m
           e == r + d * n
<1>1. v \in Int /\ q \in Int /\ q \in Nat
  BY DividedNat
<1>2. v = q * n + r /\ r \in 0 .. n - 1
  BY <1>1, Divided, Zenon
<1> HIDE DEF q, r
<1>3. p \in Int /\ p \in Nat
  BY <1>1, DividedNat
<1>4. q = p * m + d /\ d \in 0 .. m - 1
  BY <1>1, Divided, Zenon
<1> HIDE DEF p, d
<1>5. k \in Nat \ {0}
  OBVIOUS
<1>6. v = p * k + e
  <2>1. q * n = p * (n * m) + d * n
    BY <1>1, <1>3, <1>4
  <2> QED
    BY <1>1, <1>2, <1>3, <1>4, <2>1
<1>7. e \in 0 .. k - 1
  <2>1. d * n <= (m - 1) * n
    BY <1>4
  <2>2. (m - 1) * n = n * m - n
    OBVIOUS
  <2>3. d * n \in Nat
    BY <1>4
  <2> QED
    BY <1>2, <1>4, <2>1, <2>2, <2>3
<1> HIDE DEF k, e
<1>8. v % k = e
  BY <1>3, <1>5, <1>6, <1>7, Remainder
<1> QED
  BY <1>8 DEF k, e, r, d, q

-----------------------------------------------------------------------------
(***************************************************************************)
(* resolve()                                                               *)
(***************************************************************************)
\* The regions lie below the last eight bytes of the address space, and no
\* offset that wraps into a region's length comes from there.
LEMMA TopPanics ==
    ASSUME NEW build, build.usize \in {HalfBits, WordBits},
           NEW region \in {Stack, Heap}, NEW addr \in Word,
           addr + 8 >= 2 ^ WordBits
    PROVE  Slice(build, region, addr) = "panic"
  <1> DEFINE M == 2 ^ WordBits
             N == 2 ^ HalfBits
  <1>1. /\ M \in Nat \ {0} /\ N \in Nat \ {0} /\ M % N = 0
        /\ addr \in Nat /\ addr < M /\ M - addr \in 1 .. 8
    BY Powers DEF Word
  <1>2. /\ region.base \in Nat /\ region.len \in Nat
        /\ region.base % N = 0
        /\ region.len + 8 < N
        /\ region.base + region.len + 8 <= M
    BY MemoryAssumption, <1>1 DEF Stack, Heap, MaxLen
  <1>3. PICK m \in Nat : M = m * N
    BY <1>1, Multiple
  <1>4. PICK b \in Nat : region.base = b * N
    BY <1>1, <1>2, Multiple
  <1> HIDE DEF M, N
  <1>5. /\ Usize(build, addr - region.base) \in Int
        /\ Usize(build, addr - region.base) > region.len
    <2>1. CASE build.usize = HalfBits
      <3> DEFINE r == N - (M - addr)
      <3>1. r \in 0 .. N - 1 /\ r > region.len
        BY <1>1, <1>2
      <3>2. addr - region.base = (m - b - 1) * N + r
        BY <1>1, <1>2, <1>3, <1>4
      <3>3. m - b - 1 \in Int
        OBVIOUS
      <3> HIDE DEF r
      <3>4. (addr - region.base) % N = r
        BY <1>1, <3>1, <3>2, <3>3, Remainder
      <3> QED BY <2>1, <3>1, <3>4 DEF Usize, N
    <2>2. CASE build.usize = WordBits
      <3>1. addr - region.base \in 0 .. M - 1 /\ addr - region.base > region.len
        <4>1. b < m
          BY <1>1, <1>2, <1>3, <1>4
        <4>2. b * N + N <= m * N
          <5>1. m = b + 1 + (m - b - 1) /\ m - b - 1 \in Nat
            BY <4>1
          <5>2. m * N = b * N + N + (m - b - 1) * N /\ (m - b - 1) * N \in Nat
            BY <1>1, <5>1
          <5> QED BY <1>1, <5>2
        <4>3. region.base + region.len + 8 < M
          BY <1>1, <1>2, <1>3, <1>4, <4>2
        <4> QED BY <1>1, <1>2, <4>3
      <3>2. (addr - region.base) % M = addr - region.base
        BY <1>1, <3>1
      <3> QED BY <2>2, <3>1, <3>2 DEF Usize, M
    <2> QED BY <2>1, <2>2
  <1> QED BY <1>2, <1>5 DEF Slice

\* An access that resolve() lets through lies within one region, to its last
\* byte, whatever address the program computed: the code behind every raw
\* pointer of read_uN and write_uN.
THEOREM Confined ==
    ASSUME NEW build, build.usize \in {HalfBits, WordBits},
           NEW addr \in Word, NEW size \in Sizes,
           Resolve(build, addr, size) = "ok"
    PROVE  \E region \in {Stack, Heap} :
               addr .. addr + size - 1 \subseteq Within(region)
  <1> DEFINE M == 2 ^ WordBits
  <1>1. M \in Nat \ {0} /\ addr \in Nat /\ addr < M /\ size \in 1 .. 8
    BY Powers DEF Word, Sizes
  <1>2. PICK region \in {Stack, Heap} :
          Hits(region, addr, size) /\ Slice(build, region, addr) = "ok"
    BY DEF Resolve
  <1>3. region.base \in Nat /\ region.len \in Nat
    BY MemoryAssumption DEF Stack, Heap
  <1>4. addr + 8 < M
    BY <1>1, <1>2, TopPanics
  <1> HIDE DEF M
  <1>5. (addr + size) % M = addr + size
    BY <1>1, <1>4
  <1>6. addr >= region.base /\ addr + size <= region.base + region.len
    BY <1>2, <1>5 DEF Hits, U64, M
  <1> QED BY <1>1, <1>3, <1>6 DEF Within

-----------------------------------------------------------------------------
(***************************************************************************)
(* Words from bits, and from bytes                                         *)
(***************************************************************************)
\* Terms below the powers of two make a word.
LEMMA BitSum ==
    ASSUME NEW F, \A k \in 0 .. WordBits - 1 : F[k] \in 0 .. 2 ^ k
    PROVE  SumFunctionOnSet(F, 0 .. WordBits - 1) \in Word
<1> DEFINE S == {n \in Nat : SumFunctionOnSet(F, 0 .. n - 1) \in 0 .. 2 ^ n - 1}
<1>1. 0 \in S
  <2>1. 0 .. 0 - 1 = {} /\ 2 ^ 0 = 1
    OBVIOUS
  <2> QED
    BY <2>1, SumEmpty
<1>2. ASSUME NEW n \in 0 .. WordBits - 1, n \in S PROVE n + 1 \in S
  <2>1. \A k \in 0 .. n : k \in 0 .. WordBits - 1 /\ 2 ^ k \in Nat
    BY Widths, PowerType
  <2>2. \A k \in 0 .. n : F[k] \in Int
    BY <2>1
  <2>3. n \in Nat
    OBVIOUS
  <2>4. SumFunctionOnSet(F, 0 .. n) = SumFunctionOnSet(F, 0 .. n - 1) + F[n]
    BY <2>2, <2>3, SumInterval
  <2>5. 2 ^ (n + 1) = 2 * 2 ^ n /\ 2 ^ n \in Nat /\ F[n] \in 0 .. 2 ^ n
    BY <2>1, PowerAssumption
  <2>6. (n + 1) - 1 = n
    BY <2>3
  <2> QED
    BY <1>2, <2>4, <2>5, <2>6
<1>3. \A n \in 0 .. WordBits - 1 : n \in S => n + 1 \in S
  BY <1>2
<1> HIDE DEF S
<1>4. 0 .. WordBits \subseteq S
  BY <1>1, <1>3, Widths, BoundedInduction, Zenon
<1>5. WordBits \in 0 .. WordBits
  BY Widths
<1> QED
  BY <1>4, <1>5 DEF S, Word

\* The places of the bytes of a word.
LEMMA BytePlaces ==
    ASSUME NEW k \in 0 .. 7
    PROVE  /\ ByteBits * k \in 0 .. WordBits /\ ByteBits * (k + 1) \in 0 .. WordBits
           /\ 2 ^ (ByteBits * k) \in Nat \ {0} /\ 2 ^ ByteBits \in Nat \ {0}
           /\ 2 ^ (ByteBits * (k + 1)) = 2 ^ (ByteBits * k) * 2 ^ ByteBits
<1>1. ByteBits * (k + 1) = ByteBits * k + ByteBits /\ ByteBits * k \in Nat
  BY Widths
<1>2. ByteBits * (k + 1) <= WordBits
  <2>1. ByteBits * (k + 1) + ByteBits * (7 - k) = 8 * ByteBits
    BY Widths
  <2>2. ByteBits * (7 - k) \in Nat
    BY Widths
  <2> QED
    BY <1>1, <2>1, <2>2, Widths
<1>3. ByteBits * k \in 0 .. WordBits /\ ByteBits \in 0 .. WordBits
        /\ ByteBits * (k + 1) \in 0 .. WordBits
  BY <1>1, <1>2, Widths
<1>4. 2 ^ (ByteBits * k + ByteBits) = 2 ^ (ByteBits * k) * 2 ^ ByteBits
  BY <1>1, <1>2, Widths, PowerAdd
<1> QED
  BY <1>1, <1>3, <1>4, PowerType

\* Bytes at their places make a number of that many bytes.
LEMMA ByteSum ==
    ASSUME NEW n \in 0 .. 8, NEW b, \A k \in 0 .. n - 1 : b[k] \in Byte,
           NEW F, \A k \in 0 .. n - 1 : F[k] = b[k] * 2 ^ (ByteBits * k)
    PROVE  SumFunctionOnSet(F, 0 .. n - 1) \in 0 .. 2 ^ (ByteBits * n) - 1
<1> DEFINE S == {i \in Nat :
                    SumFunctionOnSet(F, 0 .. i - 1) \in 0 .. 2 ^ (ByteBits * i) - 1}
<1>1. 0 \in S
  <2>1. 0 .. 0 - 1 = {} /\ 2 ^ 0 = 1 /\ ByteBits * 0 = 0
    BY Widths
  <2>2. 2 ^ (ByteBits * 0) = 1
    BY <2>1
  <2> QED
    BY <2>1, <2>2, SumEmpty
<1>2. ASSUME NEW i \in 0 .. n - 1, i \in S PROVE i + 1 \in S
  <2> DEFINE p == 2 ^ (ByteBits * i)
             q == 2 ^ ByteBits
  <2>1. i \in 0 .. 7 /\ i \in Nat
    OBVIOUS
  <2>2. p \in Nat \ {0} /\ q \in Nat \ {0} /\ 2 ^ (ByteBits * (i + 1)) = p * q
    BY <2>1, BytePlaces
  <2>3. \A k \in 0 .. i : F[k] \in Int
    <3> SUFFICES ASSUME NEW k \in 0 .. i PROVE F[k] \in Int
      OBVIOUS
    <3>1. k \in 0 .. 7 /\ k \in 0 .. n - 1
      OBVIOUS
    <3>2. 2 ^ (ByteBits * k) \in Nat /\ b[k] \in Int
      BY <3>1, BytePlaces DEF Byte
    <3> QED
      BY <3>1, <3>2
  <2>4. SumFunctionOnSet(F, 0 .. i) = SumFunctionOnSet(F, 0 .. i - 1) + F[i]
    BY <2>1, <2>3, SumInterval
  <2>5. F[i] = b[i] * p /\ b[i] \in 0 .. q - 1
    BY DEF Byte
  <2>6. SumFunctionOnSet(F, 0 .. i - 1) \in 0 .. p - 1
    BY <1>2
  <2>7. (i + 1) - 1 = i
    BY <2>1
  <2> HIDE DEF p, q
  <2>8. b[i] * p <= (q - 1) * p /\ b[i] * p \in Nat /\ (q - 1) * p = p * q - p
    BY <2>2, <2>5
  <2>9. SumFunctionOnSet(F, 0 .. i) \in 0 .. p * q - 1
    BY <2>2, <2>4, <2>5, <2>6, <2>8
  <2> QED
    BY <2>1, <2>2, <2>7, <2>9
<1>3. \A i \in 0 .. n - 1 : i \in S => i + 1 \in S
  BY <1>2
<1>4. n \in Nat /\ n \in 0 .. n
  OBVIOUS
<1> HIDE DEF S
<1>5. 0 .. n \subseteq S
  BY <1>1, <1>3, <1>4, BoundedInduction, Zenon
<1> QED
  BY <1>4, <1>5 DEF S

\* The bytes of a number, at their places, make its remainder.
LEMMA ByteSumOf ==
    ASSUME NEW n \in 0 .. 8, NEW v \in Nat, NEW F,
           \A k \in 0 .. n - 1 :
              F[k] = ((v \div 2 ^ (ByteBits * k)) % 2 ^ ByteBits) * 2 ^ (ByteBits * k)
    PROVE  SumFunctionOnSet(F, 0 .. n - 1) = v % 2 ^ (ByteBits * n)
<1> DEFINE S == {i \in Nat :
                    SumFunctionOnSet(F, 0 .. i - 1) = v % 2 ^ (ByteBits * i)}
<1>1. 0 \in S
  <2>1. 0 .. 0 - 1 = {} /\ 2 ^ 0 = 1 /\ ByteBits * 0 = 0 /\ v % 1 = 0
    BY Widths
  <2> QED
    BY <2>1, SumEmpty
<1>2. ASSUME NEW i \in 0 .. n - 1, i \in S PROVE i + 1 \in S
  <2>1. i \in 0 .. 7 /\ i \in Nat
    OBVIOUS
  <2>2. \A k \in 0 .. i : F[k] \in Int
    <3> SUFFICES ASSUME NEW k \in 0 .. i PROVE F[k] \in Int
      OBVIOUS
    <3> DEFINE w == v \div 2 ^ (ByteBits * k)
    <3>1. k \in 0 .. 7 /\ k \in 0 .. n - 1
      OBVIOUS
    <3>2. 2 ^ (ByteBits * k) \in Nat \ {0} /\ 2 ^ ByteBits \in Nat \ {0}
      BY <3>1, BytePlaces
    <3>3. w \in Nat
      BY <3>2, DividedNat
    <3> HIDE DEF w
    <3>4. w % 2 ^ ByteBits \in Int
      BY <3>2, <3>3
    <3>5. F[k] = (w % 2 ^ ByteBits) * 2 ^ (ByteBits * k)
      BY <3>1 DEF w
    <3> QED
      BY <3>2, <3>4, <3>5
  <2>3. SumFunctionOnSet(F, 0 .. i) = SumFunctionOnSet(F, 0 .. i - 1) + F[i]
    BY <2>1, <2>2, SumInterval
  <2>4. /\ 2 ^ (ByteBits * i) \in Nat \ {0} /\ 2 ^ ByteBits \in Nat \ {0}
        /\ 2 ^ (ByteBits * (i + 1)) = 2 ^ (ByteBits * i) * 2 ^ ByteBits
    BY <2>1, BytePlaces
  <2>5. v % 2 ^ (ByteBits * (i + 1)) = (v % 2 ^ (ByteBits * i)) + F[i]
    <3> DEFINE p == 2 ^ (ByteBits * i)
               q == 2 ^ ByteBits
    <3>1. F[i] = ((v \div p) % q) * p
      OBVIOUS
    <3>2. p \in Nat \ {0} /\ q \in Nat \ {0} /\ 2 ^ (ByteBits * (i + 1)) = p * q
      BY <2>4
    <3> HIDE DEF p, q
    <3>3. v % (p * q) = (v % p) + ((v \div p) % q) * p
      BY <3>2, Digits
    <3>4. v % 2 ^ (ByteBits * (i + 1)) = (v % p) + F[i]
      BY <3>1, <3>2, <3>3
    <3> QED
      BY <3>4 DEF p
  <2>6. (i + 1) - 1 = i
    BY <2>1
  <2> QED
    BY <1>2, <2>1, <2>3, <2>5, <2>6
<1>3. \A i \in 0 .. n - 1 : i \in S => i + 1 \in S
  BY <1>2
<1>4. n \in Nat /\ n \in 0 .. n
  OBVIOUS
<1> HIDE DEF S
<1>5. 0 .. n \subseteq S
  BY <1>1, <1>3, <1>4, BoundedInduction, Zenon
<1> QED
  BY <1>4, <1>5 DEF S

-----------------------------------------------------------------------------
(***************************************************************************)
(* Loads and stores                                                        *)
(***************************************************************************)
Memory == [Mapped -> Byte]

\* A byte is a number below 256.
LEMMA ByteType ==
    ASSUME NEW x \in Int
    PROVE  U8(x) \in Byte
<1>1. 2 ^ ByteBits \in Nat \ {0}
  BY BytePlaces, 0 \in 0 .. 7
<1> QED
  BY <1>1 DEF U8, Byte

\* An address of a region is a number.
LEMMA MappedInt == Mapped \subseteq Int
  BY MemoryAssumption DEF Mapped, Within, Stack, Heap

\* A load of bytes gives a number of its width, which is a word.
LEMMA LoadedType ==
    ASSUME NEW mem \in Memory, NEW addr \in Int, NEW size \in Sizes,
           addr .. addr + size - 1 \subseteq Mapped
    PROVE  Loaded(mem, addr, size) \in Word
<1> DEFINE F == [k \in 0 .. size - 1 |-> mem[addr + k] * 2 ^ (ByteBits * k)]
           b == [k \in 0 .. size - 1 |-> mem[addr + k]]
<1>1. size \in 0 .. 8 /\ size - 1 \in 0 .. 7 /\ size \in Nat
  BY DEF Sizes
<1>2. \A k \in 0 .. size - 1 : b[k] \in Byte
  <2> SUFFICES ASSUME NEW k \in 0 .. size - 1 PROVE mem[addr + k] \in Byte
    OBVIOUS
  <2>1. addr + k \in addr .. addr + size - 1
    BY <1>1
  <2> QED
    BY <2>1 DEF Memory
<1>3. \A k \in 0 .. size - 1 : F[k] = b[k] * 2 ^ (ByteBits * k)
  OBVIOUS
<1>4. Loaded(mem, addr, size) = SumFunctionOnSet(F, 0 .. size - 1)
  BY DEF Loaded, SumFunction
<1> HIDE DEF F, b
<1>5. Loaded(mem, addr, size) \in 0 .. 2 ^ (ByteBits * size) - 1
  BY <1>1, <1>2, <1>3, <1>4, ByteSum
<1>6. 2 ^ (ByteBits * size) <= 2 ^ WordBits /\ 2 ^ (ByteBits * size) \in Nat
  <2>1. ByteBits * size \in 0 .. WordBits
    <3>1. ByteBits * ((size - 1) + 1) \in 0 .. WordBits
      BY <1>1, BytePlaces
    <3>2. (size - 1) + 1 = size
      BY <1>1
    <3> QED
      BY <3>1, <3>2
  <2>2. 2 ^ (ByteBits * size) \in Nat /\ 2 ^ WordBits \in Nat
    BY <2>1, PowerType, Widths
  <2>3. CASE ByteBits * size = WordBits
    BY <2>2, <2>3
  <2>4. CASE ByteBits * size < WordBits
    <3>1. 2 * 2 ^ (ByteBits * size) <= 2 ^ WordBits
      BY <2>1, <2>4, Widths, PowerLess
    <3> QED
      BY <2>2, <3>1
  <2> QED
    BY <2>1, <2>3, <2>4, Widths
<1>7. 2 ^ WordBits \in Nat
  BY PowerType, Widths
<1> QED
  BY <1>5, <1>6, <1>7 DEF Word

\* What a store leaves is a memory, and it has changed only what it wrote.
LEMMA StoredType ==
    ASSUME NEW mem \in Memory, NEW addr \in Int, NEW size \in Sizes, NEW value \in Nat
    PROVE  /\ Stored(mem, addr, size, value) \in Memory
           /\ \A a \in Mapped : Stored(mem, addr, size, value)[a] # mem[a] =>
                a \in addr .. addr + size - 1
<1> DEFINE new == Stored(mem, addr, size, value)
<1>1. new = [a \in Mapped |-> IF a \in addr .. addr + size - 1
                               THEN U8(value \div 2 ^ (ByteBits * (a - addr)))
                               ELSE mem[a]]
  BY DEF Stored, Memory
<1>2. ASSUME NEW a \in Mapped, a \in addr .. addr + size - 1
      PROVE  U8(value \div 2 ^ (ByteBits * (a - addr))) \in Byte
  <2>1. a - addr \in 0 .. 7
    BY <1>2 DEF Sizes
  <2>2. 2 ^ (ByteBits * (a - addr)) \in Nat \ {0}
    BY <2>1, BytePlaces
  <2> DEFINE p == 2 ^ (ByteBits * (a - addr))
  <2>3. p \in Nat \ {0} /\ value \in Int
    BY <2>2
  <2> HIDE DEF p
  <2>4. value \div p \in Int
    BY <2>3, Divided, Zenon
  <2>5. U8(value \div p) \in Byte
    BY <2>4, ByteType
  <2> QED
    BY <2>5 DEF p
<1>3. \A a \in Mapped : mem[a] \in Byte
  BY DEF Memory
<1> HIDE DEF new
<1> QED
  BY <1>1, <1>2, <1>3 DEF Memory, new

\* write_u8 .. write_u64 put down what read_u8 .. read_u64 of that width read: the
\* value, cut to that many bytes.  Every other byte stays what it was.
THEOREM ReadsBack ==
    ASSUME NEW mem \in Memory, NEW addr \in Int, NEW size \in Sizes, NEW value \in Nat,
           addr .. addr + size - 1 \subseteq Mapped
    PROVE  /\ Loaded(Stored(mem, addr, size, value), addr, size)
                = value % 2 ^ (ByteBits * size)
           /\ \A a \in Mapped \ (addr .. addr + size - 1) :
                Stored(mem, addr, size, value)[a] = mem[a]
<1> DEFINE new == Stored(mem, addr, size, value)
           F == [k \in 0 .. size - 1 |-> new[addr + k] * 2 ^ (ByteBits * k)]
<1>1. size \in 0 .. 8 /\ value \in Nat
  BY DEF Sizes
<1>2. ASSUME NEW k \in 0 .. size - 1
      PROVE  F[k] = ((value \div 2 ^ (ByteBits * k)) % 2 ^ ByteBits) * 2 ^ (ByteBits * k)
  <2>1. /\ addr + k \in addr .. addr + size - 1 /\ addr + k \in Mapped
        /\ (addr + k) - addr = k
    BY <1>1
  <2>2. new[addr + k] = U8(value \div 2 ^ (ByteBits * ((addr + k) - addr)))
    BY <2>1 DEF Stored, Memory
  <2>3. new[addr + k] = (value \div 2 ^ (ByteBits * k)) % 2 ^ ByteBits
    BY <2>1, <2>2 DEF U8
  <2> HIDE DEF new
  <2> QED
    BY <2>3
<1>3. Loaded(new, addr, size) = SumFunctionOnSet(F, 0 .. size - 1)
  BY DEF Loaded, SumFunction
<1>5. \A a \in Mapped \ (addr .. addr + size - 1) : new[a] = mem[a]
  BY DEF Stored, Memory
<1> HIDE DEF F, new
<1>4. Loaded(new, addr, size) = value % 2 ^ (ByteBits * size)
  BY <1>1, <1>2, <1>3, ByteSumOf
<1> QED
  BY <1>4, <1>5 DEF new

-----------------------------------------------------------------------------
(***************************************************************************)
(* Copies                                                                  *)
(***************************************************************************)
LEMMA ByteAtType ==
    ASSUME NEW mem \in Memory, NEW addr
    PROVE  ByteAt(mem, addr) \in Byte
<1>1. 0 \in Byte
  <2>1. 2 ^ ByteBits \in Nat \ {0}
    BY BytePlaces, 0 \in 0 .. 7
  <2> QED
    BY <2>1 DEF Byte
<1> QED
  BY <1>1 DEF ByteAt, Memory

\* A buffered copy leaves a memory.
LEMMA CopyBufferedType ==
    ASSUME NEW mem \in Memory, NEW dst, NEW src, NEW n
    PROVE  CopyBuffered(mem, dst, src, n) \in Memory
  BY ByteAtType DEF CopyBuffered, Memory

\* So does a fill.
LEMMA FilledType ==
    ASSUME NEW mem \in Memory, NEW dst, NEW n, NEW value \in Byte
    PROVE  Filled(mem, dst, n, value) \in Memory
  BY DEF Filled, Memory

\* The passes of the copy byte by byte: what step holds after each of them.
Copies(step, mem, dst, src, n) ==
    /\ step[0] = mem
    /\ \A k \in 1 .. n :
         step[k] = IF dst + k - 1 \in DOMAIN step[k - 1]
                   THEN [step[k - 1] EXCEPT ![dst + k - 1] =
                            ByteAt(step[k - 1], src + k - 1)]
                   ELSE step[k - 1]

\* The loop of the forward copy has a function that runs it.
LEMMA CopyForwardLoop ==
    ASSUME NEW mem \in Memory, NEW dst \in Int, NEW src \in Int, NEW n \in Nat
    PROVE  \E step : Copies(step, mem, dst, src, n)
                       /\ CopyForward(mem, dst, src, n) = step[n]
<1> DEFINE After(m, k) == IF dst + k - 1 \in DOMAIN m
                          THEN [m EXCEPT ![dst + k - 1] = ByteAt(m, src + k - 1)]
                          ELSE m
           Eqn(step) == step = [k \in 0 .. n |->
                                  IF k = 0 THEN mem ELSE After(step[k - 1], k)]
           pass == [k \in 1 .. n |-> [m \in Memory |-> After(m, k)]]
           G == CHOOSE step : Eqn(step)
<1>1. ASSUME NEW k, NEW m \in Memory
      PROVE  After(m, k) \in Memory
  BY ByteAtType DEF Memory
<1>2. pass \in [1 .. n -> [Memory -> Memory]]
  BY <1>1
<1>3. \A k \in 1 .. n : \A m \in Memory : pass[k][m] = After(m, k)
  OBVIOUS
<1> HIDE DEF pass
<1>4. PICK f \in [0 .. n -> Memory] : Loop(f, mem, n, pass)
  BY <1>2, LoopRuns
<1>5. CopyForward(mem, dst, src, n) = G[n]
  BY DEF CopyForward
<1> HIDE DEF After, Eqn, G
<1>6. f[0] = mem /\ \A k \in 1 .. n : f[k] = After(f[k - 1], k)
  <2>1. ASSUME NEW k \in 1 .. n
        PROVE  f[k] = After(f[k - 1], k)
    <3>1. k - 1 \in 0 .. n
      OBVIOUS
    <3>2. f[k - 1] \in Memory
      BY <1>4, <3>1
    <3>3. f[k] = pass[k][f[k - 1]]
      BY <1>4 DEF Loop
    <3> QED
      BY <1>3, <3>2, <3>3
  <2> QED
    BY <1>4, <2>1 DEF Loop
<1>7. Eqn(f)
  BY <1>4, <1>6 DEF Eqn
<1>8. Eqn(G)
  BY <1>7 DEF G
<1>9. G[0] = mem /\ \A k \in 1 .. n : G[k] = After(G[k - 1], k)
  <2>1. \A k \in 0 .. n : G[k] = IF k = 0 THEN mem ELSE After(G[k - 1], k)
    BY <1>8 DEF Eqn
  <2> QED
    BY <2>1
<1> QED
  BY <1>5, <1>9 DEF After, Copies

\* A forward copy leaves a memory.
LEMMA CopyForwardType ==
    ASSUME NEW mem \in Memory, NEW dst \in Int, NEW src \in Int, NEW n \in Nat
    PROVE  CopyForward(mem, dst, src, n) \in Memory
<1>1. PICK step : Copies(step, mem, dst, src, n)
                    /\ CopyForward(mem, dst, src, n) = step[n]
  BY CopyForwardLoop
<1> DEFINE S == {k \in Nat : step[k] \in Memory}
<1>2. 0 \in S
  BY <1>1 DEF Copies
<1>3. ASSUME NEW k \in 0 .. n - 1, k \in S PROVE k + 1 \in S
  <2>1. k + 1 \in 1 .. n /\ (k + 1) - 1 = k
    OBVIOUS
  <2>2. step[k] \in Memory
    BY <1>3
  <2>3. step[k + 1] = IF dst + (k + 1) - 1 \in DOMAIN step[k]
                      THEN [step[k] EXCEPT ![dst + (k + 1) - 1] =
                               ByteAt(step[k], src + (k + 1) - 1)]
                      ELSE step[k]
    BY <1>1, <2>1 DEF Copies
  <2>4. step[k + 1] \in Memory
    BY <2>2, <2>3, ByteAtType DEF Memory
  <2> QED
    BY <2>4
<1>4. \A k \in 0 .. n - 1 : k \in S => k + 1 \in S
  BY <1>3
<1> HIDE DEF S
<1>5. 0 .. n \subseteq S
  BY <1>2, <1>4, BoundedInduction, Zenon
<1> QED
  BY <1>1, <1>5 DEF S

\* The memcpy of the zkVM guest, byte by byte, and that of the conformance host,
\* all bytes read first, leave the same memory, unless the destination begins
\* behind the start of the source and within it.
THEOREM CopiesAgree ==
    ASSUME NEW mem \in Memory, NEW dst \in Int, NEW src \in Int, NEW n \in Nat,
           dst \notin src + 1 .. src + n - 1
    PROVE  CopyForward(mem, dst, src, n) = CopyBuffered(mem, dst, src, n)
<1>1. PICK step : Copies(step, mem, dst, src, n)
                    /\ CopyForward(mem, dst, src, n) = step[n]
  BY CopyForwardLoop
<1> DEFINE Part(k) == CopyBuffered(mem, dst, src, k)
           S == {k \in Nat : step[k] = Part(k)}
<1>0. /\ \A m \in Memory : DOMAIN m = Mapped
      /\ \A k \in Nat : Part(k) = [a \in Mapped |-> IF a \in dst .. dst + k - 1
                                     THEN ByteAt(mem, src + (a - dst)) ELSE mem[a]]
  BY DEF Memory, CopyBuffered
<1>2. 0 \in S
  <2>1. dst .. dst + 0 - 1 = {}
    OBVIOUS
  <2>2. Part(0) = [a \in Mapped |-> mem[a]]
    BY <1>0, <2>1
  <2>3. mem = [a \in Mapped |-> mem[a]]
    BY DEF Memory
  <2> QED
    BY <1>1, <2>2, <2>3 DEF Copies
<1>3. ASSUME NEW k \in 0 .. n - 1, k \in S PROVE k + 1 \in S
  <2>1. k + 1 \in 1 .. n /\ (k + 1) - 1 = k /\ dst + (k + 1) - 1 = dst + k
        /\ src + (k + 1) - 1 = src + k /\ k \in Nat
    OBVIOUS
  <2>2. step[k] = Part(k) /\ Part(k) \in Memory
    BY <1>3, CopyBufferedType
  <2>3. step[k + 1] = IF dst + k \in Mapped
                      THEN [Part(k) EXCEPT ![dst + k] = ByteAt(Part(k), src + k)]
                      ELSE Part(k)
    <3>1. step[k + 1] = IF dst + (k + 1) - 1 \in DOMAIN step[(k + 1) - 1]
                        THEN [step[(k + 1) - 1] EXCEPT ![dst + (k + 1) - 1] =
                                 ByteAt(step[(k + 1) - 1], src + (k + 1) - 1)]
                        ELSE step[(k + 1) - 1]
      BY <1>1, <2>1 DEF Copies
    <3>2. DOMAIN Part(k) = Mapped
      BY <1>0, <2>2
    <3> HIDE DEF Part
    <3> QED
      BY <2>1, <2>2, <3>1, <3>2
  <2>4. ByteAt(Part(k), src + k) = ByteAt(mem, src + k)
    <3>1. src + k \notin dst .. dst + k - 1
      BY <2>1
    <3>2. src + k \in Mapped => Part(k)[src + k] = mem[src + k]
      BY <1>0, <2>1, <3>1
    <3>3. DOMAIN Part(k) = Mapped /\ DOMAIN mem = Mapped
      BY <1>0, <2>2
    <3> HIDE DEF Part
    <3> QED
      BY <3>2, <3>3 DEF ByteAt
  <2>5. \A a \in Mapped : Part(k + 1)[a] =
           IF a = dst + k THEN ByteAt(mem, src + k) ELSE Part(k)[a]
    <3> SUFFICES ASSUME NEW a \in Mapped
                 PROVE  Part(k + 1)[a] = IF a = dst + k THEN ByteAt(mem, src + k)
                                         ELSE Part(k)[a]
      OBVIOUS
    <3>1. a \in Int /\ k + 1 \in Nat
      BY MappedInt, <2>1
    <3>2. Part(k + 1)[a] = IF a \in dst .. dst + (k + 1) - 1
                           THEN ByteAt(mem, src + (a - dst)) ELSE mem[a]
      BY <1>0, <3>1
    <3>3. Part(k)[a] = IF a \in dst .. dst + k - 1
                       THEN ByteAt(mem, src + (a - dst)) ELSE mem[a]
      BY <1>0, <2>1
    <3>4. a \in dst .. dst + (k + 1) - 1 <=> a = dst + k \/ a \in dst .. dst + k - 1
      BY <2>1, <3>1
    <3>5. a = dst + k => src + (a - dst) = src + k /\ a \notin dst .. dst + k - 1
      BY <2>1, <3>1
    <3> HIDE DEF Part
    <3> QED
      BY <3>2, <3>3, <3>4, <3>5
  <2>6. Part(k + 1) \in Memory
    BY CopyBufferedType
  <2> HIDE DEF Part
  <2>7. step[k + 1] = Part(k + 1)
    <3>1. Part(k + 1) = [a \in Mapped |-> Part(k + 1)[a]]
      BY <2>6 DEF Memory
    <3>2. Part(k) = [a \in Mapped |-> Part(k)[a]]
      BY <2>2 DEF Memory
    <3>3. CASE dst + k \in Mapped
      <4>1. step[k + 1] = [Part(k) EXCEPT ![dst + k] = ByteAt(mem, src + k)]
        BY <2>3, <2>4, <3>3
      <4>2. step[k + 1] = [a \in Mapped |-> IF a = dst + k
                             THEN ByteAt(mem, src + k) ELSE Part(k)[a]]
        BY <3>2, <4>1
      <4> QED
        BY <2>5, <3>1, <4>2
    <3>4. CASE dst + k \notin Mapped
      <4>1. step[k + 1] = Part(k)
        BY <2>3, <3>4
      <4>2. \A a \in Mapped : Part(k + 1)[a] = Part(k)[a]
        BY <2>5, <3>4
      <4> QED
        BY <3>1, <3>2, <4>1, <4>2
    <3> QED
      BY <3>3, <3>4
  <2> QED
    BY <2>1, <2>7
<1>4. \A k \in 0 .. n - 1 : k \in S => k + 1 \in S
  BY <1>3
<1> HIDE DEF S
<1>5. 0 .. n \subseteq S
  BY <1>2, <1>4, BoundedInduction, Zenon
<1>6. n \in S
  BY <1>5
<1> QED
  BY <1>1, <1>6 DEF S
=============================================================================
