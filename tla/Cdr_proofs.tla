----------------------------- MODULE Cdr_proofs -----------------------------
(***************************************************************************)
(* The encodings of Cdr, for every ByteBase: what is written is read back, *)
(* whatever is written after it.  Then the theorems about the two modules  *)
(* that use them, Wire and Fallback, for all constants within their        *)
(* assumptions.                                                            *)
(***************************************************************************)
EXTENDS Fallback, Wire, Inference_proofs

-----------------------------------------------------------------------------
(* Integers                                                                 *)

Byte == Unsigned(ByteBase)

LEMMA ProductOfPositives ==
  ASSUME NEW a \in Nat, NEW b \in Nat, a > 0, b > 0
  PROVE  a * b \in Nat /\ a * b > 0 /\ a * b >= a
OBVIOUS

LEMMA SizeFacts ==
  /\ ByteBase \in Nat /\ ByteBase > 1
  /\ SIZE16 \in Nat /\ SIZE16 > 1
  /\ SIZE32 \in Nat /\ SIZE32 > 3
  /\ SIZE64 \in Nat /\ SIZE64 > 1
<1>1. ByteBase \in Nat /\ ByteBase > 1
  BY ByteAssumption
<1>2. ASSUME NEW b \in Nat, b > 1 PROVE b * b \in Nat /\ b * b > 3
  <2>1. PICK c \in Nat : b = c + 2
    BY <1>2
  <2>2. (c + 2) * (c + 2) = c * c + 4 * c + 4 /\ c * c \in Nat
    OBVIOUS
  <2>3. QED
    BY <2>1, <2>2
<1>3. SIZE16 \in Nat /\ SIZE16 > 3
  BY <1>1, <1>2 DEF SIZE16
<1>4. SIZE16 > 1
  BY <1>3
<1>5. SIZE32 \in Nat /\ SIZE32 > 3
  BY <1>2, <1>3, <1>4 DEF SIZE32
<1>6. SIZE32 > 1
  BY <1>5
<1>7. SIZE64 \in Nat /\ SIZE64 > 3
  BY <1>2, <1>5, <1>6 DEF SIZE64
<1>8. QED
  BY <1>1, <1>3, <1>5, <1>7

\* Two digits: the lower and the next one of v make up v modulo b * c.
LEMMA TwoDigits ==
  ASSUME NEW v \in Nat, NEW b \in Nat, b > 0, NEW c \in Nat, c > 0
  PROVE  v % (b * c) = (v % b) + b * ((v \div b) % c)
<1>1. PICK q \in Nat, r \in 0 .. b - 1 : q = v \div b /\ r = v % b /\ v = b * q + r
  BY DivMod, ModRange
<1>2. PICK q2 \in Nat, r2 \in 0 .. c - 1 : q2 = q \div c /\ r2 = q % c /\ q = c * q2 + r2
  BY DivMod, ModRange
<1>3. PICK m \in Nat : m = b * c /\ m > 0
  BY ProductOfPositives
<1>4. PICK d : d = b * r2 + r
  OBVIOUS
<1>5. d \in 0 .. m - 1
  <2>1. PICK k \in Nat : c = r2 + 1 + k
    BY <1>2
  <2>2. m = b * r2 + b + b * k /\ b * r2 \in Nat /\ b * k \in Nat
    BY <1>3, <2>1
  <2>3. QED
    BY <1>1, <1>4, <2>2
<1>6. v = m * q2 + d
  <2>1. b * (c * q2 + r2) = (b * c) * q2 + b * r2
    OBVIOUS
  <2>2. m * q2 \in Nat /\ b * r2 \in Nat
    BY <1>3
  <2>3. QED
    BY <1>1, <1>2, <1>3, <1>4, <2>1, <2>2
<1>7. v % m = d
  BY <1>3, <1>5, <1>6, DivModOfSum
<1>8. QED
  BY <1>1, <1>2, <1>3, <1>4, <1>7

LEMMA DigitsOfSizes ==
  ASSUME NEW v \in Nat
  PROVE  /\ v % SIZE16 = (v % ByteBase) + ByteBase * ((v \div ByteBase) % ByteBase)
         /\ v % SIZE32 = (v % SIZE16) + SIZE16 * ((v \div SIZE16) % SIZE16)
         /\ v % SIZE64 = (v % SIZE32) + SIZE32 * ((v \div SIZE32) % SIZE32)
<1>1. ByteBase \in Nat /\ ByteBase > 0 /\ SIZE16 \in Nat /\ SIZE16 > 0 /\ SIZE32 \in Nat /\ SIZE32 > 0
  BY SizeFacts
<1>2. v % (ByteBase * ByteBase) = (v % ByteBase) + ByteBase * ((v \div ByteBase) % ByteBase)
  BY <1>1, TwoDigits, Zenon
<1>3. v % (SIZE16 * SIZE16) = (v % SIZE16) + SIZE16 * ((v \div SIZE16) % SIZE16)
  BY <1>1, TwoDigits, Zenon
<1>4. v % (SIZE32 * SIZE32) = (v % SIZE32) + SIZE32 * ((v \div SIZE32) % SIZE32)
  BY <1>1, TwoDigits, Zenon
<1>5. QED
  <2>1. SIZE16 = ByteBase * ByteBase
    BY DEF SIZE16
  <2>2. SIZE32 = SIZE16 * SIZE16
    BY DEF SIZE32
  <2>3. SIZE64 = SIZE32 * SIZE32
    BY DEF SIZE64
  <2>4. QED
    BY <1>2, <1>3, <1>4, <2>1, <2>2, <2>3, Zenon

LEMMA DigitRange ==
  ASSUME NEW b \in Nat, b > 0, NEW c \in Nat, c > 0, NEW x \in 0 .. b - 1, NEW y \in 0 .. c - 1
  PROVE  x + b * y \in 0 .. b * c - 1
<1>1. PICK k \in Nat : c = y + 1 + k
  OBVIOUS
<1>2. b * c = b * y + b + b * k /\ b * y \in Nat /\ b * k \in Nat
  BY <1>1
<1>3. QED
  BY <1>2

\* A signed integer survives the cast to the unsigned one and back.
LEMMA CastAndBack ==
  ASSUME NEW size \in Nat, size > 0, NEW x \in Signed(size)
  PROVE  /\ AsUnsigned(x, size) \in Unsigned(size)
         /\ AsSigned(AsUnsigned(x, size), size) = x
<1>1. x \in Int /\ -size <= 2 * x /\ 2 * x < size
  BY DEF Signed
<1>2. CASE x >= 0
  <2>1. x % size = x
    BY <1>1, <1>2
  <2>2. QED
    BY <1>1, <1>2, <2>1 DEF AsUnsigned, AsSigned, Unsigned
<1>3. CASE x < 0
  <2>1. x % size = x + size
    BY <1>1, <1>3
  <2>2. QED
    BY <1>1, <1>3, <2>1 DEF AsUnsigned, AsSigned, Unsigned
<1>4. QED
  BY <1>1, <1>2, <1>3

LEMMA SignedRange ==
  ASSUME NEW size \in Nat, size > 0, NEW u \in Unsigned(size)
  PROVE  AsSigned(u, size) \in Signed(size)
BY DEF AsSigned, Unsigned, Signed

-----------------------------------------------------------------------------
(* What a buffer holds                                                      *)

\* Anything may follow w.
Extends(z, w) == Len(w) <= Len(z) /\ \A i \in 1 .. Len(w) : z[i] = w[i]

LEMMA ExtendsTransitive ==
  ASSUME NEW S, NEW w \in Seq(S), NEW y \in Seq(S), NEW z \in Seq(S),
         Extends(y, w), Extends(z, y)
  PROVE  Extends(z, w)
BY DEF Extends

LEMMA ConcatFacts ==
  ASSUME NEW S, NEW w \in Seq(S), NEW b \in Seq(S)
  PROVE  /\ w \o b \in Seq(S) /\ Len(w \o b) = Len(w) + Len(b)
         /\ Extends(w \o b, w)
         /\ \A i \in 1 .. Len(b) : (w \o b)[Len(w) + i] = b[i]
BY DEF Extends

\* What is read before the end of w is read from every sequence that extends it.
LEMMA ReadsAgree ==
  ASSUME NEW w \in Seq(Byte), NEW z \in Seq(Byte), Extends(z, w), NEW at \in Nat
  PROVE  /\ at + 2 <= Len(w) => U16At(z, at) = U16At(w, at)
         /\ at + 4 <= Len(w) => U32At(z, at) = U32At(w, at)
         /\ at + 8 <= Len(w) => U64At(z, at) = U64At(w, at)
<1>1. ASSUME NEW a \in Nat, a + 2 <= Len(w) PROVE U16At(z, a) = U16At(w, a)
  <2>1. a + 1 \in 1 .. Len(w) /\ a + 2 \in 1 .. Len(w)
    BY <1>1
  <2>2. z[a + 1] = w[a + 1] /\ z[a + 2] = w[a + 2]
    BY <2>1 DEF Extends
  <2>3. QED
    BY <2>2 DEF U16At
<1>2. ASSUME NEW a \in Nat, a + 4 <= Len(w) PROVE U32At(z, a) = U32At(w, a)
  <2>1. a + 2 \in Nat /\ a + 2 <= Len(w) /\ (a + 2) + 2 <= Len(w)
    BY <1>2
  <2>2. U16At(z, a) = U16At(w, a) /\ U16At(z, a + 2) = U16At(w, a + 2)
    BY <1>1, <2>1
  <2>3. QED
    BY <2>2 DEF U32At
<1>3. ASSUME at + 8 <= Len(w) PROVE U64At(z, at) = U64At(w, at)
  <2>1. at + 4 \in Nat /\ at + 4 <= Len(w) /\ (at + 4) + 4 <= Len(w)
    BY <1>3
  <2>2. U32At(z, at) = U32At(w, at) /\ U32At(z, at + 4) = U32At(w, at + 4)
    BY <1>2, <2>1
  <2>3. QED
    BY <2>2 DEF U64At
<1>4. QED
  BY <1>1, <1>2, <1>3

\* A number read anywhere fits its width.
LEMMA ReadsTyped ==
  ASSUME NEW w \in Seq(Byte), NEW at \in Nat
  PROVE  /\ at + 2 <= Len(w) => U16At(w, at) \in Unsigned(SIZE16)
         /\ at + 4 <= Len(w) => U32At(w, at) \in Unsigned(SIZE32)
         /\ at + 8 <= Len(w) => U64At(w, at) \in Unsigned(SIZE64)
<1>1. ASSUME NEW a \in Nat, a + 2 <= Len(w) PROVE U16At(w, a) \in Unsigned(SIZE16)
  <2>1. a + 1 \in 1 .. Len(w) /\ a + 2 \in 1 .. Len(w)
    BY <1>1
  <2>2. w[a + 1] \in Byte /\ w[a + 2] \in Byte
    BY <2>1
  <2>3. w[a + 1] \in 0 .. ByteBase - 1 /\ w[a + 2] \in 0 .. ByteBase - 1
    BY <2>2 DEF Byte, Unsigned
  <2>4. ByteBase \in Nat /\ ByteBase > 0
    BY SizeFacts
  <2>5. w[a + 1] + ByteBase * w[a + 2] \in 0 .. ByteBase * ByteBase - 1
    BY <2>3, <2>4, DigitRange, Zenon
  <2>6. QED
    BY <2>5, Zenon DEF U16At, Unsigned, SIZE16
<1>2. ASSUME NEW a \in Nat, a + 4 <= Len(w) PROVE U32At(w, a) \in Unsigned(SIZE32)
  <2>1. a + 2 \in Nat /\ a + 2 <= Len(w) /\ (a + 2) + 2 <= Len(w)
    BY <1>2
  <2>2. U16At(w, a) \in 0 .. SIZE16 - 1 /\ U16At(w, a + 2) \in 0 .. SIZE16 - 1
    BY <1>1, <2>1 DEF Unsigned
  <2>3. SIZE16 \in Nat /\ SIZE16 > 0
    BY SizeFacts
  <2>4. U16At(w, a) + SIZE16 * U16At(w, a + 2) \in 0 .. SIZE16 * SIZE16 - 1
    BY <2>2, <2>3, DigitRange, Zenon
  <2>5. QED
    BY <2>4, Zenon DEF U32At, Unsigned, SIZE32
<1>3. ASSUME at + 8 <= Len(w) PROVE U64At(w, at) \in Unsigned(SIZE64)
  <2>1. at + 4 \in Nat /\ at + 4 <= Len(w) /\ (at + 4) + 4 <= Len(w)
    BY <1>3
  <2>2. U32At(w, at) \in 0 .. SIZE32 - 1 /\ U32At(w, at + 4) \in 0 .. SIZE32 - 1
    BY <1>2, <2>1 DEF Unsigned
  <2>3. SIZE32 \in Nat /\ SIZE32 > 0
    BY SizeFacts
  <2>4. U32At(w, at) + SIZE32 * U32At(w, at + 4) \in 0 .. SIZE32 * SIZE32 - 1
    BY <2>2, <2>3, DigitRange, Zenon
  <2>5. QED
    BY <2>4, Zenon DEF U64At, Unsigned, SIZE64
<1>4. QED
  BY <1>1, <1>2, <1>3

\* to_le_bytes at the end of a buffer, and from_le_bytes of what it wrote
LEMMA Written16 ==
  ASSUME NEW w \in Seq(Byte), NEW v \in Nat
  PROVE  /\ LeU16(v) \in Seq(Byte) /\ Len(LeU16(v)) = 2
         /\ w \o LeU16(v) \in Seq(Byte) /\ Len(w \o LeU16(v)) = Len(w) + 2
         /\ Extends(w \o LeU16(v), w)
         /\ U16At(w \o LeU16(v), Len(w)) = v % SIZE16
<1>1. PICK x, y : x = v % ByteBase /\ y = (v \div ByteBase) % ByteBase
  OBVIOUS
<1>2. x \in Byte /\ y \in Byte
  BY <1>1, SizeFacts, DivMod, ModRange DEF Byte, Unsigned
<1>3. PICK b : b = <<x, y>>
  OBVIOUS
<1>4. b = LeU16(v)
  BY <1>1, <1>3 DEF LeU16
<1>5. b \in Seq(Byte) /\ Len(b) = 2 /\ b[1] = x /\ b[2] = y
  BY <1>2, <1>3
<1>6. PICK z : z = w \o b
  OBVIOUS
<1>7. /\ z \in Seq(Byte) /\ Len(z) = Len(w) + 2 /\ Extends(z, w)
      /\ z[Len(w) + 1] = x /\ z[Len(w) + 2] = y
  <2>1. /\ z \in Seq(Byte) /\ Len(z) = Len(w) + Len(b) /\ Extends(z, w)
        /\ \A i \in 1 .. Len(b) : z[Len(w) + i] = b[i]
    <3>1. b \in Seq(Byte)
      BY <1>5
    <3>2. /\ w \o b \in Seq(Byte) /\ Len(w \o b) = Len(w) + Len(b)
          /\ Extends(w \o b, w)
          /\ \A i \in 1 .. Len(b) : (w \o b)[Len(w) + i] = b[i]
      BY <3>1, ConcatFacts, Zenon
    <3>3. QED
      BY <1>6, <3>2, Zenon
  <2>2. 1 \in 1 .. Len(b) /\ 2 \in 1 .. Len(b)
    BY <1>5
  <2>3. QED
    BY <1>5, <2>1, <2>2
<1>8. x + ByteBase * y = v % SIZE16
  BY <1>1, DigitsOfSizes
<1>9. QED
  BY <1>4, <1>5, <1>6, <1>7, <1>8 DEF U16At

LEMMA Written32 ==
  ASSUME NEW w \in Seq(Byte), NEW v \in Nat
  PROVE  /\ LeU32(v) \in Seq(Byte) /\ Len(LeU32(v)) = 4
         /\ w \o LeU32(v) \in Seq(Byte) /\ Len(w \o LeU32(v)) = Len(w) + 4
         /\ Extends(w \o LeU32(v), w)
         /\ U32At(w \o LeU32(v), Len(w)) = v % SIZE32
<1>1. PICK h \in Nat : h = v \div SIZE16
  BY SizeFacts, DivMod
<1>2. PICK a, b : a = LeU16(v) /\ b = LeU16(h)
  OBVIOUS
<1>3. a \in Seq(Byte) /\ Len(a) = 2 /\ b \in Seq(Byte) /\ Len(b) = 2
  BY <1>2, Written16
<1>4. a \o b \in Seq(Byte) /\ Len(a \o b) = 4 /\ LeU32(v) = a \o b
  <2>1. a \o b \in Seq(Byte) /\ Len(a \o b) = Len(a) + Len(b)
    BY <1>3, ConcatFacts
  <2>2. LeU32(v) = a \o b
    BY <1>1, <1>2 DEF LeU32
  <2>3. QED
    BY <1>3, <2>1, <2>2
<1>5. PICK y : y = w \o a
  OBVIOUS
<1>6. /\ y \in Seq(Byte) /\ Len(y) = Len(w) + 2 /\ Extends(y, w)
      /\ U16At(y, Len(w)) = v % SIZE16
  BY <1>2, <1>5, Written16
<1>7. PICK z : z = y \o b
  OBVIOUS
<1>8. /\ z \in Seq(Byte) /\ Len(z) = Len(y) + 2 /\ Extends(z, y)
      /\ U16At(z, Len(y)) = h % SIZE16
  BY <1>2, <1>6, <1>7, Written16
<1>9. z = w \o (a \o b)
  BY <1>3, <1>5, <1>7, SMT
<1>10. U16At(z, Len(w)) = v % SIZE16 /\ U16At(z, Len(w) + 2) = h % SIZE16
  <2>1. Len(w) \in Nat /\ Len(w) + 2 <= Len(y)
    BY <1>6
  <2>2. QED
    BY <1>6, <1>8, <2>1, ReadsAgree
<1>11. U32At(z, Len(w)) = v % SIZE32
  BY <1>1, <1>10, DigitsOfSizes DEF U32At
<1>12. Len(z) = Len(w) + 4 /\ Extends(z, w)
  BY <1>6, <1>8, ExtendsTransitive
<1>13. QED
  BY <1>4, <1>8, <1>9, <1>11, <1>12

LEMMA Written64 ==
  ASSUME NEW w \in Seq(Byte), NEW v \in Nat
  PROVE  /\ LeU64(v) \in Seq(Byte) /\ Len(LeU64(v)) = 8
         /\ w \o LeU64(v) \in Seq(Byte) /\ Len(w \o LeU64(v)) = Len(w) + 8
         /\ Extends(w \o LeU64(v), w)
         /\ U64At(w \o LeU64(v), Len(w)) = v % SIZE64
<1>1. PICK h \in Nat : h = v \div SIZE32
  BY SizeFacts, DivMod
<1>2. PICK a, b : a = LeU32(v) /\ b = LeU32(h)
  OBVIOUS
<1>3. a \in Seq(Byte) /\ Len(a) = 4 /\ b \in Seq(Byte) /\ Len(b) = 4
  BY <1>2, Written32
<1>4. a \o b \in Seq(Byte) /\ Len(a \o b) = 8 /\ LeU64(v) = a \o b
  <2>1. a \o b \in Seq(Byte) /\ Len(a \o b) = Len(a) + Len(b)
    BY <1>3, ConcatFacts
  <2>2. LeU64(v) = a \o b
    BY <1>1, <1>2 DEF LeU64
  <2>3. QED
    BY <1>3, <2>1, <2>2
<1>5. PICK y : y = w \o a
  OBVIOUS
<1>6. /\ y \in Seq(Byte) /\ Len(y) = Len(w) + 4 /\ Extends(y, w)
      /\ U32At(y, Len(w)) = v % SIZE32
  BY <1>2, <1>5, Written32
<1>7. PICK z : z = y \o b
  OBVIOUS
<1>8. /\ z \in Seq(Byte) /\ Len(z) = Len(y) + 4 /\ Extends(z, y)
      /\ U32At(z, Len(y)) = h % SIZE32
  BY <1>2, <1>6, <1>7, Written32
<1>9. z = w \o (a \o b)
  BY <1>3, <1>5, <1>7, SMT
<1>10. U32At(z, Len(w)) = v % SIZE32 /\ U32At(z, Len(w) + 4) = h % SIZE32
  <2>1. Len(w) \in Nat /\ Len(w) + 4 <= Len(y)
    BY <1>6
  <2>2. QED
    BY <1>6, <1>8, <2>1, ReadsAgree
<1>11. U64At(z, Len(w)) = v % SIZE64
  BY <1>1, <1>10, DigitsOfSizes DEF U64At
<1>12. Len(z) = Len(w) + 8 /\ Extends(z, w)
  BY <1>6, <1>8, ExtendsTransitive
<1>13. QED
  BY <1>4, <1>8, <1>9, <1>11, <1>12

-----------------------------------------------------------------------------
(* CdrSerializer                                                            *)

Cdr(n, w) == [cap |-> n, bytes |-> w]

LEMMA Fits ==
  ASSUME NEW n \in Nat, NEW w \in Seq(Byte), NEW b \in Seq(Byte), Len(w) + Len(b) <= n
  PROVE  Write(Cdr(n, w), b) = Cdr(n, w \o b)
<1>1. Cdr(n, w).cap = n /\ Cdr(n, w).bytes = w
  BY DEF Cdr
<1>2. Write(Cdr(n, w), b) = [Cdr(n, w) EXCEPT !.bytes = w \o b]
  BY <1>1 DEF Write
<1>3. PICK z : z = w \o b
  OBVIOUS
<1>4. [Cdr(n, w) EXCEPT !.bytes = z] = Cdr(n, z)
  BY DEF Cdr
<1>5. QED
  BY <1>2, <1>3, <1>4

\* A value that fits is found where the buffer ended, for good.
LEMMA WroteU32 ==
  ASSUME NEW n \in Nat, NEW w \in Seq(Byte), NEW v \in Unsigned(SIZE32), Len(w) + 4 <= n
  PROVE  \E z \in Seq(Byte) :
           /\ WriteU32(Cdr(n, w), v) = Cdr(n, z)
           /\ Len(z) = Len(w) + 4 /\ Extends(z, w) /\ U32At(z, Len(w)) = v
<1>1. v \in Nat /\ v % SIZE32 = v
  BY SizeFacts DEF Unsigned
<1>2. PICK b : b = LeU32(v)
  OBVIOUS
<1>3. /\ b \in Seq(Byte) /\ Len(b) = 4 /\ w \o b \in Seq(Byte)
      /\ Len(w \o b) = Len(w) + 4 /\ Extends(w \o b, w) /\ U32At(w \o b, Len(w)) = v
  BY <1>1, <1>2, Written32
<1>4. WriteU32(Cdr(n, w), v) = Cdr(n, w \o b)
  BY <1>2, <1>3, Fits DEF WriteU32
<1>5. QED
  BY <1>3, <1>4

LEMMA WroteU64 ==
  ASSUME NEW n \in Nat, NEW w \in Seq(Byte), NEW v \in Unsigned(SIZE64), Len(w) + 8 <= n
  PROVE  \E z \in Seq(Byte) :
           /\ WriteU64(Cdr(n, w), v) = Cdr(n, z)
           /\ Len(z) = Len(w) + 8 /\ Extends(z, w) /\ U64At(z, Len(w)) = v
<1>1. v \in Nat /\ v % SIZE64 = v
  BY SizeFacts DEF Unsigned
<1>2. PICK b : b = LeU64(v)
  OBVIOUS
<1>3. /\ b \in Seq(Byte) /\ Len(b) = 8 /\ w \o b \in Seq(Byte)
      /\ Len(w \o b) = Len(w) + 8 /\ Extends(w \o b, w) /\ U64At(w \o b, Len(w)) = v
  BY <1>1, <1>2, Written64
<1>4. WriteU64(Cdr(n, w), v) = Cdr(n, w \o b)
  BY <1>2, <1>3, Fits DEF WriteU64
<1>5. QED
  BY <1>3, <1>4

LEMMA WroteI32 ==
  ASSUME NEW n \in Nat, NEW w \in Seq(Byte), NEW v \in Signed(SIZE32), Len(w) + 4 <= n
  PROVE  \E z \in Seq(Byte) :
           /\ WriteI32(Cdr(n, w), v) = Cdr(n, z)
           /\ Len(z) = Len(w) + 4 /\ Extends(z, w) /\ I32At(z, Len(w)) = v
<1>1. PICK u \in Unsigned(SIZE32) : u = AsUnsigned(v, SIZE32) /\ AsSigned(u, SIZE32) = v
  BY SizeFacts, CastAndBack
<1>2. PICK z \in Seq(Byte) :
        /\ WriteU32(Cdr(n, w), u) = Cdr(n, z)
        /\ Len(z) = Len(w) + 4 /\ Extends(z, w) /\ U32At(z, Len(w)) = u
  BY WroteU32
<1>3. QED
  BY <1>1, <1>2 DEF WriteI32, I32At

LEMMA WroteI16 ==
  ASSUME NEW n \in Nat, NEW w \in Seq(Byte), NEW v \in Signed(SIZE16), Len(w) + 2 <= n
  PROVE  \E z \in Seq(Byte) :
           /\ WriteI16(Cdr(n, w), v) = Cdr(n, z)
           /\ Len(z) = Len(w) + 2 /\ Extends(z, w) /\ I16At(z, Len(w)) = v
<1>1. PICK u \in Unsigned(SIZE16) : u = AsUnsigned(v, SIZE16) /\ AsSigned(u, SIZE16) = v
  BY SizeFacts, CastAndBack
<1>2. u \in Nat /\ u % SIZE16 = u
  BY SizeFacts DEF Unsigned
<1>3. PICK b : b = LeU16(u)
  OBVIOUS
<1>4. /\ b \in Seq(Byte) /\ Len(b) = 2 /\ w \o b \in Seq(Byte)
      /\ Len(w \o b) = Len(w) + 2 /\ Extends(w \o b, w) /\ U16At(w \o b, Len(w)) = u
  BY <1>2, <1>3, Written16
<1>5. WriteI16(Cdr(n, w), v) = Cdr(n, w \o b)
  BY <1>1, <1>3, <1>4, Fits DEF WriteI16
<1>6. QED
  BY <1>1, <1>4, <1>5 DEF I16At

\* The packets every field of which has its width
ImuPackets ==
  [kind : {"Imu"}, sequence : Unsigned(SIZE32), timestamp_us : Unsigned(SIZE64),
   loop_time_us : Unsigned(SIZE32), pitch_millideg : Signed(SIZE32),
   roll_millideg : Signed(SIZE32), rest : [1 .. 3 -> Signed(SIZE32)]]
OdomPackets ==
  [kind : {"Odometry"}, sequence : Unsigned(SIZE32), timestamp_us : Unsigned(SIZE64),
   loop_time_us : Unsigned(SIZE32), left_speed : Signed(SIZE16),
   right_speed : Signed(SIZE16)]
Packets == ImuPackets \cup OdomPackets

\* What both packets begin with
LEMMA CommonFields ==
  ASSUME NEW n \in Nat, n >= 16, NEW p \in Packets
  PROVE  \E z \in Seq(Byte) :
           /\ WriteU32(WriteU64(WriteU32(NewCdr(n), p.sequence), p.timestamp_us),
                       p.loop_time_us) = Cdr(n, z)
           /\ Len(z) = 16
           /\ U32At(z, 0) = p.sequence /\ U64At(z, 4) = p.timestamp_us
           /\ U32At(z, 12) = p.loop_time_us
<1>1. /\ p.sequence \in Unsigned(SIZE32) /\ p.timestamp_us \in Unsigned(SIZE64)
      /\ p.loop_time_us \in Unsigned(SIZE32)
  BY DEF Packets, ImuPackets, OdomPackets
<1>2. PICK w \in Seq(Byte) : w = <<>> /\ Len(w) = 0 /\ NewCdr(n) = Cdr(n, w)
  <2>1. <<>> \in Seq(Byte) /\ Len(<<>>) = 0 /\ NewCdr(n) = Cdr(n, <<>>)
    BY DEF NewCdr, Cdr
  <2>2. QED
    BY <2>1, Zenon
<1>3. PICK a \in Seq(Byte) :
        /\ WriteU32(Cdr(n, w), p.sequence) = Cdr(n, a)
        /\ Len(a) = Len(w) + 4 /\ Extends(a, w) /\ U32At(a, Len(w)) = p.sequence
  <2>1. Len(w) + 4 <= n
    BY <1>2
  <2>2. QED
    BY <1>1, <2>1, WroteU32, Zenon
<1>4. PICK b \in Seq(Byte) :
        /\ WriteU64(Cdr(n, a), p.timestamp_us) = Cdr(n, b)
        /\ Len(b) = Len(a) + 8 /\ Extends(b, a) /\ U64At(b, Len(a)) = p.timestamp_us
  <2>1. Len(a) + 8 <= n
    BY <1>2, <1>3
  <2>2. QED
    BY <1>1, <2>1, WroteU64, Zenon
<1>5. PICK c \in Seq(Byte) :
        /\ WriteU32(Cdr(n, b), p.loop_time_us) = Cdr(n, c)
        /\ Len(c) = Len(b) + 4 /\ Extends(c, b) /\ U32At(c, Len(b)) = p.loop_time_us
  <2>1. Len(b) + 4 <= n
    BY <1>2, <1>3, <1>4
  <2>2. QED
    BY <1>1, <2>1, WroteU32, Zenon
<1>6. Len(a) = 4 /\ Len(b) = 12 /\ Len(c) = 16
  BY <1>2, <1>3, <1>4, <1>5
<1>7. Extends(c, a)
  BY <1>4, <1>5, ExtendsTransitive
<1>8. /\ Len(w) + 4 <= Len(a) => U32At(c, Len(w)) = U32At(a, Len(w))
      /\ Len(a) + 8 <= Len(b) => U64At(c, Len(a)) = U64At(b, Len(a))
  BY <1>5, <1>7, ReadsAgree
<1>9. U32At(c, 0) = p.sequence /\ U64At(c, 4) = p.timestamp_us /\ U32At(c, 12) = p.loop_time_us
  BY <1>2, <1>3, <1>4, <1>5, <1>6, <1>8
<1>10. QED
  BY <1>2, <1>3, <1>4, <1>5, <1>6, <1>9

\* z is w with two integers behind it.
TwoI32(n, w, u, v, z) ==
  /\ WriteI32(WriteI32(Cdr(n, w), u), v) = Cdr(n, z)
  /\ Len(z) = Len(w) + 8 /\ Extends(z, w)
  /\ I32At(z, Len(w)) = u /\ I32At(z, Len(w) + 4) = v

LEMMA WroteTwoI32 ==
  ASSUME NEW n \in Nat, NEW w \in Seq(Byte), NEW u \in Signed(SIZE32),
         NEW v \in Signed(SIZE32), Len(w) + 8 <= n
  PROVE  \E z \in Seq(Byte) : TwoI32(n, w, u, v, z)
<1>1. PICK y \in Seq(Byte) :
        /\ WriteI32(Cdr(n, w), u) = Cdr(n, y)
        /\ Len(y) = Len(w) + 4 /\ Extends(y, w) /\ I32At(y, Len(w)) = u
  <2>1. Len(w) + 4 <= n
    OBVIOUS
  <2>2. QED
    BY <2>1, WroteI32, Zenon
<1>2. Len(w) \in Nat /\ Len(y) = Len(w) + 4
  BY <1>1
<1>3. PICK z \in Seq(Byte) :
        /\ WriteI32(Cdr(n, y), v) = Cdr(n, z)
        /\ Len(z) = Len(y) + 4 /\ Extends(z, y) /\ I32At(z, Len(y)) = v
  <2>1. Len(y) + 4 <= n
    BY <1>2
  <2>2. QED
    BY <2>1, WroteI32, Zenon
<1>4. Len(z) = Len(w) + 8
  BY <1>2, <1>3
<1>5. Extends(z, w)
  BY <1>1, <1>3, ExtendsTransitive
<1>6. I32At(z, Len(w)) = u
  <2>1. Len(w) + 4 <= Len(y) => U32At(z, Len(w)) = U32At(y, Len(w))
    BY <1>2, <1>3, ReadsAgree
  <2>2. QED
    BY <1>1, <1>2, <2>1 DEF I32At
<1>7. QED
  BY <1>1, <1>2, <1>3, <1>4, <1>5, <1>6 DEF TwoI32

LEMMA ImuRoundTrip ==
  ASSUME NEW p \in ImuPackets
  PROVE  /\ ImuToCdr(p) \in Seq(Byte) /\ Len(ImuToCdr(p)) = ImuSize
         /\ ImuFromCdr(ImuToCdr(p)) = p
<1>1. /\ p.pitch_millideg \in Signed(SIZE32) /\ p.roll_millideg \in Signed(SIZE32)
      /\ p.rest \in [1 .. 3 -> Signed(SIZE32)]
  BY DEF ImuPackets
<1>2. PICK r1 \in Signed(SIZE32), r2 \in Signed(SIZE32), r3 \in Signed(SIZE32) :
        r1 = p.rest[1] /\ r2 = p.rest[2] /\ r3 = p.rest[3]
  BY <1>1
<1>3. PICK n \in Nat : n = ImuSize /\ n = 36
  BY DEF ImuSize
<1>4. PICK c \in Seq(Byte) :
        /\ WriteU32(WriteU64(WriteU32(NewCdr(n), p.sequence), p.timestamp_us),
                    p.loop_time_us) = Cdr(n, c)
        /\ Len(c) = 16
        /\ U32At(c, 0) = p.sequence /\ U64At(c, 4) = p.timestamp_us
        /\ U32At(c, 12) = p.loop_time_us
  BY <1>3, CommonFields DEF Packets
<1>5. PICK e \in Seq(Byte) :
        /\ WriteI32(WriteI32(Cdr(n, c), p.pitch_millideg), p.roll_millideg) = Cdr(n, e)
        /\ Len(e) = 24 /\ Extends(e, c)
        /\ I32At(e, 16) = p.pitch_millideg /\ I32At(e, 20) = p.roll_millideg
  <2>1. Len(c) + 8 <= n
    BY <1>3, <1>4
  <2>2. PICK e \in Seq(Byte) : TwoI32(n, c, p.pitch_millideg, p.roll_millideg, e)
    BY <1>1, <2>1, WroteTwoI32
  <2>3. QED
    BY <1>4, <2>2 DEF TwoI32
<1>6. PICK g \in Seq(Byte) :
        /\ WriteI32(WriteI32(Cdr(n, e), r1), r2) = Cdr(n, g)
        /\ Len(g) = 32 /\ Extends(g, e) /\ I32At(g, 24) = r1 /\ I32At(g, 28) = r2
  <2>1. Len(e) + 8 <= n
    BY <1>3, <1>5
  <2>2. PICK g \in Seq(Byte) : TwoI32(n, e, r1, r2, g)
    BY <2>1, WroteTwoI32
  <2>3. QED
    BY <1>5, <2>2 DEF TwoI32
<1>7. PICK h \in Seq(Byte) :
        /\ WriteI32(Cdr(n, g), r3) = Cdr(n, h)
        /\ Len(h) = 36 /\ Extends(h, g) /\ I32At(h, 32) = r3
  <2>1. Len(g) + 4 <= n
    BY <1>3, <1>6
  <2>2. PICK h \in Seq(Byte) :
          /\ WriteI32(Cdr(n, g), r3) = Cdr(n, h)
          /\ Len(h) = Len(g) + 4 /\ Extends(h, g) /\ I32At(h, Len(g)) = r3
    BY <2>1, WroteI32
  <2>3. Len(g) = 32
    BY <1>6
  <2>4. QED
    BY <2>2, <2>3
<1>8. ImuToCdr(p) = h
  <2>1. ImuToCdr(p) = Cdr(n, h).bytes
    BY <1>2, <1>3, <1>4, <1>5, <1>6, <1>7, Zenon DEF ImuToCdr
  <2>2. QED
    BY <2>1 DEF Cdr
<1>9. Extends(h, e) /\ Extends(h, c)
  <2>1. Extends(h, e)
    BY <1>6, <1>7, ExtendsTransitive
  <2>2. QED
    BY <1>5, <2>1, ExtendsTransitive
<1>10. /\ U32At(h, 0) = p.sequence /\ U64At(h, 4) = p.timestamp_us
       /\ U32At(h, 12) = p.loop_time_us
  <2>1. /\ 0 + 4 <= Len(c) => U32At(h, 0) = U32At(c, 0)
        /\ 4 + 8 <= Len(c) => U64At(h, 4) = U64At(c, 4)
        /\ 12 + 4 <= Len(c) => U32At(h, 12) = U32At(c, 12)
    BY <1>9, ReadsAgree
  <2>2. QED
    BY <1>4, <2>1
<1>11. I32At(h, 16) = p.pitch_millideg /\ I32At(h, 20) = p.roll_millideg
  <2>1. /\ 16 + 4 <= Len(e) => U32At(h, 16) = U32At(e, 16)
        /\ 20 + 4 <= Len(e) => U32At(h, 20) = U32At(e, 20)
    BY <1>9, ReadsAgree
  <2>2. QED
    BY <1>5, <2>1 DEF I32At
<1>12. I32At(h, 24) = r1 /\ I32At(h, 28) = r2
  <2>1. /\ 24 + 4 <= Len(g) => U32At(h, 24) = U32At(g, 24)
        /\ 28 + 4 <= Len(g) => U32At(h, 28) = U32At(g, 28)
    BY <1>7, ReadsAgree
  <2>2. QED
    BY <1>6, <2>1 DEF I32At
<1>13. [i \in 1 .. 3 |-> I32At(h, 20 + 4 * i)] = p.rest
  <2>1. /\ 20 + 4 * 1 = 24 /\ 20 + 4 * 2 = 28 /\ 20 + 4 * 3 = 32
        /\ \A i \in 1 .. 3 : i = 1 \/ i = 2 \/ i = 3
    OBVIOUS
  <2>2. \A i \in 1 .. 3 : I32At(h, 20 + 4 * i) = p.rest[i]
    BY <1>2, <1>7, <1>12, <2>1, Zenon
  <2>3. QED
    BY <1>1, <2>2
<1>14. ImuFromCdr(h) =
         [kind |-> "Imu", sequence |-> p.sequence, timestamp_us |-> p.timestamp_us,
          loop_time_us |-> p.loop_time_us, pitch_millideg |-> p.pitch_millideg,
          roll_millideg |-> p.roll_millideg, rest |-> p.rest]
  <2>1. ~(Len(h) < ImuSize)
    BY <1>3, <1>7
  <2>2. QED
    BY <1>10, <1>11, <1>13, <2>1, Zenon DEF ImuFromCdr
<1>15. ImuFromCdr(h) = p
  BY <1>14 DEF ImuPackets
<1>16. QED
  BY <1>3, <1>7, <1>8, <1>15

LEMMA OdomRoundTrip ==
  ASSUME NEW p \in OdomPackets
  PROVE  /\ OdomToCdr(p) \in Seq(Byte) /\ Len(OdomToCdr(p)) = OdomSize
         /\ OdomFromCdr(OdomToCdr(p)) = p
<1>1. p.left_speed \in Signed(SIZE16) /\ p.right_speed \in Signed(SIZE16)
  BY DEF OdomPackets
<1>2. PICK n \in Nat : n = OdomSize /\ n = 20
  BY DEF OdomSize
<1>3. PICK c \in Seq(Byte) :
        /\ WriteU32(WriteU64(WriteU32(NewCdr(n), p.sequence), p.timestamp_us),
                    p.loop_time_us) = Cdr(n, c)
        /\ Len(c) = 16
        /\ U32At(c, 0) = p.sequence /\ U64At(c, 4) = p.timestamp_us
        /\ U32At(c, 12) = p.loop_time_us
  BY <1>2, CommonFields DEF Packets
<1>4. PICK d \in Seq(Byte) :
        /\ WriteI16(Cdr(n, c), p.left_speed) = Cdr(n, d)
        /\ Len(d) = Len(c) + 2 /\ Extends(d, c) /\ I16At(d, Len(c)) = p.left_speed
  <2>1. Len(c) + 2 <= n
    BY <1>2, <1>3
  <2>2. QED
    BY <1>1, <2>1, WroteI16, Zenon
<1>5. PICK e \in Seq(Byte) :
        /\ WriteI16(Cdr(n, d), p.right_speed) = Cdr(n, e)
        /\ Len(e) = Len(d) + 2 /\ Extends(e, d) /\ I16At(e, Len(d)) = p.right_speed
  <2>1. Len(d) + 2 <= n
    BY <1>2, <1>3, <1>4
  <2>2. QED
    BY <1>1, <2>1, WroteI16, Zenon
<1>6. Len(d) = 18 /\ Len(e) = 20
  BY <1>3, <1>4, <1>5
<1>7. OdomToCdr(p) = e
  <2>1. OdomToCdr(p) = Cdr(n, e).bytes
    BY <1>2, <1>3, <1>4, <1>5, Zenon DEF OdomToCdr
  <2>2. QED
    BY <2>1 DEF Cdr
<1>8. Extends(e, c)
  BY <1>4, <1>5, ExtendsTransitive
<1>9. /\ U32At(e, 0) = p.sequence /\ U64At(e, 4) = p.timestamp_us
      /\ U32At(e, 12) = p.loop_time_us
  <2>1. /\ 0 + 4 <= Len(c) => U32At(e, 0) = U32At(c, 0)
        /\ 4 + 8 <= Len(c) => U64At(e, 4) = U64At(c, 4)
        /\ 12 + 4 <= Len(c) => U32At(e, 12) = U32At(c, 12)
    BY <1>8, ReadsAgree
  <2>2. QED
    BY <1>3, <2>1
<1>10. I16At(e, 16) = p.left_speed /\ I16At(e, 18) = p.right_speed
  <2>1. Len(c) + 2 <= Len(d) => U16At(e, Len(c)) = U16At(d, Len(c))
    BY <1>5, ReadsAgree
  <2>2. I16At(e, Len(c)) = p.left_speed /\ I16At(e, Len(d)) = p.right_speed
    BY <1>4, <1>5, <2>1 DEF I16At
  <2>3. QED
    BY <1>3, <1>6, <2>2
<1>11. OdomFromCdr(e) =
         [kind |-> "Odometry", sequence |-> p.sequence, timestamp_us |-> p.timestamp_us,
          loop_time_us |-> p.loop_time_us, left_speed |-> p.left_speed,
          right_speed |-> p.right_speed]
  <2>1. ~(Len(e) < OdomSize)
    BY <1>2, <1>6
  <2>2. QED
    BY <1>9, <1>10, <2>1, Zenon DEF OdomFromCdr
<1>12. OdomFromCdr(e) = p
  BY <1>11 DEF OdomPackets
<1>13. QED
  BY <1>2, <1>6, <1>7, <1>12

\* Whatever bytes are decoded, every field of the packet has its width.
LEMMA DecodedTyped ==
  ASSUME NEW w \in Seq(Byte)
  PROVE  /\ Len(w) >= ImuSize => ImuFromCdr(w) \in ImuPackets
         /\ Len(w) >= OdomSize => OdomFromCdr(w) \in OdomPackets
<1>1. ASSUME NEW at \in Nat, at + 4 <= Len(w) PROVE I32At(w, at) \in Signed(SIZE32)
  BY <1>1, SizeFacts, ReadsTyped, SignedRange DEF I32At
<1>2. ASSUME NEW at \in Nat, at + 2 <= Len(w) PROVE I16At(w, at) \in Signed(SIZE16)
  BY <1>2, SizeFacts, ReadsTyped, SignedRange DEF I16At
<1>3. ASSUME Len(w) >= 16
      PROVE  /\ U32At(w, 0) \in Unsigned(SIZE32) /\ U64At(w, 4) \in Unsigned(SIZE64)
             /\ U32At(w, 12) \in Unsigned(SIZE32)
  BY <1>3, ReadsTyped
<1>4. ASSUME Len(w) >= ImuSize PROVE ImuFromCdr(w) \in ImuPackets
  <2>1. Len(w) >= 36 /\ ~(Len(w) < ImuSize)
    BY <1>4 DEF ImuSize
  <2>2. I32At(w, 16) \in Signed(SIZE32) /\ I32At(w, 20) \in Signed(SIZE32)
    BY <1>1, <2>1
  <2>3. \A i \in 1 .. 3 : I32At(w, 20 + 4 * i) \in Signed(SIZE32)
    BY <1>1, <2>1
  <2>4. PICK f \in [1 .. 3 -> Signed(SIZE32)] : f = [i \in 1 .. 3 |-> I32At(w, 20 + 4 * i)]
    BY <2>3
  <2>5. ImuFromCdr(w) =
          [kind |-> "Imu", sequence |-> U32At(w, 0), timestamp_us |-> U64At(w, 4),
           loop_time_us |-> U32At(w, 12), pitch_millideg |-> I32At(w, 16),
           roll_millideg |-> I32At(w, 20), rest |-> f]
    BY <2>1, <2>4, Zenon DEF ImuFromCdr
  <2>6. Len(w) >= 16
    BY <2>1
  <2>7. QED
    BY <1>3, <2>2, <2>5, <2>6 DEF ImuPackets
<1>5. ASSUME Len(w) >= OdomSize PROVE OdomFromCdr(w) \in OdomPackets
  <2>1. Len(w) >= 20 /\ ~(Len(w) < OdomSize)
    BY <1>5 DEF OdomSize
  <2>2. I16At(w, 16) \in Signed(SIZE16) /\ I16At(w, 18) \in Signed(SIZE16)
    BY <1>2, <2>1
  <2>3. OdomFromCdr(w) =
          [kind |-> "Odometry", sequence |-> U32At(w, 0), timestamp_us |-> U64At(w, 4),
           loop_time_us |-> U32At(w, 12), left_speed |-> I16At(w, 16),
           right_speed |-> I16At(w, 18)]
    BY <2>1, Zenon DEF OdomFromCdr
  <2>4. Len(w) >= 16
    BY <2>1
  <2>5. QED
    BY <1>3, <2>2, <2>3, <2>4 DEF OdomPackets
<1>6. QED
  BY <1>4, <1>5

-----------------------------------------------------------------------------
(* Wire: the types of what moves                                            *)

Entries == [packet : Packets, before : Nat]

LEMMA WireFacts ==
  /\ Capacity \in Nat /\ TELEMETRY_QUEUE_HIGH_WATER_MARK \in Nat
  /\ MaxCore1Pushes \in Nat
  /\ TELEMETRY_QUEUE_HIGH_WATER_MARK + MaxCore1Pushes <= Capacity
  /\ SeqBound \in Nat /\ SeqBound > 0 /\ SeqBound <= SIZE32
BY WireAssumption

LEMMA PacketKinds ==
  /\ \A p \in Packets : p.kind \in Kind /\ p.sequence \in Nat
  /\ NoPacket \notin Packets /\ NoEntry \notin Entries
<1>1. \A p \in Packets : p.kind \in Kind /\ p.sequence \in Nat
  <2>1. \A p \in Packets : p.sequence \in Unsigned(SIZE32)
    BY DEF Packets, ImuPackets, OdomPackets
  <2>2. Unsigned(SIZE32) \subseteq Nat
    BY SizeFacts DEF Unsigned
  <2>3. QED
    BY <2>1, <2>2 DEF Packets, ImuPackets, OdomPackets, Kind
<1>2. NoPacket \notin Packets
  <2>1. NoPacket.kind = "none"
    BY DEF NoPacket
  <2>2. QED
    BY <1>1, <2>1 DEF Kind
<1>3. NoEntry \notin Entries
  BY <1>2 DEF NoEntry, Entries
<1>4. QED
  BY <1>1, <1>2, <1>3

\* What is behind the first element of a frame
LEMMA BehindFirst ==
  ASSUME NEW S, NEW t, NEW b \in Seq(S)
  PROVE  /\ <<t>> \o b # <<>> /\ (<<t>> \o b)[1] = t
         /\ Tail(<<t>> \o b) = b /\ Len(<<t>> \o b) = Len(b) + 1
<1>1. <<t>> \in Seq(S \cup {t}) /\ b \in Seq(S \cup {t})
  OBVIOUS
<1>2. PICK z : z = <<t>> \o b
  OBVIOUS
<1>3. /\ z \in Seq(S \cup {t}) /\ Len(z) = Len(b) + 1 /\ Len(b) \in Nat /\ z[1] = t
      /\ \A i \in 1 .. Len(b) : z[i + 1] = b[i]
  BY <1>1, <1>2
<1>4. z # <<>>
  BY <1>3
<1>5. PICK u : u = Tail(z)
  OBVIOUS
<1>6. /\ u \in Seq(S \cup {t}) /\ Len(u) = Len(b)
      /\ \A i \in 1 .. Len(b) : u[i] = z[i + 1]
  BY <1>3, <1>4, <1>5
<1>7. u = b
  BY <1>1, <1>3, <1>6
<1>8. QED
  BY <1>2, <1>3, <1>4, <1>5, <1>7

\* The PC decodes the packet, and no board takes the frame for a command: the
\* length in its header is one more than the payload has.
LEMMA FrameFacts ==
  ASSUME NEW p \in Packets
  PROVE  /\ PcDecodes(TelemetryFrame(Serialize(p))) = p
         /\ ~Accepted(TelemetryFrame(Serialize(p)))
<1>1. PICK t \in {TYPE_IMU, TYPE_ODOMETRY}, b \in Seq(Byte) :
        /\ Serialize(p) = <<t>> \o b
        /\ t = TYPE_IMU => ImuFromCdr(b) = p
        /\ t = TYPE_ODOMETRY => OdomFromCdr(b) = p
  <2>0. TYPE_IMU # TYPE_ODOMETRY
    BY DEF TYPE_IMU, TYPE_ODOMETRY
  <2>1. CASE p \in ImuPackets
    <3>1. p.kind = "Imu"
      BY <2>1 DEF ImuPackets
    <3>2. Serialize(p) = <<TYPE_IMU>> \o ImuToCdr(p)
      BY <3>1 DEF Serialize
    <3>3. QED
      BY <2>0, <2>1, <3>2, ImuRoundTrip, Zenon
  <2>2. CASE p \in OdomPackets
    <3>1. p.kind # "Imu"
      BY <2>2 DEF OdomPackets
    <3>2. Serialize(p) = <<TYPE_ODOMETRY>> \o OdomToCdr(p)
      BY <3>1 DEF Serialize
    <3>3. QED
      BY <2>0, <2>2, <3>2, OdomRoundTrip, Zenon
  <2>3. QED
    BY <2>1, <2>2 DEF Packets
<1>2. PICK s : s = <<t>> \o b
  OBVIOUS
<1>3. s # <<>> /\ s[1] = t /\ Tail(s) = b /\ Len(s) = Len(b) + 1 /\ Len(b) \in Nat
  BY <1>2, BehindFirst
<1>4. TelemetryFrame(s) = [cmd |-> t, len |-> Len(b) + 1, payload |-> b]
  BY <1>3 DEF TelemetryFrame
<1>5. Deserialize(s) = p
  <2>1. TYPE_IMU # TYPE_ODOMETRY
    BY DEF TYPE_IMU, TYPE_ODOMETRY
  <2>2. CASE t = TYPE_IMU
    BY <1>1, <1>3, <2>1, <2>2, Zenon DEF Deserialize
  <2>3. CASE t = TYPE_ODOMETRY
    <3>1. ~(s # <<>> /\ s[1] = TYPE_IMU) /\ s # <<>> /\ s[1] = TYPE_ODOMETRY
      BY <1>3, <2>1, <2>3, Zenon
    <3>2. Deserialize(s) = OdomFromCdr(Tail(s))
      BY <3>1, SMT DEF Deserialize
    <3>3. QED
      BY <1>1, <1>3, <2>3, <3>2, Zenon
  <2>4. QED
    BY <2>2, <2>3
<1>6. PcDecodes(TelemetryFrame(s)) = p
  BY <1>2, <1>4, <1>5 DEF PcDecodes
<1>7. ~Accepted(TelemetryFrame(s))
  BY <1>3, <1>4 DEF Accepted
<1>8. QED
  BY <1>1, <1>2, <1>6, <1>7

\* What Core 1 makes
LEMMA Core1Typed ==
  ASSUME core1 \in Kind, seq["core1"][core1] \in 0 .. SeqBound - 1, NEW p \in Core1Packets
  PROVE  p \in Packets /\ p.kind = core1 /\ p.sequence = seq["core1"][core1]
<1>1. PICK n \in Unsigned(SIZE32) : n = seq["core1"][core1]
  BY WireFacts, SizeFacts DEF Unsigned
<1>2. PICK c \in Unsigned(SIZE32), z \in Signed(SIZE32) : c = NOMINAL_LOOP_TIME_US /\ z = 0
  BY SizeFacts DEF Unsigned, Signed, NOMINAL_LOOP_TIME_US
<1>3. PICK rest \in [1 .. 3 -> Signed(SIZE32)] : rest = <<0, 0, 0>>
  <2>1. <<z, z, z>> \in [1 .. 3 -> Signed(SIZE32)]
    OBVIOUS
  <2>2. QED
    BY <1>2, <2>1
<1>4. CASE core1 = "Imu"
  <2>1. PICK t \in Times, r \in Readings : p = Imu(n, t, r)
    BY <1>1, <1>4 DEF Core1Packets
  <2>2. t \in Unsigned(SIZE64) /\ r[1] \in Signed(SIZE32) /\ r[2] \in Signed(SIZE32)
    BY WireAssumption
  <2>3. p = [kind |-> "Imu", sequence |-> n, timestamp_us |-> t, loop_time_us |-> c,
             pitch_millideg |-> r[1], roll_millideg |-> r[2], rest |-> rest]
    BY <1>2, <1>3, <2>1 DEF Imu
  <2>4. p \in ImuPackets
    BY <2>2, <2>3 DEF ImuPackets
  <2>5. QED
    BY <1>1, <1>4, <2>3, <2>4 DEF Packets
<1>5. CASE core1 = "Odometry"
  <2>1. PICK t \in Times, s \in Speeds : p = Odom(n, t, s)
    BY <1>1, <1>5 DEF Core1Packets
  <2>2. t \in Unsigned(SIZE64) /\ s[1] \in Signed(SIZE16) /\ s[2] \in Signed(SIZE16)
    BY WireAssumption
  <2>3. p = [kind |-> "Odometry", sequence |-> n, timestamp_us |-> t, loop_time_us |-> c,
             left_speed |-> s[1], right_speed |-> s[2]]
    BY <1>2, <2>1 DEF Odom
  <2>4. p \in OdomPackets
    BY <2>2, <2>3 DEF OdomPackets
  <2>5. QED
    BY <1>1, <1>5, <2>3, <2>4 DEF Packets
<1>6. QED
  BY <1>4, <1>5 DEF Kind

\* What the guest lays out by hand begins with the number.
LEMMA GuestBegins ==
  ASSUME NEW n \in Unsigned(SIZE32)
  PROVE  LeU32(n) \in Seq(Byte) /\ Len(LeU32(n)) = 4 /\ U32At(LeU32(n), 0) = n
<1>1. n \in Nat /\ n % SIZE32 = n
  BY SizeFacts DEF Unsigned
<1>2. PICK w \in Seq(Byte) : w = <<>> /\ Len(w) = 0
  <2>1. <<>> \in Seq(Byte) /\ Len(<<>>) = 0
    OBVIOUS
  <2>2. QED
    BY <2>1, Zenon
<1>3. PICK a : a = LeU32(n)
  OBVIOUS
<1>4. a \in Seq(Byte) /\ Len(a) = 4 /\ U32At(w \o a, Len(w)) = n
  BY <1>1, <1>3, Written32
<1>5. w \o a = a
  BY <1>2, <1>4
<1>6. QED
  BY <1>2, <1>3, <1>4, <1>5

LEMMA GuestGoesOn ==
  ASSUME NEW w \in Seq(Byte), Len(w) >= 4, NEW b \in Seq(Byte)
  PROVE  w \o b \in Seq(Byte) /\ Len(w \o b) = Len(w) + Len(b) /\ Len(w \o b) >= 4
         /\ U32At(w \o b, 0) = U32At(w, 0)
<1>1. w \o b \in Seq(Byte) /\ Len(w \o b) = Len(w) + Len(b) /\ Extends(w \o b, w)
  BY ConcatFacts
<1>2. 0 + 4 <= Len(w) => U32At(w \o b, 0) = U32At(w, 0)
  BY <1>1, ReadsAgree
<1>3. QED
  BY <1>1, <1>2

LEMMA Zeros ==
  ASSUME NEW k \in Nat
  PROVE  [i \in 1 .. k |-> 0] \in Seq(Byte) /\ Len([i \in 1 .. k |-> 0]) = k
<1>1. PICK z \in Byte : z = 0
  BY SizeFacts DEF Byte, Unsigned
<1>2. [i \in 1 .. k |-> z] \in Seq(Byte) /\ Len([i \in 1 .. k |-> z]) = k
  OBVIOUS
<1>3. QED
  BY <1>1, <1>2

\* The host decodes it to a packet with that number.
LEMMA GuestTyped ==
  ASSUME NEW n \in Unsigned(SIZE32), NEW t \in Times, NEW r \in Readings
  PROVE  /\ ImuFromCdr(GuestImu(n, t, r)) \in ImuPackets
         /\ ImuFromCdr(GuestImu(n, t, r)).sequence = n
         /\ OdomFromCdr(GuestOdom(n, t)) \in OdomPackets
         /\ OdomFromCdr(GuestOdom(n, t)).sequence = n
<1>1. PICK a \in Seq(Byte) : a = LeU32(n) /\ Len(a) = 4 /\ U32At(a, 0) = n
  BY GuestBegins
<1>2. PICK u \in Nat, x \in Nat, y \in Nat, c \in Nat :
        /\ u = t /\ c = NOMINAL_LOOP_TIME_US
        /\ x = AsUnsigned(r[1], SIZE32) /\ y = AsUnsigned(r[2], SIZE32)
  <2>1. t \in Nat /\ r[1] \in Signed(SIZE32) /\ r[2] \in Signed(SIZE32)
    BY WireAssumption DEF Unsigned
  <2>2. AsUnsigned(r[1], SIZE32) \in Nat /\ AsUnsigned(r[2], SIZE32) \in Nat
    BY <2>1, SizeFacts, CastAndBack DEF Unsigned
  <2>3. NOMINAL_LOOP_TIME_US \in Nat
    BY DEF NOMINAL_LOOP_TIME_US
  <2>4. QED
    BY <2>1, <2>2, <2>3
<1>3. PICK b8 \in Seq(Byte), c4 \in Seq(Byte), x4 \in Seq(Byte), y4 \in Seq(Byte) :
        /\ b8 = LeU64(u) /\ c4 = LeU32(c) /\ x4 = LeU32(x) /\ y4 = LeU32(y)
        /\ Len(b8) = 8 /\ Len(c4) = 4 /\ Len(x4) = 4 /\ Len(y4) = 4
  <2>1. ASSUME NEW v \in Nat
        PROVE  /\ LeU32(v) \in Seq(Byte) /\ Len(LeU32(v)) = 4
               /\ LeU64(v) \in Seq(Byte) /\ Len(LeU64(v)) = 8
    BY <1>1, Written32, Written64
  <2>2. QED
    BY <2>1
<1>4. PICK d \in Seq(Byte) :
        d = a \o b8 \o c4 /\ Len(d) = 16 /\ U32At(d, 0) = n
  <2>1. PICK e : e = a \o b8
    OBVIOUS
  <2>2. e \in Seq(Byte) /\ Len(e) = 12 /\ U32At(e, 0) = n
    <3>1. Len(a) >= 4
      BY <1>1
    <3>2. a \o b8 \in Seq(Byte) /\ Len(a \o b8) = Len(a) + Len(b8)
          /\ U32At(a \o b8, 0) = U32At(a, 0)
      BY <3>1, GuestGoesOn, Zenon
    <3>3. QED
      BY <1>1, <1>3, <2>1, <3>2
  <2>3. e \o c4 \in Seq(Byte) /\ Len(e \o c4) = 16 /\ U32At(e \o c4, 0) = n
    <3>1. Len(e) >= 4
      BY <2>2
    <3>2. e \o c4 \in Seq(Byte) /\ Len(e \o c4) = Len(e) + Len(c4)
          /\ U32At(e \o c4, 0) = U32At(e, 0)
      BY <2>2, <3>1, GuestGoesOn, Zenon
    <3>3. QED
      BY <1>3, <2>2, <3>2
  <2>4. QED
    BY <2>1, <2>3
<1>5. PICK e \in Seq(Byte) :
        e = d \o x4 \o y4 /\ Len(e) = 24 /\ U32At(e, 0) = n
  <2>1. PICK f : f = d \o x4
    OBVIOUS
  <2>2. f \in Seq(Byte) /\ Len(f) = 20 /\ U32At(f, 0) = n
    <3>1. Len(d) >= 4
      BY <1>4
    <3>2. d \o x4 \in Seq(Byte) /\ Len(d \o x4) = Len(d) + Len(x4)
          /\ U32At(d \o x4, 0) = U32At(d, 0)
      BY <3>1, GuestGoesOn, Zenon
    <3>3. QED
      BY <1>3, <1>4, <2>1, <3>2
  <2>3. f \o y4 \in Seq(Byte) /\ Len(f \o y4) = 24 /\ U32At(f \o y4, 0) = n
    <3>1. Len(f) >= 4
      BY <2>2
    <3>2. f \o y4 \in Seq(Byte) /\ Len(f \o y4) = Len(f) + Len(y4)
          /\ U32At(f \o y4, 0) = U32At(f, 0)
      BY <2>2, <3>1, GuestGoesOn, Zenon
    <3>3. QED
      BY <1>3, <2>2, <3>2
  <2>4. QED
    BY <2>1, <2>3
<1>6. PICK z12 \in Seq(Byte), z4 \in Seq(Byte) :
        /\ z12 = [i \in 1 .. 12 |-> 0] /\ Len(z12) = 12
        /\ z4 = [i \in 1 .. 4 |-> 0] /\ Len(z4) = 4
  BY Zeros
<1>7. PICK g \in Seq(Byte) : g = GuestImu(n, t, r) /\ Len(g) = 36 /\ U32At(g, 0) = n
  <2>1. e \o z12 \in Seq(Byte) /\ Len(e \o z12) = 36 /\ U32At(e \o z12, 0) = n
    <3>1. Len(e) >= 4
      BY <1>5
    <3>2. e \o z12 \in Seq(Byte) /\ Len(e \o z12) = Len(e) + Len(z12)
          /\ U32At(e \o z12, 0) = U32At(e, 0)
      BY <3>1, GuestGoesOn, Zenon
    <3>3. QED
      BY <1>5, <1>6, <3>2
  <2>2. GuestImu(n, t, r) = e \o z12
    BY <1>1, <1>2, <1>3, <1>4, <1>5, <1>6, Zenon DEF GuestImu
  <2>3. QED
    BY <2>1, <2>2
<1>8. PICK h \in Seq(Byte) : h = GuestOdom(n, t) /\ Len(h) = 20 /\ U32At(h, 0) = n
  <2>1. d \o z4 \in Seq(Byte) /\ Len(d \o z4) = 20 /\ U32At(d \o z4, 0) = n
    <3>1. Len(d) >= 4
      BY <1>4
    <3>2. d \o z4 \in Seq(Byte) /\ Len(d \o z4) = Len(d) + Len(z4)
          /\ U32At(d \o z4, 0) = U32At(d, 0)
      BY <3>1, GuestGoesOn, Zenon
    <3>3. QED
      BY <1>4, <1>6, <3>2
  <2>2. GuestOdom(n, t) = d \o z4
    BY <1>1, <1>2, <1>3, <1>4, <1>6, Zenon DEF GuestOdom
  <2>3. QED
    BY <2>1, <2>2
<1>9. ImuFromCdr(g) \in ImuPackets /\ OdomFromCdr(h) \in OdomPackets
  <2>1. Len(g) >= ImuSize /\ Len(h) >= OdomSize
    BY <1>7, <1>8 DEF ImuSize, OdomSize
  <2>2. QED
    BY <2>1, DecodedTyped, Zenon
<1>10. ImuFromCdr(g).sequence = n
  <2>1. ~(Len(g) < ImuSize)
    BY <1>7 DEF ImuSize
  <2>2. QED
    BY <1>7, <2>1 DEF ImuFromCdr
<1>11. OdomFromCdr(h).sequence = n
  <2>1. ~(Len(h) < OdomSize)
    BY <1>8 DEF OdomSize
  <2>2. QED
    BY <1>8, <2>1 DEF OdomFromCdr
<1>12. QED
  BY <1>7, <1>8, <1>9, <1>10, <1>11

-----------------------------------------------------------------------------
(* Counting modulo SeqBound, below zero too                                 *)

Same(a, b) == \E k \in Int : a = b + SeqBound * k

LEMMA SameBothWays ==
  ASSUME NEW a \in Int, NEW b \in Int, Same(a, b)
  PROVE  Same(b, a)
<1>1. PICK k \in Int : a = b + SeqBound * k
  BY DEF Same
<1>2. PICK m \in Int : m = -k
  OBVIOUS
<1>3. SeqBound * m = -(SeqBound * k) /\ SeqBound * k \in Int
  BY <1>2, WireFacts
<1>4. b = a + SeqBound * m
  BY <1>1, <1>3
<1>5. QED
  BY <1>4 DEF Same

LEMMA SameTransitive ==
  ASSUME NEW a \in Int, NEW b \in Int, NEW c \in Int, Same(a, b), Same(b, c)
  PROVE  Same(a, c)
<1>1. PICK k \in Int : a = b + SeqBound * k
  BY DEF Same
<1>2. PICK l \in Int : b = c + SeqBound * l
  BY DEF Same
<1>3. PICK m \in Int : m = k + l
  OBVIOUS
<1>4. SeqBound * m = SeqBound * k + SeqBound * l /\ SeqBound * k \in Int /\ SeqBound * l \in Int
  BY <1>3, WireFacts
<1>5. a = c + SeqBound * m
  BY <1>1, <1>2, <1>4
<1>6. QED
  BY <1>5 DEF Same

LEMMA SameShifted ==
  ASSUME NEW a \in Int, NEW b \in Int, NEW c \in Int, Same(a, b)
  PROVE  Same(a + c, b + c)
<1>1. PICK k \in Int : a = b + SeqBound * k
  BY DEF Same
<1>2. SeqBound * k \in Int
  BY WireFacts
<1>3. a + c = (b + c) + SeqBound * k
  BY <1>1, <1>2
<1>4. QED
  BY <1>3 DEF Same

LEMMA SameSelf ==
  ASSUME NEW a \in Int
  PROVE  Same(a, a)
<1>1. a = a + SeqBound * 0
  BY WireFacts
<1>2. QED
  BY <1>1 DEF Same

LEMMA QuotientOfInt ==
  ASSUME NEW x \in Int, NEW m \in Nat, m > 0
  PROVE  \E q \in Int : x = m * q + (x % m)
<1>1. x = m * (x \div m) + (x % m) /\ x \div m \in Int
  OBVIOUS
<1>2. QED
  BY <1>1

LEMMA RemainderOfInt ==
  ASSUME NEW m \in Nat, m > 0, NEW q \in Int, NEW r \in 0 .. m - 1
  PROVE  (m * q + r) % m = r
OBVIOUS

LEMMA ModIsSame ==
  ASSUME NEW x \in Int
  PROVE  x % SeqBound \in 0 .. SeqBound - 1 /\ Same(x, x % SeqBound)
<1>1. x % SeqBound \in 0 .. SeqBound - 1
  BY WireFacts, ModRange
<1>2. PICK q \in Int : x = SeqBound * q + (x % SeqBound)
  BY WireFacts, QuotientOfInt
<1>3. SeqBound * q \in Int
  BY WireFacts
<1>4. x = (x % SeqBound) + SeqBound * q
  BY <1>1, <1>2, <1>3
<1>5. QED
  BY <1>1, <1>4 DEF Same

LEMMA SameIsEqualMod ==
  ASSUME NEW a \in Int, NEW b \in Int, Same(a, b)
  PROVE  a % SeqBound = b % SeqBound
<1>1. PICK k \in Int : a = b + SeqBound * k
  BY DEF Same
<1>2. PICK q \in Int : b = SeqBound * q + (b % SeqBound)
  BY WireFacts, QuotientOfInt
<1>3. PICK r \in 0 .. SeqBound - 1 : r = b % SeqBound
  BY WireFacts, ModRange
<1>4. PICK m \in Int : m = q + k
  OBVIOUS
<1>5. SeqBound * m = SeqBound * q + SeqBound * k /\ SeqBound * q \in Int /\ SeqBound * k \in Int
  BY <1>4, WireFacts
<1>6. a = SeqBound * m + r
  BY <1>1, <1>2, <1>3, <1>5
<1>7. (SeqBound * m + r) % SeqBound = r
  BY WireFacts, RemainderOfInt
<1>8. QED
  BY <1>3, <1>6, <1>7

-----------------------------------------------------------------------------
(* Wire: types                                                              *)

Numbers == 0 .. SeqBound - 1
Counters == [Source -> [Kind -> Numbers]]

WireTyped ==
  /\ queue \in Seq(Entries) /\ seq \in Counters /\ core1 \in Kind
  /\ guest \in Packets \cup {NoPacket}
  /\ watched \in Kind /\ mixed \in BOOLEAN
  /\ heard \in Nat /\ dropped \in Nat /\ lost \in Nat

LEMMA NumbersFit ==
  /\ Numbers \subseteq Nat /\ Numbers \subseteq Unsigned(SIZE32)
  /\ \A x \in Int : x % SeqBound \in Numbers
<1>1. \A x \in Int : x % SeqBound \in Numbers
  BY WireFacts, ModRange DEF Numbers
<1>2. QED
  BY <1>1, WireFacts, SizeFacts DEF Numbers, Unsigned

LEMMA NextSeqFacts ==
  ASSUME seq \in Counters, NEW s \in Source, NEW k \in Kind
  PROVE  /\ NextSeq(s, k) \in Counters
         /\ NextSeq(s, k)[s][k] = (seq[s][k] + 1) % SeqBound
         /\ \A s2 \in Source, k2 \in Kind :
              s2 # s \/ k2 # k => NextSeq(s, k)[s2][k2] = seq[s2][k2]
<1>1. PICK f : f = seq[s]
  OBVIOUS
<1>2. f \in [Kind -> Numbers]
  BY <1>1 DEF Counters
<1>3. PICK n \in Numbers : n = (f[k] + 1) % SeqBound
  <2>1. f[k] \in Nat
    BY <1>2, NumbersFit
  <2>2. f[k] + 1 \in Int
    BY <2>1
  <2>3. QED
    BY <2>2, NumbersFit
<1>4. PICK g : g = [f EXCEPT ![k] = n]
  OBVIOUS
<1>5. g \in [Kind -> Numbers] /\ g[k] = n /\ \A k2 \in Kind : k2 # k => g[k2] = f[k2]
  BY <1>2, <1>4
<1>6. PICK h : h = [seq EXCEPT ![s] = g]
  OBVIOUS
<1>7. h \in Counters /\ h[s] = g /\ \A s2 \in Source : s2 # s => h[s2] = seq[s2]
  BY <1>5, <1>6 DEF Counters
<1>8. NextSeq(s, k) = h
  BY <1>1, <1>3, <1>4, <1>6 DEF NextSeq
<1>9. QED
  BY <1>1, <1>3, <1>5, <1>7, <1>8, Zenon

LEMMA AppendTyped ==
  ASSUME NEW S, NEW q \in Seq(S), NEW e \in S
  PROVE  /\ Append(q, e) \in Seq(S) /\ Len(q) \in Nat
         /\ Len(Append(q, e)) = Len(q) + 1 /\ Append(q, e)[Len(q) + 1] = e
         /\ \A i \in 1 .. Len(q) : Append(q, e)[i] = q[i]
OBVIOUS

LEMMA ElementsTyped ==
  ASSUME NEW S, NEW q \in Seq(S)
  PROVE  \A i \in DOMAIN q : q[i] \in S
OBVIOUS

LEMMA TailTyped ==
  ASSUME NEW S, NEW q \in Seq(S), q # <<>>
  PROVE  /\ Head(q) \in S /\ Head(q) = q[1]
         /\ Tail(q) \in Seq(S) /\ Len(q) \in Nat /\ Len(Tail(q)) \in Nat
         /\ Len(q) = Len(Tail(q)) + 1
         /\ \A i \in 1 .. Len(Tail(q)) : Tail(q)[i] = q[i + 1]
<1>1. PICK t : t = Tail(q)
  OBVIOUS
<1>2. /\ t \in Seq(S) /\ Len(q) \in Nat /\ Len(q) > 0 /\ Len(t) = Len(q) - 1
      /\ \A i \in 1 .. Len(t) : t[i] = q[i + 1]
  BY <1>1
<1>3. Head(q) = q[1] /\ q[1] \in S
  BY <1>2
<1>4. QED
  BY <1>1, <1>2, <1>3

\* What a push does: a packet that finds room is queued behind the others with
\* the drops counted so far, one that does not is counted.
LEMMA PushFacts ==
  ASSUME queue \in Seq(Entries), dropped \in Nat, NEW p \in Packets,
         PushTelemetry(p)
  PROVE  \/ /\ Full /\ queue' = queue /\ dropped' \in Nat
            /\ dropped' = IF Watched(p) THEN (dropped + 1) % SeqBound ELSE dropped
         \/ /\ ~Full /\ dropped' \in Nat
            /\ dropped' = IF Watched(p) THEN 0 ELSE dropped
            /\ \E e \in Entries :
                 /\ queue' = Append(queue, e) /\ e.packet = p
                 /\ Watched(p) => e.before = dropped
<1>1. CASE Full
  <2>1. dropped + 1 \in Int
    OBVIOUS
  <2>2. (dropped + 1) % SeqBound \in Nat
    BY <2>1, NumbersFit
  <2>3. QED
    BY <1>1, <2>2, Zenon DEF PushTelemetry
<1>2. CASE ~Full
  <2>1. PICK n \in Nat : n = IF Watched(p) THEN dropped ELSE 0
    OBVIOUS
  <2>2. PICK e : e = [packet |-> p, before |-> n]
    OBVIOUS
  <2>3. e \in Entries /\ e.packet = p /\ e.before = n
    BY <2>2 DEF Entries
  <2>4. queue' = Append(queue, e)
    BY <1>2, <2>1, <2>2, Zenon DEF PushTelemetry
  <2>5. dropped' = (IF Watched(p) THEN 0 ELSE dropped) /\ dropped' \in Nat
    BY <1>2 DEF PushTelemetry
  <2>6. QED
    BY <1>2, <2>1, <2>3, <2>4, <2>5, Zenon
<1>3. QED
  BY <1>1, <1>2

LEMMA PushTyped ==
  ASSUME queue \in Seq(Entries), dropped \in Nat, NEW p \in Packets,
         PushTelemetry(p)
  PROVE  /\ queue' \in Seq(Entries) /\ dropped' \in Nat
         /\ Len(queue) \in Nat /\ Len(queue') \in Nat /\ Len(queue') <= Len(queue) + 1
<1>1. Len(queue) \in Nat
  OBVIOUS
<1>2. CASE queue' = queue /\ dropped' \in Nat
  BY <1>1, <1>2
<1>3. ASSUME NEW e \in Entries, queue' = Append(queue, e), dropped' \in Nat
      PROVE  /\ queue' \in Seq(Entries) /\ dropped' \in Nat
             /\ Len(queue') \in Nat /\ Len(queue') <= Len(queue) + 1
  <2>1. Append(queue, e) \in Seq(Entries) /\ Len(Append(queue, e)) = Len(queue) + 1
    BY AppendTyped
  <2>2. QED
    BY <1>1, <1>3, <2>1
<1>4. QED
  BY <1>1, <1>2, <1>3, PushFacts, Zenon

\* What the guest builds: a packet with its number
LEMMA GuestBuildsFacts ==
  ASSUME seq \in Counters, NEW k \in Kind, GuestBuilds(k)
  PROVE  guest' \in Packets /\ guest'.kind = k /\ guest'.sequence = seq["guest"][k]
<1>1. PICK n \in Unsigned(SIZE32) : n = seq["guest"][k]
  BY NumbersFit DEF Counters, Source
<1>2. PICK t \in Times, r \in Readings :
        guest' = IF k = "Imu" THEN ImuFromCdr(GuestImu(n, t, r))
                 ELSE OdomFromCdr(GuestOdom(n, t))
  BY <1>1 DEF GuestBuilds
<1>3. CASE k = "Imu"
  <2>1. guest' \in ImuPackets /\ guest'.sequence = n
    BY <1>2, <1>3, GuestTyped
  <2>2. QED
    BY <1>1, <1>3, <2>1 DEF Packets, ImuPackets
<1>4. CASE k # "Imu"
  <2>1. guest' \in OdomPackets /\ guest'.sequence = n
    BY <1>2, <1>4, GuestTyped
  <2>2. QED
    BY <1>1, <1>4, <2>1 DEF Packets, OdomPackets, Kind
<1>5. QED
  BY <1>3, <1>4

LEMMA InitWireTyped == WireInit => WireTyped
<1> SUFFICES ASSUME WireInit PROVE WireTyped
  OBVIOUS
<1>1. queue \in Seq(Entries) /\ core1 \in Kind /\ guest \in Packets \cup {NoPacket}
  BY DEF WireInit, Kind
<1>2. /\ watched \in Kind /\ mixed \in BOOLEAN
      /\ heard \in Nat /\ dropped \in Nat /\ lost \in Nat
  <2>1. watched \in Kind /\ mixed \in BOOLEAN
    BY DEF WireInit
  <2>2. heard \in Nat /\ dropped \in Nat /\ lost \in Nat
    BY WireFacts DEF WireInit
  <2>3. QED
    BY <2>1, <2>2
<1>3. seq \in Counters
  BY WireFacts DEF WireInit, Counters, Numbers
<1>4. QED
  BY <1>1, <1>2, <1>3 DEF WireTyped

\* What is on air: nothing, a beacon, or the frame of a packet.
AirInv ==
  \/ onAir = NoEntry /\ frame \in {<<>>, <<BeaconFrame>>}
  \/ onAir \in Entries /\ frame = <<TelemetryFrame(Serialize(onAir.packet))>>

LEMMA BeaconIsNoPacket ==
  PcDecodes(BeaconFrame) = NoPacket /\ NoEntry.packet = NoPacket
<1>1. PICK s : s = <<"HEARTBEAT">> \o <<>>
  OBVIOUS
<1>2. s[1] = "HEARTBEAT"
  BY <1>1
<1>3. ~(s # <<>> /\ s[1] = TYPE_IMU) /\ ~(s # <<>> /\ s[1] = TYPE_ODOMETRY)
  BY <1>2 DEF TYPE_IMU, TYPE_ODOMETRY
<1>4. Deserialize(s) = NoPacket
  BY <1>3, SMT DEF Deserialize
<1>5. PcDecodes(BeaconFrame) = Deserialize(s)
  BY <1>1, SMT DEF PcDecodes, BeaconFrame
<1>6. NoEntry.packet = NoPacket
  BY DEF NoEntry
<1>7. QED
  BY <1>4, <1>5, <1>6

LEMMA OnAirFacts ==
  ASSUME AirInv
  PROVE  /\ onAir.packet \in Packets \cup {NoPacket} /\ onAir.before \in Nat
         /\ frame # <<>> => PcDecodes(frame[1]) = onAir.packet
         /\ onAir.packet # NoPacket => frame # <<>> /\ onAir \in Entries
<1>1. CASE onAir = NoEntry /\ frame \in {<<>>, <<BeaconFrame>>}
  <2>1. onAir.packet = NoPacket /\ onAir.before \in Nat
    BY <1>1 DEF NoEntry
  <2>2. frame # <<>> => frame[1] = BeaconFrame
    BY <1>1
  <2>3. QED
    BY <2>1, <2>2, BeaconIsNoPacket, Zenon
<1>2. CASE onAir \in Entries /\ frame = <<TelemetryFrame(Serialize(onAir.packet))>>
  <2>1. onAir.packet \in Packets /\ onAir.before \in Nat
    BY <1>2 DEF Entries
  <2>2. frame # <<>> /\ frame[1] = TelemetryFrame(Serialize(onAir.packet))
    BY <1>2
  <2>3. PcDecodes(frame[1]) = onAir.packet
    BY <2>1, <2>2, FrameFacts, Zenon
  <2>4. QED
    BY <1>2, <2>1, <2>2, <2>3, Zenon
<1>3. QED
  BY <1>1, <1>2 DEF AirInv

LEMMA NextWireTyped == WireTyped /\ AirInv /\ [WireNext]_wireVars => WireTyped'
<1> SUFFICES ASSUME WireTyped, AirInv, [WireNext]_wireVars PROVE WireTyped'
  OBVIOUS
<1>1. ASSUME NEW s \in Source, NEW k \in Kind PROVE NextSeq(s, k) \in Counters
  BY NextSeqFacts DEF WireTyped
<1>2. CASE Core1Push
  <2>1. PICK p \in Core1Packets : PushTelemetry(p)
    BY <1>2 DEF Core1Push
  <2>2. seq["core1"][core1] \in 0 .. SeqBound - 1 /\ core1 \in Kind
    BY DEF WireTyped, Counters, Numbers, Source
  <2>3. p \in Packets
    BY <2>2, Core1Typed
  <2>4. queue' \in Seq(Entries) /\ dropped' \in Nat
    BY <2>1, <2>3, PushTyped DEF WireTyped, Source
  <2>5. seq' = NextSeq("core1", core1) /\ core1' \in Kind
    BY <1>2 DEF Core1Push, Core1Counts, Kind
  <2>6. seq' \in Counters
    BY <1>1, <2>2, <2>5 DEF Source
  <2>7. UNCHANGED <<guest, watched, mixed, heard, lost>>
    BY <1>2 DEF Core1Push, radio
  <2>8. QED
    BY <2>4, <2>5, <2>6, <2>7 DEF WireTyped
<1>3. ASSUME NEW k \in Kind, GuestBuilds(k) PROVE WireTyped'
  <2>1. guest' \in Packets
    BY <1>3, GuestBuildsFacts DEF WireTyped
  <2>2. seq' \in Counters
    BY <1>1, <1>3 DEF GuestBuilds, Source
  <2>3. UNCHANGED <<queue, core1, dropped, watched, heard, lost>>
    BY <1>3 DEF GuestBuilds, radio
  <2>4. mixed' \in BOOLEAN
    BY <1>3 DEF GuestBuilds, WireTyped
  <2>5. QED
    BY <2>1, <2>2, <2>3, <2>4 DEF WireTyped
<1>4. CASE GuestEmits
  <2>1. guest # NoPacket /\ PushTelemetry(guest) /\ guest' = NoPacket
        /\ UNCHANGED <<seq, core1, watched, mixed, heard, lost>>
    BY <1>4 DEF GuestEmits, radio
  <2>2. guest \in Packets
    BY <2>1 DEF WireTyped
  <2>3. queue' \in Seq(Entries) /\ dropped' \in Nat
    BY <2>1, <2>2, PushTyped DEF WireTyped, Source
  <2>4. QED
    BY <2>1, <2>3 DEF WireTyped
<1>5. CASE SendTelemetry
  <2>1. queue # <<>> /\ queue' = Tail(queue)
        /\ UNCHANGED <<seq, core1, guest, watched, mixed, heard, dropped, lost>>
    BY <1>5 DEF SendTelemetry, producers
  <2>2. queue' \in Seq(Entries)
    BY <2>1, TailTyped DEF WireTyped
  <2>3. QED
    BY <2>1, <2>2 DEF WireTyped
<1>6. CASE Received
  <2>1. UNCHANGED <<queue, seq, core1, guest, watched, mixed, dropped>>
    BY <1>6 DEF Received, producers
  <2>2. heard' \in Nat /\ lost' \in Nat
    <3>1. heard \in Nat /\ lost \in Nat
      BY DEF WireTyped
    <3>2. frame # <<>>
      BY <1>6 DEF Received
    <3>3. PICK p \in Packets \cup {NoPacket} : p = PcDecodes(frame[1])
      BY <3>2, OnAirFacts
    <3>4. \/ p # NoPacket /\ heard' = p.sequence /\ lost' = 0
          \/ UNCHANGED <<heard, lost>>
      BY <1>6, <3>3, Zenon DEF Received
    <3>5. p # NoPacket => p.sequence \in Nat
      BY <3>3, PacketKinds
    <3>6. QED
      BY <3>1, <3>4, <3>5
  <2>3. QED
    BY <2>1, <2>2 DEF WireTyped
<1>7. CASE LostOnAir
  <2>1. UNCHANGED <<queue, seq, core1, guest, watched, mixed, dropped, heard>>
    BY <1>7 DEF LostOnAir, producers
  <2>2. lost' \in Nat
    <3>1. lost \in Nat /\ lost + onAir.before + 1 \in Int
      BY OnAirFacts DEF WireTyped
    <3>2. (lost + onAir.before + 1) % SeqBound \in Nat
      BY <3>1, NumbersFit
    <3>3. QED
      BY <1>7, <3>1, <3>2, Zenon DEF LostOnAir
  <2>3. QED
    BY <2>1, <2>2 DEF WireTyped
<1>8. CASE SendBeacon \/ UNCHANGED wireVars
  <2>1. UNCHANGED <<queue, seq, core1, guest, watched, mixed, heard, dropped, lost>>
    BY <1>8 DEF SendBeacon, wireVars, producers, radio
  <2>2. QED
    BY <2>1 DEF WireTyped
<1>9. QED
  BY <1>2, <1>3, <1>4, <1>5, <1>6, <1>7, <1>8 DEF WireNext, Radio

LEMMA InitAir == WireInit => AirInv
BY DEF WireInit, AirInv

LEMMA NextAir == WireTyped /\ AirInv /\ [WireNext]_wireVars => AirInv'
<1> SUFFICES ASSUME WireTyped, AirInv, [WireNext]_wireVars PROVE AirInv'
  OBVIOUS
<1>1. CASE SendTelemetry
  <2>1. queue # <<>> /\ onAir' = Head(queue)
        /\ frame' = <<TelemetryFrame(Serialize(Head(queue).packet))>>
    BY <1>1 DEF SendTelemetry, Broadcast
  <2>2. onAir' \in Entries
    BY <2>1, TailTyped DEF WireTyped
  <2>3. QED
    BY <2>1, <2>2, Zenon DEF AirInv
<1>2. CASE SendBeacon
  <2>1. frame = <<>> /\ frame' = <<BeaconFrame>> /\ onAir' = onAir
    BY <1>2 DEF SendBeacon, Broadcast
  <2>2. onAir = NoEntry
    BY <2>1 DEF AirInv
  <2>3. QED
    BY <2>1, <2>2 DEF AirInv
<1>3. CASE Received \/ LostOnAir
  BY <1>3 DEF Received, LostOnAir, OffAir, AirInv
<1>4. CASE UNCHANGED <<frame, onAir>>
  BY <1>4 DEF AirInv
<1>5. CASE Core1Push \/ GuestEmits \/ (\E k \in Kind : GuestBuilds(k)) \/ UNCHANGED wireVars
  BY <1>4, <1>5 DEF Core1Push, GuestEmits, GuestBuilds, wireVars, radio
<1>6. QED
  BY <1>1, <1>2, <1>3, <1>5 DEF WireNext, Radio

\* Between its check and its push, the guest finds at most what Core 1 has
\* pushed meanwhile above the high-water mark.
FlowInv ==
  /\ waited \in 0 .. MaxCore1Pushes
  /\ guest # NoPacket => Len(queue) < TELEMETRY_QUEUE_HIGH_WATER_MARK + waited
  /\ GuestIsNeverRefused

LEMMA InitFlow == WireInit => FlowInv
BY WireFacts DEF WireInit, FlowInv, GuestIsNeverRefused

LEMMA NextFlow == WireTyped /\ FlowInv /\ [WireNext]_wireVars => FlowInv'
<1> SUFFICES ASSUME WireTyped, FlowInv, [WireNext]_wireVars PROVE FlowInv'
  OBVIOUS
<1> USE WireFacts DEF FlowInv, GuestIsNeverRefused
<1>1. Len(queue) \in Nat
  BY DEF WireTyped
<1>2. CASE Core1Push
  <2>1. PICK p \in Core1Packets : PushTelemetry(p)
    BY <1>2 DEF Core1Push
  <2>2. p \in Packets
    BY <2>1, Core1Typed DEF WireTyped, Counters, Numbers, Source
  <2>3. Len(queue') \in Nat /\ Len(queue') <= Len(queue) + 1
    BY <2>1, <2>2, PushTyped DEF WireTyped, Source
  <2>4. /\ guest # NoPacket => waited < MaxCore1Pushes
        /\ waited' = IF guest # NoPacket THEN waited + 1 ELSE 0
        /\ UNCHANGED <<guest, refused>>
    BY <1>2 DEF Core1Push
  <2>5. QED
    BY <1>1, <2>3, <2>4
<1>3. ASSUME NEW k \in Kind, GuestBuilds(k) PROVE FlowInv'
  <2>1. /\ FlowControl /\ waited' = 0 /\ UNCHANGED <<queue, refused>>
    BY <1>3 DEF GuestBuilds
  <2>2. QED
    BY <1>1, <2>1 DEF FlowControl
<1>4. CASE GuestEmits
  <2>1. /\ guest # NoPacket /\ refused' = Full /\ guest' = NoPacket /\ waited' = 0
    BY <1>4 DEF GuestEmits
  <2>2. ~Full
    BY <1>1, <2>1 DEF Full
  <2>3. QED
    BY <2>1, <2>2
<1>5. CASE SendTelemetry
  <2>1. queue # <<>> /\ queue' = Tail(queue) /\ UNCHANGED <<guest, waited, refused>>
    BY <1>5 DEF SendTelemetry, producers
  <2>2. Len(queue') \in Nat /\ Len(queue) = Len(queue') + 1
    BY <2>1, TailTyped DEF WireTyped
  <2>3. QED
    BY <2>1, <2>2
<1>6. CASE SendBeacon \/ Received \/ LostOnAir \/ UNCHANGED wireVars
  BY <1>6 DEF SendBeacon, Received, LostOnAir, wireVars, producers
<1>7. QED
  BY <1>2, <1>3, <1>4, <1>5, <1>6 DEF WireNext, Radio

\* What holds of a Wire whatever the history counts
WireInv ==
  /\ WireTyped /\ AirInv /\ FlowInv
  /\ PeersIgnoreTelemetry

LEMMA InitWire == WireInit => WireInv
BY InitWireTyped, InitAir, InitFlow DEF WireInit, WireInv, PeersIgnoreTelemetry

LEMMA NextPeers ==
  WireTyped /\ PeersIgnoreTelemetry /\ [WireNext]_wireVars => PeersIgnoreTelemetry'
<1> SUFFICES ASSUME WireTyped, PeersIgnoreTelemetry, [WireNext]_wireVars
             PROVE PeersIgnoreTelemetry'
  OBVIOUS
<1> USE DEF PeersIgnoreTelemetry
<1>1. CASE SendTelemetry
  <2>1. queue # <<>> /\ Broadcast(TelemetryFrame(Serialize(Head(queue).packet)))
    BY <1>1 DEF SendTelemetry
  <2>2. PICK p \in Packets : p = Head(queue).packet
    <3>1. Head(queue) \in Entries
      BY <2>1, TailTyped DEF WireTyped
    <3>2. QED
      BY <3>1 DEF Entries
  <2>3. PICK f : f = TelemetryFrame(Serialize(p)) /\ ~Accepted(f)
    BY FrameFacts
  <2>4. peerCmds' = {}
    BY <2>1, <2>2, <2>3, Zenon DEF Broadcast
  <2>5. QED
    BY <2>4
<1>2. CASE SendBeacon
  BY <1>2 DEF SendBeacon, Broadcast, BeaconFrame
<1>3. CASE Received \/ LostOnAir
  BY <1>3 DEF Received, LostOnAir, OffAir
<1>4. CASE Core1Push \/ GuestEmits \/ (\E k \in Kind : GuestBuilds(k)) \/ UNCHANGED wireVars
  BY <1>4 DEF Core1Push, GuestEmits, GuestBuilds, wireVars, radio
<1>5. QED
  BY <1>1, <1>2, <1>3, <1>4 DEF WireNext, Radio

LEMMA NextWire == WireInv /\ [WireNext]_wireVars => WireInv'
BY NextWireTyped, NextAir, NextFlow, NextPeers DEF WireInv

LEMMA WireInvariant == WireSpec => []WireInv
BY InitWire, NextWire, PTL DEF WireSpec

\* What is decoded from a frame is the packet that was queued, field by field.
THEOREM PacketsSurvive == WireSpec => []RoundTrip
<1>1. WireInv => RoundTrip
  <2> SUFFICES ASSUME AirInv, onAir # NoEntry PROVE PcDecodes(frame[1]) = onAir.packet
    BY DEF WireInv, RoundTrip
  <2>1. frame # <<>>
    BY DEF AirInv
  <2>2. QED
    BY <2>1, OnAirFacts
<1>2. QED
  BY <1>1, WireInvariant, PTL

\* No board takes another one's telemetry for a command.
THEOREM TelemetryIsNoCommand == WireSpec => []PeersIgnoreTelemetry
<1>1. WireInv => PeersIgnoreTelemetry
  BY DEF WireInv
<1>2. QED
  BY <1>1, WireInvariant, PTL

\* The guest's push finds room whatever Core 1 pushed after the guest looked.
THEOREM FlowControlWorks == WireSpec => []GuestIsNeverRefused
<1>1. WireInv => GuestIsNeverRefused
  BY DEF WireInv, FlowInv
<1>2. QED
  BY <1>1, WireInvariant, PTL

-----------------------------------------------------------------------------
(* Wire: gaps are losses.  E maps each place of the queue to the number of  *)
(* the last watched packet up to it: every watched packet continues the one *)
(* before it, and what comes next continues the last one.                   *)

Counted(w, e) == e.packet.kind = w

Chained(q, w, b, E) ==
  /\ E \in [0 .. Len(q) -> Int]
  /\ Same(E[0], b)
  /\ \A i \in 1 .. Len(q) :
       /\ Counted(w, q[i]) => E[i] = q[i].packet.sequence
                              /\ Same(E[i], E[i - 1] + 1 + q[i].before)
       /\ ~Counted(w, q[i]) => E[i] = E[i - 1]

LEMMA ChainEnds ==
  ASSUME NEW q \in Seq(Entries), NEW w, NEW b, NEW E, Chained(q, w, b, E)
  PROVE  Len(q) \in Nat /\ E[0] \in Int /\ E[Len(q)] \in Int
BY DEF Chained

LEMMA ChainAppend ==
  ASSUME NEW q \in Seq(Entries), NEW w, NEW b, NEW E, Chained(q, w, b, E),
         NEW e \in Entries,
         Counted(w, e) => Same(e.packet.sequence, E[Len(q)] + 1 + e.before)
  PROVE  \E F : /\ Chained(Append(q, e), w, b, F)
                /\ F[Len(q) + 1] = IF Counted(w, e) THEN e.packet.sequence ELSE E[Len(q)]
<1>1. PICK n \in Nat : n = Len(q)
  OBVIOUS
<1>2. PICK r : r = Append(q, e)
  OBVIOUS
<1>3. Len(r) = n + 1 /\ r[n + 1] = e /\ \A i \in 1 .. n : r[i] = q[i]
  BY <1>1, <1>2, AppendTyped
<1>4. /\ E \in [0 .. n -> Int] /\ Same(E[0], b)
      /\ \A i \in 1 .. n :
           /\ Counted(w, q[i]) => E[i] = q[i].packet.sequence
                                  /\ Same(E[i], E[i - 1] + 1 + q[i].before)
           /\ ~Counted(w, q[i]) => E[i] = E[i - 1]
  BY <1>1, Zenon DEF Chained
<1>5. PICK x \in Int : x = IF Counted(w, e) THEN e.packet.sequence ELSE E[n]
  <2>1. e.packet \in Packets
    BY DEF Entries
  <2>2. e.packet.sequence \in Nat
    BY <2>1, PacketKinds
  <2>3. E[n] \in Int
    BY <1>4
  <2>4. QED
    BY <2>2, <2>3
<1>6. PICK F : F = [i \in 0 .. n + 1 |-> IF i = n + 1 THEN x ELSE E[i]]
  OBVIOUS
<1>7. F \in [0 .. n + 1 -> Int] /\ F[n + 1] = x /\ \A i \in 0 .. n : F[i] = E[i]
  BY <1>4, <1>6
<1>8. Same(F[0], b)
  <2>1. 0 \in 0 .. n
    OBVIOUS
  <2>2. QED
    BY <1>4, <1>7, <2>1, Zenon
<1>9. ASSUME NEW i \in 1 .. n + 1
      PROVE  /\ Counted(w, r[i]) => F[i] = r[i].packet.sequence
                                    /\ Same(F[i], F[i - 1] + 1 + r[i].before)
             /\ ~Counted(w, r[i]) => F[i] = F[i - 1]
  <2>1. CASE i = n + 1
    <3>1. i - 1 = n /\ n \in 0 .. n
      BY <2>1
    <3>2. r[i] = e /\ F[i] = x /\ F[i - 1] = E[n]
      BY <1>3, <1>7, <2>1, <3>1, Zenon
    <3>3. QED
      BY <1>1, <1>5, <3>2, Zenon
  <2>2. CASE i \in 1 .. n
    <3>1. i \in 0 .. n /\ i - 1 \in 0 .. n
      BY <2>2
    <3>2. r[i] = q[i] /\ F[i] = E[i] /\ F[i - 1] = E[i - 1]
      BY <1>3, <1>7, <2>2, <3>1, Zenon
    <3>3. QED
      BY <1>4, <2>2, <3>2, Zenon
  <2>3. QED
    BY <2>1, <2>2
<1>10. Chained(r, w, b, F)
  BY <1>3, <1>7, <1>8, <1>9, Zenon DEF Chained
<1>11. QED
  BY <1>1, <1>2, <1>5, <1>7, <1>10, Zenon

LEMMA ChainTail ==
  ASSUME NEW q \in Seq(Entries), q # <<>>, NEW w, NEW b, NEW E, Chained(q, w, b, E)
  PROVE  /\ E[1] \in Int
         /\ \E F : /\ Chained(Tail(q), w, E[1], F)
                   /\ F[Len(Tail(q))] = E[Len(q)]
<1>0. PICK r : r = Tail(q)
  OBVIOUS
<1>1. PICK n \in Nat : n = Len(r) /\ r = Tail(q)
  BY <1>0, TailTyped
<1>2. Len(q) = n + 1 /\ \A i \in 1 .. n : r[i] = q[i + 1]
  BY <1>1, TailTyped
<1>3. /\ E \in [0 .. n + 1 -> Int]
      /\ \A i \in 1 .. n + 1 :
           /\ Counted(w, q[i]) => E[i] = q[i].packet.sequence
                                  /\ Same(E[i], E[i - 1] + 1 + q[i].before)
           /\ ~Counted(w, q[i]) => E[i] = E[i - 1]
  BY <1>2, Zenon DEF Chained
<1>4. PICK F : F = [i \in 0 .. n |-> E[i + 1]]
  OBVIOUS
<1>5. F \in [0 .. n -> Int] /\ F[0] = E[1] /\ F[n] = E[n + 1]
      /\ \A i \in 0 .. n : F[i] = E[i + 1]
  BY <1>3, <1>4
<1>6. E[1] \in Int /\ Same(F[0], E[1])
  <2>1. E[1] \in Int
    BY <1>3
  <2>2. QED
    BY <1>5, <2>1, SameSelf
<1>7. ASSUME NEW i \in 1 .. n
      PROVE  /\ Counted(w, r[i]) => F[i] = r[i].packet.sequence
                                    /\ Same(F[i], F[i - 1] + 1 + r[i].before)
             /\ ~Counted(w, r[i]) => F[i] = F[i - 1]
  <2>1. PICK j \in 1 .. n + 1 : j = i + 1
    OBVIOUS
  <2>2. i \in 0 .. n /\ i - 1 \in 0 .. n /\ (i - 1) + 1 = i /\ j - 1 = i
    BY <2>1
  <2>3. r[i] = q[j] /\ F[i] = E[j] /\ F[i - 1] = E[j - 1]
    BY <1>2, <1>5, <2>1, <2>2, Zenon
  <2>4. QED
    BY <1>3, <2>3, Zenon
<1>8. Chained(r, w, E[1], F)
  BY <1>1, <1>5, <1>6, <1>7, Zenon DEF Chained
<1>9. QED
  BY <1>1, <1>2, <1>5, <1>6, <1>8, Zenon

\* A push continues the chain, or is counted as dropped.
LEMMA PushLinks ==
  ASSUME WireTyped, NEW b, NEW E, Chained(queue, watched, b, E),
         NEW p \in Packets, PushTelemetry(p),
         Watched(p) => Same(p.sequence, E[Len(queue)] + 1 + dropped)
  PROVE  \E F :
           /\ Chained(queue', watched, b, F)
           /\ Watched(p) => Same(p.sequence + 1, F[Len(queue')] + 1 + dropped')
           /\ ~Watched(p) => F[Len(queue')] = E[Len(queue)] /\ dropped' = dropped
<1>1. queue \in Seq(Entries) /\ dropped \in Nat
  BY DEF WireTyped
<1>2. PICK x \in Int, n \in Nat : x = E[Len(queue)] /\ n = p.sequence
  BY <1>1, ChainEnds, PacketKinds
<1>3. CASE /\ queue' = queue /\ dropped' \in Nat
           /\ dropped' = IF Watched(p) THEN (dropped + 1) % SeqBound ELSE dropped
  <2>1. CASE Watched(p)
    <3>1. PICK y \in Int, z \in Int, v \in Int, one \in Int :
            y = x + 1 + dropped /\ z = dropped + 1 /\ v = x + 1 /\ one = 1
      BY <1>1
    <3>2. Same(n, y)
      BY <1>2, <2>1, <3>1
    <3>3. PICK d \in Nat : d = dropped' /\ Same(z, d)
      <4>1. z % SeqBound \in 0 .. SeqBound - 1 /\ Same(z, z % SeqBound)
        BY ModIsSame
      <4>2. dropped' = z % SeqBound /\ z % SeqBound \in Nat
        BY <1>3, <2>1, <3>1
      <4>3. QED
        BY <4>1, <4>2, Zenon
    <3>4. d \in Int /\ n \in Int
      OBVIOUS
    <3>5. Same(n + one, y + one)
      BY <3>2, <3>4, SameShifted, Zenon
    <3>6. Same(z + v, d + v)
      BY <3>3, <3>4, SameShifted, Zenon
    <3>7. Same(n + 1, y + 1) /\ Same(y + 1, x + 1 + d)
      <4>1. z + v = y + 1 /\ d + v = x + 1 + d
        BY <1>1, <3>1
      <4>2. QED
        BY <3>1, <3>5, <3>6, <4>1, Zenon
    <3>8. Same(n + 1, x + 1 + d)
      <4>1. n + 1 \in Int /\ y + 1 \in Int /\ x + 1 + d \in Int
        OBVIOUS
      <4>2. QED
        BY <3>7, <4>1, SameTransitive, Zenon
    <3>9. QED
      BY <1>2, <1>3, <2>1, <3>3, <3>8, Zenon
  <2>2. CASE ~Watched(p)
    BY <1>3, <2>2, Zenon
  <2>3. QED
    BY <2>1, <2>2
<1>4. ASSUME NEW e \in Entries, queue' = Append(queue, e), e.packet = p,
             Watched(p) => e.before = dropped, dropped' \in Nat,
             dropped' = IF Watched(p) THEN 0 ELSE dropped
      PROVE  \E F :
               /\ Chained(queue', watched, b, F)
               /\ Watched(p) => Same(p.sequence + 1, F[Len(queue')] + 1 + dropped')
               /\ ~Watched(p) => F[Len(queue')] = E[Len(queue)] /\ dropped' = dropped
  <2>1. Counted(watched, e) <=> Watched(p)
    BY <1>4 DEF Counted, Watched
  <2>2. Counted(watched, e) => Same(e.packet.sequence, E[Len(queue)] + 1 + e.before)
    BY <1>4, <2>1
  <2>3. PICK F : /\ Chained(Append(queue, e), watched, b, F)
                 /\ F[Len(queue) + 1] = IF Counted(watched, e) THEN e.packet.sequence
                                        ELSE E[Len(queue)]
    BY <1>1, <2>2, ChainAppend
  <2>4. Len(queue') = Len(queue) + 1
    BY <1>1, <1>4, AppendTyped
  <2>5. Watched(p) => F[Len(queue')] = n /\ dropped' = 0
    BY <1>2, <1>4, <2>1, <2>3, <2>4, Zenon
  <2>6. n + 1 + 0 = n + 1 /\ Same(n + 1, n + 1)
    BY SameSelf
  <2>7. Watched(p) => Same(n + 1, F[Len(queue')] + 1 + dropped')
    BY <2>5, <2>6
  <2>8. ~Watched(p) => F[Len(queue')] = E[Len(queue)] /\ dropped' = dropped
    BY <1>4, <2>1, <2>3, <2>4, Zenon
  <2>9. Chained(queue', watched, b, F)
    BY <1>4, <2>3, Zenon
  <2>10. QED
    BY <1>2, <2>7, <2>8, <2>9, Zenon
<1>5. \/ /\ queue' = queue /\ dropped' \in Nat
         /\ dropped' = IF Watched(p) THEN (dropped + 1) % SeqBound ELSE dropped
      \/ \E e \in Entries :
           /\ queue' = Append(queue, e) /\ e.packet = p
           /\ Watched(p) => e.before = dropped
           /\ dropped' \in Nat
           /\ dropped' = IF Watched(p) THEN 0 ELSE dropped
  BY <1>1, PushFacts, Zenon
<1>6. QED
  BY <1>3, <1>4, <1>5, Zenon

\* What the PC reckons with, and the number that comes next while Core 1 alone
\* sends packets of the kind
Base == IF Watched(onAir.packet) THEN onAir.packet.sequence ELSE heard + lost
Pending == seq["core1"][watched]

Linked ==
  /\ \E E : /\ Chained(queue, watched, Base, E)
            /\ Same(Pending, E[Len(queue)] + 1 + dropped)
  /\ Watched(onAir.packet) =>
       Same(onAir.packet.sequence, heard + lost + 1 + onAir.before)
  /\ ~Watched(guest)

LossInv == mixed \/ Linked

LEMMA NobodyIsWatched == ASSUME watched \in Kind PROVE ~Watched(NoPacket)
BY DEF Watched, NoPacket, Kind

LEMMA LossTypes ==
  ASSUME WireTyped, AirInv
  PROVE  /\ Base \in Int /\ Pending \in Int
         /\ Watched(onAir.packet) => onAir \in Entries /\ frame # <<>>
<1>1. Watched(onAir.packet) => onAir \in Entries /\ frame # <<>>
  BY OnAirFacts, NobodyIsWatched DEF WireTyped
<1>2. Base \in Int
  <2>1. onAir \in Entries => onAir.packet.sequence \in Nat
    BY PacketKinds DEF Entries
  <2>2. heard + lost \in Int
    BY DEF WireTyped
  <2>3. QED
    BY <1>1, <2>1, <2>2 DEF Base
<1>3. Pending \in Int
  <2>1. seq["core1"][watched] \in Numbers
    BY DEF WireTyped, Counters, Source
  <2>2. seq["core1"][watched] \in Nat
    BY <2>1, NumbersFit
  <2>3. QED
    BY <2>2 DEF Pending
<1>4. QED
  BY <1>1, <1>2, <1>3

LEMMA InitLoss == WireInit => LossInv
<1> SUFFICES ASSUME WireInit PROVE LossInv
  OBVIOUS
<1>1. WireTyped /\ AirInv
  BY InitWireTyped, InitAir
<1>2. ~Watched(onAir.packet) /\ ~Watched(guest)
  BY <1>1, NobodyIsWatched DEF WireInit, NoEntry, WireTyped
<1>3. Base = SeqBound - 1 /\ Pending = 0
  <2>1. Base = SeqBound - 1
    BY <1>2, WireFacts DEF WireInit, Base
  <2>2. Pending = 0
    BY <1>1 DEF WireInit, Pending, WireTyped, Source
  <2>3. QED
    BY <2>1, <2>2
<1>4. PICK s \in Int : s = SeqBound - 1
  BY WireFacts
<1>5. PICK E : E = [i \in 0 .. 0 |-> s]
  OBVIOUS
<1>6. Chained(queue, watched, Base, E)
  <2>1. E \in [0 .. 0 -> Int] /\ E[0] = s /\ Len(queue) = 0
    BY <1>5 DEF WireInit
  <2>2. Same(E[0], Base)
    BY <1>3, <1>4, <2>1, SameSelf
  <2>3. QED
    BY <2>1, <2>2 DEF Chained
<1>7. Same(Pending, E[Len(queue)] + 1 + dropped)
  <2>1. E[Len(queue)] + 1 + dropped = 0 + SeqBound
    BY <1>4, <1>5, WireFacts DEF WireInit
  <2>2. 0 = (0 + SeqBound) + SeqBound * (-1)
    BY WireFacts
  <2>3. QED
    BY <1>3, <2>1, <2>2 DEF Same
<1>8. QED
  BY <1>2, <1>6, <1>7 DEF LossInv, Linked

LossTypesHold ==
  /\ Base \in Int
  /\ Watched(onAir.packet) => frame # <<>>

LEMMA NextLossTypes == WireTyped' /\ AirInv' => LossTypesHold'
<1>1. WireTyped /\ AirInv => LossTypesHold
  BY LossTypes DEF LossTypesHold
<1>2. QED
  BY <1>1, PTL

\* A number that is taken is followed by the next one.
LEMMA NumberTaken ==
  ASSUME WireTyped, NEW s \in Source, NEW k \in Kind, seq' = NextSeq(s, k)
  PROVE  /\ seq[s][k] \in Nat /\ seq'[s][k] \in Int
         /\ Same(seq'[s][k], seq[s][k] + 1)
         /\ \A s2 \in Source, k2 \in Kind : s2 # s \/ k2 # k => seq'[s2][k2] = seq[s2][k2]
<1>1. seq[s][k] \in Numbers /\ seq \in Counters
  BY DEF WireTyped, Counters
<1>2. PICK n \in Int : n = seq[s][k] + 1 /\ seq[s][k] \in Nat
  <2>1. seq[s][k] \in Nat
    BY <1>1, NumbersFit
  <2>2. QED
    BY <2>1
<1>3. PICK m \in Int : m = n % SeqBound /\ Same(n, m)
  <2>1. n % SeqBound \in Nat
    BY NumbersFit
  <2>2. QED
    BY <2>1, ModIsSame
<1>4. Same(m, n)
  BY <1>3, SameBothWays
<1>5. seq'[s][k] = m
  BY <1>1, <1>2, <1>3, NextSeqFacts
<1>6. QED
  BY <1>1, <1>2, <1>4, <1>5, NextSeqFacts

LEMMA ChainFrom ==
  ASSUME NEW q \in Seq(Entries), NEW w, NEW b \in Int, NEW c \in Int, Same(b, c),
         NEW E, Chained(q, w, b, E)
  PROVE  Chained(q, w, c, E)
<1>1. E[0] \in Int /\ Same(E[0], b)
  BY ChainEnds DEF Chained
<1>2. Same(E[0], c)
  BY <1>1, SameTransitive
<1>3. QED
  BY <1>2 DEF Chained

LEMMA Unmoved ==
  /\ UNCHANGED <<watched, onAir, heard, lost>> => Base' = Base
  /\ UNCHANGED <<watched, seq>> => Pending' = Pending
<1>1. UNCHANGED <<watched, onAir, heard, lost>> => Base' = Base
  BY DEF Base, Watched
<1>2. UNCHANGED <<watched, seq>> => Pending' = Pending
  BY DEF Pending
<1>3. QED
  BY <1>1, <1>2

LEMMA Core1PushKeepsLoss ==
  ASSUME WireTyped, WireTyped', AirInv, Linked, Core1Push
  PROVE  Linked'
<1>1. PICK p \in Core1Packets : PushTelemetry(p)
  BY DEF Core1Push
<1>2. /\ seq' = NextSeq("core1", core1)
      /\ UNCHANGED <<guest, watched, onAir, heard, lost>>
  BY DEF Core1Push, Core1Counts, radio
<1>3. "core1" \in Source /\ core1 \in Kind /\ watched \in Kind
  BY DEF WireTyped, Source
<1>4. p \in Packets /\ p.kind = core1 /\ p.sequence = seq["core1"][core1]
  BY Core1Typed DEF WireTyped, Counters, Numbers, Source
<1>5. PICK n \in Nat, m \in Int :
        /\ n = seq["core1"][core1] /\ m = seq'["core1"][core1] /\ Same(m, n + 1)
        /\ \A k2 \in Kind : k2 # core1 => seq'["core1"][k2] = seq["core1"][k2]
  BY <1>2, <1>3, NumberTaken
<1>6. PICK E : Chained(queue, watched, Base, E) /\ Same(Pending, E[Len(queue)] + 1 + dropped)
  BY DEF Linked
<1>7. Watched(p) => watched = core1 /\ Pending = n
  BY <1>4, <1>5 DEF Watched, Pending
<1>8. ~Watched(p) => watched # core1
  BY <1>4 DEF Watched
<1>9. Watched(p) => Same(p.sequence, E[Len(queue)] + 1 + dropped)
  BY <1>4, <1>5, <1>6, <1>7
<1>10. PICK F :
         /\ Chained(queue', watched, Base, F)
         /\ Watched(p) => Same(p.sequence + 1, F[Len(queue')] + 1 + dropped')
         /\ ~Watched(p) => F[Len(queue')] = E[Len(queue)] /\ dropped' = dropped
  BY <1>1, <1>4, <1>6, <1>9, PushLinks, Zenon
<1>11. Same(Pending', F[Len(queue')] + 1 + dropped')
  <2>1. CASE Watched(p)
    <3>1. Pending' = m
      BY <1>2, <1>5, <1>7, <2>1 DEF Pending
    <3>2. Same(n + 1, F[Len(queue')] + 1 + dropped')
      BY <1>4, <1>5, <1>10, <2>1
    <3>3. F[Len(queue')] \in Int /\ dropped' \in Nat
      BY <1>10, ChainEnds DEF WireTyped
    <3>4. n + 1 \in Int /\ F[Len(queue')] + 1 + dropped' \in Int
      BY <3>3
    <3>5. QED
      BY <1>5, <3>1, <3>2, <3>4, SameTransitive, Zenon
  <2>2. CASE ~Watched(p)
    <3>1. Pending' = Pending
      BY <1>2, <1>3, <1>5, <1>8, <2>2 DEF Pending
    <3>2. QED
      BY <1>6, <1>10, <2>2, <3>1, Zenon
  <2>3. QED
    BY <2>1, <2>2
<1>12. Base' = Base
  BY <1>2, Unmoved
<1>13. Watched(onAir.packet)' =>
         Same(onAir.packet.sequence, heard + lost + 1 + onAir.before)'
  BY <1>2 DEF Linked, Watched
<1>14. ~Watched(guest)'
  BY <1>2 DEF Linked, Watched
<1>15. QED
  BY <1>2, <1>10, <1>11, <1>12, <1>13, <1>14 DEF Linked

\* The guest leaves Core 1's numbers alone.
LEMMA GuestBuildsKeepsLoss ==
  ASSUME WireTyped, AirInv, Linked, NEW k \in Kind, GuestBuilds(k), ~mixed'
  PROVE  Linked'
<1>1. /\ seq' = NextSeq("guest", k) /\ k # watched
      /\ UNCHANGED <<queue, dropped, watched, onAir, heard, lost>>
  BY DEF GuestBuilds, radio
<1>2. guest'.kind = k
  BY GuestBuildsFacts DEF WireTyped
<1>3. "guest" \in Source /\ "core1" \in Source /\ "core1" # "guest" /\ watched \in Kind
  BY DEF Source, WireTyped
<1>4. seq'["core1"][watched] = seq["core1"][watched]
  BY <1>1, <1>3, NumberTaken
<1>5. PICK E : Chained(queue, watched, Base, E) /\ Same(Pending, E[Len(queue)] + 1 + dropped)
  BY DEF Linked
<1>6. Pending' = Pending /\ Base' = Base
  BY <1>1, <1>4, Unmoved DEF Pending
<1>7. Watched(onAir.packet)' =>
        Same(onAir.packet.sequence, heard + lost + 1 + onAir.before)'
  BY <1>1 DEF Linked, Watched
<1>8. ~Watched(guest)'
  BY <1>1, <1>2 DEF Watched
<1>9. QED
  BY <1>1, <1>5, <1>6, <1>7, <1>8 DEF Linked

LEMMA GuestEmitsKeepsLoss ==
  ASSUME WireTyped, WireTyped', AirInv, Linked, GuestEmits
  PROVE  Linked'
<1>1. /\ guest # NoPacket /\ PushTelemetry(guest) /\ guest' = NoPacket
      /\ UNCHANGED <<seq, watched, onAir, heard, lost>>
  BY DEF GuestEmits, radio
<1>2. guest \in Packets /\ ~Watched(guest)
  BY <1>1 DEF WireTyped, Linked
<1>3. PICK E : Chained(queue, watched, Base, E) /\ Same(Pending, E[Len(queue)] + 1 + dropped)
  BY DEF Linked
<1>4. PICK F :
        /\ Chained(queue', watched, Base, F)
        /\ F[Len(queue')] = E[Len(queue)] /\ dropped' = dropped
  BY <1>1, <1>2, <1>3, PushLinks, Zenon
<1>5. Pending' = Pending /\ Base' = Base
  BY <1>1, Unmoved
<1>6. Same(Pending', F[Len(queue')] + 1 + dropped')
  BY <1>3, <1>4, <1>5, Zenon
<1>7. Watched(onAir.packet)' =>
        Same(onAir.packet.sequence, heard + lost + 1 + onAir.before)'
  BY <1>1 DEF Linked, Watched
<1>8. ~Watched(guest)'
  BY <1>1, NobodyIsWatched DEF WireTyped, Watched
<1>9. QED
  BY <1>1, <1>4, <1>5, <1>6, <1>7, <1>8 DEF Linked

LEMMA SendTelemetryKeepsLoss ==
  ASSUME WireTyped, WireTyped', AirInv, AirInv', Linked, SendTelemetry
  PROVE  Linked'
<1>1. /\ frame = <<>> /\ queue # <<>> /\ onAir' = Head(queue) /\ queue' = Tail(queue)
      /\ UNCHANGED <<seq, guest, dropped, watched, heard, lost>>
  BY DEF SendTelemetry, producers
<1>2. PICK E : Chained(queue, watched, Base, E) /\ Same(Pending, E[Len(queue)] + 1 + dropped)
  BY DEF Linked
<1>3. queue \in Seq(Entries) /\ queue' \in Seq(Entries)
  BY DEF WireTyped
<1>4. PICK F : /\ Chained(queue', watched, E[1], F) /\ F[Len(queue')] = E[Len(queue)]
               /\ E[1] \in Int /\ E[0] \in Int
  BY <1>1, <1>2, <1>3, ChainTail, ChainEnds, Zenon
<1>5. ~Watched(onAir.packet)
  BY <1>1, LossTypes
<1>6. Base = heard + lost /\ heard \in Nat /\ lost \in Nat
  BY <1>5 DEF Base, WireTyped
<1>7. PICK e \in Entries : onAir' = e /\ e = queue[1]
  BY <1>1, <1>3, TailTyped
<1>8. /\ Same(E[0], Base)
      /\ Counted(watched, e) => E[1] = e.packet.sequence /\ Same(E[1], E[0] + 1 + e.before)
      /\ ~Counted(watched, e) => E[1] = E[0]
  <2>1. 1 \in 1 .. Len(queue) /\ 1 - 1 = 0
    BY <1>1, <1>3
  <2>2. QED
    BY <1>2, <1>7, <2>1, Zenon DEF Chained
<1>9. Watched(onAir.packet)' <=> Counted(watched, e)
  BY <1>1, <1>7 DEF Watched, Counted
<1>10. Same(E[1], Base')
  <2>1. CASE Counted(watched, e)
    <3>1. Base' = E[1]
      BY <1>7, <1>8, <1>9, <2>1 DEF Base
    <3>2. QED
      BY <1>4, <3>1, SameSelf
  <2>2. CASE ~Counted(watched, e)
    <3>1. Base' = Base
      BY <1>1, <1>6, <1>9, <2>2 DEF Base
    <3>2. QED
      BY <1>8, <2>2, <3>1
  <2>3. QED
    BY <2>1, <2>2
<1>11. Chained(queue', watched, Base', F)
  <2>1. Base' \in Int
    BY NextLossTypes DEF LossTypesHold
  <2>2. QED
    BY <1>3, <1>4, <1>10, <2>1, ChainFrom, Zenon
<1>12. Pending' = Pending
  BY <1>1, Unmoved
<1>13. Watched(onAir.packet)' =>
         Same(onAir.packet.sequence, heard + lost + 1 + onAir.before)'
  <2>1. ASSUME Counted(watched, e)
        PROVE  Same(e.packet.sequence, heard + lost + 1 + e.before)
    <3>1. e.before \in Int /\ Base \in Int
      BY <1>6 DEF Entries
    <3>2. PICK d \in Int : d = 1 + e.before
      BY <3>1
    <3>3. Same(E[0] + d, Base + d)
      BY <1>4, <1>8, <3>1, SameShifted, Zenon
    <3>4. E[0] + d = E[0] + 1 + e.before /\ Base + d = heard + lost + 1 + e.before
      <4>1. PICK z \in Int, h \in Nat, l \in Nat :
              z = E[0] /\ h = heard /\ l = lost /\ Base = h + l
        BY <1>4, <1>6
      <4>2. QED
        BY <3>1, <3>2, <4>1
    <3>5. E[0] + d \in Int /\ Base + d \in Int
      BY <1>4, <3>1
    <3>6. Same(E[1], E[0] + d) /\ E[1] = e.packet.sequence
      BY <1>8, <2>1, <3>4
    <3>7. Same(E[1], Base + d)
      BY <1>4, <3>3, <3>5, <3>6, SameTransitive, Zenon
    <3>8. QED
      BY <3>4, <3>6, <3>7
  <2>2. QED
    BY <1>1, <1>7, <1>9, <2>1
<1>14. ~Watched(guest)'
  BY <1>1 DEF Linked, Watched
<1>15. QED
  BY <1>1, <1>2, <1>4, <1>11, <1>12, <1>13, <1>14 DEF Linked

LEMMA ReceivedKeepsLoss ==
  ASSUME WireTyped, WireTyped', AirInv, AirInv', Linked, Received
  PROVE  Linked'
<1>1. /\ frame # <<>> /\ onAir' = NoEntry /\ frame' = <<>>
      /\ UNCHANGED <<queue, seq, guest, dropped, watched>>
  BY DEF Received, OffAir, producers
<1>2. PcDecodes(frame[1]) = onAir.packet
  BY <1>1, OnAirFacts
<1>3. ~Watched(onAir.packet)'
  BY <1>1, NextLossTypes DEF LossTypesHold
<1>4. Base' = Base
  <2>1. Base' = heard' + lost'
    BY <1>3 DEF Base
  <2>2. CASE Watched(onAir.packet)
    <3>1. onAir.packet # NoPacket /\ onAir.packet.sequence \in Nat
      BY <2>2, LossTypes, NobodyIsWatched, PacketKinds DEF Entries, WireTyped
    <3>2. heard' = onAir.packet.sequence /\ lost' = 0
      BY <1>2, <2>2, <3>1 DEF Received
    <3>3. QED
      BY <2>1, <2>2, <3>1, <3>2 DEF Base
  <2>3. CASE ~Watched(onAir.packet)
    <3>1. UNCHANGED <<heard, lost>>
      BY <1>2, <2>3, Zenon DEF Received
    <3>2. QED
      BY <2>1, <2>3, <3>1 DEF Base
  <2>4. QED
    BY <2>2, <2>3
<1>5. Pending' = Pending
  BY <1>1, Unmoved
<1>6. ~Watched(guest)'
  BY <1>1 DEF Linked, Watched
<1>7. QED
  BY <1>1, <1>3, <1>4, <1>5, <1>6 DEF Linked

LEMMA LostOnAirKeepsLoss ==
  ASSUME WireTyped, WireTyped', AirInv, AirInv', Linked, LostOnAir
  PROVE  Linked'
<1>1. /\ onAir' = NoEntry /\ frame' = <<>>
      /\ UNCHANGED <<queue, seq, guest, dropped, watched, heard>>
      /\ lost' = IF Watched(onAir.packet)
                 THEN (lost + onAir.before + 1) % SeqBound ELSE lost
  BY DEF LostOnAir, OffAir, producers
<1>2. ~Watched(onAir.packet)' /\ Base \in Int /\ Base' \in Int
  BY <1>1, LossTypes, NextLossTypes DEF LossTypesHold
<1>3. Base' = heard + lost'
  BY <1>1, <1>2 DEF Base
<1>4. Same(Base, Base')
  <2>1. CASE Watched(onAir.packet)
    <3>1. PICK h \in Int, x \in Int, y \in Int :
            h = heard /\ x = lost + onAir.before + 1 /\ y = x % SeqBound /\ Same(x, y)
      <4>1. lost + onAir.before + 1 \in Int /\ heard \in Int
        BY OnAirFacts DEF WireTyped
      <4>2. QED
        BY <4>1, ModIsSame
    <3>2. Same(x + h, y + h)
      BY <3>1, SameShifted
    <3>3. y + h = Base'
      BY <1>1, <1>3, <2>1, <3>1
    <3>4. x + h = heard + lost + 1 + onAir.before
      <4>1. heard \in Nat /\ lost \in Nat /\ onAir.before \in Nat
        BY OnAirFacts DEF WireTyped
      <4>2. QED
        BY <3>1, <4>1
    <3>5. Same(Base, x + h)
      BY <2>1, <3>4 DEF Base, Linked
    <3>6. Same(x + h, Base') /\ x + h \in Int
      BY <3>2, <3>3
    <3>7. QED
      BY <1>2, <3>5, <3>6, SameTransitive, Zenon
  <2>2. CASE ~Watched(onAir.packet)
    <3>1. Base' = Base
      BY <1>1, <1>3, <2>2 DEF Base
    <3>2. QED
      BY <1>2, <3>1, SameSelf
  <2>3. QED
    BY <2>1, <2>2
<1>5. PICK E : Chained(queue, watched, Base, E) /\ Same(Pending, E[Len(queue)] + 1 + dropped)
  BY DEF Linked
<1>6. Chained(queue, watched, Base', E)
  <2>1. queue \in Seq(Entries)
    BY DEF WireTyped
  <2>2. QED
    BY <1>2, <1>4, <1>5, <2>1, ChainFrom, Zenon
<1>7. Pending' = Pending
  BY <1>1, Unmoved
<1>8. ~Watched(guest)'
  BY <1>1 DEF Linked, Watched
<1>9. QED
  BY <1>1, <1>2, <1>5, <1>6, <1>7, <1>8 DEF Linked

LEMMA NextLoss == WireInv /\ WireInv' /\ LossInv /\ [WireNext]_wireVars => LossInv'
<1> SUFFICES ASSUME WireTyped, WireTyped', AirInv, AirInv', LossInv, [WireNext]_wireVars,
                    ~mixed'
             PROVE  Linked'
  BY DEF WireInv, LossInv
<1>1. Linked
  <2>1. ~mixed
    BY DEF WireNext, Radio, Core1Push, GuestBuilds, GuestEmits, SendTelemetry, SendBeacon,
       Received, LostOnAir, producers, wireVars
  <2>2. QED
    BY <2>1 DEF LossInv
<1>2. CASE SendBeacon \/ UNCHANGED wireVars
  <2>1. UNCHANGED <<queue, seq, guest, dropped, watched, onAir, heard, lost>>
    BY <1>2 DEF SendBeacon, wireVars, producers, radio
  <2>2. Base' = Base /\ Pending' = Pending
    BY <2>1, Unmoved
  <2>3. Watched(onAir.packet)' =>
          Same(onAir.packet.sequence, heard + lost + 1 + onAir.before)'
    BY <1>1, <2>1 DEF Linked, Watched
  <2>4. ~Watched(guest)'
    BY <1>1, <2>1 DEF Linked, Watched
  <2>5. QED
    BY <1>1, <2>1, <2>2, <2>3, <2>4 DEF Linked
<1>3. QED
  BY <1>1, <1>2, Core1PushKeepsLoss, GuestBuildsKeepsLoss, GuestEmitsKeepsLoss,
     SendTelemetryKeepsLoss, ReceivedKeepsLoss, LostOnAirKeepsLoss, Zenon
     DEF WireNext, Radio

LEMMA LossInvariant == WireSpec => [](WireInv /\ LossInv)
<1>1. WireInit => WireInv /\ LossInv
  BY InitWire, InitLoss
<1>2. (WireInv /\ LossInv) /\ [WireNext]_wireVars => (WireInv /\ LossInv)'
  BY NextWire, NextLoss
<1>3. QED
  BY <1>1, <1>2, PTL DEF WireSpec

\* While Core 1 alone sends packets of a kind, a gap in the numbers the PC gets
\* of it is exactly what the full queue refused and the radio lost, modulo the
\* width of the counter.
THEOREM LossesAreCounted == WireSpec => GapsAreLosses
<1> DEFINE Gap == Received /\ Watched(onAir.packet) /\ ~mixed => GapIsLoss
<1>1. (WireInv /\ LossInv) /\ [WireNext]_wireVars => Gap
  <2> SUFFICES ASSUME WireTyped, AirInv, Linked, Received, Watched(onAir.packet)
               PROVE  (heard' - heard - 1) % SeqBound = (lost + onAir.before) % SeqBound
    BY DEF WireInv, LossInv, GapIsLoss
  <2>1. onAir \in Entries /\ frame # <<>>
    BY LossTypes
  <2>2. PICK n \in Nat, b \in Nat :
          n = onAir.packet.sequence /\ b = onAir.before /\ onAir.packet # NoPacket
    BY <2>1, PacketKinds DEF Entries
  <2>3. PcDecodes(frame[1]) = onAir.packet
    BY <2>1, OnAirFacts
  <2>4. heard' = n
    BY <2>2, <2>3 DEF Received
  <2>5. PICK h \in Nat, l \in Nat : h = heard /\ l = lost
    BY DEF WireTyped
  <2>6. Same(n, h + l + 1 + b)
    BY <2>2, <2>5 DEF Linked
  <2>7. PICK x \in Int, y \in Int, c \in Int : x = n /\ y = h + l + 1 + b /\ c = -(h + 1)
    OBVIOUS
  <2>8. Same(x + c, y + c)
    BY <2>6, <2>7, SameShifted
  <2>9. x + c = n - h - 1 /\ y + c = l + b
    BY <2>7
  <2>10. x + c \in Int /\ y + c \in Int
    OBVIOUS
  <2>11. (x + c) % SeqBound = (y + c) % SeqBound
    BY <2>8, <2>10, SameIsEqualMod
  <2>12. QED
    BY <2>2, <2>4, <2>5, <2>9, <2>11
<1>2. QED
  BY <1>1, LossInvariant, PTL DEF WireSpec, GapsAreLosses

-----------------------------------------------------------------------------
(* Fallback                                                                 *)

FallbackTyped ==
  /\ sinceValid \in Nat /\ armed \in Nat /\ queries \in Nat
  /\ intents \in Seq(Int \X Int)

\* A command in a queue came with the frame of this very tick, and a motor that
\* turns was heard of no earlier than the router armed its timeout.
SilenceInv ==
  /\ FallbackTyped
  /\ armed <= Dms
  /\ queries > 0 \/ intents # <<>> => sinceValid = 0
  /\ motor # Stop => sinceValid <= armed

LEMMA TimeoutFacts == Dms \in Nat /\ Threshold \in Nat /\ Dms < Threshold
BY FallbackAssumption

LEMMA DriveIsPair ==
  ASSUME NEW class
  PROVE  Drive(class) \in Int \X Int
BY DEF Drive, Stop

LEMMA InitSilence == Init => SilenceInv
BY TimeoutFacts DEF Init, SilenceInv, FallbackTyped

LEMMA NextSilence == SilenceInv /\ [Next]_vars => SilenceInv'
<1> SUFFICES ASSUME SilenceInv, [Next]_vars PROVE SilenceInv'
  OBVIOUS
<1> USE TimeoutFacts DEF SilenceInv, FallbackTyped
<1>1. CASE Guest
  <2>1. PICK c : c = Drive(ResultFromBytes(ResultToBytes(Unpack(RESULT))).top_class)
    OBVIOUS
  <2>2. c \in Int \X Int
    BY <2>1, DriveIsPair
  <2>3. intents' = intents \/ intents' = Append(intents, c)
    BY <1>1, <2>1 DEF Guest
  <2>4. /\ queries > 0 /\ queries' = queries - 1
        /\ UNCHANGED <<sinceValid, armed, motor>>
    BY <1>1 DEF Guest
  <2>5. intents' \in Seq(Int \X Int)
    <3>1. intents \in Seq(Int \X Int) /\ Append(intents, c) \in Seq(Int \X Int)
      BY <2>2, AppendTyped
    <3>2. QED
      BY <2>3, <3>1, Zenon
  <2>6. queries' \in Nat /\ sinceValid = 0
    BY <2>4
  <2>7. QED
    BY <2>4, <2>5, <2>6
<1>2. CASE Route
  <2>1. /\ intents # <<>> /\ intents' = Tail(intents) /\ armed' = 0
        /\ UNCHANGED <<sinceValid, queries>>
    BY <1>2 DEF Route
  <2>2. QED
    BY <2>1
<1>3. CASE DeadMansSwitch
  BY <1>3 DEF DeadMansSwitch, TimeoutStore
<1>4. CASE Malformed \/ UNCHANGED vars
  BY <1>4 DEF Malformed, vars
<1>5. CASE Beacon
  BY <1>5 DEF Beacon
<1>6. CASE Query
  BY <1>6 DEF Query
<1>7. CASE Tick
  BY <1>7 DEF Tick, OneMore
<1>8. CASE \E bytes \in Snapshots : PushAudio(bytes)
  BY <1>8 DEF PushAudio
<1>9. QED
  BY <1>1, <1>2, <1>3, <1>4, <1>5, <1>6, <1>7, <1>8 DEF Next, Core0, Frames

LEMMA SilenceInvariant == Spec => []SilenceInv
BY InitSilence, NextSilence, PTL DEF Spec

\* Whatever was heard before, a robot whose radio has been silent for the
\* threshold stands still with nothing left to make it move.
THEOREM SilenceIsStandstill == Spec => []SilentRobotStands
<1>1. SilenceInv => SilentRobotStands
  BY TimeoutFacts DEF SilenceInv, FallbackTyped, SilentRobotStands
<1>2. QED
  BY <1>1, SilenceInvariant, PTL

\* The twelve bytes the guest parses hold the result the host wrote.
LEMMA ResultRoundTrip ==
  ASSUME NEW r \in Results
  PROVE  ResultFromBytes(ResultToBytes(r)) = r
<1>1. PICK x \in BOOLEAN, c \in 0 .. 100, p \in 0 .. 100 :
        r = [active |-> x, top_class |-> c, confidence_pct |-> p]
  <2>1. PICK x \in BOOLEAN, c \in 0 .. 7, p \in 0 .. 100 :
          r = [active |-> x, top_class |-> c, confidence_pct |-> p]
    BY DEF Results, Percentages
  <2>2. c \in 0 .. 100
    OBVIOUS
  <2>3. QED
    BY <2>1, <2>2
<1>2. PICK a \in 0 .. 100 : a = (IF x THEN 1 ELSE 0) /\ (x <=> a # 0)
  OBVIOUS
<1>3. ASSUME NEW v \in 0 .. 100
      PROVE  v \in Nat /\ v % SIZE32 = v /\ AsSigned(v, SIZE32) = v
  <2>1. v \in Nat /\ SIZE32 \in Nat /\ 2 * v < SIZE32 /\ v < SIZE32
    BY SizeFacts, FallbackAssumption
  <2>2. v % SIZE32 = v
    BY <2>1
  <2>3. QED
    BY <2>1, <2>2 DEF AsSigned
<1>4. PICK w \in Seq(Byte) : w = <<>> /\ Len(w) = 0
  <2>1. <<>> \in Seq(Byte) /\ Len(<<>>) = 0
    OBVIOUS
  <2>2. QED
    BY <2>1, Zenon
<1>5. PICK a4 \in Seq(Byte), c4 \in Seq(Byte), p4 \in Seq(Byte) :
        a4 = LeU32(a) /\ c4 = LeU32(c) /\ p4 = LeU32(p) /\ Len(a4) = 4
  BY <1>3, <1>4, Written32
<1>6. U32At(a4, 0) = a
  <2>1. U32At(w \o a4, Len(w)) = a
    BY <1>3, <1>5, Written32
  <2>2. w \o a4 = a4
    BY <1>4
  <2>3. QED
    BY <1>4, <2>1, <2>2
<1>7. PICK y \in Seq(Byte) :
        y = a4 \o c4 /\ Len(y) = Len(a4) + 4 /\ Extends(y, a4) /\ U32At(y, Len(a4)) = c
  <2>1. c \in Nat /\ c % SIZE32 = c
    BY <1>3
  <2>2. /\ a4 \o LeU32(c) \in Seq(Byte) /\ Len(a4 \o LeU32(c)) = Len(a4) + 4
        /\ Extends(a4 \o LeU32(c), a4) /\ U32At(a4 \o LeU32(c), Len(a4)) = c % SIZE32
    BY <2>1, Written32, Zenon
  <2>3. QED
    BY <1>5, <2>1, <2>2
<1>8. PICK z \in Seq(Byte) :
        z = y \o p4 /\ Extends(z, y) /\ U32At(z, Len(y)) = p
  <2>1. p \in Nat /\ p % SIZE32 = p
    BY <1>3
  <2>2. /\ y \o LeU32(p) \in Seq(Byte) /\ Extends(y \o LeU32(p), y)
        /\ U32At(y \o LeU32(p), Len(y)) = p % SIZE32
    BY <2>1, Written32, Zenon
  <2>3. QED
    BY <1>5, <2>1, <2>2
<1>9. U32At(z, 0) = a /\ U32At(z, 4) = c /\ U32At(z, 8) = p
  <2>1. Extends(z, a4)
    BY <1>7, <1>8, ExtendsTransitive
  <2>2. 0 \in Nat /\ 4 \in Nat
    OBVIOUS
  <2>3. /\ 0 + 4 <= Len(a4) => U32At(z, 0) = U32At(a4, 0)
        /\ 4 + 4 <= Len(y) => U32At(z, 4) = U32At(y, 4)
    BY <1>8, <2>1, <2>2, ReadsAgree, Zenon
  <2>4. QED
    BY <1>5, <1>6, <1>7, <1>8, <2>3
<1>10. ResultToBytes(r) = z
  <2>1. r.active = x /\ r.top_class = c /\ r.confidence_pct = p
    BY <1>1
  <2>2. QED
    BY <1>2, <1>5, <1>7, <1>8, <2>1, Zenon DEF ResultToBytes
<1>11. I32At(z, 0) = a /\ I32At(z, 4) = c /\ I32At(z, 8) = p
  BY <1>3, <1>9 DEF I32At
<1>12. QED
  BY <1>1, <1>2, <1>10, <1>11 DEF ResultFromBytes

\* What the guest reads is the latest pass, and everything that moves is of it.
Commanded(m) ==
  lastPass.active /\ lastPass.confidence_pct >= 60 /\ m = Drive(lastPass.top_class)

AutonomyInv ==
  /\ channel \in Seq(Seq(Int))
  /\ lastPass \in Results /\ RESULT = Pack(lastPass)
  /\ motor = Stop \/ Commanded(motor)
  /\ \A i \in DOMAIN intents : intents[i] = Stop \/ Commanded(intents[i])

LEMMA InitAutonomy == Init => AutonomyInv
BY NoResultPacked DEF Init, AutonomyInv

LEMMA NextAutonomy == SilenceInv /\ AutonomyInv /\ [Next]_vars => AutonomyInv'
<1> SUFFICES ASSUME FallbackTyped, AutonomyInv, [Next]_vars PROVE AutonomyInv'
  BY DEF SilenceInv
<1>1. intents \in Seq(Int \X Int) /\ DOMAIN intents = 1 .. Len(intents)
  BY DEF FallbackTyped
<1>2. CASE Guest
  <2>1. PICK r : r = lastPass /\ r = ResultFromBytes(ResultToBytes(Unpack(RESULT)))
    BY UnpackPack, ResultRoundTrip DEF AutonomyInv
  <2>2. UNCHANGED <<motor, channel, RESULT, lastPass>>
    BY <1>2 DEF Guest
  <2>3. PICK c : c = Drive(r.top_class) /\ c \in Int \X Int
    BY DriveIsPair
  <2>4. \/ intents' = intents
        \/ r.active /\ r.confidence_pct >= 60 /\ intents' = Append(intents, c)
    BY <1>2, <2>1, <2>3, Zenon DEF Guest
  <2>5. CASE intents' = intents
    BY <2>2, <2>5 DEF AutonomyInv, Commanded
  <2>6. CASE r.active /\ r.confidence_pct >= 60 /\ intents' = Append(intents, c)
    <3>1. Commanded(c)'
      BY <2>1, <2>2, <2>3, <2>6 DEF Commanded
    <3>2. /\ DOMAIN intents' = 1 .. Len(intents) + 1 /\ intents'[Len(intents) + 1] = c
          /\ \A i \in 1 .. Len(intents) : intents'[i] = intents[i]
      BY <1>1, <2>3, <2>6, AppendTyped
    <3>3. \A i \in DOMAIN intents' : i \in DOMAIN intents \/ i = Len(intents) + 1
      BY <1>1, <3>2
    <3>4. ASSUME NEW i \in DOMAIN intents'
          PROVE  (intents[i] = Stop \/ Commanded(intents[i]))'
      <4>1. CASE i \in DOMAIN intents
        <5>1. intents'[i] = intents[i]
          BY <1>1, <3>2, <4>1
        <5>2. intents[i] = Stop \/ Commanded(intents[i])
          BY <4>1 DEF AutonomyInv
        <5>3. QED
          BY <2>2, <5>1, <5>2 DEF Commanded
      <4>2. CASE i = Len(intents) + 1
        BY <3>1, <3>2, <4>2 DEF Commanded
      <4>3. QED
        BY <3>3, <4>1, <4>2
    <3>5. (motor = Stop \/ Commanded(motor))'
      BY <2>2 DEF AutonomyInv, Commanded
    <3>6. QED
      BY <2>2, <3>4, <3>5 DEF AutonomyInv
  <2>7. QED
    BY <2>4, <2>5, <2>6
<1>3. CASE Route
  <2>1. /\ intents # <<>> /\ motor' = Head(intents) /\ intents' = Tail(intents)
        /\ UNCHANGED <<channel, RESULT, lastPass>>
    BY <1>3 DEF Route
  <2>2. PICK t : t = Tail(intents) /\ t \in Seq(Int \X Int)
    BY <1>1, <2>1, TailTyped
  <2>3. /\ Head(intents) = intents[1] /\ 1 \in DOMAIN intents
        /\ \A i \in DOMAIN t : i + 1 \in DOMAIN intents /\ t[i] = intents[i + 1]
    <3>1. /\ Head(intents) = intents[1] /\ Len(intents) \in Nat /\ Len(t) \in Nat
          /\ Len(intents) = Len(t) + 1
          /\ \A i \in 1 .. Len(t) : t[i] = intents[i + 1]
      BY <1>1, <2>1, <2>2, TailTyped
    <3>2. DOMAIN t = 1 .. Len(t)
      BY <2>2
    <3>3. PICK n \in Nat : Len(t) = n /\ DOMAIN t = 1 .. n /\ DOMAIN intents = 1 .. n + 1
      BY <1>1, <3>1, <3>2
    <3>4. 1 \in DOMAIN intents /\ \A i \in DOMAIN t : i + 1 \in DOMAIN intents
      BY <3>3
    <3>5. QED
      BY <3>1, <3>2, <3>4, Zenon
  <2>4. motor' = Stop \/ Commanded(motor')
    BY <2>1, <2>3 DEF AutonomyInv
  <2>5. \A i \in DOMAIN t : t[i] = Stop \/ Commanded(t[i])
    BY <2>3, Zenon DEF AutonomyInv
  <2>6. QED
    BY <2>1, <2>2, <2>4, <2>5 DEF AutonomyInv, Commanded
<1>4. CASE DeadMansSwitch
  <2>1. intents = <<>> /\ intents' = <<>> /\ motor' = Stop
    BY <1>4 DEF DeadMansSwitch, TimeoutStore
  <2>2. \/ UNCHANGED <<channel, RESULT, lastPass>>
        \/ /\ channel # <<>> /\ lastPass' = Run(Head(channel))
           /\ RESULT' = Pack(Run(Head(channel))) /\ channel' = Tail(channel)
    BY <1>4 DEF DeadMansSwitch, RunFallback
  <2>3. channel' \in Seq(Seq(Int)) /\ lastPass' \in Results /\ RESULT' = Pack(lastPass')
    <3>1. CASE UNCHANGED <<channel, RESULT, lastPass>>
      BY <3>1 DEF AutonomyInv
    <3>2. CASE /\ channel # <<>> /\ lastPass' = Run(Head(channel))
               /\ RESULT' = Pack(Run(Head(channel))) /\ channel' = Tail(channel)
      <4>1. Head(channel) \in Seq(Int) /\ Tail(channel) \in Seq(Seq(Int))
        BY <3>2, TailTyped DEF AutonomyInv
      <4>2. QED
        BY <3>2, <4>1, RunTyped
    <3>3. QED
      BY <2>2, <3>1, <3>2
  <2>4. QED
    BY <2>1, <2>3 DEF AutonomyInv
<1>5. CASE \E bytes \in Snapshots : PushAudio(bytes)
  <2>1. PICK bytes \in Snapshots : PushAudio(bytes)
    BY <1>5
  <2>2. PICK w : w = Window([i \in DOMAIN bytes |-> AsI8(bytes[i])])
    OBVIOUS
  <2>3. w \in Seq(Int)
    <3>1. bytes \in Seq(0 .. 255)
      BY FallbackAssumption
    <3>2. \A i \in DOMAIN bytes : AsI8(bytes[i]) \in Int
      <4>1. \A i \in DOMAIN bytes : bytes[i] \in 0 .. 255
        BY <3>1, ElementsTyped, Zenon
      <4>2. \A x \in 0 .. 255 : AsI8(x) \in Int
        BY DEF AsI8
      <4>3. QED
        BY <4>1, <4>2
    <3>3. [i \in DOMAIN bytes |-> AsI8(bytes[i])] \in Seq(Int)
      BY <3>1, <3>2
    <3>4. QED
      BY <2>2, <3>3, WindowFacts
  <2>4. channel' = Append(channel, w) \/ channel' = channel
    BY <2>1, <2>2 DEF PushAudio
  <2>5. channel' \in Seq(Seq(Int))
    <3>1. PICK S : S = Seq(Int) /\ channel \in Seq(S) /\ w \in S
      BY <2>3 DEF AutonomyInv
    <3>2. Append(channel, w) \in Seq(S)
      BY <3>1, AppendTyped
    <3>3. QED
      BY <2>4, <3>1, <3>2
  <2>6. UNCHANGED <<motor, intents, RESULT, lastPass>>
    BY <2>1 DEF PushAudio
  <2>7. QED
    BY <2>5, <2>6 DEF AutonomyInv, Commanded
<1>6. CASE Malformed \/ Beacon \/ Query \/ Tick \/ UNCHANGED vars
  <2>1. UNCHANGED <<motor, intents, channel, RESULT, lastPass>>
    BY <1>6 DEF Malformed, Beacon, Query, Tick, vars
  <2>2. QED
    BY <2>1 DEF AutonomyInv, Commanded
<1>7. QED
  BY <1>2, <1>3, <1>4, <1>5, <1>6 DEF Next, Core0, Frames

\* The robot does only what the engine was confident of in its latest pass: no
\* mixture of packed fields reaches the motors, and no class a later pass has
\* replaced.
THEOREM LatestPassDrives == Spec => []AutonomyFollowsLatestPass
<1>1. SilenceInv /\ AutonomyInv => AutonomyFollowsLatestPass
  BY DEF AutonomyInv, AutonomyFollowsLatestPass, Moving, Commanded
<1>2. Init => AutonomyInv
  BY InitAutonomy
<1>3. QED
  BY <1>1, <1>2, SilenceInvariant, NextAutonomy, PTL DEF Spec

=============================================================================
