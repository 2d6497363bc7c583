-------------------------- MODULE Inference_proofs --------------------------
(***************************************************************************)
(* Lemmas about the stub engine and the word its result is published in:   *)
(* the engine's result fits the word, and unpacking inverts packing.       *)
(***************************************************************************)
EXTENDS Inference, FiniteSetTheorems, WellFoundedInduction, TLAPS

\* A non-empty set of naturals has a least element.
LEMMA NatMin ==
  ASSUME NEW S, S \subseteq Nat, S # {}
  PROVE  \E x \in S : \A y \in S : x <= y
<1>1. PICK x \in S : \A y \in S : ~(<<y, x>> \in OpToRel(<, Nat))
  BY NatLessThanWellFounded, WFMin, Zenon
<1>2. ASSUME NEW y \in S PROVE x <= y
  <2>1. ~(y < x)
    BY <1>1 DEF OpToRel
  <2>2. QED
    BY <2>1
<1>3. QED
  BY <1>2

\* Division with remainder: the remainder's range, a quotient's bound, and the
\* division of m * q + r.
LEMMA ModRange ==
  ASSUME NEW x \in Int, NEW m \in Nat, m > 0
  PROVE  x % m \in 0 .. m - 1
OBVIOUS

LEMMA DivBound ==
  ASSUME NEW x \in Nat, NEW m \in Nat, m > 0, NEW n \in Nat, x < m * n
  PROVE  x \div m \in 0 .. n - 1
OBVIOUS

LEMMA DivMod ==
  ASSUME NEW x \in Nat, NEW m \in Nat, m > 0
  PROVE  x = m * (x \div m) + (x % m) /\ x \div m \in Nat
OBVIOUS

LEMMA DivModOfSum ==
  ASSUME NEW m \in Nat, m > 0, NEW q \in Nat, NEW r \in 0 .. m - 1
  PROVE  (m * q + r) \div m = q /\ (m * q + r) % m = r
OBVIOUS

LEMMA AsU8IsByte ==
  ASSUME NEW x \in Int
  PROVE  AsU8(x) \in 0 .. 255
BY ModRange DEF AsU8

\* max_by_key finds a byte.
LEMMA TopByteIsByte ==
  ASSUME NEW w \in Seq(Int), w # <<>>
  PROVE  TopByte(w) \in 0 .. 255
<1> DEFINE at(b) == {i \in DOMAIN w : AsU8(w[i]) = b}
           freq(b) == Cardinality(at(b))
           seen == {AsU8(w[i]) : i \in DOMAIN w}
           score(b) == 256 * freq(b) + b
           most == 256 * Len(w) + 255
           gaps == {most - score(b) : b \in seen}
           Top(b) == \A c \in seen : freq(c) < freq(b) \/ (freq(c) = freq(b) /\ c <= b)
<1>1. /\ DOMAIN w = 1 .. Len(w) /\ Len(w) \in Nat /\ Len(w) > 0
      /\ \A i \in DOMAIN w : w[i] \in Int
  OBVIOUS
<1>2. seen \subseteq 0 .. 255 /\ seen # {}
  <2>1. ASSUME NEW i \in DOMAIN w PROVE AsU8(w[i]) \in 0 .. 255
    BY <1>1, AsU8IsByte
  <2>2. 1 \in DOMAIN w
    BY <1>1
  <2>3. QED
    BY <2>1, <2>2
<1>3. ASSUME NEW b PROVE freq(b) \in 0 .. Len(w)
  <2>1. IsFiniteSet(1 .. Len(w)) /\ Cardinality(1 .. Len(w)) = Len(w)
    BY <1>1, FS_Interval
  <2>2. at(b) \subseteq 1 .. Len(w)
    BY <1>1
  <2> HIDE DEF at
  <2>3. IsFiniteSet(at(b)) /\ Cardinality(at(b)) <= Cardinality(1 .. Len(w))
    BY <2>1, <2>2, FS_Subset
  <2>4. Cardinality(at(b)) \in Nat
    BY <2>3, FS_CardinalityType
  <2>5. QED
    BY <1>1, <2>1, <2>3, <2>4
<1>4. TopByte(w) = CHOOSE b \in seen : Top(b)
  BY DEF TopByte
<1> HIDE DEF freq, seen
<1>5. PICK b \in seen : Top(b)
  <2>1. gaps \subseteq Nat /\ gaps # {}
    <3>1. ASSUME NEW b \in seen PROVE most - score(b) \in Nat
      <4>1. b \in 0 .. 255 /\ freq(b) \in 0 .. Len(w) /\ Len(w) \in Nat
        BY <1>1, <1>2, <1>3
      <4>2. PICK n \in Nat, f \in Nat, x \in 0 .. 255 :
              n = Len(w) /\ f = freq(b) /\ x = b /\ f <= n
        BY <4>1
      <4>3. (256 * n + 255) - (256 * f + x) \in Nat
        <5>1. f <= n
          BY <4>2
        <5>2. QED
          BY <5>1
      <4>4. most - score(b) = (256 * n + 255) - (256 * f + x)
        BY <4>2
      <4>5. QED
        BY <4>3, <4>4
    <3> HIDE DEF most, score
    <3>2. QED
      BY <1>2, <3>1
  <2>2. PICK g \in gaps : \A h \in gaps : g <= h
    BY <2>1, NatMin
  <2>3. PICK b \in seen : g = most - score(b)
    BY <2>2
  <2>4. ASSUME NEW c \in seen PROVE freq(c) < freq(b) \/ (freq(c) = freq(b) /\ c <= b)
    <3>1. most - score(b) <= most - score(c)
      BY <2>2, <2>3
    <3>2. /\ freq(b) \in Int /\ freq(c) \in Int /\ most \in Int
          /\ b \in 0 .. 255 /\ c \in 0 .. 255
      BY <1>1, <1>2, <1>3
    <3>3. PICK m \in Int, f \in Int, h \in Int, x \in 0 .. 255, y \in 0 .. 255 :
            m = most /\ f = freq(b) /\ h = freq(c) /\ x = b /\ y = c
      BY <3>2
    <3>4. m - (256 * f + x) <= m - (256 * h + y)
      BY <3>1, <3>3
    <3>5. h < f \/ (h = f /\ y <= x)
      BY <3>4
    <3>6. QED
      BY <3>3, <3>5
  <2>5. QED
    BY <2>4
<1>6. (CHOOSE c \in seen : Top(c)) \in seen
  BY <1>5, Zenon
<1>7. QED
  BY <1>2, <1>4, <1>6

\* The sum of the magnitudes exists, sample by sample, and is not negative.
LEMMA SumAbsIsNat ==
  ASSUME NEW w \in Seq(Int)
  PROVE  SumAbs(w) \in Nat
<1> DEFINE mag(n) == Magnitude(w[n])
           Sums(f, k) == f = [n \in 0 .. k |-> IF n = 0 THEN 0 ELSE f[n - 1] + mag(n)]
<1>1. Len(w) \in Nat /\ \A n \in 1 .. Len(w) : mag(n) \in Nat
  BY DEF Magnitude
<1>2. SumAbs(w) = (CHOOSE f : Sums(f, Len(w)))[Len(w)]
  BY DEF SumAbs
<1> HIDE DEF mag
<1>3. \E f : Sums(f, Len(w))
  <2> DEFINE bad == {k \in 0 .. Len(w) : ~\E f : Sums(f, k)}
  <2>1. SUFFICES ASSUME bad # {} PROVE FALSE
    BY <1>1
  <2>2. bad \subseteq Nat
    BY <1>1
  <2>3. PICK k \in bad : \A j \in bad : k <= j
    BY <2>1, <2>2, NatMin
  <2>4. k \in 0 .. Len(w) /\ k \in Nat
    BY <1>1, <2>3
  <2>5. CASE k = 0
    <3> DEFINE f == [n \in 0 .. k |-> 0]
    <3>1. Sums(f, k)
      BY <2>5
    <3>2. QED
      BY <2>3, <3>1
  <2>6. CASE k > 0
    <3>1. k - 1 \in 0 .. Len(w) /\ ~(k <= k - 1)
      BY <2>4, <2>6
    <3>2. k - 1 \notin bad
      BY <2>3, <3>1
    <3>3. PICK f : Sums(f, k - 1)
      BY <3>1, <3>2
    <3> DEFINE g == [n \in 0 .. k |-> IF n = k THEN f[k - 1] + mag(k) ELSE f[n]]
    <3>4. ASSUME NEW n \in 0 .. k
          PROVE  g[n] = IF n = 0 THEN 0 ELSE g[n - 1] + mag(n)
      <4>1. CASE n = k
        <5>1. g[n] = f[k - 1] + mag(k) /\ g[k - 1] = f[k - 1]
          BY <2>4, <2>6, <4>1
        <5>2. QED
          BY <2>6, <4>1, <5>1
      <4>2. CASE n # k
        <5>1. n = 0 \/ (n - 1 \in 0 .. k /\ n - 1 # k)
          BY <2>4, <2>6, <4>2
        <5>2. n \in 0 .. k - 1
          BY <2>4, <2>6, <4>2
        <5>3. f[n] = IF n = 0 THEN 0 ELSE f[n - 1] + mag(n)
          BY <3>3, <5>2
        <5>4. g[n] = f[n]
          BY <4>2
        <5>5. n # 0 => g[n - 1] = f[n - 1]
          BY <5>1
        <5>6. QED
          BY <5>3, <5>4, <5>5
      <4>3. QED
        BY <4>1, <4>2
    <3>5. g = [n \in 0 .. k |-> IF n = 0 THEN 0 ELSE g[n - 1] + mag(n)]
      <4>1. g = [n \in 0 .. k |-> g[n]]
        OBVIOUS
      <4> HIDE DEF g
      <4>2. QED
        BY <3>4, <4>1
    <3>6. Sums(g, k)
      BY <3>5
    <3>7. QED
      BY <2>3, <3>6
  <2>7. QED
    BY <2>4, <2>5, <2>6
<1> DEFINE sum == CHOOSE f : Sums(f, Len(w))
<1>4. Sums(sum, Len(w))
  BY <1>3, Zenon
<1> HIDE DEF sum
<1>5. \A n \in 0 .. Len(w) : sum[n] = IF n = 0 THEN 0 ELSE sum[n - 1] + mag(n)
  BY <1>4
<1>6. \A n \in 0 .. Len(w) : sum[n] \in Nat
  <2> DEFINE bad == {n \in 0 .. Len(w) : sum[n] \notin Nat}
  <2>1. SUFFICES ASSUME bad # {} PROVE FALSE
    OBVIOUS
  <2>2. bad \subseteq Nat
    BY <1>1
  <2>3. PICK n \in bad : \A j \in bad : n <= j
    BY <2>1, <2>2, NatMin
  <2>4. n \in 0 .. Len(w) /\ n # 0
    BY <1>5, <2>3
  <2>5. n - 1 \in 0 .. Len(w) /\ ~(n <= n - 1) /\ n \in 1 .. Len(w)
    BY <1>1, <2>4
  <2>6. sum[n - 1] \in Nat
    BY <2>3, <2>5
  <2>7. sum[n] \in Nat
    BY <1>1, <1>5, <2>4, <2>5, <2>6
  <2>8. QED
    BY <2>3, <2>7
<1>7. QED
  BY <1>1, <1>2, <1>6 DEF sum

-----------------------------------------------------------------------------

Percentages == 0 .. 100
Results == [active : BOOLEAN, top_class : 0 .. 7, confidence_pct : Percentages]

\* What is read of a window is a window: cutting it twice cuts it once.
LEMMA WindowFacts ==
  ASSUME NEW t \in Seq(Int)
  PROVE  /\ Window(t) \in Seq(Int)
         /\ t # <<>> => Window(t) # <<>>
         /\ Window(Window(t)) = Window(t)
<1> DEFINE n == IF Len(t) < INFERENCE_TENSOR_SIZE THEN Len(t) ELSE INFERENCE_TENSOR_SIZE
<1>1. /\ n \in 0 .. Len(t) /\ n <= INFERENCE_TENSOR_SIZE /\ Len(t) \in Nat
      /\ t # <<>> => n > 0
  BY TensorAssumption
<1>2. Window(t) = SubSeq(t, 1, n)
  BY DEF Window
<1> HIDE DEF n
<1>3. /\ Window(t) \in Seq(Int) /\ Len(Window(t)) = n
      /\ \A i \in 1 .. n : Window(t)[i] = t[i]
  BY <1>1, <1>2
<1>4. Window(Window(t)) = SubSeq(Window(t), 1, n)
  BY <1>1, <1>3, TensorAssumption DEF Window
<1>5. SubSeq(Window(t), 1, n) = Window(t)
  BY <1>1, <1>3
<1>6. QED
  BY <1>1, <1>3, <1>4, <1>5

\* Every pass of the engine yields a result the packed word has room for.
LEMMA RunTyped ==
  ASSUME NEW t \in Seq(Int)
  PROVE  Run(t) \in Results
<1>1. CASE t = <<>>
  BY <1>1 DEF Run, NoResult, Results, Percentages
<1>2. CASE t # <<>>
  <2> DEFINE w == Window(t)
             pct == (MeanAbs(w) * 100) \div 127
  <2>1. w \in Seq(Int) /\ w # <<>>
    BY <1>2, WindowFacts
  <2>2. TopByte(w) \in 0 .. 255 /\ SumAbs(w) \in Nat /\ Len(w) \in Nat /\ Len(w) > 0
    BY <2>1, TopByteIsByte, SumAbsIsNat
  <2>3. Run(t) = [active |-> TRUE, top_class |-> TopByte(w) % 8,
                  confidence_pct |-> IF pct < 100 THEN pct ELSE 100]
    BY <1>2 DEF Run
  <2>4. TopByte(w) % 8 \in 0 .. 7
    <3>1. \A b \in 0 .. 255 : b % 8 \in 0 .. 7
      OBVIOUS
    <3>2. QED
      BY <2>2, <3>1
  <2>5. MeanAbs(w) \in Nat
    BY <2>2, DivMod DEF MeanAbs
  <2> HIDE DEF w
  <2>6. MeanAbs(w) * 100 \in Nat
    BY <2>5
  <2>7. pct \in Nat
    BY <2>6, DivMod
  <2> HIDE DEF pct
  <2>8. QED
    BY <2>3, <2>4, <2>7 DEF Results, Percentages
<1>3. QED
  BY <1>1, <1>2

\* Three fields of a word, each found where it was put.
LEMMA Fields ==
  ASSUME NEW a \in {0, 1}, NEW c \in 0 .. 7, NEW p \in 0 .. 100,
         NEW n \in Nat, n = 16 * 65536 * a + c * 256 + p
  PROVE  /\ n \div (16 * 65536) = a /\ (n \div 256) % 256 = c /\ n % 256 = p
<1>1. n \div (16 * 65536) = a
  BY SMT
<1>2. n \div 256 = 256 * (16 * a) + c /\ n % 256 = p
  BY SMT
<1>3. (256 * (16 * a) + c) % 256 = c
  BY SMT
<1>4. QED
  BY <1>1, <1>2, <1>3

\* unpack is the inverse of pack, on every result the engine yields.
LEMMA UnpackPack ==
  ASSUME NEW r \in Results
  PROVE  Unpack(Pack(r)) = r
<1>1. PICK x \in BOOLEAN, c \in 0 .. 7, p \in 0 .. 100 :
        r = [active |-> x, top_class |-> c, confidence_pct |-> p]
  BY DEF Results, Percentages
<1>2. PICK a \in {0, 1} : a = IF x THEN 1 ELSE 0
  OBVIOUS
<1>3. PICK n \in Nat : n = 16 * 65536 * a + c * 256 + p
  OBVIOUS
<1>4. Pack(r) = n
  BY <1>1, <1>2, <1>3, SMT DEF Pack
<1>5. Unpack(n) = [active |-> n \div (16 * 65536) # 0, top_class |-> (n \div 256) % 256,
                   confidence_pct |-> n % 256]
  BY SMT DEF Unpack
<1>6. n \div (16 * 65536) = a /\ (n \div 256) % 256 = c /\ n % 256 = p
  BY <1>3, Fields
<1>7. Unpack(n) = [active |-> a # 0, top_class |-> c, confidence_pct |-> p]
  BY <1>5, <1>6, SMT
<1>8. x = (a # 0)
  BY <1>2
<1>9. QED
  BY <1>1, <1>4, <1>7, <1>8, Zenon

\* Before the first pass the word says that there is no result.
LEMMA NoResultPacked ==
  NoResult \in Results /\ Pack(NoResult) = 0 /\ Unpack(0) = NoResult
<1>1. NoResult \in Results /\ Pack(NoResult) = 0
  BY SMT DEF NoResult, Results, Percentages, Pack
<1>2. QED
  BY <1>1, UnpackPack
=============================================================================
