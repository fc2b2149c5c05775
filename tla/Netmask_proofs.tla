---------------------------- MODULE Netmask_proofs ----------------------------
(***************************************************************************)
(* Theorems of Netmask for every width of the parts of an address.  What   *)
(* they need to know about powers of two comes from counting: a set of n   *)
(* elements has 2^n subsets.                                               *)
(***************************************************************************)
EXTENDS Netmask, FiniteSetTheorems, TLAPS

LEMMA PowerCounts ==
  ASSUME NEW n \in Nat
  PROVE  /\ IsFiniteSet(SUBSET (1 .. n))
         /\ Cardinality(SUBSET (1 .. n)) = 2 ^ n
<1>1. IsFiniteSet(1 .. n) /\ Cardinality(1 .. n) = n
  BY FS_Interval
<1> QED
  BY <1>1, FS_SUBSET

LEMMA PowerNat ==
  ASSUME NEW n \in Nat
  PROVE  2 ^ n \in Nat /\ 2 ^ n > 0
<1>1. SUBSET (1 .. n) # {}
  OBVIOUS
<1>2. Cardinality(SUBSET (1 .. n)) # 0
  BY <1>1, PowerCounts, FS_EmptySet
<1>3. Cardinality(SUBSET (1 .. n)) \in Nat
  BY PowerCounts, FS_CardinalityType
<1> QED
  BY <1>2, <1>3, PowerCounts

LEMMA PowerOrder ==
  ASSUME NEW m \in Nat, NEW n \in Nat, m <= n
  PROVE  2 ^ m <= 2 ^ n
<1>1. SUBSET (1 .. m) \subseteq SUBSET (1 .. n)
  OBVIOUS
<1>2. Cardinality(SUBSET (1 .. m)) <= Cardinality(SUBSET (1 .. n))
  BY <1>1, PowerCounts, FS_Subset
<1> QED
  BY <1>2, PowerCounts

(* A subset of 1 .. m + n is one of its first m elements and one of the    *)
(* rest.                                                                   *)
LEMMA PowerSum ==
  ASSUME NEW m \in Nat, NEW n \in Nat
  PROVE  2 ^ (m + n) = 2 ^ m * 2 ^ n
<1> DEFINE Low == 1 .. m
           High == m + 1 .. m + n
           f == [p \in (SUBSET Low) \X (SUBSET High) |-> p[1] \cup p[2]]
<1>1. Low \cap High = {} /\ Low \cup High = 1 .. m + n
  OBVIOUS
<1>2. /\ IsFiniteSet(SUBSET Low) /\ Cardinality(SUBSET Low) = 2 ^ m
      /\ IsFiniteSet(SUBSET High) /\ Cardinality(SUBSET High) = 2 ^ n
  <2>1. IsFiniteSet(High) /\ Cardinality(High) = n
    BY FS_Interval
  <2> QED
    BY <2>1, FS_SUBSET, PowerCounts
<1> HIDE DEF Low, High
<1>3. /\ IsFiniteSet((SUBSET Low) \X (SUBSET High))
      /\ Cardinality((SUBSET Low) \X (SUBSET High)) = 2 ^ m * 2 ^ n
  <2>1. /\ IsFiniteSet((SUBSET Low) \X (SUBSET High))
        /\ Cardinality((SUBSET Low) \X (SUBSET High))
             = Cardinality(SUBSET Low) * Cardinality(SUBSET High)
    BY <1>2, FS_Product, Zenon
  <2> QED
    BY <1>2, <2>1, Zenon
<1>4. f \in Bijection((SUBSET Low) \X (SUBSET High), SUBSET (Low \cup High))
  <2>1. f \in [(SUBSET Low) \X (SUBSET High) -> SUBSET (Low \cup High)]
    OBVIOUS
  <2>2. ASSUME NEW p \in (SUBSET Low) \X (SUBSET High),
               NEW q \in (SUBSET Low) \X (SUBSET High),
               f[p] = f[q]
        PROVE  p = q
    <3>1. p[1] \cup p[2] = q[1] \cup q[2]
      BY <2>2
    <3>2. p[1] = q[1] /\ p[2] = q[2]
      BY <1>1, <3>1
    <3> QED
      BY <3>2
  <2>3. ASSUME NEW S \in SUBSET (Low \cup High)
        PROVE  \E p \in (SUBSET Low) \X (SUBSET High) : f[p] = S
    <3>1. <<S \cap Low, S \cap High>> \in (SUBSET Low) \X (SUBSET High)
      OBVIOUS
    <3>2. f[<<S \cap Low, S \cap High>>] = S
      BY <3>1
    <3> QED
      BY <3>1, <3>2
  <2> HIDE DEF f
  <2>4. IsInjective(f)
    BY <2>1, <2>2, Zenon DEF IsInjective
  <2> QED
    BY <2>1, <2>3, <2>4, Zenon DEF Bijection, Injection, Surjection
<1> HIDE DEF f
<1>5. Cardinality(SUBSET (Low \cup High)) = 2 ^ m * 2 ^ n
  <2>1. ExistsBijection((SUBSET Low) \X (SUBSET High), SUBSET (Low \cup High))
    BY <1>4, Zenon DEF ExistsBijection
  <2> QED
    BY <1>3, <2>1, FS_Bijection
<1> QED
  BY <1>1, <1>5, PowerCounts

LEMMA PowerNext ==
  ASSUME NEW n \in Nat
  PROVE  2 ^ (n + 1) = 2 * 2 ^ n
<1>1. 2 ^ (n + 1) = 2 ^ n * 2 ^ 1
  BY PowerSum
<1> QED
  BY <1>1, PowerNat

LEMMA PowerLess ==
  ASSUME NEW m \in Nat, NEW n \in Nat, m < n
  PROVE  2 ^ m < 2 ^ n
<1>1. 2 ^ (m + 1) <= 2 ^ n
  BY PowerOrder
<1> QED
  BY <1>1, PowerNext, PowerNat
-----------------------------------------------------------------------------
LEMMA WidthFacts ==
  /\ Width \in Nat /\ Width > 0
  /\ 2 ^ Width \in Nat /\ 2 ^ Width > 0
  /\ \A j \in 0 .. Width :
       /\ 2 ^ j \in Nat /\ 2 ^ j > 0 /\ 2 ^ j <= 2 ^ Width
       /\ j < Width => 2 ^ j < 2 ^ Width
<1>1. Width \in Nat /\ Width > 0
  BY PartAssumption DEF Width
<1> QED
  BY <1>1, PowerNat, PowerOrder, PowerLess

(* Every mask is a word.                                                   *)
LEMMA MasksAreWords == Masks \subseteq Words
<1>1. ASSUME NEW length \in 0 .. Width
      PROVE  PrefixMask(length) \in Words
  <2>1. Width - length \in 0 .. Width
    BY WidthFacts
  <2> QED
    BY <2>1, WidthFacts DEF PrefixMask, Words
<1> QED
  BY <1>1 DEF Masks

(* A set of numbers that has all numbers below each of its elements has a  *)
(* last element: its size tells which.                                     *)
LEMMA LastElement ==
  ASSUME NEW w \in Nat, NEW S \in SUBSET (0 .. w - 1), 0 \in S,
         \A j \in S : \A i \in 0 .. j : i \in S
  PROVE  \E j \in S : j + 1 \notin S
<1> DEFINE n == Cardinality(S)
<1>1. IsFiniteSet(S)
  <2>1. IsFiniteSet(0 .. w - 1)
    BY FS_Interval
  <2> QED
    BY <2>1, FS_Subset
<1>2. n \in Nat /\ n > 0
  <2>1. n \in Nat /\ n # 0
    BY <1>1, FS_CardinalityType, FS_EmptySet
  <2> QED
    BY <2>1
<1> HIDE DEF n
<1>3. n - 1 \in S
  <2>1. SUFFICES ASSUME n - 1 \notin S PROVE FALSE
    OBVIOUS
  <2>2. ASSUME NEW j \in S PROVE j <= n - 2
    <3>1. j \in Nat /\ ~ (n - 1 <= j)
      BY <1>2, <2>1
    <3> QED
      BY <1>2, <3>1
  <2>3. S \in SUBSET (0 .. n - 2)
    BY <1>2, <2>2
  <2>4. /\ IsFiniteSet(0 .. n - 2)
        /\ Cardinality(0 .. n - 2) = n - 1
    BY <1>2, FS_Interval
  <2>5. Cardinality(S) <= Cardinality(0 .. n - 2)
    BY <2>3, <2>4, FS_Subset
  <2> QED
    BY <1>2, <2>4, <2>5 DEF n
<1>4. n \notin S
  <2>1. SUFFICES ASSUME n \in S PROVE FALSE
    OBVIOUS
  <2>2. 0 .. n \in SUBSET S
    BY <2>1
  <2>3. Cardinality(0 .. n) = n + 1
    BY <1>2, FS_Interval
  <2>4. Cardinality(0 .. n) <= Cardinality(S)
    BY <1>1, <2>2, FS_Subset
  <2> QED
    BY <1>2, <2>3, <2>4 DEF n
<1>5. n - 1 + 1 = n
  BY <1>2
<1> QED
  BY <1>3, <1>4, <1>5

(* The highest bit of a positive word.                                     *)
LEMMA HighestBit ==
  ASSUME NEW c \in Words, c > 0
  PROVE  \E j \in 0 .. Width - 1 : 2 ^ j <= c /\ c < 2 ^ (j + 1)
<1> DEFINE S == {j \in 0 .. Width - 1 : 2 ^ j <= c}
<1>1. c \in Nat /\ c < 2 ^ Width
  BY WidthFacts DEF Words
<1>2. 0 \in S
  <2>1. 2 ^ 0 = 1
    OBVIOUS
  <2> QED
    BY <1>1, <2>1, WidthFacts
<1>3. ASSUME NEW j \in S, NEW i \in 0 .. j
      PROVE  i \in S
  <2>1. i \in Nat /\ j \in Nat /\ i <= j /\ i \in 0 .. Width - 1
    BY WidthFacts
  <2>2. 2 ^ i <= 2 ^ j /\ 2 ^ i \in Nat /\ 2 ^ j \in Nat /\ 2 ^ j <= c
    BY <2>1, PowerOrder, PowerNat
  <2> QED
    BY <1>1, <2>1, <2>2
<1>4. PICK j \in S : j + 1 \notin S
  <2>1. S \in SUBSET (0 .. Width - 1) /\ Width \in Nat
    BY WidthFacts
  <2> HIDE DEF S
  <2> QED
    BY <1>2, <1>3, <2>1, LastElement
<1>5. j \in 0 .. Width - 1 /\ 2 ^ j <= c
  OBVIOUS
<1>6. c < 2 ^ (j + 1)
  <2>1. j + 1 \in 0 .. Width
    BY <1>5, WidthFacts
  <2>2. CASE j + 1 = Width
    BY <1>1, <2>2
  <2>3. CASE j + 1 # Width
    <3>1. ~ (2 ^ (j + 1) <= c)
      BY <1>4, <2>1, <2>3, WidthFacts
    <3> QED
      BY <1>1, <2>1, <3>1, WidthFacts
  <2> QED
    BY <2>2, <2>3
<1> QED
  BY <1>5, <1>6

(* A power of two has one bit, the word before it only lower ones.         *)
LEMMA BitsOfPower ==
  ASSUME NEW j \in 0 .. Width - 1
  PROVE  /\ \A k \in Bits(2 ^ j) : k >= j
         /\ \A k \in Bits(2 ^ j - 1) : k < j
<1>1. /\ j \in Nat /\ 2 ^ j \in Nat /\ 2 ^ j > 0
      /\ \A k \in 0 .. Width - 1 : k \in Nat /\ 2 ^ k \in Nat /\ 2 ^ k > 0
  BY WidthFacts, PowerNat
<1>2. ASSUME NEW k \in Bits(2 ^ j) PROVE k >= j
  <2>1. k \in 0 .. Width - 1 /\ (2 ^ j \div 2 ^ k) % 2 = 1
    BY DEF Bits
  <2>2. SUFFICES ASSUME k < j PROVE FALSE
    BY <1>1, <2>1
  <2>3. j - k - 1 \in Nat /\ k \in Nat /\ (j - k - 1) + 1 = j - k
        /\ k + (j - k) = j /\ j - k \in Nat
    BY <1>1, <2>1, <2>2
  <2>4. 2 ^ j = 2 ^ k * 2 ^ (j - k)
    BY <2>3, PowerSum
  <2>5. 2 ^ (j - k) = 2 * 2 ^ (j - k - 1) /\ 2 ^ (j - k - 1) \in Nat
    BY <2>3, PowerNext, PowerNat
  <2> DEFINE d == 2 ^ k
             e == 2 ^ (j - k - 1)
  <2>6. d \in Nat /\ d > 0 /\ e \in Nat /\ 2 ^ j = d * (2 * e)
    BY <1>1, <2>1, <2>4, <2>5
  <2> HIDE DEF d, e
  <2>7. (d * (2 * e)) \div d = 2 * e
    BY <2>6
  <2>8. (2 * e) % 2 = 0
    BY <2>6
  <2> QED
    BY <2>1, <2>6, <2>7, <2>8 DEF d
<1>3. ASSUME NEW k \in Bits(2 ^ j - 1) PROVE k < j
  <2>1. k \in 0 .. Width - 1 /\ ((2 ^ j - 1) \div 2 ^ k) % 2 = 1
    BY DEF Bits
  <2>2. SUFFICES ASSUME k >= j PROVE FALSE
    BY <1>1, <2>1
  <2>3. 2 ^ j <= 2 ^ k
    BY <1>1, <2>1, <2>2, PowerOrder
  <2>4. (2 ^ j - 1) \div 2 ^ k = 0
    BY <1>1, <2>1, <2>3
  <2>5. 0 % 2 # 1
    OBVIOUS
  <2> QED
    BY <2>1, <2>4, <2>5, Zenon
<1> QED
  BY <1>2, <1>3

(* c & (c - 1) is zero exactly for zero and the powers of two.             *)
LEMMA PowerTest ==
  ASSUME NEW c \in Words
  PROVE  And(c, Wrap(c - 1)) = {}
           <=> c = 0 \/ \E j \in 0 .. Width - 1 : c = 2 ^ j
<1>1. c \in Nat /\ c < 2 ^ Width
  BY WidthFacts DEF Words
<1>2. CASE c = 0
  <2>1. Bits(0) = {}
    <3>1. \A k \in 0 .. Width - 1 : 2 ^ k \in Nat /\ 2 ^ k > 0
      BY WidthFacts
    <3>2. \A k \in 0 .. Width - 1 : 0 \div 2 ^ k = 0
      BY <3>1
    <3> QED
      BY <3>2 DEF Bits
  <2> QED
    BY <1>2, <2>1 DEF And
<1>3. CASE c > 0
  <2>1. Wrap(c - 1) = c - 1
    BY <1>1, <1>3, WidthFacts DEF Wrap
  <2>2. PICK j \in 0 .. Width - 1 : 2 ^ j <= c /\ c < 2 ^ (j + 1)
    BY <1>3, HighestBit
  <2>3. /\ j \in Nat /\ 2 ^ j \in Nat /\ 2 ^ j > 0
        /\ 2 ^ (j + 1) = 2 * 2 ^ j
    BY WidthFacts, PowerNat, PowerNext
  <2>4. ASSUME NEW i \in 0 .. Width - 1, c = 2 ^ i
        PROVE  And(c, Wrap(c - 1)) = {}
    <3>1. \A k \in Bits(c) : k \in Int /\ k >= i
      BY <2>4, BitsOfPower DEF Bits
    <3>2. \A k \in Bits(c - 1) : k \in Int /\ k < i
      BY <2>4, BitsOfPower DEF Bits
    <3>3. i \in Int
      BY WidthFacts
    <3>4. \A k : ~ (k \in Bits(c) /\ k \in Bits(c - 1))
      BY <3>1, <3>2, <3>3
    <3> QED
      BY <2>1, <3>4 DEF And
  <2>5. ASSUME c # 2 ^ j PROVE j \in And(c, Wrap(c - 1))
    <3>1. c \div 2 ^ j = 1
      BY <1>1, <2>2, <2>3
    <3>2. (c - 1) \div 2 ^ j = 1
      BY <1>1, <2>2, <2>3, <2>5
    <3>3. 1 % 2 = 1
      OBVIOUS
    <3> QED
      BY <2>1, <3>1, <3>2, <3>3 DEF And, Bits
  <2> QED
    BY <1>3, <2>4, <2>5
<1> QED
  BY <1>1, <1>2, <1>3

(* The complement and the 1 are 2^32 - b, in the code's width.             *)
LEMMA ComplementFacts ==
  ASSUME NEW b \in Words
  PROVE  /\ Wrap(Wrap(-1 - b) + 1) = IF b = 0 THEN 0 ELSE 2 ^ Width - b
         /\ Wrap(Wrap(-1 - b) + 1) \in Words
<1> DEFINE m == 2 ^ Width
<1>1. m \in Nat /\ m > 0 /\ b \in Nat /\ b < m
  BY WidthFacts DEF Words
<1>2. \A n : Wrap(n) = n % m
  BY DEF Wrap
<1>3. Words = 0 .. m - 1
  BY DEF Words
<1> HIDE DEF m
<1>4. (-1 - b) % m = m - 1 - b
  BY <1>1
<1>5. Wrap(Wrap(-1 - b) + 1) = (m - b) % m
  BY <1>1, <1>2, <1>4
<1>6. (m - b) % m = IF b = 0 THEN 0 ELSE m - b
  BY <1>1
<1> QED
  BY <1>1, <1>3, <1>5, <1>6 DEF m

(* The test on a word: it passes exactly for the masks.                    *)
THEOREM WordTest ==
  ASSUME NEW b \in Words
  PROVE  ComplementIsPower(b) = (b \in Masks)
<1> DEFINE c == Wrap(Wrap(-1 - b) + 1)
<1>1. /\ c = IF b = 0 THEN 0 ELSE 2 ^ Width - b
      /\ c \in Words
  BY ComplementFacts
<1> HIDE DEF c
<1>2. b \in Nat /\ b < 2 ^ Width
  BY WidthFacts DEF Words
<1>3. ComplementIsPower(b) = (c = 0 \/ \E j \in 0 .. Width - 1 : c = 2 ^ j)
  BY <1>1, PowerTest DEF ComplementIsPower, c
<1>4. ASSUME c = 0 PROVE b \in Masks
  <2>1. b = 0
    BY <1>1, <1>2, <1>4, WidthFacts
  <2>2. 0 \in 0 .. Width /\ PrefixMask(0) = 0
    BY WidthFacts DEF PrefixMask
  <2> QED
    BY <2>1, <2>2 DEF Masks
<1>5. ASSUME NEW j \in 0 .. Width - 1, c = 2 ^ j
      PROVE  b \in Masks
  <2>1. Width - j \in 0 .. Width /\ Width - (Width - j) = j
        /\ 2 ^ j \in Nat /\ 2 ^ j > 0
    BY WidthFacts
  <2>2. b = 2 ^ Width - 2 ^ j
    BY <1>1, <1>2, <1>5, <2>1, WidthFacts
  <2>3. b = PrefixMask(Width - j)
    BY <2>1, <2>2 DEF PrefixMask
  <2> QED
    BY <2>1, <2>3 DEF Masks
<1>6. ASSUME b \in Masks
      PROVE  c = 0 \/ \E j \in 0 .. Width - 1 : c = 2 ^ j
  <2>1. CASE b = 0
    BY <1>1, <2>1
  <2>2. CASE b # 0
    <3>1. PICK length \in 0 .. Width : b = 2 ^ Width - 2 ^ (Width - length)
      BY <1>6 DEF Masks, PrefixMask
    <3>2. Width - length \in 0 .. Width /\ Width \in Nat
      BY WidthFacts
    <3>3. 2 ^ (Width - length) \in Nat /\ 2 ^ Width \in Nat
      BY <3>2, WidthFacts
    <3>4. c = 2 ^ (Width - length)
      BY <1>1, <2>2, <3>1, <3>3
    <3>5. length # 0
      <4>1. Width - 0 = Width
        BY <3>2
      <4> QED
        BY <2>2, <3>1, <3>3, <4>1
    <3>6. Width - length \in 0 .. Width - 1
      BY <3>2, <3>5
    <3> QED
      BY <3>4, <3>6
  <2> QED
    BY <2>1, <2>2
<1> QED
  BY <1>3, <1>4, <1>5, <1>6 DEF ComplementIsPower
-----------------------------------------------------------------------------
LEMMA ShiftFacts ==
  /\ \A k \in 0 .. 4 : Shift(k) \in Nat /\ Shift(k) > 0
  /\ Shift(2) = Shift(1) * Shift(1)
  /\ Shift(3) = Shift(1) * Shift(2)
  /\ Shift(4) = Shift(1) * Shift(3)
  /\ 2 ^ Width = Shift(4)
<1>1. \A k \in 0 .. 4 : k * PartBits \in Nat
  BY PartAssumption
<1>2. \A k \in 0 .. 4 : Shift(k) \in Nat /\ Shift(k) > 0
  BY <1>1, PowerNat DEF Shift
<1>3. ASSUME NEW k \in 1 .. 3
      PROVE  Shift(k + 1) = Shift(1) * Shift(k)
  <2>1. 1 * PartBits \in Nat /\ k * PartBits \in Nat
        /\ (k + 1) * PartBits = 1 * PartBits + k * PartBits
    BY PartAssumption
  <2> QED
    BY <2>1, PowerSum DEF Shift
<1>4. /\ 1 + 1 = 2 /\ 2 + 1 = 3 /\ 3 + 1 = 4
      /\ 1 \in 1 .. 3 /\ 2 \in 1 .. 3 /\ 3 \in 1 .. 3
  OBVIOUS
<1>5. 2 ^ Width = Shift(4)
  BY DEF Width, Shift
<1>6. Shift(2) = Shift(1) * Shift(1)
  BY <1>3, <1>4
<1>7. Shift(3) = Shift(1) * Shift(2)
  BY <1>3, <1>4
<1>8. Shift(4) = Shift(1) * Shift(3)
  BY <1>3, <1>4
<1> QED
  BY <1>2, <1>5, <1>6, <1>7, <1>8

(* A leading part makes a number of one part more.                         *)
LEMMA LeadingPart ==
  ASSUME NEW p \in Nat, NEW s \in Nat, NEW q \in Nat, NEW rest \in Nat,
         p < s, rest < q
  PROVE  p * q + rest \in Nat /\ p * q + rest < s * q
<1>1. (p + 1) * q <= s * q
  BY p + 1 <= s
<1>2. (p + 1) * q = p * q + q
  OBVIOUS
<1>3. p * q \in Nat /\ s * q \in Nat
  OBVIOUS
<1> QED
  BY <1>1, <1>2, <1>3

LEMMA PartsOfText ==
  ASSUME NEW t \in Texts
  PROVE  /\ t \in Seq(Nat) /\ Len(t) \in 1 .. 4
         /\ \A k \in 1 .. Len(t) : t[k] \in Nat
BY DEF Texts

(* What inet_aton makes of a text that it accepts is a word.               *)
LEMMA AddressIsWord ==
  ASSUME NEW t \in Texts, Fits(t)
  PROVE  Address(t) \in Words
<1>1. /\ Len(t) \in 1 .. 4
      /\ \A k \in 1 .. Len(t) : t[k] \in Nat
  BY PartsOfText
<1> DEFINE p == Shift(1)
<1>2. /\ p \in Nat /\ Shift(2) \in Nat /\ Shift(3) \in Nat
      /\ Shift(2) = p * p /\ Shift(3) = p * Shift(2)
      /\ 2 ^ Width = p * Shift(3)
  BY ShiftFacts
<1>3. \A n \in Nat : n < p * Shift(3) => n \in Words
  BY <1>2, WidthFacts DEF Words
<1>4. /\ \A k \in 1 .. Len(t) - 1 : t[k] < p
      /\ t[Len(t)] < Shift(5 - Len(t))
  BY DEF Fits
<1> HIDE DEF p
<1>5. CASE Len(t) = 1
  <2>1. t[1] \in Nat /\ t[1] < Shift(4)
    BY <1>1, <1>4, <1>5
  <2>2. Address(t) = t[1]
    BY <1>5, <2>1 DEF Address, Part
  <2> QED
    BY <1>2, <1>3, <2>1, <2>2, ShiftFacts
<1>6. CASE Len(t) = 2
  <2>1. t[1] \in Nat /\ t[2] \in Nat /\ t[1] < p /\ t[2] < Shift(3)
    BY <1>1, <1>4, <1>6
  <2>2. Address(t) = t[1] * Shift(3) + t[2]
    BY <1>2, <1>6, <2>1 DEF Address, Part
  <2> QED
    BY <1>2, <1>3, <2>1, <2>2, LeadingPart
<1>7. CASE Len(t) = 3
  <2>1. /\ t[1] \in Nat /\ t[2] \in Nat /\ t[3] \in Nat
        /\ t[1] < p /\ t[2] < p /\ t[3] < Shift(2)
    BY <1>1, <1>4, <1>7
  <2> DEFINE low == t[2] * Shift(2) + t[3]
  <2>2. low \in Nat /\ low < Shift(3)
    BY <1>2, <2>1, LeadingPart
  <2>3. Address(t) = t[1] * Shift(3) + low
    BY <1>2, <1>7, <2>1 DEF Address, Part
  <2> HIDE DEF low
  <2> QED
    BY <1>2, <1>3, <2>1, <2>2, <2>3, LeadingPart
<1>8. CASE Len(t) = 4
  <2>1. /\ t[1] \in Nat /\ t[2] \in Nat /\ t[3] \in Nat /\ t[4] \in Nat
        /\ t[1] < p /\ t[2] < p /\ t[3] < p /\ t[4] < p
    BY <1>1, <1>4, <1>8 DEF p
  <2> DEFINE low  == t[3] * p + t[4]
             rest == t[2] * Shift(2) + low
  <2>2. low \in Nat /\ low < Shift(2)
    <3>1. t[3] * p + t[4] \in Nat /\ t[3] * p + t[4] < p * p
      BY <1>2, <2>1, LeadingPart
    <3> QED
      BY <1>2, <3>1
  <2>3. Address(t) = t[1] * Shift(3) + (t[2] * Shift(2) + (t[3] * p + t[4]))
    BY <1>2, <1>8, <2>1 DEF Address, Part, p
  <2>4. Address(t) = t[1] * Shift(3) + rest
    BY <2>3
  <2> HIDE DEF low
  <2>5. rest \in Nat /\ rest < Shift(3)
    BY <1>2, <2>1, <2>2, LeadingPart
  <2> HIDE DEF rest
  <2> QED
    BY <1>2, <1>3, <2>1, <2>4, <2>5, LeadingPart
<1> QED
  BY <1>1, <1>5, <1>6, <1>7, <1>8

(* The number that is_valid_netmask makes of a text of four parts is the   *)
(* one that the kernel gets, if inet_aton accepts the text.                *)
LEMMA MaskNumberIsAddress ==
  ASSUME NEW t \in Texts, Len(t) = 4, Fits(t)
  PROVE  MaskNumbers(t) = {Address(t)}
<1>1. \A k \in 1 .. 4 : t[k] \in Nat
  BY PartsOfText
<1>2. Shift(1) \in Nat /\ Shift(2) \in Nat /\ Shift(3) \in Nat
  BY ShiftFacts
<1>3. Address(t) = t[4] + t[3] * Shift(1) + t[2] * Shift(2) + t[1] * Shift(3)
  BY <1>1, <1>2 DEF Address, Part
<1>4. Address(t) \in Words
  BY AddressIsWord
<1>5. Wrap(Address(t)) = Address(t)
  BY <1>4, WidthFacts DEF Words, Wrap
<1> QED
  BY <1>3, <1>5 DEF MaskNumbers

(* is_valid_netmask has one answer for a text of four parts: whether it is *)
(* an address and one of the masks.                                        *)
THEOREM MaskTest ==
  ASSUME NEW t \in Texts, Len(t) = 4
  PROVE  is_valid_netmask(t) = {Fits(t) /\ Address(t) \in Masks}
<1>1. CASE Fits(t)
  <2>1. MaskNumbers(t) = {Address(t)} /\ Address(t) \in Words
    BY <1>1, MaskNumberIsAddress, AddressIsWord
  <2>2. ComplementIsPower(Address(t)) = (Address(t) \in Masks)
    BY <2>1, WordTest
  <2>3. is_valid_netmask(t) = {ComplementIsPower(Address(t))}
    BY <1>1, <2>1 DEF is_valid_netmask, is_valid_ip
  <2> QED
    BY <1>1, <2>2, <2>3
<1>2. CASE ~ Fits(t)
  BY <1>2 DEF is_valid_netmask, is_valid_ip
<1> QED
  BY <1>1, <1>2
==============================================================================
