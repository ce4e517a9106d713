----------------------------- MODULE RingProofs -----------------------------
(***************************************************************************)
(* Arithmetic of the ring indices, for every ring length and index width   *)
(* that RingAssumption allows: what u32::wrapping_add and wrapping_sub do  *)
(* to the distance of two indices, and which indices share a slot.         *)
(***************************************************************************)
EXTENDS Ring, TLAPS

\* Quotient and remainder of a division by a positive number.
LEMMA DivMod ==
  ASSUME NEW n \in Nat \ {0}, NEW x \in Int
  PROVE  /\ x % n \in 0 .. n - 1
         /\ x \div n \in Int
         /\ x = n * (x \div n) + (x % n)
OBVIOUS

\* A multiple of n that is not 0 is at least n away from 0.
LEMMA MulGap ==
  ASSUME NEW n \in Nat \ {0}, NEW k \in Int, k # 0
  PROVE  n * k >= n \/ n * k <= -n
<1>1. CASE k >= 1
  BY <1>1
<1>2. CASE k <= -1
  BY <1>2
<1>. QED BY <1>1, <1>2

\* A decomposition into a multiple of n and a remainder is the one % computes.
LEMMA ModUnique ==
  ASSUME NEW n \in Nat \ {0}, NEW x \in Int, NEW q \in Int, NEW r \in 0 .. n - 1,
         x = n * q + r
  PROVE  x % n = r
<1> DEFINE d == x \div n
           k == q - d
<1>1. d \in Int /\ x % n \in 0 .. n - 1 /\ x = n * d + (x % n)
  BY DivMod
<1>2. k \in Int
  BY <1>1
<1>3. n * k = n * q - n * d
  BY <1>1
<1>4. n * k = (x % n) - r
  <2>1. n * q \in Int /\ n * d \in Int
    BY <1>1
  <2>. QED BY <2>1, <1>1, <1>3
<1>5. k = 0
  <2>1. SUFFICES ASSUME k # 0 PROVE FALSE
    OBVIOUS
  <2>2. n * k >= n \/ n * k <= -n
    BY <1>2, <2>1, MulGap
  <2>. HIDE DEF k, d
  <2>. QED BY <2>2, <1>4, <1>1
<1>. QED BY <1>4, <1>5, <1>1

\* wrapping_sub of two indices, spelled out.
LEMMA WrappingSubValue ==
  ASSUME NEW i \in Index, NEW j \in Index
  PROVE  WrappingSub(i, j) = IF i >= j THEN i - j ELSE i - j + IndexMod
<1>1. IndexMod \in Nat \ {0}
  BY RingAssumption
<1>2. CASE i >= j
  <2>1. i - j \in 0 .. IndexMod - 1 /\ i - j = IndexMod * 0 + (i - j)
    BY <1>1, <1>2 DEF Index
  <2>. QED BY <1>1, <1>2, <2>1, ModUnique DEF WrappingSub
<1>3. CASE i < j
  <2>1. i - j + IndexMod \in 0 .. IndexMod - 1
    BY <1>1, <1>3 DEF Index
  <2>2. i - j = IndexMod * (-1) + (i - j + IndexMod)
    BY <1>1 DEF Index
  <2>3. i - j \in Int /\ -1 \in Int
    BY <1>1 DEF Index
  <2>. QED BY <1>1, <1>3, <2>1, <2>2, <2>3, ModUnique DEF WrappingSub, Index
<1>. QED BY <1>2, <1>3 DEF Index

\* wrapping_add of less than a full turn, spelled out.
LEMMA WrappingAddValue ==
  ASSUME NEW i \in Index, NEW n \in Index
  PROVE  WrappingAdd(i, n) =
           IF i + n < IndexMod THEN i + n ELSE i + n - IndexMod
<1>1. IndexMod \in Nat \ {0}
  BY RingAssumption
<1>2. CASE i + n < IndexMod
  <2>1. i + n \in 0 .. IndexMod - 1 /\ i + n = IndexMod * 0 + (i + n)
    BY <1>1, <1>2 DEF Index
  <2>. QED BY <1>1, <1>2, <2>1, ModUnique DEF WrappingAdd
<1>3. CASE i + n >= IndexMod
  <2>1. i + n - IndexMod \in 0 .. IndexMod - 1
    BY <1>1, <1>3 DEF Index
  <2>2. i + n = IndexMod * 1 + (i + n - IndexMod)
    BY <1>1 DEF Index
  <2>3. i + n \in Int /\ 1 \in Int
    BY <1>1 DEF Index
  <2>. QED BY <1>1, <1>3, <2>1, <2>2, <2>3, ModUnique DEF WrappingAdd, Index
<1>. QED BY <1>1, <1>2, <1>3 DEF Index

\* The results are indices again; so is a usize cast to u32.
LEMMA IndexType ==
  /\ \A i, n \in Int : WrappingAdd(i, n) \in Index /\ WrappingSub(i, n) \in Index
  /\ \A n \in Nat : U32(n) \in Index
  /\ Index \subseteq Nat
  /\ 0 \in Index /\ 1 \in Index
<1>1. IndexMod \in Nat \ {0, 1}
  BY RingAssumption
<1>2. \A x \in Int : x % IndexMod \in Index
  BY <1>1, DivMod DEF Index
<1>3. \A i, n \in Int : i + n \in Int /\ i - n \in Int
  OBVIOUS
<1>4. \A n \in Nat : n \in Int
  OBVIOUS
<1>5. /\ \A i, n \in Int : WrappingAdd(i, n) \in Index /\ WrappingSub(i, n) \in Index
      /\ \A n \in Nat : U32(n) \in Index
  BY <1>2, <1>3, <1>4 DEF WrappingAdd, WrappingSub, U32
<1>6. Index \subseteq Nat /\ 0 \in Index /\ 1 \in Index
  BY <1>1 DEF Index
<1>. QED BY <1>5, <1>6

\* Two indices at distance 0 are equal.
LEMMA SubZero ==
  ASSUME NEW i \in Index, NEW j \in Index
  PROVE  WrappingSub(i, j) = 0 <=> i = j
BY WrappingSubValue, RingAssumption DEF Index

\* Advancing the leading index by n adds n to the distance.
LEMMA SubAddLeft ==
  ASSUME NEW i \in Index, NEW j \in Index, NEW n \in Index,
         WrappingSub(i, j) + n < IndexMod
  PROVE  WrappingSub(WrappingAdd(i, n), j) = WrappingSub(i, j) + n
<1> DEFINE a == WrappingAdd(i, n)
<1>1. a \in Index
  BY IndexType DEF Index
<1>2. a = IF i + n < IndexMod THEN i + n ELSE i + n - IndexMod
  BY WrappingAddValue
<1>3. WrappingSub(a, j) = IF a >= j THEN a - j ELSE a - j + IndexMod
  BY <1>1, WrappingSubValue
<1>4. WrappingSub(i, j) = IF i >= j THEN i - j ELSE i - j + IndexMod
  BY WrappingSubValue
<1>5. IndexMod \in Nat
  BY RingAssumption
<1>. HIDE DEF a
<1>6. WrappingSub(a, j) = WrappingSub(i, j) + n
  BY <1>1, <1>2, <1>3, <1>4, <1>5 DEF Index
<1>. QED BY <1>6 DEF a

\* Advancing the trailing index takes one off the distance.
LEMMA SubAddRight ==
  ASSUME NEW i \in Index, NEW j \in Index, WrappingSub(i, j) > 0
  PROVE  WrappingSub(i, WrappingAdd(j, 1)) = WrappingSub(i, j) - 1
<1> DEFINE a == WrappingAdd(j, 1)
<1>1. a \in Index /\ 1 \in Index
  BY IndexType DEF Index
<1>2. a = IF j + 1 < IndexMod THEN j + 1 ELSE j + 1 - IndexMod
  BY <1>1, WrappingAddValue
<1>3. WrappingSub(i, a) = IF i >= a THEN i - a ELSE i - a + IndexMod
  BY <1>1, WrappingSubValue
<1>4. WrappingSub(i, j) = IF i >= j THEN i - j ELSE i - j + IndexMod
  BY WrappingSubValue
<1>5. IndexMod \in Nat
  BY RingAssumption
<1>. HIDE DEF a
<1>6. WrappingSub(i, a) = WrappingSub(i, j) - 1
  BY <1>1, <1>2, <1>3, <1>4, <1>5 DEF Index
<1>. QED BY <1>6 DEF a

\* Advancing the trailing index by n, not beyond the leading one, takes n off.
LEMMA SubAdvance ==
  ASSUME NEW i \in Index, NEW j \in Index, NEW n \in Index, n <= WrappingSub(i, j)
  PROVE  WrappingSub(i, WrappingAdd(j, n)) = WrappingSub(i, j) - n
<1> DEFINE a == WrappingAdd(j, n)
<1>1. a \in Index
  BY IndexType DEF Index
<1>2. a = IF j + n < IndexMod THEN j + n ELSE j + n - IndexMod
  BY WrappingAddValue
<1>3. WrappingSub(i, a) = IF i >= a THEN i - a ELSE i - a + IndexMod
  BY <1>1, WrappingSubValue
<1>4. WrappingSub(i, j) = IF i >= j THEN i - j ELSE i - j + IndexMod
  BY WrappingSubValue
<1>5. IndexMod \in Nat
  BY RingAssumption
<1>. HIDE DEF a
<1>6. WrappingSub(i, a) = WrappingSub(i, j) - n
  BY <1>1, <1>2, <1>3, <1>4, <1>5 DEF Index
<1>. QED BY <1>6 DEF a

\* A slot is a position of the descriptor array.
LEMMA SlotType ==
  \A x \in Int : Slot(x) \in Slots
<1>1. RingLen \in Nat \ {0}
  BY RingAssumption
<1>. QED BY <1>1, DivMod DEF Slot, Slots

\* A full turn of an index does not change the slot: len divides 2^32.
LEMMA SlotPeriod ==
  ASSUME NEW x \in Int
  PROVE  Slot(x + IndexMod) = Slot(x)
<1> DEFINE k == IndexMod \div RingLen
           d == x \div RingLen
           r == x % RingLen
<1>1. RingLen \in Nat \ {0} /\ IndexMod \in Int /\ IndexMod % RingLen = 0
  BY RingAssumption
<1>2. k \in Int /\ IndexMod = RingLen * k
  <2>1. k \in Int /\ IndexMod = RingLen * k + (IndexMod % RingLen)
    BY <1>1, DivMod
  <2>. HIDE DEF k
  <2>2. RingLen * k \in Int
    BY <2>1, <1>1
  <2>. QED BY <2>1, <2>2, <1>1
<1>3. d \in Int /\ r \in 0 .. RingLen - 1 /\ x = RingLen * d + r
  BY <1>1, DivMod
<1>. HIDE DEF k, d, r
<1>4. RingLen * (d + k) = RingLen * d + RingLen * k
  BY <1>1, <1>2, <1>3
<1>5. x + IndexMod = RingLen * (d + k) + r
  <2>1. ASSUME NEW a \in Int, NEW b \in Int, NEW c \in Int,
               x = a + r, IndexMod = b, c = a + b
        PROVE  x + IndexMod = c + r
    BY <2>1, <1>3
  <2>2. RingLen * d \in Int /\ RingLen * k \in Int /\ RingLen * (d + k) \in Int
    BY <1>1, <1>2, <1>3
  <2>. QED BY <2>1, <2>2, <1>2, <1>3, <1>4
<1>6. x + IndexMod \in Int /\ d + k \in Int
  BY <1>1, <1>2, <1>3
<1>7. (x + IndexMod) % RingLen = r
  BY <1>1, <1>3, <1>5, <1>6, ModUnique
<1>. QED BY <1>7 DEF Slot, r

\* Less than a ring apart, two positions share a slot only if they are equal.
LEMMA SlotInjective ==
  ASSUME NEW x \in Int, NEW y \in Int,
         x - y < RingLen, y - x < RingLen, Slot(x) = Slot(y)
  PROVE  x = y
<1> DEFINE c == x \div RingLen
           d == y \div RingLen
           r == x % RingLen
           k == c - d
<1>1. RingLen \in Nat \ {0}
  BY RingAssumption
<1>2. c \in Int /\ d \in Int /\ r \in Int
      /\ x = RingLen * c + r /\ y = RingLen * d + r
  BY <1>1, DivMod DEF Slot
<1>. HIDE DEF c, d, r
<1>3. RingLen * k = x - y
  <2>1. RingLen * k = RingLen * c - RingLen * d
    BY <1>1, <1>2
  <2>2. RingLen * c \in Int /\ RingLen * d \in Int
    BY <1>1, <1>2
  <2>. QED BY <2>1, <2>2, <1>2
<1>4. k \in Int
  BY <1>2
<1>5. k = 0
  <2>1. SUFFICES ASSUME k # 0 PROVE FALSE
    OBVIOUS
  <2>2. RingLen * k >= RingLen \/ RingLen * k <= -RingLen
    BY <1>1, <1>4, <2>1, MulGap
  <2>. HIDE DEF k
  <2>. QED BY <2>2, <1>3, <1>1
<1>. QED BY <1>1, <1>3, <1>5

\* The slot i positions after an advanced index is that of i + 1 after it.
LEMMA SlotAdd ==
  ASSUME NEW j \in Index, NEW n \in Index, NEW i \in Int
  PROVE  Slot(WrappingAdd(j, n) + i) = Slot(j + (n + i))
<1>1. IndexMod \in Int /\ j \in Int /\ n \in Int
  BY RingAssumption DEF Index
<1>2. CASE j + n < IndexMod
  BY <1>1, <1>2, WrappingAddValue
<1>3. CASE ~(j + n < IndexMod)
  <2>1. WrappingAdd(j, n) + i + IndexMod = j + (n + i)
    BY <1>1, <1>3, WrappingAddValue
  <2>2. WrappingAdd(j, n) + i \in Int
    BY <1>1, <1>3, WrappingAddValue
  <2>. QED BY <2>1, <2>2, SlotPeriod
<1>. QED BY <1>2, <1>3

\* Counting from the trailing index, an index has the slot of its distance.
LEMMA SlotSub ==
  ASSUME NEW i \in Index, NEW j \in Index, NEW n \in Int
  PROVE  Slot(j + (WrappingSub(i, j) + n)) = Slot(i + n)
<1>1. IndexMod \in Int /\ i \in Int /\ j \in Int
  BY RingAssumption DEF Index
<1>2. CASE i >= j
  BY <1>1, <1>2, WrappingSubValue
<1>3. CASE ~(i >= j)
  <2>1. j + (WrappingSub(i, j) + n) = (i + n) + IndexMod
    BY <1>1, <1>3, WrappingSubValue
  <2>. QED BY <1>1, <2>1, SlotPeriod
<1>. QED BY <1>2, <1>3
=============================================================================
