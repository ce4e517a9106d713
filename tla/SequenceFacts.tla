--------------------------- MODULE SequenceFacts ----------------------------
(***************************************************************************)
(* Facts about numbers and sequences that the proofs about several         *)
(* components rest on: induction up to a bound, the largest member of a    *)
(* set, the set of the entries of a sequence, and what FlattenSeq returns. *)
(*                                                                         *)
(* Induction is stated for the members of a set and derived from the fact  *)
(* that < is well-founded on Nat, so that a proof by induction names the   *)
(* set of the numbers for which its claim holds.                           *)
(***************************************************************************)
EXTENDS Integers, SequencesExt, SequenceTheorems, WellFoundedInduction, TLAPS

\* No two entries are the same.
NoRepeat(s) == \A i, j \in DOMAIN s : s[i] = s[j] => i = j

-----------------------------------------------------------------------------
(* Numbers. *)

\* Induction up to N, for the members of a set.
LEMMA InductionTo ==
  ASSUME NEW N \in Nat, NEW T, 0 \in T, \A n \in 0 .. N - 1 : n \in T => n + 1 \in T
  PROVE  \A n \in 0 .. N : n \in T
<1> SUFFICES ASSUME NEW k \in 0 .. N, k \notin T PROVE FALSE
  OBVIOUS
<1> DEFINE R == OpToRel(<, Nat)
           U == {n \in 0 .. N : n \notin T}
<1>1. IsWellFoundedOn(R, Nat)
  BY NatLessThanWellFounded, Zenon
<1>2. \A x, y \in Nat : x < y => <<x, y>> \in R
  BY DEF OpToRel
<1>. HIDE DEF R
<1>3. U \subseteq Nat /\ U # {}
  OBVIOUS
<1>4. PICK x \in U : \A y \in U : ~(<<y, x>> \in R)
  BY <1>1, <1>3, WFMin
<1>5. x \in 0 .. N /\ x # 0 /\ x \notin T
  OBVIOUS
<1>6. x - 1 \in 0 .. N - 1 /\ (x - 1) + 1 = x /\ x - 1 < x
  BY <1>5
<1>7. x - 1 \notin U
  <2>1. x - 1 \in Nat /\ x \in Nat
    BY <1>5
  <2>2. <<x - 1, x>> \in R
    BY <1>2, <1>6, <2>1
  <2>. QED BY <1>4, <2>2
<1>8. x - 1 \in T
  BY <1>6, <1>7
<1>. QED BY <1>5, <1>6, <1>8

\* A set of numbers below n that is not empty has a largest member.
LEMMA LargestExists ==
  ASSUME NEW n \in Nat, NEW T \in SUBSET (0 .. n - 1), T # {}
  PROVE  \E i \in T : \A j \in T : j <= i
<1> DEFINE R == OpToRel(<, Nat)
           U == {x \in Nat : x <= n /\ n - x \in T}
<1>1. IsWellFoundedOn(R, Nat)
  BY NatLessThanWellFounded, Zenon
<1>2. \A x, y \in Nat : x < y => <<x, y>> \in R
  BY DEF OpToRel
<1>. HIDE DEF R
<1>3. PICK t \in T : TRUE
  OBVIOUS
<1>4. n - t \in U
  OBVIOUS
<1>5. U \subseteq Nat /\ U # {}
  BY <1>4
<1>6. PICK x \in U : \A y \in U : ~(<<y, x>> \in R)
  BY <1>1, <1>5, WFMin
<1>7. x \in Nat /\ x <= n /\ n - x \in T
  OBVIOUS
<1>8. ASSUME NEW j \in T PROVE j <= n - x
  <2>1. n - j \in U /\ n - j \in Nat
    OBVIOUS
  <2>2. ~(n - j < x)
    BY <1>2, <1>6, <1>7, <2>1
  <2>. QED BY <1>7, <2>1, <2>2
<1>. QED BY <1>7, <1>8

-----------------------------------------------------------------------------
(* Sequences as the sets of their entries. *)

\* The first entry of a sequence leaves the set with it.
LEMMA TailSet ==
  ASSUME NEW S, NEW s \in Seq(S), s # << >>
  PROVE  /\ Head(s) \in ToSet(s) /\ Head(s) \in S
         /\ Tail(s) \in Seq(S)
         /\ ToSet(Tail(s)) \subseteq ToSet(s)
         /\ NoRepeat(s) => /\ ToSet(Tail(s)) = ToSet(s) \ {Head(s)}
                           /\ NoRepeat(Tail(s))
<1>1. /\ Head(s) = s[1] /\ Tail(s) \in Seq(S) /\ Len(Tail(s)) = Len(s) - 1
      /\ \A i \in 1 .. Len(Tail(s)) : Tail(s)[i] = s[i + 1]
  BY HeadTailProperties
<1>2. /\ Len(s) \in Nat \ {0} /\ DOMAIN s = 1 .. Len(s)
      /\ DOMAIN Tail(s) = 1 .. Len(s) - 1
  BY <1>1, EmptySeq, LenProperties
<1>3. 1 \in 1 .. Len(s)
  BY <1>2
<1>4. Head(s) \in ToSet(s) /\ Head(s) \in S
  BY <1>1, <1>2, <1>3, HeadTailProperties DEF ToSet
<1>5. \A i \in 1 .. Len(s) - 1 : i + 1 \in 1 .. Len(s) /\ Tail(s)[i] = s[i + 1]
  BY <1>1, <1>2
<1>6. ToSet(Tail(s)) \subseteq ToSet(s)
  BY <1>2, <1>5 DEF ToSet
<1>7. ASSUME NoRepeat(s)
      PROVE  ToSet(Tail(s)) = ToSet(s) \ {Head(s)} /\ NoRepeat(Tail(s))
  <2>1. Head(s) \notin ToSet(Tail(s))
    <3> SUFFICES ASSUME NEW i \in 1 .. Len(s) - 1, s[i + 1] = s[1] PROVE FALSE
      BY <1>1, <1>2, <1>5 DEF ToSet
    <3>1. i + 1 = 1
      BY <1>2, <1>3, <1>5, <1>7 DEF NoRepeat
    <3>. QED BY <1>2, <3>1
  <2>2. ASSUME NEW i \in 1 .. Len(s), s[i] # Head(s) PROVE s[i] \in ToSet(Tail(s))
    <3>1. i # 1
      BY <1>1, <2>2
    <3>2. i - 1 \in 1 .. Len(s) - 1 /\ (i - 1) + 1 = i
      BY <1>2, <3>1
    <3>. QED BY <1>2, <1>5, <3>2 DEF ToSet
  <2>3. ToSet(s) \ {Head(s)} \subseteq ToSet(Tail(s))
    BY <1>2, <2>2 DEF ToSet
  <2>4. NoRepeat(Tail(s))
    <3> SUFFICES ASSUME NEW i \in 1 .. Len(s) - 1, NEW j \in 1 .. Len(s) - 1,
                        Tail(s)[i] = Tail(s)[j]
                 PROVE  i = j
      BY <1>2 DEF NoRepeat
    <3>1. i + 1 = j + 1
      BY <1>2, <1>5, <1>7 DEF NoRepeat
    <3>. QED BY <1>2, <3>1
  <2>. QED BY <1>6, <2>1, <2>3, <2>4
<1>. QED BY <1>1, <1>4, <1>6, <1>7

\* An empty sequence has no entries, and only that.
LEMMA EmptySet ==
  /\ ToSet(<< >>) = {} /\ NoRepeat(<< >>)
  /\ \A S : << >> \in Seq(S)
  /\ \A S : \A s \in Seq(S) : ToSet(s) = {} => s = << >>
<1>1. ToSet(<< >>) = {} /\ NoRepeat(<< >>)
  BY DEF ToSet, NoRepeat
<1>2. ASSUME NEW S, NEW s \in Seq(S), s # << >> PROVE ToSet(s) # {}
  BY <1>2, TailSet
<1>. QED BY <1>1, <1>2

\* Two sequences of different entries, one after the other.
LEMMA ConcatSet ==
  ASSUME NEW S, NEW s \in Seq(S), NEW t \in Seq(S)
  PROVE  /\ s \o t \in Seq(S)
         /\ ToSet(s \o t) = ToSet(s) \cup ToSet(t)
         /\ NoRepeat(s) /\ NoRepeat(t) /\ ToSet(s) \cap ToSet(t) = {}
              => NoRepeat(s \o t)
<1>1. /\ s \o t \in Seq(S) /\ Len(s \o t) = Len(s) + Len(t)
      /\ \A i \in 1 .. Len(s) + Len(t) :
           (s \o t)[i] = IF i <= Len(s) THEN s[i] ELSE t[i - Len(s)]
  BY ConcatProperties
<1>2. /\ Len(s) \in Nat /\ Len(t) \in Nat
      /\ DOMAIN s = 1 .. Len(s) /\ DOMAIN t = 1 .. Len(t)
      /\ DOMAIN (s \o t) = 1 .. Len(s) + Len(t)
  BY <1>1, LenProperties
<1>3. \A i \in 1 .. Len(s) : i \in 1 .. Len(s) + Len(t) /\ (s \o t)[i] = s[i]
  BY <1>1, <1>2
<1>4. \A i \in 1 .. Len(t) :
        Len(s) + i \in 1 .. Len(s) + Len(t) /\ (s \o t)[Len(s) + i] = t[i]
  <2> TAKE i \in 1 .. Len(t)
  <2>1. Len(s) + i \in 1 .. Len(s) + Len(t) /\ ~(Len(s) + i <= Len(s))
        /\ (Len(s) + i) - Len(s) = i
    BY <1>2
  <2>. QED BY <1>1, <2>1
<1>5. \A i \in 1 .. Len(s) + Len(t) :
        \/ i \in 1 .. Len(s) /\ (s \o t)[i] = s[i]
        \/ /\ i - Len(s) \in 1 .. Len(t) /\ i = Len(s) + (i - Len(s))
           /\ (s \o t)[i] = t[i - Len(s)]
  BY <1>1, <1>2
<1>6. ToSet(s \o t) = ToSet(s) \cup ToSet(t)
  <2>1. ToSet(s) \cup ToSet(t) \subseteq ToSet(s \o t)
    BY <1>2, <1>3, <1>4 DEF ToSet
  <2>2. ToSet(s \o t) \subseteq ToSet(s) \cup ToSet(t)
    BY <1>2, <1>5 DEF ToSet
  <2>. QED BY <2>1, <2>2
<1>7. ASSUME NoRepeat(s), NoRepeat(t), ToSet(s) \cap ToSet(t) = {}
      PROVE  NoRepeat(s \o t)
  <2> SUFFICES ASSUME NEW i \in 1 .. Len(s) + Len(t), NEW j \in 1 .. Len(s) + Len(t),
                      (s \o t)[i] = (s \o t)[j]
               PROVE  i = j
    BY <1>2 DEF NoRepeat
  <2>1. ASSUME NEW k \in 1 .. Len(s), NEW m \in 1 .. Len(t) PROVE s[k] # t[m]
    BY <1>2, <1>7 DEF ToSet
  <2>2. CASE i \in 1 .. Len(s) /\ j \in 1 .. Len(s)
    BY <1>2, <1>3, <1>7, <2>2 DEF NoRepeat
  <2>3. CASE i \notin 1 .. Len(s) /\ j \notin 1 .. Len(s)
    <3>1. /\ i - Len(s) \in DOMAIN t /\ (s \o t)[i] = t[i - Len(s)]
          /\ j - Len(s) \in DOMAIN t /\ (s \o t)[j] = t[j - Len(s)]
      BY <1>2, <1>5, <2>3
    <3>2. i - Len(s) = j - Len(s)
      BY <1>7, <3>1 DEF NoRepeat
    <3>. QED BY <1>2, <3>2
  <2>4. CASE i \in 1 .. Len(s) /\ j \notin 1 .. Len(s)
    BY <1>5, <2>1, <2>4
  <2>5. CASE i \notin 1 .. Len(s) /\ j \in 1 .. Len(s)
    BY <1>5, <2>1, <2>5
  <2>. QED BY <2>2, <2>3, <2>4, <2>5
<1>. QED BY <1>1, <1>6, <1>7

\* A pair.
LEMMA PairSet ==
  ASSUME NEW S, NEW a \in S, NEW b \in S, a # b
  PROVE  /\ <<a, b>> \in Seq(S) /\ <<a, b>> # << >>
         /\ ToSet(<<a, b>>) = {a, b}
         /\ NoRepeat(<<a, b>>)
<1>1. <<a, b>> \in Seq(S) /\ DOMAIN <<a, b>> = {1, 2} /\ <<a, b>> # << >>
  OBVIOUS
<1>2. <<a, b>>[1] = a /\ <<a, b>>[2] = b
  OBVIOUS
<1>. QED BY <1>1, <1>2 DEF ToSet, NoRepeat

\* The entries of a sequence are of its type.
LEMMA SetOfSeq ==
  ASSUME NEW S, NEW s \in Seq(S)
  PROVE  ToSet(s) \subseteq S
BY LenProperties, ElementOfSeq DEF ToSet

-----------------------------------------------------------------------------
(* FlattenSeq. *)

\* The partial results of FlattenSeq, up to the n-th sequence.
Appended(f, ss, n) ==
  f = [i \in 1 .. n |-> IF i = 1 THEN ss[i] ELSE f[i - 1] \o ss[i]]

\* There are partial results for every sequence of sequences.
LEMMA AppendedExists ==
  ASSUME NEW ss, Len(ss) \in Nat
  PROVE  \E f : Appended(f, ss, Len(ss))
<1> DEFINE N == Len(ss)
           T == {n \in 0 .. N : \E f : Appended(f, ss, n)}
<1>1. 0 \in T
  <2> DEFINE f == [i \in 1 .. 0 |-> 0]
  <2>1. Appended(f, ss, 0)
    BY DEF Appended
  <2>. QED BY <2>1
<1>2. ASSUME NEW n \in 0 .. N - 1, n \in T PROVE n + 1 \in T
  <2>1. PICK f : Appended(f, ss, n)
    BY <1>2
  <2> DEFINE v(i) == IF i = 1 THEN ss[i] ELSE f[i - 1] \o ss[i]
             g == [i \in 1 .. n + 1 |-> v(i)]
  <2>2. \A i \in 1 .. n : f[i] = v(i)
    BY <2>1 DEF Appended
  <2>3. ASSUME NEW i \in 1 .. n + 1
        PROVE  v(i) = IF i = 1 THEN ss[i] ELSE g[i - 1] \o ss[i]
    <3>1. i # 1 => i - 1 \in 1 .. n /\ i - 1 \in 1 .. n + 1
      OBVIOUS
    <3>2. i # 1 => g[i - 1] = v(i - 1)
      BY <3>1
    <3>3. i # 1 => f[i - 1] = g[i - 1]
      BY <2>2, <3>1, <3>2
    <3>. HIDE DEF g
    <3>. QED BY <3>3
  <2>4. g = [i \in 1 .. n + 1 |-> IF i = 1 THEN ss[i] ELSE g[i - 1] \o ss[i]]
    BY <2>3
  <2>. HIDE DEF g
  <2>5. Appended(g, ss, n + 1)
    BY <2>4 DEF Appended
  <2>6. n + 1 \in 0 .. N
    OBVIOUS
  <2>. QED BY <2>5, <2>6
<1>3. \A n \in 0 .. N - 1 : n \in T => n + 1 \in T
  BY <1>2
<1>. HIDE DEF T
<1>4. \A n \in 0 .. N : n \in T
  BY <1>1, <1>3, InductionTo
<1>5. N \in T
  BY <1>4
<1>. QED BY <1>5 DEF T

\* FlattenSeq is the last of its partial results.
LEMMA FlattenUnfolds ==
  ASSUME NEW ss, Len(ss) \in Nat, Len(ss) # 0
  PROVE  \E f : Appended(f, ss, Len(ss)) /\ FlattenSeq(ss) = f[Len(ss)]
<1> DEFINE g == CHOOSE f : Appended(f, ss, Len(ss))
<1>1. Appended(g, ss, Len(ss))
  BY AppendedExists, Zenon
<1>2. FlattenSeq(ss) = g[Len(ss)]
  BY DEF FlattenSeq, Appended
<1>. QED BY <1>1, <1>2

\* The entries of a flattened sequence of sequences.
LEMMA FlattenEntries ==
  ASSUME NEW S, NEW ss \in Seq(Seq(S))
  PROVE  /\ FlattenSeq(ss) \in Seq(S)
         /\ ToSet(FlattenSeq(ss)) = UNION {ToSet(ss[i]) : i \in DOMAIN ss}
<1>1. Len(ss) \in Nat /\ DOMAIN ss = 1 .. Len(ss) /\ \A i \in 1 .. Len(ss) : ss[i] \in Seq(S)
  BY LenProperties, ElementOfSeq
<1>2. CASE Len(ss) = 0
  <2>1. ss = << >>
    BY <1>2, EmptySeq
  <2>2. FlattenSeq(ss) = << >>
    BY <1>2, <2>1 DEF FlattenSeq
  <2>3. DOMAIN ss = {} /\ << >> \in Seq(S) /\ ToSet(<< >>) = {}
    BY <2>1 DEF ToSet
  <2>. QED BY <2>2, <2>3
<1>3. CASE Len(ss) # 0
  <2>1. PICK f : Appended(f, ss, Len(ss)) /\ FlattenSeq(ss) = f[Len(ss)]
    BY <1>1, <1>3, FlattenUnfolds
  <2>2. \A i \in 1 .. Len(ss) : f[i] = IF i = 1 THEN ss[i] ELSE f[i - 1] \o ss[i]
    BY <2>1 DEF Appended
  <2> DEFINE P(n) == /\ f[n] \in Seq(S)
                     /\ ToSet(f[n]) = UNION {ToSet(ss[i]) : i \in 1 .. n}
             T == {n \in 0 .. Len(ss) : n # 0 => P(n)}
  <2>3. 0 \in T
    BY <1>1
  <2>4. ASSUME NEW n \in 0 .. Len(ss) - 1, n \in T PROVE n + 1 \in T
    <3>1. n + 1 \in 1 .. Len(ss) /\ n + 1 \in 0 .. Len(ss) /\ ss[n + 1] \in Seq(S)
      BY <1>1
    <3>2. CASE n = 0
      <4>1. f[1] = ss[1]
        BY <2>2, <3>1, <3>2
      <4>2. 1 .. 1 = {1} /\ n + 1 = 1
        BY <3>2
      <4>3. P(1)
        BY <3>1, <3>2, <4>1, <4>2
      <4>. QED BY <3>1, <4>2, <4>3
    <3>3. CASE n # 0
      <4>1. P(n)
        BY <2>4, <3>3
      <4>2. f[n + 1] = f[n] \o ss[n + 1]
        <5>1. n + 1 # 1 /\ (n + 1) - 1 = n
          BY <1>1, <3>3
        <5>. QED BY <2>2, <3>1, <5>1
      <4>3. f[n + 1] \in Seq(S) /\ ToSet(f[n + 1]) = ToSet(f[n]) \cup ToSet(ss[n + 1])
        BY <3>1, <4>1, <4>2, ConcatSet
      <4>4. 1 .. n + 1 = (1 .. n) \cup {n + 1}
        BY <1>1
      <4>5. P(n + 1)
        BY <4>1, <4>3, <4>4
      <4>. QED BY <3>1, <4>5
    <3>. QED BY <3>2, <3>3
  <2>5. \A n \in 0 .. Len(ss) - 1 : n \in T => n + 1 \in T
    BY <2>4
  <2>. HIDE DEF T
  <2>6. \A n \in 0 .. Len(ss) : n \in T
    BY <1>1, <2>3, <2>5, InductionTo
  <2>7. Len(ss) \in T
    BY <1>1, <2>6
  <2>8. P(Len(ss))
    BY <1>3, <2>7 DEF T
  <2>. QED BY <1>1, <2>1, <2>8
<1>. QED BY <1>2, <1>3

-----------------------------------------------------------------------------
(* Adding and removing an entry. *)

\* What Append adds to the entries.
LEMMA AppendSet ==
  ASSUME NEW S, NEW s \in Seq(S), NEW e \in S
  PROVE  /\ Append(s, e) \in Seq(S) /\ Len(Append(s, e)) = Len(s) + 1
         /\ ToSet(Append(s, e)) = ToSet(s) \cup {e}
         /\ IsInjective(s) /\ e \notin ToSet(s) => IsInjective(Append(s, e))
<1>1. /\ Append(s, e) \in Seq(S) /\ Len(Append(s, e)) = Len(s) + 1
      /\ \A i \in 1 .. Len(s) : Append(s, e)[i] = s[i]
      /\ Append(s, e)[Len(s) + 1] = e
  BY AppendProperties
<1>2. Len(s) \in Nat /\ DOMAIN s = 1 .. Len(s)
      /\ DOMAIN Append(s, e) = 1 .. Len(s) + 1
  BY <1>1, LenProperties
<1>3. \A i \in 1 .. Len(s) + 1 : i \in 1 .. Len(s) \/ i = Len(s) + 1
  BY <1>2
<1>4. Len(s) + 1 \in 1 .. Len(s) + 1 /\ \A i \in 1 .. Len(s) : i \in 1 .. Len(s) + 1
  BY <1>2
<1>5. ToSet(Append(s, e)) = ToSet(s) \cup {e}
  BY <1>1, <1>2, <1>3, <1>4 DEF ToSet
<1>6. ASSUME IsInjective(s), e \notin ToSet(s) PROVE IsInjective(Append(s, e))
  BY <1>1, <1>2, <1>3, <1>6 DEF IsInjective, ToSet
<1>. QED BY <1>1, <1>5, <1>6

\* What RemoveAt returns, entry by entry.
LEMMA RemoveAtValues ==
  ASSUME NEW S, NEW s \in Seq(S), NEW i \in 1 .. Len(s)
  PROVE  /\ RemoveAt(s, i) \in Seq(S)
         /\ Len(RemoveAt(s, i)) = Len(s) - 1
         /\ \A j \in 1 .. Len(s) - 1 :
              RemoveAt(s, i)[j] = IF j < i THEN s[j] ELSE s[j + 1]
<1> DEFINE a == SubSeq(s, 1, i - 1)
           b == SubSeq(s, i + 1, Len(s))
<1>1. Len(s) \in Nat /\ i \in Nat \ {0} /\ i <= Len(s)
  BY LenProperties
<1>2. \A j \in 1 .. Len(s) : s[j] \in S
  BY ElementOfSeq
<1>3. /\ a \in Seq(S) /\ Len(a) = i - 1
      /\ \A j \in 1 .. i - 1 : a[j] = s[j]
  <2>1. 1 \in Int /\ i - 1 \in Int /\ \A j \in 1 .. i - 1 : s[j] \in S
    BY <1>1, <1>2
  <2>2. /\ a \in Seq(S)
        /\ Len(a) = IF 1 <= i - 1 THEN (i - 1) - 1 + 1 ELSE 0
        /\ \A j \in 1 .. (i - 1) - 1 + 1 : a[j] = s[1 + j - 1]
    BY <2>1, SubSeqProperties
  <2>. QED BY <1>1, <2>2
<1>4. /\ b \in Seq(S) /\ Len(b) = Len(s) - i
      /\ \A j \in 1 .. Len(s) - i : b[j] = s[i + j]
  <2>1. i + 1 \in Int /\ Len(s) \in Int /\ \A j \in i + 1 .. Len(s) : s[j] \in S
    BY <1>1, <1>2
  <2>2. /\ b \in Seq(S)
        /\ Len(b) = IF i + 1 <= Len(s) THEN Len(s) - (i + 1) + 1 ELSE 0
        /\ \A j \in 1 .. Len(s) - (i + 1) + 1 : b[j] = s[(i + 1) + j - 1]
    BY <2>1, SubSeqProperties
  <2>. HIDE DEF b
  <2>3. Len(b) = Len(s) - i
    BY <1>1, <2>2
  <2>4. ASSUME NEW j \in 1 .. Len(s) - i PROVE b[j] = s[i + j]
    <3>1. j \in 1 .. Len(s) - (i + 1) + 1 /\ (i + 1) + j - 1 = i + j
      BY <1>1
    <3>. QED BY <2>2, <3>1
  <2>. QED BY <2>2, <2>3, <2>4
<1>5. RemoveAt(s, i) = a \o b
  BY DEF RemoveAt
<1>. HIDE DEF a, b
<1>6. /\ a \o b \in Seq(S) /\ Len(a \o b) = Len(a) + Len(b)
      /\ \A j \in 1 .. Len(a) + Len(b) :
           (a \o b)[j] = IF j <= Len(a) THEN a[j] ELSE b[j - Len(a)]
  BY <1>3, <1>4, ConcatProperties
<1>7. Len(a) + Len(b) = Len(s) - 1
  BY <1>1, <1>3, <1>4
<1>8. ASSUME NEW j \in 1 .. Len(s) - 1
      PROVE  (a \o b)[j] = IF j < i THEN s[j] ELSE s[j + 1]
  <2>1. CASE j < i
    <3>1. j \in 1 .. i - 1 /\ j <= Len(a) /\ j \in 1 .. Len(a) + Len(b)
      BY <1>1, <1>3, <1>7, <2>1
    <3>. QED BY <1>3, <1>6, <2>1, <3>1
  <2>2. CASE ~(j < i)
    <3>1. /\ j - (i - 1) \in 1 .. Len(s) - i /\ ~(j <= Len(a))
          /\ i + (j - (i - 1)) = j + 1 /\ j \in 1 .. Len(a) + Len(b)
      BY <1>1, <1>3, <1>7, <2>2
    <3>. QED BY <1>3, <1>4, <1>6, <2>2, <3>1
  <2>. QED BY <2>1, <2>2
<1>. QED BY <1>5, <1>6, <1>7, <1>8

\* Removing an entry that occurs once takes it off the set of the entries.
LEMMA RemoveAtSet ==
  ASSUME NEW S, NEW s \in Seq(S), NEW i \in 1 .. Len(s), IsInjective(s)
  PROVE  /\ ToSet(RemoveAt(s, i)) = ToSet(s) \ {s[i]}
         /\ IsInjective(RemoveAt(s, i))
<1> DEFINE r == RemoveAt(s, i)
           From(j) == IF j < i THEN j ELSE j + 1
           To(j) == IF j < i THEN j ELSE j - 1
<1>1. /\ r \in Seq(S) /\ Len(r) = Len(s) - 1
      /\ \A j \in 1 .. Len(s) - 1 : r[j] = IF j < i THEN s[j] ELSE s[j + 1]
  BY RemoveAtValues
<1>2. Len(s) \in Nat /\ DOMAIN s = 1 .. Len(s) /\ DOMAIN r = 1 .. Len(s) - 1
  BY <1>1, LenProperties
<1>. HIDE DEF r
<1>3. \A j \in 1 .. Len(s) - 1 :
        From(j) \in 1 .. Len(s) /\ From(j) # i /\ r[j] = s[From(j)]
  BY <1>1, <1>2
<1>4. \A j \in 1 .. Len(s) : j # i =>
        To(j) \in 1 .. Len(s) - 1 /\ From(To(j)) = j
  BY <1>2
<1>5. \A j, k \in 1 .. Len(s) - 1 : From(j) = From(k) => j = k
  BY <1>2
<1>. HIDE DEF From, To
<1>6. ToSet(r) = ToSet(s) \ {s[i]}
  <2>1. ASSUME NEW j \in 1 .. Len(s) - 1 PROVE r[j] \in ToSet(s) \ {s[i]}
    BY <1>2, <1>3 DEF ToSet, IsInjective
  <2>2. ASSUME NEW j \in 1 .. Len(s), s[j] # s[i] PROVE s[j] \in ToSet(r)
    <3>1. To(j) \in 1 .. Len(s) - 1 /\ r[To(j)] = s[j]
      BY <1>3, <1>4, <2>2
    <3>. QED BY <1>2, <3>1 DEF ToSet
  <2>. QED BY <1>2, <2>1, <2>2 DEF ToSet
<1>7. IsInjective(r)
  BY <1>2, <1>3, <1>5 DEF IsInjective
<1>. QED BY <1>6, <1>7 DEF r
=============================================================================
