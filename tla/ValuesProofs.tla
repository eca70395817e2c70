----------------------------- MODULE ValuesProofs -----------------------------
(***************************************************************************)
(* The set, the filter, the index and the sorted set of Values, for all    *)
(* numbers, hashes, shapes, places, members, scores and heights.           *)
(*                                                                         *)
(* The set's array is in order and says the members; binary search is then *)
(* right, and with it the places where SADD and SREM put bytes in and take *)
(* them out.  A skiplist's levels are parts of each other, in one order, so*)
(* that the walks of Insert and Delete end at one place of all of them.    *)
(*                                                                         *)
(* What a loop of the code computes is a recursive function of the model:  *)
(* an induction over the numbers, stated for a set of them, finds it.      *)
(***************************************************************************)
EXTENDS Values, SequenceTheorems, WellFoundedInduction, TLAPS

\* The order of the numbers as a set of pairs, the form WellFoundedInduction takes.
LEMMA NatOrder ==
  \E R : IsWellFoundedOn(R, Nat) /\ \A x, y \in Nat : <<y, x>> \in R <=> y < x
<1>1. \A x, y \in Nat : <<y, x>> \in OpToRel(<, Nat) <=> y < x
  BY DEF OpToRel
<1> QED BY <1>1, NatLessThanWellFounded

\* A set of numbers has a least one.
LEMMA NatLeast ==
  ASSUME NEW S \in SUBSET Nat, S # {}
  PROVE  \E x \in S : \A y \in S : x <= y
<1>1. PICK R : IsWellFoundedOn(R, Nat) /\ \A x, y \in Nat : <<y, x>> \in R <=> y < x
  BY NatOrder
<1>2. PICK x \in S : \A y \in S : ~ (<<y, x>> \in R)
  BY <1>1, WFMin
<1>3. \A y \in S : ~ (y < x)
  BY <1>1, <1>2
<1> QED BY <1>3

\* Induction over the numbers, for a set of them.
LEMMA NatInduct ==
  ASSUME NEW S, 0 \in S, \A n \in Nat : n \in S => n + 1 \in S
  PROVE  Nat \subseteq S
<1> SUFFICES ASSUME Nat \ S # {} PROVE FALSE
  OBVIOUS
<1>1. PICK n \in Nat \ S : \A m \in Nat \ S : n <= m
  BY NatLeast
<1>2. n # 0 /\ n - 1 \in Nat /\ n - 1 \notin Nat \ S
  BY <1>1
<1> QED BY <1>1, <1>2

-----------------------------------------------------------------------------
\* Two bytes are a number of 16 bits, and a number of 16 bits is two bytes.
LEMMA Int16Is ==
  ASSUME NEW v
  PROVE  v \in I!Int16 <=> v \in Int /\ -32768 <= v /\ v <= 32767
<1>1. I!MinInt16 = -32768 /\ I!MaxInt16 = 32767
  BY DEF I!MinInt16, I!MaxInt16
<1>2. I!MinInt16 \in Int /\ I!MaxInt16 \in Int
  BY <1>1
<1>3. v \in I!Int16 <=> v \in Int /\ I!MinInt16 <= v /\ v <= I!MaxInt16
  BY <1>2 DEF I!Int16
<1> QED BY <1>1, <1>3

\* What a byte is.
LEMMA ByteIs ==
  ASSUME NEW b
  PROVE  b \in I!Byte <=> b \in Nat /\ b <= 255
BY DEF I!Byte

\* The two bytes of a number read back as the number: High and Low are the bytes
\* of its complement when it is negative.
LEMMA TwoBytes ==
  ASSUME NEW v, v \in I!Int16
  PROVE  /\ I!Low(v) \in I!Byte /\ I!High(v) \in I!Byte
         /\ I!Signed(I!Low(v) + 256 * I!High(v)) = v
<1>1. v \in Int /\ -32768 <= v /\ v <= 32767
  BY Int16Is
<1>2. PICK q, r : q = v \div 256 /\ r = v % 256
  OBVIOUS
<1>3. q \in Int /\ r \in Int /\ 0 <= r /\ r <= 255 /\ v = 256 * q + r
  BY <1>1, <1>2
<1>4. -128 <= q /\ q <= 127
  BY <1>1, <1>3
<1>5. q % 256 = IF q < 0 THEN q + 256 ELSE q
  BY <1>3, <1>4
<1>6. I!Low(v) = r /\ I!High(v) = IF q < 0 THEN q + 256 ELSE q
  BY <1>2, <1>5, Zenon DEF I!Low, I!High
<1>7. I!Low(v) \in I!Byte /\ I!High(v) \in I!Byte
  BY <1>3, <1>4, <1>6, ByteIs
<1>8. I!Signed(I!Low(v) + 256 * I!High(v)) = v
  BY <1>3, <1>4, <1>6 DEF I!Signed
<1> QED BY <1>7, <1>8

\* What two bytes read as is a number of 16 bits.
LEMMA GetType ==
  ASSUME NEW d, NEW n \in Nat, d \in Seq(I!Byte), Len(d) = 2 * n, NEW i \in 0 .. n - 1
  PROVE  I!Get(d, i) \in I!Int16
<1>1. 2 * i + 1 \in 1 .. Len(d) /\ 2 * i + 2 \in 1 .. Len(d)
  OBVIOUS
<1>2. d[2 * i + 1] \in I!Byte /\ d[2 * i + 2] \in I!Byte
  BY <1>1, ElementOfSeq
<1>3. PICK a, b : a = d[2 * i + 1] /\ b = d[2 * i + 2]
  OBVIOUS
<1>4. a \in Nat /\ a <= 255 /\ b \in Nat /\ b <= 255
  BY <1>2, <1>3, ByteIs
<1>5. I!Get(d, i) = I!Signed(a + 256 * b)
  BY <1>3, Zenon DEF I!Get
<1> QED BY <1>4, <1>5, Int16Is DEF I!Signed

-----------------------------------------------------------------------------
\* The words of d are in order, and what they say.
Sorted(d, n)  == \A i, j \in 0 .. n - 1 : i < j => I!Get(d, i) < I!Get(d, j)
Numbers(d, n) == {I!Get(d, i) : i \in 0 .. n - 1}

IsArray(d, n) == d \in Seq(I!Byte) /\ Len(d) = 2 * n /\ Sorted(d, n)

\* The words that are at most v are the first ones, up to k.
Splits(d, n, v, k) == k \in -1 .. n - 1 /\ \A i \in 0 .. n - 1 : I!Get(d, i) <= v <=> i <= k

\* An array in order splits at each number.
LEMMA SplitExists ==
  ASSUME NEW d, NEW n \in Nat, IsArray(d, n), NEW v \in Int
  PROVE  \E k : Splits(d, n, v, k)
<1>1. \A i \in 0 .. n - 1 : I!Get(d, i) \in Int
  BY GetType, Int16Is DEF IsArray
<1> DEFINE above == {i \in 0 .. n - 1 : v < I!Get(d, i)}
<1>2. CASE above = {}
  <2>1. ASSUME NEW i \in 0 .. n - 1 PROVE I!Get(d, i) <= v
    <3>1. i \notin above
      BY <1>2, Zenon
    <3> QED BY <1>1, <3>1
  <2>2. Splits(d, n, v, n - 1)
    BY <2>1 DEF Splits
  <2> QED BY <2>2
<1>3. CASE above # {}
  <2>1. above \in SUBSET Nat
    OBVIOUS
  <2>2. PICK x \in above : \A y \in above : x <= y
    <3> HIDE DEF above
    <3> QED BY <1>3, <2>1, NatLeast
  <2>3. ASSUME NEW i \in 0 .. n - 1 PROVE I!Get(d, i) <= v <=> i <= x - 1
    <3>1. CASE i < x
      <4>1. i \notin above
        <5> HIDE DEF above
        <5> QED BY <2>1, <2>2, <3>1
      <4> QED BY <1>1, <2>2, <3>1, <4>1
    <3>2. CASE i = x
      BY <1>1, <2>2, <3>2
    <3>3. CASE x < i
      <4>1. I!Get(d, x) < I!Get(d, i)
        BY <2>2, <3>3 DEF IsArray, Sorted
      <4> QED BY <1>1, <2>2, <3>3, <4>1
    <3> QED BY <2>2, <3>1, <3>2, <3>3
  <2>4. Splits(d, n, v, x - 1)
    BY <2>2, <2>3 DEF Splits
  <2> QED BY <2>4
<1> QED BY <1>2, <1>3

\* The binary search as the code does it: s is the pair of its bounds.
Step(d, v, f, s) ==
  IF s[2] < s[1] THEN s[1] - 1
  ELSE LET mid == (s[1] + s[2]) \div 2
       IN  IF I!Get(d, mid) <= v THEN f[<<mid + 1, s[2]>>] ELSE f[<<s[1], mid - 1>>]
Bounds(n) == (0 .. n) \X (-1 .. n - 1)
Walks(d, v, n, f) == f = [s \in Bounds(n) |-> Step(d, v, f, s)]

\* The search is the function of its bounds that takes these steps.
LEMMA SearchWalks ==
  ASSUME NEW d, NEW v, NEW n \in Nat, Len(d) = 2 * n
  PROVE  I!Search(d, v) = (CHOOSE f : Walks(d, v, n, f))[<<0, n - 1>>]
<1>1. Len(d) \div 2 = n
  OBVIOUS
<1> QED BY <1>1, Zenon DEF I!Search, Step, Walks, Bounds

\* Where it ends, when it starts from l and r.
Ends(k, l, r) == IF r < l \/ k < l THEN l - 1 ELSE IF r < k THEN r ELSE k

\* One step of the search, with the middle m.
LEMMA EndsStep ==
  ASSUME NEW n \in Nat, NEW l \in 0 .. n, NEW r \in -1 .. n - 1, NEW k \in -1 .. n - 1, l <= r
  PROVE  LET m == (l + r) \div 2
         IN  /\ m \in l .. r
             /\ m <= k => Ends(k, l, r) = Ends(k, m + 1, r)
             /\ ~ (m <= k) => Ends(k, l, r) = Ends(k, l, m - 1)
<1>1. PICK m : m = (l + r) \div 2
  OBVIOUS
<1>2. m \in Int /\ l <= m /\ m <= r
  BY <1>1
<1> QED BY <1>1, <1>2 DEF Ends

\* The binary search ends at the last word that is at most v.
LEMMA SearchIs ==
  ASSUME NEW d, NEW n \in Nat, IsArray(d, n), NEW v \in Int
  PROVE  Splits(d, n, v, I!Search(d, v))
<1>1. PICK k : Splits(d, n, v, k)
  BY SplitExists
<1>2. k \in -1 .. n - 1
  BY <1>1 DEF Splits
<1> DEFINE e == [s \in Bounds(n) |-> Ends(k, s[1], s[2])]
<1>3. ASSUME NEW f, NEW s \in Bounds(n),
             s[1] <= s[2] => /\ f[<<((s[1] + s[2]) \div 2) + 1, s[2]>>] = Ends(k, ((s[1] + s[2]) \div 2) + 1, s[2])
                             /\ f[<<s[1], ((s[1] + s[2]) \div 2) - 1>>] = Ends(k, s[1], ((s[1] + s[2]) \div 2) - 1)
      PROVE  Step(d, v, f, s) = Ends(k, s[1], s[2])
  <2>1. PICK l, r, m : l = s[1] /\ r = s[2] /\ m = (l + r) \div 2
    OBVIOUS
  <2>2. l \in 0 .. n /\ r \in -1 .. n - 1
    BY <2>1 DEF Bounds
  <2>3. CASE r < l
    BY <2>1, <2>3 DEF Step, Ends
  <2>4. CASE ~ (r < l)
    <3>1. l <= r
      BY <2>2, <2>4
    <3>2. /\ m \in l .. r
          /\ m <= k => Ends(k, l, r) = Ends(k, m + 1, r)
          /\ ~ (m <= k) => Ends(k, l, r) = Ends(k, l, m - 1)
      BY <1>2, <2>1, <2>2, <3>1, EndsStep
    <3>3. I!Get(d, m) <= v <=> m <= k
      <4>1. m \in 0 .. n - 1
        BY <2>2, <3>2
      <4> QED BY <1>1, <4>1 DEF Splits
    <3>4. f[<<m + 1, r>>] = Ends(k, m + 1, r) /\ f[<<l, m - 1>>] = Ends(k, l, m - 1)
      BY <1>3, <2>1, <3>1
    <3>5. Step(d, v, f, s) = IF I!Get(d, m) <= v THEN f[<<m + 1, r>>] ELSE f[<<l, m - 1>>]
      BY <2>1, <2>4, Zenon DEF Step
    <3> QED BY <2>1, <3>2, <3>3, <3>4, <3>5
  <2> QED BY <2>3, <2>4
<1>4. ASSUME NEW s \in Bounds(n), s[1] <= s[2]
      PROVE  /\ <<((s[1] + s[2]) \div 2) + 1, s[2]>> \in Bounds(n)
             /\ <<s[1], ((s[1] + s[2]) \div 2) - 1>> \in Bounds(n)
             /\ s[2] - (((s[1] + s[2]) \div 2) + 1) < s[2] - s[1]
             /\ (((s[1] + s[2]) \div 2) - 1) - s[1] < s[2] - s[1]
  <2>1. PICK l, r, m : l = s[1] /\ r = s[2] /\ m = (l + r) \div 2
    OBVIOUS
  <2>2. l \in 0 .. n /\ r \in -1 .. n - 1 /\ l <= r
    BY <1>4, <2>1 DEF Bounds
  <2>3. m \in Int /\ l <= m /\ m <= r
    BY <2>1, <2>2
  <2>4. m + 1 \in 0 .. n /\ m - 1 \in -1 .. n - 1 /\ r - (m + 1) < r - l /\ (m - 1) - l < r - l
    BY <2>2, <2>3
  <2>5. <<m + 1, r>> \in Bounds(n) /\ <<l, m - 1>> \in Bounds(n)
    BY <2>2, <2>4 DEF Bounds
  <2> QED BY <2>1, <2>4, <2>5
<1>5. Walks(d, v, n, e)
  <2>1. ASSUME NEW s \in Bounds(n) PROVE Step(d, v, e, s) = Ends(k, s[1], s[2])
    <3>1. ASSUME NEW l, NEW r, <<l, r>> \in Bounds(n) PROVE e[<<l, r>>] = Ends(k, l, r)
      BY <3>1
    <3>2. PICK m : m = (s[1] + s[2]) \div 2
      OBVIOUS
    <3> HIDE DEF e
    <3>3. s[1] <= s[2] => /\ e[<<m + 1, s[2]>>] = Ends(k, m + 1, s[2])
                          /\ e[<<s[1], m - 1>>] = Ends(k, s[1], m - 1)
      BY <1>4, <3>1, <3>2
    <3> QED BY <1>3, <3>2, <3>3
  <2> HIDE DEF e
  <2>2. e = [s \in Bounds(n) |-> Ends(k, s[1], s[2])]
    BY DEF e
  <2> QED BY <2>1, <2>2, Zenon DEF Walks
<1>6. ASSUME NEW f, Walks(d, v, n, f), NEW s \in Bounds(n) PROVE f[s] = Ends(k, s[1], s[2])
  <2> DEFINE Q(j) == \A t \in Bounds(n) : t[2] - t[1] < j => f[t] = Ends(k, t[1], t[2])
             P == {j \in Nat : Q(j)}
  <2>1. ASSUME NEW t \in Bounds(n) PROVE f[t] = Step(d, v, f, t)
    BY <1>6, Zenon DEF Walks
  <2>2. Q(0)
    <3> SUFFICES ASSUME NEW t \in Bounds(n), t[2] - t[1] < 0 PROVE f[t] = Ends(k, t[1], t[2])
      OBVIOUS
    <3>1. ~ (t[1] <= t[2])
      BY DEF Bounds
    <3> QED BY <1>3, <2>1, <3>1
  <2>3. ASSUME NEW j \in Nat, Q(j) PROVE Q(j + 1)
    <3> SUFFICES ASSUME NEW t \in Bounds(n), t[2] - t[1] < j + 1 PROVE f[t] = Ends(k, t[1], t[2])
      OBVIOUS
    <3>1. t[1] \in Int /\ t[2] \in Int
      BY DEF Bounds
    <3>2. PICK m : m = (t[1] + t[2]) \div 2
      OBVIOUS
    <3>3. ASSUME t[1] <= t[2]
          PROVE  /\ f[<<m + 1, t[2]>>] = Ends(k, m + 1, t[2])
                 /\ f[<<t[1], m - 1>>] = Ends(k, t[1], m - 1)
      <4>1. /\ <<m + 1, t[2]>> \in Bounds(n) /\ <<t[1], m - 1>> \in Bounds(n)
            /\ t[2] - (m + 1) < t[2] - t[1] /\ (m - 1) - t[1] < t[2] - t[1]
        BY <1>4, <3>2, <3>3
      <4>2. m \in Int
        BY <3>1, <3>2
      <4>3. t[2] - (m + 1) < j /\ (m - 1) - t[1] < j
        BY <3>1, <4>1, <4>2
      <4> QED BY <2>3, <4>1, <4>3
    <3> QED BY <1>3, <2>1, <3>2, <3>3
  <2> HIDE DEF Q
  <2>4. 0 \in P /\ \A j \in Nat : j \in P => j + 1 \in P
    BY <2>2, <2>3
  <2>5. Nat \subseteq P
    <3> HIDE DEF P
    <3> QED BY <2>4, NatInduct
  <2>6. s[1] \in Int /\ s[2] \in Int /\ s[2] - s[1] < n + 1 /\ n + 1 \in Nat
    BY DEF Bounds
  <2>7. Q(n + 1)
    BY <2>5, <2>6
  <2> QED BY <2>6, <2>7 DEF Q
<1> HIDE DEF e
<1>7. Walks(d, v, n, CHOOSE f : Walks(d, v, n, f))
  BY <1>5, Zenon
<1>8. I!Search(d, v) = (CHOOSE f : Walks(d, v, n, f))[<<0, n - 1>>]
  BY SearchWalks DEF IsArray
<1>9. <<0, n - 1>> \in Bounds(n)
  BY DEF Bounds
<1>10. I!Search(d, v) = Ends(k, 0, n - 1)
  BY <1>6, <1>7, <1>8, <1>9
<1>11. Ends(k, 0, n - 1) = k
  BY <1>2 DEF Ends
<1> QED BY <1>1, <1>10, <1>11

-----------------------------------------------------------------------------
\* What a set holds: its words are in order, and say the members.
IsSet(d, s) == \E n \in Nat : IsArray(d, n) /\ s = Numbers(d, n)

\* The words of an array are numbers of 16 bits.
LEMMA NumbersType ==
  ASSUME NEW d, NEW n \in Nat, IsArray(d, n)
  PROVE  \A i \in 0 .. n - 1 : I!Get(d, i) \in I!Int16 /\ I!Get(d, i) \in Int
BY GetType, Int16Is DEF IsArray

\* The search finds the members, at their place.
LEMMA HasIs ==
  ASSUME NEW d, NEW n \in Nat, IsArray(d, n), NEW v \in Int
  PROVE  /\ I!Has(d, v) <=> v \in Numbers(d, n)
         /\ I!Has(d, v) => I!Search(d, v) \in 0 .. n - 1 /\ I!Get(d, I!Search(d, v)) = v
<1>1. PICK k : k = I!Search(d, v)
  OBVIOUS
<1>2. Splits(d, n, v, k)
  BY <1>1, SearchIs
<1>3. k \in -1 .. n - 1
  BY <1>2 DEF Splits
<1>4. I!Has(d, v) <=> k # -1 /\ I!Get(d, k) = v
  BY <1>1, Zenon DEF I!Has
<1>5. k # -1 => k \in 0 .. n - 1
  BY <1>3
<1>6. k # -1 /\ I!Get(d, k) = v => v \in Numbers(d, n)
  BY <1>5 DEF Numbers
<1>7. ASSUME v \in Numbers(d, n) PROVE k # -1 /\ I!Get(d, k) = v
  <2>1. PICK i \in 0 .. n - 1 : I!Get(d, i) = v
    BY <1>7 DEF Numbers
  <2>2. i <= k
    BY <1>2, <2>1 DEF Splits
  <2>3. k \in 0 .. n - 1 /\ I!Get(d, k) <= v
    BY <1>2, <1>3, <2>1, <2>2 DEF Splits
  <2>4. i < k => v < I!Get(d, k)
    BY <2>1, <2>3 DEF IsArray, Sorted
  <2>5. I!Get(d, k) \in Int
    BY <2>3, NumbersType
  <2>6. ~ (i < k)
    BY <2>3, <2>4, <2>5
  <2> QED BY <1>3, <2>1, <2>2, <2>6
<1> QED BY <1>1, <1>4, <1>5, <1>6, <1>7

\* The first and the last elements of a sequence.
LEMMA FirstOnes ==
  ASSUME NEW S, NEW d \in Seq(S), NEW p \in 0 .. Len(d)
  PROVE  /\ SubSeq(d, 1, p) \in Seq(S) /\ Len(SubSeq(d, 1, p)) = p
         /\ \A j \in 1 .. p : SubSeq(d, 1, p)[j] = d[j]
<1>1. Len(d) \in Nat
  BY LenProperties
<1>2. \A j \in 1 .. p : d[j] \in S
  BY <1>1, ElementOfSeq
<1>3. p \in Int
  BY <1>1
<1>4. PICK x : x = SubSeq(d, 1, p)
  OBVIOUS
<1>5. /\ x \in Seq(S) /\ Len(x) = IF 1 <= p THEN p - 1 + 1 ELSE 0
      /\ \A j \in 1 .. p - 1 + 1 : x[j] = d[1 + j - 1]
  BY <1>2, <1>3, <1>4, SubSeqProperties
<1>6. x \in Seq(S) /\ Len(x) = p /\ \A j \in 1 .. p : x[j] = d[j]
  BY <1>1, <1>5
<1> QED BY <1>4, <1>6, Zenon

\* The rest of a sequence after p elements.
LEMMA LastOnes ==
  ASSUME NEW S, NEW d \in Seq(S), NEW p \in 0 .. Len(d)
  PROVE  /\ SubSeq(d, p + 1, Len(d)) \in Seq(S) /\ Len(SubSeq(d, p + 1, Len(d))) = Len(d) - p
         /\ \A j \in 1 .. Len(d) - p : SubSeq(d, p + 1, Len(d))[j] = d[p + j]
<1>1. Len(d) \in Nat
  BY LenProperties
<1>2. \A j \in p + 1 .. Len(d) : d[j] \in S
  BY <1>1, ElementOfSeq
<1>3. p + 1 \in Int /\ Len(d) \in Int
  BY <1>1
<1>4. PICK x : x = SubSeq(d, p + 1, Len(d))
  OBVIOUS
<1>5. /\ x \in Seq(S) /\ Len(x) = IF p + 1 <= Len(d) THEN Len(d) - (p + 1) + 1 ELSE 0
      /\ \A j \in 1 .. Len(d) - (p + 1) + 1 : x[j] = d[p + 1 + j - 1]
  BY <1>2, <1>3, <1>4, SubSeqProperties
<1>6. x \in Seq(S) /\ Len(x) = Len(d) - p /\ \A j \in 1 .. Len(d) - p : x[j] = d[p + j]
  BY <1>1, <1>5
<1> QED BY <1>4, <1>6, Zenon

\* The concatenation, which the provers would take apart.
Cat(x, y) == x \o y

Joins(S, e, x, y) ==
  /\ e \in Seq(S) /\ Len(e) = Len(x) + Len(y)
  /\ \A j \in 1 .. Len(x) : e[j] = x[j]
  /\ \A j \in 1 .. Len(y) : e[Len(x) + j] = y[j]

\* What a concatenation holds.
LEMMA Joined ==
  ASSUME NEW S, NEW x, x \in Seq(S), NEW y, y \in Seq(S), NEW e, e = Cat(x, y)
  PROVE  Joins(S, e, x, y)
<1>1. /\ x \o y \in Seq(S) /\ Len(x \o y) = Len(x) + Len(y)
      /\ \A j \in 1 .. Len(x) + Len(y) : (x \o y)[j] = IF j <= Len(x) THEN x[j] ELSE y[j - Len(x)]
  BY ConcatProperties, Zenon
<1>2. PICK k, m : k = Len(x) /\ m = Len(y)
  OBVIOUS
<1>3. e \in Seq(S) /\ Len(e) = k + m /\ \A j \in 1 .. k + m : e[j] = IF j <= k THEN x[j] ELSE y[j - k]
  BY <1>1, <1>2, Zenon DEF Cat
<1>4. k \in Nat /\ m \in Nat
  BY <1>2, LenProperties
<1>5. ASSUME NEW j \in 1 .. k PROVE e[j] = x[j]
  <2>1. j \in 1 .. k + m /\ j <= k
    BY <1>4
  <2> QED BY <1>3, <2>1, Zenon
<1>6. ASSUME NEW j \in 1 .. m PROVE e[k + j] = y[j]
  <2>1. k + j \in 1 .. k + m /\ ~ (k + j <= k) /\ (k + j) - k = j
    BY <1>4
  <2> QED BY <1>3, <2>1, Zenon
<1> QED BY <1>2, <1>3, <1>5, <1>6, Zenon DEF Joins

\* Two bytes put between the others.
Inserts(S, d, m, p, a, b, e) ==
  /\ e = SubSeq(d, 1, p) \o <<a, b>> \o SubSeq(d, p + 1, Len(d))
  /\ e \in Seq(S) /\ Len(e) = m + 2
  /\ \A j \in 1 .. p : e[j] = d[j]
  /\ e[p + 1] = a /\ e[p + 2] = b
  /\ \A j \in p + 1 .. m : e[j + 2] = d[j]

\* Two bytes can be put anywhere between the others.
LEMMA InsertedTwo ==
  ASSUME NEW S, NEW d \in Seq(S), NEW m \in Nat, Len(d) = m, NEW p \in 0 .. m, NEW a \in S, NEW b \in S
  PROVE  \E e : Inserts(S, d, m, p, a, b, e)
<1>1. PICK x : x = SubSeq(d, 1, p)
  OBVIOUS
<1>2. PICK y : y = <<a, b>>
  OBVIOUS
<1>3. PICK z : z = SubSeq(d, p + 1, Len(d))
  OBVIOUS
<1>4. PICK w : w = Cat(x, y)
  OBVIOUS
<1>5. PICK e : e = Cat(w, z)
  OBVIOUS
<1>6. p \in 0 .. Len(d)
  OBVIOUS
<1>7. x \in Seq(S) /\ Len(x) = p /\ \A j \in 1 .. p : x[j] = d[j]
  BY <1>1, <1>6, FirstOnes, Zenon
<1>8. y \in Seq(S) /\ Len(y) = 2 /\ y[1] = a /\ y[2] = b
  BY <1>2
<1>9. z \in Seq(S) /\ Len(z) = m - p /\ \A j \in 1 .. m - p : z[j] = d[p + j]
  BY <1>3, <1>6, LastOnes, Zenon
<1>10. p \in Nat /\ 2 \in Nat /\ p + 2 \in Nat /\ m - p \in Nat
  OBVIOUS
<1>11. /\ w \in Seq(S) /\ Len(w) = p + 2
       /\ \A j \in 1 .. p : w[j] = x[j]
       /\ \A j \in 1 .. 2 : w[p + j] = y[j]
  <2>1. Joins(S, w, x, y)
    <3>1. x \in Seq(S) /\ y \in Seq(S)
      BY <1>7, <1>8
    <3> QED BY <1>4, <3>1, Joined
  <2> QED BY <1>7, <1>8, <2>1 DEF Joins
<1>12. /\ e \in Seq(S) /\ Len(e) = (p + 2) + (m - p)
       /\ \A j \in 1 .. p + 2 : e[j] = w[j]
       /\ \A j \in 1 .. m - p : e[(p + 2) + j] = z[j]
  <2>1. Joins(S, e, w, z)
    <3>1. w \in Seq(S) /\ z \in Seq(S)
      BY <1>9, <1>11
    <3> QED BY <1>5, <3>1, Joined
  <2> QED BY <1>9, <1>11, <2>1 DEF Joins
<1>13. Len(e) = m + 2
  BY <1>12
<1>14. ASSUME NEW j \in 1 .. p PROVE e[j] = d[j]
  <2>1. j \in 1 .. p + 2
    OBVIOUS
  <2> QED BY <1>7, <1>11, <1>12, <2>1
<1>15. e[p + 1] = a /\ e[p + 2] = b
  <2>1. 1 \in 1 .. 2 /\ 2 \in 1 .. 2 /\ p + 1 \in 1 .. p + 2 /\ p + 2 \in 1 .. p + 2
    OBVIOUS
  <2> QED BY <1>8, <1>11, <1>12, <2>1
<1>16. ASSUME NEW j \in p + 1 .. m PROVE e[j + 2] = d[j]
  <2>1. j - p \in 1 .. m - p /\ (p + 2) + (j - p) = j + 2 /\ p + (j - p) = j
    OBVIOUS
  <2>2. z[j - p] = d[j] /\ e[j + 2] = z[j - p]
    BY <1>9, <1>12, <2>1, Zenon
  <2> QED BY <2>2
<1>17. e = SubSeq(d, 1, p) \o <<a, b>> \o SubSeq(d, p + 1, Len(d))
  BY <1>1, <1>2, <1>3, <1>4, <1>5, Zenon DEF Cat
<1> QED BY <1>12, <1>13, <1>14, <1>15, <1>16, <1>17, Zenon DEF Inserts

\* Two bytes taken out.
Removes(S, d, m, p, e) ==
  /\ e = SubSeq(d, 1, p) \o SubSeq(d, p + 3, Len(d))
  /\ e \in Seq(S) /\ Len(e) = m - 2
  /\ \A j \in 1 .. p : e[j] = d[j]
  /\ \A j \in p + 1 .. m - 2 : e[j] = d[j + 2]

\* Any two bytes that follow each other can be taken out.
LEMMA RemovedTwo ==
  ASSUME NEW S, NEW d \in Seq(S), NEW m \in Nat, Len(d) = m, NEW p \in 0 .. m - 2
  PROVE  \E e : Removes(S, d, m, p, e)
<1>1. PICK x : x = SubSeq(d, 1, p)
  OBVIOUS
<1>2. PICK z : z = SubSeq(d, p + 3, Len(d))
  OBVIOUS
<1>3. PICK e : e = Cat(x, z)
  OBVIOUS
<1>4. p \in 0 .. Len(d) /\ p + 2 \in 0 .. Len(d) /\ (p + 2) + 1 = p + 3
  OBVIOUS
<1>5. x \in Seq(S) /\ Len(x) = p /\ \A j \in 1 .. p : x[j] = d[j]
  BY <1>1, <1>4, FirstOnes, Zenon
<1>6. z \in Seq(S) /\ Len(z) = m - (p + 2) /\ \A j \in 1 .. m - (p + 2) : z[j] = d[(p + 2) + j]
  <2>1. z = SubSeq(d, (p + 2) + 1, Len(d))
    BY <1>2, <1>4, Zenon
  <2> QED BY <1>4, <2>1, LastOnes, Zenon
<1>7. p \in Nat /\ m - (p + 2) \in Nat
  OBVIOUS
<1>8. /\ e \in Seq(S) /\ Len(e) = p + (m - (p + 2))
      /\ \A j \in 1 .. p : e[j] = x[j]
      /\ \A j \in 1 .. m - (p + 2) : e[p + j] = z[j]
  <2>1. Joins(S, e, x, z)
    <3>1. x \in Seq(S) /\ z \in Seq(S)
      BY <1>5, <1>6
    <3> QED BY <1>3, <3>1, Joined
  <2> QED BY <1>5, <1>6, <2>1 DEF Joins
<1>9. Len(e) = m - 2
  BY <1>8
<1>10. ASSUME NEW j \in p + 1 .. m - 2 PROVE e[j] = d[j + 2]
  <2>1. j - p \in 1 .. m - (p + 2) /\ p + (j - p) = j /\ (p + 2) + (j - p) = j + 2
    OBVIOUS
  <2>2. z[j - p] = d[j + 2] /\ e[j] = z[j - p]
    BY <1>6, <1>8, <2>1, Zenon
  <2> QED BY <2>2
<1>11. e = SubSeq(d, 1, p) \o SubSeq(d, p + 3, Len(d))
  BY <1>1, <1>2, <1>3, Zenon DEF Cat
<1>12. \A j \in 1 .. p : e[j] = d[j]
  BY <1>5, <1>8, Zenon
<1> QED BY <1>8, <1>9, <1>10, <1>11, <1>12, Zenon DEF Removes

\* A number put in its place, after the first k + 1.
LEMMA InsertSorted ==
  ASSUME NEW d, NEW n \in Nat, IsArray(d, n), NEW v \in Int, NEW k \in -1 .. n - 1, NEW e,
         \A i \in 0 .. k : I!Get(d, i) < v /\ I!Get(e, i) = I!Get(d, i),
         I!Get(e, k + 1) = v,
         \A i \in k + 1 .. n - 1 : v < I!Get(d, i) /\ I!Get(e, i + 1) = I!Get(d, i)
  PROVE  Sorted(e, n + 1) /\ Numbers(e, n + 1) = Numbers(d, n) \cup {v}
<1>1. \A i \in 0 .. n - 1 : I!Get(d, i) \in Int
  BY NumbersType
<1> DEFINE from(i) == IF i <= k THEN i ELSE i - 1
<1>2. \A i \in 0 .. n : i # k + 1 => from(i) \in 0 .. n - 1 /\ I!Get(e, i) = I!Get(d, from(i))
  <2> TAKE i \in 0 .. n
  <2>1. CASE i <= k
    BY <2>1
  <2>2. CASE k + 1 < i
    <3>1. i - 1 \in k + 1 .. n - 1 /\ (i - 1) + 1 = i /\ i - 1 \in 0 .. n - 1
      BY <2>2
    <3>2. I!Get(e, (i - 1) + 1) = I!Get(d, i - 1)
      BY <3>1
    <3> QED BY <2>2, <3>1, <3>2
  <2> QED BY <2>1, <2>2
<1>3. ASSUME NEW i \in 0 .. n, NEW j \in 0 .. n, i < j PROVE I!Get(e, i) < I!Get(e, j)
  <2>1. CASE i # k + 1 /\ j # k + 1
    <3>1. from(i) \in 0 .. n - 1 /\ from(j) \in 0 .. n - 1 /\ from(i) < from(j)
      BY <1>2, <1>3, <2>1
    <3>2. I!Get(d, from(i)) < I!Get(d, from(j))
      <4> HIDE DEF from
      <4> QED BY <3>1 DEF IsArray, Sorted
    <3> QED BY <1>2, <2>1, <3>2
  <2>2. CASE i = k + 1
    <3>1. from(j) \in k + 1 .. n - 1
      BY <1>3, <2>2
    <3>2. v < I!Get(d, from(j))
      <4> HIDE DEF from
      <4> QED BY <3>1
    <3> QED BY <1>2, <1>3, <2>2, <3>2
  <2>3. CASE j = k + 1
    <3>1. from(i) \in 0 .. k
      BY <1>3, <2>3
    <3>2. I!Get(d, from(i)) < v
      <4> HIDE DEF from
      <4> QED BY <3>1
    <3> QED BY <1>2, <1>3, <2>3, <3>2
  <2> QED BY <2>1, <2>2, <2>3
<1>4. Sorted(e, n + 1)
  <2>1. (n + 1) - 1 = n
    OBVIOUS
  <2> QED BY <1>3, <2>1 DEF Sorted
<1>5. ASSUME NEW x \in Numbers(e, n + 1) PROVE x \in Numbers(d, n) \cup {v}
  <2>1. PICK i \in 0 .. n : x = I!Get(e, i)
    BY DEF Numbers
  <2> HIDE DEF from
  <2> QED BY <1>2, <2>1 DEF Numbers
<1>6. ASSUME NEW x \in Numbers(d, n) \cup {v} PROVE x \in Numbers(e, n + 1)
  <2>1. CASE x = v
    <3>1. k + 1 \in 0 .. (n + 1) - 1
      OBVIOUS
    <3> QED BY <2>1, <3>1 DEF Numbers
  <2>2. CASE x # v
    <3>1. PICK i \in 0 .. n - 1 : x = I!Get(d, i)
      BY <2>2 DEF Numbers
    <3>2. i \in 0 .. (n + 1) - 1 /\ i + 1 \in 0 .. (n + 1) - 1
      OBVIOUS
    <3>3. x = I!Get(e, i) \/ x = I!Get(e, i + 1)
      BY <3>1
    <3> QED BY <3>2, <3>3 DEF Numbers
  <2> QED BY <2>1, <2>2
<1> QED BY <1>4, <1>5, <1>6

\* SADD of one number.
LEMMA SetIs ==
  ASSUME NEW d, NEW s, IsSet(d, s), NEW v, v \in I!Int16
  PROVE  IsSet(I!Set(d, v), s \cup {v})
<1>1. PICK n \in Nat : IsArray(d, n) /\ s = Numbers(d, n)
  BY DEF IsSet
<1>2. v \in Int
  BY Int16Is
<1>3. CASE I!Has(d, v)
  <2>1. I!Set(d, v) = d
    BY <1>3, Zenon DEF I!Set
  <2>2. v \in Numbers(d, n)
    BY <1>1, <1>2, <1>3, HasIs
  <2>3. s \cup {v} = s
    BY <1>1, <2>2
  <2> QED BY <2>1, <2>3
<1>4. CASE ~ I!Has(d, v)
  <2>1. PICK k : k = I!Search(d, v)
    OBVIOUS
  <2>2. Splits(d, n, v, k)
    BY <1>1, <1>2, <2>1, SearchIs
  <2>3. k \in -1 .. n - 1
    BY <2>2 DEF Splits
  <2>4. PICK p, m : p = 2 * (k + 1) /\ m = 2 * n
    OBVIOUS
  <2>5. m \in Nat /\ p \in 0 .. m /\ d \in Seq(I!Byte) /\ Len(d) = m
    BY <1>1, <2>3, <2>4 DEF IsArray
  <2>6. I!Low(v) \in I!Byte /\ I!High(v) \in I!Byte
    BY TwoBytes
  <2>6a. PICK e : Inserts(I!Byte, d, m, p, I!Low(v), I!High(v), e)
    BY <2>5, <2>6, InsertedTwo
  <2>7. /\ e = SubSeq(d, 1, p) \o <<I!Low(v), I!High(v)>> \o SubSeq(d, p + 1, Len(d))
        /\ e \in Seq(I!Byte) /\ Len(e) = m + 2
        /\ \A j \in 1 .. p : e[j] = d[j]
        /\ e[p + 1] = I!Low(v) /\ e[p + 2] = I!High(v)
        /\ \A j \in p + 1 .. m : e[j + 2] = d[j]
    BY <2>6a, Zenon DEF Inserts
  <2>8. I!Set(d, v) = e
    BY <1>4, <2>1, <2>4, <2>7, Zenon DEF I!Set
  <2>9. ASSUME NEW i \in 0 .. k PROVE I!Get(e, i) = I!Get(d, i)
    <3>1. 2 * i + 1 \in 1 .. p /\ 2 * i + 2 \in 1 .. p
      BY <2>3, <2>4
    <3>2. e[2 * i + 1] = d[2 * i + 1] /\ e[2 * i + 2] = d[2 * i + 2]
      BY <2>7, <3>1, Zenon
    <3> QED BY <3>2, Zenon DEF I!Get
  <2>10. I!Get(e, k + 1) = v
    <3>1. 2 * (k + 1) + 1 = p + 1 /\ 2 * (k + 1) + 2 = p + 2
      BY <2>4
    <3>2. I!Get(e, k + 1) = I!Signed(I!Low(v) + 256 * I!High(v))
      BY <2>7, <3>1, Zenon DEF I!Get
    <3> QED BY <3>2, TwoBytes
  <2>11. ASSUME NEW i \in k + 1 .. n - 1 PROVE I!Get(e, i + 1) = I!Get(d, i)
    <3>1. /\ 2 * i + 1 \in p + 1 .. m /\ 2 * i + 2 \in p + 1 .. m
          /\ (2 * i + 1) + 2 = 2 * (i + 1) + 1 /\ (2 * i + 2) + 2 = 2 * (i + 1) + 2
      BY <2>3, <2>4
    <3>2. e[(2 * i + 1) + 2] = d[2 * i + 1] /\ e[(2 * i + 2) + 2] = d[2 * i + 2]
      BY <2>7, <3>1, Zenon
    <3>3. e[2 * (i + 1) + 1] = d[2 * i + 1] /\ e[2 * (i + 1) + 2] = d[2 * i + 2]
      BY <3>1, <3>2, Zenon
    <3> QED BY <3>3, Zenon DEF I!Get
  <2>12. \A i \in 0 .. n - 1 : I!Get(d, i) \in Int /\ I!Get(d, i) # v
    <3>1. v \notin Numbers(d, n)
      BY <1>1, <1>2, <1>4, HasIs
    <3> QED BY <1>1, <3>1, NumbersType DEF Numbers
  <2>13. ASSUME NEW i \in 0 .. k PROVE I!Get(d, i) < v
    <3>1. i \in 0 .. n - 1 /\ i <= k
      BY <2>3
    <3>2. I!Get(d, i) <= v
      BY <2>2, <3>1 DEF Splits
    <3> QED BY <1>2, <2>12, <3>1, <3>2
  <2>14. ASSUME NEW i \in k + 1 .. n - 1 PROVE v < I!Get(d, i)
    <3>1. i \in 0 .. n - 1 /\ ~ (i <= k)
      BY <2>3
    <3>2. ~ (I!Get(d, i) <= v)
      BY <2>2, <3>1 DEF Splits
    <3> QED BY <1>2, <2>12, <3>1, <3>2
  <2>15. Sorted(e, n + 1) /\ Numbers(e, n + 1) = Numbers(d, n) \cup {v}
    BY <1>1, <1>2, <2>3, <2>9, <2>10, <2>11, <2>13, <2>14, InsertSorted
  <2>16. n + 1 \in Nat /\ Len(e) = 2 * (n + 1)
    BY <2>4, <2>7
  <2>17. IsArray(e, n + 1)
    BY <2>7, <2>15, <2>16, Zenon DEF IsArray
  <2> QED BY <1>1, <2>8, <2>15, <2>16, <2>17, Zenon DEF IsSet
<1> QED BY <1>3, <1>4

\* The number at k taken out.
LEMMA RemoveSorted ==
  ASSUME NEW d, NEW n \in Nat, IsArray(d, n), NEW k \in 0 .. n - 1, NEW e,
         \A i \in 0 .. k - 1 : I!Get(e, i) = I!Get(d, i),
         \A i \in k .. n - 2 : I!Get(e, i) = I!Get(d, i + 1)
  PROVE  Sorted(e, n - 1) /\ Numbers(e, n - 1) = Numbers(d, n) \ {I!Get(d, k)}
<1>1. \A i \in 0 .. n - 1 : I!Get(d, i) \in Int
  BY NumbersType
<1> DEFINE from(i) == IF i < k THEN i ELSE i + 1
<1>2. \A i \in 0 .. n - 2 : from(i) \in 0 .. n - 1 /\ from(i) # k /\ I!Get(e, i) = I!Get(d, from(i))
  <2> TAKE i \in 0 .. n - 2
  <2>1. CASE i < k
    BY <2>1
  <2>2. CASE ~ (i < k)
    <3>1. i \in k .. n - 2 /\ i + 1 \in 0 .. n - 1 /\ i + 1 # k
      BY <2>2
    <3>2. I!Get(e, i) = I!Get(d, i + 1)
      BY <3>1
    <3> QED BY <2>2, <3>1, <3>2
  <2> QED BY <2>1, <2>2
<1>3. Sorted(e, n - 1)
  <2>1. ASSUME NEW i \in 0 .. n - 2, NEW j \in 0 .. n - 2, i < j PROVE I!Get(e, i) < I!Get(e, j)
    <3>1. from(i) < from(j)
      BY <2>1
    <3>2. from(i) \in 0 .. n - 1 /\ from(j) \in 0 .. n - 1
      BY <1>2
    <3> HIDE DEF from
    <3>3. I!Get(d, from(i)) < I!Get(d, from(j))
      BY <3>1, <3>2 DEF IsArray, Sorted
    <3> QED BY <1>2, <3>3
  <2>2. (n - 1) - 1 = n - 2
    OBVIOUS
  <2> QED BY <2>1, <2>2 DEF Sorted
<1>4. \A i, j \in 0 .. n - 1 : i # j => I!Get(d, i) # I!Get(d, j)
  <2> TAKE i, j \in 0 .. n - 1
  <2>1. i < j => I!Get(d, i) < I!Get(d, j)
    BY DEF IsArray, Sorted
  <2>2. j < i => I!Get(d, j) < I!Get(d, i)
    BY DEF IsArray, Sorted
  <2> QED BY <1>1, <2>1, <2>2
<1>5. ASSUME NEW x \in Numbers(e, n - 1) PROVE x \in Numbers(d, n) \ {I!Get(d, k)}
  <2>1. PICK i \in 0 .. n - 2 : x = I!Get(e, i)
    <3>1. (n - 1) - 1 = n - 2
      OBVIOUS
    <3> QED BY <3>1 DEF Numbers
  <2>2. from(i) \in 0 .. n - 1 /\ from(i) # k /\ x = I!Get(d, from(i))
    BY <1>2, <2>1
  <2> HIDE DEF from
  <2> QED BY <1>4, <2>2 DEF Numbers
<1>6. ASSUME NEW x \in Numbers(d, n) \ {I!Get(d, k)} PROVE x \in Numbers(e, n - 1)
  <2>1. PICK i \in 0 .. n - 1 : x = I!Get(d, i)
    BY DEF Numbers
  <2>2. i # k
    BY <2>1
  <2>3. CASE i < k
    <3>1. i \in 0 .. (n - 1) - 1 /\ i \in 0 .. k - 1
      BY <2>3
    <3>2. x = I!Get(e, i)
      BY <2>1, <3>1
    <3> QED BY <3>1, <3>2 DEF Numbers
  <2>4. CASE k < i
    <3>1. i - 1 \in 0 .. (n - 1) - 1 /\ i - 1 \in k .. n - 2 /\ (i - 1) + 1 = i
      BY <2>4
    <3>2. x = I!Get(e, i - 1)
      BY <2>1, <3>1
    <3> QED BY <3>1, <3>2 DEF Numbers
  <2> QED BY <2>2, <2>3, <2>4
<1> QED BY <1>3, <1>5, <1>6

\* SREM of one number.
LEMMA DelIs ==
  ASSUME NEW d, NEW s, IsSet(d, s), NEW v, v \in I!Int16
  PROVE  IsSet(I!Del(d, v), s \ {v})
<1>1. PICK n \in Nat : IsArray(d, n) /\ s = Numbers(d, n)
  BY DEF IsSet
<1>2. v \in Int
  BY Int16Is
<1>3. CASE ~ I!Has(d, v)
  <2>1. I!Del(d, v) = d
    BY <1>3, Zenon DEF I!Del
  <2>2. v \notin Numbers(d, n)
    BY <1>1, <1>2, <1>3, HasIs
  <2>3. s \ {v} = s
    BY <1>1, <2>2
  <2> QED BY <2>1, <2>3
<1>4. CASE I!Has(d, v)
  <2>1. PICK k : k = I!Search(d, v)
    OBVIOUS
  <2>2. k \in 0 .. n - 1 /\ I!Get(d, k) = v
    BY <1>1, <1>2, <1>4, <2>1, HasIs
  <2>3. PICK p, m : p = 2 * k /\ m = 2 * n
    OBVIOUS
  <2>4. m \in Nat /\ p \in 0 .. m - 2 /\ d \in Seq(I!Byte) /\ Len(d) = m
    BY <1>1, <2>2, <2>3 DEF IsArray
  <2>5. PICK e : Removes(I!Byte, d, m, p, e)
    BY <2>4, RemovedTwo
  <2>6. /\ e = SubSeq(d, 1, p) \o SubSeq(d, p + 3, Len(d))
        /\ e \in Seq(I!Byte) /\ Len(e) = m - 2
        /\ \A j \in 1 .. p : e[j] = d[j]
        /\ \A j \in p + 1 .. m - 2 : e[j] = d[j + 2]
    BY <2>5, Zenon DEF Removes
  <2>7. I!Del(d, v) = e
    BY <1>4, <2>1, <2>3, <2>6, Zenon DEF I!Del
  <2>8. ASSUME NEW i \in 0 .. k - 1 PROVE I!Get(e, i) = I!Get(d, i)
    <3>1. 2 * i + 1 \in 1 .. p /\ 2 * i + 2 \in 1 .. p
      BY <2>2, <2>3
    <3>2. e[2 * i + 1] = d[2 * i + 1] /\ e[2 * i + 2] = d[2 * i + 2]
      BY <2>6, <3>1, Zenon
    <3> QED BY <3>2, Zenon DEF I!Get
  <2>9. ASSUME NEW i \in k .. n - 2 PROVE I!Get(e, i) = I!Get(d, i + 1)
    <3>1. /\ 2 * i + 1 \in p + 1 .. m - 2 /\ 2 * i + 2 \in p + 1 .. m - 2
          /\ (2 * i + 1) + 2 = 2 * (i + 1) + 1 /\ (2 * i + 2) + 2 = 2 * (i + 1) + 2
      BY <2>2, <2>3
    <3>2. e[2 * i + 1] = d[(2 * i + 1) + 2] /\ e[2 * i + 2] = d[(2 * i + 2) + 2]
      BY <2>6, <3>1, Zenon
    <3>3. e[2 * i + 1] = d[2 * (i + 1) + 1] /\ e[2 * i + 2] = d[2 * (i + 1) + 2]
      BY <3>1, <3>2, Zenon
    <3> QED BY <3>3, Zenon DEF I!Get
  <2>10. Sorted(e, n - 1) /\ Numbers(e, n - 1) = Numbers(d, n) \ {v}
    <3>1. Sorted(e, n - 1) /\ Numbers(e, n - 1) = Numbers(d, n) \ {I!Get(d, k)}
      BY <1>1, <2>2, <2>8, <2>9, RemoveSorted
    <3> QED BY <2>2, <3>1
  <2>11. n - 1 \in Nat /\ Len(e) = 2 * (n - 1)
    <3>1. Len(e) = m - 2
      BY <2>6, Zenon
    <3> QED BY <2>2, <2>3, <3>1
  <2>12. IsArray(e, n - 1)
    BY <2>6, <2>10, <2>11, Zenon DEF IsArray
  <2> QED BY <1>1, <2>7, <2>10, <2>11, <2>12, Zenon DEF IsSet
<1> QED BY <1>3, <1>4

-----------------------------------------------------------------------------
\* What the arguments a of SADD make of d, one after the other.
AddNext(x, v) == IF v \in I!Int16 THEN I!Set(x, v) ELSE x
Adds(f, n, d, a) == f = [i \in 0 .. n |-> IF i = 0 THEN d ELSE AddNext(f[i - 1], a[i])]
Denoted(a, n)    == {a[i] : i \in {i \in 1 .. n : a[i] \in I!Int16}}

\* There is what n arguments make, for each n: one more is one step more.
LEMMA AddsExists ==
  ASSUME NEW d, NEW a, NEW n \in Nat
  PROVE  \E f : Adds(f, n, d, a)
<1> DEFINE P == {k \in Nat : \E f : Adds(f, k, d, a)}
<1>1. 0 \in P
  <2> DEFINE f == [i \in 0 .. 0 |-> d]
  <2>1. \A i \in 0 .. 0 : i = 0
    OBVIOUS
  <2>2. Adds(f, 0, d, a)
    BY <2>1 DEF Adds
  <2> HIDE DEF f
  <2> QED BY <2>2
<1>2. ASSUME NEW k \in Nat, k \in P PROVE k + 1 \in P
  <2>1. PICK f : Adds(f, k, d, a)
    BY <1>2
  <2> DEFINE g == [i \in 0 .. k + 1 |-> IF i = k + 1 THEN AddNext(f[k], a[k + 1]) ELSE f[i]]
             Rest(i) == IF i = 0 THEN d ELSE AddNext(g[i - 1], a[i])
  <2>2. ASSUME NEW i \in 0 .. k + 1 PROVE g[i] = Rest(i)
    <3>1. CASE i = 0
      <4>1. 0 \in 0 .. k /\ 0 # k + 1
        OBVIOUS
      <4>2. f[0] = d
        BY <2>1, <4>1 DEF Adds
      <4> QED BY <3>1, <4>1, <4>2
    <3>2. CASE i = k + 1
      <4>1. i # 0 /\ i - 1 = k /\ k \in 0 .. k + 1 /\ k # k + 1
        BY <3>2
      <4>2. g[k] = f[k]
        BY <4>1
      <4> QED BY <3>2, <4>1, <4>2
    <3>3. CASE i # 0 /\ i # k + 1
      <4>1. i \in 0 .. k /\ i - 1 \in 0 .. k + 1 /\ i - 1 # k + 1
        BY <3>3
      <4>2. f[i] = AddNext(f[i - 1], a[i])
        BY <2>1, <3>3, <4>1 DEF Adds
      <4>3. g[i] = f[i] /\ g[i - 1] = f[i - 1]
        BY <3>3, <4>1
      <4> HIDE DEF g
      <4> QED BY <3>3, <4>2, <4>3
    <3> QED BY <3>1, <3>2, <3>3
  <2>3. g = [i \in 0 .. k + 1 |-> g[i]]
    OBVIOUS
  <2> HIDE DEF g
  <2>4. g = [i \in 0 .. k + 1 |-> Rest(i)]
    <3> HIDE DEF Rest
    <3> QED BY <2>2, <2>3
  <2>5. Adds(g, k + 1, d, a)
    BY <2>4, Zenon DEF Adds
  <2> QED BY <2>5
<1> HIDE DEF P
<1>3. n \in P
  BY <1>1, <1>2, NatInduct
<1> QED BY <1>3 DEF P

\* SADD adds the arguments that are numbers of 16 bits.
LEMMA AddsIs ==
  ASSUME NEW d, NEW s, IsSet(d, s), NEW a, NEW n \in Nat, NEW f, Adds(f, n, d, a)
  PROVE  IsSet(f[n], s \cup Denoted(a, n))
<1> DEFINE Q(k) == k <= n => IsSet(f[k], s \cup Denoted(a, k))
           P == {k \in Nat : Q(k)}
<1>1. Q(0)
  <2>1. 0 \in 0 .. n
    OBVIOUS
  <2>2. f[0] = d
    BY <2>1 DEF Adds
  <2>3. Denoted(a, 0) = {}
    BY DEF Denoted
  <2>4. s \cup Denoted(a, 0) = s
    BY <2>3
  <2> QED BY <2>2, <2>4
<1>2. ASSUME NEW k \in Nat, Q(k) PROVE Q(k + 1)
  <2> SUFFICES ASSUME k + 1 <= n PROVE IsSet(f[k + 1], s \cup Denoted(a, k + 1))
    OBVIOUS
  <2>1. k + 1 \in 0 .. n /\ k + 1 # 0 /\ (k + 1) - 1 = k /\ k <= n
    OBVIOUS
  <2>2. f[k + 1] = AddNext(f[k], a[k + 1])
    BY <2>1 DEF Adds
  <2>3. IsSet(f[k], s \cup Denoted(a, k))
    BY <1>2, <2>1
  <2>4. \A i \in 1 .. k + 1 : i \in 1 .. k \/ i = k + 1
    OBVIOUS
  <2>5. 1 .. k \subseteq 1 .. k + 1 /\ k + 1 \in 1 .. k + 1
    OBVIOUS
  <2>6. CASE a[k + 1] \in I!Int16
    <3>1. Denoted(a, k + 1) = Denoted(a, k) \cup {a[k + 1]}
      BY <2>4, <2>5, <2>6 DEF Denoted
    <3>2. s \cup Denoted(a, k + 1) = (s \cup Denoted(a, k)) \cup {a[k + 1]}
      BY <3>1
    <3>3. f[k + 1] = I!Set(f[k], a[k + 1])
      BY <2>2, <2>6 DEF AddNext
    <3> QED BY <2>3, <2>6, <3>2, <3>3, SetIs
  <2>7. CASE a[k + 1] \notin I!Int16
    <3>1. Denoted(a, k + 1) = Denoted(a, k)
      BY <2>4, <2>5, <2>7 DEF Denoted
    <3>2. f[k + 1] = f[k]
      BY <2>2, <2>7 DEF AddNext
    <3> QED BY <2>3, <3>1, <3>2
  <2> QED BY <2>6, <2>7
<1> HIDE DEF Q
<1>3. 0 \in P /\ \A k \in Nat : k \in P => k + 1 \in P
  BY <1>1, <1>2
<1>4. n \in P
  <2> HIDE DEF P
  <2> QED BY <1>3, NatInduct
<1>5. Q(n)
  BY <1>4
<1> QED BY <1>5 DEF Q

-----------------------------------------------------------------------------
\* The invariant of the set.
SetInv == IsSet(data, told) /\ length = Len(data) \div 2

\* No bytes are the empty set.
LEMMA SetOfNone == IsSet(<<>>, {}) /\ 0 = Len(<<>>) \div 2
<1>1. <<>> \in Seq(I!Byte) /\ Len(<<>>) = 2 * 0 /\ 0 \in Nat
  OBVIOUS
<1>2. \A i \in 0 .. 0 - 1 : FALSE
  OBVIOUS
<1>3. Sorted(<<>>, 0) /\ Numbers(<<>>, 0) = {}
  BY <1>2 DEF Sorted, Numbers
<1>4. IsSet(<<>>, {})
  BY <1>1, <1>3, Zenon DEF IsSet, IsArray
<1>5. 0 = Len(<<>>) \div 2
  OBVIOUS
<1> QED BY <1>4, <1>5

\* SADD keeps the invariant.
LEMMA SaddOK == ASSUME SetInv, I!Sadd(data) PROVE SetInv'
<1>1. PICK n \in 1 .. MaxSadd : \E a \in [1 .. n -> Numerals] :
        LET after[i \in 0 .. n] ==
              IF i = 0 THEN data
              ELSE IF a[i] \in I!Int16 THEN I!Set(after[i - 1], a[i]) ELSE after[i - 1]
        IN  /\ I!Becomes(after[n])
            /\ told' = told \cup {a[i] : i \in {i \in 1 .. n : a[i] \in I!Int16}}
  BY Zenon DEF I!Sadd
<1>2. PICK a \in [1 .. n -> Numerals] :
        /\ I!Becomes((CHOOSE r : Adds(r, n, data, a))[n])
        /\ told' = told \cup Denoted(a, n)
  BY <1>1, Zenon DEF Adds, AddNext, Denoted
<1>3. PICK f : f = CHOOSE r : Adds(r, n, data, a)
  OBVIOUS
<1>4. n \in Nat
  OBVIOUS
<1>5. Adds(f, n, data, a)
  BY <1>3, <1>4, AddsExists, Zenon
<1>6. IsSet(f[n], told \cup Denoted(a, n))
  BY <1>4, <1>5, AddsIs DEF SetInv
<1>7. data' = f[n] /\ length' = Len(f[n]) \div 2
  BY <1>2, <1>3, Zenon DEF I!Becomes
<1> QED BY <1>2, <1>6, <1>7, Zenon DEF SetInv

\* SREM keeps the invariant.
LEMMA SremOK == ASSUME SetInv, I!Srem PROVE SetInv'
<1>1. PICK v \in Numerals \cap I!Int16 : I!Becomes(I!Del(data, v)) /\ told' = told \ {v}
  BY Zenon DEF I!Srem
<1>2. v \in I!Int16
  OBVIOUS
<1>3. IsSet(I!Del(data, v), told \ {v})
  BY <1>2, DelIs DEF SetInv
<1>4. data' = I!Del(data, v) /\ length' = Len(I!Del(data, v)) \div 2
  BY <1>1, Zenon DEF I!Becomes
<1> QED BY <1>1, <1>3, <1>4, Zenon DEF SetInv

\* What the commands tell of an array in order is what it holds.
LEMMA SetExact == SetInv => I!SetIsExact
<1> SUFFICES ASSUME SetInv PROVE I!SetIsExact
  OBVIOUS
<1>1. PICK n \in Nat : IsArray(data, n) /\ told = Numbers(data, n)
  BY DEF SetInv, IsSet
<1>2. Len(data) = 2 * n /\ data \in Seq(I!Byte)
  BY <1>1 DEF IsArray
<1>3. length = n
  BY <1>2 DEF SetInv
<1>4. I!TypeOK /\ Len(data) = 2 * length
  BY <1>2, <1>3, Zenon DEF I!TypeOK
<1>5. ASSUME NEW i \in 1 .. length PROVE I!Smembers[i] = I!Get(data, i - 1) /\ i - 1 \in 0 .. n - 1
  <2>1. I!Smembers[i] = I!Get(data, i - 1)
    BY Zenon DEF I!Smembers
  <2> QED BY <1>3, <2>1
<1>6. {I!Smembers[i] : i \in 1 .. length} = told
  <2>1. ASSUME NEW i \in 1 .. length PROVE I!Smembers[i] \in told
    BY <1>1, <1>5 DEF Numbers
  <2>2. ASSUME NEW x \in told PROVE \E i \in 1 .. length : x = I!Smembers[i]
    <3>1. PICK j \in 0 .. n - 1 : x = I!Get(data, j)
      BY <1>1 DEF Numbers
    <3>2. j + 1 \in 1 .. length /\ (j + 1) - 1 = j
      BY <1>3
    <3> QED BY <1>5, <3>1, <3>2
  <2> QED BY <2>1, <2>2, Zenon
<1>7. ASSUME NEW i \in 1 .. length, NEW j \in 1 .. length, i < j
      PROVE  I!Smembers[i] < I!Smembers[j]
  <2>1. i - 1 < j - 1
    BY <1>3, <1>7
  <2>2. I!Get(data, i - 1) < I!Get(data, j - 1)
    BY <1>1, <1>5, <2>1 DEF IsArray, Sorted
  <2> QED BY <1>5, <2>2
<1>8. ASSUME NEW v \in Numerals PROVE I!Sismember(v) <=> v \in told
  <2>1. v \in told => v \in I!Int16
    BY <1>1, NumbersType DEF Numbers
  <2>2. ASSUME v \in I!Int16 PROVE I!Has(data, v) <=> v \in told
    <3>1. v \in Int
      BY <2>2, Int16Is
    <3> QED BY <1>1, <3>1, HasIs
  <2> QED BY <2>1, <2>2, Zenon DEF I!Sismember
<1> QED BY <1>4, <1>6, <1>7, <1>8, Zenon DEF I!SetIsExact

\* The first state has the empty set.
LEMMA SetsInit == Init => SetInv
<1> SUFFICES ASSUME Init PROVE SetInv
  OBVIOUS
<1>1. length = 0 /\ data = <<>> /\ told = {}
  BY DEF Init, I!Init
<1> QED BY <1>1, SetOfNone, Zenon DEF SetInv

\* A value that is dropped leaves the empty set.
LEMMA SetsCleared == I!Clear => SetInv'
<1> SUFFICES ASSUME I!Clear PROVE SetInv'
  OBVIOUS
<1>1. length' = 0 /\ data' = <<>> /\ told' = {}
  BY DEF I!Clear
<1> QED BY <1>1, SetOfNone, Zenon DEF SetInv

\* A command that leaves the set alone keeps the invariant.
LEMMA SetsKept == SetInv /\ UNCHANGED set => SetInv'
BY Zenon DEF set, SetInv

\* Every action keeps it: most of them leave the set alone or start it anew.
LEMMA SetsStep == SetInv /\ [Next]_vars => SetInv'
<1> SUFFICES ASSUME SetInv, [Next]_vars PROVE SetInv'
  OBVIOUS
<1> USE SetsCleared, SetsKept
<1>1. CASE SetCmd
  BY <1>1, Zenon DEF SetCmd, Dropped
<1>2. CASE DelCmd
  BY <1>2, Zenon DEF DelCmd, Dropped
<1>3. CASE AssertionFails
  BY <1>3, Zenon DEF AssertionFails, Dropped
<1>4. CASE GeohashOfNoKey
  BY <1>4, Zenon DEF GeohashOfNoKey, Dropped
<1>5. CASE GeoaddCutShort
  BY <1>5, Zenon DEF GeoaddCutShort, Dropped
<1>6. CASE LpushCmd
  BY <1>6, Zenon DEF LpushCmd, OnlyList
<1>7. CASE RpushCmd
  BY <1>7, Zenon DEF RpushCmd, OnlyList
<1>8. CASE LlenCmd
  BY <1>8, Zenon DEF LlenCmd, OnlyList
<1>9. CASE \E n \in Counts : LpopCmd(n)
  BY <1>9, Zenon DEF LpopCmd, OnlyList
<1>10. CASE \E i, j \in Indices : LrangeCmd(i, j)
  BY <1>10, Zenon DEF LrangeCmd, OnlyList
<1>11. CASE \E m \in Members, sc \in Scores : ZaddCmd(m, sc)
  BY <1>11, Zenon DEF ZaddCmd, OnlyZset
<1>12. CASE \E m \in Members : ZremCmd(m)
  BY <1>12, Zenon DEF ZremCmd, OnlyZset
<1>13. CASE SaddCmd
  BY <1>13, SaddOK, Zenon DEF SaddCmd
<1>14. CASE SremCmd
  BY <1>14, SremOK, Zenon DEF SremCmd
<1>15. CASE \E s \in Shapes : BfReserveCmd(s)
  BY <1>15, Zenon DEF BfReserveCmd, Dropped
<1>16. CASE \E x \in Items : BfAddCmd(x)
  BY <1>16, Zenon DEF BfAddCmd, Dropped, OnlyBits
<1>17. CASE GeoaddCmd
  BY <1>17, Zenon DEF GeoaddCmd, OnlyGeo
<1>18. CASE UNCHANGED vars
  BY <1>18, Zenon DEF vars
<1> QED BY <1>1, <1>2, <1>3, <1>4, <1>5, <1>6, <1>7, <1>8, <1>9, <1>10, <1>11, <1>12, <1>13,
           <1>14, <1>15, <1>16, <1>17, <1>18, Zenon DEF Next

\* SMEMBERS, SCARD and SISMEMBER tell what was added and not removed, in every
\* sequence of commands and for all numbers: SADD and SREM, which trust the binary
\* search with the place where bytes go in and out, never lose or repeat a number.
THEOREM SetsAreExact == Spec => []SetIsExact
<1>1. Init => SetInv
  BY SetsInit
<1>2. SetInv /\ [Next]_vars => SetInv'
  BY SetsStep
<1>3. SetInv => SetIsExact
  BY SetExact DEF SetIsExact
<1> QED BY <1>1, <1>2, <1>3, PTL DEF Spec

-----------------------------------------------------------------------------
\* The words of a filter are there for every bit of every item.
LEMMA BitsInside ==
  ASSUME bloom.size \in Int, bloom.k \in Int, B!Addable, NEW x \in Items, NEW b \in B!Bits(x)
  PROVE  b[1] \in 0 .. B!WordsFor(bloom.size) - 1 /\ b[2] \in 0 .. 63
<1>1. PICK i \in 0 .. bloom.k - 1 :
        b = <<((Hash1[x] + i * Hash2[x]) % bloom.size) \div 64, ((Hash1[x] + i * Hash2[x]) % bloom.size) % 64>>
  BY Zenon DEF B!Bits
<1>2. Hash1[x] \in Nat /\ Hash2[x] \in Nat
  BY ConstantsAssumption DEF B!ConstantsFit
<1>3. i \in Nat /\ bloom.size > 0
  BY <1>1 DEF B!Addable
<1>4. PICK h, n : h = Hash1[x] + i * Hash2[x] /\ n = bloom.size
  OBVIOUS
<1>5. h \in Int /\ n \in Int /\ n > 0
  BY <1>2, <1>3, <1>4
<1>6. PICK r : r = h % n
  OBVIOUS
<1>7. r \in Int /\ 0 <= r /\ r < n
  BY <1>5, <1>6
<1>8. b = <<r \div 64, r % 64>>
  BY <1>1, <1>4, <1>6
<1>9. B!WordsFor(n) = (n + 63) \div 64
  BY <1>5 DEF B!WordsFor
<1>10. PICK w, c : w = r \div 64 /\ c = r % 64
  OBVIOUS
<1>11. w \in 0 .. ((n + 63) \div 64) - 1 /\ c \in 0 .. 63
  BY <1>5, <1>7, <1>10
<1> QED BY <1>4, <1>8, <1>9, <1>10, <1>11

\* The invariant of the filter: it has the words of its size, and the bits of what
\* was added.
BloomInv ==
  /\ \E n, k, f : n \in Int /\ k \in Int /\ bloom = [size |-> n, k |-> k, filter |-> f]
  /\ DOMAIN bloom.filter = 0 .. B!WordsFor(bloom.size) - 1
  /\ B!AddedExists

\* A filter of no bits holds nothing.
LEMMA BloomOfNone ==
  ASSUME bloom = B!NoFilter, put = {}
  PROVE  BloomInv
<1>1. bloom = [size |-> 0, k |-> 0, filter |-> <<>>]
  BY DEF B!NoFilter
<1>2. DOMAIN bloom.filter = {} /\ bloom.size = 0
  BY <1>1
<1>3. B!WordsFor(0) = 0
  BY DEF B!WordsFor
<1>4. DOMAIN bloom.filter = 0 .. B!WordsFor(bloom.size) - 1
  BY <1>2, <1>3
<1>5. B!AddedExists
  BY <1>2 DEF B!AddedExists, B!TypeOK
<1>6. 0 \in Int
  OBVIOUS
<1> QED BY <1>1, <1>4, <1>5, <1>6, Zenon DEF BloomInv

\* BF.RESERVE makes the words of the size, all zero.
LEMMA ReserveOK == ASSUME NEW shape \in Shapes, B!Reserve(shape) PROVE BloomInv'
<1>1. shape.size \in Int /\ shape.k \in Int
  BY ConstantsAssumption DEF B!ConstantsFit
<1>2. PICK n, k, f : n = shape.size /\ k = shape.k /\ f = [w \in 0 .. B!WordsFor(n) - 1 |-> {}]
  OBVIOUS
<1>3. bloom' = [size |-> n, k |-> k, filter |-> f] /\ put' = {}
  BY <1>2, Zenon DEF B!Reserve
<1>4. bloom'.size = n /\ bloom'.filter = f
  BY <1>3
<1>5. DOMAIN f = 0 .. B!WordsFor(n) - 1 /\ \A w \in DOMAIN f : f[w] = {}
  BY <1>2
<1>6. B!AddedExists'
  BY <1>3, <1>4, <1>5 DEF B!AddedExists, B!TypeOK
<1> QED BY <1>1, <1>2, <1>3, <1>4, <1>5, <1>6 DEF BloomInv

\* BF.ADD sets the bits of the item, in words there are, and loses none.
LEMMA AddOK == ASSUME BloomInv, NEW x \in Items, B!Addable, B!Add(x) PROVE BloomInv'
<1>1. PICK n, k, f : n \in Int /\ k \in Int /\ bloom = [size |-> n, k |-> k, filter |-> f]
  BY DEF BloomInv
<1>2. bloom.size = n /\ bloom.k = k /\ bloom.filter = f
  BY <1>1
<1>3. PICK g : g = B!SetAll(f, B!Bits(x))
  OBVIOUS
<1>4. bloom' = [size |-> n, k |-> k, filter |-> g] /\ put' = put \cup {x}
  <2>1. bloom' = [bloom EXCEPT !.filter = B!SetAll(bloom.filter, B!Bits(x))] /\ put' = put \cup {x}
    BY Zenon DEF B!Add
  <2>2. bloom' = [bloom EXCEPT !.filter = g]
    BY <1>2, <1>3, <2>1
  <2> QED BY <1>1, <2>1, <2>2
<1>5. bloom'.size = n /\ bloom'.k = k /\ bloom'.filter = g
  BY <1>4
<1>6. /\ DOMAIN g = DOMAIN f
      /\ \A w \in DOMAIN f : g[w] = f[w] \cup {b[2] : b \in {b \in B!Bits(x) : b[1] = w}}
  BY <1>3, Zenon DEF B!SetAll
<1>7. \A y : B!Bits(y)' = B!Bits(y)
  BY <1>2, <1>5 DEF B!Bits
<1>8. \A y \in Items : \A b \in B!Bits(y) : b[1] \in DOMAIN f /\ b[2] \in 0 .. 63
  BY <1>1, <1>2, BitsInside DEF BloomInv
<1>9. put \subseteq Items /\ (\A w \in DOMAIN f : f[w] \subseteq 0 .. 63)
  BY <1>2 DEF BloomInv, B!AddedExists, B!TypeOK
<1>10. ASSUME NEW w \in DOMAIN g PROVE g[w] \subseteq 0 .. 63
  BY <1>6, <1>8, <1>9
<1>11. ASSUME NEW y \in put \cup {x}, NEW b \in B!Bits(y) PROVE b[2] \in g[b[1]]
  <2>1. b[1] \in DOMAIN f
    BY <1>8, <1>9
  <2>2. CASE y = x
    BY <1>6, <2>1, <2>2
  <2>3. CASE y \in put
    <3>1. b[2] \in f[b[1]]
      BY <1>2, <2>3 DEF BloomInv, B!AddedExists, B!Exists
    <3> QED BY <1>6, <2>1, <3>1
  <2> QED BY <2>2, <2>3
<1>12. B!AddedExists'
  <2>1. ASSUME NEW y \in put' PROVE B!Exists(y)'
    <3>1. y \in put \cup {x}
      BY <1>4
    <3>2. \A b \in B!Bits(y) : b[2] \in g[b[1]]
      BY <1>11, <3>1
    <3> QED BY <1>5, <1>7, <3>2, Zenon DEF B!Exists
  <2>2. B!TypeOK'
    BY <1>4, <1>5, <1>9, <1>10 DEF B!TypeOK
  <2> QED BY <2>1, <2>2, Zenon DEF B!AddedExists
<1>13. DOMAIN g = 0 .. B!WordsFor(n) - 1
  BY <1>2, <1>6 DEF BloomInv
<1> QED BY <1>1, <1>4, <1>5, <1>12, <1>13 DEF BloomInv

-----------------------------------------------------------------------------
\* An index and its trie agree: who has an entry is filed in the leaf of its place,
\* and who is filed has an entry.
Filed(g) ==
  /\ g.trie \in [G!Paths -> Seq(Pins)]
  /\ g.index \in [Pins -> Places \cup {G!Nowhere}]
  /\ \A m \in Pins : g.index[m] # G!Nowhere => m \in G!ToSet(g.trie[G!Leaf(g.index[m])])
  /\ \A p \in G!Paths : \A m \in G!ToSet(g.trie[p]) : g.index[m] # G!Nowhere

\* Who is in a leaf after one more was filed there.
LEMMA ToSetAppend ==
  ASSUME NEW S, NEW s \in Seq(S), NEW m \in S
  PROVE  /\ Append(s, m) \in Seq(S)
         /\ G!ToSet(Append(s, m)) = G!ToSet(s) \cup {m}
<1>1. /\ Append(s, m) \in Seq(S) /\ Len(Append(s, m)) = Len(s) + 1
      /\ \A i \in 1 .. Len(s) : Append(s, m)[i] = s[i]
      /\ Append(s, m)[Len(s) + 1] = m
  BY AppendProperties
<1>2. Len(s) \in Nat /\ DOMAIN s = 1 .. Len(s)
  BY LenProperties
<1>3. PICK e : e = Append(s, m)
  OBVIOUS
<1>4. DOMAIN e = 1 .. Len(s) + 1
  BY <1>1, <1>3, LenProperties
<1>5. \A i : i \in 1 .. Len(s) + 1 <=> i \in 1 .. Len(s) \/ i = Len(s) + 1
  BY <1>2
<1>6. G!ToSet(e) = {e[i] : i \in 1 .. Len(s) + 1} /\ G!ToSet(s) = {s[i] : i \in 1 .. Len(s)}
  BY <1>2, <1>4, Zenon DEF G!ToSet
<1>7. (\A i \in 1 .. Len(s) : e[i] = s[i]) /\ e[Len(s) + 1] = m
  BY <1>1, <1>3, Zenon
<1>8. {e[i] : i \in 1 .. Len(s) + 1} = {s[i] : i \in 1 .. Len(s)} \cup {m}
  BY <1>5, <1>7, Zenon
<1> QED BY <1>1, <1>3, <1>6, <1>8, Zenon

\* One member of a GEOADD.
LEMMA InsertedFiled ==
  ASSUME NEW g, Filed(g), NEW m \in Pins, NEW place \in Places
  PROVE  Filed(G!Inserted(g, m, place))
<1>1. PICK l : l = G!Leaf(place)
  OBVIOUS
<1>2. \A x : G!Leaf(x) \in G!Paths
  BY DEF G!Leaf, G!Paths
<1>3. PICK t, x : t = g.trie /\ x = g.index
  OBVIOUS
<1>4. t \in [G!Paths -> Seq(Pins)] /\ x \in [Pins -> Places \cup {G!Nowhere}]
  BY <1>3 DEF Filed
<1>5. PICK e, y : e = [t EXCEPT ![l] = Append(t[l], m)] /\ y = [x EXCEPT ![m] = place]
  OBVIOUS
<1>6. l \in G!Paths /\ t[l] \in Seq(Pins)
  BY <1>1, <1>2, <1>4
<1>7. Append(t[l], m) \in Seq(Pins) /\ G!ToSet(Append(t[l], m)) = G!ToSet(t[l]) \cup {m}
  BY <1>6, ToSetAppend
<1>8. place # G!Nowhere
  BY ConstantsAssumption DEF G!ConstantsFit
<1>9. e \in [G!Paths -> Seq(Pins)] /\ y \in [Pins -> Places \cup {G!Nowhere}]
  BY <1>4, <1>5, <1>6, <1>7, Zenon
<1>10. \A p \in G!Paths : G!ToSet(e[p]) = IF p = l THEN G!ToSet(t[p]) \cup {m} ELSE G!ToSet(t[p])
  BY <1>4, <1>5, <1>6, <1>7, Zenon
<1>11. \A q \in Pins : y[q] = IF q = m THEN place ELSE x[q]
  BY <1>4, <1>5, Zenon
<1>12. ASSUME NEW q \in Pins, y[q] # G!Nowhere PROVE q \in G!ToSet(e[G!Leaf(y[q])])
  <2>1. CASE q = m
    BY <1>1, <1>6, <1>10, <1>11, <2>1, Zenon
  <2>2. CASE q # m
    <3>1. q \in G!ToSet(t[G!Leaf(x[q])])
      BY <1>3, <1>11, <1>12, <2>2, Zenon DEF Filed
    <3> QED BY <1>2, <1>10, <1>11, <2>2, <3>1, Zenon
  <2> QED BY <2>1, <2>2
<1>13. ASSUME NEW p \in G!Paths, NEW q \in G!ToSet(e[p]) PROVE y[q] # G!Nowhere
  <2>1. q = m \/ q \in G!ToSet(t[p])
    BY <1>10, Zenon
  <2>2. q \in G!ToSet(t[p]) => q \in Pins
    <3>1. t[p] \in Seq(Pins)
      BY <1>4
    <3>2. DOMAIN t[p] = 1 .. Len(t[p])
      BY <3>1, LenProperties
    <3>3. \A i \in 1 .. Len(t[p]) : t[p][i] \in Pins
      BY <3>1, ElementOfSeq
    <3> QED BY <3>2, <3>3, Zenon DEF G!ToSet
  <2>3. q \in G!ToSet(t[p]) => x[q] # G!Nowhere
    BY <1>3, Zenon DEF Filed
  <2> QED BY <1>8, <1>11, <2>1, <2>2, <2>3, Zenon
<1>14. PICK h : h = G!Inserted(g, m, place)
  OBVIOUS
<1>15. h.trie = e /\ h.index = y
  <2>1. h = [trie |-> e, index |-> y]
    BY <1>1, <1>3, <1>5, <1>14, Zenon DEF G!Inserted
  <2> QED BY <2>1
<1>16. Filed(h)
  BY <1>9, <1>12, <1>13, <1>15, Zenon DEF Filed
<1> QED BY <1>14, <1>16

\* What the members a of GEOADD make of the index g, one after the other.
Files(f, n, g, a) == f = [i \in 0 .. n |-> IF i = 0 THEN g ELSE G!Inserted(f[i - 1], a[i][1], a[i][2])]

\* There is what n members make, for each n.
LEMMA FilesExists ==
  ASSUME NEW g, NEW a, NEW n \in Nat
  PROVE  \E f : Files(f, n, g, a)
<1> DEFINE P == {k \in Nat : \E f : Files(f, k, g, a)}
<1>1. 0 \in P
  <2> DEFINE f == [i \in 0 .. 0 |-> g]
  <2>1. \A i \in 0 .. 0 : i = 0
    OBVIOUS
  <2>2. Files(f, 0, g, a)
    BY <2>1 DEF Files
  <2> HIDE DEF f
  <2> QED BY <2>2
<1>2. ASSUME NEW k \in Nat, k \in P PROVE k + 1 \in P
  <2>1. PICK f : Files(f, k, g, a)
    BY <1>2
  <2> DEFINE h == [i \in 0 .. k + 1 |-> IF i = k + 1 THEN G!Inserted(f[k], a[k + 1][1], a[k + 1][2]) ELSE f[i]]
             H(i) == IF i = 0 THEN g ELSE G!Inserted(h[i - 1], a[i][1], a[i][2])
  <2>2. ASSUME NEW i \in 0 .. k + 1 PROVE h[i] = H(i)
    <3>1. CASE i = 0
      <4>1. 0 \in 0 .. k /\ 0 # k + 1
        OBVIOUS
      <4>2. f[0] = g
        BY <2>1, <4>1 DEF Files
      <4> QED BY <3>1, <4>1, <4>2
    <3>2. CASE i = k + 1
      <4>1. i # 0 /\ i - 1 = k /\ k \in 0 .. k + 1 /\ k # k + 1
        BY <3>2
      <4>2. h[k] = f[k]
        BY <4>1
      <4> QED BY <3>2, <4>1, <4>2
    <3>3. CASE i # 0 /\ i # k + 1
      <4>1. i \in 0 .. k /\ i - 1 \in 0 .. k + 1 /\ i - 1 # k + 1
        BY <3>3
      <4>2. f[i] = G!Inserted(f[i - 1], a[i][1], a[i][2])
        BY <2>1, <3>3, <4>1 DEF Files
      <4>3. h[i] = f[i] /\ h[i - 1] = f[i - 1]
        BY <3>3, <4>1
      <4> HIDE DEF h
      <4> QED BY <3>3, <4>2, <4>3
    <3> QED BY <3>1, <3>2, <3>3
  <2>3. h = [i \in 0 .. k + 1 |-> h[i]]
    OBVIOUS
  <2> HIDE DEF h
  <2>4. h = [i \in 0 .. k + 1 |-> H(i)]
    <3> HIDE DEF H
    <3> QED BY <2>2, <2>3
  <2>5. Files(h, k + 1, g, a)
    BY <2>4, Zenon DEF Files
  <2> QED BY <2>5
<1> HIDE DEF P
<1>3. n \in P
  BY <1>1, <1>2, NatInduct
<1> QED BY <1>3 DEF P

\* GEOADD keeps an index and its trie in agreement.
LEMMA FilesFiled ==
  ASSUME NEW g, Filed(g), NEW n \in Nat, NEW a \in [1 .. n -> Pins \X Places], NEW f, Files(f, n, g, a)
  PROVE  Filed(f[n])
<1> DEFINE Q(k) == k <= n => Filed(f[k])
           P == {k \in Nat : Q(k)}
<1>1. Q(0)
  <2>1. 0 \in 0 .. n
    OBVIOUS
  <2>2. f[0] = g
    BY <2>1 DEF Files
  <2> QED BY <2>2
<1>2. ASSUME NEW k \in Nat, Q(k) PROVE Q(k + 1)
  <2> SUFFICES ASSUME k + 1 <= n PROVE Filed(f[k + 1])
    OBVIOUS
  <2>1. k + 1 \in 0 .. n /\ k + 1 \in 1 .. n /\ k + 1 # 0 /\ (k + 1) - 1 = k /\ k <= n
    OBVIOUS
  <2>2. f[k + 1] = G!Inserted(f[k], a[k + 1][1], a[k + 1][2])
    BY <2>1 DEF Files
  <2>3. a[k + 1][1] \in Pins /\ a[k + 1][2] \in Places
    BY <2>1
  <2> QED BY <1>2, <2>1, <2>2, <2>3, InsertedFiled
<1> HIDE DEF Q
<1>3. 0 \in P /\ \A k \in Nat : k \in P => k + 1 \in P
  BY <1>1, <1>2
<1>4. n \in P
  <2> HIDE DEF P
  <2> QED BY <1>3, NatInduct
<1>5. Q(n)
  BY <1>4
<1> QED BY <1>5 DEF Q

\* The invariant of the index.
GeoInv == Filed([trie |-> trie, index |-> index])

\* The agreement is the property.
LEMMA GeoIs == GeoInv <=> G!AddedIsListed
<1>1. PICK g : g = [trie |-> trie, index |-> index]
  OBVIOUS
<1>2. g.trie = trie /\ g.index = index
  BY <1>1
<1> QED BY <1>1, <1>2, Zenon DEF GeoInv, Filed, G!AddedIsListed, G!TypeOK, G!Geosearch

\* An index of nobody agrees with a trie of nobody.
LEMMA GeoOfNone ==
  ASSUME trie = G!NewTrie, index = G!NewIndex
  PROVE  GeoInv
<1>1. <<>> \in Seq(Pins)
  OBVIOUS
<1>2. trie \in [G!Paths -> Seq(Pins)] /\ index \in [Pins -> Places \cup {G!Nowhere}]
  BY <1>1, Zenon DEF G!NewTrie, G!NewIndex
<1>3. \A m \in Pins : index[m] = G!Nowhere
  BY Zenon DEF G!NewIndex
<1>4. \A p \in G!Paths : G!ToSet(trie[p]) = {}
  <2>1. \A p \in G!Paths : trie[p] = <<>>
    BY Zenon DEF G!NewTrie
  <2>2. G!ToSet(<<>>) = {}
    BY DEF G!ToSet
  <2> QED BY <2>1, <2>2, Zenon
<1>5. G!AddedIsListed
  BY <1>2, <1>3, <1>4, Zenon DEF G!AddedIsListed, G!TypeOK
<1> QED BY <1>5, GeoIs

\* GEOADD keeps the invariant.
LEMMA GeoaddOK == ASSUME GeoInv, G!Geoadd PROVE GeoInv'
<1>1. PICK n \in 1 .. MaxGeoadd : \E a \in [1 .. n -> Pins \X Places] :
        LET after[i \in 0 .. n] ==
              IF i = 0 THEN [trie |-> trie, index |-> index]
              ELSE G!Inserted(after[i - 1], a[i][1], a[i][2])
        IN  trie' = after[n].trie /\ index' = after[n].index
  BY Zenon DEF G!Geoadd
<1>2. PICK a \in [1 .. n -> Pins \X Places] :
        /\ trie' = (CHOOSE r : Files(r, n, [trie |-> trie, index |-> index], a))[n].trie
        /\ index' = (CHOOSE r : Files(r, n, [trie |-> trie, index |-> index], a))[n].index
  BY <1>1, Zenon DEF Files
<1>3. PICK g : g = [trie |-> trie, index |-> index]
  OBVIOUS
<1>4. PICK f : f = CHOOSE r : Files(r, n, g, a)
  OBVIOUS
<1>5. n \in Nat
  OBVIOUS
<1>6. Files(f, n, g, a)
  BY <1>4, <1>5, FilesExists, Zenon
<1>7. Filed(f[n])
  BY <1>3, <1>5, <1>6, FilesFiled DEF GeoInv
<1>8. PICK h : h = [trie |-> f[n].trie, index |-> f[n].index]
  OBVIOUS
<1>9. h.trie = f[n].trie /\ h.index = f[n].index
  BY <1>8
<1>10. Filed(h)
  BY <1>7, <1>9, Zenon DEF Filed
<1>11. [trie |-> trie, index |-> index]' = h
  BY <1>2, <1>3, <1>4, <1>8, Zenon
<1> QED BY <1>10, <1>11, Zenon DEF GeoInv, Filed

-----------------------------------------------------------------------------
\* What was added is found: the filter and the index together.
FoundInv == BloomInv /\ GeoInv

\* The first state has an empty filter and an empty index.
LEMMA FoundInit == Init => FoundInv
<1> SUFFICES ASSUME Init PROVE FoundInv
  OBVIOUS
<1>1. bloom = B!NoFilter /\ put = {} /\ trie = G!NewTrie /\ index = G!NewIndex
  BY Zenon DEF Init, B!Init, G!Init
<1> QED BY <1>1, BloomOfNone, GeoOfNone DEF FoundInv

\* A value that is dropped leaves the filter of no bits.
LEMMA BloomCleared == B!Clear => BloomInv'
<1> SUFFICES ASSUME B!Clear PROVE BloomInv'
  OBVIOUS
<1>1. (bloom = B!NoFilter)' /\ (put = {})'
  BY Zenon DEF B!Clear, B!NoFilter
<1> QED BY <1>1, BloomOfNone, PTL

\* A value that is dropped leaves the empty index.
LEMMA GeoCleared == G!Clear => GeoInv'
<1> SUFFICES ASSUME G!Clear PROVE GeoInv'
  OBVIOUS
<1>1. (trie = G!NewTrie)' /\ (index = G!NewIndex)'
  BY Zenon DEF G!Clear, G!NewTrie, G!NewIndex
<1> QED BY <1>1, GeoOfNone, PTL

\* A command that leaves the filter alone keeps its invariant.
LEMMA BloomKept == BloomInv /\ UNCHANGED bits => BloomInv'
BY Zenon DEF bits, BloomInv, B!AddedExists, B!Exists, B!TypeOK, B!Bits

\* A command that leaves the index alone keeps its invariant.
LEMMA GeoKept == GeoInv /\ UNCHANGED geo => GeoInv'
BY Zenon DEF geo, GeoInv, Filed

\* Every action keeps both: most of them leave them alone or start them anew.
LEMMA FoundStep == FoundInv /\ [Next]_vars => FoundInv'
<1> SUFFICES ASSUME BloomInv, GeoInv, [Next]_vars PROVE BloomInv' /\ GeoInv'
  BY DEF FoundInv
<1> USE BloomCleared, BloomKept, GeoCleared, GeoKept
<1>1. CASE SetCmd
  BY <1>1, Zenon DEF SetCmd, Dropped
<1>2. CASE DelCmd
  BY <1>2, Zenon DEF DelCmd, Dropped
<1>3. CASE AssertionFails
  BY <1>3, Zenon DEF AssertionFails, Dropped
<1>4. CASE GeohashOfNoKey
  BY <1>4, Zenon DEF GeohashOfNoKey, Dropped
<1>5. CASE GeoaddCutShort
  BY <1>5, Zenon DEF GeoaddCutShort, Dropped
<1>6. CASE LpushCmd
  BY <1>6, Zenon DEF LpushCmd, OnlyList
<1>7. CASE RpushCmd
  BY <1>7, Zenon DEF RpushCmd, OnlyList
<1>8. CASE LlenCmd
  BY <1>8, Zenon DEF LlenCmd, OnlyList
<1>9. CASE \E n \in Counts : LpopCmd(n)
  BY <1>9, Zenon DEF LpopCmd, OnlyList
<1>10. CASE \E i, j \in Indices : LrangeCmd(i, j)
  BY <1>10, Zenon DEF LrangeCmd, OnlyList
<1>11. CASE \E m \in Members, sc \in Scores : ZaddCmd(m, sc)
  BY <1>11, Zenon DEF ZaddCmd, OnlyZset
<1>12. CASE \E m \in Members : ZremCmd(m)
  BY <1>12, Zenon DEF ZremCmd, OnlyZset
<1>13. CASE SaddCmd
  BY <1>13, Zenon DEF SaddCmd, OnlySet
<1>14. CASE SremCmd
  BY <1>14, Zenon DEF SremCmd, OnlySet
<1>15. CASE \E s \in Shapes : BfReserveCmd(s)
  BY <1>15, ReserveOK, Zenon DEF BfReserveCmd, Dropped
<1>16. CASE \E x \in Items : BfAddCmd(x)
  BY <1>16, AddOK, Zenon DEF BfAddCmd, Dropped, OnlyBits
<1>17. CASE GeoaddCmd
  BY <1>17, GeoaddOK, Zenon DEF GeoaddCmd, OnlyGeo
<1>18. CASE UNCHANGED vars
  BY <1>18, Zenon DEF vars
<1> QED BY <1>1, <1>2, <1>3, <1>4, <1>5, <1>6, <1>7, <1>8, <1>9, <1>10, <1>11, <1>12, <1>13,
           <1>14, <1>15, <1>16, <1>17, <1>18, Zenon DEF Next

\* BF.EXISTS finds every item that was added since its filter was reserved, for all
\* hashes and shapes, and GEOSEARCH at the place of a member lists it, however often
\* it moved: no bit is lost or out of the words there are, and no member is filed
\* in another leaf than its entry's.
THEOREM AddedAreFound == Spec => []AddedIsFound
<1>1. Init => FoundInv
  BY FoundInit
<1>2. FoundInv /\ [Next]_vars => FoundInv'
  BY FoundStep
<1>3. FoundInv => AddedIsFound
  BY GeoIs DEF FoundInv, AddedIsFound, BloomInv
<1> QED BY <1>1, <1>2, <1>3, PTL DEF Spec

-----------------------------------------------------------------------------
\* Who is in a sequence, and who is in it before whom.
In(s, y)     == \E j \in 1 .. Len(s) : s[j] = y
Bef(s, y, z) == \E j, k \in 1 .. Len(s) : j < k /\ s[j] = y /\ s[k] = z

\* The elements of s that are in A are the first b.
SplitAt(s, A, b) == b \in 0 .. Len(s) /\ \A j \in 1 .. Len(s) : s[j] \in A <=> j <= b

\* One put in after b, and one taken out at p.
InsertsAt(S, s, b, x, e) ==
  /\ e \in Seq(S) /\ Len(e) = Len(s) + 1
  /\ \A j \in 1 .. b : e[j] = s[j]
  /\ e[b + 1] = x
  /\ \A j \in b + 1 .. Len(s) : e[j + 1] = s[j]
RemovesAt(S, s, p, e) ==
  /\ e \in Seq(S) /\ Len(e) = Len(s) - 1
  /\ \A j \in 1 .. p - 1 : e[j] = s[j]
  /\ \A j \in p .. Len(s) - 1 : e[j] = s[j + 1]

\* What InsertAt of the community modules gives.
LEMMA InsertedOne ==
  ASSUME NEW S, NEW s \in Seq(S), NEW b \in 0 .. Len(s), NEW x \in S
  PROVE  InsertsAt(S, s, b, x, Z!InsertAt(s, b + 1, x))
<1>1. PICK u : u = SubSeq(s, 1, b)
  OBVIOUS
<1>2. PICK y : y = <<x>>
  OBVIOUS
<1>3. PICK z : z = SubSeq(s, b + 1, Len(s))
  OBVIOUS
<1>4. PICK w : w = Cat(u, y)
  OBVIOUS
<1>5. PICK e : e = Cat(w, z)
  OBVIOUS
<1>6. PICK n \in Nat : n = Len(s)
  BY LenProperties
<1>7. u \in Seq(S) /\ Len(u) = b /\ \A j \in 1 .. b : u[j] = s[j]
  BY <1>1, FirstOnes, Zenon
<1>8. y \in Seq(S) /\ Len(y) = 1 /\ y[1] = x
  BY <1>2
<1>9. z \in Seq(S) /\ Len(z) = n - b /\ \A j \in 1 .. n - b : z[j] = s[b + j]
  BY <1>3, <1>6, LastOnes, Zenon
<1>10. b \in Nat /\ b + 1 \in Nat /\ n - b \in Nat /\ b \in 0 .. n
  BY <1>6
<1>11. /\ w \in Seq(S) /\ Len(w) = b + 1
       /\ \A j \in 1 .. b : w[j] = u[j]
       /\ \A j \in 1 .. 1 : w[b + j] = y[j]
  <2>1. Joins(S, w, u, y)
    <3>1. u \in Seq(S) /\ y \in Seq(S)
      BY <1>7, <1>8
    <3> QED BY <1>4, <3>1, Joined
  <2> QED BY <1>7, <1>8, <2>1 DEF Joins
<1>12. /\ e \in Seq(S) /\ Len(e) = (b + 1) + (n - b)
       /\ \A j \in 1 .. b + 1 : e[j] = w[j]
       /\ \A j \in 1 .. n - b : e[(b + 1) + j] = z[j]
  <2>1. Joins(S, e, w, z)
    <3>1. w \in Seq(S) /\ z \in Seq(S)
      BY <1>9, <1>11
    <3> QED BY <1>5, <3>1, Joined
  <2> QED BY <1>9, <1>11, <2>1 DEF Joins
<1>13. Len(e) = n + 1
  BY <1>10, <1>12
<1>14. ASSUME NEW j \in 1 .. b PROVE e[j] = s[j]
  <2>1. j \in 1 .. b + 1
    BY <1>10
  <2> QED BY <1>7, <1>11, <1>12, <2>1
<1>15. e[b + 1] = x
  <2>1. 1 \in 1 .. 1 /\ b + 1 \in 1 .. b + 1
    BY <1>10
  <2> QED BY <1>8, <1>11, <1>12, <2>1
<1>16. ASSUME NEW j \in b + 1 .. n PROVE e[j + 1] = s[j]
  <2>1. j - b \in 1 .. n - b /\ (b + 1) + (j - b) = j + 1 /\ b + (j - b) = j
    BY <1>10
  <2>2. z[j - b] = s[j] /\ e[j + 1] = z[j - b]
    BY <1>9, <1>12, <2>1, Zenon
  <2> QED BY <2>2
<1>17. (b + 1) - 1 = b
  BY <1>10
<1>18. Z!InsertAt(s, b + 1, x) = e
  BY <1>1, <1>2, <1>3, <1>4, <1>5, <1>17, Zenon DEF Cat, Z!InsertAt
<1> QED BY <1>6, <1>12, <1>13, <1>14, <1>15, <1>16, <1>18, Zenon DEF InsertsAt

\* What RemoveAt gives.
LEMMA RemovedOne ==
  ASSUME NEW S, NEW s \in Seq(S), NEW p \in 1 .. Len(s)
  PROVE  RemovesAt(S, s, p, Z!RemoveAt(s, p))
<1>6. PICK n \in Nat : n = Len(s)
  BY LenProperties
<1>7. PICK b : b = p - 1
  OBVIOUS
<1>8. b \in 0 .. n - 1 /\ p = b + 1 /\ p \in 0 .. Len(s) /\ b \in 0 .. Len(s)
  BY <1>6, <1>7
<1>1. PICK u : u = SubSeq(s, 1, b)
  OBVIOUS
<1>3. PICK z : z = SubSeq(s, p + 1, Len(s))
  OBVIOUS
<1>5. PICK e : e = Cat(u, z)
  OBVIOUS
<1>9. u \in Seq(S) /\ Len(u) = b /\ \A j \in 1 .. b : u[j] = s[j]
  BY <1>1, <1>8, FirstOnes, Zenon
<1>10. z \in Seq(S) /\ Len(z) = n - p /\ \A j \in 1 .. n - p : z[j] = s[p + j]
  BY <1>3, <1>6, <1>8, LastOnes, Zenon
<1>11. /\ e \in Seq(S) /\ Len(e) = b + (n - p)
       /\ \A j \in 1 .. b : e[j] = u[j]
       /\ \A j \in 1 .. n - p : e[b + j] = z[j]
  <2>1. Joins(S, e, u, z)
    <3>1. u \in Seq(S) /\ z \in Seq(S)
      BY <1>9, <1>10
    <3> QED BY <1>5, <3>1, Joined
  <2> QED BY <1>9, <1>10, <2>1 DEF Joins
<1>12. Len(e) = n - 1
  BY <1>6, <1>8, <1>11
<1>13. ASSUME NEW j \in 1 .. b PROVE e[j] = s[j]
  BY <1>9, <1>11, Zenon
<1>14. ASSUME NEW j \in p .. n - 1 PROVE e[j] = s[j + 1]
  <2>1. j - b \in 1 .. n - p /\ b + (j - b) = j /\ p + (j - b) = j + 1
    BY <1>6, <1>8
  <2>2. z[j - b] = s[j + 1] /\ e[j] = z[j - b]
    BY <1>10, <1>11, <2>1, Zenon
  <2> QED BY <2>2
<1>15. Z!RemoveAt(s, p) = e
  BY <1>1, <1>3, <1>5, <1>7, Zenon DEF Cat, Z!RemoveAt
<1> QED BY <1>6, <1>7, <1>11, <1>12, <1>13, <1>14, <1>15, Zenon DEF RemovesAt

\* Order after an insertion behind the elements that are in A.
LEMMA InsertOrd ==
  ASSUME NEW S, NEW s \in Seq(S), NEW A, NEW b, SplitAt(s, A, b), NEW x \in S,
         NEW e, e = Z!InsertAt(s, b + 1, x)
  PROVE  /\ e \in Seq(S) /\ e # <<>>
         /\ \A y : In(e, y) <=> In(s, y) \/ y = x
         /\ \A y, z : Bef(e, y, z) <=> \/ Bef(s, y, z)
                                       \/ z = x /\ In(s, y) /\ y \in A
                                       \/ y = x /\ In(s, z) /\ z \notin A
<1>1. PICK n \in Nat : n = Len(s)
  BY LenProperties
<1>2. b \in 0 .. n /\ \A j \in 1 .. n : s[j] \in A <=> j <= b
  BY <1>1 DEF SplitAt
<1>3. InsertsAt(S, s, b, x, e)
  BY <1>1, <1>2, InsertedOne
<1>4. /\ e \in Seq(S) /\ Len(e) = n + 1
      /\ \A j \in 1 .. b : e[j] = s[j]
      /\ e[b + 1] = x
      /\ \A j \in b + 1 .. n : e[j + 1] = s[j]
  BY <1>1, <1>3 DEF InsertsAt
<1> DEFINE new(j) == IF j <= b THEN j ELSE j + 1
           old(j) == IF j <= b THEN j ELSE j - 1
<1>5. \A j \in 1 .. n : new(j) \in 1 .. n + 1 /\ new(j) # b + 1 /\ e[new(j)] = s[j]
  <2> TAKE j \in 1 .. n
  <2>1. CASE j <= b
    BY <1>2, <1>4, <2>1
  <2>2. CASE ~ (j <= b)
    <3>1. j \in b + 1 .. n
      BY <1>2, <2>2
    <3> QED BY <1>2, <1>4, <2>2, <3>1
  <2> QED BY <2>1, <2>2
<1>6. \A j \in 1 .. n + 1 : j # b + 1 => old(j) \in 1 .. n /\ e[j] = s[old(j)]
  <2> TAKE j \in 1 .. n + 1
  <2> HAVE j # b + 1
  <2>1. CASE j <= b
    BY <1>2, <1>4, <2>1
  <2>2. CASE ~ (j <= b)
    <3>1. j - 1 \in b + 1 .. n /\ (j - 1) + 1 = j /\ j - 1 \in 1 .. n
      BY <1>2, <2>2
    <3>2. e[(j - 1) + 1] = s[j - 1]
      BY <1>4, <3>1, Zenon
    <3> QED BY <2>2, <3>1, <3>2
  <2> QED BY <2>1, <2>2
<1>7. \A j, k \in 1 .. n : j < k => new(j) < new(k)
  BY <1>2
<1>8. \A j, k \in 1 .. n + 1 : j < k /\ j # b + 1 /\ k # b + 1 => old(j) < old(k)
  BY <1>2
<1>9. \A j \in 1 .. n : new(j) < b + 1 <=> j <= b
  BY <1>2
<1>10. \A j \in 1 .. n + 1 : j # b + 1 => (old(j) <= b <=> j < b + 1)
  BY <1>2
<1>11. b + 1 \in 1 .. n + 1
  BY <1>2
<1>20. \A j \in 1 .. n + 1 : j \in Int
  OBVIOUS
<1>21. b + 1 \in Int /\ b \in Int
  BY <1>2
<1> HIDE DEF new, old
<1>12. ASSUME NEW y PROVE In(e, y) <=> In(s, y) \/ y = x
  <2>1. ASSUME In(s, y) PROVE In(e, y)
    <3>1. PICK j \in 1 .. n : s[j] = y
      BY <1>1, <2>1 DEF In
    <3>2. new(j) \in 1 .. n + 1 /\ e[new(j)] = y
      BY <1>5, <3>1, Zenon
    <3> QED BY <1>4, <3>2 DEF In
  <2>2. In(e, x)
    BY <1>4, <1>11 DEF In
  <2>3. ASSUME In(e, y), y # x PROVE In(s, y)
    <3>1. PICK j \in 1 .. n + 1 : e[j] = y
      BY <1>4, <2>3 DEF In
    <3>2. old(j) \in 1 .. n /\ s[old(j)] = y
      BY <1>4, <1>6, <2>3, <3>1
    <3> QED BY <1>1, <3>2 DEF In
  <2> QED BY <2>1, <2>2, <2>3
<1>13. ASSUME NEW y, NEW z, Bef(s, y, z) PROVE Bef(e, y, z)
  <2>1. PICK j \in 1 .. n, k \in 1 .. n : j < k /\ s[j] = y /\ s[k] = z
    BY <1>1, <1>13, Zenon DEF Bef
  <2>2. /\ new(j) \in 1 .. n + 1 /\ new(k) \in 1 .. n + 1 /\ new(j) < new(k)
        /\ e[new(j)] = y /\ e[new(k)] = z
    BY <1>5, <1>7, <2>1, Zenon
  <2> QED BY <1>4, <2>2, Zenon DEF Bef
<1>14. ASSUME NEW y, In(s, y), y \in A PROVE Bef(e, y, x)
  <2>1. PICK j \in 1 .. n : s[j] = y
    BY <1>1, <1>14 DEF In
  <2>2. new(j) \in 1 .. n + 1 /\ e[new(j)] = y /\ new(j) < b + 1
    BY <1>2, <1>5, <1>9, <1>14, <2>1
  <2> QED BY <1>4, <1>11, <2>2 DEF Bef
<1>15. ASSUME NEW z, In(s, z), z \notin A PROVE Bef(e, x, z)
  <2>1. PICK j \in 1 .. n : s[j] = z
    BY <1>1, <1>15 DEF In
  <2>2. new(j) \in 1 .. n + 1 /\ e[new(j)] = z /\ ~ (new(j) < b + 1) /\ new(j) # b + 1
    BY <1>2, <1>5, <1>9, <1>15, <2>1
  <2>3. b + 1 < new(j)
    BY <1>20, <1>21, <2>2
  <2> QED BY <1>4, <1>11, <2>2, <2>3 DEF Bef
<1>16. ASSUME NEW y, NEW z, Bef(e, y, z)
       PROVE  \/ Bef(s, y, z)
              \/ z = x /\ In(s, y) /\ y \in A
              \/ y = x /\ In(s, z) /\ z \notin A
  <2>1. PICK j \in 1 .. n + 1, k \in 1 .. n + 1 : j < k /\ e[j] = y /\ e[k] = z
    BY <1>4, <1>16 DEF Bef
  <2>2. CASE k = b + 1
    <3>1. j # b + 1 /\ j < b + 1 /\ z = x
      BY <1>4, <1>21, <2>1, <2>2
    <3>2. old(j) \in 1 .. n /\ y = s[old(j)] /\ old(j) <= b
      BY <1>6, <1>10, <2>1, <3>1
    <3> QED BY <1>1, <1>2, <3>1, <3>2 DEF In
  <2>3. CASE j = b + 1
    <3>1. k # b + 1 /\ ~ (k < b + 1) /\ y = x
      BY <1>4, <1>21, <2>1, <2>3
    <3>2. old(k) \in 1 .. n /\ z = s[old(k)] /\ ~ (old(k) <= b)
      BY <1>6, <1>10, <2>1, <3>1
    <3> QED BY <1>1, <1>2, <3>1, <3>2 DEF In
  <2>4. CASE j # b + 1 /\ k # b + 1
    <3>1. old(j) \in 1 .. n /\ old(k) \in 1 .. n /\ old(j) < old(k) /\ s[old(j)] = y /\ s[old(k)] = z
      BY <1>6, <1>8, <2>1, <2>4
    <3> QED BY <1>1, <3>1 DEF Bef
  <2> QED BY <2>2, <2>3, <2>4
<1>17. e # <<>>
  BY <1>4
<1> QED BY <1>4, <1>12, <1>13, <1>14, <1>15, <1>16, <1>17, Zenon

\* Order after the only occurrence of an element was taken out.
LEMMA RemoveOrd ==
  ASSUME NEW S, NEW s \in Seq(S), \A y : ~ Bef(s, y, y), NEW p \in 1 .. Len(s), NEW x, x = s[p],
         NEW e, e = Z!RemoveAt(s, p)
  PROVE  /\ e \in Seq(S)
         /\ \A y : In(e, y) <=> In(s, y) /\ y # x
         /\ \A y, z : Bef(e, y, z) <=> Bef(s, y, z) /\ y # x /\ z # x
<1>1. PICK n \in Nat : n = Len(s)
  BY LenProperties
<1>2. p \in 1 .. n
  BY <1>1
<1>3. RemovesAt(S, s, p, e)
  BY RemovedOne
<1>4. /\ e \in Seq(S) /\ Len(e) = n - 1
      /\ \A j \in 1 .. p - 1 : e[j] = s[j]
      /\ \A j \in p .. n - 1 : e[j] = s[j + 1]
  BY <1>1, <1>3 DEF RemovesAt
<1> DEFINE new(j) == IF j < p THEN j ELSE j - 1
           old(j) == IF j < p THEN j ELSE j + 1
<1>5. \A j \in 1 .. n : j # p => new(j) \in 1 .. n - 1 /\ e[new(j)] = s[j]
  <2> TAKE j \in 1 .. n
  <2> HAVE j # p
  <2>1. CASE j < p
    <3>1. j \in 1 .. p - 1
      BY <1>2, <2>1
    <3> QED BY <1>2, <1>4, <2>1, <3>1
  <2>2. CASE ~ (j < p)
    <3>1. j - 1 \in p .. n - 1 /\ (j - 1) + 1 = j /\ j - 1 \in 1 .. n - 1
      BY <1>2, <2>2
    <3>2. e[j - 1] = s[(j - 1) + 1]
      BY <1>4, <3>1, Zenon
    <3> QED BY <2>2, <3>1, <3>2
  <2> QED BY <2>1, <2>2
<1>6. \A j \in 1 .. n - 1 : old(j) \in 1 .. n /\ old(j) # p /\ e[j] = s[old(j)]
  <2> TAKE j \in 1 .. n - 1
  <2>1. CASE j < p
    <3>1. j \in 1 .. p - 1
      BY <1>2, <2>1
    <3> QED BY <1>2, <1>4, <2>1, <3>1
  <2>2. CASE ~ (j < p)
    <3>1. j \in p .. n - 1
      BY <1>2, <2>2
    <3> QED BY <1>2, <1>4, <2>2, <3>1
  <2> QED BY <2>1, <2>2
<1>7. \A j, k \in 1 .. n : j < k /\ j # p /\ k # p => new(j) < new(k)
  BY <1>2
<1>8. \A j, k \in 1 .. n - 1 : j < k => old(j) < old(k)
  BY <1>2
<1> HIDE DEF new, old
<1>9. \A j \in 1 .. n : s[j] = x <=> j = p
  <2> TAKE j \in 1 .. n
  <2>1. j < p => s[j] # x
    BY <1>1, <1>2 DEF Bef
  <2>2. p < j => s[j] # x
    BY <1>1, <1>2 DEF Bef
  <2> QED BY <1>2, <2>1, <2>2
<1>10. ASSUME NEW y PROVE In(e, y) <=> In(s, y) /\ y # x
  <2>1. ASSUME In(s, y), y # x PROVE In(e, y)
    <3>1. PICK j \in 1 .. n : s[j] = y
      BY <1>1, <2>1, Zenon DEF In
    <3>2. j # p
      BY <1>9, <2>1, <3>1
    <3>3. new(j) \in 1 .. n - 1 /\ e[new(j)] = y
      BY <1>5, <3>1, <3>2, Zenon
    <3> QED BY <1>4, <3>3, Zenon DEF In
  <2>2. ASSUME In(e, y) PROVE In(s, y) /\ y # x
    <3>1. PICK j \in 1 .. n - 1 : e[j] = y
      BY <1>4, <2>2, Zenon DEF In
    <3>2. old(j) \in 1 .. n /\ old(j) # p /\ s[old(j)] = y
      BY <1>6, <3>1, Zenon
    <3>3. In(s, y)
      BY <1>1, <3>2, Zenon DEF In
    <3> QED BY <1>9, <3>2, <3>3
  <2> QED BY <2>1, <2>2
<1>11. ASSUME NEW y, NEW z, Bef(s, y, z), y # x, z # x PROVE Bef(e, y, z)
  <2>1. PICK j \in 1 .. n, k \in 1 .. n : j < k /\ s[j] = y /\ s[k] = z
    BY <1>1, <1>11 DEF Bef
  <2>2. new(j) \in 1 .. n - 1 /\ new(k) \in 1 .. n - 1 /\ new(j) < new(k) /\ e[new(j)] = y /\ e[new(k)] = z
    BY <1>5, <1>7, <1>9, <1>11, <2>1
  <2> QED BY <1>4, <2>2 DEF Bef
<1>12. ASSUME NEW y, NEW z, Bef(e, y, z) PROVE Bef(s, y, z) /\ y # x /\ z # x
  <2>1. PICK j \in 1 .. n - 1, k \in 1 .. n - 1 : j < k /\ e[j] = y /\ e[k] = z
    BY <1>4, <1>12 DEF Bef
  <2>2. old(j) \in 1 .. n /\ old(k) \in 1 .. n /\ old(j) < old(k) /\ s[old(j)] = y /\ s[old(k)] = z
        /\ old(j) # p /\ old(k) # p
    BY <1>6, <1>8, <2>1
  <2> QED BY <1>1, <1>9, <2>2 DEF Bef
<1> QED BY <1>4, <1>10, <1>11, <1>12, Zenon

-----------------------------------------------------------------------------
\* Where a walk from s over c stops: behind nodes that are ahead, before one that is not.
StopsAt(c, s, A, j) ==
  /\ j \in s .. Len(c)
  /\ \A k \in s + 1 .. j : c[k] \in A
  /\ j = Len(c) \/ c[j + 1] \notin A

\* It stops somewhere.
LEMMA StopIs ==
  ASSUME NEW S, NEW c \in Seq(S), NEW s \in 0 .. Len(c), NEW A
  PROVE  StopsAt(c, s, A, Z!Stop(c, s, A))
<1>1. PICK n \in Nat : n = Len(c)
  BY LenProperties
<1>2. s \in 0 .. n /\ s \in Nat
  BY <1>1
<1> DEFINE P == {j \in Nat : j \in s .. n /\ (j = n \/ c[j + 1] \notin A)}
<1>3. n \in P
  BY <1>2
<1>4. PICK j \in P : \A k \in P : j <= k
  <2>1. P \in SUBSET Nat /\ P # {}
    BY <1>3
  <2> HIDE DEF P
  <2> QED BY <2>1, NatLeast
<1>5. j \in s .. n /\ (j = n \/ c[j + 1] \notin A)
  BY <1>4
<1>6. ASSUME NEW k \in s + 1 .. j PROVE c[k] \in A
  <2>1. k - 1 \in Nat /\ k - 1 \in s .. n /\ k - 1 # n /\ (k - 1) + 1 = k /\ ~ (j <= k - 1)
    BY <1>2, <1>5
  <2>2. k - 1 \notin P
    <3> HIDE DEF P
    <3> QED BY <1>4, <2>1
  <2> QED BY <2>1, <2>2
<1> HIDE DEF P
<1>7. StopsAt(c, s, A, j)
  BY <1>1, <1>5, <1>6 DEF StopsAt
<1>8. PICK w : w = Z!Stop(c, s, A)
  OBVIOUS
<1>9. w = CHOOSE i \in s .. Len(c) :
            /\ \A k \in s + 1 .. i : c[k] \in A
            /\ i = Len(c) \/ c[i + 1] \notin A
  BY <1>8, Zenon DEF Z!Stop
<1>10. \E i \in s .. Len(c) :
            /\ \A k \in s + 1 .. i : c[k] \in A
            /\ i = Len(c) \/ c[i + 1] \notin A
  BY <1>7, Zenon DEF StopsAt
<1>11. /\ w \in s .. Len(c)
       /\ \A k \in s + 1 .. w : c[k] \in A
       /\ w = Len(c) \/ c[w + 1] \notin A
  BY <1>9, <1>10, Zenon
<1> QED BY <1>8, <1>11, Zenon DEF StopsAt

\* The levels of a skiplist: each part of the one below, in its order, no node twice.
Nested(ch) ==
  /\ ch \in [Z!Levels -> Seq(Z!Nodes)]
  /\ \A i \in Z!Levels : i # 0 => \A y : In(ch[i], y) => In(ch[i - 1], y)
  /\ \A i \in Z!Levels : i # 0 => \A y, z : Bef(ch[i], y, z) => Bef(ch[i - 1], y, z)
  /\ \A i \in Z!Levels : \A y : ~ Bef(ch[i], y, y)

\* Down a level, at the same node.
LEMMA BelowIs ==
  ASSUME NEW ch, Nested(ch), NEW i \in Z!Levels, i # 0, NEW j \in 0 .. Len(ch[i])
  PROVE  /\ Z!Below(ch, i, j) \in 0 .. Len(ch[i - 1])
         /\ j = 0 => Z!Below(ch, i, j) = 0
         /\ j # 0 => Z!Below(ch, i, j) # 0 /\ ch[i - 1][Z!Below(ch, i, j)] = ch[i][j]
<1>0. i \in Nat /\ i - 1 \in Z!Levels /\ MaxLvl \in Nat
  BY ConstantsAssumption DEF Z!ConstantsFit, Z!Levels
<1>1. ch[i] \in Seq(Z!Nodes) /\ ch[i - 1] \in Seq(Z!Nodes)
  BY <1>0 DEF Nested
<1>2. PICK n \in Nat, m \in Nat : n = Len(ch[i]) /\ m = Len(ch[i - 1])
  BY <1>1, LenProperties
<1>3. CASE j = 0
  <2>1. Z!Below(ch, i, j) = 0
    BY <1>3 DEF Z!Below
  <2> QED BY <1>2, <1>3, <2>1
<1>4. CASE j # 0
  <2>1. j \in 1 .. n
    BY <1>2, <1>4
  <2>2. In(ch[i], ch[i][j])
    BY <1>2, <2>1 DEF In
  <2>3. In(ch[i - 1], ch[i][j])
    BY <2>2 DEF Nested
  <2>4. \E k \in 1 .. Len(ch[i - 1]) : ch[i - 1][k] = ch[i][j]
    BY <2>3, Zenon DEF In
  <2>5. Z!Below(ch, i, j) = CHOOSE k \in 1 .. Len(ch[i - 1]) : ch[i - 1][k] = ch[i][j]
    BY <1>4, Zenon DEF Z!Below
  <2>6. PICK k : k = Z!Below(ch, i, j)
    OBVIOUS
  <2>7. k \in 1 .. Len(ch[i - 1]) /\ ch[i - 1][k] = ch[i][j]
    BY <2>4, <2>5, <2>6, Zenon
  <2>8. k \in 0 .. Len(ch[i - 1]) /\ k # 0
    BY <1>2, <2>7
  <2> QED BY <1>4, <2>6, <2>7, <2>8
<1> QED BY <1>3, <1>4

\* Where the walk starts on level i, and what it finds there.
StartAt(ch, top, u, i) == IF i = top THEN 0 ELSE Z!Below(ch, i + 1, u[i + 1])
WalkAt(ch, top, A, u, i) == IF i > top THEN 0 ELSE Z!Stop(ch[i], StartAt(ch, top, u, i), A)
Walk(ch, top, A, u) == u = [i \in Z!Levels |-> WalkAt(ch, top, A, u, i)]

\* The walk down from level i gives positions of the levels.
LEMMA WalkFits ==
  ASSUME NEW ch, Nested(ch), NEW top \in Z!Levels, NEW A, NEW u, NEW i \in Z!Levels,
         i < top => u[i + 1] \in 0 .. Len(ch[i + 1])
  PROVE  /\ WalkAt(ch, top, A, u, i) \in 0 .. Len(ch[i])
         /\ i <= top => StartAt(ch, top, u, i) \in 0 .. Len(ch[i])
<1>0. i \in Nat /\ top \in Nat /\ MaxLvl \in Nat /\ i <= MaxLvl /\ top <= MaxLvl
  BY ConstantsAssumption DEF Z!ConstantsFit, Z!Levels
<1>1. ch[i] \in Seq(Z!Nodes)
  BY DEF Nested
<1>2. PICK n \in Nat : n = Len(ch[i])
  BY <1>1, LenProperties
<1>3. CASE i > top
  <2>1. WalkAt(ch, top, A, u, i) = 0
    BY <1>3, Zenon DEF WalkAt
  <2>2. ~ (i <= top)
    BY <1>0, <1>3
  <2> QED BY <1>2, <2>1, <2>2
<1>4. CASE ~ (i > top)
  <2>1. WalkAt(ch, top, A, u, i) = Z!Stop(ch[i], StartAt(ch, top, u, i), A)
    BY <1>4, Zenon DEF WalkAt
  <2>2. StartAt(ch, top, u, i) \in 0 .. Len(ch[i])
    <3>1. CASE i = top
      <4>1. StartAt(ch, top, u, i) = 0
        BY <3>1, Zenon DEF StartAt
      <4> QED BY <1>2, <4>1
    <3>2. CASE i # top
      <4>1. i + 1 \in Z!Levels /\ i + 1 # 0 /\ (i + 1) - 1 = i /\ i < top
        BY <1>0, <1>4, <3>2 DEF Z!Levels
      <4>2. Z!Below(ch, i + 1, u[i + 1]) \in 0 .. Len(ch[(i + 1) - 1])
        BY <4>1, BelowIs
      <4>3. StartAt(ch, top, u, i) = Z!Below(ch, i + 1, u[i + 1])
        BY <3>2, Zenon DEF StartAt
      <4> QED BY <4>1, <4>2, <4>3
    <3> QED BY <3>1, <3>2
  <2>3. PICK s : s = StartAt(ch, top, u, i)
    OBVIOUS
  <2>4. PICK w : w = WalkAt(ch, top, A, u, i)
    OBVIOUS
  <2>5. s \in 0 .. Len(ch[i])
    BY <2>2, <2>3
  <2>6. StopsAt(ch[i], s, A, Z!Stop(ch[i], s, A))
    BY <1>1, <2>5, StopIs
  <2>7. w \in s .. n
    BY <1>2, <2>1, <2>3, <2>4, <2>6 DEF StopsAt
  <2> QED BY <1>2, <2>2, <2>4, <2>5, <2>7
<1> QED BY <1>3, <1>4

\* There is a walk: one level more is one step more.
LEMMA WalkExists ==
  ASSUME NEW ch, Nested(ch), NEW top \in Z!Levels, NEW A
  PROVE  \E u : Walk(ch, top, A, u) /\ \A i \in Z!Levels : u[i] \in 0 .. Len(ch[i])
<1>0. top \in Nat /\ MaxLvl \in Nat /\ top <= MaxLvl /\ \A i : i \in Z!Levels <=> i \in Nat /\ i <= MaxLvl
  BY ConstantsAssumption DEF Z!ConstantsFit, Z!Levels
<1> DEFINE From(u, k) ==
             \A i \in Z!Levels : i >= k => u[i] = WalkAt(ch, top, A, u, i) /\ u[i] \in 0 .. Len(ch[i])
           P == {n \in Nat : \E u : u = [i \in Z!Levels |-> u[i]] /\ From(u, MaxLvl + 1 - n)}
<1>1. 0 \in P
  <2> DEFINE u == [i \in Z!Levels |-> 0]
  <2>1. u = [i \in Z!Levels |-> u[i]]
    OBVIOUS
  <2>2. \A i \in Z!Levels : ~ (i >= MaxLvl + 1 - 0)
    BY <1>0
  <2>3. From(u, MaxLvl + 1 - 0)
    BY <2>2
  <2> HIDE DEF u, From
  <2> QED BY <2>1, <2>3
<1>2. ASSUME NEW n \in Nat, n \in P PROVE n + 1 \in P
  <2>1. PICK u : u = [i \in Z!Levels |-> u[i]] /\ From(u, MaxLvl + 1 - n)
    BY <1>2
  <2>2. PICK k \in Int : k = MaxLvl + 1 - (n + 1) /\ k + 1 = MaxLvl + 1 - n
    BY <1>0
  <2> DEFINE w == [i \in Z!Levels |-> IF i = k THEN WalkAt(ch, top, A, u, k) ELSE u[i]]
  <2>3. w = [i \in Z!Levels |-> w[i]]
    OBVIOUS
  <2>4. \A i \in Z!Levels : i # k => w[i] = u[i]
    OBVIOUS
  <2>5. k \in Z!Levels => w[k] = WalkAt(ch, top, A, u, k)
    OBVIOUS
  <2> HIDE DEF w
  <2>6. ASSUME NEW i \in Z!Levels, i >= k, i < top PROVE i + 1 \in Z!Levels /\ w[i + 1] = u[i + 1]
    <3>1. i + 1 \in Z!Levels /\ i + 1 # k
      BY <1>0, <2>6
    <3> QED BY <2>4, <3>1
  <2>7. ASSUME NEW i \in Z!Levels, i >= k PROVE WalkAt(ch, top, A, w, i) = WalkAt(ch, top, A, u, i)
    <3>1. CASE i > top
      BY <3>1, Zenon DEF WalkAt
    <3>2. CASE i = top
      BY <3>2, Zenon DEF WalkAt, StartAt
    <3>3. CASE i < top
      <4>1. w[i + 1] = u[i + 1]
        BY <2>6, <2>7, <3>3
      <4> QED BY <4>1, Zenon DEF WalkAt, StartAt
    <3> QED BY <1>0, <3>1, <3>2, <3>3
  <2>8. ASSUME NEW i \in Z!Levels, i >= k
        PROVE  w[i] = WalkAt(ch, top, A, w, i) /\ w[i] \in 0 .. Len(ch[i])
    <3>1. CASE i = k
      <4>1. i < top => u[i + 1] \in 0 .. Len(ch[i + 1])
        <5> SUFFICES ASSUME i < top PROVE u[i + 1] \in 0 .. Len(ch[i + 1])
          OBVIOUS
        <5>1. i + 1 \in Z!Levels /\ i + 1 >= MaxLvl + 1 - n
          BY <1>0, <2>2, <3>1
        <5> QED BY <2>1, <5>1
      <4> HIDE DEF From
      <4>2. WalkAt(ch, top, A, u, i) \in 0 .. Len(ch[i])
        BY <4>1, WalkFits
      <4>3. w[i] = WalkAt(ch, top, A, u, i)
        BY <2>5, <3>1
      <4> QED BY <2>7, <2>8, <4>2, <4>3
    <3>2. CASE i # k
      <4>1. i >= MaxLvl + 1 - n
        BY <1>0, <2>2, <2>8, <3>2
      <4>2. u[i] = WalkAt(ch, top, A, u, i) /\ u[i] \in 0 .. Len(ch[i])
        BY <2>1, <4>1
      <4> HIDE DEF From
      <4> QED BY <2>4, <2>7, <2>8, <3>2, <4>2
    <3> QED BY <3>1, <3>2
  <2>9. From(w, MaxLvl + 1 - (n + 1))
    BY <2>2, <2>8
  <2> HIDE DEF From
  <2> QED BY <2>3, <2>9
<1>3. MaxLvl + 1 \in P
  <2>1. MaxLvl + 1 \in Nat
    BY <1>0
  <2> HIDE DEF P
  <2> QED BY <1>1, <1>2, <2>1, NatInduct
<1>4. PICK u : u = [i \in Z!Levels |-> u[i]] /\ From(u, 0)
  <2>1. MaxLvl + 1 - (MaxLvl + 1) = 0
    BY <1>0
  <2> HIDE DEF From
  <2>2. \E u : u = [i \in Z!Levels |-> u[i]] /\ From(u, MaxLvl + 1 - (MaxLvl + 1))
    BY <1>3
  <2> QED BY <2>1, <2>2
<1>5. \A i \in Z!Levels : u[i] = WalkAt(ch, top, A, u, i) /\ u[i] \in 0 .. Len(ch[i])
  <2> TAKE i \in Z!Levels
  <2>1. i >= 0
    BY <1>0
  <2> QED BY <1>4, <2>1
<1> HIDE DEF From
<1>6. u = [i \in Z!Levels |-> WalkAt(ch, top, A, u, i)]
  BY <1>4, <1>5
<1>7. Walk(ch, top, A, u)
  BY <1>6, Zenon DEF Walk
<1> QED BY <1>5, <1>7

\* What a walk is on each level.
Walked(ch, top, A, u) ==
  /\ \A i \in Z!Levels : u[i] \in 0 .. Len(ch[i])
  /\ \A i \in Z!Levels : i > top => u[i] = 0
  /\ \A i \in Z!Levels : i <= top =>
       /\ StartAt(ch, top, u, i) \in 0 .. Len(ch[i])
       /\ StopsAt(ch[i], StartAt(ch, top, u, i), A, u[i])

\* The walk of the code is one.
LEMMA UpdatesIs ==
  ASSUME NEW ch, Nested(ch), NEW top \in Z!Levels, NEW A
  PROVE  Walked(ch, top, A, Z!Updates(ch, top, A))
<1>0. top \in Nat /\ MaxLvl \in Nat /\ top <= MaxLvl /\ \A i : i \in Z!Levels <=> i \in Nat /\ i <= MaxLvl
  BY ConstantsAssumption DEF Z!ConstantsFit, Z!Levels
<1>1. Z!Updates(ch, top, A) = CHOOSE r : Walk(ch, top, A, r)
  BY Zenon DEF Z!Updates, Walk, WalkAt, StartAt
<1>2. PICK w : Walk(ch, top, A, w)
  BY WalkExists
<1>3. PICK u : u = Z!Updates(ch, top, A)
  OBVIOUS
<1>4. Walk(ch, top, A, u)
  BY <1>1, <1>2, <1>3, Zenon
<1>5. \A i \in Z!Levels : u[i] = WalkAt(ch, top, A, u, i)
  BY <1>4 DEF Walk
<1> DEFINE Fits(i) == i \in Z!Levels => u[i] \in 0 .. Len(ch[i])
           P == {n \in Nat : Fits(MaxLvl - n)}
<1>6. 0 \in P
  <2>1. MaxLvl - 0 = MaxLvl /\ MaxLvl \in Z!Levels /\ ~ (MaxLvl < top)
    BY <1>0
  <2>2. u[MaxLvl] \in 0 .. Len(ch[MaxLvl])
    BY <1>5, <2>1, WalkFits
  <2> QED BY <2>1, <2>2
<1>7. ASSUME NEW n \in Nat, n \in P PROVE n + 1 \in P
  <2>1. PICK i : i = MaxLvl - (n + 1)
    OBVIOUS
  <2>2. i + 1 = MaxLvl - n /\ (i \in Z!Levels => i + 1 \in Z!Levels)
    BY <1>0, <2>1
  <2>3. Fits(i + 1)
    BY <1>7, <2>2
  <2>4. Fits(i)
    <3> SUFFICES ASSUME i \in Z!Levels PROVE u[i] \in 0 .. Len(ch[i])
      OBVIOUS
    <3>1. u[i + 1] \in 0 .. Len(ch[i + 1])
      BY <2>2, <2>3
    <3> HIDE DEF Fits
    <3>2. WalkAt(ch, top, A, u, i) \in 0 .. Len(ch[i])
      BY <3>1, WalkFits
    <3> QED BY <1>5, <3>2
  <2> HIDE DEF Fits
  <2> QED BY <2>1, <2>4
<1>8. \A n \in Nat : Fits(MaxLvl - n)
  <2> HIDE DEF Fits
  <2>1. 0 \in P /\ \A n \in Nat : n \in P => n + 1 \in P
    BY <1>6, <1>7
  <2>2. Nat \subseteq P
    <3> HIDE DEF P
    <3> QED BY <2>1, NatInduct
  <2> QED BY <2>2
<1>9. ASSUME NEW i \in Z!Levels PROVE u[i] \in 0 .. Len(ch[i])
  <2>1. MaxLvl - i \in Nat /\ MaxLvl - (MaxLvl - i) = i
    BY <1>0
  <2>2. Fits(i)
    <3> HIDE DEF Fits
    <3> QED BY <1>8, <2>1
  <2> QED BY <2>2
<1> HIDE DEF Fits
<1>10. ASSUME NEW i \in Z!Levels, i > top PROVE u[i] = 0
  BY <1>5, <1>10, Zenon DEF WalkAt
<1>11. ASSUME NEW i \in Z!Levels, i <= top
       PROVE  /\ StartAt(ch, top, u, i) \in 0 .. Len(ch[i])
              /\ StopsAt(ch[i], StartAt(ch, top, u, i), A, u[i])
  <2>1. i < top => i + 1 \in Z!Levels
    BY <1>0
  <2>2. i < top => u[i + 1] \in 0 .. Len(ch[i + 1])
    BY <1>9, <2>1
  <2>3. StartAt(ch, top, u, i) \in 0 .. Len(ch[i])
    BY <1>11, <2>2, WalkFits
  <2>4. ~ (i > top) /\ ch[i] \in Seq(Z!Nodes)
    BY <1>0, <1>11 DEF Nested
  <2>5. u[i] = Z!Stop(ch[i], StartAt(ch, top, u, i), A)
    BY <1>5, <2>4, Zenon DEF WalkAt
  <2>6. StopsAt(ch[i], StartAt(ch, top, u, i), A, Z!Stop(ch[i], StartAt(ch, top, u, i), A))
    BY <2>3, <2>4, StopIs
  <2> QED BY <2>3, <2>5, <2>6
<1> QED BY <1>3, <1>9, <1>10, <1>11, Zenon DEF Walked

-----------------------------------------------------------------------------
\* What the levels are numbered by.
LEMMA LevelsAre ==
  MaxLvl \in Nat /\ 0 \in Z!Levels /\ \A i : i \in Z!Levels <=> i \in Nat /\ i <= MaxLvl
BY ConstantsAssumption DEF Z!ConstantsFit, Z!Levels

\* Every level is part of the lowest one, in its order.
LEMMA OnLowest ==
  ASSUME NEW ch, Nested(ch), NEW i \in Z!Levels
  PROVE  /\ \A y : In(ch[i], y) => In(ch[0], y)
         /\ \A y, z : Bef(ch[i], y, z) => Bef(ch[0], y, z)
<1> DEFINE Part(n) == n \in Z!Levels => /\ \A y : In(ch[n], y) => In(ch[0], y)
                                        /\ \A y, z : Bef(ch[n], y, z) => Bef(ch[0], y, z)
           P == {n \in Nat : Part(n)}
<1>1. 0 \in P
  OBVIOUS
<1>2. ASSUME NEW n \in Nat, n \in P PROVE n + 1 \in P
  <2>1. n + 1 \in Z!Levels => n \in Z!Levels /\ n + 1 # 0 /\ (n + 1) - 1 = n
    BY LevelsAre
  <2>2. Part(n)
    BY <1>2
  <2>3. Part(n + 1)
    BY <2>1, <2>2 DEF Nested
  <2> HIDE DEF Part
  <2> QED BY <2>3
<1>3. i \in P
  <2>1. i \in Nat
    BY LevelsAre
  <2> HIDE DEF P
  <2> QED BY <1>1, <1>2, <2>1, NatInduct
<1> QED BY <1>3

\* In a sequence that lists nothing twice, elements tell positions.
LEMMA OncePlaces ==
  ASSUME NEW S, NEW d \in Seq(S), \A y : ~ Bef(d, y, y), NEW j \in 1 .. Len(d), NEW k \in 1 .. Len(d)
  PROVE  /\ d[j] = d[k] => j = k
         /\ Bef(d, d[j], d[k]) => j < k
<1>1. PICK n \in Nat : n = Len(d)
  BY LenProperties
<1>2. ASSUME NEW a \in 1 .. n, NEW b \in 1 .. n, d[a] = d[b] PROVE a = b
  <2>1. ~ (a < b) /\ ~ (b < a)
    BY <1>1, <1>2 DEF Bef
  <2> QED BY <2>1
<1>3. ASSUME Bef(d, d[j], d[k]) PROVE j < k
  <2>1. PICK a \in 1 .. n, b \in 1 .. n : a < b /\ d[a] = d[j] /\ d[b] = d[k]
    BY <1>1, <1>3 DEF Bef
  <2>2. a = j /\ b = k
    BY <1>1, <1>2, <2>1
  <2> QED BY <2>1, <2>2
<1> QED BY <1>1, <1>2, <1>3

\* The node a walk stops at on a level is ahead, whichever level it was found on.
LEMMA LastAhead ==
  ASSUME NEW ch, Nested(ch), NEW top \in Z!Levels, NEW A, NEW u, Walked(ch, top, A, u),
         NEW i \in Z!Levels, u[i] # 0
  PROVE  ch[i][u[i]] \in A
<1> DEFINE Fine(k) == k \in Z!Levels /\ u[k] # 0 => ch[k][u[k]] \in A
           P == {n \in Nat : Fine(MaxLvl - n)}
<1>1. ASSUME NEW k \in Z!Levels, k = MaxLvl \/ Fine(k + 1) PROVE Fine(k)
  <2> SUFFICES ASSUME u[k] # 0 PROVE ch[k][u[k]] \in A
    OBVIOUS
  <2>1. k \in Nat /\ top \in Nat /\ k <= top /\ top <= MaxLvl
    BY LevelsAre DEF Walked
  <2>2. PICK s : s = StartAt(ch, top, u, k)
    OBVIOUS
  <2>3. s \in 0 .. Len(ch[k]) /\ StopsAt(ch[k], s, A, u[k])
    BY <2>1, <2>2 DEF Walked
  <2>4. CASE s < u[k]
    <3>1. Len(ch[k]) \in Nat
      <4>1. ch[k] \in Seq(Z!Nodes)
        BY DEF Nested
      <4> QED BY <4>1, LenProperties
    <3>2. u[k] \in s + 1 .. u[k]
      BY <2>3, <2>4, <3>1 DEF StopsAt
    <3> QED BY <2>3, <3>2 DEF StopsAt
  <2>5. CASE ~ (s < u[k])
    <3>1. Len(ch[k]) \in Nat
      <4>1. ch[k] \in Seq(Z!Nodes)
        BY DEF Nested
      <4> QED BY <4>1, LenProperties
    <3>2. s = u[k]
      BY <2>3, <2>5, <3>1 DEF StopsAt
    <3>3. k # top /\ s = Z!Below(ch, k + 1, u[k + 1])
      BY <2>2, <3>2 DEF StartAt
    <3>4. k + 1 \in Z!Levels /\ k + 1 # 0 /\ (k + 1) - 1 = k /\ k # MaxLvl
      BY <2>1, <3>3, LevelsAre
    <3>5. u[k + 1] \in 0 .. Len(ch[k + 1])
      BY <3>4 DEF Walked
    <3>6. /\ u[k + 1] = 0 => s = 0
          /\ u[k + 1] # 0 => ch[k][s] = ch[k + 1][u[k + 1]]
      BY <3>3, <3>4, <3>5, BelowIs
    <3> QED BY <1>1, <3>2, <3>4, <3>6
  <2> QED BY <2>4, <2>5
<1>2. 0 \in P
  <2>1. MaxLvl - 0 = MaxLvl /\ MaxLvl \in Z!Levels
    BY LevelsAre
  <2>2. Fine(MaxLvl)
    <3> HIDE DEF Fine
    <3> QED BY <1>1, <2>1
  <2> HIDE DEF Fine
  <2> QED BY <2>1, <2>2
<1>3. ASSUME NEW n \in Nat, n \in P PROVE n + 1 \in P
  <2>1. PICK k : k = MaxLvl - (n + 1)
    OBVIOUS
  <2>2. k + 1 = MaxLvl - n
    BY <2>1, LevelsAre
  <2>3. Fine(k)
    <3>1. CASE k \in Z!Levels
      <4> HIDE DEF Fine
      <4> QED BY <1>1, <1>3, <2>2, <3>1
    <3>2. CASE k \notin Z!Levels
      BY <3>2
    <3> QED BY <3>1, <3>2
  <2> HIDE DEF Fine
  <2> QED BY <2>1, <2>3
<1>4. MaxLvl - i \in Nat /\ MaxLvl - (MaxLvl - i) = i
  BY LevelsAre
<1>5. MaxLvl - i \in P
  <2> HIDE DEF P
  <2> QED BY <1>2, <1>3, <1>4, NatInduct
<1>6. Fine(i)
  <2> HIDE DEF Fine
  <2> QED BY <1>4, <1>5
<1> QED BY <1>6

\* When what is ahead comes first, the walk ends behind it on every level.
LEMMA WalkSplits ==
  ASSUME NEW ch, Nested(ch), NEW top \in Z!Levels, \A i \in Z!Levels : i > top => ch[i] = <<>>,
         NEW A, \A y, z : Bef(ch[0], y, z) /\ z \in A => y \in A,
         NEW u, Walked(ch, top, A, u), NEW i \in Z!Levels
  PROVE  SplitAt(ch[i], A, u[i])
<1>1. u[i] \in 0 .. Len(ch[i])
  BY DEF Walked
<1>2. CASE i > top
  <2>1. Len(ch[i]) = 0
    BY <1>2
  <2> QED BY <1>1, <2>1 DEF SplitAt
<1>3. CASE ~ (i > top)
  <2>1. i <= top
    BY <1>3, LevelsAre
  <2>2. ch[i] \in Seq(Z!Nodes)
    BY DEF Nested
  <2>3. PICK n \in Nat : n = Len(ch[i])
    BY <2>2, LenProperties
  <2>4. PICK b : b = u[i]
    OBVIOUS
  <2>5. b \in 0 .. n
    BY <1>1, <2>3, <2>4
  <2>6. b = n \/ ch[i][b + 1] \notin A
    BY <2>1, <2>3, <2>4 DEF Walked, StopsAt
  <2>7. b # 0 => ch[i][b] \in A
    BY <2>4, LastAhead
  <2>8. \A y, z : Bef(ch[i], y, z) /\ z \in A => y \in A
    BY OnLowest
  <2>9. ASSUME NEW j \in 1 .. n, j <= b PROVE ch[i][j] \in A
    <3>1. CASE j = b
      BY <2>7, <3>1
    <3>2. CASE j # b
      <4>1. j < b /\ b \in 1 .. n /\ b # 0
        BY <2>5, <2>9, <3>2
      <4>2. Bef(ch[i], ch[i][j], ch[i][b])
        BY <2>3, <4>1 DEF Bef
      <4> QED BY <2>7, <2>8, <4>1, <4>2
    <3> QED BY <3>1, <3>2
  <2>10. ASSUME NEW j \in 1 .. n, ~ (j <= b) PROVE ch[i][j] \notin A
    <3>1. b + 1 \in 1 .. n /\ b # n
      BY <2>5, <2>10
    <3>2. CASE j = b + 1
      BY <2>6, <3>1, <3>2
    <3>3. CASE j # b + 1
      <4>1. b + 1 < j
        BY <2>5, <2>10, <3>3
      <4>2. Bef(ch[i], ch[i][b + 1], ch[i][j])
        BY <2>3, <3>1, <4>1 DEF Bef
      <4> QED BY <2>6, <2>8, <3>1, <4>2
    <3> QED BY <3>2, <3>3
  <2> QED BY <2>3, <2>4, <2>5, <2>9, <2>10 DEF SplitAt
<1> QED BY <1>2, <1>3

\* Node x is the next one where the walk ended on level i.
NextIs(ch, u, x, i) == u[i] < Len(ch[i]) /\ ch[i][u[i] + 1] = x

\* It is then on the level above too, if that lists it: what the walk passed there
\* it did not pass twice.
LEMMA NextUp ==
  ASSUME NEW ch, Nested(ch), NEW top \in Z!Levels, NEW A, NEW u, Walked(ch, top, A, u),
         NEW i \in Z!Levels, i # 0, i <= top, NEW x, NextIs(ch, u, x, i - 1), In(ch[i], x)
  PROVE  NextIs(ch, u, x, i)
<1>1. i - 1 \in Z!Levels /\ i - 1 <= top /\ i - 1 # top /\ (i - 1) + 1 = i /\ i \in Nat
  BY LevelsAre
<1>2. PICK c, d : c = ch[i] /\ d = ch[i - 1]
  OBVIOUS
<1>3. c \in Seq(Z!Nodes) /\ d \in Seq(Z!Nodes)
  BY <1>1, <1>2 DEF Nested
<1>4. PICK n \in Nat, m \in Nat : n = Len(c) /\ m = Len(d)
  BY <1>3, LenProperties
<1>5. PICK a, b, s : a = u[i - 1] /\ b = u[i] /\ s = StartAt(ch, top, u, i - 1)
  OBVIOUS
<1>6. /\ a \in 0 .. m /\ b \in 0 .. n /\ s \in 0 .. m
      /\ s <= a
      /\ \A k \in s + 1 .. a : d[k] \in A
      /\ b = n \/ c[b + 1] \notin A
  <2>1. /\ a \in 0 .. m /\ b \in 0 .. n /\ s \in 0 .. m
        /\ StopsAt(d, s, A, a)
    BY <1>1, <1>2, <1>4, <1>5 DEF Walked
  <2>2. StopsAt(c, StartAt(ch, top, u, i), A, b)
    BY <1>2, <1>5 DEF Walked
  <2> QED BY <1>4, <2>1, <2>2 DEF StopsAt
<1>7. /\ b = 0 => s = 0
      /\ b # 0 => s # 0 /\ d[s] = c[b]
  <2>1. s = Z!Below(ch, i, b)
    BY <1>1, <1>5 DEF StartAt
  <2>2. b \in 0 .. Len(ch[i])
    BY <1>2, <1>4, <1>6
  <2> QED BY <1>2, <2>1, <2>2, BelowIs
<1>8. a < m /\ a + 1 \in 1 .. m /\ d[a + 1] = x
  <2>1. a < m /\ d[a + 1] = x
    BY <1>2, <1>4, <1>5 DEF NextIs
  <2> QED BY <1>6, <2>1
<1>9. PICK p \in 1 .. n : c[p] = x
  BY <1>2, <1>4 DEF In
<1>10. \A y, z : Bef(c, y, z) => Bef(d, y, z)
  BY <1>2 DEF Nested
<1>11. \A j, k \in 1 .. m : (d[j] = d[k] => j = k) /\ (Bef(d, d[j], d[k]) => j < k)
  <2>1. \A y : ~ Bef(d, y, y)
    BY <1>1, <1>2 DEF Nested
  <2> QED BY <1>3, <1>4, <2>1, OncePlaces
<1>12. b < p
  <2> SUFFICES ASSUME ~ (b < p) PROVE FALSE
    OBVIOUS
  <2>1. b # 0 /\ s \in 1 .. m /\ d[s] = c[b] /\ b \in 1 .. n
    BY <1>6, <1>7
  <2>2. CASE p = b
    <3>1. s = a + 1
      BY <1>8, <1>9, <1>11, <2>1, <2>2
    <3> QED BY <1>6, <3>1
  <2>3. CASE p # b
    <3>1. p < b
      BY <1>6, <2>3
    <3>2. Bef(c, c[p], c[b])
      BY <1>4, <2>1, <3>1 DEF Bef
    <3>3. Bef(d, d[a + 1], d[s])
      BY <1>8, <1>9, <1>10, <2>1, <3>2
    <3>4. a + 1 < s
      BY <1>8, <1>11, <2>1, <3>3
    <3> QED BY <1>6, <3>4
  <2> QED BY <2>2, <2>3
<1>13. b < n /\ b + 1 \in 1 .. n
  BY <1>6, <1>12
<1>14. p = b + 1
  <2> SUFFICES ASSUME p # b + 1 PROVE FALSE
    OBVIOUS
  <2>1. b + 1 < p
    BY <1>6, <1>12
  <2>2. Bef(c, c[b + 1], c[p])
    BY <1>4, <1>13, <2>1 DEF Bef
  <2>3. Bef(d, c[b + 1], d[a + 1])
    BY <1>8, <1>9, <1>10, <2>2
  <2>4. PICK j \in 1 .. m : d[j] = c[b + 1]
    BY <1>4, <2>3 DEF Bef
  <2>5. j < a + 1
    BY <1>8, <1>11, <2>3, <2>4
  <2>6. d[j] \notin A
    BY <1>6, <1>13, <2>4
  <2>7. j <= s
    BY <1>6, <2>5, <2>6
  <2>8. b # 0 /\ s \in 1 .. m /\ d[s] = c[b] /\ b \in 1 .. n
    BY <1>6, <1>7, <2>7
  <2>9. Bef(c, c[b], c[b + 1])
    BY <1>4, <1>13, <2>8 DEF Bef
  <2>10. Bef(d, d[s], d[j])
    BY <1>10, <2>4, <2>8, <2>9
  <2>11. s < j
    BY <1>11, <2>8, <2>10
  <2> QED BY <2>7, <2>8, <2>11
<1> QED BY <1>2, <1>4, <1>5, <1>9, <1>13, <1>14 DEF NextIs

\* So Delete's walk, which can stop early on a level, finds its node on all the
\* levels that list it, or on none.
LEMMA NextOnAll ==
  ASSUME NEW ch, Nested(ch), NEW top \in Z!Levels, \A i \in Z!Levels : i > top => ch[i] = <<>>,
         NEW A, NEW u, Walked(ch, top, A, u), NEW x, NextIs(ch, u, x, 0), NEW i \in Z!Levels, In(ch[i], x)
  PROVE  NextIs(ch, u, x, i)
<1> DEFINE Next0(k) == k \in Z!Levels /\ In(ch[k], x) => NextIs(ch, u, x, k)
           P == {n \in Nat : Next0(n)}
<1>1. 0 \in P
  OBVIOUS
<1>2. ASSUME NEW n \in Nat, n \in P PROVE n + 1 \in P
  <2>1. Next0(n)
    BY <1>2
  <2>2. Next0(n + 1)
    <3> SUFFICES ASSUME n + 1 \in Z!Levels, In(ch[n + 1], x) PROVE NextIs(ch, u, x, n + 1)
      OBVIOUS
    <3>1. n \in Z!Levels /\ n + 1 # 0 /\ (n + 1) - 1 = n
      BY LevelsAre
    <3>2. n + 1 <= top
      <4>1. ch[n + 1] # <<>>
        <5> SUFFICES ASSUME ch[n + 1] = <<>> PROVE FALSE
          OBVIOUS
        <5>1. Len(ch[n + 1]) = 0
          OBVIOUS
        <5> QED BY <5>1 DEF In
      <4>2. ~ (n + 1 > top)
        BY <4>1
      <4> QED BY <4>2, LevelsAre
    <3>3. In(ch[n], x)
      BY <3>1 DEF Nested
    <3>4. NextIs(ch, u, x, (n + 1) - 1)
      BY <2>1, <3>1, <3>3
    <3> HIDE DEF Next0
    <3> QED BY <3>1, <3>2, <3>4, NextUp
  <2> HIDE DEF Next0
  <2> QED BY <2>2
<1>3. i \in P
  <2>1. i \in Nat
    BY LevelsAre
  <2> HIDE DEF P
  <2> QED BY <1>1, <1>2, <2>1, NatInduct
<1> QED BY <1>3

-----------------------------------------------------------------------------
\* The skiplist e is ch without x.
TakenOut(e, ch, x) ==
  /\ e \in [Z!Levels -> Seq(Z!Nodes)]
  /\ \A i \in Z!Levels : ch[i] = <<>> => e[i] = <<>>
  /\ \A i \in Z!Levels : \A y : In(e[i], y) <=> In(ch[i], y) /\ y # x
  /\ \A i \in Z!Levels : \A y, z : Bef(e[i], y, z) <=> Bef(ch[i], y, z) /\ y # x /\ z # x

\* Delete takes the node it found out of every level.
LEMMA UnlinkedIs ==
  ASSUME Nested(chain), NEW top \in Z!Levels, \A i \in Z!Levels : i > top => chain[i] = <<>>,
         NEW A, NEW u, Walked(chain, top, A, u), NEW x, NextIs(chain, u, x, 0)
  PROVE  TakenOut(Z!Unlinked(u, x), chain, x)
<1>1. PICK e : e = Z!Unlinked(u, x)
  OBVIOUS
<1>2. /\ e = [i \in Z!Levels |-> e[i]]
      /\ \A i \in Z!Levels : e[i] = IF NextIs(chain, u, x, i) THEN Z!RemoveAt(chain[i], u[i] + 1) ELSE chain[i]
  BY <1>1 DEF Z!Unlinked, NextIs
<1>3. ASSUME NEW i \in Z!Levels
      PROVE  /\ e[i] \in Seq(Z!Nodes)
             /\ chain[i] = <<>> => e[i] = <<>>
             /\ \A y : In(e[i], y) <=> In(chain[i], y) /\ y # x
             /\ \A y, z : Bef(e[i], y, z) <=> Bef(chain[i], y, z) /\ y # x /\ z # x
  <2>1. chain[i] \in Seq(Z!Nodes) /\ \A y : ~ Bef(chain[i], y, y)
    BY DEF Nested
  <2>2. Len(chain[i]) \in Nat /\ u[i] \in 0 .. Len(chain[i])
    BY <2>1, LenProperties DEF Walked
  <2>3. CASE NextIs(chain, u, x, i)
    <3>1. u[i] + 1 \in 1 .. Len(chain[i]) /\ x = chain[i][u[i] + 1]
      BY <2>2, <2>3 DEF NextIs
    <3>2. e[i] = Z!RemoveAt(chain[i], u[i] + 1)
      BY <1>2, <2>3
    <3>3. chain[i] # <<>>
      <4> SUFFICES ASSUME chain[i] = <<>> PROVE FALSE
        OBVIOUS
      <4>1. Len(chain[i]) = 0
        OBVIOUS
      <4> QED BY <3>1, <4>1
    <3>4. /\ e[i] \in Seq(Z!Nodes)
          /\ \A y : In(e[i], y) <=> In(chain[i], y) /\ y # x
          /\ \A y, z : Bef(e[i], y, z) <=> Bef(chain[i], y, z) /\ y # x /\ z # x
      BY <2>1, <3>1, <3>2, RemoveOrd
    <3> QED BY <3>3, <3>4
  <2>4. CASE ~ NextIs(chain, u, x, i)
    <3>1. e[i] = chain[i]
      BY <1>2, <2>4
    <3>2. ~ In(chain[i], x)
      BY <2>4, NextOnAll
    <3>3. \A y, z : Bef(chain[i], y, z) => In(chain[i], y) /\ In(chain[i], z)
      BY DEF Bef, In
    <3> QED BY <2>1, <3>1, <3>2, <3>3
  <2> QED BY <2>3, <2>4
<1>4. e \in [Z!Levels -> Seq(Z!Nodes)]
  BY <1>2, <1>3
<1> QED BY <1>1, <1>3, <1>4, Zenon DEF TakenOut

\* The skiplist e is ch with x up to level lvl, behind what is in A.
PutIn(e, ch, A, x, lvl) ==
  /\ e \in [Z!Levels -> Seq(Z!Nodes)]
  /\ \A i \in Z!Levels : i > lvl => e[i] = ch[i]
  /\ \A i \in Z!Levels : i <= lvl =>
       /\ e[i] # <<>>
       /\ \A y : In(e[i], y) <=> In(ch[i], y) \/ y = x
       /\ \A y, z : Bef(e[i], y, z) <=> \/ Bef(ch[i], y, z)
                                        \/ z = x /\ In(ch[i], y) /\ y \in A
                                        \/ y = x /\ In(ch[i], z) /\ z \notin A

\* Insert puts its node behind the smaller scores on each of its levels.
LEMMA InsertIs ==
  ASSUME NEW ch, Nested(ch), NEW top \in Z!Levels, \A i \in Z!Levels : i > top => ch[i] = <<>>,
         NEW val, NEW x \in Z!Nodes, NEW A, A = {y \in Z!Nodes : val[y] < val[x]},
         \A y, z : Bef(ch[0], y, z) /\ z \in A => y \in A,
         NEW lvl \in Z!Levels
  PROVE  PutIn(Z!Insert(ch, top, val, x, lvl), ch, A, x, lvl)
<1>1. PICK e : e = Z!Insert(ch, top, val, x, lvl)
  OBVIOUS
<1>2. PICK u : u = Z!Updates(ch, top, A)
  OBVIOUS
<1>3. e = [i \in Z!Levels |-> IF i > lvl THEN ch[i] ELSE Z!InsertAt(ch[i], u[i] + 1, x)]
  BY <1>1, <1>2, Zenon DEF Z!Insert
<1>4. Walked(ch, top, A, u)
  BY <1>2, UpdatesIs
<1>5. ASSUME NEW i \in Z!Levels, i > lvl PROVE e[i] = ch[i] /\ e[i] \in Seq(Z!Nodes)
  BY <1>3, <1>5 DEF Nested
<1>6. ASSUME NEW i \in Z!Levels, i <= lvl
      PROVE  /\ e[i] \in Seq(Z!Nodes) /\ e[i] # <<>>
             /\ \A y : In(e[i], y) <=> In(ch[i], y) \/ y = x
             /\ \A y, z : Bef(e[i], y, z) <=> \/ Bef(ch[i], y, z)
                                              \/ z = x /\ In(ch[i], y) /\ y \in A
                                              \/ y = x /\ In(ch[i], z) /\ z \notin A
  <2>1. ~ (i > lvl)
    BY <1>6, LevelsAre
  <2>2. e[i] = Z!InsertAt(ch[i], u[i] + 1, x)
    BY <1>3, <2>1
  <2>3. SplitAt(ch[i], A, u[i])
    BY <1>4, WalkSplits
  <2>4. ch[i] \in Seq(Z!Nodes)
    BY DEF Nested
  <2>5. PICK b : b = u[i]
    OBVIOUS
  <2>6. SplitAt(ch[i], A, b) /\ e[i] = Z!InsertAt(ch[i], b + 1, x)
    BY <2>2, <2>3, <2>5
  <2> QED BY <2>4, <2>6, InsertOrd
<1>7. e \in [Z!Levels -> Seq(Z!Nodes)]
  <2>1. \A i \in Z!Levels : e[i] \in Seq(Z!Nodes)
    BY <1>5, <1>6, LevelsAre
  <2> QED BY <1>3, <2>1
<1> QED BY <1>1, <1>5, <1>6, <1>7, Zenon DEF PutIn

\* A skiplist in order: its levels, its lowest one sorted by score, its height.
Ordered(ch, val) == \A y, z : Bef(ch[0], y, z) => val[y] <= val[z]
Flat(ch, top)    == \A i \in Z!Levels : i > top => ch[i] = <<>>
Skiplist(ch, top, val) ==
  /\ Nested(ch) /\ top \in Z!Levels /\ val \in [Z!Nodes -> Nat]
  /\ Ordered(ch, val)
  /\ top = 0 \/ ch[top] # <<>>
  /\ Flat(ch, top)

\* What is listed is a node, and what is in order is listed.
LEMMA ListedAre ==
  ASSUME NEW ch, ch \in [Z!Levels -> Seq(Z!Nodes)]
  PROVE  /\ \A i \in Z!Levels : \A y : In(ch[i], y) => y \in Z!Nodes
         /\ \A i \in Z!Levels : \A y, z : Bef(ch[i], y, z) => In(ch[i], y) /\ In(ch[i], z)
<1>1. ASSUME NEW i \in Z!Levels, NEW y, In(ch[i], y) PROVE y \in Z!Nodes
  <2>1. ch[i] \in Seq(Z!Nodes)
    OBVIOUS
  <2> QED BY <1>1, <2>1, ElementOfSeq DEF In
<1>2. ASSUME NEW i \in Z!Levels, NEW y, NEW z, Bef(ch[i], y, z) PROVE In(ch[i], y) /\ In(ch[i], z)
  BY <1>2 DEF Bef, In
<1> QED BY <1>1, <1>2

\* Without a node it is one still, up to its height.
LEMMA TakenOutKeeps ==
  ASSUME NEW ch, NEW top, NEW val, Skiplist(ch, top, val), NEW e, NEW x, TakenOut(e, ch, x)
  PROVE  Nested(e) /\ Ordered(e, val) /\ Flat(e, top)
<1>1. Nested(e)
  <2>1. e \in [Z!Levels -> Seq(Z!Nodes)]
    BY DEF TakenOut
  <2>2. ASSUME NEW i \in Z!Levels, i # 0
        PROVE  /\ \A y : In(e[i], y) => In(e[i - 1], y)
               /\ \A y, z : Bef(e[i], y, z) => Bef(e[i - 1], y, z)
    <3>1. i - 1 \in Z!Levels
      BY <2>2, LevelsAre
    <3> QED BY <2>2, <3>1 DEF TakenOut, Skiplist, Nested
  <2>3. \A i \in Z!Levels : \A y : ~ Bef(e[i], y, y)
    BY DEF TakenOut, Skiplist, Nested
  <2> QED BY <2>1, <2>2, <2>3 DEF Nested
<1>2. Ordered(e, val)
  BY LevelsAre DEF TakenOut, Skiplist, Ordered
<1>3. Flat(e, top)
  BY DEF TakenOut, Skiplist, Flat
<1> QED BY <1>1, <1>2, <1>3

\* With a new node it is one still, and as high as that node if it was not.
LEMMA PutInKeeps ==
  ASSUME NEW ch, NEW top, NEW val, Skiplist(ch, top, val), NEW x \in Z!Nodes, ~ In(ch[0], x),
         NEW lvl \in Z!Levels, NEW e, PutIn(e, ch, {y \in Z!Nodes : val[y] < val[x]}, x, lvl)
  PROVE  Skiplist(e, IF lvl > top THEN lvl ELSE top, val)
<1>1. PICK A : A = {y \in Z!Nodes : val[y] < val[x]}
  OBVIOUS
<1>2. PutIn(e, ch, A, x, lvl)
  BY <1>1
<1>3. e \in [Z!Levels -> Seq(Z!Nodes)] /\ ch \in [Z!Levels -> Seq(Z!Nodes)] /\ Nested(ch) /\ top \in Z!Levels
  BY <1>2 DEF PutIn, Skiplist, Nested
<1>4. \A i \in Z!Levels : ~ In(ch[i], x)
  BY <1>3, OnLowest
<1>5. ASSUME NEW i \in Z!Levels, i # 0
      PROVE  /\ \A y : In(e[i], y) => In(e[i - 1], y)
             /\ \A y, z : Bef(e[i], y, z) => Bef(e[i - 1], y, z)
  <2>1. i - 1 \in Z!Levels /\ i \in Nat /\ lvl \in Nat
    BY <1>5, LevelsAre
  <2>2. \A y : In(ch[i], y) => In(ch[i - 1], y)
    BY <1>3, <1>5 DEF Nested
  <2>3. \A y, z : Bef(ch[i], y, z) => Bef(ch[i - 1], y, z)
    BY <1>3, <1>5 DEF Nested
  <2>4. CASE i <= lvl
    <3>1. i - 1 <= lvl
      BY <2>1, <2>4
    <3>2. \A y : In(e[i], y) => In(e[i - 1], y)
      BY <1>2, <2>1, <2>2, <2>4, <3>1 DEF PutIn
    <3>3. \A y, z : Bef(e[i], y, z) => Bef(e[i - 1], y, z)
      BY <1>2, <2>1, <2>2, <2>3, <2>4, <3>1 DEF PutIn
    <3> QED BY <3>2, <3>3
  <2>5. CASE i > lvl
    <3>1. e[i] = ch[i]
      BY <1>2, <2>5 DEF PutIn
    <3>2. \A y : In(ch[i - 1], y) => In(e[i - 1], y)
      BY <1>2, <2>1 DEF PutIn
    <3>3. \A y, z : Bef(ch[i - 1], y, z) => Bef(e[i - 1], y, z)
      BY <1>2, <2>1 DEF PutIn
    <3> QED BY <2>2, <2>3, <3>1, <3>2, <3>3
  <2> QED BY <2>1, <2>4, <2>5
<1>6. ASSUME NEW i \in Z!Levels, NEW y PROVE ~ Bef(e[i], y, y)
  <2>1. ~ Bef(ch[i], y, y) /\ ~ In(ch[i], x)
    BY <1>3, <1>4 DEF Nested
  <2>2. i <= lvl \/ i > lvl
    BY LevelsAre
  <2> QED BY <1>2, <2>1, <2>2 DEF PutIn
<1>7. Nested(e)
  BY <1>3, <1>5, <1>6 DEF Nested
<1>8. Ordered(e, val)
  <2> SUFFICES ASSUME NEW y, NEW z, Bef(e[0], y, z) PROVE val[y] <= val[z]
    BY DEF Ordered
  <2>1. 0 \in Z!Levels /\ 0 <= lvl
    BY LevelsAre
  <2>2. \/ Bef(ch[0], y, z)
        \/ z = x /\ In(ch[0], y) /\ y \in A
        \/ y = x /\ In(ch[0], z) /\ z \notin A
    BY <1>2, <2>1 DEF PutIn
  <2>3. val \in [Z!Nodes -> Nat] /\ Ordered(ch, val)
    BY DEF Skiplist
  <2>4. CASE Bef(ch[0], y, z)
    BY <2>3, <2>4 DEF Ordered
  <2>5. CASE z = x /\ In(ch[0], y) /\ y \in A
    BY <1>1, <2>3, <2>5
  <2>6. CASE y = x /\ In(ch[0], z) /\ z \notin A
    <3>1. z \in Z!Nodes
      BY <1>3, <2>1, <2>6, ListedAre
    <3>2. ~ (val[z] < val[x]) /\ val[z] \in Nat /\ val[x] \in Nat
      BY <1>1, <2>3, <2>6, <3>1
    <3> QED BY <2>6, <3>2
  <2> QED BY <2>2, <2>4, <2>5, <2>6
<1>9. PICK h : h = IF lvl > top THEN lvl ELSE top
  OBVIOUS
<1>10. h \in Z!Levels /\ lvl <= h /\ top <= h /\ (h = lvl \/ h = top)
  BY <1>3, <1>9, LevelsAre
<1>11. h = 0 \/ e[h] # <<>>
  <2>1. CASE h <= lvl
    BY <1>2, <1>10, <2>1 DEF PutIn
  <2>2. CASE h > lvl
    <3>1. h = top /\ e[h] = ch[h]
      BY <1>2, <1>10, <2>2, LevelsAre DEF PutIn
    <3> QED BY <3>1 DEF Skiplist
  <2> QED BY <1>10, <2>1, <2>2, LevelsAre
<1>12. Flat(e, h)
  <2> SUFFICES ASSUME NEW i \in Z!Levels, i > h PROVE e[i] = <<>>
    BY DEF Flat
  <2>1. i > lvl /\ i > top
    BY <1>3, <1>10, LevelsAre
  <2> QED BY <1>2, <2>1 DEF PutIn, Skiplist, Flat
<1>13. val \in [Z!Nodes -> Nat]
  BY DEF Skiplist
<1> QED BY <1>7, <1>8, <1>9, <1>10, <1>11, <1>12, <1>13, Zenon DEF Skiplist

\* Scores of nodes that are not listed do not matter.
LEMMA RevaluedKeeps ==
  ASSUME NEW ch, NEW top, NEW val, Skiplist(ch, top, val), NEW new \in [Z!Nodes -> Nat],
         \A y : In(ch[0], y) => new[y] = val[y]
  PROVE  Skiplist(ch, top, new)
<1>1. ch \in [Z!Levels -> Seq(Z!Nodes)]
  BY DEF Skiplist, Nested
<1>2. \A y, z : Bef(ch[0], y, z) => In(ch[0], y) /\ In(ch[0], z)
  BY <1>1, LevelsAre, ListedAre
<1>3. Ordered(ch, new)
  BY <1>2 DEF Skiplist, Ordered
<1> QED BY <1>3 DEF Skiplist

\* Delete gives up levels down to one that has a node.
LEMMA LoweredIs ==
  ASSUME level \in Z!Levels, NEW ch, Flat(ch, level)
  PROVE  LET h == Z!Lowered(ch) IN h \in Z!Levels /\ (h = 0 \/ ch[h] # <<>>) /\ Flat(ch, h)
<1>1. level \in Nat /\ level <= MaxLvl
  BY LevelsAre
<1> DEFINE P == {n \in Nat : n <= level /\ (n = level \/ ch[level - n] # <<>>)}
<1>2. level \in P
  BY <1>1
<1>3. PICK n \in P : \A k \in P : n <= k
  <2>1. P \in SUBSET Nat /\ P # {}
    BY <1>2
  <2> HIDE DEF P
  <2> QED BY <2>1, NatLeast
<1>4. PICK g : g = level - n
  OBVIOUS
<1>5. g \in 0 .. level /\ (g = 0 \/ ch[g] # <<>>)
  BY <1>1, <1>3, <1>4
<1>6. ASSUME NEW j \in g + 1 .. level PROVE ch[j] = <<>>
  <2>1. level - j \in Nat /\ level - j <= level /\ level - (level - j) = j /\ ~ (n <= level - j)
    BY <1>1, <1>3, <1>4
  <2>2. level - j \notin P
    <3> HIDE DEF P
    <3> QED BY <1>3, <2>1
  <2> QED BY <2>1, <2>2
<1> HIDE DEF P
<1>7. \E i \in 0 .. level :
            /\ i = 0 \/ ch[i] # <<>>
            /\ \A j \in i + 1 .. level : ch[j] = <<>>
  BY <1>5, <1>6
<1>8. PICK h : h = Z!Lowered(ch)
  OBVIOUS
<1>9. h = CHOOSE i \in 0 .. level :
            /\ i = 0 \/ ch[i] # <<>>
            /\ \A j \in i + 1 .. level : ch[j] = <<>>
  BY <1>8, Zenon DEF Z!Lowered
<1>10. /\ h \in 0 .. level
       /\ h = 0 \/ ch[h] # <<>>
       /\ \A j \in h + 1 .. level : ch[j] = <<>>
  BY <1>7, <1>9, Zenon
<1>11. h \in Z!Levels
  BY <1>1, <1>10, LevelsAre
<1>12. ASSUME NEW i \in Z!Levels, i > h PROVE ch[i] = <<>>
  <2>1. i > level \/ i \in h + 1 .. level
    BY <1>1, <1>10, <1>12, LevelsAre
  <2> QED BY <1>10, <2>1 DEF Flat
<1> QED BY <1>8, <1>10, <1>11, <1>12 DEF Flat

-----------------------------------------------------------------------------
\* The current skiplist and what Delete's walk for m and sc takes to be ahead.
Listed(y)    == In(chain[0], y)
Ahead(m, sc) == {y \in Z!Nodes : value[y] < sc \/ (value[y] = sc /\ Z!Member(y) < m)}

\* What Delete leaves: the same skiplist, or one without the node it looked for.
Deleted(d, m, sc) ==
  /\ Skiplist(d.chain, d.level, value)
  /\ \/ d.chain = chain
     \/ \E x : Listed(x) /\ Z!Member(x) = m /\ value[x] = sc /\ TakenOut(d.chain, chain, x)

\* Delete in its two cases.
LEMMA DeleteIs ==
  ASSUME NEW m, NEW sc
  PROVE  \E u, x :
           /\ u = Z!Updates(chain, level, Ahead(m, sc)) /\ x = chain[0][u[0] + 1]
           /\ Z!Delete(m, sc) =
                IF u[0] < Len(chain[0]) /\ Z!Member(x) = m /\ value[x] = sc
                THEN [chain |-> Z!Unlinked(u, x), level |-> Z!Lowered(Z!Unlinked(u, x))]
                ELSE [chain |-> chain, level |-> level]
<1>1. PICK u : u = Z!Updates(chain, level, Ahead(m, sc))
  OBVIOUS
<1>2. u = Z!Found(m, sc)
  BY <1>1, Zenon DEF Z!Found, Ahead
<1>3. PICK x : x = chain[0][u[0] + 1]
  OBVIOUS
<1>4. Z!Delete(m, sc) =
        IF u[0] < Len(chain[0]) /\ Z!Member(x) = m /\ value[x] = sc
        THEN [chain |-> Z!Unlinked(u, x), level |-> Z!Lowered(Z!Unlinked(u, x))]
        ELSE [chain |-> chain, level |-> level]
  BY <1>2, <1>3, Zenon DEF Z!Delete, Z!Unchanged
<1> QED BY <1>1, <1>3, <1>4

\* Delete leaves a skiplist, through ties too.
LEMMA DeleteKeeps ==
  ASSUME Skiplist(chain, level, value), NEW m \in Members, NEW sc \in Nat
  PROVE  Deleted(Z!Delete(m, sc), m, sc)
<1>1. PICK u, x :
        /\ u = Z!Updates(chain, level, Ahead(m, sc)) /\ x = chain[0][u[0] + 1]
        /\ Z!Delete(m, sc) =
             IF u[0] < Len(chain[0]) /\ Z!Member(x) = m /\ value[x] = sc
             THEN [chain |-> Z!Unlinked(u, x), level |-> Z!Lowered(Z!Unlinked(u, x))]
             ELSE [chain |-> chain, level |-> level]
  BY DeleteIs, Zenon
<1>2. CASE u[0] < Len(chain[0]) /\ Z!Member(x) = m /\ value[x] = sc
  <2>1. PICK e : e = Z!Unlinked(u, x)
    OBVIOUS
  <2>2. PICK d : d = Z!Delete(m, sc)
    OBVIOUS
  <2>3. d.chain = e /\ d.level = Z!Lowered(e)
    BY <1>1, <1>2, <2>1, <2>2
  <2>4. /\ Nested(chain) /\ level \in Z!Levels
        /\ \A i \in Z!Levels : i > level => chain[i] = <<>>
    BY DEF Skiplist, Flat
  <2>5. Walked(chain, level, Ahead(m, sc), u)
    BY <1>1, <2>4, UpdatesIs
  <2>6. NextIs(chain, u, x, 0)
    BY <1>1, <1>2 DEF NextIs
  <2>7. TakenOut(e, chain, x)
    BY <2>1, <2>4, <2>5, <2>6, UnlinkedIs
  <2>8. Listed(x)
    <3>1. u[0] \in 0 .. Len(chain[0]) /\ chain[0] \in Seq(Z!Nodes)
      BY <2>4, <2>5, LevelsAre DEF Walked, Nested
    <3>2. u[0] + 1 \in 1 .. Len(chain[0])
      BY <1>2, <3>1, LenProperties
    <3> QED BY <1>1, <3>2 DEF Listed, In
  <2>9. Nested(e) /\ Ordered(e, value) /\ Flat(e, level)
    BY <2>7, TakenOutKeeps
  <2>10. PICK h : h = Z!Lowered(e)
    OBVIOUS
  <2>11. h \in Z!Levels /\ (h = 0 \/ e[h] # <<>>) /\ Flat(e, h)
    BY <2>4, <2>9, <2>10, LoweredIs
  <2>12. Skiplist(e, h, value)
    BY <2>9, <2>11 DEF Skiplist
  <2>13. Deleted(d, m, sc)
    BY <1>2, <2>3, <2>7, <2>8, <2>10, <2>12 DEF Deleted
  <2> QED BY <2>2, <2>13
<1>3. CASE ~ (u[0] < Len(chain[0]) /\ Z!Member(x) = m /\ value[x] = sc)
  <2>1. PICK d : d = Z!Delete(m, sc)
    OBVIOUS
  <2>2. d.chain = chain /\ d.level = level
    BY <1>1, <1>3, <2>1
  <2> QED BY <2>1, <2>2 DEF Deleted
<1> QED BY <1>2, <1>3

\* A node that shares its score with no other is found and taken out.
LEMMA DeleteFinds ==
  ASSUME Skiplist(chain, level, value), NEW x \in Z!Nodes, Listed(x), Z!Member(x) \in Members,
         \A y : Listed(y) /\ y # x => value[y] # value[x]
  PROVE  TakenOut(Z!Delete(Z!Member(x), value[x]).chain, chain, x)
<1>1. PICK m \in Members, sc \in Nat : m = Z!Member(x) /\ sc = value[x]
  BY DEF Skiplist
<1>2. PICK u, z :
        /\ u = Z!Updates(chain, level, Ahead(m, sc)) /\ z = chain[0][u[0] + 1]
        /\ Z!Delete(m, sc) =
             IF u[0] < Len(chain[0]) /\ Z!Member(z) = m /\ value[z] = sc
             THEN [chain |-> Z!Unlinked(u, z), level |-> Z!Lowered(Z!Unlinked(u, z))]
             ELSE [chain |-> chain, level |-> level]
  BY DeleteIs, Zenon
<1>3. PICK A : A = Ahead(m, sc)
  OBVIOUS
<1>4. /\ Nested(chain) /\ level \in Z!Levels
      /\ \A i \in Z!Levels : i > level => chain[i] = <<>>
      /\ value \in [Z!Nodes -> Nat] /\ Ordered(chain, value)
  BY DEF Skiplist, Flat
<1>5. Walked(chain, level, A, u)
  BY <1>2, <1>3, <1>4, UpdatesIs
<1>6. m \in Nat
  BY ConstantsAssumption DEF Z!ConstantsFit
<1>7. \A y : Listed(y) => y \in Z!Nodes /\ value[y] \in Nat
  BY <1>4, LevelsAre, ListedAre DEF Listed, Nested
<1>8. \A y : Listed(y) => (y \in A <=> value[y] < sc)
  <2> SUFFICES ASSUME NEW y, Listed(y) PROVE y \in A <=> value[y] < sc
    OBVIOUS
  <2>1. CASE y = x
    <3>1. ~ (m < m) /\ value[y] = sc /\ Z!Member(y) = m
      BY <1>1, <1>6, <2>1
    <3>2. y \in A <=> value[y] < sc
      BY <1>3, <3>1, <1>7 DEF Ahead
    <3> QED BY <3>2
  <2>2. CASE y # x
    <3>1. value[y] # sc
      BY <1>1, <2>2
    <3> QED BY <1>3, <1>7, <3>1 DEF Ahead
  <2> QED BY <2>1, <2>2
<1>9. \A y, w : Bef(chain[0], y, w) => Listed(y) /\ Listed(w) /\ value[y] <= value[w]
  BY <1>4, LevelsAre, ListedAre DEF Listed, Nested, Ordered
<1>10. \A y, w : Bef(chain[0], y, w) /\ w \in A => y \in A
  <2> SUFFICES ASSUME NEW y, NEW w, Bef(chain[0], y, w), w \in A PROVE y \in A
    OBVIOUS
  <2>1. Listed(y) /\ Listed(w) /\ value[y] <= value[w] /\ value[w] < sc /\ value[y] \in Nat /\ value[w] \in Nat
    BY <1>7, <1>8, <1>9
  <2>2. value[y] < sc
    BY <2>1
  <2> QED BY <1>8, <2>1, <2>2
<1>11. SplitAt(chain[0], A, u[0])
  BY <1>4, <1>5, <1>10, LevelsAre, WalkSplits
<1>12. chain[0] \in Seq(Z!Nodes)
  BY <1>4, LevelsAre DEF Nested
<1>13. PICK n \in Nat, b \in Nat : n = Len(chain[0]) /\ b = u[0] /\ b \in 0 .. n
  BY <1>11, <1>12, LenProperties DEF SplitAt
<1>14. \A j \in 1 .. n : chain[0][j] \in A <=> j <= b
  BY <1>11, <1>13 DEF SplitAt
<1>15. PICK p \in 1 .. n : chain[0][p] = x
  BY <1>13 DEF Listed, In
<1>16. x \notin A
  BY <1>1, <1>7, <1>8
<1>17. b + 1 \in 1 .. n /\ b + 1 <= p /\ b < n
  BY <1>13, <1>14, <1>15, <1>16
<1>18. z = chain[0][b + 1] /\ Listed(z) /\ z \notin A
  <2>1. z = chain[0][b + 1]
    BY <1>2, <1>13
  <2>2. z \notin A
    BY <1>13, <1>14, <1>17, <2>1
  <2> QED BY <1>13, <1>17, <2>1, <2>2 DEF Listed, In
<1>19. z = x
  <2> SUFFICES ASSUME z # x PROVE FALSE
    OBVIOUS
  <2>1. b + 1 < p
    <3>1. b + 1 # p
      BY <1>15, <1>18
    <3> QED BY <1>13, <1>17, <3>1
  <2>2. Bef(chain[0], z, x)
    BY <1>13, <1>15, <1>17, <1>18, <2>1 DEF Bef
  <2>3. value[z] <= sc /\ value[z] \in Nat /\ ~ (value[z] < sc)
    BY <1>1, <1>7, <1>8, <1>9, <1>18, <2>2
  <2>4. value[z] = sc
    BY <2>3
  <2> QED BY <1>1, <1>18, <2>4
<1>20. Z!Delete(m, sc).chain = Z!Unlinked(u, x)
  <2>1. u[0] < Len(chain[0]) /\ Z!Member(z) = m /\ value[z] = sc
    BY <1>1, <1>13, <1>17, <1>19
  <2> QED BY <1>2, <1>19, <2>1
<1>21. NextIs(chain, u, x, 0)
  BY <1>13, <1>17, <1>18, <1>19 DEF NextIs
<1>22. TakenOut(Z!Unlinked(u, x), chain, x)
  BY <1>4, <1>5, <1>21, UnlinkedIs
<1> QED BY <1>1, <1>20, <1>22

-----------------------------------------------------------------------------
\* The invariant of the sorted set.  Its skiplist is one; a member's node is the
\* member's; a member that was added has its node listed, with its score; and who
\* never shared a score has no other node listed.
DictFits == /\ score \in [Members -> Int]
            /\ dict \in [Members -> Z!Nodes \cup {Z!Nil}]
            /\ \A m \in Members : dict[m] # Z!Nil => Z!Member(dict[m]) = m
ScoreIs(m)  == score[m] # Z!None => Listed(dict[m]) /\ value[dict[m]] = score[m]
OnlyOne(m)  == m \notin tied => \A x : Listed(x) /\ Z!Member(x) = m => score[m] # Z!None /\ x = dict[m]
TiesKnown   == \A x, y : /\ Listed(x) /\ Listed(y) /\ value[y] = value[x]
                         /\ Z!Member(y) # Z!Member(x)
                         => Z!Member(x) \in tied
ZsetInv ==
  /\ Skiplist(chain, level, value)
  /\ DictFits /\ tied \subseteq Members
  /\ \A m \in Members : ScoreIs(m) /\ OnlyOne(m)
  /\ TiesKnown

\* A node carries a member and is not Nil; a score is not None.
LEMMA NodesAre ==
  /\ \A x \in Z!Nodes : Z!Member(x) \in Members /\ x # Z!Nil
  /\ \A m \in Members, c \in 1 .. MaxCopies : <<m, c>> \in Z!Nodes /\ Z!Member(<<m, c>>) = m
  /\ \A sc \in Nat : sc # Z!None
<1>1. \A x \in Z!Nodes : Z!Member(x) \in Members /\ x # Z!Nil
  BY DEF Z!Nodes, Z!Member, Z!Nil
<1>2. \A m \in Members, c \in 1 .. MaxCopies : <<m, c>> \in Z!Nodes /\ Z!Member(<<m, c>>) = m
  BY DEF Z!Nodes, Z!Member
<1>3. \A sc \in Nat : sc # Z!None
  BY DEF Z!None
<1> QED BY <1>1, <1>2, <1>3

\* What Zset.Delete leaves of the skiplist: only nodes of m are gone, and of an m
\* that never shared a score all are.
LEMMA WithoutIs ==
  ASSUME ZsetInv, NEW m \in Members, NEW d, d = Z!Without(m)
  PROVE  /\ Skiplist(d.chain, d.level, value)
         /\ \A y : In(d.chain[0], y) => Listed(y)
         /\ \A y : Listed(y) /\ Z!Member(y) # m => In(d.chain[0], y)
         /\ m \notin tied => \A y : In(d.chain[0], y) => Z!Member(y) # m
<1>1. Skiplist(chain, level, value) /\ DictFits /\ ScoreIs(m) /\ OnlyOne(m) /\ TiesKnown
  BY DEF ZsetInv
<1>2. CASE dict[m] = Z!Nil
  <2>1. d = [chain |-> chain, level |-> level]
    BY <1>2, Zenon DEF Z!Without, Z!Unchanged
  <2>2. d.chain = chain /\ d.level = level
    BY <2>1
  <2>3. \A y : Listed(y) => y \in Z!Nodes
    BY <1>1, LevelsAre, ListedAre DEF Listed, Skiplist, Nested
  <2>4. m \notin tied => \A y : Listed(y) => Z!Member(y) # m
    BY <1>1, <1>2, <2>3, NodesAre DEF OnlyOne
  <2> QED BY <1>1, <2>2, <2>4 DEF Listed
<1>3. CASE dict[m] # Z!Nil
  <2>1. PICK x : x = dict[m]
    OBVIOUS
  <2>2. x \in Z!Nodes /\ Z!Member(x) = m
    BY <1>1, <1>3, <2>1 DEF DictFits
  <2>3. PICK sc : sc = value[x]
    OBVIOUS
  <2>4. sc \in Nat
    BY <1>1, <2>2, <2>3 DEF Skiplist
  <2>5. d = Z!Delete(m, sc)
    BY <1>3, <2>1, <2>3, Zenon DEF Z!Without
  <2>6. Deleted(d, m, sc)
    BY <1>1, <2>4, <2>5, DeleteKeeps
  <2>7. Skiplist(d.chain, d.level, value)
    BY <2>6 DEF Deleted
  <2>8. \A y : In(d.chain[0], y) => Listed(y)
    BY <2>6, LevelsAre DEF Deleted, TakenOut, Listed
  <2>9. \A y : Listed(y) /\ Z!Member(y) # m => In(d.chain[0], y)
    BY <2>6, LevelsAre DEF Deleted, TakenOut, Listed
  <2>10. ASSUME m \notin tied, NEW y, In(d.chain[0], y) PROVE Z!Member(y) # m
    <3> SUFFICES ASSUME Z!Member(y) = m PROVE FALSE
      OBVIOUS
    <3>1. Listed(y) /\ y = x /\ Listed(x)
      BY <1>1, <2>1, <2>8, <2>10 DEF OnlyOne
    <3>2. \A w : Listed(w) /\ w # x => value[w] # value[x]
      <4> SUFFICES ASSUME NEW w, Listed(w), w # x, value[w] = value[x] PROVE FALSE
        OBVIOUS
      <4>1. Z!Member(w) = m
        BY <1>1, <2>2, <2>10, <3>1 DEF TiesKnown
      <4>2. w = x
        BY <1>1, <2>1, <2>10, <4>1 DEF OnlyOne
      <4> QED BY <4>2
    <3>3. TakenOut(Z!Delete(Z!Member(x), value[x]).chain, chain, x)
      BY <1>1, <2>2, <3>1, <3>2, DeleteFinds
    <3>4. TakenOut(d.chain, chain, x)
      BY <2>2, <2>3, <2>5, <3>3
    <3>5. ~ In(d.chain[0], x)
      BY <3>4, LevelsAre DEF TakenOut
    <3> QED BY <2>10, <3>1, <3>5
  <2> QED BY <2>7, <2>8, <2>9, <2>10
<1> QED BY <1>2, <1>3

\* On names the listed nodes.
LEMMA OnIs == ASSUME NEW ch, NEW i, NEW y PROVE y \in Z!On(ch, i) <=> In(ch[i], y)
BY DEF Z!On, In

\* What the new state keeps of the scores, and that it knows the new ties.
LEMMA BecomesIs ==
  ASSUME tied \subseteq Members, NEW ch, NEW h, NEW val, Skiplist(ch, h, val), NEW d, Z!Becomes(val, ch, d)
  PROVE  /\ chain' = ch /\ dict' = d
         /\ Skiplist(ch, h, value')
         /\ \A y : In(ch[0], y) => value'[y] = val[y]
         /\ tied \subseteq tied' /\ tied' \subseteq Members
         /\ TiesKnown'
<1>1. /\ value' = [x \in Z!Nodes |-> IF x \in Z!On(ch, 0) \/ d[Z!Member(x)] = x THEN val[x] ELSE 0]
      /\ chain' = ch /\ dict' = d
      /\ tied' = tied \cup Z!Tied(val, ch)
  BY DEF Z!Becomes
<1>2. val \in [Z!Nodes -> Nat]
  BY DEF Skiplist
<1>3. value' \in [Z!Nodes -> Nat]
  BY <1>1, <1>2
<1>4. \A y : In(ch[0], y) => y \in Z!Nodes
  BY LevelsAre, ListedAre DEF Skiplist, Nested
<1>5. ASSUME NEW y, In(ch[0], y) PROVE value'[y] = val[y]
  <2>1. y \in Z!Nodes /\ y \in Z!On(ch, 0)
    BY <1>4, <1>5, OnIs
  <2> QED BY <1>1, <2>1
<1>6. Skiplist(ch, h, value')
  BY <1>3, <1>5, RevaluedKeeps
<1>7. Z!Tied(val, ch) = {Z!Member(x) : x \in {x \in Z!On(ch, 0) : \E y \in Z!On(ch, 0) :
                                                val[y] = val[x] /\ Z!Member(y) # Z!Member(x)}}
  BY Zenon DEF Z!Tied
<1>8. tied' \subseteq Members
  <2>1. \A x \in Z!On(ch, 0) : Z!Member(x) \in Members
    BY <1>4, OnIs, NodesAre
  <2> QED BY <1>1, <1>7, <2>1
<1>9. TiesKnown'
  <2> SUFFICES ASSUME NEW x, NEW y, In(ch[0], x), In(ch[0], y), value'[y] = value'[x],
                      Z!Member(y) # Z!Member(x)
               PROVE  Z!Member(x) \in tied'
    BY <1>1 DEF TiesKnown, Listed
  <2>1. x \in Z!On(ch, 0) /\ y \in Z!On(ch, 0) /\ val[y] = val[x]
    BY <1>5, OnIs
  <2> QED BY <1>1, <1>7, <2>1
<1> QED BY <1>1, <1>5, <1>6, <1>8, <1>9

\* ZREM keeps the invariant.
LEMMA ZremOK == ASSUME ZsetInv, NEW m \in Members, Z!Zrem(m) PROVE ZsetInv'
<1>1. PICK d : d = Z!Without(m)
  OBVIOUS
<1>2. Z!Becomes(value, d.chain, dict) /\ level' = d.level /\ score' = [score EXCEPT ![m] = Z!None]
  BY <1>1, Zenon DEF Z!Zrem
<1>3. /\ Skiplist(d.chain, d.level, value)
      /\ \A y : In(d.chain[0], y) => Listed(y)
      /\ \A y : Listed(y) /\ Z!Member(y) # m => In(d.chain[0], y)
      /\ m \notin tied => \A y : In(d.chain[0], y) => Z!Member(y) # m
  BY <1>1, WithoutIs
<1>4. DictFits /\ tied \subseteq Members /\ \A k \in Members : ScoreIs(k) /\ OnlyOne(k)
  BY DEF ZsetInv
<1>5. /\ chain' = d.chain /\ dict' = dict
      /\ Skiplist(d.chain, d.level, value')
      /\ \A y : In(d.chain[0], y) => value'[y] = value[y]
      /\ tied \subseteq tied' /\ tied' \subseteq Members
      /\ TiesKnown'
  BY <1>2, <1>3, <1>4, BecomesIs
<1>6. Skiplist(chain', level', value')
  BY <1>2, <1>5
<1>7. score' \in [Members -> Int] /\ score'[m] = Z!None /\ \A k \in Members : k # m => score'[k] = score[k]
  BY <1>2, <1>4 DEF DictFits, Z!None
<1>8. DictFits'
  BY <1>4, <1>5, <1>7 DEF DictFits
<1>9. \A y : Listed(y)' <=> In(d.chain[0], y)
  BY <1>5 DEF Listed
<1>10. \A y : Listed(y) => y \in Z!Nodes
  BY LevelsAre, ListedAre DEF Listed, ZsetInv, Skiplist, Nested
<1>11. ASSUME NEW k \in Members PROVE ScoreIs(k)'
  <2> SUFFICES ASSUME score'[k] # Z!None PROVE Listed(dict[k])' /\ value'[dict[k]] = score'[k]
    BY <1>5 DEF ScoreIs
  <2>1. k # m /\ score'[k] = score[k]
    BY <1>7
  <2>2. Listed(dict[k]) /\ value[dict[k]] = score[k]
    BY <1>4, <2>1 DEF ScoreIs
  <2>3. Z!Member(dict[k]) = k
    BY <1>4, <1>10, <2>2, NodesAre DEF DictFits
  <2>4. In(d.chain[0], dict[k])
    BY <1>3, <2>1, <2>2, <2>3
  <2> QED BY <1>5, <1>9, <2>1, <2>2, <2>4
<1>12. ASSUME NEW k \in Members PROVE OnlyOne(k)'
  <2> SUFFICES ASSUME k \notin tied', NEW x, In(d.chain[0], x), Z!Member(x) = k
               PROVE  score'[k] # Z!None /\ x = dict[k]
    BY <1>5, <1>9 DEF OnlyOne
  <2>1. k \notin tied /\ Listed(x)
    BY <1>3, <1>5
  <2>2. k # m
    BY <1>3, <2>1
  <2> QED BY <1>4, <1>7, <2>1, <2>2 DEF OnlyOne
<1> QED BY <1>5, <1>6, <1>8, <1>11, <1>12 DEF ZsetInv

\* ZADD keeps it.
LEMMA ZaddOK == ASSUME ZsetInv, NEW m \in Members, NEW sc \in Scores, Z!Zadd(m, sc) PROVE ZsetInv'
<1>1. PICK d : d = Z!Without(m)
  OBVIOUS
<1>2. PICK free : free = {c \in 1 .. MaxCopies : <<m, c>> \notin Z!On(d.chain, 0) \cup {dict[m]}}
  OBVIOUS
<1>3. PICK x : x = <<m, CHOOSE c \in free : TRUE>>
  OBVIOUS
<1>4. PICK val : val = [value EXCEPT ![x] = sc]
  OBVIOUS
<1>5. /\ free # {}
      /\ \E lvl \in Z!RandomLevel :
           /\ Z!Becomes(val, Z!Insert(d.chain, d.level, val, x, lvl), Z!Entered(m, x))
           /\ level' = IF lvl > d.level THEN lvl ELSE d.level
      /\ score' = [score EXCEPT ![m] = sc]
  BY <1>1, <1>2, <1>3, <1>4, Zenon DEF Z!Zadd
<1>6. PICK lvl \in Z!Levels :
        /\ Z!Becomes(val, Z!Insert(d.chain, d.level, val, x, lvl), Z!Entered(m, x))
        /\ level' = IF lvl > d.level THEN lvl ELSE d.level
  BY <1>5, Zenon DEF Z!RandomLevel
<1>7. x \in Z!Nodes /\ Z!Member(x) = m /\ ~ In(d.chain[0], x)
  <2>1. PICK c : c = CHOOSE c0 \in free : TRUE
    OBVIOUS
  <2>2. c \in free
    BY <1>5, <2>1
  <2>3. x = <<m, c>> /\ c \in 1 .. MaxCopies /\ x \notin Z!On(d.chain, 0)
    BY <1>2, <1>3, <2>1, <2>2
  <2> QED BY <2>3, NodesAre, OnIs
<1>8. sc \in Nat
  BY ConstantsAssumption DEF Z!ConstantsFit
<1>9. /\ Skiplist(d.chain, d.level, value)
      /\ \A y : In(d.chain[0], y) => Listed(y)
      /\ \A y : Listed(y) /\ Z!Member(y) # m => In(d.chain[0], y)
      /\ m \notin tied => \A y : In(d.chain[0], y) => Z!Member(y) # m
  BY <1>1, WithoutIs
<1>10. DictFits /\ tied \subseteq Members /\ \A k \in Members : ScoreIs(k) /\ OnlyOne(k)
  BY DEF ZsetInv
<1>11. val \in [Z!Nodes -> Nat] /\ val[x] = sc /\ \A y \in Z!Nodes : y # x => val[y] = value[y]
  BY <1>4, <1>7, <1>8, <1>9 DEF Skiplist
<1>12. \A y : In(d.chain[0], y) => y \in Z!Nodes /\ y # x
  BY <1>7, <1>9, LevelsAre, ListedAre DEF Skiplist, Nested
<1>13. Skiplist(d.chain, d.level, val)
  BY <1>9, <1>11, <1>12, RevaluedKeeps
<1>14. PICK e : e = Z!Insert(d.chain, d.level, val, x, lvl)
  OBVIOUS
<1>15. PICK A : A = {y \in Z!Nodes : val[y] < val[x]}
  OBVIOUS
<1>16. PutIn(e, d.chain, A, x, lvl)
  <2>1. /\ Nested(d.chain) /\ d.level \in Z!Levels
        /\ \A i \in Z!Levels : i > d.level => d.chain[i] = <<>>
    BY <1>13 DEF Skiplist, Flat
  <2>2. ASSUME NEW y, NEW z, Bef(d.chain[0], y, z), z \in A PROVE y \in A
    <3>1. val[y] <= val[z]
      BY <1>13, <2>2 DEF Skiplist, Ordered
    <3>2. y \in Z!Nodes
      BY <1>12, <2>1, <2>2, LevelsAre, ListedAre DEF Nested
    <3>3. val[y] \in Nat /\ val[z] \in Nat /\ val[x] \in Nat /\ val[z] < val[x]
      BY <1>7, <1>11, <1>15, <2>2, <3>2
    <3>4. val[y] < val[x]
      BY <3>1, <3>3
    <3> QED BY <1>15, <3>2, <3>4
  <2> QED BY <1>7, <1>14, <1>15, <2>1, <2>2, InsertIs
<1>17. Skiplist(e, level', val)
  BY <1>6, <1>7, <1>13, <1>15, <1>16, PutInKeeps
<1>18. /\ chain' = e /\ dict' = Z!Entered(m, x)
       /\ Skiplist(e, level', value')
       /\ \A y : In(e[0], y) => value'[y] = val[y]
       /\ tied \subseteq tied' /\ tied' \subseteq Members
       /\ TiesKnown'
  BY <1>6, <1>10, <1>14, <1>17, BecomesIs
<1>19. \A y : Listed(y)' <=> In(d.chain[0], y) \/ y = x
  <2>1. 0 \in Z!Levels /\ 0 <= lvl
    BY LevelsAre
  <2> QED BY <1>16, <1>18, <2>1 DEF PutIn, Listed
<1>20. score' \in [Members -> Int] /\ score'[m] = sc /\ \A k \in Members : k # m => score'[k] = score[k]
  BY <1>5, <1>8, <1>10 DEF DictFits
<1>21. dict' \in [Members -> Z!Nodes \cup {Z!Nil}] /\ dict'[m] = x /\ \A k \in Members : k # m => dict'[k] = dict[k]
  BY <1>7, <1>10, <1>18 DEF DictFits, Z!Entered
<1>22. DictFits'
  <2>1. \A k \in Members : dict'[k] # Z!Nil => Z!Member(dict'[k]) = k
    BY <1>7, <1>10, <1>21 DEF DictFits
  <2> QED BY <1>20, <1>21, <2>1 DEF DictFits
<1>24. \A y : Listed(y) => y \in Z!Nodes
  BY LevelsAre, ListedAre DEF Listed, ZsetInv, Skiplist, Nested
<1>25. ASSUME NEW k \in Members PROVE ScoreIs(k)'
  <2>1. ScoreIs(k)' <=> (score'[k] # Z!None => In(e[0], dict'[k]) /\ value'[dict'[k]] = score'[k])
    BY <1>18 DEF ScoreIs, Listed
  <2>2. \A y : In(e[0], y) <=> In(d.chain[0], y) \/ y = x
    BY <1>18, <1>19 DEF Listed
  <2>3. CASE k = m
    <3>1. In(e[0], x) /\ value'[x] = sc
      BY <1>11, <1>18, <2>2
    <3> QED BY <1>20, <1>21, <2>1, <2>3, <3>1
  <2>4. CASE k # m
    <3> SUFFICES ASSUME score'[k] # Z!None PROVE In(e[0], dict'[k]) /\ value'[dict'[k]] = score'[k]
      BY <2>1
    <3>1. score'[k] = score[k] /\ dict'[k] = dict[k]
      BY <1>20, <1>21, <2>4
    <3>2. Listed(dict[k]) /\ value[dict[k]] = score[k] /\ dict[k] \in Z!Nodes
      BY <1>10, <1>24, <3>1 DEF ScoreIs
    <3>3. Z!Member(dict[k]) = k
      BY <1>10, <3>2, NodesAre DEF DictFits
    <3>4. In(d.chain[0], dict[k])
      BY <1>9, <2>4, <3>2, <3>3
    <3>5. In(e[0], dict[k]) /\ value'[dict[k]] = value[dict[k]]
      BY <1>11, <1>12, <1>18, <2>2, <3>2, <3>4
    <3> QED BY <3>1, <3>2, <3>5
  <2> QED BY <2>3, <2>4
<1>26. ASSUME NEW k \in Members PROVE OnlyOne(k)'
  <2> SUFFICES ASSUME k \notin tied', NEW y, In(d.chain[0], y) \/ y = x, Z!Member(y) = k
               PROVE  score'[k] # Z!None /\ y = dict'[k]
    BY <1>19 DEF OnlyOne
  <2>1. k \notin tied
    BY <1>18
  <2>2. CASE k = m
    <3>1. y = x
      BY <1>9, <2>1, <2>2
    <3> QED BY <1>8, <1>20, <1>21, <2>2, <3>1, NodesAre
  <2>3. CASE k # m
    <3>1. Listed(y)
      BY <1>7, <1>9, <2>3
    <3> QED BY <1>10, <1>20, <1>21, <2>1, <2>3, <3>1 DEF OnlyOne
  <2> QED BY <2>2, <2>3
<1> QED BY <1>18, <1>22, <1>25, <1>26 DEF ZsetInv

-----------------------------------------------------------------------------
\* No nodes are a skiplist.
LEMMA SkiplistOfNone ==
  ASSUME NEW ch, ch = [i \in Z!Levels |-> <<>>], NEW val, val = [x \in Z!Nodes |-> 0]
  PROVE  Skiplist(ch, 0, val) /\ \A y : ~ In(ch[0], y)
<1>1. ASSUME NEW i \in Z!Levels PROVE ch[i] = <<>> /\ Len(ch[i]) = 0
  OBVIOUS
<1>2. \A i \in Z!Levels : \A y : ~ In(ch[i], y)
  BY <1>1 DEF In
<1>3. \A i \in Z!Levels : \A y, z : ~ Bef(ch[i], y, z)
  BY <1>1 DEF Bef
<1>4. ch \in [Z!Levels -> Seq(Z!Nodes)]
  OBVIOUS
<1>5. Nested(ch)
  BY <1>2, <1>3, <1>4 DEF Nested
<1>6. val \in [Z!Nodes -> Nat]
  OBVIOUS
<1>7. Ordered(ch, val) /\ Flat(ch, 0)
  BY <1>1, <1>3, LevelsAre DEF Ordered, Flat
<1> QED BY <1>2, <1>5, <1>6, <1>7, LevelsAre DEF Skiplist

\* The first state has an empty sorted set.
LEMMA ZsetInit == Init => ZsetInv
<1> SUFFICES ASSUME Init PROVE ZsetInv
  OBVIOUS
<1>1. /\ value = [x \in Z!Nodes |-> 0] /\ chain = [i \in Z!Levels |-> <<>>] /\ level = 0
      /\ dict = [m \in Members |-> Z!Nil] /\ score = [m \in Members |-> Z!None] /\ tied = {}
  BY DEF Init, Z!Init
<1>2. Skiplist(chain, level, value) /\ \A y : ~ Listed(y)
  BY <1>1, SkiplistOfNone DEF Listed
<1>3. DictFits
  BY <1>1 DEF DictFits, Z!None
<1>4. \A m \in Members : ScoreIs(m) /\ OnlyOne(m)
  BY <1>1, <1>2 DEF ScoreIs, OnlyOne
<1>5. TiesKnown
  BY <1>2 DEF TiesKnown
<1> QED BY <1>1, <1>2, <1>3, <1>4, <1>5 DEF ZsetInv

\* A value that is dropped leaves an empty one.
LEMMA ZsetCleared == Z!Clear => ZsetInv'
<1> SUFFICES ASSUME Z!Clear PROVE ZsetInv'
  OBVIOUS
<1>1. /\ value' = [x \in Z!Nodes |-> 0] /\ chain' = [i \in Z!Levels |-> <<>>] /\ level' = 0
      /\ dict' = [m \in Members |-> Z!Nil] /\ score' = [m \in Members |-> Z!None] /\ tied' = {}
  BY DEF Z!Clear
<1>2. Skiplist(chain', level', value') /\ \A y : ~ Listed(y)'
  BY <1>1, SkiplistOfNone DEF Listed
<1>3. DictFits'
  BY <1>1 DEF DictFits, Z!None
<1>4. \A m \in Members : ScoreIs(m)' /\ OnlyOne(m)'
  BY <1>1, <1>2 DEF ScoreIs, OnlyOne
<1>5. TiesKnown'
  BY <1>2 DEF TiesKnown
<1> QED BY <1>1, <1>2, <1>3, <1>4, <1>5 DEF ZsetInv

\* A command that leaves the sorted set alone keeps the invariant.
LEMMA ZsetKept == ZsetInv /\ UNCHANGED zset => ZsetInv'
BY Zenon DEF zset, ZsetInv, DictFits, ScoreIs, OnlyOne, TiesKnown, Listed

\* Every action keeps it: most of them leave the sorted set alone or start it anew.
LEMMA ZsetStep == ZsetInv /\ [Next]_vars => ZsetInv'
<1> SUFFICES ASSUME ZsetInv, [Next]_vars PROVE ZsetInv'
  OBVIOUS
<1> USE ZsetCleared, ZsetKept
<1>1. CASE SetCmd
  BY <1>1, Zenon DEF SetCmd, Dropped
<1>2. CASE DelCmd
  BY <1>2, Zenon DEF DelCmd, Dropped
<1>3. CASE AssertionFails
  BY <1>3, Zenon DEF AssertionFails, Dropped
<1>4. CASE GeohashOfNoKey
  BY <1>4, Zenon DEF GeohashOfNoKey, Dropped
<1>5. CASE GeoaddCutShort
  BY <1>5, Zenon DEF GeoaddCutShort, Dropped
<1>6. CASE LpushCmd
  BY <1>6, Zenon DEF LpushCmd, OnlyList
<1>7. CASE RpushCmd
  BY <1>7, Zenon DEF RpushCmd, OnlyList
<1>8. CASE LlenCmd
  BY <1>8, Zenon DEF LlenCmd, OnlyList
<1>9. CASE \E n \in Counts : LpopCmd(n)
  BY <1>9, Zenon DEF LpopCmd, OnlyList
<1>10. CASE \E i, j \in Indices : LrangeCmd(i, j)
  BY <1>10, Zenon DEF LrangeCmd, OnlyList
<1>11. CASE \E m \in Members, sc \in Scores : ZaddCmd(m, sc)
  <2>1. PICK m \in Members, sc \in Scores : Z!Zadd(m, sc)
    BY <1>11, Zenon DEF ZaddCmd
  <2> QED BY <2>1, ZaddOK
<1>12. CASE \E m \in Members : ZremCmd(m)
  <2>1. PICK m \in Members : Z!Zrem(m)
    BY <1>12, Zenon DEF ZremCmd
  <2> QED BY <2>1, ZremOK
<1>13. CASE SaddCmd
  BY <1>13, Zenon DEF SaddCmd, OnlySet
<1>14. CASE SremCmd
  BY <1>14, Zenon DEF SremCmd, OnlySet
<1>15. CASE \E s \in Shapes : BfReserveCmd(s)
  BY <1>15, Zenon DEF BfReserveCmd, Dropped
<1>16. CASE \E x \in Items : BfAddCmd(x)
  BY <1>16, Zenon DEF BfAddCmd, Dropped, OnlyBits
<1>17. CASE GeoaddCmd
  BY <1>17, Zenon DEF GeoaddCmd, OnlyGeo
<1>18. CASE UNCHANGED vars
  BY <1>18, Zenon DEF vars
<1> QED BY <1>1, <1>2, <1>3, <1>4, <1>5, <1>6, <1>7, <1>8, <1>9, <1>10, <1>11, <1>12, <1>13,
           <1>14, <1>15, <1>16, <1>17, <1>18, Zenon DEF Next

\* ZRANGE over everything is the lowest level.
LEMMA RangeAll ==
  ASSUME NEW S, chain[0] \in Seq(S), NEW c, c = Z!Zrange(0, Len(chain[0]))
  PROVE  Len(c) = Len(chain[0]) /\ \A j \in 1 .. Len(chain[0]) : c[j] = chain[0][j]
<1>1. PICK n \in Nat : n = Len(chain[0])
  BY LenProperties
<1>2. c = SubSeq(chain[0], (IF 0 < 0 THEN 0 ELSE 0) + 1, IF n + 1 > n THEN n ELSE n + 1)
  BY <1>1, Zenon DEF Z!Zrange
<1>3. (IF 0 < 0 THEN 0 ELSE 0) + 1 = 1 /\ (IF n + 1 > n THEN n ELSE n + 1) = n
  OBVIOUS
<1>4. c = SubSeq(chain[0], 1, n)
  BY <1>2, <1>3, Zenon
<1>5. n \in 0 .. Len(chain[0])
  BY <1>1
<1>6. Len(c) = n /\ \A j \in 1 .. n : c[j] = chain[0][j]
  BY <1>4, <1>5, FirstOnes, Zenon
<1> QED BY <1>1, <1>6, Zenon

\* The invariant says that the skiplist is well formed.
LEMMA ZsetFormed == ZsetInv => Z!WellFormed
<1> SUFFICES ASSUME ZsetInv PROVE Z!WellFormed
  OBVIOUS
<1>1. Nested(chain) /\ level \in Z!Levels /\ value \in [Z!Nodes -> Nat] /\ Ordered(chain, value)
      /\ (level = 0 \/ chain[level] # <<>>) /\ Flat(chain, level)
  BY DEF ZsetInv, Skiplist
<1>2. Z!TypeOK
  BY <1>1 DEF Z!TypeOK, ZsetInv, DictFits, Nested
<1>3. PICK c : c = Z!Zrange(0, Len(chain[0]))
  OBVIOUS
<1>4. chain[0] \in Seq(Z!Nodes) /\ \A y : ~ Bef(chain[0], y, y)
  BY <1>1, LevelsAre DEF Nested
<1>5. PICK n \in Nat : n = Len(chain[0])
  BY <1>4, LenProperties
<1>6. Len(c) = n /\ \A j \in 1 .. n : c[j] = chain[0][j]
  BY <1>3, <1>4, <1>5, RangeAll
<1>7. \A i, j \in 1 .. Len(c) : i < j => value[c[i]] <= value[c[j]] /\ c[i] # c[j]
  <2> SUFFICES ASSUME NEW i \in 1 .. n, NEW j \in 1 .. n, i < j PROVE value[c[i]] <= value[c[j]] /\ c[i] # c[j]
    BY <1>6
  <2>1. Bef(chain[0], c[i], c[j])
    BY <1>5, <1>6 DEF Bef
  <2> QED BY <1>1, <1>4, <2>1 DEF Ordered
<1>8. \A i \in Z!Levels \ {0} :
        /\ Z!On(chain, i) \subseteq Z!On(chain, i - 1)
        /\ \A x, y \in Z!On(chain, i) : Z!Before(chain, i, x, y) => Z!Before(chain, i - 1, x, y)
  <2> TAKE i \in Z!Levels \ {0}
  <2>1. \A y : In(chain[i], y) => In(chain[i - 1], y)
    BY <1>1 DEF Nested
  <2>2. \A x, y : Bef(chain[i], x, y) => Bef(chain[i - 1], x, y)
    BY <1>1 DEF Nested
  <2>3. \A x, y : Z!Before(chain, i, x, y) => Z!Before(chain, i - 1, x, y)
    BY <2>2, Zenon DEF Z!Before, Bef
  <2>4. Z!On(chain, i) \subseteq Z!On(chain, i - 1)
    BY <2>1, OnIs
  <2> QED BY <2>3, <2>4
<1>9. \A i \in Z!Levels : i > level => chain[i] = <<>>
  BY <1>1 DEF Flat
<1> QED BY <1>1, <1>2, <1>3, <1>7, <1>8, <1>9, Zenon DEF Z!WellFormed

\* It says that ZRANGE and ZSCORE tell what was added.
LEMMA ZsetExact == ZsetInv => Z!RangeIsExact
<1> SUFFICES ASSUME ZsetInv, NEW m \in Members
             PROVE  /\ score[m] # Z!None => Z!Zscore(m) = score[m] /\ dict[m] \in Z!On(chain, 0)
                    /\ m \notin tied =>
                         {x \in Z!On(chain, 0) : Z!Member(x) = m} = IF score[m] = Z!None THEN {} ELSE {dict[m]}
  BY Zenon DEF Z!RangeIsExact
<1>1. ScoreIs(m) /\ OnlyOne(m) /\ DictFits
  BY DEF ZsetInv
<1>2. \A y : y \in Z!On(chain, 0) <=> Listed(y)
  BY OnIs DEF Listed
<1>3. \A y : Listed(y) => y \in Z!Nodes
  BY LevelsAre, ListedAre DEF Listed, ZsetInv, Skiplist, Nested
<1>4. ASSUME score[m] # Z!None
      PROVE  Z!Zscore(m) = score[m] /\ dict[m] \in Z!On(chain, 0) /\ Z!Member(dict[m]) = m
  <2>1. Listed(dict[m]) /\ value[dict[m]] = score[m]
    BY <1>1, <1>4 DEF ScoreIs
  <2>2. dict[m] # Z!Nil
    BY <1>3, <2>1, NodesAre
  <2> QED BY <1>1, <1>2, <2>1, <2>2 DEF Z!Zscore, DictFits
<1>5. ASSUME m \notin tied
      PROVE  {x \in Z!On(chain, 0) : Z!Member(x) = m} = IF score[m] = Z!None THEN {} ELSE {dict[m]}
  BY <1>1, <1>2, <1>4, <1>5 DEF OnlyOne
<1> QED BY <1>4, <1>5

\* The skiplist of a sorted set stays one, in every sequence of commands and for any
\* members, scores and heights: through ties, on which Delete misses its node, no
\* walk ever takes a node out of some of its levels only.
THEOREM SkiplistsAreWellFormed == Spec => []SkiplistWellFormed
<1>1. Init => ZsetInv
  BY ZsetInit
<1>2. ZsetInv /\ [Next]_vars => ZsetInv'
  BY ZsetStep
<1>3. ZsetInv => SkiplistWellFormed
  BY ZsetFormed DEF SkiplistWellFormed
<1> QED BY <1>1, <1>2, <1>3, PTL DEF Spec

\* ZSCORE and ZRANGE tell the score a member was given, and a member that never
\* shared its score with another is listed once if it was added, and not at all if it
\* was removed.
THEOREM RangesAreExact == Spec => []RangeIsExact
<1>1. Init => ZsetInv
  BY ZsetInit
<1>2. ZsetInv /\ [Next]_vars => ZsetInv'
  BY ZsetStep
<1>3. ZsetInv => RangeIsExact
  BY ZsetExact DEF RangeIsExact
<1> QED BY <1>1, <1>2, <1>3, PTL DEF Spec
=============================================================================
