-------------------------------- MODULE Bloom --------------------------------
(***************************************************************************)
(* One Bloom filter: the words of bits of ds/bloom.go under BF.RESERVE,    *)
(* BF.ADD and BF.EXISTS (store/bloom_cmd.go).  The two hashes of an item   *)
(* are constants, and so are the sizes and numbers of hashes that          *)
(* NewBloomFilter computes from the arguments of BF.RESERVE: these are     *)
(* zero for an error rate of 1 and negative for one above.                 *)
(***************************************************************************)
EXTENDS Integers, FiniteSets

CONSTANTS
  Items,
  Hash1, Hash2,     \* hashes(item)
  Shapes            \* [size, k] of the filters that are reserved

\* The hashes are unsigned.
ConstantsFit ==
  /\ Hash1 \in [Items -> Nat] /\ Hash2 \in [Items -> Nat]
  /\ Shapes \subseteq [size : Int, k : Int]

VARIABLE bloom      \* filter, size and k of the BloomFilter

\* History, read by no action: what was added since the filter was reserved.
VARIABLE put

NoFilter == [size |-> 0, k |-> 0, filter |-> <<>>]

Clear == bloom' = NoFilter /\ put' = {}

Init == bloom = NoFilter /\ put = {}

\* (m + 63) / 64, rounded towards zero.
WordsFor(size) == IF size + 63 >= 0 THEN (size + 63) \div 64 ELSE -((-(size + 63)) \div 64)

\* make([]uint64, n) panics if n is negative.
Reservable(shape) == WordsFor(shape.size) >= 0

\* BF.RESERVE, whatever the key held.
Reserve(shape) ==
  /\ bloom' = [size   |-> shape.size, k |-> shape.k,
               filter |-> [w \in 0 .. WordsFor(shape.size) - 1 |-> {}]]
  /\ put' = {}

\* The bits of an item, as word and bit.
Bits(x) ==
  LET idx(i) == (Hash1[x] + i * Hash2[x]) % bloom.size
  IN  {<<idx(i) \div 64, idx(i) % 64>> : i \in 0 .. bloom.k - 1}

\* x % 0 panics.
Addable == bloom.k <= 0 \/ bloom.size > 0

SetAll(f, bits) == [w \in DOMAIN f |-> f[w] \cup {b[2] : b \in {b \in bits : b[1] = w}}]

\* BF.ADD
Add(x) ==
  /\ bloom' = [bloom EXCEPT !.filter = SetAll(@, Bits(x))]
  /\ put' = put \cup {x}

\* BF.EXISTS
Exists(x) == \A b \in Bits(x) : b[2] \in bloom.filter[b[1]]

TypeOK == put \subseteq Items /\ \A w \in DOMAIN bloom.filter : bloom.filter[w] \subseteq 0 .. 63

\* BF.EXISTS never misses an item that was added since the filter was reserved,
\* whatever else was: indices stay in the words there are, and no bit is lost.
AddedExists == TypeOK /\ \A x \in put : Exists(x)
=============================================================================
