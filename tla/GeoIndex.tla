------------------------------- MODULE GeoIndex -------------------------------
(***************************************************************************)
(* One geospatial index: the map and the trie of ds/geohash.go and         *)
(* ds/binary_trie.go under GEOADD and GEOSEARCH (store/geospatial_cmd.go). *)
(*                                                                         *)
(* Coordinates are integers, Unit to a degree, so that the halvings of     *)
(* geoHash are exact, as those of the code are.  geoHash puts its 20 bits  *)
(* into one word, and the trie branches on words: it has two leaves.       *)
(***************************************************************************)
EXTENDS Integers, Sequences, SequencesExt

CONSTANTS
  Places,       \* the places, as [lat, lon]
  Pins,         \* the members of the index
  Unit,         \* 2^10: ten halvings of each range
  MaxGeoadd,    \* bound on the members of one GEOADD
  MaxListed     \* bound on the members in the leaves

VARIABLES
  trie,         \* the members in each leaf, by the words that lead there
  index         \* the entry of each member, Nowhere if it has none

Precision == 20                     \* the bits of geoHash, in every call
WordCount == (Precision + 63) \div 64

Paths   == [1 .. WordCount -> BOOLEAN]
Nowhere == [lat |-> 1000 * Unit, lon |-> 1000 * Unit]

\* Nowhere stands for the entry that is not there.
ConstantsFit == Nowhere \notin Places

NewTrie  == [p \in Paths |-> <<>>]
NewIndex == [m \in Pins |-> Nowhere]

Clear == trie' = NewTrie /\ index' = NewIndex

Init == trie = NewTrie /\ index = NewIndex

-----------------------------------------------------------------------------
\* The half of a range that x is in, and whether that is the upper one.
Upper(r, x)  == x > (r[1] + r[2]) \div 2
Halved(r, x) ==
  LET mid == (r[1] + r[2]) \div 2
  IN  IF Upper(r, x) THEN <<mid, r[2]>> ELSE <<r[1], mid>>

\* The words of the hash of a place, each the set of its bits that are one; bits
\* of longitude and latitude alternate.
GeoHash(place) ==
  LET at[i \in 0 .. Precision] ==
        IF i = 0 THEN [lon |-> <<-180 * Unit, 180 * Unit>>, lat |-> <<-90 * Unit, 90 * Unit>>, ones |-> {}]
        ELSE LET s     == at[i - 1]
                 isLon == i % 2 = 1
                 r     == IF isLon THEN s.lon ELSE s.lat
                 x     == IF isLon THEN place.lon ELSE place.lat
             IN  [lon  |-> IF isLon THEN Halved(r, x) ELSE s.lon,
                  lat  |-> IF isLon THEN s.lat ELSE Halved(r, x),
                  ones |-> IF Upper(r, x) THEN s.ones \cup {i - 1} ELSE s.ones]
  IN  [w \in 1 .. WordCount |->
         {63 - (i % 64) : i \in {i \in at[Precision].ones : i \div 64 = w - 1}}]

\* The walk of Trie.search and Trie.insert: for each word, `one` or `zero`.
Leaf(place) == LET h == GeoHash(place) IN [w \in 1 .. WordCount |-> h[w] # {}]

\* Fault: a member that is there already is not filed again.
InsertedOnce(g, m, place) ==
  [trie  |-> IF g.index[m] = Nowhere THEN [g.trie EXCEPT ![Leaf(place)] = Append(@, m)] ELSE g.trie,
   index |-> [g.index EXCEPT ![m] = place]]

\* GeoSpatial.Insert; an entry the member had in the trie stays where it was.
Inserted(g, m, place) ==
  [trie  |-> [g.trie EXCEPT ![Leaf(place)] = Append(@, m)],
   index |-> [g.index EXCEPT ![m] = place]]

Listed(t) == FoldLeft(LAMBDA n, p : n + Len(t[p]), 0, SetToSeq(Paths))

\* GEOADD of a few members.
Geoadd ==
  \E n \in 1 .. MaxGeoadd : \E a \in [1 .. n -> Pins \X Places] :
    LET after[i \in 0 .. n] ==
          IF i = 0 THEN [trie |-> trie, index |-> index] ELSE Inserted(after[i - 1], a[i][1], a[i][2])
    IN  /\ Listed(trie) + n <= MaxListed
        /\ trie' = after[n].trie
        /\ index' = after[n].index

\* GEOSEARCH
Geosearch(place) == trie[Leaf(place)]

TypeOK ==
  /\ trie \in [Paths -> Seq(Pins)]
  /\ index \in [Pins -> Places \cup {Nowhere}]

\* GEOSEARCH at the place of a member lists it, however often and from wherever it
\* moved, and lists nobody who was never added.
AddedIsListed ==
  /\ TypeOK
  /\ \A m \in Pins : index[m] # Nowhere => m \in ToSet(Geosearch(index[m]))
  /\ \A p \in Paths : \A m \in ToSet(trie[p]) : index[m] # Nowhere
=============================================================================
