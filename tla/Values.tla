-------------------------------- MODULE Values --------------------------------
(***************************************************************************)
(* One key and its value, of any type, under the commands that create,     *)
(* change or replace it.  The value's type says which of the data          *)
(* structures below it is; the others are as if they had never been.       *)
(*                                                                         *)
(* Some commands ask for the type (assertType) and answer an error; some   *)
(* assert the Go type of the value outright, and the process panics.       *)
(* Deadlines, eviction and signals are the key space's.                    *)
(***************************************************************************)
EXTENDS Integers, Sequences, FiniteSets

CONSTANTS
  Members, Scores, MaxCopies, MaxNodes, MaxLvl,                      \* SortedSet
  Elems, MaxArgs, MaxLen, Counts, Indices,                           \* Deque
  EntryLen, Chunks, HeaderSize, Estimated, MaxListpackBytes,         \* Quicklist
  Numerals, MaxSadd,                                                 \* Intset
  Items, Hash1, Hash2, Shapes,                                       \* Bloom
  Places, Pins, Unit, MaxGeoadd, MaxListed                           \* GeoIndex

VARIABLE kind       \* the type in the store, "none" if the key is not there,
                    \* "panicked" when the process is gone
VARIABLES value, chain, level, dict, score, tied
VARIABLES ql, reply
VARIABLES length, data, told
VARIABLES bloom, put
VARIABLES trie, index

zset == <<value, chain, level, dict, score, tied>>
list == <<ql, reply>>
set  == <<length, data, told>>
bits == <<bloom, put>>
geo  == <<trie, index>>
vars == <<kind, zset, list, set, bits, geo>>

Z == INSTANCE SortedSet
L == INSTANCE Quicklist WITH Nodes <- Chunks
I == INSTANCE Intset
B == INSTANCE Bloom
G == INSTANCE GeoIndex

ASSUME ConstantsAssumption == Z!ConstantsFit /\ L!ConstantsFit /\ B!ConstantsFit /\ G!ConstantsFit

Init ==
  /\ kind = "none"
  /\ Z!Init /\ L!Init /\ I!Init /\ B!Init /\ G!Init

OnlyZset == UNCHANGED <<list, set, bits, geo>>
OnlyList == UNCHANGED <<zset, set, bits, geo>>
OnlySet  == UNCHANGED <<zset, list, bits, geo>>
OnlyBits == UNCHANGED <<zset, list, set, geo>>
OnlyGeo  == UNCHANGED <<zset, list, set, bits>>

\* The old value is garbage.
Dropped(k) ==
  /\ kind' = k
  /\ Z!Clear /\ L!Clear /\ I!Clear /\ B!Clear /\ G!Clear

Running == kind # "panicked"
Held    == Running /\ kind # "none"

-----------------------------------------------------------------------------
\* SET (and INCR of no key)
SetCmd == Running /\ Dropped("string")

DelCmd == Held /\ Dropped("none")

\* A command that asserts *Intset, *BloomFilter, *GeoSpatial or *Quicklist meets a
\* value of another type: SADD and SCARD, BF.ADD, GEOADD and GEOHASH, LRANGE and LPOP.
AssertionFails == Held /\ \E k \in {"set", "bloom", "geo", "list"} \ {kind} : Dropped("panicked")

\* GEOHASH goes on after its null reply to a key that is not there.
GeohashOfNoKey == kind = "none" /\ Dropped("panicked")

\* GEOADD reads past its arguments when the last member is cut short.
GeoaddCutShort == kind \in {"none", "geo"} /\ Dropped("panicked")

LpushCmd ==
  \/ kind = "none" /\ kind' = "list" /\ L!LPush(L!NewQuicklist) /\ OnlyList
  \/ kind = "list" /\ kind' = "list" /\ L!LPush(ql) /\ OnlyList

RpushCmd ==
  \/ kind = "none" /\ kind' = "list" /\ L!RPush(L!NewQuicklist) /\ OnlyList
  \/ kind = "list" /\ kind' = "list" /\ L!RPush(ql) /\ OnlyList

\* A list stays when its last element is popped.
LpopCmd(count) ==
  /\ kind \in {"none", "list"}
  /\ L!LPop(count)
  /\ kind' = kind /\ OnlyList

LlenCmd ==
  /\ kind \in {"none", "list"}
  /\ L!LLen
  /\ kind' = kind /\ OnlyList

LrangeCmd(start, stop) ==
  /\ kind \in {"none", "list"}
  /\ L!LRange(start, stop)
  /\ kind' = kind /\ OnlyList

ZaddCmd(m, sc) == kind \in {"none", "zset"} /\ kind' = "zset" /\ Z!Zadd(m, sc) /\ OnlyZset

ZremCmd(m) == kind = "zset" /\ Z!Zrem(m) /\ UNCHANGED kind /\ OnlyZset

SaddCmd == kind \in {"none", "set"} /\ kind' = "set" /\ I!Sadd(data) /\ OnlySet

SremCmd == kind = "set" /\ I!Srem /\ UNCHANGED kind /\ OnlySet

\* BF.RESERVE never asks what the key holds.
BfReserveCmd(shape) ==
  /\ Running
  /\ IF B!Reservable(shape)
     THEN kind' = "bloom" /\ B!Reserve(shape) /\ Z!Clear /\ L!Clear /\ I!Clear /\ G!Clear
     ELSE Dropped("panicked")

BfAddCmd(x) ==
  /\ kind = "bloom"
  /\ IF B!Addable THEN B!Add(x) /\ UNCHANGED kind /\ OnlyBits ELSE Dropped("panicked")

GeoaddCmd == kind \in {"none", "geo"} /\ kind' = "geo" /\ G!Geoadd /\ OnlyGeo

Next ==
  \/ SetCmd
  \/ DelCmd
  \/ AssertionFails
  \/ GeohashOfNoKey
  \/ GeoaddCutShort
  \/ LpushCmd
  \/ RpushCmd
  \/ LlenCmd
  \/ \E n \in Counts : LpopCmd(n)
  \/ \E i, j \in Indices : LrangeCmd(i, j)
  \/ \E m \in Members, sc \in Scores : ZaddCmd(m, sc)
  \/ \E m \in Members : ZremCmd(m)
  \/ SaddCmd
  \/ SremCmd
  \/ \E s \in Shapes : BfReserveCmd(s)
  \/ \E x \in Items : BfAddCmd(x)
  \/ GeoaddCmd

Spec == Init /\ [][Next]_vars

\* No action reads the reply.
StateOnly == <<kind, zset, ql, set, bits, geo>>

-----------------------------------------------------------------------------
\* Whatever the key held before, its list is well formed: see Quicklist.
ListWellFormed == L!WellFormed

\* Chunks never show: what the list commands answer is what they would answer of
\* one sequence, wherever pushes split it and pops ended, and a key that is new, was
\* emptied, deleted or overwritten starts from the empty one.
Sequence == INSTANCE Deque WITH list <- L!Elements(ql)
ListImplementsDeque == Sequence!Spec

\* The skiplist of a sorted set is well formed: see SortedSet.
SkiplistWellFormed == Z!WellFormed

\* ZRANGE and ZSCORE tell what was added, up to ties: see SortedSet.
RangeIsExact == Z!RangeIsExact

\* SMEMBERS, SCARD and SISMEMBER tell what was added and not removed: see Intset.
SetIsExact == I!SetIsExact

\* What was added is found, by BF.EXISTS and by GEOSEARCH: see Bloom and GeoIndex.
AddedIsFound == B!AddedExists /\ G!AddedIsListed
=============================================================================
