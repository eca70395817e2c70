-------------------------------- MODULE Intset --------------------------------
(***************************************************************************)
(* One set of integers: the sorted array of 16-bit words of ds/intset.go,  *)
(* two bytes each, under SADD and SREM (store/set_cmd.go).                 *)
(***************************************************************************)
EXTENDS Integers, Sequences, FiniteSets

CONSTANTS
  Numerals,     \* the integers that arguments denote
  MaxSadd       \* bound on the arguments of one SADD

MinInt16 == -32768
MaxInt16 == 32767
Int16    == MinInt16 .. MaxInt16
Byte     == 0 .. 255

VARIABLES
  length,       \* is.length
  data          \* is.data

\* History, read by no action: the members for a client that saw the commands.
VARIABLE told

Clear ==
  /\ length' = 0
  /\ data' = <<>>
  /\ told' = {}

Init == length = 0 /\ data = <<>> /\ told = {}

-----------------------------------------------------------------------------
\* uint16(v), uint16(v) >> 8 and int16(u).
Low(v)    == v % 256
High(v)   == (v \div 256) % 256
Signed(u) == IF u >= 32768 THEN u - 65536 ELSE u

\* Fault: the sign is lost.
GetUnsigned(d, idx) == d[2 * idx + 1] + 256 * d[2 * idx + 2]

Get(d, idx) == Signed(d[2 * idx + 1] + 256 * d[2 * idx + 2])

\* The index of the last word that is at most v, or -1.
Search(d, v) ==
  LET size == Len(d) \div 2
      from[at \in (0 .. size) \X (-1 .. size - 1)] ==
        LET l   == at[1]
            r   == at[2]
            mid == (l + r) \div 2
        IN  IF r < l THEN l - 1        \* idx: l was set to idx + 1, or never
            ELSE IF Get(d, mid) <= v THEN from[<<mid + 1, r>>] ELSE from[<<l, mid - 1>>]
  IN  from[<<0, size - 1>>]

Has(d, v) == LET idx == Search(d, v) IN idx # -1 /\ Get(d, idx) = v

Set(d, v) ==
  LET insertAt == 2 * (Search(d, v) + 1)
  IN  IF Has(d, v) THEN d
      ELSE SubSeq(d, 1, insertAt) \o <<Low(v), High(v)>> \o SubSeq(d, insertAt + 1, Len(d))

Del(d, v) ==
  LET pos == 2 * Search(d, v)
  IN  IF Has(d, v) THEN SubSeq(d, 1, pos) \o SubSeq(d, pos + 3, Len(d)) ELSE d

-----------------------------------------------------------------------------
\* The commands change data; length counts its words.
Becomes(d) == data' = d /\ length' = Len(d) \div 2

\* SADD of the arguments a, on a set that has the data d (none, if it is new);
\* an argument that is no 16-bit integer is passed over.
Sadd(d) ==
  \E n \in 1 .. MaxSadd : \E a \in [1 .. n -> Numerals] :
    LET after[i \in 0 .. n] ==
          IF i = 0 THEN d
          ELSE IF a[i] \in Int16 THEN Set(after[i - 1], a[i]) ELSE after[i - 1]
    IN  /\ Becomes(after[n])
        /\ told' = told \cup {a[i] : i \in {i \in 1 .. n : a[i] \in Int16}}

Srem ==
  \E v \in Numerals \cap Int16 :
    /\ Becomes(Del(data, v))
    /\ told' = told \ {v}

Smembers     == [i \in 1 .. length |-> Get(data, i - 1)]
Sismember(v) == v \in Int16 /\ Has(data, v)

TypeOK == length \in Nat /\ data \in Seq(Byte)

\* A set is what was added and not removed, to every command that looks: SMEMBERS
\* lists it in order and without repetition, SCARD counts it, and SISMEMBER's
\* binary search, which SADD and SREM trust with the bytes, finds each of its
\* members and no other number, around zero, at the ends of the width and where
\* the bytes carry.
SetIsExact ==
  /\ TypeOK
  /\ Len(data) = 2 * length
  /\ {Smembers[i] : i \in 1 .. length} = told
  /\ \A i, j \in 1 .. length : i < j => Smembers[i] < Smembers[j]
  /\ \A v \in Numerals : Sismember(v) <=> v \in told
=============================================================================
