--------------------------- MODULE AofRewriteProofs ---------------------------
(***************************************************************************)
(* Proof that the append-only file holds one state of the store, for any   *)
(* keys, lists and children.                                               *)
(*                                                                         *)
(* The invariant follows the file from its opening: as long as one child   *)
(* writes it, what it holds replays to the keys that child has dumped from *)
(* its copy (IsWritten), and when the last key is dumped that is the whole *)
(* copy (IsSnapshot).  A file is out of it (Spoilt) from the moment a      *)
(* second child has opened it, or a write to it has failed, to its next    *)
(* opening; a child whose opening failed holds no file at all.  It needs a *)
(* name to be given back only with a file that the child made itself: a    *)
(* child that has opened nothing has no file of its name anywhere (Fresh). *)
(*                                                                         *)
(* A replay is a fold, which is defined by recursion on sets of positions. *)
(* ReplayRuns turns it into the states it goes through, one for each       *)
(* prefix of the file; ReplayLonger and ReplayType are all the rest of the *)
(* module knows of it.                                                     *)
(***************************************************************************)
EXTENDS AofRewrite, SequenceTheorems, WellFoundedInduction, TLAPS

\* The order of the numbers as a set of pairs, the form WellFoundedInduction takes.
LEMMA NatOrder ==
  \E R : IsWellFoundedOn(R, Nat) /\ \A x, y \in Nat : <<y, x>> \in R <=> y < x
<1>1. \A x, y \in Nat : <<y, x>> \in OpToRel(<, Nat) <=> y < x
  BY DEF OpToRel
<1> QED BY <1>1, NatLessThanWellFounded

\* A set of numbers has a least one.
LEMMA NatLeast ==
  ASSUME NEW S \in SUBSET Nat, S # {}
  PROVE  \E x \in S : \A y \in S : x <= y
<1>1. PICK R : IsWellFoundedOn(R, Nat) /\ \A x, y \in Nat : <<y, x>> \in R <=> y < x
  BY NatOrder
<1>2. PICK x \in S : \A y \in S : ~ (<<y, x>> \in R)
  BY <1>1, WFMin
<1>3. \A y \in S : ~ (y < x)
  BY <1>1, <1>2
<1> QED BY <1>3

\* Induction over the numbers, for a set of them.
LEMMA NatInduct ==
  ASSUME NEW S, 0 \in S, \A n \in Nat : n \in S => n + 1 \in S
  PROVE  Nat \subseteq S
<1> SUFFICES ASSUME Nat \ S # {} PROVE FALSE
  OBVIOUS
<1>1. PICK n \in Nat \ S : \A m \in Nat \ S : n <= m
  BY NatLeast
<1>2. n # 0 /\ n - 1 \in Nat /\ n - 1 \notin Nat \ S
  BY <1>1
<1> QED BY <1>1, <1>2

\* The greatest of the first numbers.
LEMMA MaxIs ==
  ASSUME NEW n \in Nat, NEW S \in SUBSET (1 .. n), S # {}
  PROVE  Max(S) \in S /\ \A x \in S : x <= Max(S)
<1> DEFINE T == {n - x : x \in S}
<1>1. \A x \in S : x \in 1 .. n /\ n - x \in T
  OBVIOUS
<1>2. T \in SUBSET Nat
  OBVIOUS
<1>3. T # {}
  BY <1>1
<1>4. PICK y \in T : \A z \in T : y <= z
  <2> HIDE DEF T
  <2> QED BY <1>2, <1>3, NatLeast
<1>5. PICK x \in S : y = n - x
  OBVIOUS
<1>6. \A z \in S : z <= x
  <2> HIDE DEF T
  <2> QED BY <1>1, <1>4, <1>5
<1>7. \E m \in S : \A z \in S : m >= z
  BY <1>1, <1>6
<1>8. \A m \in S : (\A z \in S : m >= z) => \A z \in S : z <= m
  BY <1>1
<1>9. Max(S) = CHOOSE m \in S : \A z \in S : m >= z
  BY DEF Max
<1> QED BY <1>7, <1>8, <1>9

\* The last number is the greatest.
LEMMA MaxTop ==
  ASSUME NEW n \in Nat, NEW S \in SUBSET (1 .. n), n \in S
  PROVE  Max(S) = n
<1>1. Max(S) \in S /\ \A x \in S : x <= Max(S)
  BY MaxIs
<1>2. Max(S) \in 1 .. n
  BY <1>1
<1>3. n <= Max(S)
  BY <1>1
<1> QED BY <1>2, <1>3

\* What is left of the first n numbers without the greatest.
LEMMA MaxInterval ==
  ASSUME NEW n \in Nat \ {0}
  PROVE  Max(1 .. n) = n /\ (1 .. n) \ {n} = 1 .. n - 1
<1>1. 1 .. n \in SUBSET (1 .. n) /\ 1 .. n # {} /\ n \in 1 .. n
  OBVIOUS
<1>2. Max(1 .. n) = n
  BY <1>1, MaxTop
<1>3. (1 .. n) \ {n} = 1 .. n - 1
  OBVIOUS
<1> QED BY <1>2, <1>3

\* Function g is defined on the sets of the first n numbers, as the fold of Folds is.
OnSets(g, n) == g = [S \in SUBSET (1 .. n) |-> g[S]]

\* Two functions on those sets that are defined from the same start in the same way,
\* the greatest number last, are one.
LEMMA SameFold ==
  ASSUME NEW n \in Nat, NEW g, NEW h, OnSets(g, n), OnSets(h, n),
         g[{}] = h[{}],
         \A S \in SUBSET (1 .. n) : S # {} /\ g[S \ {Max(S)}] = h[S \ {Max(S)}] => g[S] = h[S]
  PROVE  g = h
<1> DEFINE Q(k) == k <= n => \A S \in SUBSET (1 .. k) : g[S] = h[S]
           P == {k \in Nat : Q(k)}
<1>1. Q(0)
  <2>1. \A S \in SUBSET (1 .. 0) : S = {}
    OBVIOUS
  <2> QED BY <2>1
<1>2. ASSUME NEW k \in Nat, Q(k) PROVE Q(k + 1)
  <2> SUFFICES ASSUME k + 1 <= n, NEW S \in SUBSET (1 .. k + 1) PROVE g[S] = h[S]
    OBVIOUS
  <2>1. S \in SUBSET (1 .. n)
    OBVIOUS
  <2>2. CASE S = {}
    BY <2>2
  <2>3. CASE S # {}
    <3>1. Max(S) \in S /\ \A x \in S : x <= Max(S)
      BY <2>1, <2>3, MaxIs
    <3>2. S \ {Max(S)} \in SUBSET (1 .. k)
      <4>1. ASSUME NEW m \in S, \A x \in S : x <= m, NEW x \in S, x # m PROVE x \in 1 .. k
        <5>1. m \in 1 .. k + 1 /\ x \in 1 .. k + 1 /\ x <= m
          BY <4>1
        <5> QED BY <4>1, <5>1
      <4> QED BY <3>1, <4>1
    <3>3. k <= n
      OBVIOUS
    <3>4. g[S \ {Max(S)}] = h[S \ {Max(S)}]
      BY <1>2, <3>2, <3>3
    <3> QED BY <2>1, <2>3, <3>4
  <2> QED BY <2>2, <2>3
<1> HIDE DEF Q
<1>3. 0 \in P /\ \A k \in Nat : k \in P => k + 1 \in P
  BY <1>1, <1>2
<1>4. n \in P
  <2> HIDE DEF P
  <2> QED BY <1>3, NatInduct
<1>5. \A S \in SUBSET (1 .. n) : g[S] = h[S]
  <2>1. Q(n)
    BY <1>4
  <2>2. n <= n
    OBVIOUS
  <2> QED BY <2>1, <2>2, Zenon DEF Q
<1> QED BY <1>5, Zenon DEF OnSets

\* Sequence s as a function on the first n numbers.
OfLength(s, n) == s = [i \in 1 .. n |-> s[i]]

\* The replay of s as the states it goes through.
IsRun(r, s, n) ==
  r[0] = NoKeys /\ r[n] = Replay(s) /\ \A i \in 1 .. n : r[i] = Replayed(r[i - 1], s[i])

\* Every replay is such a run.
LEMMA ReplayRuns ==
  ASSUME NEW s, NEW n \in Nat, OfLength(s, n)
  PROVE  \E r : IsRun(r, s, n)
<1> DEFINE Run(k, g) == g = [S \in SUBSET (1 .. k) |->
                               IF S = {} THEN NoKeys ELSE Replayed(g[S \ {Max(S)}], s[Max(S)])]
           Q(k) == k <= n => \E g : Run(k, g)
           P == {k \in Nat : Q(k)}
<1> HIDE DEF NoKeys, Replayed
<1>1. Q(0)
  <2> DEFINE g == [S \in SUBSET (1 .. 0) |-> NoKeys]
  <2>1. \A S \in SUBSET (1 .. 0) : S = {}
    OBVIOUS
  <2>2. Run(0, g)
    BY <2>1
  <2> HIDE DEF g, Run
  <2> QED BY <2>2
<1>2. ASSUME NEW k \in Nat, Q(k) PROVE Q(k + 1)
  <2> SUFFICES ASSUME k + 1 <= n PROVE \E g : Run(k + 1, g)
    OBVIOUS
  <2>1. PICK g : Run(k, g)
    <3> HIDE DEF Run
    <3>1. k <= n
      OBVIOUS
    <3> QED BY <1>2, <3>1
  <2> DEFINE h == [S \in SUBSET (1 .. k + 1) |->
                     IF k + 1 \in S THEN Replayed(g[S \ {k + 1}], s[k + 1]) ELSE g[S]]
             H(S) == IF S = {} THEN NoKeys ELSE Replayed(h[S \ {Max(S)}], s[Max(S)])
  <2>2. ASSUME NEW S \in SUBSET (1 .. k + 1) PROVE h[S] = H(S)
    <3>1. CASE S = {}
      <4>1. S \in SUBSET (1 .. k) /\ k + 1 \notin S
        BY <3>1
      <4>2. h[S] = g[S] /\ g[S] = NoKeys
        BY <2>1, <3>1, <4>1
      <4> QED BY <3>1, <4>2
    <3>2. CASE S # {} /\ k + 1 \notin S
      <4>1. S \in SUBSET (1 .. k) /\ S # {}
        BY <3>2
      <4>2. Max(S) \in S
        BY <4>1, MaxIs
      <4>3. h[S] = g[S] /\ h[S \ {Max(S)}] = g[S \ {Max(S)}]
        BY <3>2, <4>1
      <4>4. g[S] = Replayed(g[S \ {Max(S)}], s[Max(S)])
        BY <2>1, <4>1
      <4> HIDE DEF h
      <4> QED BY <4>1, <4>3, <4>4
    <3>3. CASE k + 1 \in S
      <4>1. k + 1 \in Nat
        OBVIOUS
      <4>2. Max(S) = k + 1
        BY <3>3, <4>1, MaxTop
      <4>3. h[S \ {k + 1}] = g[S \ {k + 1}]
        <5>1. S \ {k + 1} \in SUBSET (1 .. k + 1) /\ k + 1 \notin S \ {k + 1}
          OBVIOUS
        <5> QED BY <5>1
      <4>4. h[S] = Replayed(g[S \ {k + 1}], s[k + 1])
        BY <3>3
      <4> HIDE DEF h
      <4> QED BY <3>3, <4>2, <4>3, <4>4
    <3> QED BY <3>1, <3>2, <3>3
  <2> HIDE DEF H
  <2>3. h = [S \in SUBSET (1 .. k + 1) |-> H(S)]
    <3>1. h = [S \in SUBSET (1 .. k + 1) |-> h[S]]
      OBVIOUS
    <3> HIDE DEF h
    <3> QED BY <2>2, <3>1
  <2>4. Run(k + 1, h)
    <3> HIDE DEF h
    <3> QED BY <2>3, Zenon DEF H
  <2> HIDE DEF h, Run
  <2> QED BY <2>4
<1> HIDE DEF Q
<1>3. 0 \in P /\ \A k \in Nat : k \in P => k + 1 \in P
  BY <1>1, <1>2
<1>4. n \in P
  <2> HIDE DEF P
  <2> QED BY <1>3, NatInduct
<1> HIDE DEF Run
<1>5. PICK g : Run(n, g)
  BY <1>4 DEF Q
<1>6. ASSUME NEW h, Run(n, h) PROVE h = g
  <2>1. ASSUME NEW S \in SUBSET (1 .. n), S # {}, g[S \ {Max(S)}] = h[S \ {Max(S)}] PROVE g[S] = h[S]
    <3>1. g[S] = Replayed(g[S \ {Max(S)}], s[Max(S)])
      BY <1>5, <2>1 DEF Run
    <3>2. h[S] = Replayed(h[S \ {Max(S)}], s[Max(S)])
      BY <1>6, <2>1 DEF Run
    <3> QED BY <2>1, <3>1, <3>2
  <2>2. g[{}] = NoKeys /\ h[{}] = NoKeys
    BY <1>5, <1>6 DEF Run
  <2>3. OnSets(g, n) /\ OnSets(h, n)
    BY <1>5, <1>6 DEF Run, OnSets
  <2>4. \A S \in SUBSET (1 .. n) : S # {} /\ g[S \ {Max(S)}] = h[S \ {Max(S)}] => g[S] = h[S]
    BY <2>1
  <2>5. g = h
    BY <2>2, <2>3, <2>4, SameFold
  <2> QED BY <2>5
<1>7. Replay(s) = g[1 .. n]
  <2>1. DOMAIN s = 1 .. n
    BY DEF OfLength
  <2>2. Replay(s) = LET iter[S \in SUBSET DOMAIN s] ==
                          IF S = {} THEN NoKeys ELSE Replayed(iter[S \ {Max(S)}], s[Max(S)])
                    IN  iter[DOMAIN s]
    BY DEF Replay, FoldLeft, MapThenFoldSet
  <2>3. Replay(s) = (CHOOSE h : Run(n, h))[1 .. n]
    BY <2>1, <2>2 DEF Run
  <2>4. Run(n, CHOOSE h : Run(n, h))
    BY <1>5
  <2> QED BY <1>6, <2>3, <2>4
<1> DEFINE r == [i \in 0 .. n |-> g[1 .. i]]
<1>8. r[n] = Replay(s)
  BY <1>7
<1>9. r[0] = NoKeys
  <2>1. 1 .. 0 = {} /\ {} \in SUBSET (1 .. n)
    OBVIOUS
  <2>2. r[0] = g[{}]
    BY <2>1
  <2> QED BY <1>5, <2>1, <2>2 DEF Run
<1>10. ASSUME NEW i \in 1 .. n PROVE r[i] = Replayed(r[i - 1], s[i])
  <2>1. Max(1 .. i) = i /\ (1 .. i) \ {i} = 1 .. i - 1
    BY MaxInterval
  <2>2. 1 .. i # {} /\ 1 .. i \in SUBSET (1 .. n)
    OBVIOUS
  <2>3. g[1 .. i] = Replayed(g[(1 .. i) \ {Max(1 .. i)}], s[Max(1 .. i)])
    BY <1>5, <2>2 DEF Run
  <2>4. r[i] = g[1 .. i] /\ r[i - 1] = g[1 .. i - 1]
    OBVIOUS
  <2> HIDE DEF r
  <2> QED BY <2>1, <2>3, <2>4
<1> HIDE DEF r
<1>11. IsRun(r, s, n)
  BY <1>8, <1>9, <1>10 DEF IsRun
<1> QED BY <1>11

-----------------------------------------------------------------------------
\* A deadline, or none.
Dates == Nat \cup {NoDate}

\* A command that a rewriter writes, and what else can be in a file.
IsCommand(c) == c.key \in Keys /\ (c.cmd = "RPUSH" \/ (c.cmd = "EXPIRE" /\ c.ms \in Nat))
IsCell(c) == c \in Broken \/ IsCommand(c)

IsSeq(s) == Len(s) \in Nat /\ s = [i \in 1 .. Len(s) |-> s[i]]
IsFile(s) == IsSeq(s) /\ \A i \in 1 .. Len(s) : IsCell(s[i])
IsWhole(s) == IsSeq(s) /\ \A i \in 1 .. Len(s) : IsCommand(s[i])

IsKid(r) ==
  /\ r = [phase |-> r.phase, file |-> r.file, pos |-> r.pos, left |-> r.left, key |-> r.key, copy |-> r.copy]
  /\ r.phase \in {"idle", "open", "dump", "expire", "ended"} /\ r.pos \in Nat
  /\ r.left \in SUBSET Keys /\ r.copy.expires \in [Keys -> Dates]
  /\ r.file \in Kids => r.phase \in {"dump", "expire"}
  /\ r.file \in Kids \cup {NoFile}
  /\ r.phase = "expire" => r.key \in Keys \ r.left /\ r.copy.expires[r.key] # NoDate
  /\ r.phase \in {"idle", "open"} => r.pos = 0
  /\ r.phase = "open" => r.left = {k \in Keys : r.copy.store[k] # None}

Types ==
  /\ DOMAIN store = Keys /\ expires \in [Keys -> Dates]
  /\ tmp \in Kids \cup {NoFile} /\ aof \in Kids \cup {NoFile} /\ (tmp # aof \/ tmp = NoFile)
  /\ kid = [p \in Kids |-> kid[p]] /\ \A p \in Kids : IsKid(kid[p])
  /\ data = [f \in Kids |-> data[f]] /\ \A f \in Kids : IsFile(data[f])
  /\ image = [f \in Kids |-> image[f]]
  /\ shared \in SUBSET Kids /\ failed \in SUBSET Kids

\* What a replay makes of deadline e.
Kept(e) == IF e # NoDate THEN Dated(e) ELSE NoDate

\* What the replay makes of the keys that r has dumped.
Dumped(r) ==
  LET listed == {k \in Keys \ r.left : r.copy.store[k] \notin Unlisted}
      dated  == IF r.phase = "expire" THEN listed \ {r.key} ELSE listed
  IN  [store   |-> [k \in Keys |-> IF k \in listed THEN r.copy.store[k] ELSE None],
       expires |-> [k \in Keys |-> IF k \in dated THEN Kept(r.copy.expires[k]) ELSE NoDate]]

\* A child has made no file before it opens one.
Fresh(p) == kid[p].phase \in {"idle", "open"} => p \notin {tmp, aof} /\ \A q \in Kids : kid[q].file # p

\* The files that more than one child, or a failure, had a part in.
Spoilt == shared \cup failed

\* File f, of which p is the only writer, has what p has dumped so far.
IsWritten(f, p) ==
  /\ \A q \in Kids : kid[q].file = f => q = p
  /\ tmp = f
  /\ image[f] = kid[p].copy /\ kid[p].pos = Len(data[f])
  /\ IsWhole(data[f]) /\ Replay(data[f]) = Dumped(kid[p])
  /\ \A k \in Keys \ kid[p].left : kid[p].copy.store[k] # String

\* File f replays to the image of it, as a restart shows it.
IsSnapshot(f) ==
  /\ IsWhole(data[f]) /\ Replay(data[f]) = Persisted(image[f])
  /\ \A k \in Keys : image[f].store[k] # String

\* The inductive invariant.
IInv ==
  /\ Types
  /\ \A p \in Kids : Fresh(p)
  /\ \A p \in Kids : kid[p].file \in Kids \ Spoilt => IsWritten(kid[p].file, p)
  /\ aof \in Kids \ Spoilt => IsSnapshot(aof)

\* A function on the first numbers is a sequence.
LEMMA SeqIs ==
  ASSUME NEW n \in Nat, NEW s, OfLength(s, n)
  PROVE  IsSeq(s) /\ Len(s) = n
<1>1. DOMAIN s = 1 .. n
  BY DEF OfLength
<1>2. s \in Seq({s[i] : i \in 1 .. n})
  BY IsASeq DEF OfLength
<1>3. Len(s) = n
  <2>1. Len(s) \in Nat /\ DOMAIN s = 1 .. Len(s)
    BY <1>2, LenProperties
  <2> QED BY <1>1, <2>1
<1> QED BY <1>3 DEF IsSeq, OfLength

\* An empty file replays to no keys.
LEMMA ReplayEmpty ==
  /\ IsWhole(<<>>) /\ IsFile(<<>>) /\ Len(<<>>) = 0
  /\ Replay(<<>>) = NoKeys
<1>1. <<>> = [i \in 1 .. 0 |-> <<>>[i]] /\ Len(<<>>) = 0
  OBVIOUS
<1>2. IsSeq(<<>>)
  BY <1>1 DEF IsSeq
<1>3. IsWhole(<<>>) /\ IsFile(<<>>)
  BY <1>1, <1>2 DEF IsWhole, IsFile
<1>4. PICK r : IsRun(r, <<>>, 0)
  BY <1>1, ReplayRuns DEF OfLength
<1> QED BY <1>1, <1>3, <1>4 DEF IsRun

\* One command more at the end of a file is replayed after the others.
LEMMA ReplayLonger ==
  ASSUME NEW s, IsSeq(s), NEW t, IsSeq(t), Len(t) = Len(s) + 1, \A i \in 1 .. Len(s) : t[i] = s[i]
  PROVE  Replay(t) = Replayed(Replay(s), t[Len(s) + 1])
<1> DEFINE n == Len(s)
<1>1. n \in Nat /\ OfLength(s, n) /\ OfLength(t, n + 1)
  BY DEF IsSeq, OfLength
<1>2. \A i \in 1 .. n : t[i] = s[i]
  OBVIOUS
<1>3. Len(s) = n
  OBVIOUS
<1> HIDE DEF n
<1>4. PICK r : IsRun(r, s, n)
  BY <1>1, ReplayRuns
<1>5. PICK q : IsRun(q, t, n + 1)
  <2>1. n + 1 \in Nat
    BY <1>1
  <2> QED BY <1>1, <2>1, ReplayRuns
<1> DEFINE Q(i) == i <= n => q[i] = r[i]
           P == {i \in Nat : Q(i)}
<1>6. Q(0)
  BY <1>4, <1>5 DEF IsRun
<1>7. ASSUME NEW i \in Nat, Q(i) PROVE Q(i + 1)
  <2> SUFFICES ASSUME i + 1 <= n PROVE q[i + 1] = r[i + 1]
    OBVIOUS
  <2> USE <1>1
  <2>1. i <= n /\ i + 1 \in 1 .. n
    OBVIOUS
  <2>2. i + 1 \in 1 .. n + 1 /\ (i + 1) - 1 = i
    OBVIOUS
  <2>3. q[i + 1] = Replayed(q[i], t[i + 1])
    BY <1>5, <2>2 DEF IsRun
  <2>4. r[i + 1] = Replayed(r[i], s[i + 1])
    BY <1>4, <2>1, <2>2 DEF IsRun
  <2> QED BY <1>2, <1>7, <2>1, <2>3, <2>4
<1> HIDE DEF Q
<1>8. 0 \in P /\ \A i \in Nat : i \in P => i + 1 \in P
  BY <1>6, <1>7
<1>9. n \in P
  <2> HIDE DEF P
  <2> QED BY <1>1, <1>8, NatInduct
<1>10. Q(n)
  BY <1>9
<1>11. q[n] = r[n]
  BY <1>1, <1>10 DEF Q
<1>12. n + 1 \in 1 .. n + 1 /\ (n + 1) - 1 = n
  BY <1>1
<1>13. q[n + 1] = Replayed(q[n], t[n + 1])
  BY <1>5, <1>12 DEF IsRun
<1> QED BY <1>3, <1>4, <1>5, <1>11, <1>13 DEF IsRun

\* What a replay goes through: the store, and deadlines that are numbers.
IsKeySpace(x) ==
  x = [store |-> x.store, expires |-> x.expires] /\ DOMAIN x.store = Keys /\ x.expires \in [Keys -> Dates]

\* A command is whole.
LEMMA NotBroken ==
  ASSUME NEW c, IsCommand(c)
  PROVE  c \notin Broken
<1>1. Hole.cmd = "hole" /\ Torn.cmd = "torn" /\ Part.cmd = "part"
  BY DEF Hole, Torn, Part, Cell
<1> QED BY <1>1 DEF IsCommand, Broken

\* A deadline that a replay gives is a number.
LEMMA DatedIs ==
  ASSUME NEW ms \in Nat
  PROVE  Dated(ms) \in Nat
<1>1. \A i, j \in Nat : i * j \in Nat
  OBVIOUS
<1>2. PICK n \in Nat : n = ms * Second
  BY <1>1, TimeAssumption
<1>3. \A i \in Nat, w \in Nat \ {0} : i % w \in Nat
  OBVIOUS
<1>4. Today + n \in Nat
  BY TimeAssumption
<1> QED BY <1>2, <1>3, <1>4, TimeAssumption DEF Dated

\* A command of a replay leaves a key space a key space.
LEMMA ReplayedType ==
  ASSUME NEW x, IsKeySpace(x), NEW c, IsCell(c)
  PROVE  IsKeySpace(Replayed(x, c))
<1>1. CASE c \in Broken
  BY <1>1 DEF Replayed
<1>2. CASE c \notin Broken /\ c.cmd = "RPUSH"
  <2> DEFINE v == IF x.store[c.key] = None THEN c.list ELSE x.store[c.key] \o c.list
             y == [store |-> [x.store EXCEPT ![c.key] = v], expires |-> x.expires]
  <2>1. Replayed(x, c) = y
    BY <1>2 DEF Replayed, IsKeySpace
  <2>2. IsKeySpace(y)
    BY DEF IsKeySpace
  <2> QED BY <2>1, <2>2
<1>3. CASE c \notin Broken /\ c.cmd # "RPUSH"
  <2> DEFINE d == Dated(c.ms)
             y == [store |-> x.store, expires |-> [x.expires EXCEPT ![c.key] = d]]
  <2>1. Replayed(x, c) \in {x, y}
    BY <1>3 DEF Replayed, IsKeySpace
  <2>2. d \in Nat
    BY <1>3, DatedIs DEF IsCell, IsCommand
  <2>3. IsKeySpace(y)
    <3> HIDE DEF d
    <3> QED BY <1>3, <2>2 DEF IsKeySpace, IsCell, IsCommand, Dates
  <2> QED BY <2>1, <2>3
<1> QED BY <1>1, <1>2, <1>3

\* A file replays to a key space, whatever of it is read.
LEMMA ReplayType ==
  ASSUME NEW s, IsFile(s)
  PROVE  IsKeySpace(Replay(s))
<1> DEFINE n == Len(s)
<1>1. n \in Nat /\ OfLength(s, n) /\ \A i \in 1 .. n : IsCell(s[i])
  BY DEF IsFile, IsSeq, OfLength
<1> HIDE DEF n
<1>2. PICK r : IsRun(r, s, n)
  BY <1>1, ReplayRuns
<1> DEFINE Q(i) == i <= n => IsKeySpace(r[i])
           P == {i \in Nat : Q(i)}
<1>3. Q(0)
  BY <1>2 DEF IsRun, IsKeySpace, NoKeys, Dates
<1>4. ASSUME NEW i \in Nat, Q(i) PROVE Q(i + 1)
  <2> SUFFICES ASSUME i + 1 <= n PROVE IsKeySpace(r[i + 1])
    OBVIOUS
  <2>1. i <= n /\ i + 1 \in 1 .. n /\ (i + 1) - 1 = i
    BY <1>1
  <2>2. r[i + 1] = Replayed(r[i], s[i + 1])
    BY <1>2, <2>1 DEF IsRun
  <2>3. IsKeySpace(r[i]) /\ IsCell(s[i + 1])
    BY <1>1, <1>4, <2>1
  <2> QED BY <2>2, <2>3, ReplayedType
<1> HIDE DEF Q
<1>5. 0 \in P /\ \A i \in Nat : i \in P => i + 1 \in P
  BY <1>3, <1>4
<1>6. n \in P
  <2> HIDE DEF P
  <2> QED BY <1>1, <1>5, NatInduct
<1>7. Q(n)
  BY <1>6
<1> QED BY <1>1, <1>2, <1>7 DEF Q, IsRun

\* Cell c written at n: a command at the end of a whole file is replayed after the others.
LEMMA WriteOK ==
  ASSUME NEW s, IsFile(s), NEW n \in Nat, NEW c, IsCell(c), NEW t \in Written(s, n, c)
  PROVE  /\ IsFile(t)
         /\ n = Len(s) /\ IsWhole(s) /\ IsCommand(c) =>
              IsWhole(t) /\ Len(t) = n + 1 /\ Replay(t) = Replayed(Replay(s), c)
<1> DEFINE m == IF n + 1 > Len(s) THEN n + 1 ELSE Len(s)
           long == [i \in 1 .. m |-> IF i = n + 1 THEN c ELSE IF i <= Len(s) THEN s[i] ELSE Hole]
<1>1. Len(s) \in Nat /\ m \in Nat /\ n + 1 \in 1 .. m
  BY DEF IsFile, IsSeq
<1>2. t = long \/ (t = [long EXCEPT ![n + 1] = Torn] /\ n < Len(s))
  BY DEF Written
<1>3. OfLength(t, m)
  BY <1>2 DEF OfLength
<1>4. IsSeq(t) /\ Len(t) = m
  <2> HIDE DEF m, long
  <2> QED BY <1>1, <1>3, SeqIs
<1>5. \A i \in 1 .. m : t[i] \in {c, Torn, Hole} \/ (i <= Len(s) /\ t[i] = s[i])
  BY <1>1, <1>2
<1>6. \A i \in 1 .. m : IsCell(t[i])
  <2> TAKE i \in 1 .. m
  <2>1. CASE t[i] \in {c, Torn, Hole}
    <3> HIDE DEF m
    <3> QED BY <2>1 DEF IsCell, Broken
  <2>2. CASE i <= Len(s) /\ t[i] = s[i]
    <3>1. i \in 1 .. Len(s)
      BY <1>1, <2>2
    <3> HIDE DEF m
    <3> QED BY <2>2, <3>1 DEF IsFile
  <2> QED BY <1>5, <2>1, <2>2
<1>7. IsFile(t)
  <2> HIDE DEF m
  <2> QED BY <1>4, <1>6 DEF IsFile
<1>8. ASSUME n = Len(s), IsWhole(s), IsCommand(c)
      PROVE  IsWhole(t) /\ Len(t) = n + 1 /\ Replay(t) = Replayed(Replay(s), c)
  <2>1. m = n + 1 /\ t = long
    BY <1>2, <1>8
  <2>2. \A i \in 1 .. Len(s) : t[i] = s[i]
    BY <1>8, <2>1
  <2>3. t[Len(s) + 1] = c
    BY <1>8, <2>1
  <2>4. Len(t) = Len(s) + 1
    BY <1>4, <1>8, <2>1
  <2> HIDE DEF m, long
  <2>5. IsSeq(s)
    BY <1>8 DEF IsWhole
  <2>6. Replay(t) = Replayed(Replay(s), c)
    BY <1>4, <2>2, <2>3, <2>4, <2>5, ReplayLonger
  <2>7. ASSUME NEW i \in 1 .. Len(t) PROVE IsCommand(t[i])
    <3>1. i \in 1 .. Len(s) \/ i = Len(s) + 1
      BY <1>1, <2>4
    <3> QED BY <1>8, <2>2, <2>3, <3>1 DEF IsWhole
  <2> QED BY <1>4, <1>8, <2>4, <2>6, <2>7 DEF IsWhole
<1> QED BY <1>7, <1>8

\* What a step that leaves file f and its writer alone keeps.
LEMMA WrittenSame ==
  ASSUME NEW f, NEW p, IsWritten(f, p), kid'[p] = kid[p], tmp' = f,
         image'[f] = image[f], data'[f] = data[f],
         \A q \in Kids : kid'[q].file = f => kid[q].file = f
  PROVE  IsWritten(f, p)'
BY DEF IsWritten

\* What a step that leaves file f alone keeps.
LEMMA SnapshotSame ==
  ASSUME NEW f, IsSnapshot(f), image'[f] = image[f], data'[f] = data[f]
  PROVE  IsSnapshot(f)'
BY DEF IsSnapshot

\* A step that only changes the store of the server.
LEMMA ServerOnly ==
  ASSUME IInv, UNCHANGED <<kid, tmp, aof, data, image, shared, failed>>,
         DOMAIN store' = Keys, expires' \in [Keys -> Dates]
  PROVE  IInv'
<1>1. Types'
  BY DEF IInv, Types
<1>2. ASSUME NEW p \in Kids PROVE Fresh(p)'
  BY DEF IInv, Fresh
<1>3. Spoilt' = Spoilt
  BY DEF Spoilt
<1>4. ASSUME NEW p \in Kids, kid[p].file \in Kids \ Spoilt PROVE IsWritten(kid[p].file, p)'
  BY <1>4 DEF IInv, IsWritten
<1>5. aof' \in Kids \ Spoilt' => IsSnapshot(aof)'
  BY <1>3 DEF IInv, IsSnapshot
<1> QED BY <1>1, <1>2, <1>3, <1>4, <1>5 DEF IInv

\* At first there is no file, and no child has made one.
LEMMA InitOK == Init => IInv
<1> SUFFICES ASSUME Init PROVE IInv
  OBVIOUS
<1>1. IsKid(Idle)
  BY KidsAssumption DEF IsKid, Idle, NoKeys, Dates
<1>2. Types
  BY <1>1, ReplayEmpty DEF Types, Init, NoKeys, Dates
<1>3. \A p \in Kids : kid[p].file = NoFile /\ NoFile \notin Kids
  BY KidsAssumption DEF Init, Idle
<1> QED BY <1>2, <1>3 DEF IInv, Init, Fresh

\* A client's command does not touch the files.
LEMMA ChangeOK ==
  ASSUME IInv, NEW k \in Keys, NEW v, NEW d \in {NoDate, Soon}, Change(k, v, d)
  PROVE  IInv'
<1>1. DOMAIN store' = Keys /\ expires' \in [Keys -> Dates]
  BY TimeAssumption DEF IInv, Types, Change, Dates
<1> QED BY <1>1, ServerOnly DEF Change

\* What is read of a file is a file.
LEMMA ReadingIs ==
  ASSUME NEW s, IsFile(s), NEW r \in Readings(s)
  PROVE  IsFile(r)
<1> DEFINE n == Len(s)
<1>1. n \in Nat /\ DOMAIN s = 1 .. n /\ \A i \in 1 .. n : IsCell(s[i])
  BY DEF IsFile, IsSeq
<1> HIDE DEF n
<1>2. PICK read : r = [i \in DOMAIN s |-> IF i \in read THEN s[i] ELSE Hole]
  BY DEF Readings
<1>3. OfLength(r, n)
  BY <1>1, <1>2 DEF OfLength
<1>4. IsSeq(r) /\ Len(r) = n
  BY <1>1, <1>3, SeqIs
<1>5. \A i \in 1 .. n : r[i] \in {s[i], Hole}
  BY <1>1, <1>2
<1>6. IsCell(Hole)
  BY DEF IsCell, Broken
<1>7. \A i \in 1 .. n : IsCell(r[i])
  BY <1>1, <1>5, <1>6
<1> QED BY <1>4, <1>7 DEF IsFile

\* What the server starts with is a key space.
LEMMA RestoredType ==
  ASSUME NEW s, IsFile(s), NEW x \in {NoKeys} \cup Restored(s)
  PROVE  DOMAIN x.store = Keys /\ x.expires \in [Keys -> Dates]
<1>1. IsKeySpace(NoKeys)
  BY DEF IsKeySpace, NoKeys, Dates
<1>2. x = NoKeys \/ x = Replay(s) \/ \E r \in Readings(s) : x = Replay(r)
  BY DEF Restored
<1>3. IsKeySpace(x)
  BY <1>1, <1>2, ReadingIs, ReplayType
<1> QED BY <1>3 DEF IsKeySpace

\* A restart only changes the store: the children and the files stay as they are.
LEMMA RestartOK ==
  ASSUME IInv, Restart
  PROVE  IInv'
<1>1. PICK x \in {NoKeys} \cup (IF aof = NoFile THEN {} ELSE Restored(data[aof])) :
        store' = x.store /\ expires' = x.expires /\ UNCHANGED <<kid, tmp, aof, data, image, shared, failed>>
  BY DEF Restart
<1>2. DOMAIN x.store = Keys /\ x.expires \in [Keys -> Dates]
  <2>1. CASE x = NoKeys
    BY <2>1 DEF NoKeys, Dates
  <2>2. CASE x # NoKeys
    <3>1. aof # NoFile /\ x \in Restored(data[aof])
      BY <1>1, <2>2
    <3>2. IsFile(data[aof])
      BY <3>1 DEF IInv, Types
    <3> QED BY <3>1, <3>2, RestoredType
  <2> QED BY <2>1, <2>2
<1> QED BY <1>1, <1>2, ServerOnly

\* A child with some fields changed, as a record.
LEMMA KidForked ==
  ASSUME NEW x, IsKid(x), NEW phase, NEW left, NEW copy
  PROVE  [x EXCEPT !.phase = phase, !.copy = copy, !.left = left]
           = [phase |-> phase, file |-> x.file, pos |-> x.pos, left |-> left, key |-> x.key, copy |-> copy]
<1>1. PICK a, b, c, d, e, f :
         /\ x = [phase |-> a, file |-> b, pos |-> c, left |-> d, key |-> e, copy |-> f]
         /\ b = x.file /\ c = x.pos /\ d = x.left /\ e = x.key /\ f = x.copy
  BY DEF IsKid
<1>2. PICK y : y = [x EXCEPT !.phase = phase, !.copy = copy, !.left = left]
  OBVIOUS
<1>3. y = [phase |-> phase, file |-> b, pos |-> c, left |-> left, key |-> e, copy |-> copy]
  BY <1>1, <1>2
<1> QED BY <1>1, <1>2, <1>3

LEMMA KidOpened ==
  ASSUME NEW x, IsKid(x), NEW phase, NEW file
  PROVE  [x EXCEPT !.phase = phase, !.file = file]
           = [phase |-> phase, file |-> file, pos |-> x.pos, left |-> x.left, key |-> x.key, copy |-> x.copy]
<1>1. PICK a, b, c, d, e, f :
         /\ x = [phase |-> a, file |-> b, pos |-> c, left |-> d, key |-> e, copy |-> f]
         /\ b = x.file /\ c = x.pos /\ d = x.left /\ e = x.key /\ f = x.copy
  BY DEF IsKid
<1>2. PICK y : y = [x EXCEPT !.phase = phase, !.file = file]
  OBVIOUS
<1>3. y = [phase |-> phase, file |-> file, pos |-> c, left |-> d, key |-> e, copy |-> f]
  BY <1>1, <1>2
<1> QED BY <1>1, <1>2, <1>3

LEMMA KidMoved ==
  ASSUME NEW x, IsKid(x), NEW phase
  PROVE  [x EXCEPT !.phase = phase]
           = [phase |-> phase, file |-> x.file, pos |-> x.pos, left |-> x.left, key |-> x.key, copy |-> x.copy]
<1>1. PICK a, b, c, d, e, f :
         /\ x = [phase |-> a, file |-> b, pos |-> c, left |-> d, key |-> e, copy |-> f]
         /\ b = x.file /\ c = x.pos /\ d = x.left /\ e = x.key /\ f = x.copy
  BY DEF IsKid
<1>2. PICK y : y = [x EXCEPT !.phase = phase]
  OBVIOUS
<1>3. y = [phase |-> phase, file |-> b, pos |-> c, left |-> d, key |-> e, copy |-> f]
  BY <1>1, <1>2
<1> QED BY <1>1, <1>2, <1>3

Moved(y, x, pos, phase, left, key) == y = [x EXCEPT !.pos = pos, !.phase = phase, !.left = left, !.key = key]

LEMMA KidWrote ==
  ASSUME NEW x, IsKid(x), NEW phase, NEW left, NEW key, NEW pos,
         NEW y, Moved(y, x, pos, phase, left, key)
  PROVE  y = [phase |-> phase, file |-> x.file, pos |-> pos, left |-> left, key |-> key, copy |-> x.copy]
<1>1. PICK a, b, c, d, e, f :
         /\ x = [phase |-> a, file |-> b, pos |-> c, left |-> d, key |-> e, copy |-> f]
         /\ b = x.file /\ c = x.pos /\ d = x.left /\ e = x.key /\ f = x.copy
  BY DEF IsKid
<1>2. y = [phase |-> phase, file |-> b, pos |-> pos, left |-> left, key |-> key, copy |-> f]
  BY <1>1 DEF Moved
<1> QED BY <1>1, <1>2

\* The fork: the child has its copy and nothing dumped.
LEMMA BgrewriteaofOK ==
  ASSUME IInv, NEW p \in Kids, Bgrewriteaof(p)
  PROVE  IInv'
<1> DEFINE left == {k \in Keys : store[k] # None}
           copy == [store |-> store, expires |-> expires]
           r == [kid[p] EXCEPT !.phase = "open", !.copy = copy, !.left = left]
<1>1. kid' = [kid EXCEPT ![p] = r] /\ kid[p].phase = "idle" /\ UNCHANGED <<store, expires, tmp, aof, data, image, shared, failed>>
  BY DEF Bgrewriteaof
<1>2. Types /\ IsKid(kid[p])
  BY DEF IInv, Types
<1>3. IsKid(r) /\ r.file = kid[p].file /\ r.phase = "open" /\ r.file \notin Kids /\ Spoilt' = Spoilt
  <2>1. r = [phase |-> "open", file |-> kid[p].file, pos |-> kid[p].pos, left |-> left,
             key |-> kid[p].key, copy |-> copy]
    <3> HIDE DEF left, copy
    <3> QED BY <1>2, KidForked
  <2>2. left \in SUBSET Keys /\ left = {k \in Keys : copy.store[k] # None} /\ copy.expires \in [Keys -> Dates]
    BY <1>2 DEF Types
  <2>3. kid[p].pos = 0 /\ kid[p].file \notin Kids /\ kid[p].file \in Kids \cup {NoFile}
    BY <1>1, <1>2 DEF IsKid
  <2>4. Spoilt' = Spoilt
    BY <1>1 DEF Spoilt
  <2> HIDE DEF r, left, copy
  <2> QED BY <2>1, <2>2, <2>3, <2>4 DEF IsKid
<1> HIDE DEF r, left, copy
<1>4. \A q \in Kids : kid'[q] = IF q = p THEN r ELSE kid[q]
  BY <1>1, <1>2 DEF Types
<1>5. Types'
  BY <1>1, <1>2, <1>3, <1>4 DEF Types
<1>6. \A q \in Kids : kid'[q].file = kid[q].file
  BY <1>3, <1>4
<1>7. ASSUME NEW q \in Kids PROVE Fresh(q)'
  BY <1>1, <1>4, <1>6 DEF IInv, Fresh
<1>8. ASSUME NEW q \in Kids, kid'[q].file \in Kids \ Spoilt' PROVE IsWritten(kid[q].file, q)'
  <2> DEFINE f == kid[q].file
  <2>1. f \in Kids \ Spoilt /\ kid'[q] = kid[q]
    BY <1>3, <1>4, <1>8
  <2>2. IsWritten(f, q)
    BY <2>1 DEF IInv
  <2>3. PICK g : g = f
    OBVIOUS
  <2>4. IsWritten(g, q)'
    BY <1>1, <1>6, <2>1, <2>2, <2>3, WrittenSame DEF IsWritten
  <2> QED BY <2>3, <2>4, <1>6
<1>9. aof' \in Kids \ Spoilt' => IsSnapshot(aof)'
  BY <1>1, <1>3 DEF IInv, IsSnapshot
<1> QED BY <1>5, <1>7, <1>8, <1>9 DEF IInv

\* A child that has a file is writing it.
LEMMA HolderIs ==
  ASSUME NEW x, IsKid(x), x.file \in Kids
  PROVE  x.phase \in {"dump", "expire"}
BY DEF IsKid

\* The opening: either the child is the only writer of a file that is empty now, or the
\* file is a shared one from here on.
LEMMA OpenOK ==
  ASSUME IInv, NEW p \in Kids, Open(p)
  PROVE  IInv'
<1>1. PICK g : g = Target(p)
  OBVIOUS
<1> DEFINE r == [kid[p] EXCEPT !.phase = "dump", !.file = g]
<1>2. /\ kid[p].phase = "open" /\ kid' = [kid EXCEPT ![p] = r] /\ tmp' = g
      /\ data' = [data EXCEPT ![g] = <<>>] /\ image' = [image EXCEPT ![g] = kid[p].copy]
      /\ UNCHANGED <<store, expires, aof>>
  BY <1>1 DEF Open, Opened
<1>3. /\ shared' \in {shared \ {g}, shared \cup {g}} /\ failed' = failed \ {g}
      /\ Holders(g) # {} => g \in shared'
  BY <1>1 DEF Open
<1>4. Types /\ IsKid(kid[p]) /\ Fresh(p)
  BY DEF IInv, Types
<1>5. g \in Kids /\ g # aof /\ (tmp # NoFile => g = tmp) /\ (tmp = NoFile => g = p)
  BY <1>1, <1>2, <1>4 DEF Target, Types, Fresh
<1>6. /\ r = [phase |-> "dump", file |-> g, pos |-> 0, left |-> kid[p].left, key |-> kid[p].key, copy |-> kid[p].copy]
      /\ kid[p].left = {k \in Keys : kid[p].copy.store[k] # None}
  <2>1. kid[p].pos = 0 /\ kid[p].left = {k \in Keys : kid[p].copy.store[k] # None}
    BY <1>2, <1>4 DEF IsKid
  <2> QED BY <1>4, <2>1, KidOpened
<1> HIDE DEF r
<1>7. r.phase = "dump" /\ r.file = g /\ r.pos = 0 /\ r.left = kid[p].left /\ r.copy = kid[p].copy
  BY <1>6
<1>8. IsKid(r)
  <2>1. r = [phase |-> r.phase, file |-> r.file, pos |-> r.pos, left |-> r.left, key |-> r.key, copy |-> r.copy]
    BY <1>6
  <2> QED BY <1>4, <1>5, <1>7, <2>1 DEF IsKid
<1>9. \A q \in Kids : kid'[q] = IF q = p THEN r ELSE kid[q]
  BY <1>2, <1>4 DEF Types
<1>10. \A f \in Kids : data'[f] = IF f = g THEN <<>> ELSE data[f]
  BY <1>2, <1>4 DEF Types
<1>11. \A f \in Kids : image'[f] = IF f = g THEN kid[p].copy ELSE image[f]
  BY <1>2, <1>4 DEF Types
<1>12. Types'
  <2>1. kid' = [q \in Kids |-> kid'[q]] /\ \A q \in Kids : IsKid(kid'[q])
    BY <1>2, <1>4, <1>8, <1>9 DEF Types
  <2>2. data' = [f \in Kids |-> data'[f]] /\ \A f \in Kids : IsFile(data'[f])
    BY <1>2, <1>4, <1>10, ReplayEmpty DEF Types
  <2>3. image' = [f \in Kids |-> image'[f]]
    BY <1>2, <1>4 DEF Types
  <2>4. shared' \in SUBSET Kids /\ failed' \in SUBSET Kids
    BY <1>3, <1>4, <1>5 DEF Types
  <2> QED BY <1>2, <1>4, <1>5, <2>1, <2>2, <2>3, <2>4 DEF Types
<1>13. ASSUME NEW q \in Kids PROVE Fresh(q)'
  <2>1. ASSUME kid'[q].phase \in {"idle", "open"}
        PROVE  q \notin {tmp', aof'} /\ \A h \in Kids : kid'[h].file # q
    <3>1. q # p /\ kid'[q] = kid[q]
      BY <1>7, <1>9, <2>1
    <3>2. q \notin {tmp, aof} /\ \A h \in Kids : kid[h].file # q
      BY <2>1, <3>1 DEF IInv, Fresh
    <3>3. q # g
      BY <1>5, <3>1, <3>2
    <3> QED BY <1>2, <1>7, <1>9, <3>2, <3>3
  <2> QED BY <2>1 DEF Fresh
<1>14. ASSUME g \notin Spoilt' PROVE \A q \in Kids : kid[q].file # g
  <2>1. Holders(g) = {}
    BY <1>3, <1>14 DEF Spoilt
  <2>2. \A q \in Kids : IsKid(kid[q])
    BY <1>4 DEF Types
  <2> QED BY <1>5, <2>1, <2>2, HolderIs DEF Holders
<1>15. ASSUME NEW q \in Kids, kid'[q].file \in Kids \ Spoilt' PROVE q = p
  <2> SUFFICES ASSUME q # p PROVE FALSE
    OBVIOUS
  <2>1. kid[q].file \in Kids \ Spoilt /\ kid[q].file \notin Spoilt'
    <3>1. kid[q].file \in Kids /\ kid[q].file \notin Spoilt'
      BY <1>9, <1>15
    <3>2. kid[q].file # g
      BY <1>14, <3>1
    <3> QED BY <1>3, <3>1, <3>2 DEF Spoilt
  <2>2. tmp = kid[q].file
    BY <2>1 DEF IInv, IsWritten
  <2>3. g = kid[q].file
    BY <1>5, <2>1, <2>2, KidsAssumption
  <2> QED BY <1>14, <2>1, <2>3
<1>16. ASSUME g \notin Spoilt' PROVE IsWritten(g, p)'
  <2>1. \A q \in Kids : kid'[q].file = g => q = p
    BY <1>9, <1>14, <1>16
  <2>2. kid'[p] = r /\ data'[g] = <<>> /\ image'[g] = kid[p].copy
    BY <1>5, <1>9, <1>10, <1>11
  <2>3. \A k \in Keys \ r.left : r.copy.store[k] = None
    BY <1>6, <1>7
  <2>4. None \in Unlisted /\ None # String
    BY DEF Unlisted, None, String
  <2>5. Dumped(r) = NoKeys
    BY <1>7, <2>3, <2>4 DEF Dumped, NoKeys
  <2>6. \A k \in Keys \ r.left : r.copy.store[k] # String
    BY <2>3, <2>4
  <2> QED BY <1>2, <1>7, <2>1, <2>2, <2>5, <2>6, ReplayEmpty DEF IsWritten
<1>17. aof' \in Kids \ Spoilt' => IsSnapshot(aof)'
  <2> SUFFICES ASSUME aof \in Kids \ Spoilt' PROVE IsSnapshot(aof)'
    BY <1>2
  <2>1. PICK f : f = aof
    OBVIOUS
  <2>2. IsSnapshot(f) /\ data'[f] = data[f] /\ image'[f] = image[f]
    <3>1. f \in Kids \ Spoilt /\ f # g
      BY <1>3, <1>5, <2>1 DEF Spoilt
    <3> QED BY <1>10, <1>11, <2>1, <3>1 DEF IInv
  <2>3. IsSnapshot(f)'
    BY <2>2, SnapshotSame
  <2> QED BY <1>2, <2>1, <2>3
<1>18. ASSUME NEW q \in Kids PROVE (kid[q].file \in Kids \ Spoilt => IsWritten(kid[q].file, q))'
  BY <1>7, <1>9, <1>15, <1>16
<1> QED BY <1>12, <1>13, <1>17, <1>18 DEF IInv

\* No string was dumped.
NoString(r) == \A k \in Keys \ r.left : r.copy.store[k] # String

\* A file with content t has what the child r has dumped.
HasDumped(t, r) == IsWhole(t) /\ r.pos = Len(t) /\ Replay(t) = Dumped(r) /\ NoString(r)

\* The child p writes to its file, or passes over a key.
LEMMA DumpOK ==
  ASSUME IInv, NEW p \in Kids, NEW g, g = kid[p].file, g \in Kids, NEW r, IsKid(r),
         kid' = [kid EXCEPT ![p] = r], r.file = g, r.copy = kid[p].copy, UNCHANGED Outside,
         failed' \in {failed, failed \cup {g}},
         NEW t, data' = [data EXCEPT ![g] = t], IsFile(t),
         IsWritten(g, p) /\ g \notin failed' => HasDumped(t, r)
  PROVE  IInv'
<1>1. Types /\ UNCHANGED <<store, expires, tmp, aof, image, shared>>
  BY DEF IInv, Outside
<1>2. \A q \in Kids : kid'[q] = IF q = p THEN r ELSE kid[q]
  BY <1>1 DEF Types
<1>3. \A f \in Kids : data'[f] = IF f = g THEN t ELSE data[f]
  BY <1>1 DEF Types
<1>4. \A q \in Kids : kid'[q].file = kid[q].file
  BY <1>2
<1>5. r.phase \in {"dump", "expire"}
  BY DEF IsKid
<1>6. Types'
  BY <1>1, <1>2, <1>3 DEF Types
<1>7. Spoilt \subseteq Spoilt' /\ (g \notin Spoilt' => g \notin failed')
  BY <1>1 DEF Spoilt
<1>8. ASSUME NEW q \in Kids PROVE Fresh(q)'
  BY <1>1, <1>2, <1>4, <1>5 DEF IInv, Fresh
<1>9. ASSUME g \notin Spoilt PROVE IsWritten(g, p)
  BY <1>9 DEF IInv
<1>10. ASSUME g \notin Spoilt' PROVE IsWritten(g, p)'
  <2>1. kid'[p] = r /\ data'[g] = t /\ image'[g] = image[g] /\ tmp' = tmp
    BY <1>1, <1>2, <1>3
  <2>2. HasDumped(t, r)
    BY <1>9, <1>10, <1>7
  <2> QED BY <1>4, <1>9, <1>10, <1>7, <2>1, <2>2 DEF IsWritten, HasDumped, NoString
<1>11. ASSUME NEW q \in Kids, q # p, NEW f, f = kid[q].file, f \in Kids \ Spoilt PROVE IsWritten(f, q)'
  <2>1. IsWritten(f, q)
    BY <1>11 DEF IInv
  <2>2. f # g
    BY <1>11, <2>1 DEF IsWritten
  <2>3. kid'[q] = kid[q] /\ tmp' = f /\ image'[f] = image[f] /\ data'[f] = data[f]
    BY <1>1, <1>2, <1>3, <1>11, <2>1, <2>2 DEF IsWritten
  <2> QED BY <1>4, <2>1, <2>3, WrittenSame
<1>12. ASSUME NEW q \in Kids PROVE (kid[q].file \in Kids \ Spoilt => IsWritten(kid[q].file, q))'
  BY <1>4, <1>10, <1>11, <1>7
<1>13. aof' \in Kids \ Spoilt' => IsSnapshot(aof)'
  <2> SUFFICES ASSUME aof \in Kids \ Spoilt' PROVE IsSnapshot(aof)'
    BY <1>1
  <2>1. PICK f : f = aof
    OBVIOUS
  <2>2. f # g
    BY <1>1, <1>9, <1>7, <2>1, KidsAssumption DEF IsWritten, Types
  <2>3. IsSnapshot(f) /\ data'[f] = data[f] /\ image'[f] = image[f]
    BY <1>1, <1>3, <1>7, <2>1, <2>2 DEF IInv
  <2>4. IsSnapshot(f)'
    BY <2>3, SnapshotSame
  <2> QED BY <1>1, <2>1, <2>4
<1> QED BY <1>6, <1>8, <1>12, <1>13 DEF IInv

\* What is dumped once key k was taken from the keys left: its list is replayed as it
\* was, its deadline comes later.
LEMMA DumpedKey ==
  ASSUME NEW x, NEW r, x.phase = "dump", NEW k \in x.left, k \in Keys, r.left = x.left \ {k},
         r.copy = x.copy, r.key = k, r.phase = IF x.copy.expires[k] = NoDate THEN "dump" ELSE "expire"
  PROVE  /\ x.copy.store[k] \notin Unlisted => Replayed(Dumped(x), Rpush(k, x.copy.store[k])) = Dumped(r)
         /\ x.copy.store[k] \in Unlisted => Dumped(r) = Dumped(x)
<1> DEFINE v == x.copy.store[k]
           had == {j \in Keys \ x.left : x.copy.store[j] \notin Unlisted}
           has == {j \in Keys \ r.left : r.copy.store[j] \notin Unlisted}
           dated == IF r.phase = "expire" THEN has \ {k} ELSE has
           Stored(S) == [j \in Keys |-> IF j \in S THEN x.copy.store[j] ELSE None]
           DatesOf(S)  == [j \in Keys |-> IF j \in S THEN Kept(x.copy.expires[j]) ELSE NoDate]
<1>1. Dumped(x) = [store |-> Stored(had), expires |-> DatesOf(had)]
  BY DEF Dumped
<1>2. Dumped(r) = [store |-> Stored(has), expires |-> DatesOf(dated)]
  BY DEF Dumped
<1>3. CASE v \notin Unlisted
  <2>1. has = had \cup {k} /\ k \notin had
    BY <1>3
  <2>2. Stored(has) = [Stored(had) EXCEPT ![k] = v] /\ Stored(had)[k] = None
    <3> HIDE DEF has, had
    <3> QED BY <2>1
  <2>3. DatesOf(dated) = DatesOf(had)
    <3>1. CASE x.copy.expires[k] = NoDate
      <4>1. dated = had \cup {k} /\ Kept(x.copy.expires[k]) = NoDate
        <5> HIDE DEF has, had
        <5> QED BY <2>1, <3>1 DEF Kept
      <4> HIDE DEF dated, had
      <4> QED BY <2>1, <4>1
    <3>2. CASE x.copy.expires[k] # NoDate
      <4> HIDE DEF has, had
      <4> QED BY <2>1, <3>2
    <3> QED BY <3>1, <3>2
  <2>4. Rpush(k, v).cmd = "RPUSH" /\ Rpush(k, v).key = k /\ Rpush(k, v).list = v /\ Rpush(k, v) \notin Broken
    <3>1. Rpush(k, v).cmd = "RPUSH" /\ Rpush(k, v).key = k /\ Rpush(k, v).list = v
      BY DEF Rpush, Cell
    <3>2. IsCommand(Rpush(k, v))
      BY <3>1 DEF IsCommand
    <3> QED BY <3>1, <3>2, NotBroken
  <2> HIDE DEF v, has, had, dated, DatesOf
  <2>5. PICK a, b : a = Stored(had) /\ b = DatesOf(had)
    OBVIOUS
  <2>6. PICK y : y = [store |-> a, expires |-> b]
    OBVIOUS
  <2>7. Replayed(y, Rpush(k, v)) = [y EXCEPT !.store[k] = v]
    BY <2>2, <2>4, <2>5, <2>6 DEF Replayed
  <2>8. [y EXCEPT !.store[k] = v] = [store |-> [a EXCEPT ![k] = v], expires |-> b]
    <3>1. PICK z : z = [y EXCEPT !.store[k] = v]
      OBVIOUS
    <3>2. z = [store |-> [a EXCEPT ![k] = v], expires |-> b]
      BY <2>6, <3>1
    <3> QED BY <3>1, <3>2
  <2>9. Replayed(Dumped(x), Rpush(k, v)) = Dumped(r)
    BY <1>1, <1>2, <2>2, <2>3, <2>5, <2>6, <2>7, <2>8
  <2> QED BY <1>3, <2>9 DEF v
<1>4. CASE v \in Unlisted
  <2>1. has = had /\ dated = had
    BY <1>4
  <2> HIDE DEF has, had, dated, Stored, DatesOf
  <2>2. Dumped(r) = Dumped(x)
    BY <1>1, <1>2, <2>1
  <2> QED BY <1>4, <2>2
<1> QED BY <1>3, <1>4

\* What is dumped once the deadline of the key at hand was written too.
LEMMA DumpedDate ==
  ASSUME NEW x, NEW r, x.phase = "expire", x.key \in Keys \ x.left, r.left = x.left,
         x.copy.expires[x.key] \in Nat, x.copy.expires[x.key] # NoDate,
         r.copy = x.copy, r.phase = "dump"
  PROVE  Replayed(Dumped(x), Expire(x.key, x.copy.expires[x.key])) = Dumped(r)
<1> DEFINE k == x.key
           e == x.copy.expires[k]
           has == {j \in Keys \ x.left : x.copy.store[j] \notin Unlisted}
           DatesOf(S) == [j \in Keys |-> IF j \in S THEN Kept(x.copy.expires[j]) ELSE NoDate]
           a == [j \in Keys |-> IF j \in has THEN x.copy.store[j] ELSE None]
<1>1. Dumped(x) = [store |-> a, expires |-> DatesOf(has \ {k})]
  BY DEF Dumped
<1>2. Dumped(r) = [store |-> a, expires |-> DatesOf(has)]
  BY DEF Dumped
<1>3. Expire(k, e).cmd = "EXPIRE" /\ Expire(k, e).key = k /\ Expire(k, e).ms = e /\ Expire(k, e) \notin Broken
  <2>1. Expire(k, e).cmd = "EXPIRE" /\ Expire(k, e).key = k /\ Expire(k, e).ms = e
    BY DEF Expire, Cell
  <2>2. IsCommand(Expire(k, e))
    BY <2>1 DEF IsCommand
  <2> QED BY <2>1, <2>2, NotBroken
<1>4. None \in Unlisted
  BY DEF Unlisted
<1>5. a[k] = None <=> k \notin has
  BY <1>4
<1>6. k \in has => DatesOf(has) = [DatesOf(has \ {k}) EXCEPT ![k] = Dated(e)]
  <2>1. Kept(e) = Dated(e)
    BY DEF Kept
  <2> HIDE DEF has
  <2> QED BY <2>1
<1>7. k \notin has => DatesOf(has) = DatesOf(has \ {k})
  <2>1. k \notin has => has \ {k} = has
    <3> HIDE DEF has
    <3> QED OBVIOUS
  <2> HIDE DEF has, DatesOf
  <2> QED BY <2>1
<1> HIDE DEF k, e, has, DatesOf, a
<1>8. PICK b : b = DatesOf(has \ {k})
  OBVIOUS
<1>9. PICK y : y = [store |-> a, expires |-> b]
  OBVIOUS
<1>10. PICK z : z = [y EXCEPT !.expires[k] = Dated(e)]
  OBVIOUS
<1>11. z = [store |-> a, expires |-> [b EXCEPT ![k] = Dated(e)]]
  BY <1>9, <1>10
<1>12. Replayed(y, Expire(k, e)) = IF k \notin has THEN y ELSE z
  <2>1. y.store = a
    BY <1>9
  <2> QED BY <1>3, <1>5, <1>10, <2>1 DEF Replayed
<1>13. Replayed(Dumped(x), Expire(k, e)) = Dumped(r)
  BY <1>1, <1>2, <1>6, <1>7, <1>8, <1>9, <1>11, <1>12
<1> QED BY <1>13 DEF k, e

\* A child that has ended.
Ended == [Idle EXCEPT !.phase = "ended"]

\* It holds no file.
LEMMA EndedIs ==
  Ended.phase = "ended" /\ Ended.file = NoFile /\ IsKid(Ended) /\ NoFile \notin Kids
<1>1. PICK r : r = Ended
  OBVIOUS
<1>2. r = [phase |-> "ended", file |-> NoFile, pos |-> 0, left |-> {}, key |-> NoKey, copy |-> NoKeys]
  BY <1>1 DEF Ended, Idle
<1>3. NoKeys.expires \in [Keys -> Dates]
  BY DEF NoKeys, Dates
<1>4. IsKid(r)
  BY <1>2, <1>3, KidsAssumption DEF IsKid
<1> QED BY <1>1, <1>2, <1>4, KidsAssumption

\* A child that has ended, or goes on without a file: what it held keeps its name, and no
\* one writes it.
LEMMA LetGoOK ==
  ASSUME IInv, NEW p \in Kids, NEW r, IsKid(r), r.file = NoFile, r.phase \notin {"idle", "open"},
         kid' = [kid EXCEPT ![p] = r], UNCHANGED Outside, UNCHANGED <<data, failed>>
  PROVE  IInv'
<1>1. Types /\ UNCHANGED <<store, expires, tmp, aof, data, image, shared, failed>>
  BY DEF IInv, Outside
<1>2. \A q \in Kids : kid'[q] = IF q = p THEN r ELSE kid[q]
  BY <1>1 DEF Types
<1>3. Types'
  BY <1>1, <1>2 DEF Types
<1>4. ASSUME NEW q \in Kids PROVE Fresh(q)'
  BY <1>1, <1>2, KidsAssumption DEF IInv, Fresh
<1>5. Spoilt' = Spoilt
  BY <1>1 DEF Spoilt
<1>6. ASSUME NEW q \in Kids, NEW f, f = kid'[q].file, f \in Kids \ Spoilt PROVE IsWritten(f, q)'
  <2>1. q # p /\ kid'[q] = kid[q] /\ IsWritten(f, q)
    BY <1>2, <1>6, KidsAssumption DEF IInv
  <2>2. \A h \in Kids : kid'[h].file = f => kid[h].file = f
    BY <1>2, <1>6, KidsAssumption
  <2>3. tmp' = f
    BY <1>1, <2>1 DEF IsWritten
  <2> QED BY <1>1, <2>1, <2>2, <2>3, WrittenSame
<1>7. ASSUME NEW q \in Kids PROVE (kid[q].file \in Kids \ Spoilt => IsWritten(kid[q].file, q))'
  BY <1>5, <1>6
<1>8. aof' \in Kids \ Spoilt' => IsSnapshot(aof)'
  BY <1>1, <1>5 DEF IInv, IsSnapshot
<1> QED BY <1>3, <1>4, <1>7, <1>8 DEF IInv

\* An opening that fails leaves the child without a file.
LEMMA OpenFailsOK ==
  ASSUME IInv, NEW p \in Kids, OpenFails(p)
  PROVE  IInv'
<1>1. PICK r : r = [kid[p] EXCEPT !.phase = "dump"]
  OBVIOUS
<1>2. /\ kid[p].phase = "open" /\ kid' = [kid EXCEPT ![p] = r]
      /\ UNCHANGED Outside /\ UNCHANGED <<data, failed>>
  BY <1>1 DEF OpenFails, Outside
<1>3. PICK x : x = kid[p] /\ IsKid(x)
  BY DEF IInv, Types
<1>4. r = [phase |-> "dump", file |-> x.file, pos |-> x.pos, left |-> x.left, key |-> x.key, copy |-> x.copy]
  BY <1>1, <1>3, KidMoved
<1>5. /\ r.phase = "dump" /\ r.file = x.file /\ r.pos = x.pos /\ r.left = x.left /\ r.key = x.key
      /\ r.copy = x.copy
  BY <1>4
<1>6. x.file = NoFile
  BY <1>2, <1>3 DEF IsKid
<1>7. IsKid(r)
  <2>1. r = [phase |-> r.phase, file |-> r.file, pos |-> r.pos, left |-> r.left, key |-> r.key, copy |-> r.copy]
    BY <1>4, <1>5
  <2> QED BY <1>3, <1>5, <1>6, <2>1 DEF IsKid
<1> QED BY <1>2, <1>5, <1>6, <1>7, LetGoOK

\* The values that stand for what is no list differ.
LEMMA Markers == String # Other /\ String # <<>>
<1>1. String[1] = "string" /\ Other[1] = "other"
  BY DEF String, Other
<1>2. Len(String) = 1 /\ Len(<<>>) = 0
  BY DEF String
<1> QED BY <1>1, <1>2

\* The child x with offset n, in phase ph.
After(x, ph, n) ==
  [phase |-> ph.phase, file |-> x.file, pos |-> n, left |-> ph.left, key |-> ph.key, copy |-> x.copy]

\* ph is a phase that the dumping child x can go on in.
IsPhase(x, ph) ==
  /\ ph.phase \in {"dump", "expire"} /\ ph.left \in SUBSET Keys
  /\ ph.phase = "expire" => ph.key \in Keys \ ph.left /\ x.copy.expires[ph.key] # NoDate

\* What a child becomes that goes on.
LEMMA AdvanceIs ==
  ASSUME NEW p \in Kids, NEW x, x = kid[p], IsKid(x), x.phase \in {"dump", "expire"},
         NEW ph, IsPhase(x, ph), NEW n \in Nat, Advance(p, n, ph)
  PROVE  \E r : /\ kid' = [kid EXCEPT ![p] = r] /\ IsKid(r) /\ r = After(x, ph, n)
                /\ r.file = x.file /\ r.copy = x.copy /\ r.pos = n /\ r.left = ph.left
                /\ r.phase \in {"dump", "expire"}
<1>1. PICK a, b, c : a = ph.phase /\ b = ph.left /\ c = ph.key
  OBVIOUS
<1>2. PICK r : Moved(r, x, n, a, b, c)
  BY DEF Moved
<1>3. kid' = [kid EXCEPT ![p] = r]
  BY <1>1, <1>2 DEF Advance, Moved
<1>4. r = [phase |-> a, file |-> x.file, pos |-> n, left |-> b, key |-> c, copy |-> x.copy]
  BY <1>2, KidWrote
<1>5. r = After(x, ph, n)
  BY <1>1, <1>4 DEF After
<1>6. r.file = x.file /\ r.copy = x.copy /\ r.pos = n /\ r.left = b /\ r.phase = a /\ r.key = c
  BY <1>4
<1>7. IsKid(r)
  <2>1. r = [phase |-> r.phase, file |-> r.file, pos |-> r.pos, left |-> r.left, key |-> r.key, copy |-> r.copy]
    BY <1>4, <1>6
  <2> QED BY <1>1, <1>6, <2>1 DEF IsKid, IsPhase
<1> QED BY <1>1, <1>3, <1>5, <1>6, <1>7 DEF IsPhase

\* The child x goes on in phase ph, and command c is what its file lacks then.
Continues(x, c, ph) ==
  /\ \A n \in Nat : Replayed(Dumped(x), c) = Dumped(After(x, ph, n))
  /\ NoString(x) => \A n \in Nat : NoString(After(x, ph, n))

\* A write, which may fail.
LEMMA WriteStepOK ==
  ASSUME IInv, NEW p \in Kids, NEW x, x = kid[p], x.phase \in {"dump", "expire"},
         NEW c, IsCommand(c), NEW ph, IsPhase(x, ph), Continues(x, c, ph),
         Write(p, c, ph), UNCHANGED Outside
  PROVE  IInv'
<1>1. Types /\ IsKid(x) /\ x.pos \in Nat /\ x.file \in Kids \cup {NoFile}
  BY DEF IInv, Types, IsKid
<1>2. CASE x.file = NoFile
  <2>1. Advance(p, x.pos, ph) /\ UNCHANGED <<data, failed>>
    BY <1>2 DEF Write
  <2>2. PICK r : /\ kid' = [kid EXCEPT ![p] = r] /\ IsKid(r)
                 /\ r.file = x.file /\ r.phase \in {"dump", "expire"}
    BY <1>1, <2>1, AdvanceIs
  <2> QED BY <1>2, <2>1, <2>2, LetGoOK
<1>3. CASE x.file \in Kids
  <2>1. PICK g : g = x.file /\ g \in Kids
    BY <1>3
  <2>2. PICK s : s = data[g] /\ IsFile(s)
    BY <1>1, <2>1 DEF Types
  <2>3. IsCell(Part) /\ IsCell(c)
    BY DEF IsCell, Broken
  <2>4. CASE /\ \E t \in Written(s, x.pos, c) : data' = [data EXCEPT ![g] = t]
             /\ Advance(p, x.pos + 1, ph) /\ failed' = failed
    <3>1. PICK t \in Written(s, x.pos, c) : data' = [data EXCEPT ![g] = t]
      BY <2>4
    <3>2. PICK n \in Nat : n = x.pos + 1
      BY <1>1
    <3>3. PICK r : /\ kid' = [kid EXCEPT ![p] = r] /\ IsKid(r) /\ r = After(x, ph, n)
                   /\ r.file = x.file /\ r.copy = x.copy /\ r.pos = n
      BY <1>1, <2>4, <3>2, AdvanceIs
    <3>4. IsFile(t)
      BY <1>1, <2>2, <2>3, <3>1, WriteOK
    <3>5. ASSUME IsWritten(g, p)
          PROVE  HasDumped(t, r)
      <4>1. x.pos = Len(s) /\ IsWhole(s) /\ Replay(s) = Dumped(x) /\ NoString(x)
        BY <2>2, <3>5 DEF IsWritten, NoString
      <4>2. IsWhole(t) /\ Len(t) = x.pos + 1 /\ Replay(t) = Replayed(Replay(s), c)
        BY <1>1, <2>2, <2>3, <3>1, <4>1, WriteOK
      <4>3. Replayed(Dumped(x), c) = Dumped(r) /\ NoString(r)
        BY <3>2, <3>3, <4>1 DEF Continues
      <4> QED BY <3>2, <3>3, <4>1, <4>2, <4>3 DEF HasDumped
    <3>6. failed' \in {failed, failed \cup {g}}
      BY <2>4
    <3> QED BY <2>1, <3>1, <3>3, <3>4, <3>5, <3>6, DumpOK
  <2>5. CASE /\ \E t \in Written(s, x.pos, Part) : data' = [data EXCEPT ![g] = t]
             /\ Advance(p, x.pos + 1, ph) /\ failed' = failed \cup {g}
    <3>1. PICK t \in Written(s, x.pos, Part) : data' = [data EXCEPT ![g] = t]
      BY <2>5
    <3>2. PICK n \in Nat : n = x.pos + 1
      BY <1>1
    <3>3. PICK r : /\ kid' = [kid EXCEPT ![p] = r] /\ IsKid(r)
                   /\ r.file = x.file /\ r.copy = x.copy
      <4>1. Advance(p, n, ph)
        BY <2>5, <3>2
      <4> QED BY <1>1, <4>1, AdvanceIs
    <3>4. IsFile(t)
      BY <1>1, <2>2, <2>3, <3>1, WriteOK
    <3>5. g \in failed' /\ failed' \in {failed, failed \cup {g}}
      BY <2>5
    <3> QED BY <2>1, <3>1, <3>3, <3>4, <3>5, DumpOK
  <2>6. CASE UNCHANGED data /\ Advance(p, x.pos, ph) /\ failed' = failed \cup {g}
    <3>1. PICK r : /\ kid' = [kid EXCEPT ![p] = r] /\ IsKid(r)
                   /\ r.file = x.file /\ r.copy = x.copy
      BY <1>1, <2>6, AdvanceIs
    <3>2. data' = [data EXCEPT ![g] = s]
      BY <1>1, <2>1, <2>2, <2>6 DEF Types
    <3>3. g \in failed' /\ failed' \in {failed, failed \cup {g}}
      BY <2>6
    <3> QED BY <2>1, <2>2, <3>1, <3>2, <3>3, DumpOK
  <2> QED BY <2>1, <2>2, <2>4, <2>5, <2>6, KidsAssumption DEF Write
<1> QED BY <1>1, <1>2, <1>3

\* A key is dumped: its list is written at the end of the file, or it is passed over.
LEMMA DumpKeyOK ==
  ASSUME IInv, NEW p \in Kids, DumpKey(p)
  PROVE  IInv'
<1>1. PICK x : x = kid[p] /\ IsKid(x) /\ Types
  BY DEF IInv, Types
<1>2. PICK k, v, ph :
        /\ k \in x.left /\ v = x.copy.store[k]
        /\ ph = [phase |-> IF x.copy.expires[k] = NoDate THEN "dump" ELSE "expire",
                 left |-> x.left \ {k}, key |-> k]
        /\ \/ v = String /\ StringPanics(p, k)
           \/ v \notin Unlisted /\ Write(p, Rpush(k, v), ph)
           \/ v \in {Other, <<>>} /\ Advance(p, x.pos, ph) /\ UNCHANGED <<data, failed>>
  BY <1>1 DEF DumpKey
<1>3. x.phase = "dump" /\ UNCHANGED Outside
  BY <1>1 DEF DumpKey
<1>4. k \in Keys /\ x.left \in SUBSET Keys /\ x.file \in Kids \cup {NoFile} /\ x.pos \in Nat
  BY <1>1, <1>2 DEF IsKid
<1>5. /\ ph.phase = IF x.copy.expires[k] = NoDate THEN "dump" ELSE "expire"
      /\ ph.left = x.left \ {k} /\ ph.key = k
  BY <1>2
<1>6. IsPhase(x, ph)
  BY <1>4, <1>5 DEF IsPhase
<1>7. ASSUME NEW n \in Nat
      PROVE  /\ v \notin Unlisted => Replayed(Dumped(x), Rpush(k, v)) = Dumped(After(x, ph, n))
             /\ v \in Unlisted => Dumped(After(x, ph, n)) = Dumped(x)
             /\ v # String /\ NoString(x) => NoString(After(x, ph, n))
  <2>1. PICK r : r = After(x, ph, n)
    OBVIOUS
  <2>2. r.left = x.left \ {k} /\ r.copy = x.copy /\ r.key = k /\ r.phase = ph.phase
    BY <1>5, <2>1 DEF After
  <2>3. v # String /\ NoString(x) => NoString(r)
    BY <1>2, <2>2 DEF NoString
  <2>4. /\ v \notin Unlisted => Replayed(Dumped(x), Rpush(k, v)) = Dumped(r)
        /\ v \in Unlisted => Dumped(r) = Dumped(x)
    BY <1>2, <1>3, <1>4, <1>5, <2>2, DumpedKey
  <2> QED BY <2>1, <2>3, <2>4
<1>8. CASE v = String /\ StringPanics(p, k)
  <2>1. kid' = [kid EXCEPT ![p] = Ended] /\ UNCHANGED <<data, failed>>
    BY <1>8 DEF StringPanics, Ended
  <2> QED BY <1>3, <2>1, EndedIs, LetGoOK
<1>9. CASE v \notin Unlisted /\ Write(p, Rpush(k, v), ph)
  <2>1. IsCommand(Rpush(k, v))
    BY <1>4 DEF IsCommand, Rpush, Cell
  <2>2. v # String
    BY <1>9 DEF Unlisted
  <2>3. Continues(x, Rpush(k, v), ph)
    BY <1>7, <1>9, <2>2 DEF Continues
  <2> QED BY <1>1, <1>3, <1>6, <1>9, <2>1, <2>3, WriteStepOK
<1>10. CASE v \in {Other, <<>>} /\ Advance(p, x.pos, ph) /\ UNCHANGED <<data, failed>>
  <2>1. v # String /\ v \in Unlisted
    BY <1>10, Markers DEF Unlisted
  <2>2. PICK r : /\ kid' = [kid EXCEPT ![p] = r] /\ IsKid(r) /\ r = After(x, ph, x.pos)
                 /\ r.file = x.file /\ r.copy = x.copy /\ r.pos = x.pos /\ r.phase \in {"dump", "expire"}
    <3>1. Advance(p, x.pos, ph)
      BY <1>10
    <3>2. PICK y : y = x.pos /\ y \in Nat
      BY <1>4
    <3> HIDE <1>2, <1>10
    <3> QED BY <1>1, <1>3, <1>6, <3>1, <3>2, AdvanceIs
  <2>3. CASE x.file = NoFile
    BY <1>3, <1>10, <2>2, <2>3, LetGoOK
  <2>4. CASE x.file \in Kids
    <3>1. PICK g, t : g = x.file /\ g \in Kids /\ t = data[g] /\ IsFile(t)
      BY <1>1, <2>4 DEF Types
    <3>2. data' = [data EXCEPT ![g] = t]
      BY <1>1, <1>10, <3>1 DEF Types
    <3>3. ASSUME IsWritten(g, p)
          PROVE  HasDumped(t, r)
      <4>1. x.pos = Len(t) /\ IsWhole(t) /\ Replay(t) = Dumped(x) /\ NoString(x)
        BY <1>1, <3>1, <3>3 DEF IsWritten, NoString
      <4> QED BY <1>4, <1>7, <2>1, <2>2, <4>1 DEF HasDumped
    <3>4. failed' \in {failed, failed \cup {g}}
      BY <1>10
    <3> QED BY <1>1, <1>3, <2>2, <3>1, <3>2, <3>3, <3>4, DumpOK
  <2> QED BY <1>4, <2>3, <2>4
<1> QED BY <1>2, <1>8, <1>9, <1>10

\* The deadline of that key is written, at the end of the file again.
LEMMA DumpExpiryOK ==
  ASSUME IInv, NEW p \in Kids, DumpExpiry(p)
  PROVE  IInv'
<1>1. PICK x : x = kid[p] /\ IsKid(x)
  BY DEF IInv, Types
<1>2. PICK c, ph : c = Expire(x.key, x.copy.expires[x.key]) /\ ph = [phase |-> "dump", left |-> x.left, key |-> x.key]
  OBVIOUS
<1>3. x.phase = "expire" /\ UNCHANGED Outside /\ Write(p, c, ph)
  BY <1>1, <1>2 DEF DumpExpiry
<1>4. ph.phase = "dump" /\ ph.left = x.left /\ ph.key = x.key
  BY <1>2
<1>5. x.key \in Keys \ x.left /\ x.left \in SUBSET Keys /\ x.copy.expires[x.key] \in Nat /\ x.copy.expires[x.key] # NoDate
  BY <1>1, <1>3 DEF IsKid, Dates
<1>6. IsCommand(c)
  BY <1>2, <1>5 DEF IsCommand, Expire, Cell
<1>7. IsPhase(x, ph)
  BY <1>4, <1>5 DEF IsPhase
<1>8. ASSUME NEW n \in Nat
      PROVE  /\ Replayed(Dumped(x), c) = Dumped(After(x, ph, n))
             /\ NoString(x) => NoString(After(x, ph, n))
  <2>1. PICK r : r = After(x, ph, n)
    OBVIOUS
  <2>2. r.left = x.left /\ r.copy = x.copy /\ r.phase = "dump"
    BY <1>4, <2>1 DEF After
  <2>3. NoString(x) => NoString(r)
    BY <2>2 DEF NoString
  <2>4. Replayed(Dumped(x), c) = Dumped(r)
    BY <1>2, <1>3, <1>5, <2>2, DumpedDate
  <2> QED BY <2>1, <2>3, <2>4
<1>9. Continues(x, c, ph)
  BY <1>8 DEF Continues
<1> QED BY <1>1, <1>3, <1>6, <1>7, <1>9, WriteStepOK

\* The rename: with no key left, what the child has dumped is the whole copy.
LEMMA RenamedOK ==
  ASSUME IInv, NEW p \in Kids, Rename(p), tmp' = Names.tmp, aof' = Names.aof,
         shared' = IF tmp \in {NoFile, kid[p].file} THEN shared ELSE shared \cup {tmp}
  PROVE  IInv'
<1>1. /\ kid[p].phase = "dump" /\ kid[p].left = {} /\ kid' = [kid EXCEPT ![p] = Ended]
      /\ tmp' = NoFile /\ aof' = IF tmp = NoFile THEN aof ELSE tmp
      /\ shared' = IF tmp \in {NoFile, kid[p].file} THEN shared ELSE shared \cup {tmp}
      /\ UNCHANGED <<store, expires, data, image, failed>>
  BY DEF Rename, Names, Ended
<1>2. Types /\ NoFile \notin Kids /\ Spoilt \subseteq Spoilt' /\ (tmp \notin {NoFile, kid[p].file} => tmp \in Spoilt')
  BY <1>1, KidsAssumption DEF IInv, Spoilt
<1>3. \A q \in Kids : kid'[q] = IF q = p THEN Ended ELSE kid[q]
  BY <1>1, <1>2 DEF Types
<1>4. Types'
  BY <1>1, <1>2, <1>3, EndedIs DEF Types
<1>5. ASSUME NEW q \in Kids PROVE Fresh(q)'
  BY <1>1, <1>2, <1>3, EndedIs DEF IInv, Fresh
<1>6. ASSUME NEW q \in Kids, kid'[q].file \in Kids \ Spoilt' PROVE FALSE
  <2>1. q # p /\ kid[q].file \in Kids \ Spoilt /\ kid[q].file \notin Spoilt'
    BY <1>2, <1>3, <1>6, EndedIs
  <2>2. tmp = kid[q].file /\ (kid[p].file = tmp => p = q)
    BY <2>1 DEF IInv, IsWritten
  <2> QED BY <1>1, <1>2, <2>1, <2>2
<1>7. ASSUME aof' \in Kids \ Spoilt' PROVE IsSnapshot(aof)'
  <2>1. PICK f : f = aof' /\ f \in Kids \ Spoilt' /\ f \notin Spoilt
    BY <1>2, <1>7
  <2>2. CASE tmp = NoFile
    <3>1. IsSnapshot(f)
      BY <1>1, <2>1, <2>2 DEF IInv
    <3> QED BY <1>1, <2>1, <3>1 DEF IsSnapshot
  <2>3. CASE tmp # NoFile
    <3>1. f = kid[p].file
      BY <1>1, <1>2, <2>1, <2>3
    <3>2. IsWritten(f, p)
      BY <2>1, <3>1 DEF IInv
    <3>3. Dumped(kid[p]) = Persisted(kid[p].copy)
      <4>1. {k \in Keys \ kid[p].left : kid[p].copy.store[k] \notin Unlisted}
              = {k \in Keys : kid[p].copy.store[k] \notin Unlisted}
        BY <1>1
      <4>2. /\ Dumped(kid[p]).store = Persisted(kid[p].copy).store
            /\ Dumped(kid[p]).expires = Persisted(kid[p].copy).expires
        BY <1>1, <4>1 DEF Dumped, Persisted, Kept
      <4> QED BY <4>2 DEF Dumped, Persisted
    <3>4. IsSnapshot(f)
      BY <1>1, <3>2, <3>3 DEF IsWritten, IsSnapshot
    <3> QED BY <1>1, <2>1, <3>4 DEF IsSnapshot
  <2> QED BY <2>2, <2>3
<1>8. ASSUME NEW q \in Kids PROVE (kid[q].file \in Kids \ Spoilt => IsWritten(kid[q].file, q))'
  BY <1>6
<1> QED BY <1>4, <1>5, <1>7, <1>8 DEF IInv

\* The renaming may fail; the child ends all the same.
LEMMA RenameOK ==
  ASSUME IInv, NEW p \in Kids, Rename(p)
  PROVE  IInv'
<1>1. /\ kid[p].phase = "dump" /\ kid[p].left = {} /\ kid' = [kid EXCEPT ![p] = Ended]
      /\ UNCHANGED <<store, expires, data, changes, image, failed>>
  BY DEF Rename, Ended
<1>2. CASE UNCHANGED <<tmp, aof, shared>>
  BY <1>1, <1>2, EndedIs, LetGoOK DEF Outside
<1>3. CASE /\ tmp' = Names.tmp /\ aof' = Names.aof
           /\ shared' = IF tmp \in {NoFile, kid[p].file} THEN shared ELSE shared \cup {tmp}
  BY <1>3, RenamedOK
<1> QED BY <1>2, <1>3 DEF Rename

\* Every step keeps the invariant.
LEMMA IInvNext == IInv /\ [Next]_vars => IInv'
<1> SUFFICES ASSUME IInv, [Next]_vars PROVE IInv'
  OBVIOUS
<1>1. ASSUME NEW k \in Keys, NEW v \in Lists \cup {String, Other, None}, NEW d \in {NoDate, Soon}, Change(k, v, d)
      PROVE  IInv'
  BY <1>1, ChangeOK
<1>2. ASSUME NEW p \in Kids, Bgrewriteaof(p) PROVE IInv'
  BY <1>2, BgrewriteaofOK
<1>3. ASSUME NEW p \in Kids, Open(p) PROVE IInv'
  BY <1>3, OpenOK
<1>4. ASSUME NEW p \in Kids, DumpKey(p) PROVE IInv'
  BY <1>4, DumpKeyOK
<1>5. ASSUME NEW p \in Kids, DumpExpiry(p) PROVE IInv'
  BY <1>5, DumpExpiryOK
<1>6. ASSUME NEW p \in Kids, Rename(p) PROVE IInv'
  BY <1>6, RenameOK
<1>7. ASSUME NEW p \in Kids, OpenFails(p) PROVE IInv'
  BY <1>7, OpenFailsOK
<1>8. CASE Restart
  BY <1>8, RestartOK
<1>9. CASE UNCHANGED vars
  <2>1. DOMAIN store' = Keys /\ expires' \in [Keys -> Dates]
    BY <1>9 DEF vars, IInv, Types
  <2> QED BY <1>9, <2>1, ServerOnly DEF vars
<1> HIDE DEF IInv
<1> QED BY <1>1, <1>2, <1>3, <1>4, <1>5, <1>6, <1>8, <1>9, <1>7 DEF Next

\* A whole file has no broken cell, so a restart replays all of it.
LEMMA IInvImplies == IInv => AofIsSnapshot
<1> SUFFICES ASSUME IInv PROVE AofIsSnapshot
  OBVIOUS
<1>1. Types
  BY DEF IInv
<1>2. TypeOK
  <2>1. ASSUME NEW f \in Kids, NEW c \in Range(data[f])
        PROVE  c \in Broken \/ (c.cmd \in {"RPUSH", "EXPIRE"} /\ c.key \in Keys)
    <3>1. IsFile(data[f])
      BY <1>1 DEF Types
    <3>2. IsCell(c)
      BY <2>1, <3>1 DEF IsFile, IsSeq, Range
    <3> QED BY <3>2 DEF IsCell, IsCommand
  <2> QED BY <1>1, <2>1 DEF Types, TypeOK, Dates
<1>3. ASSUME aof # NoFile, aof \notin shared \cup failed
      PROVE  /\ Restored(data[aof]) = {Persisted(image[aof])}
             /\ \A k \in Keys : image[aof].store[k] # String
  <2>1. IsSnapshot(aof)
    BY <1>1, <1>3 DEF IInv, Types, Spoilt
  <2>2. PICK s : s = data[aof] /\ IsWhole(s)
    BY <2>1 DEF IsSnapshot
  <2>3. Range(s) \cap Broken = {}
    <3>1. \A c \in Range(s) : IsCommand(c)
      BY <2>2 DEF IsWhole, IsSeq, Range
    <3> QED BY <3>1, NotBroken
  <2>4. Restored(s) = {Replay(s)}
    BY <2>3 DEF Restored
  <2> QED BY <2>1, <2>2, <2>4 DEF IsSnapshot
<1> QED BY <1>2, <1>3 DEF AofIsSnapshot

\* A file that only one rewriter had open, and that it wrote without a failure and renamed
\* itself, replays to the lists of one state of the store, deadlines included; and that
\* state held no string.  Openings and renamings that fail, of whatever rewriter, do not
\* touch it (aof.go:65-101).
THEOREM FileIsSnapshot == Spec => []AofIsSnapshot
<1>1. Init => IInv
  BY InitOK
<1>2. IInv /\ [Next]_vars => IInv'
  BY IInvNext
<1>3. IInv => AofIsSnapshot
  BY IInvImplies
<1> QED BY <1>1, <1>2, <1>3, PTL DEF Spec
=============================================================================
