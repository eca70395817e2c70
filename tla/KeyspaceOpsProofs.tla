------------------------- MODULE KeyspaceOpsProofs -------------------------
(***************************************************************************)
(* What the operators of KeyspaceOps preserve, for every key space that    *)
(* satisfies DbInv.  The proofs about Keyspace rest on these lemmas.       *)
(***************************************************************************)
EXTENDS KeyspaceOps, FiniteSetTheorems, TLAPS

DbInv(d) ==
  /\ d \in Db
  /\ \A k \in Keys : d.expires[k] # Never => k \in Present(d)
  /\ d.stat >= Cardinality(Present(d))
  /\ d.pool \subseteq d.keyset

\* Keys that were candidates for eviction in d and are no more.
SpentIn(d) == d.keyset \ d.pool

\* What is left of the pool when an eviction has deleted nothing: it gave keys that
\* were gone, or it had none to give, for the keys of a sample were all spent.
RunDry(d, e) ==
  \/ SpentIn(e) # SpentIn(d)
  \/ Cardinality(SpentIn(d) \cap Present(d)) >= SmallerOf(SampleSize, Cardinality(Present(d)))

\* A deadline is within the range of its type, whatever the duration.
LEMMA DeadlineType ==
  ASSUME NEW t \in Int, NEW ttl \in Int
  PROVE  Deadline(t, ttl) \in Deadlines
<1> DEFINE a == t + ttl
<1>1. a \in Int
  OBVIOUS
<1> HIDE DEF a
<1>2. a % Wide \in 0 .. Wide - 1
  BY <1>1, WideAssumption
<1> QED BY <1>2 DEF Deadline, Deadlines, a

\* It is the sum if the sum fits.
LEMMA DeadlineFits ==
  ASSUME NEW t \in Int, NEW ttl \in Int, t + ttl \in Deadlines
  PROVE  Deadline(t, ttl) = t + ttl
<1> DEFINE a == t + ttl
<1>1. a \in 0 .. Wide - 1
  BY DEF Deadlines
<1> HIDE DEF a
<1>2. a % Wide = a
  BY <1>1, WideAssumption
<1> QED BY <1>2 DEF Deadline, a

\* Sets of keys are finite and no larger than what contains them.
LEMMA KeySets ==
  ASSUME NEW S \in SUBSET Keys
  PROVE  /\ IsFiniteSet(S)
         /\ Cardinality(S) \in Nat
         /\ Cardinality(S) <= Cardinality(Keys)
         /\ \A T \in SUBSET S : /\ IsFiniteSet(T)
                                /\ Cardinality(T) \in Nat
                                /\ Cardinality(T) <= Cardinality(S)
                                /\ Cardinality(S) = Cardinality(T) => S = T
                                /\ Cardinality(S \ T) = Cardinality(S) - Cardinality(T)
<1>1. /\ IsFiniteSet(S) /\ Cardinality(S) <= Cardinality(Keys)
  BY KeysAssumption, FS_Subset
<1>2. Cardinality(S) \in Nat
  BY <1>1, FS_CardinalityType
<1>3. ASSUME NEW T \in SUBSET S
      PROVE  /\ IsFiniteSet(T)
             /\ Cardinality(T) \in Nat
             /\ Cardinality(T) <= Cardinality(S)
             /\ Cardinality(S) = Cardinality(T) => S = T
             /\ Cardinality(S \ T) = Cardinality(S) - Cardinality(T)
  <2>1. /\ IsFiniteSet(T)
        /\ Cardinality(T) <= Cardinality(S)
        /\ Cardinality(S) = Cardinality(T) => S = T
    BY <1>1, FS_Subset
  <2>2. Cardinality(T) \in Nat
    BY <2>1, FS_CardinalityType
  <2>3. S \ T \in SUBSET S
    OBVIOUS
  <2>4. IsFiniteSet(S \ T)
    BY <1>1, <2>3, FS_Subset
  <2>5. Cardinality(S \ T) \in Nat
    BY <2>4, FS_CardinalityType
  <2>6. (S \ T) \cup T = S /\ (S \ T) \cap T = {}
    OBVIOUS
  <2>7. Cardinality((S \ T) \cup T)
          = Cardinality(S \ T) + Cardinality(T) - Cardinality((S \ T) \cap T)
    BY <2>1, <2>4, FS_Union
  <2>8. Cardinality({}) = 0
    BY FS_EmptySet
  <2>9. Cardinality(S) = Cardinality(S \ T) + Cardinality(T) - 0
    BY <2>6, <2>7, <2>8, Zenon
  <2>10. Cardinality(S \ T) = Cardinality(S) - Cardinality(T)
    BY <2>2, <2>5, <2>9
  <2> QED BY <2>1, <2>2, <2>10
<1> QED BY <1>1, <1>2, <1>3

\* What a replay leaves satisfies the invariants.
LEMMA RestoredOK ==
  ASSUME NEW O \in SUBSET Objs, NEW D \in SUBSET Deadlines, NEW d \in Restorations(O, D)
  PROVE  DbInv(d) /\ d.sig = {}
<1>1. PICK S \in SUBSET Keys : \E f \in [S -> O], x \in [S -> D \cup {Never}], P \in Sampled(S) :
        d = [store   |-> [k \in Keys |-> IF k \in S THEN f[k] ELSE NoObj],
             expires |-> [k \in Keys |-> IF k \in S THEN x[k] ELSE Never],
             stat    |-> Cardinality(S),
             pool    |-> P,
             keyset  |-> P,
             sig     |-> {}]
  BY DEF Restorations
<1>2. PICK f \in [S -> O], x \in [S -> D \cup {Never}], P \in Sampled(S) :
        d = [store   |-> [k \in Keys |-> IF k \in S THEN f[k] ELSE NoObj],
             expires |-> [k \in Keys |-> IF k \in S THEN x[k] ELSE Never],
             stat    |-> Cardinality(S),
             pool    |-> P,
             keyset  |-> P,
             sig     |-> {}]
  BY <1>1
<1>3. P \in SUBSET Keys
  BY DEF Sampled
<1>4. Cardinality(S) \in Nat
  BY KeySets
<1>5. [k \in Keys |-> IF k \in S THEN f[k] ELSE NoObj] \in [Keys -> Objs \cup {NoObj}]
  OBVIOUS
<1>6. [k \in Keys |-> IF k \in S THEN x[k] ELSE Never] \in [Keys -> Deadlines \cup {Never}]
  OBVIOUS
<1>7. d \in Db
  BY <1>2, <1>3, <1>4, <1>5, <1>6 DEF Db
<1>8. Present(d) = S
  BY <1>2, MarkersAssumption DEF Present
<1>9. \A k \in Keys : d.expires[k] # Never => k \in Present(d)
  BY <1>2, <1>8
<1> QED BY <1>2, <1>4, <1>7, <1>8, <1>9 DEF DbInv

\* Forgetting what was signalled changes nothing else.
LEMMA UnsignalledOK ==
  ASSUME NEW d, DbInv(d)
  PROVE  LET e == [d EXCEPT !.sig = {}]
         IN  DbInv(e) /\ Present(e) = Present(d) /\ SpentIn(e) = SpentIn(d)
  BY DEF DbInv, Db, Present, SpentIn

\* Del deletes exactly the keys given and leaves the pool alone.
LEMMA DelOK ==
  ASSUME NEW d, DbInv(d), NEW K
  PROVE  /\ DbInv(Del(d, K))
         /\ Present(Del(d, K)) = Present(d) \ K
         /\ Del(d, K).pool = d.pool
         /\ Del(d, K).keyset = d.keyset
<1> DEFINE gone == K \cap Present(d)
           e    == Del(d, K)
<1>0. d \in Db /\ Present(d) \in SUBSET Keys /\ gone \in SUBSET Present(d)
  BY DEF DbInv, Present
<1>1. Cardinality(gone) \in Nat /\ Cardinality(Present(d)) \in Nat
      /\ Cardinality(Present(d) \ gone) = Cardinality(Present(d)) - Cardinality(gone)
  BY <1>0, KeySets
<1>2. /\ e.store = [k \in Keys |-> IF k \in gone THEN NoObj ELSE d.store[k]]
      /\ e.expires = [k \in Keys |-> IF k \in gone THEN Never ELSE d.expires[k]]
      /\ e.stat = d.stat - Cardinality(gone)
      /\ e.pool = d.pool /\ e.keyset = d.keyset
      /\ e.sig = d.sig \cup gone
      /\ e \in [store : {e.store}, expires : {e.expires}, stat : {e.stat},
                pool : {e.pool}, keyset : {e.keyset}, sig : {e.sig}]
  BY <1>0 DEF Db, Del
<1>3. e \in Db
  <2>1. e.store \in [Keys -> Objs \cup {NoObj}] /\ e.expires \in [Keys -> Deadlines \cup {Never}]
    BY <1>0, <1>2 DEF Db
  <2>2. e.stat \in Int
    BY <1>0, <1>1, <1>2 DEF Db
  <2>3. e.pool \in SUBSET Keys /\ e.keyset \in SUBSET Keys /\ e.sig \in SUBSET Keys
    BY <1>0, <1>2 DEF Db
  <2> QED BY <1>2, <2>1, <2>2, <2>3 DEF Db
<1>4. Present(e) = Present(d) \ gone /\ Present(e) = Present(d) \ K
  BY <1>2 DEF Present
<1>5. e.stat >= Cardinality(Present(e))
  BY <1>0, <1>1, <1>2, <1>4 DEF DbInv, Db
<1>6. \A k \in Keys : e.expires[k] # Never => k \in Present(e)
  BY <1>2, <1>4 DEF DbInv
<1>7. DbInv(e)
  BY <1>2, <1>3, <1>5, <1>6 DEF DbInv
<1> QED BY <1>2, <1>4, <1>7

\* Get leaves a key space that satisfies the invariants.
LEMMA GetOK ==
  ASSUME NEW d, DbInv(d), NEW k, NEW t
  PROVE  /\ DbInv(Get(d, k, t))
         /\ Present(Get(d, k, t)) \subseteq Present(d)
  BY DelOK DEF Get

\* EXPIRE gives a stored key a deadline.
LEMMA SetExpiryOK ==
  ASSUME NEW d, DbInv(d), NEW k \in Present(d), NEW ttl \in Int, NEW t \in Int
  PROVE  /\ DbInv(SetExpiry(d, k, ttl, t))
         /\ Present(SetExpiry(d, k, ttl, t)) = Present(d)
         /\ SpentIn(SetExpiry(d, k, ttl, t)) = SpentIn(d)
<1> DEFINE e == SetExpiry(d, k, ttl, t)
<1>0. Deadline(t, ttl) \in Deadlines
  BY DeadlineType
<1>1. e.store = d.store /\ e.stat = d.stat /\ e.pool = d.pool /\ e.keyset = d.keyset
      /\ e.expires = [d.expires EXCEPT ![k] = Deadline(t, ttl)]
  BY DEF DbInv, Db, SetExpiry
<1>2. e \in Db
  BY <1>0 DEF DbInv, Db, SetExpiry
<1>3. Present(e) = Present(d) /\ SpentIn(e) = SpentIn(d)
  BY <1>1 DEF Present, SpentIn
<1> QED BY <1>1, <1>2, <1>3 DEF DbInv, Db

\* Eviction keeps the invariants; at the limit it deletes something or has run dry.
LEMMA EvictionsOK ==
  ASSUME NEW d, DbInv(d), NEW e \in Evictions(d)
  PROVE  /\ DbInv(e)
         /\ Present(e) \subseteq Present(d)
         /\ Cardinality(Present(d)) < KeyLimit => e = d
         /\ SpentIn(d) \subseteq SpentIn(e)
         /\ \A k \in SpentIn(d) : k \in Present(d) => k \in Present(e)
         /\ EvictCount > 0 /\ Cardinality(Present(d)) >= KeyLimit /\ Present(e) = Present(d)
              => RunDry(d, e)
<1>0. /\ d \in Db /\ Present(d) \in SUBSET Keys /\ d.pool \subseteq d.keyset
      /\ SpentIn(d) \in SUBSET Keys
  BY DEF DbInv, Db, Present, SpentIn
<1>00. Cardinality(Present(d)) \in Nat /\ Cardinality(SpentIn(d)) \in Nat
  BY <1>0, KeySets
<1>1. CASE Cardinality(Present(d)) < KeyLimit
  <2>1. e = d
    BY <1>1 DEF Evictions
  <2> QED BY <1>00, <1>1, <2>1, LimitAssumption
<1>2. CASE ~ (Cardinality(Present(d)) < KeyLimit)
  <2>0. PICK S \in Samples(d) : \E V \in Victims(d, S) : e = Evict(d, S, V)
    BY <1>2 DEF Evictions
  <2>1. PICK V \in Victims(d, S) : e = Evict(d, S, V)
    BY <2>0
  <2> DEFINE p == PoolWith(d, S)
             f == [d EXCEPT !.pool = p \ V, !.keyset = @ \cup S]
  <2>2. S \in SUBSET Present(d) /\ V \in SUBSET p
    BY DEF Samples, Victims
  <2>3. p \in SUBSET Keys
    BY <1>0, <2>2 DEF PoolWith, Db
  <2>4. /\ f \in Db /\ f.pool = p \ V /\ f.keyset = d.keyset \cup S
        /\ f.store = d.store /\ f.expires = d.expires /\ f.stat = d.stat
    BY <1>0, <2>2, <2>3 DEF Db
  <2>5. Present(f) = Present(d)
    BY <2>4 DEF Present
  <2>6. DbInv(f)
    BY <1>0, <2>4, <2>5 DEF DbInv, PoolWith
  <2>7. e = Del(f, V)
    BY <2>1 DEF Evict
  <2> HIDE DEF f
  <2>8. /\ DbInv(e) /\ Present(e) = Present(d) \ V
        /\ e.pool = f.pool /\ e.keyset = f.keyset
    BY <2>5, <2>6, <2>7, DelOK
  <2>9. SpentIn(e) = SpentIn(d) \cup V /\ SpentIn(d) \cap V = {}
    BY <1>0, <2>2, <2>4, <2>8 DEF SpentIn, PoolWith
  <2>10. ASSUME EvictCount > 0, Present(e) = Present(d)
         PROVE  RunDry(d, e)
    <3>1. V \cap Present(d) = {}
      BY <2>8, <2>10
    <3>2. CASE V # {}
      BY <2>9, <3>2 DEF RunDry
    <3>3. CASE V = {}
      <4>1. Cardinality(V) = 0
        BY <3>3, FS_EmptySet
      <4>2. Cardinality(V) = SmallerOf(EvictCount, Cardinality(p))
        BY DEF Victims
      <4>3. Cardinality(p) \in Nat /\ EvictCount \in Nat
        BY <2>3, KeySets, LimitAssumption DEF EvictCount
      <4>4. Cardinality(p) = 0
        BY <2>10, <4>1, <4>2, <4>3 DEF SmallerOf
      <4>5. {} \in SUBSET p
        OBVIOUS
      <4>6. p = {}
        BY <2>3, <4>1, <3>3, <4>4, <4>5, KeySets
      <4>7. S \in SUBSET (SpentIn(d) \cap Present(d))
        BY <2>2, <4>6 DEF PoolWith, SpentIn
      <4>8. Cardinality(S) = SmallerOf(SampleSize, Cardinality(Present(d)))
        BY DEF Samples
      <4>9. SpentIn(d) \cap Present(d) \in SUBSET Keys
        BY <1>0
      <4>10. /\ Cardinality(S) <= Cardinality(SpentIn(d) \cap Present(d))
             /\ Cardinality(SpentIn(d) \cap Present(d)) \in Nat /\ Cardinality(S) \in Nat
        BY <4>7, <4>9, KeySets
      <4> QED BY <4>8, <4>10 DEF RunDry
    <3> QED BY <3>2, <3>3
  <2>11. \A k \in SpentIn(d) : k \in Present(d) => k \in Present(e)
    BY <2>8, <2>9
  <2> QED BY <1>2, <2>8, <2>9, <2>10, <2>11
<1> QED BY <1>1, <1>2

\* Put stores its key and keeps the invariants; no key but those of the
\* eviction leaves the store.
LEMMA PutsOK ==
  ASSUME NEW d, DbInv(d), NEW k \in Keys, NEW o \in Objs,
         NEW ttl \in Int, NEW t \in Int, NEW e \in Puts(d, k, o, ttl, t)
  PROVE  /\ DbInv(e)
         /\ k \in Present(e) /\ e.store[k] = o
         /\ SpentIn(d) \subseteq SpentIn(e)
         /\ \A q \in SpentIn(d) : q \in Present(d) => q \in Present(e)
         /\ Cardinality(Present(d)) < KeyLimit => Present(d) \subseteq Present(e)
         /\ Cardinality(Present(e)) <= Cardinality(Present(d)) + 1
         /\ EvictCount > 0 /\ Cardinality(Present(d)) >= KeyLimit
              /\ Cardinality(Present(e)) > Cardinality(Present(d))
            => RunDry(d, e)
<1>0. Deadline(t, ttl) \in Deadlines
  BY DeadlineType
<1>1. PICK f \in Evictions(d) : e = Stored(f, k, o, ttl, t)
  BY DEF Puts
<1>2. /\ DbInv(f) /\ f \in Db
      /\ SpentIn(d) \subseteq SpentIn(f)
      /\ \A q \in SpentIn(d) : q \in Present(d) => q \in Present(f)
      /\ Cardinality(Present(d)) < KeyLimit => f = d
      /\ Present(f) \subseteq Present(d)
      /\ EvictCount > 0 /\ Cardinality(Present(d)) >= KeyLimit /\ Present(f) = Present(d)
           => RunDry(d, f)
  BY EvictionsOK DEF DbInv
<1>3. /\ e.store = [f.store EXCEPT ![k] = o]
      /\ e.expires = [f.expires EXCEPT ![k] = IF ttl > 0 THEN Deadline(t, ttl) ELSE @]
      /\ e.stat = f.stat + 1
      /\ e.pool = f.pool /\ e.keyset = f.keyset
  BY <1>1, <1>2 DEF Stored, Db
<1>4. e \in Db
  <2>1. /\ e.store \in [Keys -> Objs \cup {NoObj}] /\ e.expires \in [Keys -> Deadlines \cup {Never}]
        /\ e.stat \in Int /\ e.pool \in SUBSET Keys /\ e.keyset \in SUBSET Keys
    BY <1>0, <1>2, <1>3 DEF Db
  <2>2. e.sig = f.sig \cup {k}
    BY <1>1, <1>2 DEF Stored, Db
  <2>3. e.sig \in SUBSET Keys
    BY <1>2, <2>2 DEF Db
  <2>4. e = [store |-> e.store, expires |-> e.expires, stat |-> e.stat,
             pool |-> e.pool, keyset |-> e.keyset, sig |-> e.sig]
    BY <1>1, <1>2 DEF Stored, Db
  <2> QED BY <2>1, <2>3, <2>4 DEF Db
<1>5. Present(e) = Present(f) \cup {k} /\ e.store[k] = o
  BY <1>2, <1>3, MarkersAssumption DEF Present, Db
<1>6. Present(f) \in SUBSET Keys
  BY DEF Present
<1>7. Cardinality(Present(f)) \in Nat /\ IsFiniteSet(Present(f))
  BY <1>6, KeySets
<1>8. /\ Cardinality(Present(e)) <= Cardinality(Present(f)) + 1
      /\ Cardinality(Present(e)) \in Nat
  <2>1. Cardinality(Present(f) \cup {k})
           = IF k \in Present(f) THEN Cardinality(Present(f)) ELSE Cardinality(Present(f)) + 1
    BY <1>7, FS_AddElement
  <2> QED BY <1>5, <1>7, <2>1
<1>9. e.stat >= Cardinality(Present(e))
  BY <1>2, <1>3, <1>7, <1>8 DEF DbInv, Db
<1>10. \A q \in Keys : e.expires[q] # Never => q \in Present(e)
  BY <1>2, <1>3, <1>5 DEF DbInv, Db
<1>11. DbInv(e)
  BY <1>2, <1>3, <1>4, <1>9, <1>10 DEF DbInv
<1>12. SpentIn(e) = SpentIn(f)
  BY <1>3 DEF SpentIn
<1>13. /\ Present(f) \in SUBSET Present(d) /\ Present(d) \in SUBSET Keys
       /\ Cardinality(Present(d)) \in Nat /\ Cardinality(Present(f)) <= Cardinality(Present(d))
       /\ Cardinality(Present(d)) = Cardinality(Present(f)) => Present(d) = Present(f)
  <2>1. Present(f) \in SUBSET Present(d) /\ Present(d) \in SUBSET Keys
    BY <1>2 DEF Present
  <2> QED BY <2>1, KeySets
<1>14. Cardinality(Present(e)) <= Cardinality(Present(d)) + 1
  BY <1>7, <1>8, <1>13
<1>15. ASSUME EvictCount > 0, Cardinality(Present(d)) >= KeyLimit,
              Cardinality(Present(e)) > Cardinality(Present(d))
       PROVE  RunDry(d, e)
  <2>1. Present(f) = Present(d)
    BY <1>7, <1>8, <1>13, <1>15
  <2>2. RunDry(d, f)
    BY <1>2, <1>15, <2>1
  <2> QED BY <1>12, <2>2 DEF RunDry
<1> QED BY <1>2, <1>5, <1>11, <1>12, <1>14, <1>15

\* Storing another object under a stored key changes neither the set of stored
\* keys nor anything else the invariants speak of.
LEMMA InPlaceOK ==
  ASSUME NEW d, DbInv(d), NEW k \in Present(d), NEW o \in Objs
  PROVE  LET e == [d EXCEPT !.store[k] = o]
         IN  DbInv(e) /\ Present(e) = Present(d) /\ SpentIn(e) = SpentIn(d)
<1> DEFINE e == [d EXCEPT !.store[k] = o]
<1>1. /\ e.store = [d.store EXCEPT ![k] = o]
      /\ e.expires = d.expires /\ e.stat = d.stat /\ e.pool = d.pool /\ e.keyset = d.keyset
  BY DEF DbInv, Db
<1>2. e \in Db
  BY DEF DbInv, Db
<1>3. Present(e) = Present(d)
  BY <1>1, MarkersAssumption DEF DbInv, Db, Present
<1>4. SpentIn(e) = SpentIn(d)
  BY <1>1 DEF SpentIn
<1> QED BY <1>1, <1>2, <1>3, <1>4 DEF DbInv

\* The reaper deletes lapsed keys only, and keeps the invariants.
LEMMA ReapsOK ==
  ASSUME NEW d, DbInv(d), NEW t, NEW e \in Reaps(d, t)
  PROVE  DbInv(e) /\ Visible(d, t) \subseteq Present(e) /\ Present(e) \subseteq Present(d)
<1>1. PICK S \in SUBSET Lapsed(d, t) : e = Del(d, S)
  BY DEF Reaps
<1> QED BY <1>1, DelOK DEF Visible

(***************************************************************************)
(* Who is told.  Whatever an operator changes at a key, it signals it.     *)
(***************************************************************************)
Told(d, e) ==
  /\ d.sig \subseteq e.sig
  /\ \A k \in Keys \ e.sig : e.store[k] = d.store[k] /\ e.expires[k] = d.expires[k]

\* Del signals the keys it deletes.
LEMMA DelTells ==
  ASSUME NEW d \in Db, NEW K
  PROVE  /\ Told(d, Del(d, K))
         /\ Del(d, K).sig = d.sig \cup (K \cap Present(d))
  BY DEF Del, Db, Told

\* Get signals a lapsed key, which it deletes.
LEMMA GetTells ==
  ASSUME NEW d \in Db, NEW k, NEW t
  PROVE  Told(d, Get(d, k, t)) /\ k \notin Lapsed(Get(d, k, t), t)
<1>1. CASE k \in Lapsed(d, t)
  <2>1. Get(d, k, t) = Del(d, {k})
    BY <1>1 DEF Get
  <2>2. k \notin Present(Del(d, {k}))
    BY DEF Del, Db, Present
  <2> QED BY <2>1, <2>2, DelTells DEF Lapsed
<1>2. CASE k \notin Lapsed(d, t)
  BY <1>2 DEF Get, Told
<1> QED BY <1>1, <1>2

\* Eviction signals its victims.
LEMMA EvictionsTell ==
  ASSUME NEW d \in Db, NEW e \in Evictions(d)
  PROVE  Told(d, e)
<1>1. CASE Cardinality(Present(d)) < KeyLimit
  BY <1>1 DEF Evictions, Told
<1>2. CASE ~ (Cardinality(Present(d)) < KeyLimit)
  <2>1. PICK S \in Samples(d) : \E V \in Victims(d, S) : e = Evict(d, S, V)
    BY <1>2 DEF Evictions
  <2>2. PICK V \in Victims(d, S) : e = Evict(d, S, V)
    BY <2>1
  <2> DEFINE f == [d EXCEPT !.pool = PoolWith(d, S) \ V, !.keyset = @ \cup S]
  <2>3. S \in SUBSET Keys /\ PoolWith(d, S) \in SUBSET Keys
    BY DEF Samples, Present, PoolWith, Db
  <2>4. f \in Db /\ f.sig = d.sig /\ f.store = d.store /\ f.expires = d.expires
    BY <2>3 DEF Db
  <2>5. e = Del(f, V)
    BY <2>2 DEF Evict
  <2> HIDE DEF f
  <2> QED BY <2>4, <2>5, DelTells DEF Told
<1> QED BY <1>1, <1>2

\* Put signals its key.
LEMMA PutsTell ==
  ASSUME NEW d \in Db, NEW k \in Keys, NEW o, NEW ttl, NEW t, NEW e \in Puts(d, k, o, ttl, t), DbInv(d)
  PROVE  Told(d, e) /\ k \in e.sig
<1>1. PICK f \in Evictions(d) : e = Stored(f, k, o, ttl, t)
  BY DEF Puts
<1>2. f \in Db /\ Told(d, f)
  BY EvictionsTell, EvictionsOK DEF DbInv
<1>3. /\ e.sig = f.sig \cup {k}
      /\ e.store = [f.store EXCEPT ![k] = o]
      /\ e.expires = [f.expires EXCEPT ![k] = IF ttl > 0 THEN Deadline(t, ttl) ELSE @]
  BY <1>1, <1>2 DEF Stored, Db
<1> QED BY <1>2, <1>3 DEF Told, Db

\* The reaper signals what it deletes.
LEMMA ReapsTell ==
  ASSUME NEW d \in Db, NEW t, NEW e \in Reaps(d, t)
  PROVE  Told(d, e)
  BY DelTells DEF Reaps

\* What tells d and then e, tells both.
LEMMA ToldBoth ==
  ASSUME NEW d, NEW e, NEW f, Told(d, e), Told(e, f)
  PROVE  Told(d, f)
  BY DEF Told

(***************************************************************************)
(* What is over stays over.  A key that has been a candidate for eviction  *)
(* is no candidate again, and it leaves the store only if it is among the  *)
(* keys K that the command is about.                                       *)
(***************************************************************************)
Spares(d, e, K) ==
  /\ SpentIn(d) \subseteq SpentIn(e)
  /\ \A q \in SpentIn(d) \ K : q \in Present(d) => q \in Present(e)

LEMMA SparesBoth ==
  ASSUME NEW d, NEW e, NEW f, NEW K, Spares(d, e, K), Spares(e, f, K)
  PROVE  Spares(d, f, K)
  BY DEF Spares

LEMMA DelSpares ==
  ASSUME NEW d, DbInv(d), NEW K
  PROVE  Spares(d, Del(d, K), K)
<1>1. SpentIn(Del(d, K)) = SpentIn(d)
  BY DelOK DEF SpentIn
<1> QED BY <1>1, DelOK DEF Spares

LEMMA GetSpares ==
  ASSUME NEW d, DbInv(d), NEW k, NEW t
  PROVE  Spares(d, Get(d, k, t), {k})
<1>1. Spares(d, d, {k})
  BY DEF Spares
<1> QED BY <1>1, DelSpares DEF Get

LEMMA PutsSpare ==
  ASSUME NEW d, DbInv(d), NEW k \in Keys, NEW o \in Objs,
         NEW ttl \in Int, NEW t \in Int, NEW e \in Puts(d, k, o, ttl, t)
  PROVE  Spares(d, e, {k})
  BY PutsOK DEF Spares

(***************************************************************************)
(* Deadlines.  Put gives its key the deadline it was told, or leaves it    *)
(* with the one it had, if the eviction did not take that.                 *)
(***************************************************************************)
LEMMA EvictionsDeadline ==
  ASSUME NEW d, DbInv(d), NEW e \in Evictions(d), NEW k \in Keys
  PROVE  e.expires[k] \in {Never, d.expires[k]}
<1>0. d \in Db
  BY DEF DbInv
<1>1. CASE Cardinality(Present(d)) < KeyLimit
  BY <1>1 DEF Evictions
<1>2. CASE ~ (Cardinality(Present(d)) < KeyLimit)
  <2>1. PICK S \in Samples(d) : \E V \in Victims(d, S) : e = Evict(d, S, V)
    BY <1>2 DEF Evictions
  <2>2. PICK V \in Victims(d, S) : e = Evict(d, S, V)
    BY <2>1
  <2> DEFINE f == [d EXCEPT !.pool = PoolWith(d, S) \ V, !.keyset = @ \cup S]
  <2>3. f.expires = d.expires /\ e = Del(f, V)
    BY <1>0, <2>2 DEF Evict, Db
  <2>4. Del(f, V).expires = [q \in Keys |-> IF q \in V \cap Present(f) THEN Never ELSE f.expires[q]]
    BY <1>0 DEF Del, Db
  <2> HIDE DEF f
  <2> QED BY <2>3, <2>4
<1> QED BY <1>1, <1>2

LEMMA PutDeadline ==
  ASSUME NEW d, DbInv(d), NEW k \in Keys, NEW o \in Objs,
         NEW ttl \in Int, NEW t \in Int, NEW e \in Puts(d, k, o, ttl, t)
  PROVE  /\ ttl > 0 => e.expires[k] = Deadline(t, ttl)
         /\ ~ (ttl > 0) => e.expires[k] \in {Never, d.expires[k]}
<1>1. PICK f \in Evictions(d) : e = Stored(f, k, o, ttl, t)
  BY DEF Puts
<1>2. f \in Db /\ f.expires[k] \in {Never, d.expires[k]}
  BY EvictionsOK, EvictionsDeadline DEF DbInv
<1>3. e.expires = [f.expires EXCEPT ![k] = IF ttl > 0 THEN Deadline(t, ttl) ELSE f.expires[k]]
  BY <1>1, <1>2 DEF Stored, Db
<1>4. e.expires[k] = IF ttl > 0 THEN Deadline(t, ttl) ELSE f.expires[k]
  BY <1>2, <1>3 DEF Db
<1> QED BY <1>2, <1>4
=============================================================================
