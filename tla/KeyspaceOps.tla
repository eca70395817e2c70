---------------------------- MODULE KeyspaceOps ----------------------------
(***************************************************************************)
(* The operations of internal/store on the key space, as operators from    *)
(* key space to key space.  A key space is one record                      *)
(*                                                                         *)
(*   store    the Go map `store`: the object at each key, NoObj if absent  *)
(*   expires  the Go map `expires`: the absolute deadline of each key,     *)
(*            Never if it has none                                         *)
(*   stat     KeyspaceStat[0]["keys"], what INFO prints as `keys=`         *)
(*   pool     the keys in ePool.pool, the candidates for eviction          *)
(*   keyset   the keys of ePool.keyset, the keys that ever were candidates *)
(*   sig      the keys given to SignalModifiedKey by the current command   *)
(*                                                                         *)
(* The specifications of the commands (Keyspace, Transactions) chain these *)
(* operators as the handlers chain the functions; one that depends on the  *)
(* iteration order of a Go map is the set of its possible results.         *)
(***************************************************************************)
EXTENDS Integers, FiniteSets

CONSTANTS
  Keys,         \* the keys clients name
  Objs,         \* the objects a key can hold
  NoObj,        \* marks an absent key
  Never,        \* marks an absent deadline
  KeyLimit,     \* config.KeyLimit, the -key_limit flag
  SampleSize,   \* keys sampled into the eviction pool (5 in the code)
  ReapLimit,    \* expired keys one pass of the cron deletes (20 in the code)
  Wide          \* deadlines wrap around at Wide (uint64 milliseconds: 2^64 in the code)

ASSUME KeysAssumption   == IsFiniteSet(Keys)
ASSUME MarkersAssumption == NoObj \notin Objs /\ Never \notin Int
\* EvictCount is an int16 in the code; beyond this it would wrap around.
ASSUME LimitAssumption  == KeyLimit \in Nat /\ (2 * KeyLimit) \div 5 < 32768
ASSUME SampleAssumption == SampleSize \in Nat \ {0} /\ ReapLimit \in Nat \ {0}
ASSUME WideAssumption   == Wide \in Nat \ {0}

Deadlines == 0 .. Wide - 1

Db == [store   : [Keys -> Objs \cup {NoObj}],
       expires : [Keys -> Deadlines \cup {Never}],
       stat    : Int,
       pool    : SUBSET Keys,
       keyset  : SUBSET Keys,
       sig     : SUBSET Keys]

SmallerOf(m, n) == IF m <= n THEN m ELSE n

\* The candidates after the keys of S were put, one after the other, while the
\* limit was 0: each Put samples the keys before it, and evicts none of them.
Sampled(S) ==
  {P \in SUBSET S : \/ P = S /\ S = {}
                    \/ P # S /\ Cardinality(P) >= SmallerOf(SampleSize, Cardinality(S) - 1)}

(***************************************************************************)
(* What the server starts with: Restoreaof has put objects of O, and given *)
(* deadlines of D to some of them, before main sets KeyLimit (which is 0   *)
(* until then) and SignalModifiedKey.  Without a file there is nothing.    *)
(***************************************************************************)
Restorations(O, D) ==
  UNION {{[store   |-> [k \in Keys |-> IF k \in S THEN f[k] ELSE NoObj],
           expires |-> [k \in Keys |-> IF k \in S THEN x[k] ELSE Never],
           stat    |-> Cardinality(S),
           pool    |-> P,
           keyset  |-> P,
           sig     |-> {}] : f \in [S -> O], x \in [S -> D \cup {Never}], P \in Sampled(S)}
         : S \in SUBSET Keys}

Present(d) == {k \in Keys : d.store[k] # NoObj}

\* hasExpired: a deadline that is the current millisecond has passed.
HasExpired(d, k, t) == d.expires[k] # Never /\ d.expires[k] <= t

\* Keys whose entry has lapsed and is still in the map, and those that are
\* neither absent nor lapsed.
Lapsed(d, t)  == {k \in Present(d) : HasExpired(d, k, t)}
Visible(d, t) == Present(d) \ Lapsed(d, t)

\* Fault: the deadlines of deleted keys stay behind.
DelKeepingDeadlines(d, K) ==
  LET gone == K \cap Present(d)
  IN  [d EXCEPT !.store = [k \in Keys |-> IF k \in gone THEN NoObj ELSE @[k]],
                !.stat  = @ - Cardinality(gone),
                !.sig   = @ \cup gone]

\* Fault: nobody is told.
DelSilently(d, K) ==
  LET gone == K \cap Present(d)
  IN  [d EXCEPT !.store   = [k \in Keys |-> IF k \in gone THEN NoObj ELSE @[k]],
                !.expires = [k \in Keys |-> IF k \in gone THEN Never ELSE @[k]],
                !.stat    = @ - Cardinality(gone)]

(***************************************************************************)
(* Del of every key in K: only a key that is present is counted, signalled *)
(* and loses its deadline.                                                 *)
(***************************************************************************)
Del(d, K) ==
  LET gone == K \cap Present(d)
  IN  [d EXCEPT !.store   = [k \in Keys |-> IF k \in gone THEN NoObj ELSE @[k]],
                !.expires = [k \in Keys |-> IF k \in gone THEN Never ELSE @[k]],
                !.stat    = @ - Cardinality(gone),
                !.sig     = @ \cup gone]

\* Fault: Get drops a lapsed entry from the store map only.
GetKeepingDeadline(d, k, t) ==
  IF k \in Lapsed(d, t) THEN DelKeepingDeadlines(d, {k}) ELSE d

\* Get as far as it changes the key space: an entry found lapsed is deleted
\* on the way.  What it finds is the object the result holds at k.
Get(d, k, t) == IF k \in Lapsed(d, t) THEN Del(d, {k}) ELSE d

\* Fault: a sum outside the range is the largest deadline.
DeadlineClamped(t, ttl) == IF t + ttl \in Deadlines THEN t + ttl ELSE Wide - 1

\* Both the clock and the duration, an int64, are converted to uint64 and added:
\* a duration that goes back beyond 1970 makes a deadline far in the future.
Deadline(t, ttl) == (t + ttl) % Wide

SetExpiry(d, k, ttl, t) == [d EXCEPT !.expires[k] = Deadline(t, ttl)]

(***************************************************************************)
(* Eviction.  A sample of the stored keys joins the pool, except those     *)
(* that have ever been in it: Pop takes a key out of `pool` and leaves it  *)
(* in `keyset`.  Then the first EvictCount keys of the pool are deleted,   *)
(* if they still exist.  The pool's order (the minute of the last access,  *)
(* as it was when the key was pushed) is left open: any of its keys may    *)
(* come first.                                                             *)
(***************************************************************************)
EvictCount == (2 * KeyLimit) \div 5

Samples(d) == {S \in SUBSET Present(d) :
                 Cardinality(S) = SmallerOf(SampleSize, Cardinality(Present(d)))}

\* Fault: a key that was popped becomes a candidate again.
PoolWithAnew(d, S) == d.pool \cup S

PoolWith(d, S) == d.pool \cup (S \ d.keyset)

Victims(d, S) == {V \in SUBSET PoolWith(d, S) :
                    Cardinality(V) = SmallerOf(EvictCount, Cardinality(PoolWith(d, S)))}

Evict(d, S, V) == Del([d EXCEPT !.pool = PoolWith(d, S) \ V, !.keyset = @ \cup S], V)

\* What Put makes room with, at or above the limit.
Evictions(d) ==
  IF Cardinality(Present(d)) < KeyLimit
  THEN {d}
  ELSE UNION {{Evict(d, S, V) : V \in Victims(d, S)} : S \in Samples(d)}

(***************************************************************************)
(* Put: make room, store, set the deadline if a positive one was given     *)
(* (otherwise a deadline the key already has stays), signal and count.     *)
(***************************************************************************)
Stored(d, k, o, ttl, t) ==
  [d EXCEPT !.store[k]   = o,
            !.expires[k] = IF ttl > 0 THEN Deadline(t, ttl) ELSE @,
            !.sig        = @ \cup {k},
            !.stat       = @ + 1]

Puts(d, k, o, ttl, t) == {Stored(e, k, o, ttl, t) : e \in Evictions(d)}

\* Fault: the pass ends at the first key that has not lapsed.
ReapsUntilLive(d, t) ==
  {Del(d, S) : S \in {R \in SUBSET Lapsed(d, t) :
     /\ Cardinality(R) <= ReapLimit
     /\ Visible(d, t) = {} => Cardinality(R) = SmallerOf(ReapLimit, Cardinality(Lapsed(d, t)))}}

\* Fault: every key with a deadline is taken for lapsed.
ReapsEarly(d, t) ==
  {Del(d, S) : S \in {R \in SUBSET Present(d) :
     Cardinality(R) <= ReapLimit /\ \A k \in R : d.expires[k] # Never}}

\* DeleteExpiredKey: one pass over the map in some order, up to ReapLimit
\* lapsed keys.  (expireSample never counts what it deletes, so the loop
\* around it ends after the first pass.)
Reaps(d, t) ==
  {Del(d, S) : S \in {R \in SUBSET Lapsed(d, t) :
     Cardinality(R) = SmallerOf(ReapLimit, Cardinality(Lapsed(d, t)))}}
=============================================================================
