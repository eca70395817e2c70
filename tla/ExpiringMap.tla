---------------------------- MODULE ExpiringMap ----------------------------
(***************************************************************************)
(* What the key space is to its clients: a map whose entries may have a    *)
(* deadline and are gone the moment it comes.  When and by whom a lapsed   *)
(* entry is deleted, how much is counted and which keys are candidates for *)
(* eviction is not part of it.                                             *)
(*                                                                         *)
(* Two things do show through.  While a lapsed entry is not yet deleted    *)
(* (its key is `stale`) a write without a deadline is lost, because it     *)
(* inherits the old one.  And a deadline is an unsigned number: one that   *)
(* EXPIRE puts before the beginning of time is far in the future.          *)
(* Keyspace implements this module.                                        *)
(***************************************************************************)
EXTENDS Integers, FiniteSets

CONSTANTS
  Keys, Objs, NoObj, Never,
  Ttls,         \* the durations of deadlines; those <= 0 mean none to Write
  Wide,         \* what deadlines wrap around at
  Limit,        \* entries, stale ones included, above which a write may drop some
  MaxDrop       \* how many a write may drop

VARIABLES
  map,          \* what a client reads at each key, NoObj if nothing
  due,          \* the deadline of each entry of map, Never if none
  stale,        \* keys whose entry has lapsed and still occupies the store
  clock,
  got           \* what was asked last: the key and result of a GET, the keys of a DEL

vars == <<map, due, stale, clock, got>>

Reply(cmd, K, o) == [cmd |-> cmd, keys |-> K, obj |-> o]
Idle == Reply("other", {}, NoObj)

Readable == LET m == map IN {k \in Keys : m[k] # NoObj}

\* The server starts with what it restored: entries, some with a deadline, which
\* may have come.
Init ==
  /\ clock \in Nat
  /\ map \in [Keys -> Objs \cup {NoObj}]
  /\ due \in [Keys -> Nat \cup {Never}]
  /\ stale \subseteq Keys \ Readable
  /\ \A k \in Keys : due[k] # Never => k \in Readable /\ due[k] > clock
  /\ got = Idle

\* Map m with deadlines d and stale keys s becomes the state at time t.
Settle(m, d, s, t) ==
  LET over == {k \in Keys : d[k] # Never /\ d[k] <= t}
  IN  /\ clock' = t
      /\ stale' = s \cup over
      /\ map' = [k \in Keys |-> IF k \in over THEN NoObj ELSE m[k]]
      /\ due' = [k \in Keys |-> IF k \in over THEN Never ELSE d[k]]

Without(f, K, none) == [k \in Keys |-> IF k \in K THEN none ELSE f[k]]

\* The entries a write may drop before it happens, beside stale keys s.
Droppable(s) ==
  LET held == Readable \cup s
  IN  IF Cardinality(held) < Limit THEN {{}} ELSE {V \in SUBSET held : Cardinality(V) <= MaxDrop}

\* A write without a deadline (ttl <= 0) keeps the one the key has; a stale
\* key swallows it.
Write(k, o, ttl) ==
  got' = Idle /\ \E V \in Droppable(stale) :
    LET s    == stale \ V
        lost == k \in s /\ ttl <= 0
        m    == Without(map, V, NoObj)
        d    == Without(due, V, Never)
    IN  Settle([m EXCEPT ![k] = IF lost THEN NoObj ELSE o],
               [d EXCEPT ![k] = IF ttl > 0 THEN clock + ttl ELSE @],
               IF lost THEN s ELSE s \ {k}, clock)

\* A command that reads the key before it writes it is never lost.
Create(k, o) ==
  /\ got' = Idle
  /\ k \notin Readable
  /\ \E V \in Droppable(stale \ {k}) :
       Settle([Without(map, V, NoObj) EXCEPT ![k] = o], Without(due, V, Never),
              stale \ (V \cup {k}), clock)

Update(k, o) ==
  /\ got' = Idle /\ k \in Readable
  /\ Settle([map EXCEPT ![k] = o], due, stale, clock)

\* A reader sees the map as it is when the answer is given.
Read(k) ==
  /\ got' = Reply("GET", {k}, map'[k])
  /\ \E t \in {clock, clock + 1} : Settle(map, due, stale \ {k}, t)

\* Any other command on a key, which may take some time.
Touch(k) ==
  /\ got' = Idle
  /\ \E t \in clock .. clock + 2 : Settle(map, due, stale \ {k}, t)

Expire(k, ttl) ==
  /\ got' = Idle /\ k \in Readable
  /\ Settle(map, [due EXCEPT ![k] = (clock + ttl) % Wide], stale, clock)

\* A readable entry goes because a client asked for it, or a write needed room.
Remove(K) ==
  /\ got' = Reply("DEL", K, NoObj)
  /\ Settle(Without(map, K, NoObj), Without(due, K, Never), stale \ K, clock)

\* Lapsed entries are deleted; time passes.
Reap(S) == got' = Idle /\ Settle(map, due, stale \ S, clock)
Pass    == UNCHANGED got /\ Settle(map, due, stale, clock + 1)

Next ==
  \/ \E k \in Keys : Read(k) \/ Touch(k)
  \/ \E K \in SUBSET Keys : Remove(K) \/ Reap(K)
  \/ Pass
  \/ \E k \in Keys, ttl \in Ttls : Expire(k, ttl)
  \/ \E k \in Keys, o \in Objs : Create(k, o) \/ Update(k, o) \/ \E ttl \in Ttls : Write(k, o, ttl)

Spec == Init /\ [][Next]_vars
=============================================================================
