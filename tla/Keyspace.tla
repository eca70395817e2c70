------------------------------ MODULE Keyspace ------------------------------
(***************************************************************************)
(* The key space under the commands of internal/store/key_cmd.go, the      *)
(* commands that create a collection, and the expiry cron.  One thread     *)
(* runs all of them, so a command is one action; only the clock moves      *)
(* while a command reads it more than once.                                *)
(***************************************************************************)
EXTENDS KeyspaceOps

CONSTANTS
  SetObjs,      \* the objects clients SET
  SetTtls,      \* the durations clients give SET ... EX, in clock units
  ExpTtls,      \* the durations clients give EXPIRE
  StartObjs,    \* the objects that a replay may leave at the start
  StartDues,    \* the deadlines that it may leave
  IntMin,       \* the range of a stored integer (int64 in the code)
  IntMax,
  Unit,         \* clock units in a second (1000 in the code)
  StartTime,    \* the clock when the server starts
  MaxTime,      \* bound on the clock
  MaxStat       \* bound on the statistics counter

VARIABLES
  db,           \* the key space
  now,          \* the wall clock
  reply         \* the last command and what it answered

vars == <<db, now, reply>>

IntObj(n) == [type |-> "int", val |-> n]
StrObj    == [type |-> "str", val |-> 0]
CollObj   == [type |-> "coll", val |-> 0]

\* An object that looks like an integer may hold a literal beyond this range.
ASSUME IntegersAssumption == IntMin \in Int /\ IntMax \in Int /\ IntMin <= 0 /\ 1 <= IntMax

\* The durations are what the product of seconds and 1000 is in an int64, whatever
\* the seconds are; the clock, milliseconds since 1970, is within the same range.
Durations == -(Wide \div 2) .. (Wide \div 2) - 1

ASSUME TimeAssumption ==
  /\ Unit \in Nat \ {0} /\ MaxStat \in Nat
  /\ StartTime \in Nat /\ MaxTime \in Durations /\ StartTime <= MaxTime
  /\ SetTtls \subseteq Durations /\ ExpTtls \subseteq Durations
  /\ StartDues \subseteq Deadlines
ASSUME ObjectsAssumption ==
  /\ SetObjs \subseteq Objs /\ StartObjs \subseteq Objs /\ CollObj \in Objs
  /\ \A n \in IntMin .. IntMax : IntObj(n) \in Objs
  /\ \A o \in Objs : o.type = "int" => o.val \in Int

\* Fault: the literal is used as it stands.
ParsedUnchecked(n) == n

\* strconv.ParseInt with its error dropped: out of range is the nearest bound.
Parsed(n) == IF n > IntMax THEN IntMax ELSE IF n < IntMin THEN IntMin ELSE n

\* i++ on an int64.
Successor(n) == IF n = IntMax THEN IntMin ELSE n + 1

\* A reply is shaped like an object, so that GET can answer one.
Status(s) == [type |-> s, val |-> 0]
Ok        == Status("OK")
Nil       == Status("nil")
WrongType == Status("wrong type")
Underflow == Status("underflow")

\* What GET answers for nothing is no object.
ASSUME RepliesAssumption == Nil \notin Objs

\* What was answered, and what a write that was answered put into the store.
Wrote(cmd, k, val, o) == [cmd |-> cmd, key |-> {k}, val |-> val, obj |-> o]
Answer(cmd, K, val)   == [cmd |-> cmd, key |-> K, val |-> val, obj |-> NoObj]

\* A command starts with nothing signalled.
Before == [db EXCEPT !.sig = {}]

Room == db.stat < MaxStat

Init ==
  /\ db \in Restorations(StartObjs, StartDues)
  /\ now = StartTime
  /\ reply = Answer("start", {}, Ok)

\* A command that puts without looking: what was there is replaced.
Overwrite(cmd, k, o, ttl) ==
  /\ Room
  /\ db' \in Puts(Before, k, o, ttl, now)
  /\ reply' = Wrote(cmd, k, Ok, o)
  /\ UNCHANGED now

SetCmd(k, o, ttl) == Overwrite(IF ttl > 0 THEN "SET EX" ELSE "SET", k, o, ttl)

ReserveCmd(k) == Overwrite("BF.RESERVE", k, CollObj, -1)

\* GET reads the clock a second time before it answers.
GetCmd(k) ==
  /\ now' \in {now, now + 1} /\ now' <= MaxTime
  /\ db' = Get(Before, k, now)
  /\ reply' = Answer("GET", {k}, IF k \in Visible(db', now') THEN db'.store[k] ELSE Nil)

\* INCR of an absent key creates it; of an existing one it works in place,
\* without a signal.
IncrAbsent(k) ==
  LET e == Get(Before, k, now)
  IN  /\ Room
      /\ k \notin Present(e)
      /\ \E f \in Puts(e, k, IntObj(0), -1, now) :
            db' = [f EXCEPT !.store[k] = IntObj(1)]
      /\ reply' = Wrote("INCR", k, IntObj(1), IntObj(1))
      /\ UNCHANGED now

IncrPresent(k) ==
  LET e == Get(Before, k, now)
      n == Successor(Parsed(e.store[k].val))
  IN  /\ k \in Present(e)
      /\ e.store[k].type = "int"
      /\ db' = [e EXCEPT !.store[k] = IntObj(n)]
      /\ reply' = Wrote("INCR", k, IntObj(n), IntObj(n))
      /\ UNCHANGED now

IncrRefused(k) ==
  LET e == Get(Before, k, now)
  IN  /\ k \in Present(e)
      /\ e.store[k].type # "int"
      /\ db' = e
      /\ reply' = Answer("INCR", {k}, WrongType)
      /\ UNCHANGED now

IncrCmd(k) == IncrAbsent(k) \/ IncrPresent(k) \/ IncrRefused(k)

ExpCmd(k, ttl) ==
  LET e == Get(Before, k, now)
  IN  /\ db' = IF k \in Present(e) THEN SetExpiry(e, k, ttl, now) ELSE e
      /\ reply' = Answer("EXPIRE", {k}, IntObj(IF k \in Present(e) THEN 1 ELSE 0))
      /\ UNCHANGED now

\* TTL reads the clock three times: for Get, for the check and for the
\* subtraction of two uint64, which wraps around if the deadline slips past
\* between the last two.
Remaining(exp, t) == IF t > exp THEN Underflow ELSE IntObj((exp - t) \div Unit)

TtlCmd(k) ==
  LET e == Get(Before, k, now)
  IN  \E checked \in {now, now + 1} :
        /\ now' \in {checked, checked + 1} /\ now' <= MaxTime
        /\ db' = e
        /\ reply' = Answer("TTL", {k},
             IF k \notin Present(e) THEN IntObj(-2)
             ELSE IF e.expires[k] = Never THEN IntObj(-1)
             ELSE IF checked > e.expires[k] THEN IntObj(-2)
             ELSE Remaining(e.expires[k], now'))

DelCmd(K) ==
  /\ db' = Del(Before, K)
  /\ reply' = Answer("DEL", K, IntObj(Cardinality(K \cap Present(db))))
  /\ UNCHANGED now

\* LPUSH, RPUSH, SADD, ZADD, GEOADD: create the collection if the key is absent,
\* otherwise change it in place.  (BF.ADD creates nothing: it is a GET here.)
CollCmd(k) ==
  LET e == Get(Before, k, now)
  IN  /\ \/ /\ Room
            /\ k \notin Present(e)
            /\ db' \in Puts(e, k, CollObj, -1, now)
            /\ reply' = Wrote("PUSH", k, Ok, CollObj)
         \/ /\ k \in Present(e)
            /\ db' = e
            /\ reply' = IF e.store[k].type = "coll" THEN Wrote("PUSH", k, Ok, e.store[k])
                        ELSE Answer("PUSH", {k}, WrongType)
      /\ UNCHANGED now

\* serverCronHandler, as far as it touches the key space.
Cron(e) ==
  /\ e \in Reaps(Before, now)
  /\ db' = e
  /\ reply' = Answer("cron", {}, Ok)
  /\ UNCHANGED now

Tick ==
  /\ now < MaxTime
  /\ now' = now + 1
  /\ UNCHANGED <<db, reply>>

Next ==
  \/ \E k \in Keys :
       \/ \E o \in SetObjs, ttl \in SetTtls : SetCmd(k, o, ttl)
       \/ \E ttl \in ExpTtls : ExpCmd(k, ttl)
       \/ GetCmd(k) \/ IncrCmd(k) \/ TtlCmd(k) \/ CollCmd(k) \/ ReserveCmd(k)
  \/ \E K \in SUBSET Keys \ {{}} : DelCmd(K)
  \/ \E e \in Reaps(Before, now) : Cron(e)
  \/ Tick

Spec == Init /\ [][Next]_vars

\* The cron runs every second for as long as the server does.  Which of the lapsed
\* keys a pass deletes, if they are more than its limit, is up to the map's order.
Fairness == WF_vars(\E e \in Reaps(Before, now) : Cron(e))

FairSpec == Spec /\ Fairness

-----------------------------------------------------------------------------
\* The state has its type.
TypeOK ==
  /\ db \in Db
  /\ now \in Nat

\* A deadline belongs to a stored key: every path that deletes an entry
\* deletes its deadline with it (store.go Del), so a key never inherits the
\* deadline of an entry that was deleted, evicted or reaped.
DeadlineHasEntry == \A k \in Keys : db.expires[k] # Never => k \in Present(db)

\* The count INFO prints (stats.go) never falls below the keys stored.  (It
\* may exceed them: Put counts an overwrite as a new key.)
StatCoversStore == db.stat >= Cardinality(Present(db))

\* Keys that were candidates for eviction and are no more.
Spent == db.keyset \ db.pool

\* Commands that store something, when they are answered so.
Writes == {"SET", "SET EX", "BF.RESERVE", "INCR", "PUSH"}

\* The store grows at its limit, or above it after a replay, only when eviction has run
\* dry: the pool gave a key that was gone already, or as many stored keys as a sample has
\* (all, if they are fewer) have used up their candidacy.
OverflowIsSpent ==
  [][EvictCount > 0 /\ Cardinality(Present(db)) >= KeyLimit
       /\ Cardinality(Present(db')) > Cardinality(Present(db))
     => \/ Spent' # Spent
        \/ Cardinality(Spent \cap Present(db)) >= SmallerOf(SampleSize, Cardinality(Present(db)))]_vars

\* A key leaves the eviction pool once: after that no Put ever evicts it
\* (evictionpool.go Pop keeps it in keyset, Push skips what is in keyset).
EvictedOnce ==
  [][\A k \in Keys : k \in Spent => k \in Spent' /\ (reply'.cmd \in Writes
        /\ k \notin reply'.key /\ k \in Visible(db, now) => k \in Present(db'))]_vars

\* What a write that was acknowledged stored is what a reader finds, unless the key held
\* an entry that had lapsed and was not reaped: then SET without EX and BF.RESERVE, which
\* do not look at what they replace, keep its deadline and the new value is born expired.
AckedWriteIsRead ==
  [][now' = now /\ reply'.cmd \in Writes /\ reply'.val # WrongType =>
       \A k \in reply'.key :
         \/ k \in Visible(db', now') /\ db'.store[k] = reply'.obj
         \/ reply'.cmd \in {"SET", "BF.RESERVE"} /\ k \in Lapsed(db, now)]_vars

\* No entry changes hands silently: whatever a step replaces or removes in the
\* store, the watchers of the key are told, except when INCR works in place.
ChangeIsSignalled ==
  [][\A k \in Keys : db'.store[k] # db.store[k] =>
       k \in db'.sig \/ (reply'.cmd = "INCR" /\ reply'.key = {k})]_vars

\* What a client can tell of the key space is ExpiringMap: lazy deletion, the cron, the
\* counters and the pool are invisible, deadlines are exact (those of EXPIRE wrap around
\* below zero), every GET answers the value of the moment it is given, and a readable
\* entry goes by DEL, or by the eviction of a write that finds the store at its limit,
\* and not otherwise.
Shown(f, none) == LET v == Visible(db, now) IN [k \in Keys |-> IF k \in v THEN f[k] ELSE none]

\* The last command, as ExpiringMap tells commands apart.
Asked ==
  CASE reply.cmd = "GET" -> [cmd |-> "GET", keys |-> reply.key,
                             obj |-> IF reply.val = Nil THEN NoObj ELSE reply.val]
    [] reply.cmd = "DEL" -> [cmd |-> "DEL", keys |-> reply.key, obj |-> NoObj]
    [] OTHER -> [cmd |-> "other", keys |-> {}, obj |-> NoObj]

Promise == INSTANCE ExpiringMap WITH
  Ttls    <- SetTtls \cup ExpTtls \cup {-1},
  Limit   <- KeyLimit,
  MaxDrop <- EvictCount,
  map     <- Shown(db.store, NoObj),
  due     <- Shown(db.expires, Never),
  stale   <- Lapsed(db, now),
  clock   <- now,
  got     <- Asked

ImplementsExpiringMap == Promise!Spec

\* Lapsed entries do not stay in memory.  As long as one pass of the cron can take them
\* all, each goes, whatever clients do meanwhile; and if no more entries lapse from some
\* time on, all are gone in the end, however many passes it takes.
LapsedIsReaped ==
  /\ \A k \in Keys : k \in Lapsed(db, now) ~>
       k \notin Lapsed(db, now) \/ Cardinality(Lapsed(db, now)) > ReapLimit
  /\ <>[][Lapsed(db', now') \subseteq Lapsed(db, now)]_vars => <>[](Lapsed(db, now) = {})
=============================================================================
