--------------------------- MODULE KeyspaceProofs ---------------------------
(***************************************************************************)
(* Proofs that Keyspace keeps its invariants for every set of keys, every  *)
(* limit and every sample size.  A command chains the operators of         *)
(* KeyspaceOps, so each step of the induction is a chain of their lemmas;  *)
(* and that it implements ExpiringMap.                                     *)
(***************************************************************************)
EXTENDS Keyspace, KeyspaceOpsProofs

\* The inductive invariant.
IInv == DbInv(db) /\ now \in 0 .. MaxTime

LEMMA InitOK == Init => IInv
<1> SUFFICES ASSUME Init PROVE IInv
  OBVIOUS
<1>1. /\ StartObjs \in SUBSET Objs /\ StartDues \in SUBSET Deadlines
      /\ db \in Restorations(StartObjs, StartDues)
  BY TimeAssumption, ObjectsAssumption, Zenon DEF Init
<1>2. DbInv(db)
  BY <1>1, RestoredOK, Zenon
<1>3. StartTime \in 0 .. MaxTime
  BY TimeAssumption DEF Durations
<1>4. now = StartTime
  BY DEF Init
<1> QED BY <1>2, <1>3, <1>4 DEF IInv

\* Deadlines that lie ahead do not wrap around.
LEMMA AheadFits ==
  ASSUME NEW t \in 0 .. MaxTime, NEW ttl \in Durations, ttl > 0
  PROVE  t + ttl \in Deadlines /\ Deadline(t, ttl) = t + ttl
<1>1. t \in Int /\ ttl \in Int /\ t >= 0 /\ t < Wide \div 2 /\ ttl < Wide \div 2
  BY TimeAssumption, WideAssumption DEF Durations
<1>2. Wide \div 2 \in Int /\ (Wide \div 2) + (Wide \div 2) <= Wide
  BY WideAssumption
<1>3. t + ttl \in Deadlines
  BY <1>1, <1>2, WideAssumption DEF Deadlines
<1> QED BY <1>1, <1>3, DeadlineFits

\* SET and BF.RESERVE: some object, with a deadline if the command is SET ... EX.
Overwrites(k) ==
  \E cmd \in {"SET", "SET EX", "BF.RESERVE"}, o \in Objs, ttl \in SetTtls \cup {-1} :
    Overwrite(cmd, k, o, ttl) /\ (cmd = "SET EX" <=> ttl > 0)

LEMMA TtlsAreDurations == SetTtls \cup ExpTtls \cup {-1} \subseteq Durations /\ Durations \subseteq Int
<1>1. Wide \div 2 \in Int /\ MaxTime \in Int /\ StartTime >= 0 /\ StartTime <= MaxTime
      /\ MaxTime < Wide \div 2 /\ StartTime \in Int
  BY TimeAssumption, WideAssumption DEF Durations
<1>2. -1 \in Durations
  BY <1>1 DEF Durations
<1> QED BY <1>1, <1>2, TimeAssumption DEF Durations

LEMMA OverwritesPut ==
  ASSUME NEW k, Overwrites(k)
  PROVE  /\ \E o \in Objs, ttl \in Int : db' \in Puts(Before, k, o, ttl, now)
         /\ now' = now /\ reply'.key = {k}
<1>1. PICK cmd \in {"SET", "SET EX", "BF.RESERVE"}, o \in Objs, ttl \in SetTtls \cup {-1} :
        Overwrite(cmd, k, o, ttl)
  BY DEF Overwrites
<1>2. ttl \in Int
  BY TtlsAreDurations
<1> QED BY <1>1, <1>2 DEF Overwrite, Wrote

\* A deadline is a number.
LEMMA DeadlinesAreInts ==
  ASSUME NEW d \in Db
  PROVE  d.expires \in [Keys -> Int \cup {Never}]
<1>1. Deadlines \subseteq Int
  BY WideAssumption DEF Deadlines
<1> QED BY <1>1 DEF Db

LEMMA OverwritesAre ==
  ASSUME NEW k \in Keys,
         (\E o \in SetObjs, ttl \in SetTtls : SetCmd(k, o, ttl)) \/ ReserveCmd(k)
  PROVE  Overwrites(k)
<1>1. CASE \E o \in SetObjs, ttl \in SetTtls : SetCmd(k, o, ttl)
  <2>1. PICK o \in SetObjs, ttl \in SetTtls : SetCmd(k, o, ttl)
    BY <1>1
  <2>2. o \in Objs
    BY ObjectsAssumption
  <2>3. CASE ttl > 0
    <3>1. Overwrite("SET EX", k, o, ttl)
      BY <2>1, <2>3 DEF SetCmd
    <3> QED BY <2>2, <2>3, <3>1 DEF Overwrites
  <2>4. CASE ~ (ttl > 0)
    <3>1. Overwrite("SET", k, o, ttl)
      BY <2>1, <2>4 DEF SetCmd
    <3> QED BY <2>2, <2>4, <3>1 DEF Overwrites
  <2> QED BY <2>3, <2>4
<1>2. CASE ReserveCmd(k)
  <2>1. Overwrite("BF.RESERVE", k, CollObj, -1) /\ CollObj \in Objs /\ ~ (-1 > 0)
    BY <1>2, ObjectsAssumption DEF ReserveCmd
  <2> QED BY <2>1 DEF Overwrites
<1> QED BY <1>1, <1>2

LEMMA BeforeOK ==
  ASSUME IInv
  PROVE  DbInv(Before) /\ Present(Before) = Present(db)
  BY UnsignalledOK DEF IInv, Before

\* INCR stores an integer of the range.
LEMMA IncrInRange ==
  ASSUME NEW n \in Int
  PROVE  IntObj(Successor(Parsed(n))) \in Objs
<1>1. Parsed(n) \in IntMin .. IntMax
  BY IntegersAssumption DEF Parsed
<1>2. Successor(Parsed(n)) \in IntMin .. IntMax
  BY <1>1, IntegersAssumption DEF Successor
<1> QED BY <1>2, ObjectsAssumption

\* Every command, the cron and the clock preserve the inductive invariant.
LEMMA StepOK == IInv /\ [Next]_vars => IInv'
<1> SUFFICES ASSUME IInv, [Next]_vars PROVE IInv'
  OBVIOUS
<1>0. DbInv(Before) /\ now \in 0 .. MaxTime /\ now \in Int /\ MaxTime \in Int
  BY BeforeOK, TimeAssumption, TtlsAreDurations DEF IInv
<1>1. ASSUME NEW k \in Keys, Overwrites(k)
      PROVE  IInv'
  <2>1. PICK o \in Objs, ttl \in Int : db' \in Puts(Before, k, o, ttl, now) /\ now' = now
    BY <1>1, OverwritesPut
  <2>2. DbInv(db')
    BY <1>0, <2>1, PutsOK
  <2> QED BY <1>0, <2>1, <2>2 DEF IInv
<1>2. ASSUME NEW k \in Keys, NEW ttl \in ExpTtls, ExpCmd(k, ttl)
      PROVE  IInv'
  <2> DEFINE e == Get(Before, k, now)
  <2>1. DbInv(e)
    BY <1>0, GetOK
  <2>2. ttl \in Int
    BY TtlsAreDurations
  <2>3. /\ db' = IF k \in Present(e) THEN SetExpiry(e, k, ttl, now) ELSE e
        /\ now' = now
    BY <1>2 DEF ExpCmd
  <2> HIDE DEF e
  <2>4. DbInv(db')
    BY <1>0, <2>1, <2>2, <2>3, SetExpiryOK
  <2> QED BY <1>0, <2>3, <2>4 DEF IInv
<1>3. ASSUME NEW k \in Keys, GetCmd(k)
      PROVE  IInv'
  <2>1. db' = Get(Before, k, now) /\ now' \in 0 .. MaxTime
    BY <1>0, <1>3 DEF GetCmd
  <2> QED BY <1>0, <2>1, GetOK DEF IInv
<1>4. ASSUME NEW k \in Keys, IncrCmd(k)
      PROVE  IInv'
  <2> DEFINE e == Get(Before, k, now)
  <2>1. DbInv(e)
    BY <1>0, GetOK
  <2>2. CASE IncrAbsent(k)
    <3>1. IntObj(0) \in Objs /\ IntObj(1) \in Objs
      BY IntegersAssumption, ObjectsAssumption
    <3>2. PICK f \in Puts(e, k, IntObj(0), -1, now) : db' = [f EXCEPT !.store[k] = IntObj(1)]
      BY <2>2 DEF IncrAbsent
    <3> HIDE DEF e
    <3>3. DbInv(f) /\ k \in Present(f)
      BY <1>0, <2>1, <3>1, PutsOK
    <3>4. DbInv(db')
      BY <3>1, <3>2, <3>3, InPlaceOK
    <3>5. now' = now
      BY <2>2 DEF IncrAbsent
    <3> QED BY <1>0, <3>4, <3>5 DEF IInv
  <2>3. CASE IncrPresent(k)
    <3>1. /\ k \in Present(e) /\ e.store[k].type = "int" /\ now' = now
          /\ db' = [e EXCEPT !.store[k] = IntObj(Successor(Parsed(e.store[k].val)))]
      BY <2>3 DEF IncrPresent
    <3> HIDE DEF e
    <3>2. e.store[k] \in Objs
      BY <2>1, <3>1 DEF DbInv, Db, Present
    <3>3. e.store[k].val \in Int
      BY <3>1, <3>2, ObjectsAssumption
    <3>4. DbInv(db')
      BY <2>1, <3>1, <3>3, IncrInRange, InPlaceOK
    <3> QED BY <1>0, <3>1, <3>4 DEF IInv
  <2>4. CASE IncrRefused(k)
    BY <1>0, <2>1, <2>4 DEF IncrRefused, IInv
  <2> QED BY <1>4, <2>2, <2>3, <2>4 DEF IncrCmd
<1>5. ASSUME NEW k \in Keys, TtlCmd(k)
      PROVE  IInv'
  <2>1. db' = Get(Before, k, now) /\ now' \in 0 .. MaxTime
    BY <1>0, <1>5 DEF TtlCmd
  <2> QED BY <1>0, <2>1, GetOK DEF IInv
<1>6. ASSUME NEW k \in Keys, CollCmd(k)
      PROVE  IInv'
  <2> DEFINE e == Get(Before, k, now)
  <2>1. DbInv(e)
    BY <1>0, GetOK
  <2>2. (db' \in Puts(e, k, CollObj, -1, now) \/ db' = e) /\ now' = now
    BY <1>6 DEF CollCmd
  <2> HIDE DEF e
  <2>3. DbInv(db')
    BY <1>0, <2>1, <2>2, ObjectsAssumption, PutsOK
  <2> QED BY <1>0, <2>2, <2>3 DEF IInv
<1>7. ASSUME NEW K \in SUBSET Keys \ {{}}, DelCmd(K)
      PROVE  IInv'
  BY <1>0, <1>7, DelOK DEF DelCmd, IInv
<1>8. ASSUME NEW e \in Reaps(Before, now), Cron(e)
      PROVE  IInv'
  BY <1>0, <1>8, ReapsOK DEF Cron, IInv
<1>9. CASE Tick
  BY <1>0, <1>9 DEF Tick, IInv
<1>10. CASE UNCHANGED vars
  BY <1>10 DEF vars, IInv
<1> QED BY <1>1, <1>2, <1>3, <1>4, <1>5, <1>6, <1>7, <1>8, <1>9, <1>10, OverwritesAre DEF Next

LEMMA InvariantHolds == Spec => []IInv
  BY InitOK, StepOK, PTL DEF Spec

\* The state always has its type (Keyspace!TypeOK).
THEOREM TypeCorrect == Spec => []TypeOK
<1>1. IInv => TypeOK
  BY DEF IInv, DbInv, TypeOK
<1> QED BY <1>1, InvariantHolds, PTL

\* No deadline outlives its entry: lazy deletion, DEL, eviction and the cron
\* all take the deadline with the object.
THEOREM DeadlinesBelong == Spec => []DeadlineHasEntry
<1>1. IInv => DeadlineHasEntry
  BY DEF IInv, DbInv, DeadlineHasEntry
<1> QED BY <1>1, InvariantHolds, PTL

\* INFO never under-reports the stored keys.
THEOREM StatNeverUnder == Spec => []StatCoversStore
<1>1. IInv => StatCoversStore
  BY DEF IInv, DbInv, StatCoversStore
<1> QED BY <1>1, InvariantHolds, PTL

(***************************************************************************)
(* Action properties.  `Before` differs from the key space in its signals  *)
(* only, and what a command chains after it are the operators above.       *)
(***************************************************************************)
LEMMA BeforeSame ==
  ASSUME IInv
  PROVE  /\ Before \in Db /\ Before.store = db.store /\ Before.expires = db.expires
         /\ SpentIn(Before) = Spent /\ Present(Before) = Present(db)
         /\ \A t : Lapsed(Before, t) = Lapsed(db, t)
  BY DEF IInv, DbInv, Before, Db, SpentIn, Spent, Present, Lapsed, HasExpired

\* In-place changes of key k are the only ones nobody is told of.
LEMMA InPlaceTells ==
  ASSUME NEW d, NEW f \in Db, Told(d, f), NEW k \in Keys, NEW o
  PROVE  LET e == [f EXCEPT !.store[k] = o]
         IN  e.sig = f.sig /\ \A q \in Keys \ {k} : q \notin e.sig => e.store[q] = d.store[q]
  BY DEF Told, Db

LEMMA SignalsOK ==
  ASSUME IInv, Next
  PROVE  \A q \in Keys : db'.store[q] # db.store[q] =>
           q \in db'.sig \/ (reply'.cmd = "INCR" /\ reply'.key = {q})
<1>0. /\ DbInv(Before) /\ Before \in Db /\ Before.store = db.store
      /\ now \in Int
  BY BeforeOK, BeforeSame DEF IInv
<1>1. Told(Before, db') => \A q \in Keys : db'.store[q] # db.store[q] => q \in db'.sig
  BY <1>0 DEF Told
<1>2. ASSUME NEW k \in Keys PROVE DbInv(Get(Before, k, now)) /\ Told(Before, Get(Before, k, now))
  BY <1>0, GetOK, GetTells
<1>3. ASSUME NEW k \in Keys, Overwrites(k)
      PROVE  Told(Before, db')
  BY <1>0, <1>3, OverwritesPut, PutsTell
<1>4. ASSUME NEW k \in Keys, NEW ttl \in ExpTtls, ExpCmd(k, ttl)
      PROVE  \A q \in Keys : db'.store[q] # db.store[q] => q \in db'.sig
  <2> DEFINE e == Get(Before, k, now)
  <2>1. DbInv(e) /\ Told(Before, e)
    BY <1>2
  <2>2. db' = IF k \in Present(e) THEN SetExpiry(e, k, ttl, now) ELSE e
    BY <1>4 DEF ExpCmd
  <2> HIDE DEF e
  <2>3. db'.store = e.store /\ db'.sig = e.sig
    BY <2>1, <2>2 DEF SetExpiry, DbInv, Db
  <2> QED BY <1>0, <2>1, <2>3 DEF Told
<1>5. ASSUME NEW k \in Keys, GetCmd(k) \/ TtlCmd(k) \/ IncrRefused(k)
      PROVE  Told(Before, db')
  BY <1>2, <1>5 DEF GetCmd, TtlCmd, IncrRefused
<1>6. ASSUME NEW k \in Keys, IncrAbsent(k) \/ IncrPresent(k)
      PROVE  \A q \in Keys : db'.store[q] # db.store[q] =>
               q \in db'.sig \/ (reply'.cmd = "INCR" /\ reply'.key = {q})
  <2> DEFINE e == Get(Before, k, now)
  <2>1. DbInv(e) /\ Told(Before, e)
    BY <1>2
  <2>2. reply'.cmd = "INCR" /\ reply'.key = {k}
    BY <1>6 DEF IncrAbsent, IncrPresent, Wrote
  <2>3. \E f \in Db : \E o : Told(Before, f) /\ db' = [f EXCEPT !.store[k] = o]
    <3>1. CASE IncrAbsent(k)
      <4>1. PICK f \in Puts(e, k, IntObj(0), -1, now) : db' = [f EXCEPT !.store[k] = IntObj(1)]
        BY <3>1 DEF IncrAbsent
      <4>2. DbInv(f) /\ Told(e, f)
        <5>1. IntObj(0) \in Objs
          BY IntegersAssumption, ObjectsAssumption
        <5> HIDE DEF e
        <5> QED BY <1>0, <2>1, <5>1, PutsOK, PutsTell DEF DbInv
      <4>3. Told(Before, f)
        BY <2>1, <4>2, ToldBoth
      <4> QED BY <4>1, <4>2, <4>3 DEF DbInv
    <3>2. CASE IncrPresent(k)
      <4>1. db' = [e EXCEPT !.store[k] = IntObj(Successor(Parsed(e.store[k].val)))]
        BY <3>2 DEF IncrPresent
      <4> HIDE DEF e
      <4> QED BY <2>1, <4>1 DEF DbInv
    <3> QED BY <1>6, <3>1, <3>2
  <2>4. \A q \in Keys \ {k} : q \notin db'.sig => db'.store[q] = Before.store[q]
    BY <2>3, InPlaceTells
  <2> QED BY <1>0, <2>2, <2>4
<1>7. ASSUME NEW k \in Keys, CollCmd(k)
      PROVE  Told(Before, db')
  <2> DEFINE e == Get(Before, k, now)
  <2>1. db' \in Puts(e, k, CollObj, -1, now) \/ db' = e
    BY <1>7 DEF CollCmd
  <2>2. DbInv(e) /\ e \in Db /\ Told(Before, e)
    BY <1>2 DEF DbInv
  <2> HIDE DEF e
  <2> QED BY <2>1, <2>2, PutsTell, ToldBoth
<1>8. ASSUME NEW K \in SUBSET Keys \ {{}}, DelCmd(K)
      PROVE  Told(Before, db')
  BY <1>0, <1>8, DelTells DEF DelCmd
<1>9. ASSUME NEW e \in Reaps(Before, now), Cron(e)
      PROVE  Told(Before, db')
  BY <1>0, <1>9, ReapsTell DEF Cron
<1>10. CASE Tick
  BY <1>10 DEF Tick
<1> QED BY <1>1, <1>3, <1>4, <1>5, <1>6, <1>7, <1>8, <1>9, <1>10, OverwritesAre DEF Next, IncrCmd

\* Whatever a step changes in the store is signalled to the watchers of the key, but for
\* INCR in place.
THEOREM ChangesAreSignalled == Spec => ChangeIsSignalled
<1>1. IInv /\ [Next]_vars => [\A k \in Keys : db'.store[k] # db.store[k] =>
        k \in db'.sig \/ (reply'.cmd = "INCR" /\ reply'.key = {k})]_vars
  BY SignalsOK
<1> QED BY <1>1, InvariantHolds, PTL DEF Spec, ChangeIsSignalled

\* Candidates that are spent stay spent, and no write but their own evicts them.
LEMMA SpentOK ==
  ASSUME IInv, Next
  PROVE  \A q \in Keys : q \in Spent => q \in Spent' /\ (reply'.cmd \in Writes
           /\ q \notin reply'.key /\ q \in Visible(db, now) => q \in Present(db'))
<1>0. /\ DbInv(Before) /\ now \in Int
      /\ SpentIn(Before) = Spent /\ Present(Before) = Present(db)
  BY BeforeOK, BeforeSame DEF IInv
<1>1. ASSUME NEW K, Spares(Before, db', K),
             reply'.cmd \in Writes => reply'.key = K
      PROVE  \A q \in Keys : q \in Spent => q \in Spent' /\ (reply'.cmd \in Writes
               /\ q \notin reply'.key /\ q \in Visible(db, now) => q \in Present(db'))
  <2>1. Spent' = SpentIn(db')
    BY DEF Spent, SpentIn
  <2> QED BY <1>0, <1>1, <2>1 DEF Spares, Visible
<1>2. ASSUME NEW k \in Keys
      PROVE  /\ DbInv(Get(Before, k, now))
             /\ Spares(Before, Get(Before, k, now), {k})
  BY <1>0, GetOK, GetSpares
<1>3. ASSUME NEW k \in Keys, Overwrites(k)
      PROVE  Spares(Before, db', {k}) /\ reply'.key = {k}
  <2>1. PICK o \in Objs, ttl \in Int : db' \in Puts(Before, k, o, ttl, now) /\ reply'.key = {k}
    BY <1>3, OverwritesPut
  <2> QED BY <1>0, <2>1, PutsSpare
<1>4. ASSUME NEW k \in Keys, NEW ttl \in ExpTtls, ExpCmd(k, ttl)
      PROVE  Spares(Before, db', {k}) /\ reply'.key = {k}
  <2> DEFINE e == Get(Before, k, now)
  <2>1. DbInv(e) /\ Spares(Before, e, {k})
    BY <1>2
  <2>2. db' = IF k \in Present(e) THEN SetExpiry(e, k, ttl, now) ELSE e
    BY <1>4 DEF ExpCmd
  <2> HIDE DEF e
  <2>3. Spares(e, db', {k})
    BY <2>1, <2>2 DEF SetExpiry, DbInv, Db, Spares, SpentIn, Present
  <2> QED BY <1>4, <2>1, <2>3, SparesBoth DEF ExpCmd, Answer
<1>5. ASSUME NEW k \in Keys, GetCmd(k) \/ TtlCmd(k) \/ IncrRefused(k)
      PROVE  Spares(Before, db', {k}) /\ reply'.key = {k}
  BY <1>2, <1>5 DEF GetCmd, TtlCmd, IncrRefused, Answer
<1>6. ASSUME NEW k \in Keys, IncrAbsent(k) \/ IncrPresent(k)
      PROVE  Spares(Before, db', {k}) /\ reply'.key = {k}
  <2> DEFINE e == Get(Before, k, now)
  <2>1. DbInv(e) /\ Spares(Before, e, {k})
    BY <1>2
  <2>2. reply'.key = {k}
    BY <1>6 DEF IncrAbsent, IncrPresent, Wrote
  <2>3. ASSUME NEW f, DbInv(f), NEW o \in Objs, db' = [f EXCEPT !.store[k] = o]
        PROVE  Spares(f, db', {k})
    BY <2>3, MarkersAssumption DEF DbInv, Db, Spares, SpentIn, Present
  <2>4. CASE IncrAbsent(k)
    <3>1. PICK f \in Puts(e, k, IntObj(0), -1, now) : db' = [f EXCEPT !.store[k] = IntObj(1)]
      BY <2>4 DEF IncrAbsent
    <3>2. IntObj(0) \in Objs /\ IntObj(1) \in Objs
      BY IntegersAssumption, ObjectsAssumption
    <3> HIDE DEF e
    <3>3. DbInv(f) /\ Spares(e, f, {k})
      BY <1>0, <2>1, <3>2, PutsOK, PutsSpare
    <3>4. Spares(f, db', {k})
      BY <2>3, <3>1, <3>2, <3>3
    <3> QED BY <2>1, <2>2, <3>3, <3>4, SparesBoth
  <2>5. CASE IncrPresent(k)
    <3>1. /\ k \in Present(e) /\ e.store[k].type = "int"
          /\ db' = [e EXCEPT !.store[k] = IntObj(Successor(Parsed(e.store[k].val)))]
      BY <2>5 DEF IncrPresent
    <3> HIDE DEF e
    <3>2. e.store[k] \in Objs
      BY <2>1, <3>1 DEF DbInv, Db, Present
    <3>3. IntObj(Successor(Parsed(e.store[k].val))) \in Objs
      BY <3>1, <3>2, ObjectsAssumption, IncrInRange
    <3>4. Spares(e, db', {k})
      BY <2>1, <2>3, <3>1, <3>3
    <3> QED BY <2>1, <2>2, <3>4, SparesBoth
  <2> QED BY <1>6, <2>4, <2>5
<1>7. ASSUME NEW k \in Keys, CollCmd(k)
      PROVE  Spares(Before, db', {k}) /\ reply'.key = {k}
  <2> DEFINE e == Get(Before, k, now)
  <2>1. (db' \in Puts(e, k, CollObj, -1, now) \/ db' = e) /\ reply'.key = {k}
    BY <1>7 DEF CollCmd, Answer, Wrote
  <2>2. DbInv(e) /\ Spares(Before, e, {k})
    BY <1>2
  <2> HIDE DEF e
  <2>3. db' \in Puts(e, k, CollObj, -1, now) => Spares(e, db', {k})
    BY <1>0, <2>2, ObjectsAssumption, PutsSpare
  <2> QED BY <2>1, <2>2, <2>3, SparesBoth
<1>8. ASSUME NEW K \in SUBSET Keys \ {{}}, DelCmd(K)
      PROVE  Spares(Before, db', K) /\ reply'.cmd \notin Writes
  BY <1>0, <1>8, DelSpares DEF DelCmd, Answer, Writes
<1>9. ASSUME NEW e \in Reaps(Before, now), Cron(e)
      PROVE  Spares(Before, db', Keys) /\ reply'.cmd \notin Writes
  <2>1. PICK S \in SUBSET Lapsed(Before, now) : e = Del(Before, S)
    BY DEF Reaps
  <2>2. Spares(Before, e, S) /\ S \subseteq Keys
    BY <1>0, <2>1, DelSpares DEF Lapsed, Present
  <2> QED BY <1>9, <2>2 DEF Cron, Answer, Spares, Writes
<1>10. CASE Tick
  BY <1>10 DEF Tick, Spent, Visible
<1>11. CASE \E k \in Keys : \/ \E o \in SetObjs, ttl \in SetTtls : SetCmd(k, o, ttl)
                            \/ \E ttl \in ExpTtls : ExpCmd(k, ttl)
                            \/ GetCmd(k) \/ IncrCmd(k) \/ TtlCmd(k) \/ CollCmd(k) \/ ReserveCmd(k)
  <2>1. PICK k \in Keys : Spares(Before, db', {k}) /\ reply'.key = {k}
    BY <1>3, <1>4, <1>5, <1>6, <1>7, <1>11, OverwritesAre DEF IncrCmd
  <2> QED BY <1>1, <2>1
<1>12. CASE \E K \in SUBSET Keys \ {{}} : DelCmd(K)
  BY <1>1, <1>8, <1>12
<1>13. CASE \E e \in Reaps(Before, now) : Cron(e)
  BY <1>1, <1>9, <1>13
<1> QED BY <1>10, <1>11, <1>12, <1>13 DEF Next

\* A key leaves the pool of candidates once: no Put evicts it after that.
THEOREM EvictedOnlyOnce == Spec => EvictedOnce
<1>1. IInv /\ [Next]_vars => [\A k \in Keys : k \in Spent => k \in Spent'
        /\ (reply'.cmd \in Writes
              /\ k \notin reply'.key /\ k \in Visible(db, now) => k \in Present(db'))]_vars
  BY SpentOK
<1> QED BY <1>1, InvariantHolds, PTL DEF Spec, EvictedOnce

\* What is stored and has no deadline in the past is visible.
LEMMA NotLapsedIsVisible ==
  ASSUME NEW d \in Db, NEW k \in Present(d), NEW t \in Int,
         d.expires[k] = Never \/ d.expires[k] > t
  PROVE  k \in Visible(d, t)
<1>1. d.expires[k] \in Int \cup {Never}
  BY DeadlinesAreInts DEF Present
<1> QED BY <1>1 DEF Visible, Lapsed, HasExpired

\* After Get, the key has no deadline in the past.
LEMMA GetDeadline ==
  ASSUME NEW d, DbInv(d), NEW k \in Keys, NEW t \in Int
  PROVE  LET e == Get(d, k, t) IN e.expires[k] = Never \/ e.expires[k] > t
<1> DEFINE e == Get(d, k, t)
<1>1. DbInv(e) /\ k \notin Lapsed(e, t)
  BY GetOK, GetTells DEF DbInv
<1> HIDE DEF e
<1>2. e.expires[k] # Never => k \in Present(e) /\ e.expires[k] \in Int
  BY <1>1, WideAssumption DEF DbInv, Db, Deadlines
<1> QED BY <1>1, <1>2 DEF Lapsed, HasExpired, e

\* What is read at q is what was stored, unless SET or BF.RESERVE met a lapsed entry.
IsRead(q) ==
  \/ q \in Visible(db', now') /\ db'.store[q] = reply'.obj
  \/ reply'.cmd \in {"SET", "BF.RESERVE"} /\ q \in Lapsed(db, now)

\* A duration that goes forwards reaches a deadline that does not wrap around.
Ahead(ttl) == ttl > 0 => Deadline(now, ttl) = now + ttl

LEMMA DurationsAhead ==
  ASSUME IInv, NEW ttl \in Durations
  PROVE  Ahead(ttl) /\ ttl \in Int
<1>1. ttl \in Int
  BY TtlsAreDurations
<1>2. ASSUME ttl > 0 PROVE Deadline(now, ttl) = now + ttl
  BY <1>2, AheadFits DEF IInv
<1> QED BY <1>1, <1>2 DEF Ahead

LEMMA PutIsRead ==
  ASSUME IInv, NEW k \in Keys, NEW o \in Objs, NEW ttl \in Int, Ahead(ttl),
         db' \in Puts(Before, k, o, ttl, now)
  PROVE  /\ db'.store[k] = o
         /\ k \in Visible(db', now) \/ (~ (ttl > 0) /\ k \in Lapsed(db, now))
<1>0. /\ DbInv(Before) /\ now \in Int
      /\ Before.expires = db.expires /\ Lapsed(Before, now) = Lapsed(db, now) /\ Before \in Db
  BY BeforeOK, BeforeSame DEF IInv
<1>1. DbInv(db') /\ k \in Present(db') /\ db'.store[k] = o
  BY <1>0, PutsOK
<1>2. db' \in Db
  BY <1>1 DEF DbInv
<1>3. /\ ttl > 0 => db'.expires[k] = Deadline(now, ttl)
      /\ ~ (ttl > 0) => db'.expires[k] \in {Never, Before.expires[k]}
  BY <1>0, PutDeadline
<1>4. CASE db'.expires[k] = Never \/ db'.expires[k] > now
  BY <1>0, <1>1, <1>2, <1>4, NotLapsedIsVisible
<1>5. CASE ~ (db'.expires[k] = Never \/ db'.expires[k] > now)
  <2>1. ~ (ttl > 0)
    BY <1>0, <1>3, <1>5 DEF Ahead
  <2>2. Before.expires[k] = db'.expires[k] /\ Before.expires[k] # Never
    BY <1>3, <1>5, <2>1
  <2>3. k \in Present(Before)
    BY <1>0, <2>2 DEF DbInv
  <2>4. Before.expires[k] \in Int
    BY <1>0, <2>2, DeadlinesAreInts
  <2>5. Before.expires[k] <= now
    BY <1>0, <1>5, <2>2, <2>4
  <2>6. k \in Lapsed(Before, now)
    BY <2>2, <2>3, <2>5 DEF Lapsed, HasExpired
  <2> QED BY <1>0, <1>1, <2>1, <2>6
<1> QED BY <1>4, <1>5

LEMMA WritesAreRead ==
  ASSUME IInv, Next, now' = now, reply'.cmd \in Writes, reply'.val # WrongType
  PROVE  \A q \in reply'.key : IsRead(q)
<1>0. /\ DbInv(Before) /\ now \in Int /\ now \in 0 .. MaxTime
      /\ Before.expires = db.expires /\ Lapsed(Before, now) = Lapsed(db, now) /\ Before \in Db
  BY BeforeOK, BeforeSame DEF IInv
<1>1. ASSUME NEW k \in Keys
      PROVE  LET e == Get(Before, k, now)
             IN  DbInv(e) /\ (e.expires[k] = Never \/ e.expires[k] > now)
  BY <1>0, GetOK, GetDeadline
<1>2. ASSUME NEW k \in Keys, Overwrites(k)
      PROVE  \A q \in reply'.key : IsRead(q)
  <2>1. PICK cmd \in {"SET", "SET EX", "BF.RESERVE"}, o \in Objs, ttl \in SetTtls \cup {-1} :
          Overwrite(cmd, k, o, ttl) /\ (cmd = "SET EX" <=> ttl > 0)
    BY <1>2 DEF Overwrites
  <2>2. /\ db' \in Puts(Before, k, o, ttl, now)
        /\ reply'.cmd = cmd /\ reply'.key = {k} /\ reply'.obj = o
    BY <2>1 DEF Overwrite, Wrote
  <2>3. ttl \in Durations
    BY TtlsAreDurations
  <2>4. Ahead(ttl) /\ ttl \in Int
    BY <2>3, DurationsAhead
  <2>5. /\ db'.store[k] = o
        /\ k \in Visible(db', now) \/ (~ (ttl > 0) /\ k \in Lapsed(db, now))
    BY <2>2, <2>4, PutIsRead
  <2>6. IsRead(k)
    BY <2>1, <2>2, <2>5 DEF IsRead
  <2> QED BY <2>2, <2>6
<1>3. ASSUME NEW k \in Keys, IncrAbsent(k)
      PROVE  k \in Visible(db', now) /\ db'.store[k] = reply'.obj
  <2> DEFINE e == Get(Before, k, now)
  <2>1. DbInv(e) /\ (e.expires[k] = Never \/ e.expires[k] > now)
    BY <1>1
  <2>2. PICK f \in Puts(e, k, IntObj(0), -1, now) : db' = [f EXCEPT !.store[k] = IntObj(1)]
    BY <1>3 DEF IncrAbsent
  <2>8. reply'.obj = IntObj(1)
    BY <1>3 DEF IncrAbsent, Wrote
  <2>3. IntObj(0) \in Objs /\ IntObj(1) \in Objs
    BY IntegersAssumption, ObjectsAssumption
  <2> HIDE DEF e
  <2>4. DbInv(f) /\ k \in Present(f)
    BY <1>0, <2>1, <2>3, PutsOK
  <2>5. f.expires[k] \in {Never, e.expires[k]}
    BY <1>0, <2>1, <2>3, PutDeadline
  <2>6. DbInv(db')
    BY <2>2, <2>3, <2>4, InPlaceOK
  <2>7. db'.expires = f.expires /\ k \in Present(db') /\ db'.store[k] = IntObj(1)
    BY <2>2, <2>3, <2>4, MarkersAssumption DEF DbInv, Db, Present
  <2> QED BY <1>0, <2>1, <2>5, <2>6, <2>7, <2>8, NotLapsedIsVisible DEF DbInv
<1>4. ASSUME NEW k \in Keys, IncrPresent(k)
      PROVE  k \in Visible(db', now) /\ db'.store[k] = reply'.obj
  <2> DEFINE e == Get(Before, k, now)
  <2>1. DbInv(e) /\ (e.expires[k] = Never \/ e.expires[k] > now)
    BY <1>1
  <2>2. /\ k \in Present(e) /\ e.store[k].type = "int"
        /\ db' = [e EXCEPT !.store[k] = IntObj(Successor(Parsed(e.store[k].val)))]
    BY <1>4 DEF IncrPresent
  <2>7. reply'.obj = IntObj(Successor(Parsed(e.store[k].val)))
    BY <1>4 DEF IncrPresent, Wrote
  <2> HIDE DEF e
  <2>3. e.store[k] \in Objs
    BY <2>1, <2>2 DEF DbInv, Db, Present
  <2>4. IntObj(Successor(Parsed(e.store[k].val))) \in Objs
    BY <2>2, <2>3, ObjectsAssumption, IncrInRange
  <2>5. DbInv(db')
    BY <2>1, <2>2, <2>4, InPlaceOK
  <2>6. /\ db'.expires = e.expires /\ k \in Present(db')
        /\ db'.store[k] = IntObj(Successor(Parsed(e.store[k].val)))
    BY <2>1, <2>2, <2>4, MarkersAssumption DEF DbInv, Db, Present
  <2> QED BY <1>0, <2>1, <2>5, <2>6, <2>7, NotLapsedIsVisible DEF DbInv
<1>5. ASSUME NEW k \in Keys, CollCmd(k)
      PROVE  k \in Visible(db', now) /\ db'.store[k] = reply'.obj /\ reply'.key = {k}
  <2> DEFINE e == Get(Before, k, now)
  <2>1. DbInv(e) /\ (e.expires[k] = Never \/ e.expires[k] > now)
    BY <1>1
  <2>2. /\ \/ db' \in Puts(e, k, CollObj, -1, now) /\ reply'.obj = CollObj
           \/ k \in Present(e) /\ db' = e /\ reply'.obj = e.store[k]
        /\ reply'.key = {k}
    BY <1>5 DEF CollCmd, Answer, Wrote
  <2> HIDE DEF e
  <2>3. CASE db' \in Puts(e, k, CollObj, -1, now) /\ reply'.obj = CollObj
    <3>1. DbInv(db') /\ k \in Present(db') /\ db'.store[k] = CollObj
      BY <1>0, <2>1, <2>3, ObjectsAssumption, PutsOK
    <3>2. db'.expires[k] \in {Never, e.expires[k]}
      BY <1>0, <2>1, <2>3, ObjectsAssumption, PutDeadline
    <3> QED BY <1>0, <2>1, <2>2, <2>3, <3>1, <3>2, NotLapsedIsVisible DEF DbInv
  <2>4. CASE k \in Present(e) /\ db' = e /\ reply'.obj = e.store[k]
    BY <1>0, <2>1, <2>2, <2>4, NotLapsedIsVisible DEF DbInv
  <2> QED BY <2>2, <2>3, <2>4
<1>6. ASSUME NEW k \in Keys, GetCmd(k) \/ TtlCmd(k) \/ IncrRefused(k)
      PROVE  FALSE
  <2>1. CASE GetCmd(k)
    BY <2>1 DEF GetCmd, Answer, Writes
  <2>2. CASE TtlCmd(k)
    <3>1. reply'.cmd = "TTL"
      BY <2>2 DEF TtlCmd, Answer
    <3> QED BY <3>1 DEF Writes
  <2>3. CASE IncrRefused(k)
    BY <2>3 DEF IncrRefused, Answer
  <2> QED BY <1>6, <2>1, <2>2, <2>3
<1>7. ASSUME NEW k \in Keys, NEW ttl \in ExpTtls, ExpCmd(k, ttl)
      PROVE  FALSE
  BY <1>7 DEF ExpCmd, Answer, Writes
<1>8. ASSUME NEW K, DelCmd(K)
      PROVE  FALSE
  BY <1>8 DEF DelCmd, Answer, Writes
<1>9. ASSUME NEW e, Cron(e)
      PROVE  FALSE
  BY <1>9 DEF Cron, Answer, Writes
<1>10. CASE Tick
  BY <1>0, <1>10 DEF Tick
<1>11. ASSUME NEW k \in Keys, IncrAbsent(k) \/ IncrPresent(k)
       PROVE  k \in Visible(db', now) /\ db'.store[k] = reply'.obj /\ reply'.key = {k}
  BY <1>3, <1>4, <1>11 DEF IncrAbsent, IncrPresent, Wrote
<1>12. ASSUME NEW k \in Keys,
              k \in Visible(db', now) /\ db'.store[k] = reply'.obj /\ reply'.key = {k}
       PROVE  \A q \in reply'.key : IsRead(q)
  BY <1>12 DEF IsRead
<1>13. ASSUME NEW k \in Keys, CollCmd(k) \/ IncrAbsent(k) \/ IncrPresent(k)
       PROVE  \A q \in reply'.key : IsRead(q)
  BY <1>5, <1>11, <1>12, <1>13
<1>14. CASE \E k \in Keys : \/ \E o \in SetObjs, ttl \in SetTtls : SetCmd(k, o, ttl)
                            \/ \E ttl \in ExpTtls : ExpCmd(k, ttl)
                            \/ GetCmd(k) \/ IncrCmd(k) \/ TtlCmd(k) \/ CollCmd(k) \/ ReserveCmd(k)
  <2>1. PICK k \in Keys : \/ \E o \in SetObjs, ttl \in SetTtls : SetCmd(k, o, ttl)
                          \/ \E ttl \in ExpTtls : ExpCmd(k, ttl)
                          \/ GetCmd(k) \/ IncrCmd(k) \/ TtlCmd(k) \/ CollCmd(k) \/ ReserveCmd(k)
    BY <1>14
  <2>2. CASE (\E o \in SetObjs, ttl \in SetTtls : SetCmd(k, o, ttl)) \/ ReserveCmd(k)
    BY <2>2, <1>2, OverwritesAre
  <2>3. CASE \E ttl \in ExpTtls : ExpCmd(k, ttl)
    BY <2>3, <1>7
  <2>4. CASE GetCmd(k) \/ TtlCmd(k) \/ IncrRefused(k)
    BY <2>4, <1>6
  <2>5. CASE CollCmd(k) \/ IncrAbsent(k) \/ IncrPresent(k)
    BY <2>5, <1>13
  <2> QED BY <2>1, <2>2, <2>3, <2>4, <2>5 DEF IncrCmd
<1>15. CASE \E K \in SUBSET Keys \ {{}} : DelCmd(K)
  BY <1>8, <1>15
<1>16. CASE \E e \in Reaps(Before, now) : Cron(e)
  BY <1>9, <1>16
<1> QED BY <1>10, <1>14, <1>15, <1>16 DEF Next

\* What an acknowledged write stored is what is read, unless SET without EX or BF.RESERVE
\* met a lapsed entry and inherited its deadline.
THEOREM AckedWritesAreRead == Spec => AckedWriteIsRead
<1>1. IInv /\ [Next]_vars =>
        [now' = now /\ reply'.cmd \in Writes /\ reply'.val # WrongType =>
           \A k \in reply'.key :
             \/ k \in Visible(db', now') /\ db'.store[k] = reply'.obj
             \/ reply'.cmd \in {"SET", "BF.RESERVE"} /\ k \in Lapsed(db, now)]_vars
  BY WritesAreRead DEF vars, IsRead
<1> QED BY <1>1, InvariantHolds, PTL DEF Spec, AckedWriteIsRead

(***************************************************************************)
(* Growth at the limit.  A step that grows the store puts a key, and what  *)
(* it puts it into is the key space as it was: had Get taken a lapsed key  *)
(* away, the store would be no larger than before.                         *)
(***************************************************************************)
Grows(d, e) == Cardinality(Present(e)) > Cardinality(Present(d))

LEMMA NoGrowth ==
  ASSUME NEW d, NEW e, Present(e) \subseteq Present(d)
  PROVE  ~ Grows(d, e)
<1>1. Present(d) \in SUBSET Keys /\ Present(e) \in SUBSET Present(d)
  BY DEF Present
<1>2. /\ Cardinality(Present(d)) \in Nat /\ Cardinality(Present(e)) \in Nat
      /\ Cardinality(Present(e)) <= Cardinality(Present(d))
  BY <1>1, KeySets
<1> QED BY <1>2 DEF Grows

LEMMA PutsRunDry ==
  ASSUME NEW d, DbInv(d), NEW k \in Keys, NEW o \in Objs, NEW ttl \in Int, NEW t \in Int,
         NEW e \in Puts(d, k, o, ttl, t), EvictCount > 0,
         Cardinality(Present(d)) >= KeyLimit, Grows(d, e)
  PROVE  RunDry(d, e)
  BY PutsOK DEF Grows

LEMMA GetPutsRunDry ==
  ASSUME NEW d, DbInv(d), NEW k \in Keys, NEW o \in Objs, NEW t \in Int,
         NEW e \in Puts(Get(d, k, t), k, o, -1, t), EvictCount > 0,
         Cardinality(Present(d)) >= KeyLimit, Grows(d, e)
  PROVE  RunDry(d, e)
<1> DEFINE g == Get(d, k, t)
<1>1. DbInv(g) /\ Present(g) \subseteq Present(d)
  BY GetOK
<1>2. SpentIn(g) = SpentIn(d)
  BY DelOK DEF Get, SpentIn
<1> HIDE DEF g
<1>3. e \in Puts(g, k, o, -1, t)
  BY DEF g
<1>4. Cardinality(Present(e)) <= Cardinality(Present(g)) + 1
  BY <1>1, <1>3, PutsOK
<1>5. /\ Present(g) \in SUBSET Present(d) /\ Present(d) \in SUBSET Keys
      /\ Present(e) \in SUBSET Keys /\ Present(g) \in SUBSET Keys
  BY <1>1 DEF Present
<1>6. /\ Cardinality(Present(d)) \in Nat /\ Cardinality(Present(g)) \in Nat
      /\ Cardinality(Present(g)) <= Cardinality(Present(d))
      /\ Cardinality(Present(d)) = Cardinality(Present(g)) => Present(d) = Present(g)
  BY <1>5, KeySets
<1>7. Cardinality(Present(e)) \in Nat
  BY <1>5, KeySets
<1>8. Present(g) = Present(d)
  BY <1>4, <1>6, <1>7 DEF Grows
<1>9. Grows(g, e) /\ Cardinality(Present(g)) >= KeyLimit
  BY <1>8 DEF Grows
<1>10. RunDry(g, e)
  BY <1>1, <1>3, <1>9, PutsRunDry
<1> QED BY <1>2, <1>8, <1>10 DEF RunDry

LEMMA GrowthOK ==
  ASSUME IInv, Next, EvictCount > 0, Cardinality(Present(db)) >= KeyLimit, Grows(db, db')
  PROVE  RunDry(db, db')
<1>0. /\ DbInv(Before) /\ now \in Int /\ Present(Before) = Present(db)
      /\ SpentIn(Before) = SpentIn(db)
  BY BeforeOK, BeforeSame DEF IInv, Spent, SpentIn
<1>1. Grows(Before, db') /\ Cardinality(Present(Before)) >= KeyLimit
  BY <1>0 DEF Grows
<1>2. RunDry(Before, db') => RunDry(db, db')
  BY <1>0 DEF RunDry
<1>3. ASSUME NEW k \in Keys PROVE ~ (db' = Get(Before, k, now))
  BY <1>0, <1>1, GetOK, NoGrowth
<1>4. ASSUME NEW k \in Keys, Overwrites(k)
      PROVE  RunDry(Before, db')
  <2>1. PICK o \in Objs, ttl \in Int : db' \in Puts(Before, k, o, ttl, now)
    BY <1>4, OverwritesPut
  <2> QED BY <1>0, <1>1, <2>1, PutsRunDry
<1>5. ASSUME NEW k \in Keys, NEW ttl \in ExpTtls, ExpCmd(k, ttl)
      PROVE  FALSE
  <2> DEFINE e == Get(Before, k, now)
  <2>1. DbInv(e) /\ Present(e) \subseteq Present(Before) /\ ttl \in Int
    BY <1>0, GetOK, TtlsAreDurations
  <2>2. db' = IF k \in Present(e) THEN SetExpiry(e, k, ttl, now) ELSE e
    BY <1>5 DEF ExpCmd
  <2> HIDE DEF e
  <2>3. Present(db') \subseteq Present(Before)
    BY <1>0, <2>1, <2>2, SetExpiryOK
  <2> QED BY <1>1, <2>3, NoGrowth
<1>6. ASSUME NEW k \in Keys, GetCmd(k) \/ TtlCmd(k) \/ IncrRefused(k)
      PROVE  FALSE
  BY <1>3, <1>6 DEF GetCmd, TtlCmd, IncrRefused
<1>7. ASSUME NEW k \in Keys, IncrAbsent(k)
      PROVE  RunDry(Before, db')
  <2>1. PICK f \in Puts(Get(Before, k, now), k, IntObj(0), -1, now) :
          db' = [f EXCEPT !.store[k] = IntObj(1)]
    BY <1>7 DEF IncrAbsent
  <2>2. IntObj(0) \in Objs /\ IntObj(1) \in Objs
    BY IntegersAssumption, ObjectsAssumption
  <2>3. DbInv(Get(Before, k, now))
    BY <1>0, GetOK
  <2>4. DbInv(f) /\ k \in Present(f)
    BY <1>0, <2>2, <2>3, PutsOK
  <2>5. Present(db') = Present(f) /\ SpentIn(db') = SpentIn(f)
    BY <2>1, <2>2, <2>4, InPlaceOK
  <2>6. Grows(Before, f)
    BY <1>1, <2>5 DEF Grows
  <2>7. RunDry(Before, f)
    BY <1>0, <1>1, <2>2, <2>6, GetPutsRunDry
  <2> QED BY <2>5, <2>7 DEF RunDry
<1>8. ASSUME NEW k \in Keys, IncrPresent(k)
      PROVE  FALSE
  <2> DEFINE e == Get(Before, k, now)
  <2>1. /\ k \in Present(e) /\ e.store[k].type = "int"
        /\ db' = [e EXCEPT !.store[k] = IntObj(Successor(Parsed(e.store[k].val)))]
    BY <1>8 DEF IncrPresent
  <2>2. DbInv(e) /\ Present(e) \subseteq Present(Before)
    BY <1>0, GetOK
  <2> HIDE DEF e
  <2>3. e.store[k] \in Objs
    BY <2>1, <2>2 DEF DbInv, Db, Present
  <2>4. IntObj(Successor(Parsed(e.store[k].val))) \in Objs
    BY <2>1, <2>3, ObjectsAssumption, IncrInRange
  <2>5. Present(db') = Present(e)
    BY <2>1, <2>2, <2>4, InPlaceOK
  <2> QED BY <1>1, <2>2, <2>5, NoGrowth
<1>9. ASSUME NEW k \in Keys, CollCmd(k)
      PROVE  RunDry(Before, db')
  <2>1. db' \in Puts(Get(Before, k, now), k, CollObj, -1, now)
    BY <1>3, <1>9 DEF CollCmd
  <2> QED BY <1>0, <1>1, <2>1, ObjectsAssumption, GetPutsRunDry
<1>10. ASSUME NEW K \in SUBSET Keys \ {{}}, DelCmd(K)
       PROVE  FALSE
  BY <1>0, <1>1, <1>10, DelOK, NoGrowth DEF DelCmd
<1>11. ASSUME NEW e \in Reaps(Before, now), Cron(e)
       PROVE  FALSE
  BY <1>0, <1>1, <1>11, ReapsOK, NoGrowth DEF Cron
<1>12. ~ Tick
  BY NoGrowth DEF Tick
<1> QED BY <1>2, <1>4, <1>5, <1>6, <1>7, <1>8, <1>9, <1>10, <1>11, <1>12, OverwritesAre
        DEF Next, IncrCmd

\* At its limit the store grows only when eviction has run dry, whatever the limit, the
\* size of a sample and the number of keys, and after a replay too.
THEOREM GrowthIsBounded == Spec => OverflowIsSpent
<1>1. IInv /\ [Next]_vars =>
        [EvictCount > 0 /\ Cardinality(Present(db)) >= KeyLimit
           /\ Cardinality(Present(db')) > Cardinality(Present(db))
         => \/ Spent' # Spent
            \/ Cardinality(Spent \cap Present(db)) >= SmallerOf(SampleSize, Cardinality(Present(db)))]_vars
  BY GrowthOK DEF Grows, RunDry, Spent, SpentIn
<1> QED BY <1>1, InvariantHolds, PTL DEF Spec, OverflowIsSpent

-----------------------------------------------------------------------------
(***************************************************************************)
(* Keyspace implements ExpiringMap, for any keys, objects and limits.      *)
(* `Shows` relates a key space to a map, its deadlines and its stale keys; *)
(* each operator of KeyspaceOps is matched with what it does to those, and *)
(* SettleOK turns a match into the step of ExpiringMap.                    *)
(***************************************************************************)

\* What the refinement mapping makes of key space d at time t.
MapOf(d, t) == [k \in Keys |-> IF k \in Visible(d, t) THEN d.store[k] ELSE NoObj]
DueOf(d, t) == [k \in Keys |-> IF k \in Visible(d, t) THEN d.expires[k] ELSE Never]

\* Map m with deadlines dd and stale keys s is what d shows at t, once what has lapsed
\* by then is taken away.
Shows(d, m, dd, s, t) ==
  /\ s \in SUBSET Keys
  /\ \A k \in Keys :
       \/ k \notin Present(d) /\ k \notin s /\ m[k] = NoObj /\ dd[k] = Never
       \/ k \in Present(d) /\ k \in s /\ m[k] = NoObj /\ dd[k] = Never /\ HasExpired(d, k, t)
       \/ k \in Present(d) /\ k \notin s /\ m[k] = d.store[k] /\ dd[k] = d.expires[k]

LEMMA SettleOK ==
  ASSUME NEW m, NEW dd, NEW s, db' \in Db, Shows(db', m, dd, s, now')
  PROVE  Promise!Settle(m, dd, s, now')
<1> DEFINE over == {k \in Keys : dd[k] # Never /\ dd[k] <= now'}
<1>1. Lapsed(db', now') = s \cup over
  BY DEF Shows, Lapsed, HasExpired, Present
<1>2. \A k \in Keys : k \in Visible(db', now') <=> k \in Present(db') /\ k \notin s /\ k \notin over
  BY <1>1 DEF Visible, Present
<1>3. \A k \in Keys : (IF k \in Visible(db', now') THEN db'.store[k] ELSE NoObj)
                        = IF k \in over THEN NoObj ELSE m[k]
  BY <1>2 DEF Shows
<1>4. \A k \in Keys : (IF k \in Visible(db', now') THEN db'.expires[k] ELSE Never)
                        = IF k \in over THEN Never ELSE dd[k]
  BY <1>2 DEF Shows
<1> HIDE DEF over
<1>5. MapOf(db', now') = [k \in Keys |-> IF k \in over THEN NoObj ELSE m[k]]
  BY <1>3 DEF MapOf
<1>6. DueOf(db', now') = [k \in Keys |-> IF k \in over THEN Never ELSE dd[k]]
  BY <1>4 DEF DueOf
<1>7. Shown(db.store, NoObj)' = MapOf(db', now') /\ Shown(db.expires, Never)' = DueOf(db', now')
  BY DEF Shown, MapOf, DueOf
<1> QED BY <1>1, <1>5, <1>6, <1>7 DEF Promise!Settle, over

\* The map of this moment, in the terms of ExpiringMap.
LEMMA ShownIs ==
  /\ Shown(db.store, NoObj) = MapOf(db, now)
  /\ Shown(db.expires, Never) = DueOf(db, now)
  BY DEF Shown, MapOf, DueOf

LEMMA ReadableIs == Promise!Readable = Visible(db, now)
<1>1. \A k \in Keys : MapOf(db, now)[k] # NoObj <=> k \in Visible(db, now)
  BY DEF MapOf, Visible, Present
<1> QED BY <1>1, ShownIs DEF Promise!Readable, Visible, Present

LEMMA ShowsNow ==
  ASSUME NEW d, DbInv(d), NEW t \in Int, NEW u \in Int, t <= u
  PROVE  Shows(d, MapOf(d, t), DueOf(d, t), Lapsed(d, t), u)
<1>1. d \in Db
  BY DEF DbInv
<1>2. \A k \in Keys : HasExpired(d, k, t) => HasExpired(d, k, u)
  <2>1. \A k \in Keys : d.expires[k] \in Int \cup {Never}
    BY <1>1, DeadlinesAreInts
  <2> QED BY <2>1 DEF HasExpired
<1> QED BY <1>2 DEF Shows, MapOf, DueOf, Visible, Lapsed, Present

\* f is d without the keys of V.
Dropped(d, f, V) ==
  \A q \in Keys : IF q \in V THEN f.store[q] = NoObj /\ f.expires[q] = Never
                             ELSE f.store[q] = d.store[q] /\ f.expires[q] = d.expires[q]

LEMMA DelDrops ==
  ASSUME NEW d, DbInv(d), NEW K
  PROVE  Dropped(d, Del(d, K), K)
<1>1. /\ Del(d, K).store = [k \in Keys |-> IF k \in K \cap Present(d) THEN NoObj ELSE d.store[k]]
      /\ Del(d, K).expires = [k \in Keys |-> IF k \in K \cap Present(d) THEN Never ELSE d.expires[k]]
  BY DEF Del, DbInv, Db
<1> QED BY <1>1 DEF Dropped, DbInv, Present

\* Eviction drops at most EvictCount entries, and none below the limit.
LEMMA EvictionsDrop ==
  ASSUME NEW d, DbInv(d), NEW f \in Evictions(d)
  PROVE  \E V \in SUBSET Present(d) :
           /\ Dropped(d, f, V)
           /\ Cardinality(Present(d)) < KeyLimit => V = {}
           /\ Cardinality(V) <= EvictCount
<1>0. EvictCount \in Nat /\ d \in Db /\ Present(d) \in SUBSET Keys
  BY LimitAssumption DEF EvictCount, DbInv, Present
<1>1. CASE Cardinality(Present(d)) < KeyLimit
  <2>1. f = d
    BY <1>1 DEF Evictions
  <2>2. Dropped(d, f, {})
    BY <2>1 DEF Dropped
  <2> QED BY <1>0, <2>2, FS_EmptySet
<1>2. CASE ~ (Cardinality(Present(d)) < KeyLimit)
  <2>1. PICK S \in Samples(d) : \E V \in Victims(d, S) : f = Evict(d, S, V)
    BY <1>2 DEF Evictions
  <2>2. PICK W \in Victims(d, S) : f = Evict(d, S, W)
    BY <2>1
  <2> DEFINE e == [d EXCEPT !.pool = PoolWith(d, S) \ W, !.keyset = @ \cup S]
             V == W \cap Present(d)
  <2>3. PoolWith(d, S) \in SUBSET Keys /\ W \in SUBSET PoolWith(d, S)
    BY <1>0 DEF Samples, Victims, Present, PoolWith, Db
  <2>4. Cardinality(W) \in Nat /\ Cardinality(W) <= EvictCount
    <3>1. Cardinality(W) = SmallerOf(EvictCount, Cardinality(PoolWith(d, S)))
      BY DEF Victims
    <3>2. Cardinality(PoolWith(d, S)) \in Nat
      BY <2>3, KeySets
    <3> QED BY <1>0, <3>1, <3>2 DEF SmallerOf
  <2>5. Cardinality(V) \in Nat /\ Cardinality(V) <= Cardinality(W)
    BY <2>3, KeySets
  <2>6. e.store = d.store /\ e.expires = d.expires /\ f = Del(e, W)
    BY <1>0, <2>2 DEF Evict, Db
  <2>7. /\ f.store = [k \in Keys |-> IF k \in W \cap Present(e) THEN NoObj ELSE e.store[k]]
        /\ f.expires = [k \in Keys |-> IF k \in W \cap Present(e) THEN Never ELSE e.expires[k]]
    BY <1>0, <2>6 DEF Del, Db
  <2> HIDE DEF e
  <2>8. Dropped(d, f, V)
    BY <2>6, <2>7 DEF Dropped, Present
  <2> QED BY <1>0, <1>2, <2>4, <2>5, <2>8
<1> QED BY <1>1, <1>2

LEMMA ShowsDropped ==
  ASSUME NEW d, NEW f, NEW m, NEW dd, NEW s, NEW t, NEW V,
         Shows(d, m, dd, s, t), Dropped(d, f, V)
  PROVE  Shows(f, Promise!Without(m, V, NoObj), Promise!Without(dd, V, Never), s \ V, t)
<1>1. \A q \in Keys : /\ q \in V => /\ Promise!Without(m, V, NoObj)[q] = NoObj
                                    /\ Promise!Without(dd, V, Never)[q] = Never
                                    /\ f.store[q] = NoObj
                      /\ q \notin V => /\ Promise!Without(m, V, NoObj)[q] = m[q]
                                       /\ Promise!Without(dd, V, Never)[q] = dd[q]
                                       /\ f.store[q] = d.store[q] /\ f.expires[q] = d.expires[q]
  BY DEF Promise!Without, Dropped
<1> QED BY <1>1 DEF Shows, Present, HasExpired

\* Storing an object and a deadline at k.
LEMMA ShowsEntry ==
  ASSUME NEW d, DbInv(d), NEW m, NEW dd, NEW s, NEW t, NEW k \in Keys, NEW o \in Objs, NEW x,
         m = [q \in Keys |-> m[q]], dd = [q \in Keys |-> dd[q]],
         Shows(d, m, dd, s, t), NEW e,
         e.store = [d.store EXCEPT ![k] = o], e.expires = [d.expires EXCEPT ![k] = x]
  PROVE  Shows(e, [m EXCEPT ![k] = o], [dd EXCEPT ![k] = x], s \ {k}, t)
<1>1. /\ [m EXCEPT ![k] = o][k] = o /\ [dd EXCEPT ![k] = x][k] = x
      /\ e.store[k] = o /\ e.expires[k] = x
  BY DEF DbInv, Db
<1>2. \A q \in Keys \ {k} : /\ [m EXCEPT ![k] = o][q] = m[q] /\ [dd EXCEPT ![k] = x][q] = dd[q]
                            /\ e.store[q] = d.store[q] /\ e.expires[q] = d.expires[q]
  BY DEF DbInv, Db
<1> DEFINE m2 == [m EXCEPT ![k] = o]
           d2 == [dd EXCEPT ![k] = x]
<1>3. /\ m2[k] = o /\ d2[k] = x
      /\ \A q \in Keys \ {k} : m2[q] = m[q] /\ d2[q] = dd[q]
  BY <1>1, <1>2
<1> HIDE DEF m2, d2
<1>4. Shows(e, m2, d2, s \ {k}, t)
  BY <1>1, <1>2, <1>3, MarkersAssumption DEF Shows, Present, HasExpired
<1> QED BY <1>4 DEF m2, d2

\* Storing an object at a stale key, without a deadline: it is lost.
LEMMA ShowsLost ==
  ASSUME NEW d, DbInv(d), NEW m, NEW dd, NEW s, NEW t, NEW k \in s, NEW o \in Objs,
         m = [q \in Keys |-> m[q]],
         Shows(d, m, dd, s, t), NEW e,
         e.store = [d.store EXCEPT ![k] = o], e.expires = d.expires
  PROVE  Shows(e, [m EXCEPT ![k] = NoObj], dd, s, t)
<1>0. k \in Keys /\ m[k] = NoObj
  BY DEF Shows
<1>1. [m EXCEPT ![k] = NoObj] = m
  BY <1>0
<1>2. e.store[k] = o /\ \A q \in Keys \ {k} : e.store[q] = d.store[q]
  BY <1>0 DEF DbInv, Db
<1> QED BY <1>0, <1>1, <1>2, MarkersAssumption DEF Shows, Present, HasExpired

(***************************************************************************)
(* The commands.  Each starts from `Before`, which shows what db shows.    *)
(***************************************************************************)
LEMMA ShowsBefore ==
  ASSUME IInv, NEW u \in Int, now <= u
  PROVE  Shows(Before, MapOf(db, now), DueOf(db, now), Lapsed(db, now), u)
<1>1. Shows(db, MapOf(db, now), DueOf(db, now), Lapsed(db, now), u)
  BY ShowsNow DEF IInv
<1> QED BY <1>1, BeforeSame DEF Shows, HasExpired

\* Get takes a stale key away and changes nothing else that shows.
LEMMA ShowsGet ==
  ASSUME IInv, NEW k \in Keys, NEW u \in Int, now <= u
  PROVE  Shows(Get(Before, k, now), MapOf(db, now), DueOf(db, now), Lapsed(db, now) \ {k}, u)
<1>0. DbInv(Before) /\ Lapsed(Before, now) = Lapsed(db, now)
  BY BeforeOK, BeforeSame
<1>1. Shows(Before, MapOf(db, now), DueOf(db, now), Lapsed(db, now), u)
  BY ShowsBefore
<1>2. CASE k \in Lapsed(db, now)
  <2>1. Get(Before, k, now) = Del(Before, {k})
    BY <1>0, <1>2 DEF Get
  <2>2. Dropped(Before, Get(Before, k, now), {k})
    BY <1>0, <2>1, DelDrops
  <2>3. /\ Promise!Without(MapOf(db, now), {k}, NoObj) = MapOf(db, now)
        /\ Promise!Without(DueOf(db, now), {k}, Never) = DueOf(db, now)
    <3>1. k \notin Visible(db, now)
      BY <1>2 DEF Visible
    <3> QED BY <3>1 DEF Promise!Without, MapOf, DueOf
  <2> QED BY <1>1, <2>2, <2>3, ShowsDropped
<1>3. CASE k \notin Lapsed(db, now)
  <2>1. Get(Before, k, now) = Before /\ Lapsed(db, now) \ {k} = Lapsed(db, now)
    BY <1>0, <1>3 DEF Get
  <2> QED BY <1>1, <2>1
<1> QED BY <1>2, <1>3

\* What Get finds is what can be read.
LEMMA GetFinds ==
  ASSUME IInv, NEW k \in Keys
  PROVE  LET e == Get(Before, k, now)
         IN  /\ DbInv(e)
             /\ k \in Present(e) <=> k \in Visible(db, now)
             /\ Present(e) = Visible(db, now) \cup (Lapsed(db, now) \ {k})
<1>0. DbInv(Before) /\ Present(Before) = Present(db)
      /\ Lapsed(Before, now) = Lapsed(db, now)
  BY BeforeOK, BeforeSame
<1>1. Lapsed(db, now) \in SUBSET Present(db)
  BY DEF Lapsed
<1>2. Present(Get(Before, k, now)) = Present(db) \ (IF k \in Lapsed(db, now) THEN {k} ELSE {})
  BY <1>0, DelOK DEF Get
<1> QED BY <1>0, <1>1, <1>2, GetOK DEF Visible

\* The refinement mapping, spelled out.
LEMMA MappingIs ==
  /\ MapOf(db, now) = [q \in Keys |-> MapOf(db, now)[q]]
  /\ DueOf(db, now) = [q \in Keys |-> DueOf(db, now)[q]]
  /\ \A q \in Keys : q \notin Visible(db, now) => DueOf(db, now)[q] = Never
  /\ Lapsed(db, now) \in SUBSET Keys
  BY DEF MapOf, DueOf, Lapsed, Present

\* Every command but GET and DEL.
LEMMA OthersAsked ==
  ASSUME reply'.cmd # "GET", reply'.cmd # "DEL"
  PROVE  Asked' = Promise!Idle
  BY DEF Asked, Promise!Idle, Promise!Reply

\* ExpiringMap counts as FiniteSets does.
LEMMA SameCardinality == \A S : Promise!Cardinality(S) = Cardinality(S)
  BY DEF Cardinality, Promise!Cardinality

LEMMA OverwriteWrites ==
  ASSUME IInv, IInv', NEW k \in Keys, NEW o \in Objs, NEW ttl \in Int, Ahead(ttl),
         db' \in Puts(Before, k, o, ttl, now), now' = now, Asked' = Promise!Idle
  PROVE  Promise!Write(k, o, ttl)
<1> DEFINE L == Lapsed(db, now)
           m == MapOf(db, now)
           dd == DueOf(db, now)
<1>0. /\ DbInv(Before) /\ Present(Before) = Present(db) /\ now \in Int /\ db' \in Db
      /\ ttl \in Int /\ now' = now
  BY BeforeOK DEF IInv, DbInv
<1>1. PICK f \in Evictions(Before) : db' = Stored(f, k, o, ttl, now)
  BY DEF Puts
<1>2. PICK V \in SUBSET Present(db) : /\ Dropped(Before, f, V)
                                      /\ Cardinality(Present(db)) < KeyLimit => V = {}
                                      /\ Cardinality(V) <= EvictCount
  BY <1>0, <1>1, EvictionsDrop
<1>3. DbInv(f) /\ f \in Db
  BY <1>0, <1>1, EvictionsOK DEF DbInv
<1>4. /\ db'.store = [f.store EXCEPT ![k] = o]
      /\ db'.expires = [f.expires EXCEPT ![k] = IF ttl > 0 THEN now + ttl ELSE f.expires[k]]
  <2>1. /\ db'.store = [f.store EXCEPT ![k] = o]
        /\ db'.expires = [f.expires EXCEPT ![k] = IF ttl > 0 THEN Deadline(now, ttl) ELSE f.expires[k]]
    BY <1>1, <1>3 DEF Stored, Db
  <2>2. (IF ttl > 0 THEN Deadline(now, ttl) ELSE f.expires[k])
          = IF ttl > 0 THEN now + ttl ELSE f.expires[k]
    BY DEF Ahead
  <2> QED BY <2>1, <2>2
<1>5. V \in Promise!Droppable(Lapsed(db, now))
  <2>1. Visible(db, now) \cup Lapsed(db, now) = Present(db)
    BY DEF Visible, Lapsed
  <2> QED BY <1>2, <2>1, ReadableIs, SameCardinality DEF Promise!Droppable
<1> DEFINE s  == L \ V
           m2 == Promise!Without(m, V, NoObj)
           d2 == Promise!Without(dd, V, Never)
           lost == k \in s /\ ttl <= 0
<1>6. Shows(f, m2, d2, s, now)
  <2>1. Shows(Before, m, dd, L, now)
    BY <1>0, ShowsBefore
  <2> HIDE DEF m, dd, L
  <2> QED BY <1>2, <2>1, ShowsDropped
<1>7. m2 = [q \in Keys |-> m2[q]] /\ d2 = [q \in Keys |-> d2[q]]
  BY DEF Promise!Without
<1>8. Promise!Settle([m2 EXCEPT ![k] = IF lost THEN NoObj ELSE o],
                     [d2 EXCEPT ![k] = IF ttl > 0 THEN now + ttl ELSE @],
                     IF lost THEN s ELSE s \ {k}, now')
  <2> HIDE DEF m2, d2, s
  <2>1. \A q \in Keys : q \notin s => d2[q] = f.expires[q]
    BY <1>3, <1>6 DEF Shows, DbInv, Present
  <2>2. CASE lost
    <3>1. db'.expires = f.expires
      BY <1>0, <1>3, <1>4, <2>2 DEF Db
    <3>2. Shows(db', [m2 EXCEPT ![k] = NoObj], d2, s, now')
      BY <1>0, <1>3, <1>4, <1>6, <1>7, <2>2, <3>1, ShowsLost
    <3>3. Promise!Settle([m2 EXCEPT ![k] = NoObj], d2, s, now')
      BY <1>0, <3>2, SettleOK
    <3>4. [d2 EXCEPT ![k] = IF ttl > 0 THEN now + ttl ELSE @] = d2
      BY <1>0, <1>7, <2>2
    <3>5. [m2 EXCEPT ![k] = IF lost THEN NoObj ELSE o] = [m2 EXCEPT ![k] = NoObj]
      BY <2>2
    <3> HIDE DEF lost
    <3> QED BY <2>2, <3>3, <3>4, <3>5
  <2>3. CASE ~ lost
    <3> DEFINE x == IF ttl > 0 THEN now + ttl ELSE f.expires[k]
    <3>1. Shows(db', [m2 EXCEPT ![k] = o], [d2 EXCEPT ![k] = x], s \ {k}, now')
      <4> HIDE DEF x
      <4>1. db'.expires = [f.expires EXCEPT ![k] = x] /\ db'.store = [f.store EXCEPT ![k] = o]
        BY <1>4 DEF x
      <4>2. Shows(db', [m2 EXCEPT ![k] = o], [d2 EXCEPT ![k] = x], s \ {k}, now)
        BY <1>3, <1>6, <1>7, <4>1, ShowsEntry
      <4> QED BY <1>0, <4>2
    <3>2. Promise!Settle([m2 EXCEPT ![k] = o], [d2 EXCEPT ![k] = x], s \ {k}, now')
      <4> HIDE DEF x
      <4> QED BY <1>0, <3>1, SettleOK
    <3>3. x = IF ttl > 0 THEN now + ttl ELSE d2[k]
      BY <1>0, <2>1, <2>3
    <3>4. [d2 EXCEPT ![k] = IF ttl > 0 THEN now + ttl ELSE @] = [d2 EXCEPT ![k] = x]
      BY <3>3
    <3>5. [m2 EXCEPT ![k] = IF lost THEN NoObj ELSE o] = [m2 EXCEPT ![k] = o]
      BY <2>3
    <3> HIDE DEF lost, x
    <3> QED BY <2>3, <3>2, <3>4, <3>5
  <2> QED BY <2>2, <2>3
<1> QED BY <1>0, <1>5, <1>8, ShownIs DEF Promise!Write

\* A command that creates its key after Get found none.
LEMMA Creates ==
  ASSUME IInv, IInv', NEW k \in Keys, NEW o \in Objs, now' = now, Asked' = Promise!Idle,
         k \notin Present(Get(Before, k, now)),
         NEW f \in Evictions(Get(Before, k, now)),
         db'.store = [f.store EXCEPT ![k] = o], db'.expires = f.expires
  PROVE  Promise!Create(k, o)
<1> DEFINE L == Lapsed(db, now) \ {k}
           m == MapOf(db, now)
           dd == DueOf(db, now)
           e == Get(Before, k, now)
<1>0. now \in Int /\ db' \in Db /\ DbInv(e) /\ Present(e) = Visible(db, now) \cup L
      /\ k \notin Visible(db, now)
  BY GetFinds DEF IInv, DbInv
<1>1. Shows(e, m, dd, L, now)
  BY <1>0, ShowsGet
<1>2. PICK V \in SUBSET Present(e) : /\ Dropped(e, f, V)
                                     /\ Cardinality(Present(e)) < KeyLimit => V = {}
                                     /\ Cardinality(V) <= EvictCount
  <2> HIDE DEF e
  <2>1. f \in Evictions(e)
    BY DEF e
  <2> QED BY <1>0, <2>1, EvictionsDrop
<1>3. V \in Promise!Droppable(L)
  <2> HIDE DEF e, L
  <2> QED BY <1>0, <1>2, ReadableIs, SameCardinality DEF Promise!Droppable
<1>4. DbInv(f) /\ f \in Db
  <2> HIDE DEF e
  <2>1. f \in Evictions(e)
    BY DEF e
  <2> QED BY <1>0, <2>1, EvictionsOK DEF DbInv
<1> DEFINE m2 == Promise!Without(m, V, NoObj)
           d2 == Promise!Without(dd, V, Never)
           s == Lapsed(db, now) \ (V \cup {k})
<1>5. Shows(f, m2, d2, L \ V, now)
  <2> HIDE DEF e, m, dd, L
  <2> QED BY <1>1, <1>2, ShowsDropped
<1>6. m2 = [q \in Keys |-> m2[q]] /\ d2 = [q \in Keys |-> d2[q]]
  BY DEF Promise!Without
<1>7. d2[k] = Never
  BY <1>0, MappingIs DEF Promise!Without
<1>8. f.expires[k] = d2[k]
  <2> HIDE DEF m2, d2, L
  <2>1. k \notin L \ V
    BY DEF L
  <2> QED BY <1>4, <1>5, <1>7, <2>1 DEF Shows, DbInv, Db
<1>9. s = (L \ V) \ {k}
  OBVIOUS
<1> HIDE DEF m2, d2, L, s
<1>10. db'.expires = [f.expires EXCEPT ![k] = d2[k]]
  BY <1>4, <1>8 DEF Db
<1>11. Shows(db', [m2 EXCEPT ![k] = o], [d2 EXCEPT ![k] = d2[k]], (L \ V) \ {k}, now)
  BY <1>4, <1>5, <1>6, <1>10, ShowsEntry
<1>12. [d2 EXCEPT ![k] = d2[k]] = d2
  BY <1>6
<1>13. Shows(db', [m2 EXCEPT ![k] = o], d2, s, now')
  BY <1>9, <1>11, <1>12
<1>14. Promise!Settle([m2 EXCEPT ![k] = o], d2, s, now')
  BY <1>0, <1>13, SettleOK
<1>15. Promise!Settle([Promise!Without(MapOf(db, now), V, NoObj) EXCEPT ![k] = o],
                      Promise!Without(DueOf(db, now), V, Never),
                      Lapsed(db, now) \ (V \cup {k}), now)
  BY <1>14 DEF m2, d2, s
<1>16. V \in Promise!Droppable(Lapsed(db, now) \ {k})
  BY <1>3 DEF L
<1> QED BY <1>0, <1>15, <1>16, ShownIs, ReadableIs DEF Promise!Create

\* What Get leaves behind changes nothing else that shows.
LEMMA Touches ==
  ASSUME IInv, IInv', NEW k \in Keys, Asked' = Promise!Idle,
         db' = Get(Before, k, now), now' \in now .. now + 2
  PROVE  Promise!Touch(k)
<1>0. now \in Int /\ now' \in Int /\ now <= now' /\ db' \in Db
  BY DEF IInv, DbInv
<1>1. Shows(db', MapOf(db, now), DueOf(db, now), Lapsed(db, now) \ {k}, now')
  BY <1>0, ShowsGet
<1>2. Promise!Settle(MapOf(db, now), DueOf(db, now), Lapsed(db, now) \ {k}, now')
  BY <1>0, <1>1, SettleOK
<1> QED BY <1>2, ShownIs DEF Promise!Touch

\* An object and a deadline, old or new, at a key that Get found.
LEMMA Changes ==
  ASSUME IInv, IInv', now' = now, NEW k \in Keys, NEW o \in Objs, NEW x,
         k \in Present(Get(Before, k, now)),
         db'.store = [Get(Before, k, now).store EXCEPT ![k] = o],
         db'.expires = [Get(Before, k, now).expires EXCEPT ![k] = x]
  PROVE  /\ k \in Promise!Readable
         /\ Promise!Settle([MapOf(db, now) EXCEPT ![k] = o], [DueOf(db, now) EXCEPT ![k] = x],
                           Lapsed(db, now), now')
<1> DEFINE m == MapOf(db, now)
           dd == DueOf(db, now)
           e == Get(Before, k, now)
<1>0. now \in Int /\ db' \in Db /\ DbInv(e) /\ k \in Visible(db, now)
  BY GetFinds DEF IInv, DbInv
<1>1. Lapsed(db, now) \ {k} = Lapsed(db, now)
  BY <1>0 DEF Visible
<1>2. Shows(e, m, dd, Lapsed(db, now), now)
  BY <1>0, <1>1, ShowsGet
<1>3. /\ db'.store = [e.store EXCEPT ![k] = o] /\ db'.expires = [e.expires EXCEPT ![k] = x]
      /\ m = [q \in Keys |-> m[q]] /\ dd = [q \in Keys |-> dd[q]]
  BY MappingIs
<1> HIDE DEF m, dd, e
<1>4. Shows(db', [m EXCEPT ![k] = o], [dd EXCEPT ![k] = x], Lapsed(db, now) \ {k}, now)
  BY <1>0, <1>2, <1>3, ShowsEntry
<1>5. Promise!Settle([m EXCEPT ![k] = o], [dd EXCEPT ![k] = x], Lapsed(db, now), now')
  BY <1>0, <1>1, <1>4, SettleOK
<1> QED BY <1>0, <1>5, ReadableIs DEF m, dd

LEMMA ReadsNow ==
  ASSUME IInv, IInv', NEW k \in Keys, GetCmd(k)
  PROVE  Promise!Read(k)
<1>0. /\ now \in Int /\ now' \in {now, now + 1} /\ now' \in Int /\ now <= now' /\ db' \in Db
      /\ db' = Get(Before, k, now)
      /\ reply'.cmd = "GET" /\ reply'.key = {k}
      /\ reply'.val = IF k \in Visible(db', now') THEN db'.store[k] ELSE Nil
  BY DEF IInv, DbInv, GetCmd, Answer
<1>1. Shows(db', MapOf(db, now), DueOf(db, now), Lapsed(db, now) \ {k}, now')
  BY <1>0, ShowsGet
<1>2. Promise!Settle(MapOf(db, now), DueOf(db, now), Lapsed(db, now) \ {k}, now')
  BY <1>0, <1>1, SettleOK
<1>3. Shown(db.store, NoObj)'[k] = IF k \in Visible(db', now') THEN db'.store[k] ELSE NoObj
  BY DEF Shown
<1>4. k \in Visible(db', now') => db'.store[k] \in Objs
  BY <1>0 DEF Db, Visible, Present
<1>5. Asked' = [cmd |-> "GET", keys |-> {k}, obj |-> Shown(db.store, NoObj)'[k]]
  <2>1. Asked' = [cmd |-> "GET", keys |-> {k},
                  obj |-> IF reply'.val = Nil THEN NoObj ELSE reply'.val]
    BY <1>0 DEF Asked
  <2>2. (IF reply'.val = Nil THEN NoObj ELSE reply'.val) = Shown(db.store, NoObj)'[k]
    BY <1>0, <1>3, <1>4, RepliesAssumption
  <2> QED BY <2>1, <2>2
<1> QED BY <1>0, <1>2, <1>5, ShownIs DEF Promise!Read, Promise!Reply

\* A key that Get found has the object and the deadline that show.
LEMMA FoundShows ==
  ASSUME IInv, NEW k \in Keys, k \in Present(Get(Before, k, now))
  PROVE  /\ Get(Before, k, now).store[k] = MapOf(db, now)[k]
         /\ Get(Before, k, now).expires[k] = DueOf(db, now)[k]
<1>1. k \in Visible(db, now)
  BY GetFinds
<1>2. Get(Before, k, now) = Before
  BY <1>1, BeforeSame DEF Get, Visible
<1> QED BY <1>1, <1>2, BeforeSame DEF MapOf, DueOf

LEMMA IncrUpdates ==
  ASSUME IInv, IInv', NEW k \in Keys, IncrPresent(k)
  PROVE  \E o \in Objs : Promise!Update(k, o)
<1> DEFINE e == Get(Before, k, now)
           n == Successor(Parsed(e.store[k].val))
<1>1. /\ k \in Present(e) /\ e.store[k].type = "int" /\ now' = now
      /\ db' = [e EXCEPT !.store[k] = IntObj(n)]
      /\ reply'.cmd = "INCR"
  BY DEF IncrPresent, Wrote
<1>2. DbInv(e) /\ e \in Db
  BY GetFinds DEF DbInv
<1>3. IntObj(n) \in Objs
  <2> HIDE DEF e
  <2>1. e.store[k] \in Objs
    BY <1>1, <1>2 DEF Db, Present
  <2> QED BY <1>1, <2>1, ObjectsAssumption, IncrInRange
<1>4. /\ e.expires[k] = DueOf(db, now)[k]
      /\ DueOf(db, now) = [DueOf(db, now) EXCEPT ![k] = DueOf(db, now)[k]]
  BY <1>1, FoundShows, MappingIs
<1> HIDE DEF n
<1>5. /\ db'.store = [e.store EXCEPT ![k] = IntObj(n)]
      /\ db'.expires = [e.expires EXCEPT ![k] = e.expires[k]]
  <2> HIDE DEF e
  <2> QED BY <1>1, <1>2 DEF Db
<1>6. /\ k \in Promise!Readable
      /\ Promise!Settle([MapOf(db, now) EXCEPT ![k] = IntObj(n)],
                        [DueOf(db, now) EXCEPT ![k] = e.expires[k]], Lapsed(db, now), now')
  BY <1>1, <1>3, <1>5, Changes
<1>7. Promise!Settle([MapOf(db, now) EXCEPT ![k] = IntObj(n)], DueOf(db, now), Lapsed(db, now), now)
  BY <1>1, <1>4, <1>6
<1>8. Asked' = Promise!Idle
  BY <1>1, OthersAsked
<1>9. Promise!Update(k, IntObj(n))
  BY <1>6, <1>7, <1>8, ShownIs DEF Promise!Update
<1> QED BY <1>3, <1>9

LEMMA ExpireSets ==
  ASSUME IInv, IInv', NEW k \in Keys, NEW ttl \in ExpTtls, ExpCmd(k, ttl)
  PROVE  Promise!Expire(k, ttl) \/ Promise!Touch(k)
<1> DEFINE e == Get(Before, k, now)
<1>1. /\ db' = IF k \in Present(e) THEN SetExpiry(e, k, ttl, now) ELSE e
      /\ now' = now /\ now \in Int /\ Asked' = Promise!Idle
  BY OthersAsked DEF IInv, ExpCmd, Answer
<1>2. DbInv(e) /\ e \in Db
  BY GetFinds DEF DbInv
<1>3. CASE k \in Present(e)
  <2>1. e.store[k] = MapOf(db, now)[k]
    BY <1>3, FoundShows
  <2>2. MapOf(db, now) = [MapOf(db, now) EXCEPT ![k] = MapOf(db, now)[k]]
    BY MappingIs
  <2>3. /\ db'.store = [e.store EXCEPT ![k] = e.store[k]]
        /\ db'.expires = [e.expires EXCEPT ![k] = (now + ttl) % Wide]
        /\ e.store[k] \in Objs
    <3> HIDE DEF e
    <3> QED BY <1>1, <1>2, <1>3 DEF SetExpiry, Deadline, Db, Present
  <2>4. /\ k \in Promise!Readable
        /\ Promise!Settle([MapOf(db, now) EXCEPT ![k] = e.store[k]],
                          [DueOf(db, now) EXCEPT ![k] = (now + ttl) % Wide], Lapsed(db, now), now')
    BY <1>1, <1>3, <2>3, Changes
  <2>5. Promise!Settle(MapOf(db, now), [DueOf(db, now) EXCEPT ![k] = (now + ttl) % Wide], Lapsed(db, now), now)
    BY <1>1, <2>1, <2>2, <2>4
  <2> QED BY <1>1, <2>4, <2>5, ShownIs DEF Promise!Expire
<1>4. CASE k \notin Present(e)
  BY <1>1, <1>4, Touches
<1> QED BY <1>3, <1>4

LEMMA IncrCreates ==
  ASSUME IInv, IInv', NEW k \in Keys, IncrAbsent(k)
  PROVE  \E o \in Objs : Promise!Create(k, o)
<1> DEFINE e == Get(Before, k, now)
<1>1. PICK g \in Puts(e, k, IntObj(0), -1, now) : db' = [g EXCEPT !.store[k] = IntObj(1)]
  BY DEF IncrAbsent
<1>2. PICK f \in Evictions(e) : g = Stored(f, k, IntObj(0), -1, now)
  BY <1>1 DEF Puts
<1>3. k \notin Present(e) /\ now' = now /\ Asked' = Promise!Idle /\ IntObj(1) \in Objs
  BY OthersAsked, IntegersAssumption, ObjectsAssumption DEF IncrAbsent, Wrote
<1>4. DbInv(e)
  BY GetFinds
<1>5. f \in Db
  <2> HIDE DEF e
  <2> QED BY <1>2, <1>4, EvictionsOK DEF DbInv
<1>6. g.store = [f.store EXCEPT ![k] = IntObj(0)] /\ g.expires = f.expires
  BY <1>2, <1>5 DEF Stored, Db
<1>7. db'.store = [f.store EXCEPT ![k] = IntObj(1)] /\ db'.expires = f.expires
  <2>1. db'.store = [g.store EXCEPT ![k] = IntObj(1)] /\ db'.expires = g.expires
    BY <1>1, <1>2 DEF Stored
  <2> QED BY <1>5, <1>6, <2>1 DEF Db
<1> QED BY <1>2, <1>3, <1>7, Creates

LEMMA PushCreates ==
  ASSUME IInv, IInv', NEW k \in Keys, CollCmd(k)
  PROVE  Promise!Create(k, CollObj) \/ Promise!Touch(k)
<1> DEFINE e == Get(Before, k, now)
<1>1. now' = now /\ now \in Int /\ Asked' = Promise!Idle /\ DbInv(e) /\ CollObj \in Objs
  BY OthersAsked, GetFinds, ObjectsAssumption DEF CollCmd, Answer, Wrote, IInv
<1>2. CASE k \notin Present(e) /\ db' \in Puts(e, k, CollObj, -1, now)
  <2>1. PICK f \in Evictions(e) : db' = Stored(f, k, CollObj, -1, now)
    BY <1>2 DEF Puts
  <2>2. f \in Db
    <3> HIDE DEF e
    <3> QED BY <1>1, <2>1, EvictionsOK DEF DbInv
  <2>3. db'.store = [f.store EXCEPT ![k] = CollObj] /\ db'.expires = f.expires
    BY <2>1, <2>2 DEF Stored, Db
  <2> QED BY <1>1, <1>2, <2>1, <2>3, Creates
<1>3. CASE db' = e
  BY <1>1, <1>3, Touches
<1> QED BY <1>2, <1>3 DEF CollCmd

\* Deleting keys deletes what shows of them, and those that are stale.
LEMMA DelShows ==
  ASSUME IInv, IInv', NEW K, db' = Del(Before, K), now' = now
  PROVE  Promise!Settle(Promise!Without(MapOf(db, now), K, NoObj),
                        Promise!Without(DueOf(db, now), K, Never), Lapsed(db, now) \ K, now')
<1>0. now \in Int /\ db' \in Db /\ DbInv(Before)
  BY BeforeOK DEF IInv, DbInv
<1>1. Shows(Before, MapOf(db, now), DueOf(db, now), Lapsed(db, now), now')
  BY <1>0, ShowsBefore
<1>2. Dropped(Before, db', K)
  BY <1>0, DelDrops
<1>3. Shows(db', Promise!Without(MapOf(db, now), K, NoObj),
            Promise!Without(DueOf(db, now), K, Never), Lapsed(db, now) \ K, now')
  BY <1>1, <1>2, ShowsDropped
<1> QED BY <1>0, <1>3, SettleOK

LEMMA DelRemoves ==
  ASSUME IInv, IInv', NEW K \in SUBSET Keys, DelCmd(K)
  PROVE  Promise!Remove(K)
<1>1. db' = Del(Before, K) /\ now' = now /\ reply'.cmd = "DEL" /\ reply'.key = K
  BY DEF DelCmd, Answer
<1>2. Asked' = Promise!Reply("DEL", K, NoObj)
  BY <1>1 DEF Asked, Promise!Reply
<1>3. Promise!Settle(Promise!Without(MapOf(db, now), K, NoObj),
                     Promise!Without(DueOf(db, now), K, Never), Lapsed(db, now) \ K, now)
  BY <1>1, DelShows
<1> QED BY <1>2, <1>3, ShownIs DEF Promise!Remove

LEMMA CronReaps ==
  ASSUME IInv, IInv', NEW e \in Reaps(Before, now), Cron(e)
  PROVE  \E S \in SUBSET Keys : Promise!Reap(S)
<1>1. PICK S \in SUBSET Lapsed(Before, now) : e = Del(Before, S)
  BY DEF Reaps
<1>2. /\ S \in SUBSET Lapsed(db, now) /\ S \in SUBSET Keys
      /\ db' = Del(Before, S) /\ now' = now /\ Asked' = Promise!Idle
  BY <1>1, BeforeSame, OthersAsked DEF Cron, Answer, Lapsed, Present
<1>3. /\ Promise!Without(MapOf(db, now), S, NoObj) = MapOf(db, now)
      /\ Promise!Without(DueOf(db, now), S, Never) = DueOf(db, now)
  <2>1. \A q \in S : q \notin Visible(db, now)
    BY <1>2 DEF Visible
  <2> QED BY <2>1 DEF Promise!Without, MapOf, DueOf
<1>4. Promise!Settle(MapOf(db, now), DueOf(db, now), Lapsed(db, now) \ S, now)
  BY <1>2, <1>3, DelShows
<1> QED BY <1>2, <1>4, ShownIs DEF Promise!Reap

LEMMA TickPasses ==
  ASSUME IInv, IInv', Tick
  PROVE  Promise!Pass
<1>1. now \in Int /\ now' = now + 1 /\ db' = db /\ reply' = reply /\ db' \in Db
  BY DEF IInv, DbInv, Tick
<1>2. Shows(db', MapOf(db, now), DueOf(db, now), Lapsed(db, now), now')
  BY <1>1, ShowsNow DEF IInv
<1>3. Promise!Settle(MapOf(db, now), DueOf(db, now), Lapsed(db, now), now + 1)
  BY <1>1, <1>2, SettleOK
<1>4. Asked' = Asked
  BY <1>1 DEF Asked
<1> QED BY <1>3, <1>4, ShownIs DEF Promise!Pass

LEMMA InitImplements == Init => Promise!Init
<1> SUFFICES ASSUME Init PROVE Promise!Init
  OBVIOUS
<1>1. DbInv(db) /\ db \in Db /\ now \in Nat /\ now \in Int /\ reply = Answer("start", {}, Ok)
  BY InitOK, TimeAssumption DEF Init, IInv, DbInv
<1>2. Shown(db.store, NoObj) \in [Keys -> Objs \cup {NoObj}]
  <2>1. \A k \in Keys : db.store[k] \in Objs \cup {NoObj}
    BY <1>1 DEF Db
  <2> QED BY <2>1 DEF Shown
<1>3. \A k \in Keys : db.expires[k] \in Nat \cup {Never}
  BY <1>1, WideAssumption DEF Db, Deadlines
<1>4. Shown(db.expires, Never) \in [Keys -> Nat \cup {Never}]
  BY <1>3 DEF Shown
<1>5. Lapsed(db, now) \subseteq Keys \ Promise!Readable
  BY ReadableIs DEF Lapsed, Visible, Present
<1>6. ASSUME NEW k \in Keys, Shown(db.expires, Never)[k] # Never
      PROVE  k \in Promise!Readable /\ Shown(db.expires, Never)[k] > now
  <2>1. k \in Visible(db, now) /\ Shown(db.expires, Never)[k] = db.expires[k]
    BY <1>6 DEF Shown
  <2>2. db.expires[k] > now
    BY <1>1, <1>3, <1>6, <2>1 DEF Visible, Lapsed, HasExpired, Present
  <2> QED BY <2>1, <2>2, ReadableIs
<1>7. Asked = Promise!Idle
  BY <1>1 DEF Asked, Answer, Promise!Idle, Promise!Reply
<1> QED BY <1>1, <1>2, <1>4, <1>5, <1>6, <1>7 DEF Promise!Init

\* Every step is a step of ExpiringMap or shows nothing.
LEMMA StepImplements ==
  ASSUME IInv, IInv', [Next]_vars
  PROVE  [Promise!Next]_(Promise!vars)
<1>1. ASSUME NEW k \in Keys, Overwrites(k)
      PROVE  Promise!Next
  <2>1. PICK cmd \in {"SET", "SET EX", "BF.RESERVE"}, o \in Objs, ttl \in SetTtls \cup {-1} :
          Overwrite(cmd, k, o, ttl)
    BY <1>1 DEF Overwrites
  <2>2. ttl \in Durations /\ ttl \in SetTtls \cup ExpTtls \cup {-1}
    BY TtlsAreDurations
  <2>3. Ahead(ttl) /\ ttl \in Int
    BY <2>2, DurationsAhead
  <2>4. db' \in Puts(Before, k, o, ttl, now) /\ now' = now
    BY <2>1 DEF Overwrite
  <2>5. Asked' = Promise!Idle
    BY <2>1, OthersAsked DEF Overwrite, Wrote
  <2>6. Promise!Write(k, o, ttl)
    BY <2>3, <2>4, <2>5, OverwriteWrites
  <2> QED BY <2>2, <2>6 DEF Promise!Next
<1>2. ASSUME NEW k \in Keys, NEW ttl \in ExpTtls, ExpCmd(k, ttl)
      PROVE  Promise!Next
  BY <1>2, ExpireSets DEF Promise!Next
<1>3. ASSUME NEW k \in Keys, GetCmd(k)
      PROVE  Promise!Next
  BY <1>3, ReadsNow DEF Promise!Next
<1>4. ASSUME NEW k \in Keys, IncrCmd(k)
      PROVE  Promise!Next
  <2>1. CASE IncrAbsent(k)
    BY <2>1, IncrCreates DEF Promise!Next
  <2>2. CASE IncrPresent(k)
    BY <2>2, IncrUpdates DEF Promise!Next
  <2>3. CASE IncrRefused(k)
    <3>1. db' = Get(Before, k, now) /\ now' \in now .. now + 2 /\ Asked' = Promise!Idle
      BY <2>3, OthersAsked DEF IncrRefused, Answer, IInv
    <3> QED BY <3>1, Touches DEF Promise!Next
  <2> QED BY <1>4, <2>1, <2>2, <2>3 DEF IncrCmd
<1>5. ASSUME NEW k \in Keys, TtlCmd(k)
      PROVE  Promise!Next
  <2>1. db' = Get(Before, k, now) /\ now' \in now .. now + 2
    BY <1>5 DEF TtlCmd, IInv
  <2>2. Asked' = Promise!Idle
    BY <1>5, OthersAsked DEF TtlCmd, Answer
  <2> QED BY <2>1, <2>2, Touches DEF Promise!Next
<1>6. ASSUME NEW k \in Keys, CollCmd(k)
      PROVE  Promise!Next
  BY <1>6, PushCreates, ObjectsAssumption DEF Promise!Next
<1>7. ASSUME NEW K \in SUBSET Keys \ {{}}, DelCmd(K)
      PROVE  Promise!Next
  BY <1>7, DelRemoves DEF Promise!Next
<1>8. ASSUME NEW e \in Reaps(Before, now), Cron(e)
      PROVE  Promise!Next
  BY <1>8, CronReaps DEF Promise!Next
<1>9. CASE Tick
  BY <1>9, TickPasses DEF Promise!Next
<1>10. CASE UNCHANGED vars
  BY <1>10 DEF vars, Promise!vars, Shown, Asked
<1> QED BY <1>1, <1>2, <1>3, <1>4, <1>5, <1>6, <1>7, <1>8, <1>9, <1>10, OverwritesAre DEF Next

\* What a client can tell of the key space is ExpiringMap: lazy deletion, the cron, the
\* counters and the eviction pool stay out of sight, whatever the limits are.
THEOREM KeyspaceImplements == Spec => ImplementsExpiringMap
<1>1. IInv /\ IInv' /\ [Next]_vars => [Promise!Next]_(Promise!vars)
  BY StepImplements
<1> QED BY <1>1, InitImplements, InvariantHolds, PTL DEF Spec, ImplementsExpiringMap, Promise!Spec
=============================================================================
