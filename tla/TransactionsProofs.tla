-------------------------- MODULE TransactionsProofs --------------------------
(***************************************************************************)
(* The invariants of Transactions for any clients, keys, commands, limits  *)
(* and lengths of queues.  What the key space contributes is one relation  *)
(* between the key space before and after a command (Quiet): where nothing *)
(* was signalled, a watcher reads on what it read.                         *)
(***************************************************************************)
EXTENDS Transactions, KeyspaceOpsProofs

\* The types, of the history too, with what the operators of the key space
\* preserve.
Types ==
  /\ DbInv(db) /\ now \in Nat
  /\ multi \subseteq Clients /\ cas \subseteq Clients /\ aborted \subseteq Clients
  /\ queue \in [Clients -> Seq(Cmds)]
  /\ watched \in [Clients -> SUBSET Keys]
  /\ exec \in [client : Clients \cup {NoClient}, batch : Seq(Cmds)]
  /\ seen \in [Clients -> [Keys -> Objs \cup {NoObj}]]
  /\ told \in [Clients -> SUBSET Keys] /\ moved \in [Clients -> SUBSET Keys]
  /\ leftover \subseteq Clients

NothingQueued == \A c \in Clients \ multi : queue[c] = <<>> /\ c \notin aborted

IInv == Types /\ NothingQueued /\ FlagIsExact /\ UnflaggedIsCurrent

\* From key space d to e at time t: at a key that was neither signalled nor
\* changed in place, a reader sees what it saw unless the entry has lapsed, and
\* an entry that had lapsed still occupies the store.
Quiet(d, e, t, inPlace) ==
  \A k \in Keys \ (e.sig \cup inPlace) :
    /\ Shown(e, t, k) = Shown(d, t, k) \/ k \in Lapsed(e, t)
    /\ k \in Lapsed(d, t) => k \in Lapsed(e, t)

\* What an operator changes it signals, so it is quiet elsewhere.
LEMMA ToldIsQuiet ==
  ASSUME NEW d, NEW e, NEW t, NEW inPlace, Told(d, e)
  PROVE  Quiet(d, e, t, inPlace)
  BY DEF Told, Quiet, Shown, Visible, Lapsed, Present, HasExpired

\* EXPIRE tells nobody, but all it can do to a reader is to let the entry lapse.
LEMMA SetExpiryIsQuiet ==
  ASSUME NEW d \in Db, NEW k \in Present(d), NEW ttl \in Int, NEW t \in Int, k \notin Lapsed(d, t)
  PROVE  LET e == SetExpiry(d, k, ttl, t)
         IN  e.sig = d.sig /\ Quiet(d, e, t, {})
<1> DEFINE e == SetExpiry(d, k, ttl, t)
<1>1. /\ e.store = d.store /\ e.sig = d.sig
      /\ e.expires = [d.expires EXCEPT ![k] = Deadline(t, ttl)]
      /\ k \in Keys
  BY DEF SetExpiry, Db, Present
<1> HIDE DEF e
<1>2. ASSUME NEW q \in Keys
      PROVE  /\ Shown(e, t, q) = Shown(d, t, q) \/ q \in Lapsed(e, t)
             /\ q \in Lapsed(d, t) => q \in Lapsed(e, t)
  <2>1. Present(e) = Present(d)
    BY <1>1 DEF Present
  <2>2. CASE q = k
    BY <1>1, <2>1, <2>2 DEF Shown, Visible
  <2>3. CASE q # k
    <3>1. e.expires[q] = d.expires[q]
      BY <1>1, <2>3 DEF Db
    <3> QED BY <1>1, <2>1, <3>1 DEF Shown, Visible, Lapsed, HasExpired
  <2> QED BY <2>2, <2>3
<1> QED BY <1>1, <1>2 DEF Quiet, e

\* Quiet steps add up, when the second has the signals of the first.
LEMMA QuietAgain ==
  ASSUME NEW d, NEW e, NEW f, NEW t, NEW inPlace,
         Quiet(d, e, t, inPlace), Quiet(e, f, t, inPlace), e.sig \subseteq f.sig
  PROVE  Quiet(d, f, t, inPlace)
<1> SUFFICES ASSUME NEW k \in Keys \ (f.sig \cup inPlace)
             PROVE  /\ Shown(f, t, k) = Shown(d, t, k) \/ k \in Lapsed(f, t)
                    /\ k \in Lapsed(d, t) => k \in Lapsed(f, t)
  BY DEF Quiet
<1>1. k \in Keys \ (e.sig \cup inPlace)
  OBVIOUS
<1> QED BY <1>1 DEF Quiet

\* A data command keeps the invariants of the key space and is quiet but for the
\* key that PUSH changes in place.
LEMMA OutcomesOK ==
  ASSUME NEW d, DbInv(d), NEW cmd \in Cmds, cmd.op \in DataOps,
         NEW t \in Nat, NEW f \in Outcomes(d, cmd, t)
  PROVE  /\ DbInv(f)
         /\ Quiet(d, f, t, IF cmd.op = "PUSH" THEN {cmd.key} ELSE {})
<1> DEFINE e == Get(d, cmd.key, t)
<1>1. /\ cmd.key \in Keys /\ cmd.obj \in Objs /\ cmd.ttl \in Int /\ t \in Int /\ d \in Db
  BY CmdsAssumption DEF Command, DbInv
<1>2. /\ DbInv(e) /\ e \in Db
      /\ Told(d, e) /\ cmd.key \notin Lapsed(e, t)
  BY <1>1, GetOK, GetTells DEF DbInv
<1>3. CASE cmd.op = "SET"
  <2>1. f \in Puts(d, cmd.key, cmd.obj, cmd.ttl, t)
    BY <1>3 DEF Outcomes
  <2> QED BY <1>1, <1>3, <2>1, PutsOK, PutsTell, ToldIsQuiet
<1>4. CASE cmd.op = "DEL"
  <2>1. f = Del(d, {cmd.key})
    BY <1>4 DEF Outcomes
  <2> QED BY <1>1, <1>4, <2>1, DelOK, DelTells, ToldIsQuiet
<1>5. CASE cmd.op = "GET"
  <2>1. f = e
    BY <1>5 DEF Outcomes
  <2> QED BY <1>2, <1>5, <2>1, ToldIsQuiet
<1>6. CASE cmd.op = "EXPIRE"
  <2>1. f = IF cmd.key \in Present(e) THEN SetExpiry(e, cmd.key, cmd.ttl, t) ELSE e
    BY <1>6 DEF Outcomes
  <2> HIDE DEF e
  <2>2. Quiet(d, e, t, {})
    BY <1>2, ToldIsQuiet
  <2>3. CASE cmd.key \in Present(e)
    <3>1. DbInv(f)
      BY <1>1, <1>2, <2>1, <2>3, SetExpiryOK
    <3>2. f.sig = e.sig /\ Quiet(e, f, t, {})
      BY <1>1, <1>2, <2>1, <2>3, SetExpiryIsQuiet
    <3> QED BY <1>6, <2>2, <3>1, <3>2, QuietAgain
  <2> QED BY <1>2, <1>6, <2>1, <2>2, <2>3
<1>7. CASE cmd.op = "PUSH"
  <2>1. f \in IF cmd.key \in Present(e) THEN {[e EXCEPT !.store[cmd.key] = cmd.obj]}
              ELSE Puts(e, cmd.key, cmd.obj, -1, t)
    BY <1>7 DEF Outcomes
  <2> HIDE DEF e
  <2>2. CASE cmd.key \in Present(e)
    <3>1. /\ f.store = [e.store EXCEPT ![cmd.key] = cmd.obj]
          /\ f.expires = e.expires /\ f.sig = e.sig
      BY <1>2, <2>1, <2>2 DEF Db
    <3>2. DbInv(f)
      BY <1>1, <1>2, <2>1, <2>2, InPlaceOK
    <3>3. Quiet(d, f, t, {cmd.key})
      BY <1>2, <3>1 DEF Told, Quiet, Shown, Visible, Lapsed, Present, HasExpired, Db
    <3> QED BY <1>7, <3>2, <3>3
  <2>3. CASE cmd.key \notin Present(e)
    <3>1. f \in Puts(e, cmd.key, cmd.obj, -1, t)
      BY <2>1, <2>3
    <3>2. Told(e, f)
      BY <1>1, <1>2, <3>1, PutsTell
    <3>3. DbInv(f)
      BY <1>1, <1>2, <3>1, PutsOK
    <3>4. Told(d, f)
      BY <1>2, <3>2 DEF Told
    <3> QED BY <3>3, <3>4, ToldIsQuiet
  <2> QED BY <2>2, <2>3
<1> QED BY <1>3, <1>4, <1>5, <1>6, <1>7 DEF DataOps, Ops

\* Forgetting the last command's signals keeps what the invariants speak of.
LEMMA BeforeOK ==
  ASSUME IInv
  PROVE  /\ DbInv(Before) /\ Before.sig = {}
         /\ \A e, K : Quiet(Before, e, now, K) => Quiet(db, e, now, K)
<1>1. db \in Db
  BY DEF IInv, Types, DbInv
<1>2. Before.store = db.store /\ Before.expires = db.expires /\ Before.sig = {}
  BY <1>1 DEF Before, Db
<1>3. DbInv(Before)
  BY UnsignalledOK DEF IInv, Types, Before
<1>4. \A k : Shown(Before, now, k) = Shown(db, now, k)
  BY <1>2 DEF Shown, Visible, Lapsed, Present, HasExpired
<1>5. Lapsed(Before, now) = Lapsed(db, now)
  BY <1>2 DEF Lapsed, Present, HasExpired
<1> QED BY <1>2, <1>3, <1>4, <1>5 DEF Quiet

\* The heart of the matter: the new key space is quiet where it does not signal,
\* and whoever watches what it signals is flagged.
LEMMA BecomesOK ==
  ASSUME IInv, NEW d, NEW K \in SUBSET Keys,
         DbInv(d), Quiet(db, d, now, K), Becomes(d, K),
         UNCHANGED <<multi, aborted, queue>>,
         exec' \in [client : Clients \cup {NoClient}, batch : Seq(Cmds)]
  PROVE  IInv'
<1>1. /\ db' = d /\ now' = now /\ watched' = watched /\ seen' = seen /\ leftover' = leftover
      /\ cas' = cas \cup Watchers(d.sig)
      /\ told' = [c \in Clients |-> told[c] \cup (watched[c] \cap d.sig)]
      /\ moved' = [c \in Clients |-> moved[c] \cup (watched[c] \cap K)]
  BY DEF Becomes
<1>2. \A c \in Clients : c \in Watchers(d.sig) <=> watched[c] \cap d.sig # {}
  BY DEF Watchers
<1>3. Types'
  <2>1. cas' \subseteq Clients
    BY <1>1 DEF IInv, Types, Watchers
  <2>2. told' \in [Clients -> SUBSET Keys] /\ moved' \in [Clients -> SUBSET Keys]
    BY <1>1 DEF IInv, Types
  <2> QED BY <1>1, <2>1, <2>2 DEF IInv, Types
<1>4. NothingQueued'
  BY DEF IInv, NothingQueued
<1>5. FlagIsExact'
  <2> SUFFICES ASSUME NEW c \in Clients
               PROVE  /\ told'[c] # {} => c \in cas'
                      /\ c \in cas' => told'[c] # {} \/ c \in leftover'
    BY DEF FlagIsExact
  <2>1. told'[c] = told[c] \cup (watched[c] \cap d.sig)
    BY <1>1
  <2> QED BY <1>1, <1>2, <2>1 DEF IInv, FlagIsExact
<1>6. UnflaggedIsCurrent'
  <2> SUFFICES ASSUME NEW c \in Clients \ cas', NEW k \in watched'[c]
               PROVE  \/ Shown(d, now, k) = seen[c][k]
                      \/ k \in moved'[c]
                      \/ k \in Lapsed(d, now)
    BY <1>1 DEF UnflaggedIsCurrent
  <2>1. c \in Clients \ cas /\ k \in watched[c] /\ k \in Keys /\ k \notin d.sig
    BY <1>1, <1>2 DEF IInv, Types
  <2>2. moved'[c] = moved[c] \cup (watched[c] \cap K)
    BY <1>1
  <2>3. CASE k \in K
    BY <2>1, <2>2, <2>3
  <2>4. CASE k \notin K
    <3>1. /\ Shown(d, now, k) = Shown(db, now, k) \/ k \in Lapsed(d, now)
          /\ k \in Lapsed(db, now) => k \in Lapsed(d, now)
      BY <2>1, <2>4 DEF Quiet
    <3> QED BY <2>1, <2>2, <3>1 DEF IInv, UnflaggedIsCurrent
  <2> QED BY <2>3, <2>4
<1> QED BY <1>3, <1>4, <1>5, <1>6 DEF IInv

\* A step that leaves the key space, the clock and the watches alone leaves the two
\* invariants about them alone.
LEMMA WatchesKept ==
  ASSUME IInv, UNCHANGED <<db, now, cas, watched, history>>
  PROVE  FlagIsExact' /\ UnflaggedIsCurrent'
<1>1. FlagIsExact'
  BY DEF IInv, FlagIsExact, history
<1>2. UnflaggedIsCurrent'
  BY DEF IInv, UnflaggedIsCurrent, history
<1> QED BY <1>1, <1>2

\* A step that ends the watches of c, and the flag of no client but c, keeps them too.
LEMMA UnwatchOK ==
  ASSUME IInv, NEW c \in Clients, UnwatchAllKeys(c), UNCHANGED <<db, now>>,
         \/ cas' = cas \ {c} /\ leftover' = leftover \ {c}
         \/ cas' = cas /\ leftover' = leftover \cup ({c} \cap cas)
  PROVE  /\ watched' \in [Clients -> SUBSET Keys]
         /\ seen' \in [Clients -> [Keys -> Objs \cup {NoObj}]]
         /\ told' \in [Clients -> SUBSET Keys] /\ moved' \in [Clients -> SUBSET Keys]
         /\ cas' \subseteq Clients /\ leftover' \subseteq Clients
         /\ FlagIsExact' /\ UnflaggedIsCurrent'
<1>1. /\ watched' = [watched EXCEPT ![c] = {}]
      /\ seen' = [seen EXCEPT ![c] = [k \in Keys |-> NoObj]]
      /\ told' = [told EXCEPT ![c] = {}]
      /\ moved' = [moved EXCEPT ![c] = {}]
  BY DEF UnwatchAllKeys
<1>2. /\ watched' \in [Clients -> SUBSET Keys]
      /\ seen' \in [Clients -> [Keys -> Objs \cup {NoObj}]]
      /\ told' \in [Clients -> SUBSET Keys] /\ moved' \in [Clients -> SUBSET Keys]
      /\ cas' \subseteq Clients /\ leftover' \subseteq Clients
  BY <1>1 DEF IInv, Types
<1>3. \A a \in Clients \ {c} :
        /\ watched'[a] = watched[a] /\ seen'[a] = seen[a]
        /\ told'[a] = told[a] /\ moved'[a] = moved[a]
        /\ (a \in cas' <=> a \in cas)
        /\ (a \in leftover' <=> a \in leftover)
  BY <1>1 DEF IInv, Types
<1>4. watched'[c] = {} /\ told'[c] = {} /\ (c \in cas' => c \in leftover')
  BY <1>1 DEF IInv, Types
<1>5. FlagIsExact'
  BY <1>3, <1>4 DEF IInv, FlagIsExact
<1>6. UnflaggedIsCurrent'
  <2> SUFFICES ASSUME NEW a \in Clients \ cas', NEW k \in watched'[a]
               PROVE  \/ Shown(db, now, k) = seen'[a][k]
                      \/ k \in moved'[a]
                      \/ k \in Lapsed(db, now)
    BY DEF UnflaggedIsCurrent
  <2>1. a # c
    BY <1>4
  <2> QED BY <1>3, <2>1 DEF IInv, UnflaggedIsCurrent
<1> QED BY <1>2, <1>5, <1>6

\* ResetMultiState leaves nothing queued at c.
LEMMA ResetOK ==
  ASSUME IInv, NEW c \in Clients, ResetMultiState(c), multi' \in {multi \cup {c}, multi \ {c}}
  PROVE  /\ multi' \subseteq Clients /\ aborted' \subseteq Clients
         /\ queue' \in [Clients -> Seq(Cmds)]
         /\ NothingQueued'
<1>1. queue' = [queue EXCEPT ![c] = <<>>] /\ aborted' = aborted \ {c}
  BY DEF ResetMultiState
<1>2. queue' \in [Clients -> Seq(Cmds)]
  BY <1>1 DEF IInv, Types
<1>3. multi' \subseteq Clients /\ aborted' \subseteq Clients
  BY <1>1 DEF IInv, Types
<1>4. NothingQueued'
  BY <1>1 DEF IInv, Types, NothingQueued
<1> QED BY <1>2, <1>3, <1>4
\* Whatever exec becomes, executing a command keeps the invariant.
LEMMA ExecuteOK ==
  ASSUME IInv, NEW c \in Clients, NEW cmd \in Cmds, Execute(c, cmd),
         exec' \in [client : Clients \cup {NoClient}, batch : Seq(Cmds)]
  PROVE  IInv'
<1>0. cmd.key \in Keys
  BY CmdsAssumption DEF Command
<1>1. CASE Data(cmd)
  <2>1. PICK d \in Outcomes(Before, cmd, now) :
          /\ cmd.op \in DataOps
          /\ Becomes(d, IF cmd.op = "PUSH" THEN {cmd.key} ELSE {})
          /\ UNCHANGED <<multi, aborted, queue>>
    BY <1>1 DEF Data
  <2> DEFINE K == IF cmd.op = "PUSH" THEN {cmd.key} ELSE {}
  <2>2. K \in SUBSET Keys
    BY <1>0
  <2>3. DbInv(d) /\ Quiet(Before, d, now, K)
    BY <2>1, BeforeOK, OutcomesOK DEF IInv, Types
  <2>4. Quiet(db, d, now, K)
    BY <2>3, BeforeOK
  <2> QED BY <2>1, <2>2, <2>3, <2>4, BecomesOK
<1>2. CASE cmd.op = "MULTI" /\ Multi(c)
  <2>1. /\ ResetMultiState(c) /\ multi' = multi \cup {c}
        /\ UNCHANGED <<db, now, cas, watched, history>>
    BY <1>2 DEF Multi
  <2>2. /\ multi' \subseteq Clients /\ aborted' \subseteq Clients
        /\ queue' \in [Clients -> Seq(Cmds)]
        /\ NothingQueued'
    BY <2>1, ResetOK
  <2>3. FlagIsExact' /\ UnflaggedIsCurrent'
    BY <2>1, WatchesKept
  <2>4. Types'
    BY <2>1, <2>2 DEF IInv, Types, history
  <2> QED BY <2>2, <2>3, <2>4 DEF IInv
<1>3. CASE cmd.op = "WATCH" /\ Watch(c, cmd.key)
  <2> DEFINE k == cmd.key
  <2>1. UNCHANGED <<db, now, multi, cas, aborted, queue, told, moved, leftover>>
    BY <1>3 DEF Watch, flags
  <2>2. CASE c \in multi
    <3>1. UNCHANGED <<watched, seen>>
      BY <1>3, <2>2 DEF Watch
    <3>2. FlagIsExact' /\ UnflaggedIsCurrent'
      BY <2>1, <3>1, WatchesKept DEF history
    <3> QED BY <2>1, <3>1, <3>2 DEF IInv, Types, NothingQueued
  <2>3. CASE c \notin multi
    <3>1. /\ watched' = [watched EXCEPT ![c] = @ \cup {k}]
          /\ seen' = IF k \in watched[c] THEN seen ELSE [seen EXCEPT ![c][k] = Shown(db, now, k)]
      BY <1>3, <2>3 DEF Watch
    <3>2. Shown(db, now, k) \in Objs \cup {NoObj}
      BY <1>0 DEF IInv, Types, DbInv, Db, Shown
    <3>3. Types'
      <4>1. watched' \in [Clients -> SUBSET Keys]
        BY <1>0, <3>1 DEF IInv, Types
      <4>2. seen' \in [Clients -> [Keys -> Objs \cup {NoObj}]]
        BY <1>0, <3>1, <3>2 DEF IInv, Types
      <4> QED BY <2>1, <4>1, <4>2 DEF IInv, Types
    <3>4. NothingQueued' /\ FlagIsExact'
      BY <2>1 DEF IInv, NothingQueued, FlagIsExact
    <3>5. UnflaggedIsCurrent'
      <4> SUFFICES ASSUME NEW b \in Clients \ cas, NEW q \in watched'[b]
                   PROVE  \/ Shown(db, now, q) = seen'[b][q]
                          \/ q \in moved[b]
                          \/ q \in Lapsed(db, now)
        BY <2>1 DEF UnflaggedIsCurrent
      <4>1. CASE q \in watched[b]
        <5>1. seen'[b][q] = seen[b][q]
          BY <1>0, <3>1, <4>1 DEF IInv, Types
        <5> QED BY <4>1, <5>1 DEF IInv, UnflaggedIsCurrent
      <4>2. CASE q \notin watched[b]
        <5>1. b = c /\ q = k
          BY <3>1, <4>2 DEF IInv, Types
        <5>2. seen'[c][k] = Shown(db, now, k)
          BY <1>0, <3>1, <4>2, <5>1 DEF IInv, Types
        <5> QED BY <5>1, <5>2
      <4> QED BY <4>1, <4>2
    <3> QED BY <3>3, <3>4, <3>5 DEF IInv
  <2> QED BY <2>2, <2>3
<1> QED BY <1>1, <1>2, <1>3 DEF Execute

\* The clock: an entry can lapse between two steps, and what has lapsed stays so.
LEMMA TickOK == IInv /\ Tick => IInv'
<1> SUFFICES ASSUME IInv, Tick PROVE IInv'
  OBVIOUS
<1>1. now' = now + 1 /\ now \in Nat /\ UNCHANGED <<db, multi, cas, aborted, queue, watched, exec, history>>
  BY DEF Tick, flags, IInv, Types
<1>2. Types' /\ NothingQueued' /\ FlagIsExact'
  BY <1>1 DEF IInv, Types, NothingQueued, FlagIsExact, history
<1>3. ASSUME NEW k \in Keys
      PROVE  /\ Shown(db, now + 1, k) = Shown(db, now, k) \/ k \in Lapsed(db, now + 1)
             /\ k \in Lapsed(db, now) => k \in Lapsed(db, now + 1)
  <2>1. db.expires[k] \in Int \cup {Never}
    BY WideAssumption DEF IInv, Types, DbInv, Db, Deadlines
  <2> QED BY <1>1, <2>1, MarkersAssumption DEF Shown, Visible, Lapsed, HasExpired
<1>4. UnflaggedIsCurrent'
  <2> SUFFICES ASSUME NEW c \in Clients \ cas, NEW k \in watched[c]
               PROVE  \/ Shown(db, now + 1, k) = seen[c][k]
                      \/ k \in moved[c]
                      \/ k \in Lapsed(db, now + 1)
    BY <1>1 DEF UnflaggedIsCurrent, history
  <2>1. k \in Keys
    BY DEF IInv, Types
  <2> QED BY <1>3, <2>1 DEF IInv, UnflaggedIsCurrent
<1> QED BY <1>2, <1>4 DEF IInv

\* The first state satisfies the invariant.
LEMMA InitOK == Init => IInv
<1> SUFFICES ASSUME Init PROVE IInv
  OBVIOUS
<1>1. Idle \in [client : Clients \cup {NoClient}, batch : Seq(Cmds)]
  BY DEF Idle
<1>2. DbInv(db)
  BY RestoredOK DEF Init
<1>3. Types
  BY <1>1, <1>2, ClockAssumption DEF Init, Types
<1>4. NothingQueued /\ FlagIsExact /\ UnflaggedIsCurrent
  BY DEF Init, NothingQueued, FlagIsExact, UnflaggedIsCurrent
<1> QED BY <1>3, <1>4 DEF IInv

\* Every command of a client, every step of an EXEC, the cron and the clock keep
\* the invariant.
LEMMA StepOK == IInv /\ [Next]_vars => IInv'
<1> SUFFICES ASSUME IInv, [Next]_vars PROVE IInv'
  OBVIOUS
<1> DEFINE ExecType == [client : Clients \cup {NoClient}, batch : Seq(Cmds)]
<1>0. exec \in ExecType /\ Idle \in ExecType
  BY DEF IInv, Types, Idle
<1>1. ASSUME NEW c \in Clients, NEW cmd \in Cmds, Respond(c, cmd)
      PROVE  IInv'
  BY <1>0, <1>1, ExecuteOK DEF Respond
<1>2. ASSUME NEW c \in Clients, NEW cmd \in Cmds, QueueCommand(c, cmd)
      PROVE  IInv'
  <2>1. /\ c \in multi /\ queue' = [queue EXCEPT ![c] = Append(@, cmd)]
        /\ UNCHANGED <<db, now, multi, cas, aborted, watched, exec, history>>
    BY <1>2 DEF QueueCommand
  <2>2. queue' \in [Clients -> Seq(Cmds)]
    BY <2>1 DEF IInv, Types
  <2>3. Types'
    BY <2>1, <2>2 DEF IInv, Types, history
  <2>4. NothingQueued'
    BY <2>1 DEF IInv, Types, NothingQueued
  <2>5. FlagIsExact' /\ UnflaggedIsCurrent'
    BY <2>1, WatchesKept
  <2> QED BY <2>3, <2>4, <2>5 DEF IInv
<1>3. ASSUME NEW c \in Clients, AbortMulti(c)
      PROVE  IInv'
  <2>1. /\ c \in multi /\ aborted' = aborted \cup {c}
        /\ UNCHANGED <<db, now, multi, cas, queue, watched, exec, history>>
    BY <1>3 DEF AbortMulti
  <2>2. Types' /\ NothingQueued'
    BY <2>1 DEF IInv, Types, NothingQueued, history
  <2>3. FlagIsExact' /\ UnflaggedIsCurrent'
    BY <2>1, WatchesKept
  <2> QED BY <2>2, <2>3 DEF IInv
<1>4. ASSUME NEW c \in Clients, ExecRefused(c)
      PROVE  IInv'
  <2>1. /\ UnwatchAllKeys(c) /\ ResetMultiState(c) /\ multi' = multi \ {c}
        /\ cas' = cas \ {c} /\ leftover' = leftover \ {c}
        /\ UNCHANGED <<db, now, exec>>
    BY <1>4 DEF ExecRefused
  <2> QED BY <2>1, UnwatchOK, ResetOK DEF IInv, Types
<1>5. ASSUME NEW c \in Clients, ExecEmpty(c)
      PROVE  IInv'
  <2>1. /\ queue[c] = <<>> /\ c \notin aborted /\ multi' = multi \ {c}
        /\ UNCHANGED <<db, now, cas, aborted, queue, watched, exec, history>>
    BY <1>5 DEF ExecEmpty
  <2>2. Types' /\ NothingQueued'
    BY <2>1 DEF IInv, Types, NothingQueued, history
  <2>3. FlagIsExact' /\ UnflaggedIsCurrent'
    BY <2>1, WatchesKept
  <2> QED BY <2>2, <2>3 DEF IInv
<1>6. ASSUME NEW c \in Clients, ExecStart(c)
      PROVE  IInv'
  <2>1. exec' \in ExecType /\ UNCHANGED <<db, now, multi, cas, aborted, queue, watched, history>>
    BY <1>6 DEF ExecStart, flags, IInv, Types
  <2>2. FlagIsExact' /\ UnflaggedIsCurrent'
    BY <2>1, WatchesKept
  <2> QED BY <2>1, <2>2 DEF IInv, Types, NothingQueued, history
<1>7. ASSUME NEW c \in Clients, ExecStep(c)
      PROVE  IInv'
  <2>1. /\ exec.batch \in Seq(Cmds) /\ exec.batch # <<>>
        /\ Execute(c, Head(exec.batch)) /\ exec' = [exec EXCEPT !.batch = Tail(@)]
    BY <1>0, <1>7 DEF ExecStep
  <2>2. Head(exec.batch) \in Cmds /\ Tail(exec.batch) \in Seq(Cmds)
    BY <2>1
  <2>3. exec' \in ExecType
    BY <1>0, <2>1, <2>2
  <2> QED BY <2>1, <2>2, <2>3, ExecuteOK
<1>8. ASSUME NEW c \in Clients, ExecEnd(c)
      PROVE  IInv'
  <2>1. /\ UnwatchAllKeys(c) /\ ResetMultiState(c) /\ multi' = multi \ {c}
        /\ leftover' = leftover \cup ({c} \cap cas) /\ exec' = Idle
        /\ UNCHANGED <<db, now, cas>>
    BY <1>8 DEF ExecEnd
  <2> QED BY <1>0, <2>1, UnwatchOK, ResetOK DEF IInv, Types
<1>9. ASSUME NEW c \in Clients, Discard(c)
      PROVE  IInv'
  <2>1. /\ UnwatchAllKeys(c) /\ ResetMultiState(c) /\ multi' = multi \ {c}
        /\ leftover' = leftover \cup ({c} \cap cas)
        /\ UNCHANGED <<db, now, cas, exec>>
    BY <1>9 DEF Discard
  <2> QED BY <2>1, UnwatchOK, ResetOK DEF IInv, Types
<1>10. CASE Cron
  <2>1. PICK d \in Reaps(Before, now) : Becomes(d, {}) /\ UNCHANGED <<multi, aborted, queue, exec>>
    BY <1>10 DEF Cron
  <2>2. DbInv(d) /\ Told(Before, d)
    BY BeforeOK, ReapsOK, ReapsTell DEF DbInv
  <2>3. Quiet(db, d, now, {})
    BY <2>2, BeforeOK, ToldIsQuiet
  <2> QED BY <1>0, <2>1, <2>2, <2>3, BecomesOK
<1>11. CASE Tick
  BY <1>11, TickOK
<1>12. CASE UNCHANGED vars
  <2>1. UNCHANGED <<db, now, multi, cas, aborted, queue, watched, exec, history>>
    BY <1>12 DEF vars, flags
  <2>2. FlagIsExact' /\ UnflaggedIsCurrent'
    BY <2>1, WatchesKept
  <2> QED BY <2>1, <2>2 DEF IInv, Types, NothingQueued, history
<1> QED
  BY <1>1, <1>2, <1>3, <1>4, <1>5, <1>6, <1>7, <1>8, <1>9, <1>10, <1>11, <1>12 DEF Next

LEMMA InvariantHolds == Spec => []IInv
  BY InitOK, StepOK, PTL DEF Spec

\* A command that was queued, and an abort, belong to the transaction they were
\* sent in: whichever way it ends, nothing is carried into the next one.
THEOREM TransactionsStartClean == Spec => []NothingCarriedOver
<1>1. IInv => NothingCarriedOver
  BY DEF IInv, Types, NothingQueued, NothingCarriedOver, TypeOK, DbInv
<1> QED BY <1>1, InvariantHolds, PTL

\* TouchWatchedKeys loses no signal, and flags nobody without one, whoever writes
\* what in whatever order: EXEC is refused exactly for a signal or a leftover flag.
THEOREM FlagsAreExact == Spec => []FlagIsExact
<1>1. IInv => FlagIsExact
  BY DEF IInv
<1> QED BY <1>1, InvariantHolds, PTL

\* Optimistic locking works: what an unflagged client reads at the keys it watches is
\* what it read when it began to watch them, but for changes in place and deadlines
\* that nobody has noticed.
THEOREM OptimisticLocking == Spec => []UnflaggedIsCurrent
<1>1. IInv => UnflaggedIsCurrent
  BY DEF IInv
<1> QED BY <1>1, InvariantHolds, PTL
=============================================================================
