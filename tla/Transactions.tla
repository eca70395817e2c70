---------------------------- MODULE Transactions ----------------------------
(***************************************************************************)
(* MULTI, EXEC, DISCARD and WATCH (internal/store/tx_cmd.go), the queueing *)
(* in front of them (respond, internal/server/redis_cmd.go) and the        *)
(* signals that connect them with the key space (TouchWatchedKeys).        *)
(*                                                                         *)
(* One thread runs every command and the cron.  The commands of an EXEC    *)
(* are steps of their own: until the last of them is done the thread does  *)
(* nothing else.                                                           *)
(***************************************************************************)
EXTENDS KeyspaceOps, Sequences

CONSTANTS
  Clients,
  NoClient,
  Cmds,         \* the commands clients send, as records of Command
  StartTime,
  MaxTime,      \* bound on the clock
  MaxQueue      \* bound on the commands a client queues

\* PUSH stands for the commands that change an existing value in place and create
\* an absent one: LPUSH, RPUSH, INCR, SADD, ZADD, GEOADD.  BF.RESERVE is a SET.
Ops == {"SET", "PUSH", "GET", "EXPIRE", "DEL", "WATCH", "MULTI"}

Command == [op : Ops, key : Keys, obj : Objs, ttl : Int]

ASSUME ClientsAssumption == NoClient \notin Clients
ASSUME CmdsAssumption    == Cmds \subseteq Command
ASSUME ClockAssumption   == StartTime \in Nat /\ MaxTime \in Nat

VARIABLES
  db, now,      \* the key space and the clock
  multi,        \* clients with MULTI_MODE
  cas,          \* clients with CLIENT_CAS
  aborted,      \* clients whose multistate is aborted
  queue,        \* multistate.cmds of each client
  watched,      \* watchedKeys, turned around: the keys each client watches
  exec          \* the EXEC the thread is in: its client and what is left to run

\* History, read by no action: what a client saw when it began to watch a key,
\* the watched keys that were signalled since, those that were changed in place
\* since, and the clients that kept CLIENT_CAS when their watches ended.
VARIABLES seen, told, moved, leftover

flags   == <<multi, cas, aborted, queue>>
history == <<seen, told, moved, leftover>>
vars    == <<db, now, flags, watched, exec, history>>

Idle == [client |-> NoClient, batch |-> <<>>]

Init ==
  /\ db \in Restorations(Objs, Deadlines) /\ now = StartTime
  /\ multi = {} /\ cas = {} /\ aborted = {}
  /\ queue = [c \in Clients |-> <<>>]
  /\ watched = [c \in Clients |-> {}]
  /\ exec = Idle
  /\ seen = [c \in Clients |-> [k \in Keys |-> NoObj]]
  /\ told = [c \in Clients |-> {}]
  /\ moved = [c \in Clients |-> {}]
  /\ leftover = {}

\* What a client reads at k.
Shown(d, t, k) == IF k \in Visible(d, t) THEN d.store[k] ELSE NoObj

Before == [db EXCEPT !.sig = {}]

(***************************************************************************)
(* SignalModifiedKey = TouchWatchedKeys: every watcher of a signalled key  *)
(* gets CLIENT_CAS, the client that writes no less than the others.        *)
(***************************************************************************)
\* Fault: the loop stops at the first watcher.
WatchersFirst(sig) ==
  LET all == {c \in Clients : watched[c] \cap sig # {}}
  IN  IF all = {} THEN {} ELSE {CHOOSE c \in all : TRUE}

Watchers(sig) == {c \in Clients : watched[c] \cap sig # {}}

\* The key space becomes d; `inPlace` are the keys the step changed in place.
Becomes(d, inPlace) ==
  /\ db' = d
  /\ cas' = cas \cup Watchers(d.sig)
  /\ told' = [c \in Clients |-> told[c] \cup (watched[c] \cap d.sig)]
  /\ moved' = [c \in Clients |-> moved[c] \cup (watched[c] \cap inPlace)]
  /\ UNCHANGED <<now, watched, seen, leftover>>

\* The key spaces a data command may leave behind.
Outcomes(d, cmd, t) ==
  LET e == Get(d, cmd.key, t)
  IN  CASE cmd.op = "SET"    -> Puts(d, cmd.key, cmd.obj, cmd.ttl, t)
        [] cmd.op = "DEL"    -> {Del(d, {cmd.key})}
        [] cmd.op = "GET"    -> {e}
        [] cmd.op = "EXPIRE" -> {IF cmd.key \in Present(e) THEN SetExpiry(e, cmd.key, cmd.ttl, t) ELSE e}
        [] cmd.op = "PUSH"   -> IF cmd.key \in Present(e)
                                THEN {[e EXCEPT !.store[cmd.key] = cmd.obj]}
                                ELSE Puts(e, cmd.key, cmd.obj, -1, t)

DataOps == Ops \ {"WATCH", "MULTI"}

Data(cmd) ==
  /\ cmd.op \in DataOps
  /\ \E d \in Outcomes(Before, cmd, now) :
       Becomes(d, IF cmd.op = "PUSH" THEN {cmd.key} ELSE {})
  /\ UNCHANGED <<multi, aborted, queue>>

ResetMultiState(c) ==
  /\ queue' = [queue EXCEPT ![c] = <<>>]
  /\ aborted' = aborted \ {c}

UnwatchAllKeys(c) ==
  /\ watched' = [watched EXCEPT ![c] = {}]
  /\ seen' = [seen EXCEPT ![c] = [k \in Keys |-> NoObj]]
  /\ told' = [told EXCEPT ![c] = {}]
  /\ moved' = [moved EXCEPT ![c] = {}]

Multi(c) ==
  /\ multi' = multi \cup {c}
  /\ ResetMultiState(c)
  /\ UNCHANGED <<db, now, cas, watched, history>>

\* WATCH inside MULTI, which only an EXEC can get to, is refused.
Watch(c, k) ==
  /\ IF c \in multi
     THEN UNCHANGED <<watched, seen>>
     ELSE /\ watched' = [watched EXCEPT ![c] = @ \cup {k}]
          /\ seen' = IF k \in watched[c] THEN seen ELSE [seen EXCEPT ![c][k] = Shown(db, now, k)]
  /\ UNCHANGED <<db, now, flags, told, moved, leftover>>

\* cmdImpl.Execute of a command that is neither EXEC nor DISCARD.
Execute(c, cmd) ==
  \/ Data(cmd)
  \/ cmd.op = "MULTI" /\ Multi(c)
  \/ cmd.op = "WATCH" /\ Watch(c, cmd.key)

-----------------------------------------------------------------------------
\* The thread is free to take a command from a client (respond).
Respond(c, cmd) ==
  /\ exec = Idle
  /\ c \notin multi
  /\ Execute(c, cmd)
  /\ UNCHANGED exec

QueueCommand(c, cmd) ==
  /\ exec = Idle
  /\ c \in multi
  /\ Len(queue[c]) < MaxQueue
  /\ queue' = [queue EXCEPT ![c] = Append(@, cmd)]
  /\ UNCHANGED <<db, now, multi, cas, aborted, watched, exec, history>>

\* A command that Lookup does not know, while in MULTI mode.
AbortMulti(c) ==
  /\ exec = Idle
  /\ c \in multi
  /\ aborted' = aborted \cup {c}
  /\ UNCHANGED <<db, now, multi, cas, queue, watched, exec, history>>

\* Fault: the refused transaction stays queued.
ExecRefusedKeeping(c) ==
  /\ exec = Idle
  /\ c \in multi
  /\ c \in cas \cup aborted
  /\ UnwatchAllKeys(c)
  /\ multi' = multi \ {c}
  /\ cas' = cas \ {c}
  /\ leftover' = leftover \ {c}
  /\ UNCHANGED <<db, now, exec, queue, aborted>>

ExecRefused(c) ==
  /\ exec = Idle
  /\ c \in multi
  /\ c \in cas \cup aborted
  /\ UnwatchAllKeys(c)
  /\ ResetMultiState(c)
  /\ multi' = multi \ {c}
  /\ cas' = cas \ {c}
  /\ leftover' = leftover \ {c}
  /\ UNCHANGED <<db, now, exec>>

\* An empty transaction ends without ending the watches.
ExecEmpty(c) ==
  /\ exec = Idle
  /\ c \in multi \ (cas \cup aborted)
  /\ queue[c] = <<>>
  /\ multi' = multi \ {c}
  /\ UNCHANGED <<db, now, cas, aborted, queue, watched, exec, history>>

ExecStart(c) ==
  /\ exec = Idle
  /\ c \in multi \ (cas \cup aborted)
  /\ queue[c] # <<>>
  /\ exec' = [client |-> c, batch |-> queue[c]]
  /\ UNCHANGED <<db, now, flags, watched, history>>

\* One command of the batch.  The batch was taken when EXEC began: a MULTI in
\* it clears the client's queue, not the batch.
ExecStep(c) ==
  /\ exec.client = c
  /\ exec.batch # <<>>
  /\ Execute(c, Head(exec.batch))
  /\ exec' = [exec EXCEPT !.batch = Tail(@)]

\* The watches end; CLIENT_CAS, which the transaction's own writes may have
\* set, stays.
ExecEnd(c) ==
  /\ exec.client = c
  /\ exec.batch = <<>>
  /\ exec' = Idle
  /\ UnwatchAllKeys(c)
  /\ ResetMultiState(c)
  /\ multi' = multi \ {c}
  /\ leftover' = leftover \cup ({c} \cap cas)
  /\ UNCHANGED <<db, now, cas>>

Discard(c) ==
  /\ exec = Idle
  /\ c \in multi
  /\ UnwatchAllKeys(c)
  /\ ResetMultiState(c)
  /\ multi' = multi \ {c}
  /\ leftover' = leftover \cup ({c} \cap cas)
  /\ UNCHANGED <<db, now, cas, exec>>

Cron ==
  /\ exec = Idle
  /\ \E d \in Reaps(Before, now) : Becomes(d, {})
  /\ UNCHANGED <<multi, aborted, queue, exec>>

Tick ==
  /\ now < MaxTime
  /\ now' = now + 1
  /\ UNCHANGED <<db, flags, watched, exec, history>>

Next ==
  \/ \E c \in Clients :
       \/ \E cmd \in Cmds : Respond(c, cmd) \/ QueueCommand(c, cmd)
       \/ AbortMulti(c) \/ ExecRefused(c) \/ ExecEmpty(c)
       \/ ExecStart(c) \/ ExecStep(c) \/ ExecEnd(c)
       \/ Discard(c)
  \/ Cron
  \/ Tick

Spec == Init /\ [][Next]_vars

-----------------------------------------------------------------------------
\* The state has its type.
TypeOK ==
  /\ db \in Db /\ now \in Nat
  /\ multi \subseteq Clients /\ cas \subseteq Clients /\ aborted \subseteq Clients
  /\ queue \in [Clients -> Seq(Cmds)]
  /\ watched \in [Clients -> SUBSET Keys]
  /\ exec.client \in Clients \cup {NoClient} /\ exec.batch \in Seq(Cmds)

\* Outside MULTI a client has nothing queued and nothing aborted: a command is
\* never carried into a later transaction (ResetMultiState on every way out).
NothingCarriedOver ==
  /\ TypeOK
  /\ \A c \in Clients \ multi : queue[c] = <<>> /\ c \notin aborted

\* A signal is never lost, and a transaction is refused for a reason: a client has
\* CLIENT_CAS if a key it still watches was signalled since it began to watch it, and
\* otherwise only if the flag is left over from a transaction that ran or was
\* discarded (ExecCmd and DiscardCmd do not clear it).
FlagIsExact ==
  \A c \in Clients :
    /\ told[c] # {} => c \in cas
    /\ c \in cas => told[c] # {} \/ c \in leftover

\* Optimistic locking: a client without CLIENT_CAS reads at each key it watches
\* what it read when it began to watch it, unless the value was changed in place
\* (which signals nobody) or its deadline came and nobody has noticed yet.
UnflaggedIsCurrent ==
  \A c \in Clients \ cas : \A k \in watched[c] :
    \/ Shown(db, now, k) = seen[c][k]
    \/ k \in moved[c]
    \/ k \in Lapsed(db, now)

=============================================================================
