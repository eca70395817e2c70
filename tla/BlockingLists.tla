---------------------------- MODULE BlockingLists ----------------------------
(***************************************************************************)
(* BLPOP: clients that wait for a list to get an element.                  *)
(*                                                                         *)
(* The pieces are spread over the server: BLPOP and the list commands      *)
(* (internal/store), BlockOn, MarkReady, processKeys, HandleBlockedClients *)
(* (internal/server) and the event loop that runs them in a fixed order:   *)
(* commands, then timers, then, before it sleeps, the keys that became     *)
(* ready.  A list is its length here.                                      *)
(***************************************************************************)
EXTENDS Integers, Sequences, FiniteSets

CONSTANTS
  Keys, Clients, NoClient,
  Absent,       \* a key that is not in the store
  Str,          \* a key that holds a string
  Cmds,         \* the commands clients send, as records of Command
  MaxLen,       \* bound on the length of a list
  MaxWait,      \* bound on the length of a queue of waiters
  MaxTime       \* bound on the clock

\* n: the elements PUSH adds and LPOP takes, the timeout of BLPOP.
Ops == {"PUSH", "LPOP", "BLPOP", "SET", "DEL"}
Command == [op : Ops, key : Keys, n : Nat]

ASSUME ClientsAssumption == NoClient \notin Clients
ASSUME CmdsAssumption    == Cmds \subseteq Command /\ \A cmd \in Cmds : cmd.op \in {"PUSH", "LPOP"} => cmd.n > 0
ASSUME MarkersAssumption == Absent \notin Nat /\ Str \notin Nat /\ Absent # Str
ASSUME BoundsAssumption  == MaxLen \in Nat /\ MaxWait \in Nat /\ MaxTime \in Nat

VARIABLES
  list,         \* what each key holds: Absent, Str, or the length of a list
  waiting,      \* waitingKeys: the queue of clients of each key
  ready,        \* readyKeys
  blocked,      \* clients with CLIENT_BLOCKED
  when,         \* Client.when: the deadline, 0 for the zero time
  now,
  phase,        \* what the event loop is doing: "files", "timers", "serve"
  cursor,       \* where HandleBlockedClients is: keys left, key, position
  exec,         \* the EXEC in progress: its client and the commands left
  crashed       \* a type assertion panicked

\* History, read by no action: clients that were queued more than once at a
\* time, keys that processKeys left with both elements and waiters, and ready
\* keys that lost elements to a command.
VARIABLES twice, skipped, drained

loop    == <<phase, cursor, exec, crashed>>
history == <<twice, skipped, drained>>
vars    == <<list, waiting, ready, blocked, when, now, loop, history>>

NoExec   == [client |-> NoClient, batch |-> <<>>]
NoCursor == [left |-> {}, key |-> Absent, pos |-> 1]

Init ==
  /\ list = [k \in Keys |-> Absent]
  /\ waiting = [k \in Keys |-> <<>>]
  /\ ready = {} /\ blocked = {}
  /\ when = [c \in Clients |-> 0]
  /\ now = 1
  /\ phase = "files" /\ cursor = NoCursor /\ exec = NoExec /\ crashed = FALSE
  /\ twice = {} /\ skipped = {} /\ drained = {}

InQueue(c, q) == \E i \in 1..Len(q) : q[i] = c
Queued(c)  == \E k \in Keys : InQueue(c, waiting[k])
HasElem(k) == list[k] \in Nat /\ list[k] > 0

Panic == crashed' = TRUE /\ UNCHANGED <<list, waiting, ready, blocked, when, now, phase, cursor, history>>

Calm == UNCHANGED <<now, phase, cursor, crashed>>

\* Elements are taken from k, or k is overwritten or deleted.
Shrinks(k, content) ==
  /\ list' = [list EXCEPT ![k] = content]
  /\ drained' = drained \cup (ready \cap {k})
  /\ skipped' = IF content \in Nat /\ content > 0 THEN skipped ELSE skipped \ {k}

-----------------------------------------------------------------------------
\* The commands (the clock moves only while the loop waits).

\* Fault: a push to a list of one still makes its key ready, to an empty one not.
MarkReadyLate(k, oldLen) == IF oldLen = 1 /\ waiting[k] # <<>> THEN ready \cup {k} ELSE ready

\* MarkReady, called if the list was empty before the push.
MarkReady(k, oldLen) == IF oldLen = 0 /\ waiting[k] # <<>> THEN ready \cup {k} ELSE ready

Push(k, n) ==
  LET oldLen == IF list[k] = Absent THEN 0 ELSE list[k]
  IN  IF list[k] = Str
      THEN UNCHANGED <<list, waiting, ready, blocked, when, history>> /\ Calm   \* wrong type
      ELSE /\ oldLen + n <= MaxLen
           /\ list' = [list EXCEPT ![k] = oldLen + n]
           /\ ready' = MarkReady(k, oldLen)
           /\ drained' = IF oldLen = 0 THEN drained \ {k} ELSE drained
           /\ UNCHANGED <<waiting, blocked, when, twice, skipped>>
           /\ Calm

\* LPOP does not look at the type: on a string the assertion panics.
Lpop(k, n) ==
  \/ list[k] = Str /\ Panic
  \/ /\ list[k] \in {Absent, 0}
     /\ UNCHANGED <<list, waiting, ready, blocked, when, history>> /\ Calm
  \/ /\ HasElem(k)
     /\ Shrinks(k, IF n > list[k] THEN 0 ELSE list[k] - n)
     /\ UNCHANGED <<waiting, ready, blocked, when, twice>> /\ Calm

\* Fault: the client waits without being marked.
BlockOnUnmarked(c, k, t) ==
  /\ Len(waiting[k]) < MaxWait
  /\ waiting' = [waiting EXCEPT ![k] = Append(@, c)]
  /\ blocked' = blocked
  /\ when' = [when EXCEPT ![c] = IF t > 0 THEN now + t ELSE 0]
  /\ twice' = IF Queued(c) THEN twice \cup {c} ELSE twice
  /\ UNCHANGED <<list, ready, skipped, drained>> /\ Calm

BlockOn(c, k, t) ==
  /\ Len(waiting[k]) < MaxWait
  /\ waiting' = [waiting EXCEPT ![k] = Append(@, c)]
  /\ blocked' = blocked \cup {c}
  /\ when' = [when EXCEPT ![c] = IF t > 0 THEN now + t ELSE 0]
  /\ twice' = IF Queued(c) THEN twice \cup {c} ELSE twice
  /\ UNCHANGED <<list, ready, skipped, drained>> /\ Calm

Blpop(c, k, t) ==
  \/ list[k] \in {Absent, 0} /\ BlockOn(c, k, t)
  \/ ~ (list[k] \in {Absent, 0}) /\ Lpop(k, 1)     \* on a string IsEmpty panics

Overwrite(k, content) ==
  /\ Shrinks(k, content)
  /\ UNCHANGED <<waiting, ready, blocked, when, twice>> /\ Calm

\* DEL stands for every way a list is deleted.
Execute(c, cmd) ==
  \/ cmd.op = "PUSH"  /\ Push(cmd.key, cmd.n)
  \/ cmd.op = "LPOP"  /\ Lpop(cmd.key, cmd.n)
  \/ cmd.op = "BLPOP" /\ Blpop(c, cmd.key, cmd.n)
  \/ cmd.op = "SET"   /\ Overwrite(cmd.key, Str)
  \/ cmd.op = "DEL"   /\ Overwrite(cmd.key, Absent)

\* A file event: one command of a client that is not blocked (a blocked one is
\* not even read).
Respond(c, cmd) ==
  /\ ~crashed /\ phase = "files" /\ exec = NoExec
  /\ c \notin blocked
  /\ Execute(c, cmd)
  /\ UNCHANGED exec

\* EXEC of two queued commands.  Its loop does not look at CLIENT_BLOCKED: the
\* client of a BLPOP that blocked goes on, and may block a second time.
ExecStart(c, cmd1, cmd2) ==
  /\ ~crashed /\ phase = "files" /\ exec = NoExec
  /\ c \notin blocked
  /\ exec' = [client |-> c, batch |-> <<cmd1, cmd2>>]
  /\ UNCHANGED <<list, waiting, ready, blocked, when, now, phase, cursor, crashed, history>>

\* The bounds may stand in the way of a command: then it is skipped.
CanRun(cmd) ==
  /\ cmd.op = "PUSH" /\ list[cmd.key] \in Nat => list[cmd.key] + cmd.n <= MaxLen
  /\ cmd.op = "BLPOP" /\ list[cmd.key] \in {Absent, 0} => Len(waiting[cmd.key]) < MaxWait

ExecStep ==
  /\ ~crashed /\ exec # NoExec
  /\ IF CanRun(Head(exec.batch))
     THEN Execute(exec.client, Head(exec.batch))
     ELSE UNCHANGED <<list, waiting, ready, blocked, when, now, phase, cursor, crashed, history>>
  /\ exec' = IF Len(exec.batch) = 1 THEN NoExec ELSE [exec EXCEPT !.batch = Tail(@)]

Tick ==
  /\ ~crashed /\ phase = "files" /\ exec = NoExec
  /\ now < MaxTime
  /\ now' = now + 1
  /\ UNCHANGED <<list, waiting, ready, blocked, when, loop, history>>

-----------------------------------------------------------------------------
\* processTimeEvents: HandleBlockedClients, if its 100 ms are over.
TimersSkip ==
  /\ ~crashed /\ phase = "files" /\ exec = NoExec
  /\ phase' = "serve"
  /\ UNCHANGED <<list, waiting, ready, blocked, when, now, cursor, exec, crashed, history>>

TimersStart ==
  /\ ~crashed /\ phase = "files" /\ exec = NoExec
  /\ phase' = "timers"
  /\ cursor' = [NoCursor EXCEPT !.left = {k \in Keys : waiting[k] # <<>>}]
  /\ UNCHANGED <<list, waiting, ready, blocked, when, now, exec, crashed, history>>

\* Fault: the first waiter of every key is passed over.
SweepKeySecond(k) ==
  /\ phase = "timers" /\ cursor.key = Absent
  /\ k \in cursor.left
  /\ cursor' = [left |-> cursor.left \ {k}, key |-> k, pos |-> 2]
  /\ UNCHANGED <<list, waiting, ready, blocked, when, now, phase, exec, crashed, history>>

\* The map is walked in any order.
SweepKey(k) ==
  /\ phase = "timers" /\ cursor.key = Absent
  /\ k \in cursor.left
  /\ cursor' = [left |-> cursor.left \ {k}, key |-> k, pos |-> 1]
  /\ UNCHANGED <<list, waiting, ready, blocked, when, now, phase, exec, crashed, history>>

TimedOut(c) == when[c] # 0 /\ now > when[c]

\* Fault: the client stays marked.
FreedMarked(c) == blocked' = blocked /\ when' = [when EXCEPT ![c] = 0]

\* A waiter is no longer blocked and has no deadline.
Freed(c) == blocked' = blocked \ {c} /\ when' = [when EXCEPT ![c] = 0]

RemoveAt(q, i) == SubSeq(q, 1, i - 1) \o SubSeq(q, i + 1, Len(q))

\* One waiter of the key under the cursor.  A second occurrence of a client
\* that was just timed out has a zero deadline by now, and stays.
SweepWaiter ==
  LET k == cursor.key
      c == waiting[k][cursor.pos]
  IN  /\ phase = "timers" /\ k # Absent
      /\ cursor.pos <= Len(waiting[k])
      /\ IF TimedOut(c)
         THEN /\ waiting' = [waiting EXCEPT ![k] = RemoveAt(@, cursor.pos)]
              /\ Freed(c)
              /\ UNCHANGED cursor
         ELSE /\ cursor' = [cursor EXCEPT !.pos = @ + 1]
              /\ UNCHANGED <<waiting, blocked, when>>
      /\ UNCHANGED <<list, ready, now, phase, exec, crashed, history>>

SweepNext ==
  /\ phase = "timers" /\ cursor.key # Absent
  /\ cursor.pos > Len(waiting[cursor.key])
  /\ cursor' = [cursor EXCEPT !.key = Absent, !.pos = 1]
  /\ UNCHANGED <<list, waiting, ready, blocked, when, now, phase, exec, crashed, history>>

SweepEnd ==
  /\ phase = "timers" /\ cursor = NoCursor
  /\ phase' = "serve"
  /\ UNCHANGED <<list, waiting, ready, blocked, when, now, cursor, exec, crashed, history>>

-----------------------------------------------------------------------------
\* beforeSleep: processKeys.

\* Fault: the key stays ready.
SettledNot(k) == ready' = ready /\ drained' = drained \ {k}

\* The key is ready no more.
Settled(k) == ready' = ready \ {k} /\ drained' = drained \ {k}

\* A ready key whose waiters are gone.
Unready(k) ==
  /\ ~crashed /\ phase = "serve" /\ k \in ready
  /\ waiting[k] = <<>>
  /\ Settled(k)
  /\ UNCHANGED <<list, waiting, blocked, when, now, loop, twice, skipped>>

ServePanic(k) ==
  /\ ~crashed /\ phase = "serve" /\ k \in ready
  /\ waiting[k] # <<>> /\ list[k] = Str
  /\ Panic /\ UNCHANGED exec

\* The head of the queue, and no other waiter, gets what LPOP finds: an element,
\* or nil if a command was faster.
Serve(k) ==
  LET c == Head(waiting[k])
      rest == IF HasElem(k) THEN list[k] - 1 ELSE list[k]
  IN  /\ ~crashed /\ phase = "serve" /\ k \in ready
      /\ waiting[k] # <<>> /\ list[k] # Str
      /\ list' = [list EXCEPT ![k] = rest]
      /\ waiting' = [waiting EXCEPT ![k] = Tail(@)]
      /\ Freed(c) /\ Settled(k)
      /\ skipped' = IF HasElem(k) /\ rest > 0 /\ Len(waiting[k]) > 1
                    THEN skipped \cup {k} ELSE IF rest \in {Absent, 0} THEN skipped \ {k} ELSE skipped
      /\ UNCHANGED <<now, loop, twice>>

\* EpollWait.
Sleep ==
  /\ ~crashed /\ phase = "serve" /\ ready = {}
  /\ phase' = "files"
  /\ UNCHANGED <<list, waiting, ready, blocked, when, now, cursor, exec, crashed, history>>

Timers == TimersStart \/ (\E k \in Keys : SweepKey(k)) \/ SweepWaiter \/ SweepNext \/ SweepEnd
Process == \E k \in Keys : Unready(k) \/ Serve(k) \/ ServePanic(k)

Next ==
  \/ \E c \in Clients :
       \/ \E cmd \in Cmds : Respond(c, cmd)
       \/ \E cmd1, cmd2 \in Cmds : ExecStart(c, cmd1, cmd2)
  \/ ExecStep \/ Tick
  \/ TimersSkip \/ Timers
  \/ Process \/ Sleep

Spec == Init /\ [][Next]_vars

(***************************************************************************)
(* The loop never stops: EpollWait returns finitely many events, so the    *)
(* commands of one round end, and the timer that is due every 100 ms fires *)
(* again and again, in the rounds after it is due.  Nothing makes a client *)
(* send a command or the clock reach a given time.                         *)
(***************************************************************************)
Fairness ==
  /\ WF_vars(ExecStep) /\ WF_vars(Process) /\ WF_vars(Sleep)
  /\ SF_vars(TimersSkip \/ TimersStart) /\ SF_vars(TimersStart)
  /\ WF_vars((\E k \in Keys : SweepKey(k)) \/ SweepWaiter \/ SweepNext \/ SweepEnd)

FairSpec == Spec /\ Fairness

-----------------------------------------------------------------------------
\* The state has its type.
TypeOK ==
  /\ list \in [Keys -> Nat \cup {Absent, Str}]
  /\ waiting \in [Keys -> Seq(Clients)]
  /\ ready \subseteq Keys /\ blocked \subseteq Clients
  /\ when \in [Clients -> Nat] /\ now \in Nat
  /\ phase \in {"files", "timers", "serve"}
  /\ cursor.left \subseteq Keys /\ cursor.key \in Keys \cup {Absent} /\ cursor.pos \in Nat \ {0}
  /\ exec.client \in Clients \cup {NoClient} /\ exec.batch \in Seq(Cmds)
  /\ crashed \in BOOLEAN
  /\ twice \subseteq Clients /\ skipped \subseteq Keys /\ drained \subseteq Keys

\* A blocked client is in a queue, so that a push or a timeout can still free
\* it: otherwise it would never be read again.
BlockedIsQueued == TypeOK /\ \A c \in blocked : Queued(c)

\* Only a client whose EXEC blocked it more than once can be in a queue without
\* being blocked, and swallow an element it no longer waits for.
WaiterIsBlocked ==
  \A c \in Clients : Queued(c) => c \in blocked \/ c \in twice

\* No wake-up is lost between a push and the service: clients wait at a list
\* with elements only while the key is marked ready, or after processKeys served
\* the first of them and left the others to the next push to an empty list.
WakeUpIsPending ==
  \A k \in Keys : waiting[k] # <<>> /\ HasElem(k) => k \in ready \/ k \in skipped

\* A waiter that is served before its time gets an element, unless a command
\* took or deleted it between the push and the service.
ReadyHasElement == \A k \in ready : HasElem(k) \/ k \in drained

\* A waiter whose time is over is freed.
TimeoutIsAnswered == \A c \in Clients : TimedOut(c) ~> (~ TimedOut(c) \/ crashed)
=============================================================================
