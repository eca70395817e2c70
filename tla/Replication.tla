----------------------------- MODULE Replication -----------------------------
(***************************************************************************)
(* Servers that follow one another (server/master.go, REPLICAOF and REPLICA *)
(* in redis_cmd.go, the head of beforeSleep): what each executes, queues    *)
(* and streams, over connections that break and descriptors that the       *)
(* kernel hands out again.                                                 *)
(*                                                                         *)
(* A server queues the commands it executes while it has no master, and    *)
(* sends the queue to its replicas once it has one: MasterFD is never      *)
(* reset, so that a server streams at most once in its life.  REPLICAOF    *)
(* blocks the whole server until the master answers.  A replica whose      *)
(* connection ended stays in `replicas`; a failed write to it closes the   *)
(* descriptor, whoever has it, behind the back of the event loop.          *)
(*                                                                         *)
(* Commands are numbered in the order in which users give them; what a     *)
(* command does, and the answers of a replica, which a master skips, are   *)
(* left out.  A write sends all of a command or fails.                     *)
(***************************************************************************)
EXTENDS Integers, FiniteSets, SequencesExt

CONSTANTS
  Servers,
  Visitor,      \* any client that is not a server
  MaxFd,        \* descriptors are 1..MaxFd; beyond, socket and accept fail (EMFILE)
  MaxLinks,     \* bound on the connections ever made
  MaxSets       \* bound on the commands users give

ASSUME ServersAssumption == IsFiniteSet(Servers) /\ Visitor \notin Servers
ASSUME BoundsAssumption == {MaxFd, MaxLinks, MaxSets} \subseteq Nat

Fds   == 1 .. MaxFd
Links == 1 .. MaxLinks
Cmds  == 1 .. MaxSets

VARIABLES
  srv,          \* the servers, see Server
  link,         \* the connections, see Link
  sets          \* how many commands users gave

\* History, read by no action.
VARIABLES
  due,          \* the commands a flush still has to write to the replica of a link
  stray,        \* <<server, descriptor>>: commands written to what was no replica there
  orphaned,     \* descriptors freed while a replica was listed with them
  failed        \* descriptors closed by a failed write to a replica

hist == <<due, stray, orphaned, failed>>
vars == <<srv, link, sets, hist>>

\* What a server can receive: commands are numbers, REPLICA and +OK their names.
Replica == 0
Ok      == -1
Messages == Cmds \cup {Replica, Ok}

\* A connection: who opened it, to whom, and what is on the way to either.
Link == [state : {"unused", "backlog", "open", "broken"},
         from : Servers \cup {Visitor}, to : Servers \cup {Visitor},
         up : Seq(Messages), down : Seq(Messages)]

\* One end of a connection, as a descriptor refers to it.
End   == [link : Links \cup {0}, side : {"client", "server"}]
NoEnd == [link |-> 0, side |-> "client"]

Server ==
  [conn     : [Fds -> End],             \* kernel: what each descriptor is
   events   : SUBSET Fds,               \* EventLoop.Events
   polled   : SUBSET Fds,               \* kernel: the epoll set
   master   : Fds \cup {0},             \* MasterFD, 0 for -1
   pending  : Seq(Cmds),                \* pendindCommands
   replicas : Seq(Fds \X Links),        \* replicas: FD and Client
   owed     : SUBSET Fds,               \* clientsPendingWrite: who is to get +OK
   joining  : Fds \cup {0},             \* where addReplica waits for its answer
   flush    : Nat,                      \* beforeSleep: the replica replicate is at, or 0
   exec     : Seq(Cmds)]                \* what the server executed

Init ==
  /\ srv = [n \in Servers |->
              [conn |-> [f \in Fds |-> NoEnd], events |-> {}, polled |-> {}, master |-> 0,
               pending |-> <<>>, replicas |-> <<>>, owed |-> {}, joining |-> 0, flush |-> 0,
               exec |-> <<>>]]
  /\ link = [c \in Links |-> [state |-> "unused", from |-> Visitor, to |-> Visitor,
                              up |-> <<>>, down |-> <<>>]]
  /\ sets = 0
  /\ due = [c \in Links |-> <<>>]
  /\ stray = {} /\ orphaned = {} /\ failed = {}

-----------------------------------------------------------------------------
\* A server waits in REPLICAOF or is about to sleep; otherwise it handles events.
Handling(n) == srv[n].joining = 0 /\ srv[n].flush = 0

Least(S) == CHOOSE x \in S : \A y \in S : x <= y

Free(n)  == {f \in Fds : srv[n].conn[f] = NoEnd}
Unused   == {c \in Links : link[c].state = "unused"}
Inbox(e)  == IF e.side = "client" THEN "down" ELSE "up"
Outbox(e) == IF e.side = "client" THEN "up" ELSE "down"

\* An end is closed: what was on the way to it is lost.
Hangup(l, e) ==
  IF e.link = 0 THEN l ELSE [l EXCEPT ![e.link] = [@ EXCEPT !.state = "broken", ![Inbox(e)] = <<>>]]

\* AddFileEvent; EPOLL_CTL_MOD fails when the kernel has forgotten the descriptor.
AddFileEvent(s, f) ==
  [s EXCEPT !.events = @ \cup {f}, !.polled = IF f \in s.events THEN @ ELSE @ \cup {f}]

\* unix.Close, after which the kernel polls the descriptor no more.
Closed(s, f) == [s EXCEPT !.conn[f] = NoEnd, !.polled = @ \ {f}]

\* Fault: the loop's table keeps the descriptor.
freeClientKept(s, f) == Closed(s, f)

freeClient(s, f) == [Closed(s, f) EXCEPT !.events = @ \ {f}]

\* Fault: a replica queues what it got from its master.
ExecutedAnyway(s, x) == [s EXCEPT !.exec = Append(@, x), !.pending = Append(@, x)]

\* respond: a command is executed, and queued while there is no master.
Executed(s, x) ==
  [s EXCEPT !.exec = Append(@, x), !.pending = IF s.master = 0 THEN Append(@, x) ELSE @]

\* Fault: the command is written to the same replica again.
NotAdvanced(s) == s

Advanced(s) == [s EXCEPT !.flush = @ + 1]

\* Fault: the answer to REPLICA is not scheduled.
registerReplicaSilently(s, f, c) == [s EXCEPT !.replicas = Append(@, <<f, c>>)]

registerReplica(s, f, c) ==
  [s EXCEPT !.replicas = Append(@, <<f, c>>), !.owed = @ \cup {f}]

-----------------------------------------------------------------------------
\* A user gives server n a command (its connection is not modelled).
UserSet(n) ==
  /\ Handling(n) /\ sets < MaxSets
  /\ srv' = [srv EXCEPT ![n] = Executed(@, sets + 1)]
  /\ sets' = sets + 1
  /\ UNCHANGED <<link, hist>>

Opened(from, to, up) ==
  [state |-> "backlog", from |-> from, to |-> to, up |-> up, down |-> <<>>]

Visit(n) ==
  /\ Unused # {}
  /\ link' = [link EXCEPT ![Least(Unused)] = Opened(Visitor, n, <<>>)]
  /\ UNCHANGED <<srv, sets, hist>>

\* A connection ends, with what was on the way: a peer leaves, the network fails.
Break(c) ==
  /\ link[c].state \in {"backlog", "open"}
  /\ link' = [link EXCEPT ![c].state = "broken", ![c].up = <<>>, ![c].down = <<>>]
  /\ UNCHANGED <<srv, sets, hist>>

\* AcceptTcpHandler; a descriptor that cannot be added to the loop is closed.
Accept(n) ==
  LET waiting == {c \in Links : link[c].state = "backlog" /\ link[c].to = n}
      c == Least(waiting)
      f == Least(Free(n))
      s == AddFileEvent([srv[n] EXCEPT !.conn[f] = [link |-> c, side |-> "server"]], f)
  IN  /\ Handling(n) /\ waiting # {} /\ Free(n) # {}
      /\ IF f \in s.polled
         THEN srv' = [srv EXCEPT ![n] = s] /\ link' = [link EXCEPT ![c].state = "open"]
         ELSE srv' = [srv EXCEPT ![n] = Closed(s, f)] /\ link' = [link EXCEPT ![c].state = "broken"]
      /\ UNCHANGED <<sets, hist>>

\* REPLICAOF m, given to n by a user: addReplica up to its read.
ReplicaOf(n, m) ==
  /\ Handling(n) /\ Free(n) # {} /\ Unused # {}
  /\ LET f == Least(Free(n))
         c == Least(Unused)
     IN  /\ srv' = [srv EXCEPT ![n].conn[f] = [link |-> c, side |-> "client"], ![n].joining = f]
         /\ link' = [link EXCEPT ![c] = Opened(n, m, <<Replica>>)]
  /\ UNCHANGED <<sets, hist>>

Joining(n) == link[srv[n].conn[srv[n].joining].link]

\* The read brings the answer, alone.
JoinAccepted(n) ==
  LET f == srv[n].joining
  IN  /\ f # 0 /\ Joining(n).down # <<>> /\ Head(Joining(n).down) = Ok
      /\ srv' = [srv EXCEPT ![n] = [AddFileEvent(@, f) EXCEPT !.master = f, !.joining = 0]]
      /\ link' = [link EXCEPT ![srv[n].conn[f].link].down = Tail(@)]
      /\ UNCHANGED <<sets, hist>>

\* The read brings an end of file, or the stream, with the answer or before it.
JoinRejected(n) ==
  LET f == srv[n].joining
  IN  /\ f # 0
      /\ \/ Joining(n).down = <<>> /\ Joining(n).state = "broken"
         \/ Joining(n).down # <<>> /\ Head(Joining(n).down) # Ok
         \/ Len(Joining(n).down) >= 2
      /\ srv' = [srv EXCEPT ![n] = [Closed(@, f) EXCEPT !.joining = 0]]
      /\ link' = Hangup(link, srv[n].conn[f])
      /\ UNCHANGED <<sets, hist>>

-----------------------------------------------------------------------------
\* readQueryFromClient on descriptor f: one message.
Read(n, f) ==
  LET e  == srv[n].conn[f]
      in == link[e.link][Inbox(e)]
  IN  /\ Handling(n) /\ f \in srv[n].polled
      /\ in # <<>>
      /\ srv' = [srv EXCEPT ![n] = CASE Head(in) = Replica -> registerReplica(@, f, e.link)
                                     [] Head(in) = Ok      -> @
                                     [] OTHER              -> Executed(@, Head(in))]
      /\ link' = [link EXCEPT ![e.link][Inbox(e)] = Tail(in)]
      /\ UNCHANGED <<sets, hist>>

\* An end of file: freeClient, which knows nothing of replicas and MasterFD.
ReadEnd(n, f) ==
  LET e == srv[n].conn[f]
  IN  /\ Handling(n) /\ f \in srv[n].polled
      /\ link[e.link][Inbox(e)] = <<>> /\ link[e.link].state = "broken"
      /\ srv' = [srv EXCEPT ![n] = freeClient(@, f)]
      /\ orphaned' = IF \E i \in 1 .. Len(srv[n].replicas) : srv[n].replicas[i] = <<f, e.link>>
                     THEN orphaned \cup {<<n, f>>} ELSE orphaned
      /\ UNCHANGED <<link, sets, due, stray, failed>>

-----------------------------------------------------------------------------
Streams(n) == srv[n].master # 0 /\ srv[n].pending # <<>>

\* The replicas of n that are still at their descriptor.
Followers(n) ==
  {c \in Links : \E i \in 1 .. Len(srv[n].replicas) :
     LET r == srv[n].replicas[i] IN r[2] = c /\ srv[n].conn[r[1]] = [link |-> c, side |-> "server"]}

\* beforeSleep, if it has anything to do.
BeforeSleep(n) ==
  /\ Handling(n)
  /\ Streams(n) \/ srv[n].owed # {}
  /\ srv' = [srv EXCEPT ![n].flush = 1]
  /\ due' = [c \in Links |-> IF Streams(n) /\ c \in Followers(n) THEN srv[n].pending ELSE due[c]]
  /\ UNCHANGED <<link, sets, stray, orphaned, failed>>

\* replicate is about to write the first pending command to replica r.
Writing(n) == srv[n].flush \in 1 .. Len(srv[n].replicas) /\ Streams(n)

Target(n) == srv[n].replicas[srv[n].flush]

\* A write to a connection the peer has left may still succeed.
Replicate(n) ==
  /\ Writing(n)
  /\ LET f == Target(n)[1]
         e == srv[n].conn[f]
         x == Head(srv[n].pending)
     IN  /\ e.link # 0
         /\ srv' = [srv EXCEPT ![n] = Advanced(@)]
         /\ link' = IF link[e.link].state = "open"
                    THEN [link EXCEPT ![e.link][Outbox(e)] = Append(@, x)] ELSE link
         /\ IF e.side = "server" /\ due[e.link] # <<>> /\ Head(due[e.link]) = x
            THEN due' = [due EXCEPT ![e.link] = Tail(@)] /\ UNCHANGED stray
            ELSE stray' = stray \cup {<<n, f>>} /\ UNCHANGED due
  /\ UNCHANGED <<sets, orphaned, failed>>

\* Fault: on to the next index, past the replica that was moved here.
DroppedAndNext(s, i) ==
  [s EXCEPT !.replicas = Front([s.replicas EXCEPT ![i] = Last(s.replicas)]), !.flush = i + 1]

\* The last replica takes the place of the one at i, and is next.
Dropped(s, i) ==
  [s EXCEPT !.replicas = Front([s.replicas EXCEPT ![i] = Last(s.replicas)])]

\* EPIPE, EBADF, or EAGAIN when the replica does not read.
ReplicateError(n) ==
  /\ Writing(n)
  /\ LET r == Target(n)
         e == srv[n].conn[r[1]]
     IN  /\ srv' = [srv EXCEPT ![n] = Dropped(Closed(@, r[1]), srv[n].flush)]
         /\ link' = Hangup(link, e)
         /\ due' = [due EXCEPT ![r[2]] = <<>>]
         /\ failed' = IF e = NoEnd THEN failed ELSE failed \cup {<<n, r[1]>>}
  /\ UNCHANGED <<sets, stray, orphaned>>

NextCommand(n) ==
  /\ srv[n].flush > Len(srv[n].replicas) /\ Streams(n)
  /\ srv' = [srv EXCEPT ![n].pending = Tail(@), ![n].flush = 1]
  /\ UNCHANGED <<link, sets, hist>>

\* The rest of beforeSleep: the answers to REPLICA.
Sleep(n) ==
  /\ srv[n].flush # 0 /\ ~Streams(n)
  /\ srv' = [srv EXCEPT ![n].flush = 0, ![n].owed = {}]
  /\ link' = [c \in Links |->
                IF link[c].state = "open" /\ \E f \in srv[n].owed : srv[n].conn[f] = [link |-> c, side |-> "server"]
                THEN [link[c] EXCEPT !.down = Append(@, Ok)] ELSE link[c]]
  /\ UNCHANGED <<sets, hist>>

-----------------------------------------------------------------------------
\* The server is busy: in beforeSleep or in addReplica.
Proceed(n) ==
  \/ BeforeSleep(n) \/ Replicate(n) \/ ReplicateError(n) \/ NextCommand(n) \/ Sleep(n)
  \/ JoinAccepted(n) \/ JoinRejected(n)

Next ==
  \/ \E n \in Servers :
       \/ UserSet(n) \/ Visit(n) \/ Accept(n) \/ Proceed(n)
       \/ \E m \in Servers : ReplicaOf(n, m)
       \/ \E f \in Fds : Read(n, f) \/ ReadEnd(n, f)
  \/ \E c \in Links : Break(c)

Spec == Init /\ [][Next]_vars

-----------------------------------------------------------------------------
\* The state has its type; a descriptor that is open and not joining is polled and
\* one that is closed is free of events, so that the kernel can hand it out again,
\* unless a write to a replica failed on it while it was open: that one refuses every
\* later connection.  (A write to one that is closed, EBADF, changes nothing.)
DescriptorIsUsable ==
  /\ srv \in [Servers -> Server] /\ link \in [Links -> Link]
  /\ \A n \in Servers : \A f \in Fds :
       \/ <<n, f>> \in failed
       \/ LET listening == srv[n].conn[f] # NoEnd /\ srv[n].joining # f
          IN  (f \in srv[n].events) = listening /\ (f \in srv[n].polled) = listening

\* The stream goes to replicas, to each the commands that are due in their order;
\* unless a replica's connection was closed by the end of file, after which its
\* descriptor is written to whatever it is.
StreamIsForReplica == stray \subseteq orphaned

\* One replica's failure does not touch the others: after a flush every replica that
\* is still listed at its descriptor was written all that its master had queued.
StreamIsWhole ==
  \A n \in Servers : srv[n].flush = 0 => \A c \in Followers(n) : due[c] = <<>>

\* No command circulates: a server executes it once, unless it joined more than once
\* or something went astray.
ExecutedOnce ==
  stray = {} =>
    \A n \in Servers :
      \/ Cardinality({c \in Links : link[c].state # "unused" /\ link[c].from = n}) > 1
      \/ \A i, j \in 1 .. Len(srv[n].exec) : srv[n].exec[i] = srv[n].exec[j] => i = j

\* REPLICAOF blocks the whole server, which waits for an answer that is on the way:
\* the connection is broken, the answer or the stream has arrived, or the request is
\* queued for a master that will see it, or was seen by one that will answer when it
\* sleeps.  (Whether it does is another matter: in a circle of servers that all wait
\* in REPLICAOF, the shortest of one server, nobody does.)
JoinIsPending ==
  \A n \in Servers : srv[n].joining # 0 =>
    LET l == Joining(n)
        m == srv[l.to]
    IN  \/ l.state \in {"broken", "backlog"} \/ l.down # <<>>
        \/ \E f \in m.polled : /\ m.conn[f] = [link |-> srv[n].conn[srv[n].joining].link, side |-> "server"]
                               /\ Replica \in Range(l.up) \/ f \in m.owed
=============================================================================
