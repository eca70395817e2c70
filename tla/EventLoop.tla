------------------------------ MODULE EventLoop ------------------------------
(***************************************************************************)
(* Connections, their file events and their replies: the event loop of     *)
(* internal/server (accept.go, io.go, file_events.go, eventloop.go,        *)
(* freeClient and cleanupClient of client.go) above the descriptors of the *)
(* kernel.                                                                 *)
(*                                                                         *)
(* The loop finds a client by its descriptor, and the kernel gives the     *)
(* lowest free descriptor to the next connection.  A client that is freed  *)
(* is not taken out of clientsPendingWrite nor, except by cleanupClient,   *)
(* out of the subscribers: what is left of it then `haunts` whoever gets   *)
(* its descriptor.                                                         *)
(***************************************************************************)
EXTENDS Integers, FiniteSets

CONSTANTS
  Conns,        \* connections, and the Client made for each
  NoConn,
  MaxFd,        \* descriptors are 1..MaxFd; beyond, accept fails (EMFILE)
  HardLimit     \* PubSubHardLimit, in replies; also the bound on a buffer

ASSUME ConnsAssumption == NoConn \notin Conns /\ IsFiniteSet(Conns)
ASSUME LimitAssumption == MaxFd \in Nat \ {0} /\ HardLimit \in Nat \ {0}

Fds == 1 .. MaxFd

VARIABLES
  srv,          \* the server's and the kernel's tables, see Server
  phase,        \* "files" or "flush" (beforeSleep)
  todo,         \* the entries of clientsPendingWrite beforeSleep still has to visit
  after,        \* the client whose WriteProc is called after its ReadProc, or NoConn
  haunted,      \* history: descriptors that a freed client once referred to
  stray         \* history: descriptors on which a reply reached the wrong peer

vars == <<srv, phase, todo, after, haunted, stray>>

NoEvent == [mask |-> {}, client |-> NoConn]
Event   == [mask : SUBSET {"in", "out"}, client : Conns \cup {NoConn}]

Server ==
  [owner   : [Fds -> Conns \cup {NoConn}],    \* kernel: who is at the other end
   fd      : [Conns -> Fds \cup {0}],         \* Client.Fd, 0 before the accept
   events  : [Fds -> Event],                  \* EventLoop.Events and the epoll set
   pending : [Fds -> Conns \cup {NoConn}],    \* clientsPendingWrite
   buf     : [Conns -> 0 .. HardLimit],       \* replies in Client.ReplyBuf
   subs    : SUBSET Conns,                    \* subscribers of the one channel
   count   : Int]                             \* con_clients

Init ==
  /\ srv = [owner   |-> [f \in Fds |-> NoConn],
            fd      |-> [c \in Conns |-> 0],
            events  |-> [f \in Fds |-> NoEvent],
            pending |-> [f \in Fds |-> NoConn],
            buf     |-> [c \in Conns |-> 0],
            subs    |-> {},
            count   |-> 0]
  /\ phase = "files" /\ todo = {} /\ after = NoConn
  /\ haunted = {} /\ stray = {}

-----------------------------------------------------------------------------
\* The functions of the server, as operators from server to server.

AddFileEvent(s, f, mode, c) ==
  [s EXCEPT !.events[f] = [mask |-> s.events[f].mask \cup {mode}, client |-> c]]

\* An event without a mode left is deleted.
DeleteFileEvent(s, f, modes) ==
  LET mask == s.events[f].mask \ modes
  IN  [s EXCEPT !.events[f] = IF mask = {} THEN NoEvent ELSE [@ EXCEPT !.mask = mask]]

\* Fault: the file events outlive the client.
freeClientKeepingEvents(s, c) ==
  [s EXCEPT !.owner[s.fd[c]] = NoConn, !.count = @ - 1]

\* Closes the descriptor of c, whoever has it now; closing it again counts again.
freeClient(s, c) ==
  [DeleteFileEvent(s, s.fd[c], {"in", "out"}) EXCEPT
     !.owner[s.fd[c]] = NoConn,
     !.count = @ - 1]

Forget(s, f) == [s EXCEPT !.pending[f] = NoConn]

cleanupClient(s, c) ==
  [Forget(freeClient(s, c), s.fd[c]) EXCEPT !.subs = @ \ {c}, !.buf[c] = 0]

\* Fault: the reply is buffered and nothing more.
ReplyUnscheduled(s, c) == [s EXCEPT !.buf[c] = @ + 1]

\* A reply is buffered and its client noted in clientsPendingWrite.
Reply(s, c) == [s EXCEPT !.buf[c] = @ + 1, !.pending[s.fd[c]] = c]

\* The message to each subscriber, freed ones included.
Delivered(s, S) == [s EXCEPT !.buf = [c \in Conns |-> IF c \in S THEN @[c] + 1 ELSE @[c]]]

\* Fault: clientsPendingWrite is indexed by the counter, not by the descriptor.
NotedByCount(s, S) ==
  {[s EXCEPT !.pending = p] : p \in
     {q \in [Fds -> Conns \cup {NoConn}] : \A f \in Fds :
        IF f <= Cardinality(S) THEN q[f] \in S ELSE q[f] = s.pending[f]}}

\* Every subscriber's descriptor is noted; of two clients with one, either.
Noted(s, S) ==
  {[s EXCEPT !.pending = p] : p \in
     {q \in [Fds -> Conns \cup {NoConn}] : \A f \in Fds :
        LET here == {c \in S : s.fd[c] = f}
        IN  IF here = {} THEN q[f] = s.pending[f] ELSE q[f] \in here}}

-----------------------------------------------------------------------------
\* Descriptors closed in a step to s that something left of their client still
\* refers to.
Haunts(s) ==
  {f \in Fds : /\ srv.owner[f] # NoConn /\ s.owner[f] = NoConn
               /\ s.pending[f] # NoConn \/ \E c \in s.subs : s.fd[c] = f}

Becomes(s) == srv' = s /\ haunted' = haunted \cup Haunts(s)

\* A reply of c is written to descriptor f.
Sends(f, c) == stray' = IF srv.owner[f] = c THEN stray ELSE stray \cup {f}

Ready(f) == phase = "files" /\ after = NoConn /\ srv.events[f].client # NoConn

Free == {f \in Fds : srv.owner[f] = NoConn}

\* AcceptTcpHandler; the kernel gives the lowest descriptor.
Accept(c) ==
  /\ phase = "files" /\ after = NoConn
  /\ srv.fd[c] = 0
  /\ \E f \in Free :
       /\ \A g \in Free : f <= g
       /\ Becomes([AddFileEvent(srv, f, "in", c) EXCEPT
                     !.owner[f] = c, !.fd[c] = f, !.count = @ + 1])
  /\ UNCHANGED <<phase, todo, after, stray>>

\* The other half of a file event that fired for reading and writing.
AndThen(f, c) ==
  \/ after' = NoConn
  \/ "out" \in srv.events[f].mask /\ after' = c

\* readQueryFromClient: a command is answered.
ReadCommand(f) ==
  LET c == srv.events[f].client
  IN  /\ Ready(f)
      /\ srv.owner[f] # NoConn
      /\ srv.buf[c] < HardLimit
      /\ Becomes(Reply(srv, c))
      /\ AndThen(f, c)
      /\ UNCHANGED <<phase, todo, stray>>

ReadSubscribe(f) ==
  LET c == srv.events[f].client
  IN  /\ Ready(f)
      /\ srv.owner[f] # NoConn
      /\ srv.buf[c] < HardLimit
      /\ Becomes([Reply(srv, c) EXCEPT !.subs = @ \cup {c}])
      /\ AndThen(f, c)
      /\ UNCHANGED <<phase, todo, stray>>

\* PUBLISH: a reply for the publisher, a message for every subscriber.
ReadPublish(f) ==
  LET c == srv.events[f].client
  IN  /\ Ready(f)
      /\ srv.owner[f] # NoConn
      /\ c \notin srv.subs
      /\ \A d \in srv.subs \cup {c} : srv.buf[d] < HardLimit
      /\ \E s \in Noted(Delivered(srv, srv.subs), srv.subs) : Becomes(Reply(s, c))
      /\ AndThen(f, c)
      /\ UNCHANGED <<phase, todo, stray>>

\* End of file or a read error.
ReadEnd(f) ==
  LET c == srv.events[f].client
  IN  /\ Ready(f)
      /\ Becomes(freeClient(srv, c))
      /\ AndThen(f, c)
      /\ UNCHANGED <<phase, todo, stray>>

\* A protocol error frees the client, and the read that follows fails on the
\* closed descriptor and frees it once more.
ReadGarbage(f) ==
  LET c == srv.events[f].client
  IN  /\ Ready(f)
      /\ Becomes(freeClient(freeClient(srv, c), c))
      /\ AndThen(f, c)
      /\ UNCHANGED <<phase, todo, stray>>

-----------------------------------------------------------------------------
\* sendReplyToClient(c), as the WriteProc of descriptor f.
WriteProc(f, c) ==
  \/ /\ srv.buf[c] = 0
     /\ Becomes(DeleteFileEvent(srv, f, {"out"})) /\ UNCHANGED stray
  \/ /\ srv.buf[c] > 0 /\ srv.owner[f] # NoConn           \* all or part is written
     /\ \E n \in 0 .. srv.buf[c] - 1 :
          LET s == [srv EXCEPT !.buf[c] = n]
          IN  Becomes(IF n = 0 THEN DeleteFileEvent(s, f, {"out"}) ELSE s)
     /\ Sends(f, c)
  \/ /\ srv.buf[c] > 0                                    \* a write error
     /\ Becomes(freeClient(srv, c)) /\ UNCHANGED stray

Writable(f) ==
  /\ Ready(f) /\ "out" \in srv.events[f].mask
  /\ WriteProc(f, srv.events[f].client)
  /\ UNCHANGED <<phase, todo, after>>

AfterRead ==
  /\ after # NoConn
  /\ WriteProc(srv.fd[after], after)
  /\ after' = NoConn
  /\ UNCHANGED <<phase, todo>>

\* EpollWait is done with its events: beforeSleep.
BeforeSleep ==
  /\ phase = "files" /\ after = NoConn
  /\ phase' = "flush"
  /\ todo' = {f \in Fds : srv.pending[f] # NoConn}
  /\ UNCHANGED <<srv, after, haunted, stray>>

\* An entry that was deleted during the walk is not visited.
Visit(f) ==
  /\ phase = "flush" /\ f \in todo /\ srv.pending[f] # NoConn
  /\ todo' = todo \ {f}
  /\ UNCHANGED <<phase, after>>

FlushSlow(f) ==
  /\ Visit(f)
  /\ srv.buf[srv.pending[f]] >= HardLimit
  /\ Becomes(cleanupClient(srv, srv.pending[f]))
  /\ UNCHANGED stray

\* The whole buffer, which may be empty, is written.
FlushAll(f) ==
  LET c == srv.pending[f]
  IN  /\ Visit(f)
      /\ srv.buf[c] < HardLimit /\ srv.owner[f] # NoConn
      /\ Becomes(Forget(DeleteFileEvent([srv EXCEPT !.buf[c] = 0], f, {"out"}), f))
      /\ IF srv.buf[c] > 0 THEN Sends(f, c) ELSE UNCHANGED stray

\* Fault: what a partial write leaves behind is nobody's business.
FlushPartAndDrop(f) ==
  LET c == srv.pending[f]
  IN  /\ Visit(f)
      /\ srv.buf[c] < HardLimit /\ srv.owner[f] # NoConn
      /\ \E n \in 1 .. srv.buf[c] - 1 : Becomes(Forget([srv EXCEPT !.buf[c] = n], f))
      /\ Sends(f, c)

FlushPart(f) ==
  LET c == srv.pending[f]
  IN  /\ Visit(f)
      /\ srv.buf[c] < HardLimit /\ srv.owner[f] # NoConn
      /\ \E n \in 1 .. srv.buf[c] - 1 :
           Becomes(Forget(AddFileEvent([srv EXCEPT !.buf[c] = n], f, "out", c), f))
      /\ Sends(f, c)

\* EAGAIN: the entry stays, and the event of the descriptor is given to c.
FlushLater(f) ==
  LET c == srv.pending[f]
  IN  /\ Visit(f)
      /\ 0 < srv.buf[c] /\ srv.buf[c] < HardLimit /\ srv.owner[f] # NoConn
      /\ Becomes(AddFileEvent(srv, f, "out", c))
      /\ UNCHANGED stray

\* A write error; on a closed descriptor always.
FlushError(f) ==
  LET c == srv.pending[f]
  IN  /\ Visit(f)
      /\ srv.buf[c] < HardLimit
      /\ srv.buf[c] > 0 \/ srv.owner[f] = NoConn
      /\ Becomes(Forget(freeClient(srv, c), f))
      /\ UNCHANGED stray

Sleep ==
  /\ phase = "flush" /\ \A f \in todo : srv.pending[f] = NoConn
  /\ phase' = "files" /\ todo' = {}
  /\ UNCHANGED <<srv, after, haunted, stray>>

Flush(f) == FlushSlow(f) \/ FlushAll(f) \/ FlushPart(f) \/ FlushLater(f) \/ FlushError(f)

Next ==
  \/ \E c \in Conns : Accept(c)
  \/ \E f \in Fds :
       \/ ReadCommand(f) \/ ReadSubscribe(f) \/ ReadPublish(f) \/ ReadEnd(f) \/ ReadGarbage(f)
       \/ Writable(f)
       \/ Flush(f)
  \/ AfterRead \/ BeforeSleep \/ Sleep

Spec == Init /\ [][Next]_vars

(***************************************************************************)
(* The loop goes round for ever, and a peer that is connected reads: its   *)
(* socket is not full for ever, so that a write which is tried again and   *)
(* again succeeds or fails at last.                                        *)
(***************************************************************************)
Progress(f) == FlushSlow(f) \/ FlushAll(f) \/ FlushError(f)

Fairness ==
  /\ SF_vars(BeforeSleep) /\ WF_vars(Sleep) /\ WF_vars(AfterRead)
  /\ \A f \in Fds : WF_vars(Flush(f)) /\ SF_vars(Progress(f)) /\ SF_vars(Writable(f))

FairSpec == Spec /\ Fairness

-----------------------------------------------------------------------------
\* The state has its type.
TypeOK ==
  /\ srv \in Server
  /\ phase \in {"files", "flush"}
  /\ todo \subseteq Fds /\ after \in Conns \cup {NoConn}
  /\ haunted \subseteq Fds /\ stray \subseteq Fds

\* A reply reaches the connection it is for, unless the descriptor is haunted:
\* a client was freed with replies to flush or with a subscription, and the
\* descriptor was reused.
ReplyIsForPeer == stray \subseteq haunted

\* The loop listens to every open connection and to no closed descriptor, on
\* behalf of the right client.
EventIsForOwner ==
  /\ TypeOK
  /\ \A f \in Fds \ haunted :
       IF srv.owner[f] = NoConn
       THEN srv.events[f] = NoEvent
       ELSE srv.events[f].client = srv.owner[f] /\ "in" \in srv.events[f].mask

\* A buffered reply is never forgotten: its client is in clientsPendingWrite or
\* waits for the socket to take more.
ReplyIsScheduled ==
  \A c \in Conns :
    LET f == srv.fd[c]
    IN  f # 0 /\ srv.buf[c] > 0 =>
          \/ srv.owner[f] # c \/ f \in haunted
          \/ srv.pending[f] = c
          \/ "out" \in srv.events[f].mask

\* Every reply is sent or its connection closed, if the descriptor is not haunted.
ReplyIsSent ==
  \A c \in Conns : \A f \in Fds :
    srv.fd[c] = f /\ srv.owner[f] = c /\ srv.buf[c] > 0
      ~> srv.buf[c] = 0 \/ srv.owner[f] # c \/ f \in haunted
=============================================================================
