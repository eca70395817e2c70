--------------------------- MODULE ReplicationProofs ---------------------------
(***************************************************************************)
(* The safety of Replication for any servers, descriptors, connections and *)
(* commands.  The invariant has five parts: what the kernel and the loop   *)
(* know of a descriptor, where the ends of a connection are, what is on    *)
(* the way, whom a master lists, and how far a flush has come.  A second   *)
(* one, which holds while nothing went astray, says where else a command   *)
(* can be that a server still has in its queue.                            *)
(***************************************************************************)
EXTENDS Replication, SequenceTheorems, FiniteSetTheorems, WellFoundedInduction, TLAPS

TypeOK ==
  /\ srv \in [Servers -> Server]
  /\ link \in [Links -> Link]
  /\ sets \in Nat
  /\ due \in [Links -> Seq(Cmds)]

ServerEnd(c) == [link |-> c, side |-> "server"]

\* Descriptors.  The kernel polls only what is open; only a failed write can part the
\* loop's table from it.
Polling ==
  \A n \in Servers :
    /\ \A f \in Fds :
         /\ srv[n].conn[f].link = 0 => srv[n].conn[f] = NoEnd
         /\ f \in srv[n].polled => srv[n].conn[f] # NoEnd /\ srv[n].joining # f
         /\ <<n, f>> \in failed \/ f \in srv[n].polled \/ srv[n].conn[f] = NoEnd \/ srv[n].joining = f
         /\ <<n, f>> \in failed \/ (f \in srv[n].events <=> f \in srv[n].polled)
    /\ srv[n].joining # 0 => /\ srv[n].flush = 0
                             /\ srv[n].conn[srv[n].joining] # NoEnd
                             /\ srv[n].conn[srv[n].joining].side = "client"

\* The ends of a connection.  Each is at one place, and a connection that is open has
\* its server's end where the kernel polls it.
Ends ==
  /\ \A n, m \in Servers : \A f, g \in Fds :
       srv[n].conn[f] = srv[m].conn[g] /\ srv[n].conn[f] # NoEnd => n = m /\ f = g
  /\ \A n \in Servers : \A f \in Fds :
       LET e == srv[n].conn[f]
       IN  e # NoEnd =>
             /\ link[e.link].state # "unused"
             /\ e.side = "server" => link[e.link].to = n /\ link[e.link].state # "backlog"
  /\ \A c \in Links :
       /\ link[c].state = "backlog" => link[c].to \in Servers
       /\ link[c].state = "open" =>
            /\ link[c].to \in Servers
            /\ \E f \in srv[link[c].to].polled : srv[link[c].to].conn[f] = ServerEnd(c)

\* What is on the way: REPLICA goes first, to the server, and once.
Asks(c) == \E i \in 1 .. Len(link[c].up) : link[c].up[i] = Replica

Requests ==
  \A c \in Links :
    /\ \A i \in 1 .. Len(link[c].down) : link[c].down[i] # Replica
    /\ \A i \in 1 .. Len(link[c].up) : link[c].up[i] = Replica => i = 1
    /\ Asks(c) => /\ link[c].state # "unused"
                  /\ due[c] = <<>>
                  /\ \A n \in Servers : \A i \in 1 .. Len(srv[n].replicas) :
                       srv[n].replicas[i][2] # c
    /\ link[c].state = "unused" => due[c] = <<>>

\* Whom a master lists: each connection once, at the descriptor it has, unless that was
\* closed by an end of file.
Entry(n, i) ==
  LET r == srv[n].replicas[i]
  IN  /\ link[r[2]].to = n
      /\ link[r[2]].state \notin {"unused", "backlog"}
      /\ srv[n].conn[r[1]] = ServerEnd(r[2]) \/ <<n, r[1]>> \in orphaned
      /\ \A g \in Fds : srv[n].conn[g] = ServerEnd(r[2]) => g = r[1]

Listing ==
  \A n \in Servers :
    /\ \A i \in 1 .. Len(srv[n].replicas) : Entry(n, i)
    /\ \A i, j \in 1 .. Len(srv[n].replicas) :
         srv[n].replicas[i][2] = srv[n].replicas[j][2] => i = j

Flushing(n) == srv[n].flush # 0 /\ Streams(n)

\* The end of t.
EndOf(s, t) ==
  /\ Len(s) <= Len(t)
  /\ \A i \in 1 .. Len(s) : s[i] = t[Len(t) - Len(s) + i]

\* The flush of n has passed descriptor f with the command it is at.
Passed(n, f) ==
  \E j \in 1 .. Len(srv[n].replicas) : j < srv[n].flush /\ srv[n].replicas[j][1] = f

Remaining(n, f) == IF Passed(n, f) THEN Tail(srv[n].pending) ELSE srv[n].pending

\* How far a flush has come: what is due to a follower is the end of what remains, and
\* all of it unless its descriptor is listed for another replica too.
Reached(n, i) ==
  LET r == srv[n].replicas[i]
  IN  srv[n].conn[r[1]] = ServerEnd(r[2]) =>
        IF Flushing(n)
        THEN /\ EndOf(due[r[2]], Remaining(n, r[1]))
             /\ <<n, r[1]>> \in orphaned \/ due[r[2]] = Remaining(n, r[1])
        ELSE due[r[2]] = <<>>

Progress == \A n \in Servers : \A i \in 1 .. Len(srv[n].replicas) : Reached(n, i)

\* The request of a server that waits in REPLICAOF is not lost.
Answered(c, m) == \E f \in Fds : srv[m].conn[f] = ServerEnd(c) /\ f \in srv[m].owed

Heard(c) ==
  \/ link[c].state = "broken" \/ link[c].down # <<>> \/ Asks(c)
  \/ link[c].state = "open" /\ Answered(c, link[c].to)

Awaits(n) == srv[n].joining # 0 => Heard(srv[n].conn[srv[n].joining].link)

Awaited == \A n \in Servers : Awaits(n)

IInv ==
  /\ TypeOK /\ Polling /\ Ends /\ Requests /\ Listing /\ Progress /\ Awaited
  /\ stray \subseteq orphaned

-----------------------------------------------------------------------------
\* The least of a set of numbers is one of them.
LEMMA NatOrder ==
  \E R : IsWellFoundedOn(R, Nat) /\ \A x, y \in Nat : <<y, x>> \in R <=> y < x
<1>1. \A x, y \in Nat : <<y, x>> \in OpToRel(<, Nat) <=> y < x
  BY DEF OpToRel
<1> QED BY <1>1, NatLessThanWellFounded

LEMMA LeastIn ==
  ASSUME NEW S \in SUBSET Nat, S # {}
  PROVE  Least(S) \in S
<1>1. PICK R : IsWellFoundedOn(R, Nat) /\ \A x, y \in Nat : <<y, x>> \in R <=> y < x
  BY NatOrder
<1>2. PICK x \in S : \A y \in S : ~ (<<y, x>> \in R)
  BY <1>1, WFMin
<1>3. \A y \in S : ~ (y < x)
  BY <1>1, <1>2
<1>4. \A y \in S : x <= y
  BY <1>3
<1> QED BY <1>4 DEF Least

\* The descriptor and the connection that are taken next.
LEMMA Taken ==
  /\ MaxFd \in Nat /\ MaxLinks \in Nat /\ MaxSets \in Nat
  /\ \A n : Free(n) # {} => Least(Free(n)) \in Fds /\ srv[n].conn[Least(Free(n))] = NoEnd
  /\ Unused # {} => Least(Unused) \in Links /\ link[Least(Unused)].state = "unused"
  /\ \A S \in SUBSET Links : S # {} => Least(S) \in S
<1>1. MaxFd \in Nat /\ MaxLinks \in Nat /\ MaxSets \in Nat
  BY BoundsAssumption
<1>2. Fds \in SUBSET Nat /\ Links \in SUBSET Nat
  BY <1>1 DEF Fds, Links
<1>3. \A n : Free(n) \in SUBSET Nat /\ Unused \in SUBSET Nat
  BY <1>2 DEF Free, Unused
<1>4. \A S \in SUBSET Links : S # {} => Least(S) \in S
  BY <1>2, LeastIn
<1> QED BY <1>1, <1>3, <1>4, LeastIn DEF Free, Unused

\* One server changes.
LEMMA OneServer ==
  ASSUME TypeOK, NEW n \in Servers, NEW s \in Server, srv' = [srv EXCEPT ![n] = s]
  PROVE  /\ srv' \in [Servers -> Server]
         /\ srv'[n] = s
         /\ \A m \in Servers \ {n} : srv'[m] = srv[m]
  BY DEF TypeOK

\* One connection changes.
LEMMA OneLink ==
  ASSUME TypeOK, NEW c \in Links, NEW l \in Link, link' = [link EXCEPT ![c] = l]
  PROVE  /\ link' \in [Links -> Link]
         /\ link'[c] = l
         /\ \A d \in Links \ {c} : link'[d] = link[d]
  BY DEF TypeOK

LEMMA HangupFields ==
  ASSUME NEW l \in [Links -> Link], NEW e \in End, e.link \in Links
  PROVE  LET h == Hangup(l, e)
         IN  /\ h \in [Links -> Link]
             /\ \A d \in Links \ {e.link} : h[d] = l[d]
             /\ h[e.link].state = "broken" /\ h[e.link].to = l[e.link].to /\ h[e.link].from = l[e.link].from
             /\ h[e.link].up   = IF e.side = "server" THEN <<>> ELSE l[e.link].up
             /\ h[e.link].down = IF e.side = "client" THEN <<>> ELSE l[e.link].down
<1> DEFINE r == [l[e.link] EXCEPT !.state = "broken", ![Inbox(e)] = <<>>]
<1>1. e.link # 0 /\ l[e.link] \in Link /\ <<>> \in Seq(Messages)
  BY BoundsAssumption DEF Links
<1>2. /\ r \in Link /\ r.state = "broken" /\ r.to = l[e.link].to /\ r.from = l[e.link].from
      /\ r.up   = IF e.side = "server" THEN <<>> ELSE l[e.link].up
      /\ r.down = IF e.side = "client" THEN <<>> ELSE l[e.link].down
  <2>1. CASE e.side = "client"
    <3>1. r = [l[e.link] EXCEPT !.state = "broken", !.down = <<>>]
      BY <2>1 DEF Inbox
    <3> HIDE DEF r
    <3> QED BY <1>1, <2>1, <3>1 DEF Link
  <2>2. CASE e.side = "server"
    <3>1. r = [l[e.link] EXCEPT !.state = "broken", !.up = <<>>]
      BY <2>2 DEF Inbox
    <3> HIDE DEF r
    <3> QED BY <1>1, <2>2, <3>1 DEF Link
  <2> QED BY <2>1, <2>2 DEF End
<1>3. Hangup(l, e) = [l EXCEPT ![e.link] = r]
  BY <1>1 DEF Hangup
<1> HIDE DEF r
<1> QED BY <1>2, <1>3

LEMMA AddFields ==
  ASSUME NEW s \in Server, NEW f \in Fds
  PROVE  LET r == AddFileEvent(s, f)
         IN  /\ r \in Server
             /\ r.events = s.events \cup {f}
             /\ r.polled = IF f \in s.events THEN s.polled ELSE s.polled \cup {f}
             /\ r.conn = s.conn /\ r.master = s.master /\ r.pending = s.pending
             /\ r.replicas = s.replicas /\ r.owed = s.owed /\ r.joining = s.joining
             /\ r.flush = s.flush /\ r.exec = s.exec
  BY DEF AddFileEvent, Server

LEMMA ClosedFields ==
  ASSUME NEW s \in Server, NEW f \in Fds
  PROVE  LET r == Closed(s, f)
         IN  /\ r \in Server
             /\ r.events = s.events
             /\ r.polled = s.polled \ {f}
             /\ r.conn = [s.conn EXCEPT ![f] = NoEnd]
             /\ r.master = s.master /\ r.pending = s.pending
             /\ r.replicas = s.replicas /\ r.owed = s.owed /\ r.joining = s.joining
             /\ r.flush = s.flush /\ r.exec = s.exec
<1>1. NoEnd \in End
  BY DEF NoEnd, End
<1> QED BY <1>1 DEF Closed, Server

LEMMA ExecutedFields ==
  ASSUME NEW s \in Server, NEW x \in Cmds
  PROVE  LET r == Executed(s, x)
         IN  /\ r \in Server
             /\ r.pending \in {s.pending, Append(s.pending, x)}
             /\ r.pending = (IF s.master = 0 THEN Append(s.pending, x) ELSE s.pending)
             /\ r.exec = Append(s.exec, x)
             /\ r.conn = s.conn /\ r.events = s.events /\ r.polled = s.polled
             /\ r.master = s.master /\ r.replicas = s.replicas /\ r.owed = s.owed
             /\ r.joining = s.joining /\ r.flush = s.flush
<1> DEFINE p == IF s.master = 0 THEN Append(s.pending, x) ELSE s.pending
           q == Append(s.exec, x)
<1>1. p \in Seq(Cmds) /\ p \in {s.pending, Append(s.pending, x)} /\ q \in Seq(Cmds)
  BY DEF Server
<1>2. Executed(s, x) = [s EXCEPT !.exec = q, !.pending = p]
  BY DEF Executed
<1> HIDE DEF p, q
<1>3. LET r == [s EXCEPT !.exec = q, !.pending = p]
      IN  /\ r \in Server /\ r.pending = p /\ r.exec = q
          /\ r.conn = s.conn /\ r.events = s.events /\ r.polled = s.polled
          /\ r.master = s.master /\ r.replicas = s.replicas /\ r.owed = s.owed
          /\ r.joining = s.joining /\ r.flush = s.flush
  BY <1>1 DEF Server
<1> QED BY <1>1, <1>2, <1>3 DEF p, q

LEMMA FreeFields ==
  ASSUME NEW s \in Server, NEW f \in Fds
  PROVE  LET r == freeClient(s, f)
         IN  /\ r \in Server
             /\ r.events = s.events \ {f} /\ r.polled = s.polled \ {f}
             /\ r.conn = [s.conn EXCEPT ![f] = NoEnd]
             /\ r.master = s.master /\ r.pending = s.pending
             /\ r.replicas = s.replicas /\ r.owed = s.owed /\ r.joining = s.joining
             /\ r.flush = s.flush /\ r.exec = s.exec
<1> DEFINE c == Closed(s, f)
<1>1. /\ c \in Server
      /\ c.events = s.events /\ c.polled = s.polled \ {f}
      /\ c.conn = [s.conn EXCEPT ![f] = NoEnd]
      /\ c.master = s.master /\ c.pending = s.pending
      /\ c.replicas = s.replicas /\ c.owed = s.owed /\ c.joining = s.joining
      /\ c.flush = s.flush /\ c.exec = s.exec
  BY ClosedFields
<1> HIDE DEF c
<1>2. LET r == [c EXCEPT !.events = @ \ {f}]
      IN  /\ r \in Server
          /\ r.events = c.events \ {f} /\ r.polled = c.polled /\ r.conn = c.conn
          /\ r.master = c.master /\ r.pending = c.pending
          /\ r.replicas = c.replicas /\ r.owed = c.owed /\ r.joining = c.joining
          /\ r.flush = c.flush /\ r.exec = c.exec
  BY <1>1 DEF Server
<1>3. freeClient(s, f) = [c EXCEPT !.events = @ \ {f}]
  BY DEF freeClient, c
<1> QED BY <1>1, <1>2, <1>3

LEMMA RegisterFields ==
  ASSUME NEW s \in Server, NEW f \in Fds, NEW c \in Links
  PROVE  LET r == registerReplica(s, f, c)
         IN  /\ r \in Server
             /\ r.replicas = Append(s.replicas, <<f, c>>) /\ r.owed = s.owed \cup {f}
             /\ r.conn = s.conn /\ r.events = s.events /\ r.polled = s.polled
             /\ r.master = s.master /\ r.pending = s.pending
             /\ r.joining = s.joining /\ r.flush = s.flush /\ r.exec = s.exec
<1> DEFINE q == Append(s.replicas, <<f, c>>)
           o == s.owed \cup {f}
<1>1. q \in Seq(Fds \X Links) /\ o \in SUBSET Fds
  BY DEF Server
<1>2. registerReplica(s, f, c) = [s EXCEPT !.replicas = q, !.owed = o]
  BY DEF registerReplica
<1> HIDE DEF q, o
<1>3. LET r == [s EXCEPT !.replicas = q, !.owed = o]
      IN  /\ r \in Server /\ r.replicas = q /\ r.owed = o
          /\ r.conn = s.conn /\ r.events = s.events /\ r.polled = s.polled
          /\ r.master = s.master /\ r.pending = s.pending
          /\ r.joining = s.joining /\ r.flush = s.flush /\ r.exec = s.exec
  BY <1>1 DEF Server
<1> QED BY <1>2, <1>3 DEF q, o

(***************************************************************************)
(* What a step leaves alone.  Many steps change neither whom a server      *)
(* lists nor its descriptors, or only what is on the way.                  *)
(***************************************************************************)
LEMMA Basics ==
  ASSUME TypeOK
  PROVE  \A m \in Servers :
           /\ srv[m] \in Server
           /\ srv[m].conn \in [Fds -> End] /\ srv[m].joining \in Fds \cup {0}
           /\ srv[m].flush \in Nat /\ srv[m].pending \in Seq(Cmds)
           /\ srv[m].polled \in SUBSET Fds /\ srv[m].owed \in SUBSET Fds
           /\ srv[m].replicas \in Seq(Fds \X Links)
           /\ \A f \in Fds : srv[m].conn[f] \in End /\ srv[m].conn[f].link \in Links \cup {0}
           /\ \A i \in 1 .. Len(srv[m].replicas) :
                srv[m].replicas[i][1] \in Fds /\ srv[m].replicas[i][2] \in Links
           /\ 0 \notin Fds /\ 0 \notin Links
<1>1. ASSUME NEW s \in Server
      PROVE  /\ s.conn \in [Fds -> End] /\ s.joining \in Fds \cup {0}
             /\ s.flush \in Nat /\ s.pending \in Seq(Cmds) /\ s.replicas \in Seq(Fds \X Links)
             /\ s.polled \in SUBSET Fds /\ s.owed \in SUBSET Fds
  BY DEF Server
<1>2. \A e \in End : e.link \in Links \cup {0}
  BY DEF End
<1>3. \A q \in Seq(Fds \X Links) : \A i \in 1 .. Len(q) : q[i][1] \in Fds /\ q[i][2] \in Links
  <2>1. \A q \in Seq(Fds \X Links) : \A i \in 1 .. Len(q) : q[i] \in Fds \X Links
    OBVIOUS
  <2> QED BY <2>1
<1>4. 0 \notin Fds /\ 0 \notin Links
  BY Taken DEF Fds, Links
<1>5. \A m \in Servers : srv[m] \in Server
  BY DEF TypeOK
<1> QED BY <1>1, <1>2, <1>3, <1>4, <1>5

LEMMA OpenEnds ==
  ASSUME TypeOK, Polling
  PROVE  \A m \in Servers : \A f \in Fds : srv[m].conn[f] # NoEnd => srv[m].conn[f].link \in Links
<1>1. \A m \in Servers : \A f \in Fds : srv[m].conn[f].link \in Links \cup {0}
  BY Basics
<1>2. \A m \in Servers : \A f \in Fds : srv[m].conn[f].link = 0 => srv[m].conn[f] = NoEnd
  BY DEF Polling
<1> QED BY <1>1, <1>2

ServerKeeps(m) ==
  /\ srv'[m].conn = srv[m].conn /\ srv'[m].events = srv[m].events
  /\ srv'[m].polled = srv[m].polled /\ srv'[m].joining = srv[m].joining
  /\ srv'[m].flush = srv[m].flush /\ srv'[m].replicas = srv[m].replicas
  /\ srv'[m].master = srv[m].master

LinkKeeps(c) == link'[c].state = link[c].state /\ link'[c].to = link[c].to

LEMMA KeepsPolling ==
  ASSUME Polling, \A m \in Servers : ServerKeeps(m), failed' = failed
  PROVE  Polling'
  BY DEF Polling, ServerKeeps

LEMMA EndsStay ==
  ASSUME TypeOK, Polling, Ends,
         \A m \in Servers : srv'[m].conn = srv[m].conn /\ srv[m].polled \subseteq srv'[m].polled,
         \A c \in Links : LinkKeeps(c)
  PROVE  Ends'
<1>1. \A m \in Servers : \A f \in Fds : srv[m].conn[f] # NoEnd => srv[m].conn[f].link \in Links
  BY OpenEnds
<1>2. ASSUME NEW n \in Servers, NEW m \in Servers, NEW f \in Fds, NEW g \in Fds,
             srv'[n].conn[f] = srv'[m].conn[g], srv'[n].conn[f] # NoEnd
      PROVE  n = m /\ f = g
  BY <1>2 DEF Ends
<1>3. ASSUME NEW n \in Servers, NEW f \in Fds, srv'[n].conn[f] # NoEnd
      PROVE  LET e == srv'[n].conn[f]
             IN  /\ link'[e.link].state # "unused"
                 /\ e.side = "server" => link'[e.link].to = n /\ link'[e.link].state # "backlog"
  <2>1. srv'[n].conn[f] = srv[n].conn[f] /\ srv[n].conn[f].link \in Links
    BY <1>1, <1>3
  <2>2. LinkKeeps(srv[n].conn[f].link)
    BY <2>1
  <2>3. LET e == srv[n].conn[f]
        IN  /\ link[e.link].state # "unused"
            /\ e.side = "server" => link[e.link].to = n /\ link[e.link].state # "backlog"
    BY <1>3, <2>1 DEF Ends
  <2> QED BY <2>1, <2>2, <2>3 DEF LinkKeeps
<1>4. ASSUME NEW c \in Links
      PROVE  /\ link'[c].state = "backlog" => link'[c].to \in Servers
             /\ link'[c].state = "open" =>
                  /\ link'[c].to \in Servers
                  /\ \E f \in srv'[link'[c].to].polled : srv'[link'[c].to].conn[f] = ServerEnd(c)
  <2>1. link'[c].state = link[c].state /\ link'[c].to = link[c].to
    BY DEF LinkKeeps
  <2>2. /\ link[c].state = "backlog" => link[c].to \in Servers
        /\ link[c].state = "open" =>
             /\ link[c].to \in Servers
             /\ \E f \in srv[link[c].to].polled : srv[link[c].to].conn[f] = ServerEnd(c)
    BY DEF Ends
  <2> QED BY <2>1, <2>2
<1> QED BY <1>2, <1>3, <1>4 DEF Ends

LEMMA KeepsEnds ==
  ASSUME TypeOK, Polling, Ends,
         \A m \in Servers : ServerKeeps(m), \A c \in Links : LinkKeeps(c)
  PROVE  Ends'
<1>1. \A m \in Servers : srv'[m].conn = srv[m].conn /\ srv'[m].polled = srv[m].polled
  BY DEF ServerKeeps
<1> QED BY <1>1, EndsStay

LEMMA KeepsListing ==
  ASSUME TypeOK, Listing,
         \A m \in Servers : ServerKeeps(m), \A c \in Links : LinkKeeps(c), orphaned' = orphaned
  PROVE  Listing'
<1>1. ASSUME NEW m \in Servers, NEW i \in 1 .. Len(srv[m].replicas)
      PROVE  Entry(m, i)'
  <2>1. srv[m].replicas[i][2] \in Links /\ Entry(m, i)
    BY Basics DEF Listing
  <2>2. /\ srv'[m].conn = srv[m].conn /\ srv'[m].replicas = srv[m].replicas
        /\ LinkKeeps(srv[m].replicas[i][2])
    BY <2>1 DEF ServerKeeps
  <2> QED BY <2>1, <2>2 DEF Entry, LinkKeeps
<1>2. \A m \in Servers : srv'[m].replicas = srv[m].replicas
  BY DEF ServerKeeps
<1> QED BY <1>1, <1>2 DEF Listing

LEMMA KeepsProgress ==
  ASSUME Progress, \A m \in Servers : ServerKeeps(m),
         \A m \in Servers : srv'[m].pending = srv[m].pending \/ srv[m].flush = 0,
         due' = due, orphaned' = orphaned
  PROVE  Progress'
<1>1. \A m \in Servers : srv'[m].conn = srv[m].conn /\ srv'[m].replicas = srv[m].replicas
                         /\ srv'[m].flush = srv[m].flush
  BY DEF ServerKeeps
<1>2. \A m \in Servers :
        /\ Flushing(m)' <=> Flushing(m)
        /\ Flushing(m) => \A f : Remaining(m, f)' = Remaining(m, f)
  BY <1>1 DEF Flushing, Streams, Remaining, Passed, ServerKeeps
<1>3. ASSUME NEW m \in Servers, NEW i \in 1 .. Len(srv'[m].replicas)
      PROVE  Reached(m, i)'
  <2> DEFINE f == srv[m].replicas[i][1]
             d == srv[m].replicas[i][2]
  <2>1. Reached(m, i)
    BY <1>1, <1>3 DEF Progress
  <2>2. srv'[m].replicas[i][1] = f /\ srv'[m].replicas[i][2] = d
    BY <1>1
  <2>3. srv[m].conn[f] = ServerEnd(d) =>
          IF Flushing(m)
          THEN /\ EndOf(due[d], Remaining(m, f))
               /\ <<m, f>> \in orphaned \/ due[d] = Remaining(m, f)
          ELSE due[d] = <<>>
    BY <2>1 DEF Reached
  <2>4. PICK ff, dd : ff = f /\ dd = d
    OBVIOUS
  <2>5. /\ Flushing(m)' <=> Flushing(m)
        /\ Flushing(m) => Remaining(m, ff)' = Remaining(m, ff)
    BY <1>2
  <2> HIDE DEF f, d
  <2>6. srv'[m].conn[ff] = ServerEnd(dd) =>
          IF Flushing(m)'
          THEN /\ EndOf(due'[dd], Remaining(m, ff)')
               /\ <<m, ff>> \in orphaned' \/ due'[dd] = Remaining(m, ff)'
          ELSE due'[dd] = <<>>
    BY <1>1, <2>3, <2>4, <2>5
  <2> QED BY <2>2, <2>4, <2>6 DEF Reached
<1> QED BY <1>3 DEF Progress

\* Servers and requests as they were.
LEMMA KeepsRequests ==
  ASSUME Requests, \A m \in Servers : ServerKeeps(m), link' = link, due' = due
  PROVE  Requests'
<1>1. \A m \in Servers : srv'[m].replicas = srv[m].replicas
  BY DEF ServerKeeps
<1> QED BY <1>1 DEF Requests, Asks

\* A server that waits goes on waiting at the same end, and what was heard is heard.
LEMMA HeardStays ==
  ASSUME TypeOK, Polling, Awaited,
         \A m \in Servers : srv'[m].joining # 0 =>
           /\ srv'[m].joining = srv[m].joining
           /\ srv'[m].conn[srv[m].joining] = srv[m].conn[srv[m].joining],
         \A c \in Links : Heard(c) => Heard(c)'
  PROVE  Awaited'
<1>1. \A m \in Servers : srv[m].joining # 0 => srv[m].conn[srv[m].joining].link \in Links
  BY Basics, OpenEnds DEF Polling
<1> QED BY <1>1 DEF Awaited, Awaits

LEMMA KeepsAwaited ==
  ASSUME TypeOK, Polling, Ends, Awaited, link' = link,
         \A m \in Servers : ServerKeeps(m) /\ srv'[m].owed = srv[m].owed
  PROVE  Awaited'
<1>1. ASSUME NEW c \in Links, Heard(c)
      PROVE  Heard(c)'
  <2>1. (Asks(c))' <=> Asks(c)
    BY DEF Asks
  <2>2. ASSUME NEW m \in Servers
        PROVE  Answered(c, m)' <=> Answered(c, m)
    BY DEF Answered, ServerKeeps
  <2>3. link[c].state = "open" => link[c].to \in Servers
    BY DEF Ends
  <2> QED BY <1>1, <2>1, <2>2, <2>3 DEF Heard
<1>2. \A m \in Servers : srv'[m].conn = srv[m].conn /\ srv'[m].joining = srv[m].joining
  BY DEF ServerKeeps
<1> QED BY <1>1, <1>2, HeardStays

LEMMA UserSetOK ==
  ASSUME IInv, NEW n \in Servers, UserSet(n)
  PROVE  IInv'
<1> USE DEF IInv
<1>1. /\ sets + 1 \in Cmds /\ sets' \in Nat /\ srv[n] \in Server /\ srv[n].flush = 0
      /\ srv' = [srv EXCEPT ![n] = Executed(srv[n], sets + 1)]
      /\ link' = link /\ due' = due /\ stray' = stray /\ orphaned' = orphaned /\ failed' = failed
  BY Taken DEF UserSet, Handling, TypeOK, Cmds, hist
<1>2. /\ Executed(srv[n], sets + 1) \in Server
      /\ srv' \in [Servers -> Server]
      /\ srv'[n] = Executed(srv[n], sets + 1)
      /\ \A m \in Servers \ {n} : srv'[m] = srv[m]
  BY <1>1, ExecutedFields, OneServer
<1>3. \A m \in Servers : /\ ServerKeeps(m) /\ srv'[m].owed = srv[m].owed
                         /\ srv'[m].pending = srv[m].pending \/ srv[m].flush = 0
  BY <1>1, <1>2, ExecutedFields DEF ServerKeeps
<1>4. TypeOK'
  BY <1>1, <1>2 DEF TypeOK
<1>5. \A c \in Links : LinkKeeps(c)
  BY <1>1 DEF LinkKeeps
<1>6. Polling' /\ Ends' /\ Listing' /\ Progress' /\ Requests'
  BY <1>1, <1>3, <1>5, KeepsPolling, KeepsEnds, KeepsListing, KeepsProgress, KeepsRequests
<1>7. Awaited'
  BY <1>1, <1>3, KeepsAwaited
<1> QED BY <1>1, <1>4, <1>6, <1>7

LEMMA BreakOK ==
  ASSUME IInv, NEW c \in Links, Break(c)
  PROVE  IInv'
<1> USE DEF IInv
<1>1. <<>> \in Seq(Messages)
  OBVIOUS
<1>2. /\ link' \in [Links -> Link]
      /\ \A d \in Links \ {c} : link'[d] = link[d]
      /\ link'[c].state = "broken" /\ link'[c].to = link[c].to
      /\ link'[c].up = <<>> /\ link'[c].down = <<>>
      /\ link[c].state \in {"backlog", "open"}
  <2> DEFINE l == [link[c] EXCEPT !.state = "broken", !.up = <<>>, !.down = <<>>]
  <2>1. link[c] \in Link
    BY DEF TypeOK
  <2>2. /\ l \in Link /\ l.state = "broken" /\ l.to = link[c].to /\ l.up = <<>> /\ l.down = <<>>
    BY <1>1, <2>1 DEF Link
  <2>3. link' = [link EXCEPT ![c] = l]
    BY <2>1 DEF Break, TypeOK, Link
  <2>4. link[c].state \in {"backlog", "open"}
    BY DEF Break
  <2> HIDE DEF l
  <2> QED BY <2>2, <2>3, <2>4, OneLink
<1>3. srv' = srv /\ sets' = sets /\ due' = due /\ stray' = stray /\ orphaned' = orphaned /\ failed' = failed
  BY DEF Break, hist
<1>4. \A m \in Servers : ServerKeeps(m)
  BY <1>3 DEF ServerKeeps
<1>5. TypeOK'
  BY <1>2, <1>3 DEF TypeOK
<1>6. Polling' /\ Progress'
  BY <1>3, <1>4, KeepsPolling, KeepsProgress
<1>7. Ends'
  <2>1. \A m \in Servers : \A f \in Fds : srv[m].conn[f] # NoEnd =>
          /\ srv[m].conn[f].link \in Links
          /\ link'[srv[m].conn[f].link].state # "unused"
          /\ srv[m].conn[f].side = "server" => /\ link'[srv[m].conn[f].link].to = m
                                               /\ link'[srv[m].conn[f].link].state # "backlog"
    BY <1>2, OpenEnds DEF Ends
  <2> QED BY <1>2, <1>3, <2>1 DEF Ends
<1>8. Listing'
  <2>1. ASSUME NEW m \in Servers, NEW i \in 1 .. Len(srv[m].replicas)
        PROVE  Entry(m, i)'
    <3>1. srv[m].replicas[i][2] \in Links /\ Entry(m, i)
      BY Basics DEF Listing
    <3> QED BY <1>2, <1>3, <3>1 DEF Entry
  <2> QED BY <1>3, <2>1 DEF Listing
<1>9. Requests'
  BY <1>2, <1>3 DEF Requests, Asks
<1>10. Awaited'
  <2>1. \A d \in Links : Heard(d) => Heard(d)'
    BY <1>2, <1>3 DEF Heard, Asks, Answered
  <2> QED BY <1>3, <2>1, HeardStays
<1> QED BY <1>3, <1>5, <1>6, <1>7, <1>8, <1>9, <1>10

\* A connection to server n is opened.
LEMMA OpensFields ==
  ASSUME TypeOK, NEW c \in Links, NEW a, NEW b \in Servers, NEW q \in Seq(Messages),
         a \in Servers \cup {Visitor}, link' = [link EXCEPT ![c] = Opened(a, b, q)]
  PROVE  /\ link' \in [Links -> Link]
         /\ \A d \in Links \ {c} : link'[d] = link[d]
         /\ link'[c].state = "backlog" /\ link'[c].to = b /\ link'[c].from = a
         /\ link'[c].up = q /\ link'[c].down = <<>>
<1> DEFINE l == Opened(a, b, q)
<1>1. <<>> \in Seq(Messages)
  OBVIOUS
<1>2. l \in Link /\ l.state = "backlog" /\ l.to = b /\ l.from = a /\ l.up = q /\ l.down = <<>>
  BY <1>1 DEF Opened, Link
<1> HIDE DEF l
<1>3. link' = [link EXCEPT ![c] = l]
  BY DEF l
<1> QED BY <1>2, <1>3 DEF TypeOK

LEMMA VisitOK ==
  ASSUME IInv, NEW n \in Servers, Visit(n)
  PROVE  IInv'
<1> USE DEF IInv
<1>1. PICK c \in Links : link[c].state = "unused" /\ link' = [link EXCEPT ![c] = Opened(Visitor, n, <<>>)]
  BY Taken DEF Visit
<1>2. /\ link' \in [Links -> Link]
      /\ \A d \in Links \ {c} : link'[d] = link[d]
      /\ link'[c].state = "backlog" /\ link'[c].to = n
      /\ link'[c].up = <<>> /\ link'[c].down = <<>>
  <2>1. <<>> \in Seq(Messages)
    OBVIOUS
  <2> QED BY <1>1, <2>1, OpensFields
<1>3. srv' = srv /\ sets' = sets /\ due' = due /\ stray' = stray /\ orphaned' = orphaned /\ failed' = failed
  BY DEF Visit, hist
<1>4. \A m \in Servers : ServerKeeps(m)
  BY <1>3 DEF ServerKeeps
<1>5. TypeOK'
  BY <1>2, <1>3 DEF TypeOK
<1>6. Polling' /\ Progress'
  BY <1>3, <1>4, KeepsPolling, KeepsProgress
<1>7. Ends'
  <2>1. \A m \in Servers : \A f \in Fds : srv[m].conn[f] # NoEnd =>
          srv[m].conn[f].link \in Links \ {c}
    BY <1>1, OpenEnds DEF Ends
  <2> QED BY <1>2, <1>3, <2>1 DEF Ends
<1>8. Listing'
  <2>1. ASSUME NEW m \in Servers, NEW i \in 1 .. Len(srv[m].replicas)
        PROVE  Entry(m, i)'
    <3>1. srv[m].replicas[i][2] \in Links \ {c} /\ Entry(m, i)
      BY <1>1, Basics DEF Listing, Entry
    <3> QED BY <1>2, <1>3, <3>1 DEF Entry
  <2> QED BY <1>3, <2>1 DEF Listing
<1>9. Requests'
  BY <1>2, <1>3 DEF Requests, Asks
<1>10. Awaited'
  <2>1. \A m \in Servers : srv[m].joining # 0 => srv[m].conn[srv[m].joining].link \in Links \ {c}
    BY <1>1, Basics, OpenEnds DEF Polling, Ends
  <2>2. \A d \in Links \ {c} : Heard(d) => Heard(d)'
    BY <1>2, <1>3 DEF Heard, Asks, Answered
  <2> QED BY <1>3, <2>1, <2>2 DEF Awaited, Awaits
<1> QED BY <1>3, <1>5, <1>6, <1>7, <1>8, <1>9, <1>10

\* A waiting connection is refused: nothing is left of it at the server.
LEMMA RefusedOK ==
  ASSUME IInv, NEW c \in Links, link[c].state = "backlog",
         srv' \in [Servers -> Server], \A m \in Servers : ServerKeeps(m) /\ srv'[m].owed = srv[m].owed,
         \A m \in Servers : srv'[m].pending = srv[m].pending,
         link' = [link EXCEPT ![c].state = "broken"], UNCHANGED <<sets, hist>>
  PROVE  IInv'
<1> USE DEF IInv
<1>1. /\ link' \in [Links -> Link]
      /\ \A d \in Links \ {c} : link'[d] = link[d]
      /\ link'[c].state = "broken" /\ link'[c].to = link[c].to
      /\ link'[c].up = link[c].up /\ link'[c].down = link[c].down
  BY DEF TypeOK, Link
<1>2. sets' = sets /\ due' = due /\ stray' = stray /\ orphaned' = orphaned /\ failed' = failed
  BY DEF hist
<1>3. \A m \in Servers : srv'[m].conn = srv[m].conn /\ srv'[m].replicas = srv[m].replicas
                         /\ srv'[m].joining = srv[m].joining /\ srv'[m].polled = srv[m].polled
  BY DEF ServerKeeps
<1>4. TypeOK'
  BY <1>1, <1>2 DEF TypeOK
<1>5. Polling' /\ Progress'
  BY <1>2, KeepsPolling, KeepsProgress
<1>6. Ends'
  <2>1. \A m \in Servers : \A f \in Fds : srv[m].conn[f] # NoEnd =>
          /\ srv[m].conn[f].link \in Links
          /\ link'[srv[m].conn[f].link].state # "unused"
          /\ srv[m].conn[f].side = "server" => /\ link'[srv[m].conn[f].link].to = m
                                               /\ link'[srv[m].conn[f].link].state # "backlog"
    BY <1>1, OpenEnds DEF Ends
  <2> QED BY <1>1, <1>3, <2>1 DEF Ends
<1>7. Listing'
  <2>1. ASSUME NEW m \in Servers, NEW i \in 1 .. Len(srv[m].replicas)
        PROVE  Entry(m, i)'
    <3>1. srv[m].replicas[i][2] \in Links /\ Entry(m, i)
      BY Basics DEF Listing
    <3> QED BY <1>1, <1>2, <1>3, <3>1 DEF Entry
  <2> QED BY <1>3, <2>1 DEF Listing
<1>8. Requests'
  BY <1>1, <1>2, <1>3 DEF Requests, Asks
<1>9. Awaited'
  <2>1. ASSUME NEW d \in Links, Heard(d)
        PROVE  Heard(d)'
    <3>1. CASE d = c
      BY <1>1, <3>1 DEF Heard
    <3>2. CASE d # c
      <4>1. link'[d] = link[d] /\ (Asks(d)' <=> Asks(d))
        BY <1>1, <3>2 DEF Asks
      <4>2. \A m \in Servers : Answered(d, m)' <=> Answered(d, m)
        BY <1>3 DEF Answered
      <4>3. link[d].state = "open" => link[d].to \in Servers
        BY DEF Ends
      <4> QED BY <2>1, <4>1, <4>2, <4>3 DEF Heard
    <3> QED BY <3>1, <3>2
  <2> QED BY <1>3, <2>1, HeardStays
<1> QED BY <1>2, <1>4, <1>5, <1>6, <1>7, <1>8, <1>9

(***************************************************************************)
(* Steps after which the servers list whom they listed, and a connection   *)
(* that was accepted once has its server's end where it had it.            *)
(***************************************************************************)
Settled(c) == link[c].state \notin {"unused", "backlog"}

EndsKeep ==
  \A m \in Servers : \A g \in Fds : \A d \in Links :
    Settled(d) => (srv'[m].conn[g] = ServerEnd(d) <=> srv[m].conn[g] = ServerEnd(d))

LEMMA ListedAre ==
  ASSUME TypeOK, Listing
  PROVE  \A m \in Servers : \A i \in 1 .. Len(srv[m].replicas) :
           /\ srv[m].replicas[i][1] \in Fds /\ srv[m].replicas[i][2] \in Links
           /\ Settled(srv[m].replicas[i][2]) /\ link[srv[m].replicas[i][2]].to = m
BY Basics DEF Listing, Entry, Settled

LEMMA EntryStays ==
  ASSUME TypeOK, Listing, EndsKeep, NEW m \in Servers, NEW i \in 1 .. Len(srv[m].replicas),
         srv'[m].replicas[i] = srv[m].replicas[i],
         \A d \in Links : Settled(d) => Settled(d)' /\ link'[d].to = link[d].to,
         orphaned' = orphaned
  PROVE  Entry(m, i)'
<1> DEFINE d == srv[m].replicas[i][2]
           f == srv[m].replicas[i][1]
<1>1. f \in Fds /\ d \in Links /\ Settled(d) /\ Settled(d)' /\ link'[d].to = m
  BY ListedAre
<1>2. \A g \in Fds : srv'[m].conn[g] = ServerEnd(d) <=> srv[m].conn[g] = ServerEnd(d)
  BY <1>1 DEF EndsKeep
<1>3. Entry(m, i)
  BY Zenon DEF Listing
<1>4. (srv'[m].conn[f] = ServerEnd(d) \/ <<m, f>> \in orphaned')
      /\ \A g \in Fds : srv'[m].conn[g] = ServerEnd(d) => g = f
  BY <1>1, <1>2, <1>3 DEF Entry
<1>5. srv'[m].replicas[i] = srv[m].replicas[i]
  OBVIOUS
<1> QED BY <1>1, <1>4, <1>5 DEF Entry, Settled

LEMMA ListingStays ==
  ASSUME TypeOK, Listing, EndsKeep, \A m \in Servers : srv'[m].replicas = srv[m].replicas,
         \A d \in Links : Settled(d) => Settled(d)' /\ link'[d].to = link[d].to,
         orphaned' = orphaned
  PROVE  Listing'
<1>1. ASSUME NEW m \in Servers, NEW i \in 1 .. Len(srv[m].replicas)
      PROVE  Entry(m, i)'
  BY EntryStays
<1> QED BY <1>1 DEF Listing

LEMMA ProgressStays ==
  ASSUME TypeOK, Listing, Progress, EndsKeep, \A m \in Servers : srv'[m].replicas = srv[m].replicas,
         \A m \in Servers : /\ Flushing(m)' <=> Flushing(m)
                            /\ Flushing(m) => srv'[m].flush = srv[m].flush
                                              /\ srv'[m].pending = srv[m].pending,
         due' = due, orphaned' = orphaned
  PROVE  Progress'
<1>1. \A m \in Servers : Flushing(m) => \A f : Remaining(m, f)' = Remaining(m, f)
  BY DEF Remaining, Passed
<1>2. ASSUME NEW m \in Servers, NEW i \in 1 .. Len(srv[m].replicas)
      PROVE  Reached(m, i)'
  <2>1. srv[m].replicas[i][1] \in Fds /\ srv[m].replicas[i][2] \in Links
        /\ Settled(srv[m].replicas[i][2])
    BY ListedAre
  <2>2. Reached(m, i) /\ srv'[m].replicas = srv[m].replicas
    BY DEF Progress
  <2>3. srv'[m].conn[srv[m].replicas[i][1]] = ServerEnd(srv[m].replicas[i][2])
        => srv[m].conn[srv[m].replicas[i][1]] = ServerEnd(srv[m].replicas[i][2])
    BY <2>1 DEF EndsKeep
  <2> QED BY <1>1, <2>2, <2>3 DEF Reached
<1> QED BY <1>2 DEF Progress

LEMMA ServerEnds ==
  /\ \A c \in Links : ServerEnd(c) # NoEnd /\ ServerEnd(c).link = c /\ ServerEnd(c).side = "server"
                      /\ ServerEnd(c) \in End
  /\ \A c, d \in Links : ServerEnd(c) = ServerEnd(d) => c = d
<1>1. 0 \notin Links
  BY Taken DEF Links
<1> QED BY <1>1 DEF ServerEnd, NoEnd, End

\* A waiting connection gets descriptor f.
LEMMA AcceptedOK ==
  ASSUME IInv, NEW c \in Links, NEW n \in Servers, NEW f \in Fds,
         link[c].state = "backlog", link[c].to = n, srv[n].conn[f] = NoEnd, srv[n].joining = 0,
         srv' \in [Servers -> Server], \A m \in Servers \ {n} : srv'[m] = srv[m],
         srv'[n].conn = [srv[n].conn EXCEPT ![f] = ServerEnd(c)],
         srv'[n].events = srv[n].events \cup {f}, srv'[n].polled = srv[n].polled \cup {f},
         srv'[n].joining = srv[n].joining, srv'[n].flush = srv[n].flush,
         srv'[n].replicas = srv[n].replicas, srv'[n].master = srv[n].master,
         srv'[n].pending = srv[n].pending, srv'[n].owed = srv[n].owed,
         link' = [link EXCEPT ![c].state = "open"], UNCHANGED <<sets, hist>>
  PROVE  IInv'
<1> USE DEF IInv
<1>1. /\ link' \in [Links -> Link]
      /\ \A d \in Links \ {c} : link'[d] = link[d]
      /\ link'[c].state = "open" /\ link'[c].to = n
      /\ link'[c].up = link[c].up /\ link'[c].down = link[c].down
  <2> DEFINE l == [link[c] EXCEPT !.state = "open"]
  <2>1. link[c] \in Link
    BY DEF TypeOK
  <2>2. /\ l \in Link /\ l.state = "open" /\ l.to = link[c].to
        /\ l.up = link[c].up /\ l.down = link[c].down
    BY <2>1 DEF Link
  <2>3. link' = [link EXCEPT ![c] = l]
    OBVIOUS
  <2> HIDE DEF l
  <2>4. /\ link' \in [Links -> Link]
        /\ link'[c] = l
        /\ \A d \in Links \ {c} : link'[d] = link[d]
    BY <2>2, <2>3, OneLink
  <2> QED BY <2>2, <2>4
<1>2. sets' = sets /\ due' = due /\ stray' = stray /\ orphaned' = orphaned /\ failed' = failed
  BY DEF hist
<1>3. \A m \in Servers : \A g \in Fds :
        srv'[m].conn[g] = IF m = n /\ g = f THEN ServerEnd(c) ELSE srv[m].conn[g]
  <2>1. ASSUME NEW m \in Servers, NEW g \in Fds
        PROVE  srv'[m].conn[g] = IF m = n /\ g = f THEN ServerEnd(c) ELSE srv[m].conn[g]
    <3>1. CASE m = n
      BY <3>1, Basics
    <3>2. CASE m # n
      BY <3>2
    <3> QED BY <3>1, <3>2
  <2> QED BY <2>1
\* No end of c is the server's yet.
<1>4. \A m \in Servers : \A g \in Fds : srv[m].conn[g] # ServerEnd(c)
  BY ServerEnds DEF Ends
<1>5. \A m \in Servers :
        /\ srv'[m].replicas = srv[m].replicas /\ srv'[m].joining = srv[m].joining
        /\ srv'[m].flush = srv[m].flush /\ srv'[m].owed = srv[m].owed
        /\ srv'[m].pending = srv[m].pending /\ srv'[m].master = srv[m].master
        /\ srv'[m].polled = IF m = n THEN srv[m].polled \cup {f} ELSE srv[m].polled
        /\ srv'[m].events = IF m = n THEN srv[m].events \cup {f} ELSE srv[m].events
  <2>1. ASSUME NEW m \in Servers, m # n
        PROVE  srv'[m] = srv[m]
    BY <2>1
  <2> QED BY <2>1
<1>6. TypeOK'
  BY <1>1, <1>2 DEF TypeOK
<1>7. srv[n].conn[f] = NoEnd /\ srv[n].joining = 0 /\ link[c].state = "backlog"
  OBVIOUS
<1>8. Polling'
  <2>1. ASSUME NEW m \in Servers, NEW g \in Fds
        PROVE  /\ srv'[m].conn[g].link = 0 => srv'[m].conn[g] = NoEnd
               /\ g \in srv'[m].polled => srv'[m].conn[g] # NoEnd /\ srv'[m].joining # g
               /\ <<m, g>> \in failed \/ g \in srv'[m].polled \/ srv'[m].conn[g] = NoEnd \/ srv'[m].joining = g
               /\ <<m, g>> \in failed \/ (g \in srv'[m].events <=> g \in srv'[m].polled)
    <3>1. CASE m = n /\ g = f
      <4>1. /\ srv'[m].conn[g] = ServerEnd(c) /\ srv'[m].joining = 0 /\ 0 \notin Fds
            /\ g \in srv'[m].polled /\ g \in srv'[m].events
        BY <1>3, <1>5, <1>7, <3>1, Basics
      <4> QED BY <4>1, ServerEnds, Basics
    <3>2. CASE ~ (m = n /\ g = f)
      <4>1. /\ srv'[m].conn[g] = srv[m].conn[g] /\ srv'[m].joining = srv[m].joining
            /\ g \in srv'[m].polled <=> g \in srv[m].polled
            /\ g \in srv'[m].events <=> g \in srv[m].events
        BY <1>3, <1>5, <3>2
      <4> QED BY <4>1 DEF Polling
    <3> QED BY <3>1, <3>2
  <2>2. ASSUME NEW m \in Servers, srv'[m].joining # 0
        PROVE  /\ srv'[m].flush = 0 /\ srv'[m].conn[srv'[m].joining] # NoEnd
               /\ srv'[m].conn[srv'[m].joining].side = "client"
    <3>1. m # n /\ srv[m].joining # 0 /\ srv[m].joining \in Fds /\ srv'[m].joining = srv[m].joining
      BY <1>5, <1>7, <2>2, Basics
    <3>2. srv'[m].conn[srv[m].joining] = srv[m].conn[srv[m].joining]
      <4> HIDE DEF IInv
      <4> QED BY <1>3, <3>1
    <3> QED BY <1>5, <3>1, <3>2 DEF Polling
  <2> QED BY <1>2, <2>1, <2>2 DEF Polling
<1>9. Ends'
  <2>1. ASSUME NEW m \in Servers, NEW k \in Servers, NEW g \in Fds, NEW h \in Fds,
               srv'[m].conn[g] = srv'[k].conn[h], srv'[m].conn[g] # NoEnd
        PROVE  m = k /\ g = h
    <3>1. CASE srv'[m].conn[g] = ServerEnd(c)
      <4>1. srv'[k].conn[h] = ServerEnd(c)
        BY <2>1, <3>1
      <4>2. \A x \in Servers : \A y \in Fds : srv'[x].conn[y] = ServerEnd(c) => x = n /\ y = f
        BY <1>3, <1>4
      <4> QED BY <3>1, <4>1, <4>2
    <3>2. CASE srv'[m].conn[g] # ServerEnd(c)
      <4>1. srv[m].conn[g] = srv'[m].conn[g] /\ srv[k].conn[h] = srv'[k].conn[h]
        BY <1>3, <2>1, <3>2
      <4> QED BY <2>1, <4>1 DEF Ends
    <3> QED BY <3>1, <3>2
  <2>2. ASSUME NEW m \in Servers, NEW g \in Fds, srv'[m].conn[g] # NoEnd
        PROVE  LET e == srv'[m].conn[g]
               IN  /\ link'[e.link].state # "unused"
                   /\ e.side = "server" => link'[e.link].to = m /\ link'[e.link].state # "backlog"
    <3>1. CASE m = n /\ g = f
      BY <1>1, <1>3, <3>1, ServerEnds
    <3>2. CASE ~ (m = n /\ g = f)
      <4>1. srv'[m].conn[g] = srv[m].conn[g] /\ srv[m].conn[g] # NoEnd
        BY <1>3, <2>2, <3>2
      <4>2. srv[m].conn[g].link \in Links
        BY <4>1, OpenEnds
      <4>3. CASE srv[m].conn[g].link = c
        BY <1>1, <1>7, <4>1, <4>3 DEF Ends
      <4>4. CASE srv[m].conn[g].link # c
        BY <1>1, <4>1, <4>2, <4>4 DEF Ends
      <4> QED BY <4>3, <4>4
    <3> QED BY <3>1, <3>2
  <2>3. ASSUME NEW d \in Links
        PROVE  /\ link'[d].state = "backlog" => link'[d].to \in Servers
               /\ link'[d].state = "open" =>
                    /\ link'[d].to \in Servers
                    /\ \E g \in srv'[link'[d].to].polled : srv'[link'[d].to].conn[g] = ServerEnd(d)
    <3>1. CASE d = c
      <4>1. srv'[n].conn[f] = ServerEnd(c) /\ f \in srv'[n].polled
        BY <1>3, <1>5
      <4>2. link'[d].state = "open" /\ link'[d].to = n
        BY <1>1, <3>1
      <4>3. \E g \in srv'[n].polled : srv'[n].conn[g] = ServerEnd(d)
        BY <3>1, <4>1
      <4> QED BY <4>2, <4>3
    <3>2. CASE d # c /\ link[d].state = "open"
      <4>1. PICK g \in srv[link[d].to].polled : srv[link[d].to].conn[g] = ServerEnd(d)
        BY <3>2 DEF Ends
      <4>2. link[d].to \in Servers /\ g \in Fds
        BY <3>2, <4>1, Basics DEF Ends
      <4>3. ~ (link[d].to = n /\ g = f)
        BY <1>7, <4>1, ServerEnds
      <4>4. srv'[link[d].to].conn[g] = ServerEnd(d) /\ g \in srv'[link[d].to].polled
        BY <1>3, <1>5, <4>1, <4>2, <4>3
      <4> QED BY <1>1, <3>2, <4>2, <4>4
    <3>3. CASE d # c /\ link[d].state # "open"
      BY <1>1, <3>3 DEF Ends
    <3> QED BY <3>1, <3>2, <3>3
  <2> HIDE DEF IInv
  <2> QED BY <2>1, <2>2, <2>3 DEF Ends
<1>10. EndsKeep
  BY <1>3, <1>4, <1>7, ServerEnds DEF EndsKeep, Settled
<1>11. Listing'
  <2>1. \A d \in Links : Settled(d) => Settled(d)' /\ link'[d].to = link[d].to
    BY <1>1 DEF Settled
  <2> QED BY <1>2, <1>5, <1>10, <2>1, ListingStays
<1>12. Progress'
  <2>1. \A m \in Servers : Flushing(m)' <=> Flushing(m)
    BY <1>5 DEF Flushing, Streams
  <2> QED BY <1>2, <1>5, <1>10, <2>1, ProgressStays
<1>13. Requests'
  <2>1. ASSUME NEW d \in Links
        PROVE  /\ link'[d].up = link[d].up /\ link'[d].down = link[d].down
               /\ link[d].state = "unused" <=> link'[d].state = "unused"
    BY <1>1, <1>7
  <2>2. \A d \in Links : Asks(d)' <=> Asks(d)
    BY <2>1 DEF Asks
  <2>3. \A m \in Servers : srv'[m].replicas = srv[m].replicas
    BY <1>5
  <2> HIDE DEF IInv
  <2>4. Requests
    BY DEF IInv
  <2> QED BY <1>2, <2>1, <2>2, <2>3, <2>4 DEF Requests
<1>14. Awaited'
  <2>1. ASSUME NEW d \in Links, Heard(d)
        PROVE  Heard(d)'
    <3>1. CASE d = c
      BY <1>1, <1>7, <2>1, <3>1 DEF Heard, Asks
    <3>2. CASE d # c
      <4>1. link'[d] = link[d] /\ (Asks(d)' <=> Asks(d))
        BY <1>1, <3>2 DEF Asks
      <4>2. \A m \in Servers : Answered(d, m)' <=> Answered(d, m)
        BY <1>3, <1>5, <1>7, <3>2, ServerEnds DEF Answered
      <4>3. link[d].state = "open" => link[d].to \in Servers
        BY DEF Ends
      <4> QED BY <2>1, <4>1, <4>2, <4>3 DEF Heard
    <3> QED BY <3>1, <3>2
  <2>2. ASSUME NEW m \in Servers, srv'[m].joining # 0
        PROVE  /\ srv'[m].joining = srv[m].joining
               /\ srv'[m].conn[srv[m].joining] = srv[m].conn[srv[m].joining]
    BY <1>3, <1>5, <1>7, <2>2, Basics
  <2> QED BY <2>1, <2>2, HeardStays
<1> QED BY <1>2, <1>6, <1>8, <1>9, <1>11, <1>12, <1>13, <1>14

LEMMA AcceptOK ==
  ASSUME IInv, NEW n \in Servers, Accept(n)
  PROVE  IInv'
<1> USE DEF IInv
<1>1. PICK c \in Links, f \in Fds :
        /\ link[c].state = "backlog" /\ link[c].to = n /\ srv[n].conn[f] = NoEnd
        /\ LET s == AddFileEvent([srv[n] EXCEPT !.conn[f] = ServerEnd(c)], f)
           IN  IF f \in s.polled
               THEN srv' = [srv EXCEPT ![n] = s] /\ link' = [link EXCEPT ![c].state = "open"]
               ELSE srv' = [srv EXCEPT ![n] = Closed(s, f)] /\ link' = [link EXCEPT ![c].state = "broken"]
  <2> DEFINE waiting == {c \in Links : link[c].state = "backlog" /\ link[c].to = n}
  <2>1. Least(waiting) \in waiting /\ Least(Free(n)) \in Fds /\ srv[n].conn[Least(Free(n))] = NoEnd
    BY Taken DEF Accept
  <2> QED BY <2>1 DEF Accept, ServerEnd
<1>2. srv[n].joining = 0 /\ UNCHANGED <<sets, hist>> /\ srv[n] \in Server
  BY Basics DEF Accept, Handling
<1> DEFINE s0 == [srv[n] EXCEPT !.conn[f] = ServerEnd(c)]
           s  == AddFileEvent(s0, f)
<1>3. /\ s0 \in Server /\ s0.conn = [srv[n].conn EXCEPT ![f] = ServerEnd(c)]
      /\ s0.events = srv[n].events /\ s0.polled = srv[n].polled /\ s0.joining = srv[n].joining
      /\ s0.flush = srv[n].flush /\ s0.replicas = srv[n].replicas /\ s0.master = srv[n].master
      /\ s0.pending = srv[n].pending /\ s0.owed = srv[n].owed
  BY <1>2, ServerEnds DEF Server
<1> HIDE DEF s0
<1>4. /\ s \in Server /\ s.conn = s0.conn /\ s.events = s0.events \cup {f}
      /\ s.polled = IF f \in s0.events THEN s0.polled ELSE s0.polled \cup {f}
      /\ s.joining = s0.joining /\ s.flush = s0.flush /\ s.replicas = s0.replicas
      /\ s.master = s0.master /\ s.pending = s0.pending /\ s.owed = s0.owed
  BY <1>3, AddFields
<1>5. f \notin srv[n].polled
  BY <1>1 DEF Polling
<1>6. IF f \in s.polled
      THEN srv' = [srv EXCEPT ![n] = s] /\ link' = [link EXCEPT ![c].state = "open"]
      ELSE srv' = [srv EXCEPT ![n] = Closed(s, f)] /\ link' = [link EXCEPT ![c].state = "broken"]
  BY <1>1 DEF s0
<1> HIDE DEF s
<1>7. CASE f \in s.polled
  <2>1. /\ srv' \in [Servers -> Server] /\ srv'[n] = s
        /\ \A m \in Servers \ {n} : srv'[m] = srv[m]
    BY <1>4, <1>6, <1>7, OneServer
  <2>2. s.polled = srv[n].polled \cup {f} /\ s.events = srv[n].events \cup {f}
    BY <1>3, <1>4, <1>5, <1>7
  <2>3. /\ link' = [link EXCEPT ![c].state = "open"]
        /\ srv'[n].conn = [srv[n].conn EXCEPT ![f] = ServerEnd(c)]
        /\ srv'[n].events = srv[n].events \cup {f} /\ srv'[n].polled = srv[n].polled \cup {f}
        /\ srv'[n].joining = srv[n].joining /\ srv'[n].flush = srv[n].flush
        /\ srv'[n].replicas = srv[n].replicas /\ srv'[n].master = srv[n].master
        /\ srv'[n].pending = srv[n].pending /\ srv'[n].owed = srv[n].owed
    BY <1>3, <1>4, <1>6, <1>7, <2>1, <2>2
  <2> HIDE DEF IInv
  <2> QED BY <1>1, <1>2, <2>1, <2>3, AcceptedOK
<1>8. CASE f \notin s.polled
  <2> DEFINE r == Closed(s, f)
  <2>1. /\ r \in Server /\ r.events = s.events /\ r.polled = s.polled \ {f}
        /\ r.conn = [s.conn EXCEPT ![f] = NoEnd] /\ r.master = s.master /\ r.pending = s.pending
        /\ r.replicas = s.replicas /\ r.owed = s.owed /\ r.joining = s.joining
        /\ r.flush = s.flush
    BY <1>4, ClosedFields
  <2>2. srv' = [srv EXCEPT ![n] = r] /\ link' = [link EXCEPT ![c].state = "broken"]
    BY <1>6, <1>8
  <2> HIDE DEF r
  <2>3. /\ srv' \in [Servers -> Server] /\ srv'[n] = r
        /\ \A m \in Servers \ {n} : srv'[m] = srv[m]
    BY <2>1, <2>2, OneServer
  <2>4. f \in srv[n].events
    BY <1>3, <1>4, <1>8
  <2>5. r.conn = srv[n].conn
    BY <1>1, <1>3, <1>4, <2>1, Basics
  <2>6. r.polled = srv[n].polled /\ r.events = srv[n].events
    BY <1>3, <1>4, <1>5, <2>1, <2>4
  <2>7. \A m \in Servers : ServerKeeps(m) /\ srv'[m].owed = srv[m].owed /\ srv'[m].pending = srv[m].pending
    BY <1>3, <1>4, <2>1, <2>3, <2>5, <2>6 DEF ServerKeeps
  <2> HIDE DEF IInv
  <2> QED BY <1>1, <1>2, <2>2, <2>3, <2>7, RefusedOK
<1> QED BY <1>7, <1>8

ClientEnd(c) == [link |-> c, side |-> "client"]

LEMMA ReplicaOfOK ==
  ASSUME IInv, NEW n \in Servers, NEW k \in Servers, ReplicaOf(n, k)
  PROVE  IInv'
<1> USE DEF IInv
<1>1. PICK f \in Fds, c \in Links :
        /\ srv[n].conn[f] = NoEnd /\ link[c].state = "unused"
        /\ srv' = [srv EXCEPT ![n].conn[f] = ClientEnd(c), ![n].joining = f]
        /\ link' = [link EXCEPT ![c] = Opened(n, k, <<Replica>>)]
  BY Taken DEF ReplicaOf, ClientEnd
<1>2. /\ srv[n].joining = 0 /\ srv[n].flush = 0 /\ srv[n] \in Server
      /\ sets' = sets /\ due' = due /\ stray' = stray /\ orphaned' = orphaned /\ failed' = failed
  BY Basics DEF ReplicaOf, Handling, hist
<1>3. /\ ClientEnd(c) # NoEnd /\ ClientEnd(c).link = c /\ ClientEnd(c).side = "client"
      /\ ClientEnd(c) \in End /\ 0 \notin Fds
  BY Basics DEF ClientEnd, NoEnd, End
<1>4. /\ link' \in [Links -> Link]
      /\ \A d \in Links \ {c} : link'[d] = link[d]
      /\ link'[c].state = "backlog" /\ link'[c].to = k
      /\ link'[c].up = <<Replica>> /\ link'[c].down = <<>>
  <2>1. <<Replica>> \in Seq(Messages)
    BY DEF Messages
  <2> QED BY <1>1, <2>1, OpensFields
<1> DEFINE s == [srv[n] EXCEPT !.conn[f] = ClientEnd(c), !.joining = f]
<1>5. /\ s \in Server /\ s.conn = [srv[n].conn EXCEPT ![f] = ClientEnd(c)]
      /\ s.events = srv[n].events /\ s.polled = srv[n].polled /\ s.joining = f
      /\ s.flush = srv[n].flush /\ s.replicas = srv[n].replicas /\ s.master = srv[n].master
      /\ s.pending = srv[n].pending /\ s.owed = srv[n].owed
  BY <1>2, <1>3 DEF Server
<1>6. srv' = [srv EXCEPT ![n] = s]
  BY <1>1, <1>2 DEF TypeOK
<1> HIDE DEF s
<1>7. /\ srv' \in [Servers -> Server] /\ srv'[n] = s
      /\ \A m \in Servers \ {n} : srv'[m] = srv[m]
  BY <1>5, <1>6, OneServer
<1>8. \A m \in Servers : \A g \in Fds :
        srv'[m].conn[g] = IF m = n /\ g = f THEN ClientEnd(c) ELSE srv[m].conn[g]
  <2>1. ASSUME NEW m \in Servers, NEW g \in Fds
        PROVE  srv'[m].conn[g] = IF m = n /\ g = f THEN ClientEnd(c) ELSE srv[m].conn[g]
    <3>1. CASE m = n
      BY <1>5, <1>7, <3>1, Basics
    <3>2. CASE m # n
      BY <1>7, <3>2
    <3> QED BY <3>1, <3>2
  <2> QED BY <2>1
<1>9. \A m \in Servers :
        /\ srv'[m].replicas = srv[m].replicas /\ srv'[m].flush = srv[m].flush
        /\ srv'[m].owed = srv[m].owed /\ srv'[m].polled = srv[m].polled
        /\ srv'[m].pending = srv[m].pending /\ srv'[m].master = srv[m].master
        /\ srv'[m].events = srv[m].events
        /\ srv'[m].joining = IF m = n THEN f ELSE srv[m].joining
  BY <1>5, <1>7
\* No end of c is anywhere yet.
<1>10. \A m \in Servers : \A g \in Fds : srv[m].conn[g] # NoEnd => srv[m].conn[g].link # c
  BY <1>1 DEF Ends
<1>11. TypeOK'
  BY <1>2, <1>4, <1>7 DEF TypeOK
<1>12. Polling'
  <2>1. ASSUME NEW m \in Servers, NEW g \in Fds
        PROVE  /\ srv'[m].conn[g].link = 0 => srv'[m].conn[g] = NoEnd
               /\ g \in srv'[m].polled => srv'[m].conn[g] # NoEnd /\ srv'[m].joining # g
               /\ <<m, g>> \in failed \/ g \in srv'[m].polled \/ srv'[m].conn[g] = NoEnd \/ srv'[m].joining = g
               /\ <<m, g>> \in failed \/ (g \in srv'[m].events <=> g \in srv'[m].polled)
    <3>1. CASE m = n /\ g = f
      <4>1. /\ srv'[m].conn[g] = ClientEnd(c) /\ srv'[m].joining = g /\ c # 0
            /\ srv'[m].polled = srv[m].polled /\ srv'[m].events = srv[m].events
            /\ g \notin srv[m].polled
        <5>1. g \notin srv[m].polled /\ c # 0
          BY <1>1, <3>1, Basics DEF Polling
        <5> QED BY <1>8, <1>9, <3>1, <5>1
      <4> QED BY <1>3, <4>1 DEF Polling
    <3>2. CASE ~ (m = n /\ g = f)
      <4>1. /\ srv'[m].conn[g] = srv[m].conn[g]
            /\ srv'[m].joining = g <=> srv[m].joining = g
            /\ g \in srv'[m].polled <=> g \in srv[m].polled
            /\ g \in srv'[m].events <=> g \in srv[m].events
        BY <1>2, <1>3, <1>8, <1>9, <3>2
      <4> QED BY <4>1 DEF Polling
    <3> QED BY <3>1, <3>2
  <2>2. ASSUME NEW m \in Servers, srv'[m].joining # 0
        PROVE  /\ srv'[m].flush = 0 /\ srv'[m].conn[srv'[m].joining] # NoEnd
               /\ srv'[m].conn[srv'[m].joining].side = "client"
    <3>1. CASE m = n
      BY <1>2, <1>3, <1>8, <1>9, <3>1
    <3>2. CASE m # n
      <4>1. srv[m].joining # 0 /\ srv[m].joining \in Fds /\ srv'[m].joining = srv[m].joining
        BY <1>9, <2>2, <3>2, Basics
      <4>2. srv'[m].conn[srv[m].joining] = srv[m].conn[srv[m].joining]
        BY <1>8, <3>2, <4>1
      <4> QED BY <1>9, <4>1, <4>2 DEF Polling
    <3> QED BY <3>1, <3>2
  <2> QED BY <1>2, <2>1, <2>2 DEF Polling
<1>13. Ends'
  <2>1. ASSUME NEW m \in Servers, NEW j \in Servers, NEW g \in Fds, NEW h \in Fds,
               srv'[m].conn[g] = srv'[j].conn[h], srv'[m].conn[g] # NoEnd
        PROVE  m = j /\ g = h
    <3>1. CASE srv'[m].conn[g] = ClientEnd(c)
      <4>1. srv'[j].conn[h] = ClientEnd(c)
        BY <2>1, <3>1
      <4>2. \A x \in Servers : \A y \in Fds : srv'[x].conn[y] = ClientEnd(c) => x = n /\ y = f
        BY <1>3, <1>8, <1>10
      <4> QED BY <3>1, <4>1, <4>2
    <3>2. CASE srv'[m].conn[g] # ClientEnd(c)
      <4>1. srv[m].conn[g] = srv'[m].conn[g] /\ srv[j].conn[h] = srv'[j].conn[h]
        BY <1>8, <2>1, <3>2
      <4> QED BY <2>1, <4>1 DEF Ends
    <3> QED BY <3>1, <3>2
  <2>2. ASSUME NEW m \in Servers, NEW g \in Fds, srv'[m].conn[g] # NoEnd
        PROVE  LET e == srv'[m].conn[g]
               IN  /\ link'[e.link].state # "unused"
                   /\ e.side = "server" => link'[e.link].to = m /\ link'[e.link].state # "backlog"
    <3>1. CASE m = n /\ g = f
      BY <1>3, <1>4, <1>8, <3>1
    <3>2. CASE ~ (m = n /\ g = f)
      <4>1. srv'[m].conn[g] = srv[m].conn[g] /\ srv[m].conn[g] # NoEnd
        BY <1>8, <2>2, <3>2
      <4>2. srv[m].conn[g].link \in Links \ {c}
        BY <1>10, <4>1, OpenEnds
      <4> QED BY <1>4, <4>1, <4>2 DEF Ends
    <3> QED BY <3>1, <3>2
  <2>3. ASSUME NEW d \in Links
        PROVE  /\ link'[d].state = "backlog" => link'[d].to \in Servers
               /\ link'[d].state = "open" =>
                    /\ link'[d].to \in Servers
                    /\ \E g \in srv'[link'[d].to].polled : srv'[link'[d].to].conn[g] = ServerEnd(d)
    <3>1. CASE d = c
      BY <1>4, <3>1
    <3>2. CASE d # c /\ link[d].state = "open"
      <4>1. PICK g \in srv[link[d].to].polled : srv[link[d].to].conn[g] = ServerEnd(d)
        BY <3>2 DEF Ends
      <4>2. link[d].to \in Servers /\ g \in Fds
        BY <3>2, <4>1, Basics DEF Ends
      <4>3. ~ (link[d].to = n /\ g = f)
        BY <1>1, <4>1, ServerEnds
      <4>4. srv'[link[d].to].conn[g] = ServerEnd(d) /\ g \in srv'[link[d].to].polled
        BY <1>8, <1>9, <4>1, <4>2, <4>3
      <4> QED BY <1>4, <3>2, <4>2, <4>4
    <3>3. CASE d # c /\ link[d].state # "open"
      BY <1>4, <3>3 DEF Ends
    <3> QED BY <3>1, <3>2, <3>3
  <2> HIDE DEF IInv
  <2> QED BY <2>1, <2>2, <2>3 DEF Ends
<1>14. \A m \in Servers : \A g \in Fds : \A d \in Links :
         srv'[m].conn[g] = ServerEnd(d) <=> srv[m].conn[g] = ServerEnd(d)
  <2>1. \A d \in Links : ClientEnd(c) # ServerEnd(d) /\ NoEnd # ServerEnd(d)
    BY <1>3, ServerEnds
  <2>2. ASSUME NEW m \in Servers, NEW g \in Fds, NEW d \in Links
        PROVE  srv'[m].conn[g] = ServerEnd(d) <=> srv[m].conn[g] = ServerEnd(d)
    <3>1. CASE m = n /\ g = f
      BY <1>1, <1>8, <2>1, <3>1, ZenonT(40)
    <3>2. CASE ~ (m = n /\ g = f)
      BY <1>8, <3>2
    <3> QED BY <3>1, <3>2
  <2> QED BY <2>2
<1>15. \A m \in Servers : \A i \in 1 .. Len(srv[m].replicas) : srv[m].replicas[i][2] # c
  BY <1>1, ListedAre DEF Settled
<1>16. EndsKeep
  BY <1>14 DEF EndsKeep
<1>17. Listing'
  <2>1. \A d \in Links : Settled(d) => Settled(d)' /\ link'[d].to = link[d].to
    BY <1>1, <1>4 DEF Settled
  <2> QED BY <1>2, <1>9, <1>16, <2>1, ListingStays
<1>18. Progress'
  <2>1. \A m \in Servers : Flushing(m)' <=> Flushing(m)
    BY <1>9 DEF Flushing, Streams
  <2> QED BY <1>2, <1>9, <1>16, <2>1, ProgressStays
<1>19. Requests'
  <2>1. ASSUME NEW d \in Links \ {c}
        PROVE  link'[d] = link[d] /\ (Asks(d)' <=> Asks(d))
    BY <1>4 DEF Asks
  <2>2. \A m \in Servers : srv'[m].replicas = srv[m].replicas
    BY <1>9
  <2>3. ASSUME NEW m \in Servers, NEW i \in 1 .. Len(srv'[m].replicas)
        PROVE  srv'[m].replicas[i][2] # c
    BY <1>15, <2>2
  <2>4. /\ \A i \in 1 .. Len(link'[c].down) : link'[c].down[i] # Replica
        /\ \A i \in 1 .. Len(link'[c].up) : link'[c].up[i] = Replica => i = 1
        /\ link'[c].state # "unused"
        /\ due'[c] = <<>>
    BY <1>1, <1>2, <1>4 DEF Requests
  <2> HIDE DEF IInv
  <2>5. Requests
    BY DEF IInv
  <2>6. ASSUME NEW d \in Links
        PROVE  /\ \A i \in 1 .. Len(link'[d].down) : link'[d].down[i] # Replica
               /\ \A i \in 1 .. Len(link'[d].up) : link'[d].up[i] = Replica => i = 1
               /\ Asks(d)' => /\ link'[d].state # "unused"
                              /\ due'[d] = <<>>
                              /\ \A m \in Servers : \A i \in 1 .. Len(srv'[m].replicas) :
                                   srv'[m].replicas[i][2] # d
               /\ link'[d].state = "unused" => due'[d] = <<>>
    <3>1. CASE d = c
      BY <2>3, <2>4, <3>1
    <3>2. CASE d # c
      BY <1>2, <2>1, <2>2, <2>5, <3>2 DEF Requests
    <3> QED BY <3>1, <3>2
  <2> QED BY <2>6 DEF Requests
<1>20. Awaited'
  <2>1. ASSUME NEW d \in Links \ {c}, Heard(d)
        PROVE  Heard(d)'
    <3>1. link'[d] = link[d] /\ (Asks(d)' <=> Asks(d))
      BY <1>4 DEF Asks
    <3>2. \A m \in Servers : Answered(d, m)' <=> Answered(d, m)
      BY <1>9, <1>14 DEF Answered
    <3>3. link[d].state = "open" => link[d].to \in Servers
      BY DEF Ends
    <3> QED BY <2>1, <3>1, <3>2, <3>3 DEF Heard
  <2>2. Heard(c)'
    BY <1>4 DEF Heard, Asks
  <2>3. ASSUME NEW m \in Servers, srv'[m].joining # 0
        PROVE  \E d \in Links : srv'[m].conn[srv'[m].joining].link = d /\ Heard(d)'
    <3>1. CASE m = n
      BY <1>3, <1>8, <1>9, <2>2, <3>1
    <3>2. CASE m # n
      <4>1. srv[m].joining # 0 /\ srv[m].joining \in Fds /\ srv'[m].joining = srv[m].joining
        BY <1>9, <2>3, <3>2, Basics
      <4>2. srv'[m].conn[srv[m].joining] = srv[m].conn[srv[m].joining]
        BY <1>8, <3>2, <4>1
      <4>3. srv[m].conn[srv[m].joining].link \in Links \ {c}
        BY <1>10, <4>1, OpenEnds DEF Polling
      <4>4. Heard(srv[m].conn[srv[m].joining].link)
        BY <4>1 DEF Awaited, Awaits
      <4> QED BY <2>1, <4>1, <4>2, <4>3, <4>4
    <3> QED BY <3>1, <3>2
  <2> QED BY <2>3 DEF Awaited, Awaits
<1> QED BY <1>2, <1>11, <1>12, <1>13, <1>17, <1>18, <1>19, <1>20

\* Nothing is asked that was not.
LEMMA RequestsStay ==
  ASSUME Requests, due' = due, \A m \in Servers : srv'[m].replicas = srv[m].replicas,
         \A d \in Links :
           /\ link'[d].state = "unused" <=> link[d].state = "unused"
           /\ \A i \in 1 .. Len(link'[d].down) : link'[d].down[i] # Replica
           /\ \A i \in 1 .. Len(link'[d].up) : link'[d].up[i] = Replica => i = 1 /\ Asks(d)
  PROVE  Requests'
<1>1. \A d \in Links : Asks(d)' => Asks(d)
  BY DEF Asks
<1> QED BY <1>1 DEF Requests

LEMMA OnTheWay ==
  ASSUME Requests
  PROVE  \A d \in Links :
           /\ \A i \in 1 .. Len(link[d].down) : link[d].down[i] # Replica
           /\ \A i \in 1 .. Len(link[d].up) : link[d].up[i] = Replica => i = 1 /\ Asks(d)
BY DEF Requests, Asks

LEMMA TailIs ==
  ASSUME NEW S, NEW q \in Seq(S), q # <<>>
  PROVE  /\ Tail(q) \in Seq(S) /\ Len(Tail(q)) = Len(q) - 1 /\ Head(q) = q[1] /\ Head(q) \in S
         /\ Len(q) \in Nat \ {0}
         /\ \A i \in 1 .. Len(Tail(q)) : Tail(q)[i] = q[i + 1] /\ i + 1 \in 1 .. Len(q)
OBVIOUS

LEMMA TailLacks ==
  ASSUME NEW S, NEW q \in Seq(S), q # <<>>, NEW x, \A i \in 1 .. Len(q) : q[i] # x
  PROVE  \A i \in 1 .. Len(Tail(q)) : Tail(q)[i] # x
BY TailIs

\* The connection at which n waits.
WaitsAt(n) == srv[n].conn[srv[n].joining].link

\* Two servers never wait at the same connection.
LEMMA WaitApart ==
  ASSUME TypeOK, Polling, Ends, NEW m \in Servers, NEW k \in Servers, m # k,
         srv[m].joining # 0, srv[k].joining # 0
  PROVE  WaitsAt(m) # WaitsAt(k) /\ WaitsAt(m) \in Links
<1>1. PICK f, g : f = srv[m].joining /\ g = srv[k].joining
  OBVIOUS
<1>2. /\ f \in Fds /\ g \in Fds
      /\ srv[m].conn[f] \in End /\ srv[k].conn[g] \in End
  BY <1>1, Basics
<1>3. /\ srv[m].conn[f] # NoEnd /\ srv[m].conn[f].side = "client"
      /\ srv[k].conn[g] # NoEnd /\ srv[k].conn[g].side = "client"
  BY <1>1 DEF Polling
<1>4. srv[m].conn[f].link \in Links
  BY <1>2, <1>3, OpenEnds
<1>5. srv[m].conn[f] # srv[k].conn[g]
  BY <1>2, <1>3 DEF Ends
<1>6. \A d, e \in End : d.link = e.link /\ d.side = e.side => d = e
  BY DEF End
<1>7. srv[m].conn[f].link # srv[k].conn[g].link
  BY <1>2, <1>3, <1>5, <1>6
<1> QED BY <1>1, <1>4, <1>7 DEF WaitsAt

\* What is heard at a connection of C, a step leaves so.
HeardStay(C) == \A d \in C : Heard(d) => Heard(d)'

\* A wait ends, and nothing is heard the less of the others.
LEMMA WaitEnds ==
  ASSUME TypeOK, Polling, Ends, Awaited, NEW n \in Servers, srv[n].joining # 0, srv'[n].joining = 0,
         \A m \in Servers \ {n} : srv'[m] = srv[m],
         HeardStay(Links \ {WaitsAt(n)})
  PROVE  Awaited'
<1>1. ASSUME NEW m \in Servers, srv'[m].joining # 0
      PROVE  Awaits(m)'
  <2>1. m # n /\ srv'[m] = srv[m]
    BY <1>1
  <2>2. srv[m].joining # 0
    BY <1>1, <2>1
  <2>3. PICK d : d = WaitsAt(m)
    OBVIOUS
  <2>4. d \in Links \ {WaitsAt(n)}
    BY <2>1, <2>2, <2>3, WaitApart
  <2>5. Heard(d)
    BY <2>2, <2>3 DEF Awaited, Awaits, WaitsAt
  <2>6. Heard(d)'
    BY <2>4, <2>5 DEF HeardStay
  <2> QED BY <2>1, <2>3, <2>6 DEF Awaits, WaitsAt
<1>2. ASSUME NEW m \in Servers
      PROVE  Awaits(m)'
  <2>1. CASE srv'[m].joining = 0
    BY <2>1 DEF Awaits
  <2>2. CASE srv'[m].joining # 0
    BY <1>1, <2>2
  <2> QED BY <2>1, <2>2
<1> QED BY <1>2 DEF Awaited

LEMMA JoinAcceptedOK ==
  ASSUME IInv, NEW n \in Servers, JoinAccepted(n)
  PROVE  IInv'
<1> USE DEF IInv
<1> DEFINE f == srv[n].joining
           c == srv[n].conn[f].link
           s == AddFileEvent(srv[n], f)
           r == [s EXCEPT !.master = f, !.joining = 0]
<1>0. f = srv[n].joining /\ c = srv[n].conn[f].link
  OBVIOUS
<1>1. /\ f # 0 /\ link[c].down # <<>>
      /\ srv' = [srv EXCEPT ![n] = r]
      /\ link' = [link EXCEPT ![c].down = Tail(@)]
      /\ sets' = sets /\ due' = due /\ stray' = stray /\ orphaned' = orphaned /\ failed' = failed
  BY Zenon DEF JoinAccepted, Joining, hist
<1>2. /\ f \in Fds /\ c \in Links /\ srv[n] \in Server /\ srv[n].flush = 0 /\ 0 \notin Fds
      /\ srv[n].conn[f] # NoEnd /\ f \notin srv[n].polled
  BY <1>1, Basics, OpenEnds, Zenon DEF Polling
<1>3. /\ s \in Server /\ s.conn = srv[n].conn /\ s.events = srv[n].events \cup {f}
      /\ s.polled = IF f \in srv[n].events THEN srv[n].polled ELSE srv[n].polled \cup {f}
      /\ s.flush = srv[n].flush /\ s.replicas = srv[n].replicas
      /\ s.pending = srv[n].pending /\ s.owed = srv[n].owed
  BY <1>2, AddFields
<1> HIDE DEF s, c, f
<1>4. /\ r \in Server /\ r.conn = s.conn /\ r.events = s.events /\ r.polled = s.polled
      /\ r.flush = s.flush /\ r.replicas = s.replicas /\ r.pending = s.pending
      /\ r.owed = s.owed /\ r.joining = 0
  BY <1>2, <1>3 DEF Server
<1> HIDE DEF r
<1>5. /\ srv' \in [Servers -> Server] /\ srv'[n] = r
      /\ \A m \in Servers \ {n} : srv'[m] = srv[m]
  BY <1>1, <1>4, OneServer
<1> HIDE DEF IInv
<1>6. /\ link' \in [Links -> Link]
      /\ \A d \in Links \ {c} : link'[d] = link[d]
      /\ link'[c].state = link[c].state /\ link'[c].to = link[c].to
      /\ link'[c].up = link[c].up /\ link'[c].down = Tail(link[c].down)
  <2> DEFINE t == Tail(link[c].down)
             l == [link[c] EXCEPT !.down = t]
  <2>1. link[c] \in Link
    BY <1>2 DEF IInv, TypeOK
  <2>2. t \in Seq(Messages)
    BY <1>1, <2>1 DEF Link
  <2>3. link' = [link EXCEPT ![c] = l]
    BY <1>1
  <2> HIDE DEF t
  <2>4. l \in Link /\ l.state = link[c].state /\ l.to = link[c].to /\ l.up = link[c].up /\ l.down = t
    BY <2>1, <2>2 DEF Link
  <2> HIDE DEF l
  <2>5. TypeOK
    BY DEF IInv
  <2> QED BY <1>2, <2>3, <2>4, <2>5, OneLink DEF t
<1> USE DEF IInv
<1>7. \A m \in Servers : /\ srv'[m].conn = srv[m].conn /\ srv'[m].flush = srv[m].flush
                         /\ srv'[m].replicas = srv[m].replicas
                         /\ srv'[m].pending = srv[m].pending /\ srv'[m].owed = srv[m].owed
                         /\ srv'[m].joining = IF m = n THEN 0 ELSE srv[m].joining
                         /\ srv[m].polled \subseteq srv'[m].polled
  BY <1>3, <1>4, <1>5
<1>8. TypeOK'
  BY <1>1, <1>5, <1>6 DEF TypeOK
<1>9. Polling'
  <2>1. ASSUME NEW m \in Servers, NEW g \in Fds
        PROVE  /\ g \in srv'[m].polled => srv'[m].conn[g] # NoEnd /\ srv'[m].joining # g
               /\ <<m, g>> \in failed \/ g \in srv'[m].polled \/ srv'[m].conn[g] = NoEnd \/ srv'[m].joining = g
               /\ <<m, g>> \in failed \/ (g \in srv'[m].events <=> g \in srv'[m].polled)
    <3>1. CASE m = n /\ g = f
      <4>1. srv'[m].events = srv[n].events \cup {f}
            /\ srv'[m].polled = IF f \in srv[n].events THEN srv[n].polled ELSE srv[n].polled \cup {f}
        BY <1>3, <1>4, <1>5, <3>1
      <4>2. <<n, f>> \in failed \/ f \notin srv[n].events
        BY <1>2 DEF Polling
      <4> QED BY <1>2, <1>7, <3>1, <4>1, <4>2
    <3>2. CASE m = n /\ g # f
      <4>1. g \in srv'[m].events <=> g \in srv[m].events
        BY <1>3, <1>4, <1>5, <3>2
      <4>2. g \in srv'[m].polled <=> g \in srv[m].polled
        BY <1>3, <1>4, <1>5, <3>2
      <4>3. srv'[m].conn[g] = srv[m].conn[g] /\ srv'[m].joining # g
        BY <1>2, <1>7, <3>2
      <4>4. srv[m].joining # g
        BY <1>0, <3>2
      <4>5. /\ g \in srv[m].polled => srv[m].conn[g] # NoEnd
            /\ <<m, g>> \in failed \/ g \in srv[m].polled \/ srv[m].conn[g] = NoEnd \/ srv[m].joining = g
            /\ <<m, g>> \in failed \/ (g \in srv[m].events <=> g \in srv[m].polled)
        BY DEF Polling
      <4> QED BY <4>1, <4>2, <4>3, <4>4, <4>5
    <3>3. CASE m # n
      <4>1. srv'[m] = srv[m]
        BY <1>5, <3>3
      <4> QED BY <4>1 DEF Polling
    <3> QED BY <3>1, <3>2, <3>3
  <2>2. ASSUME NEW m \in Servers
        PROVE  /\ \A g \in Fds : srv'[m].conn[g].link = 0 => srv'[m].conn[g] = NoEnd
               /\ srv'[m].joining # 0 => /\ srv'[m].flush = 0
                                         /\ srv'[m].conn[srv'[m].joining] # NoEnd
                                         /\ srv'[m].conn[srv'[m].joining].side = "client"
    <3>1. srv'[m].joining # 0 => srv'[m].joining = srv[m].joining
      BY <1>7
    <3>2. srv'[m].conn = srv[m].conn /\ srv'[m].flush = srv[m].flush
      BY <1>7
    <3>3. /\ \A g \in Fds : srv[m].conn[g].link = 0 => srv[m].conn[g] = NoEnd
          /\ srv[m].joining # 0 => /\ srv[m].flush = 0
                                   /\ srv[m].conn[srv[m].joining] # NoEnd
                                   /\ srv[m].conn[srv[m].joining].side = "client"
      BY DEF Polling
    <3> HIDE DEF IInv
    <3> QED BY <3>1, <3>2, <3>3
  <2> QED BY <1>1, <2>1, <2>2 DEF Polling
<1>10. Ends'
  <2>1. \A d \in Links : LinkKeeps(d)
    BY <1>6 DEF LinkKeeps
  <2> QED BY <1>7, <2>1, EndsStay
<1>11. EndsKeep
  BY <1>7 DEF EndsKeep
<1>12. Listing'
  <2>1. \A d \in Links : Settled(d) => Settled(d)' /\ link'[d].to = link[d].to
    BY <1>6 DEF Settled
  <2> QED BY <1>1, <1>7, <1>11, <2>1, ListingStays
<1>13. Progress'
  <2>1. \A m \in Servers : Flushing(m)' <=> Flushing(m)
    <3>1. ASSUME NEW m \in Servers \ {n}
          PROVE  Flushing(m)' <=> Flushing(m)
      <4>1. srv'[m] = srv[m]
        BY <1>5
      <4> QED BY <4>1 DEF Flushing, Streams
    <3>2. srv'[n].flush = 0 /\ srv[n].flush = 0
      BY <1>2, <1>7
    <3>3. ~ Flushing(n) /\ ~ Flushing(n)'
      BY <3>2 DEF Flushing
    <3> QED BY <3>1, <3>3
  <2> QED BY <1>1, <1>7, <1>11, <2>1, ProgressStays
<1>14. Requests'
  <2>1. \A d \in Links : \A i \in 1 .. Len(link[d].down) : link[d].down[i] # Replica
    BY DEF Requests
  <2>2. ASSUME NEW d \in Links
        PROVE  /\ \A i \in 1 .. Len(link'[d].down) : link'[d].down[i] # Replica
               /\ link'[d].up = link[d].up /\ link'[d].state = link[d].state
    <3>1. CASE d = c
      <4>1. link[c].down \in Seq(Messages)
        BY <1>2 DEF TypeOK, Link
      <4>2. \A i \in 1 .. Len(link[c].down) : link[c].down[i] # Replica
        BY <1>2, <2>1
      <4>3. \A i \in 1 .. Len(Tail(link[c].down)) : Tail(link[c].down)[i] # Replica
        BY <1>1, <4>1, <4>2, TailLacks
      <4> QED BY <1>6, <3>1, <4>3
    <3>2. CASE d # c
      <4>1. link'[d] = link[d]
        BY <1>6, <3>2
      <4> QED BY <2>1, <4>1
    <3> QED BY <3>1, <3>2
  <2>3. \A d \in Links : \A i \in 1 .. Len(link[d].up) : link[d].up[i] = Replica => i = 1 /\ Asks(d)
    BY DEF Requests, Asks
  <2>4. \A d \in Links :
           /\ link'[d].state = "unused" <=> link[d].state = "unused"
           /\ \A i \in 1 .. Len(link'[d].down) : link'[d].down[i] # Replica
           /\ \A i \in 1 .. Len(link'[d].up) : link'[d].up[i] = Replica => i = 1 /\ Asks(d)
    BY <2>2, <2>3
  <2>5. due' = due /\ \A m \in Servers : srv'[m].replicas = srv[m].replicas
    BY <1>1, <1>7
  <2>6. Requests
    BY SMTT(40)
  <2> HIDE DEF IInv
  <2> QED BY <2>4, <2>5, <2>6, RequestsStay
<1>15. Awaited'
  <2>1. ASSUME NEW d \in Links \ {c}, Heard(d)
        PROVE  Heard(d)'
    <3>1. link'[d] = link[d] /\ (Asks(d)' <=> Asks(d))
      BY <1>6, Zenon DEF Asks
    <3>2. \A m \in Servers : Answered(d, m)' <=> Answered(d, m)
      BY <1>7 DEF Answered
    <3>3. link[d].state = "open" => link[d].to \in Servers
      BY DEF Ends
    <3> QED BY <2>1, <3>1, <3>2, <3>3 DEF Heard
  <2> QED BY <1>0, <1>1, <1>5, <1>7, <2>1, WaitEnds, Zenon DEF HeardStay, WaitsAt
<1> QED BY <1>1, <1>8, <1>9, <1>10, <1>12, <1>13, <1>14, <1>15

LEMMA JoinRejectedOK ==
  ASSUME IInv, NEW n \in Servers, JoinRejected(n)
  PROVE  IInv'
<1> USE DEF IInv
<1> DEFINE f == srv[n].joining
           e == srv[n].conn[f]
           c == e.link
           s == Closed(srv[n], f)
           r == [s EXCEPT !.joining = 0]
<1>0. f = srv[n].joining /\ e = srv[n].conn[f] /\ c = e.link
  OBVIOUS
<1>1. /\ f # 0
      /\ srv' = [srv EXCEPT ![n] = r]
      /\ link' = Hangup(link, e)
      /\ sets' = sets /\ due' = due /\ stray' = stray /\ orphaned' = orphaned /\ failed' = failed
  BY Zenon DEF JoinRejected, hist
<1>2. /\ f \in Fds /\ c \in Links /\ srv[n] \in Server /\ srv[n].flush = 0 /\ 0 \notin Fds
      /\ e # NoEnd /\ f \notin srv[n].polled /\ e \in End /\ e.side = "client"
  BY <1>1, Basics, OpenEnds DEF Polling
<1>3. /\ s \in Server /\ s.events = srv[n].events /\ s.polled = srv[n].polled \ {f}
      /\ s.conn = [srv[n].conn EXCEPT ![f] = NoEnd]
      /\ s.flush = srv[n].flush /\ s.replicas = srv[n].replicas /\ s.master = srv[n].master
      /\ s.pending = srv[n].pending /\ s.owed = srv[n].owed
  BY <1>2, ClosedFields
<1> HIDE DEF s, c, e, f
<1>4. /\ r \in Server /\ r.conn = s.conn /\ r.events = s.events /\ r.polled = s.polled
      /\ r.flush = s.flush /\ r.replicas = s.replicas /\ r.pending = s.pending
      /\ r.owed = s.owed /\ r.joining = 0 /\ r.master = s.master
  BY <1>2, <1>3 DEF Server
<1> HIDE DEF r
<1>5. /\ srv' \in [Servers -> Server] /\ srv'[n] = r
      /\ \A m \in Servers \ {n} : srv'[m] = srv[m]
  BY <1>1, <1>4, OneServer
<1>6. /\ link' \in [Links -> Link]
      /\ \A d \in Links \ {c} : link'[d] = link[d]
      /\ link'[c].state = "broken" /\ link'[c].to = link[c].to
      /\ link'[c].up = link[c].up /\ link'[c].down = <<>>
  <2>1. link \in [Links -> Link]
    BY DEF TypeOK
  <2> HIDE DEF IInv
  <2>2. e.link \in Links /\ e \in End /\ e.side = "client"
    BY <1>0, <1>2
  <2>3. /\ link' \in [Links -> Link]
        /\ \A d \in Links \ {e.link} : link'[d] = link[d]
        /\ link'[e.link].state = "broken" /\ link'[e.link].to = link[e.link].to
        /\ link'[e.link].up = link[e.link].up /\ link'[e.link].down = <<>>
    BY <1>1, <2>1, <2>2, HangupFields
  <2> QED BY <1>0, <2>3, Zenon
<1>7. \A m \in Servers : /\ srv'[m].flush = srv[m].flush
                         /\ srv'[m].replicas = srv[m].replicas
                         /\ srv'[m].pending = srv[m].pending /\ srv'[m].owed = srv[m].owed
                         /\ srv'[m].polled = srv[m].polled /\ srv'[m].events = srv[m].events
                         /\ srv'[m].joining = IF m = n THEN 0 ELSE srv[m].joining
                         /\ srv'[m].master = srv[m].master
  <2>1. ASSUME NEW m \in Servers, m # n
        PROVE  srv'[m] = srv[m]
    BY <1>5, <2>1
  <2>2. /\ srv'[n].flush = srv[n].flush
        /\ srv'[n].replicas = srv[n].replicas
        /\ srv'[n].pending = srv[n].pending /\ srv'[n].owed = srv[n].owed
        /\ srv'[n].polled = srv[n].polled /\ srv'[n].events = srv[n].events
        /\ srv'[n].joining = 0
        /\ srv'[n].master = srv[n].master
    BY <1>2, <1>3, <1>4, <1>5
  <2> HIDE DEF IInv
  <2> QED BY <2>1, <2>2
<1>8. \A m \in Servers : \A g \in Fds :
        srv'[m].conn[g] = IF m = n /\ g = f THEN NoEnd ELSE srv[m].conn[g]
  <2>1. ASSUME NEW m \in Servers, NEW g \in Fds
        PROVE  srv'[m].conn[g] = IF m = n /\ g = f THEN NoEnd ELSE srv[m].conn[g]
    <3>1. CASE m = n
      <4>1. srv'[m].conn = [srv[n].conn EXCEPT ![f] = NoEnd] /\ srv[n].conn \in [Fds -> End]
        BY <1>3, <1>4, <1>5, <3>1, Basics
      <4> QED BY <3>1, <4>1
    <3>2. CASE m # n
      BY <1>5, <3>2
    <3> QED BY <3>1, <3>2
  <2> QED BY <2>1
<1>9. TypeOK'
  BY <1>1, <1>5, <1>6 DEF TypeOK
<1>10. Polling'
  <2>1. ASSUME NEW m \in Servers, NEW g \in Fds
        PROVE  /\ srv'[m].conn[g].link = 0 => srv'[m].conn[g] = NoEnd
               /\ g \in srv'[m].polled => srv'[m].conn[g] # NoEnd /\ srv'[m].joining # g
               /\ <<m, g>> \in failed \/ g \in srv'[m].polled \/ srv'[m].conn[g] = NoEnd \/ srv'[m].joining = g
               /\ <<m, g>> \in failed \/ (g \in srv'[m].events <=> g \in srv'[m].polled)
    <3>1. CASE m = n /\ g = f
      <4>1. srv'[m].conn[g] = NoEnd /\ g \notin srv'[m].polled /\ (g \in srv'[m].events <=> g \in srv[m].events)
            /\ g \notin srv[m].polled
        BY <1>2, <1>7, <1>8, <3>1
      <4>2. <<m, g>> \in failed \/ g \notin srv[m].events
        BY <4>1 DEF Polling
      <4> QED BY <4>1, <4>2
    <3>2. CASE ~ (m = n /\ g = f)
      <4>1. /\ srv'[m].conn[g] = srv[m].conn[g]
            /\ srv'[m].joining = g <=> srv[m].joining = g
            /\ srv'[m].polled = srv[m].polled /\ srv'[m].events = srv[m].events
        BY <1>0, <1>2, <1>7, <1>8, <3>2
      <4> QED BY <4>1 DEF Polling
    <3> QED BY <3>1, <3>2
  <2>2. ASSUME NEW m \in Servers, srv'[m].joining # 0
        PROVE  /\ srv'[m].flush = 0
               /\ srv'[m].conn[srv'[m].joining] # NoEnd
               /\ srv'[m].conn[srv'[m].joining].side = "client"
    <3>1. m # n /\ srv'[m] = srv[m]
      BY <1>5, <1>7, <2>2
    <3> QED BY <2>2, <3>1 DEF Polling
  <2> QED BY <1>1, <2>1, <2>2 DEF Polling
<1>11. EndsKeep
  <2>1. \A d \in Links : e # ServerEnd(d) /\ NoEnd # ServerEnd(d)
    BY <1>2, ServerEnds
  <2>2. \A m \in Servers : \A g \in Fds : \A d \in Links :
          srv'[m].conn[g] = ServerEnd(d) <=> srv[m].conn[g] = ServerEnd(d)
    BY <1>0, <1>8, <2>1
  <2> QED BY <2>2 DEF EndsKeep
<1>12. Ends'
  <2>1. ASSUME NEW m \in Servers, NEW k \in Servers, NEW g \in Fds, NEW h \in Fds,
               srv'[m].conn[g] = srv'[k].conn[h], srv'[m].conn[g] # NoEnd
        PROVE  m = k /\ g = h
    <3>1. srv[m].conn[g] = srv'[m].conn[g] /\ srv[k].conn[h] = srv'[k].conn[h]
      BY <1>8, <2>1
    <3> QED BY <2>1, <3>1 DEF Ends
  <2>2. ASSUME NEW m \in Servers, NEW g \in Fds, srv'[m].conn[g] # NoEnd
        PROVE  LET x == srv'[m].conn[g]
               IN  /\ link'[x.link].state # "unused"
                   /\ x.side = "server" => link'[x.link].to = m /\ link'[x.link].state # "backlog"
    <3>1. srv'[m].conn[g] = srv[m].conn[g] /\ srv[m].conn[g] # NoEnd
      BY <1>8, <2>2
    <3>2. srv[m].conn[g].link \in Links
      BY <3>1, OpenEnds
    <3>3. \A d \in Links : link'[d].to = link[d].to /\ link'[d].state \in {"broken", link[d].state}
      BY <1>6
    <3>4. LET x == srv[m].conn[g]
          IN  /\ link[x.link].state # "unused"
              /\ x.side = "server" => link[x.link].to = m /\ link[x.link].state # "backlog"
      BY <3>1 DEF Ends
    <3> HIDE DEF IInv
    <3> QED BY <3>1, <3>2, <3>3, <3>4
  <2>3. ASSUME NEW d \in Links
        PROVE  /\ link'[d].state = "backlog" => link'[d].to \in Servers
               /\ link'[d].state = "open" =>
                    /\ link'[d].to \in Servers
                    /\ \E g \in srv'[link'[d].to].polled : srv'[link'[d].to].conn[g] = ServerEnd(d)
    <3>1. CASE d = c
      BY <1>6, <3>1
    <3>2. CASE d # c /\ link[d].state = "open"
      <4>1. PICK g \in srv[link[d].to].polled : srv[link[d].to].conn[g] = ServerEnd(d)
        BY <3>2 DEF Ends
      <4>2. link[d].to \in Servers /\ g \in Fds /\ Settled(d)
        BY <3>2, <4>1, Basics DEF Ends, Settled
      <4>3. srv'[link[d].to].conn[g] = ServerEnd(d) /\ g \in srv'[link[d].to].polled
        BY <1>7, <1>11, <4>1, <4>2 DEF EndsKeep
      <4> QED BY <1>6, <3>2, <4>2, <4>3
    <3>3. CASE d # c /\ link[d].state # "open"
      BY <1>6, <3>3 DEF Ends
    <3> QED BY <3>1, <3>2, <3>3
  <2> HIDE DEF IInv
  <2> QED BY <2>1, <2>2, <2>3 DEF Ends
<1>13. Listing'
  <2>1. \A d \in Links : Settled(d) => Settled(d)' /\ link'[d].to = link[d].to
    BY <1>6 DEF Settled
  <2> QED BY <1>1, <1>7, <1>11, <2>1, ListingStays
<1>14. Progress'
  <2>1. \A m \in Servers : Flushing(m)' <=> Flushing(m)
    BY <1>7 DEF Flushing, Streams
  <2> QED BY <1>1, <1>7, <1>11, <2>1, ProgressStays
<1>15. Requests'
  <2>1. \A d \in Links :
           /\ link'[d].state = "unused" <=> link[d].state = "unused"
           /\ \A i \in 1 .. Len(link'[d].down) : link'[d].down[i] # Replica
           /\ \A i \in 1 .. Len(link'[d].up) : link'[d].up[i] = Replica => i = 1 /\ Asks(d)
    <3>1. link[c].state # "unused"
      BY <1>0, <1>2 DEF Ends
    <3>2. \A i \in 1 .. Len(link'[c].down) : link'[c].down[i] # Replica
      BY <1>6
    <3>3. \A d \in Links :
             /\ \A i \in 1 .. Len(link[d].down) : link[d].down[i] # Replica
             /\ \A i \in 1 .. Len(link[d].up) : link[d].up[i] = Replica => i = 1 /\ Asks(d)
      BY OnTheWay
    <3> HIDE DEF IInv
    <3>4. ASSUME NEW d \in Links, d # c
          PROVE  link'[d] = link[d]
      BY <1>6, <3>4
    <3> QED BY <1>6, <3>1, <3>2, <3>3, <3>4
  <2>2. \A m \in Servers : srv'[m].replicas = srv[m].replicas
    BY <1>7
  <2> QED BY <1>1, <2>1, <2>2, RequestsStay
<1>16. Awaited'
  <2>1. ASSUME NEW d \in Links \ {c}, Heard(d)
        PROVE  Heard(d)'
    <3>1. link'[d] = link[d] /\ (Asks(d)' <=> Asks(d))
      BY <1>6 DEF Asks
    <3>2. Settled(d) => \A m \in Servers : Answered(d, m)' <=> Answered(d, m)
      BY <1>7, <1>11 DEF Answered, EndsKeep
    <3>3. link[d].state = "open" => link[d].to \in Servers /\ Settled(d)
      BY DEF Ends, Settled
    <3> QED BY <2>1, <3>1, <3>2, <3>3 DEF Heard
  <2> QED BY <1>0, <1>1, <1>5, <1>7, <2>1, WaitEnds DEF HeardStay, WaitsAt
<1> QED BY <1>1, <1>9, <1>10, <1>12, <1>13, <1>14, <1>15, <1>16

\* A wait goes on at the same end.
Waited(c) == \E m \in Servers : srv[m].joining # 0 /\ srv[m].conn[srv[m].joining] = ClientEnd(c)

LEMMA WaitGoesOn ==
  ASSUME TypeOK, Polling, Awaited,
         \A m \in Servers : srv'[m].joining # 0 =>
           /\ srv'[m].joining = srv[m].joining
           /\ srv'[m].conn[srv[m].joining] = srv[m].conn[srv[m].joining],
         \A c \in Links : Waited(c) /\ Heard(c) => Heard(c)'
  PROVE  Awaited'
<1>1. ASSUME NEW m \in Servers, srv'[m].joining # 0
      PROVE  Awaits(m)'
  <2> DEFINE e == srv[m].conn[srv[m].joining]
  <2>1. srv[m].joining # 0 /\ srv[m].joining = srv'[m].joining /\ e = srv'[m].conn[srv[m].joining]
    BY <1>1
  <2>2. e \in End /\ e.link \in Links /\ e.side = "client"
    BY <2>1, Basics, OpenEnds DEF Polling
  <2>3. PICK c \in Links : c = e.link
    BY <2>2, SMTT(40)
  <2>4. Waited(c) /\ Heard(c)
    <3>1. e = ClientEnd(c)
      BY <2>2, <2>3 DEF End, ClientEnd
    <3>2. Heard(e.link)
      BY <2>1 DEF Awaited, Awaits
    <3> QED BY <2>1, <2>3, <3>1, <3>2, Zenon DEF Waited
  <2>5. Heard(c)'
    BY <2>4
  <2> QED BY <2>1, <2>3, <2>5 DEF Awaits
<1> QED BY <1>1 DEF Awaited, Awaits

\* A message is taken from what is on the way to an end.
LEMMA ReadFields ==
  ASSUME TypeOK, NEW e \in End, e.link \in Links, link[e.link][Inbox(e)] # <<>>,
         link' = [link EXCEPT ![e.link][Inbox(e)] = Tail(link[e.link][Inbox(e)])]
  PROVE  /\ link' \in [Links -> Link]
         /\ \A d \in Links \ {e.link} : link'[d] = link[d]
         /\ link'[e.link].state = link[e.link].state /\ link'[e.link].to = link[e.link].to
         /\ link'[e.link].from = link[e.link].from
         /\ link[e.link].up \in Seq(Messages) /\ link[e.link].down \in Seq(Messages)
         /\ e.side = "server" => /\ link[e.link].up # <<>> /\ link'[e.link].down = link[e.link].down
                                 /\ link[e.link][Inbox(e)] = link[e.link].up
                                 /\ link'[e.link].up = Tail(link[e.link].up)
         /\ e.side = "client" => /\ link[e.link].down # <<>> /\ link'[e.link].up = link[e.link].up
                                 /\ link[e.link][Inbox(e)] = link[e.link].down
                                 /\ link'[e.link].down = Tail(link[e.link].down)
<1> DEFINE c == e.link
           l == link[c]
<1>1. l \in Link /\ l.up \in Seq(Messages) /\ l.down \in Seq(Messages)
  BY DEF TypeOK, Link
<1>2. CASE e.side = "server"
  <2>1. l.up # <<>> /\ Tail(l.up) \in Seq(Messages) /\ l[Inbox(e)] = l.up
    BY <1>1, <1>2, TailIs DEF Inbox
  <2>2. link' = [link EXCEPT ![c] = [l EXCEPT !.up = Tail(l.up)]]
    BY <1>2 DEF Inbox, TypeOK
  <2> DEFINE r == [l EXCEPT !.up = Tail(l.up)]
  <2>3. r \in Link /\ r.state = l.state /\ r.to = l.to /\ r.from = l.from /\ r.down = l.down /\ r.up = Tail(l.up)
    BY <1>1, <2>1 DEF Link
  <2> HIDE DEF r
  <2>4. link' = [link EXCEPT ![c] = r]
    BY <2>2 DEF r
  <2> QED BY <1>1, <1>2, <2>1, <2>3, <2>4 DEF TypeOK
<1>3. CASE e.side = "client"
  <2>1. l.down # <<>> /\ Tail(l.down) \in Seq(Messages) /\ l[Inbox(e)] = l.down
    BY <1>1, <1>3, TailIs DEF Inbox
  <2>2. link' = [link EXCEPT ![c] = [l EXCEPT !.down = Tail(l.down)]]
    BY <1>3 DEF Inbox, TypeOK
  <2> DEFINE r == [l EXCEPT !.down = Tail(l.down)]
  <2>3. r \in Link /\ r.state = l.state /\ r.to = l.to /\ r.from = l.from /\ r.up = l.up /\ r.down = Tail(l.down)
    BY <1>1, <2>1 DEF Link
  <2> HIDE DEF r
  <2>4. link' = [link EXCEPT ![c] = r]
    BY <2>2 DEF r
  <2> QED BY <1>1, <1>3, <2>1, <2>3, <2>4 DEF TypeOK
<1> QED BY <1>2, <1>3 DEF End

LEMMA ReadCommandOK ==
  ASSUME IInv, NEW n \in Servers, NEW f \in Fds, Read(n, f),
         srv' \in [Servers -> Server], \A m \in Servers : ServerKeeps(m) /\ srv'[m].owed = srv[m].owed,
         \A m \in Servers : srv'[m].pending = srv[m].pending \/ srv[m].flush = 0,
         LET e == srv[n].conn[f] IN Head(link[e.link][Inbox(e)]) # Replica
  PROVE  IInv'
<1> USE DEF IInv
<1> DEFINE e == srv[n].conn[f]
           c == e.link
           in == link[c][Inbox(e)]
<1>1. /\ f \in srv[n].polled /\ in # <<>> /\ srv[n].joining = 0
      /\ link' = [link EXCEPT ![c][Inbox(e)] = Tail(in)]
      /\ sets' = sets /\ due' = due /\ stray' = stray /\ orphaned' = orphaned /\ failed' = failed
  BY ZenonT(40) DEF Read, Handling, hist
<1>2. e # NoEnd /\ c \in Links /\ e \in End /\ Head(in) # Replica
  BY <1>1, Basics, OpenEnds, ZenonT(40) DEF Polling
<1>3. /\ link' \in [Links -> Link]
      /\ \A d \in Links \ {c} : link'[d] = link[d]
      /\ link'[c].state = link[c].state /\ link'[c].to = link[c].to
      /\ link[c].up \in Seq(Messages) /\ link[c].down \in Seq(Messages)
      /\ e.side = "server" => /\ link[c].up # <<>> /\ link'[c].down = link[c].down
                              /\ in = link[c].up /\ link'[c].up = Tail(link[c].up)
      /\ e.side = "client" => /\ link[c].down # <<>> /\ link'[c].up = link[c].up
                              /\ in = link[c].down /\ link'[c].down = Tail(link[c].down)
  BY <1>1, <1>2, ReadFields, Zenon
<1> HIDE DEF e, in, c
<1>4. \A m \in Servers : srv'[m].conn = srv[m].conn /\ srv'[m].joining = srv[m].joining
                         /\ srv'[m].replicas = srv[m].replicas
  BY DEF ServerKeeps
<1>5. \A d \in Links : LinkKeeps(d)
  BY <1>3 DEF LinkKeeps
<1>6. TypeOK'
  BY <1>1, <1>3 DEF TypeOK
<1>7. Polling' /\ Ends' /\ Listing' /\ Progress'
  BY <1>1, <1>5, KeepsPolling, KeepsEnds, KeepsListing, KeepsProgress
<1>8. e.side = "server" \/ e.side = "client"
  BY <1>2 DEF End
<1>9. \A i \in 1 .. Len(link[c].up) : e.side = "server" => link[c].up[i] # Replica
  <2>1. ASSUME e.side = "server", NEW i \in 1 .. Len(link[c].up), link[c].up[i] = Replica
        PROVE  FALSE
    <3>1. i = 1
      BY <1>2, <2>1, OnTheWay
    <3>2. link[c].up[1] = Head(in)
      BY <1>3, <2>1, TailIs
    <3> QED BY <1>2, <2>1, <3>1, <3>2
  <2> QED BY <2>1
<1>10. Requests'
  <2>1. \A i \in 1 .. Len(link[c].down) : link[c].down[i] # Replica
    BY <1>2, OnTheWay
  <2>2. \A i \in 1 .. Len(link'[c].down) : link'[c].down[i] # Replica
    <3>1. CASE e.side = "server"
      BY <1>3, <2>1, <3>1
    <3>2. CASE e.side = "client"
      <4>1. \A i \in 1 .. Len(Tail(link[c].down)) : Tail(link[c].down)[i] # Replica
        BY <1>3, <2>1, <3>2, TailLacks
      <4> QED BY <1>3, <3>2, <4>1
    <3> QED BY <1>8, <3>1, <3>2
  <2>3. \A i \in 1 .. Len(link'[c].up) : link'[c].up[i] = Replica => i = 1 /\ Asks(c)
    <3>1. CASE e.side = "server"
      <4>1. \A i \in 1 .. Len(Tail(link[c].up)) : Tail(link[c].up)[i] # Replica
        BY <1>3, <1>9, <3>1, TailLacks
      <4> QED BY <1>3, <3>1, <4>1
    <3>2. CASE e.side = "client"
      BY <1>2, <1>3, <3>2, OnTheWay
    <3> QED BY <1>8, <3>1, <3>2
  <2>4. \A d \in Links :
           /\ link'[d].state = "unused" <=> link[d].state = "unused"
           /\ \A i \in 1 .. Len(link'[d].down) : link'[d].down[i] # Replica
           /\ \A i \in 1 .. Len(link'[d].up) : link'[d].up[i] = Replica => i = 1 /\ Asks(d)
    <3>1. ASSUME NEW d \in Links
          PROVE  /\ link'[d].state = "unused" <=> link[d].state = "unused"
                 /\ \A i \in 1 .. Len(link'[d].down) : link'[d].down[i] # Replica
                 /\ \A i \in 1 .. Len(link'[d].up) : link'[d].up[i] = Replica => i = 1 /\ Asks(d)
      <4>1. CASE d = c
        BY <1>3, <2>2, <2>3, <4>1
      <4>2. CASE d # c
        <5>1. link'[d] = link[d]
          BY <1>3, <4>2
        <5> QED BY <5>1, OnTheWay
      <4> QED BY <4>1, <4>2
    <3> QED BY <3>1
  <2>5. Requests
    OBVIOUS
  <2> HIDE DEF IInv
  <2> QED BY <1>1, <1>4, <2>4, <2>5, RequestsStay
<1>11. Awaited'
  <2>1. \A d \in Links : \A m \in Servers : Answered(d, m)' <=> Answered(d, m)
    BY <1>4 DEF Answered
  <2>2. \A d \in Links : link[d].state = "open" => link[d].to \in Servers
    BY DEF Ends
  <2>3. ASSUME NEW d \in Links, Waited(d), Heard(d)
        PROVE  Heard(d)'
    <3>1. CASE d # c
      <4>1. link'[d] = link[d] /\ (Asks(d)' <=> Asks(d))
        BY <1>3, <3>1 DEF Asks
      <4> QED BY <2>1, <2>2, <2>3, <4>1 DEF Heard
    <3>2. CASE d = c /\ e.side = "server"
      <4>1. ~ Asks(d)
        BY <1>9, <3>2 DEF Asks
      <4>2. link'[d].down = link[d].down /\ link'[d].state = link[d].state /\ link'[d].to = link[d].to
        BY <1>3, <3>2
      <4> QED BY <2>1, <2>2, <2>3, <4>1, <4>2 DEF Heard
    <3>3. CASE d = c /\ e.side = "client"
      <4>1. PICK m \in Servers : srv[m].joining # 0 /\ srv[m].conn[srv[m].joining] = ClientEnd(d)
        BY <2>3 DEF Waited
      <4>2. e = ClientEnd(d)
        BY <1>2, <3>3 DEF End, ClientEnd, c
      <4>3. srv[m].joining \in Fds
        BY <4>1, Basics
      <4>4. m = n
        BY <1>2, <4>1, <4>2, <4>3 DEF Ends, e
      <4> QED BY <1>1, <4>1, <4>4
    <3> QED BY <1>8, <3>1, <3>2, <3>3
  <2>4. \A m \in Servers : srv'[m].joining # 0 =>
           /\ srv'[m].joining = srv[m].joining
           /\ srv'[m].conn[srv[m].joining] = srv[m].conn[srv[m].joining]
    BY <1>4
  <2>5. TypeOK /\ Polling /\ Awaited
    OBVIOUS
  <2> HIDE DEF IInv
  <2> QED BY <2>3, <2>4, <2>5, WaitGoesOn
<1> QED BY <1>1, <1>6, <1>7, <1>10, <1>11, SMTT(40)

LEMMA ReadRequestOK ==
  ASSUME IInv, NEW n \in Servers, NEW f \in Fds, Read(n, f),
         LET e == srv[n].conn[f] IN Head(link[e.link][Inbox(e)]) = Replica
  PROVE  IInv'
<1> USE DEF IInv
<1> DEFINE e == srv[n].conn[f]
           c == e.link
           in == link[c][Inbox(e)]
           r == registerReplica(srv[n], f, c)
<1>1. /\ f \in srv[n].polled /\ in # <<>> /\ srv[n].joining = 0 /\ srv[n].flush = 0
      /\ srv' = [srv EXCEPT ![n] = r]
      /\ link' = [link EXCEPT ![c][Inbox(e)] = Tail(in)]
      /\ sets' = sets /\ due' = due /\ stray' = stray /\ orphaned' = orphaned /\ failed' = failed
  <2>1. /\ f \in srv[n].polled /\ in # <<>> /\ srv[n].joining = 0 /\ srv[n].flush = 0
        /\ link' = [link EXCEPT ![c][Inbox(e)] = Tail(in)]
        /\ sets' = sets /\ due' = due /\ stray' = stray /\ orphaned' = orphaned /\ failed' = failed
    BY DEF Read, Handling, hist
  <2>2. srv' = [srv EXCEPT ![n] = CASE Head(in) = Replica -> registerReplica(srv[n], f, e.link)
                                    [] Head(in) = Ok      -> srv[n]
                                    [] OTHER              -> Executed(srv[n], Head(in))]
    BY DEF Read
  <2>3. Head(in) = Replica
    OBVIOUS
  <2>4. Head(in) # Ok
    BY <2>3 DEF Replica, Ok
  <2> HIDE DEF IInv, in
  <2>5. srv' = [srv EXCEPT ![n] = r]
    BY <2>2, <2>3, <2>4
  <2> QED BY <2>1, <2>5
<1>2. e # NoEnd /\ c \in Links /\ e \in End /\ Head(in) = Replica /\ srv[n] \in Server
  BY <1>1, Basics, OpenEnds, Zenon DEF Polling
<1>3. /\ link' \in [Links -> Link]
      /\ \A d \in Links \ {c} : link'[d] = link[d]
      /\ link'[c].state = link[c].state /\ link'[c].to = link[c].to
      /\ link[c].up \in Seq(Messages) /\ link[c].down \in Seq(Messages)
      /\ e.side = "server" => /\ link[c].up # <<>> /\ link'[c].down = link[c].down
                              /\ in = link[c].up /\ link'[c].up = Tail(link[c].up)
      /\ e.side = "client" => /\ link[c].down # <<>> /\ link'[c].up = link[c].up
                              /\ in = link[c].down /\ link'[c].down = Tail(link[c].down)
  BY <1>1, <1>2, ReadFields, Zenon
<1>4. /\ r \in Server
      /\ r.replicas = Append(srv[n].replicas, <<f, c>>) /\ r.owed = srv[n].owed \cup {f}
      /\ r.conn = srv[n].conn /\ r.events = srv[n].events /\ r.polled = srv[n].polled
      /\ r.master = srv[n].master /\ r.pending = srv[n].pending
      /\ r.joining = srv[n].joining /\ r.flush = srv[n].flush
  <2>1. srv[n] \in Server /\ f \in Fds /\ c \in Links
    BY <1>2
  <2> QED BY <2>1, RegisterFields
<1> HIDE DEF r
<1>5. /\ srv' \in [Servers -> Server] /\ srv'[n] = r
      /\ \A m \in Servers \ {n} : srv'[m] = srv[m]
  BY <1>1, <1>4, OneServer
<1>6. e = srv[n].conn[f]
  OBVIOUS
<1> HIDE DEF e, in, c
<1>7. \A m \in Servers :
        /\ srv'[m].conn = srv[m].conn /\ srv'[m].events = srv[m].events
        /\ srv'[m].polled = srv[m].polled /\ srv'[m].joining = srv[m].joining
        /\ srv'[m].flush = srv[m].flush /\ srv[m].owed \subseteq srv'[m].owed
        /\ srv'[m].replicas = IF m = n THEN Append(srv[m].replicas, <<f, c>>) ELSE srv[m].replicas
  BY <1>4, <1>5
\* It came to a server's end, at the head, and nobody lists the connection.
<1>8. e = ServerEnd(c) /\ link[c].up # <<>> /\ link[c].up[1] = Replica
  <2>1. e.side # "client"
    <3>1. ASSUME e.side = "client" PROVE FALSE
      <4>1. 1 \in 1 .. Len(link[c].down) /\ link[c].down[1] = Replica
        BY <1>2, <1>3, <3>1, TailIs
      <4> QED BY <1>2, <4>1, OnTheWay
    <3> QED BY <3>1
  <2>2. e.side = "server"
    BY <1>2, <2>1 DEF End
  <2>3. e = ServerEnd(c)
    BY <1>2, <2>2 DEF End, ServerEnd, c
  <2> QED BY <1>2, <1>3, <2>2, <2>3, TailIs
<1>9. Asks(c)
  BY <1>3, <1>8, TailIs DEF Asks
<1>10. /\ due[c] = <<>>
       /\ \A m \in Servers : \A i \in 1 .. Len(srv[m].replicas) : srv[m].replicas[i][2] # c
       /\ link[c].to = n /\ Settled(c)
       /\ \A g \in Fds : srv[n].conn[g] = ServerEnd(c) => g = f
  <2>1. link[c].to = n /\ Settled(c)
    BY <1>2, <1>6, <1>8, ServerEnds DEF Ends, Settled, c
  <2>2. ASSUME NEW g \in Fds, srv[n].conn[g] = ServerEnd(c)
        PROVE  g = f
    <3>1. srv[n].conn[g] = srv[n].conn[f] /\ srv[n].conn[g] # NoEnd
      BY <1>2, <1>6, <1>8, <2>2
    <3> QED BY <3>1 DEF Ends
  <2> QED BY <1>2, <1>9, <2>1, <2>2 DEF Requests
\* What n lists now.
<1>11. PICK k \in Nat \ {0} :
         /\ k = Len(srv[n].replicas) + 1 /\ k = Len(srv'[n].replicas)
         /\ \A i \in 1 .. Len(srv[n].replicas) : srv'[n].replicas[i] = srv[n].replicas[i]
         /\ srv'[n].replicas[k] = <<f, c>>
  <2>1. srv[n].replicas \in Seq(Fds \X Links) /\ <<f, c>> \in Fds \X Links
    BY <1>2, Basics
  <2>2. \A q \in Seq(Fds \X Links) : \A x \in Fds \X Links :
          /\ Len(q) + 1 \in Nat \ {0} /\ Len(Append(q, x)) = Len(q) + 1
          /\ \A i \in 1 .. Len(q) : Append(q, x)[i] = q[i]
          /\ Append(q, x)[Len(q) + 1] = x
    OBVIOUS
  <2>3. srv'[n].replicas = Append(srv[n].replicas, <<f, c>>)
    BY <1>7
  <2>4. /\ Len(srv[n].replicas) + 1 \in Nat \ {0}
        /\ Len(srv'[n].replicas) = Len(srv[n].replicas) + 1
        /\ \A i \in 1 .. Len(srv[n].replicas) : srv'[n].replicas[i] = srv[n].replicas[i]
        /\ srv'[n].replicas[Len(srv[n].replicas) + 1] = <<f, c>>
    BY <2>1, <2>2, <2>3
  <2> QED BY <2>4
<1>12. TypeOK'
  BY <1>1, <1>3, <1>5 DEF TypeOK
<1>13. Polling'
  BY <1>1, <1>7 DEF Polling
<1>14. Ends'
  <2>1. /\ \A m \in Servers : \A g \in Fds : srv[m].conn[g] # NoEnd => srv[m].conn[g].link \in Links
        /\ \A d \in Links : link'[d].state = link[d].state /\ link'[d].to = link[d].to
        /\ \A m \in Servers : srv'[m].conn = srv[m].conn /\ srv'[m].polled = srv[m].polled
    BY <1>3, <1>7, OpenEnds
  <2> HIDE DEF IInv
  <2>2. Ends
    BY DEF IInv
  <2> QED BY <2>1, <2>2 DEF Ends
<1>15. \A d \in Links : link'[d].state = link[d].state /\ link'[d].to = link[d].to
  BY <1>3
<1>16. ASSUME NEW m \in Servers, NEW i \in 1 .. Len(srv[m].replicas)
       PROVE  /\ srv'[m].replicas[i] = srv[m].replicas[i]
              /\ Entry(m, i)' /\ Reached(m, i)'
  <2>1. srv'[m].replicas[i] = srv[m].replicas[i]
    BY <1>7, <1>11
  <2>2. srv[m].replicas[i][2] \in Links /\ Entry(m, i) /\ Reached(m, i)
    BY ListedAre DEF Listing, Progress
  <2>3. Entry(m, i)'
    <3>1. \A d \in Links : Settled(d) => Settled(d)' /\ link'[d].to = link[d].to
      BY <1>15 DEF Settled
    <3>2. EndsKeep
      BY <1>7 DEF EndsKeep
    <3> QED BY <1>1, <2>1, <3>1, <3>2, EntryStays
  <2>4. Reached(m, i)'
    <3>1. CASE m = n
      <4>1. ~ Flushing(m) /\ ~ Flushing(m)'
        BY <1>1, <1>7, <3>1 DEF Flushing
      <4> QED BY <1>1, <1>7, <2>1, <2>2, <4>1 DEF Reached
    <3>2. CASE m # n
      <4>1. srv'[m] = srv[m]
        BY <1>5, <3>2
      <4> QED BY <1>1, <2>2, <4>1 DEF Reached, Flushing, Streams, Remaining, Passed
    <3> QED BY <3>1, <3>2
  <2> QED BY <2>1, <2>3, <2>4
<1>17. Entry(n, k)' /\ Reached(n, k)'
  <2>1. ~ Flushing(n)'
    BY <1>1, <1>7 DEF Flushing
  <2>2. srv'[n].replicas[k] = <<f, c>>
    BY <1>11
  <2>3. srv'[n].conn[f] = ServerEnd(c) /\ \A g \in Fds : srv'[n].conn[g] = ServerEnd(c) => g = f
    BY <1>6, <1>7, <1>8, <1>10
  <2>4. link'[c].to = n /\ link'[c].state \notin {"unused", "backlog"} /\ due'[c] = <<>>
    BY <1>1, <1>2, <1>10, <1>15 DEF Settled
  <2>5. Entry(n, k)'
    BY <2>2, <2>3, <2>4 DEF Entry
  <2>6. Reached(n, k)'
    BY <2>1, <2>2, <2>4 DEF Reached
  <2> QED BY <2>5, <2>6
<1>18. ASSUME NEW m \in Servers, NEW i \in 1 .. Len(srv'[m].replicas)
       PROVE  (i \in 1 .. Len(srv[m].replicas)) \/ (m = n /\ i = k)
  <2>1. CASE m = n
    BY <1>11, <2>1
  <2>2. CASE m # n
    BY <1>7, <2>2
  <2> QED BY <2>1, <2>2
<1>19. Listing'
  <2>1. ASSUME NEW m \in Servers, NEW i \in 1 .. Len(srv'[m].replicas)
        PROVE  Entry(m, i)'
    BY <1>16, <1>17, <1>18
  <2>2. ASSUME NEW m \in Servers, NEW i \in 1 .. Len(srv'[m].replicas),
               NEW j \in 1 .. Len(srv'[m].replicas),
               srv'[m].replicas[i][2] = srv'[m].replicas[j][2]
        PROVE  i = j
    <3>1. CASE i \in 1 .. Len(srv[m].replicas) /\ j \in 1 .. Len(srv[m].replicas)
      <4>1. srv[m].replicas[i][2] = srv[m].replicas[j][2]
        BY <1>16, <2>2, <3>1
      <4> QED BY <3>1, <4>1 DEF Listing
    <3>2. CASE i \in 1 .. Len(srv[m].replicas) /\ ~ (j \in 1 .. Len(srv[m].replicas))
      <4>1. m = n /\ j = k
        BY <1>18, <3>2
      <4>2. srv'[m].replicas[j][2] = c /\ srv'[m].replicas[i] = srv[m].replicas[i]
        <5>1. srv'[m].replicas[j] = <<f, c>>
          BY <1>11, <4>1
        <5>2. srv'[m].replicas[i] = srv[m].replicas[i]
          BY <1>16, <3>2
        <5> QED BY <5>1, <5>2
      <4> QED BY <1>10, <2>2, <3>2, <4>2
    <3>3. CASE ~ (i \in 1 .. Len(srv[m].replicas)) /\ j \in 1 .. Len(srv[m].replicas)
      <4>1. m = n /\ i = k
        BY <1>18, <3>3
      <4>2. srv'[m].replicas[i][2] = c /\ srv'[m].replicas[j] = srv[m].replicas[j]
        <5>1. srv'[m].replicas[i] = <<f, c>>
          BY <1>11, <4>1
        <5>2. srv'[m].replicas[j] = srv[m].replicas[j]
          BY <1>16, <3>3
        <5> QED BY <5>1, <5>2
      <4> QED BY <1>10, <2>2, <3>3, <4>2
    <3>4. CASE ~ (i \in 1 .. Len(srv[m].replicas)) /\ ~ (j \in 1 .. Len(srv[m].replicas))
      BY <1>18, <3>4
    <3> QED BY <3>1, <3>2, <3>3, <3>4
  <2> HIDE DEF IInv
  <2> QED BY <2>1, <2>2 DEF Listing
<1>20. Progress'
  <2>1. ASSUME NEW m \in Servers, NEW i \in 1 .. Len(srv'[m].replicas)
        PROVE  Reached(m, i)'
    BY <1>16, <1>17, <1>18
  <2> HIDE DEF IInv
  <2> QED BY <2>1 DEF Progress
<1>21. Requests'
  <2>1. link'[c].up = Tail(link[c].up) /\ link'[c].down = link[c].down
    BY <1>2, <1>3, <1>8, ServerEnds
  <2>2. \A i \in 1 .. Len(link'[c].up) : link'[c].up[i] # Replica
    <3>1. \A i \in 1 .. Len(link[c].up) : link[c].up[i] = Replica => i = 1
      BY <1>2, OnTheWay
    <3>2. \A i \in 1 .. Len(Tail(link[c].up)) : Tail(link[c].up)[i] # Replica
      <4>1. ASSUME NEW i \in 1 .. Len(Tail(link[c].up)), Tail(link[c].up)[i] = Replica
            PROVE  FALSE
        <5>1. link[c].up[i + 1] = Replica /\ i + 1 \in 1 .. Len(link[c].up) /\ i \in Nat \ {0}
          BY <1>3, <1>8, <4>1, TailIs
        <5> QED BY <3>1, <5>1
      <4> QED BY <4>1
    <3> QED BY <2>1, <3>2
  <2>3. Requests
    OBVIOUS
  <2> HIDE DEF IInv
  <2>4. ASSUME NEW d \in Links
        PROVE  /\ \A i \in 1 .. Len(link'[d].down) : link'[d].down[i] # Replica
               /\ \A i \in 1 .. Len(link'[d].up) : link'[d].up[i] = Replica => i = 1
               /\ Asks(d)' => /\ link'[d].state # "unused"
                              /\ due'[d] = <<>>
                              /\ \A m \in Servers : \A i \in 1 .. Len(srv'[m].replicas) :
                                   srv'[m].replicas[i][2] # d
               /\ link'[d].state = "unused" => due'[d] = <<>>
    <3>1. CASE d = c
      <4>1. ~ Asks(d)'
        BY <2>2, <3>1 DEF Asks
      <4>2. \A i \in 1 .. Len(link'[c].down) : link'[c].down[i] # Replica
        BY <1>2, <2>1, <2>3, OnTheWay
      <4> QED BY <1>1, <1>10, <2>2, <3>1, <4>1, <4>2
    <3>2. CASE d # c
      <4>1. link'[d] = link[d] /\ due'[d] = due[d] /\ (Asks(d)' <=> Asks(d))
        BY <1>1, <1>3, <3>2 DEF Asks
      <4>2. /\ \A i \in 1 .. Len(link[d].down) : link[d].down[i] # Replica
            /\ \A i \in 1 .. Len(link[d].up) : link[d].up[i] = Replica => i = 1
            /\ Asks(d) => /\ link[d].state # "unused"
                          /\ due[d] = <<>>
                          /\ \A m \in Servers : \A i \in 1 .. Len(srv[m].replicas) :
                               srv[m].replicas[i][2] # d
            /\ link[d].state = "unused" => due[d] = <<>>
        BY <2>3 DEF Requests
      <4>3. ASSUME Asks(d), NEW m \in Servers, NEW i \in 1 .. Len(srv'[m].replicas)
            PROVE  srv'[m].replicas[i][2] # d
        <5>1. CASE i \in 1 .. Len(srv[m].replicas)
          BY <1>16, <4>2, <4>3, <5>1
        <5>2. CASE m = n /\ i = k
          BY <1>11, <3>2, <5>2
        <5> QED BY <1>18, <5>1, <5>2
      <4> QED BY <4>1, <4>2, <4>3
    <3> QED BY <3>1, <3>2
  <2> QED BY <2>4 DEF Requests
<1>22. Awaited'
  <2>1. \A d \in Links : \A m \in Servers : Answered(d, m) => Answered(d, m)'
    BY <1>7 DEF Answered
  <2>2. ASSUME NEW d \in Links, Heard(d)
        PROVE  Heard(d)'
    <3>1. CASE d # c
      <4>1. link'[d] = link[d] /\ (Asks(d)' <=> Asks(d))
        BY <1>3, <3>1 DEF Asks
      <4>2. link[d].state = "open" => link[d].to \in Servers
        BY DEF Ends
      <4> QED BY <2>1, <2>2, <4>1, <4>2 DEF Heard
    <3>2. CASE d = c
      <4>1. link[c].state \in {"open", "broken"}
        <5>1. link[c] \in Link
          BY <1>2 DEF TypeOK
        <5>2. link[c].state \in {"unused", "backlog", "open", "broken"}
          BY <5>1 DEF Link
        <5> QED BY <1>10, <5>2 DEF Settled
      <4>2. Answered(d, n)'
        <5>1. srv'[n].conn[f] = ServerEnd(d) /\ f \in srv'[n].owed
          BY <1>4, <1>5, <1>6, <1>8, <3>2
        <5> QED BY <5>1 DEF Answered
      <4>3. link'[c].to = n
        BY <1>2, <1>10, <1>15
      <4> QED BY <1>2, <1>15, <3>2, <4>1, <4>2, <4>3 DEF Heard
    <3> QED BY <3>1, <3>2
  <2>3. \A m \in Servers : srv'[m].conn = srv[m].conn /\ srv'[m].joining = srv[m].joining
    BY <1>7
  <2> QED BY <2>2, <2>3, HeardStays
<1> QED BY <1>1, <1>12, <1>13, <1>14, <1>19, <1>20, <1>21, <1>22

LEMMA ReadOK ==
  ASSUME IInv, NEW n \in Servers, NEW f \in Fds, Read(n, f)
  PROVE  IInv'
<1> DEFINE e == srv[n].conn[f]
           c == e.link
           in == link[c][Inbox(e)]
<1>1. CASE Head(in) = Replica
  BY <1>1, ReadRequestOK, SMTT(40)
<1>2. CASE Head(in) # Replica
  <2>1. /\ f \in srv[n].polled /\ in # <<>> /\ srv[n].flush = 0 /\ TypeOK /\ Polling
        /\ srv' = [srv EXCEPT ![n] = CASE Head(in) = Replica -> registerReplica(srv[n], f, e.link)
                                       [] Head(in) = Ok      -> srv[n]
                                       [] OTHER              -> Executed(srv[n], Head(in))]
        /\ link' = [link EXCEPT ![c][Inbox(e)] = Tail(in)]
    BY SMTT(40) DEF Read, Handling, IInv
  <2>2. e # NoEnd /\ c \in Links /\ e \in End /\ srv[n] \in Server
    BY <2>1, Basics, OpenEnds, Zenon DEF Polling
  <2>3. Head(in) \in Messages
    <3>1. /\ e.side = "server" => link[c].up \in Seq(Messages) /\ link[c].up # <<>> /\ in = link[c].up
          /\ e.side = "client" => link[c].down \in Seq(Messages) /\ link[c].down # <<>> /\ in = link[c].down
      BY <2>1, <2>2, ReadFields, Zenon
    <3>2. e.side = "server" \/ e.side = "client"
      BY <2>2 DEF End
    <3> QED BY <3>1, <3>2, TailIs, SMTT(40)
  <2> HIDE DEF in, e, c
  <2>4. PICK s \in Server :
          /\ srv' = [srv EXCEPT ![n] = s]
          /\ s.conn = srv[n].conn /\ s.events = srv[n].events /\ s.polled = srv[n].polled
          /\ s.joining = srv[n].joining /\ s.flush = srv[n].flush /\ s.replicas = srv[n].replicas
          /\ s.master = srv[n].master /\ s.owed = srv[n].owed
    <3>1. CASE Head(in) = Ok
      BY <1>2, <2>1, <2>2, <3>1
    <3>2. CASE Head(in) # Ok
      <4>1. Head(in) \in Cmds /\ srv' = [srv EXCEPT ![n] = Executed(srv[n], Head(in))]
        BY <1>2, <2>1, <2>3, <3>2 DEF Messages
      <4> QED BY <2>2, <4>1, ExecutedFields
    <3> QED BY <3>1, <3>2
  <2>5. /\ srv' \in [Servers -> Server] /\ srv'[n] = s
        /\ \A m \in Servers \ {n} : srv'[m] = srv[m]
    BY <2>1, <2>4, OneServer
  <2>6. \A m \in Servers : /\ ServerKeeps(m) /\ srv'[m].owed = srv[m].owed
                           /\ srv'[m].pending = srv[m].pending \/ srv[m].flush = 0
    BY <2>1, <2>4, <2>5 DEF ServerKeeps
  <2> USE DEF in, c, e
  <2>7. LET x == srv[n].conn[f] IN Head(link[x.link][Inbox(x)]) # Replica
    BY <1>2
  <2> HIDE DEF in, c, e
  <2> QED BY <2>5, <2>6, <2>7, ReadCommandOK, SMTT(40)
<1> QED BY <1>1, <1>2

LEMMA ReadEndOK ==
  ASSUME IInv, NEW n \in Servers, NEW f \in Fds, ReadEnd(n, f)
  PROVE  IInv'
<1> USE DEF IInv
<1> DEFINE e == srv[n].conn[f]
           c == e.link
           r == freeClient(srv[n], f)
           listed == \E i \in 1 .. Len(srv[n].replicas) : srv[n].replicas[i] = <<f, c>>
<1>1. /\ f \in srv[n].polled /\ srv[n].joining = 0 /\ srv[n].flush = 0
      /\ link[c].state = "broken"
      /\ srv' = [srv EXCEPT ![n] = r]
      /\ orphaned' = IF listed THEN orphaned \cup {<<n, f>>} ELSE orphaned
      /\ link' = link /\ sets' = sets /\ due' = due /\ stray' = stray /\ failed' = failed
  BY DEF ReadEnd, Handling, hist, TypeOK
<1>2. e # NoEnd /\ c \in Links /\ e \in End /\ srv[n] \in Server
  BY <1>1, Basics, OpenEnds DEF Polling
<1>3. /\ r \in Server
      /\ r.events = srv[n].events \ {f} /\ r.polled = srv[n].polled \ {f}
      /\ r.conn = [srv[n].conn EXCEPT ![f] = NoEnd]
      /\ r.master = srv[n].master /\ r.pending = srv[n].pending
      /\ r.replicas = srv[n].replicas /\ r.owed = srv[n].owed /\ r.joining = srv[n].joining
      /\ r.flush = srv[n].flush
  BY <1>2, FreeFields
<1> HIDE DEF r
<1>4. /\ srv' \in [Servers -> Server] /\ srv'[n] = r
      /\ \A m \in Servers \ {n} : srv'[m] = srv[m]
  BY <1>1, <1>3, OneServer
<1>5. e = srv[n].conn[f] /\ (listed <=> \E i \in 1 .. Len(srv[n].replicas) : srv[n].replicas[i] = <<f, c>>)
  OBVIOUS
<1> HIDE DEF c, e, listed
<1>6. \A m \in Servers :
        /\ srv'[m].flush = srv[m].flush /\ srv'[m].joining = srv[m].joining
        /\ srv'[m].owed = srv[m].owed /\ srv'[m].replicas = srv[m].replicas
  BY <1>3, <1>4
<1>7. \A m \in Servers : \A g \in Fds :
        /\ srv'[m].conn[g] = IF m = n /\ g = f THEN NoEnd ELSE srv[m].conn[g]
        /\ g \in srv'[m].polled <=> g \in srv[m].polled /\ ~ (m = n /\ g = f)
        /\ g \in srv'[m].events <=> g \in srv[m].events /\ ~ (m = n /\ g = f)
  <2>1. ASSUME NEW m \in Servers, NEW g \in Fds
        PROVE  /\ srv'[m].conn[g] = IF m = n /\ g = f THEN NoEnd ELSE srv[m].conn[g]
               /\ g \in srv'[m].polled <=> g \in srv[m].polled /\ ~ (m = n /\ g = f)
               /\ g \in srv'[m].events <=> g \in srv[m].events /\ ~ (m = n /\ g = f)
    <3>1. CASE m = n
      <4>1. /\ srv'[m].conn = [srv[n].conn EXCEPT ![f] = NoEnd] /\ srv[n].conn \in [Fds -> End]
            /\ srv'[m].polled = srv[n].polled \ {f} /\ srv'[m].events = srv[n].events \ {f}
        BY <1>3, <1>4, <3>1, Basics
      <4> QED BY <3>1, <4>1
    <3>2. CASE m # n
      BY <1>4, <3>2
    <3> QED BY <3>1, <3>2
  <2> QED BY <2>1
<1>8. TypeOK'
  BY <1>1, <1>4 DEF TypeOK
<1>9. Polling'
  <2>1. ASSUME NEW m \in Servers, NEW g \in Fds
        PROVE  /\ srv'[m].conn[g].link = 0 => srv'[m].conn[g] = NoEnd
               /\ g \in srv'[m].polled => srv'[m].conn[g] # NoEnd /\ srv'[m].joining # g
               /\ <<m, g>> \in failed \/ g \in srv'[m].polled \/ srv'[m].conn[g] = NoEnd \/ srv'[m].joining = g
               /\ <<m, g>> \in failed \/ (g \in srv'[m].events <=> g \in srv'[m].polled)
    <3>1. CASE m = n /\ g = f
      BY <1>7, <3>1
    <3>2. CASE ~ (m = n /\ g = f)
      <4>1. /\ srv'[m].conn[g] = srv[m].conn[g] /\ srv'[m].joining = srv[m].joining
            /\ g \in srv'[m].polled <=> g \in srv[m].polled
            /\ g \in srv'[m].events <=> g \in srv[m].events
        BY <1>6, <1>7, <3>2
      <4> QED BY <4>1 DEF Polling
    <3> QED BY <3>1, <3>2
  <2>2. ASSUME NEW m \in Servers, srv'[m].joining # 0
        PROVE  /\ srv'[m].flush = 0
               /\ srv'[m].conn[srv'[m].joining] # NoEnd
               /\ srv'[m].conn[srv'[m].joining].side = "client"
    <3>1. m # n /\ srv'[m] = srv[m]
      BY <1>1, <1>4, <1>6, <2>2
    <3> QED BY <2>2, <3>1 DEF Polling
  <2> QED BY <1>1, <2>1, <2>2 DEF Polling
\* The end at f was the last of n at c.
<1>10. \A m \in Servers : \A g \in Fds : \A d \in Links :
         /\ srv'[m].conn[g] = ServerEnd(d) => srv[m].conn[g] = ServerEnd(d)
         /\ d # c /\ srv[m].conn[g] = ServerEnd(d) =>
              srv'[m].conn[g] = ServerEnd(d) /\ ~ (m = n /\ g = f)
  <2>1. \A d \in Links : NoEnd # ServerEnd(d) /\ (d # c => e # ServerEnd(d))
    BY ServerEnds DEF c
  <2> HIDE DEF IInv
  <2> QED BY <1>5, <1>7, <2>1
<1>11. Ends'
  <2>1. ASSUME NEW m \in Servers, NEW k \in Servers, NEW g \in Fds, NEW h \in Fds,
               srv'[m].conn[g] = srv'[k].conn[h], srv'[m].conn[g] # NoEnd
        PROVE  m = k /\ g = h
    <3>1. srv[m].conn[g] = srv'[m].conn[g] /\ srv[k].conn[h] = srv'[k].conn[h]
      BY <1>7, <2>1
    <3> QED BY <2>1, <3>1 DEF Ends
  <2>2. ASSUME NEW m \in Servers, NEW g \in Fds, srv'[m].conn[g] # NoEnd
        PROVE  LET x == srv'[m].conn[g]
               IN  /\ link'[x.link].state # "unused"
                   /\ x.side = "server" => link'[x.link].to = m /\ link'[x.link].state # "backlog"
    <3>1. srv'[m].conn[g] = srv[m].conn[g] /\ srv[m].conn[g] # NoEnd
      BY <1>7, <2>2
    <3> QED BY <1>1, <3>1 DEF Ends
  <2>3. ASSUME NEW d \in Links
        PROVE  /\ link'[d].state = "backlog" => link'[d].to \in Servers
               /\ link'[d].state = "open" =>
                    /\ link'[d].to \in Servers
                    /\ \E g \in srv'[link'[d].to].polled : srv'[link'[d].to].conn[g] = ServerEnd(d)
    <3>1. CASE link[d].state = "open"
      <4>1. PICK g \in srv[link[d].to].polled : srv[link[d].to].conn[g] = ServerEnd(d)
        BY <3>1 DEF Ends
      <4>2. link[d].to \in Servers /\ g \in Fds /\ d # c
        BY <1>1, <3>1, <4>1, Basics DEF Ends
      <4>3. srv'[link[d].to].conn[g] = ServerEnd(d) /\ g \in srv'[link[d].to].polled
        BY <1>7, <1>10, <4>1, <4>2
      <4> QED BY <1>1, <3>1, <4>2, <4>3
    <3>2. CASE link[d].state # "open"
      BY <1>1, <3>2 DEF Ends
    <3> QED BY <3>1, <3>2
  <2> HIDE DEF IInv
  <2> QED BY <2>1, <2>2, <2>3 DEF Ends
<1>12. Listing'
  <2>1. ASSUME NEW m \in Servers, NEW i \in 1 .. Len(srv[m].replicas)
        PROVE  Entry(m, i)'
    <3>1. PICK g \in Fds, d \in Links : srv[m].replicas[i][1] = g /\ srv[m].replicas[i][2] = d
      BY ListedAre
    <3>2. Entry(m, i) /\ srv'[m].replicas = srv[m].replicas
      BY <1>6 DEF Listing
    <3>3. srv'[m].conn[g] = ServerEnd(d) \/ <<m, g>> \in orphaned'
      <4>1. CASE m = n /\ g = f /\ d = c
        <5>1. srv[m].replicas[i] = <<g, d>>
          BY <3>1, Basics
        <5>2. listed
          BY <1>5, <4>1, <5>1
        <5> QED BY <1>1, <4>1, <5>2
      <4>2. CASE ~ (m = n /\ g = f)
        <5>1. srv'[m].conn[g] = srv[m].conn[g]
          BY <1>7, <4>2
        <5> QED BY <1>1, <3>1, <3>2, <5>1 DEF Entry
      <4>3. CASE d # c
        BY <1>1, <1>10, <3>1, <3>2, <4>3 DEF Entry
      <4> QED BY <4>1, <4>2, <4>3
    <3>4. \A h \in Fds : srv'[m].conn[h] = ServerEnd(d) => h = g
      BY <1>10, <3>1, <3>2 DEF Entry
    <3>5. link'[d].to = m /\ link'[d].state \notin {"unused", "backlog"}
      BY <1>1, <3>1, <3>2 DEF Entry
    <3> QED BY <3>1, <3>2, <3>3, <3>4, <3>5 DEF Entry
  <2>2. \A m \in Servers : srv'[m].replicas = srv[m].replicas
    BY <1>6
  <2> QED BY <2>1, <2>2 DEF Listing
<1>13. Progress'
  <2>1. ASSUME NEW m \in Servers, NEW i \in 1 .. Len(srv[m].replicas)
        PROVE  Reached(m, i)'
    <3>1. Reached(m, i)
      BY DEF Progress
    <3>2. CASE m = n
      <4>1. ~ Flushing(m) /\ ~ Flushing(m)'
        BY <1>1, <1>6, <3>2 DEF Flushing
      <4>2. srv'[m].replicas = srv[m].replicas
        BY <1>6
      <4>3. srv[m].replicas[i][1] \in Fds /\ srv[m].replicas[i][2] \in Links
        BY ListedAre
      <4> QED BY <1>1, <1>10, <3>1, <4>1, <4>2, <4>3 DEF Reached
    <3>3. CASE m # n
      <4>1. srv'[m] = srv[m]
        BY <1>4, <3>3
      <4>2. Flushing(m)' <=> Flushing(m)
        BY <4>1 DEF Flushing, Streams
      <4>3. \A g : Remaining(m, g)' = Remaining(m, g)
        BY <4>1 DEF Remaining, Passed
      <4> QED BY <1>1, <3>1, <4>1, <4>2, <4>3 DEF Reached
    <3> QED BY <3>2, <3>3
  <2>2. \A m \in Servers : srv'[m].replicas = srv[m].replicas
    BY <1>6
  <2> QED BY <2>1, <2>2 DEF Progress
<1>14. Requests'
  <2>1. \A d \in Links :
           /\ link'[d].state = "unused" <=> link[d].state = "unused"
           /\ \A i \in 1 .. Len(link'[d].down) : link'[d].down[i] # Replica
           /\ \A i \in 1 .. Len(link'[d].up) : link'[d].up[i] = Replica => i = 1 /\ Asks(d)
    BY <1>1, OnTheWay
  <2> QED BY <1>1, <1>6, <2>1, RequestsStay
<1>15. Awaited'
  <2>1. ASSUME NEW d \in Links, Heard(d)
        PROVE  Heard(d)'
    <3>1. Asks(d)' <=> Asks(d)
      BY <1>1 DEF Asks
    <3>2. CASE d = c
      BY <1>1, <3>2 DEF Heard
    <3>3. CASE d # c
      <4>1. \A m \in Servers : Answered(d, m) => Answered(d, m)'
        BY <1>6, <1>10, <3>3 DEF Answered
      <4>2. link[d].state = "open" => link[d].to \in Servers
        BY DEF Ends
      <4> QED BY <1>1, <2>1, <3>1, <4>1, <4>2 DEF Heard
    <3> QED BY <3>2, <3>3
  <2>2. ASSUME NEW m \in Servers, srv'[m].joining # 0
        PROVE  /\ srv'[m].joining = srv[m].joining
               /\ srv'[m].conn[srv[m].joining] = srv[m].conn[srv[m].joining]
    <3>1. m # n /\ srv'[m] = srv[m]
      BY <1>1, <1>4, <1>6, <2>2
    <3> QED BY <3>1
  <2> QED BY <2>1, <2>2, HeardStays
<1>16. stray' \subseteq orphaned'
  BY <1>1
<1> QED BY <1>1, <1>8, <1>9, <1>11, <1>12, <1>13, <1>14, <1>15, <1>16

(***************************************************************************)
(* The steps of beforeSleep.                                               *)
(***************************************************************************)
DescriptorsKeep(m) ==
  /\ srv'[m].conn = srv[m].conn /\ srv'[m].events = srv[m].events
  /\ srv'[m].polled = srv[m].polled /\ srv'[m].joining = srv[m].joining
  /\ srv'[m].replicas = srv[m].replicas

LEMMA DescriptorsStay ==
  ASSUME TypeOK, Polling, Ends, Listing, \A m \in Servers : DescriptorsKeep(m),
         \A m \in Servers : srv'[m].joining # 0 => srv'[m].flush = srv[m].flush,
         \A c \in Links : LinkKeeps(c), failed' = failed, orphaned' = orphaned
  PROVE  Polling' /\ Ends' /\ EndsKeep /\ Listing'
<1>1. Polling'
  BY DEF Polling, DescriptorsKeep
<1>2. Ends'
  <2>1. \A m \in Servers : \A f \in Fds : srv[m].conn[f] # NoEnd => srv[m].conn[f].link \in Links
    BY OpenEnds
  <2>2. \A m \in Servers : srv'[m].conn = srv[m].conn /\ srv'[m].polled = srv[m].polled
    BY DEF DescriptorsKeep
  <2> QED BY <2>1, <2>2 DEF Ends, LinkKeeps
<1>3. EndsKeep
  BY DEF EndsKeep, DescriptorsKeep
<1>4. Listing'
  <2>1. \A m \in Servers : srv'[m].replicas = srv[m].replicas
    BY DEF DescriptorsKeep
  <2>2. \A d \in Links : Settled(d) => Settled(d)' /\ link'[d].to = link[d].to
    BY DEF Settled, LinkKeeps
  <2> QED BY <1>3, <2>1, <2>2, ListingStays
<1> QED BY <1>1, <1>2, <1>3, <1>4

LEMMA BeforeSleepOK ==
  ASSUME IInv, NEW n \in Servers, BeforeSleep(n)
  PROVE  IInv'
<1> USE DEF IInv
<1> DEFINE r == [srv[n] EXCEPT !.flush = 1]
<1>1. /\ srv[n].joining = 0 /\ srv[n].flush = 0
      /\ srv' = [srv EXCEPT ![n] = r]
      /\ due' = [c \in Links |-> IF Streams(n) /\ c \in Followers(n) THEN srv[n].pending ELSE due[c]]
      /\ link' = link /\ sets' = sets /\ stray' = stray /\ orphaned' = orphaned /\ failed' = failed
  BY DEF BeforeSleep, Handling, TypeOK
<1>2. srv[n] \in Server /\ srv[n].pending \in Seq(Cmds)
  BY Basics
<1>3. /\ r \in Server /\ r.flush = 1
      /\ r.conn = srv[n].conn /\ r.events = srv[n].events /\ r.polled = srv[n].polled
      /\ r.master = srv[n].master /\ r.pending = srv[n].pending
      /\ r.replicas = srv[n].replicas /\ r.owed = srv[n].owed /\ r.joining = srv[n].joining
  BY <1>2 DEF Server
<1> HIDE DEF r
<1>4. /\ srv' \in [Servers -> Server] /\ srv'[n] = r
      /\ \A m \in Servers \ {n} : srv'[m] = srv[m]
  BY <1>1, <1>3, OneServer
<1>5. \A m \in Servers : /\ DescriptorsKeep(m) /\ srv'[m].owed = srv[m].owed
                         /\ srv'[m].master = srv[m].master /\ srv'[m].pending = srv[m].pending
                         /\ srv'[m].joining # 0 => srv'[m].flush = srv[m].flush
                         /\ srv'[m].replicas = srv[m].replicas /\ srv'[m].conn = srv[m].conn
                         /\ srv'[m].joining = srv[m].joining
  BY <1>1, <1>3, <1>4 DEF DescriptorsKeep
<1>6. \A c \in Links : LinkKeeps(c)
  BY <1>1 DEF LinkKeeps
<1>7. TypeOK'
  <2>1. due' \in [Links -> Seq(Cmds)]
    BY <1>1, <1>2 DEF TypeOK
  <2> QED BY <1>1, <1>4, <2>1 DEF TypeOK
<1>8. Polling' /\ Ends' /\ Listing'
  BY <1>1, <1>5, <1>6, DescriptorsStay
\* The followers of n are listed by n alone.
<1>9. \A c \in Links : c \in Followers(n) =>
        /\ Settled(c) /\ link[c].to = n
        /\ \E i \in 1 .. Len(srv[n].replicas) : srv[n].replicas[i][2] = c
  BY ListedAre DEF Followers
<1>10. \A c \in Links : due'[c] = IF Streams(n) /\ c \in Followers(n) THEN srv[n].pending ELSE due[c]
  BY <1>1
<1>11. Progress'
  <2>1. ASSUME NEW m \in Servers, NEW i \in 1 .. Len(srv[m].replicas)
        PROVE  Reached(m, i)'
    <3>1. PICK g \in Fds, d \in Links : srv[m].replicas[i][1] = g /\ srv[m].replicas[i][2] = d
      BY ListedAre
    <3>2. /\ Reached(m, i) /\ srv'[m].replicas = srv[m].replicas /\ srv'[m].conn = srv[m].conn
          /\ srv'[m].pending = srv[m].pending
      BY <1>5 DEF Progress
    <3>3. srv'[m].replicas[i][1] = g /\ srv'[m].replicas[i][2] = d /\ srv'[m].conn[g] = srv[m].conn[g]
      BY <3>1, <3>2
    <3>4. CASE m = n /\ Streams(n) /\ srv[m].conn[g] = ServerEnd(d)
      <4>1. d \in Followers(n)
        BY <3>1, <3>4 DEF Followers, ServerEnd
      <4>2. due'[d] = srv'[m].pending
        BY <1>10, <3>2, <3>4, <4>1
      <4>3. srv'[m].flush = 1
        BY <1>3, <1>4, <3>4
      <4>4. Remaining(m, g)' = srv'[m].pending
        BY <4>3 DEF Remaining, Passed
      <4>5. EndOf(srv[m].pending, srv[m].pending)
        BY <1>2, <3>4 DEF EndOf
      <4>6. due'[d] = Remaining(m, g)' /\ EndOf(due'[d], Remaining(m, g)')
        BY <3>2, <4>2, <4>4, <4>5
      <4>7. Flushing(m)'
        BY <1>5, <3>4, <4>3 DEF Flushing, Streams
      <4> QED BY <3>3, <4>6, <4>7 DEF Reached
    <3>5. CASE m = n /\ ~ Streams(n)
      <4>1. ~ Flushing(m) /\ ~ Flushing(m)'
        BY <1>5, <3>5 DEF Flushing, Streams
      <4>2. due'[d] = due[d]
        BY <1>10, <3>5
      <4> QED BY <3>1, <3>2, <4>1, <4>2 DEF Reached
    <3>6. CASE m # n
      <4>1. srv'[m] = srv[m]
        BY <1>4, <3>6
      <4>2. Flushing(m)' <=> Flushing(m)
        BY <4>1 DEF Flushing, Streams
      <4>3. \A h : Remaining(m, h)' = Remaining(m, h)
        BY <4>1 DEF Remaining, Passed
      <4>4. due'[d] = due[d]
        BY <1>9, <1>10, <3>1, <3>6, ListedAre
      <4>5. Flushing(m) => Remaining(m, g)' = Remaining(m, g)
        BY <4>3
      <4> QED BY <1>1, <3>1, <3>2, <3>3, <4>2, <4>4, <4>5 DEF Reached
    <3>7. CASE srv[m].conn[g] # ServerEnd(d)
      BY <3>1, <3>2, <3>7 DEF Reached
    <3> QED BY <3>4, <3>5, <3>6, <3>7
  <2>2. \A m \in Servers : srv'[m].replicas = srv[m].replicas
    BY <1>5
  <2> QED BY <2>1, <2>2 DEF Progress
<1>12. Requests'
  <2>1. \A c \in Links : Asks(c) \/ link[c].state = "unused" => due'[c] = <<>>
    <3>1. ASSUME NEW c \in Links, Asks(c) \/ link[c].state = "unused"
          PROVE  due'[c] = <<>>
      <4>1. due[c] = <<>>
        BY <3>1 DEF Requests
      <4>2. c \notin Followers(n)
        BY <1>9, <3>1 DEF Requests, Settled
      <4> QED BY <1>10, <4>1, <4>2
    <3> QED BY <3>1
  <2>2. \A c \in Links : Asks(c)' <=> Asks(c)
    BY <1>1 DEF Asks
  <2>3. \A m \in Servers : srv'[m].replicas = srv[m].replicas
    BY <1>5
  <2>4. Requests
    OBVIOUS
  <2> HIDE DEF IInv
  <2> QED BY <1>1, <2>1, <2>2, <2>3, <2>4 DEF Requests
<1>13. Awaited'
  <2>1. ASSUME NEW c \in Links, Heard(c)
        PROVE  Heard(c)'
    <3>1. Asks(c)' <=> Asks(c)
      BY <1>1 DEF Asks
    <3>2. \A m \in Servers : Answered(c, m)' <=> Answered(c, m)
      BY <1>5 DEF Answered
    <3>3. link[c].state = "open" => link[c].to \in Servers
      BY DEF Ends
    <3> QED BY <1>1, <2>1, <3>1, <3>2, <3>3 DEF Heard
  <2>2. \A m \in Servers : srv'[m].conn = srv[m].conn /\ srv'[m].joining = srv[m].joining
    BY <1>5
  <2> QED BY <2>1, <2>2, HeardStays
<1> QED BY <1>1, <1>7, <1>8, <1>11, <1>12, <1>13

LEMMA NextCommandOK ==
  ASSUME IInv, NEW n \in Servers, NextCommand(n)
  PROVE  IInv'
<1> USE DEF IInv
<1> DEFINE r == [srv[n] EXCEPT !.pending = Tail(@), !.flush = 1]
<1>1. /\ srv[n].flush > Len(srv[n].replicas) /\ srv[n].master # 0 /\ srv[n].pending # <<>>
      /\ srv' = [srv EXCEPT ![n] = r]
      /\ link' = link /\ sets' = sets /\ due' = due /\ stray' = stray
      /\ orphaned' = orphaned /\ failed' = failed
  BY DEF NextCommand, Streams, hist, TypeOK
<1>2. /\ srv[n] \in Server /\ srv[n].pending \in Seq(Cmds) /\ Tail(srv[n].pending) \in Seq(Cmds)
      /\ srv[n].replicas \in Seq(Fds \X Links) /\ srv[n].flush \in Nat
      /\ Len(srv[n].replicas) \in Nat
  BY <1>1, Basics, TailIs
<1>3. /\ r \in Server /\ r.flush = 1 /\ r.pending = Tail(srv[n].pending)
      /\ r.conn = srv[n].conn /\ r.events = srv[n].events /\ r.polled = srv[n].polled
      /\ r.master = srv[n].master
      /\ r.replicas = srv[n].replicas /\ r.owed = srv[n].owed /\ r.joining = srv[n].joining
  BY <1>2 DEF Server
<1> HIDE DEF r
<1>4. /\ srv' \in [Servers -> Server] /\ srv'[n] = r
      /\ \A m \in Servers \ {n} : srv'[m] = srv[m]
  BY <1>1, <1>3, OneServer
<1>5. srv[n].flush # 0 /\ srv[n].joining = 0 /\ Flushing(n)
  BY <1>1, <1>2 DEF Polling, Flushing, Streams
<1>6. \A m \in Servers : /\ DescriptorsKeep(m) /\ srv'[m].owed = srv[m].owed
                         /\ srv'[m].master = srv[m].master
                         /\ srv'[m].joining # 0 => srv'[m].flush = srv[m].flush
                         /\ srv'[m].replicas = srv[m].replicas /\ srv'[m].conn = srv[m].conn
                         /\ srv'[m].joining = srv[m].joining
  BY <1>3, <1>4, <1>5 DEF DescriptorsKeep
<1>7. \A c \in Links : LinkKeeps(c)
  BY <1>1 DEF LinkKeeps
<1>8. TypeOK'
  BY <1>1, <1>4 DEF TypeOK
<1>9. Polling' /\ Ends' /\ Listing'
  BY <1>1, <1>6, <1>7, DescriptorsStay
<1>10. Progress'
  <2>1. ASSUME NEW m \in Servers, NEW i \in 1 .. Len(srv[m].replicas)
        PROVE  Reached(m, i)'
    <3>1. PICK g \in Fds, d \in Links : srv[m].replicas[i][1] = g /\ srv[m].replicas[i][2] = d
      BY ListedAre
    <3>2. Reached(m, i) /\ srv'[m].replicas = srv[m].replicas /\ srv'[m].conn = srv[m].conn
      BY <1>6 DEF Progress
    <3>3. srv'[m].replicas[i][1] = g /\ srv'[m].replicas[i][2] = d /\ srv'[m].conn[g] = srv[m].conn[g]
      BY <3>1, <3>2
    <3>4. CASE m = n /\ srv[m].conn[g] = ServerEnd(d)
      <4>1. Passed(n, g)
        BY <1>1, <1>2, <3>1, <3>4 DEF Passed
      <4>2. /\ EndOf(due[d], Tail(srv[n].pending))
            /\ <<n, g>> \in orphaned \/ due[d] = Tail(srv[n].pending)
        BY <1>5, <3>1, <3>2, <3>4, <4>1 DEF Reached, Remaining
      <4>3. ~ Passed(n, g)'
        <5>1. srv'[n].flush = 1
          BY <1>3, <1>4
        <5> QED BY <5>1 DEF Passed
      <4>4. Remaining(n, g)' = Tail(srv[n].pending)
        BY <1>3, <1>4, <4>3 DEF Remaining
      <4>5. CASE Tail(srv[n].pending) = <<>>
        <5>1. due[d] \in Seq(Cmds)
          BY DEF TypeOK
        <5>2. due[d] = <<>>
          BY <4>2, <4>5, <5>1 DEF EndOf
        <5>3. ~ Flushing(n)'
          BY <1>3, <1>4, <4>5 DEF Flushing, Streams
        <5> QED BY <1>1, <3>3, <3>4, <5>2, <5>3 DEF Reached
      <4>6. CASE Tail(srv[n].pending) # <<>>
        <5>1. Flushing(n)'
          <6>1. srv'[n].flush = 1 /\ srv'[n].master # 0 /\ srv'[n].pending # <<>>
            BY <1>1, <1>3, <1>4, <4>6
          <6> QED BY <6>1 DEF Flushing, Streams
        <5>2. /\ EndOf(due'[d], Remaining(n, g)')
              /\ <<n, g>> \in orphaned' \/ due'[d] = Remaining(n, g)'
          BY <1>1, <4>2, <4>4
        <5> QED BY <3>3, <3>4, <5>1, <5>2 DEF Reached
      <4> QED BY <4>5, <4>6
    <3>5. CASE m # n
      <4>1. srv'[m] = srv[m]
        BY <1>4, <3>5
      <4>2. Flushing(m)' <=> Flushing(m)
        BY <4>1 DEF Flushing, Streams
      <4>3. Remaining(m, g)' = Remaining(m, g)
        BY <4>1 DEF Remaining, Passed
      <4> QED BY <1>1, <3>1, <3>2, <3>3, <4>2, <4>3 DEF Reached
    <3>6. CASE srv[m].conn[g] # ServerEnd(d)
      BY <3>3, <3>6 DEF Reached
    <3> QED BY <3>4, <3>5, <3>6
  <2>2. \A m \in Servers : srv'[m].replicas = srv[m].replicas
    BY <1>6
  <2> QED BY <2>1, <2>2 DEF Progress
<1>11. Requests'
  <2>1. \A d \in Links :
           /\ link'[d].state = "unused" <=> link[d].state = "unused"
           /\ \A i \in 1 .. Len(link'[d].down) : link'[d].down[i] # Replica
           /\ \A i \in 1 .. Len(link'[d].up) : link'[d].up[i] = Replica => i = 1 /\ Asks(d)
    BY <1>1, OnTheWay
  <2> QED BY <1>1, <1>6, <2>1, RequestsStay
<1>12. Awaited'
  <2>1. ASSUME NEW c \in Links, Heard(c)
        PROVE  Heard(c)'
    <3>1. Asks(c)' <=> Asks(c)
      BY <1>1 DEF Asks
    <3>2. \A m \in Servers : Answered(c, m)' <=> Answered(c, m)
      BY <1>6 DEF Answered
    <3>3. link[c].state = "open" => link[c].to \in Servers
      BY DEF Ends
    <3> QED BY <1>1, <2>1, <3>1, <3>2, <3>3 DEF Heard
  <2>2. \A m \in Servers : srv'[m].conn = srv[m].conn /\ srv'[m].joining = srv[m].joining
    BY <1>6
  <2> QED BY <2>1, <2>2, HeardStays
<1> QED BY <1>1, <1>8, <1>9, <1>10, <1>11, <1>12

LEMMA SleepOK ==
  ASSUME IInv, NEW n \in Servers, Sleep(n)
  PROVE  IInv'
<1> USE DEF IInv
<1> DEFINE r == [srv[n] EXCEPT !.flush = 0, !.owed = {}]
           told(c) == link[c].state = "open" /\ \E f \in srv[n].owed : srv[n].conn[f] = ServerEnd(c)
<1>1. /\ srv[n].flush # 0 /\ ~ Streams(n)
      /\ srv' = [srv EXCEPT ![n] = r]
      /\ link' = [c \in Links |-> IF told(c) THEN [link[c] EXCEPT !.down = Append(@, Ok)] ELSE link[c]]
      /\ sets' = sets /\ due' = due /\ stray' = stray
      /\ orphaned' = orphaned /\ failed' = failed
  BY DEF Sleep, hist, TypeOK, ServerEnd
<1>2. srv[n] \in Server /\ srv[n].owed \in SUBSET Fds
  BY Basics
<1>3. /\ r \in Server /\ r.flush = 0 /\ r.pending = srv[n].pending
      /\ r.conn = srv[n].conn /\ r.events = srv[n].events /\ r.polled = srv[n].polled
      /\ r.master = srv[n].master
      /\ r.replicas = srv[n].replicas /\ r.owed = {} /\ r.joining = srv[n].joining
  BY <1>2 DEF Server
<1> HIDE DEF r
<1>4. /\ srv' \in [Servers -> Server] /\ srv'[n] = r
      /\ \A m \in Servers \ {n} : srv'[m] = srv[m]
  BY <1>1, <1>3, OneServer
<1>5. srv[n].joining = 0
  BY <1>1 DEF Polling
<1>6. \A m \in Servers : /\ DescriptorsKeep(m)
                         /\ srv'[m].master = srv[m].master /\ srv'[m].pending = srv[m].pending
                         /\ srv'[m].joining # 0 => srv'[m].flush = srv[m].flush
                         /\ srv'[m].replicas = srv[m].replicas /\ srv'[m].conn = srv[m].conn
                         /\ srv'[m].joining = srv[m].joining
  BY <1>3, <1>4, <1>5 DEF DescriptorsKeep
<1> HIDE DEF told
<1>7. \A c \in Links :
        /\ link'[c] \in Link
        /\ link'[c].state = link[c].state /\ link'[c].to = link[c].to /\ link'[c].up = link[c].up
        /\ link'[c].down = IF told(c) THEN Append(link[c].down, Ok) ELSE link[c].down
        /\ link[c].down \in Seq(Messages)
  <2>1. ASSUME NEW c \in Links
        PROVE  /\ link'[c] \in Link
               /\ link'[c].state = link[c].state /\ link'[c].to = link[c].to /\ link'[c].up = link[c].up
               /\ link'[c].down = IF told(c) THEN Append(link[c].down, Ok) ELSE link[c].down
               /\ link[c].down \in Seq(Messages)
    <3> DEFINE q == Append(link[c].down, Ok)
               l == [link[c] EXCEPT !.down = q]
    <3>1. link[c] \in Link /\ link[c].down \in Seq(Messages)
      BY DEF TypeOK, Link
    <3>2. q \in Seq(Messages)
      BY <3>1 DEF Messages
    <3> HIDE DEF q
    <3>3. /\ l \in Link /\ l.state = link[c].state /\ l.to = link[c].to /\ l.up = link[c].up
          /\ l.down = q
      BY <3>1, <3>2 DEF Link
    <3>4. link'[c] = IF told(c) THEN l ELSE link[c]
      BY <1>1 DEF q
    <3> HIDE DEF l
    <3> QED BY <3>1, <3>3, <3>4 DEF q
  <2> QED BY <2>1
<1>8. \A c \in Links : LinkKeeps(c)
  BY <1>7 DEF LinkKeeps
<1>9. TypeOK'
  <2>1. link' \in [Links -> Link]
    BY <1>1, <1>7
  <2> QED BY <1>1, <1>4, <2>1 DEF TypeOK
<1>10. Polling' /\ Ends' /\ EndsKeep /\ Listing'
  BY <1>1, <1>6, <1>8, DescriptorsStay
<1>11. Progress'
  <2>1. ASSUME NEW m \in Servers
        PROVE  /\ Flushing(m)' <=> Flushing(m)
               /\ Flushing(m) => srv'[m].flush = srv[m].flush
    <3>1. CASE m = n
      BY <1>1, <1>6, <3>1 DEF Flushing, Streams
    <3>2. CASE m # n
      BY <1>4, <3>2 DEF Flushing, Streams
    <3> QED BY <3>1, <3>2
  <2> QED BY <1>1, <1>6, <1>10, <2>1, ProgressStays
<1>12. Requests'
  <2>1. ASSUME NEW d \in Links
        PROVE  /\ link'[d].state = "unused" <=> link[d].state = "unused"
               /\ \A i \in 1 .. Len(link'[d].down) : link'[d].down[i] # Replica
               /\ \A i \in 1 .. Len(link'[d].up) : link'[d].up[i] = Replica => i = 1 /\ Asks(d)
    <3>1. /\ \A i \in 1 .. Len(link[d].down) : link[d].down[i] # Replica
          /\ \A i \in 1 .. Len(link[d].up) : link[d].up[i] = Replica => i = 1 /\ Asks(d)
      BY OnTheWay
    <3>2. \A i \in 1 .. Len(Append(link[d].down, Ok)) : Append(link[d].down, Ok)[i] # Replica
      <4>1. link[d].down \in Seq(Messages) /\ Ok # Replica
        BY <1>7 DEF Ok, Replica
      <4> HIDE DEF IInv
      <4> QED BY <3>1, <4>1
    <3> QED BY <1>7, <3>1, <3>2
  <2> QED BY <1>1, <1>6, <2>1, RequestsStay
<1>13. Awaited'
  <2>1. ASSUME NEW c \in Links, Heard(c)
        PROVE  Heard(c)'
    <3>1. Asks(c)' <=> Asks(c)
      BY <1>7 DEF Asks
    <3>2. link[c].state = "open" => link[c].to \in Servers
      BY DEF Ends
    <3>3. CASE told(c)
      <4>1. link'[c].down = Append(link[c].down, Ok) /\ link[c].down \in Seq(Messages)
        BY <1>7, <3>3
      <4>2. link'[c].down # <<>>
        BY <4>1
      <4> QED BY <4>2 DEF Heard
    <3>4. CASE ~ told(c)
      <4>1. link'[c].down = link[c].down
        BY <1>7, <3>4
      <4>2. link[c].state = "open" => ~ Answered(c, n)
        BY <3>4 DEF Answered, told
      <4>3. \A m \in Servers \ {n} : Answered(c, m)' <=> Answered(c, m)
        BY <1>4 DEF Answered
      <4> QED BY <1>7, <2>1, <3>1, <3>2, <4>1, <4>2, <4>3 DEF Heard
    <3> QED BY <3>3, <3>4
  <2>2. \A m \in Servers : srv'[m].conn = srv[m].conn /\ srv'[m].joining = srv[m].joining
    BY <1>6
  <2> QED BY <2>1, <2>2, HeardStays
<1> QED BY <1>1, <1>9, <1>10, <1>11, <1>12, <1>13

(***************************************************************************)
(* What a flush writes.                                                    *)
(***************************************************************************)
LEMMA EndOfTail ==
  ASSUME NEW S, NEW s \in Seq(S), NEW t \in Seq(S), EndOf(s, t)
  PROVE  /\ s # <<>> => EndOf(Tail(s), t)
         /\ s # <<>> /\ t # <<>> => EndOf(Tail(s), Tail(t))
         /\ t # <<>> /\ (s = <<>> \/ Head(s) # Head(t)) => EndOf(s, Tail(t))
<1>1. ASSUME s # <<>> PROVE EndOf(Tail(s), t)
  BY <1>1, TailIs DEF EndOf
<1>2. ASSUME s # <<>>, t # <<>> PROVE EndOf(Tail(s), Tail(t))
  BY <1>2, TailIs DEF EndOf
<1>3. ASSUME t # <<>>, s = <<>> PROVE EndOf(s, Tail(t))
  BY <1>3, TailIs DEF EndOf
<1>4. ASSUME t # <<>>, s # <<>>, Head(s) # Head(t) PROVE EndOf(s, Tail(t))
  <2>1. Len(s) # Len(t)
    <3>1. ASSUME Len(s) = Len(t) PROVE FALSE
      <4>1. s[1] = t[1]
        BY <1>4, <3>1, TailIs DEF EndOf
      <4> QED BY <1>4, <4>1, TailIs
    <3> QED BY <3>1
  <2>2. Len(s) <= Len(Tail(t)) /\ Len(Tail(t)) = Len(t) - 1 /\ Len(s) \in Nat /\ Len(t) \in Nat
    BY <1>4, <2>1, TailIs DEF EndOf
  <2>3. ASSUME NEW i \in 1 .. Len(s)
        PROVE  s[i] = Tail(t)[Len(Tail(t)) - Len(s) + i]
    <3>1. Len(Tail(t)) - Len(s) + i \in 1 .. Len(Tail(t))
      BY <2>2, <2>3
    <3>2. Tail(t)[Len(Tail(t)) - Len(s) + i] = t[Len(Tail(t)) - Len(s) + i + 1]
      BY <1>4, <3>1, TailIs
    <3>3. Len(Tail(t)) - Len(s) + i + 1 = Len(t) - Len(s) + i
      BY <2>2, <2>3
    <3> QED BY <3>2, <3>3 DEF EndOf
  <2> QED BY <2>2, <2>3 DEF EndOf
<1> QED BY <1>1, <1>2, <1>3, <1>4

\* Two entries with one descriptor: it was freed under the first.
LEMMA SameDescriptor ==
  ASSUME TypeOK, Listing, NEW n \in Servers,
         NEW i \in 1 .. Len(srv[n].replicas), NEW j \in 1 .. Len(srv[n].replicas), i # j,
         srv[n].replicas[i][1] = srv[n].replicas[j][1]
  PROVE  <<n, srv[n].replicas[i][1]>> \in orphaned
<1>1. Entry(n, i) /\ Entry(n, j)
  BY DEF Listing
<1>2. srv[n].replicas[i][2] # srv[n].replicas[j][2]
  BY DEF Listing
<1>3. ServerEnd(srv[n].replicas[i][2]) # ServerEnd(srv[n].replicas[j][2])
  BY <1>2, ListedAre, ServerEnds
<1> QED BY <1>1, <1>3 DEF Entry

\* A command is written to an end.
LEMMA WriteFields ==
  ASSUME TypeOK, NEW e \in End, e.link \in Links, NEW x \in Cmds,
         link' = IF link[e.link].state = "open"
                 THEN [link EXCEPT ![e.link][Outbox(e)] = Append(@, x)] ELSE link
  PROVE  /\ link' \in [Links -> Link]
         /\ \A d \in Links : /\ link'[d].state = link[d].state /\ link'[d].to = link[d].to /\ link'[d].from = link[d].from
                             /\ link[d].up \in Seq(Messages) /\ link[d].down \in Seq(Messages)
                             /\ link'[d].up \in {link[d].up, Append(link[d].up, x)}
                             /\ link'[d].down \in {link[d].down, Append(link[d].down, x)}
<1> DEFINE c == e.link
           l == link[c]
           d == Append(l.down, x)
           u == Append(l.up, x)
<1>1. \A k \in Links : link[k] \in Link /\ link[k].up \in Seq(Messages) /\ link[k].down \in Seq(Messages)
  BY DEF TypeOK, Link
<1>2. d \in Seq(Messages) /\ u \in Seq(Messages)
  BY <1>1 DEF Messages
<1>3. CASE l.state # "open"
  BY <1>1, <1>3 DEF TypeOK
<1>4. CASE l.state = "open" /\ e.side = "server"
  <2> DEFINE r == [l EXCEPT !.down = d]
  <2>1. link' = [link EXCEPT ![c] = r]
    BY <1>4 DEF Outbox, TypeOK
  <2> HIDE DEF d, u
  <2>2. r \in Link /\ r.state = l.state /\ r.to = l.to /\ r.from = l.from /\ r.up = l.up /\ r.down = d
    BY <1>1, <1>2 DEF Link
  <2> HIDE DEF r
  <2> QED BY <1>1, <2>1, <2>2 DEF TypeOK, d
<1>5. CASE l.state = "open" /\ e.side = "client"
  <2> DEFINE r == [l EXCEPT !.up = u]
  <2>1. link' = [link EXCEPT ![c] = r]
    BY <1>5 DEF Outbox, TypeOK
  <2> HIDE DEF d, u
  <2>2. r \in Link /\ r.state = l.state /\ r.to = l.to /\ r.from = l.from /\ r.down = l.down /\ r.up = u
    BY <1>1, <1>2 DEF Link
  <2> HIDE DEF r
  <2> QED BY <1>1, <2>1, <2>2 DEF TypeOK, u
<1> QED BY <1>3, <1>4, <1>5 DEF End

LEMMA ReplicateOK ==
  ASSUME IInv, NEW n \in Servers, Replicate(n)
  PROVE  IInv'
<1> USE DEF IInv
<1> DEFINE r == Advanced(srv[n])
           x == Head(srv[n].pending)
<1>1. PICK i \in 1 .. Len(srv[n].replicas), f \in Fds, t \in Links :
        /\ i = srv[n].flush /\ srv[n].replicas[i][1] = f /\ srv[n].replicas[i][2] = t
        /\ srv[n].master # 0 /\ srv[n].pending # <<>>
        /\ Target(n)[1] = f
  BY ListedAre, ZenonT(40) DEF Replicate, Writing, Streams, Target
<1> DEFINE e == srv[n].conn[f]
           c == e.link
           right == e.side = "server" /\ due[c] # <<>> /\ Head(due[c]) = x
<1>2. /\ c # 0
      /\ srv' = [srv EXCEPT ![n] = r]
      /\ link' = IF link[c].state = "open" THEN [link EXCEPT ![c][Outbox(e)] = Append(@, x)] ELSE link
      /\ due' = IF right THEN [due EXCEPT ![c] = Tail(@)] ELSE due
      /\ stray' = IF right THEN stray ELSE stray \cup {<<n, f>>}
      /\ sets' = sets /\ orphaned' = orphaned /\ failed' = failed
  BY <1>1 DEF Replicate, TypeOK
<1>3. /\ srv[n] \in Server /\ srv[n].flush \in Nat /\ srv[n].pending \in Seq(Cmds)
      /\ e \in End /\ c \in Links /\ x \in Cmds /\ x # Replica
  <2>1. /\ srv[n] \in Server /\ srv[n].flush \in Nat /\ srv[n].pending \in Seq(Cmds)
        /\ e \in End /\ c \in Links
    BY <1>2, Basics, Zenon
  <2>2. x \in Cmds
    BY <1>1, <2>1, TailIs
  <2>3. \A y \in Cmds : y # 0
    BY Taken DEF Cmds
  <2> QED BY <2>1, <2>2, <2>3 DEF Replica
<1>4. /\ r \in Server /\ r.flush = srv[n].flush + 1
      /\ r.conn = srv[n].conn /\ r.events = srv[n].events /\ r.polled = srv[n].polled
      /\ r.master = srv[n].master /\ r.pending = srv[n].pending
      /\ r.replicas = srv[n].replicas /\ r.owed = srv[n].owed /\ r.joining = srv[n].joining
  <2>1. PICK k \in Nat : k = srv[n].flush + 1
    BY <1>3
  <2>2. r = [srv[n] EXCEPT !.flush = k]
    BY <2>1 DEF Advanced
  <2> HIDE DEF r
  <2> QED BY <1>3, <2>1, <2>2, Zenon DEF Server
<1> HIDE DEF r
<1>5. /\ srv' \in [Servers -> Server] /\ srv'[n] = r
      /\ \A m \in Servers \ {n} : srv'[m] = srv[m]
  BY <1>2, <1>4, OneServer, Zenon
<1>6. srv[n].joining = 0 /\ Flushing(n) /\ srv[n].flush # 0
  BY <1>1 DEF Polling, Flushing, Streams
<1>7. Flushing(n)'
  <2>1. srv'[n].flush # 0 /\ srv'[n].master # 0 /\ srv'[n].pending # <<>>
    BY <1>1, <1>3, <1>4, <1>5
  <2> QED BY <2>1 DEF Flushing, Streams
<1>8. \A m \in Servers : /\ DescriptorsKeep(m)
                         /\ srv'[m].master = srv[m].master /\ srv'[m].pending = srv[m].pending
                         /\ srv'[m].joining # 0 => srv'[m].flush = srv[m].flush
                         /\ srv'[m].replicas = srv[m].replicas /\ srv'[m].conn = srv[m].conn
                         /\ srv'[m].joining = srv[m].joining /\ srv'[m].owed = srv[m].owed
  BY <1>4, <1>5, <1>6, SMTT(40) DEF DescriptorsKeep
<1>9. /\ link' \in [Links -> Link]
      /\ \A d \in Links : /\ link'[d].state = link[d].state /\ link'[d].to = link[d].to
                          /\ link[d].up \in Seq(Messages) /\ link[d].down \in Seq(Messages)
                          /\ link'[d].up \in {link[d].up, Append(link[d].up, x)}
                          /\ link'[d].down \in {link[d].down, Append(link[d].down, x)}
  BY <1>2, <1>3, WriteFields, Zenon
<1>10. e = srv[n].conn[f] /\ c = e.link /\ (e.side = "server" => e = ServerEnd(c))
  BY <1>3 DEF End, ServerEnd
<1>11. right <=> e.side = "server" /\ due[c] # <<>> /\ Head(due[c]) = x
  OBVIOUS
<1>12. x = Head(srv[n].pending)
  OBVIOUS
<1> HIDE DEF x, c, e, right
<1>13. /\ due' \in [Links -> Seq(Cmds)]
       /\ right => due'[c] = Tail(due[c])
       /\ ~ right => due'[c] = due[c]
       /\ \A d \in Links \ {c} : due'[d] = due[d]
       /\ \A d \in Links : due[d] \in Seq(Cmds)
  <2>1. due \in [Links -> Seq(Cmds)]
    BY DEF TypeOK
  <2>2. right => Tail(due[c]) \in Seq(Cmds)
    BY <1>3, <1>11, <2>1, TailIs
  <2> HIDE DEF IInv
  <2> QED BY <1>2, <1>3, <2>1, <2>2
<1>14. TypeOK'
  BY <1>2, <1>5, <1>9, <1>13 DEF TypeOK
<1>15. Polling' /\ Ends' /\ EndsKeep /\ Listing'
  <2>1. \A d \in Links : LinkKeeps(d)
    BY <1>9 DEF LinkKeeps
  <2> QED BY <1>2, <1>8, <2>1, DescriptorsStay
\* The first write to a descriptor that is still the replica's is what is due there.
<1>16. <<n, f>> \in orphaned \/ (right /\ c = t /\ ~ Passed(n, f) /\ due[t] = srv[n].pending)
  <2>1. ASSUME <<n, f>> \notin orphaned
        PROVE  right /\ c = t /\ ~ Passed(n, f) /\ due[t] = srv[n].pending
    <3>1. e = ServerEnd(t) /\ Reached(n, i)
      BY <1>1, <1>10, <2>1 DEF Listing, Entry, Progress
    <3>2. ~ Passed(n, f)
      <4>1. ASSUME NEW j \in 1 .. Len(srv[n].replicas), j < srv[n].flush, srv[n].replicas[j][1] = f
            PROVE  FALSE
        <5>1. j # i
          BY <1>1, <4>1
        <5> QED BY <1>1, <2>1, <4>1, <5>1, SameDescriptor
      <4> QED BY <4>1 DEF Passed
    <3>3. due[t] = srv[n].pending
      BY <1>1, <1>6, <1>10, <2>1, <3>1, <3>2 DEF Reached, Remaining
    <3>4. c = t /\ e.side = "server"
      BY <1>10, <3>1, ServerEnds
    <3> QED BY <1>1, <1>11, <1>12, <3>2, <3>3, <3>4
  <2> QED BY <2>1
<1>17. stray' \subseteq orphaned'
  BY <1>2, <1>16
<1>18. Progress'
  <2>1. ASSUME NEW m \in Servers, NEW j \in 1 .. Len(srv[m].replicas)
        PROVE  Reached(m, j)'
    <3>1. PICK g \in Fds, d \in Links : srv[m].replicas[j][1] = g /\ srv[m].replicas[j][2] = d
      BY ListedAre
    <3>2. Reached(m, j)
      BY DEF Progress
    <3>3. srv'[m].replicas[j][1] = g /\ srv'[m].replicas[j][2] = d /\ srv'[m].conn[g] = srv[m].conn[g]
      BY <1>8, <3>1
    <3>4. CASE srv[m].conn[g] # ServerEnd(d)
      BY <3>3, <3>4 DEF Reached
    <3>5. CASE m # n /\ srv[m].conn[g] = ServerEnd(d)
      <4>1. due'[d] = due[d]
        <5>1. CASE d # c
          BY <1>13, <5>1
        <5>2. CASE d = c
          <6>1. ~ right
            <7>1. ASSUME right PROVE FALSE
              <8>1. srv[n].conn[f] = srv[m].conn[g] /\ srv[m].conn[g] # NoEnd
                BY <1>10, <1>11, <3>5, <5>2, <7>1, ServerEnds
              <8> QED BY <3>5, <8>1 DEF Ends
            <7> QED BY <7>1
          <6> QED BY <1>13, <5>2, <6>1
        <5> QED BY <5>1, <5>2
      <4>2. srv'[m] = srv[m]
        BY <1>5, <3>5
      <4>3. Flushing(m)' <=> Flushing(m)
        BY <4>2 DEF Flushing, Streams
      <4>4. Remaining(m, g)' = Remaining(m, g)
        BY <4>2 DEF Remaining, Passed
      <4> QED BY <1>2, <3>1, <3>2, <3>3, <4>1, <4>3, <4>4, SMTT(40) DEF Reached
    <3>6. CASE m = n /\ g # f /\ srv[m].conn[g] = ServerEnd(d)
      <4>1. due'[d] = due[d]
        <5>1. CASE d # c
          BY <1>13, <5>1
        <5>2. CASE d = c
          <6>1. ~ right
            <7>1. ASSUME right PROVE FALSE
              <8>1. srv[n].conn[f] = srv[m].conn[g] /\ srv[m].conn[g] # NoEnd
                BY <1>10, <1>11, <3>6, <5>2, <7>1, ServerEnds
              <8> QED BY <3>6, <8>1 DEF Ends
            <7> QED BY <7>1
          <6> QED BY <1>13, <5>2, <6>1
        <5> QED BY <5>1, <5>2
      <4>2. Flushing(n)'
        BY <1>7
      <4>3. Passed(n, g)' <=> Passed(n, g)
        <5>1. srv'[n].replicas = srv[n].replicas /\ srv'[n].flush = srv[n].flush + 1
          BY <1>4, <1>5
        <5>2. ASSUME NEW k \in 1 .. Len(srv[n].replicas), srv[n].replicas[k][1] = g
              PROVE  k < srv[n].flush + 1 <=> k < srv[n].flush
          <6>1. k # i
            BY <1>1, <3>6, <5>2
          <6> QED BY <1>1, <1>3, <6>1
        <5> QED BY <5>1, <5>2 DEF Passed
      <4>4. Remaining(n, g)' = Remaining(n, g)
        BY <1>8, <4>3 DEF Remaining
      <4> QED BY <1>2, <1>6, <3>1, <3>2, <3>3, <3>6, <4>1, <4>2, <4>4 DEF Reached
    <3>7. CASE m = n /\ g = f /\ srv[m].conn[g] = ServerEnd(d)
      <4>1. Flushing(n)'
        BY <1>7
      <4>2. c = d /\ e.side = "server"
        BY <1>10, <3>7, ServerEnds
      <4>3. Passed(n, f)'
        <5>1. srv'[n].replicas = srv[n].replicas /\ srv'[n].flush = srv[n].flush + 1
          BY <1>4, <1>5
        <5>2. i < srv'[n].flush /\ srv'[n].replicas[i][1] = f /\ i \in 1 .. Len(srv'[n].replicas)
          BY <1>1, <1>3, <5>1
        <5> QED BY <5>2 DEF Passed
      <4>4. Remaining(n, f)' = Tail(srv[n].pending)
        BY <1>8, <4>3 DEF Remaining
      <4>5. /\ EndOf(due[d], Remaining(n, f))
            /\ <<n, f>> \in orphaned \/ due[d] = Remaining(n, f)
        BY <1>6, <3>1, <3>2, <3>7 DEF Reached
      <4>6. due[d] \in Seq(Cmds) /\ Tail(srv[n].pending) \in Seq(Cmds)
        BY <1>1, <1>3, <1>13, TailIs
      <4>7. EndOf(due'[d], Tail(srv[n].pending))
        <5>1. CASE Passed(n, f)
          <6>1. EndOf(due[d], Tail(srv[n].pending))
            BY <4>5, <5>1 DEF Remaining
          <6>2. CASE right
            BY <1>11, <1>13, <4>2, <4>6, <6>1, <6>2, EndOfTail
          <6>3. CASE ~ right
            BY <1>13, <4>2, <6>1, <6>3
          <6> QED BY <6>2, <6>3
        <5>2. CASE ~ Passed(n, f)
          <6>1. EndOf(due[d], srv[n].pending)
            BY <4>5, <5>2 DEF Remaining
          <6>2. CASE right
            BY <1>1, <1>3, <1>11, <1>13, <4>2, <4>6, <6>1, <6>2, EndOfTail
          <6>3. CASE ~ right
            BY <1>1, <1>3, <1>11, <1>12, <1>13, <4>2, <4>6, <6>1, <6>3, EndOfTail
          <6> QED BY <6>2, <6>3
        <5> QED BY <5>1, <5>2
      <4>8. <<n, f>> \in orphaned \/ due'[d] = Tail(srv[n].pending)
        BY <1>13, <1>16, <4>2
      <4>9. /\ EndOf(due'[d], Remaining(n, f)')
            /\ <<n, f>> \in orphaned' \/ due'[d] = Remaining(n, f)'
        BY <1>2, <4>4, <4>7, <4>8
      <4> QED BY <3>3, <3>7, <4>1, <4>9 DEF Reached
    <3> QED BY <3>4, <3>5, <3>6, <3>7
  <2>2. \A m \in Servers : srv'[m].replicas = srv[m].replicas
    BY <1>8
  <2> QED BY <2>1, <2>2 DEF Progress
\* Nothing but a command was put on the way.
<1>19. ASSUME NEW d \in Links
       PROVE  /\ link[d].down # <<>> => link'[d].down # <<>>
              /\ \A k \in 1 .. Len(link'[d].down) : link'[d].down[k] # Replica
              /\ \A k \in 1 .. Len(link'[d].up) : link'[d].up[k] = Replica => k = 1 /\ Asks(d)
              /\ Asks(d)' <=> Asks(d)
  <2>1. \A q \in Seq(Messages) : \A p \in {q, Append(q, x)} :
          /\ q # <<>> => p # <<>>
          /\ \A k \in 1 .. Len(p) : p[k] = Replica => k \in 1 .. Len(q) /\ q[k] = Replica
          /\ \A k \in 1 .. Len(q) : k \in 1 .. Len(p) /\ p[k] = q[k]
    <3>1. ASSUME NEW q \in Seq(Messages)
          PROVE  LET p == Append(q, x)
                 IN  /\ q # <<>> => p # <<>>
                     /\ \A k \in 1 .. Len(p) : p[k] = Replica => k \in 1 .. Len(q) /\ q[k] = Replica
                     /\ \A k \in 1 .. Len(q) : k \in 1 .. Len(p) /\ p[k] = q[k]
      <4> HIDE DEF IInv
      <4> QED BY <1>3
    <3> QED BY <3>1
  <2>2. /\ \A k \in 1 .. Len(link[d].down) : link[d].down[k] # Replica
        /\ \A k \in 1 .. Len(link[d].up) : link[d].up[k] = Replica => k = 1 /\ Asks(d)
    BY OnTheWay
  <2> HIDE DEF IInv
  <2>3. Asks(d)' <=> Asks(d)
    BY <1>9, <2>1 DEF Asks
  <2> QED BY <1>9, <2>1, <2>2, <2>3, ZenonT(40)
<1>20. Requests'
  <2>1. \A d \in Links : Asks(d) \/ link[d].state = "unused" => due'[d] = <<>>
    <3>1. ASSUME NEW d \in Links, Asks(d) \/ link[d].state = "unused"
          PROVE  due'[d] = <<>>
      <4>1. due[d] = <<>>
        BY <3>1 DEF Requests
      <4> QED BY <1>11, <1>13, <4>1
    <3> QED BY <3>1
  <2>2. \A m \in Servers : srv'[m].replicas = srv[m].replicas
    BY <1>8
  <2>3. Requests
    OBVIOUS
  <2> HIDE DEF IInv
  <2> QED BY <1>9, <1>19, <2>1, <2>2, <2>3, ZenonT(40) DEF Requests
<1>21. Awaited'
  <2>1. ASSUME NEW d \in Links, Heard(d)
        PROVE  Heard(d)'
    <3>1. \A m \in Servers : Answered(d, m)' <=> Answered(d, m)
      BY <1>8 DEF Answered
    <3>2. link[d].state = "open" => link[d].to \in Servers
      BY DEF Ends
    <3> QED BY <1>9, <1>19, <2>1, <3>1, <3>2 DEF Heard
  <2>2. \A m \in Servers : srv'[m].conn = srv[m].conn /\ srv'[m].joining = srv[m].joining
    BY <1>8, SMTT(40)
  <2> QED BY <2>1, <2>2, HeardStays
<1> QED BY <1>14, <1>15, <1>17, <1>18, <1>20, <1>21

\* The last takes the place of one that is dropped.
LEMMA DropIs ==
  ASSUME NEW S, NEW q \in Seq(S), NEW i \in 1 .. Len(q)
  PROVE  LET p == Front([q EXCEPT ![i] = Last(q)])
         IN  /\ p \in Seq(S) /\ Len(p) = Len(q) - 1
             /\ \A j \in 1 .. Len(p) : p[j] = IF j = i THEN q[Len(q)] ELSE q[j]
<1> DEFINE u == [q EXCEPT ![i] = Last(q)]
<1>1. Last(q) = q[Len(q)] /\ Len(q) \in Nat \ {0} /\ q[Len(q)] \in S
  BY DEF Last
<1>2. /\ u \in Seq(S) /\ Len(u) = Len(q)
      /\ \A j \in 1 .. Len(q) : u[j] = IF j = i THEN q[Len(q)] ELSE q[j]
  BY <1>1
<1> HIDE DEF u
<1>3. Front(u) = SubSeq(u, 1, Len(u) - 1)
  BY DEF Front
<1>4. /\ Front(u) \in Seq(S) /\ Len(Front(u)) = Len(u) - 1
      /\ \A j \in 1 .. Len(u) - 1 : Front(u)[j] = u[j]
  BY <1>1, <1>2, <1>3
<1>5. \A j \in 1 .. Len(Front(u)) : j \in 1 .. Len(q)
  BY <1>1, <1>2, <1>4
<1> QED BY <1>2, <1>4, <1>5, Zenon DEF u

LEMMA DroppedFields ==
  ASSUME NEW s \in Server, NEW i \in 1 .. Len(s.replicas)
  PROVE  LET r == Dropped(s, i)
         IN  /\ r \in Server
             /\ Len(r.replicas) = Len(s.replicas) - 1
             /\ \A j \in 1 .. Len(r.replicas) :
                  r.replicas[j] = IF j = i THEN s.replicas[Len(s.replicas)] ELSE s.replicas[j]
             /\ r.conn = s.conn /\ r.events = s.events /\ r.polled = s.polled
             /\ r.master = s.master /\ r.pending = s.pending /\ r.owed = s.owed
             /\ r.joining = s.joining /\ r.flush = s.flush /\ r.exec = s.exec
<1> DEFINE p == Front([s.replicas EXCEPT ![i] = Last(s.replicas)])
<1>1. s.replicas \in Seq(Fds \X Links)
  BY DEF Server
<1>2. /\ p \in Seq(Fds \X Links) /\ Len(p) = Len(s.replicas) - 1
      /\ \A j \in 1 .. Len(p) : p[j] = IF j = i THEN s.replicas[Len(s.replicas)] ELSE s.replicas[j]
  BY <1>1, DropIs
<1>3. Dropped(s, i) = [s EXCEPT !.replicas = p]
  BY DEF Dropped
<1> HIDE DEF p
<1> QED BY <1>2, <1>3 DEF Server

LEMMA ReplicateErrorOK ==
  ASSUME IInv, NEW n \in Servers, ReplicateError(n)
  PROVE  IInv'
<1> USE DEF IInv
<1>1. PICK i \in 1 .. Len(srv[n].replicas), f \in Fds, t \in Links :
        /\ i = srv[n].flush /\ srv[n].replicas[i][1] = f /\ srv[n].replicas[i][2] = t
        /\ srv[n].master # 0 /\ srv[n].pending # <<>>
        /\ Target(n)[1] = f /\ Target(n)[2] = t
  BY ListedAre, Zenon DEF ReplicateError, Writing, Streams, Target
<1> DEFINE e == srv[n].conn[f]
           c == e.link
           s == Closed(srv[n], f)
           r == Dropped(s, i)
           last == Len(srv[n].replicas)
<1>2. /\ srv' = [srv EXCEPT ![n] = r]
      /\ link' = Hangup(link, e)
      /\ due' = [due EXCEPT ![t] = <<>>]
      /\ failed' = IF e = NoEnd THEN failed ELSE failed \cup {<<n, f>>}
      /\ sets' = sets /\ stray' = stray /\ orphaned' = orphaned
  BY <1>1 DEF ReplicateError, TypeOK
<1>3. /\ srv[n] \in Server /\ srv[n].flush \in Nat /\ last \in Nat \ {0} /\ 0 \notin Fds /\ 0 \notin Links
      /\ srv[n].replicas \in Seq(Fds \X Links)
      /\ e \in End /\ c \in Links \cup {0} /\ (c = 0 => e = NoEnd) /\ (e = NoEnd => c = 0)
  <2>1. /\ srv[n] \in Server /\ srv[n].flush \in Nat /\ 0 \notin Fds /\ 0 \notin Links
        /\ srv[n].replicas \in Seq(Fds \X Links)
        /\ e \in End /\ c \in Links \cup {0}
    BY Basics
  <2>2. last \in Nat \ {0}
    BY <1>1, <2>1
  <2>3. (c = 0 => e = NoEnd) /\ (e = NoEnd => c = 0)
    <3>1. srv[n].conn[f].link = 0 => srv[n].conn[f] = NoEnd
      BY DEF Polling
    <3>2. NoEnd.link = 0
      BY DEF NoEnd
    <3> QED BY <3>1, <3>2
  <2> QED BY <2>1, <2>2, <2>3
<1>4. /\ s \in Server
      /\ s.events = srv[n].events /\ s.polled = srv[n].polled \ {f}
      /\ s.conn = [srv[n].conn EXCEPT ![f] = NoEnd]
      /\ s.master = srv[n].master /\ s.pending = srv[n].pending
      /\ s.replicas = srv[n].replicas /\ s.owed = srv[n].owed /\ s.joining = srv[n].joining
      /\ s.flush = srv[n].flush
  BY <1>3, ClosedFields
<1> HIDE DEF s
<1>5. /\ r \in Server
      /\ Len(r.replicas) = last - 1
      /\ \A j \in 1 .. last - 1 :
           r.replicas[j] = IF j = i THEN srv[n].replicas[last] ELSE srv[n].replicas[j]
      /\ r.conn = s.conn /\ r.events = s.events /\ r.polled = s.polled
      /\ r.master = s.master /\ r.pending = s.pending /\ r.owed = s.owed
      /\ r.joining = s.joining /\ r.flush = s.flush
  <2>1. i \in 1 .. Len(s.replicas) /\ Len(s.replicas) = last /\ s.replicas = srv[n].replicas /\ s \in Server
    BY <1>4
  <2> HIDE DEF last
  <2>2. /\ r \in Server
        /\ Len(r.replicas) = Len(s.replicas) - 1
        /\ \A j \in 1 .. Len(r.replicas) :
             r.replicas[j] = IF j = i THEN s.replicas[Len(s.replicas)] ELSE s.replicas[j]
        /\ r.conn = s.conn /\ r.events = s.events /\ r.polled = s.polled
        /\ r.master = s.master /\ r.pending = s.pending /\ r.owed = s.owed
        /\ r.joining = s.joining /\ r.flush = s.flush
    BY <2>1, DroppedFields
  <2> QED BY <2>1, <2>2
<1> HIDE DEF r
<1>6. /\ srv' \in [Servers -> Server] /\ srv'[n] = r
      /\ \A m \in Servers \ {n} : srv'[m] = srv[m]
  BY <1>2, <1>5, OneServer
<1>7. srv[n].joining = 0 /\ Flushing(n) /\ srv[n].flush # 0
  BY <1>1 DEF Polling, Flushing, Streams
<1>8. \A m \in Servers :
        /\ srv'[m].flush = srv[m].flush /\ srv'[m].joining = srv[m].joining
        /\ srv'[m].owed = srv[m].owed /\ srv'[m].events = srv[m].events
        /\ srv'[m].master = srv[m].master /\ srv'[m].pending = srv[m].pending
  BY <1>4, <1>5, <1>6
<1>9. \A m \in Servers : \A g \in Fds :
        /\ srv'[m].conn[g] = IF m = n /\ g = f THEN NoEnd ELSE srv[m].conn[g]
        /\ g \in srv'[m].polled <=> g \in srv[m].polled /\ ~ (m = n /\ g = f)
  <2>1. ASSUME NEW m \in Servers, NEW g \in Fds
        PROVE  /\ srv'[m].conn[g] = IF m = n /\ g = f THEN NoEnd ELSE srv[m].conn[g]
               /\ g \in srv'[m].polled <=> g \in srv[m].polled /\ ~ (m = n /\ g = f)
    <3>1. CASE m = n
      <4>1. /\ srv'[m].conn = [srv[n].conn EXCEPT ![f] = NoEnd] /\ srv[n].conn \in [Fds -> End]
            /\ srv'[m].polled = srv[n].polled \ {f}
        BY <1>4, <1>5, <1>6, <3>1, Basics
      <4> QED BY <3>1, <4>1
    <3>2. CASE m # n
      BY <1>6, <3>2
    <3> QED BY <3>1, <3>2
  <2> QED BY <2>1
\* What is listed was listed, but for the one that is dropped.
<1>10. ASSUME NEW m \in Servers, NEW j \in 1 .. Len(srv'[m].replicas)
       PROVE  \E k \in 1 .. Len(srv[m].replicas) :
                /\ srv'[m].replicas[j] = srv[m].replicas[k]
                /\ m # n => k = j
                /\ m = n => k # i /\ j \in 1 .. last - 1 /\ (k = j \/ (j = i /\ k = last))
  <2>1. CASE m = n
    <3>1. j \in 1 .. last - 1
      BY <1>5, <1>6, <2>1
    <3>2. CASE j = i
      <4>1. last \in 1 .. Len(srv[m].replicas) /\ last # i
        BY <1>3, <2>1, <3>1, <3>2
      <4>2. srv'[m].replicas[j] = srv[m].replicas[last]
        BY <1>5, <1>6, <2>1, <3>1, <3>2
      <4> QED BY <2>1, <3>1, <3>2, <4>1, <4>2
    <3>3. CASE j # i
      <4>1. j \in 1 .. Len(srv[m].replicas)
        BY <1>3, <2>1, <3>1
      <4>2. srv'[m].replicas[j] = srv[m].replicas[j]
        BY <1>5, <1>6, <2>1, <3>1, <3>3
      <4> QED BY <2>1, <3>1, <3>3, <4>1, <4>2
    <3> QED BY <3>2, <3>3
  <2>2. CASE m # n
    <3>1. srv'[m] = srv[m]
      BY <1>6, <2>2
    <3> QED BY <2>2, <3>1
  <2> QED BY <2>1, <2>2
<1>11. e = srv[n].conn[f] /\ last = Len(srv[n].replicas)
  OBVIOUS
<1>12. /\ link' \in [Links -> Link]
       /\ \A d \in Links : /\ link'[d].to = link[d].to
                           /\ d # c => link'[d] = link[d]
                           /\ d = c => link'[d].state = "broken"
                           /\ link'[d].up \in {link[d].up, <<>>}
                           /\ link'[d].down \in {link[d].down, <<>>}
  <2>1. link \in [Links -> Link]
    BY DEF TypeOK
  <2> HIDE DEF IInv, e
  <2>2. CASE c = 0
    BY <1>2, <1>3, <2>1, <2>2 DEF Hangup
  <2>3. CASE c # 0
    <3>1. c \in Links
      BY <1>3, <2>3
    <3>2. /\ link' \in [Links -> Link]
          /\ \A d \in Links \ {c} : link'[d] = link[d]
          /\ link'[c].state = "broken" /\ link'[c].to = link[c].to
          /\ link'[c].up \in {link[c].up, <<>>}
          /\ link'[c].down \in {link[c].down, <<>>}
      BY <1>2, <1>3, <2>1, <3>1, HangupFields
    <3> QED BY <3>2
  <2> QED BY <2>2, <2>3
<1> HIDE DEF c, e, last
<1>13. \A d \in Links : /\ due'[d] = IF d = t THEN <<>> ELSE due[d]
                        /\ link'[d].state \in {link[d].state, "broken"}
  BY <1>2, <1>12 DEF TypeOK
<1>14. TypeOK'
  <2>1. due' \in [Links -> Seq(Cmds)]
    BY <1>2 DEF TypeOK
  <2> QED BY <1>2, <1>6, <1>12, <2>1 DEF TypeOK
<1>15. Polling'
  <2>1. ASSUME NEW m \in Servers, NEW g \in Fds
        PROVE  /\ srv'[m].conn[g].link = 0 => srv'[m].conn[g] = NoEnd
               /\ g \in srv'[m].polled => srv'[m].conn[g] # NoEnd /\ srv'[m].joining # g
               /\ <<m, g>> \in failed' \/ g \in srv'[m].polled \/ srv'[m].conn[g] = NoEnd \/ srv'[m].joining = g
               /\ <<m, g>> \in failed' \/ (g \in srv'[m].events <=> g \in srv'[m].polled)
    <3>1. CASE m = n /\ g = f
      <4>1. srv'[m].conn[g] = NoEnd /\ g \notin srv'[m].polled
        BY <1>9, <3>1
      <4>2. CASE e = NoEnd
        <5>1. <<n, f>> \in failed \/ f \notin srv[n].events
          BY <1>11, <4>2 DEF Polling
        <5> QED BY <1>2, <1>8, <3>1, <4>1, <4>2, <5>1
      <4>3. CASE e # NoEnd
        BY <1>2, <3>1, <4>1, <4>3
      <4> QED BY <4>2, <4>3
    <3>2. CASE ~ (m = n /\ g = f)
      <4>1. /\ srv'[m].conn[g] = srv[m].conn[g] /\ srv'[m].joining = srv[m].joining
            /\ g \in srv'[m].polled <=> g \in srv[m].polled
            /\ g \in srv'[m].events <=> g \in srv[m].events
            /\ <<m, g>> \in failed => <<m, g>> \in failed'
        BY <1>2, <1>8, <1>9, <3>2
      <4> QED BY <4>1 DEF Polling
    <3> QED BY <3>1, <3>2
  <2>2. ASSUME NEW m \in Servers, srv'[m].joining # 0
        PROVE  /\ srv'[m].flush = 0
               /\ srv'[m].conn[srv'[m].joining] # NoEnd
               /\ srv'[m].conn[srv'[m].joining].side = "client"
    <3>1. m # n /\ srv'[m] = srv[m]
      BY <1>6, <1>7, <1>8, <2>2
    <3> QED BY <2>2, <3>1 DEF Polling
  <2> HIDE DEF IInv
  <2> QED BY <2>1, <2>2 DEF Polling
\* The end at f was the last of n at c.
<1>16. \A m \in Servers : \A g \in Fds : \A d \in Links :
         /\ srv'[m].conn[g] = ServerEnd(d) =>
              srv[m].conn[g] = ServerEnd(d) /\ ~ (m = n /\ g = f)
         /\ d # c /\ srv[m].conn[g] = ServerEnd(d) =>
              srv'[m].conn[g] = ServerEnd(d) /\ ~ (m = n /\ g = f)
  <2>1. \A d \in Links : NoEnd # ServerEnd(d) /\ (d # c => e # ServerEnd(d))
    BY ServerEnds DEF c
  <2> HIDE DEF IInv
  <2> QED BY <1>9, <1>11, <2>1
<1>17. Ends'
  <2>1. ASSUME NEW m \in Servers, NEW k \in Servers, NEW g \in Fds, NEW h \in Fds,
               srv'[m].conn[g] = srv'[k].conn[h], srv'[m].conn[g] # NoEnd
        PROVE  m = k /\ g = h
    <3>1. srv[m].conn[g] = srv'[m].conn[g] /\ srv[k].conn[h] = srv'[k].conn[h]
      BY <1>9, <2>1
    <3> QED BY <2>1, <3>1 DEF Ends
  <2>2. ASSUME NEW m \in Servers, NEW g \in Fds, srv'[m].conn[g] # NoEnd
        PROVE  LET x == srv'[m].conn[g]
               IN  /\ link'[x.link].state # "unused"
                   /\ x.side = "server" => link'[x.link].to = m /\ link'[x.link].state # "backlog"
    <3>1. srv'[m].conn[g] = srv[m].conn[g] /\ srv[m].conn[g] # NoEnd
      BY <1>9, <2>2
    <3>2. srv[m].conn[g].link \in Links
      BY <3>1, OpenEnds
    <3> QED BY <1>12, <1>13, <3>1, <3>2 DEF Ends
  <2>3. ASSUME NEW d \in Links
        PROVE  /\ link'[d].state = "backlog" => link'[d].to \in Servers
               /\ link'[d].state = "open" =>
                    /\ link'[d].to \in Servers
                    /\ \E g \in srv'[link'[d].to].polled : srv'[link'[d].to].conn[g] = ServerEnd(d)
    <3>1. CASE d = c
      BY <1>12, <3>1
    <3>2. CASE d # c /\ link[d].state = "open"
      <4>1. PICK g \in srv[link[d].to].polled : srv[link[d].to].conn[g] = ServerEnd(d)
        BY <3>2 DEF Ends
      <4>2. link[d].to \in Servers /\ g \in Fds
        BY <3>2, <4>1, Basics DEF Ends
      <4>3. srv'[link[d].to].conn[g] = ServerEnd(d) /\ g \in srv'[link[d].to].polled
        BY <1>9, <1>16, <3>2, <4>1, <4>2
      <4> QED BY <1>12, <3>2, <4>2, <4>3
    <3>3. CASE d # c /\ link[d].state # "open"
      BY <1>12, <3>3 DEF Ends
    <3> QED BY <3>1, <3>2, <3>3
  <2> HIDE DEF IInv
  <2> QED BY <2>1, <2>2, <2>3 DEF Ends
<1>18. Listing'
  <2>1. ASSUME NEW m \in Servers, NEW j \in 1 .. Len(srv'[m].replicas)
        PROVE  Entry(m, j)'
    <3>1. PICK k \in 1 .. Len(srv[m].replicas) :
            /\ srv'[m].replicas[j] = srv[m].replicas[k]
            /\ m # n => k = j
            /\ m = n => k # i /\ j \in 1 .. last - 1 /\ (k = j \/ (j = i /\ k = last))
      BY <1>10
    <3>2. PICK g \in Fds, d \in Links : srv[m].replicas[k][1] = g /\ srv[m].replicas[k][2] = d
      BY ListedAre
    <3>3. Entry(m, k)
      BY DEF Listing
    <3>4. srv'[m].conn[g] = ServerEnd(d) \/ <<m, g>> \in orphaned
      <4>1. CASE m = n /\ g = f
        BY <1>1, <3>1, <3>2, <4>1, SameDescriptor
      <4>2. CASE ~ (m = n /\ g = f)
        BY <1>9, <3>2, <3>3, <4>2 DEF Entry
      <4> QED BY <4>1, <4>2
    <3>5. \A h \in Fds : srv'[m].conn[h] = ServerEnd(d) => h = g
      BY <1>16, <3>2, <3>3 DEF Entry
    <3>6. link'[d].to = m /\ link'[d].state \notin {"unused", "backlog"}
      BY <1>12, <1>13, <3>2, <3>3 DEF Entry
    <3>7. srv'[m].replicas[j][1] = g /\ srv'[m].replicas[j][2] = d
      BY <3>1, <3>2
    <3> HIDE DEF IInv
    <3> QED BY <1>2, <3>4, <3>5, <3>6, <3>7 DEF Entry
  <2>2. ASSUME NEW m \in Servers, NEW j \in 1 .. Len(srv'[m].replicas),
               NEW h \in 1 .. Len(srv'[m].replicas), srv'[m].replicas[j][2] = srv'[m].replicas[h][2]
        PROVE  j = h
    <3>1. PICK k \in 1 .. Len(srv[m].replicas) :
            /\ srv'[m].replicas[j] = srv[m].replicas[k]
            /\ m # n => k = j
            /\ m = n => k # i /\ j \in 1 .. last - 1 /\ (k = j \/ (j = i /\ k = last))
      BY <1>10
    <3>2. PICK l \in 1 .. Len(srv[m].replicas) :
            /\ srv'[m].replicas[h] = srv[m].replicas[l]
            /\ m # n => l = h
            /\ m = n => l # i /\ h \in 1 .. last - 1 /\ (l = h \/ (h = i /\ l = last))
      BY <1>10
    <3>3. k = l
      <4>1. srv[m].replicas[k][2] = srv[m].replicas[l][2]
        BY <2>2, <3>1, <3>2
      <4> QED BY <4>1 DEF Listing
    <3> HIDE DEF IInv
    <3> QED BY <1>3, <3>1, <3>2, <3>3
  <2> HIDE DEF IInv
  <2> QED BY <2>1, <2>2 DEF Listing
<1>19. Progress'
  <2>1. ASSUME NEW m \in Servers, NEW j \in 1 .. Len(srv'[m].replicas)
        PROVE  Reached(m, j)'
    <3>1. PICK k \in 1 .. Len(srv[m].replicas) :
            /\ srv'[m].replicas[j] = srv[m].replicas[k]
            /\ m # n => k = j
            /\ m = n => k # i /\ j \in 1 .. last - 1 /\ (k = j \/ (j = i /\ k = last))
      BY <1>10
    <3>2. PICK g \in Fds, d \in Links : srv[m].replicas[k][1] = g /\ srv[m].replicas[k][2] = d
      BY ListedAre
    <3>3. srv'[m].replicas[j][1] = g /\ srv'[m].replicas[j][2] = d
      BY <3>1, <3>2
    <3>4. CASE srv'[m].conn[g] # ServerEnd(d)
      BY <3>3, <3>4 DEF Reached
    <3>5. CASE srv'[m].conn[g] = ServerEnd(d)
      <4>1. srv[m].conn[g] = ServerEnd(d) /\ ~ (m = n /\ g = f)
        BY <1>16, <3>5
      <4>2. Reached(m, k)
        BY DEF Progress
      <4>3. d # t
        <5>1. CASE m = n
          <6>1. srv[m].replicas[k][2] = srv[m].replicas[i][2] => k = i
            BY <5>1 DEF Listing
          <6> HIDE DEF IInv
          <6> QED BY <1>1, <3>1, <3>2, <5>1, <6>1
        <5>2. CASE m # n
          <6>1. link[srv[n].replicas[i][2]].to = n /\ link[srv[m].replicas[k][2]].to = m
            BY ListedAre
          <6> HIDE DEF IInv
          <6> QED BY <1>1, <3>2, <5>2, <6>1
        <5> QED BY <5>1, <5>2
      <4>4. due'[d] = due[d]
        BY <1>13, <4>3
      <4>5. Flushing(m)' <=> Flushing(m)
        BY <1>8 DEF Flushing, Streams
      <4>6. Passed(m, g)' <=> Passed(m, g)
        <5>1. CASE m = n
          <6>1. \A h \in Nat \ {0} : h < i => /\ h \in 1 .. Len(srv'[n].replicas)
                                              /\ h \in 1 .. Len(srv[n].replicas)
                                              /\ srv'[n].replicas[h] = srv[n].replicas[h]
            <7>1. ASSUME NEW h \in Nat \ {0}, h < i
                  PROVE  /\ h \in 1 .. Len(srv'[n].replicas)
                         /\ h \in 1 .. Len(srv[n].replicas)
                         /\ srv'[n].replicas[h] = srv[n].replicas[h]
              <8>1. h \in 1 .. last - 1 /\ h # i
                BY <1>1, <1>3, <1>11, <7>1
              <8> QED BY <1>1, <1>3, <1>5, <1>6, <1>11, <8>1
            <7> QED BY <7>1
          <6>2. srv'[n].flush = i /\ srv[n].flush = i
            BY <1>1, <1>8
          <6> HIDE DEF IInv
          <6>3. ASSUME Passed(n, g) PROVE Passed(n, g)'
            <7>1. PICK h \in 1 .. Len(srv[n].replicas) : h < srv[n].flush /\ srv[n].replicas[h][1] = g
              BY <6>3 DEF Passed
            <7>2. h \in 1 .. Len(srv'[n].replicas) /\ h < srv'[n].flush /\ srv'[n].replicas[h][1] = g
              BY <6>1, <6>2, <7>1
            <7> QED BY <7>2 DEF Passed
          <6>4. ASSUME Passed(n, g)' PROVE Passed(n, g)
            <7>1. PICK h \in 1 .. Len(srv'[n].replicas) : h < srv'[n].flush /\ srv'[n].replicas[h][1] = g
              BY <6>4 DEF Passed
            <7>2. h \in 1 .. Len(srv[n].replicas) /\ h < srv[n].flush /\ srv[n].replicas[h][1] = g
              BY <6>1, <6>2, <7>1
            <7> QED BY <7>2 DEF Passed
          <6> QED BY <5>1, <6>3, <6>4
        <5>2. CASE m # n
          BY <1>6, <5>2 DEF Passed
        <5> QED BY <5>1, <5>2
      <4>7. Remaining(m, g)' = Remaining(m, g)
        BY <1>8, <4>6 DEF Remaining
      <4> QED BY <1>2, <3>2, <3>3, <4>1, <4>2, <4>4, <4>5, <4>7, SMTT(40) DEF Reached
    <3> QED BY <3>4, <3>5
  <2> HIDE DEF IInv
  <2> QED BY <2>1 DEF Progress
<1>20. Requests'
  <2>1. ASSUME NEW d \in Links
        PROVE  /\ link'[d].state = "unused" <=> link[d].state = "unused"
               /\ \A k \in 1 .. Len(link'[d].down) : link'[d].down[k] # Replica
               /\ \A k \in 1 .. Len(link'[d].up) : link'[d].up[k] = Replica => k = 1 /\ Asks(d)
    <3>1. link'[d].state = "unused" <=> link[d].state = "unused"
      <4>1. CASE d = c
        <5>1. link[d].state # "unused"
          BY <1>3, <1>11, <4>1 DEF Ends, c
        <5> QED BY <1>12, <4>1, <5>1
      <4>2. CASE d # c
        BY <1>12, <4>2
      <4> QED BY <4>1, <4>2
    <3> HIDE DEF IInv
    <3>2. Requests
      BY DEF IInv
    <3> QED BY <1>12, <3>1, <3>2, OnTheWay
  <2>2. \A d \in Links : Asks(d)' => Asks(d)
    BY <2>1 DEF Asks
  <2>3. \A d \in Links : due[d] = <<>> => due'[d] = <<>>
    BY <1>13
  <2>4. ASSUME NEW m \in Servers, NEW j \in 1 .. Len(srv'[m].replicas)
        PROVE  \E k \in 1 .. Len(srv[m].replicas) : srv'[m].replicas[j] = srv[m].replicas[k]
    BY <1>10
  <2>5. Requests
    OBVIOUS
  <2> HIDE DEF IInv
  <2>6. ASSUME NEW d \in Links, Asks(d)
        PROVE  \A m \in Servers : \A j \in 1 .. Len(srv'[m].replicas) : srv'[m].replicas[j][2] # d
    <3>1. \A m \in Servers : \A k \in 1 .. Len(srv[m].replicas) : srv[m].replicas[k][2] # d
      BY <2>5, <2>6 DEF Requests
    <3>2. ASSUME NEW m \in Servers, NEW j \in 1 .. Len(srv'[m].replicas)
          PROVE  srv'[m].replicas[j][2] # d
      <4>1. PICK k \in 1 .. Len(srv[m].replicas) : srv'[m].replicas[j] = srv[m].replicas[k]
        BY <2>4, <3>2
      <4>2. srv[m].replicas[k][2] # d
        BY <3>1, <4>1
      <4> QED BY <4>1, <4>2
    <3> QED BY <3>2
  <2> QED BY <2>1, <2>2, <2>3, <2>5, <2>6 DEF Requests
<1>21. Awaited'
  <2>1. ASSUME NEW d \in Links, Heard(d)
        PROVE  Heard(d)'
    <3>1. CASE d = c
      BY <1>12, <3>1 DEF Heard
    <3>2. CASE d # c
      <4>1. link'[d] = link[d] /\ (Asks(d)' <=> Asks(d))
        BY <1>12, <3>2 DEF Asks
      <4>2. \A m \in Servers : Answered(d, m) => Answered(d, m)'
        BY <1>8, <1>16, <3>2 DEF Answered
      <4>3. link[d].state = "open" => link[d].to \in Servers
        BY DEF Ends
      <4> QED BY <2>1, <4>1, <4>2, <4>3 DEF Heard
    <3> QED BY <3>1, <3>2
  <2>2. ASSUME NEW m \in Servers, srv'[m].joining # 0
        PROVE  /\ srv'[m].joining = srv[m].joining
               /\ srv'[m].conn[srv[m].joining] = srv[m].conn[srv[m].joining]
    <3>1. m # n /\ srv'[m] = srv[m]
      BY <1>6, <1>7, <1>8, <2>2
    <3> QED BY <3>1
  <2> QED BY <2>1, <2>2, HeardStays
<1> QED BY <1>2, <1>14, <1>15, <1>17, <1>18, <1>19, <1>20, <1>21, SMTT(40)

(***************************************************************************)
(* The invariant, and what follows from it.                                *)
(***************************************************************************)
LEMMA InitOK == Init => IInv
<1> SUFFICES ASSUME Init PROVE IInv
  OBVIOUS
<1>1. NoEnd \in End /\ NoEnd.link = 0
  BY DEF NoEnd, End
<1>2. /\ \A n \in Servers : /\ srv[n].conn = [f \in Fds |-> NoEnd] /\ srv[n].events = {}
                            /\ srv[n].polled = {} /\ srv[n].joining = 0 /\ srv[n].replicas = <<>>
                            /\ srv[n].flush = 0
      /\ \A c \in Links : /\ link[c].state = "unused" /\ link[c].up = <<>> /\ link[c].down = <<>>
                          /\ due[c] = <<>>
  BY DEF Init
<1>3. TypeOK
  <2> DEFINE s == [conn |-> [f \in Fds |-> NoEnd], events |-> {}, polled |-> {}, master |-> 0,
                   pending |-> <<>>, replicas |-> <<>>, owed |-> {}, joining |-> 0, flush |-> 0,
                   exec |-> <<>>]
             l == [state |-> "unused", from |-> Visitor, to |-> Visitor, up |-> <<>>, down |-> <<>>]
  <2>1. <<>> \in Seq(Cmds) /\ <<>> \in Seq(Fds \X Links) /\ <<>> \in Seq(Messages)
    OBVIOUS
  <2>2. s \in Server /\ l \in Link
    BY <1>1, <2>1 DEF Server, Link
  <2>3. srv = [n \in Servers |-> s] /\ link = [c \in Links |-> l] /\ sets = 0
        /\ due = [c \in Links |-> <<>>]
    BY DEF Init
  <2> HIDE DEF s, l
  <2> QED BY <2>1, <2>2, <2>3 DEF TypeOK
<1>4. Polling
  BY <1>2 DEF Polling
<1>5. Ends
  BY <1>2 DEF Ends
<1>6. Requests
  BY <1>2 DEF Requests, Asks
<1>7. Listing /\ Progress
  BY <1>2 DEF Listing, Progress
<1>8. Awaited
  BY <1>2 DEF Awaited, Awaits
<1>9. stray \subseteq orphaned
  BY DEF Init
<1> QED BY <1>3, <1>4, <1>5, <1>6, <1>7, <1>8, <1>9 DEF IInv

LEMMA StepOK ==
  ASSUME IInv, [Next]_vars
  PROVE  IInv'
<1>1. CASE UNCHANGED vars
  <2>1. /\ srv' = srv /\ link' = link /\ sets' = sets /\ due' = due /\ stray' = stray
        /\ orphaned' = orphaned /\ failed' = failed
    BY <1>1 DEF vars, hist
  <2>2. /\ \A m \in Servers : ServerKeeps(m) /\ srv'[m].owed = srv[m].owed
                              /\ srv'[m].pending = srv[m].pending
        /\ \A c \in Links : LinkKeeps(c)
    BY <2>1 DEF ServerKeeps, LinkKeeps
  <2>3. TypeOK'
    BY <2>1 DEF IInv, TypeOK
  <2>4. Polling' /\ Ends' /\ Listing' /\ Progress' /\ Requests' /\ Awaited'
    BY <2>1, <2>2, KeepsPolling, KeepsEnds, KeepsListing, KeepsProgress, KeepsRequests,
       KeepsAwaited DEF IInv
  <2> QED BY <2>1, <2>3, <2>4 DEF IInv
<1>2. ASSUME NEW n \in Servers, Proceed(n)
      PROVE  IInv'
  BY <1>2, BeforeSleepOK, ReplicateOK, ReplicateErrorOK, NextCommandOK, SleepOK, JoinAcceptedOK,
     JoinRejectedOK DEF Proceed
<1>3. ASSUME NEW n \in Servers,
             \/ UserSet(n) \/ Visit(n) \/ Accept(n)
             \/ \E m \in Servers : ReplicaOf(n, m)
             \/ \E f \in Fds : Read(n, f) \/ ReadEnd(n, f)
      PROVE  IInv'
  BY <1>3, UserSetOK, VisitOK, AcceptOK, ReplicaOfOK, ReadOK, ReadEndOK
<1>4. ASSUME NEW c \in Links, Break(c)
      PROVE  IInv'
  BY <1>4, BreakOK
<1> QED BY <1>1, <1>2, <1>3, <1>4 DEF Next

LEMMA Invariant == Spec => []IInv
BY InitOK, StepOK, PTL DEF Spec

\* The table of a loop and the kernel agree on every descriptor that no write failed on:
\* what is open and not joining is listened to, and what is closed can be handed out.
THEOREM DescriptorsAreUsable == Spec => []DescriptorIsUsable
<1>1. ASSUME IInv PROVE DescriptorIsUsable
  <2>1. TypeOK /\ Polling
    BY <1>1 DEF IInv
  <2> QED BY <2>1 DEF DescriptorIsUsable, TypeOK, Polling
<1> QED BY <1>1, Invariant, PTL

\* The stream is written to replicas, to each what it is due, unless the end of file
\* freed the descriptor under the replica.
THEOREM StreamsReachReplicas == Spec => []StreamIsForReplica
<1>1. ASSUME IInv PROVE StreamIsForReplica
  BY <1>1 DEF IInv, StreamIsForReplica
<1> QED BY <1>1, Invariant, PTL

\* A flush leaves nothing due to a replica that is still at its descriptor, whatever
\* other replicas were dropped meanwhile.
THEOREM StreamsAreWhole == Spec => []StreamIsWhole
<1>1. ASSUME IInv PROVE StreamIsWhole
  <2>1. TypeOK /\ Listing /\ Progress
    BY <1>1 DEF IInv
  <2>2. ASSUME NEW n \in Servers, srv[n].flush = 0, NEW c \in Followers(n)
        PROVE  due[c] = <<>>
    <3>1. PICK i \in 1 .. Len(srv[n].replicas) :
            srv[n].replicas[i][2] = c /\ srv[n].conn[srv[n].replicas[i][1]] = ServerEnd(c)
      BY <2>2 DEF Followers, ServerEnd
    <3>2. Reached(n, i)
      BY <2>1 DEF Progress
    <3> QED BY <2>2, <3>1, <3>2 DEF Reached, Flushing
  <2> QED BY <2>2 DEF StreamIsWhole
<1> QED BY <1>1, Invariant, PTL

\* A server that blocks in REPLICAOF waits for what is on the way.
THEOREM JoinsArePending == Spec => []JoinIsPending
<1>1. ASSUME IInv PROVE JoinIsPending
  <2>1. TypeOK /\ Polling /\ Ends /\ Requests /\ Awaited
    BY <1>1 DEF IInv
  <2>2. ASSUME NEW n \in Servers, srv[n].joining # 0
        PROVE  LET l == Joining(n)
                   m == srv[l.to]
               IN  \/ l.state \in {"broken", "backlog"} \/ l.down # <<>>
                   \/ \E f \in m.polled :
                        /\ m.conn[f] = [link |-> srv[n].conn[srv[n].joining].link, side |-> "server"]
                        /\ Replica \in Range(l.up) \/ f \in m.owed
    <3>1. PICK c \in Links : c = srv[n].conn[srv[n].joining].link
      BY <2>1, <2>2, Basics, OpenEnds DEF Polling
    <3>2. Heard(c) /\ Joining(n) = link[c]
      BY <2>1, <2>2, <3>1 DEF Awaited, Awaits, Joining
    <3>3. link[c].state \in {"unused", "backlog", "open", "broken"} /\ link[c].state # "unused"
      <4>1. link[c] \in Link
        BY <2>1 DEF TypeOK
      <4>2. link[c].state # "unused"
        BY <2>1, <2>2, <3>1, Basics, SMTT(40) DEF Ends, Polling
      <4> QED BY <4>1, <4>2 DEF Link
    <3>4. CASE link[c].state = "open" /\ link[c].down = <<>>
      <4>1. PICK f \in srv[link[c].to].polled : srv[link[c].to].conn[f] = ServerEnd(c)
        BY <2>1, <3>4 DEF Ends
      <4>2. Asks(c) \/ Answered(c, link[c].to)
        BY <3>2, <3>4 DEF Heard
      <4>3. Asks(c) => Replica \in Range(link[c].up)
        <5>1. link[c].up \in Seq(Messages)
          BY <2>1 DEF TypeOK, Link
        <5> QED BY <5>1 DEF Asks, Range
      <4>4. Answered(c, link[c].to) => f \in srv[link[c].to].owed
        <5>1. link[c].to \in Servers
          BY <2>1, <3>4 DEF Ends
        <5>2. ASSUME NEW g \in Fds, srv[link[c].to].conn[g] = ServerEnd(c)
              PROVE  g = f
          <6>1. f \in Fds
            BY <2>1, <5>1, Basics
          <6> QED BY <2>1, <4>1, <5>1, <5>2, <6>1, ServerEnds DEF Ends
        <5> QED BY <5>2 DEF Answered
      <4> QED BY <3>1, <3>2, <4>1, <4>2, <4>3, <4>4, Zenon DEF ServerEnd
    <3> QED BY <3>2, <3>3, <3>4
  <2> QED BY <2>2 DEF JoinIsPending
<1> QED BY <1>1, Invariant, PTL

(***************************************************************************)
(* A server executes a command once.                                       *)
(***************************************************************************)
Has(s, x) == \E i \in 1 .. Len(s) : s[i] = x

\* No command stands twice in s.
Distinct(s) == \A i, j \in 1 .. Len(s) : s[i] = s[j] /\ s[i] \in Cmds => i = j

\* Connection c was made by server n.
Made(c, n) == link[c].state # "unused" /\ link[c].from = n

Single(n) == \A c, d \in Links : Made(c, n) /\ Made(d, n) => c = d

\* A client sends no commands.
Asking == \A c \in Links : \A i \in 1 .. Len(link[c].up) : link[c].up[i] = Replica

\* Commands that were not given yet are nowhere.
Known ==
  /\ \A n \in Servers : \A x \in Cmds : Has(srv[n].exec, x) \/ Has(srv[n].pending, x) => x <= sets
  /\ \A c \in Links : \A x \in Cmds : Has(link[c].down, x) => x <= sets

\* A command is in one queue, in one place; and so is what is due.
Queues ==
  /\ \A n \in Servers : Distinct(srv[n].pending)
  /\ \A n, m \in Servers : \A x \in Cmds : Has(srv[n].pending, x) /\ Has(srv[m].pending, x) => n = m
  /\ \A c \in Links : Distinct(due[c])

\* A server that listens to a master has one, and so does not queue what it executes.
Masters ==
  \A n \in Servers : \A f \in Fds :
    LET e == srv[n].conn[f]
    IN  e # NoEnd /\ e.side = "client" =>
          link[e.link].from = n /\ (srv[n].joining = f \/ srv[n].master # 0)

\* A server that asked itself waits for itself.
Alone ==
  \A n \in Servers : \A c \in Links :
     Made(c, n) /\ link[c].to = n =>
        /\ link[c].state # "open" /\ link[c].down = <<>>
        /\ link[c].state = "backlog" => srv[n].joining # 0 /\ srv[n].conn[srv[n].joining].link = c

\* Server m, in its flush, has written the command it is at to connection c.
Sent(m, c, x) ==
   /\ Flushing(m) /\ x = Head(srv[m].pending)
   /\ link[c].state # "unused" /\ link[c].to = m /\ ~ Has(due[c], x)

\* A command that m still has in its queue is elsewhere only if m has sent it.
Unsent ==
  \A m \in Servers : \A x \in Cmds : Has(srv[m].pending, x) =>
    /\ \A c \in Links : Has(link[c].down, x) => Sent(m, c, x)
    /\ \A n \in Servers \ {m} : Has(srv[n].exec, x) => \E c \in Links : link[c].from = n /\ Sent(m, c, x)

\* What has reached a server that joined once, or is on the way to it.
OnceEach ==
  \A n \in Servers : Single(n) =>
    /\ Distinct(srv[n].exec)
    /\ \A c \in Links : Made(c, n) =>
         /\ Distinct(link[c].down)
         /\ \A x \in Cmds : ~ (Has(link[c].down, x) /\ Has(srv[n].exec, x))

Once == Asking /\ Known /\ Queues /\ Masters /\ Alone /\ Unsent /\ OnceEach

-----------------------------------------------------------------------------
LEMMA AppendHas ==
  ASSUME NEW S, NEW s \in Seq(S), NEW x \in S
  PROVE  /\ \A y : Has(Append(s, x), y) <=> Has(s, y) \/ y = x
         /\ Distinct(s) /\ ~ Has(s, x) => Distinct(Append(s, x))
         /\ Distinct(s) /\ x \notin Cmds => Distinct(Append(s, x))
<1> DEFINE t == Append(s, x)
<1>1. /\ Len(s) \in Nat /\ Len(t) = Len(s) + 1 /\ t[Len(s) + 1] = x
      /\ \A i \in 1 .. Len(s) : t[i] = s[i] /\ i \in 1 .. Len(t)
      /\ \A i \in 1 .. Len(t) : i \in 1 .. Len(s) \/ i = Len(s) + 1
      /\ Len(s) + 1 \in 1 .. Len(t)
  OBVIOUS
<1> HIDE DEF t
<1>2. \A y : Has(t, y) <=> Has(s, y) \/ y = x
  BY <1>1 DEF Has
<1>3. ASSUME Distinct(s), ~ Has(s, x) \/ x \notin Cmds, NEW i \in 1 .. Len(t), NEW j \in 1 .. Len(t), t[i] = t[j], t[i] \in Cmds
      PROVE  i = j
  <2>1. CASE i \in 1 .. Len(s) /\ j \in 1 .. Len(s)
    BY <1>1, <1>3, <2>1 DEF Distinct
  <2>2. CASE i = Len(s) + 1 /\ j \in 1 .. Len(s)
    BY <1>1, <1>3, <2>2 DEF Has
  <2>3. CASE j = Len(s) + 1 /\ i \in 1 .. Len(s)
    BY <1>1, <1>3, <2>3 DEF Has
  <2> QED BY <1>1, <2>1, <2>2, <2>3
<1>4. (Distinct(s) /\ (~ Has(s, x) \/ x \notin Cmds)) => Distinct(t)
  BY <1>3 DEF Distinct
<1> QED BY <1>2, <1>4 DEF t

LEMMA TailHas ==
  ASSUME NEW S, NEW s \in Seq(S), s # <<>>
  PROVE  /\ \A y : Has(Tail(s), y) => Has(s, y)
         /\ \A y : Has(s, y) => Has(Tail(s), y) \/ y = Head(s)
         /\ Has(s, Head(s))
         /\ Distinct(s) => Distinct(Tail(s))
         /\ Distinct(s) /\ Head(s) \in Cmds => ~ Has(Tail(s), Head(s))
<1> DEFINE t == Tail(s)
<1>1. /\ Len(t) \in Nat /\ Len(s) = Len(t) + 1 /\ Head(s) = s[1]
      /\ \A i \in 1 .. Len(t) : t[i] = s[i + 1] /\ i + 1 \in 1 .. Len(s)
      /\ \A i \in 1 .. Len(s) : i = 1 \/ (i - 1 \in 1 .. Len(t) /\ t[i - 1] = s[i])
      /\ 1 \in 1 .. Len(s)
  OBVIOUS
<1> HIDE DEF t
<1>2. \A y : Has(t, y) => Has(s, y)
  BY <1>1, Zenon DEF Has
<1>3. \A y : Has(s, y) => Has(t, y) \/ y = Head(s)
  BY <1>1 DEF Has
<1>4. Has(s, Head(s))
  BY <1>1 DEF Has
<1>5. Distinct(s) => Distinct(t)
  <2> SUFFICES ASSUME Distinct(s), NEW i \in 1 .. Len(t), NEW j \in 1 .. Len(t), t[i] = t[j], t[i] \in Cmds PROVE i = j
    BY DEF Distinct
  <2>1. i + 1 = j + 1
    BY <1>1 DEF Distinct
  <2> QED BY <2>1
<1>6. ASSUME Distinct(s), Head(s) \in Cmds, NEW i \in 1 .. Len(t), t[i] = Head(s) PROVE FALSE
  <2>1. i + 1 = 1
    BY <1>1, <1>6 DEF Distinct
  <2> QED BY <2>1
<1> QED BY <1>2, <1>3, <1>4, <1>5, <1>6 DEF t, Has

LEMMA EmptyHas == Distinct(<<>>) /\ \A x : ~ Has(<<>>, x)
BY DEF Distinct, Has

-----------------------------------------------------------------------------
\* Connection c stays whose it is.
Kept(c) ==
  link[c].state # "unused" =>
    link'[c].state # "unused" /\ link'[c].from = link[c].from /\ link'[c].to = link[c].to

\* Nothing that is a command was added to what is on the way to the client's end of c.
Fewer(c) ==
  \/ link'[c] = link[c]
  \/ Kept(c) /\ link'[c].down = <<>>
  \/ /\ Kept(c) /\ link[c].state # "unused"
     /\ \A x \in Cmds : Has(link'[c].down, x) => Has(link[c].down, x)
     /\ Distinct(link[c].down) => Distinct(link'[c].down)

LEMMA FewerIs ==
  ASSUME NEW c \in Links, Fewer(c)
  PROVE  /\ \A x \in Cmds : Has(link'[c].down, x) => Has(link[c].down, x)
         /\ Distinct(link[c].down) => Distinct(link'[c].down)
         /\ Kept(c)
BY EmptyHas DEF Fewer, Kept

Requesting(c) ==
  \/ link'[c].up \in {link[c].up, <<>>, <<Replica>>}
  \/ link[c].up # <<>> /\ link'[c].up = Tail(link[c].up)

LEMMA AskingStays ==
  ASSUME TypeOK, Asking, \A c \in Links : Requesting(c)
  PROVE  Asking'
<1> SUFFICES ASSUME NEW c \in Links PROVE \A i \in 1 .. Len(link'[c].up) : link'[c].up[i] = Replica
  BY DEF Asking
<1>1. link[c].up \in Seq(Messages) /\ \A i \in 1 .. Len(link[c].up) : link[c].up[i] = Replica
  BY DEF TypeOK, Link, Asking
<1>2. CASE link[c].up # <<>> /\ link'[c].up = Tail(link[c].up)
  BY <1>1, <1>2, TailIs
<1>3. CASE link'[c].up = <<Replica>>
  BY <1>3
<1>4. CASE link'[c].up \in {link[c].up, <<>>}
  BY <1>1, <1>4
<1> QED BY <1>2, <1>3, <1>4 DEF Requesting

\* The servers execute and queue nothing.
Idles == \A m \in Servers : srv'[m].exec = srv[m].exec /\ srv'[m].pending = srv[m].pending

LEMMA KnownStays ==
  ASSUME Known, sets' = sets, Idles, \A c \in Links : Fewer(c)
  PROVE  Known'
<1>1. \A n \in Servers : \A x \in Cmds : Has(srv'[n].exec, x) \/ Has(srv'[n].pending, x) => x <= sets'
  BY DEF Known, Idles
<1>2. \A c \in Links : \A x \in Cmds : Has(link'[c].down, x) => x <= sets'
  BY FewerIs DEF Known
<1> QED BY <1>1, <1>2 DEF Known

LEMMA QueuesStay ==
  ASSUME Queues, Idles, \A c \in Links : due'[c] \in {due[c], <<>>}
  PROVE  Queues'
BY EmptyHas DEF Queues, Idles

LEMMA SentStays ==
  ASSUME NEW m \in Servers, NEW c \in Links, NEW x \in Cmds, Sent(m, c, x),
         srv'[m].pending = srv[m].pending, srv[m].flush # 0 /\ Streams(m) => srv'[m].flush # 0,
         srv[m].master # 0 => srv'[m].master # 0,
         Kept(c), due'[c] \in {due[c], <<>>}
  PROVE  Sent(m, c, x)'
BY EmptyHas DEF Sent, Flushing, Streams, Kept

\* The flush of m goes on.
GoesOn(m) ==
  /\ Flushing(m) => srv'[m].flush # 0
  /\ srv[m].master # 0 => srv'[m].master # 0

LEMMA UnsentStays ==
  ASSUME Unsent, Idles, \A m \in Servers : GoesOn(m),
         \A c \in Links : Fewer(c) /\ due'[c] \in {due[c], <<>>}
  PROVE  Unsent'
<1> SUFFICES ASSUME NEW m \in Servers, NEW x \in Cmds, Has(srv'[m].pending, x)
             PROVE  /\ \A c \in Links : Has(link'[c].down, x) => Sent(m, c, x)'
                    /\ \A n \in Servers \ {m} : Has(srv'[n].exec, x) =>
                         \E c \in Links : link'[c].from = n /\ Sent(m, c, x)'
  BY DEF Unsent
<1>1. Has(srv[m].pending, x)
  BY DEF Idles
<1>2. ASSUME NEW c \in Links, Sent(m, c, x) PROVE Sent(m, c, x)' /\ link'[c].from = link[c].from
  <2>1. Kept(c)
    BY FewerIs
  <2>2. link'[c].from = link[c].from
    BY <1>2, <2>1 DEF Sent, Kept
  <2> QED BY <1>2, <2>1, <2>2, SentStays DEF GoesOn, Idles, Flushing
<1>3. ASSUME NEW c \in Links, Has(link'[c].down, x) PROVE Sent(m, c, x)'
  BY <1>1, <1>2, <1>3, FewerIs DEF Unsent
<1>4. ASSUME NEW n \in Servers \ {m}, Has(srv'[n].exec, x)
      PROVE  \E c \in Links : link'[c].from = n /\ Sent(m, c, x)'
  <2>1. Has(srv[n].exec, x)
    BY <1>4 DEF Idles
  <2>2. PICK c \in Links : link[c].from = n /\ Sent(m, c, x)
    BY <1>1, <1>4, <2>1 DEF Unsent
  <2> QED BY <1>2, <2>2
<1> QED BY <1>3, <1>4

LEMMA SingleWas ==
  ASSUME \A c \in Links : Kept(c), NEW n \in Servers, Single(n)'
  PROVE  Single(n)
BY DEF Single, Made, Kept

LEMMA OnceEachStays ==
  ASSUME OnceEach, \A m \in Servers : srv'[m].exec = srv[m].exec, \A c \in Links : Fewer(c)
  PROVE  OnceEach'
<1> SUFFICES ASSUME NEW n \in Servers, Single(n)'
             PROVE  /\ Distinct(srv'[n].exec)
                    /\ \A c \in Links : Made(c, n)' =>
                         /\ Distinct(link'[c].down)
                         /\ \A x \in Cmds : ~ (Has(link'[c].down, x) /\ Has(srv'[n].exec, x))
  BY DEF OnceEach
<1>1. Single(n)
  BY FewerIs, SingleWas
<1>2. Distinct(srv'[n].exec)
  BY <1>1 DEF OnceEach
<1>3. ASSUME NEW c \in Links, Made(c, n)'
      PROVE  /\ Distinct(link'[c].down)
             /\ \A x \in Cmds : ~ (Has(link'[c].down, x) /\ Has(srv'[n].exec, x))
  <2>1. CASE link'[c].down = <<>>
    BY <2>1, EmptyHas
  <2>2. CASE link'[c].down # <<>>
    <3>1. Made(c, n)
      BY <1>3, <2>2 DEF Fewer, Made, Kept
    <3> QED BY <1>1, <3>1, FewerIs DEF OnceEach
  <2> QED BY <2>1, <2>2
<1> QED BY <1>2, <1>3

LEMMA OnceStays ==
  ASSUME TypeOK, Once, Idles, sets' = sets, \A m \in Servers : GoesOn(m),
         \A c \in Links : Fewer(c) /\ Requesting(c) /\ due'[c] \in {due[c], <<>>},
         Masters', Alone'
  PROVE  Once'
BY AskingStays, KnownStays, QueuesStay, UnsentStays, OnceEachStays DEF Once, Idles

LEMMA MastersStay ==
  ASSUME TypeOK, Polling, Ends, Masters, \A c \in Links : Kept(c),
         \A m \in Servers :
           /\ srv[m].master # 0 => srv'[m].master # 0
           /\ srv[m].joining # 0 => srv'[m].joining = srv[m].joining \/ srv'[m].master # 0
                                    \/ srv'[m].conn[srv[m].joining] = NoEnd
           /\ \A f \in Fds : srv'[m].conn[f] \in {srv[m].conn[f], NoEnd} \/ srv'[m].conn[f].side = "server"
  PROVE  Masters'
<1> SUFFICES ASSUME NEW m \in Servers, NEW f \in Fds, srv'[m].conn[f] # NoEnd, srv'[m].conn[f].side = "client"
             PROVE  /\ link'[srv'[m].conn[f].link].from = m
                    /\ srv'[m].joining = f \/ srv'[m].master # 0
  BY DEF Masters
<1> DEFINE e == srv[m].conn[f]
<1>1. srv'[m].conn[f] = e /\ e # NoEnd /\ e.side = "client"
  OBVIOUS
<1>2. e.link \in Links /\ link[e.link].state # "unused"
  BY <1>1, OpenEnds DEF Ends
<1>3. link[e.link].from = m /\ (srv[m].joining = f \/ srv[m].master # 0)
  BY <1>1 DEF Masters
<1>4. link'[e.link].from = m
  BY <1>2, <1>3 DEF Kept
<1>5. 0 \notin Fds
  BY Basics
<1> QED BY <1>1, <1>3, <1>4, <1>5

\* What keeps a connection of a server with itself closed.
Shut(c) ==
  \/ link'[c] = link[c]
  \/ link'[c].from \notin Servers \/ link'[c].from # link'[c].to
  \/ link'[c].state = "broken" /\ link'[c].down = <<>>
  \/ link[c].state # "unused" /\ Kept(c) /\ link'[c].state = link[c].state
     /\ (link[c].down = <<>> => link'[c].down = <<>>)

LEMMA AloneStays ==
  ASSUME Alone, \A c \in Links : Shut(c),
         \A m \in Servers : srv[m].joining # 0 =>
            \/ /\ srv'[m].joining = srv[m].joining
               /\ srv'[m].conn[srv[m].joining] = srv[m].conn[srv[m].joining]
            \/ link'[WaitsAt(m)].state # "backlog" \/ link'[WaitsAt(m)].from # link'[WaitsAt(m)].to
  PROVE  Alone'
<1> SUFFICES ASSUME NEW n \in Servers, NEW c \in Links, Made(c, n)', link'[c].to = n
             PROVE  /\ link'[c].state # "open" /\ link'[c].down = <<>>
                    /\ link'[c].state = "backlog" =>
                         srv'[n].joining # 0 /\ srv'[n].conn[srv'[n].joining].link = c
  BY DEF Alone
<1>1. \/ link'[c] = link[c]
      \/ link'[c].state = "broken" /\ link'[c].down = <<>>
      \/ link[c].state # "unused" /\ Kept(c) /\ link'[c].state = link[c].state
         /\ (link[c].down = <<>> => link'[c].down = <<>>)
  BY DEF Shut, Made
<1>2. CASE link'[c].state = "broken" /\ link'[c].down = <<>>
  BY <1>2
<1>3. CASE /\ link'[c].state = link[c].state /\ Made(c, n) /\ link[c].to = n
           /\ link[c].down = <<>> => link'[c].down = <<>>
  <2>1. /\ link[c].state # "open" /\ link[c].down = <<>>
        /\ link[c].state = "backlog" => srv[n].joining # 0 /\ WaitsAt(n) = c
    BY <1>3 DEF Alone, WaitsAt
  <2>2. ASSUME link'[c].state = "backlog"
        PROVE  srv'[n].joining # 0 /\ srv'[n].conn[srv'[n].joining].link = c
    <3>1. srv[n].joining # 0 /\ WaitsAt(n) = c
      BY <1>3, <2>1, <2>2
    <3>2. link'[c].from = link'[c].to
      BY DEF Made
    <3>3. srv'[n].joining = srv[n].joining /\ srv'[n].conn[srv[n].joining] = srv[n].conn[srv[n].joining]
      BY <2>2, <3>1, <3>2
    <3> QED BY <3>1, <3>3 DEF WaitsAt
  <2> QED BY <1>3, <2>1, <2>2
<1> QED BY <1>1, <1>2, <1>3 DEF Made, Kept

LEMMA LinkStays ==
  ASSUME NEW c \in Links, link'[c] = link[c]
  PROVE  Fewer(c) /\ Requesting(c) /\ Shut(c) /\ Kept(c)
BY DEF Fewer, Requesting, Shut, Kept

LEMMA UserSetOnce ==
  ASSUME IInv, Once, NEW n \in Servers, UserSet(n)
  PROVE  Once'
<1> USE DEF IInv
<1>1. PICK x \in Cmds : x = sets + 1 /\ sets' = x /\ srv' = [srv EXCEPT ![n] = Executed(srv[n], x)]
  <2>1. sets + 1 \in Cmds
    BY Taken DEF UserSet, Cmds, TypeOK
  <2> QED BY <2>1 DEF UserSet
<1>2. link' = link /\ due' = due
  BY DEF UserSet, hist
<1>3. PICK s : s = Executed(srv[n], x)
  OBVIOUS
<1>4. /\ s.pending = (IF srv[n].master = 0 THEN Append(srv[n].pending, x) ELSE srv[n].pending)
      /\ s.exec = Append(srv[n].exec, x)
      /\ s.conn = srv[n].conn /\ s.joining = srv[n].joining /\ s.master = srv[n].master
      /\ s.flush = srv[n].flush
  BY <1>3, Basics, ExecutedFields
<1>5. srv'[n] = s /\ \A m \in Servers \ {n} : srv'[m] = srv[m]
  BY <1>1, <1>3 DEF TypeOK
<1>6. /\ ~ Has(srv[n].exec, x) /\ ~ Has(srv[n].pending, x)
      /\ \A m \in Servers : ~ Has(srv[m].exec, x) /\ ~ Has(srv[m].pending, x)
      /\ \A c \in Links : ~ Has(link[c].down, x)
  <2>1. ~ (x <= sets)
    BY <1>1 DEF TypeOK
  <2> QED BY <2>1 DEF Once, Known
<1>7. /\ srv[n].exec \in Seq(Cmds) /\ srv[n].pending \in Seq(Cmds)
  BY Basics DEF Server
<1>8. /\ \A y : Has(s.exec, y) <=> Has(srv[n].exec, y) \/ y = x
      /\ Distinct(srv[n].exec) => Distinct(s.exec)
      /\ \A y : Has(s.pending, y) => Has(srv[n].pending, y) \/ y = x
      /\ Distinct(srv[n].pending) => Distinct(s.pending)
  BY <1>4, <1>6, <1>7, AppendHas
<1>9. srv[n].flush = 0
  BY DEF UserSet, Handling
<1>10. Asking' /\ Masters' /\ Alone'
  BY <1>2, <1>4, <1>5 DEF Once, Asking, Masters, Alone, Made
<1>11. Known'
  <2>1. \A y \in Cmds : y <= sets => y <= x
    BY <1>1 DEF TypeOK, Cmds
  <2>2. x <= x
    BY Taken DEF Cmds
  <2>3. \A m \in Servers : \A y \in Cmds : Has(srv'[m].exec, y) \/ Has(srv'[m].pending, y) => y <= x
    BY <1>5, <1>8, <2>1, <2>2 DEF Once, Known
  <2>4. \A c \in Links : \A y \in Cmds : Has(link'[c].down, y) => y <= x
    BY <1>2, <2>1 DEF Once, Known
  <2> QED BY <1>1, <2>3, <2>4 DEF Known
<1>12. Queues'
  <2>1. \A m \in Servers : Distinct(srv'[m].pending)
    BY <1>5, <1>8 DEF Once, Queues
  <2>2. \A c \in Links : Distinct(due'[c])
    BY <1>2 DEF Once, Queues
  <2>3. ASSUME NEW m \in Servers, NEW k \in Servers, NEW y \in Cmds,
               Has(srv'[m].pending, y), Has(srv'[k].pending, y)
        PROVE  m = k
    <3>1. CASE y = x
      BY <1>5, <1>6, <2>3, <3>1
    <3>2. CASE y # x
      <4>1. Has(srv[m].pending, y) /\ Has(srv[k].pending, y)
        BY <1>5, <1>8, <2>3, <3>2
      <4> QED BY <4>1 DEF Once, Queues
    <3> QED BY <3>1, <3>2
  <2> QED BY <2>1, <2>2, <2>3 DEF Queues
<1>13. Unsent'
  <2> SUFFICES ASSUME NEW m \in Servers, NEW y \in Cmds, Has(srv'[m].pending, y)
               PROVE  /\ \A c \in Links : Has(link'[c].down, y) => Sent(m, c, y)'
                      /\ \A k \in Servers \ {m} : Has(srv'[k].exec, y) =>
                           \E c \in Links : link'[c].from = k /\ Sent(m, c, y)'
    BY DEF Unsent
  <2>1. CASE m = n
    <3>1. \A c : ~ Sent(n, c, y)
      BY <1>9 DEF Sent, Flushing
    <3>2. CASE y = x
      BY <1>2, <1>5, <1>6, <2>1, <3>2
    <3>3. CASE y # x
      <4>1. Has(srv[n].pending, y)
        BY <1>5, <1>8, <2>1, <3>3
      <4>2. \A c \in Links : ~ Has(link[c].down, y)
        BY <3>1, <4>1 DEF Once, Unsent
      <4>3. \A k \in Servers \ {n} : ~ Has(srv[k].exec, y)
        BY <3>1, <4>1 DEF Once, Unsent
      <4> QED BY <1>2, <1>5, <2>1, <4>2, <4>3
    <3> QED BY <3>2, <3>3
  <2>2. CASE m # n
    <3>1. srv'[m] = srv[m] /\ Has(srv[m].pending, y) /\ y # x
      BY <1>5, <1>6, <2>2
    <3>2. \A c \in Links : Sent(m, c, y) => Sent(m, c, y)'
      BY <1>2, <3>1 DEF Sent, Flushing, Streams
    <3>3. \A k \in Servers : Has(srv'[k].exec, y) => Has(srv[k].exec, y)
      BY <1>5, <1>8, <3>1
    <3> QED BY <1>2, <3>1, <3>2, <3>3 DEF Once, Unsent
  <2> QED BY <2>1, <2>2
<1>14. OnceEach'
  <2> SUFFICES ASSUME NEW k \in Servers, Single(k)'
               PROVE  /\ Distinct(srv'[k].exec)
                      /\ \A c \in Links : Made(c, k)' =>
                           /\ Distinct(link'[c].down)
                           /\ \A y \in Cmds : ~ (Has(link'[c].down, y) /\ Has(srv'[k].exec, y))
    BY DEF OnceEach
  <2>1. Single(k)
    BY <1>2 DEF Single, Made
  <2>2. Distinct(srv'[k].exec)
    BY <1>5, <1>8, <2>1 DEF Once, OnceEach
  <2>3. ASSUME NEW c \in Links, Made(c, k)'
        PROVE  /\ Distinct(link'[c].down)
               /\ \A y \in Cmds : ~ (Has(link'[c].down, y) /\ Has(srv'[k].exec, y))
    <3>1. Made(c, k)
      BY <1>2, <2>3 DEF Made
    <3> QED BY <1>2, <1>5, <1>6, <1>8, <2>1, <3>1 DEF Once, OnceEach
  <2> QED BY <2>2, <2>3
<1> QED BY <1>10, <1>11, <1>12, <1>13, <1>14 DEF Once

LEMMA VisitOnce ==
  ASSUME IInv, Once, NEW n \in Servers, Visit(n)
  PROVE  Once'
<1> USE DEF IInv
<1>1. PICK c \in Links : link[c].state = "unused" /\ link' = [link EXCEPT ![c] = Opened(Visitor, n, <<>>)]
  BY Taken DEF Visit
<1>2. /\ \A d \in Links \ {c} : link'[d] = link[d]
      /\ link'[c].from = Visitor /\ link'[c].up = <<>> /\ link'[c].down = <<>>
  <2>1. <<>> \in Seq(Messages)
    OBVIOUS
  <2> QED BY <1>1, <2>1, OpensFields
<1>3. srv' = srv /\ sets' = sets /\ due' = due
  BY DEF Visit, hist
<1>4. Fewer(c) /\ Requesting(c) /\ Shut(c) /\ Kept(c)
  BY <1>1, <1>2, ServersAssumption DEF Fewer, Requesting, Shut, Kept
<1>5. \A d \in Links : Fewer(d) /\ Requesting(d) /\ Shut(d) /\ Kept(d)
  BY <1>2, <1>4, LinkStays
<1>6. Masters'
  BY <1>3, <1>5, MastersStay DEF Once
<1>7. Alone'
  BY <1>3, <1>5, AloneStays DEF Once
<1> QED BY <1>3, <1>5, <1>6, <1>7, OnceStays DEF Idles, GoesOn, Flushing

LEMMA BreakOnce ==
  ASSUME IInv, Once, NEW c \in Links, Break(c)
  PROVE  Once'
<1> USE DEF IInv
<1>1. link[c] \in Link
  BY DEF TypeOK
<1>2. /\ \A d \in Links \ {c} : link'[d] = link[d]
      /\ link'[c].state = "broken" /\ link'[c].up = <<>> /\ link'[c].down = <<>>
      /\ link'[c].from = link[c].from /\ link'[c].to = link[c].to
  BY <1>1 DEF Break, TypeOK, Link
<1>3. srv' = srv /\ sets' = sets /\ due' = due
  BY DEF Break, hist
<1>4. Fewer(c) /\ Requesting(c) /\ Shut(c) /\ Kept(c)
  BY <1>2 DEF Fewer, Requesting, Shut, Kept
<1>5. \A d \in Links : Fewer(d) /\ Requesting(d) /\ Shut(d) /\ Kept(d)
  BY <1>2, <1>4, LinkStays
<1>6. Masters'
  BY <1>3, <1>5, MastersStay DEF Once
<1>7. Alone'
  BY <1>3, <1>5, AloneStays DEF Once
<1> QED BY <1>3, <1>5, <1>6, <1>7, OnceStays DEF Idles, GoesOn, Flushing

LEMMA AcceptOnce ==
  ASSUME IInv, Once, NEW n \in Servers, Accept(n)
  PROVE  Once'
<1> USE DEF IInv
<1>1. PICK c, f, a, s :
        /\ c \in Links /\ f \in Fds
        /\ link[c].state = "backlog" /\ link[c].to = n /\ srv[n].joining = 0
        /\ a = [srv[n] EXCEPT !.conn[f] = ServerEnd(c)] /\ s = AddFileEvent(a, f)
        /\ \/ srv' = [srv EXCEPT ![n] = s] /\ link' = [link EXCEPT ![c].state = "open"]
           \/ srv' = [srv EXCEPT ![n] = Closed(s, f)] /\ link' = [link EXCEPT ![c].state = "broken"]
        /\ sets' = sets /\ due' = due
  <2> DEFINE waiting == {c \in Links : link[c].state = "backlog" /\ link[c].to = n}
             c == Least(waiting)
             f == Least(Free(n))
  <2>1. c \in waiting /\ f \in Fds
    BY Taken DEF Accept
  <2> HIDE DEF c, f
  <2>2. PICK a, s : a = [srv[n] EXCEPT !.conn[f] = ServerEnd(c)] /\ s = AddFileEvent(a, f)
    OBVIOUS
  <2>3. /\ Handling(n)
        /\ \/ srv' = [srv EXCEPT ![n] = s] /\ link' = [link EXCEPT ![c].state = "open"]
           \/ srv' = [srv EXCEPT ![n] = Closed(s, f)] /\ link' = [link EXCEPT ![c].state = "broken"]
        /\ sets' = sets /\ due' = due
    BY <2>2, Zenon DEF Accept, hist, ServerEnd, c, f
  <2> QED BY <2>1, <2>2, <2>3 DEF Handling
<1> c \in Links /\ f \in Fds
  BY <1>1
<1>2. /\ a \in Server /\ a.exec = srv[n].exec /\ a.pending = srv[n].pending /\ a.master = srv[n].master
      /\ a.flush = srv[n].flush /\ a.joining = srv[n].joining
      /\ a.conn = [srv[n].conn EXCEPT ![f] = ServerEnd(c)]
  <2>1. srv[n] \in Server /\ ServerEnd(c) \in End
    BY Basics, ServerEnds
  <2> QED BY <1>1, <2>1 DEF Server
<1>3. PICK r : /\ r \in {s, Closed(s, f)} /\ srv' = [srv EXCEPT ![n] = r]
  BY <1>1
<1>4. /\ r.exec = srv[n].exec /\ r.pending = srv[n].pending /\ r.master = srv[n].master
      /\ r.flush = srv[n].flush /\ r.joining = srv[n].joining
      /\ \A g \in Fds : r.conn[g] \in {srv[n].conn[g], NoEnd, ServerEnd(c)}
  <2>1. /\ s \in Server /\ s.exec = a.exec /\ s.pending = a.pending /\ s.master = a.master
        /\ s.flush = a.flush /\ s.joining = a.joining /\ s.conn = a.conn
    <3>1. s = AddFileEvent(a, f) /\ a \in Server
      BY <1>1, <1>2
    <3> QED BY <3>1, AddFields
  <2>2. PICK d : d = Closed(s, f)
    OBVIOUS
  <2>3. /\ d.exec = s.exec /\ d.pending = s.pending /\ d.master = s.master
        /\ d.flush = s.flush /\ d.joining = s.joining /\ d.conn = [s.conn EXCEPT ![f] = NoEnd]
    BY <2>1, <2>2, ClosedFields
  <2>4. srv[n].conn \in [Fds -> End]
    BY Basics
  <2> QED BY <1>2, <1>3, <2>1, <2>2, <2>3, <2>4
<1>5. srv'[n] = r /\ \A m \in Servers \ {n} : srv'[m] = srv[m]
  BY <1>3 DEF TypeOK
<1>6. /\ \A d \in Links \ {c} : link'[d] = link[d]
      /\ link'[c].state \in {"open", "broken"} /\ link'[c].up = link[c].up /\ link'[c].down = link[c].down
      /\ link'[c].from = link[c].from /\ link'[c].to = link[c].to
  <2>1. link[c] \in Link
    BY DEF TypeOK
  <2> QED BY <1>1, <2>1 DEF TypeOK, Link
<1>7. ~ (link[c].from = link[c].to)
  BY <1>1 DEF Once, Alone, Made
<1>8. Fewer(c) /\ Requesting(c) /\ Shut(c) /\ Kept(c)
  BY <1>1, <1>6, <1>7 DEF Fewer, Requesting, Shut, Kept
<1>9. \A d \in Links : Fewer(d) /\ Requesting(d) /\ Shut(d) /\ Kept(d)
  BY <1>6, <1>8, LinkStays
<1>10. Masters'
  <2>1. \A m \in Servers : srv'[m].master = srv[m].master /\ srv'[m].joining = srv[m].joining
    BY <1>4, <1>5
  <2>2. \A m \in Servers : \A g \in Fds :
          srv'[m].conn[g] \in {srv[m].conn[g], NoEnd} \/ srv'[m].conn[g].side = "server"
    BY <1>4, <1>5, ServerEnds
  <2> QED BY <1>9, <2>1, <2>2, MastersStay DEF Once
<1>11. Alone'
  <2>1. \A m \in Servers : srv[m].joining # 0 => srv'[m] = srv[m]
    BY <1>1, <1>5
  <2> QED BY <1>9, <2>1, AloneStays DEF Once
<1>12. Idles /\ \A m \in Servers : GoesOn(m)
  BY <1>4, <1>5 DEF Idles, GoesOn, Flushing
<1> QED BY <1>1, <1>9, <1>10, <1>11, <1>12, OnceStays

LEMMA ReplicaOfOnce ==
  ASSUME IInv, Once, NEW n \in Servers, NEW k \in Servers, ReplicaOf(n, k)
  PROVE  Once'
<1> USE DEF IInv
<1>1. PICK c \in Links, f \in Fds :
        /\ link[c].state = "unused" /\ srv[n].conn[f] = NoEnd /\ srv[n].joining = 0 /\ srv[n].flush = 0
        /\ srv' = [srv EXCEPT ![n].conn[f] = [link |-> c, side |-> "client"], ![n].joining = f]
        /\ link' = [link EXCEPT ![c] = Opened(n, k, <<Replica>>)]
        /\ sets' = sets /\ due' = due
  BY Taken DEF ReplicaOf, Handling, hist
<1> DEFINE e == [link |-> c, side |-> "client"]
<1>2. /\ \A m \in Servers \ {n} : srv'[m] = srv[m]
      /\ srv'[n].exec = srv[n].exec /\ srv'[n].pending = srv[n].pending /\ srv'[n].master = srv[n].master
      /\ srv'[n].flush = srv[n].flush /\ srv'[n].joining = f
      /\ srv'[n].conn = [srv[n].conn EXCEPT ![f] = e]
  <2>1. srv[n] \in Server
    BY Basics
  <2> QED BY <1>1, <2>1 DEF TypeOK, Server
<1>3. /\ \A d \in Links \ {c} : link'[d] = link[d]
      /\ link'[c].state = "backlog" /\ link'[c].to = k /\ link'[c].from = n
      /\ link'[c].up = <<Replica>> /\ link'[c].down = <<>>
  <2>1. <<Replica>> \in Seq(Messages)
    BY DEF Messages
  <2> QED BY <1>1, <2>1, OpensFields
<1>4. Fewer(c) /\ Requesting(c) /\ Kept(c)
  BY <1>1, <1>3 DEF Fewer, Requesting, Kept
<1>5. \A d \in Links : Fewer(d) /\ Requesting(d) /\ Kept(d)
  BY <1>3, <1>4, LinkStays
<1>6. srv[n].conn \in [Fds -> End] /\ f # 0
  BY Basics
<1>7. Masters'
  <2> SUFFICES ASSUME NEW m \in Servers, NEW g \in Fds, srv'[m].conn[g] # NoEnd, srv'[m].conn[g].side = "client"
               PROVE  /\ link'[srv'[m].conn[g].link].from = m
                      /\ srv'[m].joining = g \/ srv'[m].master # 0
    BY DEF Masters
  <2>1. CASE m = n /\ g = f
    BY <1>2, <1>3, <1>6, <2>1
  <2>2. CASE ~ (m = n /\ g = f)
    <3>1. srv'[m].conn[g] = srv[m].conn[g] /\ srv'[m].master = srv[m].master
      BY <1>2, <1>6, <2>2
    <3>2. srv[m].conn[g].link \in Links /\ link[srv[m].conn[g].link].state # "unused"
      BY <3>1, OpenEnds DEF Ends
    <3>3. link[srv[m].conn[g].link].from = m /\ (srv[m].joining = g \/ srv[m].master # 0)
      BY <3>1 DEF Once, Masters
    <3>4. link'[srv[m].conn[g].link] = link[srv[m].conn[g].link]
      BY <1>1, <1>3, <3>2
    <3>5. srv'[m].joining = g \/ srv'[m].master # 0
      <4>1. 0 \notin Fds
        BY Basics
      <4>2. CASE m = n
        <5>1. srv[n].joining # g
          BY <1>1, <4>1
        <5> QED BY <3>1, <3>3, <4>2, <5>1
      <4>3. CASE m # n
        BY <1>2, <3>3, <4>3
      <4> QED BY <4>2, <4>3
    <3> QED BY <3>1, <3>3, <3>4, <3>5
  <2> QED BY <2>1, <2>2
<1>8. Alone'
  <2> SUFFICES ASSUME NEW m \in Servers, NEW d \in Links, Made(d, m)', link'[d].to = m
               PROVE  /\ link'[d].state # "open" /\ link'[d].down = <<>>
                      /\ link'[d].state = "backlog" =>
                           srv'[m].joining # 0 /\ srv'[m].conn[srv'[m].joining].link = d
    BY DEF Alone
  <2>1. CASE d = c
    <3>1. m = n
      BY <1>3, <2>1 DEF Made
    <3>2. srv'[n].conn[f].link = c
      BY <1>2, <1>6
    <3> QED BY <1>2, <1>3, <1>6, <2>1, <3>1, <3>2
  <2>2. CASE d # c
    <3>1. link'[d] = link[d] /\ Made(d, m)
      BY <1>3, <2>2 DEF Made
    <3>2. /\ link[d].state # "open" /\ link[d].down = <<>>
          /\ link[d].state = "backlog" => srv[m].joining # 0 /\ srv[m].conn[srv[m].joining].link = d
      BY <3>1 DEF Once, Alone
    <3>3. CASE m = n
      BY <1>1, <3>1, <3>2, <3>3
    <3>4. CASE m # n
      BY <1>2, <3>1, <3>2, <3>4
    <3> QED BY <3>3, <3>4
  <2> QED BY <2>1, <2>2
<1>9. Idles /\ \A m \in Servers : GoesOn(m)
  BY <1>2 DEF Idles, GoesOn, Flushing
<1> QED BY <1>1, <1>5, <1>7, <1>8, <1>9, OnceStays

LEMMA JoinAcceptedOnce ==
  ASSUME IInv, Once, NEW n \in Servers, JoinAccepted(n)
  PROVE  Once'
<1> USE DEF IInv
<1>1. PICK f, c, s :
        /\ f = srv[n].joining /\ c = srv[n].conn[f].link /\ s = AddFileEvent(srv[n], f)
        /\ f # 0 /\ link[c].down # <<>>
        /\ srv' = [srv EXCEPT ![n] = [s EXCEPT !.master = f, !.joining = 0]]
        /\ link' = [link EXCEPT ![c].down = Tail(@)]
        /\ sets' = sets /\ due' = due
  BY Zenon DEF JoinAccepted, Joining, hist
<1>2. /\ f \in Fds /\ c \in Links /\ srv[n] \in Server
      /\ srv[n].conn[f] # NoEnd /\ srv[n].conn[f].side = "client"
  BY <1>1, Basics, OpenEnds, Zenon DEF Polling
<1>3. /\ s \in Server /\ s.conn = srv[n].conn /\ s.flush = srv[n].flush
      /\ s.pending = srv[n].pending /\ s.exec = srv[n].exec
  <2>1. s = AddFileEvent(srv[n], f) /\ f \in Fds /\ srv[n] \in Server
    BY <1>1, <1>2, Zenon
  <2> HIDE DEF IInv
  <2> QED BY <2>1, AddFields
<1>4. PICK r : r = [s EXCEPT !.master = f, !.joining = 0]
  OBVIOUS
<1>5. /\ r.conn = s.conn /\ r.flush = s.flush /\ r.pending = s.pending /\ r.exec = s.exec
      /\ r.master = f /\ r.joining = 0
  BY <1>3, <1>4 DEF Server
<1>6. srv'[n] = r /\ \A m \in Servers \ {n} : srv'[m] = srv[m]
  BY <1>1, <1>4 DEF TypeOK
<1>7. /\ \A d \in Links \ {c} : link'[d] = link[d]
      /\ link'[c].state = link[c].state /\ link'[c].to = link[c].to /\ link'[c].from = link[c].from
      /\ link'[c].up = link[c].up /\ link'[c].down = Tail(link[c].down)
      /\ link[c].down \in Seq(Messages)
  <2>1. link[c] \in Link /\ link \in [Links -> Link]
    BY <1>2 DEF TypeOK
  <2>2. PICK l : l = [link[c] EXCEPT !.down = Tail(link[c].down)]
    OBVIOUS
  <2>3. /\ l.state = link[c].state /\ l.to = link[c].to /\ l.from = link[c].from
        /\ l.up = link[c].up /\ l.down = Tail(link[c].down) /\ link[c].down \in Seq(Messages)
    BY <2>1, <2>2 DEF Link
  <2>4. link' = [link EXCEPT ![c] = l]
    BY <1>1, <2>2, Zenon
  <2> QED BY <1>2, <2>1, <2>3, <2>4
<1>8. link[c].state # "unused" /\ link[c].from = n
  BY <1>1, <1>2, Zenon DEF Ends, Once, Masters
<1>9. Fewer(c) /\ Requesting(c) /\ Shut(c) /\ Kept(c)
  <2>1. Kept(c)
    BY <1>7 DEF Kept
  <2>2. /\ \A x \in Cmds : Has(link'[c].down, x) => Has(link[c].down, x)
        /\ Distinct(link[c].down) => Distinct(link'[c].down)
    <3>1. PICK q \in Seq(Messages) : q = link[c].down /\ q # <<>> /\ link'[c].down = Tail(q)
      BY <1>1, <1>7, Zenon
    <3>2. /\ \A x : Has(Tail(q), x) => Has(q, x)
          /\ Distinct(q) => Distinct(Tail(q))
      <4> HIDE DEF IInv
      <4> QED BY <3>1, TailHas
    <3> QED BY <3>1, <3>2
  <2> QED BY <1>1, <1>7, <1>8, <2>1, <2>2, Zenon DEF Fewer, Requesting, Shut
<1>10. \A d \in Links : Fewer(d) /\ Requesting(d) /\ Shut(d) /\ Kept(d)
  BY <1>7, <1>9, LinkStays
<1>11. Masters'
  <2>1. \A m \in Servers :
           /\ srv[m].master # 0 => srv'[m].master # 0
           /\ srv'[m].joining = srv[m].joining \/ srv'[m].master # 0
           /\ srv'[m].conn = srv[m].conn
    BY <1>1, <1>3, <1>5, <1>6, Zenon
  <2> QED BY <1>10, <2>1, MastersStay DEF Once
<1>12. Alone'
  <2>1. link'[WaitsAt(n)].state # "backlog" \/ link'[WaitsAt(n)].from # link'[WaitsAt(n)].to
    <3>1. link[c].from # link[c].to
      BY <1>1, <1>2, <1>8, Zenon DEF Once, Alone, Made
    <3>2. WaitsAt(n) = c
      BY <1>1, Zenon DEF WaitsAt
    <3> QED BY <1>7, <3>1, <3>2
  <2>2. \A m \in Servers : srv[m].joining # 0 =>
            \/ /\ srv'[m].joining = srv[m].joining
               /\ srv'[m].conn[srv[m].joining] = srv[m].conn[srv[m].joining]
            \/ link'[WaitsAt(m)].state # "backlog" \/ link'[WaitsAt(m)].from # link'[WaitsAt(m)].to
    BY <1>6, <2>1
  <2> QED BY <1>10, <2>2, AloneStays DEF Once
<1>13. Idles /\ \A m \in Servers : GoesOn(m)
  BY <1>1, <1>3, <1>5, <1>6, Zenon DEF Idles, GoesOn, Flushing
<1> QED BY <1>1, <1>10, <1>11, <1>12, <1>13, OnceStays, Zenon

LEMMA JoinRejectedOnce ==
  ASSUME IInv, Once, NEW n \in Servers, JoinRejected(n)
  PROVE  Once'
<1> USE DEF IInv
<1>1. PICK f, e, s :
        /\ f = srv[n].joining /\ e = srv[n].conn[f] /\ s = Closed(srv[n], f)
        /\ f # 0
        /\ srv' = [srv EXCEPT ![n] = [s EXCEPT !.joining = 0]]
        /\ link' = Hangup(link, e)
        /\ sets' = sets /\ due' = due
  BY Zenon DEF JoinRejected, hist
<1>2. PICK c : c = e.link
  OBVIOUS
<1>3. /\ f \in Fds /\ c \in Links /\ srv[n] \in Server
      /\ e # NoEnd /\ e \in End /\ e.side = "client"
  BY <1>1, <1>2, Basics, OpenEnds DEF Polling
<1>4. /\ s \in Server /\ s.conn = [srv[n].conn EXCEPT ![f] = NoEnd]
      /\ s.flush = srv[n].flush /\ s.master = srv[n].master
      /\ s.pending = srv[n].pending /\ s.exec = srv[n].exec
  <2>1. s = Closed(srv[n], f) /\ f \in Fds /\ srv[n] \in Server
    BY <1>1, <1>3
  <2> HIDE DEF IInv
  <2> QED BY <2>1, ClosedFields
<1>5. PICK r : r = [s EXCEPT !.joining = 0]
  OBVIOUS
<1>6. /\ r.conn = s.conn /\ r.flush = s.flush /\ r.pending = s.pending /\ r.exec = s.exec
      /\ r.master = s.master /\ r.joining = 0
  BY <1>4, <1>5 DEF Server
<1>7. srv'[n] = r /\ \A m \in Servers \ {n} : srv'[m] = srv[m]
  BY <1>1, <1>5 DEF TypeOK
<1>8. /\ \A d \in Links \ {c} : link'[d] = link[d]
      /\ link'[c].state = "broken" /\ link'[c].to = link[c].to /\ link'[c].from = link[c].from
      /\ link'[c].up = link[c].up /\ link'[c].down = <<>>
  <2>1. link \in [Links -> Link]
    BY DEF TypeOK
  <2>2. e.link \in Links
    BY <1>2, <1>3
  <2>3. /\ \A d \in Links \ {e.link} : link'[d] = link[d]
        /\ link'[e.link].state = "broken" /\ link'[e.link].to = link[e.link].to
        /\ link'[e.link].from = link[e.link].from
        /\ link'[e.link].up = link[e.link].up /\ link'[e.link].down = <<>>
    <3>1. link' = Hangup(link, e) /\ e \in End /\ e.side = "client"
      BY <1>1, <1>3
    <3> HIDE DEF IInv
    <3> QED BY <2>1, <2>2, <3>1, HangupFields
  <2> QED BY <1>2, <2>3
<1>9. Fewer(c) /\ Requesting(c) /\ Shut(c) /\ Kept(c)
  BY <1>8 DEF Fewer, Requesting, Shut, Kept
<1>10. \A d \in Links : Fewer(d) /\ Requesting(d) /\ Shut(d) /\ Kept(d)
  BY <1>8, <1>9, LinkStays
<1>11. srv[n].conn \in [Fds -> End]
  BY Basics
<1>12. Masters'
  <2>1. r.conn[f] = NoEnd /\ \A g \in Fds : r.conn[g] \in {srv[n].conn[g], NoEnd}
    BY <1>3, <1>4, <1>6, <1>11
  <2>2. \A m \in Servers :
           /\ srv'[m].master = srv[m].master
           /\ srv'[m].joining = srv[m].joining \/ srv'[m].conn[srv[m].joining] = NoEnd
           /\ \A g \in Fds : srv'[m].conn[g] \in {srv[m].conn[g], NoEnd}
    <3>1. f = srv[n].joining
      BY <1>1
    <3>2. srv'[n].master = srv[n].master /\ srv'[n].conn[f] = NoEnd
          /\ \A g \in Fds : srv'[n].conn[g] \in {srv[n].conn[g], NoEnd}
      BY <1>4, <1>6, <1>7, <2>1
    <3>3. \A m \in Servers \ {n} : srv'[m] = srv[m]
      BY <1>7
    <3> QED BY <3>1, <3>2, <3>3
  <2> QED BY <1>10, <2>2, MastersStay DEF Once
<1>13. Alone'
  <2>1. link'[WaitsAt(n)].state # "backlog"
    BY <1>1, <1>2, <1>8, Zenon DEF WaitsAt
  <2>2. \A m \in Servers : srv[m].joining # 0 =>
            \/ /\ srv'[m].joining = srv[m].joining
               /\ srv'[m].conn[srv[m].joining] = srv[m].conn[srv[m].joining]
            \/ link'[WaitsAt(m)].state # "backlog" \/ link'[WaitsAt(m)].from # link'[WaitsAt(m)].to
    BY <1>7, <2>1
  <2> QED BY <1>10, <2>2, AloneStays DEF Once
<1>14. Idles /\ \A m \in Servers : GoesOn(m)
  BY <1>4, <1>6, <1>7 DEF Idles, GoesOn, Flushing
<1> QED BY <1>1, <1>10, <1>12, <1>13, <1>14, OnceStays

LEMMA ReadEndOnce ==
  ASSUME IInv, Once, NEW n \in Servers, NEW f \in Fds, ReadEnd(n, f)
  PROVE  Once'
<1> USE DEF IInv
<1>1. PICK r :
        /\ r = freeClient(srv[n], f) /\ srv' = [srv EXCEPT ![n] = r]
        /\ srv[n].joining = 0
        /\ link' = link /\ sets' = sets /\ due' = due
  BY DEF ReadEnd, Handling, hist, TypeOK
<1>2. /\ r.conn = [srv[n].conn EXCEPT ![f] = NoEnd]
      /\ r.master = srv[n].master /\ r.pending = srv[n].pending
      /\ r.joining = srv[n].joining /\ r.flush = srv[n].flush /\ r.exec = srv[n].exec
  <2>1. r = freeClient(srv[n], f) /\ srv[n] \in Server
    BY <1>1, Basics
  <2> QED BY <2>1, FreeFields
<1>3. srv'[n] = r /\ \A m \in Servers \ {n} : srv'[m] = srv[m]
  BY <1>1 DEF TypeOK
<1>4. \A d \in Links : Fewer(d) /\ Requesting(d) /\ Shut(d) /\ Kept(d)
  BY <1>1, LinkStays
<1>5. Masters'
  <2>1. srv[n].conn \in [Fds -> End]
    BY Basics
  <2>2. \A g \in Fds : r.conn[g] \in {srv[n].conn[g], NoEnd}
    BY <1>2, <2>1
  <2>3. \A m \in Servers :
           /\ srv'[m].master = srv[m].master /\ srv'[m].joining = srv[m].joining
           /\ \A g \in Fds : srv'[m].conn[g] \in {srv[m].conn[g], NoEnd}
    BY <1>2, <1>3, <2>2
  <2> QED BY <1>4, <2>3, MastersStay DEF Once
<1>6. Alone'
  <2>1. \A m \in Servers : srv[m].joining # 0 => srv'[m] = srv[m]
    BY <1>1, <1>3
  <2> QED BY <1>4, <2>1, AloneStays DEF Once
<1>7. Idles /\ \A m \in Servers : GoesOn(m)
  BY <1>2, <1>3 DEF Idles, GoesOn, Flushing
<1> QED BY <1>1, <1>4, <1>5, <1>6, <1>7, OnceStays

\* Server n has read a message from connection c: a client's end is that of a server
\* with a master, a server's end brings nothing but REPLICA.
LEMMA ReadIs ==
  ASSUME IInv, Once, NEW n \in Servers, NEW f \in Fds, Read(n, f)
  PROVE  \E c \in Links : \E x \in Messages :
           /\ srv[n].conn[f].link = c
           /\ srv' = [srv EXCEPT ![n] = CASE x = Replica -> registerReplica(srv[n], f, c)
                                          [] x = Ok      -> srv[n]
                                          [] OTHER       -> Executed(srv[n], x)]
           /\ sets' = sets /\ due' = due /\ srv[n].joining = 0 /\ srv[n].flush = 0
           /\ link[c].state # "unused" /\ Fewer(c) /\ Requesting(c) /\ Shut(c)
           /\ \A d \in Links \ {c} : link'[d] = link[d]
           /\ \/ x = Replica
              \/ /\ link[c].down \in Seq(Messages) /\ link[c].down # <<>> /\ Head(link[c].down) = x
                 /\ link'[c].down = Tail(link[c].down)
                 /\ link[c].from = n /\ srv[n].master # 0
<1>0. TypeOK /\ Polling /\ Ends
  BY DEF IInv
<1>1. PICK e, c, in, x :
        /\ e = srv[n].conn[f] /\ c = e.link /\ in = link[c][Inbox(e)] /\ x = Head(in)
        /\ f \in srv[n].polled /\ in # <<>> /\ srv[n].joining = 0 /\ srv[n].flush = 0
        /\ srv' = [srv EXCEPT ![n] = CASE Head(in) = Replica -> registerReplica(srv[n], f, e.link)
                                       [] Head(in) = Ok      -> srv[n]
                                       [] OTHER              -> Executed(srv[n], Head(in))]
        /\ link' = [link EXCEPT ![c][Inbox(e)] = Tail(in)]
        /\ sets' = sets /\ due' = due
  BY ZenonT(40) DEF Read, Handling, hist
<1>2. e # NoEnd /\ c \in Links /\ e \in End /\ link[c].state # "unused"
  <2>1. e # NoEnd
    BY <1>0, <1>1, Zenon DEF Polling
  <2>2. c \in Links /\ e \in End
    BY <1>0, <1>1, <2>1, Basics, OpenEnds, Zenon
  <2> QED BY <1>0, <1>1, <2>1, <2>2, Zenon DEF Ends
<1>3. /\ \A d \in Links \ {c} : link'[d] = link[d]
      /\ link'[c].state = link[c].state /\ link'[c].to = link[c].to /\ link'[c].from = link[c].from
      /\ link[c].up \in Seq(Messages) /\ link[c].down \in Seq(Messages)
      /\ e.side = "server" => /\ link[c].up # <<>> /\ link'[c].down = link[c].down
                              /\ in = link[c].up /\ link'[c].up = Tail(link[c].up)
      /\ e.side = "client" => /\ link[c].down # <<>> /\ link'[c].up = link[c].up
                              /\ in = link[c].down /\ link'[c].down = Tail(link[c].down)
  <2>1. e \in End /\ e.link \in Links /\ link[e.link][Inbox(e)] # <<>>
        /\ link' = [link EXCEPT ![e.link][Inbox(e)] = Tail(link[e.link][Inbox(e)])]
    BY <1>1, <1>2
  <2>2. /\ \A d \in Links \ {e.link} : link'[d] = link[d]
        /\ link'[e.link].state = link[e.link].state /\ link'[e.link].to = link[e.link].to
        /\ link'[e.link].from = link[e.link].from
        /\ link[e.link].up \in Seq(Messages) /\ link[e.link].down \in Seq(Messages)
        /\ e.side = "server" => /\ link[e.link].up # <<>> /\ link'[e.link].down = link[e.link].down
                                /\ link[e.link][Inbox(e)] = link[e.link].up
                                /\ link'[e.link].up = Tail(link[e.link].up)
        /\ e.side = "client" => /\ link[e.link].down # <<>> /\ link'[e.link].up = link[e.link].up
                                /\ link[e.link][Inbox(e)] = link[e.link].down
                                /\ link'[e.link].down = Tail(link[e.link].down)
    BY <1>0, <2>1, ReadFields, Zenon
  <2>3. c = e.link /\ in = link[e.link][Inbox(e)]
    BY <1>1
  <2> QED BY <2>2, <2>3, Zenon
<1>4. e.side = "server" \/ e.side = "client"
  BY <1>2 DEF End
<1>5. Kept(c)
  BY <1>3 DEF Kept
<1>6. CASE e.side = "server"
  <2>1. x = Replica /\ Replica \in Messages
    <3>1. link[c].up[1] = x /\ 1 \in 1 .. Len(link[c].up)
      <4>1. PICK u \in Seq(Messages) : u = link[c].up /\ u # <<>> /\ x = Head(u)
        BY <1>1, <1>3, <1>6, Zenon
      <4> QED BY <4>1, TailIs
    <3> QED BY <1>2, <3>1 DEF Once, Asking, Messages
  <2>2. Fewer(c) /\ Requesting(c) /\ Shut(c)
    BY <1>2, <1>3, <1>5, <1>6 DEF Fewer, Requesting, Shut
  <2>3. srv' = [srv EXCEPT ![n] = CASE x = Replica -> registerReplica(srv[n], f, c)
                                    [] x = Ok      -> srv[n]
                                    [] OTHER       -> Executed(srv[n], x)]
    BY <1>1
  <2>4. /\ sets' = sets /\ due' = due /\ srv[n].joining = 0 /\ srv[n].flush = 0
        /\ link[c].state # "unused" /\ \A d \in Links \ {c} : link'[d] = link[d]
        /\ c \in Links /\ srv[n].conn[f].link = c
    BY <1>1, <1>2, <1>3
  <2>5. /\ x \in Messages
        /\ \/ x = Replica
           \/ /\ link[c].down \in Seq(Messages) /\ link[c].down # <<>> /\ Head(link[c].down) = x
              /\ link'[c].down = Tail(link[c].down)
              /\ link[c].from = n /\ srv[n].master # 0
    BY <2>1, Zenon
  <2> QED BY <2>2, <2>3, <2>4, <2>5, Zenon
<1>7. CASE e.side = "client"
  <2>1. PICK q \in Seq(Messages) : q = link[c].down /\ q # <<>> /\ link'[c].down = Tail(q)
    BY <1>3, <1>7
  <2>2. /\ \A y : Has(Tail(q), y) => Has(q, y)
        /\ Distinct(q) => Distinct(Tail(q))
        /\ Head(q) \in Messages
    BY <2>1, TailHas, TailIs
  <2>3. Fewer(c) /\ Requesting(c) /\ Shut(c)
    BY <1>2, <1>3, <1>5, <1>7, <2>1, <2>2 DEF Fewer, Requesting, Shut
  <2>4. link[c].from = n /\ srv[n].master # 0
    <3>1. 0 \notin Fds
      BY <1>0, Basics
    <3> QED BY <1>1, <1>2, <1>7, <3>1 DEF Once, Masters
  <2>5. srv' = [srv EXCEPT ![n] = CASE x = Replica -> registerReplica(srv[n], f, c)
                                    [] x = Ok      -> srv[n]
                                    [] OTHER       -> Executed(srv[n], x)]
    BY <1>1
  <2>6. x = Head(q)
    BY <1>1, <1>3, <1>7, <2>1, Zenon
  <2>7. /\ srv[n].conn[f].link = c /\ x \in Messages
        /\ sets' = sets /\ due' = due /\ srv[n].joining = 0 /\ srv[n].flush = 0
        /\ link[c].state # "unused" /\ \A d \in Links \ {c} : link'[d] = link[d]
        /\ link[c].down \in Seq(Messages) /\ link[c].down # <<>> /\ Head(link[c].down) = x
        /\ link'[c].down = Tail(link[c].down)
    BY <1>1, <1>2, <1>3, <2>1, <2>2, <2>6, Zenon
  <2> QED BY <1>2, <2>3, <2>4, <2>5, <2>7, Zenon
<1> QED BY <1>4, <1>6, <1>7

\* The command that n has read is one it had not executed.
LEMMA CommandOnce ==
  ASSUME IInv, Once, NEW n \in Servers, NEW c \in Links, NEW x \in Cmds, NEW s,
         s.exec = Append(srv[n].exec, x), s.pending = srv[n].pending, s.conn = srv[n].conn,
         s.joining = srv[n].joining, s.flush = srv[n].flush, s.master = srv[n].master,
         srv'[n] = s, \A m \in Servers \ {n} : srv'[m] = srv[m],
         sets' = sets, due' = due,
         link[c].state # "unused", link[c].from = n,
         Fewer(c), Requesting(c), Shut(c), \A d \in Links \ {c} : link'[d] = link[d],
         link[c].down \in Seq(Messages), link[c].down # <<>>, Head(link[c].down) = x,
         link'[c].down = Tail(link[c].down)
  PROVE  Once'
<1>0. TypeOK /\ Polling /\ Ends
  BY DEF IInv
<1>1. PICK q \in Seq(Messages) : q = link[c].down /\ q # <<>> /\ link'[c].down = Tail(q) /\ Head(q) = x
  OBVIOUS
<1>2. /\ Has(q, x) /\ \A y : Has(Tail(q), y) => Has(q, y)
      /\ Distinct(q) => Distinct(Tail(q)) /\ ~ Has(Tail(q), x)
  BY <1>1, TailHas
<1>3. srv[n].exec \in Seq(Cmds)
  BY <1>0, Basics DEF Server
<1>4. /\ \A y : Has(s.exec, y) <=> Has(srv[n].exec, y) \/ y = x
      /\ Distinct(srv[n].exec) /\ ~ Has(srv[n].exec, x) => Distinct(s.exec)
  BY <1>3, AppendHas
<1>5. \A d \in Links : Fewer(d) /\ Requesting(d) /\ Shut(d) /\ Kept(d)
  BY LinkStays, FewerIs
<1>6. \A m \in Servers : /\ srv'[m].pending = srv[m].pending /\ srv'[m].conn = srv[m].conn
                         /\ srv'[m].joining = srv[m].joining /\ srv'[m].flush = srv[m].flush
                         /\ srv'[m].master = srv[m].master
  OBVIOUS
<1>7. Asking' /\ Queues'
  BY <1>0, <1>5, <1>6, AskingStays DEF Once, Queues
<1>8. Masters'
  BY <1>0, <1>5, <1>6, MastersStay DEF Once
<1>9. Alone'
  BY <1>5, <1>6, AloneStays DEF Once
<1>10. Known'
  <2>1. x <= sets
    BY <1>1, <1>2 DEF Once, Known
  <2>2. \A m \in Servers : \A y \in Cmds : Has(srv'[m].exec, y) \/ Has(srv'[m].pending, y) => y <= sets
    BY <1>4, <1>6, <2>1 DEF Once, Known
  <2>3. \A d \in Links : \A y \in Cmds : Has(link'[d].down, y) => y <= sets
    BY <1>5, FewerIs DEF Once, Known
  <2> QED BY <2>2, <2>3 DEF Known
<1>11. Unsent'
  <2> SUFFICES ASSUME NEW m \in Servers, NEW y \in Cmds, Has(srv'[m].pending, y)
               PROVE  /\ \A d \in Links : Has(link'[d].down, y) => Sent(m, d, y)'
                      /\ \A k \in Servers \ {m} : Has(srv'[k].exec, y) =>
                           \E d \in Links : link'[d].from = k /\ Sent(m, d, y)'
    BY DEF Unsent
  <2>1. Has(srv[m].pending, y)
    BY <1>6
  <2>2. \A d \in Links : Sent(m, d, y) => Sent(m, d, y)' /\ link'[d].from = link[d].from
    BY <1>5, <1>6 DEF Sent, Flushing, Streams, Kept
  <2>3. \A d \in Links : Has(link'[d].down, y) => Sent(m, d, y)'
    BY <1>5, <2>1, <2>2, FewerIs DEF Once, Unsent
  <2>4. ASSUME NEW k \in Servers \ {m}, Has(srv'[k].exec, y)
        PROVE  \E d \in Links : link'[d].from = k /\ Sent(m, d, y)'
    <3>1. CASE k = n /\ y = x
      <4>1. Sent(m, c, x)
        BY <1>1, <1>2, <2>1, <3>1 DEF Once, Unsent
      <4> QED BY <2>2, <3>1, <4>1
    <3>2. CASE ~ (k = n /\ y = x)
      <4>1. Has(srv[k].exec, y)
        BY <1>4, <2>4, <3>2
      <4>2. PICK d \in Links : link[d].from = k /\ Sent(m, d, y)
        BY <2>1, <2>4, <4>1 DEF Once, Unsent
      <4> QED BY <2>2, <4>2
    <3> QED BY <3>1, <3>2
  <2> QED BY <2>3, <2>4
<1>12. OnceEach'
  <2> SUFFICES ASSUME NEW k \in Servers, Single(k)'
               PROVE  /\ Distinct(srv'[k].exec)
                      /\ \A d \in Links : Made(d, k)' =>
                           /\ Distinct(link'[d].down)
                           /\ \A y \in Cmds : ~ (Has(link'[d].down, y) /\ Has(srv'[k].exec, y))
    BY DEF OnceEach
  <2>1. Single(k)
    BY <1>5, SingleWas
  <2>2. /\ Distinct(srv[k].exec)
        /\ \A d \in Links : Made(d, k) =>
                           /\ Distinct(link[d].down)
                           /\ \A y \in Cmds : ~ (Has(link[d].down, y) /\ Has(srv[k].exec, y))
    BY <2>1 DEF Once, OnceEach
  <2>3. \A d \in Links : Made(d, k)' => link'[d].down = <<>> \/ Made(d, k)
    BY <1>5 DEF Made, Fewer, Kept
  <2>4. CASE k # n
    <3>1. srv'[k] = srv[k]
      BY <2>4
    <3> QED BY <1>5, <2>2, <2>3, <3>1, EmptyHas, FewerIs
  <2>5. CASE k = n
    <3>1. Made(c, n) /\ ~ Has(srv[n].exec, x) /\ Distinct(q)
      BY <1>1, <1>2, <2>2, <2>5 DEF Made
    <3>2. Distinct(srv'[n].exec)
      BY <1>4, <2>2, <2>5, <3>1
    <3>3. ASSUME NEW d \in Links, Made(d, n)'
          PROVE  /\ Distinct(link'[d].down)
                 /\ \A y \in Cmds : ~ (Has(link'[d].down, y) /\ Has(srv'[n].exec, y))
      <4>1. CASE d = c
        BY <1>1, <1>2, <1>4, <2>2, <2>5, <3>1, <4>1
      <4>2. CASE d # c
        <5>1. Made(d, n)
          BY <3>3, <4>2 DEF Made
        <5> QED BY <2>1, <2>5, <3>1, <4>2, <5>1 DEF Single
      <4> QED BY <4>1, <4>2
    <3> QED BY <2>5, <3>2, <3>3
  <2> QED BY <2>4, <2>5
<1> QED BY <1>7, <1>8, <1>9, <1>10, <1>11, <1>12 DEF Once

LEMMA ReadOnce ==
  ASSUME IInv, Once, NEW n \in Servers, NEW f \in Fds, Read(n, f)
  PROVE  Once'
<1>0. TypeOK /\ Polling /\ Ends
  BY DEF IInv
<1>1. PICK c \in Links, x \in Messages :
           /\ srv' = [srv EXCEPT ![n] = CASE x = Replica -> registerReplica(srv[n], f, c)
                                          [] x = Ok      -> srv[n]
                                          [] OTHER       -> Executed(srv[n], x)]
           /\ sets' = sets /\ due' = due /\ srv[n].joining = 0 /\ srv[n].flush = 0
           /\ link[c].state # "unused" /\ Fewer(c) /\ Requesting(c) /\ Shut(c)
           /\ \A d \in Links \ {c} : link'[d] = link[d]
           /\ \/ x = Replica
              \/ /\ link[c].down \in Seq(Messages) /\ link[c].down # <<>> /\ Head(link[c].down) = x
                 /\ link'[c].down = Tail(link[c].down)
                 /\ link[c].from = n /\ srv[n].master # 0
  BY ReadIs
<1>2. srv[n] \in Server
  BY <1>0, Basics
<1>3. CASE x \in {Replica, Ok}
  <2>1. PICK s : /\ srv' = [srv EXCEPT ![n] = s]
                 /\ s.exec = srv[n].exec /\ s.pending = srv[n].pending /\ s.conn = srv[n].conn
                 /\ s.joining = srv[n].joining /\ s.flush = srv[n].flush /\ s.master = srv[n].master
    <3>1. CASE x = Replica
      <4>1. PICK s : s = registerReplica(srv[n], f, c)
        OBVIOUS
      <4>2. srv' = [srv EXCEPT ![n] = s]
        <5>1. x # Ok
          BY <3>1 DEF Replica, Ok
        <5> QED BY <1>1, <3>1, <4>1, <5>1
      <4>3. /\ s.exec = srv[n].exec /\ s.pending = srv[n].pending /\ s.conn = srv[n].conn
            /\ s.joining = srv[n].joining /\ s.flush = srv[n].flush /\ s.master = srv[n].master
        <5>1. srv[n] \in Server /\ f \in Fds /\ c \in Links
          BY <1>2
        <5>2. /\ registerReplica(srv[n], f, c).exec = srv[n].exec
              /\ registerReplica(srv[n], f, c).pending = srv[n].pending
              /\ registerReplica(srv[n], f, c).conn = srv[n].conn
              /\ registerReplica(srv[n], f, c).joining = srv[n].joining
              /\ registerReplica(srv[n], f, c).flush = srv[n].flush
              /\ registerReplica(srv[n], f, c).master = srv[n].master
          BY <5>1, RegisterFields
        <5> QED BY <4>1, <5>2, Zenon
      <4> QED BY <4>2, <4>3
    <3>2. CASE x = Ok /\ x # Replica
      BY <1>1, <3>2
    <3> QED BY <1>3, <3>1, <3>2
  <2>2. \A m \in Servers : /\ srv'[m].exec = srv[m].exec
                           /\ srv'[m].pending = srv[m].pending /\ srv'[m].conn = srv[m].conn
                           /\ srv'[m].joining = srv[m].joining /\ srv'[m].flush = srv[m].flush
                           /\ srv'[m].master = srv[m].master
    BY <1>0, <2>1 DEF TypeOK
  <2>3. \A d \in Links : Fewer(d) /\ Requesting(d) /\ Shut(d) /\ Kept(d)
    BY <1>1, LinkStays, FewerIs
  <2>4. Masters'
    BY <1>0, <2>2, <2>3, MastersStay DEF Once
  <2>5. Alone'
    BY <2>2, <2>3, AloneStays DEF Once
  <2>6. Idles /\ \A m \in Servers : GoesOn(m)
    BY <2>2 DEF Idles, GoesOn, Flushing
  <2> QED BY <1>0, <1>1, <2>3, <2>4, <2>5, <2>6, OnceStays
<1>4. CASE x \notin {Replica, Ok}
  <2>1. x \in Cmds /\ srv' = [srv EXCEPT ![n] = Executed(srv[n], x)]
    BY <1>1, <1>4 DEF Messages
  <2>2. PICK s : s = Executed(srv[n], x)
    OBVIOUS
  <2>3. /\ s.exec = Append(srv[n].exec, x) /\ s.pending = srv[n].pending /\ s.conn = srv[n].conn
        /\ s.joining = srv[n].joining /\ s.flush = srv[n].flush /\ s.master = srv[n].master
    <3>1. srv[n].master # 0
      BY <1>1, <1>4
    <3> QED BY <1>2, <2>1, <2>2, <3>1, ExecutedFields
  <2>4. srv'[n] = s /\ \A m \in Servers \ {n} : srv'[m] = srv[m]
    BY <1>0, <2>1, <2>2 DEF TypeOK
  <2> QED BY <1>1, <1>4, <2>1, <2>3, <2>4, CommandOnce
<1> QED BY <1>3, <1>4

LEMMA BeforeSleepOnce ==
  ASSUME IInv, Once, NEW n \in Servers, BeforeSleep(n)
  PROVE  Once'
<1>0. TypeOK /\ Polling /\ Ends
  BY DEF IInv
<1>1. /\ srv[n].joining = 0 /\ srv[n].flush = 0 /\ srv' = [srv EXCEPT ![n].flush = 1]
      /\ due' = [c \in Links |-> IF Streams(n) /\ c \in Followers(n) THEN srv[n].pending ELSE due[c]]
      /\ link' = link /\ sets' = sets
  BY DEF BeforeSleep, Handling
<1>2. \A m \in Servers : /\ srv'[m].exec = srv[m].exec
                         /\ srv'[m].pending = srv[m].pending /\ srv'[m].conn = srv[m].conn
                         /\ srv'[m].joining = srv[m].joining /\ srv'[m].master = srv[m].master
                         /\ m # n => srv'[m].flush = srv[m].flush
  <2>1. srv[n] \in Server
    BY <1>0, Basics
  <2> QED BY <1>0, <1>1, <2>1 DEF TypeOK, Server
<1>3. \A d \in Links : Fewer(d) /\ Requesting(d) /\ Shut(d) /\ Kept(d)
  BY <1>1, LinkStays
<1>4. Masters'
  BY <1>0, <1>2, <1>3, MastersStay DEF Once
<1>5. Alone'
  BY <1>2, <1>3, AloneStays DEF Once
<1>6. Asking' /\ Known' /\ OnceEach'
  BY <1>0, <1>1, <1>2, <1>3, AskingStays, KnownStays, OnceEachStays DEF Once, Idles
<1>7. Queues'
  <2>1. \A c \in Links : due'[c] \in {due[c], srv[n].pending}
    BY <1>1
  <2>2. \A c \in Links : Distinct(due'[c])
    BY <2>1 DEF Once, Queues
  <2> QED BY <1>2, <2>2 DEF Once, Queues
<1>8. Unsent'
  <2> SUFFICES ASSUME NEW m \in Servers, NEW y \in Cmds, Has(srv'[m].pending, y)
               PROVE  /\ \A d \in Links : Has(link'[d].down, y) => Sent(m, d, y)'
                      /\ \A k \in Servers \ {m} : Has(srv'[k].exec, y) =>
                           \E d \in Links : link'[d].from = k /\ Sent(m, d, y)'
    BY DEF Unsent
  <2>1. /\ \A d \in Links : Has(link[d].down, y) => Sent(m, d, y)
        /\ \A k \in Servers \ {m} : Has(srv[k].exec, y) =>
                           \E d \in Links : link[d].from = k /\ Sent(m, d, y)
    BY <1>2 DEF Once, Unsent
  <2>2. \A d \in Links : Sent(m, d, y) => Sent(m, d, y)'
    <3>1. CASE m = n
      BY <1>1, <3>1 DEF Sent, Flushing
    <3>2. CASE m # n
      <4>1. ASSUME NEW d \in Links, link[d].to = m PROVE due'[d] = due[d]
        <5>1. d \notin Followers(n)
          <6> SUFFICES ASSUME d \in Followers(n) PROVE FALSE
            OBVIOUS
          <6>1. PICK i \in 1 .. Len(srv[n].replicas) : srv[n].conn[srv[n].replicas[i][1]] = ServerEnd(d)
            BY DEF Followers, ServerEnd
          <6>2. srv[n].replicas[i][1] \in Fds
            BY <1>0, Basics
          <6>3. link[d].to = n
            BY <1>0, <6>1, <6>2, ServerEnds DEF Ends
          <6> QED BY <3>2, <4>1, <6>3
        <5> QED BY <1>1, <5>1
      <4> QED BY <1>1, <1>2, <3>2, <4>1 DEF Sent, Flushing, Streams
    <3> QED BY <3>1, <3>2
  <2> QED BY <1>1, <1>2, <2>1, <2>2
<1> QED BY <1>4, <1>5, <1>6, <1>7, <1>8 DEF Once

LEMMA NextCommandOnce ==
  ASSUME IInv, Once, NEW n \in Servers, NextCommand(n)
  PROVE  Once'
<1>0. TypeOK /\ Polling /\ Ends
  BY DEF IInv
<1>1. /\ srv[n].flush # 0 /\ srv[n].master # 0 /\ srv[n].pending # <<>>
      /\ srv' = [srv EXCEPT ![n].pending = Tail(@), ![n].flush = 1]
      /\ link' = link /\ sets' = sets /\ due' = due
  <2>1. srv[n].flush \in Nat /\ Len(srv[n].replicas) \in Nat
    BY <1>0, Basics
  <2> QED BY <2>1 DEF NextCommand, Streams, hist
<1>2. PICK q \in Seq(Cmds) : q = srv[n].pending /\ q # <<>>
  BY <1>0, <1>1, Basics
<1>3. /\ \A m \in Servers : /\ srv'[m].exec = srv[m].exec /\ srv'[m].conn = srv[m].conn
                            /\ srv'[m].joining = srv[m].joining /\ srv'[m].master = srv[m].master
      /\ srv'[n].pending = Tail(q) /\ \A m \in Servers \ {n} : srv'[m] = srv[m]
  <2>1. srv[n] \in Server
    BY <1>0, Basics
  <2> QED BY <1>0, <1>1, <1>2, <2>1 DEF TypeOK, Server
<1>4. /\ \A y : Has(Tail(q), y) => Has(q, y)
      /\ Distinct(q) => Distinct(Tail(q)) /\ ~ Has(Tail(q), Head(q))
  BY <1>2, TailHas, TailIs
<1>5. \A d \in Links : Fewer(d) /\ Requesting(d) /\ Shut(d) /\ Kept(d)
  BY <1>1, LinkStays
<1>6. Masters'
  BY <1>0, <1>3, <1>5, MastersStay DEF Once
<1>7. Alone'
  BY <1>3, <1>5, AloneStays DEF Once
<1>8. Asking' /\ OnceEach'
  BY <1>0, <1>3, <1>5, AskingStays, OnceEachStays DEF Once
<1>9. \A m \in Servers : \A y \in Cmds : Has(srv'[m].pending, y) => Has(srv[m].pending, y)
  BY <1>2, <1>3, <1>4
<1>10. Known'
  BY <1>1, <1>3, <1>9 DEF Once, Known
<1>11. Queues'
  <2>1. \A m \in Servers : Distinct(srv'[m].pending)
    BY <1>2, <1>3, <1>4 DEF Once, Queues
  <2> QED BY <1>1, <1>9, <2>1 DEF Once, Queues
<1>12. Unsent'
  <2> SUFFICES ASSUME NEW m \in Servers, NEW y \in Cmds, Has(srv'[m].pending, y)
               PROVE  /\ \A d \in Links : Has(link'[d].down, y) => Sent(m, d, y)'
                      /\ \A k \in Servers \ {m} : Has(srv'[k].exec, y) =>
                           \E d \in Links : link'[d].from = k /\ Sent(m, d, y)'
    BY DEF Unsent
  <2>1. /\ \A d \in Links : Has(link[d].down, y) => Sent(m, d, y)
        /\ \A k \in Servers \ {m} : Has(srv[k].exec, y) =>
                           \E d \in Links : link[d].from = k /\ Sent(m, d, y)
    BY <1>9 DEF Once, Unsent
  <2>2. \A d \in Links : Sent(m, d, y) => Sent(m, d, y)'
    <3>1. CASE m = n
      <4>1. y # Head(q)
        BY <1>2, <1>3, <1>4, <3>1 DEF Once, Queues
      <4> QED BY <1>2, <3>1, <4>1 DEF Sent
    <3>2. CASE m # n
      BY <1>1, <1>3, <3>2 DEF Sent, Flushing, Streams
    <3> QED BY <3>1, <3>2
  <2> QED BY <1>1, <1>3, <2>1, <2>2
<1> QED BY <1>6, <1>7, <1>8, <1>10, <1>11, <1>12 DEF Once

LEMMA SleepOnce ==
  ASSUME IInv, Once, NEW n \in Servers, Sleep(n)
  PROVE  Once'
<1>0. TypeOK /\ Polling /\ Ends
  BY DEF IInv
<1>1. /\ ~ Streams(n)
      /\ srv' = [srv EXCEPT ![n].flush = 0, ![n].owed = {}]
      /\ link' = [c \in Links |->
                IF link[c].state = "open" /\ \E f \in srv[n].owed : srv[n].conn[f] = [link |-> c, side |-> "server"]
                THEN [link[c] EXCEPT !.down = Append(@, Ok)] ELSE link[c]]
      /\ sets' = sets /\ due' = due
  BY DEF Sleep, hist
<1>2. \A m \in Servers : /\ srv'[m].exec = srv[m].exec /\ srv'[m].pending = srv[m].pending
                         /\ srv'[m].conn = srv[m].conn
                         /\ srv'[m].joining = srv[m].joining /\ srv'[m].master = srv[m].master
                         /\ m # n => srv'[m].flush = srv[m].flush
  <2>1. srv[n] \in Server
    BY <1>0, Basics
  <2> QED BY <1>0, <1>1, <2>1 DEF TypeOK, Server
<1>3. ASSUME NEW c \in Links, link'[c] # link[c]
      PROVE  Fewer(c) /\ Requesting(c) /\ Shut(c) /\ Kept(c)
  <2>1. link[c] \in Link
    BY <1>0 DEF TypeOK
  <2>2. link[c].state = "open" /\ link'[c] = [link[c] EXCEPT !.down = Append(@, Ok)]
    BY <1>1, <1>3
  <2>3. /\ link'[c].state = "open" /\ link'[c].from = link[c].from /\ link'[c].to = link[c].to
        /\ link'[c].up = link[c].up /\ link'[c].down = Append(link[c].down, Ok)
        /\ link[c].down \in Seq(Messages) /\ link[c].from \in Servers \cup {Visitor}
    BY <2>1, <2>2 DEF Link
  <2>4. Ok \in Messages /\ Ok \notin Cmds
    BY Taken DEF Messages, Cmds, Ok
  <2>5. /\ \A x \in Cmds : Has(link'[c].down, x) => Has(link[c].down, x)
        /\ Distinct(link[c].down) => Distinct(link'[c].down)
    <3>1. PICK q \in Seq(Messages) : q = link[c].down /\ link'[c].down = Append(q, Ok)
      BY <2>3
    <3>2. /\ \A y : Has(Append(q, Ok), y) <=> Has(q, y) \/ y = Ok
          /\ Distinct(q) => Distinct(Append(q, Ok))
      BY <2>4, AppendHas
    <3> QED BY <2>4, <3>1, <3>2
  <2>6. Kept(c)
    BY <2>2, <2>3 DEF Kept
  <2>7. link[c].from \notin Servers \/ link[c].from # link[c].to
    BY <2>2 DEF Once, Alone, Made
  <2> QED BY <2>2, <2>3, <2>5, <2>6, <2>7 DEF Fewer, Requesting, Shut
<1>4. \A d \in Links : Fewer(d) /\ Requesting(d) /\ Shut(d) /\ Kept(d)
  BY <1>3, LinkStays
<1>5. Masters'
  BY <1>0, <1>2, <1>4, MastersStay DEF Once
<1>6. Alone'
  BY <1>2, <1>4, AloneStays DEF Once
<1>7. Idles /\ \A m \in Servers : GoesOn(m)
  BY <1>1, <1>2 DEF Idles, GoesOn, Flushing
<1> QED BY <1>0, <1>1, <1>4, <1>5, <1>6, <1>7, OnceStays

\* What a write to a replica that was due it does.
LEMMA ReplicateIs ==
  ASSUME IInv, NEW n \in Servers, Replicate(n), stray' = {}
  PROVE  \E c \in Links, x \in Cmds :
           /\ Flushing(n) /\ x = Head(srv[n].pending) /\ Has(srv[n].pending, x)
           /\ link[c].to = n /\ link[c].state # "unused"
           /\ due[c] \in Seq(Cmds) /\ due[c] # <<>> /\ Head(due[c]) = x
           /\ due'[c] = Tail(due[c]) /\ \A d \in Links \ {c} : due'[d] = due[d]
           /\ \A d \in Links : /\ link'[d].state = link[d].state /\ link'[d].up = link[d].up
                               /\ link'[d].from = link[d].from /\ link'[d].to = link[d].to
           /\ \A d \in Links \ {c} : link'[d] = link[d]
           /\ link[c].down \in Seq(Messages)
           /\ \/ link'[c] = link[c]
              \/ link[c].state = "open" /\ link'[c].down = Append(link[c].down, x)
           /\ \A m \in Servers : /\ srv'[m].exec = srv[m].exec /\ srv'[m].pending = srv[m].pending
                                 /\ srv'[m].conn = srv[m].conn /\ srv'[m].joining = srv[m].joining
                                 /\ srv'[m].master = srv[m].master
           /\ \A m \in Servers \ {n} : srv'[m] = srv[m]
           /\ srv'[n].flush # 0 /\ sets' = sets
<1>0. TypeOK /\ Polling /\ Ends
  BY DEF IInv
<1>1. PICK f, e, x :
        /\ f \in Fds /\ e = srv[n].conn[f] /\ x = Head(srv[n].pending) /\ e.link # 0
        /\ Flushing(n) /\ srv[n].pending # <<>>
        /\ srv' = [srv EXCEPT ![n] = Advanced(srv[n])]
        /\ link' = IF link[e.link].state = "open"
                   THEN [link EXCEPT ![e.link][Outbox(e)] = Append(@, x)] ELSE link
        /\ IF e.side = "server" /\ due[e.link] # <<>> /\ Head(due[e.link]) = x
           THEN due' = [due EXCEPT ![e.link] = Tail(@)] /\ stray' = stray
           ELSE stray' = stray \cup {<<n, f>>} /\ due' = due
        /\ sets' = sets
  <2>1. srv[n].flush \in 1 .. Len(srv[n].replicas) /\ Streams(n) /\ srv[n].flush # 0
    <3>1. srv[n].flush \in 1 .. Len(srv[n].replicas) /\ Streams(n)
      BY Zenon DEF Replicate, Writing
    <3> QED BY <3>1
  <2>2. Target(n)[1] \in Fds
    BY <1>0, <2>1, Basics DEF Target
  <2>3. Flushing(n) /\ srv[n].pending # <<>>
    BY <2>1 DEF Flushing, Streams
  <2>4. PICK f, e, x : f = Target(n)[1] /\ e = srv[n].conn[f] /\ x = Head(srv[n].pending)
    OBVIOUS
  <2>5. srv' = [srv EXCEPT ![n] = Advanced(srv[n])]
    BY <1>0, Zenon DEF Replicate, TypeOK
  <2> QED BY <2>2, <2>3, <2>4, <2>5, Zenon DEF Replicate
<1>2. e.side = "server" /\ due[e.link] # <<>> /\ Head(due[e.link]) = x /\ due' = [due EXCEPT ![e.link] = Tail(@)]
  <2>1. stray' # stray \cup {<<n, f>>}
    OBVIOUS
  <2> QED BY <1>1, <2>1
<1>3. PICK c \in Links : c = e.link /\ e = ServerEnd(c) /\ e # NoEnd
  <2>1. e \in End /\ e.link \in Links
    BY <1>0, <1>1, Basics, Zenon
  <2>2. e = ServerEnd(e.link)
    BY <1>2, <2>1 DEF End, ServerEnd
  <2> QED BY <2>1, <2>2, ServerEnds
<1>4. link[c].to = n /\ link[c].state # "unused"
  BY <1>0, <1>1, <1>2, <1>3, Zenon DEF Ends
<1>5. x \in Cmds /\ Has(srv[n].pending, x)
  <2>1. PICK q \in Seq(Cmds) : q = srv[n].pending /\ q # <<>>
    BY <1>0, <1>1, Basics, Zenon
  <2> QED BY <1>1, <2>1, TailHas, TailIs
<1>6. due[c] \in Seq(Cmds) /\ due'[c] = Tail(due[c]) /\ \A d \in Links \ {c} : due'[d] = due[d]
  BY <1>0, <1>2, <1>3 DEF TypeOK
<1>7. /\ \A d \in Links : /\ link'[d].state = link[d].state /\ link'[d].up = link[d].up
                          /\ link'[d].from = link[d].from /\ link'[d].to = link[d].to
      /\ \A d \in Links \ {c} : link'[d] = link[d]
      /\ link[c].down \in Seq(Messages)
      /\ \/ link'[c] = link[c]
         \/ link[c].state = "open" /\ link'[c].down = Append(link[c].down, x)
  <2>1. link[c] \in Link /\ link \in [Links -> Link]
    BY <1>0 DEF TypeOK
  <2>2. CASE link[c].state # "open"
    <3>1. link' = link
      BY <1>1, <1>3, <2>2, Zenon
    <3> QED BY <2>1, <3>1 DEF Link
  <2>3. CASE link[c].state = "open"
    <3>1. PICK l : l = [link[c] EXCEPT !.down = Append(link[c].down, x)]
      OBVIOUS
    <3>2. Outbox(e) = "down"
      BY <1>2 DEF Outbox
    <3>3. link' = [link EXCEPT ![c] = l]
      BY <1>1, <1>3, <2>1, <2>3, <3>1, <3>2, Zenon
    <3>4. /\ l.state = link[c].state /\ l.up = link[c].up /\ l.from = link[c].from /\ l.to = link[c].to
          /\ l.down = Append(link[c].down, x) /\ link[c].down \in Seq(Messages)
      BY <2>1, <3>1 DEF Link
    <3> QED BY <2>1, <2>3, <3>3, <3>4
  <2> QED BY <2>2, <2>3
<1>8. /\ \A m \in Servers : /\ srv'[m].exec = srv[m].exec /\ srv'[m].pending = srv[m].pending
                            /\ srv'[m].conn = srv[m].conn /\ srv'[m].joining = srv[m].joining
                            /\ srv'[m].master = srv[m].master
      /\ \A m \in Servers \ {n} : srv'[m] = srv[m]
      /\ srv'[n].flush # 0
  <2>1. PICK k \in Nat : k = srv[n].flush + 1 /\ k # 0
    BY <1>0, Basics
  <2>2. PICK s : s = [srv[n] EXCEPT !.flush = k]
    OBVIOUS
  <2>3. srv' = [srv EXCEPT ![n] = s]
    BY <1>1, <2>1, <2>2, Zenon DEF Advanced
  <2>4. /\ s.exec = srv[n].exec /\ s.pending = srv[n].pending /\ s.conn = srv[n].conn
        /\ s.joining = srv[n].joining /\ s.master = srv[n].master /\ s.flush = k
    <3>1. srv[n] \in Server
      BY <1>0, Basics
    <3> QED BY <2>2, <3>1, Zenon DEF Server
  <2> QED BY <1>0, <2>1, <2>3, <2>4 DEF TypeOK
<1> QED BY <1>1, <1>2, <1>3, <1>4, <1>5, <1>6, <1>7, <1>8, Zenon

LEMMA ReplicateOnce ==
  ASSUME IInv, Once, NEW n \in Servers, Replicate(n), stray' = {}
  PROVE  Once'
<1>0. TypeOK /\ Polling /\ Ends
  BY DEF IInv
<1>1. PICK c \in Links, x \in Cmds :
           /\ Flushing(n) /\ x = Head(srv[n].pending) /\ Has(srv[n].pending, x)
           /\ link[c].to = n /\ link[c].state # "unused"
           /\ due[c] \in Seq(Cmds) /\ due[c] # <<>> /\ Head(due[c]) = x
           /\ due'[c] = Tail(due[c]) /\ \A d \in Links \ {c} : due'[d] = due[d]
           /\ \A d \in Links : /\ link'[d].state = link[d].state /\ link'[d].up = link[d].up
                               /\ link'[d].from = link[d].from /\ link'[d].to = link[d].to
           /\ \A d \in Links \ {c} : link'[d] = link[d]
           /\ link[c].down \in Seq(Messages)
           /\ \/ link'[c] = link[c]
              \/ link[c].state = "open" /\ link'[c].down = Append(link[c].down, x)
           /\ \A m \in Servers : /\ srv'[m].exec = srv[m].exec /\ srv'[m].pending = srv[m].pending
                                 /\ srv'[m].conn = srv[m].conn /\ srv'[m].joining = srv[m].joining
                                 /\ srv'[m].master = srv[m].master
           /\ \A m \in Servers \ {n} : srv'[m] = srv[m]
           /\ srv'[n].flush # 0 /\ sets' = sets
  BY ReplicateIs
<1>2. /\ \A y : Has(due'[c], y) => Has(due[c], y)
      /\ Has(due[c], x) /\ ~ Has(due'[c], x)
      /\ Distinct(due'[c])
  <2>1. PICK q \in Seq(Cmds) : q = due[c] /\ q # <<>>
    BY <1>1
  <2>2. Distinct(q)
    BY <2>1 DEF Once, Queues
  <2> QED BY <1>1, <2>1, <2>2, TailHas
<1>3. /\ \A y : Has(link'[c].down, y) => Has(link[c].down, y) \/ y = x
      /\ Distinct(link[c].down) /\ ~ Has(link[c].down, x) => Distinct(link'[c].down)
  <2>1. CASE link'[c] = link[c]
    BY <2>1
  <2>2. CASE link'[c].down = Append(link[c].down, x)
    <3>1. PICK q \in Seq(Messages) : q = link[c].down
      BY <1>1
    <3>2. x \in Messages
      BY DEF Messages
    <3> QED BY <2>2, <3>1, <3>2, AppendHas
  <2> QED BY <1>1, <2>1, <2>2
<1>4. \A d \in Links : Kept(d) /\ Requesting(d)
  BY <1>1 DEF Kept, Requesting
<1>5. ~ Sent(n, c, x)
  BY <1>2 DEF Sent
<1>6. ~ Has(link[c].down, x) /\ (\A m \in Servers \ {n} : Has(srv[m].exec, x) => link[c].from # m \/ ~ Single(m))
  <2>1. ~ Has(link[c].down, x)
    BY <1>1, <1>5 DEF Once, Unsent
  <2>2. ASSUME NEW m \in Servers \ {n}, Has(srv[m].exec, x), link[c].from = m, Single(m) PROVE FALSE
    <3>1. PICK d \in Links : link[d].from = m /\ Sent(n, d, x)
      BY <1>1, <2>2 DEF Once, Unsent
    <3>2. Made(c, m) /\ Made(d, m)
      BY <1>1, <2>2, <3>1 DEF Made, Sent
    <3>3. c = d
      BY <2>2, <3>2 DEF Single
    <3> QED BY <1>5, <3>1, <3>3
  <2> QED BY <2>1, <2>2
<1>7. Asking'
  BY <1>0, <1>4, AskingStays DEF Once
<1>8. Known'
  <2>1. x <= sets
    BY <1>1 DEF Once, Known
  <2>2. \A m \in Servers : \A y \in Cmds : Has(srv'[m].exec, y) \/ Has(srv'[m].pending, y) => y <= sets
    BY <1>1 DEF Once, Known
  <2>3. \A d \in Links : \A y \in Cmds : Has(link'[d].down, y) => y <= sets
    BY <1>1, <1>3, <2>1 DEF Once, Known
  <2> QED BY <1>1, <2>2, <2>3 DEF Known
<1>9. Queues'
  <2>1. \A d \in Links : Distinct(due'[d])
    BY <1>1, <1>2 DEF Once, Queues
  <2> QED BY <1>1, <2>1 DEF Once, Queues
<1>10. Masters'
  BY <1>0, <1>1, <1>4, MastersStay DEF Once
<1>11. Alone'
  <2>1. ASSUME NEW d \in Links PROVE Shut(d)
    <3>1. CASE link'[d] = link[d]
      BY <3>1, LinkStays
    <3>2. CASE d = c /\ link[c].state = "open"
      BY <1>1, <3>2 DEF Once, Alone, Made, Shut
    <3> QED BY <1>1, <3>1, <3>2
  <2> QED BY <1>1, <2>1, AloneStays DEF Once
<1>12. Unsent'
  <2> SUFFICES ASSUME NEW m \in Servers, NEW y \in Cmds, Has(srv'[m].pending, y)
               PROVE  /\ \A d \in Links : Has(link'[d].down, y) => Sent(m, d, y)'
                      /\ \A k \in Servers \ {m} : Has(srv'[k].exec, y) =>
                           \E d \in Links : link'[d].from = k /\ Sent(m, d, y)'
    BY DEF Unsent
  <2>1. Has(srv[m].pending, y)
    BY <1>1
  <2>2. \A d \in Links : Sent(m, d, y) => Sent(m, d, y)'
    <3>1. ASSUME NEW d \in Links, Sent(m, d, y) PROVE ~ Has(due'[d], y)
      BY <1>1, <1>2, <3>1 DEF Sent
    <3>2. Flushing(m) => Flushing(m)'
      BY <1>1 DEF Flushing, Streams
    <3> QED BY <1>1, <3>1, <3>2 DEF Sent
  <2>3. ASSUME NEW d \in Links, Has(link'[d].down, y) PROVE Sent(m, d, y)'
    <3>1. CASE Has(link[d].down, y)
      BY <2>1, <2>2, <3>1 DEF Once, Unsent
    <3>2. CASE ~ Has(link[d].down, y)
      <4>1. d = c /\ y = x
        BY <1>1, <1>3, <2>3, <3>2
      <4>2. m = n
        BY <1>1, <2>1, <4>1 DEF Once, Queues
      <4>3. Flushing(n)'
        BY <1>1 DEF Flushing, Streams
      <4> QED BY <1>1, <1>2, <4>1, <4>2, <4>3 DEF Sent
    <3> QED BY <3>1, <3>2
  <2>4. ASSUME NEW k \in Servers \ {m}, Has(srv'[k].exec, y)
        PROVE  \E d \in Links : link'[d].from = k /\ Sent(m, d, y)'
    <3>1. PICK d \in Links : link[d].from = k /\ Sent(m, d, y)
      BY <1>1, <2>1, <2>4 DEF Once, Unsent
    <3> QED BY <1>1, <2>2, <3>1
  <2> QED BY <2>3, <2>4
<1>13. OnceEach'
  <2> SUFFICES ASSUME NEW k \in Servers, Single(k)'
               PROVE  /\ Distinct(srv'[k].exec)
                      /\ \A d \in Links : Made(d, k)' =>
                           /\ Distinct(link'[d].down)
                           /\ \A y \in Cmds : ~ (Has(link'[d].down, y) /\ Has(srv'[k].exec, y))
    BY DEF OnceEach
  <2>1. Single(k)
    BY <1>4, SingleWas
  <2>2. Distinct(srv'[k].exec)
    BY <1>1, <2>1 DEF Once, OnceEach
  <2>3. ASSUME NEW d \in Links, Made(d, k)'
        PROVE  /\ Distinct(link'[d].down)
               /\ \A y \in Cmds : ~ (Has(link'[d].down, y) /\ Has(srv'[k].exec, y))
    <3>1. Made(d, k)
      BY <1>1, <2>3 DEF Made
    <3>2. /\ Distinct(link[d].down)
          /\ \A y \in Cmds : ~ (Has(link[d].down, y) /\ Has(srv[k].exec, y))
      BY <2>1, <3>1 DEF Once, OnceEach
    <3>3. CASE link'[d] = link[d]
      BY <1>1, <3>2, <3>3
    <3>4. CASE d = c /\ link[c].state = "open"
      <4>1. k # n
        BY <1>1, <3>1, <3>4 DEF Once, Alone, Made
      <4>2. ~ Has(srv[k].exec, x)
        BY <1>6, <2>1, <3>1, <3>4, <4>1 DEF Made
      <4> QED BY <1>1, <1>3, <1>6, <3>2, <3>4, <4>2
    <3> QED BY <1>1, <3>3, <3>4
  <2> QED BY <2>2, <2>3
<1> QED BY <1>7, <1>8, <1>9, <1>10, <1>11, <1>12, <1>13 DEF Once

LEMMA ReplicateErrorOnce ==
  ASSUME IInv, Once, NEW n \in Servers, ReplicateError(n)
  PROVE  Once'
<1>0. TypeOK /\ Polling /\ Ends
  BY DEF IInv
<1>1. PICK i, f, t, e, s, r :
        /\ i \in 1 .. Len(srv[n].replicas) /\ f \in Fds /\ t \in Links
        /\ srv[n].flush # 0 /\ e = srv[n].conn[f] /\ s = Closed(srv[n], f) /\ r = Dropped(s, i)
        /\ srv' = [srv EXCEPT ![n] = r]
        /\ link' = Hangup(link, e)
        /\ due' = [due EXCEPT ![t] = <<>>]
        /\ sets' = sets
  <2>1. PICK i, f, t : i = srv[n].flush /\ f = Target(n)[1] /\ t = Target(n)[2]
    OBVIOUS
  <2>2. srv[n].flush \in 1 .. Len(srv[n].replicas)
    BY Zenon DEF ReplicateError, Writing
  <2>3. i \in 1 .. Len(srv[n].replicas) /\ f \in Fds /\ t \in Links /\ srv[n].flush # 0
    BY <1>0, <2>1, <2>2, Basics DEF Target
  <2>4. PICK e, s, r : e = srv[n].conn[f] /\ s = Closed(srv[n], f) /\ r = Dropped(s, i)
    OBVIOUS
  <2>5. srv' = [srv EXCEPT ![n] = r]
    <3>1. srv' = [srv EXCEPT ![n] = Dropped(Closed(srv[n], Target(n)[1]), srv[n].flush)]
      BY Zenon DEF ReplicateError
    <3> QED BY <2>1, <2>4, <3>1, Zenon
  <2>6. link' = Hangup(link, e) /\ due' = [due EXCEPT ![t] = <<>>] /\ sets' = sets
    BY <2>1, <2>4, Zenon DEF ReplicateError
  <2> QED BY <2>3, <2>4, <2>5, <2>6, Zenon
<1>2. /\ srv[n] \in Server /\ e \in End /\ e.link \in Links \cup {0} /\ srv[n].conn \in [Fds -> End]
      /\ srv[n].joining = 0
  <2>1. srv[n].joining # 0 => srv[n].flush = 0
    BY <1>0 DEF Polling
  <2> QED BY <1>0, <1>1, <2>1, Basics
<1>3. /\ s \in Server /\ s.conn = [srv[n].conn EXCEPT ![f] = NoEnd]
      /\ s.flush = srv[n].flush /\ s.master = srv[n].master /\ s.joining = srv[n].joining
      /\ s.pending = srv[n].pending /\ s.exec = srv[n].exec /\ s.replicas = srv[n].replicas
  <2>1. s = Closed(srv[n], f) /\ f \in Fds /\ srv[n] \in Server
    BY <1>1, <1>2
  <2> QED BY <2>1, ClosedFields
<1>4. /\ r.conn = s.conn /\ r.flush = s.flush /\ r.master = s.master /\ r.joining = s.joining
      /\ r.pending = s.pending /\ r.exec = s.exec
  <2>1. r = Dropped(s, i) /\ s \in Server /\ i \in 1 .. Len(s.replicas)
    BY <1>1, <1>3
  <2> QED BY <2>1, DroppedFields
<1>5. srv'[n] = r /\ \A m \in Servers \ {n} : srv'[m] = srv[m]
  BY <1>0, <1>1 DEF TypeOK
<1>6. \A m \in Servers :
        /\ srv'[m].exec = srv[m].exec /\ srv'[m].pending = srv[m].pending
        /\ srv'[m].master = srv[m].master /\ srv'[m].joining = srv[m].joining
        /\ srv'[m].flush = srv[m].flush
        /\ \A g \in Fds : srv'[m].conn[g] \in {srv[m].conn[g], NoEnd}
  <2>1. \A g \in Fds : r.conn[g] \in {srv[n].conn[g], NoEnd}
    BY <1>2, <1>3, <1>4
  <2> QED BY <1>3, <1>4, <1>5, <2>1
<1>7. \A d \in Links : Fewer(d) /\ Requesting(d) /\ Shut(d) /\ Kept(d)
  <2>1. CASE e.link = 0
    <3>1. link' = link
      BY <1>1, <2>1 DEF Hangup
    <3> QED BY <3>1, LinkStays
  <2>2. CASE e.link # 0
    <3>1. PICK c \in Links : c = e.link
      BY <1>2, <2>2
    <3>2. /\ \A d \in Links \ {c} : link'[d] = link[d]
          /\ link'[c].state = "broken" /\ link'[c].to = link[c].to /\ link'[c].from = link[c].from
          /\ link'[c].up \in {link[c].up, <<>>}
          /\ link'[c].down = IF e.side = "client" THEN <<>> ELSE link[c].down
      <4>1. link \in [Links -> Link]
        BY <1>0 DEF TypeOK
      <4> QED BY <1>1, <1>2, <3>1, <4>1, HangupFields
    <3>3. link[c].state # "unused" /\ (e.side = "server" => link[c].to = n)
      <4>1. e # NoEnd
        BY <2>2 DEF NoEnd
      <4> QED BY <1>0, <1>1, <3>1, <4>1 DEF Ends
    <3>4. Kept(c) /\ Requesting(c)
      BY <3>2 DEF Kept, Requesting
    <3>5. link'[c].down \in {link[c].down, <<>>}
      BY <3>2
    <3>6. Fewer(c)
      BY <3>3, <3>4, <3>5 DEF Fewer
    <3>7. Shut(c)
      <4>1. CASE e.side = "client"
        BY <3>2, <4>1 DEF Shut
      <4>2. CASE e.side = "server" /\ link[c].from = link[c].to
        <5>1. link[c].down = <<>>
          BY <3>3, <4>2 DEF Once, Alone, Made
        <5> QED BY <3>2, <3>5, <5>1 DEF Shut
      <4>3. CASE link[c].from # link[c].to
        BY <3>2, <4>3 DEF Shut
      <4> QED BY <1>2, <4>1, <4>2, <4>3 DEF End
    <3> QED BY <3>2, <3>4, <3>6, <3>7, LinkStays
  <2> QED BY <2>1, <2>2
<1>8. Masters'
  BY <1>0, <1>6, <1>7, MastersStay DEF Once
<1>9. Alone'
  <2>1. \A m \in Servers : srv[m].joining # 0 => srv'[m] = srv[m]
    BY <1>2, <1>5
  <2> QED BY <1>7, <2>1, AloneStays DEF Once
<1>10. Idles /\ \A m \in Servers : GoesOn(m)
  BY <1>6 DEF Idles, GoesOn, Flushing
<1>11. \A d \in Links : due'[d] \in {due[d], <<>>}
  BY <1>0, <1>1 DEF TypeOK
<1> QED BY <1>0, <1>1, <1>7, <1>8, <1>9, <1>10, <1>11, OnceStays

-----------------------------------------------------------------------------
LEMMA InitOnce == Init => Once
<1> SUFFICES ASSUME Init PROVE Once
  OBVIOUS
<1>1. /\ \A n \in Servers : /\ srv[n].conn = [f \in Fds |-> NoEnd]
                            /\ srv[n].pending = <<>> /\ srv[n].exec = <<>>
      /\ \A c \in Links : /\ link[c].state = "unused" /\ link[c].up = <<>> /\ link[c].down = <<>>
                          /\ due[c] = <<>>
  BY DEF Init
<1>2. Asking
  BY <1>1 DEF Asking
<1>3. Known
  BY <1>1, EmptyHas DEF Known
<1>4. Queues
  BY <1>1, EmptyHas DEF Queues
<1>5. Masters
  BY <1>1 DEF Masters
<1>6. Alone
  BY <1>1 DEF Alone, Made
<1>7. Unsent
  BY <1>1, EmptyHas DEF Unsent
<1>8. OnceEach
  BY <1>1, EmptyHas DEF OnceEach, Made
<1> QED BY <1>2, <1>3, <1>4, <1>5, <1>6, <1>7, <1>8 DEF Once

\* What went astray stays on record.
LEMMA StrayGrows ==
  ASSUME [Next]_vars
  PROVE  stray \subseteq stray'
<1>1. CASE UNCHANGED vars
  BY <1>1 DEF vars, hist
<1>2. ASSUME NEW n \in Servers, Replicate(n)
      PROVE  stray \subseteq stray'
  <2>1. stray' = stray \/ \E S : stray' = stray \cup S
    BY <1>2, Zenon DEF Replicate
  <2> QED BY <2>1
<1>3. ASSUME NEW n \in Servers, Proceed(n), ~ Replicate(n)
      PROVE  stray \subseteq stray'
  BY <1>3, ZenonT(40) DEF Proceed, BeforeSleep, ReplicateError, NextCommand, Sleep, JoinAccepted, JoinRejected, hist
<1>4. ASSUME NEW n \in Servers,
             \/ UserSet(n) \/ Visit(n) \/ Accept(n)
             \/ \E m \in Servers : ReplicaOf(n, m)
             \/ \E f \in Fds : Read(n, f) \/ ReadEnd(n, f)
      PROVE  stray \subseteq stray'
  BY <1>4, ZenonT(40) DEF UserSet, Visit, Accept, ReplicaOf, Read, ReadEnd, hist
<1>5. ASSUME NEW c \in Links, Break(c)
      PROVE  stray \subseteq stray'
  BY <1>5 DEF Break, hist
<1> QED BY <1>1, <1>2, <1>3, <1>4, <1>5 DEF Next

\* As long as nothing went astray.
OInv == stray = {} => Once

LEMMA StepOnce ==
  ASSUME IInv, OInv, [Next]_vars
  PROVE  OInv'
<1> SUFFICES ASSUME stray' = {} PROVE Once'
  BY DEF OInv
<1>0. Once
  BY StrayGrows DEF OInv
<1>1. CASE UNCHANGED vars
  <2>1. srv' = srv /\ link' = link /\ sets' = sets /\ due' = due
    BY <1>1 DEF vars, hist
  <2>2. \A d \in Links : Fewer(d) /\ Requesting(d) /\ Shut(d) /\ Kept(d)
    BY <2>1, LinkStays
  <2>3. Masters' /\ Alone'
    BY <2>1, <2>2, MastersStay, AloneStays, <1>0 DEF IInv, Once
  <2>4. Idles /\ \A m \in Servers : GoesOn(m)
    BY <2>1 DEF Idles, GoesOn, Flushing
  <2>5. TypeOK
    BY DEF IInv
  <2> QED BY <1>0, <2>1, <2>2, <2>3, <2>4, <2>5, OnceStays
<1>2. ASSUME NEW n \in Servers, Proceed(n)
      PROVE  Once'
  BY <1>0, <1>2, BeforeSleepOnce, ReplicateOnce, ReplicateErrorOnce, NextCommandOnce, SleepOnce,
     JoinAcceptedOnce, JoinRejectedOnce DEF Proceed
<1>3. ASSUME NEW n \in Servers,
             \/ UserSet(n) \/ Visit(n) \/ Accept(n)
             \/ \E m \in Servers : ReplicaOf(n, m)
             \/ \E f \in Fds : Read(n, f) \/ ReadEnd(n, f)
      PROVE  Once'
  BY <1>0, <1>3, UserSetOnce, VisitOnce, AcceptOnce, ReplicaOfOnce, ReadOnce, ReadEndOnce
<1>4. ASSUME NEW c \in Links, Break(c)
      PROVE  Once'
  BY <1>0, <1>4, BreakOnce
<1> QED BY <1>1, <1>2, <1>3, <1>4 DEF Next

LEMMA OnceInvariant == Spec => [](IInv /\ OInv)
<1>1. Init => OInv
  BY InitOnce DEF OInv
<1> QED BY <1>1, InitOK, StepOK, StepOnce, PTL DEF Spec

\* Two of a server's connections make their number more than one.
LEMMA TwoAreMore ==
  ASSUME NEW S \in SUBSET Links, NEW c \in S, NEW d \in S, c # d
  PROVE  Cardinality(S) > 1
<1>1. IsFiniteSet(S)
  <2>1. IsFiniteSet(1 .. MaxLinks)
    BY Taken, FS_Interval
  <2> QED BY <2>1, FS_Subset DEF Links
<1>2. Cardinality({c, d}) = 2
  <2>1. IsFiniteSet({d}) /\ Cardinality({d}) = 1
    BY FS_Singleton
  <2>2. Cardinality({d} \cup {c}) = 2
    BY <2>1, FS_AddElement
  <2>3. {d} \cup {c} = {c, d}
    OBVIOUS
  <2> QED BY <2>2, <2>3
<1>3. Cardinality({c, d}) <= Cardinality(S)
  BY <1>1, FS_Subset
<1>4. Cardinality(S) \in Nat
  BY <1>1, FS_CardinalityType
<1> QED BY <1>2, <1>3, <1>4

\* No command comes back, in a chain or in a circle of servers: each executes it once
\* unless it joined more than once or a stream went to the wrong connection.
THEOREM CommandsRunOnce == Spec => []ExecutedOnce
<1>1. ASSUME IInv, OInv PROVE ExecutedOnce
  <2> SUFFICES ASSUME stray = {}, NEW n \in Servers
               PROVE  \/ Cardinality({c \in Links : link[c].state # "unused" /\ link[c].from = n}) > 1
                      \/ \A i, j \in 1 .. Len(srv[n].exec) : srv[n].exec[i] = srv[n].exec[j] => i = j
    BY DEF ExecutedOnce
  <2>1. OnceEach /\ TypeOK
    BY <1>1 DEF OInv, Once, IInv
  <2>2. CASE Single(n)
    <3>1. Distinct(srv[n].exec)
      BY <2>1, <2>2 DEF OnceEach
    <3>2. srv[n].exec \in Seq(Cmds)
      BY <2>1 DEF TypeOK, Server
    <3>3. \A i \in 1 .. Len(srv[n].exec) : srv[n].exec[i] \in Cmds
      BY <3>2
    <3> QED BY <3>1, <3>3 DEF Distinct
  <2>3. CASE ~ Single(n)
    <3> DEFINE S == {c \in Links : link[c].state # "unused" /\ link[c].from = n}
    <3>1. PICK c \in Links, d \in Links : Made(c, n) /\ Made(d, n) /\ c # d
      BY <2>3 DEF Single
    <3>2. S \in SUBSET Links /\ c \in S /\ d \in S
      BY <3>1 DEF Made
    <3> HIDE DEF S
    <3>3. Cardinality(S) > 1
      BY <3>1, <3>2, TwoAreMore
    <3> QED BY <3>3 DEF S
  <2> QED BY <2>2, <2>3
<1> QED BY <1>1, OnceInvariant, PTL
=============================================================================
