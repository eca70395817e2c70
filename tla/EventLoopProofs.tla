---------------------------- MODULE EventLoopProofs ----------------------------
(***************************************************************************)
(* The safety of EventLoop for any number of connections and descriptors   *)
(* and any limit.  The invariant says which references to a descriptor can *)
(* be trusted: those of a descriptor that is not haunted.  A step either   *)
(* closes a descriptor (ClosedOK), works at an open one for the client it  *)
(* belongs to (ServedOK), accepts a connection or publishes.               *)
(*                                                                         *)
(* And the safety of Shutdown, for any number of events in a round.        *)
(***************************************************************************)
EXTENDS EventLoop, Shutdown, TLAPS

\* What the server has noted about a client is at the client's descriptor.
Placed(s) ==
  /\ \A f \in Fds : s.owner[f] # NoConn => s.fd[s.owner[f]] = f
  /\ \A f \in Fds : s.pending[f] # NoConn => s.fd[s.pending[f]] = f
  /\ \A f \in Fds : s.events[f].client # NoConn => s.fd[s.events[f].client] = f
  /\ \A c \in s.subs : s.fd[c] # 0
  /\ \A c \in Conns : s.fd[c] = 0 => s.buf[c] = 0

\* Unless it is in h, a descriptor is referred to on behalf of its owner only.
Living(s, h) ==
  \A f \in Fds \ h :
    /\ s.pending[f] # NoConn => s.owner[f] = s.pending[f]
    /\ \A c \in s.subs : s.fd[c] = f => s.owner[f] = c

\* EventIsForOwner and ReplyIsScheduled, of server s and haunted descriptors h.
Listening(s, h) ==
  \A f \in Fds \ h :
    IF s.owner[f] = NoConn
    THEN s.events[f] = NoEvent
    ELSE s.events[f].client = s.owner[f] /\ "in" \in s.events[f].mask

Scheduled(s, h) ==
  \A c \in Conns :
    LET f == s.fd[c]
    IN  f # 0 /\ s.buf[c] > 0 =>
          \/ s.owner[f] # c \/ f \in h
          \/ s.pending[f] = c
          \/ "out" \in s.events[f].mask

SInv(s, h) == s \in Server /\ Placed(s) /\ Living(s, h) /\ Listening(s, h) /\ Scheduled(s, h)

\* The client whose WriteProc is due still has its descriptor, or lost it in the
\* ReadProc before.
AfterInv ==
  after # NoConn =>
    /\ srv.fd[after] \in Fds
    /\ srv.owner[srv.fd[after]] \in {NoConn, after} \/ srv.fd[after] \in haunted

IInv == TypeOK /\ SInv(srv, haunted) /\ AfterInv /\ stray \subseteq haunted

\* Becomes adds to `haunted` the descriptors that are closed with references left.
LEMMA HauntsOK ==
  ASSUME NEW s \in Server, srv \in Server, haunted \subseteq Fds, Becomes(s)
  PROVE  /\ srv' = s /\ haunted' \subseteq Fds /\ haunted \subseteq haunted'
         /\ \A f \in Fds : srv.owner[f] # NoConn /\ s.owner[f] = NoConn
              => \/ f \in haunted'
                 \/ s.pending[f] = NoConn /\ \A c \in s.subs : s.fd[c] # f
  BY DEF Becomes, Haunts

\* What is left of event ev without the modes of M.
Without(ev, M) ==
  IF ev.mask \ M = {} THEN NoEvent ELSE [mask |-> ev.mask \ M, client |-> ev.client]

\* The results of the server's functions, field by field.
LEMMA DeleteFields ==
  ASSUME NEW s \in Server, NEW f \in Fds, NEW M
  PROVE  LET r == DeleteFileEvent(s, f, M)
         IN  /\ r \in Server
             /\ r.events = [s.events EXCEPT ![f] = Without(s.events[f], M)]
             /\ r.owner = s.owner /\ r.fd = s.fd /\ r.pending = s.pending
             /\ r.buf = s.buf /\ r.subs = s.subs /\ r.count = s.count
<1> DEFINE mask == s.events[f].mask \ M
           left == [s.events[f] EXCEPT !.mask = mask]
           ev   == IF mask = {} THEN NoEvent ELSE left
<1>0. s.events[f] \in Event
  BY DEF Server
<1>1. left = [mask |-> mask, client |-> s.events[f].client] /\ left \in Event
  <2>1. mask \in SUBSET {"in", "out"} /\ s.events[f].client \in Conns \cup {NoConn}
    BY <1>0 DEF Event
  <2>2. left = [mask |-> mask, client |-> s.events[f].client]
    BY <1>0 DEF Event
  <2> QED BY <2>1, <2>2 DEF Event
<1>2. NoEvent \in Event
  BY DEF NoEvent, Event
<1>3. ev \in Event
  BY <1>1, <1>2
<1>4. DeleteFileEvent(s, f, M) = [s EXCEPT !.events[f] = ev]
  BY DEF DeleteFileEvent
<1>5. ev = Without(s.events[f], M)
  BY <1>1 DEF Without
<1> HIDE DEF ev, left
<1>6. LET r == [s EXCEPT !.events[f] = ev]
      IN  /\ r \in Server
          /\ r.events = [s.events EXCEPT ![f] = ev]
          /\ r.owner = s.owner /\ r.fd = s.fd /\ r.pending = s.pending
          /\ r.buf = s.buf /\ r.subs = s.subs /\ r.count = s.count
  BY <1>3 DEF Server
<1> QED BY <1>4, <1>5, <1>6

\* Without its "out" mode the event is the same client's, and listens as before.
LEMMA OutFields ==
  ASSUME NEW s \in Server, NEW f \in Fds
  PROVE  LET r  == DeleteFileEvent(s, f, {"out"})
             ev == s.events[f]
         IN  \E e : /\ r \in Server /\ r.events = [s.events EXCEPT ![f] = e]
                    /\ r.owner = s.owner /\ r.fd = s.fd /\ r.pending = s.pending
                    /\ r.buf = s.buf /\ r.subs = s.subs
                    /\ e.client \in {NoConn, ev.client}
                    /\ "in" \in ev.mask => e.client = ev.client /\ "in" \in e.mask
                    /\ ev = NoEvent => e = NoEvent
<1> DEFINE ev == s.events[f]
           e  == Without(ev, {"out"})
           r  == DeleteFileEvent(s, f, {"out"})
<1>1. /\ r \in Server /\ r.events = [s.events EXCEPT ![f] = e]
      /\ r.owner = s.owner /\ r.fd = s.fd /\ r.pending = s.pending
      /\ r.buf = s.buf /\ r.subs = s.subs
  BY DeleteFields
<1>2. /\ e.client \in {NoConn, ev.client}
      /\ "in" \in ev.mask => e.client = ev.client /\ "in" \in e.mask
      /\ ev = NoEvent => e = NoEvent
  BY DEF NoEvent, Without
<1> HIDE DEF e, r
<1> QED BY <1>1, <1>2 DEF r

LEMMA AddFields ==
  ASSUME NEW s \in Server, NEW f \in Fds, NEW mode \in {"in", "out"}, NEW c \in Conns
  PROVE  LET r == AddFileEvent(s, f, mode, c)
         IN  /\ r \in Server
             /\ r.events = [s.events EXCEPT ![f] = [mask |-> s.events[f].mask \cup {mode}, client |-> c]]
             /\ r.owner = s.owner /\ r.fd = s.fd /\ r.pending = s.pending
             /\ r.buf = s.buf /\ r.subs = s.subs /\ r.count = s.count
  BY DEF AddFileEvent, Server, Event

LEMMA FreeFields ==
  ASSUME NEW s \in Server, NEW c \in Conns, s.fd[c] \in Fds
  PROVE  LET r == freeClient(s, c)
             f == s.fd[c]
         IN  /\ r \in Server
             /\ r.events = [s.events EXCEPT ![f] = NoEvent]
             /\ r.owner = [s.owner EXCEPT ![f] = NoConn]
             /\ r.fd = s.fd /\ r.pending = s.pending
             /\ r.buf = s.buf /\ r.subs = s.subs
<1> DEFINE f == s.fd[c]
           e == DeleteFileEvent(s, f, {"in", "out"})
<1>1. s.events[f].mask \ {"in", "out"} = {}
  BY DEF Server, Event
<1>2. /\ e \in Server
      /\ e.events = [s.events EXCEPT ![f] = NoEvent]
      /\ e.owner = s.owner /\ e.fd = s.fd /\ e.pending = s.pending
      /\ e.buf = s.buf /\ e.subs = s.subs
  <2>1. Without(s.events[f], {"in", "out"}) = NoEvent
    BY <1>1 DEF Without
  <2> QED BY <2>1, DeleteFields
<1> DEFINE a == [e EXCEPT !.owner[f] = NoConn]
           b == [a EXCEPT !.count = e.count - 1]
<1>3. freeClient(s, c) = b
  BY DEF freeClient
<1> HIDE DEF e
<1>4. e.count - 1 \in Int
  BY <1>2 DEF Server
<1>5. /\ a \in Server
      /\ a.owner = [e.owner EXCEPT ![f] = NoConn]
      /\ a.events = e.events /\ a.fd = e.fd /\ a.pending = e.pending
      /\ a.buf = e.buf /\ a.subs = e.subs
  BY <1>2 DEF Server
<1> HIDE DEF a
<1>6. /\ b \in Server
      /\ b.owner = a.owner /\ b.events = a.events /\ b.fd = a.fd
      /\ b.pending = a.pending /\ b.buf = a.buf /\ b.subs = a.subs
  BY <1>4, <1>5 DEF Server
<1> HIDE DEF b
<1> QED BY <1>2, <1>3, <1>5, <1>6

\* A descriptor is closed: its events are gone, and if anything of the client is left
\* that refers to it, it is haunted from now on.
LEMMA ClosedOK ==
  ASSUME IInv, NEW c \in Conns, srv.fd[c] \in Fds, NEW s \in Server, Becomes(s),
         s.owner = [srv.owner EXCEPT ![srv.fd[c]] = NoConn],
         s.fd = srv.fd,
         s.events = [srv.events EXCEPT ![srv.fd[c]] = NoEvent],
         s.pending \in {srv.pending, [srv.pending EXCEPT ![srv.fd[c]] = NoConn]},
         s.subs \subseteq srv.subs,
         \A d \in Conns : s.buf[d] \in {0, srv.buf[d]}
  PROVE  SInv(s, haunted')
<1> DEFINE f == srv.fd[c]
<1>0. /\ srv \in Server /\ haunted \subseteq Fds /\ Placed(srv) /\ Living(srv, haunted)
      /\ Listening(srv, haunted) /\ Scheduled(srv, haunted) /\ NoConn \notin Conns
  BY ConnsAssumption DEF IInv, TypeOK, SInv
<1>1. /\ haunted' \subseteq Fds /\ haunted \subseteq haunted'
      /\ \A g \in Fds : srv.owner[g] # NoConn /\ s.owner[g] = NoConn
              => \/ g \in haunted'
                 \/ s.pending[g] = NoConn /\ \A d \in s.subs : s.fd[d] # g
  BY <1>0, HauntsOK
<1>2. \A g \in Fds \ {f} : /\ s.owner[g] = srv.owner[g] /\ s.events[g] = srv.events[g]
                           /\ s.pending[g] = srv.pending[g]
  BY <1>0 DEF Server
<1>3. s.owner[f] = NoConn /\ s.events[f] = NoEvent /\ s.pending[f] \in {srv.pending[f], NoConn}
  BY <1>0 DEF Server
<1>4. Placed(s)
  <2>1. \A g \in Fds : s.owner[g] # NoConn => s.fd[s.owner[g]] = g
    BY <1>0, <1>2, <1>3 DEF Placed
  <2>2. \A g \in Fds : s.pending[g] # NoConn => s.fd[s.pending[g]] = g
    BY <1>0, <1>2, <1>3 DEF Placed
  <2>3. \A g \in Fds : s.events[g].client # NoConn => s.fd[s.events[g].client] = g
    BY <1>0, <1>2, <1>3 DEF Placed, NoEvent
  <2>4. \A d \in s.subs : s.fd[d] # 0
    BY <1>0 DEF Placed
  <2>5. \A d \in Conns : s.fd[d] = 0 => s.buf[d] = 0
    BY <1>0 DEF Placed
  <2> QED BY <2>1, <2>2, <2>3, <2>4, <2>5 DEF Placed
<1>5. Living(s, haunted')
  <2> SUFFICES ASSUME NEW g \in Fds \ haunted'
               PROVE  /\ s.pending[g] # NoConn => s.owner[g] = s.pending[g]
                      /\ \A d \in s.subs : s.fd[d] = g => s.owner[g] = d
    BY DEF Living
  <2>1. g \in Fds \ haunted
    BY <1>1
  <2>2. CASE g # f
    BY <1>0, <1>2, <2>1, <2>2 DEF Living
  <2>3. CASE g = f /\ srv.owner[f] # NoConn
    BY <1>1, <1>3, <2>3
  <2>4. CASE g = f /\ srv.owner[f] = NoConn
    <3>1. srv.pending[f] = NoConn
      BY <1>0, <2>1, <2>4 DEF Living
    <3>2. \A d \in srv.subs : srv.fd[d] # f
      BY <1>0, <2>1, <2>4 DEF Living, Server
    <3> QED BY <1>3, <2>4, <3>1, <3>2
  <2> QED BY <2>2, <2>3, <2>4
<1>6. Listening(s, haunted')
  BY <1>0, <1>1, <1>2, <1>3 DEF Listening
<1>7. Scheduled(s, haunted')
  <2> SUFFICES ASSUME NEW d \in Conns, s.fd[d] # 0, s.buf[d] > 0
               PROVE  \/ s.owner[s.fd[d]] # d \/ s.fd[d] \in haunted'
                      \/ s.pending[s.fd[d]] = d
                      \/ "out" \in s.events[s.fd[d]].mask
    BY DEF Scheduled
  <2>1. s.fd[d] \in Fds
    BY DEF Server
  <2>2. CASE s.fd[d] = f
    BY <1>0, <1>3, <2>2
  <2>3. CASE s.fd[d] # f
    <3>1. s.buf[d] = srv.buf[d]
      BY DEF Server
    <3> QED BY <1>0, <1>1, <1>2, <2>1, <2>3, <3>1 DEF Scheduled
  <2> QED BY <2>2, <2>3
<1> QED BY <1>4, <1>5, <1>6, <1>7 DEF SInv
\* At descriptor f server r does something for c, whose descriptor it is, and becomes s,
\* with p noted there and event e: what c has to send afterwards is noted, or the event
\* says so.
Served(r, h, f, c, s, p, e) ==
  /\ r.fd[c] = f /\ (r.owner[f] = c \/ f \in h)
  /\ s.owner = r.owner /\ s.fd = r.fd /\ s.subs \subseteq r.subs \cup {c}
  /\ s.pending = [r.pending EXCEPT ![f] = p] /\ p \in {NoConn, c, r.pending[f]}
  /\ s.events = [r.events EXCEPT ![f] = e] /\ e.client \in {NoConn, c, r.events[f].client}
  /\ \A d \in Conns \ {c} : s.buf[d] = r.buf[d]
  /\ f \notin h => /\ e.client = c /\ "in" \in e.mask
                   /\ s.buf[c] > 0 => p = c \/ "out" \in e.mask

LEMMA ServedOK ==
  ASSUME NEW r, NEW h, SInv(r, h), NEW h2, h \subseteq h2,
         NEW f \in Fds, NEW c \in Conns, NEW s \in Server, NEW p, NEW e,
         Served(r, h, f, c, s, p, e)
  PROVE  SInv(s, h2)
<1> USE DEF Served
<1>0. /\ r \in Server /\ Placed(r) /\ Living(r, h) /\ Listening(r, h) /\ Scheduled(r, h)
      /\ NoConn \notin Conns
  BY ConnsAssumption DEF SInv
<1>1. \A g \in Fds \ {f} : s.events[g] = r.events[g] /\ s.pending[g] = r.pending[g]
  BY <1>0 DEF Server
<1>2. s.events[f] = e /\ s.pending[f] = p /\ f # 0
  <2>1. f # 0
    BY DEF Fds
  <2>2. f \in DOMAIN r.events /\ f \in DOMAIN r.pending
    BY <1>0 DEF Server
  <2> QED BY <2>1, <2>2
<1>3. Placed(s)
  <2>1. \A g \in Fds : s.pending[g] # NoConn => s.fd[s.pending[g]] = g
    BY <1>0, <1>1, <1>2 DEF Placed
  <2>2. \A g \in Fds : s.events[g].client # NoConn => s.fd[s.events[g].client] = g
    BY <1>0, <1>1, <1>2 DEF Placed
  <2>3. \A d \in s.subs : s.fd[d] # 0
    BY <1>0, <1>2 DEF Placed
  <2>4. \A d \in Conns : s.fd[d] = 0 => s.buf[d] = 0
    BY <1>0, <1>2 DEF Placed
  <2> QED BY <1>0, <2>1, <2>2, <2>3, <2>4 DEF Placed
<1>4. Living(s, h2)
  <2> SUFFICES ASSUME NEW g \in Fds \ h2
               PROVE  /\ s.pending[g] # NoConn => s.owner[g] = s.pending[g]
                      /\ \A d \in s.subs : s.fd[d] = g => s.owner[g] = d
    BY DEF Living
  <2>1. g \in Fds \ h
    OBVIOUS
  <2> QED BY <1>0, <1>1, <1>2, <2>1 DEF Living
<1>5. Listening(s, h2)
  <2> SUFFICES ASSUME NEW g \in Fds \ h2
               PROVE  IF s.owner[g] = NoConn
                      THEN s.events[g] = NoEvent
                      ELSE s.events[g].client = s.owner[g] /\ "in" \in s.events[g].mask
    BY DEF Listening
  <2>1. g \in Fds \ h
    OBVIOUS
  <2>2. CASE g = f
    BY <1>0, <1>2, <2>1, <2>2
  <2>3. CASE g # f
    BY <1>0, <1>1, <2>1, <2>3 DEF Listening
  <2> QED BY <2>2, <2>3
<1>6. Scheduled(s, h2)
  <2> SUFFICES ASSUME NEW d \in Conns, s.fd[d] # 0, s.buf[d] > 0
               PROVE  \/ s.owner[s.fd[d]] # d \/ s.fd[d] \in h2
                      \/ s.pending[s.fd[d]] = d
                      \/ "out" \in s.events[s.fd[d]].mask
    BY DEF Scheduled
  <2>1. s.fd[d] \in Fds
    BY DEF Server
  <2>2. CASE d = c
    BY <1>2, <2>2
  <2>3. CASE d # c /\ s.fd[d] = f
    BY <2>3
  <2>4. CASE d # c /\ s.fd[d] # f
    BY <1>0, <1>1, <2>1, <2>4 DEF Scheduled
  <2> QED BY <2>2, <2>3, <2>4
<1> QED BY <1>3, <1>4, <1>5, <1>6 DEF SInv

\* A connection gets a free descriptor; what still refers to that is haunted.
LEMMA AcceptOK ==
  ASSUME IInv, NEW c \in Conns, srv.fd[c] = 0, NEW f \in Fds, srv.owner[f] = NoConn,
         NEW s \in Server, Becomes(s), NEW e,
         s.owner = [srv.owner EXCEPT ![f] = c],
         s.fd = [srv.fd EXCEPT ![c] = f],
         s.events = [srv.events EXCEPT ![f] = e], e.client = c, "in" \in e.mask,
         s.pending = srv.pending, s.subs = srv.subs, s.buf = srv.buf
  PROVE  SInv(s, haunted')
<1>0. /\ srv \in Server /\ haunted \subseteq Fds /\ Placed(srv) /\ Living(srv, haunted)
      /\ Listening(srv, haunted) /\ Scheduled(srv, haunted) /\ NoConn \notin Conns /\ 0 \notin Fds
  BY ConnsAssumption DEF IInv, TypeOK, SInv, Fds
<1>1. haunted' \subseteq Fds /\ haunted \subseteq haunted'
  BY <1>0, HauntsOK
<1>2. /\ \A g \in Fds \ {f} : s.events[g] = srv.events[g] /\ s.owner[g] = srv.owner[g]
      /\ \A d \in Conns \ {c} : s.fd[d] = srv.fd[d]
      /\ s.events[f] = e /\ s.owner[f] = c /\ s.fd[c] = f
  BY <1>0 DEF Server
<1>3. /\ \A g \in Fds : srv.owner[g] # c /\ srv.pending[g] # c /\ srv.events[g].client # c
      /\ c \notin srv.subs /\ srv.buf[c] = 0
  BY <1>0 DEF Placed
<1>4. Placed(s)
  <2>0. \A g \in Fds : srv.owner[g] \in Conns \cup {NoConn} /\ srv.pending[g] \in Conns \cup {NoConn}
                       /\ srv.events[g].client \in Conns \cup {NoConn}
    BY <1>0 DEF Server, Event
  <2>1. \A g \in Fds : s.owner[g] # NoConn => s.fd[s.owner[g]] = g
    BY <1>0, <1>2, <1>3, <2>0 DEF Placed
  <2>2. \A g \in Fds : s.pending[g] # NoConn => s.fd[s.pending[g]] = g
    BY <1>0, <1>2, <1>3, <2>0 DEF Placed
  <2>3. \A g \in Fds : s.events[g].client # NoConn => s.fd[s.events[g].client] = g
    BY <1>0, <1>2, <1>3, <2>0 DEF Placed
  <2>4. \A d \in s.subs : s.fd[d] # 0
    BY <1>0, <1>2, <1>3 DEF Placed, Server
  <2>5. \A d \in Conns : s.fd[d] = 0 => s.buf[d] = 0
    BY <1>0, <1>2, <1>3 DEF Placed
  <2> QED BY <2>1, <2>2, <2>3, <2>4, <2>5 DEF Placed
<1>5. Living(s, haunted')
  <2> SUFFICES ASSUME NEW g \in Fds \ haunted'
               PROVE  /\ s.pending[g] # NoConn => s.owner[g] = s.pending[g]
                      /\ \A d \in s.subs : s.fd[d] = g => s.owner[g] = d
    BY DEF Living
  <2>1. g \in Fds \ haunted
    BY <1>1
  <2>2. \A d \in srv.subs : d \in Conns /\ d # c /\ s.fd[d] = srv.fd[d] /\ srv.fd[d] # 0
    BY <1>0, <1>2, <1>3 DEF Server, Placed
  <2>3. CASE g = f
    BY <1>0, <2>1, <2>2, <2>3 DEF Living
  <2>4. CASE g # f
    BY <1>0, <1>2, <2>1, <2>2, <2>4 DEF Living
  <2> QED BY <2>3, <2>4
<1>6. Listening(s, haunted')
  BY <1>0, <1>1, <1>2 DEF Listening
<1>7. Scheduled(s, haunted')
  <2> SUFFICES ASSUME NEW d \in Conns, s.fd[d] # 0, s.buf[d] > 0
               PROVE  \/ s.owner[s.fd[d]] # d \/ s.fd[d] \in haunted'
                      \/ s.pending[s.fd[d]] = d
                      \/ "out" \in s.events[s.fd[d]].mask
    BY DEF Scheduled
  <2>1. d # c /\ s.fd[d] = srv.fd[d] /\ s.fd[d] \in Fds
    BY <1>2, <1>3 DEF Server
  <2>2. CASE s.fd[d] = f
    BY <1>2, <2>1, <2>2
  <2>3. CASE s.fd[d] # f
    BY <1>0, <1>1, <1>2, <2>1, <2>3 DEF Scheduled
  <2> QED BY <2>2, <2>3
<1> QED BY <1>4, <1>5, <1>6, <1>7 DEF SInv

\* A message to every subscriber: each is noted at its descriptor, where it is the only
\* one unless the descriptor is haunted.
LEMMA PublishedOK ==
  ASSUME IInv, NEW s \in Noted(Delivered(srv, srv.subs), srv.subs),
         \A d \in srv.subs : srv.buf[d] < HardLimit
  PROVE  /\ s \in Server /\ SInv(s, haunted)
         /\ s.owner = srv.owner /\ s.fd = srv.fd /\ s.events = srv.events /\ s.subs = srv.subs
         /\ \A c \in Conns \ srv.subs : s.buf[c] = srv.buf[c]
<1> DEFINE S == srv.subs
           b == [c \in Conns |-> IF c \in S THEN srv.buf[c] + 1 ELSE srv.buf[c]]
           m == [srv EXCEPT !.buf = b]
<1>0. /\ srv \in Server /\ haunted \subseteq Fds /\ Placed(srv) /\ Living(srv, haunted)
      /\ Listening(srv, haunted) /\ Scheduled(srv, haunted) /\ NoConn \notin Conns /\ 0 \notin Fds
  BY ConnsAssumption DEF IInv, TypeOK, SInv, Fds
<1>1. b \in [Conns -> 0 .. HardLimit]
  BY <1>0, LimitAssumption DEF Server
<1>2. Delivered(srv, S) = m
  BY DEF Delivered
<1>3. /\ m \in Server /\ m.buf = b /\ m.owner = srv.owner /\ m.fd = srv.fd
      /\ m.events = srv.events /\ m.pending = srv.pending /\ m.subs = S
  BY <1>0, <1>1 DEF Server
<1> HIDE DEF m, b
<1>4. PICK q \in [Fds -> Conns \cup {NoConn}] :
        /\ s = [m EXCEPT !.pending = q]
        /\ \A f \in Fds : LET here == {c \in S : m.fd[c] = f}
                          IN  IF here = {} THEN q[f] = m.pending[f] ELSE q[f] \in here
  BY <1>2 DEF Noted
<1>5. /\ s \in Server /\ s.pending = q /\ s.buf = b /\ s.owner = srv.owner /\ s.fd = srv.fd
      /\ s.events = srv.events /\ s.subs = S
  BY <1>3, <1>4 DEF Server
<1>6. /\ \A c \in S : b[c] = srv.buf[c] + 1 /\ c \in Conns
      /\ \A c \in Conns \ S : b[c] = srv.buf[c]
  BY <1>0 DEF b, Server
<1>7. \A f \in Fds : \/ q[f] = srv.pending[f] /\ \A c \in S : srv.fd[c] # f
                     \/ q[f] \in S /\ srv.fd[q[f]] = f
  BY <1>3, <1>4
<1>8. Placed(s)
  BY <1>0, <1>5, <1>6, <1>7 DEF Placed
<1>9. Living(s, haunted)
  BY <1>0, <1>5, <1>7 DEF Living
<1>10. Listening(s, haunted)
  BY <1>0, <1>5 DEF Listening
<1>11. Scheduled(s, haunted)
  <2> SUFFICES ASSUME NEW c \in Conns, s.fd[c] # 0, s.buf[c] > 0
               PROVE  \/ s.owner[s.fd[c]] # c \/ s.fd[c] \in haunted
                      \/ s.pending[s.fd[c]] = c
                      \/ "out" \in s.events[s.fd[c]].mask
    BY DEF Scheduled
  <2>1. s.fd[c] \in Fds
    BY <1>5 DEF Server
  <2>2. CASE q[s.fd[c]] = srv.pending[s.fd[c]] /\ \A d \in S : srv.fd[d] # s.fd[c]
    <3>1. c \notin S /\ b[c] = srv.buf[c]
      BY <1>5, <1>6, <2>2
    <3> QED BY <1>0, <1>5, <2>1, <2>2, <3>1 DEF Scheduled
  <2>3. CASE q[s.fd[c]] \in S /\ srv.fd[q[s.fd[c]]] = s.fd[c]
    BY <1>0, <1>5, <2>1, <2>3 DEF Living
  <2> QED BY <1>7, <2>1, <2>2, <2>3
<1> QED BY <1>5, <1>6, <1>8, <1>9, <1>10, <1>11 DEF SInv
\* What a step that accepts no connection makes of the server.
Kept ==
  /\ SInv(srv', haunted') /\ haunted' \subseteq Fds /\ haunted \subseteq haunted'
  /\ srv'.fd = srv.fd
  /\ \A f \in Fds : srv'.owner[f] \in {srv.owner[f], NoConn}

\* ServedOK and ClosedOK for the server itself.
LEMMA ServedKept ==
  ASSUME IInv, NEW f \in Fds, NEW c \in Conns, NEW s \in Server, Becomes(s), NEW p, NEW e,
         Served(srv, haunted, f, c, s, p, e)
  PROVE  Kept
<1>1. srv \in Server /\ haunted \in SUBSET Fds /\ SInv(srv, haunted)
  BY DEF IInv, TypeOK
<1>2. srv' = s /\ haunted' \in SUBSET Fds /\ haunted \subseteq haunted'
  BY <1>1, HauntsOK
<1>3. SInv(s, haunted')
  BY <1>1, <1>2, ServedOK
<1> QED BY <1>2, <1>3 DEF Kept, Served

LEMMA ClosedKept ==
  ASSUME IInv, NEW c \in Conns, srv.fd[c] \in Fds, NEW s \in Server, Becomes(s),
         s.owner = [srv.owner EXCEPT ![srv.fd[c]] = NoConn],
         s.fd = srv.fd,
         s.events = [srv.events EXCEPT ![srv.fd[c]] = NoEvent],
         s.pending \in {srv.pending, [srv.pending EXCEPT ![srv.fd[c]] = NoConn]},
         s.subs \subseteq srv.subs,
         \A d \in Conns : s.buf[d] \in {0, srv.buf[d]}
  PROVE  Kept
<1>1. srv \in Server /\ haunted \subseteq Fds
  BY DEF IInv, TypeOK
<1>2. srv' = s /\ haunted' \subseteq Fds /\ haunted \subseteq haunted'
  BY <1>1, HauntsOK
<1>3. SInv(s, haunted')
  BY ClosedOK
<1>4. \A f \in Fds : s.owner[f] \in {srv.owner[f], NoConn}
  BY <1>1 DEF Server
<1> QED BY <1>2, <1>3, <1>4 DEF Kept

\* The client of an event is at its descriptor, as far as it can be trusted.
LEMMA ReadyClient ==
  ASSUME IInv, NEW f \in Fds, Ready(f)
  PROVE  LET c == srv.events[f].client
         IN  /\ c \in Conns /\ srv.fd[c] = f
             /\ srv.owner[f] = c \/ f \in haunted
             /\ f \notin haunted => "in" \in srv.events[f].mask
<1>1. srv.events[f].client \in Conns
  BY DEF Ready, IInv, TypeOK, Server, Event
<1>2. Placed(srv) /\ Listening(srv, haunted)
  BY DEF IInv, SInv
<1> QED BY <1>1, <1>2 DEF Ready, Placed, Listening, NoEvent

\* The client of an entry of clientsPendingWrite, likewise.
LEMMA PendingClient ==
  ASSUME IInv, NEW f \in Fds, srv.pending[f] # NoConn
  PROVE  LET c == srv.pending[f]
         IN  /\ c \in Conns /\ srv.fd[c] = f
             /\ srv.owner[f] = c \/ f \in haunted
             /\ f \notin haunted => srv.events[f].client = c /\ "in" \in srv.events[f].mask
<1>1. srv.pending[f] \in Conns
  BY DEF IInv, TypeOK, Server
<1>2. Placed(srv) /\ Living(srv, haunted) /\ Listening(srv, haunted)
  BY DEF IInv, SInv
<1>3. srv.pending[f] # NoConn /\ NoConn \notin Conns
  BY ConnsAssumption
<1> QED BY <1>1, <1>2, <1>3 DEF Placed, Living, Listening

\* Freeing the client that has descriptor f, with or without its other traces.
LEMMA FreedKept ==
  ASSUME IInv, NEW c \in Conns, srv.fd[c] \in Fds,
         Becomes(freeClient(srv, c)) \/ Becomes(freeClient(freeClient(srv, c), c))
  PROVE  Kept
<1> DEFINE s == freeClient(srv, c)
           t == freeClient(s, c)
           f == srv.fd[c]
<1>0. srv \in Server
  BY DEF IInv, TypeOK
<1>1. /\ s \in Server
      /\ s.events = [srv.events EXCEPT ![f] = NoEvent]
      /\ s.owner = [srv.owner EXCEPT ![f] = NoConn]
      /\ s.fd = srv.fd /\ s.pending = srv.pending
      /\ s.buf = srv.buf /\ s.subs = srv.subs
  BY <1>0, FreeFields
<1> HIDE DEF s
<1>2. /\ t \in Server
      /\ t.events = [s.events EXCEPT ![f] = NoEvent]
      /\ t.owner = [s.owner EXCEPT ![f] = NoConn]
      /\ t.fd = srv.fd /\ t.pending = srv.pending
      /\ t.buf = srv.buf /\ t.subs = srv.subs
  BY <1>1, FreeFields
<1>3. /\ t.events = [srv.events EXCEPT ![f] = NoEvent]
      /\ t.owner = [srv.owner EXCEPT ![f] = NoConn]
  BY <1>0, <1>1, <1>2 DEF Server
<1>4. CASE Becomes(s)
  BY <1>1, <1>4, ClosedKept
<1>5. CASE Becomes(t)
  <2> HIDE DEF t
  <2> QED BY <1>2, <1>3, <1>5, ClosedKept
<1> QED BY <1>4, <1>5 DEF s
-----------------------------------------------------------------------------
\* sendReplyToClient for the client that has descriptor f, or had it until its
\* ReadProc closed it.
LEMMA WriteProcOK ==
  ASSUME IInv, NEW f \in Fds, NEW c \in Conns, srv.fd[c] = f,
         srv.owner[f] \in {NoConn, c} \/ f \in haunted,
         WriteProc(f, c)
  PROVE  Kept /\ stray' \subseteq haunted'
<1>0. /\ srv \in Server /\ stray \subseteq haunted /\ haunted \subseteq Fds
      /\ Listening(srv, haunted) /\ Scheduled(srv, haunted) /\ NoConn \notin Conns
  BY ConnsAssumption DEF IInv, TypeOK, SInv
<1> DEFINE ev == srv.events[f]
<1>1. /\ srv.pending = [srv.pending EXCEPT ![f] = srv.pending[f]]
      /\ srv.events = [srv.events EXCEPT ![f] = ev]
      /\ srv.owner[f] = NoConn => srv.owner = [srv.owner EXCEPT ![f] = NoConn]
  BY <1>0 DEF Server
<1>2. f \notin haunted /\ srv.owner[f] # NoConn => ev.client = c /\ "in" \in ev.mask
  BY <1>0 DEF Listening
<1>3. f \notin haunted /\ srv.owner[f] = NoConn => ev = NoEvent
  BY <1>0 DEF Listening
<1>5. CASE srv.buf[c] = 0 /\ Becomes(DeleteFileEvent(srv, f, {"out"})) /\ UNCHANGED stray
  <2> DEFINE s == DeleteFileEvent(srv, f, {"out"})
  <2>1. PICK e : /\ s \in Server /\ s.events = [srv.events EXCEPT ![f] = e]
                 /\ s.owner = srv.owner /\ s.fd = srv.fd /\ s.pending = srv.pending
                 /\ s.buf = srv.buf /\ s.subs = srv.subs
                 /\ e.client \in {NoConn, ev.client}
                 /\ "in" \in ev.mask => e.client = ev.client /\ "in" \in e.mask
                 /\ ev = NoEvent => e = NoEvent
    BY <1>0, OutFields
  <2>0. Becomes(s)
    BY <1>5
  <2> HIDE DEF s
  <2>2. CASE f \in haunted \/ srv.owner[f] # NoConn
    <3>1. Served(srv, haunted, f, c, s, srv.pending[f], e)
      BY <1>1, <1>2, <1>5, <2>1, <2>2 DEF Served
    <3>2. Kept
      BY <2>0, <2>1, <3>1, ServedKept
    <3> QED BY <1>0, <1>5, <3>2 DEF Kept
  <2>3. CASE f \notin haunted /\ srv.owner[f] = NoConn
    <3>1. e = NoEvent
      BY <1>3, <2>1, <2>3
    <3>2. Kept
      BY <1>1, <2>0, <2>1, <2>3, <3>1, ClosedKept
    <3> QED BY <1>0, <1>5, <3>2 DEF Kept
  <2> QED BY <2>2, <2>3
<1>6. CASE /\ srv.buf[c] > 0 /\ srv.owner[f] # NoConn
           /\ \E n \in 0 .. srv.buf[c] - 1 :
                LET s == [srv EXCEPT !.buf[c] = n]
                IN  Becomes(IF n = 0 THEN DeleteFileEvent(s, f, {"out"}) ELSE s)
           /\ Sends(f, c)
  <2>1. PICK n \in 0 .. srv.buf[c] - 1 :
          LET s == [srv EXCEPT !.buf[c] = n]
          IN  Becomes(IF n = 0 THEN DeleteFileEvent(s, f, {"out"}) ELSE s)
    BY <1>6
  <2> DEFINE s == [srv EXCEPT !.buf[c] = n]
             t == DeleteFileEvent(s, f, {"out"})
  <2>2. /\ s \in Server /\ s.buf = [srv.buf EXCEPT ![c] = n]
        /\ s.events = srv.events /\ s.owner = srv.owner /\ s.fd = srv.fd
        /\ s.pending = srv.pending /\ s.subs = srv.subs
    <3>1. srv.buf[c] \in 0 .. HardLimit /\ HardLimit \in Nat
      BY <1>0, LimitAssumption DEF Server
    <3>2. n \in 0 .. HardLimit
      BY <3>1
    <3> QED BY <1>0, <3>2 DEF Server
  <2>3. (n = 0 => Becomes(t)) /\ (n # 0 => Becomes(s))
    BY <2>1
  <2> HIDE DEF s
  <2>4. PICK e : /\ t \in Server /\ t.events = [s.events EXCEPT ![f] = e]
                 /\ t.owner = s.owner /\ t.fd = s.fd /\ t.pending = s.pending
                 /\ t.buf = s.buf /\ t.subs = s.subs
                 /\ e.client \in {NoConn, s.events[f].client}
                 /\ "in" \in s.events[f].mask => e.client = s.events[f].client /\ "in" \in e.mask
    BY <2>2, OutFields
  <2> HIDE DEF t
  <2>5. srv.owner[f] = c \/ f \in haunted
    BY <1>6
  <2>6. s.buf[c] = n /\ \A d \in Conns \ {c} : s.buf[d] = srv.buf[d]
    BY <1>0, <2>2 DEF Server
  <2>7. CASE n = 0
    <3>1. Served(srv, haunted, f, c, t, srv.pending[f], e)
      BY <1>1, <1>2, <1>6, <2>2, <2>4, <2>5, <2>6, <2>7 DEF Served
    <3>2. Kept
      BY <2>3, <2>4, <2>7, <3>1, ServedKept
    <3> QED BY <1>0, <1>6, <2>5, <3>2 DEF Kept, Sends
  <2>8. CASE n # 0
    <3>1. f \notin haunted => srv.pending[f] = c \/ "out" \in ev.mask
      BY <1>0, <1>6, <2>5 DEF Scheduled, Fds
    <3>2. Served(srv, haunted, f, c, s, srv.pending[f], ev)
      BY <1>1, <1>2, <1>6, <2>2, <2>5, <2>6, <3>1 DEF Served
    <3>3. Kept
      BY <2>2, <2>3, <2>8, <3>2, ServedKept
    <3> QED BY <1>0, <1>6, <2>5, <3>3 DEF Kept, Sends
  <2> QED BY <2>7, <2>8
<1>7. CASE srv.buf[c] > 0 /\ Becomes(freeClient(srv, c)) /\ UNCHANGED stray
  BY <1>0, <1>7, FreedKept DEF Kept
<1> QED BY <1>5, <1>6, <1>7 DEF WriteProc
-----------------------------------------------------------------------------
\* A reply is noted at the descriptor it goes to.
LEMMA ReplyFields ==
  ASSUME NEW s \in Server, NEW f \in Fds, NEW c \in Conns, s.fd[c] = f, s.buf[c] < HardLimit
  PROVE  LET r == Reply(s, c)
         IN  /\ r \in Server
             /\ r.buf = [s.buf EXCEPT ![c] = s.buf[c] + 1]
             /\ r.pending = [s.pending EXCEPT ![f] = c]
             /\ r.owner = s.owner /\ r.fd = s.fd /\ r.events = s.events /\ r.subs = s.subs
<1> DEFINE a == [s EXCEPT !.buf[c] = s.buf[c] + 1]
           b == [a EXCEPT !.pending[f] = c]
<1>1. Reply(s, c) = b
  BY DEF Reply
<1>2. s.buf[c] + 1 \in 0 .. HardLimit
  <2>1. s.buf[c] \in 0 .. HardLimit /\ HardLimit \in Nat
    BY LimitAssumption DEF Server
  <2> QED BY <2>1
<1>3. /\ a \in Server /\ a.buf = [s.buf EXCEPT ![c] = s.buf[c] + 1] /\ a.pending = s.pending
      /\ a.owner = s.owner /\ a.fd = s.fd /\ a.events = s.events /\ a.subs = s.subs
  BY <1>2 DEF Server
<1> HIDE DEF a
<1>4. /\ b \in Server /\ b.buf = a.buf /\ b.pending = [a.pending EXCEPT ![f] = c]
      /\ b.owner = a.owner /\ b.fd = a.fd /\ b.events = a.events /\ b.subs = a.subs
  BY <1>3 DEF Server
<1> HIDE DEF b
<1> QED BY <1>1, <1>3, <1>4

\* Client c is at descriptor f, and the event of that is its own.
Trusted(s, h, f, c) ==
  /\ s.fd[c] = f /\ (s.owner[f] = c \/ f \in h)
  /\ f \notin h => s.events[f].client = c /\ "in" \in s.events[f].mask

\* A reply for c and perhaps a subscription make r of s.
Replied(s, f, c, r) ==
  /\ r.buf = [s.buf EXCEPT ![c] = s.buf[c] + 1]
  /\ r.pending = [s.pending EXCEPT ![f] = c]
  /\ r.owner = s.owner /\ r.fd = s.fd /\ r.events = s.events
  /\ r.subs \subseteq s.subs \cup {c}

LEMMA ReplyServes ==
  ASSUME NEW s \in Server, NEW h, NEW f \in Fds, NEW c \in Conns, Trusted(s, h, f, c),
         NEW r, Replied(s, f, c, r)
  PROVE  Served(s, h, f, c, r, c, s.events[f])
<1>1. s.events = [s.events EXCEPT ![f] = s.events[f]]
  BY DEF Server
<1>2. \A d \in Conns \ {c} : r.buf[d] = s.buf[d]
  BY DEF Server, Replied
<1> QED BY <1>1, <1>2 DEF Served, Trusted, Replied

\* The handlers of a readable descriptor.
LEMMA ReadCommandOK ==
  ASSUME IInv, NEW f \in Fds, ReadCommand(f)
  PROVE  Kept
<1> DEFINE c == srv.events[f].client
           s == Reply(srv, c)
<1>1. Ready(f) /\ srv.buf[c] < HardLimit /\ Becomes(s) /\ srv \in Server
  BY DEF ReadCommand, IInv, TypeOK
<1>2. /\ c \in Conns /\ srv.fd[c] = f /\ (srv.owner[f] = c \/ f \in haunted)
      /\ f \notin haunted => "in" \in srv.events[f].mask
  BY <1>1, ReadyClient
<1> HIDE DEF c
<1>3. s \in Server /\ s.subs = srv.subs
  BY <1>1, <1>2, ReplyFields
<1>4. Served(srv, haunted, f, c, s, c, srv.events[f])
  <2>1. Trusted(srv, haunted, f, c)
    BY <1>2 DEF Trusted, c
  <2>2. Replied(srv, f, c, s)
    BY <1>1, <1>2, ReplyFields DEF Replied
  <2> QED BY <1>1, <1>2, <2>1, <2>2, ReplyServes
<1> HIDE DEF s
<1> QED BY <1>1, <1>2, <1>3, <1>4, ServedKept

LEMMA ReadSubscribeOK ==
  ASSUME IInv, NEW f \in Fds, ReadSubscribe(f)
  PROVE  Kept
<1> DEFINE c == srv.events[f].client
           r == Reply(srv, c)
           s == [r EXCEPT !.subs = r.subs \cup {c}]
<1>1. Ready(f) /\ srv.buf[c] < HardLimit /\ Becomes(s) /\ srv \in Server
  BY DEF ReadSubscribe, IInv, TypeOK
<1>2. /\ c \in Conns /\ srv.fd[c] = f /\ (srv.owner[f] = c \/ f \in haunted)
      /\ f \notin haunted => "in" \in srv.events[f].mask
  BY <1>1, ReadyClient
<1>a. c = srv.events[f].client
  OBVIOUS
<1> HIDE DEF c
<1>3. r \in Server /\ r.subs = srv.subs /\ Replied(srv, f, c, r)
  <2>1. r \in Server /\ r.subs = srv.subs
    BY <1>1, <1>2, ReplyFields
  <2>2. Replied(srv, f, c, r)
    BY <1>1, <1>2, ReplyFields DEF Replied
  <2> QED BY <2>1, <2>2
<1>4. /\ s \in Server /\ s.subs = srv.subs \cup {c}
      /\ s.buf = r.buf /\ s.pending = r.pending /\ s.owner = r.owner
      /\ s.fd = r.fd /\ s.events = r.events
  <2> HIDE DEF r
  <2> QED BY <1>2, <1>3 DEF Server
<1> HIDE DEF s
<1>5. Served(srv, haunted, f, c, s, c, srv.events[f])
  <2>1. Trusted(srv, haunted, f, c)
    BY <1>2, <1>a DEF Trusted
  <2>2. Replied(srv, f, c, s)
    BY <1>3, <1>4 DEF Replied
  <2> QED BY <1>1, <1>2, <2>1, <2>2, ReplyServes
<1> QED BY <1>1, <1>2, <1>4, <1>5, ServedKept

LEMMA ReadPublishOK ==
  ASSUME IInv, NEW f \in Fds, ReadPublish(f)
  PROVE  Kept
<1> DEFINE c == srv.events[f].client
<1>0. /\ Ready(f) /\ c \notin srv.subs /\ srv \in Server /\ haunted \subseteq Fds
      /\ \A d \in srv.subs \cup {c} : srv.buf[d] < HardLimit
  BY DEF ReadPublish, IInv, TypeOK
<1>1. /\ c \in Conns /\ srv.fd[c] = f /\ (srv.owner[f] = c \/ f \in haunted)
      /\ f \notin haunted => "in" \in srv.events[f].mask
  BY <1>0, ReadyClient
<1>2. PICK r \in Noted(Delivered(srv, srv.subs), srv.subs) : Becomes(Reply(r, c))
  BY DEF ReadPublish
<1>a. c = srv.events[f].client
  OBVIOUS
<1> HIDE DEF c
<1>3. /\ r \in Server /\ SInv(r, haunted)
      /\ r.owner = srv.owner /\ r.fd = srv.fd /\ r.events = srv.events /\ r.subs = srv.subs
      /\ \A d \in Conns \ srv.subs : r.buf[d] = srv.buf[d]
  BY <1>0, PublishedOK
<1> DEFINE s == Reply(r, c)
<1>4. r.buf[c] < HardLimit
  BY <1>0, <1>1, <1>3
<1>5. s \in Server /\ s.subs = r.subs /\ s.owner = srv.owner /\ s.fd = srv.fd
  BY <1>1, <1>3, <1>4, ReplyFields
<1>6. Served(r, haunted, f, c, s, c, r.events[f])
  <2>1. Trusted(r, haunted, f, c)
    BY <1>1, <1>3, <1>a DEF Trusted
  <2>2. Replied(r, f, c, s)
    BY <1>1, <1>3, <1>4, ReplyFields DEF Replied
  <2> QED BY <1>1, <1>3, <2>1, <2>2, ReplyServes
<1> HIDE DEF s
<1>7. srv' = s /\ haunted' \in SUBSET Fds /\ haunted \subseteq haunted'
  BY <1>0, <1>2, <1>5, HauntsOK DEF s
<1>8. SInv(s, haunted')
  BY <1>1, <1>3, <1>5, <1>6, <1>7, ServedOK
<1> QED BY <1>5, <1>7, <1>8 DEF Kept
-----------------------------------------------------------------------------
\* beforeSleep at an entry of clientsPendingWrite.
ForgetFields ==
  \A s \in Server : \A f \in Fds :
    LET r == Forget(s, f)
    IN  /\ r \in Server /\ r.pending = [s.pending EXCEPT ![f] = NoConn]
        /\ r.owner = s.owner /\ r.fd = s.fd /\ r.events = s.events
        /\ r.buf = s.buf /\ r.subs = s.subs

LEMMA ForgetOK == ForgetFields
<1> SUFFICES ASSUME NEW s \in Server, NEW f \in Fds
             PROVE  LET r == Forget(s, f)
                    IN  /\ r \in Server /\ r.pending = [s.pending EXCEPT ![f] = NoConn]
                        /\ r.owner = s.owner /\ r.fd = s.fd /\ r.events = s.events
                        /\ r.buf = s.buf /\ r.subs = s.subs
  BY DEF ForgetFields
<1> QED BY DEF Forget, Server

LEMMA FlushSlowOK ==
  ASSUME IInv, NEW f \in Fds, FlushSlow(f)
  PROVE  Kept
<1> DEFINE c == srv.pending[f]
           q == freeClient(srv, c)
           r == Forget(q, f)
           a == [r EXCEPT !.subs = r.subs \ {c}]
           s == [a EXCEPT !.buf[c] = 0]
<1>1. srv \in Server /\ srv.pending[f] # NoConn
  BY DEF IInv, TypeOK, FlushSlow, Visit
<1>2. c \in Conns /\ srv.fd[c] = f
  BY <1>1, PendingClient
<1>3. Becomes(s)
  BY <1>2 DEF FlushSlow, cleanupClient
<1> HIDE DEF c
<1>4. /\ q \in Server
      /\ q.events = [srv.events EXCEPT ![f] = NoEvent]
      /\ q.owner = [srv.owner EXCEPT ![f] = NoConn]
      /\ q.fd = srv.fd /\ q.pending = srv.pending
      /\ q.buf = srv.buf /\ q.subs = srv.subs
  BY <1>1, <1>2, FreeFields
<1> HIDE DEF q
<1>5. /\ r \in Server /\ r.pending = [q.pending EXCEPT ![f] = NoConn]
      /\ r.owner = q.owner /\ r.fd = q.fd /\ r.events = q.events
      /\ r.buf = q.buf /\ r.subs = q.subs
  BY <1>4, ForgetOK DEF ForgetFields
<1> HIDE DEF r
<1>6. /\ a \in Server /\ a.subs = r.subs \ {c} /\ a.buf = r.buf /\ a.pending = r.pending
      /\ a.owner = r.owner /\ a.fd = r.fd /\ a.events = r.events
  BY <1>5 DEF Server
<1> HIDE DEF a
<1>7. /\ s \in Server /\ s.subs = a.subs /\ s.buf = [a.buf EXCEPT ![c] = 0] /\ s.pending = a.pending
      /\ s.owner = a.owner /\ s.fd = a.fd /\ s.events = a.events
  <2>1. 0 \in 0 .. HardLimit
    BY LimitAssumption
  <2> QED BY <1>2, <1>6, <2>1 DEF Server
<1> HIDE DEF s
<1>8. \A d \in Conns : s.buf[d] \in {0, srv.buf[d]}
  BY <1>1, <1>4, <1>5, <1>6, <1>7 DEF Server
<1>9. /\ s.owner = [srv.owner EXCEPT ![srv.fd[c]] = NoConn] /\ s.fd = srv.fd
      /\ s.events = [srv.events EXCEPT ![srv.fd[c]] = NoEvent]
      /\ s.pending = [srv.pending EXCEPT ![srv.fd[c]] = NoConn]
      /\ s.subs \subseteq srv.subs
  BY <1>2, <1>4, <1>5, <1>6, <1>7
<1> QED BY <1>2, <1>3, <1>7, <1>8, <1>9, ClosedKept

LEMMA FlushErrorOK ==
  ASSUME IInv, NEW f \in Fds, FlushError(f)
  PROVE  Kept
<1> DEFINE c == srv.pending[f]
           q == freeClient(srv, c)
           r == Forget(q, f)
<1>1. srv \in Server /\ srv.pending[f] # NoConn
  BY DEF IInv, TypeOK, FlushError, Visit
<1>2. c \in Conns /\ srv.fd[c] = f
  BY <1>1, PendingClient
<1>3. Becomes(r)
  BY DEF FlushError
<1> HIDE DEF c
<1>4. /\ q \in Server
      /\ q.events = [srv.events EXCEPT ![f] = NoEvent]
      /\ q.owner = [srv.owner EXCEPT ![f] = NoConn]
      /\ q.fd = srv.fd /\ q.pending = srv.pending
      /\ q.buf = srv.buf /\ q.subs = srv.subs
  BY <1>1, <1>2, FreeFields
<1> HIDE DEF q
<1>5. /\ r \in Server /\ r.pending = [q.pending EXCEPT ![f] = NoConn]
      /\ r.owner = q.owner /\ r.fd = q.fd /\ r.events = q.events
      /\ r.buf = q.buf /\ r.subs = q.subs
  BY <1>4, ForgetOK DEF ForgetFields
<1> HIDE DEF r
<1>6. r.subs \subseteq srv.subs /\ \A d \in Conns : r.buf[d] \in {0, srv.buf[d]}
  BY <1>4, <1>5
<1>7. /\ r.owner = [srv.owner EXCEPT ![srv.fd[c]] = NoConn] /\ r.fd = srv.fd
      /\ r.events = [srv.events EXCEPT ![srv.fd[c]] = NoEvent]
      /\ r.pending = [srv.pending EXCEPT ![srv.fd[c]] = NoConn]
  BY <1>2, <1>4, <1>5
<1> QED BY <1>2, <1>3, <1>5, <1>6, <1>7, ClosedKept

\* One reply of c or all of them are written, and the rest, if any, waits for the event.
LEMMA FlushAllOK ==
  ASSUME IInv, NEW f \in Fds, FlushAll(f)
  PROVE  Kept /\ stray' \subseteq haunted'
<1> DEFINE c == srv.pending[f]
           a == [srv EXCEPT !.buf[c] = 0]
           b == DeleteFileEvent(a, f, {"out"})
           s == Forget(b, f)
<1>1. /\ srv \in Server /\ srv.pending[f] # NoConn /\ Becomes(s)
      /\ (Sends(f, c) \/ stray' = stray) /\ stray \subseteq haunted
      /\ srv.owner[f] # NoConn
  BY DEF IInv, TypeOK, FlushAll, Visit
<1>2. /\ c \in Conns /\ srv.fd[c] = f /\ (srv.owner[f] = c \/ f \in haunted)
      /\ f \notin haunted => srv.events[f].client = c /\ "in" \in srv.events[f].mask
  BY <1>1, PendingClient DEF IInv, TypeOK
<1>a. c = srv.pending[f]
  OBVIOUS
<1> HIDE DEF c
<1>3. /\ a \in Server /\ a.buf = [srv.buf EXCEPT ![c] = 0]
      /\ a.events = srv.events /\ a.owner = srv.owner /\ a.fd = srv.fd
      /\ a.pending = srv.pending /\ a.subs = srv.subs
  <2>1. 0 \in 0 .. HardLimit
    BY LimitAssumption
  <2> QED BY <1>1, <1>2, <2>1 DEF Server
<1> HIDE DEF a
<1>4. PICK e : /\ b \in Server /\ b.events = [a.events EXCEPT ![f] = e]
               /\ b.owner = a.owner /\ b.fd = a.fd /\ b.pending = a.pending
               /\ b.buf = a.buf /\ b.subs = a.subs
               /\ e.client \in {NoConn, a.events[f].client}
               /\ "in" \in a.events[f].mask => e.client = a.events[f].client /\ "in" \in e.mask
  BY <1>3, OutFields
<1> HIDE DEF b
<1>5. /\ s \in Server /\ s.pending = [b.pending EXCEPT ![f] = NoConn]
      /\ s.owner = b.owner /\ s.fd = b.fd /\ s.events = b.events
      /\ s.buf = b.buf /\ s.subs = b.subs
  BY <1>4, ForgetOK DEF ForgetFields
<1> HIDE DEF s
<1>6. s.buf[c] = 0 /\ \A d \in Conns \ {c} : s.buf[d] = srv.buf[d]
  BY <1>1, <1>2, <1>3, <1>4, <1>5 DEF Server
<1>7. Served(srv, haunted, f, c, s, NoConn, e)
  BY <1>2, <1>3, <1>4, <1>5, <1>6 DEF Served
<1>8. Kept
  BY <1>1, <1>2, <1>5, <1>7, ServedKept
<1> QED BY <1>1, <1>2, <1>8 DEF Kept, Sends

LEMMA FlushPartOK ==
  ASSUME IInv, NEW f \in Fds, FlushPart(f)
  PROVE  Kept /\ stray' \subseteq haunted'
<1> DEFINE c == srv.pending[f]
<1>1. /\ srv \in Server /\ srv.pending[f] # NoConn
      /\ Sends(f, c) /\ stray \subseteq haunted /\ srv.owner[f] # NoConn
  BY DEF IInv, TypeOK, FlushPart, Visit
<1>2. /\ c \in Conns /\ srv.fd[c] = f /\ (srv.owner[f] = c \/ f \in haunted)
      /\ f \notin haunted => srv.events[f].client = c /\ "in" \in srv.events[f].mask
  BY <1>1, PendingClient
<1>3. PICK n \in 1 .. srv.buf[c] - 1 :
        Becomes(Forget(AddFileEvent([srv EXCEPT !.buf[c] = n], f, "out", c), f))
  BY DEF FlushPart
<1> DEFINE a == [srv EXCEPT !.buf[c] = n]
           b == AddFileEvent(a, f, "out", c)
           e == [mask |-> a.events[f].mask \cup {"out"}, client |-> c]
           s == Forget(b, f)
<1>4. Becomes(s)
  BY <1>3
<1> HIDE DEF c
<1>5. /\ a \in Server /\ a.buf = [srv.buf EXCEPT ![c] = n]
      /\ a.events = srv.events /\ a.owner = srv.owner /\ a.fd = srv.fd
      /\ a.pending = srv.pending /\ a.subs = srv.subs
  <2>1. srv.buf[c] \in 0 .. HardLimit /\ HardLimit \in Nat
    BY <1>1, <1>2, LimitAssumption DEF Server
  <2>2. n \in 0 .. HardLimit
    BY <2>1
  <2> QED BY <1>1, <1>2, <2>2 DEF Server
<1> HIDE DEF a
<1>6. /\ b \in Server /\ b.events = [a.events EXCEPT ![f] = e]
      /\ b.owner = a.owner /\ b.fd = a.fd /\ b.pending = a.pending
      /\ b.buf = a.buf /\ b.subs = a.subs
  BY <1>2, <1>5, AddFields
<1> HIDE DEF b
<1>7. /\ s \in Server /\ s.pending = [b.pending EXCEPT ![f] = NoConn]
      /\ s.owner = b.owner /\ s.fd = b.fd /\ s.events = b.events
      /\ s.buf = b.buf /\ s.subs = b.subs
  BY <1>6, ForgetOK DEF ForgetFields
<1> HIDE DEF s
<1>8. \A d \in Conns \ {c} : s.buf[d] = srv.buf[d]
  BY <1>1, <1>2, <1>5, <1>6, <1>7 DEF Server
<1>9. e.client = c /\ "out" \in e.mask /\ (f \notin haunted => "in" \in e.mask)
  BY <1>2, <1>5
<1> HIDE DEF e
<1>10. Served(srv, haunted, f, c, s, NoConn, e)
  BY <1>2, <1>5, <1>6, <1>7, <1>8, <1>9 DEF Served
<1>11. Kept
  BY <1>2, <1>4, <1>7, <1>10, ServedKept
<1> QED BY <1>1, <1>2, <1>11 DEF Kept, Sends

LEMMA FlushLaterOK ==
  ASSUME IInv, NEW f \in Fds, FlushLater(f)
  PROVE  Kept
<1> DEFINE c == srv.pending[f]
           s == AddFileEvent(srv, f, "out", c)
           e == [mask |-> srv.events[f].mask \cup {"out"}, client |-> c]
<1>1. srv \in Server /\ srv.pending[f] # NoConn /\ Becomes(s)
  BY DEF IInv, TypeOK, FlushLater, Visit
<1>2. /\ c \in Conns /\ srv.fd[c] = f /\ (srv.owner[f] = c \/ f \in haunted)
      /\ f \notin haunted => srv.events[f].client = c /\ "in" \in srv.events[f].mask
  BY <1>1, PendingClient
<1>a. c = srv.pending[f]
  OBVIOUS
<1> HIDE DEF c
<1>3. /\ s \in Server /\ s.events = [srv.events EXCEPT ![f] = e]
      /\ s.owner = srv.owner /\ s.fd = srv.fd /\ s.pending = srv.pending
      /\ s.buf = srv.buf /\ s.subs = srv.subs
  BY <1>1, <1>2, AddFields
<1> HIDE DEF s
<1>4. srv.pending = [srv.pending EXCEPT ![f] = c]
  BY <1>1, <1>a DEF Server
<1>5. e.client = c /\ "out" \in e.mask /\ (f \notin haunted => "in" \in e.mask)
  BY <1>2
<1> HIDE DEF e
<1>6. Served(srv, haunted, f, c, s, c, e)
  BY <1>2, <1>3, <1>4, <1>5 DEF Served
<1> QED BY <1>1, <1>2, <1>3, <1>6, ServedKept
-----------------------------------------------------------------------------
LEMMA InitOK == Init => IInv
<1> SUFFICES ASSUME Init PROVE IInv
  OBVIOUS
<1>1. /\ srv.owner = [f \in Fds |-> NoConn] /\ srv.fd = [c \in Conns |-> 0]
      /\ srv.events = [f \in Fds |-> NoEvent] /\ srv.pending = [f \in Fds |-> NoConn]
      /\ srv.buf = [c \in Conns |-> 0] /\ srv.subs = {}
  BY DEF Init
<1>2. srv \in Server
  <2>1. NoEvent \in Event
    BY DEF NoEvent, Event
  <2>2. 0 \in 0 .. HardLimit
    BY LimitAssumption
  <2> QED BY <2>1, <2>2 DEF Init, Server
<1>3. phase = "files" /\ todo = {} /\ after = NoConn /\ haunted = {} /\ stray = {}
  BY DEF Init
<1>4. Placed(srv)
  BY <1>1 DEF Placed, NoEvent
<1>5. Living(srv, haunted) /\ Listening(srv, haunted) /\ Scheduled(srv, haunted)
  <2>1. Living(srv, haunted)
    BY <1>1 DEF Living
  <2>2. Listening(srv, haunted)
    BY <1>1 DEF Listening
  <2>3. Scheduled(srv, haunted)
    BY <1>1 DEF Scheduled
  <2> QED BY <2>1, <2>2, <2>3
<1>6. TypeOK
  BY <1>2, <1>3 DEF TypeOK
<1> QED BY <1>2, <1>3, <1>4, <1>5, <1>6 DEF IInv, SInv, AfterInv

\* A step that keeps what there is and leaves `after` alone, clears it, or makes it the
\* client of the event that is being handled.
LEMMA KeptInv ==
  ASSUME IInv, Kept, stray' \subseteq haunted',
         phase' \in {"files", "flush"}, todo' \subseteq Fds,
         \/ after' \in {after, NoConn}
         \/ \E f \in Fds : Ready(f) /\ after' = srv.events[f].client
  PROVE  IInv'
<1>1. /\ srv' \in Server /\ SInv(srv', haunted') /\ haunted' \subseteq Fds /\ haunted \subseteq haunted'
      /\ srv'.fd = srv.fd /\ \A f \in Fds : srv'.owner[f] \in {srv.owner[f], NoConn}
  BY DEF Kept, SInv
<1>2. AfterInv /\ after \in Conns \cup {NoConn}
  BY DEF IInv, TypeOK
<1>3. \/ after' \in {after, NoConn}
      \/ /\ after' \in Conns /\ srv.fd[after'] \in Fds
         /\ srv.owner[srv.fd[after']] = after' \/ srv.fd[after'] \in haunted
  <2> SUFFICES ASSUME NEW f \in Fds, Ready(f), after' = srv.events[f].client
               PROVE  /\ after' \in Conns /\ srv.fd[after'] \in Fds
                      /\ srv.owner[srv.fd[after']] = after' \/ srv.fd[after'] \in haunted
    OBVIOUS
  <2> QED BY ReadyClient
<1>4. after' \in Conns \cup {NoConn}
  BY <1>2, <1>3
<1>5. AfterInv'
  BY <1>1, <1>2, <1>3 DEF AfterInv
<1>6. TypeOK'
  BY <1>1, <1>4 DEF TypeOK
<1> QED BY <1>1, <1>5, <1>6 DEF IInv

LEMMA NextOK ==
  ASSUME IInv, Next
  PROVE  IInv'
<1>0. /\ srv \in Server /\ phase \in {"files", "flush"} /\ todo \subseteq Fds
      /\ stray \subseteq haunted /\ haunted \subseteq Fds /\ after \in Conns \cup {NoConn}
  BY DEF IInv, TypeOK
<1> DEFINE Quiet == phase' = phase /\ todo' = todo /\ stray' = stray
<1>1. ASSUME NEW c \in Conns, Accept(c)
      PROVE  IInv'
  <2>1. PICK f \in Free :
          Becomes([AddFileEvent(srv, f, "in", c) EXCEPT !.owner[f] = c, !.fd[c] = f, !.count = @ + 1])
    BY <1>1 DEF Accept
  <2>2. /\ f \in Fds /\ srv.owner[f] = NoConn /\ srv.fd[c] = 0 /\ after = NoConn
        /\ phase' = phase /\ todo' = todo /\ after' = after /\ stray' = stray
    BY <1>1 DEF Accept, Free
  <2> DEFINE a == AddFileEvent(srv, f, "in", c)
             e == [mask |-> srv.events[f].mask \cup {"in"}, client |-> c]
             b == [a EXCEPT !.owner[f] = c]
             d == [b EXCEPT !.fd[c] = f]
             s == [d EXCEPT !.count = d.count + 1]
  <2>3. Becomes(s)
    BY <2>1 DEF AddFileEvent
  <2>4. /\ a \in Server /\ a.events = [srv.events EXCEPT ![f] = e]
        /\ a.owner = srv.owner /\ a.fd = srv.fd /\ a.pending = srv.pending
        /\ a.buf = srv.buf /\ a.subs = srv.subs
    BY <1>0, <2>2, AddFields
  <2> HIDE DEF a
  <2>5. /\ b \in Server /\ b.owner = [a.owner EXCEPT ![f] = c]
        /\ b.events = a.events /\ b.fd = a.fd /\ b.pending = a.pending
        /\ b.buf = a.buf /\ b.subs = a.subs
    BY <2>2, <2>4 DEF Server
  <2> HIDE DEF b
  <2>6. /\ d \in Server /\ d.fd = [b.fd EXCEPT ![c] = f]
        /\ d.owner = b.owner /\ d.events = b.events /\ d.pending = b.pending
        /\ d.buf = b.buf /\ d.subs = b.subs
    BY <2>2, <2>5 DEF Server
  <2> HIDE DEF d
  <2>7. /\ s \in Server /\ s.fd = d.fd /\ s.owner = d.owner /\ s.events = d.events
        /\ s.pending = d.pending /\ s.buf = d.buf /\ s.subs = d.subs
    BY <2>6 DEF Server
  <2> HIDE DEF s
  <2>8. e.client = c /\ "in" \in e.mask
    OBVIOUS
  <2> HIDE DEF e
  <2>9. SInv(s, haunted')
    <3>1. /\ s.owner = [srv.owner EXCEPT ![f] = c] /\ s.fd = [srv.fd EXCEPT ![c] = f]
          /\ s.events = [srv.events EXCEPT ![f] = e]
          /\ s.pending = srv.pending /\ s.subs = srv.subs /\ s.buf = srv.buf
      BY <2>4, <2>5, <2>6, <2>7
    <3> QED BY <2>2, <2>3, <2>7, <2>8, <3>1, AcceptOK
  <2>10. srv' = s /\ haunted' \subseteq Fds /\ haunted \subseteq haunted'
    BY <1>0, <2>3, <2>7, HauntsOK
  <2>11. AfterInv'
    BY <2>2 DEF AfterInv
  <2>12. TypeOK'
    BY <1>0, <2>2, <2>7, <2>10 DEF TypeOK
  <2> QED BY <1>0, <2>2, <2>9, <2>10, <2>11, <2>12 DEF IInv
<1>2. ASSUME NEW f \in Fds,
             ReadCommand(f) \/ ReadSubscribe(f) \/ ReadPublish(f) \/ ReadEnd(f) \/ ReadGarbage(f)
      PROVE  IInv'
  <2>1. Ready(f) /\ AndThen(f, srv.events[f].client) /\ Quiet
    BY <1>2 DEF ReadCommand, ReadSubscribe, ReadPublish, ReadEnd, ReadGarbage
  <2>2. Kept
    <3>1. CASE ReadCommand(f)
      BY <3>1, ReadCommandOK
    <3>2. CASE ReadSubscribe(f)
      BY <3>2, ReadSubscribeOK
    <3>3. CASE ReadPublish(f)
      BY <3>3, ReadPublishOK
    <3>4. CASE ReadEnd(f) \/ ReadGarbage(f)
      <4> DEFINE c == srv.events[f].client
      <4>1. c \in Conns /\ srv.fd[c] \in Fds
        BY <2>1, ReadyClient
      <4>2. Becomes(freeClient(srv, c)) \/ Becomes(freeClient(freeClient(srv, c), c))
        BY <3>4 DEF ReadEnd, ReadGarbage
      <4> HIDE DEF c
      <4> QED BY <4>1, <4>2, FreedKept
    <3> QED BY <1>2, <3>1, <3>2, <3>3, <3>4
  <2>3. after' = NoConn \/ after' = srv.events[f].client
    BY <2>1 DEF AndThen
  <2>4. haunted \subseteq haunted'
    BY <2>2 DEF Kept
  <2> QED BY <1>0, <2>1, <2>2, <2>3, <2>4, KeptInv
<1>3. ASSUME NEW f \in Fds, Writable(f)
      PROVE  IInv'
  <2> DEFINE c == srv.events[f].client
  <2>1. Ready(f) /\ WriteProc(f, c) /\ phase' = phase /\ todo' = todo /\ after' = after
    BY <1>3 DEF Writable
  <2>2. c \in Conns /\ srv.fd[c] = f /\ (srv.owner[f] \in {NoConn, c} \/ f \in haunted)
    BY <2>1, ReadyClient
  <2> HIDE DEF c
  <2>3. Kept /\ stray' \subseteq haunted'
    BY <2>1, <2>2, WriteProcOK
  <2> QED BY <1>0, <2>1, <2>3, KeptInv
<1>4. ASSUME NEW f \in Fds, Flush(f)
      PROVE  IInv'
  <2>1. phase' = phase /\ todo' \subseteq Fds /\ after' = after
    BY <1>0, <1>4 DEF Flush, FlushSlow, FlushAll, FlushPart, FlushLater, FlushError, Visit
  <2>2. CASE FlushSlow(f) \/ FlushLater(f) \/ FlushError(f)
    <3>1. Kept /\ stray' = stray
      BY <2>2, FlushSlowOK, FlushLaterOK, FlushErrorOK DEF FlushSlow, FlushLater, FlushError
    <3>2. haunted \subseteq haunted'
      BY <3>1 DEF Kept
    <3> QED BY <1>0, <2>1, <3>1, <3>2, KeptInv
  <2>3. CASE FlushAll(f) \/ FlushPart(f)
    <3>1. Kept /\ stray' \subseteq haunted'
      BY <2>3, FlushAllOK, FlushPartOK
    <3> QED BY <1>0, <2>1, <3>1, KeptInv
  <2> QED BY <1>4, <2>2, <2>3 DEF Flush
<1>5. CASE AfterRead
  <2> DEFINE f == srv.fd[after]
  <2>1. after \in Conns /\ f \in Fds /\ (srv.owner[f] \in {NoConn, after} \/ f \in haunted)
    BY <1>0, <1>5 DEF IInv, AfterInv, AfterRead
  <2>2. WriteProc(f, after) /\ phase' = phase /\ todo' = todo /\ after' = NoConn
    BY <1>5 DEF AfterRead
  <2>3. Kept /\ stray' \subseteq haunted'
    BY <2>1, <2>2, WriteProcOK
  <2> QED BY <1>0, <2>2, <2>3, KeptInv
<1>6. CASE BeforeSleep \/ Sleep
  <2>1. /\ srv' = srv /\ haunted' = haunted /\ stray' = stray /\ after' = after
        /\ phase' \in {"files", "flush"} /\ todo' \subseteq Fds
    BY <1>6 DEF BeforeSleep, Sleep
  <2>2. Kept
    BY <1>0, <2>1 DEF Kept, IInv
  <2> QED BY <1>0, <2>1, <2>2, KeptInv
<1> QED BY <1>1, <1>2, <1>3, <1>4, <1>5, <1>6 DEF Next

LEMMA InvHolds == Spec => []IInv
<1>1. ASSUME IInv, UNCHANGED vars
      PROVE  IInv'
  BY <1>1 DEF vars, IInv, TypeOK, AfterInv
<1>2. IInv /\ [Next]_vars => IInv'
  BY <1>1, NextOK
<1> QED BY InitOK, <1>2, PTL DEF Spec

\* A reply reaches a wrong peer only over a descriptor that is haunted: that was closed
\* while a pending reply or a subscription of its client was left.
THEOREM RepliesReachTheirPeer == Spec => []ReplyIsForPeer
<1>1. IInv => ReplyIsForPeer
  BY DEF IInv, ReplyIsForPeer
<1> QED BY InvHolds, <1>1, PTL

\* Of every other descriptor the loop has an event exactly if it is open, and the event
\* is the owner's and reads.
THEOREM EventsAreTheOwners == Spec => []EventIsForOwner
<1>1. IInv => EventIsForOwner
  BY DEF IInv, SInv, Listening, EventIsForOwner
<1> QED BY InvHolds, <1>1, PTL

\* A reply that is in a buffer has somebody to send it: beforeSleep or the event of its
\* descriptor.
THEOREM RepliesAreScheduled == Spec => []ReplyIsScheduled
<1>1. IInv => ReplyIsScheduled
  BY DEF IInv, SInv, Scheduled, ReplyIsScheduled
<1> QED BY InvHolds, <1>1, PTL

-----------------------------------------------------------------------------
\* The loop and WaitForSignal, which ends the process.  The invariant says what
\* WaitForSignal knows: from its last look at eStatus on, a loop that works has
\* raced with it.

\* What the loop and eStatus have to do with each other.
StatusInv ==
  /\ eStatus = "BUSY" => Working
  /\ loop = "look" => eStatus = "SHUTTING_DOWN"
  /\ Working /\ signal \in {"await", "spin"} => eStatus = "BUSY"

\* What holds once WaitForSignal found the loop idle, and once it has stored.
DecidedInv ==
  /\ Working /\ signal \in {"store", "exit", "exited"} => raced
  /\ signal \in {"exit", "exited"} => raced \/ eStatus = "SHUTTING_DOWN"

ShutdownInv == ShutdownTypeOK /\ StatusInv /\ DecidedInv

\* The first state satisfies the invariant.
LEMMA ShutdownStarts == ShutdownInit => ShutdownInv
<1> SUFFICES ASSUME ShutdownInit PROVE ShutdownInv
  OBVIOUS
<1>1. fired \in 0 .. MaxFired
  BY FiredAssumption DEF ShutdownInit
<1> QED BY <1>1, Zenon DEF ShutdownInit, ShutdownInv, ShutdownTypeOK, StatusInv, DecidedInv, Working

\* Each step of either goroutine keeps it.
LEMMA ShutdownStep == ShutdownInv /\ [ShutdownNext]_shutdownVars => ShutdownInv'
<1> SUFFICES ASSUME ShutdownInv, [ShutdownNext]_shutdownVars PROVE ShutdownInv'
  OBVIOUS
<1> USE DEF ShutdownInv, ShutdownTypeOK, StatusInv, DecidedInv, Working
<1>1. CASE Start BY <1>1 DEF Start, LoopAt
<1>2. CASE Test BY <1>2 DEF Test, LoopAt
<1>3. CASE Wait BY <1>3 DEF Wait, LoopAt, Fired
<1>4. CASE Swap BY <1>4 DEF Swap, LoopAt
<1>5. CASE Look BY <1>5 DEF Look, LoopAt
<1>6. CASE FileEvent BY <1>6, FiredAssumption DEF FileEvent, LoopAt
<1>7. CASE TimeEvents BY <1>7 DEF TimeEvents, LoopAt
<1>8. CASE Finish BY <1>8 DEF Finish, LoopAt, Running
<1>9. CASE Return BY <1>9 DEF Return, LoopAt
<1>10. CASE Arrive BY <1>10 DEF Arrive, SignalAt
<1>11. CASE LeaveSpin BY <1>11 DEF LeaveSpin, SignalAt
<1>12. CASE Store BY <1>12 DEF Store, SignalAt
<1>13. CASE Exit BY <1>13 DEF Exit, SignalAt
<1>14. CASE Hang BY <1>14, FiredAssumption DEF Hang, LoopAt
<1>15. CASE Answered BY <1>15 DEF Answered, LoopAt
<1>16. CASE UNCHANGED shutdownVars BY <1>16 DEF shutdownVars
<1> QED
  BY <1>1, <1>2, <1>3, <1>4, <1>5, <1>6, <1>7, <1>8, <1>9, <1>10, <1>11, <1>12, <1>13, <1>14, <1>15, <1>16
  DEF ShutdownNext, Round

\* The invariant holds in every reachable state.
LEMMA ShutdownHolds == ShutdownSpec => []ShutdownInv
  BY ShutdownStarts, ShutdownStep, PTL DEF ShutdownSpec

\* The state has its type.
THEOREM ShutdownTypes == ShutdownSpec => []ShutdownTypeOK
  BY ShutdownHolds, PTL DEF ShutdownInv

\* The status tells whether the loop works, but for the race.
THEOREM StatusTells == ShutdownSpec => []BusyIsWorking
<1>1. ShutdownInv => BusyIsWorking
  BY DEF ShutdownInv, ShutdownTypeOK, StatusInv, DecidedInv, BusyIsWorking, Working
<1> QED BY <1>1, ShutdownHolds, PTL

\* The process ends between two rounds, but for the race.
THEOREM ExitIsClean == ShutdownSpec => []RoundIsWhole
<1>1. ShutdownInv => RoundIsWhole
  BY DEF ShutdownInv, DecidedInv, RoundIsWhole
<1> QED BY <1>1, ShutdownHolds, PTL

\* No round begins after the store, but for the race.
THEOREM StoreIsFinal == ShutdownSpec => NoRoundAfter
<1>1. ShutdownInv /\ [ShutdownNext]_shutdownVars => [loop = "swap" /\ loop' = "files" /\ signal = "exit" => raced]_shutdownVars
  <2> SUFFICES ASSUME ShutdownInv, ShutdownNext, loop = "swap", loop' = "files", signal = "exit" PROVE raced
    BY DEF shutdownVars
  <2>1. Swap
    BY DEF ShutdownNext, Round, Start, Test, Wait, Look, FileEvent, TimeEvents, Finish, Return, LoopAt,
           Hang, Answered, Arrive, LeaveSpin, Store, Exit, SignalAt
  <2>2. eStatus = "WAITING"
    BY <2>1 DEF Swap, LoopAt
  <2> QED BY <2>2 DEF ShutdownInv, DecidedInv
<1> QED BY <1>1, ShutdownHolds, PTL DEF ShutdownSpec, NoRoundAfter
=============================================================================
