------------------------------ MODULE Sessions ------------------------------
(***************************************************************************)
(* What a connection says and what it is answered: requests that arrive in *)
(* pieces and in batches (io.go), the order of tests in respond            *)
(* (redis_cmd.go), and the modes a client can be in: MULTI, blocked,       *)
(* subscribed (client.go, tx_cmd.go, pubsub_cmd.go, blocking_cmd.go).      *)
(*                                                                         *)
(* The n-th thing a client sends is its request n.  What a reply says is   *)
(* left out; who gets it, to which request and in which order is not.      *)
(* Whether BLPOP finds an element, and when one that waits is served or    *)
(* times out, is chosen freely (BlockingLists says when); how replies are  *)
(* written is the matter of EventLoop, what MULTI guards of Transactions.  *)
(***************************************************************************)
EXTENDS Resp, FiniteSets

CONSTANTS
  Clients, NoClient,
  Channels,
  Scripts       \* bound: what each client may send, as its first request, its second, ...

ASSUME ClientsAssumption == IsFiniteSet(Clients) /\ NoClient \notin Clients
ASSUME ScriptsAssumption ==
  Scripts \subseteq [Clients -> Seq(SUBSET (Seq(Words) \ {<<>>}))]

VARIABLES
  client,       \* the clients, see Client
  subscribers,  \* subscribers: who listens to a channel, in order
  waiting,      \* waitingKeys: the BLPOPs of a client that wait
  replies,      \* everything ever appended to ReplyBuf, see Reply
  unread,       \* kernel: what was sent and not read
  reading,      \* the client whose readQueryFromClient has not met EAGAIN, or NoClient
  script,       \* what the clients may send, chosen once
  sent,         \* history: what each client sent
  owed          \* history: the messages each client should get, going by its replies

vars == <<client, subscribers, waiting, replies, unread, reading, script, sent, owed>>

\* The server as a record, with the number of elements its list has for BLPOP.
Srv(stock) == [client |-> client, subscribers |-> subscribers, waiting |-> waiting,
               replies |-> replies, owed |-> owed, stock |-> stock]

Becomes(s) ==
  /\ client' = s.client /\ subscribers' = s.subscribers /\ waiting' = s.waiting
  /\ replies' = s.replies /\ owed' = s.owed

\* What is not a request: bytes of no type, "*-1", a string outside an array.
Noise == {<<"bad">>, <<"negative">>, <<"inline">>}

Init ==
  /\ client = [c \in Clients |-> [open |-> TRUE, QueryBuf |-> <<>>, flag |-> {}, cmds |-> <<>>,
                                  aborted |-> FALSE, subscriptions |-> {}]]
  /\ subscribers = [ch \in Channels |-> <<>>]
  /\ waiting = [c \in Clients |-> <<>>]
  /\ replies = [c \in Clients |-> <<>>]
  /\ unread = [c \in Clients |-> <<>>] /\ reading = NoClient
  /\ script \in Scripts
  /\ sent = [c \in Clients |-> <<>>] /\ owed = [c \in Clients |-> <<>>]

-----------------------------------------------------------------------------
\* A reply of a kind to request `to`; it names the channels of SUBSCRIBE and UNSUBSCRIBE.
Reply(to, kind, channels) == [to |-> to, kind |-> kind, channels |-> channels, from |-> <<>>]

\* A message: who published it, with which of its requests.
Message(ch, c, id) == [to |-> 0, kind |-> "message", channels |-> {ch}, from |-> <<c, id>>]

Answer(s, c, reply) == [s EXCEPT !.replies[c] = Append(@, reply)]

\* The channels a client is subscribed to, going by the replies it got.
View(log) ==
  {ch \in Channels : \E i \in 1 .. Len(log) :
     /\ log[i].kind = "subscribe" /\ ch \in log[i].channels
     /\ \A j \in i + 1 .. Len(log) : ~(log[j].kind = "unsubscribe" /\ ch \in log[j].channels)}

\* Fault: a channel the client listens to already is subscribed to again.
SubscribeAgain(s, c, channels, to) ==
  LET told == [s EXCEPT !.subscribers = [ch \in Channels |->
                           IF ch \in channels THEN Append(@[ch], c) ELSE @[ch]],
                        !.client[c].subscriptions = @ \cup channels,
                        !.client[c].flag = @ \cup {"SUB"}]
  IN  Answer(told, c, Reply(to, "subscribe", channels))

\* Only channels that are new are answered.
Subscribe(s, c, channels, to) ==
  LET new  == channels \ s.client[c].subscriptions
      told == [s EXCEPT !.subscribers = [ch \in Channels |->
                           IF ch \in new THEN Append(@[ch], c) ELSE @[ch]],
                        !.client[c].subscriptions = @ \cup new,
                        !.client[c].flag = @ \cup {"SUB"}]
  IN  IF new = {} THEN s ELSE Answer(told, c, Reply(to, "subscribe", new))

removeClient(list, c) == SelectSeq(list, LAMBDA d : d # c)

\* Fault: whoever leaves a channel is a subscriber no more.
UnsubscribeUnflagged(s, c, channels, to) ==
  LET gone == channels \cap s.client[c].subscriptions
      told == [s EXCEPT !.subscribers = [ch \in Channels |->
                           IF ch \in gone THEN removeClient(@[ch], c) ELSE @[ch]],
                        !.client[c].subscriptions = @ \ gone,
                        !.client[c].flag = @ \ {"SUB"}]
  IN  IF gone = {} THEN s ELSE Answer(told, c, Reply(to, "unsubscribe", gone))

Unsubscribe(s, c, channels, to) ==
  LET gone == channels \cap s.client[c].subscriptions
      told == [s EXCEPT !.subscribers = [ch \in Channels |->
                           IF ch \in gone THEN removeClient(@[ch], c) ELSE @[ch]],
                        !.client[c].subscriptions = @ \ gone,
                        !.client[c].flag = IF s.client[c].subscriptions = gone THEN @ \ {"SUB"} ELSE @]
  IN  IF gone = {} THEN s ELSE Answer(told, c, Reply(to, "unsubscribe", gone))

\* Each entry of the list is a message; the publisher is told how many.
Publish(s, c, ch, to) ==
  LET heard == FoldLeft(LAMBDA t, d : Answer(t, d, Message(ch, c, to)), s, s.subscribers[ch])
      due   == [heard EXCEPT !.owed = [d \in Clients |->
                  IF ch \in View(s.replies[d]) THEN Append(@[d], <<c, to>>) ELSE @[d]]]
  IN  Answer(due, c, Reply(to, "done", {}))

-----------------------------------------------------------------------------
Registry == {"PING", "MULTI", "EXEC", "DISCARD", "SUBSCRIBE", "UNSUBSCRIBE", "PUBLISH", "BLPOP"}

Name(words)     == words[1]
Named(words)    == {words[i] : i \in 2 .. Len(words)}   \* the channels of SUBSCRIBE and UNSUBSCRIBE

\* BLPOP: an element, or BlockOn.
Blpop(s, c, to) ==
  IF s.stock > 0
  THEN Answer([s EXCEPT !.stock = @ - 1], c, Reply(to, "done", {}))
  ELSE [s EXCEPT !.waiting[c] = Append(@, to), !.client[c].flag = @ \cup {"BLOCKED"}]

\* The Execute of a command that may be queued, in answer to request `to`.
Execute(s, c, words, to) ==
  CASE Name(words) = "PING"        -> Answer(s, c, Reply(to, "done", {}))
    [] Name(words) = "MULTI"       ->
         Answer([s EXCEPT !.client[c].flag = @ \cup {"MULTI"}, !.client[c].cmds = <<>>,
                          !.client[c].aborted = FALSE], c, Reply(to, "done", {}))
    [] Name(words) = "SUBSCRIBE"   -> Subscribe(s, c, Named(words), to)
    [] Name(words) = "UNSUBSCRIBE" ->
         Unsubscribe(s, c, IF Named(words) = {} THEN s.client[c].subscriptions ELSE Named(words), to)
    [] Name(words) = "PUBLISH"     -> Publish(s, c, words[2], to)
    [] Name(words) = "BLPOP"       -> Blpop(s, c, to)

\* ResetMultiState and ClearFlag(MULTI_MODE).
LeaveMulti(s, c) ==
  [s EXCEPT !.client[c].flag = @ \ {"MULTI"}, !.client[c].cmds = <<>>, !.client[c].aborted = FALSE]

\* What a sequence of commands adds, each in answer to `to`.
ExecuteAll(s, c, cmds, to) == FoldLeft(LAMBDA t, words : Execute(t, c, words, to), s, cmds)

\* Fault: the mode is left before the commands are executed.
ExecQueuedLast(s, c, to) ==
  ExecuteAll(LeaveMulti(Answer(s, c, Reply(to, "exec", {})), c), c, s.client[c].cmds, to)

\* How many commands there are, then what each of them appends.
ExecQueued(s, c, to) ==
  LeaveMulti(ExecuteAll(Answer(s, c, Reply(to, "exec", {})), c, s.client[c].cmds, to), c)

Exec(s, c, to) ==
  LET k == s.client[c]
  IN  CASE "MULTI" \notin k.flag             -> Answer(s, c, Reply(to, "error", {}))
        [] "MULTI" \in k.flag /\ k.aborted   -> LeaveMulti(Answer(s, c, Reply(to, "error", {})), c)
        [] "MULTI" \in k.flag /\ ~k.aborted  -> ExecQueued(s, c, to)

Discard(s, c, to) ==
  IF "MULTI" \in s.client[c].flag
  THEN LeaveMulti(Answer(s, c, Reply(to, "done", {})), c)
  ELSE Answer(s, c, Reply(to, "error", {}))

Queue(s, c, words, to) ==
  Answer(IF Name(words) \in Registry THEN [s EXCEPT !.client[c].cmds = Append(@, words)]
                                     ELSE [s EXCEPT !.client[c].aborted = TRUE],
         c, Reply(to, "queued", {}))

WhileSubscribed == {"SUBSCRIBE", "UNSUBSCRIBE", "PSUBSCRIBE", "PUNSUBSCRIBE", "PING", "QUIT"}

Dispatch(s, c, words, to) ==
  CASE Name(words) = "EXEC"    -> Exec(s, c, to)
    [] Name(words) = "DISCARD" -> Discard(s, c, to)
    [] Name(words) \in Registry \ {"EXEC", "DISCARD"} -> Execute(s, c, words, to)
    [] OTHER -> Answer(s, c, Reply(to, "error", {}))

Queues(flag, words) == "MULTI" \in flag /\ Name(words) \notin {"EXEC", "DISCARD"}

\* Fault: what comes behind a BLPOP is executed.
RespondBlocked(s, c, words, to) ==
  IF Queues(s.client[c].flag, words) THEN Queue(s, c, words, to) ELSE Dispatch(s, c, words, to)

\* One round of respond.  For a client that is blocked it returns, which drops the
\* rest of the batch as well: the flag stays.
Respond(s, c, words, to) ==
  LET flag == s.client[c].flag
  IN  IF Queues(flag, words) THEN Queue(s, c, words, to)
      ELSE IF "BLOCKED" \in flag THEN s
      ELSE IF "SUB" \in flag /\ Name(words) \notin WhileSubscribed
           THEN Answer(s, c, Reply(to, "error", {}))
           ELSE Dispatch(s, c, words, to)

respond(s, c, cmds) == FoldLeft(LAMBDA t, cmd : Respond(t, c, cmd.words, cmd.id), s, cmds)

-----------------------------------------------------------------------------
\* A client sends something; while a read is under way it makes no difference whether
\* it does now or did before.
Send(c) ==
  /\ Len(sent[c]) < Len(script[c])
  /\ \E x \in script[c][Len(sent[c]) + 1] :
    /\ reading = NoClient /\ client[c].open
    /\ sent' = [sent EXCEPT ![c] = Append(@, x)]
    /\ unread' = [unread EXCEPT ![c] = @ \o
                    CASE x[1] = "bad"      -> <<Bad>>
                      [] x[1] = "negative" -> <<Header(<<45, 49>>, Len(sent[c]) + 1)>>
                      [] x[1] = "inline"   -> <<String("PING")>>
                      [] OTHER             -> encodeCommand(x, Len(sent[c]) + 1)]
    /\ UNCHANGED <<client, subscribers, waiting, replies, reading, script, owed>>

freeClient(c) ==
  /\ client' = [client EXCEPT ![c].open = FALSE, ![c].QueryBuf = <<>>]
  /\ unread' = [unread EXCEPT ![c] = <<>>] /\ reading' = NoClient
  /\ UNCHANGED <<subscribers, waiting, replies, owed>>

\* Fault: the buffer is emptied although a request in it is incomplete.
Emptied(data, rest) == <<>>

Unconsumed(data, rest) == SubSeq(data, rest, Len(data))

\* readQueryFromClient: one read brings the first n tokens; the loop goes on until
\* there is nothing to read.  A client that is blocked is not read.
Read(c, n) ==
  LET data == client[c].QueryBuf \o SubSeq(unread[c], 1, n)
      d    == readCommands(data)
  IN  /\ \/ reading = c
         \/ reading = NoClient /\ client[c].open /\ "BLOCKED" \notin client[c].flag
      /\ n \in 1 .. Len(unread[c])
      /\ IF d.err THEN freeClient(c)
         ELSE /\ \E stock \in 0 .. 1 :
                   \E s \in {respond([Srv(stock) EXCEPT !.client[c].QueryBuf = Unconsumed(data, d.rest)],
                                     c, d.cmds)} : Becomes(s)
              /\ unread' = [unread EXCEPT ![c] = SubSeq(@, n + 1, Len(@))]
              /\ reading' = IF n = Len(unread[c]) THEN NoClient ELSE c
      /\ UNCHANGED <<script, sent>>

\* End of file, or a connection that is reset with requests on the way.
ReadEnd(c) ==
  /\ reading = NoClient /\ client[c].open /\ "BLOCKED" \notin client[c].flag
  /\ freeClient(c)
  /\ UNCHANGED <<script, sent>>

\* beforeSleep: the client does not read its replies; cleanupClient.
Slow(c) ==
  /\ reading = NoClient /\ client[c].open /\ replies[c] # <<>>
  /\ client' = [client EXCEPT ![c].open = FALSE, ![c].QueryBuf = <<>>, ![c].subscriptions = {}]
  /\ subscribers' = [ch \in Channels |-> removeClient(subscribers[ch], c)]
  /\ unread' = [unread EXCEPT ![c] = <<>>]
  /\ UNCHANGED <<waiting, replies, reading, script, sent, owed>>

\* processKeys or HandleBlockedClients: one of the BLPOPs of c is served or gives up.
Wake(c) ==
  \E i \in 1 .. Len(waiting[c]) :
    /\ reading = NoClient
    /\ waiting' = [waiting EXCEPT ![c] = RemoveAt(@, i)]
    /\ replies' = [replies EXCEPT ![c] = Append(@, Reply(waiting[c][i], "late", {}))]
    /\ client' = [client EXCEPT ![c].flag = @ \ {"BLOCKED"}]
    /\ UNCHANGED <<subscribers, unread, reading, script, sent, owed>>

Next ==
  \E c \in Clients :
    \/ Send(c) \/ ReadEnd(c) \/ Slow(c) \/ Wake(c)
    \/ \E n \in 1 .. Len(unread[c]) : Read(c, n)

Spec == Init /\ [][Next]_vars

-----------------------------------------------------------------------------
Modes == {"MULTI", "BLOCKED", "SUB"}

Client == [open : BOOLEAN, QueryBuf : Seq(Tokens), flag : SUBSET Modes, cmds : Seq(Seq(Words)),
           aborted : BOOLEAN, subscriptions : SUBSET Channels]

\* What the answers to the requests before request `id` said of the subscriptions.
ViewBefore(c, id) == View(SelectSeq(replies[c], LAMBDA r : r.to < id))

\* Every client is in one mode: in MULTI it is neither blocked nor a subscriber, so that
\* the order in which respond tests the modes does not matter, and only in MULTI are
\* commands queued or the transaction aborted.  (A subscriber may be blocked, by a
\* BLPOP behind the SUBSCRIBE of a transaction.)  A request that finds its client a
\* subscriber is served only if it is one for subscribers, unless within an EXEC.
ModesExclude ==
  /\ client \in [Clients -> Client] /\ subscribers \in [Channels -> Seq(Clients)]
  /\ reading \in Clients \cup {NoClient}
  /\ \A c \in Clients :
       LET k == client[c]
       IN  IF "MULTI" \in k.flag THEN k.flag = {"MULTI"} ELSE k.cmds = <<>> /\ ~k.aborted
  /\ \A c \in Clients : \A r \in Range(replies[c]) :
       ViewBefore(c, r.to) # {} /\ r.kind # "error" =>
         Name(sent[c][r.to]) \in {"EXEC"} \cup WhileSubscribed

\* What a client was answered, messages apart.
Answers(c) == SelectSeq(replies[c], LAMBDA r : r.kind # "message")

IsExec(c, id) == sent[c][id][1] = "EXEC"

\* The request has, or had, a BLPOP that waits.
Waited(c, id) ==
  \/ id \in Range(waiting[c])
  \/ \E r \in Range(replies[c]) : r.to = id /\ r.kind = "late"

\* How many of the first n answers were for waits of requests before `id`.
WaitsOver(c, n, id) ==
  Cardinality({m \in 1 .. n : Answers(c)[m].kind = "late" /\ Answers(c)[m].to < id})

\* Requests are answered in the order in which they were sent, one reply to each but
\* EXEC.  Only the answer q of a BLPOP that waits may come after the answer r of a later
\* request; and that request was not executed before as many waits were over as
\* requests had waited.  (EXEC can wait several times, and the end of each wait unblocks
\* its client, whatever it waits for by then.)
AnswersInOrder ==
  \A c \in Clients : \A i, j \in 1 .. Len(Answers(c)) :
    LET r == Answers(c)[i]
        q == Answers(c)[j]
    IN  i < j => \/ r.to < q.to
                 \/ r.to = q.to /\ IsExec(c, q.to)
                 \/ /\ r.to > q.to /\ q.kind = "late"
                    /\ WaitsOver(c, i - 1, r.to) >= Cardinality({id \in 1 .. r.to - 1 : Waited(c, id)})

\* Requests that were sent and read: their headers are neither in the socket nor,
\* until the rest of them is read, in the query buffer.
Executed(c) ==
  {id \in 1 .. Len(sent[c]) :
     /\ sent[c][id] \notin Noise
     /\ \A t \in Range(client[c].QueryBuf \o unread[c]) : t.kind = "header" => t.id # id}

Answered(c, id) == \E i \in 1 .. Len(replies[c]) : replies[c][i].to = id

\* SUBSCRIBE and UNSUBSCRIBE answer changes only.
ChangesNothing(c, id) ==
  CASE Name(sent[c][id]) = "SUBSCRIBE"   -> Named(sent[c][id]) \subseteq ViewBefore(c, id)
    [] Name(sent[c][id]) = "UNSUBSCRIBE" ->
         LET channels == Named(sent[c][id])
         IN  (IF channels = {} THEN Channels ELSE channels) \cap ViewBefore(c, id) = {}
    [] OTHER -> FALSE

\* A request that was read is answered, if the connection is open, unless it waits in a
\* BLPOP; it came behind such a BLPOP, with nothing answered in between; or it is a
\* SUBSCRIBE or UNSUBSCRIBE that changes nothing.  And every request that is complete
\* has been read, unless "*-1" came before it, which the parser takes for the header of
\* 2531 strings.
UnansweredIsExplained ==
  \A c \in Clients : client[c].open =>
    /\ \A id \in Executed(c) :
         \/ Answered(c, id) \/ id \in Range(waiting[c]) \/ ChangesNothing(c, id)
         \/ \E b \in 1 .. id - 1 : Waited(c, b) /\ \A q \in b + 1 .. id : ~Answered(c, q)
    /\ unread[c] = <<>> =>
         \A id \in 1 .. Len(sent[c]) \ Executed(c) :
           sent[c][id] \notin Noise => \E m \in 1 .. id - 1 : sent[c][m] = <<"negative">>

\* What a client was told of its subscriptions is what the server has in its three
\* places: the client's set, the channels' lists and the flag.
ViewAgrees ==
  \A c \in Clients : client[c].open =>
    /\ client[c].subscriptions = View(replies[c])
    /\ \A ch \in Channels : c \in Range(subscribers[ch]) <=> ch \in View(replies[c])
    /\ "SUB" \in client[c].flag <=> View(replies[c]) # {}

\* A client gets every message published between the answers to its SUBSCRIBE and its
\* UNSUBSCRIBE, once and in order, and no other.
MessagesAreDue ==
  \A c \in Clients : client[c].open =>
    owed[c] = LET heard == SelectSeq(replies[c], LAMBDA r : r.kind = "message")
              IN  [i \in 1 .. Len(heard) |-> heard[i].from]

=============================================================================
