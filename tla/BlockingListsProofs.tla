-------------------------- MODULE BlockingListsProofs --------------------------
(***************************************************************************)
(* The safety of BlockingLists for any keys, clients, commands and bounds. *)
(* Two invariants carry it: a client that was never queued twice stands at *)
(* one place of one queue (Once), which is why taking it from a queue may  *)
(* unmark it; and ServiceInv, what `ready` owes to those who wait.         *)
(***************************************************************************)
EXTENDS BlockingLists, SequenceTheorems, TLAPS

\* A client that was not queued while it was queued has one place.
Once ==
  \A c \in Clients \ twice : \A k, l \in Keys :
    \A i \in 1 .. Len(waiting[k]), j \in 1 .. Len(waiting[l]) :
      waiting[k][i] = c /\ waiting[l][j] = c => k = l /\ i = j

BlockedQueued == \A c \in blocked : Queued(c)

QueueInv == Once /\ BlockedQueued /\ WaiterIsBlocked

ServiceInv == WakeUpIsPending /\ ReadyHasElement

\* All of the state but the EXEC in progress.
Core ==
  /\ list \in [Keys -> Nat \cup {Absent, Str}]
  /\ waiting \in [Keys -> Seq(Clients)]
  /\ ready \subseteq Keys /\ blocked \subseteq Clients
  /\ when \in [Clients -> Nat] /\ now \in Nat
  /\ phase \in {"files", "timers", "serve"}
  /\ cursor \in [left : SUBSET Keys, key : Keys \cup {Absent}, pos : Nat \ {0}]
  /\ crashed \in BOOLEAN
  /\ twice \subseteq Clients /\ skipped \subseteq Keys /\ drained \subseteq Keys
  /\ QueueInv /\ ServiceInv

\* An EXEC in progress has commands left.
ExecInv == exec = NoExec \/ exec \in [client : Clients, batch : Seq(Cmds) \ {<<>>}]

IInv == Core /\ ExecInv

-----------------------------------------------------------------------------
\* r is q without its i-th element.
Removed(q, r, i) ==
  /\ i \in 1 .. Len(q)
  /\ r \in Seq(Clients) /\ Len(r) = Len(q) - 1
  /\ \A j \in 1 .. Len(r) : r[j] = IF j < i THEN q[j] ELSE q[j + 1]

LEMMA TailRemoves ==
  ASSUME NEW q \in Seq(Clients), q # <<>>
  PROVE  Removed(q, Tail(q), 1) /\ Head(q) = q[1] /\ Head(q) \in Clients
<1>1. Len(q) \in Nat /\ Len(q) > 0
  BY EmptySeq
<1>2. /\ Tail(q) \in Seq(Clients) /\ Len(Tail(q)) = Len(q) - 1
      /\ \A j \in 1 .. Len(Tail(q)) : Tail(q)[j] = q[j + 1]
  BY HeadTailProperties
<1>3. Head(q) = q[1] /\ Head(q) \in Clients
  BY <1>1, HeadTailProperties
<1> QED BY <1>1, <1>2, <1>3 DEF Removed

LEMMA RemoveAtRemoves ==
  ASSUME NEW q \in Seq(Clients), NEW i \in 1 .. Len(q)
  PROVE  Removed(q, RemoveAt(q, i), i)
<1> DEFINE a == SubSeq(q, 1, i - 1)
           b == SubSeq(q, i + 1, Len(q))
<1>0. Len(q) \in Nat
  OBVIOUS
<1>1. /\ a \in Seq(Clients) /\ Len(a) = i - 1
      /\ \A j \in 1 .. i - 1 : a[j] = q[j]
  BY <1>0
<1>2. /\ b \in Seq(Clients) /\ Len(b) = Len(q) - i
      /\ \A j \in 1 .. Len(q) - i : b[j] = q[i + j]
  BY <1>0
<1> HIDE DEF a, b
<1>3. /\ a \o b \in Seq(Clients) /\ Len(a \o b) = Len(a) + Len(b)
      /\ \A j \in 1 .. Len(a) + Len(b) : (a \o b)[j] = IF j <= Len(a) THEN a[j] ELSE b[j - Len(a)]
  BY <1>1, <1>2, ConcatProperties
<1>4. i \in Int /\ Len(a \o b) = Len(q) - 1
  BY <1>0, <1>1, <1>2, <1>3
<1>5. ASSUME NEW j \in 1 .. Len(q) - 1
      PROVE  (a \o b)[j] = IF j < i THEN q[j] ELSE q[j + 1]
  <2>1. j \in Int /\ j \in 1 .. Len(a) + Len(b)
    BY <1>0, <1>1, <1>2, <1>4
  <2>2. CASE j < i
    <3>1. j \in 1 .. i - 1 /\ j <= Len(a)
      BY <1>1, <1>4, <2>1, <2>2
    <3> QED BY <1>1, <1>3, <2>1, <2>2, <3>1
  <2>3. CASE ~ (j < i)
    <3>1. ~ (j <= Len(a)) /\ j - Len(a) = j - i + 1
      BY <1>1, <1>4, <2>1, <2>3
    <3>2. j - i + 1 \in 1 .. Len(q) - i /\ i + (j - i + 1) = j + 1
      BY <1>0, <1>4, <2>1, <2>3
    <3>3. b[j - i + 1] = q[j + 1]
      BY <1>2, <3>2
    <3> QED BY <1>3, <2>1, <2>3, <3>1, <3>3
  <2> QED BY <2>2, <2>3
<1> QED BY <1>0, <1>3, <1>4, <1>5 DEF Removed, RemoveAt, a, b

\* A waiter is taken from its place and freed.
LEMMA Dequeued ==
  ASSUME Core, NEW k \in Keys, NEW i, NEW r, Removed(waiting[k], r, i),
         waiting' = [waiting EXCEPT ![k] = r],
         Freed(waiting[k][i]), twice' = twice
  PROVE  /\ QueueInv' /\ waiting' \in [Keys -> Seq(Clients)]
         /\ blocked' \subseteq Clients /\ when' \in [Clients -> Nat]
<1> DEFINE c == waiting[k][i]
           From(l, j) == IF l = k /\ j >= i THEN j + 1 ELSE j
<1>0. /\ waiting \in [Keys -> Seq(Clients)] /\ blocked \subseteq Clients /\ twice \subseteq Clients
      /\ when \in [Clients -> Nat]
      /\ Once /\ BlockedQueued /\ WaiterIsBlocked
      /\ c \in Clients /\ i \in 1 .. Len(waiting[k])
  BY DEF Core, QueueInv, Removed
<1>1. /\ waiting' \in [Keys -> Seq(Clients)] /\ waiting'[k] = r
      /\ \A l \in Keys \ {k} : waiting'[l] = waiting[l]
      /\ blocked' = blocked \ {c} /\ when' \in [Clients -> Nat]
  BY <1>0 DEF Removed, Freed
<1>2. \A l \in Keys : \A j \in 1 .. Len(waiting'[l]) :
        /\ From(l, j) \in 1 .. Len(waiting[l])
        /\ waiting'[l][j] = waiting[l][From(l, j)]
        /\ ~ (l = k /\ From(l, j) = i)
  <2> TAKE l \in Keys
  <2> TAKE j \in 1 .. Len(waiting'[l])
  <2>1. Len(waiting[l]) \in Nat /\ Len(waiting[k]) \in Nat
    BY <1>0
  <2>2. CASE l # k
    BY <1>1, <2>1, <2>2
  <2>6. l = k => /\ j \in 1 .. Len(r) /\ Len(r) = Len(waiting[k]) - 1
                 /\ r[j] = IF j < i THEN waiting[k][j] ELSE waiting[k][j + 1]
    BY <1>1 DEF Removed
  <2>7. i \in Int /\ (l = k => j \in Int)
    BY <1>0, <2>1, <2>6
  <2>3. CASE l = k /\ j < i
    <3>1. From(l, j) = j /\ j \in 1 .. Len(waiting[k])
      BY <2>1, <2>6, <2>7, <2>3
    <3> QED BY <1>1, <2>6, <2>7, <2>3, <3>1
  <2>4. CASE l = k /\ j >= i
    <3>1. From(l, j) = j + 1 /\ j + 1 \in 1 .. Len(waiting[k]) /\ j + 1 # i /\ ~ (j < i)
      BY <2>1, <2>6, <2>7, <2>4
    <3> QED BY <1>1, <2>6, <2>4, <3>1
  <2>5. j < i \/ j >= i
    BY <1>0, <1>1
  <2> QED BY <2>2, <2>3, <2>4, <2>5
<1>3. \A l \in Keys : \A n \in 1 .. Len(waiting[l]) :
        ~ (l = k /\ n = i) => InQueue(waiting[l][n], waiting'[l])
  <2> SUFFICES ASSUME NEW l \in Keys, NEW n \in 1 .. Len(waiting[l]), ~ (l = k /\ n = i)
               PROVE  \E j \in 1 .. Len(waiting'[l]) : waiting'[l][j] = waiting[l][n]
    BY DEF InQueue
  <2>1. Len(waiting[l]) \in Nat /\ Len(waiting[k]) \in Nat
    BY <1>0
  <2>2. CASE l # k
    BY <1>1, <2>2
  <2>3. CASE l = k /\ n < i
    <3>1. n \in 1 .. Len(r) /\ r[n] = waiting[k][n]
      BY <1>0, <2>1, <2>3 DEF Removed
    <3> QED BY <1>1, <2>3, <3>1
  <2>4. CASE l = k /\ n > i
    <3>1. n - 1 \in 1 .. Len(r) /\ r[n - 1] = waiting[k][n]
      BY <1>0, <2>1, <2>4 DEF Removed
    <3> QED BY <1>1, <2>4, <3>1
  <2>5. n < i \/ n = i \/ n > i
    BY <1>0, <2>1
  <2> QED BY <2>2, <2>3, <2>4, <2>5
<1>4. Once'
  <2> SUFFICES ASSUME NEW d \in Clients \ twice, NEW l \in Keys, NEW m \in Keys,
                      NEW x \in 1 .. Len(waiting'[l]), NEW y \in 1 .. Len(waiting'[m]),
                      waiting'[l][x] = d, waiting'[m][y] = d
               PROVE  l = m /\ x = y
    BY DEF Once
  <2>0. /\ From(l, x) \in 1 .. Len(waiting[l]) /\ waiting[l][From(l, x)] = d
        /\ From(m, y) \in 1 .. Len(waiting[m]) /\ waiting[m][From(m, y)] = d
    BY <1>2
  <2>1. l = m /\ From(l, x) = From(m, y)
    <3> HIDE DEF From
    <3> QED BY <1>0, <2>0 DEF Once
  <2>2. x \in Int /\ y \in Int /\ i \in Int
    BY <1>0, <1>1
  <2> QED BY <2>1, <2>2
<1>5. BlockedQueued'
  <2> SUFFICES ASSUME NEW d \in blocked \ {c}
               PROVE  \E l \in Keys : InQueue(d, waiting'[l])
    BY <1>1 DEF BlockedQueued, Queued
  <2>1. PICK l \in Keys : \E n \in 1 .. Len(waiting[l]) : waiting[l][n] = d
    BY <1>0 DEF BlockedQueued, Queued, InQueue
  <2>2. PICK n \in 1 .. Len(waiting[l]) : waiting[l][n] = d
    BY <2>1
  <2>3. ~ (l = k /\ n = i)
    BY <2>2
  <2> QED BY <1>3, <2>2, <2>3
<1>6. WaiterIsBlocked'
  <2> SUFFICES ASSUME NEW d \in Clients, NEW l \in Keys, NEW j \in 1 .. Len(waiting'[l]),
                      waiting'[l][j] = d
               PROVE  d \in blocked \ {c} \/ d \in twice
    BY <1>1 DEF WaiterIsBlocked, Queued, InQueue
  <2>1. /\ From(l, j) \in 1 .. Len(waiting[l]) /\ waiting[l][From(l, j)] = d
        /\ ~ (l = k /\ From(l, j) = i)
    BY <1>2
  <2>2. d \in blocked \/ d \in twice
    BY <1>0, <2>1 DEF WaiterIsBlocked, Queued, InQueue
  <2>3. d = c => d \in twice
    BY <1>0, <2>1 DEF Once
  <2> QED BY <2>2, <2>3
<1> QED BY <1>0, <1>1, <1>4, <1>5, <1>6 DEF QueueInv

\* A client is appended to a queue and marked.
LEMMA Enqueued ==
  ASSUME Core, NEW c \in Clients, NEW k \in Keys,
         waiting' = [waiting EXCEPT ![k] = Append(@, c)],
         blocked' = blocked \cup {c},
         twice' = IF Queued(c) THEN twice \cup {c} ELSE twice
  PROVE  /\ QueueInv' /\ waiting' \in [Keys -> Seq(Clients)]
         /\ blocked' \subseteq Clients /\ twice' \subseteq Clients
<1> DEFINE q == waiting[k]
           r == Append(q, c)
<1>0. /\ waiting \in [Keys -> Seq(Clients)] /\ blocked \subseteq Clients /\ twice \subseteq Clients
      /\ Once /\ BlockedQueued /\ WaiterIsBlocked
  BY DEF Core, QueueInv
<1>1. /\ r \in Seq(Clients) /\ Len(q) \in Nat /\ Len(r) = Len(q) + 1
      /\ r[Len(q) + 1] = c /\ \A j \in 1 .. Len(q) : r[j] = q[j]
  BY <1>0, AppendProperties
<1> HIDE DEF r
<1>2. /\ waiting' \in [Keys -> Seq(Clients)] /\ waiting'[k] = r
      /\ \A l \in Keys \ {k} : waiting'[l] = waiting[l]
  BY <1>0, <1>1 DEF r
<1>3. \A l \in Keys : \A j \in 1 .. Len(waiting'[l]) :
        \/ j \in 1 .. Len(waiting[l]) /\ waiting'[l][j] = waiting[l][j]
        \/ l = k /\ j = Len(q) + 1 /\ waiting'[l][j] = c
  <2> TAKE l \in Keys
  <2> TAKE j \in 1 .. Len(waiting'[l])
  <2>1. CASE l # k
    BY <1>2, <2>1
  <2>2. CASE l = k
    BY <1>1, <1>2, <2>2
  <2> QED BY <2>1, <2>2
<1>4. \A d \in Clients : (Queued(d) \/ d = c) => Queued(d)'
  <2>1. \A l \in Keys : \A n \in 1 .. Len(waiting[l]) :
          n \in 1 .. Len(waiting'[l]) /\ waiting'[l][n] = waiting[l][n]
    BY <1>1, <1>2
  <2>2. Len(q) + 1 \in 1 .. Len(waiting'[k]) /\ waiting'[k][Len(q) + 1] = c
    BY <1>1, <1>2
  <2> QED BY <2>1, <2>2 DEF Queued, InQueue
<1>5. Once'
  <2> SUFFICES ASSUME NEW d \in Clients \ twice', NEW l \in Keys, NEW m \in Keys,
                      NEW x \in 1 .. Len(waiting'[l]), NEW y \in 1 .. Len(waiting'[m]),
                      waiting'[l][x] = d, waiting'[m][y] = d
               PROVE  l = m /\ x = y
    BY DEF Once
  <2>1. d \notin twice
    OBVIOUS
  <2>2. CASE d # c
    BY <1>0, <1>3, <2>1, <2>2 DEF Once
  <2>3. CASE d = c
    <3>1. \A n \in Keys : \A z \in 1 .. Len(waiting[n]) : waiting[n][z] # c
      BY <2>3 DEF Queued, InQueue
    <3> QED BY <1>3, <2>3, <3>1
  <2> QED BY <2>2, <2>3
<1>6. BlockedQueued'
  BY <1>0, <1>4 DEF BlockedQueued
<1>7. WaiterIsBlocked'
  <2> SUFFICES ASSUME NEW d \in Clients, Queued(d)'
               PROVE  d \in blocked' \/ d \in twice'
    BY DEF WaiterIsBlocked
  <2>1. Queued(d) \/ d = c
    BY <1>3 DEF Queued, InQueue
  <2> QED BY <1>0, <2>1 DEF WaiterIsBlocked
<1> QED BY <1>0, <1>2, <1>5, <1>6, <1>7 DEF QueueInv

\* The queues are left alone.
LEMMA QueuesKept ==
  ASSUME Core, UNCHANGED <<waiting, blocked, twice>>
  PROVE  QueueInv'
BY DEF Core, QueueInv, Once, BlockedQueued, WaiterIsBlocked, Queued, InQueue
-----------------------------------------------------------------------------
\* What ready owes: if only the queue and the content of key k change, and what is said
\* of k holds, the rest follows.
Owed(k) ==
  /\ waiting[k] # <<>> /\ HasElem(k) => k \in ready \/ k \in skipped
  /\ k \in ready => HasElem(k) \/ k \in drained

LEMMA ServiceKept ==
  ASSUME Core, NEW k \in Keys,
         \A l \in Keys \ {k} : /\ list'[l] = list[l] /\ waiting'[l] = waiting[l]
                               /\ (l \in ready') = (l \in ready)
                               /\ (l \in skipped') = (l \in skipped)
                               /\ (l \in drained') = (l \in drained),
         ready' \subseteq Keys,
         Owed(k)'
  PROVE  ServiceInv'
<1>1. \A l \in Keys : Owed(l)'
  <2> SUFFICES ASSUME NEW l \in Keys \ {k} PROVE Owed(l)'
    OBVIOUS
  <2>1. ServiceInv /\ ready \subseteq Keys
    BY DEF Core
  <2>2. HasElem(l)' = HasElem(l)
    BY DEF HasElem
  <2> QED BY <2>1, <2>2 DEF ServiceInv, WakeUpIsPending, ReadyHasElement, Owed
<1> QED BY <1>1 DEF ServiceInv, WakeUpIsPending, ReadyHasElement, Owed

LEMMA ServiceSame ==
  ASSUME Core, UNCHANGED <<list, waiting, ready, skipped, drained>>
  PROVE  ServiceInv'
BY DEF Core, ServiceInv, WakeUpIsPending, ReadyHasElement, HasElem

LEMMA PushOK ==
  ASSUME Core, NEW k \in Keys, NEW n \in Nat \ {0}, Push(k, n)
  PROVE  Core'
<1> DEFINE oldLen == IF list[k] = Absent THEN 0 ELSE list[k]
<1>0. /\ list \in [Keys -> Nat \cup {Absent, Str}] /\ ready \subseteq Keys
      /\ skipped \subseteq Keys /\ drained \subseteq Keys /\ Owed(k)
  BY DEF Core, ServiceInv, WakeUpIsPending, ReadyHasElement, Owed
<1>1. CASE list[k] = Str
  <2>1. UNCHANGED <<list, waiting, ready, blocked, when, history, now, phase, cursor, crashed>>
    BY <1>1 DEF Push, Calm
  <2>2. QueueInv' /\ ServiceInv'
    BY <2>1, QueuesKept, ServiceSame DEF history
  <2> QED BY <2>1, <2>2 DEF Core, history
<1>2. CASE list[k] # Str
  <2>1. /\ list' = [list EXCEPT ![k] = oldLen + n]
        /\ ready' = IF oldLen = 0 /\ waiting[k] # <<>> THEN ready \cup {k} ELSE ready
        /\ drained' = IF oldLen = 0 THEN drained \ {k} ELSE drained
        /\ UNCHANGED <<waiting, blocked, when, twice, skipped, now, phase, cursor, crashed>>
    BY <1>2 DEF Push, MarkReady, Calm
  <2>2. oldLen \in Nat /\ oldLen + n \in Nat /\ oldLen + n > 0
    BY <1>0, <1>2
  <2> HIDE DEF oldLen
  <2>3. /\ list' \in [Keys -> Nat \cup {Absent, Str}] /\ list'[k] = oldLen + n
        /\ \A l \in Keys \ {k} : list'[l] = list[l]
    BY <1>0, <2>1, <2>2
  <2>4. HasElem(k)'
    BY <2>2, <2>3 DEF HasElem
  <2>5. oldLen # 0 => HasElem(k)
    BY <1>0, <1>2, MarkersAssumption DEF HasElem, oldLen
  <2>6. Owed(k)'
    BY <1>0, <2>1, <2>4, <2>5 DEF Owed
  <2>7. ServiceInv'
    BY <1>0, <2>1, <2>3, <2>6, ServiceKept
  <2>8. QueueInv'
    BY <2>1, QueuesKept
  <2> QED BY <1>0, <2>1, <2>3, <2>7, <2>8 DEF Core
<1> QED BY <1>1, <1>2

\* Whatever takes elements from k or overwrites it.
LEMMA ShrinksOK ==
  ASSUME Core, NEW k \in Keys, NEW content \in Nat \cup {Absent, Str},
         content \in Nat /\ content > 0 => HasElem(k),
         Shrinks(k, content), UNCHANGED <<waiting, ready, blocked, when, twice>>, Calm
  PROVE  Core'
<1>0. /\ list \in [Keys -> Nat \cup {Absent, Str}] /\ ready \subseteq Keys
      /\ skipped \subseteq Keys /\ drained \subseteq Keys /\ Owed(k)
  BY DEF Core, ServiceInv, WakeUpIsPending, ReadyHasElement, Owed
<1>1. /\ list' \in [Keys -> Nat \cup {Absent, Str}] /\ list'[k] = content
      /\ \A l \in Keys \ {k} : list'[l] = list[l]
      /\ drained' = drained \cup (ready \cap {k})
      /\ skipped' = IF content \in Nat /\ content > 0 THEN skipped ELSE skipped \ {k}
  BY <1>0 DEF Shrinks
<1>2. Owed(k)'
  BY <1>0, <1>1 DEF Owed, HasElem
<1>3. ServiceInv'
  BY <1>0, <1>1, <1>2, ServiceKept
<1>4. QueueInv'
  BY QueuesKept
<1> QED BY <1>0, <1>1, <1>3, <1>4 DEF Core, Calm

LEMMA PanicOK ==
  ASSUME Core, Panic
  PROVE  Core'
<1>1. QueueInv' /\ ServiceInv'
  BY QueuesKept, ServiceSame DEF Panic, history
<1> QED BY <1>1 DEF Core, Panic, history

LEMMA LpopOK ==
  ASSUME Core, NEW k \in Keys, NEW n \in Nat \ {0}, Lpop(k, n)
  PROVE  Core'
<1>1. CASE Panic
  BY <1>1, PanicOK
<1>2. CASE UNCHANGED <<list, waiting, ready, blocked, when, history>> /\ Calm
  <2>1. QueueInv' /\ ServiceInv'
    BY <1>2, QueuesKept, ServiceSame DEF history
  <2> QED BY <1>2, <2>1 DEF Core, history, Calm
<1>3. CASE /\ HasElem(k)
           /\ Shrinks(k, IF n > list[k] THEN 0 ELSE list[k] - n)
           /\ UNCHANGED <<waiting, ready, blocked, when, twice>> /\ Calm
  <2> DEFINE content == IF n > list[k] THEN 0 ELSE list[k] - n
  <2>1. content \in Nat
    BY <1>3 DEF HasElem
  <2> HIDE DEF content
  <2> QED BY <1>3, <2>1, ShrinksOK DEF content
<1> QED BY <1>1, <1>2, <1>3 DEF Lpop

LEMMA BlockOnOK ==
  ASSUME Core, NEW c \in Clients, NEW k \in Keys, NEW t \in Nat,
         list[k] \in {Absent, 0}, BlockOn(c, k, t)
  PROVE  Core'
<1>1. /\ waiting' = [waiting EXCEPT ![k] = Append(@, c)] /\ blocked' = blocked \cup {c}
      /\ when' = [when EXCEPT ![c] = IF t > 0 THEN now + t ELSE 0]
      /\ twice' = IF Queued(c) THEN twice \cup {c} ELSE twice
      /\ UNCHANGED <<list, ready, skipped, drained, now, phase, cursor, crashed>>
  BY DEF BlockOn, Calm
<1>2. /\ QueueInv' /\ waiting' \in [Keys -> Seq(Clients)]
      /\ blocked' \subseteq Clients /\ twice' \subseteq Clients
  BY <1>1, Enqueued
<1>3. when' \in [Clients -> Nat]
  BY <1>1 DEF Core
<1>4. ServiceInv'
  <2>1. ~ HasElem(k) /\ ~ HasElem(k)'
    BY <1>1, MarkersAssumption DEF HasElem
  <2>2. Owed(k) /\ waiting \in [Keys -> Seq(Clients)] /\ ready \subseteq Keys
    BY DEF Core, ServiceInv, WakeUpIsPending, ReadyHasElement, Owed
  <2>3. Owed(k)'
    BY <1>1, <2>1, <2>2 DEF Owed
  <2> QED BY <1>1, <2>2, <2>3, ServiceKept
<1> QED BY <1>1, <1>2, <1>3, <1>4 DEF Core

LEMMA ExecuteOK ==
  ASSUME Core, NEW c \in Clients, NEW cmd \in Cmds, Execute(c, cmd)
  PROVE  Core'
<1>1. cmd.key \in Keys /\ cmd.n \in Nat /\ (cmd.op \in {"PUSH", "LPOP"} => cmd.n \in Nat \ {0})
  BY CmdsAssumption DEF Command
<1> DEFINE k == cmd.key
<1>2. CASE cmd.op = "PUSH" /\ Push(k, cmd.n)
  BY <1>1, <1>2, PushOK
<1>3. CASE cmd.op = "LPOP" /\ Lpop(k, cmd.n)
  BY <1>1, <1>3, LpopOK
<1>4. CASE cmd.op = "BLPOP" /\ Blpop(c, k, cmd.n)
  BY <1>1, <1>4, BlockOnOK, LpopOK DEF Blpop
<1>5. CASE Overwrite(k, Str) \/ Overwrite(k, Absent)
  BY <1>1, <1>5, MarkersAssumption, ShrinksOK DEF Overwrite
<1> QED BY <1>2, <1>3, <1>4, <1>5 DEF Execute
-----------------------------------------------------------------------------
\* The timer and processKeys.
LEMMA SweepWaiterOK ==
  ASSUME Core, SweepWaiter
  PROVE  Core'
<1>0. PICK k \in Keys : k = cursor.key
  BY DEF Core, SweepWaiter
<1>1. PICK i \in Nat \ {0} : i = cursor.pos
  BY DEF Core
<1> DEFINE q == waiting[k]
<1>2. /\ i <= Len(q) /\ q \in Seq(Clients)
      /\ waiting \in [Keys -> Seq(Clients)]
      /\ UNCHANGED <<list, ready, now, phase, crashed, history>>
      /\ cursor \in [left : SUBSET Keys, key : Keys \cup {Absent}, pos : Nat \ {0}]
  BY <1>0, <1>1 DEF Core, SweepWaiter
<1>3. i \in 1 .. Len(q)
  BY <1>2
<1>4. CASE TimedOut(q[i])
  <2> DEFINE r == RemoveAt(q, i)
  <2>1. /\ waiting' = [waiting EXCEPT ![k] = r] /\ Freed(q[i])
        /\ UNCHANGED cursor
    BY <1>0, <1>1, <1>4 DEF SweepWaiter
  <2>2. Removed(q, r, i)
    BY <1>2, <1>3, RemoveAtRemoves
  <2> HIDE DEF r
  <2>3. /\ QueueInv' /\ waiting' \in [Keys -> Seq(Clients)]
        /\ blocked' \subseteq Clients /\ when' \in [Clients -> Nat]
    <3>1. twice' = twice
      BY <1>2 DEF history
    <3> QED BY <1>2, <2>1, <2>2, <3>1, Dequeued
  <2>4. ServiceInv'
    <3>1. Owed(k) /\ ready \subseteq Keys
      BY <1>2 DEF Core, ServiceInv, WakeUpIsPending, ReadyHasElement, Owed
    <3>2. q # <<>>
      BY <1>2, <1>3
    <3>3. Owed(k)'
      BY <1>2, <3>1, <3>2 DEF Owed, HasElem, history
    <3> QED BY <1>2, <2>1, <3>1, <3>3, ServiceKept DEF history
  <2> QED BY <1>2, <2>1, <2>3, <2>4 DEF Core, history
<1>5. CASE ~ TimedOut(q[i])
  <2>1. cursor' = [cursor EXCEPT !.pos = i + 1] /\ UNCHANGED <<waiting, blocked, when>>
    BY <1>0, <1>1, <1>5 DEF SweepWaiter
  <2>2. cursor' \in [left : SUBSET Keys, key : Keys \cup {Absent}, pos : Nat \ {0}]
    <3>1. i + 1 \in Nat \ {0}
      OBVIOUS
    <3> QED BY <1>2, <2>1, <3>1
  <2>3. QueueInv' /\ ServiceInv'
    BY <1>2, <2>1, QueuesKept, ServiceSame DEF history
  <2> QED BY <1>2, <2>1, <2>2, <2>3 DEF Core, history
<1> QED BY <1>4, <1>5

LEMMA ServeOK ==
  ASSUME Core, NEW k \in Keys, Serve(k)
  PROVE  Core'
<1> DEFINE q == waiting[k]
           rest == IF HasElem(k) THEN list[k] - 1 ELSE list[k]
<1>0. /\ list \in [Keys -> Nat \cup {Absent, Str}] /\ waiting \in [Keys -> Seq(Clients)]
      /\ ready \subseteq Keys /\ skipped \subseteq Keys /\ drained \subseteq Keys /\ Owed(k)
  BY DEF Core, ServiceInv, WakeUpIsPending, ReadyHasElement, Owed
<1>1. /\ q # <<>> /\ list[k] # Str
      /\ list' = [list EXCEPT ![k] = rest] /\ waiting' = [waiting EXCEPT ![k] = Tail(q)]
      /\ Freed(Head(q)) /\ ready' = ready \ {k} /\ drained' = drained \ {k}
      /\ skipped' = IF HasElem(k) /\ rest > 0 /\ Len(q) > 1
                    THEN skipped \cup {k} ELSE IF rest \in {Absent, 0} THEN skipped \ {k} ELSE skipped
      /\ UNCHANGED <<now, phase, cursor, crashed, twice>>
  BY <1>0 DEF Serve, Settled, loop
<1>2. rest \in Nat \cup {Absent} /\ (HasElem(k) => rest \in Nat) /\ (~ HasElem(k) => rest \in {Absent, 0})
  BY <1>0, <1>1 DEF HasElem
<1> HIDE DEF rest
<1>3. /\ list' \in [Keys -> Nat \cup {Absent, Str}] /\ list'[k] = rest
      /\ \A l \in Keys \ {k} : list'[l] = list[l] /\ waiting'[l] = waiting[l]
      /\ waiting'[k] = Tail(q)
  BY <1>0, <1>1, <1>2
<1>4. Removed(q, Tail(q), 1) /\ Head(q) = q[1]
  BY <1>0, <1>1, TailRemoves
<1>5. /\ QueueInv' /\ waiting' \in [Keys -> Seq(Clients)]
      /\ blocked' \subseteq Clients /\ when' \in [Clients -> Nat]
  BY <1>1, <1>4, Dequeued
<1>6. Owed(k)'
  <2>1. Tail(q) # <<>> => Len(q) > 1
    <3>1. Len(q) \in Nat /\ Len(Tail(q)) = Len(q) - 1 /\ Tail(q) \in Seq(Clients)
      BY <1>0, <1>4 DEF Removed
    <3>2. Tail(q) # <<>> => Len(Tail(q)) \in Nat \ {0}
      BY <3>1, EmptySeq
    <3> QED BY <3>1, <3>2
  <2>2. HasElem(k)' => rest \in Nat /\ rest > 0 /\ HasElem(k)
    BY <1>2, <1>3, MarkersAssumption DEF HasElem
  <2> QED BY <1>0, <1>1, <1>3, <2>1, <2>2 DEF Owed
<1>7. ServiceInv'
  BY <1>0, <1>1, <1>3, <1>6, ServiceKept
<1> QED BY <1>0, <1>1, <1>3, <1>5, <1>7 DEF Core

LEMMA UnreadyOK ==
  ASSUME Core, NEW k \in Keys, Unready(k)
  PROVE  Core'
<1>1. /\ waiting[k] = <<>> /\ ready' = ready \ {k} /\ drained' = drained \ {k}
      /\ UNCHANGED <<list, waiting, blocked, when, now, phase, cursor, crashed, twice, skipped>>
  BY DEF Unready, Settled, loop
<1>2. ready \subseteq Keys /\ drained \subseteq Keys
  BY DEF Core
<1>3. Owed(k)'
  BY <1>1 DEF Owed
<1>4. ServiceInv'
  BY <1>1, <1>2, <1>3, ServiceKept
<1>5. QueueInv'
  BY <1>1, QueuesKept
<1> QED BY <1>1, <1>2, <1>4, <1>5 DEF Core

\* The loop goes from phase to phase, the clock or the cursor moves.
LEMMA RoundOK ==
  ASSUME Core, UNCHANGED <<list, waiting, ready, blocked, when, crashed, history>>,
         now' \in Nat, phase' \in {"files", "timers", "serve"},
         cursor' \in [left : SUBSET Keys, key : Keys \cup {Absent}, pos : Nat \ {0}]
  PROVE  Core'
<1>1. QueueInv' /\ ServiceInv'
  BY QueuesKept, ServiceSame DEF history
<1> QED BY <1>1 DEF Core, history

-----------------------------------------------------------------------------
LEMMA InitOK == Init => IInv
<1> SUFFICES ASSUME Init PROVE IInv
  OBVIOUS
<1>1. QueueInv
  BY DEF Init, QueueInv, Once, BlockedQueued, WaiterIsBlocked, Queued, InQueue
<1>2. ServiceInv
  BY DEF Init, ServiceInv, WakeUpIsPending, ReadyHasElement
<1>3. NoCursor \in [left : SUBSET Keys, key : Keys \cup {Absent}, pos : Nat \ {0}]
  BY DEF NoCursor
<1>4. /\ list \in [Keys -> Nat \cup {Absent, Str}] /\ waiting \in [Keys -> Seq(Clients)]
      /\ when \in [Clients -> Nat] /\ now \in Nat
  BY EmptySeq DEF Init
<1>5. /\ ready = {} /\ blocked = {} /\ phase = "files" /\ cursor = NoCursor /\ exec = NoExec
      /\ crashed = FALSE /\ twice = {} /\ skipped = {} /\ drained = {}
  BY DEF Init
<1> QED BY <1>1, <1>2, <1>3, <1>4, <1>5 DEF IInv, Core, ExecInv

LEMMA NextOK ==
  ASSUME IInv, Next
  PROVE  IInv'
<1>0. Core /\ ExecInv
  BY DEF IInv
<1> DEFINE Cursors == [left : SUBSET Keys, key : Keys \cup {Absent}, pos : Nat \ {0}]
<1>1. ASSUME NEW c \in Clients, NEW cmd \in Cmds, Respond(c, cmd)
      PROVE  IInv'
  BY <1>0, <1>1, ExecuteOK DEF Respond, IInv, ExecInv
<1>2. ASSUME NEW c \in Clients, NEW cmd1 \in Cmds, NEW cmd2 \in Cmds, ExecStart(c, cmd1, cmd2)
      PROVE  IInv'
  <2>1. Core'
    BY <1>0, <1>2, RoundOK DEF ExecStart, Core
  <2>2. <<cmd1, cmd2>> \in Seq(Cmds) \ {<<>>}
    OBVIOUS
  <2> QED BY <1>2, <2>1, <2>2 DEF ExecStart, IInv, ExecInv
<1>3. CASE ExecStep
  <2> DEFINE q == exec.batch
  <2>1. exec.client \in Clients /\ q \in Seq(Cmds) /\ q # <<>>
    BY <1>0, <1>3 DEF ExecStep, ExecInv
  <2>2. /\ Head(q) \in Cmds /\ Tail(q) \in Seq(Cmds) /\ Len(q) \in Nat \ {0}
        /\ Len(q) # 1 => Tail(q) # <<>>
    <3>1. Len(q) \in Nat \ {0}
      BY <2>1, EmptySeq
    <3>2. Head(q) \in Cmds /\ Tail(q) \in Seq(Cmds) /\ Len(Tail(q)) = Len(q) - 1
      BY <2>1, HeadTailProperties
    <3>3. Tail(q) = <<>> => Len(Tail(q)) = 0
      BY EmptySeq
    <3> HIDE DEF q
    <3> QED BY <3>1, <3>2, <3>3
  <2>3. Core'
    <3>1. CASE Execute(exec.client, Head(q))
      BY <1>0, <2>1, <2>2, <3>1, ExecuteOK
    <3>2. CASE UNCHANGED <<list, waiting, ready, blocked, when, now, phase, cursor, crashed, history>>
      BY <1>0, <3>2, RoundOK DEF Core
    <3> QED BY <1>3, <3>1, <3>2 DEF ExecStep
  <2>4. ExecInv'
    <3>1. CASE Len(q) = 1
      BY <1>3, <3>1 DEF ExecStep, ExecInv
    <3>2. CASE Len(q) # 1
      <4>1. exec' = [exec EXCEPT !.batch = Tail(q)]
        BY <1>3, <3>2 DEF ExecStep
      <4>2. exec \in [client : Clients, batch : Seq(Cmds) \ {<<>>}]
        BY <1>0, <1>3 DEF ExecStep, ExecInv
      <4>3. Tail(q) \in Seq(Cmds) \ {<<>>}
        BY <2>2, <3>2
      <4> HIDE DEF q
      <4> QED BY <4>1, <4>2, <4>3 DEF ExecInv
    <3> QED BY <3>1, <3>2
  <2> QED BY <2>3, <2>4 DEF IInv
<1>4. CASE Tick \/ TimersSkip \/ TimersStart \/ SweepNext \/ SweepEnd \/ Sleep
  <2>1. /\ UNCHANGED <<list, waiting, ready, blocked, when, crashed, history, exec>>
        /\ now' \in Nat /\ phase' \in {"files", "timers", "serve"}
    BY <1>0, <1>4 DEF Tick, TimersSkip, TimersStart, SweepNext, SweepEnd, Sleep, loop, Core
  <2>2. cursor' \in Cursors
    <3>1. cursor \in Cursors
      BY <1>0 DEF Core
    <3>2. CASE UNCHANGED cursor
      BY <3>1, <3>2
    <3>3. CASE TimersStart
      <4> DEFINE S == {k \in Keys : waiting[k] # <<>>}
      <4>1. cursor' = [NoCursor EXCEPT !.left = S] /\ S \in SUBSET Keys
        BY <3>3 DEF TimersStart
      <4> HIDE DEF S
      <4> QED BY <4>1 DEF NoCursor
    <3>4. CASE SweepNext
      <4> DEFINE d == [cursor EXCEPT !.key = Absent]
      <4>1. cursor' = [d EXCEPT !.pos = 1]
        BY <3>4 DEF SweepNext
      <4>2. d \in Cursors
        BY <3>1
      <4> HIDE DEF d
      <4> QED BY <4>1, <4>2
    <3>5. Tick \/ TimersSkip \/ SweepEnd \/ Sleep => UNCHANGED cursor
      BY DEF Tick, TimersSkip, SweepEnd, Sleep, loop
    <3> QED BY <1>4, <3>2, <3>3, <3>4, <3>5
  <2> QED BY <1>0, <2>1, <2>2, RoundOK DEF IInv, ExecInv
<1>5. ASSUME NEW k \in Keys, SweepKey(k)
      PROVE  IInv'
  <2>1. /\ UNCHANGED <<list, waiting, ready, blocked, when, crashed, history, exec>>
        /\ now' \in Nat /\ phase' \in {"files", "timers", "serve"}
    BY <1>0, <1>5 DEF SweepKey, Core
  <2>2. cursor' \in Cursors
    BY <1>0, <1>5 DEF SweepKey, Core
  <2> QED BY <1>0, <2>1, <2>2, RoundOK DEF IInv, ExecInv
<1>6. CASE SweepWaiter
  BY <1>0, <1>6, SweepWaiterOK DEF SweepWaiter, IInv, ExecInv
<1>7. ASSUME NEW k \in Keys, Unready(k) \/ Serve(k) \/ ServePanic(k)
      PROVE  IInv'
  <2>1. exec' = exec
    BY <1>7 DEF Unready, Serve, ServePanic, loop
  <2>2. Core'
    BY <1>0, <1>7, UnreadyOK, ServeOK, PanicOK DEF ServePanic
  <2> QED BY <1>0, <2>1, <2>2 DEF IInv, ExecInv
<1> QED BY <1>1, <1>2, <1>3, <1>4, <1>5, <1>6, <1>7 DEF Next, Timers, Process

LEMMA InvHolds == Spec => []IInv
<1>1. ASSUME IInv, UNCHANGED vars
      PROVE  IInv'
  <2>1. UNCHANGED <<list, waiting, ready, blocked, when, now, phase, cursor, exec, crashed, history>>
    BY <1>1 DEF vars, loop
  <2> QED BY <1>1, <2>1, RoundOK DEF IInv, ExecInv, Core
<1>2. IInv /\ [Next]_vars => IInv'
  BY <1>1, NextOK
<1> QED BY InitOK, <1>2, PTL DEF Spec

\* No wake-up is lost: who waits at a list with elements will be looked at by
\* processKeys, or was passed over by it.
THEOREM NoLostWakeUp == Spec => []WakeUpIsPending
<1>1. IInv => WakeUpIsPending
  BY DEF IInv, Core, ServiceInv
<1> QED BY InvHolds, <1>1, PTL

\* A key is ready because of an element that is still there, or that a command took.
THEOREM ReadyForAReason == Spec => []ReadyHasElement
<1>1. IInv => ReadyHasElement
  BY DEF IInv, Core, ServiceInv
<1> QED BY InvHolds, <1>1, PTL

\* Nobody is blocked without waiting in a queue, where a push or the timer finds him.
THEOREM BlockedCanBeFreed == Spec => []BlockedIsQueued
<1>1. IInv => BlockedIsQueued
  <2> SUFFICES ASSUME IInv PROVE BlockedIsQueued
    OBVIOUS
  <2>1. /\ exec.client \in Clients \cup {NoClient} /\ exec.batch \in Seq(Cmds)
    <3>1. <<>> \in Seq(Cmds)
      BY EmptySeq
    <3>2. CASE exec = NoExec
      BY <3>1, <3>2 DEF NoExec
    <3>3. CASE exec \in [client : Clients, batch : Seq(Cmds) \ {<<>>}]
      BY <3>3
    <3> QED BY <3>2, <3>3 DEF IInv, ExecInv
  <2>2. /\ cursor.left \subseteq Keys /\ cursor.key \in Keys \cup {Absent} /\ cursor.pos \in Nat \ {0}
    BY DEF IInv, Core
  <2>3. TypeOK
    BY <2>1, <2>2 DEF IInv, Core, TypeOK
  <2> QED BY <2>3 DEF IInv, Core, QueueInv, BlockedQueued, BlockedIsQueued
<1> QED BY InvHolds, <1>1, PTL

\* Who waits in a queue is blocked, unless an EXEC put him in a queue twice.
THEOREM WaitersAreBlocked == Spec => []WaiterIsBlocked
<1>1. IInv => WaiterIsBlocked
  BY DEF IInv, Core, QueueInv
<1> QED BY InvHolds, <1>1, PTL
=============================================================================
