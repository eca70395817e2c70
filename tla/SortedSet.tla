------------------------------ MODULE SortedSet ------------------------------
(***************************************************************************)
(* One sorted set: the dict and the skiplist of a Zset (store/zset.go,     *)
(* ds/skiplist.go) under ZADD and ZREM.  The forward pointers of a level   *)
(* are a sequence of nodes; a position in it, 0 for the root, stands for   *)
(* the node a pointer of which is followed or changed.                     *)
(*                                                                         *)
(* The height of a node is random in the code and any height here.  Insert *)
(* orders nodes by score alone, Delete looks for them by score and member; *)
(* and Zset.Delete leaves the member in dict.                              *)
(***************************************************************************)
EXTENDS Integers, Sequences, FiniteSets, SequencesExt

CONSTANTS
  Members,      \* the members, as integers: their order is the code's string order
  Scores,
  MaxCopies,    \* bound on the nodes allocated for one member at a time
  MaxNodes,     \* bound on the nodes listed
  MaxLvl        \* MAXLVL

Nil  == <<>>    \* no node
None == -1000   \* no score

ConstantsFit ==
  /\ Members \subseteq Nat /\ Scores \subseteq Nat
  /\ IsFiniteSet(Members)
  /\ {MaxCopies, MaxNodes, MaxLvl} \subseteq Nat

Levels == 0 .. MaxLvl

\* A node carries its member for life.
Nodes == Members \X (1 .. MaxCopies)

Member(x) == x[1]

VARIABLES
  value,        \* the score in each node
  chain,        \* the nodes on each level, in the order of the pointers
  level,        \* sl.level
  dict          \* the node of each member, Nil if it never had one

\* History, read by no action: the score each member has for a client that saw
\* the commands, and the members that ever had the score of another one.
VARIABLES score, tied

Init ==
  /\ value = [x \in Nodes |-> 0]
  /\ chain = [i \in Levels |-> <<>>]
  /\ level = 0
  /\ dict = [m \in Members |-> Nil]
  /\ score = [m \in Members |-> None]
  /\ tied = {}

\* The key is deleted or overwritten.
Clear ==
  /\ value' = [x \in Nodes |-> 0]
  /\ chain' = [i \in Levels |-> <<>>]
  /\ level' = 0
  /\ dict' = [m \in Members |-> Nil]
  /\ score' = [m \in Members |-> None]
  /\ tied' = {}

On(ch, i) == {ch[i][j] : j \in 1 .. Len(ch[i])}

-----------------------------------------------------------------------------
(***************************************************************************)
(* The walk down a skiplist: on each level, from the top, on to the last   *)
(* node that is `ahead` of what is looked for; updates[i] in the code.     *)
(***************************************************************************)
Stop(c, start, ahead) ==
  CHOOSE j \in start .. Len(c) :
    /\ \A k \in start + 1 .. j : c[k] \in ahead
    /\ j = Len(c) \/ c[j + 1] \notin ahead

\* One level down, at the same node.
Below(ch, i, j) == IF j = 0 THEN 0 ELSE CHOOSE k \in 1 .. Len(ch[i - 1]) : ch[i - 1][k] = ch[i][j]

Updates(ch, top, ahead) ==
  LET u[i \in Levels] ==
        IF i > top THEN 0
        ELSE Stop(ch[i], IF i = top THEN 0 ELSE Below(ch, i + 1, u[i + 1]), ahead)
  IN  u

RandomLevel == Levels

\* Skiplist.Insert of node x with height lvl.
Insert(ch, top, val, x, lvl) ==
  LET u == Updates(ch, top, {y \in Nodes : val[y] < val[x]})
  IN  [i \in Levels |-> IF i > lvl THEN ch[i] ELSE InsertAt(ch[i], u[i] + 1, x)]

\* Fault: the lowest level only.
UnlinkedLow(u, x) == [chain EXCEPT ![0] = RemoveAt(@, u[0] + 1)]

\* Node x is taken out of the levels on which it follows updates[i].
Unlinked(u, x) ==
  [i \in Levels |-> IF u[i] < Len(chain[i]) /\ chain[i][u[i] + 1] = x
                    THEN RemoveAt(chain[i], u[i] + 1) ELSE chain[i]]

\* The level after empty ones were given up.
Lowered(ch) ==
  CHOOSE i \in 0 .. level :
    /\ i = 0 \/ ch[i] # <<>>
    /\ \A j \in i + 1 .. level : ch[j] = <<>>

Unchanged == [chain |-> chain, level |-> level]

\* Where Delete's walk for m and sc ends.
Found(m, sc) ==
  Updates(chain, level,
          {y \in Nodes : value[y] < sc \/ (value[y] = sc /\ Member(y) < m)})

\* Skiplist.Delete.
Delete(m, sc) ==
  LET u == Found(m, sc)
      x == chain[0][u[0] + 1]
      ch == Unlinked(u, x)
  IN  IF u[0] < Len(chain[0]) /\ Member(x) = m /\ value[x] = sc
      THEN [chain |-> ch, level |-> Lowered(ch)]
      ELSE Unchanged

-----------------------------------------------------------------------------
\* Members of listed nodes that share their score with another member.
Tied(val, ch) ==
  {Member(x) : x \in {x \in On(ch, 0) : \E y \in On(ch, 0) :
                         val[y] = val[x] /\ Member(y) # Member(x)}}

\* The next state; nodes that nothing refers to are garbage.
Becomes(val, ch, d) ==
  /\ value' = [x \in Nodes |-> IF x \in On(ch, 0) \/ d[Member(x)] = x THEN val[x] ELSE 0]
  /\ chain' = ch
  /\ dict' = d
  /\ tied' = tied \cup Tied(val, ch)

\* Fault: a member that is there already is inserted a second time.
WithoutKeeping(m) == Unchanged

\* Zset.Delete of m, as far as the skiplist goes; dict stays as it is.
Without(m) == IF dict[m] = Nil THEN Unchanged ELSE Delete(m, value[dict[m]])

Entered(m, x) == [dict EXCEPT ![m] = x]

\* ZADD: Zset.Add.
Zadd(m, sc) ==
  LET d    == Without(m)
      free == {c \in 1 .. MaxCopies : <<m, c>> \notin On(d.chain, 0) \cup {dict[m]}}
      x    == <<m, CHOOSE c \in free : TRUE>>
      val  == [value EXCEPT ![x] = sc]
  IN  /\ free # {} /\ Len(d.chain[0]) < MaxNodes
      /\ \E lvl \in RandomLevel :
           /\ Becomes(val, Insert(d.chain, d.level, val, x, lvl), Entered(m, x))
           /\ level' = IF lvl > d.level THEN lvl ELSE d.level
      /\ score' = [score EXCEPT ![m] = sc]

\* ZREM of one member: Zset.Delete.
Zrem(m) ==
  LET d == Without(m)
  IN  /\ Becomes(value, d.chain, dict)
      /\ level' = d.level
      /\ score' = [score EXCEPT ![m] = None]

-----------------------------------------------------------------------------
\* ZRANGE: the nodes from index start to index stop.
Zrange(start, stop) ==
  SubSeq(chain[0], (IF start < 0 THEN 0 ELSE start) + 1,
         IF stop + 1 > Len(chain[0]) THEN Len(chain[0]) ELSE stop + 1)

Zscore(m) == IF dict[m] = Nil THEN None ELSE value[dict[m]]

\* The state has its type.
TypeOK ==
  /\ value \in [Nodes -> Nat]
  /\ chain \in [Levels -> Seq(Nodes)]
  /\ level \in Levels
  /\ dict \in [Members -> Nodes \cup {Nil}]
  /\ tied \subseteq Members

\* Node x comes before node y on level i.
Before(ch, i, x, y) == \E j, k \in 1 .. Len(ch[i]) : j < k /\ ch[i][j] = x /\ ch[i][k] = y

\* The skiplist stays one through ties, on which deletions fail: ZRANGE is in the
\* order of the scores and lists no node twice; each level is part of the one below,
\* in its order, so that Delete, whose walk can stop early on one level, never takes
\* a node out of some levels only; and the walks start at the highest level that has
\* a node.
WellFormed ==
  LET c == Zrange(0, Len(chain[0]))
  IN  /\ TypeOK
      /\ \A i, j \in 1 .. Len(c) : i < j => value[c[i]] <= value[c[j]] /\ c[i] # c[j]
      /\ \A i \in Levels \ {0} :
           /\ On(chain, i) \subseteq On(chain, i - 1)
           /\ \A x, y \in On(chain, i) : Before(chain, i, x, y) => Before(chain, i - 1, x, y)
      /\ level = 0 \/ chain[level] # <<>>
      /\ \A i \in Levels : i > level => chain[i] = <<>>

\* A member that was added has the score it was given, to ZSCORE and to ZRANGE.  One
\* that never shared its score is listed once if it was added, and not at all if it
\* was removed.  (One that did may stay behind: Insert puts the newest of equal
\* scores first, where Delete does not look.)
RangeIsExact ==
  \A m \in Members :
    /\ score[m] # None => Zscore(m) = score[m] /\ dict[m] \in On(chain, 0)
    /\ m \notin tied =>
         {x \in On(chain, 0) : Member(x) = m} = IF score[m] = None THEN {} ELSE {dict[m]}
=============================================================================
