------------------------------ MODULE Quicklist ------------------------------
(***************************************************************************)
(* One list as ds/quicklist.go and ds/listpack.go keep it: chunks that are *)
(* doubly linked, filled up to a limit of bytes at either end and emptied  *)
(* from the head, under LPUSH, RPUSH, LPOP and LRANGE.                     *)
(*                                                                         *)
(* A listpack is its elements and the two numbers of its header.  An entry *)
(* is an element of EntryLen bytes; a pushed string that is a numeral is   *)
(* the integer it denotes already.                                         *)
(***************************************************************************)
EXTENDS Integers, Sequences, FiniteSets, SequencesExt

CONSTANTS
  Elems, MaxArgs, MaxLen, Counts, Indices,   \* as in Deque
  EntryLen,           \* the bytes of the entry of an element
  Nodes,              \* the QuicklistNodes that may exist at a time
  HeaderSize,         \* headerSize
  Estimated,          \* `estimated`, what a push reckons with
  MaxListpackBytes    \* maxListpackBytes

Nil == 0

ConstantsFit ==
  /\ Nil \notin Nodes /\ IsFiniteSet(Nodes) /\ Cardinality(Nodes) >= MaxLen
  /\ EntryLen \in [Elems -> Nat \ {0}]
  /\ {HeaderSize, Estimated, MaxListpackBytes} \subseteq Nat
  /\ HeaderSize + 1 + Estimated < MaxListpackBytes

VARIABLES
  ql,           \* the Quicklist
  reply         \* the reply to the last command

Args == UNION {[1 .. n -> Elems] : n \in 1 .. MaxArgs}

Null        == [announced |-> 0, sent |-> <<>>, null |-> TRUE]
Array(n, s) == [announced |-> n, sent |-> s, null |-> FALSE]
Size(n)     == Array(n, <<>>)

\* len(lp.data) of a listpack of these elements: header, entries, end byte.
DataLen(s) ==
  LET upTo[i \in 0 .. Len(s)] == IF i = 0 THEN HeaderSize + 1 ELSE upTo[i - 1] + EntryLen[s[i]]
  IN  upTo[Len(s)]

NewListPack ==
  [elems |-> <<>>, totalLen |-> DataLen(<<>>), elements |-> 0, prev |-> Nil, next |-> Nil]

\* The key has no list.
NoQuicklist == [node |-> [y \in Nodes |-> NewListPack], head |-> Nil, tail |-> Nil, len |-> 0]

NewQuicklist ==
  LET x == CHOOSE x \in Nodes : TRUE
  IN  [node |-> [y \in Nodes |-> NewListPack], head |-> x, tail |-> x, len |-> 0]

-----------------------------------------------------------------------------
\* The nodes from `first` on along the links `to`.
Walk(first, to) ==
  LET at[i \in 1 .. Cardinality(Nodes)] ==
        IF i = 1 THEN first ELSE LET x == at[i - 1] IN IF x = Nil THEN Nil ELSE to[x]
  IN  SelectSeq([i \in 1 .. Cardinality(Nodes) |-> at[i]], LAMBDA x : x # Nil)

Forward(q)  == Walk(q.head, [x \in Nodes |-> q.node[x].next])
Backward(q) == Walk(q.tail, [x \in Nodes |-> q.node[x].prev])

\* The elements in the order in which GetElements and DumpQuicklist meet them.
Elements(q) ==
  LET c == Forward(q)
      upTo[i \in 0 .. Len(c)] == IF i = 0 THEN <<>> ELSE upTo[i - 1] \o q.node[c[i]].elems
  IN  upTo[Len(c)]

Unused(q) ==
  LET used == Range(Forward(q)) \cup {q.head, q.tail} IN CHOOSE x \in Nodes : x \notin used

\* AddInt, AddString
Add(q, x, e, prepend) ==
  LET s == IF prepend THEN <<e>> \o q.node[x].elems ELSE Append(q.node[x].elems, e)
  IN  [q EXCEPT !.len = @ + 1,
                !.node[x] = [@ EXCEPT !.elems = s, !.totalLen = DataLen(s), !.elements = @ + 1]]

\* The list, with a first node if the end that grows has none.
Grounded(q, end) ==
  LET x == Unused(q)
  IN  IF end # Nil THEN q ELSE [q EXCEPT !.node[x] = NewListPack, !.head = x, !.tail = x]

\* Fault: the new node does not know its neighbour.
SplitTailOneWay(q) ==
  LET x == Unused(q)
  IN  [q EXCEPT !.node[q.tail].next = x, !.node[x] = NewListPack, !.tail = x]

SplitTail(q) ==
  LET x == Unused(q)
  IN  [q EXCEPT !.node[q.tail].next = x, !.node[x] = [NewListPack EXCEPT !.prev = q.tail], !.tail = x]

SplitHead(q) ==
  LET x == Unused(q)
  IN  [q EXCEPT !.node[q.head].prev = x, !.node[x] = [NewListPack EXCEPT !.next = q.head], !.head = x]

AddToTail(q, e) ==
  LET g == Grounded(q, q.tail)
      s == IF g.node[g.tail].totalLen + Estimated > MaxListpackBytes THEN SplitTail(g) ELSE g
  IN  Add(s, s.tail, e, FALSE)

\* Fault: behind the other elements of the head.
AddToHeadBehind(q, e) ==
  LET g == Grounded(q, q.head)
      s == IF g.node[g.head].totalLen + Estimated >= MaxListpackBytes THEN SplitHead(g) ELSE g
  IN  Add(s, s.head, e, FALSE)

AddToHead(q, e) ==
  LET g == Grounded(q, q.head)
      s == IF g.node[g.head].totalLen + Estimated >= MaxListpackBytes THEN SplitHead(g) ELSE g
  IN  Add(s, s.head, e, TRUE)

-----------------------------------------------------------------------------
\* A node is taken out; what it held is garbage.
Unlinked(q, x) ==
  LET p == q.node[x].prev
      n == q.node[x].next
  IN  [q EXCEPT !.head = IF p = Nil THEN n ELSE @,
                !.tail = IF n = Nil THEN p ELSE @,
                !.node = [y \in Nodes |->
                            CASE y = x -> NewListPack
                              [] y = p -> [@[y] EXCEPT !.next = n]
                              [] y = n -> [@[y] EXCEPT !.prev = p]
                              [] OTHER -> @[y]]]

\* A listpack without its first k elements.
Shrunk(c, k) ==
  LET s == SubSeq(c.elems, k + 1, Len(c.elems))
  IN  [c EXCEPT !.elems = s, !.elements = @ - k, !.totalLen = DataLen(s)]

\* One node of RemoveElements.
Drop(r) ==
  LET x == r.node
      c == r.q.node[x]
      k == IF r.left < Len(c.elems) THEN r.left ELSE Len(c.elems)
      q == [r.q EXCEPT !.node[x] = Shrunk(c, k), !.len = @ - k]
  IN  [q |-> IF q.node[x].elements = 0 THEN Unlinked(q, x) ELSE q,
       node |-> c.next, left |-> r.left - k, out |-> r.out \o SubSeq(c.elems, 1, k)]

\* The list without its first n elements, and these.
RemoveElements(q, n) ==
  LET run[i \in 0 .. Cardinality(Nodes)] ==
        IF i = 0 THEN [q |-> q, node |-> q.head, left |-> n, out |-> <<>>]
        ELSE LET r == run[i - 1] IN IF r.node = Nil \/ r.left = 0 THEN r ELSE Drop(r)
      end == run[Cardinality(Nodes)]
  IN  [q |-> IF end.q.head = Nil THEN [end.q EXCEPT !.tail = Nil] ELSE end.q, out |-> end.out]

Announced(start, stop) == stop - start + 1

GetElements(q, start, stop) ==
  IF q.head = Nil \/ q.len = 0 THEN Null
  ELSE Array(Announced(start, stop),
             LET s == Elements(q)
             IN  SubSeq(s, (IF start < 0 THEN 0 ELSE start) + 1,
                        IF stop >= Len(s) THEN Len(s) ELSE stop + 1))

-----------------------------------------------------------------------------
\* LPUSH and RPUSH of the arguments a, one after the other.
Pushed(q, a) == FoldLeft(AddToTail, q, a)
PushedAtHead(q, a) == FoldLeft(AddToHead, q, a)

Init  == ql = NoQuicklist /\ reply = Null
Clear == ql' = NoQuicklist /\ reply' = Null

\* A push to the list q: ql, or a new one.
LPush(q) ==
  \E a \in Args :
    /\ q.len + Len(a) <= MaxLen
    /\ ql' = PushedAtHead(q, a)
    /\ reply' = Size(ql'.len)

RPush(q) ==
  \E a \in Args :
    /\ q.len + Len(a) <= MaxLen
    /\ ql' = Pushed(q, a)
    /\ reply' = Size(ql'.len)

LPop(count) ==
  LET n == IF count > ql.len THEN ql.len ELSE count
      r == RemoveElements(ql, n)
  IN  IF ql.head = Nil \/ ql.len = 0 \/ count <= 0
      THEN reply' = Null /\ UNCHANGED ql
      ELSE ql' = r.q /\ reply' = Array(n, r.out)

LLen == reply' = Size(ql.len) /\ UNCHANGED ql

LRange(start, stop) == reply' = GetElements(ql, start, stop) /\ UNCHANGED ql

-----------------------------------------------------------------------------
\* The state has its type, and the bounds suffice.
TypeOK ==
  /\ DOMAIN ql.node = Nodes
  /\ \A x \in Nodes :
       /\ ql.node[x].elems \in Seq(Elems)
       /\ {ql.node[x].prev, ql.node[x].next} \subseteq Nodes \cup {Nil}
  /\ {ql.head, ql.tail} \subseteq Nodes \cup {Nil}
  /\ ql.len \in 0 .. MaxLen

\* The structure later commands rely on.  Both directions of the links agree (RPUSH
\* goes by tail, LPUSH by head, and pops follow next).  Each header is that of its
\* elements, and Size() is their sum.  LPOP takes every chunk it empties out of the
\* list.  A chunk outgrows its limit by one entry at most, the one at the head or
\* at the tail that was longer than the estimate.
WellFormed ==
  /\ TypeOK
  /\ Backward(ql) = Reverse(Forward(ql))
  /\ ql.len = Len(Elements(ql))
  /\ \A x \in Range(Forward(ql)) :
       LET c == ql.node[x]
           s == c.elems
       IN  /\ s # <<>>
           /\ c.elements = Len(s) /\ c.totalLen = DataLen(s)
           /\ \E e \in {s[1], s[Len(s)]} : c.totalLen - EntryLen[e] + Estimated <= MaxListpackBytes
=============================================================================
