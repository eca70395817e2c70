-------------------------------- MODULE Deque --------------------------------
(***************************************************************************)
(* What the list commands of internal/store/list_cmd.go promise about one  *)
(* key: a sequence that grows and shrinks at its ends, empty when the key  *)
(* does not exist, and a reply to every command.  Values implements it.    *)
(***************************************************************************)
EXTENDS Integers, Sequences, SequencesExt

CONSTANTS
  Elems,
  MaxArgs,      \* bound on the elements of one push
  MaxLen,       \* bound on the list
  Counts,       \* counts of LPOP
  Indices       \* indices of LRANGE

VARIABLES list, reply

Args == UNION {[1 .. n -> Elems] : n \in 1 .. MaxArgs}

Null          == [announced |-> 0, sent |-> <<>>, null |-> TRUE]
Array(n, s)   == [announced |-> n, sent |-> s, null |-> FALSE]
Size(n)       == Array(n, <<>>)

Pushed(l) == Len(l) <= MaxLen /\ reply' = Size(Len(l)) /\ list' = l

LPush == LET l == list IN \E a \in Args : Pushed(Reverse(a) \o l)
RPush == LET l == list IN \E a \in Args : Pushed(l \o a)

LPop(count) ==
  LET l == list
      n == IF count > Len(l) THEN Len(l) ELSE count
  IN  IF n <= 0 THEN reply' = Null /\ UNCHANGED list
      ELSE /\ reply' = Array(n, SubSeq(l, 1, n))
           /\ list' = SubSeq(l, n + 1, Len(l))

LLen == reply' = Size(Len(list)) /\ UNCHANGED list

\* Indices start at 0; the announced length does not look at the list.
LRange(start, stop) ==
  LET l == list
  IN  /\ reply' = IF l = <<>> THEN Null
                  ELSE Array(stop - start + 1,
                             SubSeq(l, (IF start < 0 THEN 0 ELSE start) + 1,
                                    IF stop >= Len(l) THEN Len(l) ELSE stop + 1))
      /\ UNCHANGED list

\* The key is deleted or overwritten.
Clear == list' = <<>> /\ reply' = Null

Init == list = <<>> /\ reply = Null

Next ==
  \/ Clear
  \/ LPush
  \/ RPush
  \/ LLen
  \/ \E n \in Counts : LPop(n)
  \/ \E i, j \in Indices : LRange(i, j)

Spec == Init /\ [][Next]_<<list, reply>>
=============================================================================
