-------------------------------- MODULE Resp --------------------------------
(***************************************************************************)
(* The protocol as the server reads it (internal/resp, redis_parser.go):   *)
(* what a client sends is a sequence of tokens, a header "*n" that         *)
(* announces n strings, strings, and bytes that start no value; a read     *)
(* ends anywhere, so that the last request may be incomplete.              *)
(*                                                                         *)
(* Of a header the digits matter, of a string only what it says; a token   *)
(* that is cut in two is a token that has not arrived.  Strings are all    *)
(* the elements there are: on an integer or an array within an array the   *)
(* server panics.                                                          *)
(***************************************************************************)
EXTENDS Integers, SequencesExt

CONSTANT Words                        \* what a string may say

Header(bytes, id) == [kind |-> "header", bytes |-> bytes, id |-> id]
String(w)         == [kind |-> "string", says |-> w]
Bad               == [kind |-> "bad"]

Tokens == [kind : {"header"}, bytes : Seq(0 .. 255), id : Nat]
            \cup [kind : {"string"}, says : Words] \cup {Bad}

-----------------------------------------------------------------------------
\* strconv.AppendInt of a number that is not negative.
AppendInt[n \in Nat] == IF n < 10 THEN <<48 + n>> ELSE Append(AppendInt[n \div 10], 48 + (n % 10))

\* A request and its number; the number is not on the wire, it tells requests apart.
encodeCommand(words, id) ==
  <<Header(AppendInt[Len(words)], id)>> \o [i \in 1 .. Len(words) |-> String(words[i])]

\* "b - '0'" is the difference of two bytes, whatever the bytes are.
readLength(bytes) == FoldLeft(LAMBDA n, b : n * 10 + ((b - 48) % 256), 0, bytes)

\* The strings of the array whose header is at p: all there, cut short, or an error.
readArray(data, p) ==
  LET n    == readLength(data[p].bytes)
      here == SubSeq(data, p + 1, Min({p + n, Len(data)}))
  IN  [status |-> IF Bad \in Range(here) THEN "error" ELSE IF Len(here) < n THEN "incomplete" ELSE "ok",
       words  |-> [i \in 1 .. Len(here) |-> IF here[i].kind = "string" THEN here[i].says ELSE ""],
       next   |-> p + n + 1]

\* The requests of data and where the first incomplete one starts; a string outside
\* an array and an empty array are skipped.
Decode(data) ==
  LET From[p \in 1 .. Len(data) + 1] ==
        IF p > Len(data) THEN [cmds |-> <<>>, rest |-> p, err |-> FALSE]
        ELSE CASE data[p].kind = "bad"    -> [cmds |-> <<>>, rest |-> p, err |-> TRUE]
               [] data[p].kind = "string" -> From[p + 1]
               [] data[p].kind = "header" ->
                    LET a == readArray(data, p)
                    IN  CASE a.status = "error"      -> [cmds |-> <<>>, rest |-> p, err |-> TRUE]
                          [] a.status = "incomplete" -> [cmds |-> <<>>, rest |-> p, err |-> FALSE]
                          [] a.status = "ok" ->
                               IF a.words = <<>> THEN From[a.next]
                               ELSE [From[a.next] EXCEPT !.cmds = <<[id |-> data[p].id, words |-> a.words]>> \o @]
  IN  From[1]

\* An error loses the commands before it as well.
readCommands(data) == LET d == Decode(data) IN IF d.err THEN [d EXCEPT !.cmds = <<>>, !.rest = 1] ELSE d
=============================================================================
