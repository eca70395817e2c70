------------------------------- MODULE MCValues -------------------------------
(***************************************************************************)
(* Constants for model checking Values.                                    *)
(*                                                                         *)
(* Listpacks hold one long entry or a few short ones; numerals lie at the  *)
(* ends of 16 bits, around zero, where the low byte carries, and outside;  *)
(* filters have the last bit of a word, several words, no bit and a        *)
(* negative size; places lie in the corner cell of the map, on its edges   *)
(* and past them.                                                          *)
(***************************************************************************)
EXTENDS Values

Two == 1 .. 2

ShortAndLong == {"short", "long"}
Lengths == [e \in ShortAndLong |-> IF e = "short" THEN 4 ELSE 20]
FiveChunks == 1 .. 5
PopOf   == {0, 1, 2, 4}
RangeOf == {-1, 0, 1, 3}

Numbers == {-32768, -1, 0, 255, 256, 32767, 32768}

Words3 == {"x", "y", "z"}
FirstHash  == [w \in Words3 |-> CASE w = "x" -> 63 [] w = "y" -> 129 [] w = "z" -> 130]
SecondHash == [w \in Words3 |-> CASE w = "x" -> 1  [] w = "y" -> 66  [] w = "z" -> 65]
Filters == {[size |-> 64, k |-> 1], [size |-> 130, k |-> 3], [size |-> 0, k |-> 0],
            [size |-> -50, k |-> -3], [size |-> -127, k |-> -8]}

Degree == 1024
Corner == {[lat |-> -90 * Degree, lon |-> -180 * Degree], [lat |-> -90 * Degree + 180, lon |-> -180 * Degree + 360]}
Map    == Corner \cup {[lat |-> -90 * Degree + 181, lon |-> -180 * Degree], [lat |-> 0, lon |-> 0]}
PinSet == {"here", "there"}
=============================================================================
