------------------------------ MODULE AofRewrite ------------------------------
(***************************************************************************)
(* The append-only file: BGREWRITEAOF forks a child that dumps its copy of *)
(* the store into a temporary file and renames it (store/aof.go), and the  *)
(* server replays the file when it starts (main.go).  The children of      *)
(* several rewrites share the name of the temporary file.                  *)
(*                                                                         *)
(* A file is a sequence of cells, one for each Write: a command, Hole (the *)
(* zeros between the end of a truncated file and the offset of a writer),  *)
(* Torn (what may be left of two commands written to one place) or Part    *)
(* (what a write that failed has left of its command).  No error of the    *)
(* file system stops a rewrite: the opening, every write and the renaming  *)
(* may fail, and the child goes on.                                        *)
(***************************************************************************)
EXTENDS Integers, Sequences, FiniteSets, SequencesExt

CONSTANTS
  Keys,
  Lists,        \* the lists of the store, as sequences
  Wide,         \* the number of values of a deadline, a uint64
  Second,       \* milliseconds in a second
  Soon,         \* a deadline that a client sets, in milliseconds
  Today,        \* the clock when the server starts
  Kids,         \* bound on the forks, and the children
  MaxChanges    \* bound on the commands that change a key

\* A string, a collection that is no list, no entry.
String  == <<"string">>
Other   == <<"other">>
None    == <<"none">>
NoFile  == "none"
NoKey   == "none"
NoDate  == -1

\* What dumpkey writes no RPUSH for: the other values are lists with elements, those a
\* replay has put together of several included.
Unlisted == {String, Other, None, <<>>}

ASSUME KidsAssumption == NoFile \notin Kids
ASSUME TimeAssumption == Wide \in Nat \ {0} /\ Second \in Nat /\ Soon \in Nat /\ Today \in Nat

VARIABLES
  store, expires,       \* the key space of the server
  kid,                  \* the children
  tmp, aof,             \* the files that have these names
  data,                 \* what the files contain; a file is named after the child that made it
  changes               \* commands so far

\* History, read by no action: the store as the last child to open a file had it, the
\* files a second child opened or renamed, and those a write to which failed, since they
\* were last opened by a child that had them for itself.
VARIABLES image, shared, failed

vars == <<store, expires, kid, tmp, aof, data, changes, image, shared, failed>>

NoKeys == [store |-> [k \in Keys |-> None], expires |-> [k \in Keys |-> NoDate]]

Idle == [phase |-> "idle", file |-> NoFile, pos |-> 0, left |-> {}, key |-> NoKey, copy |-> NoKeys]

Init ==
  /\ store = NoKeys.store /\ expires = NoKeys.expires
  /\ kid = [p \in Kids |-> Idle]
  /\ tmp = NoFile /\ aof = NoFile
  /\ data = [f \in Kids |-> <<>>]
  /\ changes = 0
  /\ image = [f \in Kids |-> NoKeys]
  /\ shared = {} /\ failed = {}

Cell(c, k, l, d) == [cmd |-> c, key |-> k, list |-> l, ms |-> d]

Rpush(k, l)  == Cell("RPUSH", k, l, 0)
Expire(k, d) == Cell("EXPIRE", k, <<>>, d)
Hole         == Cell("hole", NoKey, <<>>, 0)
Torn         == Cell("torn", NoKey, <<>>, 0)
Part         == Cell("part", NoKey, <<>>, 0)

Broken == {Hole, Torn, Part}

-----------------------------------------------------------------------------
\* A client changes an entry: the commands of Keyspace, in one.
Change(k, v, d) ==
  /\ changes < MaxChanges
  /\ v = None => d = NoDate
  /\ store' = [store EXCEPT ![k] = v]
  /\ expires' = [expires EXCEPT ![k] = d]
  /\ changes' = changes + 1
  /\ UNCHANGED <<kid, tmp, aof, data, image, shared, failed>>

\* BGREWRITEAOF: the child has the store as it is now.
Bgrewriteaof(p) ==
  /\ kid[p].phase = "idle"
  /\ kid' = [kid EXCEPT ![p].phase = "open",
                        ![p].copy = [store |-> store, expires |-> expires],
                        ![p].left = {k \in Keys : store[k] # None}]
  /\ UNCHANGED <<store, expires, tmp, aof, data, changes, image, shared, failed>>

Holders(f) == {p \in Kids : kid[p].file = f /\ kid[p].phase \in {"dump", "expire"}}

\* Fault: a file that is there is not truncated.
OpenedAppending(f, d) == d

\* The files once f was opened with O_CREATE and O_TRUNC.
Opened(f, d) == [d EXCEPT ![f] = <<>>]

\* The file the temporary name stands for; a new one if there is none.
Target(p) == IF tmp = NoFile THEN p ELSE tmp

Open(p) ==
  LET f == Target(p)
  IN  /\ kid[p].phase = "open"
      /\ kid' = [kid EXCEPT ![p].phase = "dump", ![p].file = f]
      /\ tmp' = f
      /\ data' = Opened(f, data)
      /\ image' = [image EXCEPT ![f] = kid[p].copy]
      /\ shared' = IF Holders(f) = {} THEN shared \ {f} ELSE shared \cup {f}
      /\ failed' = failed \ {f}
      /\ UNCHANGED <<store, expires, aof, changes>>

\* The error of the opening is ignored: the child dumps to no file, and every Write,
\* Sync and Close of it fails.
OpenFails(p) ==
  /\ kid[p].phase = "open"
  /\ kid' = [kid EXCEPT ![p].phase = "dump"]
  /\ UNCHANGED <<store, expires, tmp, aof, data, changes, image, shared, failed>>

\* What writing command c at offset n can make of content s.
Written(s, n, c) ==
  LET long == [i \in 1 .. (IF n + 1 > Len(s) THEN n + 1 ELSE Len(s)) |->
                 IF i = n + 1 THEN c ELSE IF i <= Len(s) THEN s[i] ELSE Hole]
  IN  IF n < Len(s) /\ s[n + 1] # c THEN {long, [long EXCEPT ![n + 1] = Torn]} ELSE {long}

\* p goes on in phase ph, with offset n in its file.
Advance(p, n, ph) ==
  kid' = [kid EXCEPT ![p].pos = n, ![p].phase = ph.phase, ![p].left = ph.left, ![p].key = ph.key]

\* fp.Write of c by p: it writes the command, or fails with nothing or a part of it
\* written, and its error is ignored; without a file it does nothing.
Write(p, c, ph) ==
  LET f == kid[p].file
      n == kid[p].pos
  IN  \/ /\ f = NoFile
         /\ Advance(p, n, ph)
         /\ UNCHANGED <<data, failed>>
      \/ /\ f # NoFile
         /\ \E s \in Written(data[f], n, c) : data' = [data EXCEPT ![f] = s]
         /\ Advance(p, n + 1, ph)
         /\ UNCHANGED failed
      \/ /\ f # NoFile
         /\ \/ UNCHANGED data /\ Advance(p, n, ph)
            \/ /\ \E s \in Written(data[f], n, Part) : data' = [data EXCEPT ![f] = s]
               /\ Advance(p, n + 1, ph)
         /\ failed' = failed \cup {f}

Outside == <<store, expires, tmp, aof, changes, image, shared>>

\* A string is in StrVal, not in Value: the child panics.
StringPanics(p, k) ==
  /\ kid' = [kid EXCEPT ![p] = [Idle EXCEPT !.phase = "ended"]]
  /\ UNCHANGED <<data, failed>>

\* dumpkey of the next key, up to its deadline: Go walks the map in any order.
DumpKey(p) ==
  /\ kid[p].phase = "dump"
  /\ \E k \in kid[p].left :
       LET v     == kid[p].copy.store[k]
           after == [phase |-> IF kid[p].copy.expires[k] = NoDate THEN "dump" ELSE "expire",
                     left  |-> kid[p].left \ {k}, key |-> k]
       IN  \/ v = String /\ StringPanics(p, k)
           \/ v \notin Unlisted /\ Write(p, Rpush(k, v), after)
           \/ /\ v \in {Other, <<>>}
              /\ Advance(p, kid[p].pos, after)
              /\ UNCHANGED <<data, failed>>
  /\ UNCHANGED Outside

\* The end of dumpkey: the deadline, in milliseconds since 1970, as it is.
DumpExpiry(p) ==
  /\ kid[p].phase = "expire"
  /\ Write(p, Expire(kid[p].key, kid[p].copy.expires[kid[p].key]),
           [phase |-> "dump", left |-> kid[p].left, key |-> kid[p].key])
  /\ UNCHANGED Outside

\* os.Rename of whatever file has the temporary name.
Names == [tmp |-> NoFile, aof |-> IF tmp = NoFile THEN aof ELSE tmp]

\* The end of the child; the error of the renaming is ignored.
Rename(p) ==
  /\ kid[p].phase = "dump" /\ kid[p].left = {}
  /\ kid' = [kid EXCEPT ![p] = [Idle EXCEPT !.phase = "ended"]]
  /\ \/ /\ tmp' = Names.tmp /\ aof' = Names.aof
        /\ shared' = IF tmp \in {NoFile, kid[p].file} THEN shared ELSE shared \cup {tmp}
     \/ UNCHANGED <<tmp, aof, shared>>
  /\ UNCHANGED <<store, expires, data, changes, image, failed>>

-----------------------------------------------------------------------------
\* setExpiry of ms seconds: the milliseconds since 1970 that stand in the file are taken
\* for seconds, in the arithmetic of a uint64.
Dated(ms) == (Today + ms * Second) % Wide

\* One command of the replay, on the key space s.
Replayed(s, c) ==
  IF c \in Broken THEN s
  ELSE IF c.cmd = "RPUSH"
  THEN [s EXCEPT !.store[c.key] = IF @ = None THEN c.list ELSE @ \o c.list]
  ELSE IF s.store[c.key] = None THEN s
  ELSE [s EXCEPT !.expires[c.key] = Dated(c.ms)]

Replay(s) == FoldLeft(Replayed, NoKeys, s)

\* The commands of s that may be replayed: those up to the first broken cell are; a
\* command that is cut takes the bytes after it, up to anywhere.
Readings(s) ==
  {[i \in DOMAIN s |-> IF i \in read THEN s[i] ELSE Hole] : read \in
     {r \in SUBSET DOMAIN s : \A i \in DOMAIN s :
        (\A j \in 1 .. i : s[j] \notin Broken) => i \in r}}

\* What Restoreaof can make of content s: a file with bytes that are no value is not
\* replayed at all, and of an incomplete one what came before is.
Restored(s) ==
  IF Range(s) \cap Broken = {} THEN {Replay(s)}
  ELSE {NoKeys} \cup {Replay(r) : r \in Readings(s)}

\* The server stops and starts again, with no keys if there is no file or it cannot be
\* read; its children go on.
Restart ==
  \E r \in {NoKeys} \cup (IF aof = NoFile THEN {} ELSE Restored(data[aof])) :
    /\ store' = r.store /\ expires' = r.expires
    /\ UNCHANGED <<kid, tmp, aof, data, changes, image, shared, failed>>

Next ==
  \/ \E k \in Keys, v \in Lists \cup {String, Other, None}, d \in {NoDate, Soon} : Change(k, v, d)
  \/ \E p \in Kids : Bgrewriteaof(p) \/ Open(p) \/ OpenFails(p) \/ DumpKey(p) \/ DumpExpiry(p) \/ Rename(p)
  \/ Restart

Spec == Init /\ [][Next]_vars

-----------------------------------------------------------------------------
\* The state has its type; no file has both names.
TypeOK ==
  /\ DOMAIN store = Keys /\ expires \in [Keys -> Nat \cup {NoDate}]
  /\ {tmp, aof} \subseteq Kids \cup {NoFile} /\ (tmp # aof \/ tmp = NoFile)
  /\ \A f \in Kids : \A c \in Range(data[f]) : c \in Broken \/ (c.cmd \in {"RPUSH", "EXPIRE"} /\ c.key \in Keys)
  /\ shared \subseteq Kids /\ failed \subseteq Kids

\* What the replay makes of the store s: its lists, with the deadlines of a replay.
\* (Empty lists are not written.)
Persisted(s) ==
  LET kept == {k \in Keys : s.store[k] \notin Unlisted}
  IN  [store   |-> [k \in Keys |-> IF k \in kept THEN s.store[k] ELSE None],
       expires |-> [k \in Keys |-> IF k \in kept /\ s.expires[k] # NoDate THEN Dated(s.expires[k]) ELSE NoDate]]

\* The file replays to one state of the store, the one its rewriter was forked with,
\* and that state held no string; unless a second rewriter opened the file or renamed
\* it, or a write to it failed.  An opening or a renaming that fails leaves the file
\* that was there before.
AofIsSnapshot ==
  /\ TypeOK
  /\ aof # NoFile /\ aof \notin shared \cup failed =>
       /\ Restored(data[aof]) = {Persisted(image[aof])}
       /\ \A k \in Keys : image[aof].store[k] # String
=============================================================================
