--------------------------- MODULE MCBlockingLists ---------------------------
\* Constants for model checking BlockingLists.
EXTENDS BlockingLists, TLC

Cmd(op, k, n) == [op |-> op, key |-> k, n |-> n]

\* Pushes of one and of two elements, waits without and with a timeout.
MCCmds ==
  UNION {{Cmd("PUSH", k, 1), Cmd("PUSH", k, 2), Cmd("LPOP", k, 1), Cmd("SET", k, 0),
          Cmd("DEL", k, 0), Cmd("BLPOP", k, 0), Cmd("BLPOP", k, 1)} : k \in Keys}

\* Fewer, for two lists: a wait until after MaxTime is one without a timeout.
SomeCmds ==
  UNION {{Cmd("PUSH", k, 1), Cmd("PUSH", k, 2), Cmd("SET", k, 0), Cmd("BLPOP", k, 1)} : k \in Keys}

\* Used where no liveness is checked.
Alike == Permutations(Clients) \cup Permutations(Keys)
=============================================================================
