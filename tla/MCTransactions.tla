--------------------------- MODULE MCTransactions ---------------------------
\* Constants for model checking Transactions.
EXTENDS Transactions, TLC

CONSTANTS a, b     \* two values

MCObjs == {a, b}

Cmd(op, k, o, ttl) == [op |-> op, key |-> k, obj |-> o, ttl |-> ttl]

\* Each key can be written, changed in place, deleted and watched; SET may give
\* a deadline of one clock unit.
MCCmds ==
  UNION {{Cmd("SET", k, a, -1), Cmd("SET", k, a, 1), Cmd("PUSH", k, b, -1), Cmd("GET", k, a, -1),
          Cmd("DEL", k, a, -1), Cmd("WATCH", k, a, -1), Cmd("EXPIRE", k, a, -1)} : k \in Keys}
  \cup {Cmd("MULTI", CHOOSE k \in Keys : TRUE, a, -1)}

\* Used where no liveness is checked.
AnyClient == Permutations(Clients)

\* The counter of INFO and the signals of the last command are read by no guard
\* and no property.
WithoutStat == <<[db EXCEPT !.stat = 0, !.sig = {}], now, flags, watched, exec, history>>
=============================================================================
