----------------------------- MODULE MCKeyspace -----------------------------
\* Constants for model checking Keyspace.
EXTENDS Keyspace, TLC

MCObjs == {IntObj(n) : n \in IntMin .. IntMax + 1} \cup {CollObj}

FewObjs == {IntObj(0), IntObj(1), StrObj, CollObj}

OneObj == {StrObj}
OneList == {CollObj}
NoObjs == {}
\* A literal beyond the range, which INCR brings back into it.
OneLiteral == {IntObj(IntMax + 1)}

Plain == {-1}
PlainOrShort == {-1, 1}
\* Back beyond the beginning of time, and just back.
ExpireSome == {-5, -1}
NoTtls == {}

Soon == {2}
NoDues == {}

\* Keys are interchangeable; used where no liveness is checked.
AnyKey == Permutations(Keys)

\* No guard and no effect reads the previous command's reply or signals, and
\* the action properties only read those of the step itself: states that differ
\* in nothing else need one visit.
StateOnly == <<[db EXCEPT !.sig = {}], now>>
=============================================================================
