----------------------------- MODULE MCSessions -----------------------------
\* Constants for model checking Sessions: five kinds of conversation.
EXTENDS Sessions

CONSTANTS c1, c2

MCWords == {"PING", "FOO", "MULTI", "EXEC", "SUBSCRIBE", "UNSUBSCRIBE", "PUBLISH", "BLPOP", "DISCARD", "a", "b",
            "bad", "negative", "inline"}

Talk(says, times) == [n \in 1 .. times |-> says]

Silent == <<>>

\* Transactions and BLPOP; SUBSCRIBE with either; a request behind the waits of a
\* transaction and behind one that they unblock; subscriptions and a publisher; and what
\* is not a request.
MCScripts ==
  {(c1 :> Talk({<<"MULTI">>, <<"EXEC">>, <<"BLPOP">>, <<"PING">>}, 5)) @@ (c2 :> Silent),
   (c1 :> Talk({<<"MULTI">>, <<"EXEC">>, <<"BLPOP">>, <<"SUBSCRIBE", "a">>, <<"PUBLISH", "a">>}, 4))
     @@ (c2 :> Silent),
   (c1 :> <<{<<"MULTI">>}, {<<"BLPOP">>}, {<<"BLPOP">>}, {<<"EXEC">>}>>
            \o Talk({<<"BLPOP">>, <<"PING">>, <<"SUBSCRIBE", "a">>}, 3)) @@ (c2 :> Silent),
   (c1 :> Talk({<<"SUBSCRIBE", "a", "b">>, <<"UNSUBSCRIBE">>, <<"UNSUBSCRIBE", "a">>}, 3))
     @@ (c2 :> Talk({<<"SUBSCRIBE", "a">>, <<"PUBLISH", "a">>}, 2)),
   (c1 :> Talk({<<"PING">>, <<"FOO">>, <<"MULTI">>, <<"EXEC">>, <<"DISCARD">>, <<"BLPOP">>, <<"bad">>,
                <<"negative">>, <<"inline">>}, 3))
     @@ (c2 :> Silent)}
=============================================================================
