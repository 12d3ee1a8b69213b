------------------------------ MODULE MCRouting ------------------------------
(* Small instances of Routing.                                             *)
EXTENDS Routing

Tokens9 == {"/", GatewayPrefix, LargeContextMarker, "a", "b", "c", "m", "n", "u"}

\* Ids and shorthands: plain ones, one that is a provider's name, one with a
\* slash, one that ends with the marker, one that starts with the prefix.
Names6 == {<<"m">>, <<"a">>, <<"m", "/", "n">>, <<"m", LargeContextMarker>>,
           <<GatewayPrefix, "m">>, <<"a", "/", "m">>}

\* Models with a shorthand or with another name upstream.
Models6 ==
  {[id |-> id, upstream |-> id, aliases |-> <<alias>>, large |-> large] :
     id \in Names6, alias \in Names6, large \in BOOLEAN}
  \cup {[id |-> id, upstream |-> <<"u">>, aliases |-> <<>>, large |-> large] :
     id \in Names6, large \in BOOLEAN}

\* Two models, of two providers or of one.
Files2 ==
  {<<[name |-> "a", models |-> <<m>>], [name |-> "b", models |-> <<n>>]>> :
     m \in Models6, n \in Models6}
  \cup {<<[name |-> "a", models |-> <<m, n>>]>> : m \in Models6, n \in Models6}

Requested48 ==
  {provider \o name : provider \in {<<>>, <<"a", "/">>, <<"b", "/">>, <<"c", "/">>},
                      name \in Names6}
  \cup {<<GatewayPrefix>> \o provider \o name :
          provider \in {<<>>, <<"a", "/">>, <<"b", "/">>}, name \in Names6}
  \cup {Append(name, LargeContextMarker) : name \in Names6} \cup {<<>>}
=============================================================================
