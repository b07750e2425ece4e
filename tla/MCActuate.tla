------------------------------- MODULE MCActuate -------------------------------
(* A small instance of Actuate. *)
EXTENDS Actuate

Entry(prefix, wild, methods) == [prefix |-> prefix, wild |-> wild, methods |-> methods]

\* api* for GET; hub/* for both, but hub/a for GET alone; and * for POST.
SmallAllowlist ==
    << Entry(<<"api">>, TRUE, {"GET"}),
       Entry(<<"hub", "/", "a">>, FALSE, {"GET"}),
       Entry(<<"hub", "/">>, TRUE, {"GET", "POST"}),
       Entry(<<"api", "/", "a">>, FALSE, {"POST"}),
       Entry(<<>>, TRUE, {"POST"}) >>

InLowerCase == [p \in Pieces |-> IF p = "API" THEN "api" ELSE p]

\* Hosts that the list names, that extend one by a label or by letters, or are no one's;
\* and spellings: capitals, the default port, dot segments, an empty path, a query and a
\* fragment.
SmallUrls ==
    { host \o path :
        host \in {<<"api">>, <<"hub">>, <<"api", ".", "a">>, <<"api", "a">>, <<"a">>},
        path \in {<<"/", "a">>, <<"/", "a", "a">>} }
    \cup { <<"hub">> \o path :
        path \in {<<>>, <<"?", "a">>, <<"/", "#">>, <<"/", "a", "/", "..", "/", "a">>} }
    \cup { <<"API", "/", "a">>, <<"api", ":", "443", "/", ".">> }
===============================================================================
