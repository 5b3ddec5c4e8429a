---------------------------- MODULE MCPartitions ----------------------------
(***************************************************************************)
(* Two nodes, the second of which is idle, and three symbols, one of which *)
(* is in both partitions of the first table.                               *)
(***************************************************************************)
EXTENDS Partitions, TLC

MCNode == {"n1", "n2"}
MCSymbol == {"a", "b", "c"}

MCLoad == {[hot |-> {"c"}, cold |-> {"a", "b"}], [hot |-> {}, cold |-> {"b", "c"}]}

MCFirstTable ==
    [symbols |-> (<<"p1">> :> {"a", "b"}) @@ (<<"p2">> :> {"b", "c"}),
     workers |-> (<<"p1">> :> {"n1"}) @@ (<<"p2">> :> {"n1", "n2"}),
     index |-> [s \in MCSymbol |-> CASE s = "a" -> {<<"p1">>}
                                     [] s = "b" -> {<<"p1">>, <<"p2">>}
                                     [] s = "c" -> {<<"p2">>}],
     displaced |-> {}]
=============================================================================
