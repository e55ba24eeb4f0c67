------------------------------ MODULE MCConnect ------------------------------
(* Two processes of the tool, called in one of three and of four ways, one known-hosts *)
(* file, hosts whose lines are of different and of the same length.        *)
EXTENDS Connect

CONSTANTS p1, p2

H(name, port) == [name |-> name, port |-> port]
MCNetwork == {H(<<"a">>, 22), H(<<"b">>, 22), H(<<"a", "b">>, 2022), H(<<"r">>, 22)}
MCNewKeys == {H(<<"a">>, 22)}

E(name, address, port) == [name |-> name, target |->
                              [address |-> address, port |-> port, user |-> ""]]
Two      == {E(<<"r">>, <<"a">>, 0), E(<<"R", "2", "space">>, <<"a", "b">>, 2022)}
Same     == {E(<<"r">>, <<"a">>, 0), E(<<"R">>, <<"b">>, 0), E(<<"space">>, <<"b">>, 0)}
Unstable == {E(<<"r", "space", "comma">>, <<"a">>, 22), E(<<"2">>, <<>>, 22)}
Nil      == {[name |-> <<"r">>, target |-> NoTarget]}

C(name, given, entries, insecure, stop) ==
    [name |-> name, hasFile |-> given, file |-> entries, port |-> 22,
     insecure |-> insecure, stopOnError |-> stop]
MCCalls ==
    (p1 :> {C(<<>>, TRUE, Two, FALSE, FALSE), C(<<>>, TRUE, Same, FALSE, TRUE),
            C(<<"tab", "R">>, TRUE, Two, FALSE, TRUE)}) @@
    (p2 :> {C(<<"R">>, FALSE, {}, FALSE, TRUE), C(<<>>, TRUE, Two, TRUE, FALSE),
            C(<<>>, TRUE, Unstable, FALSE, TRUE), C(<<>>, TRUE, Nil, FALSE, TRUE)})

\* No file yet, and one that somebody else has written, with a host in it twice.
MCFiles ==
    {<<>>, Line(H(<<"a">>, 22), "oldkey") \o Line(H(<<"b">>, 22), "key")
             \o Line(H(<<"a">>, 22), "key")}
==============================================================================
