--------------------------- MODULE MCCommandRunner ---------------------------
(* Routers with and without line cards or route processors, NX-OS and the  *)
(* local host; one or two commands, gone through once or twice.            *)
EXTENDS CommandRunner

MCSlotted   == {"0/0/CPU0", "0/1/CPU0"}
MCSlotName(l) == IF l = "0/0/CPU0" THEN "node0" ELSE "node1"
MCLocations == {"0/RP0/CPU0", "0/RP1/CPU0", "node0", "node1"} \cup MCSlotted

RP(n) == [form |-> "rp", location |-> IF n = 0 THEN "0/RP0/CPU0" ELSE "0/RP1/CPU0",
          running |-> TRUE]
LC(n) == [form |-> "lc", location |-> IF n = 0 THEN "0/0/CPU0" ELSE "0/1/CPU0",
          running |-> TRUE]
Down(line) == [line EXCEPT !.running = FALSE]

Modular == {RP(0), LC(0), LC(1)}
Boxes ==
    {[kind |-> "xr", lines |-> ls] :
        ls \in {Modular, {RP(0), RP(1)}, {RP(0), Down(LC(0))}, {Down(RP(0)), LC(0)}}}
    \cup {[kind |-> k, lines |-> {}] : k \in {"nxos", "local"}}

C(ls, t, n, i) == [location |-> ls, template |-> t, parses |-> TRUE, unfit |-> {},
                 regular |-> TRUE, times |-> n, interval |-> i, collect |-> TRUE]
Once == C(<<>>, "none", 3, 0)
Commands ==
    {Once, [C(<<>>, "none", 2, 5) EXCEPT !.collect = FALSE], C(<<>>, "none", -1, 5), C(<<>>, "none", 2, -5),
     C(<<"all">>, "none", 0, 0), C(<<"all-lc">>, "slot", 2, 5), C(<<"all">>, "slot", 0, 0),
     C(<<"all-rp", "0/0/CPU0">>, "none", 0, 0), C(<<"0/1/CPU0", "0/0/CPU0">>, "slot", 2, 5),
     C(<<"all-lc">>, "broken", 0, 0),
     [C(<<"all-lc">>, "none", 0, 0) EXCEPT !.parses = FALSE],
     [C(<<"all-rp", "0/0/CPU0", "0/1/CPU0">>, "none", 2, 5) EXCEPT !.unfit = {"0/1/CPU0"}],
     [C(<<"all-lc">>, "none", 0, 0) EXCEPT !.regular = FALSE]}

Seconds == {Once, C(<<"all-rp", "0/0/CPU0">>, "none", 0, 0), C(<<"all">>, "slot", 0, 0)}

MCPlans ==
    {[kind |-> b.kind, lines |-> b.lines, commands |-> <<c>>, rounds |-> 2] :
        b \in Boxes, c \in Commands}
    \cup
    {[kind |-> b.kind, lines |-> b.lines, commands |-> <<c, d>>, rounds |-> 1] :
        b \in Boxes, c \in Commands, d \in Seconds}
=============================================================================
