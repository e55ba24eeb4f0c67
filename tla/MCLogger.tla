------------------------------- MODULE MCLogger -------------------------------
(* Two goroutines holding one logger: one logs twice, the other once; both *)
(* may read and both close it.                                             *)
EXTENDS Logger

CONSTANTS c1, c2

MCClients == {c1, c2}
MCLogs(c) == IF c = c1 THEN 2 ELSE 1
MCReads(c) == 1
===============================================================================
