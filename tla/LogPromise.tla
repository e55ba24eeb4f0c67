------------------------------ MODULE LogPromise ------------------------------
(***************************************************************************)
(* What the log of a router promises its callers (pkg/log/logger.go):      *)
(* a record that is offered goes to the end of the log, once, while its    *)
(* caller waits, or is refused; nothing is ever taken out or moved; who    *)
(* asks gets the log as it stands; after the end nothing happens to it.    *)
(***************************************************************************)
EXTENDS Sequences

CONSTANTS Clients, Records

VARIABLES pending,  \* the records that callers have offered and the log has not decided on
          log,      \* the records in it
          got,      \* got[c]: what c was given when it last asked
          open      \* the log is still served

vars == <<pending, log, got, open>>

Init ==
    /\ pending = {} /\ log = <<>> /\ open = TRUE
    /\ got = [c \in Clients |-> <<>>]

Offer(r) ==
    /\ r \notin pending
    /\ pending' = pending \cup {r}
    /\ UNCHANGED <<log, got, open>>

Accept(r) ==
    /\ open /\ r \in pending
    /\ pending' = pending \ {r}
    /\ log' = Append(log, r)
    /\ UNCHANGED <<got, open>>

Refuse(r) ==
    /\ open /\ r \in pending
    /\ pending' = pending \ {r}
    /\ UNCHANGED <<log, got, open>>

Read(c) ==
    /\ open
    /\ got' = [got EXCEPT ![c] = log]
    /\ UNCHANGED <<pending, log, open>>

Shut ==
    /\ open /\ open' = FALSE
    /\ UNCHANGED <<pending, log, got>>

Next ==
    \/ \E r \in Records : Offer(r) \/ Accept(r) \/ Refuse(r)
    \/ \E c \in Clients : Read(c)
    \/ Shut

Spec == Init /\ [][Next]_vars
===============================================================================
