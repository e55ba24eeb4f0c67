---------------------------- MODULE ReproPromise ----------------------------
(***************************************************************************)
(* What a run promises its user, whatever it does command by command: it   *)
(* goes through its iterations one by one, collects the post-mortem        *)
(* commands of exactly those in which the condition was triggered, stops   *)
(* at the first of them if told to, and in the end, or on an error, gives  *)
(* back what it holds.  Part of README.md ("repro") and the lifecycle of   *)
(* docs/review_cleanup_plan.md; ReproRun implements it.                    *)
(***************************************************************************)
EXTENDS Naturals

VARIABLES
    plan,       \* [times, stop]: chosen by the user
    phase,      \* "running", "ended" or "released"
    result,     \* how the run ended: "none" yet, "complete", "given up"
    completed,  \* number of iterations that ran to their end
    hits,       \* the completed iterations in which the condition was triggered
    collected,  \* the completed iterations whose post-mortem was collected
    holding     \* a session or a logger is still held

vars == <<plan, phase, result, completed, hits, collected, holding>>

Init ==
    /\ plan \in [times: Nat \ {0}, stop: BOOLEAN]
    /\ phase = "running" /\ result = "none"
    /\ completed = 0 /\ hits = {} /\ collected = {}
    /\ holding = TRUE

Satisfied == completed = plan.times \/ (plan.stop /\ hits # {})

\* An iteration runs to its end, and its post-mortem if it hit.
Iterate ==
    /\ phase = "running" /\ ~Satisfied
    /\ completed' = completed + 1
    /\ \/ UNCHANGED <<hits, collected>>
       \/ /\ hits' = hits \cup {completed}
          /\ collected' = collected \cup {completed}
    /\ UNCHANGED <<plan, phase, result, holding>>

\* The run stops because its plan is fulfilled, and only then calls itself
\* complete; on an error it may stop anywhere.
End ==
    /\ phase = "running"
    /\ phase' = "ended"
    /\ \/ Satisfied /\ result' = "complete"
       \/ result' = "given up"
    /\ UNCHANGED <<plan, completed, hits, collected, holding>>

Release ==
    /\ phase = "ended"
    /\ phase' = "released" /\ holding' = FALSE
    /\ UNCHANGED <<plan, result, completed, hits, collected>>

Next == Iterate \/ End \/ Release

\* What a run may do, and that it gets to its end and releases what it holds.
Safety == Init /\ [][Next]_vars
Spec == Safety /\ WF_vars(Next)
=============================================================================
