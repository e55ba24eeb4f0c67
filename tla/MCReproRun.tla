----------------------------- MODULE MCReproRun -----------------------------
(* Small command files and options for TLC.                                *)
EXTENDS ReproRun

CONSTANTS t1, t2, t3

MCTestId == {t1, t2, t3}

\* A watched command with two tests, one of them with its own commands, listed
\* around an id that names no test; a plain command; one without listed ids.
Watched   == [process |-> FALSE, tests |-> {t1, t2}, ids |-> <<t1, t3, t2>>]
Processed == [process |-> TRUE,  tests |-> {t2}, ids |-> <<t2>>]
Plain     == [process |-> FALSE, tests |-> {}, ids |-> <<t1>>]
Unlisted  == [process |-> FALSE, tests |-> {t1}, ids |-> <<>>]

Base == [repro |-> TRUE, times |-> 2, stop |-> FALSE, collecting |-> FALSE,
         main |-> <<Watched, Plain>>, postMortem |-> 2,
         ifTriggered |-> [t \in MCTestId |-> IF t = t1 THEN 0 ELSE 2],
         mailer |-> "none", logger |-> TRUE]

\* Repro files: stopping or not, one to three iterations, zero meaning one.
ReproConfigs ==
    {[Base EXCEPT !.stop = s, !.times = n, !.main = m, !.mailer = x] :
        s \in BOOLEAN, n \in {0, 2},
        m \in {<<Watched, Plain>>, <<Plain, Processed>>, <<Unlisted>>, <<>>},
        x \in {"none", "reliable", "faulty"}}
    \cup {[Base EXCEPT !.times = 3, !.main = <<Processed>>, !.postMortem = 1,
                      !.logger = l, !.mailer = x] :
              l \in BOOLEAN, x \in {"none", "faulty"}}

\* Collect files: no repro section, results processed or not.
CollectConfigs ==
    {[Base EXCEPT !.repro = FALSE, !.collecting = c, !.main = m, !.mailer = x] :
        c \in BOOLEAN, x \in {"none", "faulty"},
        m \in {<<Watched, Plain>>, <<Plain, Processed>>}}

MCConfigs == ReproConfigs \cup CollectConfigs
=============================================================================
