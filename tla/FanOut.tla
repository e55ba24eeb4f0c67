-------------------------------- MODULE FanOut --------------------------------
(***************************************************************************)
(* main of cmd/routercommander.go from the loop over the routers to the    *)
(* exit: each router is resolved, gets its logger, its verifier and its    *)
(* session, and a goroutine that runs process and puts its result into     *)
(* errCh; main collects the results, waits for the goroutines and exits.   *)
(***************************************************************************)
EXTENDS Naturals, Sequences, FiniteSets

CONSTANT MaxCount   \* bound on the number of router names given

ASSUME FanOutAssumption == MaxCount \in Nat

Routers == 1..MaxCount

VARIABLES
    option,    \* how the program was called: see Option
    pc,        \* main: the statement reached
    next,      \* main: the router the loop is at
    started,   \* main: processesStarted
    received,  \* main: how many results were taken from errCh
    fatal,     \* main: fatalErr # nil
    exit,      \* the exit status: "none" yet, "ok" (0), "failed" (1), "panic" (2)
    process,   \* process[r]: "none", "running", "result" (to be sent), "sent", "ended"
    result,    \* result[r]: what process returned: "nil" or "error"
    errCh,     \* the results in the channel
    chOpen,    \* errCh is not closed
    skipped    \* history: the routers main could not start

vars == <<option, pc, next, started, received, fatal, exit, process, result,
          errCh, chOpen, skipped>>

\* len(routers); stopOnError; singleRouterCase; inventory # nil; GOOS = "windows";
\* --local.
\* Without an inventory there is a --router-name, or the local router.
Option ==
    {o \in [count: 0..MaxCount, stopOnError: BOOLEAN, single: BOOLEAN, inventory: BOOLEAN,
            windows: BOOLEAN, local: BOOLEAN] :
        /\ o.single \/ o.local => o.count = 1
        /\ o.local => ~o.inventory
        /\ ~o.local /\ ~o.single => o.inventory}

Init ==
    /\ option \in Option
    /\ pc = "resolve" /\ next = 1
    /\ started = 0 /\ received = 0 /\ fatal = FALSE /\ exit = "none"
    /\ process = [r \in Routers |-> "none"] /\ result = [r \in Routers |-> "none"]
    /\ errCh = <<>> /\ chOpen = TRUE
    /\ skipped = {}

\* The channel is made for one result per router.
CapacityLessOne == option.count - 1                               \* mutant
Capacity == option.count
Running  == exit = "none"

-----------------------------------------------------------------------------
(* main: the loop.                                                         *)

unchangedLoop == UNCHANGED <<option, received, errCh, chOpen, result>>

\* os.Exit ends every goroutine where it is.
Exit(status) == exit' = status /\ pc' = "exited"

\* A router that cannot be started is passed over, or ends the loop.
SkipAlways ==                                                     \* mutant
    /\ skipped' = skipped \cup {next}
    /\ pc' = "resolve" /\ next' = next + 1 /\ UNCHANGED fatal
Skip ==
    /\ skipped' = skipped \cup {next}
    /\ IF ~option.stopOnError /\ ~option.single
       THEN pc' = "resolve" /\ next' = next + 1 /\ UNCHANGED fatal
       ELSE pc' = "collect" /\ fatal' = TRUE /\ UNCHANGED next

ResolvePast ==                                                    \* mutant
    /\ Running /\ pc = "resolve" /\ next <= option.count + 1
    /\ pc' = "logger" /\ UNCHANGED <<next, fatal, skipped>>
    /\ UNCHANGED <<started, exit, process>> /\ unchangedLoop
Resolve ==
    /\ Running /\ pc = "resolve" /\ next <= option.count
    /\ \/ pc' = "logger" /\ UNCHANGED <<next, fatal, skipped>>
       \/ option.inventory /\ Skip
    /\ UNCHANGED <<started, exit, process>> /\ unchangedLoop

OpenLogger ==
    /\ Running /\ pc = "logger"
    /\ \/ pc' = (IF option.local THEN "start" ELSE "verifier") /\ UNCHANGED exit
       \/ Exit("failed")
    /\ UNCHANGED <<next, started, fatal, process, skipped>> /\ unchangedLoop

OpenVerifier ==
    /\ Running /\ pc = "verifier"
    /\ \/ pc' = "dial" /\ UNCHANGED exit
       \/ Exit("failed")
    /\ UNCHANGED <<next, started, fatal, process, skipped>> /\ unchangedLoop

\* NewRouter, which may never return: dialling and setting up the session have no
\* timer (ssh.go:133, router.go:418-453). On an error it has closed what it dialled.
OpenSession ==
    /\ Running /\ pc = "dial"
    /\ \/ pc' = "start" /\ UNCHANGED <<next, fatal, skipped>>
       \/ Skip
    /\ UNCHANGED <<started, exit, process>> /\ unchangedLoop

\* A goroutine of its own, but on windows main runs process itself.
Start ==
    /\ Running /\ pc = "start"
    /\ process' = [process EXCEPT ![next] = "running"]
    /\ IF option.windows
       THEN pc' = "inline" /\ UNCHANGED <<next, started>>
       ELSE pc' = "resolve" /\ next' = next + 1 /\ started' = started + 1
    /\ UNCHANGED <<exit, fatal, skipped>> /\ unchangedLoop

InlineReturns ==
    /\ Running /\ pc = "inline" /\ process[next] = "sent"
    /\ process' = [process EXCEPT ![next] = "ended"]
    /\ pc' = "resolve" /\ next' = next + 1 /\ started' = started + 1
    /\ UNCHANGED <<exit, fatal, skipped>> /\ unchangedLoop

EndLoop ==
    /\ Running /\ pc = "resolve" /\ next > option.count
    /\ pc' = "collect"
    /\ UNCHANGED <<next, started, exit, fatal, process, skipped>> /\ unchangedLoop

-----------------------------------------------------------------------------
(* main: the results.                                                      *)

CollectLast ==                                                    \* mutant
    /\ Running /\ pc = "collect" /\ received < started /\ errCh # <<>>
    /\ received' = received + 1
    /\ fatal' = (Head(errCh) = "error")
    /\ errCh' = Tail(errCh)
    /\ UNCHANGED <<option, pc, next, started, exit, process, result, chOpen, skipped>>
Collect ==
    /\ Running /\ pc = "collect" /\ received < started /\ errCh # <<>>
    /\ received' = received + 1
    /\ fatal' = (fatal \/ Head(errCh) = "error")
    /\ errCh' = Tail(errCh)
    /\ UNCHANGED <<option, pc, next, started, exit, process, result, chOpen, skipped>>

\* wg.Wait, then close(errCh).
WaitNot ==                                                        \* mutant
    /\ Running /\ pc = "collect" /\ received = started
    /\ chOpen' = FALSE
    /\ pc' = "exit"
    /\ UNCHANGED <<option, next, started, received, exit, fatal, process, result,
                   errCh, skipped>>
Wait ==
    /\ Running /\ pc = "collect" /\ received = started
    /\ \A r \in Routers : process[r] \in {"none", "ended"}
    /\ chOpen' = FALSE
    /\ pc' = "exit"
    /\ UNCHANGED <<option, next, started, received, exit, fatal, process, result,
                   errCh, skipped>>

ExitMain ==
    /\ Running /\ pc = "exit"
    /\ Exit(IF fatal THEN "failed" ELSE "ok")
    /\ UNCHANGED <<option, next, started, received, fatal, process, result, errCh,
                   chOpen, skipped>>

-----------------------------------------------------------------------------
(* The goroutine of router r.                                              *)

unchangedMain == UNCHANGED <<option, next, started, received, fatal, chOpen, skipped>>

\* process comes to its end, as ReproRun describes it: with nil or an error,
\* or panicking, which ends the program.
ProcessReturns(r) ==
    /\ Running /\ process[r] = "running"
    /\ \/ /\ \E v \in {"nil", "error"} : result' = [result EXCEPT ![r] = v]
          /\ process' = [process EXCEPT ![r] = "result"]
          /\ UNCHANGED <<pc, exit>>
       \/ Exit("panic") /\ UNCHANGED <<result, process>>
    /\ UNCHANGED errCh /\ unchangedMain

SendResult(r) ==
    /\ Running /\ process[r] = "result" /\ chOpen /\ Len(errCh) < Capacity
    /\ errCh' = Append(errCh, result[r])
    /\ process' = [process EXCEPT ![r] = "sent"]
    /\ UNCHANGED <<pc, exit, result>> /\ unchangedMain

WgDone(r) ==
    /\ Running /\ process[r] = "sent" /\ ~option.windows
    /\ process' = [process EXCEPT ![r] = "ended"]
    /\ UNCHANGED <<pc, exit, result, errCh>> /\ unchangedMain

-----------------------------------------------------------------------------
\* What main and a goroutine are sure to get done; for OpenSession and process they
\* depend on a router and a mail server.
MainSteps == \/ Resolve \/ OpenLogger \/ OpenVerifier \/ Start
             \/ InlineReturns \/ EndLoop \/ Collect \/ Wait \/ ExitMain
Reports(r) == SendResult(r) \/ WgDone(r)

Main == MainSteps \/ OpenSession

Process(r) == ProcessReturns(r) \/ Reports(r)

Exited == ~Running /\ UNCHANGED vars

Next == Main \/ (\E r \in Routers : Process(r)) \/ Exited

\* Goroutines are scheduled. Nothing obliges a connection to be made or a process
\* to return.
Fairness == WF_vars(MainSteps) /\ \A r \in Routers : WF_vars(Reports(r))

Spec == Init /\ [][Next]_vars /\ Fairness

-----------------------------------------------------------------------------
(* Properties.                                                             *)

\* The locals of main, the goroutines and the channel are in states they can
\* be in.
TypeOK ==
    /\ option \in Option
    /\ pc \in {"resolve", "logger", "verifier", "dial", "start", "inline",
               "collect", "exit", "exited"}
    /\ next \in 1..(option.count + 1)
    /\ started \in 0..option.count /\ received \in 0..started
    /\ fatal \in BOOLEAN /\ exit \in {"none", "ok", "failed", "panic"}
    /\ process \in [Routers -> {"none", "running", "result", "sent", "ended"}]
    /\ result \in [Routers -> {"none", "nil", "error"}]
    /\ errCh \in Seq({"nil", "error"}) /\ chOpen \in BOOLEAN
    /\ skipped \subseteq Routers

\* A goroutine with a result never waits and never meets a closed channel,
\* although main may be far from collecting, or be that goroutine itself
\* (routercommander.go:276-278, 347-349, 359-360).
SendNeverBlocks ==
    \A r \in Routers : process[r] = "result" => chOpen /\ Len(errCh) < Capacity

\* Every result counts: main closes the channel and exits with 0 only after it
\* has taken the result of each process it started, and they have all ended
\* (routercommander.go:352-360).
ExitAfterAll ==
    ~chOpen => /\ \A r \in Routers : process[r] \in {"none", "ended"}
               /\ errCh = <<>>
               /\ received = Cardinality({r \in Routers : process[r] = "ended"})

\* Exit status 0 is the truth: every router was run and none reported an error,
\* except those that the user allowed to be passed over (routercommander.go:270-275,
\* 298-303, 331-336, 352-365).
ExitStatusTruthful ==
    exit = "ok" =>
        /\ \A r \in (1..option.count) \ skipped : result[r] = "nil"
        /\ skipped # {} => ~option.stopOnError /\ ~option.single

\* With stop_on_error no router is started after one that could not be; those
\* that run already are left to finish (routercommander.go:302-303, 335-336).
StopMeansStop ==
    [][skipped # {} /\ (option.stopOnError \/ option.single)
          => \A r \in Routers : process[r] = "none" => process'[r] = "none"]_vars

\* The program comes to an exit, unless a connection is never made or a process
\* never returns: main waits for nothing else (routercommander.go:330, 340-360).
MainExits ==
    \/ <>(exit # "none")
    \/ <>[](pc = "dial")
    \/ \E r \in Routers : <>[](process[r] = "running")
===============================================================================
