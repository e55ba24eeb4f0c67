------------------------------ MODULE ReproRun ------------------------------
(***************************************************************************)
(* One router's run: process, processMainGroupOfCommands, runTests and     *)
(* processCommandsIfTriggered of cmd/pipeline.go, from the first command   *)
(* to the deferred notification and cleanup.                               *)
(*                                                                         *)
(* A call of Router.ProcessCommand is one step: the command goes on the    *)
(* wire and the call returns its results or an error.  A call of runTest   *)
(* is one step as well: the test stays quiet, fires or fails (TestRunner   *)
(* models which).  What a command prints is left out.                      *)
(***************************************************************************)
EXTENDS Integers, Sequences

CONSTANTS TestId,   \* the ids a command file gives its tests
          Configs   \* the command files and options a run may start with

\* An entry of MainCommandGroup: its process_result flag, the ids of the tests
\* the file defines for it ({} when it is not in CommandsWithTests), and its
\* command_test_ids.
Command == [process: BOOLEAN, tests: SUBSET TestId, ids: Seq(TestId)]

\* A Commander with what main adds to it.  repro is "Repro # nil"; collecting
\* is Collect.ProcessResult; postMortem and ifTriggered count commands.  The
\* mailer is nil, one that always delivers, or one that may fail.
Config == [repro: BOOLEAN, times: Int, stop: BOOLEAN, collecting: BOOLEAN,
           main: Seq(Command), postMortem: Nat, ifTriggered: [TestId -> Nat],
           mailer: {"none", "reliable", "faulty"}, logger: BOOLEAN]

ASSUME ConfigsAssumption == Configs \subseteq Config

VARIABLES
    conf,      \* commander, n and the router's logger: never reassigned
    pc,        \* the statement reached
    loc,       \* the locals of process and of the functions it calls: see Local
    report,    \* what the closing message of a repro run says
    outcome,   \* how process ends: "ok", "error", with a panic in a call it makes, or
               \* with the nil dereference of its own: "nil"
    mail,      \* what became of the notification
    mailed,    \* how many commands the log held when it was mailed
    open,      \* what is open: "logger", "session"
    sent,      \* history: the commands given to the router, in order
    verdicts   \* history: the tests evaluated and what they answered

vars == <<conf, pc, loc, report, outcome, mail, mailed, open, sent, verdicts>>

\* it is process's loop counter and triggered its flag; cmd and groupTriggered
\* are the index and the flag of processMainGroupOfCommands; test and triggers
\* are the index and the result of runTests; step walks through a list of
\* if_triggered_commands or of post-mortem commands.
Local == [it: Nat, cmd: Nat \ {0}, test: Nat \ {0}, step: Nat \ {0},
          triggers: Seq(TestId), groupTriggered: BOOLEAN, triggered: BOOLEAN]

Entry == [kind: {"main", "ifTriggered", "postMortem"},
          it: Nat, cmd: Nat, test: Nat, step: Nat]
Verdict == [it: Nat, cmd: Nat, test: Nat, id: TestId, fired: BOOLEAN]

Iterations == IF conf.repro /\ conf.times > 0 THEN conf.times ELSE 1
\* "stopWhenTriggered" is initialised differently in the two functions.
StopRun    == conf.repro => conf.stop
StopGroupAlways == conf.repro                                     \* mutant
StopGroup  == conf.repro /\ conf.stop

Current == conf.main[loc.cmd]
\* Results are handed back, so tests can find something, only when asked for.
HasResults == Current.process \/ conf.repro \/ conf.collecting

\* len(t.IfTriggeredCommands) for the test at hand.
IfTriggeredAtMostOne == IF conf.ifTriggered[Current.ids[loc.test]] = 0 THEN 0 ELSE 1  \* mutant
IfTriggeredCount == conf.ifTriggered[Current.ids[loc.test]]

Init ==
    /\ conf \in Configs
    /\ pc = "loop"
    /\ loc = [it |-> 0, cmd |-> 1, test |-> 1, step |-> 1, triggers |-> <<>>,
              groupTriggered |-> FALSE, triggered |-> FALSE]
    /\ report = "none" /\ outcome = "running"
    /\ mail = "none" /\ mailed = 0
    /\ open = {"session"} \cup (IF conf.logger THEN {"logger"} ELSE {})
    /\ sent = <<>> /\ verdicts = {}

-----------------------------------------------------------------------------
(* Fragments shared by the actions.                                        *)

Goto(p) == pc' = p /\ UNCHANGED outcome

FinishNoDefer(result) ==                                          \* mutant
    pc' = (IF result = "error" THEN "over" ELSE "deferred") /\ outcome' = result
Finish(result) == pc' = "deferred" /\ outcome' = result

\* An error makes processMainGroupOfCommands return false, err.
FailGroup == Finish("error") /\ loc' = [loc EXCEPT !.triggered = FALSE]

\* ProcessCommand or runTest panics (router.go:357, 490, 567; pipeline.go:242, 393,
\* 409): no assignment is made, the deferred function runs, and the program ends.
Panic == Finish("panic") /\ UNCHANGED loc

Send(kind, c, t, s) ==
    sent' = Append(sent, [kind |-> kind, it |-> loc.it, cmd |-> c, test |-> t, step |-> s])

Judge(fired) ==
    verdicts' = verdicts \cup
        {[it |-> loc.it, cmd |-> loc.cmd, test |-> loc.test,
          id |-> Current.ids[loc.test], fired |-> fired]}

\* The tail of the body of runTests for a test that fired.
AfterTriggerBreak == Len(Current.ids) + 1                         \* mutant
AfterTriggerGoOn == loc.test + 1                                  \* mutant
AfterTrigger == IF StopGroup THEN Len(Current.ids) + 1 ELSE loc.test + 1
RecordPosition ==                                                 \* mutant
    /\ Goto("tests")
    /\ loc' = [loc EXCEPT !.triggers = Append(@, loc.test), !.test = AfterTrigger]
RecordTrigger ==
    /\ Goto("tests")
    /\ loc' = [loc EXCEPT !.triggers = Append(@, Current.ids[loc.test]),
                          !.test = AfterTrigger]

\* processMainGroupOfCommands returns t; process goes on with the post-mortem
\* commands, which it looks for in commander.Repro whatever the mode.
ReturnGroupHit(t) ==                                              \* mutant
    /\ loc' = [loc EXCEPT !.triggered = t, !.step = 1]
    /\ IF conf.repro THEN Goto("postMortem") ELSE Finish("nil")
ReturnGroupShadowed(t) ==                                         \* mutant
    /\ loc' = [loc EXCEPT !.step = 1]
    /\ IF ~t THEN Goto("delay")
       ELSE IF conf.repro THEN Goto("postMortem") ELSE Finish("nil")
ReturnGroup(t) ==
    /\ loc' = [loc EXCEPT !.triggered = t, !.step = 1]
    /\ IF ~t THEN Goto("delay")
       ELSE IF conf.repro THEN Goto("postMortem") ELSE Finish("nil")

unchangedRest == UNCHANGED <<conf, report, mail, mailed, open>>

-----------------------------------------------------------------------------
(* The iterations.                                                         *)

BeginIteration ==
    /\ pc = "loop" /\ loc.it < Iterations
    /\ Goto("main")
    /\ loc' = [loc EXCEPT !.cmd = 1, !.groupTriggered = FALSE]
    /\ UNCHANGED <<sent, verdicts>> /\ unchangedRest

SendMain ==
    /\ pc = "main" /\ loc.cmd <= Len(conf.main)
    /\ Send("main", loc.cmd, 0, 0)
    /\ \/ /\ Current.tests = {}
          /\ Goto("main") /\ loc' = [loc EXCEPT !.cmd = @ + 1]
       \/ /\ Current.tests # {}
          /\ Goto("tests") /\ loc' = [loc EXCEPT !.test = 1, !.triggers = <<>>]
       \/ FailGroup \/ Panic
    /\ UNCHANGED verdicts /\ unchangedRest

SkipUnknownTest ==
    /\ pc = "tests" /\ loc.test <= Len(Current.ids)
    /\ Current.ids[loc.test] \notin Current.tests
    /\ Goto("tests") /\ loc' = [loc EXCEPT !.test = @ + 1]
    /\ UNCHANGED <<sent, verdicts>> /\ unchangedRest

\* runTest stays quiet, or fires, or fails, or panics; all but the first need results.
RunTest ==
    /\ pc = "tests" /\ loc.test <= Len(Current.ids)
    /\ Current.ids[loc.test] \in Current.tests
    /\ \/ /\ Judge(FALSE)
          /\ Goto("tests") /\ loc' = [loc EXCEPT !.test = @ + 1]
       \/ /\ HasResults /\ Judge(TRUE)
          /\ IF IfTriggeredCount = 0
             THEN RecordTrigger
             ELSE Goto("ifTriggered") /\ loc' = [loc EXCEPT !.step = 1]
       \/ HasResults /\ (FailGroup \/ Panic) /\ UNCHANGED verdicts
    /\ UNCHANGED sent /\ unchangedRest

SendIfTriggered ==
    /\ pc = "ifTriggered"
    /\ Send("ifTriggered", loc.cmd, loc.test, loc.step)
    /\ \/ /\ loc.step < IfTriggeredCount
          /\ Goto("ifTriggered") /\ loc' = [loc EXCEPT !.step = @ + 1]
       \/ loc.step = IfTriggeredCount /\ RecordTrigger
       \/ FailGroup \/ Panic
    /\ UNCHANGED verdicts /\ unchangedRest

EndTests ==
    /\ pc = "tests" /\ loc.test > Len(Current.ids)
    /\ LET hit == loc.groupTriggered \/ loc.triggers # <<>>
       IN  IF StopGroup /\ hit
           THEN ReturnGroup(TRUE)
           ELSE /\ Goto("main")
                /\ loc' = [loc EXCEPT !.groupTriggered = hit, !.cmd = @ + 1]
    /\ UNCHANGED <<sent, verdicts>> /\ unchangedRest

EndGroup ==
    /\ pc = "main" /\ loc.cmd > Len(conf.main)
    /\ ReturnGroup(loc.groupTriggered)
    /\ UNCHANGED <<sent, verdicts>> /\ unchangedRest

SendPostMortem ==
    /\ pc = "postMortem" /\ loc.step <= conf.postMortem
    /\ Send("postMortem", 0, 0, loc.step)
    /\ \/ Goto("postMortem") /\ loc' = [loc EXCEPT !.step = @ + 1]
       \/ Finish("error") /\ UNCHANGED loc
       \/ Panic
    /\ UNCHANGED verdicts /\ unchangedRest

EndPostMortem ==
    /\ pc = "postMortem" /\ loc.step > conf.postMortem
    /\ Goto(IF StopRun THEN "report" ELSE "delay")
    /\ UNCHANGED <<loc, sent, verdicts>> /\ unchangedRest

Delay ==
    /\ pc = "delay" /\ Goto("loop")
    /\ loc' = [loc EXCEPT !.it = @ + 1]
    /\ UNCHANGED <<sent, verdicts>> /\ unchangedRest

EndLoop ==
    /\ pc = "loop" /\ loc.it >= Iterations
    /\ Goto("report")
    /\ UNCHANGED <<loc, sent, verdicts>> /\ unchangedRest

Report ==
    /\ pc = "report"
    /\ report' = IF ~conf.repro THEN "none"
                 ELSE IF loc.triggered THEN "succeeded" ELSE "not succeeded"
    /\ Finish("ok")
    /\ UNCHANGED <<conf, loc, mail, mailed, open, sent, verdicts>>

-----------------------------------------------------------------------------
(* The deferred function: it runs on every way out, a panic included.      *)

unchangedRun == UNCHANGED <<conf, loc, report, outcome, sent, verdicts>>

\* Without a logger, and when the notification fails, it returns at once.
Notify ==
    /\ pc = "deferred" /\ conf.mailer # "none"
    /\ \/ ~conf.logger /\ pc' = "over" /\ UNCHANGED <<mail, mailed>>
       \/ conf.logger /\ pc' = "cleanup" /\ mail' = "sent" /\ mailed' = Len(sent)
       \/ /\ conf.logger /\ conf.mailer = "faulty"
          /\ pc' = "over" /\ mail' = "failed" /\ UNCHANGED mailed
    /\ unchangedRun /\ UNCHANGED open

SkipCleanup ==                                                    \* mutant
    /\ pc = "deferred" /\ conf.mailer = "none" /\ pc' = "over"
    /\ unchangedRun /\ UNCHANGED <<mail, mailed, open>>
SkipNotify ==
    /\ pc = "deferred" /\ conf.mailer = "none" /\ pc' = "cleanup"
    /\ unchangedRun /\ UNCHANGED <<mail, mailed, open>>

ReleasedSession == {"session"}                                    \* mutant
Released == {"logger", "session"}
Cleanup ==
    /\ pc = "cleanup" /\ pc' = "over"
    /\ open' = open \ Released
    /\ unchangedRun /\ UNCHANGED <<mail, mailed>>

Over == pc = "over" /\ UNCHANGED vars

Next ==
    \/ BeginIteration \/ SendMain \/ SkipUnknownTest \/ RunTest
    \/ SendIfTriggered \/ EndTests \/ EndGroup
    \/ SendPostMortem \/ EndPostMortem \/ Delay \/ EndLoop \/ Report
    \/ Notify \/ SkipNotify \/ Cleanup \/ Over

\* The goroutine keeps running: every call it makes returns, because commands
\* carry a timer and the mail client gives an answer.
Fairness == WF_vars(Next)

Spec == Init /\ [][Next]_vars /\ Fairness

-----------------------------------------------------------------------------
(* Vocabulary of the properties.                                           *)

Pcs == {"loop", "main", "tests", "ifTriggered", "postMortem", "delay", "report",
        "deferred", "cleanup", "over"}

\* The iterations some test fired in.
Hits == {v.it : v \in {w \in verdicts : w.fired}}

\* How many iterations have run to their end, post-mortem commands included.
Completed ==
    loc.it + IF \/ pc = "delay"
                \/ loc.it < Iterations /\ (pc = "report" \/ outcome = "ok")
             THEN 1 ELSE 0

\* f numbers the positions it is defined at from 1 to k: every number is there,
\* and they follow in order.
InTurn(f, k) ==
    /\ {f[n] : n \in DOMAIN f} = 1..k
    /\ \A m, n \in DOMAIN f : m < n => f[m] < f[n]

\* The positions of sent that hold the post-mortem commands of iteration i, with
\* their places in the list of post-mortem commands.
PostMortemSent(i) ==
    [n \in {m \in DOMAIN sent : sent[m].kind = "postMortem" /\ sent[m].it = i} |->
        sent[n].step]

\* The positions of sent that hold the if_triggered_commands of verdict v, with
\* their places in the list of the test.
IfTriggeredSent(v) ==
    [n \in {m \in DOMAIN sent : /\ sent[m].kind = "ifTriggered" /\ sent[m].it = v.it
                                /\ sent[m].cmd = v.cmd /\ sent[m].test = v.test} |->
        sent[n].step]

\* The positions of sent that hold main commands, with their places in the plan:
\* the whole list once for every iteration.
Mains == {n \in DOMAIN sent : sent[n].kind = "main"}
Place(e) == e.it * Len(conf.main) + e.cmd
MainSent == [n \in Mains |-> Place(sent[n])]
Planned == Iterations * Len(conf.main)

\* The ids of test positions of command c that name a test of that command.
Listed(c) == {p \in DOMAIN conf.main[c].ids :
                 conf.main[c].ids[p] \in conf.main[c].tests}

-----------------------------------------------------------------------------
(* Properties.                                                             *)

\* Every variable keeps the type its Go counterpart has.
TypeOK ==
    /\ conf \in Configs
    /\ pc \in Pcs
    /\ loc \in Local
    /\ report \in {"none", "succeeded", "not succeeded"}
    /\ outcome \in {"running", "ok", "error", "panic", "nil"}
    /\ mail \in {"none", "sent", "failed"} /\ mailed \in Nat
    /\ open \subseteq {"logger", "session"}
    /\ sent \in Seq(Entry)
    /\ verdicts \subseteq Verdict

\* The evidence of a hit is complete: the post-mortem group is collected only
\* in an iteration in which a test fired, in list order and without a repeat,
\* and whole by the time that iteration is over (pipeline.go:59-67).
EvidenceCollected ==
    \A i \in 0..loc.it :
        LET collected == PostMortemSent(i)
        IN  /\ \E k \in 0..conf.postMortem : InTurn(collected, k)
            /\ i \notin Hits => InTurn(collected, 0)
            /\ i \in Hits /\ i < Completed => InTurn(collected, conf.postMortem)

\* The commands tied to a test are sent for each firing of it, all of them in
\* order, and for nothing else; only a firing still being handled, or one whose
\* handling failed, may be short of some (pipeline.go:164-170).
TriggeredCommandsSent ==
    \A v \in verdicts :
        LET done == IfTriggeredSent(v)
            busy == pc = "ifTriggered" \/ outcome \in {"error", "panic"}
        IN  /\ \E k \in 0..conf.ifTriggered[v.id] : InTurn(done, k)
            /\ ~v.fired => InTurn(done, 0)
            /\ v.fired /\ ~(busy /\ v.it = loc.it /\ v.cmd = loc.cmd /\ v.test = loc.test)
                  => InTurn(done, conf.ifTriggered[v.id])

\* The main commands go out as planned: command by command, iteration by
\* iteration, none skipped and none repeated; and a run that ends well and was
\* not cut short by a hit has sent every command of every iteration
\* (pipeline.go:52, 96).
PlanFollowed ==
    /\ \E k \in 0..Planned : InTurn(MainSent, k)
    /\ outcome = "ok" /\ ~(StopRun /\ Hits # {}) => InTurn(MainSent, Planned)

\* The test at position p of the command sent as sent[n] has answered.
Answered(n, p) ==
    \E v \in verdicts : v.it = sent[n].it /\ v.cmd = sent[n].cmd /\ v.test = p

\* No test is passed over: when the next main command goes out, each test the
\* previous ones list in command_test_ids has answered, in every iteration
\* (pipeline.go:155-177; the stop at a trigger leaves no next command).
EveryListedTestRuns ==
    \A m, n \in Mains : m < n => \A p \in Listed(sent[m].cmd) : Answered(m, p)

\* What a step may not do once the scene is frozen.
Frozen ==
    /\ \A n \in DOMAIN sent' \ DOMAIN sent : sent'[n].kind # "main"
    /\ verdicts' = verdicts

\* With stop_when_triggered the first hit freezes the scene: from then on no
\* main command is sent and no further test is evaluated, so the commands that
\* follow see the router as the trigger left it (pipeline.go:68-70, 143, 172).
StopsAtFirstTrigger == [][StopGroup /\ Hits # {} => Frozen]_vars

\* Nobody waits for a mail in vain, and none is cut short: a run with a mailer
\* that is over, however it ended, has tried to notify, and a delivered log
\* holds every command the run sent (pipeline.go:31-44).
MailHoldsWholeRun ==
    /\ mail = "sent" => mailed = Len(sent)
    /\ pc = "over" /\ conf.mailer # "none" /\ conf.logger => mail # "none"

\* A run gives back its session and its logger, an aborted or panicking run
\* included; the returns of the deferred function are the only exceptions
\* (pipeline.go:45-48).
CutShort == mail = "failed" \/ (conf.mailer # "none" /\ ~conf.logger)
CleanShutdown == pc = "over" => open = {} \/ CutShort

\* The closing message never claims a trigger that was not there; and where the run
\* stops at the first, it never denies one, through the flags of all three loops
\* (pipeline.go:56, 68-70, 75-80). Run repro_denied shows the rest.
ClosingMessageTrue ==
    /\ report = "succeeded" => Hits # {}
    /\ report = "not succeeded" /\ StopRun => Hits = {}

-----------------------------------------------------------------------------
(* Refinement.                                                             *)

Promise == INSTANCE ReproPromise WITH
    plan      <- [times |-> Iterations, stop |-> StopRun],
    phase     <- IF pc = "over" THEN "released"
                 ELSE IF outcome = "running" THEN "running" ELSE "ended",
    result    <- IF outcome = "running" THEN "none"
                 ELSE IF outcome = "ok" THEN "complete" ELSE "given up",
    completed <- Completed,
    hits      <- {i \in Hits : i < Completed},
    collected <- {i \in Hits : i < Completed /\ InTurn(PostMortemSent(i), conf.postMortem)},
    holding   <- open # {} /\ ~(pc = "over" /\ CutShort)

\* A run keeps the promise of ReproPromise: hits and their post-mortems go
\* together, it stops where it should, calls itself complete only when it did
\* what was planned, gets to its end and, unless the deferred function is cut
\* short, releases everything (pipeline.go:16-83).
KeepsPromise == Promise!Spec

-----------------------------------------------------------------------------
(* Claims of the documentation that the code does not keep.                *)

\* docs/review_cleanup_plan.md:104 "early-return paths also close resources":
\* the deferred function returns before Close when the notification fails.
ClosedOnEveryPath == pc = "over" => open = {}

\* README.md:106 "The repro is considered as triggered when the value of field 2 is
\* changed between repro iterations": the closing message of a run that goes on
\* forgets it (pipeline.go:56, 75-80).
DenialTrue == report = "not succeeded" => Hits = {}
=============================================================================
