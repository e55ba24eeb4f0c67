--------------------------- MODULE ReproRunProofs ---------------------------
(***************************************************************************)
(* Proofs about ReproRun, for every set of command files and options: the  *)
(* run keeps its types, cleans up, mails all of its log, and freezes the   *)
(* scene at the first hit.                                                 *)
(***************************************************************************)
EXTENDS ReproRun, TLAPS

\* Inside the test loop the indexes point at a command and at one of its tests;
\* without it the type of what the loop looks up is unknown.
InRange ==
    /\ pc \in {"tests", "ifTriggered"} => loc.cmd <= Len(conf.main)
    /\ pc = "ifTriggered" => loc.test <= Len(Current.ids)

TypeInv == TypeOK /\ InRange

\* The command at hand is a command of the file.
LEMMA CurrentType ==
    ASSUME TypeOK, loc.cmd <= Len(conf.main)
    PROVE  Current \in Command
  <1>1. conf.main \in Seq(Command)
    BY ConfigsAssumption DEF TypeOK, Config
  <1>2. loc.cmd \in Nat \ {0}
    BY DEF TypeOK, Local
  <1> QED BY <1>1, <1>2 DEF Current

\* Assigning a local keeps the type of the locals, for the fields of each kind.
LEMMA RecordUpdates ==
    ASSUME NEW N, NEW P, NEW S, NEW B,
           NEW l \in [it: N, cmd: P, test: P, step: P, triggers: S,
                      groupTriggered: B, triggered: B]
    PROVE  LET R == [it: N, cmd: P, test: P, step: P, triggers: S,
                     groupTriggered: B, triggered: B]
           IN  /\ \A n \in N : [l EXCEPT !.it = n] \in R
               /\ \A n \in P : /\ [l EXCEPT !.cmd = n] \in R
                              /\ [l EXCEPT !.test = n] \in R
                              /\ [l EXCEPT !.step = n] \in R
               /\ \A q \in S : [l EXCEPT !.triggers = q] \in R
               /\ \A b \in B : /\ [l EXCEPT !.groupTriggered = b] \in R
                              /\ [l EXCEPT !.triggered = b] \in R
  OBVIOUS

LEMMA LocalUpdates ==
    ASSUME NEW l \in Local
    PROVE  /\ \A n \in Nat : [l EXCEPT !.it = n] \in Local
           /\ \A n \in Nat \ {0} : /\ [l EXCEPT !.cmd = n] \in Local
                                   /\ [l EXCEPT !.test = n] \in Local
                                   /\ [l EXCEPT !.step = n] \in Local
           /\ \A q \in Seq(TestId) : [l EXCEPT !.triggers = q] \in Local
           /\ \A b \in BOOLEAN : /\ [l EXCEPT !.groupTriggered = b] \in Local
                                /\ [l EXCEPT !.triggered = b] \in Local
  BY RecordUpdates DEF Local

\* The types of the single locals.
LEMMA LocalFields ==
    ASSUME loc \in Local
    PROVE  /\ loc.it \in Nat /\ 1 \in Nat \ {0}
           /\ loc.cmd \in Nat \ {0} /\ loc.test \in Nat \ {0} /\ loc.step \in Nat \ {0}
           /\ loc.cmd + 1 \in Nat \ {0} /\ loc.test + 1 \in Nat \ {0}
           /\ loc.step + 1 \in Nat \ {0} /\ loc.it + 1 \in Nat
           /\ loc.triggers \in Seq(TestId) /\ <<>> \in Seq(TestId)
           /\ loc.groupTriggered \in BOOLEAN /\ loc.triggered \in BOOLEAN
  BY DEF Local

\* What processMainGroupOfCommands leaves behind has the type of the locals.
LEMMA ReturnGroupType ==
    ASSUME loc \in Local, NEW t \in BOOLEAN, ReturnGroup(t)
    PROVE  loc' \in Local
  <1>1. [loc EXCEPT !.triggered = t] \in Local
    BY LocalUpdates
  <1>2. [[loc EXCEPT !.triggered = t] EXCEPT !.step = 1] \in Local
    BY <1>1, LocalUpdates, LocalFields
  <1> QED BY <1>2 DEF ReturnGroup

LEMMA FailGroupType ==
    ASSUME loc \in Local, FailGroup
    PROVE  loc' \in Local
  BY LocalUpdates DEF FailGroup

\* A command that is sent is put down as an entry.
LEMMA SendType ==
    ASSUME TypeOK,
           NEW kind \in {"main", "ifTriggered", "postMortem"},
           NEW c \in Nat, NEW t \in Nat, NEW s \in Nat,
           Send(kind, c, t, s)
    PROVE  sent' \in Seq(Entry)
  <1> DEFINE e == [kind |-> kind, it |-> loc.it, cmd |-> c, test |-> t, step |-> s]
  <1>1. loc.it \in Nat
    BY DEF TypeOK, Local
  <1>2. e \in Entry
    BY <1>1 DEF Entry
  <1>3. sent \in Seq(Entry) /\ sent' = Append(sent, e)
    BY DEF TypeOK, Send
  <1> HIDE DEF e
  <1> QED BY <1>2, <1>3

\* Recording a trigger keeps the type of the locals.
LEMMA RecordTriggerType ==
    ASSUME TypeOK, loc.cmd <= Len(conf.main), loc.test <= Len(Current.ids),
           RecordTrigger
    PROVE  loc' \in Local
  <1>1. Current \in Command
    BY CurrentType
  <1>2. Current.ids \in Seq(TestId) /\ Len(Current.ids) \in Nat
    BY <1>1 DEF Command
  <1>3. loc \in Local
    BY DEF TypeOK
  <1>4. loc.test \in Nat \ {0} /\ loc.triggers \in Seq(TestId)
    BY <1>3 DEF Local
  <1>5. Current.ids[loc.test] \in TestId
    BY <1>2, <1>4
  <1>6. AfterTrigger \in Nat \ {0}
    BY <1>2, <1>4 DEF AfterTrigger
  <1>7. Append(loc.triggers, Current.ids[loc.test]) \in Seq(TestId)
    BY <1>4, <1>5
  <1> QED BY <1>3, <1>6, <1>7 DEF RecordTrigger, Local

LEMMA InitType == Init => TypeInv
  BY ConfigsAssumption DEF Init, TypeInv, TypeOK, InRange, Local, Pcs

\* Every step keeps the types and the ranges, action by action.
LEMMA NextType == TypeInv /\ [Next]_vars => TypeInv'
  <1> SUFFICES ASSUME TypeInv, [Next]_vars PROVE TypeInv'
    OBVIOUS
  <1> USE DEF TypeInv
  <1>0. TypeOK /\ InRange /\ loc \in Local /\ conf \in Config
    BY ConfigsAssumption DEF TypeOK
  <1>1. CASE BeginIteration
    <2>1. loc' \in Local
      <3>1. [loc EXCEPT !.cmd = 1] \in Local
        BY <1>0, LocalUpdates, LocalFields
      <3>2. [[loc EXCEPT !.cmd = 1] EXCEPT !.groupTriggered = FALSE] \in Local
        BY <3>1, LocalUpdates
      <3> QED BY <1>1, <3>2 DEF BeginIteration
    <2> QED BY <1>0, <1>1, <2>1 DEF BeginIteration, TypeOK, InRange, Goto, unchangedRest, Pcs
  <1>2. CASE SendMain
    <2>1. sent' \in Seq(Entry)
      <3>1. loc.cmd \in Nat /\ 0 \in Nat
        BY <1>0 DEF Local
      <3> QED BY <1>0, <1>2, <3>1, SendType DEF SendMain
    <2>2. loc' \in Local
      <3>1. [loc EXCEPT !.cmd = loc.cmd + 1] \in Local /\ [loc EXCEPT !.test = 1] \in Local
        BY <1>0, LocalUpdates, LocalFields
      <3>2. [[loc EXCEPT !.test = 1] EXCEPT !.triggers = <<>>] \in Local
        BY <1>0, <3>1, LocalUpdates, LocalFields
      <3> QED BY <1>0, <1>2, <3>1, <3>2, FailGroupType DEF SendMain, Panic
    <2>3. pc' \in {"main", "tests", "deferred"} /\ outcome' \in {outcome, "error", "panic"}
      BY <1>2 DEF SendMain, Goto, FailGroup, Panic, Finish
    <2>4. InRange'
      <3>1. conf' = conf /\ loc.cmd <= Len(conf.main)
        BY <1>2 DEF SendMain, unchangedRest
      <3>2. pc' = "tests" => loc'.cmd = loc.cmd
        BY <1>0, <1>2 DEF SendMain, Goto, FailGroup, Panic, Finish, Local
      <3> QED BY <2>3, <3>1, <3>2 DEF InRange
    <2> QED
      BY <1>0, <1>2, <2>1, <2>2, <2>3, <2>4 DEF SendMain, TypeOK, unchangedRest, Pcs
  <1>3. CASE SkipUnknownTest
    <2>1. loc' \in Local
      BY <1>0, <1>3 DEF SkipUnknownTest, Local
    <2>2. InRange'
      BY <1>0, <1>3 DEF SkipUnknownTest, InRange, Goto, unchangedRest, Local
    <2> QED
      BY <1>0, <1>3, <2>1, <2>2 DEF SkipUnknownTest, TypeOK, Goto, unchangedRest, Pcs
  <1>4. CASE RunTest
    <2>1. loc.cmd <= Len(conf.main) /\ loc.test <= Len(Current.ids)
      BY <1>0, <1>4 DEF RunTest, InRange
    <2>2. verdicts' \subseteq Verdict
      <3>1. Current.ids[loc.test] \in TestId
        BY <1>0, <2>1, CurrentType DEF Command, Local
      <3>2. \A f \in BOOLEAN :
              [it |-> loc.it, cmd |-> loc.cmd, test |-> loc.test,
               id |-> Current.ids[loc.test], fired |-> f] \in Verdict
        BY <1>0, <3>1 DEF Local, Verdict
      <3>3. (\E f \in BOOLEAN : Judge(f)) \/ verdicts' = verdicts
        BY <1>4 DEF RunTest
      <3> QED BY <1>0, <3>2, <3>3 DEF Judge, TypeOK
    <2>3. loc' \in Local
      <3>1. CASE RecordTrigger
        BY <1>0, <2>1, <3>1, RecordTriggerType
      <3>2. CASE ~RecordTrigger
        <4>1. [loc EXCEPT !.test = @ + 1] \in Local /\ [loc EXCEPT !.step = 1] \in Local
          BY <1>0, LocalUpdates, LocalFields
        <4> QED BY <1>0, <1>4, <3>2, <4>1, FailGroupType DEF RunTest, Panic
      <3> QED BY <3>1, <3>2
    <2>4. pc' \in {"tests", "ifTriggered", "deferred"} /\ outcome' \in {outcome, "error", "panic"}
      BY <1>4 DEF RunTest, RecordTrigger, Goto, FailGroup, Panic, Finish
    <2>5. InRange'
      <3>1. conf' = conf
        BY <1>4 DEF RunTest, unchangedRest
      <3>2. pc' # "deferred" => loc'.cmd = loc.cmd
        BY <1>0, <1>4 DEF RunTest, RecordTrigger, Goto, FailGroup, Panic, Finish, Local
      <3>3. pc' = "ifTriggered" => loc'.test = loc.test
        BY <1>0, <1>4 DEF RunTest, RecordTrigger, Goto, FailGroup, Panic, Finish, Local
      <3> QED BY <2>1, <2>4, <3>1, <3>2, <3>3 DEF InRange, Current
    <2> QED
      BY <1>0, <1>4, <2>2, <2>3, <2>4, <2>5 DEF RunTest, TypeOK, unchangedRest, Pcs
  <1>5. CASE SendIfTriggered
    <2>1. loc.cmd <= Len(conf.main) /\ loc.test <= Len(Current.ids)
      BY <1>0, <1>5 DEF SendIfTriggered, InRange
    <2>2. sent' \in Seq(Entry)
      <3>1. loc.cmd \in Nat /\ loc.test \in Nat /\ loc.step \in Nat
        BY <1>0 DEF Local
      <3> QED BY <1>0, <1>5, <3>1, SendType DEF SendIfTriggered
    <2>3. loc' \in Local
      <3>1. CASE RecordTrigger
        BY <1>0, <2>1, <3>1, RecordTriggerType
      <3>2. CASE ~RecordTrigger
        <4>1. [loc EXCEPT !.step = @ + 1] \in Local
          BY <1>0, LocalUpdates, LocalFields
        <4> QED BY <1>0, <1>5, <3>2, <4>1, FailGroupType DEF SendIfTriggered, Panic
      <3> QED BY <3>1, <3>2
    <2>4. pc' \in {"tests", "ifTriggered", "deferred"} /\ outcome' \in {outcome, "error", "panic"}
      BY <1>5 DEF SendIfTriggered, RecordTrigger, Goto, FailGroup, Panic, Finish
    <2>5. InRange'
      <3>1. conf' = conf
        BY <1>5 DEF SendIfTriggered, unchangedRest
      <3>2. pc' # "deferred" => loc'.cmd = loc.cmd
        BY <1>0, <1>5 DEF SendIfTriggered, RecordTrigger, Goto, FailGroup, Panic, Finish, Local
      <3>3. pc' = "ifTriggered" => loc'.test = loc.test
        BY <1>0, <1>5 DEF SendIfTriggered, RecordTrigger, Goto, FailGroup, Panic, Finish, Local
      <3> QED BY <2>1, <2>4, <3>1, <3>2, <3>3 DEF InRange, Current
    <2> QED
      BY <1>0, <1>5, <2>2, <2>3, <2>4, <2>5 DEF SendIfTriggered, TypeOK, unchangedRest, Pcs
  <1>6. CASE EndTests
    <2>1. loc' \in Local
      <3> DEFINE hit == loc.groupTriggered \/ loc.triggers # <<>>
      <3>1. hit \in BOOLEAN
        OBVIOUS
      <3>2. [loc EXCEPT !.groupTriggered = hit] \in Local
        BY <1>0, <3>1, LocalUpdates
      <3>3. [[loc EXCEPT !.groupTriggered = hit] EXCEPT !.cmd = loc.cmd + 1] \in Local
        BY <1>0, <3>2, LocalUpdates, LocalFields
      <3>4. [loc EXCEPT !.groupTriggered = hit, !.cmd = @ + 1] \in Local
        BY <3>3
      <3> QED BY <1>0, <1>6, <3>4, ReturnGroupType DEF EndTests
    <2>2. pc' \in {"main", "postMortem", "delay", "deferred"} /\ outcome' \in {outcome, "nil"}
      BY <1>6 DEF EndTests, ReturnGroup, Goto, Finish
    <2> QED
      BY <1>0, <1>6, <2>1, <2>2 DEF EndTests, TypeOK, InRange, unchangedRest, Pcs
  <1>7. CASE EndGroup
    <2>1. loc' \in Local
      BY <1>0, <1>7, ReturnGroupType, LocalFields DEF EndGroup
    <2>2. pc' \in {"postMortem", "delay", "deferred"} /\ outcome' \in {outcome, "nil"}
      BY <1>7 DEF EndGroup, ReturnGroup, Goto, Finish
    <2> QED
      BY <1>0, <1>7, <2>1, <2>2 DEF EndGroup, TypeOK, InRange, unchangedRest, Pcs
  <1>8. CASE SendPostMortem
    <2>1. sent' \in Seq(Entry)
      <3>1. loc.step \in Nat /\ 0 \in Nat
        BY <1>0 DEF Local
      <3> QED BY <1>0, <1>8, <3>1, SendType DEF SendPostMortem, Panic
    <2>2. loc' \in Local
      BY <1>0, <1>8 DEF SendPostMortem, Panic, Local
    <2>3. pc' \in {"postMortem", "deferred"} /\ outcome' \in {outcome, "error", "panic"}
      BY <1>8 DEF SendPostMortem, Panic, Goto, Finish
    <2> QED
      BY <1>0, <1>8, <2>1, <2>2, <2>3 DEF SendPostMortem, Panic, TypeOK, InRange, unchangedRest, Pcs
  <1>9. CASE EndPostMortem \/ EndLoop
    BY <1>0, <1>9 DEF EndPostMortem, EndLoop, TypeOK, InRange, Goto, unchangedRest, Pcs
  <1>10. CASE Delay
    <2>1. loc' \in Local
      BY <1>0, <1>10 DEF Delay, Local
    <2> QED BY <1>0, <1>10, <2>1 DEF Delay, TypeOK, InRange, Goto, unchangedRest, Pcs
  <1>11. CASE Report
    BY <1>0, <1>11 DEF Report, TypeOK, InRange, Finish, Pcs
  <1>12. CASE Notify
    <2>1. mailed' \in Nat
      <3>1. sent \in Seq(Entry) /\ mailed \in Nat
        BY <1>0 DEF TypeOK
      <3>2. Len(sent) \in Nat
        BY <3>1
      <3> QED BY <1>12, <3>1, <3>2 DEF Notify
    <2> QED BY <1>0, <1>12, <2>1 DEF Notify, TypeOK, InRange, unchangedRun, Pcs
  <1>13. CASE SkipNotify \/ Cleanup
    BY <1>0, <1>13 DEF SkipNotify, Cleanup, TypeOK, InRange, unchangedRun, Pcs
  <1>14. CASE Over \/ UNCHANGED vars
    BY <1>0, <1>14 DEF Over, vars, TypeOK, InRange, Current
  <1> QED
    BY <1>1, <1>2, <1>3, <1>4, <1>5, <1>6, <1>7, <1>8, <1>9, <1>10, <1>11, <1>12,
       <1>13, <1>14 DEF Next

LEMMA TypeInvariant == Spec => []TypeInv
  BY InitType, NextType, PTL DEF Spec

\* The variables of a run keep the types of their Go counterparts, whatever the
\* command file (TypeOK; process and what it calls).
THEOREM TypeCorrect == Spec => []TypeOK
  BY TypeInvariant, PTL DEF TypeInv

-----------------------------------------------------------------------------
(* The deferred function.                                                  *)

\* No mail goes out before the deferred function, and nothing is sent to the
\* router after it: neither follows from the other without the statement
\* reached.
DeferredInv ==
    /\ mail # "none" => pc \in {"cleanup", "over"}
    /\ pc \in {"cleanup", "over"} /\ conf.mailer # "none" /\ conf.logger => mail # "none"
    /\ mail = "sent" => mailed = Len(sent)
    /\ pc = "over" => open = {} \/ CutShort

LEMMA DeferredInvInductive == TypeInv /\ DeferredInv /\ [Next]_vars => DeferredInv'
  <1> SUFFICES ASSUME TypeInv, DeferredInv, [Next]_vars PROVE DeferredInv'
    OBVIOUS
  <1>0. open \subseteq {"logger", "session"} /\ mail \in {"none", "sent", "failed"}
    BY DEF TypeInv, TypeOK
  <1> DEFINE Deferred == {"deferred", "cleanup", "over"}
  <1>1. CASE pc \notin Deferred
    <2>1. mail = "none"
      BY <1>1 DEF DeferredInv
    <2>2. mail' = mail
      BY <1>1 DEF Next, BeginIteration, SendMain, SkipUnknownTest, RunTest, SendIfTriggered,
                  EndTests, EndGroup, SendPostMortem, Panic, EndPostMortem, Delay, EndLoop, Report,
                  Notify, SkipNotify, Cleanup, Over, unchangedRest, vars
    <2>3. pc' \notin {"cleanup", "over"}
      BY <1>1 DEF Next, BeginIteration, SendMain, SkipUnknownTest, RunTest, SendIfTriggered,
                  EndTests, EndGroup, SendPostMortem, EndPostMortem, Delay, EndLoop, Report,
                  Notify, SkipNotify, Cleanup, Over, vars,
                  Goto, Finish, FailGroup, Panic, RecordTrigger, ReturnGroup
    <2> QED BY <2>1, <2>2, <2>3 DEF DeferredInv
  <1>2. CASE pc \in Deferred
    <2>1. Notify \/ SkipNotify \/ Cleanup \/ UNCHANGED vars
      BY <1>2 DEF Next, BeginIteration, SendMain, SkipUnknownTest, RunTest, SendIfTriggered,
                  EndTests, EndGroup, SendPostMortem, Panic, EndPostMortem, Delay, EndLoop, Report,
                  Over
    <2>2. CASE Notify
      BY <1>0, <2>2 DEF Notify, DeferredInv, CutShort, unchangedRun
    <2>3. CASE SkipNotify
      BY <1>0, <2>3 DEF SkipNotify, DeferredInv, CutShort, unchangedRun
    <2>4. CASE Cleanup
      <3>1. open' = {}
        BY <1>0, <2>4 DEF Cleanup, Released
      <3> QED BY <2>4, <3>1 DEF Cleanup, DeferredInv, unchangedRun
    <2>5. CASE UNCHANGED vars
      BY <2>5 DEF vars, DeferredInv, CutShort
    <2> QED BY <2>1, <2>2, <2>3, <2>4, <2>5
  <1> QED BY <1>1, <1>2

LEMMA DeferredInvariant == Spec => []DeferredInv
  <1>1. Init => DeferredInv
    BY DEF Init, DeferredInv
  <1> QED BY <1>1, TypeInvariant, DeferredInvInductive, PTL DEF Spec

\* A run that is over holds neither session nor logger, unless the notification
\* failed or could not be made: aborted and panicking runs clean up as well
\* (pipeline.go:31-49).
THEOREM RunCleansUp == Spec => []CleanShutdown
  <1>1. DeferredInv => CleanShutdown
    BY DEF DeferredInv, CleanShutdown
  <1> QED BY <1>1, DeferredInvariant, PTL

\* The mailed log is the whole log, and no run with a mailer ends without an
\* attempt to mail it (pipeline.go:33-44).
THEOREM RunMailsItsLog == Spec => []MailHoldsWholeRun
  <1>1. DeferredInv => MailHoldsWholeRun
    BY DEF DeferredInv, MailHoldsWholeRun
  <1> QED BY <1>1, DeferredInvariant, PTL

-----------------------------------------------------------------------------
(* The stop at the first hit.                                              *)

\* After a hit of a run that stops there, control is past the test loop and on
\* its way out: it never gets back to the commands, the tests or the loop.
FreezeInv ==
    StopGroup /\ Hits # {} =>
        \/ pc \in {"ifTriggered", "postMortem", "report", "deferred", "cleanup", "over"}
        \/ pc = "tests" /\ loc.test > Len(Current.ids) /\ loc.triggers # <<>>

\* Hits is about verdicts only, and a quiet test adds none.
LEMMA HitsUnchanged == verdicts' = verdicts \/ Judge(FALSE) => Hits' = Hits
  BY DEF Hits, Judge

\* A trigger that is recorded in such a run ends the test loop.
LEMMA RecordTriggerStops ==
    ASSUME TypeInv, StopGroup, conf' = conf, RecordTrigger,
           loc.cmd <= Len(conf.main), loc.test <= Len(Current.ids)
    PROVE  pc' = "tests" /\ loc'.test > Len(Current'.ids) /\ loc'.triggers # <<>>
  <1>1. loc \in Local /\ Len(Current.ids) \in Nat
    <2>1. TypeOK /\ loc \in Local
      BY DEF TypeInv, TypeOK
    <2>2. Current \in Command
      BY <2>1, CurrentType
    <2> QED BY <2>1, <2>2 DEF Command
  <1>2. /\ loc'.test = Len(Current.ids) + 1
        /\ loc'.triggers = Append(loc.triggers, Current.ids[loc.test])
        /\ loc'.cmd = loc.cmd /\ pc' = "tests"
    BY <1>1 DEF RecordTrigger, AfterTrigger, Local, Goto
  <1>3. Current' = Current
    BY <1>2 DEF Current
  <1>4. Append(loc.triggers, Current.ids[loc.test]) # <<>>
    <2>1. loc.triggers \in Seq(TestId) /\ Current.ids[loc.test] \in TestId
      BY <1>1, CurrentType DEF TypeInv, Local, Command
    <2> QED BY <2>1
  <1> QED BY <1>1, <1>2, <1>3, <1>4

LEMMA FreezeInvInductive == TypeInv /\ FreezeInv /\ [Next]_vars => FreezeInv'
  <1> SUFFICES ASSUME TypeInv, FreezeInv, [Next]_vars, StopGroup', Hits' # {}
               PROVE  \/ pc' \in {"ifTriggered", "postMortem", "report", "deferred",
                                  "cleanup", "over"}
                      \/ /\ pc' = "tests" /\ loc'.test > Len(Current'.ids)
                         /\ loc'.triggers # <<>>
    BY DEF FreezeInv
  <1> DEFINE Past == pc \in {"ifTriggered", "postMortem", "report", "deferred", "cleanup", "over"}
  <1> DEFINE Leaving == pc = "tests" /\ loc.test > Len(Current.ids) /\ loc.triggers # <<>>
  <1>0. StopGroup /\ conf' = conf
    BY DEF Next, BeginIteration, SendMain, SkipUnknownTest, RunTest, SendIfTriggered,
           EndTests, EndGroup, SendPostMortem, Panic, EndPostMortem, Delay, EndLoop, Report,
           Notify, SkipNotify, Cleanup, Over, unchangedRest, unchangedRun, vars, StopGroup
  <1>a. conf.repro /\ conf.stop
    BY <1>0 DEF StopGroup
  <1>b. loc.test \in Nat /\ (pc = "tests" => Len(Current.ids) \in Nat)
    <2>1. loc.test \in Nat
      BY DEF TypeInv, TypeOK, Local
    <2>2. pc = "tests" => Current \in Command
      BY CurrentType DEF TypeInv, InRange
    <2> QED BY <2>1, <2>2 DEF Command
  <1>1. CASE RunTest
    <2>1. loc.cmd <= Len(conf.main) /\ loc.test <= Len(Current.ids) /\ pc = "tests"
      BY <1>1 DEF RunTest, TypeInv, InRange
    <2>2. ~(Past \/ Leaving)
      BY <1>b, <2>1
    <2>3. Hits = {}
      BY <1>0, <2>2 DEF FreezeInv
    <2>4. ~Judge(FALSE)
      BY <2>3, HitsUnchanged
    <2>5. RecordTrigger \/ pc' \in {"ifTriggered", "deferred"}
      BY <1>1, <2>4 DEF RunTest, Goto, FailGroup, Panic, Finish
    <2> QED BY <1>0, <2>1, <2>5, RecordTriggerStops
  <1>2. CASE SendIfTriggered
    <2>1. loc.cmd <= Len(conf.main) /\ loc.test <= Len(Current.ids)
      BY <1>2 DEF SendIfTriggered, TypeInv, InRange
    <2>2. RecordTrigger \/ pc' \in {"ifTriggered", "deferred"}
      BY <1>2 DEF SendIfTriggered, Goto, FailGroup, Panic, Finish
    <2> QED BY <1>0, <2>1, <2>2, RecordTriggerStops
  <1>3. CASE ~RunTest /\ ~SendIfTriggered
    <2>1. verdicts' = verdicts
      BY <1>3 DEF Next, BeginIteration, SendMain, SkipUnknownTest,
                  EndTests, EndGroup, SendPostMortem, Panic, EndPostMortem, Delay, EndLoop, Report,
                  Notify, SkipNotify, Cleanup, Over, unchangedRun, vars
    <2>2. Past \/ Leaving
      BY <1>0, <2>1, HitsUnchanged DEF FreezeInv
    <2>3. CASE UNCHANGED vars
      BY <2>2, <2>3 DEF vars, Current
    <2>4. CASE EndTests
      BY <1>0, <1>a, <2>2, <2>4 DEF EndTests, ReturnGroup, Goto
    <2>5. CASE SendPostMortem \/ EndPostMortem
      BY <1>a, <2>5 DEF SendPostMortem, Panic, EndPostMortem, Goto, Finish, StopRun
    <2>6. CASE Report \/ Notify \/ SkipNotify \/ Cleanup
      BY <2>6 DEF Report, Notify, SkipNotify, Cleanup, Finish
    <2>7. ~(BeginIteration \/ SendMain \/ SkipUnknownTest \/ EndGroup \/ Delay \/ EndLoop)
      BY <1>b, <2>2 DEF BeginIteration, SendMain, SkipUnknownTest, EndGroup, Delay, EndLoop
    <2> QED BY <1>3, <2>3, <2>4, <2>5, <2>6, <2>7 DEF Next, Over
  <1> QED BY <1>1, <1>2, <1>3

LEMMA FreezeInvariant == Spec => []FreezeInv
  <1>1. Init => FreezeInv
    BY DEF Init, FreezeInv, Hits
  <1> QED BY <1>1, TypeInvariant, FreezeInvInductive, PTL DEF Spec

\* With stop_when_triggered nothing but the evidence of the first hit is
\* collected after it: no main command, no further test (pipeline.go:143, 172).
THEOREM RunFreezesAtFirstHit == Spec => StopsAtFirstTrigger
  <1>1. TypeInv /\ FreezeInv /\ [Next]_vars => (StopGroup /\ Hits # {} => Frozen)
    <2> SUFFICES ASSUME TypeInv, FreezeInv, [Next]_vars, StopGroup, Hits # {}
                 PROVE  Frozen
      OBVIOUS
    <2>1. ~RunTest /\ ~SendMain
      <3>1. loc.test \in Nat
        BY DEF TypeInv, TypeOK, Local
      <3>2. pc = "tests" => Len(Current.ids) \in Nat
        BY CurrentType DEF TypeInv, InRange, Command
      <3>3. pc # "main" /\ (pc = "tests" => loc.test > Len(Current.ids))
        BY DEF FreezeInv
      <3>4. ~SendMain
        BY <3>3 DEF SendMain
      <3>5. RunTest => pc = "tests" /\ loc.test <= Len(Current.ids)
        BY DEF RunTest
      <3> QED BY <3>1, <3>2, <3>3, <3>4, <3>5
    <2>2. verdicts' = verdicts
      BY <2>1 DEF Next, BeginIteration, SendMain, SkipUnknownTest, SendIfTriggered,
                  EndTests, EndGroup, SendPostMortem, Panic, EndPostMortem, Delay, EndLoop, Report,
                  Notify, SkipNotify, Cleanup, Over, unchangedRun, vars
    <2>3. \/ sent' = sent
          \/ Send("ifTriggered", loc.cmd, loc.test, loc.step)
          \/ Send("postMortem", 0, 0, loc.step)
      BY <2>1 DEF Next, BeginIteration, SkipUnknownTest, SendIfTriggered,
                  EndTests, EndGroup, SendPostMortem, Panic, EndPostMortem, Delay, EndLoop, Report,
                  Notify, SkipNotify, Cleanup, Over, unchangedRun, vars
    <2>4. sent \in Seq(Entry)
      BY DEF TypeInv, TypeOK
    <2>5. ASSUME NEW e, sent' = Append(sent, e), e.kind # "main",
                 NEW n \in DOMAIN sent' \ DOMAIN sent
          PROVE  sent'[n].kind # "main"
      <3>1. DOMAIN sent = 1..Len(sent) /\ DOMAIN sent' = 1..(Len(sent) + 1)
        BY <2>4, <2>5
      <3>2. n = Len(sent) + 1
        BY <2>4, <2>5, <3>1
      <3> QED BY <2>4, <2>5, <3>2
    <2> QED BY <2>2, <2>3, <2>5 DEF Frozen, Send
  <1> QED BY <1>1, TypeInvariant, FreezeInvariant, PTL DEF Spec, StopsAtFirstTrigger

-----------------------------------------------------------------------------
(* The closing message.                                                    *)

\* How the flags of the nested loops follow the hits of the current iteration.
FlagsInv ==
    /\ Hits \subseteq 0..loc.it
    /\ pc \in {"main", "tests", "ifTriggered", "postMortem", "delay"} => loc.it < Iterations
    /\ pc = "loop" =>
         /\ loc.it \notin Hits
         /\ loc.it > 0 => (loc.triggered <=> loc.it - 1 \in Hits)
    /\ pc = "main" => (loc.groupTriggered <=> loc.it \in Hits)
    /\ pc = "tests" => (loc.groupTriggered \/ loc.triggers # <<>> <=> loc.it \in Hits)
    /\ pc \in {"ifTriggered", "postMortem"} => loc.it \in Hits
    /\ pc = "postMortem" => loc.triggered
    /\ pc = "delay" => (loc.triggered <=> loc.it \in Hits)

\* From the last statement on, the flag and the message claim a trigger only if there
\* was one, and with a stop deny one only if there was none.
ReportInv ==
    /\ pc = "report" =>
         /\ loc.triggered => Hits # {}
         /\ StopGroup /\ ~loc.triggered => Hits = {}
    /\ report # "none" =>
         /\ pc \in {"deferred", "cleanup", "over"} /\ conf.repro
         /\ report = "succeeded" => Hits # {}
         /\ report = "not succeeded" /\ StopGroup => Hits = {}

\* A test that fires adds the iteration at hand to the hits.
LEMMA HitsGrow == Judge(TRUE) => Hits' = Hits \cup {loc.it}
  <1> SUFFICES ASSUME Judge(TRUE) PROVE Hits' = Hits \cup {loc.it}
    OBVIOUS
  <1> DEFINE v == [it |-> loc.it, cmd |-> loc.cmd, test |-> loc.test,
                   id |-> Current.ids[loc.test], fired |-> TRUE]
  <1>1. verdicts' = verdicts \cup {v}
    BY DEF Judge
  <1>2. v.it = loc.it /\ v.fired
    OBVIOUS
  <1> HIDE DEF v
  <1>3. {w \in verdicts' : w.fired} = {w \in verdicts : w.fired} \cup {v}
    BY <1>1, <1>2
  <1> QED BY <1>2, <1>3 DEF Hits

\* The plan does not change, and it has at least one iteration.
LEMMA IterationsType ==
    ASSUME TypeInv
    PROVE  Iterations \in Nat \ {0}
  <1>1. conf.times \in Int
    BY ConfigsAssumption DEF TypeInv, TypeOK, Config
  <1> QED BY <1>1 DEF Iterations

LEMMA ConfConstant == [Next]_vars => conf' = conf /\ Iterations' = Iterations
  <1>1. [Next]_vars => conf' = conf
    BY DEF Next, BeginIteration, SendMain, SkipUnknownTest, RunTest, SendIfTriggered,
           EndTests, EndGroup, SendPostMortem, Panic, EndPostMortem, Delay, EndLoop, Report,
           Notify, SkipNotify, Cleanup, Over, unchangedRest, unchangedRun, vars
  <1> QED BY <1>1 DEF Iterations

\* Recording a trigger leaves a list that is not empty, in the same iteration.
LEMMA RecordTriggerFields ==
    ASSUME TypeOK, loc.cmd <= Len(conf.main), loc.test <= Len(Current.ids), RecordTrigger
    PROVE  loc'.it = loc.it /\ loc'.triggers # <<>> /\ pc' = "tests"
  <1>1. loc \in Local /\ Current \in Command
    BY CurrentType DEF TypeOK
  <1>2. loc.triggers \in Seq(TestId) /\ Current.ids[loc.test] \in TestId
    BY <1>1 DEF Local, Command
  <1>3. Append(loc.triggers, Current.ids[loc.test]) # <<>>
    BY <1>2
  <1> QED BY <1>1, <1>3 DEF RecordTrigger, Goto, Local

\* What ReturnGroup leaves to process.
LEMMA ReturnGroupFields ==
    ASSUME loc \in Local, NEW t \in BOOLEAN, ReturnGroup(t)
    PROVE  /\ loc'.it = loc.it /\ loc'.triggered = t
           /\ t => pc' \in {"postMortem", "deferred"}
           /\ ~t => pc' = "delay"
  BY DEF ReturnGroup, Goto, Finish, Local

LEMMA FlagsInvInductive == TypeInv /\ FlagsInv /\ [Next]_vars => FlagsInv'
  <1> SUFFICES ASSUME TypeInv, FlagsInv, [Next]_vars PROVE FlagsInv'
    OBVIOUS
  <1>0. TypeOK /\ InRange /\ loc \in Local
    BY DEF TypeInv, TypeOK
  <1>a. Iterations' = Iterations /\ Iterations \in Nat \ {0}
    BY ConfConstant, IterationsType
  <1>b. /\ loc.it \in Nat /\ loc.groupTriggered \in BOOLEAN /\ loc.triggered \in BOOLEAN
    BY <1>0, LocalFields
  <1>1. CASE RunTest
    <2>1. loc.cmd <= Len(conf.main) /\ loc.test <= Len(Current.ids) /\ pc = "tests"
      BY <1>0, <1>1 DEF RunTest, InRange
    <2>2. CASE Judge(FALSE) /\ Goto("tests") /\ loc' = [loc EXCEPT !.test = @ + 1]
      <3>1. /\ loc'.it = loc.it /\ loc'.groupTriggered = loc.groupTriggered
            /\ loc'.triggers = loc.triggers
        BY <1>0, <2>2 DEF Local
      <3> QED BY <1>a, <2>1, <2>2, <3>1, HitsUnchanged DEF FlagsInv, Goto
    <2>3. CASE Judge(TRUE) /\ RecordTrigger
      <3>1. loc'.it = loc.it /\ loc'.triggers # <<>> /\ pc' = "tests"
        BY <1>0, <2>1, <2>3, RecordTriggerFields
      <3>2. Hits' = Hits \cup {loc.it}
        BY <2>3, HitsGrow
      <3>3. Hits' \subseteq 0..loc'.it /\ loc'.it \in Hits' /\ loc'.it < Iterations'
        <4>1. Hits \subseteq 0..loc.it /\ loc.it < Iterations
          BY <2>1 DEF FlagsInv
        <4>2. loc.it \in 0..loc.it
          BY <1>b
        <4>3. loc'.it < Iterations'
          BY <1>a, <3>1, <4>1
        <4> QED BY <3>1, <3>2, <4>1, <4>2, <4>3
      <3> QED BY <3>1, <3>3 DEF FlagsInv
    <2>4. CASE Judge(TRUE) /\ Goto("ifTriggered") /\ loc' = [loc EXCEPT !.step = 1]
      <3>1. loc'.it = loc.it
        BY <1>0, <2>4 DEF Local
      <3> QED BY <1>a, <1>b, <2>1, <2>4, <3>1, HitsGrow DEF FlagsInv, Goto
    <2>5. CASE FailGroup /\ UNCHANGED verdicts
      <3>1. loc'.it = loc.it
        BY <1>0, <2>5 DEF FailGroup, Panic, Local
      <3> QED BY <1>a, <2>5, <3>1, HitsUnchanged DEF FlagsInv, FailGroup, Panic, Finish
    <2>6. CASE Panic /\ UNCHANGED verdicts
      BY <1>a, <2>6, HitsUnchanged DEF FlagsInv, Panic, Finish
    <2> QED BY <1>1, <2>2, <2>3, <2>4, <2>5, <2>6 DEF RunTest
  <1>2. CASE ~RunTest
    <2>1. verdicts' = verdicts /\ Hits' = Hits
      <3>1. verdicts' = verdicts
        BY <1>2 DEF Next, BeginIteration, SendMain, SkipUnknownTest, SendIfTriggered,
                    EndTests, EndGroup, SendPostMortem, Panic, EndPostMortem, Delay, EndLoop, Report,
                    Notify, SkipNotify, Cleanup, Over, unchangedRun, vars
      <3> QED BY <3>1, HitsUnchanged
    <2>2. CASE BeginIteration
      <3>1. loc'.it = loc.it /\ ~loc'.groupTriggered
        BY <1>0, <2>2 DEF BeginIteration, Local
      <3> QED BY <1>a, <2>1, <2>2, <3>1 DEF BeginIteration, FlagsInv, Goto
    <2>3. CASE SendMain
      <3>1. loc'.it = loc.it
        BY <1>0, <2>3 DEF SendMain, FailGroup, Panic, Local
      <3>2. pc' \in {"main", "tests", "deferred"} /\ pc = "main"
        BY <2>3 DEF SendMain, Goto, FailGroup, Panic, Finish
      <3>3. pc' # "deferred" => loc'.groupTriggered = loc.groupTriggered
        BY <1>0, <2>3 DEF SendMain, Goto, FailGroup, Panic, Finish, Local
      <3>4. pc' = "tests" => loc'.triggers = <<>>
        BY <1>0, <2>3 DEF SendMain, Goto, FailGroup, Panic, Finish, Local
      <3> QED BY <1>a, <2>1, <3>1, <3>2, <3>3, <3>4 DEF FlagsInv
    <2>4. CASE SkipUnknownTest
      <3>1. /\ loc'.it = loc.it /\ loc'.groupTriggered = loc.groupTriggered
            /\ loc'.triggers = loc.triggers
        BY <1>0, <2>4 DEF SkipUnknownTest, Local
      <3> QED BY <1>a, <2>1, <2>4, <3>1 DEF SkipUnknownTest, FlagsInv, Goto
    <2>5. CASE SendIfTriggered
      <3>1. loc.cmd <= Len(conf.main) /\ loc.test <= Len(Current.ids) /\ pc = "ifTriggered"
        BY <1>0, <2>5 DEF SendIfTriggered, InRange
      <3>2. CASE RecordTrigger
        BY <1>0, <1>a, <2>1, <3>1, <3>2, RecordTriggerFields DEF FlagsInv
      <3>3. CASE ~RecordTrigger
        <4>1. loc'.it = loc.it
          BY <1>0, <2>5, <3>3 DEF SendIfTriggered, FailGroup, Panic, Local
        <4>2. pc' \in {"ifTriggered", "deferred"}
          BY <2>5, <3>3 DEF SendIfTriggered, Goto, FailGroup, Panic, Finish
        <4> QED BY <1>a, <2>1, <3>1, <4>1, <4>2 DEF FlagsInv
      <3> QED BY <3>2, <3>3
    <2>6. CASE EndTests
      <3> DEFINE hit == loc.groupTriggered \/ loc.triggers # <<>>
      <3>1. pc = "tests" /\ (hit <=> loc.it \in Hits)
        BY <2>6 DEF EndTests, FlagsInv
      <3>2. CASE StopGroup /\ hit
        <4>1. ReturnGroup(TRUE)
          BY <2>6, <3>2 DEF EndTests
        <4>2. loc'.it = loc.it /\ loc'.triggered /\ pc' \in {"postMortem", "deferred"}
          BY <1>0, <4>1, ReturnGroupFields
        <4> QED BY <1>a, <2>1, <3>1, <3>2, <4>2 DEF FlagsInv
      <3>3. CASE ~(StopGroup /\ hit)
        <4>1. loc' = [loc EXCEPT !.groupTriggered = hit, !.cmd = @ + 1] /\ pc' = "main"
          BY <2>6, <3>3 DEF EndTests, Goto
        <4>2. loc'.it = loc.it /\ (loc'.groupTriggered <=> hit)
          BY <1>0, <4>1 DEF Local
        <4> QED BY <1>a, <2>1, <3>1, <4>1, <4>2 DEF FlagsInv
      <3> QED BY <3>2, <3>3
    <2>7. CASE EndGroup
      <3>1. ReturnGroup(loc.groupTriggered) /\ pc = "main"
        BY <2>7 DEF EndGroup
      <3>2. /\ loc'.it = loc.it /\ loc'.triggered = loc.groupTriggered
            /\ loc.groupTriggered => pc' \in {"postMortem", "deferred"}
            /\ ~loc.groupTriggered => pc' = "delay"
        BY <1>0, <1>b, <3>1, ReturnGroupFields
      <3> QED BY <1>a, <1>b, <2>1, <3>1, <3>2 DEF FlagsInv
    <2>8. CASE SendPostMortem
      <3>1. loc'.it = loc.it /\ loc'.triggered = loc.triggered
        BY <1>0, <2>8 DEF SendPostMortem, Panic, Local
      <3>2. pc' \in {"postMortem", "deferred"} /\ pc = "postMortem"
        BY <2>8 DEF SendPostMortem, Panic, Goto, Finish
      <3> QED BY <1>a, <2>1, <3>1, <3>2 DEF FlagsInv
    <2>9. CASE EndPostMortem \/ EndLoop
      <3>1. loc' = loc /\ pc' \in {"report", "delay"} /\ (pc' = "delay" => pc = "postMortem")
        BY <2>9 DEF EndPostMortem, EndLoop, Goto
      <3> QED BY <1>a, <2>1, <3>1 DEF FlagsInv
    <2>10. CASE Delay
      <3>1. loc'.it = loc.it + 1 /\ loc'.triggered = loc.triggered /\ pc = "delay" /\ pc' = "loop"
        BY <1>0, <2>10 DEF Delay, Local, Goto
      <3>2. loc'.it \in Nat /\ loc'.it - 1 = loc.it
        BY <1>b, <3>1
      <3>3. Hits' \subseteq 0..loc'.it /\ loc'.it \notin Hits'
        BY <1>b, <2>1, <3>1 DEF FlagsInv
      <3> QED BY <2>1, <3>1, <3>2, <3>3 DEF FlagsInv
    <2>11. CASE Report \/ Notify \/ SkipNotify \/ Cleanup
      <3>1. loc' = loc /\ pc' \in {"deferred", "cleanup", "over"}
        BY <2>11 DEF Report, Notify, SkipNotify, Cleanup, Finish, unchangedRun
      <3> QED BY <1>a, <2>1, <3>1 DEF FlagsInv
    <2>12. CASE UNCHANGED vars
      BY <1>a, <2>1, <2>12 DEF vars, FlagsInv
    <2> QED BY <1>2, <2>2, <2>3, <2>4, <2>5, <2>6, <2>7, <2>8, <2>9, <2>10, <2>11, <2>12
            DEF Next, Over
  <1> QED BY <1>1, <1>2

LEMMA FlagsInvariant == Spec => []FlagsInv
  <1>1. Init => FlagsInv
    BY DEF Init, FlagsInv, Hits
  <1> QED BY <1>1, TypeInvariant, FlagsInvInductive, PTL DEF Spec

LEMMA ReportInvInductive ==
    TypeInv /\ FlagsInv /\ FreezeInv /\ ReportInv /\ [Next]_vars => ReportInv'
  <1> SUFFICES ASSUME TypeInv, FlagsInv, FreezeInv, ReportInv, [Next]_vars PROVE ReportInv'
    OBVIOUS
  <1>a. Iterations \in Nat \ {0} /\ conf' = conf /\ StopGroup' = StopGroup
    BY ConfConstant, IterationsType DEF StopGroup
  <1>b. loc.it \in Nat /\ report \in {"none", "succeeded", "not succeeded"}
    BY LocalFields DEF TypeInv, TypeOK
  <1>1. CASE EndPostMortem \/ EndLoop
    <2>1. loc' = loc /\ Hits' = Hits /\ report' = report /\ report = "none"
      BY <1>1, HitsUnchanged DEF EndPostMortem, EndLoop, unchangedRest, ReportInv
    <2>2. CASE EndPostMortem
      <3>1. loc.triggered /\ Hits # {}
        BY <2>2 DEF EndPostMortem, FlagsInv
      <3> QED BY <2>1, <3>1 DEF ReportInv
    <2>3. CASE EndLoop
      <3>1. pc = "loop" /\ loc.it >= Iterations
        BY <2>3 DEF EndLoop
      <3>2. loc.triggered => loc.it - 1 \in Hits
        <4>1. \A n \in Nat, k \in Nat \ {0} : n >= k => n > 0
          OBVIOUS
        <4>2. loc.it > 0
          BY <1>a, <1>b, <3>1, <4>1
        <4> QED BY <3>1, <4>2 DEF FlagsInv
      <3>3. StopGroup => Hits = {}
        BY <3>1 DEF FreezeInv
      <3> QED BY <1>a, <2>1, <3>2, <3>3 DEF ReportInv
    <2> QED BY <1>1, <2>2, <2>3
  <1>2. CASE Report
    <2>1. loc' = loc /\ Hits' = Hits /\ pc = "report" /\ pc' = "deferred"
      BY <1>2, HitsUnchanged DEF Report, Finish
    <2>2. /\ report' # "none" => conf.repro
          /\ report' = "succeeded" => loc.triggered
          /\ report' = "not succeeded" => ~loc.triggered
      BY <1>2 DEF Report
    <2> QED BY <1>a, <2>1, <2>2 DEF ReportInv
  <1>3. CASE Notify \/ SkipNotify \/ Cleanup \/ UNCHANGED vars
    <2>1. /\ loc' = loc /\ Hits' = Hits /\ report' = report
          /\ pc' = pc \/ (pc \in {"deferred", "cleanup"} /\ pc' \in {"cleanup", "over"})
      BY <1>3, HitsUnchanged DEF Notify, SkipNotify, Cleanup, unchangedRun, vars
    <2> QED BY <1>a, <2>1 DEF ReportInv
  <1>4. CASE \/ BeginIteration \/ SendMain \/ SkipUnknownTest \/ RunTest \/ SendIfTriggered
             \/ EndTests \/ EndGroup \/ SendPostMortem \/ Delay
    <2>1. pc \notin {"report", "deferred", "cleanup", "over"}
      BY <1>4 DEF BeginIteration, SendMain, SkipUnknownTest, RunTest, SendIfTriggered,
                  EndTests, EndGroup, SendPostMortem, Delay
    <2>2. report' = report
      BY <1>4 DEF BeginIteration, SendMain, SkipUnknownTest, RunTest, SendIfTriggered,
                  EndTests, EndGroup, SendPostMortem, Delay, unchangedRest
    <2>3. pc' # "report"
      BY <1>4 DEF BeginIteration, SendMain, SkipUnknownTest, RunTest, SendIfTriggered,
                  EndTests, EndGroup, SendPostMortem, Delay,
                  Goto, Finish, FailGroup, Panic, RecordTrigger, ReturnGroup
    <2> QED BY <2>1, <2>2, <2>3 DEF ReportInv
  <1> QED BY <1>1, <1>2, <1>3, <1>4 DEF Next, Over

LEMMA ReportInvariant == Spec => []ReportInv
  <1>1. Init => ReportInv
    BY DEF Init, ReportInv
  <1> QED BY <1>1, TypeInvariant, FlagsInvariant, FreezeInvariant, ReportInvInductive, PTL DEF Spec

\* The closing message of a repro run never claims a trigger that no test saw, and a
\* run that stops at its first never denies one (pipeline.go:56, 68-70, 75-80).
THEOREM RunReportsTruly == Spec => []ClosingMessageTrue
  <1>1. ReportInv => ClosingMessageTrue
    BY DEF ReportInv, ClosingMessageTrue, StopRun, StopGroup
  <1> QED BY <1>1, ReportInvariant, PTL
=============================================================================
