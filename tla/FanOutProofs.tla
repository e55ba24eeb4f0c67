----------------------------- MODULE FanOutProofs -----------------------------
(***************************************************************************)
(* Proofs about FanOut, for any number of routers: results are neither     *)
(* lost nor stuck, the exit status is the truth, and a stop is a stop.     *)
(***************************************************************************)
EXTENDS FanOut, FiniteSetTheorems, TLAPS

\* os.Exit and the statement main is at.
ExitInv == pc = "exited" <=> exit # "none"

\* The loop has been at the routers before next: each was passed over or started.
\* On windows the one at hand runs inside the loop.
LoopInv ==
    /\ \A r \in Routers : process[r] # "none" =>
          r < next \/ (r = next /\ pc \in {"inline", "exited"} /\ next <= option.count)
    /\ \A r \in Routers : r < next => r \in skipped \/ process[r] # "none"
    /\ pc \in {"logger", "verifier", "dial", "start", "inline"} => next <= option.count
    /\ started < next

\* A process that has returned has a result.
ResultInv ==
    \A r \in Routers : process[r] \in {"result", "sent", "ended"} => result[r] \in {"nil", "error"}

TypeInv == TypeOK /\ ExitInv /\ LoopInv /\ ResultInv

LEMMA OptionType ==
    ASSUME option \in Option
    PROVE  /\ option.count \in 0..MaxCount /\ option.count \in Nat
           /\ option.stopOnError \in BOOLEAN /\ option.single \in BOOLEAN
           /\ option.windows \in BOOLEAN
  BY FanOutAssumption DEF Option

LEMMA TypeInvInductive == TypeInv /\ [Next]_vars => TypeInv'
  <1> SUFFICES ASSUME TypeInv, [Next]_vars PROVE TypeInv'
    OBVIOUS
  <1>0. option.count \in 0..MaxCount /\ option.count \in Nat /\ MaxCount \in Nat
    BY OptionType, FanOutAssumption DEF TypeInv, TypeOK
  <1> USE DEF TypeInv, TypeOK, ExitInv, LoopInv, ResultInv, Routers
  <1>1. CASE Resolve
    <2>1. CASE Skip
      <3>1. skipped' \subseteq Routers /\ next \in Routers
        BY <1>0, <1>1, <2>1 DEF Resolve, Skip
      <3>2. CASE next' = next + 1 /\ pc' = "resolve" /\ fatal' = fatal
        BY <1>0, <1>1, <2>1, <3>1, <3>2 DEF Resolve, Skip, unchangedLoop
      <3>3. CASE next' = next /\ pc' = "collect" /\ fatal' = TRUE
        BY <1>0, <1>1, <2>1, <3>1, <3>3 DEF Resolve, Skip, unchangedLoop
      <3> QED BY <2>1, <3>2, <3>3 DEF Skip
    <2>2. CASE pc' = "logger" /\ UNCHANGED <<next, fatal, skipped>>
      BY <1>0, <1>1, <2>2 DEF Resolve, unchangedLoop
    <2> QED BY <1>1, <2>1, <2>2 DEF Resolve
  <1>2. CASE OpenLogger
    <2>1. next \in 1..option.count /\ next \in Routers
      BY <1>0, <1>2 DEF OpenLogger
    <2> QED BY <1>0, <1>2, <2>1 DEF OpenLogger, Exit, unchangedLoop, Running
  <1>3. CASE OpenVerifier
    BY <1>0, <1>3 DEF OpenVerifier, Exit, unchangedLoop, Running
  <1>4. CASE OpenSession
    <2>1. CASE Skip
      <3>1. skipped' \subseteq Routers /\ next \in Routers
        BY <1>0, <1>4, <2>1 DEF OpenSession, Skip
      <3>2. CASE next' = next + 1 /\ pc' = "resolve" /\ fatal' = fatal
        BY <1>0, <1>4, <2>1, <3>1, <3>2 DEF OpenSession, Skip, unchangedLoop
      <3>3. CASE next' = next /\ pc' = "collect" /\ fatal' = TRUE
        BY <1>0, <1>4, <2>1, <3>1, <3>3 DEF OpenSession, Skip, unchangedLoop
      <3> QED BY <2>1, <3>2, <3>3 DEF Skip
    <2>2. CASE pc' = "start" /\ UNCHANGED <<next, fatal, skipped>>
      BY <1>0, <1>4, <2>2 DEF OpenSession, unchangedLoop
    <2> QED BY <1>4, <2>1, <2>2 DEF OpenSession
  <1>5. CASE Start
    BY <1>0, <1>5 DEF Start, unchangedLoop
  <1>6. CASE InlineReturns
    BY <1>0, <1>6 DEF InlineReturns, unchangedLoop
  <1>7. CASE EndLoop
    BY <1>0, <1>7 DEF EndLoop, unchangedLoop
  <1>8. CASE Collect
    <2>1. errCh' \in Seq({"nil", "error"})
      BY <1>8 DEF Collect
    <2> QED BY <1>0, <1>8, <2>1 DEF Collect
  <1>9. CASE Wait
    BY <1>0, <1>9 DEF Wait
  <1>10. CASE ExitMain
    BY <1>0, <1>10 DEF ExitMain, Exit, Running
  <1>11. ASSUME NEW r \in Routers, ProcessReturns(r) PROVE TypeInv'
    BY <1>0, <1>11 DEF ProcessReturns, Exit, unchangedMain, Running
  <1>12. ASSUME NEW r \in Routers, SendResult(r) PROVE TypeInv'
    <2>1. errCh' \in Seq({"nil", "error"})
      BY <1>12 DEF SendResult
    <2> QED BY <1>0, <1>12, <2>1 DEF SendResult, unchangedMain
  <1>13. ASSUME NEW r \in Routers, WgDone(r) PROVE TypeInv'
    BY <1>0, <1>13 DEF WgDone, unchangedMain
  <1>14. CASE UNCHANGED vars
    BY <1>0, <1>14 DEF vars
  <1> QED BY <1>1, <1>2, <1>3, <1>4, <1>5, <1>6, <1>7, <1>8, <1>9, <1>10, <1>11, <1>12,
             <1>13, <1>14 DEF Next, Main, MainSteps, Process, Reports, Exited

LEMMA StartTypes == Init => TypeInv
  <1> SUFFICES ASSUME Init PROVE TypeInv
    OBVIOUS
  <1>1. option.count \in Nat
    BY OptionType DEF Init
  <1>2. TypeOK
    <2>1. errCh \in Seq({"nil", "error"}) /\ started \in 0..option.count /\ received \in 0..started
          /\ next \in 1..(option.count + 1)
      BY <1>1 DEF Init
    <2> QED BY <2>1 DEF Init, TypeOK
  <1>3. ExitInv /\ LoopInv /\ ResultInv
    BY <1>1 DEF Init, ExitInv, LoopInv, ResultInv, Routers
  <1> QED BY <1>2, <1>3 DEF TypeInv

\* main, its goroutines and the channel keep the types of their declarations.
THEOREM TypeCorrect == Spec => []TypeOK
  <1>1. TypeInv => TypeOK
    BY DEF TypeInv
  <1> QED BY <1>1, StartTypes, TypeInvInductive, PTL DEF Spec

-----------------------------------------------------------------------------
(* Counting: what main counts are the processes.                           *)

Begun    == {r \in Routers : process[r] # "none"}
Reported == {r \in Routers : process[r] \in {"sent", "ended"}}

LEMMA Finite ==
    ASSUME NEW S, S \subseteq Routers
    PROVE  IsFiniteSet(S) /\ Cardinality(S) \in Nat
  <1>1. IsFiniteSet(Routers)
    BY FS_Interval, FanOutAssumption DEF Routers
  <1> QED BY <1>1, FS_Subset, FS_CardinalityType

\* The results sent are those main has taken and those in the channel; the processes
\* started are those main has counted, and the one it runs itself on windows.
CountInv ==
    /\ Cardinality(Reported) = received + Len(errCh)
    /\ pc # "exited" => Cardinality(Begun) = started + (IF pc = "inline" THEN 1 ELSE 0)

LEMMA SameSets ==
    ASSUME process' = process PROVE Reported' = Reported /\ Begun' = Begun
  BY DEF Reported, Begun

LEMMA CountInvInductive == TypeInv /\ CountInv /\ [Next]_vars => CountInv'
  <1> SUFFICES ASSUME TypeInv, CountInv, [Next]_vars PROVE CountInv'
    OBVIOUS
  <1>0. /\ errCh \in Seq({"nil", "error"}) /\ received \in Nat /\ started \in Nat /\ next \in Nat
        /\ option.count \in 0..MaxCount /\ MaxCount \in Nat /\ Len(errCh) \in Nat
        /\ process \in [Routers -> {"none", "running", "result", "sent", "ended"}]
    BY OptionType, FanOutAssumption DEF TypeInv, TypeOK
  <1>1. CASE Resolve \/ OpenSession \/ EndLoop \/ Wait
    <2>1. UNCHANGED <<process, received, errCh, started>> /\ pc' # "inline" /\ pc # "inline"
          /\ pc # "exited"
      BY <1>1 DEF Resolve, OpenSession, EndLoop, Wait, Skip, unchangedLoop
    <2> QED BY <2>1, SameSets DEF CountInv
  <1>2. CASE OpenLogger \/ OpenVerifier \/ ExitMain
    <2>1. UNCHANGED <<process, received, errCh, started>> /\ pc' # "inline" /\ pc # "inline"
          /\ pc # "exited"
      BY <1>2 DEF OpenLogger, OpenVerifier, ExitMain, Exit, unchangedLoop
    <2> QED BY <2>1, SameSets DEF CountInv
  <1>3. CASE Start
    <2>1. /\ process[next] = "none" /\ next \in Routers /\ process' = [process EXCEPT ![next] = "running"]
          /\ UNCHANGED <<received, errCh>> /\ pc = "start"
      BY <1>0, <1>3 DEF Start, unchangedLoop, TypeInv, LoopInv, Routers
    <2>2. Reported' = Reported
      BY <1>0, <2>1 DEF Reported
    <2>3. Begun' = Begun \cup {next} /\ next \notin Begun
      BY <1>0, <2>1 DEF Begun
    <2>4. Cardinality(Begun') = Cardinality(Begun) + 1
      BY <2>3, Finite, FS_AddElement DEF Begun
    <2>5. Cardinality(Begun) = started
      <3>1. Cardinality(Begun) = started + 0
        BY <2>1 DEF CountInv
      <3> QED BY <1>0, <3>1
    <2>6. \/ pc' = "inline" /\ started' = started
          \/ pc' = "resolve" /\ started' = started + 1
      BY <1>3 DEF Start
    <2> QED BY <1>0, <2>1, <2>2, <2>4, <2>5, <2>6 DEF CountInv
  <1>4. CASE InlineReturns
    <2>1. /\ process[next] = "sent" /\ process' = [process EXCEPT ![next] = "ended"]
          /\ UNCHANGED <<received, errCh>> /\ pc = "inline" /\ pc' = "resolve"
          /\ started' = started + 1
      BY <1>4 DEF InlineReturns, unchangedLoop
    <2>2. Reported' = Reported /\ Begun' = Begun
      BY <1>0, <2>1 DEF Reported, Begun
    <2> QED BY <1>0, <2>1, <2>2 DEF CountInv
  <1>5. CASE Collect
    <2>1. /\ received' = received + 1 /\ Len(errCh') = Len(errCh) - 1
          /\ UNCHANGED <<process, started, pc>>
      BY <1>0, <1>5 DEF Collect
    <2> QED BY <1>0, <2>1, SameSets DEF CountInv
  <1>6. ASSUME NEW r \in Routers, ProcessReturns(r) PROVE CountInv'
    <2>1. /\ UNCHANGED <<received, errCh, started>> /\ process[r] = "running"
          /\ process' = process \/ process' = [process EXCEPT ![r] = "result"]
          /\ pc' = pc \/ pc' = "exited"
      BY <1>6 DEF ProcessReturns, Exit, unchangedMain
    <2>2. Reported' = Reported /\ Begun' = Begun
      BY <1>0, <2>1 DEF Reported, Begun
    <2> QED BY <2>1, <2>2 DEF CountInv
  <1>7. ASSUME NEW r \in Routers, SendResult(r) PROVE CountInv'
    <2>1. /\ process[r] = "result" /\ process' = [process EXCEPT ![r] = "sent"]
          /\ errCh' = Append(errCh, result[r]) /\ UNCHANGED <<received, started, pc>>
      BY <1>7 DEF SendResult, unchangedMain
    <2>2. Reported' = Reported \cup {r} /\ r \notin Reported /\ Begun' = Begun
      BY <1>0, <2>1 DEF Reported, Begun
    <2>3. Cardinality(Reported') = Cardinality(Reported) + 1
      BY <2>2, Finite, FS_AddElement DEF Reported
    <2>4. Len(errCh') = Len(errCh) + 1
      <3>1. result[r] \in {"nil", "error"}
        BY <2>1 DEF TypeInv, ResultInv
      <3> QED BY <1>0, <2>1, <3>1
    <2> QED BY <1>0, <2>1, <2>2, <2>3, <2>4 DEF CountInv
  <1>8. ASSUME NEW r \in Routers, WgDone(r) PROVE CountInv'
    <2>1. /\ process[r] = "sent" /\ process' = [process EXCEPT ![r] = "ended"]
          /\ UNCHANGED <<received, errCh, started, pc>>
      BY <1>8 DEF WgDone, unchangedMain
    <2>2. Reported' = Reported /\ Begun' = Begun
      BY <1>0, <2>1 DEF Reported, Begun
    <2> QED BY <2>1, <2>2 DEF CountInv
  <1>9. CASE UNCHANGED vars
    BY <1>9, SameSets DEF vars, CountInv
  <1> QED BY <1>1, <1>2, <1>3, <1>4, <1>5, <1>6, <1>7, <1>8, <1>9
          DEF Next, Main, MainSteps, Process, Reports, Exited

-----------------------------------------------------------------------------
(* The end of the channel.                                                 *)

AllEnded == \A r \in Routers : process[r] \in {"none", "ended"}

ClosedInv ==
    /\ ~chOpen => /\ pc \in {"exit", "exited"} /\ AllEnded /\ errCh = <<>>
                  /\ received = Cardinality({r \in Routers : process[r] = "ended"})
    /\ pc = "exit" \/ exit = "ok" => ~chOpen

LEMMA AllTaken ==
    ASSUME TypeInv, CountInv, pc = "collect", received = started, AllEnded
    PROVE  /\ errCh = <<>>
           /\ received = Cardinality({r \in Routers : process[r] = "ended"})
  <1>1. Reported = {r \in Routers : process[r] = "ended"} /\ Begun = Reported
    BY DEF AllEnded, Reported, Begun
  <1>2. Cardinality(Reported) = received + Len(errCh) /\ Cardinality(Begun) = started + 0
    BY DEF CountInv
  <1>3. errCh \in Seq({"nil", "error"}) /\ received \in Nat /\ started \in Nat /\ Len(errCh) \in Nat
    BY OptionType DEF TypeInv, TypeOK
  <1>4. Len(errCh) = 0
    BY <1>1, <1>2, <1>3
  <1> QED BY <1>1, <1>2, <1>3, <1>4

LEMMA ClosedInvInductive == TypeInv /\ CountInv /\ ClosedInv /\ [Next]_vars => ClosedInv'
  <1> SUFFICES ASSUME TypeInv, CountInv, ClosedInv, [Next]_vars PROVE ClosedInv'
    OBVIOUS
  <1> USE DEF ClosedInv, AllEnded
  <1>1. CASE Resolve \/ OpenLogger \/ OpenVerifier \/ OpenSession \/ Start \/ InlineReturns \/ EndLoop
    <2>1. /\ chOpen /\ UNCHANGED chOpen /\ pc' # "exit" /\ exit' # "ok"
      BY <1>1 DEF TypeInv, ExitInv, Resolve, OpenLogger, OpenVerifier, OpenSession, Start, InlineReturns,
                  EndLoop, Skip, Exit, unchangedLoop, Running
    <2> QED BY <2>1
  <1>2. CASE Collect
    BY <1>2 DEF Collect, Running
  <1>3. CASE Wait
    <2>1. errCh = <<>> /\ received = Cardinality({r \in Routers : process[r] = "ended"})
      BY <1>3, AllTaken DEF Wait
    <2> QED BY <1>3, <2>1 DEF Wait
  <1>4. CASE ExitMain
    BY <1>4 DEF ExitMain, Exit
  <1>5. ASSUME NEW r \in Routers, Process(r) PROVE ClosedInv'
    <2>1. chOpen
      BY <1>5 DEF Process, Reports, ProcessReturns, SendResult, WgDone
    <2>2. chOpen' /\ (pc' = pc \/ pc' = "exited") /\ exit' # "ok"
      BY <1>5, <2>1 DEF Process, Reports, ProcessReturns, SendResult, WgDone, Exit, unchangedMain, Running
    <2> QED BY <2>1, <2>2
  <1>6. CASE UNCHANGED vars
    BY <1>6 DEF vars
  <1> QED BY <1>1, <1>2, <1>3, <1>4, <1>5, <1>6 DEF Next, Main, MainSteps, Exited

LEMMA StartInvs == Init => TypeInv /\ CountInv /\ ClosedInv
  <1> SUFFICES ASSUME Init PROVE TypeInv /\ CountInv /\ ClosedInv
    OBVIOUS
  <1>1. TypeInv
    BY StartTypes
  <1>2. Begun = {} /\ Reported = {}
    BY DEF Init, Begun, Reported
  <1>3. CountInv
    BY <1>2, FS_EmptySet DEF Init, CountInv
  <1> QED BY <1>1, <1>3 DEF Init, ClosedInv

\* A goroutine that has a result finds the channel open and room in it
\* (routercommander.go:276-278, 347-349, 359-360).
THEOREM ResultsAreSent == Spec => []SendNeverBlocks
  <1>1. TypeInv /\ CountInv /\ ClosedInv => SendNeverBlocks
    <2> SUFFICES ASSUME TypeInv, CountInv, ClosedInv,
                        NEW r \in Routers, process[r] = "result"
                 PROVE  chOpen /\ Len(errCh) < Capacity
      BY DEF SendNeverBlocks
    <2>1. chOpen
      BY DEF ClosedInv, AllEnded, TypeInv, TypeOK
    <2>2. option.count \in Nat /\ next \in 1..(option.count + 1) /\ Routers \subseteq Nat
      BY OptionType DEF TypeInv, TypeOK, Routers
    <2>3. Reported \subseteq (1..option.count) \ {r} /\ r \in 1..option.count
      BY <2>2 DEF Reported, TypeInv, LoopInv, Routers
    <2>4. IsFiniteSet(1..option.count) /\ Cardinality(1..option.count) = option.count
      <3>1. 1 \in Int /\ option.count \in Int
        BY <2>2
      <3>2. /\ IsFiniteSet(1..option.count)
            /\ Cardinality(1..option.count) = IF 1 > option.count THEN 0 ELSE option.count - 1 + 1
        BY <3>1, FS_Interval
      <3> QED BY <2>2, <3>2
    <2>5. /\ IsFiniteSet((1..option.count) \ {r})
          /\ Cardinality((1..option.count) \ {r}) = option.count - 1
      BY <2>3, <2>4, FS_RemoveElement
    <2>6. Cardinality(Reported) <= option.count - 1
      BY <2>3, <2>5, FS_Subset
    <2>7. Len(errCh) \in Nat /\ received \in Nat
      BY OptionType DEF TypeInv, TypeOK
    <2> QED BY <2>1, <2>2, <2>6, <2>7 DEF CountInv, Capacity
  <1> QED BY <1>1, StartInvs, TypeInvInductive, CountInvInductive, ClosedInvInductive, PTL DEF Spec

\* main closes the channel when it has taken the results of all the processes it
\* has started, and they have ended (routercommander.go:352-360).
THEOREM AllResultsCount == Spec => []ExitAfterAll
  <1>1. ClosedInv => ExitAfterAll
    BY DEF ClosedInv, AllEnded, ExitAfterAll
  <1> QED BY <1>1, StartInvs, TypeInvInductive, CountInvInductive, ClosedInvInductive, PTL DEF Spec

-----------------------------------------------------------------------------
(* The exit status.                                                        *)

FailedProcess == \E r \in Reported : result[r] = "error"

\* An error is never forgotten: main has it, or it is in the channel; the loop ends
\* early only with a fatal error, and one that passes routers over goes on.
FatalInv ==
    /\ FailedProcess => fatal \/ \E i \in DOMAIN errCh : errCh[i] = "error"
    /\ pc \in {"collect", "exit"} \/ exit = "ok" => fatal \/ next = option.count + 1
    /\ exit = "ok" => ~fatal
    /\ skipped # {} /\ (option.stopOnError \/ option.single) =>
          fatal /\ pc \in {"collect", "exit", "exited"}

LEMMA FatalInvInductive == TypeInv /\ FatalInv /\ [Next]_vars => FatalInv'
  <1> SUFFICES ASSUME TypeInv, FatalInv, [Next]_vars PROVE FatalInv'
    OBVIOUS
  <1>0. /\ errCh \in Seq({"nil", "error"}) /\ next \in Nat /\ option.count \in Nat
        /\ process \in [Routers -> {"none", "running", "result", "sent", "ended"}]
        /\ result \in [Routers -> {"none", "nil", "error"}]
        /\ option.stopOnError \in BOOLEAN /\ option.single \in BOOLEAN /\ fatal \in BOOLEAN
    BY OptionType DEF TypeInv, TypeOK
  <1> USE DEF FatalInv
  <1>1. CASE Resolve \/ OpenSession
    <2>1. /\ FailedProcess' = FailedProcess /\ UNCHANGED <<errCh, option, exit>>
          /\ pc \in {"resolve", "dial"} /\ exit = "none"
      BY <1>1 DEF Resolve, OpenSession, unchangedLoop, FailedProcess, Reported, Running
    <2>2. CASE Skip
      BY <1>0, <2>1, <2>2 DEF Skip
    <2>3. CASE UNCHANGED <<next, fatal, skipped>> /\ pc' \notin {"collect", "exit"}
      BY <2>1, <2>3
    <2> QED BY <1>1, <2>2, <2>3 DEF Resolve, OpenSession
  <1>2. CASE OpenLogger \/ OpenVerifier
    BY <1>2 DEF OpenLogger, OpenVerifier, Exit, unchangedLoop, FailedProcess, Reported, Running
  <1>3. CASE Start
    <2>1. process[next] = "none"
      <3>1. pc = "start" /\ next <= option.count /\ next >= 1
        BY <1>3 DEF Start, TypeInv, LoopInv, TypeOK
      <3>2. option.count \in 0..MaxCount /\ MaxCount \in Nat
        BY OptionType, FanOutAssumption DEF TypeInv, TypeOK
      <3>3. next \in Routers /\ ~(next < next)
        BY <1>0, <3>1, <3>2 DEF Routers
      <3> QED BY <3>1, <3>3 DEF TypeInv, LoopInv
    <2>2. Reported' = Reported
      BY <1>0, <1>3, <2>1 DEF Start, Reported
    <2> QED BY <1>3, <2>2 DEF Start, unchangedLoop, FailedProcess, Running
  <1>4. CASE InlineReturns
    <2>1. Reported' = Reported
      BY <1>0, <1>4 DEF InlineReturns, Reported
    <2> QED BY <1>4, <2>1 DEF InlineReturns, unchangedLoop, FailedProcess, Running
  <1>5. CASE EndLoop
    <2>1. next = option.count + 1
      BY <1>0, <1>5 DEF EndLoop, TypeInv, TypeOK
    <2> QED BY <1>5, <2>1 DEF EndLoop, unchangedLoop, FailedProcess, Reported, Running
  <1>6. CASE Collect
    <2>1. /\ FailedProcess' = FailedProcess /\ UNCHANGED <<option, next, exit, pc, skipped>>
          /\ errCh # <<>> /\ fatal' = (fatal \/ Head(errCh) = "error") /\ errCh' = Tail(errCh)
          /\ exit = "none"
      BY <1>6 DEF Collect, FailedProcess, Reported, Running
    <2>2. ASSUME NEW i \in DOMAIN errCh, errCh[i] = "error", Head(errCh) # "error"
          PROVE  i - 1 \in DOMAIN errCh' /\ errCh'[i - 1] = "error"
      BY <1>0, <2>1, <2>2
    <2> QED BY <2>1, <2>2
  <1>7. CASE Wait \/ ExitMain
    BY <1>0, <1>7 DEF Wait, ExitMain, Exit, FailedProcess, Reported, Running
  <1>8. ASSUME NEW r \in Routers, ProcessReturns(r) PROVE FatalInv'
    <2>1. FailedProcess' = FailedProcess
      BY <1>0, <1>8 DEF ProcessReturns, FailedProcess, Reported
    <2> QED BY <1>8, <2>1 DEF ProcessReturns, Exit, unchangedMain, Running
  <1>9. ASSUME NEW r \in Routers, SendResult(r) PROVE FatalInv'
    <2>1. /\ Reported' = Reported \cup {r} /\ errCh' = Append(errCh, result[r])
          /\ UNCHANGED <<option, next, fatal, exit, pc, skipped, result>>
      BY <1>0, <1>9 DEF SendResult, Reported, unchangedMain
    <2>2. result[r] \in {"nil", "error"}
      BY <1>9 DEF SendResult, TypeInv, ResultInv
    <2>3. /\ Len(errCh') = Len(errCh) + 1 /\ errCh'[Len(errCh) + 1] = result[r]
          /\ \A i \in DOMAIN errCh : i \in DOMAIN errCh' /\ errCh'[i] = errCh[i]
          /\ Len(errCh) + 1 \in DOMAIN errCh'
      BY <1>0, <2>1, <2>2
    <2> QED BY <2>1, <2>2, <2>3 DEF FailedProcess
  <1>10. ASSUME NEW r \in Routers, WgDone(r) PROVE FatalInv'
    <2>1. Reported' = Reported
      BY <1>0, <1>10 DEF WgDone, Reported
    <2> QED BY <1>10, <2>1 DEF WgDone, unchangedMain, FailedProcess
  <1>11. CASE UNCHANGED vars
    BY <1>11 DEF vars, FailedProcess, Reported
  <1> QED BY <1>1, <1>2, <1>3, <1>4, <1>5, <1>6, <1>7, <1>8, <1>9, <1>10, <1>11
          DEF Next, Main, MainSteps, Process, Reports, Exited

LEMMA StartFatal == Init => FatalInv
  BY DEF Init, FatalInv, FailedProcess, Reported

\* The program says that all is well only if every router it was given has run and
\* none reported an error, but those the user allows it to pass over
\* (routercommander.go:298-303, 331-336, 352-365).
THEOREM StatusTellsTheTruth == Spec => []ExitStatusTruthful
  <1>1. TypeInv /\ ClosedInv /\ FatalInv => ExitStatusTruthful
    <2> SUFFICES ASSUME TypeInv, ClosedInv, FatalInv, exit = "ok"
                 PROVE  /\ \A r \in (1..option.count) \ skipped : result[r] = "nil"
                        /\ skipped # {} => ~option.stopOnError /\ ~option.single
      BY DEF ExitStatusTruthful
    <2>1. ~fatal /\ next = option.count + 1 /\ errCh = <<>> /\ AllEnded /\ ~FailedProcess
      BY DEF FatalInv, ClosedInv
    <2>2. option.count \in 0..MaxCount /\ MaxCount \in Nat
      BY OptionType, FanOutAssumption DEF TypeInv, TypeOK
    <2>3. ASSUME NEW r \in (1..option.count) \ skipped PROVE result[r] = "nil"
      <3>1. r \in Routers /\ r < next
        BY <2>1, <2>2 DEF Routers
      <3>2. process[r] = "ended"
        BY <2>1, <3>1 DEF TypeInv, LoopInv, AllEnded
      <3>3. result[r] \in {"nil", "error"} /\ result[r] # "error"
        BY <2>1, <3>1, <3>2 DEF TypeInv, ResultInv, FailedProcess, Reported
      <3> QED BY <3>3
    <2> QED BY <2>1, <2>3 DEF FatalInv
  <1> QED BY <1>1, StartInvs, StartFatal, TypeInvInductive, CountInvInductive,
             ClosedInvInductive, FatalInvInductive, PTL DEF Spec

\* With stop_on_error no router is started after one that could not be
\* (routercommander.go:302-303, 335-336).
THEOREM StopIsAStop == Spec => StopMeansStop
  <1>1. TypeInv /\ FatalInv /\ [Next]_vars =>
          (skipped # {} /\ (option.stopOnError \/ option.single)
             => \A r \in Routers : process[r] = "none" => process'[r] = "none")
    <2> SUFFICES ASSUME TypeInv, FatalInv, [Next]_vars,
                        skipped # {}, option.stopOnError \/ option.single,
                        NEW q \in Routers, process[q] = "none"
                 PROVE  process'[q] = "none"
      OBVIOUS
    <2>1. pc \in {"collect", "exit", "exited"}
      BY DEF FatalInv
    <2>2. process \in [Routers -> {"none", "running", "result", "sent", "ended"}]
      BY DEF TypeInv, TypeOK
    <2>3. CASE Main \/ Exited \/ UNCHANGED vars
      BY <2>1, <2>3 DEF Main, MainSteps, Exited, vars, Resolve, OpenLogger, OpenVerifier, OpenSession, Start,
                        InlineReturns, EndLoop, Collect, Wait, ExitMain
    <2>4. ASSUME NEW r \in Routers, Process(r) PROVE process'[q] = "none"
      BY <2>2, <2>4 DEF Process, Reports, ProcessReturns, SendResult, WgDone
    <2> QED BY <2>3, <2>4 DEF Next
  <1> QED BY <1>1, StartInvs, StartFatal, TypeInvInductive, FatalInvInductive, PTL
          DEF Spec, StopMeansStop
===============================================================================
