--------------------------- MODULE ReproHistoryProofs ---------------------------
(***************************************************************************)
(* Proofs about what a run of the repro pipeline leaves behind: the        *)
(* commands it has sent, the verdicts of its tests and its hits, read as   *)
(* histories.  For any commands, tests, iterations and errors the run      *)
(* follows its plan, passes no test over, collects the evidence of each    *)
(* hit and sends the commands of each test that fires; and it implements   *)
(* the promise of ReproPromise.                                            *)
(***************************************************************************)
EXTENDS ReproRunProofs

-----------------------------------------------------------------------------
(* What a command that is sent adds to the histories the properties read.  *)

\* Numbering goes on: the next position takes the next number.
LEMMA InTurnGoesOn ==
    ASSUME NEW f, NEW g, NEW k \in Nat, NEW last \in Nat,
           DOMAIN f \subseteq 1..last, InTurn(f, k),
           DOMAIN g = DOMAIN f \cup {last + 1},
           \A n \in DOMAIN f : g[n] = f[n],
           g[last + 1] = k + 1
    PROVE  InTurn(g, k + 1)
  <1> DEFINE D == DOMAIN f
  <1>1. {f[n] : n \in D} = 1..k /\ (\A m, n \in D : m < n => f[m] < f[n])
    BY DEF InTurn
  <1>2. D \subseteq 1..last /\ last + 1 \notin D
    OBVIOUS
  <1>3. \A n \in D : f[n] \in 1..k
    BY <1>1
  <1>4. {g[n] : n \in DOMAIN g} = {f[n] : n \in D} \cup {k + 1}
    OBVIOUS
  <1>5. {g[n] : n \in DOMAIN g} = 1..(k + 1)
    BY <1>1, <1>4
  <1>6. ASSUME NEW m \in DOMAIN g, NEW n \in DOMAIN g, m < n
        PROVE  g[m] < g[n]
    <2>1. m \in D
      BY <1>2, <1>6
    <2>2. CASE n \in D
      BY <1>1, <1>6, <2>1, <2>2
    <2>3. CASE n = last + 1
      BY <1>3, <2>1, <2>3
    <2> QED BY <2>2, <2>3
  <1> QED BY <1>5, <1>6 DEF InTurn

\* Nothing is numbered from 1 to 0, and nothing else is.
LEMMA InTurnEmpty ==
    ASSUME NEW f
    PROVE  InTurn(f, 0) <=> DOMAIN f = {}
  <1>1. 1..0 = {}
    OBVIOUS
  <1> QED BY <1>1 DEF InTurn

\* An entry is added at the end, and the ones before stay what they are.
LEMMA SendAppends ==
    ASSUME TypeOK,
           NEW kind \in {"main", "ifTriggered", "postMortem"},
           NEW c \in Nat, NEW t \in Nat, NEW s \in Nat,
           Send(kind, c, t, s)
    PROVE  /\ Len(sent) \in Nat /\ DOMAIN sent = 1..Len(sent)
           /\ DOMAIN sent' = DOMAIN sent \cup {Len(sent) + 1}
           /\ \A n \in DOMAIN sent : sent'[n] = sent[n]
           /\ sent'[Len(sent) + 1].kind = kind /\ sent'[Len(sent) + 1].it = loc.it
           /\ sent'[Len(sent) + 1].cmd = c /\ sent'[Len(sent) + 1].test = t
           /\ sent'[Len(sent) + 1].step = s
  <1> DEFINE e == [kind |-> kind, it |-> loc.it, cmd |-> c, test |-> t, step |-> s]
  <1>1. loc.it \in Nat
    BY DEF TypeOK, Local
  <1>2. e \in Entry
    BY <1>1 DEF Entry
  <1>3. /\ e.kind = kind /\ e.it = loc.it /\ e.cmd = c /\ e.test = t /\ e.step = s
    OBVIOUS
  <1>4. sent \in Seq(Entry) /\ sent' = Append(sent, e)
    BY DEF TypeOK, Send
  <1> HIDE DEF e
  <1>5. sent'[Len(sent) + 1] = e
    BY <1>2, <1>4
  <1>6. /\ Len(sent) \in Nat /\ DOMAIN sent = 1..Len(sent)
        /\ DOMAIN sent' = DOMAIN sent \cup {Len(sent) + 1}
        /\ \A n \in DOMAIN sent : sent'[n] = sent[n]
    BY <1>2, <1>4
  <1> QED BY <1>3, <1>5, <1>6

\* The entries have their types.
LEMMA SentType ==
    ASSUME TypeOK
    PROVE  /\ Len(sent) \in Nat /\ DOMAIN sent = 1..Len(sent)
           /\ \A n \in DOMAIN sent : /\ sent[n].it \in Nat /\ sent[n].cmd \in Nat
                                     /\ sent[n].test \in Nat /\ sent[n].step \in Nat
  <1>1. sent \in Seq(Entry)
    BY DEF TypeOK
  <1>2. Len(sent) \in Nat /\ DOMAIN sent = 1..Len(sent) /\ \A n \in DOMAIN sent : sent[n] \in Entry
    BY <1>1
  <1> QED BY <1>2 DEF Entry

\* Three commands add to the entries; no other step does.
LEMMA WhoSends ==
    ASSUME TypeInv, [Next]_vars
    PROVE  \/ SendMain /\ Send("main", loc.cmd, 0, 0)
           \/ SendIfTriggered /\ Send("ifTriggered", loc.cmd, loc.test, loc.step)
           \/ SendPostMortem /\ Send("postMortem", 0, 0, loc.step)
           \/ sent' = sent /\ ~SendMain /\ ~SendIfTriggered /\ ~SendPostMortem
  <1>1. Len(sent) \in Nat
    BY SentType DEF TypeInv
  <1>2. SendMain => Send("main", loc.cmd, 0, 0)
    BY DEF SendMain
  <1>3. SendIfTriggered => Send("ifTriggered", loc.cmd, loc.test, loc.step)
    BY DEF SendIfTriggered
  <1>4. SendPostMortem => Send("postMortem", 0, 0, loc.step)
    BY DEF SendPostMortem
  <1>5. SendMain \/ SendIfTriggered \/ SendPostMortem \/ sent' = sent
    BY DEF Next, BeginIteration, SkipUnknownTest, RunTest,
           EndTests, EndGroup, EndPostMortem, Delay, EndLoop, Report,
           Notify, SkipNotify, Cleanup, Over, unchangedRun, vars
  <1> QED BY <1>2, <1>3, <1>4, <1>5

\* A command of one kind leaves what the histories say of the others alone.
LEMMA SentElsewhere ==
    ASSUME TypeInv, [Next]_vars
    PROVE  /\ ~SendMain => Mains' = Mains /\ MainSent' = MainSent
           /\ ~SendPostMortem => \A i \in Nat : PostMortemSent(i)' = PostMortemSent(i)
           /\ ~SendIfTriggered => \A v \in Verdict : IfTriggeredSent(v)' = IfTriggeredSent(v)
  <1>0. TypeOK /\ loc.cmd \in Nat /\ loc.test \in Nat /\ loc.step \in Nat /\ 0 \in Nat /\ conf' = conf
    BY ConfConstant DEF TypeInv, TypeOK, Local
  <1>1. CASE sent' = sent
    BY <1>0, <1>1 DEF Mains, MainSent, Place, PostMortemSent, IfTriggeredSent
  <1>2. ASSUME NEW kind \in {"main", "ifTriggered", "postMortem"},
               NEW c \in Nat, NEW t \in Nat, NEW s \in Nat,
               Send(kind, c, t, s)
        PROVE  /\ kind # "main" => Mains' = Mains /\ MainSent' = MainSent
               /\ kind # "postMortem" => \A i \in Nat : PostMortemSent(i)' = PostMortemSent(i)
               /\ kind # "ifTriggered" =>
                     \A v \in Verdict : IfTriggeredSent(v)' = IfTriggeredSent(v)
    <2> DEFINE z == Len(sent) + 1
    <2>1. /\ DOMAIN sent' = DOMAIN sent \cup {z}
          /\ \A n \in DOMAIN sent : sent'[n] = sent[n]
          /\ sent'[z].kind = kind /\ DOMAIN sent = 1..Len(sent) /\ Len(sent) \in Nat
      BY <1>0, <1>2, SendAppends
    <2> HIDE DEF z
    <2>2. ASSUME kind # "main" PROVE Mains' = Mains /\ MainSent' = MainSent
      <3>1. Mains' = Mains
        BY <2>1, <2>2 DEF Mains
      <3>2. \A n \in Mains : sent'[n] = sent[n]
        BY <2>1 DEF Mains
      <3> QED BY <1>0, <3>1, <3>2 DEF MainSent, Place
    <2>3. ASSUME kind # "postMortem", NEW i \in Nat
          PROVE  PostMortemSent(i)' = PostMortemSent(i)
      <3> DEFINE own == {m \in DOMAIN sent : sent[m].kind = "postMortem" /\ sent[m].it = i}
      <3>1. {m \in DOMAIN sent' : sent'[m].kind = "postMortem" /\ sent'[m].it = i} = own
        BY <2>1, <2>3
      <3>2. \A n \in own : sent'[n] = sent[n]
        BY <2>1
      <3> QED BY <3>1, <3>2 DEF PostMortemSent
    <2>4. ASSUME kind # "ifTriggered", NEW v \in Verdict
          PROVE  IfTriggeredSent(v)' = IfTriggeredSent(v)
      <3> DEFINE own == {m \in DOMAIN sent : /\ sent[m].kind = "ifTriggered" /\ sent[m].it = v.it
                                             /\ sent[m].cmd = v.cmd /\ sent[m].test = v.test}
      <3>1. {m \in DOMAIN sent' : /\ sent'[m].kind = "ifTriggered" /\ sent'[m].it = v.it
                                  /\ sent'[m].cmd = v.cmd /\ sent'[m].test = v.test} = own
        BY <2>1, <2>4
      <3>2. \A n \in own : sent'[n] = sent[n]
        BY <2>1
      <3> QED BY <3>1, <3>2 DEF IfTriggeredSent
    <2> QED BY <2>2, <2>3, <2>4
  <1> QED BY <1>0, <1>1, <1>2, WhoSends DEF SendMain, SendIfTriggered, SendPostMortem

\* A run is over and done with when it runs its deferred function.
EndedInv == outcome # "running" <=> pc \in {"deferred", "cleanup", "over"}

LEMMA EndedInvInductive == TypeInv /\ EndedInv /\ [Next]_vars => EndedInv'
  <1> SUFFICES ASSUME TypeInv, EndedInv, [Next]_vars PROVE EndedInv'
    OBVIOUS
  <1>1. CASE RunTest \/ SendIfTriggered
    BY <1>1 DEF RunTest, SendIfTriggered, EndedInv, RecordTrigger, Goto, FailGroup, Panic, Finish
  <1>2. CASE BeginIteration \/ SendMain \/ SkipUnknownTest
    BY <1>2 DEF BeginIteration, SendMain, SkipUnknownTest, EndedInv, Goto, FailGroup, Panic, Finish
  <1>3. CASE EndTests \/ EndGroup
    BY <1>3 DEF EndTests, EndGroup, ReturnGroup, EndedInv, Goto, Finish
  <1>4. CASE SendPostMortem \/ EndPostMortem \/ Delay \/ EndLoop \/ Report
    BY <1>4 DEF SendPostMortem, Panic, EndPostMortem, Delay, EndLoop, Report, EndedInv, Goto, Finish
  <1>5. CASE Notify \/ SkipNotify \/ Cleanup \/ UNCHANGED vars
    BY <1>5 DEF Notify, SkipNotify, Cleanup, unchangedRun, EndedInv, vars
  <1> QED BY <1>1, <1>2, <1>3, <1>4, <1>5 DEF Next, Over

LEMMA EndedInvariant == Spec => []EndedInv
  <1>1. Init => EndedInv
    BY DEF Init, EndedInv
  <1> QED BY <1>1, TypeInvariant, EndedInvInductive, PTL DEF Spec

-----------------------------------------------------------------------------
(* The plan.                                                               *)

\* How far the plan has been followed at each statement.
PlanInv ==
    /\ pc = "loop" => loc.it <= Iterations /\ InTurn(MainSent, loc.it * Len(conf.main))
    /\ pc = "main" => /\ loc.cmd <= Len(conf.main) + 1
                      /\ InTurn(MainSent, loc.it * Len(conf.main) + loc.cmd - 1)
    /\ pc \in {"tests", "ifTriggered"} =>
          InTurn(MainSent, loc.it * Len(conf.main) + loc.cmd)
    /\ pc = "delay" \/ (pc = "postMortem" /\ ~StopRun) =>
          InTurn(MainSent, (loc.it + 1) * Len(conf.main))
    /\ pc = "report" \/ outcome = "ok" =>
          (StopRun /\ Hits # {}) \/ InTurn(MainSent, Planned)
    /\ \E k \in 0..Planned : InTurn(MainSent, k)

\* Products of the plan.
LEMMA Products ==
    ASSUME NEW l \in Nat, NEW a \in Nat, NEW b \in Nat
    PROVE  /\ 0 * l = 0 /\ a * l \in Nat /\ (a + 1) * l = a * l + l
           /\ a <= b => a * l <= b * l
  <1>1. 0 * l = 0 /\ a * l \in Nat /\ (a + 1) * l = a * l + l
    OBVIOUS
  <1>2. ASSUME a <= b PROVE a * l <= b * l
    <2>1. PICK d \in Nat : b = a + d
      BY <1>2
    <2>2. b * l = a * l + d * l /\ d * l \in Nat /\ a * l \in Nat
      BY <2>1
    <2> QED BY <2>2
  <1> QED BY <1>1, <1>2

\* The length of the list of main commands.
LEMMA MainLength ==
    ASSUME TypeInv
    PROVE  Len(conf.main) \in Nat
  <1>1. conf.main \in Seq(Command)
    BY ConfigsAssumption DEF TypeInv, TypeOK, Config
  <1> QED BY <1>1

\* The next main command of the plan is put down at the next place.
LEMMA MainGoesOn ==
    ASSUME TypeInv, conf' = conf, Send("main", loc.cmd, 0, 0), NEW k \in Nat,
           InTurn(MainSent, k), k + 1 = loc.it * Len(conf.main) + loc.cmd
    PROVE  InTurn(MainSent', k + 1)
  <1> DEFINE z == Len(sent) + 1
  <1>1. TypeOK /\ loc.cmd \in Nat /\ 0 \in Nat
    BY DEF TypeInv, TypeOK, Local
  <1>2. /\ Len(sent) \in Nat /\ DOMAIN sent = 1..Len(sent)
        /\ DOMAIN sent' = DOMAIN sent \cup {z}
        /\ \A n \in DOMAIN sent : sent'[n] = sent[n]
        /\ sent'[z].kind = "main" /\ sent'[z].it = loc.it /\ sent'[z].cmd = loc.cmd
    BY <1>1, SendAppends
  <1>3. Mains' = Mains \cup {z}
    <2>1. z \in DOMAIN sent'
      BY <1>2
    <2> QED BY <1>2, <2>1 DEF Mains
  <1>4. DOMAIN MainSent = Mains /\ DOMAIN MainSent' = DOMAIN MainSent \cup {z}
    BY <1>3 DEF MainSent
  <1>5. MainSent'[z] = k + 1
    BY <1>2, <1>3 DEF MainSent, Place
  <1>6. \A n \in DOMAIN MainSent : MainSent'[n] = MainSent[n]
    BY <1>2, <1>3 DEF MainSent, Place, Mains
  <1>7. DOMAIN MainSent \subseteq 1..Len(sent)
    BY <1>2, <1>4 DEF Mains
  <1> HIDE DEF z
  <1>8. ASSUME NEW f, NEW g, f = MainSent, g = MainSent'
        PROVE  InTurn(g, k + 1)
    <2>1. DOMAIN f \subseteq 1..Len(sent) /\ InTurn(f, k)
      BY <1>7, <1>8
    <2>2. DOMAIN g = DOMAIN f \cup {Len(sent) + 1} /\ g[Len(sent) + 1] = k + 1
      BY <1>4, <1>5, <1>8 DEF z
    <2>3. \A n \in DOMAIN f : g[n] = f[n]
      BY <1>6, <1>8
    <2> QED BY <1>2, <2>1, <2>2, <2>3, InTurnGoesOn
  <1> QED BY <1>8

\* The plan is followed at every step; the run leaves it only at an error, a
\* panic or a hit it stops at.
LEMMA PlanInvInductive == TypeInv /\ FlagsInv /\ EndedInv /\ PlanInv /\ [Next]_vars => PlanInv'
  <1> SUFFICES ASSUME TypeInv, FlagsInv, EndedInv, PlanInv, [Next]_vars PROVE PlanInv'
    OBVIOUS
  <1> DEFINE l == Len(conf.main)
  <1> DEFINE done == loc.it * l
  <1>0. TypeOK /\ InRange /\ loc \in Local
    BY DEF TypeInv, TypeOK
  <1>a. /\ conf' = conf /\ Iterations' = Iterations /\ Iterations \in Nat /\ l \in Nat /\ l' = l
        /\ Planned' = Planned /\ StopRun' = StopRun
    <2>1. conf' = conf /\ Iterations' = Iterations
      BY ConfConstant
    <2> QED BY <2>1, IterationsType, MainLength DEF Planned, StopRun
  <1>b. loc.it \in Nat /\ loc.cmd \in Nat \ {0} /\ loc.test \in Nat /\ loc.groupTriggered \in BOOLEAN
    BY <1>0, LocalFields
  <1>c. /\ done \in Nat /\ (loc.it + 1) * l = done + l /\ Planned \in Nat
        /\ loc.it < Iterations => done + l <= Planned
        /\ loc.it = Iterations => done = Planned
        /\ loc.it = 0 => done = 0
    <2>1. done \in Nat /\ (loc.it + 1) * l = done + l
      BY <1>a, <1>b, Products
    <2>2. Planned \in Nat
      BY <1>a, Products DEF Planned
    <2>3. loc.it < Iterations => loc.it + 1 <= Iterations
      BY <1>a, <1>b
    <2>4. loc.it < Iterations => (loc.it + 1) * l <= Planned
      BY <1>a, <1>b, <2>3, Products DEF Planned
    <2> QED BY <1>a, <2>1, <2>2, <2>4, Products DEF Planned
  <1>d. ASSUME loc'.it = loc.it PROVE loc'.it * Len(conf'.main) = done
    BY <1>a, <1>d
  <1> HIDE DEF l, done
  <1>e. /\ pc = "loop" => loc.it <= Iterations /\ InTurn(MainSent, done)
        /\ pc = "main" => loc.cmd <= l + 1 /\ InTurn(MainSent, done + loc.cmd - 1)
        /\ pc \in {"tests", "ifTriggered"} => InTurn(MainSent, done + loc.cmd)
        /\ pc = "delay" \/ (pc = "postMortem" /\ ~StopRun) => InTurn(MainSent, done + l)
        /\ pc = "report" \/ outcome = "ok" =>
              (StopRun /\ Hits # {}) \/ InTurn(MainSent, Planned)
        /\ \E k \in 0..Planned : InTurn(MainSent, k)
    BY <1>c DEF PlanInv, done, l
  <1>1. CASE SendMain
    <2>1. pc = "main" /\ loc.cmd <= l /\ outcome = "running" /\ Send("main", loc.cmd, 0, 0)
      BY <1>1 DEF SendMain, EndedInv, l
    <2>2. done + loc.cmd - 1 \in Nat /\ (done + loc.cmd - 1) + 1 = done + loc.cmd
      BY <1>b, <1>c
    <2>3. InTurn(MainSent', done + loc.cmd)
      <3>1. InTurn(MainSent, done + loc.cmd - 1)
        BY <1>e, <2>1
      <3>2. ASSUME NEW k \in Nat, k = done + loc.cmd - 1
            PROVE  InTurn(MainSent', k + 1)
        <4>1. k + 1 = loc.it * Len(conf.main) + loc.cmd
          BY <1>b, <1>c, <3>2 DEF done, l
        <4>2. InTurn(MainSent, k)
          BY <3>1, <3>2
        <4> QED BY <1>a, <2>1, <4>1, <4>2, MainGoesOn
      <3> QED BY <2>2, <3>2
    <2>4. loc.it < Iterations /\ done + loc.cmd \in 0..Planned
      <3>1. loc.it < Iterations
        BY <2>1 DEF FlagsInv
      <3> QED BY <1>a, <1>b, <1>c, <2>1, <3>1
    <2>5. loc'.it = loc.it
      BY <1>0, <1>1 DEF SendMain, FailGroup, Panic, Local
    <2>6. \/ pc' = "main" /\ loc'.cmd = loc.cmd + 1 /\ outcome' = outcome
          \/ pc' = "tests" /\ loc'.cmd = loc.cmd /\ outcome' = outcome
          \/ pc' = "deferred" /\ outcome' \in {"error", "panic"}
      BY <1>0, <1>1 DEF SendMain, Goto, FailGroup, Panic, Finish, Local
    <2>7. /\ loc'.cmd = loc.cmd + 1 => loc'.cmd <= l + 1 /\ done + loc'.cmd - 1 = done + loc.cmd
      BY <1>a, <1>b, <1>c, <2>1
    <2>8. pc' = "main" => loc'.cmd <= Len(conf'.main) + 1 /\ InTurn(MainSent', done + loc'.cmd - 1)
      BY <1>a, <2>1, <2>3, <2>6, <2>7 DEF l
    <2>9. pc' = "tests" => InTurn(MainSent', done + loc'.cmd)
      BY <2>3, <2>6
    <2>10. \E k \in 0..Planned' : InTurn(MainSent', k)
      BY <1>a, <2>3, <2>4
    <2>11. loc'.it * Len(conf'.main) = done
      BY <1>d, <2>5
    <2>12. /\ pc' \notin {"loop", "ifTriggered", "delay", "postMortem", "report"}
           /\ outcome' # "ok"
      BY <2>1, <2>6
    <2> QED BY <2>8, <2>9, <2>10, <2>11, <2>12 DEF PlanInv
  <1>2. CASE ~SendMain
    <2>1. MainSent' = MainSent
      BY <1>2, SentElsewhere
    <2>2. \E k \in 0..Planned' : InTurn(MainSent', k)
      BY <1>a, <1>e, <2>1
    <2>3. CASE BeginIteration
      <3>1. /\ loc'.it = loc.it /\ loc'.cmd = 1 /\ pc = "loop" /\ pc' = "main"
            /\ outcome' = outcome /\ outcome = "running"
        BY <1>0, <2>3 DEF BeginIteration, Goto, Local, EndedInv
      <3>2. loc'.it * Len(conf'.main) = done
        BY <1>d, <3>1
      <3>3. done + 1 - 1 = done /\ 1 <= Len(conf'.main) + 1
        BY <1>a, <1>c DEF l
      <3>4. InTurn(MainSent', done + loc'.cmd - 1)
        BY <1>e, <2>1, <3>1, <3>3
      <3> QED BY <2>2, <3>1, <3>2, <3>3, <3>4 DEF PlanInv
    <2>4. CASE SkipUnknownTest \/ RunTest \/ SendIfTriggered
      <3>1. /\ pc \in {"tests", "ifTriggered"} /\ pc' \in {"tests", "ifTriggered", "deferred"}
            /\ outcome = "running" /\ outcome' \in {"running", "error", "panic"}
        BY <2>4 DEF SkipUnknownTest, RunTest, SendIfTriggered, RecordTrigger, Goto, FailGroup, Panic,
                    Finish, EndedInv
      <3>2. loc'.it = loc.it /\ loc'.cmd = loc.cmd
        BY <1>0, <2>4 DEF SkipUnknownTest, RunTest, SendIfTriggered, RecordTrigger, FailGroup, Panic,
                          Local
      <3>3. loc'.it * Len(conf'.main) = done
        BY <1>d, <3>2
      <3> QED BY <1>e, <2>1, <2>2, <3>1, <3>2, <3>3 DEF PlanInv
    <2>5. CASE EndTests
      <3>1. pc = "tests" /\ outcome = "running" /\ InTurn(MainSent, done + loc.cmd)
            /\ loc.cmd <= l
        BY <1>0, <1>e, <2>5 DEF EndTests, EndedInv, InRange, l
      <3>2. CASE pc' = "main"
        <4>1. loc'.it = loc.it /\ loc'.cmd = loc.cmd + 1 /\ outcome' = outcome
          BY <1>0, <2>5, <3>2 DEF EndTests, ReturnGroup, Goto, Finish, Local
        <4>2. loc'.it * Len(conf'.main) = done
          BY <1>d, <4>1
        <4>3. loc'.cmd <= Len(conf'.main) + 1 /\ done + loc'.cmd - 1 = done + loc.cmd
          BY <1>a, <1>b, <1>c, <3>1, <4>1 DEF l
        <4>4. InTurn(MainSent', done + loc'.cmd - 1)
          BY <2>1, <3>1, <4>3
        <4> QED BY <2>2, <3>1, <3>2, <4>1, <4>2, <4>3, <4>4 DEF PlanInv
      <3>3. CASE pc' # "main"
        <4>1. StopGroup /\ ReturnGroup(TRUE)
          BY <2>5, <3>3 DEF EndTests, Goto
        <4>2. conf.repro /\ StopRun
          BY <4>1 DEF StopGroup, StopRun
        <4>3. pc' = "postMortem" /\ outcome' = outcome
          BY <4>1, <4>2 DEF ReturnGroup, Goto
        <4> QED BY <1>a, <2>2, <3>1, <4>2, <4>3 DEF PlanInv
      <3> QED BY <3>2, <3>3
    <2>6. CASE EndGroup
      <3>1. /\ pc = "main" /\ loc.cmd > l /\ loc.cmd <= l + 1 /\ outcome = "running"
            /\ InTurn(MainSent, done + loc.cmd - 1)
        BY <1>e, <2>6 DEF EndGroup, EndedInv, l
      <3>2. done + loc.cmd - 1 = done + l
        BY <1>a, <1>b, <1>c, <3>1
      <3>3. InTurn(MainSent', done + l)
        BY <2>1, <3>1, <3>2
      <3>4. loc'.it = loc.it
        BY <1>0, <1>b, <2>6, ReturnGroupFields DEF EndGroup
      <3>5. pc' \in {"delay", "postMortem", "deferred"} /\ outcome' \in {"running", "nil"}
        BY <2>6, <3>1 DEF EndGroup, ReturnGroup, Goto, Finish
      <3>6. (loc'.it + 1) * Len(conf'.main) = done + l
        BY <1>a, <1>c, <3>4 DEF l
      <3> QED BY <2>2, <3>3, <3>5, <3>6 DEF PlanInv
    <2>7. CASE SendPostMortem
      <3>1. /\ pc = "postMortem" /\ pc' \in {"postMortem", "deferred"}
            /\ outcome = "running" /\ outcome' \in {"running", "error", "panic"}
        BY <2>7 DEF SendPostMortem, Panic, Goto, Finish, EndedInv
      <3>2. loc'.it = loc.it
        BY <1>0, <2>7 DEF SendPostMortem, Panic, Local
      <3>3. (loc'.it + 1) * Len(conf'.main) = done + l
        BY <1>a, <1>c, <3>2 DEF l
      <3> QED BY <1>a, <1>e, <2>1, <2>2, <3>1, <3>3 DEF PlanInv
    <2>8. CASE EndPostMortem
      <3>1. /\ pc = "postMortem" /\ loc' = loc /\ outcome = "running" /\ outcome' = outcome
            /\ pc' = IF StopRun THEN "report" ELSE "delay"
        BY <2>8 DEF EndPostMortem, Goto, EndedInv
      <3>2. Hits' = Hits /\ Hits # {}
        BY <2>8, <3>1, HitsUnchanged DEF EndPostMortem, FlagsInv
      <3>3. (loc'.it + 1) * Len(conf'.main) = done + l
        BY <1>a, <1>c, <3>1 DEF l
      <3> QED BY <1>a, <1>e, <2>1, <2>2, <3>1, <3>2, <3>3 DEF PlanInv
    <2>9. CASE Delay
      <3>1. /\ pc = "delay" /\ pc' = "loop" /\ loc'.it = loc.it + 1
            /\ outcome = "running" /\ outcome' = outcome /\ loc.it < Iterations
        BY <1>0, <2>9 DEF Delay, Goto, EndedInv, Local, FlagsInv
      <3>2. loc'.it <= Iterations' /\ loc'.it * Len(conf'.main) = done + l
        BY <1>a, <1>b, <1>c, <3>1 DEF l
      <3> QED BY <1>e, <2>1, <2>2, <3>1, <3>2 DEF PlanInv
    <2>10. CASE EndLoop
      <3>1. /\ pc = "loop" /\ pc' = "report" /\ loc.it = Iterations
            /\ outcome = "running" /\ outcome' = outcome
        BY <1>a, <1>b, <1>e, <2>10 DEF EndLoop, Goto, EndedInv
      <3>2. InTurn(MainSent', Planned')
        BY <1>a, <1>c, <1>e, <2>1, <3>1
      <3> QED BY <2>2, <3>1, <3>2 DEF PlanInv
    <2>11. CASE Report
      <3>1. pc = "report" /\ pc' = "deferred" /\ outcome' = "ok" /\ Hits' = Hits
        BY <2>11, HitsUnchanged DEF Report, Finish
      <3> QED BY <1>a, <1>e, <2>1, <2>2, <3>1 DEF PlanInv
    <2>12. CASE Notify \/ SkipNotify \/ Cleanup
      <3>1. pc' \in {"cleanup", "over"} /\ outcome' = outcome /\ Hits' = Hits
        BY <2>12, HitsUnchanged DEF Notify, SkipNotify, Cleanup, unchangedRun
      <3> QED BY <1>a, <1>e, <2>1, <2>2, <3>1 DEF PlanInv
    <2>13. CASE UNCHANGED vars
      <3>1. pc' = pc /\ loc' = loc /\ outcome' = outcome /\ Hits' = Hits /\ conf' = conf
        BY <2>13, HitsUnchanged DEF vars
      <3> QED BY <1>a, <2>1, <3>1 DEF PlanInv
    <2> QED BY <1>2, <2>3, <2>4, <2>5, <2>6, <2>7, <2>8, <2>9, <2>10, <2>11, <2>12, <2>13
            DEF Next, Over
  <1> QED BY <1>1, <1>2

LEMMA PlanInvariant == Spec => []PlanInv
  <1>1. Init /\ TypeInv => PlanInv
    <2> SUFFICES ASSUME Init, TypeInv PROVE PlanInv
      OBVIOUS
    <2>1. /\ pc = "loop" /\ loc.it = 0 /\ outcome = "running" /\ sent = <<>>
      BY DEF Init
    <2>2. DOMAIN MainSent = {}
      BY <2>1 DEF MainSent, Mains
    <2>3. InTurn(MainSent, 0)
      BY <2>2, InTurnEmpty
    <2>4. Iterations \in Nat /\ Planned \in Nat /\ loc.it * Len(conf.main) = 0
      BY <2>1, IterationsType, MainLength, Products DEF Planned
    <2> QED BY <2>1, <2>3, <2>4 DEF PlanInv
  <1> QED BY <1>1, TypeInvariant, FlagsInvariant, EndedInvariant, PlanInvInductive, PTL DEF Spec

\* The commands a run sends are those of its plan, each iteration's in order,
\* and a run that ends well has sent them all unless it stopped at a hit
\* (pipeline.go:52, 96).
THEOREM RunFollowsItsPlan == Spec => []PlanFollowed
  <1>1. PlanInv => PlanFollowed
    BY DEF PlanInv, PlanFollowed
  <1> QED BY <1>1, PlanInvariant, PTL

-----------------------------------------------------------------------------
(* No test is passed over.                                                 *)

\* Every test that the main command sent as sent[n] lists has answered.
Served(n) == \A p \in Listed(sent[n].cmd) : Answered(n, p)

\* The tests of the command at hand, sent as sent[n], have answered up to the one
\* at hand, unless a hit ended the loop over them.
ServedSoFar(n) ==
    /\ sent[n].it = loc.it /\ sent[n].cmd = loc.cmd
    /\ \A m \in Mains : m <= n
    /\ \A p \in Listed(loc.cmd) :
          \/ Answered(n, p)
          \/ p > loc.test
          \/ p = loc.test /\ pc = "tests"
          \/ StopGroup /\ Hits # {} /\ pc = "tests"

\* Only the main command sent last may have tests that have not answered, and
\* only while they are being run.
ServedInv ==
    /\ EveryListedTestRuns
    /\ pc \in {"loop", "main", "delay"} \/ (pc = "postMortem" /\ ~StopRun) =>
          \A n \in Mains : Served(n)
    /\ pc \in {"tests", "ifTriggered"} =>
          \A n \in Mains : Served(n) \/ ServedSoFar(n)

\* Histories are only added to.
LEMMA HistoriesGrow ==
    ASSUME TypeInv, [Next]_vars
    PROVE  /\ \A n \in DOMAIN sent : n \in DOMAIN sent' /\ sent'[n] = sent[n]
           /\ verdicts \subseteq verdicts'
           /\ Hits # {} => Hits' # {}
  <1>0. TypeOK /\ loc.cmd \in Nat /\ loc.test \in Nat /\ loc.step \in Nat /\ 0 \in Nat
    BY DEF TypeInv, TypeOK, Local
  <1>1. \A n \in DOMAIN sent : n \in DOMAIN sent' /\ sent'[n] = sent[n]
    <2>1. CASE sent' = sent
      BY <2>1
    <2>2. CASE SendMain /\ Send("main", loc.cmd, 0, 0)
      BY <1>0, <2>2, SendAppends
    <2>3. CASE SendIfTriggered /\ Send("ifTriggered", loc.cmd, loc.test, loc.step)
      BY <1>0, <2>3, SendAppends
    <2>4. CASE SendPostMortem /\ Send("postMortem", 0, 0, loc.step)
      BY <1>0, <2>4, SendAppends
    <2> QED BY <2>1, <2>2, <2>3, <2>4, WhoSends
  <1>2. verdicts \subseteq verdicts'
    BY DEF Next, BeginIteration, SendMain, SkipUnknownTest, RunTest, Judge, SendIfTriggered,
           EndTests, EndGroup, SendPostMortem, EndPostMortem, Delay, EndLoop, Report,
           Notify, SkipNotify, Cleanup, Over, unchangedRun, vars
  <1>3. Hits # {} => Hits' # {}
    BY <1>2 DEF Hits
  <1> QED BY <1>1, <1>2, <1>3

LEMMA AnswersStay ==
    ASSUME TypeInv, [Next]_vars, NEW n \in Mains
    PROVE  /\ \A p : Answered(n, p) => Answered(n, p)'
           /\ Served(n) => Served(n)'
           /\ sent'[n] = sent[n] /\ n \in Mains'
  <1>1. n \in DOMAIN sent /\ n \in DOMAIN sent' /\ sent'[n] = sent[n] /\ verdicts \subseteq verdicts'
    BY HistoriesGrow DEF Mains
  <1>2. n \in Mains'
    BY <1>1 DEF Mains
  <1>3. ASSUME NEW p, Answered(n, p) PROVE Answered(n, p)'
    BY <1>1, <1>3 DEF Answered
  <1>4. conf' = conf
    BY ConfConstant
  <1>5. Listed(sent[n].cmd)' = Listed(sent[n].cmd)
    BY <1>1, <1>4 DEF Listed
  <1>6. ASSUME Served(n), NEW p \in Listed(sent[n].cmd)' PROVE Answered(n, p)'
    BY <1>3, <1>5, <1>6 DEF Served
  <1>7. Served(n) => Served(n)'
    BY <1>6 DEF Served
  <1> QED BY <1>1, <1>2, <1>3, <1>7

\* A test that is run answers for the command at hand.
LEMMA JudgeAnswers ==
    ASSUME NEW f, Judge(f), NEW n, NEW p, p = loc.test,
           sent' = sent, sent[n].it = loc.it, sent[n].cmd = loc.cmd
    PROVE  Answered(n, p)'
  <1> DEFINE v == [it |-> loc.it, cmd |-> loc.cmd, test |-> loc.test,
                   id |-> Current.ids[loc.test], fired |-> f]
  <1>1. v \in verdicts' /\ v.it = loc.it /\ v.cmd = loc.cmd /\ v.test = loc.test
    BY DEF Judge
  <1> HIDE DEF v
  <1>2. \E w \in verdicts' : w.it = sent'[n].it /\ w.cmd = sent'[n].cmd /\ w.test = p
    BY <1>1
  <1> QED BY <1>2 DEF Answered

LEMMA ServedInvInductive ==
    TypeInv /\ FlagsInv /\ FreezeInv /\ ServedInv /\ [Next]_vars => ServedInv'
  <1> SUFFICES ASSUME TypeInv, FlagsInv, FreezeInv, ServedInv, [Next]_vars PROVE ServedInv'
    OBVIOUS
  <1>0. TypeOK /\ InRange /\ loc \in Local
    BY DEF TypeInv, TypeOK
  <1>a. conf' = conf /\ StopRun' = StopRun /\ StopGroup' = StopGroup
        /\ \A c : Listed(c)' = Listed(c)
    <2>1. conf' = conf
      BY ConfConstant
    <2> QED BY <2>1 DEF StopRun, StopGroup, Listed
  <1>b. /\ loc.it \in Nat /\ loc.cmd \in Nat \ {0} /\ loc.test \in Nat \ {0}
        /\ loc.step \in Nat
    BY <1>0, LocalFields
  <1>c. \A n \in Mains : /\ \A p : Answered(n, p) => Answered(n, p)'
                         /\ Served(n) => Served(n)'
                         /\ sent'[n] = sent[n]
    BY AnswersStay
  <1>d. ASSUME NEW p \in Listed(loc.cmd), loc.cmd <= Len(conf.main)
        PROVE  /\ p \in Nat \ {0} /\ p <= Len(Current.ids)
               /\ Current.ids[p] \in Current.tests
    <2>1. Current.ids \in Seq(TestId)
      BY <1>0, <1>d, CurrentType DEF Command
    <2> QED BY <2>1, <1>d DEF Listed, Current
  <1>e. Hits # {} => Hits' # {}
    BY HistoriesGrow
  <1>1. CASE SendMain
    <2>1. pc = "main" /\ loc.cmd <= Len(conf.main) /\ Send("main", loc.cmd, 0, 0)
      BY <1>1 DEF SendMain
    <2>2. \A n \in Mains : Served(n) /\ Served(n)'
      BY <1>c, <2>1 DEF ServedInv
    <2> DEFINE z == Len(sent) + 1
    <2>3. /\ Len(sent) \in Nat /\ DOMAIN sent = 1..Len(sent)
          /\ DOMAIN sent' = DOMAIN sent \cup {z}
          /\ sent'[z].kind = "main" /\ sent'[z].it = loc.it /\ sent'[z].cmd = loc.cmd
          /\ \A n \in DOMAIN sent : sent'[n] = sent[n]
      <3>1. loc.cmd \in Nat /\ 0 \in Nat
        BY <1>b
      <3> QED BY <1>0, <2>1, <3>1, SendAppends
    <2>4. Mains' = Mains \cup {z} /\ Mains \subseteq 1..Len(sent)
      <3>1. z \in DOMAIN sent'
        BY <2>3
      <3> QED BY <2>3, <3>1 DEF Mains
    <2>5. z \in Nat /\ \A m \in Mains' : m <= z /\ m \in Nat
      BY <2>3, <2>4
    <2>6. \A m \in Mains : m # z /\ m < z
      BY <2>3, <2>4
    <2> HIDE DEF z
    <2>7. EveryListedTestRuns'
      <3>1. ASSUME NEW m \in Mains', NEW n \in Mains', m < n,
                   NEW p \in Listed(sent[m].cmd)'
            PROVE  Answered(m, p)'
        <4>1. m # z
          BY <2>5, <3>1
        <4>2. m \in Mains
          BY <2>4, <4>1
        <4> QED BY <2>2, <3>1, <4>2 DEF Served
      <3> QED BY <3>1 DEF EveryListedTestRuns
    <2>8. loc'.it = loc.it
      BY <1>0, <1>1 DEF SendMain, FailGroup, Panic, Local
    <2>9. \/ pc' = "main" /\ Current.tests = {}
          \/ pc' = "tests" /\ loc'.cmd = loc.cmd /\ loc'.test = 1
          \/ pc' = "deferred"
      BY <1>0, <1>1 DEF SendMain, Goto, FailGroup, Panic, Finish, Local
    <2>10. ASSUME pc' = "main", NEW n \in Mains' PROVE Served(n)'
      <3>1. CASE n \in Mains
        BY <2>2, <3>1
      <3>2. CASE n = z
        <4>1. Listed(loc.cmd) = {}
          BY <2>9, <2>10 DEF Listed, Current
        <4>2. Listed(sent[n].cmd)' = Listed(loc.cmd)
          BY <1>a, <2>3, <3>2
        <4> QED BY <4>1, <4>2 DEF Served
      <3> QED BY <2>4, <3>1, <3>2
    <2>11. ASSUME pc' = "tests", NEW n \in Mains' PROVE Served(n)' \/ ServedSoFar(n)'
      <3>1. CASE n \in Mains
        BY <2>2, <3>1
      <3>2. CASE n = z
        <4>1. sent'[n].it = loc'.it /\ sent'[n].cmd = loc'.cmd
          BY <2>3, <2>8, <2>9, <2>11, <3>2
        <4>2. \A m \in Mains' : m <= n
          BY <2>5, <3>2
        <4>3. ASSUME NEW p \in Listed(loc.cmd)' PROVE p > loc'.test \/ p = loc'.test
          <5>1. p \in Listed(loc.cmd)
            BY <1>a, <2>9, <2>11, <4>3
          <5> QED BY <1>d, <2>1, <2>9, <2>11, <5>1
        <4> QED BY <2>11, <4>1, <4>2, <4>3 DEF ServedSoFar
      <3> QED BY <2>4, <3>1, <3>2
    <2> QED BY <2>7, <2>9, <2>10, <2>11 DEF ServedInv
  <1>2. CASE ~SendMain
    <2>1. Mains' = Mains
      BY <1>2, SentElsewhere
    <2>2. EveryListedTestRuns'
      <3>1. ASSUME NEW m \in Mains', NEW n \in Mains', m < n,
                   NEW p \in Listed(sent[m].cmd)'
            PROVE  Answered(m, p)'
        <4>1. m \in Mains /\ n \in Mains /\ p \in Listed(sent[m].cmd)
          BY <1>a, <1>c, <2>1, <3>1
        <4>2. Answered(m, p)
          BY <3>1, <4>1 DEF ServedInv, EveryListedTestRuns
        <4> QED BY <1>c, <4>1, <4>2
      <3> QED BY <3>1 DEF EveryListedTestRuns
    <2>3. ASSUME \A n \in Mains : Served(n) PROVE \A n \in Mains' : Served(n)'
      BY <1>c, <2>1, <2>3
    <2>4. ASSUME loc'.it = loc.it, loc'.cmd = loc.cmd, NEW n \in Mains, ServedSoFar(n),
                 \A p \in Listed(loc.cmd) :
                    \/ Answered(n, p) \/ Answered(n, p)'
                    \/ p > loc'.test
                    \/ p = loc'.test /\ pc' = "tests"
                    \/ StopGroup /\ Hits' # {} /\ pc' = "tests"
          PROVE  ServedSoFar(n)'
      <3>1. sent'[n].it = loc'.it /\ sent'[n].cmd = loc'.cmd /\ \A m \in Mains' : m <= n
        BY <1>c, <2>1, <2>4 DEF ServedSoFar
      <3>2. ASSUME NEW p \in Listed(loc.cmd)'
            PROVE  \/ Answered(n, p)'
                   \/ p > loc'.test
                   \/ p = loc'.test /\ pc' = "tests"
                   \/ StopGroup' /\ Hits' # {} /\ pc' = "tests"
        <4>1. p \in Listed(loc.cmd)
          BY <1>a, <2>4, <3>2
        <4> QED BY <1>a, <1>c, <2>4, <4>1
      <3> QED BY <3>1, <3>2 DEF ServedSoFar
    <2>5. CASE BeginIteration
      <3>1. pc = "loop" /\ pc' = "main"
        BY <2>5 DEF BeginIteration, Goto
      <3> QED BY <2>2, <2>3, <3>1 DEF ServedInv
    <2>6. CASE SkipUnknownTest
      <3>1. /\ pc = "tests" /\ pc' = "tests" /\ loc'.it = loc.it /\ loc'.cmd = loc.cmd
            /\ loc'.test = loc.test + 1 /\ Current.ids[loc.test] \notin Current.tests
        BY <1>0, <2>6 DEF SkipUnknownTest, Goto, Local
      <3>2. loc.cmd <= Len(conf.main)
        BY <1>0, <3>1 DEF InRange
      <3>3. ASSUME NEW n \in Mains, ~Served(n) PROVE ServedSoFar(n)'
        <4>1. ServedSoFar(n)
          BY <3>1, <3>3 DEF ServedInv
        <4>2. ASSUME NEW p \in Listed(loc.cmd)
              PROVE  \/ Answered(n, p)
                     \/ p > loc'.test
                     \/ p = loc'.test
                     \/ StopGroup /\ Hits # {}
          <5>1. p # loc.test /\ p \in Nat
            BY <1>d, <3>1, <3>2, <4>2
          <5>2. Answered(n, p) \/ p > loc.test \/ (StopGroup /\ Hits # {})
            BY <4>1, <4>2, <5>1 DEF ServedSoFar
          <5> QED BY <1>b, <3>1, <5>1, <5>2
        <4> QED BY <1>e, <2>4, <3>1, <3>3, <4>1, <4>2
      <3> QED BY <1>c, <2>1, <2>2, <3>1, <3>3 DEF ServedInv
    <2>7. CASE RunTest
      <3>1. /\ pc = "tests" /\ loc.cmd <= Len(conf.main) /\ loc.test <= Len(Current.ids)
            /\ pc' \in {"tests", "ifTriggered", "deferred"} /\ sent' = sent
        BY <1>0, <2>7 DEF RunTest, InRange, RecordTrigger, Goto, FailGroup, Panic, Finish
      <3>2. loc'.it = loc.it /\ loc'.cmd = loc.cmd
        BY <1>0, <2>7 DEF RunTest, RecordTrigger, FailGroup, Panic, Local
      <3>3. pc' # "deferred" => Judge(TRUE) \/ Judge(FALSE)
        BY <2>7 DEF RunTest, FailGroup, Panic, Finish
      <3>4. \/ pc' = "deferred"
            \/ pc' = "ifTriggered" /\ loc'.test = loc.test
            \/ pc' = "tests" /\ loc'.test = loc.test + 1
            \/ pc' = "tests" /\ StopGroup /\ Hits' # {}
        <4>1. CASE Judge(FALSE) /\ Goto("tests") /\ loc' = [loc EXCEPT !.test = @ + 1]
          BY <1>0, <4>1 DEF Goto, Local
        <4>2. CASE Judge(TRUE) /\ RecordTrigger
          <5>1. pc' = "tests" /\ loc'.test = AfterTrigger
            BY <1>0, <4>2 DEF RecordTrigger, Goto, Local
          <5>2. Hits' # {}
            BY <4>2, HitsGrow
          <5> QED BY <5>1, <5>2 DEF AfterTrigger
        <4>3. CASE Goto("ifTriggered") /\ loc' = [loc EXCEPT !.step = 1]
          BY <1>0, <4>3 DEF Goto, Local
        <4>4. CASE FailGroup \/ Panic
          BY <4>4 DEF FailGroup, Panic, Finish
        <4> QED BY <2>7, <4>1, <4>2, <4>3, <4>4 DEF RunTest
      <3>5. ASSUME NEW n \in Mains, ~Served(n), pc' # "deferred" PROVE ServedSoFar(n)'
        <4>1. ServedSoFar(n) /\ sent[n].it = loc.it /\ sent[n].cmd = loc.cmd
          BY <3>1, <3>5 DEF ServedInv, ServedSoFar
        <4>2. \A p : p = loc.test => Answered(n, p)'
          BY <3>1, <3>3, <3>5, <4>1, JudgeAnswers
        <4>3. ~(StopGroup /\ Hits # {})
          <5>1. Len(Current.ids) \in Nat
            BY <1>0, <3>1, CurrentType DEF Command
          <5> QED BY <1>b, <3>1, <5>1 DEF FreezeInv
        <4>4. ASSUME NEW p \in Listed(loc.cmd)
              PROVE  \/ Answered(n, p) \/ Answered(n, p)'
                     \/ p > loc'.test
                     \/ p = loc'.test /\ pc' = "tests"
                     \/ StopGroup /\ Hits' # {} /\ pc' = "tests"
          <5>1. Answered(n, p) \/ p > loc.test \/ p = loc.test
            BY <4>1, <4>3, <4>4 DEF ServedSoFar
          <5>2. p \in Nat
            BY <1>d, <3>1, <4>4
          <5> QED BY <1>b, <3>4, <3>5, <4>2, <5>1, <5>2
        <4> QED BY <2>4, <3>2, <3>5, <4>1, <4>4
      <3> QED BY <1>c, <2>1, <2>2, <3>1, <3>5 DEF ServedInv
    <2>8. CASE SendIfTriggered
      <3>1. /\ pc = "ifTriggered" /\ pc' \in {"tests", "ifTriggered", "deferred"}
            /\ loc'.it = loc.it /\ loc'.cmd = loc.cmd
        BY <1>0, <2>8 DEF SendIfTriggered, RecordTrigger, Goto, FailGroup, Panic, Finish, Local
      <3>2. \/ pc' = "deferred"
            \/ pc' = "ifTriggered" /\ loc'.test = loc.test
            \/ pc' = "tests" /\ loc'.test = loc.test + 1
            \/ pc' = "tests" /\ StopGroup
        BY <1>0, <2>8 DEF SendIfTriggered, RecordTrigger, AfterTrigger, Goto, FailGroup, Panic,
                          Finish, Local
      <3>3. Hits' # {}
        BY <1>e, <3>1 DEF FlagsInv
      <3>4. ASSUME NEW n \in Mains, ~Served(n), pc' # "deferred" PROVE ServedSoFar(n)'
        <4>1. ServedSoFar(n)
          BY <3>1, <3>4 DEF ServedInv
        <4>2. loc.cmd <= Len(conf.main)
          BY <1>0, <3>1 DEF InRange
        <4>3. ASSUME NEW p \in Listed(loc.cmd)
              PROVE  \/ Answered(n, p)
                     \/ p > loc'.test
                     \/ p = loc'.test /\ pc' = "tests"
                     \/ StopGroup /\ Hits' # {} /\ pc' = "tests"
          <5>1. Answered(n, p) \/ p > loc.test
            BY <3>1, <4>1, <4>3 DEF ServedSoFar
          <5>2. p \in Nat
            BY <1>d, <4>2, <4>3
          <5> QED BY <1>b, <3>2, <3>3, <3>4, <5>1, <5>2
        <4> QED BY <2>4, <3>1, <3>4, <4>1, <4>3
      <3> QED BY <1>c, <2>1, <2>2, <3>1, <3>4 DEF ServedInv
    <2>9. CASE EndTests
      <3> DEFINE hit == loc.groupTriggered \/ loc.triggers # <<>>
      <3>1. pc = "tests" /\ loc.test > Len(Current.ids) /\ loc.cmd <= Len(conf.main)
        BY <1>0, <2>9 DEF EndTests, InRange
      <3>2. CASE StopGroup /\ hit
        <4>1. ReturnGroup(TRUE) /\ StopRun
          BY <2>9, <3>2 DEF EndTests, StopGroup, StopRun
        <4>2. pc' \in {"postMortem", "deferred"}
          BY <1>0, <4>1, ReturnGroupFields
        <4> QED BY <1>a, <2>2, <4>1, <4>2 DEF ServedInv
      <3>3. CASE ~(StopGroup /\ hit)
        <4>1. ~(StopGroup /\ Hits # {}) /\ pc' = "main"
          BY <2>9, <3>1, <3>3 DEF EndTests, Goto, FreezeInv
        <4>2. Len(Current.ids) \in Nat
          BY <1>0, <3>1, CurrentType DEF Command
        <4>3. ASSUME NEW n \in Mains PROVE Served(n)
          <5>1. Served(n) \/ ServedSoFar(n)
            BY <3>1 DEF ServedInv
          <5>2. ASSUME ServedSoFar(n), NEW p \in Listed(loc.cmd) PROVE Answered(n, p)
            <6>1. p \in Nat /\ p <= Len(Current.ids)
              BY <1>d, <3>1, <5>2
            <6>2. ~(p > loc.test) /\ p # loc.test
              BY <1>b, <3>1, <4>2, <6>1
            <6> QED BY <4>1, <5>2, <6>2 DEF ServedSoFar
          <5>3. ServedSoFar(n) => Listed(sent[n].cmd) = Listed(loc.cmd)
            BY DEF ServedSoFar
          <5> QED BY <5>1, <5>2, <5>3 DEF Served
        <4> QED BY <2>2, <2>3, <4>1, <4>3 DEF ServedInv
      <3> QED BY <3>2, <3>3
    <2>10. CASE EndGroup \/ EndPostMortem \/ SendPostMortem \/ Delay
      <3>1. /\ pc \in {"main", "delay"} \/ pc = "postMortem"
            /\ pc' \in {"loop", "delay", "postMortem", "report", "deferred"}
            /\ pc = "postMortem" /\ pc' \notin {"report", "deferred"} =>
                  pc' = "postMortem" \/ ~StopRun
        BY <2>10 DEF EndGroup, ReturnGroup, EndPostMortem, SendPostMortem, Panic, Delay, Goto, Finish
      <3>2. CASE pc' \in {"report", "deferred"}
        BY <2>2, <3>2 DEF ServedInv
      <3>3. CASE pc' = "postMortem" /\ StopRun
        BY <1>a, <2>2, <3>3 DEF ServedInv
      <3>4. CASE pc' \notin {"report", "deferred"} /\ ~(pc' = "postMortem" /\ StopRun)
        <4>1. \A n \in Mains : Served(n)
          BY <3>1, <3>4 DEF ServedInv
        <4> QED BY <2>2, <2>3, <3>1, <4>1 DEF ServedInv
      <3> QED BY <3>2, <3>3, <3>4
    <2>11. CASE EndLoop \/ Report \/ Notify \/ SkipNotify \/ Cleanup
      <3>1. pc' \in {"report", "deferred", "cleanup", "over"}
        BY <2>11 DEF EndLoop, Report, Notify, SkipNotify, Cleanup, Goto, Finish
      <3> QED BY <2>2, <3>1 DEF ServedInv
    <2>12. CASE UNCHANGED vars
      <3>1. pc' = pc /\ loc' = loc /\ Hits' = Hits
        BY <2>12, HitsUnchanged DEF vars
      <3>2. ASSUME NEW n \in Mains, ServedSoFar(n), pc \in {"tests", "ifTriggered"}
            PROVE  ServedSoFar(n)'
        BY <1>a, <2>4, <3>1, <3>2 DEF ServedSoFar
      <3>3. pc \in {"tests", "ifTriggered"} => \A n \in Mains' : Served(n)' \/ ServedSoFar(n)'
        BY <1>c, <2>1, <3>2 DEF ServedInv
      <3> QED BY <1>a, <2>2, <2>3, <3>1, <3>3 DEF ServedInv
    <2> QED BY <1>2, <2>5, <2>6, <2>7, <2>8, <2>9, <2>10, <2>11, <2>12 DEF Next, Over
  <1> QED BY <1>1, <1>2

LEMMA ServedInvariant == Spec => []ServedInv
  <1>1. Init => ServedInv
    <2>1. Init => Mains = {} /\ pc = "loop"
      BY DEF Init, Mains
    <2> QED BY <2>1 DEF ServedInv, EveryListedTestRuns
  <1> QED
    BY <1>1, TypeInvariant, FlagsInvariant, FreezeInvariant, ServedInvInductive, PTL DEF Spec

\* No main command goes out before every listed test of the earlier ones has
\* answered, in every iteration (pipeline.go:155-177).
THEOREM RunPassesNoTestOver == Spec => []EveryListedTestRuns
  <1>1. ServedInv => EveryListedTestRuns
    BY DEF ServedInv
  <1> QED BY <1>1, ServedInvariant, PTL

-----------------------------------------------------------------------------
(* The evidence of a hit.                                                  *)

\* When the number of completed iterations goes up: at the end of a group without
\* a hit, and after the post-mortem commands of one with a hit.
IterationEnds == (pc' = "delay" /\ pc # "delay") \/ EndPostMortem

LEMMA CompletedMoves ==
    ASSUME TypeInv, FlagsInv, EndedInv, [Next]_vars
    PROVE  /\ IterationEnds => /\ Completed = loc.it /\ Completed' = loc.it + 1
                               /\ loc'.it = loc.it /\ loc.it < Iterations
                               /\ EndPostMortem \/ (EndGroup /\ ~loc.groupTriggered)
           /\ ~IterationEnds => Completed' = Completed
           /\ Completed \in Nat
  <1>0. TypeOK /\ InRange /\ loc \in Local
    BY DEF TypeInv, TypeOK
  <1>a. Iterations' = Iterations /\ Iterations \in Nat
    BY ConfConstant, IterationsType
  <1>b. loc.it \in Nat /\ loc.groupTriggered \in BOOLEAN
    BY <1>0, LocalFields
  <1>c. Completed \in Nat
    BY <1>b DEF Completed
  <1>1. CASE EndPostMortem
    <2>1. /\ pc = "postMortem" /\ pc' \in {"report", "delay"} /\ loc' = loc
          /\ outcome = "running" /\ loc.it < Iterations
      BY <1>1 DEF EndPostMortem, Goto, EndedInv, FlagsInv
    <2>2. Completed = loc.it
      BY <1>b, <2>1 DEF Completed
    <2>3. Completed' = loc.it + 1
      BY <1>a, <1>b, <2>1 DEF Completed
    <2>4. IterationEnds
      BY <1>1 DEF IterationEnds
    <2>5. loc'.it = loc.it /\ loc.it < Iterations
      BY <2>1
    <2> QED BY <1>1, <1>c, <2>2, <2>3, <2>4, <2>5
  <1>2. CASE EndGroup
    <2>1. pc = "main" /\ outcome = "running" /\ loc.it < Iterations
      BY <1>2 DEF EndGroup, EndedInv, FlagsInv
    <2>2. loc'.it = loc.it
      BY <1>0, <1>2, <1>b, ReturnGroupFields DEF EndGroup
    <2>3. \/ pc' = "delay" /\ ~loc.groupTriggered
          \/ pc' \in {"postMortem", "deferred"} /\ outcome' \in {"running", "nil"}
      BY <1>2, <2>1 DEF EndGroup, ReturnGroup, Goto, Finish
    <2>4. ~EndPostMortem
      BY <2>1 DEF EndPostMortem
    <2> QED BY <1>2, <1>a, <1>b, <1>c, <2>1, <2>2, <2>3, <2>4 DEF Completed, IterationEnds
  <1>3. CASE EndTests
    <2>1. pc = "tests" /\ outcome = "running"
      BY <1>3 DEF EndTests, EndedInv
    <2>2. loc'.it = loc.it
      BY <1>0, <1>3, ReturnGroupFields DEF EndTests, Local
    <2>3. pc' \in {"main", "postMortem", "deferred"} /\ outcome' \in {"running", "nil"}
      BY <1>3, <2>1 DEF EndTests, ReturnGroup, Goto, Finish
    <2>4. ~EndPostMortem
      BY <2>1 DEF EndPostMortem
    <2> QED BY <1>c, <2>1, <2>2, <2>3, <2>4 DEF Completed, IterationEnds
  <1>4. CASE BeginIteration \/ SendMain \/ SkipUnknownTest
    <2>1. /\ pc \in {"loop", "main", "tests"} /\ pc' \in {"main", "tests", "deferred"}
          /\ outcome = "running" /\ outcome' \in {"running", "error", "panic"}
      BY <1>4 DEF BeginIteration, SendMain, SkipUnknownTest, Goto, FailGroup, Panic, Finish, EndedInv
    <2>2. loc'.it = loc.it
      BY <1>0, <1>4 DEF BeginIteration, SendMain, SkipUnknownTest, FailGroup, Panic, Local
    <2> QED BY <1>c, <2>1, <2>2 DEF Completed, IterationEnds, EndPostMortem
  <1>5. CASE RunTest \/ SendIfTriggered
    <2>1. /\ pc \in {"tests", "ifTriggered"} /\ pc' \in {"tests", "ifTriggered", "deferred"}
          /\ outcome = "running" /\ outcome' \in {"running", "error", "panic"}
      BY <1>5 DEF RunTest, SendIfTriggered, RecordTrigger, Goto, FailGroup, Panic, Finish, EndedInv
    <2>2. loc'.it = loc.it
      BY <1>0, <1>5 DEF RunTest, SendIfTriggered, RecordTrigger, FailGroup, Panic, Local
    <2> QED BY <1>c, <2>1, <2>2 DEF Completed, IterationEnds, EndPostMortem
  <1>6. CASE SendPostMortem
    <2>1. /\ pc = "postMortem" /\ pc' \in {"postMortem", "deferred"}
          /\ outcome = "running" /\ outcome' \in {"running", "error", "panic"}
      BY <1>6 DEF SendPostMortem, Panic, Goto, Finish, EndedInv
    <2>2. loc'.it = loc.it
      BY <1>0, <1>6 DEF SendPostMortem, Panic, Local
    <2>3. ~EndPostMortem
      <3>1. sent' # sent
        <4>1. 0 \in Nat /\ loc.step \in Nat /\ Send("postMortem", 0, 0, loc.step)
          BY <1>0, <1>6, LocalFields DEF SendPostMortem
        <4>2. DOMAIN sent' = DOMAIN sent \cup {Len(sent) + 1} /\ DOMAIN sent = 1..Len(sent)
              /\ Len(sent) \in Nat
          BY <1>0, <4>1, SendAppends
        <4> QED BY <4>2
      <3> QED BY <3>1 DEF EndPostMortem
    <2> QED BY <1>c, <2>1, <2>2, <2>3 DEF Completed, IterationEnds
  <1>7. CASE Delay
    <2>1. pc = "delay" /\ pc' = "loop" /\ loc'.it = loc.it + 1 /\ outcome' = "running"
          /\ outcome = "running"
      BY <1>0, <1>7 DEF Delay, Goto, Local, EndedInv
    <2> QED BY <1>b, <1>c, <2>1 DEF Completed, IterationEnds, EndPostMortem
  <1>8. CASE EndLoop \/ Report
    <2>1. /\ pc \in {"loop", "report"} /\ loc' = loc /\ pc' \in {"report", "deferred"}
          /\ pc = "loop" => loc.it >= Iterations /\ outcome' = outcome
          /\ pc = "report" => pc' = "deferred" /\ outcome' = "ok"
          /\ outcome = "running"
      BY <1>8 DEF EndLoop, Report, Goto, Finish, EndedInv
    <2> QED BY <1>a, <1>b, <1>c, <2>1 DEF Completed, IterationEnds, EndPostMortem
  <1>9. CASE Notify \/ SkipNotify \/ Cleanup
    <2>1. /\ pc \in {"deferred", "cleanup"} /\ pc' \in {"cleanup", "over"}
          /\ loc' = loc /\ outcome' = outcome
      BY <1>9 DEF Notify, SkipNotify, Cleanup, unchangedRun
    <2> QED BY <1>a, <1>c, <2>1 DEF Completed, IterationEnds, EndPostMortem
  <1>10. CASE UNCHANGED vars
    <2>1. pc' = pc /\ loc' = loc /\ outcome' = outcome
      BY <1>10 DEF vars
    <2>2. ~EndPostMortem
      BY <2>1 DEF EndPostMortem, Goto
    <2> QED BY <1>a, <1>c, <2>1, <2>2 DEF Completed, IterationEnds
  <1> QED BY <1>1, <1>2, <1>3, <1>4, <1>5, <1>6, <1>7, <1>8, <1>9, <1>10 DEF Next, Over

\* Post-mortem commands belong to hits, those of the iteration at hand are sent
\* after its group only, and while they are sent step tells how many are.
EvidenceInv ==
    /\ \A n \in DOMAIN sent : sent[n].kind = "postMortem" =>
          /\ sent[n].it \in Hits
          /\ sent[n].it = loc.it =>
                pc \notin {"loop", "main", "tests", "ifTriggered"}
    /\ pc = "postMortem" => /\ loc.step <= conf.postMortem + 1
                            /\ InTurn(PostMortemSent(loc.it), loc.step - 1)
    /\ EvidenceCollected

\* Verdicts are never withdrawn, and only the iteration at hand can become a hit.
LEMMA HitsMove ==
    ASSUME TypeInv, [Next]_vars
    PROVE  /\ Hits \subseteq Hits' /\ Hits' \subseteq Hits \cup {loc.it}
           /\ Hits' # Hits => RunTest
  <1>1. CASE RunTest
    <2>1. Judge(FALSE) \/ Judge(TRUE) \/ verdicts' = verdicts
      BY <1>1 DEF RunTest
    <2>2. Hits' = Hits \/ Hits' = Hits \cup {loc.it}
      BY <2>1, HitsGrow, HitsUnchanged
    <2> QED BY <1>1, <2>2
  <1>2. CASE ~RunTest
    <2>1. verdicts' = verdicts
      BY <1>2 DEF Next, BeginIteration, SendMain, SkipUnknownTest, SendIfTriggered,
                  EndTests, EndGroup, SendPostMortem, EndPostMortem, Delay, EndLoop, Report,
                  Notify, SkipNotify, Cleanup, Over, unchangedRun, vars
    <2> QED BY <2>1, HitsUnchanged
  <1> QED BY <1>1, <1>2

\* The next post-mortem command is put down at its place.
LEMMA PostMortemGoesOn ==
    ASSUME TypeInv, Send("postMortem", 0, 0, loc.step), NEW k \in Nat, NEW i \in Nat,
           i = loc.it, InTurn(PostMortemSent(i), k), k + 1 = loc.step
    PROVE  InTurn(PostMortemSent(i)', k + 1)
  <1> DEFINE z == Len(sent) + 1
  <1> DEFINE own == {m \in DOMAIN sent : sent[m].kind = "postMortem" /\ sent[m].it = i}
  <1>1. TypeOK /\ loc.step \in Nat /\ 0 \in Nat
    BY DEF TypeInv, TypeOK, Local
  <1>2. /\ Len(sent) \in Nat /\ DOMAIN sent = 1..Len(sent)
        /\ DOMAIN sent' = DOMAIN sent \cup {z}
        /\ \A n \in DOMAIN sent : sent'[n] = sent[n]
        /\ sent'[z].kind = "postMortem" /\ sent'[z].it = loc.it /\ sent'[z].step = loc.step
    BY <1>1, SendAppends
  <1>3. {m \in DOMAIN sent' : sent'[m].kind = "postMortem" /\ sent'[m].it = i} = own \cup {z}
    <2>1. z \in DOMAIN sent'
      BY <1>2
    <2> QED BY <1>2, <2>1
  <1>4. own \subseteq 1..Len(sent) /\ \A n \in own : sent'[n] = sent[n]
    BY <1>2
  <1> HIDE DEF z, own
  <1>5. ASSUME NEW f, NEW g, f = PostMortemSent(i), g = PostMortemSent(i)'
        PROVE  InTurn(g, k + 1)
    <2>1. f = [n \in own |-> sent[n].step]
      BY <1>5 DEF PostMortemSent, own
    <2>2. g = [n \in own \cup {z} |-> sent'[n].step]
      BY <1>3, <1>5 DEF PostMortemSent
    <2>3. DOMAIN f = own /\ DOMAIN g = DOMAIN f \cup {z}
      BY <2>1, <2>2
    <2>4. \A n \in DOMAIN f : g[n] = f[n]
      BY <1>4, <2>1, <2>2
    <2>5. g[z] = k + 1
      BY <1>2, <2>2
    <2>6. DOMAIN f \subseteq 1..Len(sent) /\ InTurn(f, k)
      BY <1>4, <1>5, <2>3
    <2>7. DOMAIN g = DOMAIN f \cup {Len(sent) + 1} /\ g[Len(sent) + 1] = k + 1
      BY <2>3, <2>5 DEF z
    <2> QED BY <1>2, <2>4, <2>6, <2>7, InTurnGoesOn
  <1> QED BY <1>5

\* Iterations without a hit have sent no post-mortem command.
LEMMA NoHitNoEvidence ==
    ASSUME EvidenceInv, NEW i, i \notin Hits
    PROVE  InTurn(PostMortemSent(i), 0)
  <1>1. DOMAIN PostMortemSent(i) = {}
    BY DEF EvidenceInv, PostMortemSent
  <1> QED BY <1>1, InTurnEmpty

LEMMA EvidenceInvInductive ==
    TypeInv /\ FlagsInv /\ EndedInv /\ EvidenceInv /\ [Next]_vars => EvidenceInv'
  <1> SUFFICES ASSUME TypeInv, FlagsInv, EndedInv, EvidenceInv, [Next]_vars
               PROVE  EvidenceInv'
    OBVIOUS
  <1>0. TypeOK /\ InRange /\ loc \in Local
    BY DEF TypeInv, TypeOK
  <1>a. conf' = conf /\ conf.postMortem \in Nat
    BY ConfConstant, ConfigsAssumption DEF TypeInv, TypeOK, Config
  <1>b. loc.it \in Nat /\ loc.step \in Nat \ {0} /\ loc.groupTriggered \in BOOLEAN
    BY <1>0, LocalFields
  <1>c. Hits \subseteq Hits' /\ Hits' \subseteq Hits \cup {loc.it} /\ (Hits' # Hits => RunTest)
    BY HitsMove
  <1>d. Hits \subseteq 0..loc.it
    BY DEF FlagsInv
  \* The iteration goes on, or a new one begins after the delay.
  <1>e. \/ loc'.it = loc.it /\ ~Delay
        \/ Delay /\ loc'.it = loc.it + 1 /\ pc = "delay" /\ pc' = "loop"
    <2>1. CASE BeginIteration \/ SendMain \/ SkipUnknownTest
      BY <1>0, <2>1 DEF BeginIteration, SendMain, SkipUnknownTest, FailGroup, Panic, Local, Delay
    <2>2. CASE RunTest \/ SendIfTriggered
      BY <1>0, <2>2 DEF RunTest, SendIfTriggered, RecordTrigger, FailGroup, Panic, Local, Delay
    <2>3. CASE EndTests \/ EndGroup
      BY <1>0, <1>b, <2>3, ReturnGroupFields DEF EndTests, EndGroup, Local, Delay
    <2>4. CASE SendPostMortem \/ EndPostMortem \/ EndLoop \/ Report
      BY <1>0, <2>4 DEF SendPostMortem, Panic, EndPostMortem, EndLoop, Report, Local, Delay
    <2>5. CASE Delay
      BY <1>0, <2>5 DEF Delay, Goto, Local
    <2>6. CASE Notify \/ SkipNotify \/ Cleanup \/ UNCHANGED vars
      BY <1>0, <2>6 DEF Notify, SkipNotify, Cleanup, unchangedRun, vars, Delay, Goto
    <2> QED BY <2>1, <2>2, <2>3, <2>4, <2>5, <2>6 DEF Next, Over
  \* From the group of the iteration there is no way back to it.
  <1>f. pc' \in {"loop", "main", "tests", "ifTriggered"} =>
           Delay \/ pc \in {"loop", "main", "tests", "ifTriggered"}
    BY DEF Next, BeginIteration, SendMain, Panic, SkipUnknownTest, RunTest, SendIfTriggered,
           EndTests, EndGroup, SendPostMortem, EndPostMortem, EndLoop, Report,
           Notify, SkipNotify, Cleanup, Over, vars, Goto, Finish
  <1>g. /\ IterationEnds => /\ Completed = loc.it /\ Completed' = loc.it + 1
                            /\ EndPostMortem \/ (EndGroup /\ ~loc.groupTriggered)
        /\ ~IterationEnds => Completed' = Completed
        /\ Completed \in Nat
    BY CompletedMoves
  <1>1. CASE SendPostMortem
    <2>1. /\ pc = "postMortem" /\ loc.step <= conf.postMortem /\ outcome = "running"
          /\ Send("postMortem", 0, 0, loc.step) /\ loc.it \in Hits /\ Hits' = Hits
      <3>1. pc = "postMortem" /\ Hits' = Hits
        BY <1>1, <1>c DEF SendPostMortem, RunTest
      <3> QED BY <1>1, <3>1 DEF SendPostMortem, EndedInv, FlagsInv
    <2>2. \/ pc' = "postMortem" /\ loc'.step = loc.step + 1
          \/ pc' = "deferred"
      BY <1>0, <1>1 DEF SendPostMortem, Panic, Goto, Finish, Local
    <2>3. loc'.it = loc.it /\ ~Delay
      BY <1>e, <2>1
    <2> DEFINE z == Len(sent) + 1
    <2>4. /\ Len(sent) \in Nat /\ DOMAIN sent = 1..Len(sent)
          /\ DOMAIN sent' = DOMAIN sent \cup {z}
          /\ \A n \in DOMAIN sent : sent'[n] = sent[n]
          /\ sent'[z].it = loc.it
      <3>1. 0 \in Nat /\ loc.step \in Nat
        BY <1>b
      <3> QED BY <1>0, <2>1, <3>1, SendAppends
    <2>5. ASSUME NEW k \in Nat, k = loc.step - 1, NEW i \in Nat, i = loc.it
          PROVE  InTurn(PostMortemSent(i)', k + 1)
      <3>1. InTurn(PostMortemSent(i), k) /\ k + 1 = loc.step
        BY <1>b, <2>1, <2>5 DEF EvidenceInv
      <3> QED BY <2>1, <2>5, <3>1, PostMortemGoesOn
    <2>6. loc.step - 1 \in Nat /\ (loc.step - 1) + 1 = loc.step
          /\ (loc.step + 1) - 1 = loc.step /\ loc.step \in 0..conf.postMortem
      BY <1>a, <1>b, <2>1
    <2>7. \A i \in Nat : i = loc.it => InTurn(PostMortemSent(i)', loc.step)
      <3>1. ASSUME NEW i \in Nat, i = loc.it PROVE InTurn(PostMortemSent(i)', loc.step)
        <4>1. \A k \in Nat : k = loc.step - 1 => InTurn(PostMortemSent(i)', k + 1)
          BY <2>5, <3>1
        <4> QED BY <2>6, <4>1
      <3> QED BY <3>1
    <2>8. \A i \in Nat : i # loc.it => PostMortemSent(i)' = PostMortemSent(i)
      <3>1. ASSUME NEW i \in Nat, i # loc.it PROVE PostMortemSent(i)' = PostMortemSent(i)
        <4> DEFINE own == {m \in DOMAIN sent : sent[m].kind = "postMortem" /\ sent[m].it = i}
        <4>1. {m \in DOMAIN sent' : sent'[m].kind = "postMortem" /\ sent'[m].it = i} = own
          BY <2>4, <3>1
        <4>2. \A n \in own : sent'[n] = sent[n]
          BY <2>4
        <4> QED BY <4>1, <4>2 DEF PostMortemSent
      <3> QED BY <3>1
    <2>9. \A n \in DOMAIN sent' : sent'[n].kind = "postMortem" =>
             /\ sent'[n].it \in Hits'
             /\ sent'[n].it = loc'.it => pc' \notin {"loop", "main", "tests", "ifTriggered"}
      BY <2>1, <2>2, <2>4 DEF EvidenceInv
    <2>10. Completed' = loc.it
      <3>1. ~IterationEnds
        <4>1. ~EndGroup
          BY <2>1 DEF EndGroup
        <4>2. ~EndPostMortem
          BY <1>a, <1>b, <2>1 DEF EndPostMortem
        <4> QED BY <1>g, <4>1, <4>2
      <3>2. Completed = loc.it
        BY <1>b, <2>1 DEF Completed
      <3> QED BY <1>g, <3>1, <3>2
    <2>11. EvidenceCollected'
      <3>1. ASSUME NEW i \in 0..loc.it
            PROVE  /\ \E k \in 0..conf.postMortem : InTurn(PostMortemSent(i)', k)
                   /\ i \notin Hits' => InTurn(PostMortemSent(i)', 0)
                   /\ i \in Hits' /\ i < Completed' =>
                         InTurn(PostMortemSent(i)', conf.postMortem)
        <4>1. i \in Nat
          BY <1>b
        <4>2. CASE i = loc.it
          BY <1>b, <2>1, <2>6, <2>7, <2>10, <4>1, <4>2
        <4>3. CASE i # loc.it
          <5>1. PostMortemSent(i)' = PostMortemSent(i)
            BY <2>8, <4>1, <4>3
          <5>2. Completed = loc.it
            BY <1>b, <2>1 DEF Completed
          <5>3. /\ \E k \in 0..conf.postMortem : InTurn(PostMortemSent(i), k)
                /\ i \notin Hits => InTurn(PostMortemSent(i), 0)
                /\ i \in Hits /\ i < Completed => InTurn(PostMortemSent(i), conf.postMortem)
            BY <3>1 DEF EvidenceInv, EvidenceCollected
          <5> QED BY <2>1, <2>10, <5>1, <5>2, <5>3
        <4> QED BY <4>2, <4>3
      <3> QED BY <1>a, <2>3, <3>1 DEF EvidenceCollected
    <2>12. pc' = "postMortem" => /\ loc'.step <= conf'.postMortem + 1
                                 /\ InTurn(PostMortemSent(loc.it)', loc'.step - 1)
      BY <1>a, <1>b, <2>1, <2>2, <2>3, <2>6, <2>7
    <2> QED BY <2>3, <2>9, <2>11, <2>12 DEF EvidenceInv
  <1>2. CASE ~SendPostMortem
    <2>1. \A i \in Nat : PostMortemSent(i)' = PostMortemSent(i)
      BY <1>2, SentElsewhere
    <2>2. ASSUME NEW n \in DOMAIN sent', sent'[n].kind = "postMortem"
          PROVE  n \in DOMAIN sent /\ sent[n].kind = "postMortem" /\ sent'[n].it = sent[n].it
      <3>1. loc.cmd \in Nat /\ loc.test \in Nat /\ loc.step \in Nat /\ 0 \in Nat
        BY <1>0, LocalFields
      <3>2. CASE sent' = sent
        BY <2>2, <3>2
      <3>3. CASE Send("main", loc.cmd, 0, 0)
        BY <1>0, <2>2, <3>1, <3>3, SendAppends
      <3>4. CASE Send("ifTriggered", loc.cmd, loc.test, loc.step)
        BY <1>0, <2>2, <3>1, <3>4, SendAppends
      <3> QED BY <1>2, <3>2, <3>3, <3>4, WhoSends
    <2>3. \A n \in DOMAIN sent' : sent'[n].kind = "postMortem" =>
             /\ sent'[n].it \in Hits'
             /\ sent'[n].it = loc'.it => pc' \notin {"loop", "main", "tests", "ifTriggered"}
      <3>1. ASSUME NEW n \in DOMAIN sent', sent'[n].kind = "postMortem"
            PROVE  /\ sent'[n].it \in Hits'
                   /\ sent'[n].it = loc'.it => pc' \notin {"loop", "main", "tests", "ifTriggered"}
        <4>1. /\ sent'[n].it \in Hits
              /\ sent'[n].it = loc.it => pc \notin {"loop", "main", "tests", "ifTriggered"}
          BY <2>2, <3>1 DEF EvidenceInv
        <4>2. sent'[n].it # loc.it + 1
          BY <1>b, <1>d, <4>1
        <4> QED BY <1>c, <1>e, <1>f, <4>1, <4>2
      <3> QED BY <3>1
    <2>4. pc' = "postMortem" => /\ loc'.step <= conf'.postMortem + 1
                                /\ InTurn(PostMortemSent(loc.it)', loc'.step - 1)
      <3>1. CASE UNCHANGED vars
        <4>1. pc' = pc /\ loc' = loc
          BY <3>1 DEF vars
        <4> QED BY <1>a, <1>b, <2>1, <4>1 DEF EvidenceInv
      <3>2. CASE EndTests \/ EndGroup
        <4>1. pc \in {"tests", "main"}
          BY <3>2 DEF EndTests, EndGroup
        <4>2. pc' = "postMortem" => loc'.step = 1 /\ loc'.it = loc.it
          BY <1>0, <3>2 DEF EndTests, EndGroup, ReturnGroup, Goto, Finish, Local
        <4>3. DOMAIN PostMortemSent(loc.it) = {}
          BY <4>1 DEF EvidenceInv, PostMortemSent
        <4>4. InTurn(PostMortemSent(loc.it), 0)
          BY <4>3, InTurnEmpty
        <4>5. \A i \in Nat : i = loc.it => InTurn(PostMortemSent(i)', 0)
          BY <2>1, <4>4
        <4> QED BY <1>a, <1>b, <4>2, <4>5
      <3>3. CASE ~(UNCHANGED vars) /\ ~EndTests /\ ~EndGroup
        BY <1>2, <3>3 DEF Next, BeginIteration, SendMain, SkipUnknownTest, RunTest, SendIfTriggered,
                  EndPostMortem, Delay, EndLoop, Report, Notify, SkipNotify, Cleanup, Over, vars,
                  Goto, Finish, FailGroup, Panic, RecordTrigger
      <3> QED BY <3>1, <3>2, <3>3
    <2>5. ASSUME NEW i \in 0..loc'.it
          PROVE  /\ \E k \in 0..conf.postMortem : InTurn(PostMortemSent(i), k)
                 /\ i \notin Hits => InTurn(PostMortemSent(i), 0)
                 /\ i \in Hits /\ i < Completed => InTurn(PostMortemSent(i), conf.postMortem)
      <3>1. CASE i \in 0..loc.it
        BY <3>1 DEF EvidenceInv, EvidenceCollected
      <3>2. CASE i \notin 0..loc.it
        <4>1. i \notin Hits
          BY <1>d, <3>2
        <4> QED BY <1>a, <4>1, NoHitNoEvidence
      <3> QED BY <3>1, <3>2
    <2>6. ASSUME NEW i \in 0..loc'.it, i \in Hits', i < Completed'
          PROVE  InTurn(PostMortemSent(i), conf.postMortem)
      <3>1. CASE ~IterationEnds
        <4>1. Completed' = Completed /\ i < Completed
          BY <1>g, <2>6, <3>1
        <4>2. CASE i \in Hits
          BY <2>5, <2>6, <4>1, <4>2
        <4>3. CASE i \notin Hits
          <5>1. RunTest /\ i = loc.it
            BY <1>c, <2>6, <4>3
          <5>2. Completed = loc.it
            BY <1>b, <5>1 DEF RunTest, EndedInv, Completed
          <5> QED BY <1>b, <4>1, <5>1, <5>2
        <4> QED BY <4>2, <4>3
      <3>2. CASE IterationEnds
        <4>1. /\ Completed = loc.it /\ Completed' = loc.it + 1
              /\ EndPostMortem \/ (EndGroup /\ ~loc.groupTriggered)
          BY <1>g, <3>2
        <4>2. Hits' = Hits
          <5>1. pc # "tests"
            BY <4>1 DEF EndPostMortem, EndGroup
          <5> QED BY <1>c, <5>1 DEF RunTest
        <4>3. CASE i < loc.it
          BY <2>5, <2>6, <4>1, <4>2, <4>3
        <4>4. CASE i = loc.it
          <5>1. ~EndGroup
            BY <2>6, <4>1, <4>2, <4>4 DEF EndGroup, EndPostMortem, FlagsInv
          <5>2. pc = "postMortem" /\ loc.step > conf.postMortem
            BY <4>1, <5>1 DEF EndPostMortem
          <5>3. loc.step - 1 = conf.postMortem
            BY <1>a, <1>b, <5>2 DEF EvidenceInv
          <5> QED BY <4>4, <5>2, <5>3 DEF EvidenceInv
        <4>5. i \in Nat /\ i <= loc.it
          BY <1>b, <1>e, <2>6, <4>1
        <4> QED BY <1>b, <4>3, <4>4, <4>5
      <3> QED BY <3>1, <3>2
    <2>7. EvidenceCollected'
      <3>1. ASSUME NEW i \in 0..loc'.it
            PROVE  /\ \E k \in 0..conf.postMortem : InTurn(PostMortemSent(i)', k)
                   /\ i \notin Hits' => InTurn(PostMortemSent(i)', 0)
                   /\ i \in Hits' /\ i < Completed' =>
                         InTurn(PostMortemSent(i)', conf.postMortem)
        <4>1. PostMortemSent(i)' = PostMortemSent(i)
          <5>1. loc'.it \in Nat
            BY <1>b, <1>e
          <5>2. i \in Nat
            BY <3>1, <5>1
          <5> QED BY <2>1, <5>2
        <4> QED BY <1>c, <2>5, <2>6, <3>1, <4>1
      <3> QED BY <1>a, <3>1 DEF EvidenceCollected
    <2> QED BY <2>3, <2>4, <2>7 DEF EvidenceInv
  <1> QED BY <1>1, <1>2

LEMMA EvidenceInvariant == Spec => []EvidenceInv
  <1>1. Init /\ TypeInv => EvidenceInv
    <2> SUFFICES ASSUME Init, TypeInv PROVE EvidenceInv
      OBVIOUS
    <2>1. sent = <<>> /\ Hits = {} /\ pc = "loop" /\ conf.postMortem \in Nat
      BY ConfigsAssumption DEF Init, Hits, TypeInv, TypeOK, Config
    <2>2. \A i : DOMAIN PostMortemSent(i) = {}
      BY <2>1 DEF PostMortemSent
    <2>3. \A i : InTurn(PostMortemSent(i), 0)
      BY <2>2, InTurnEmpty
    <2> QED BY <2>1, <2>3 DEF EvidenceInv, EvidenceCollected
  <1> QED
    BY <1>1, TypeInvariant, FlagsInvariant, EndedInvariant, EvidenceInvInductive, PTL DEF Spec

\* The post-mortem commands of a hit are collected, each once and in order, and
\* of nothing but a hit (pipeline.go:59-67).
THEOREM RunCollectsItsEvidence == Spec => []EvidenceCollected
  <1>1. EvidenceInv => EvidenceCollected
    BY DEF EvidenceInv
  <1> QED BY <1>1, EvidenceInvariant, PTL

-----------------------------------------------------------------------------
(* The commands of a test.                                                 *)

\* e and v, each an entry, a verdict or the locals, are of the same test in the
\* same iteration.
SameTest(e, v) == e.it = v.it /\ e.cmd = v.cmd /\ e.test = v.test

\* The verdict v was given before the statement reached, or at it when at holds.
Behind(v, at) ==
    \/ v.it < loc.it
    \/ v.it = loc.it /\ v.cmd < loc.cmd
    \/ v.it = loc.it /\ v.cmd = loc.cmd /\ v.test < loc.test
    \/ at /\ SameTest(v, loc)

\* A test is run once at every place of every iteration: no verdict is ahead of
\* the statement reached, and before a test is run there is none at it.
OrderInv ==
    /\ \A v \in verdicts :
          /\ v.it <= loc.it
          /\ pc = "loop" => v.it < loc.it
          /\ pc = "main" => v.it < loc.it \/ v.cmd < loc.cmd
          /\ pc \in {"tests", "ifTriggered"} => Behind(v, pc = "ifTriggered")
    /\ \A v, w \in verdicts : SameTest(v, w) => v = w

\* The types of a verdict.
LEMMA VerdictType ==
    ASSUME TypeOK, NEW v \in verdicts
    PROVE  /\ v \in Verdict /\ v.it \in Nat /\ v.cmd \in Nat /\ v.test \in Nat
           /\ v.id \in TestId /\ v.fired \in BOOLEAN
  BY DEF TypeOK, Verdict

\* What a test that is run puts down.
LEMMA JudgeAdds ==
    ASSUME NEW f, Judge(f)
    PROVE  \E v \in verdicts' : /\ verdicts' = verdicts \cup {v}
                                /\ v.it = loc.it /\ v.cmd = loc.cmd /\ v.test = loc.test
                                /\ v.id = Current.ids[loc.test] /\ v.fired = f
  <1> DEFINE v == [it |-> loc.it, cmd |-> loc.cmd, test |-> loc.test,
                   id |-> Current.ids[loc.test], fired |-> f]
  <1>1. verdicts' = verdicts \cup {v}
    BY DEF Judge
  <1>2. /\ v.it = loc.it /\ v.cmd = loc.cmd /\ v.test = loc.test
        /\ v.id = Current.ids[loc.test] /\ v.fired = f
    OBVIOUS
  <1> HIDE DEF v
  <1> QED BY <1>1, <1>2

LEMMA OrderInvInductive == TypeInv /\ OrderInv /\ [Next]_vars => OrderInv'
  <1> SUFFICES ASSUME TypeInv, OrderInv, [Next]_vars PROVE OrderInv'
    OBVIOUS
  <1>0. TypeOK /\ InRange /\ loc \in Local
    BY DEF TypeInv, TypeOK
  <1>b. loc.it \in Nat /\ loc.cmd \in Nat \ {0} /\ loc.test \in Nat \ {0}
        /\ loc.groupTriggered \in BOOLEAN
    BY <1>0, LocalFields
  <1>c. \A v \in verdicts : v.it \in Nat /\ v.cmd \in Nat /\ v.test \in Nat
    BY <1>0, VerdictType
  <1>1. CASE RunTest
    <2>1. /\ pc = "tests" /\ loc.cmd <= Len(conf.main) /\ loc.test <= Len(Current.ids)
          /\ \A v \in verdicts : Behind(v, FALSE)
      BY <1>0, <1>1 DEF RunTest, InRange, OrderInv, Behind
    <2>2. loc'.it = loc.it /\ loc'.cmd = loc.cmd
      BY <1>0, <1>1 DEF RunTest, RecordTrigger, FailGroup, Panic, Local
    <2>3. \/ pc' = "deferred"
          \/ pc' = "tests" /\ loc'.test \in Nat /\ loc'.test > loc.test
          \/ pc' = "ifTriggered" /\ loc'.test = loc.test
      <3>1. CASE Goto("tests") /\ loc' = [loc EXCEPT !.test = @ + 1]
        BY <1>0, <1>b, <3>1 DEF Goto, Local
      <3>2. CASE RecordTrigger
        <4>1. pc' = "tests" /\ loc'.test = AfterTrigger
          BY <1>0, <3>2 DEF RecordTrigger, Goto, Local
        <4>2. Len(Current.ids) \in Nat
          BY <1>0, <2>1, CurrentType DEF Command
        <4> QED BY <1>b, <2>1, <4>1, <4>2 DEF AfterTrigger
      <3>3. CASE Goto("ifTriggered") /\ loc' = [loc EXCEPT !.step = 1]
        BY <1>0, <3>3 DEF Goto, Local
      <3>4. CASE FailGroup \/ Panic
        BY <3>4 DEF FailGroup, Panic, Finish
      <3> QED BY <1>1, <3>1, <3>2, <3>3, <3>4 DEF RunTest
    <2>4. CASE verdicts' = verdicts
      <3>1. pc' = "deferred" \/ Judge(TRUE) \/ Judge(FALSE)
        BY <1>1 DEF RunTest, FailGroup, Panic, Finish
      <3>2. ~Judge(TRUE) /\ ~Judge(FALSE)
        <4>1. ASSUME NEW f, Judge(f) PROVE FALSE
          <5>1. PICK v \in verdicts' : v.it = loc.it /\ v.cmd = loc.cmd /\ v.test = loc.test
            BY <4>1, JudgeAdds
          <5>2. Behind(v, FALSE) /\ v \in verdicts
            BY <2>1, <2>4
          <5> QED BY <1>b, <1>c, <5>1, <5>2 DEF Behind
        <4> QED BY <4>1
      <3> QED BY <2>2, <2>4, <3>1, <3>2 DEF OrderInv
    <2>5. ASSUME NEW f, Judge(f) PROVE OrderInv'
      <3>1. PICK x \in verdicts' : /\ verdicts' = verdicts \cup {x}
                                   /\ x.it = loc.it /\ x.cmd = loc.cmd /\ x.test = loc.test
        BY <2>5, JudgeAdds
      <3>2. \A v \in verdicts : ~SameTest(v, x) /\ ~SameTest(x, v)
        BY <1>b, <1>c, <2>1, <3>1 DEF Behind, SameTest
      <3>3. \A v, w \in verdicts' : SameTest(v, w) => v = w
        BY <3>1, <3>2 DEF OrderInv
      <3>4. ASSUME NEW v \in verdicts'
            PROVE  /\ v.it <= loc'.it
                   /\ pc' \in {"tests", "ifTriggered"} => Behind(v, pc = "ifTriggered")'
        <4>1. CASE v \in verdicts
          BY <1>b, <1>c, <2>1, <2>2, <2>3, <4>1 DEF Behind, OrderInv
        <4>2. CASE v = x
          BY <1>b, <2>2, <2>3, <3>1, <4>2 DEF Behind, SameTest
        <4> QED BY <3>1, <4>1, <4>2
      <3> QED BY <2>3, <3>3, <3>4 DEF OrderInv
    <2>6. (\E f : Judge(f)) \/ verdicts' = verdicts
      BY <1>1 DEF RunTest
    <2> QED BY <2>4, <2>5, <2>6
  <1>2. CASE ~RunTest
    <2>1. verdicts' = verdicts
      BY <1>2 DEF Next, BeginIteration, SendMain, SkipUnknownTest, SendIfTriggered,
                  EndTests, EndGroup, SendPostMortem, EndPostMortem, Delay, EndLoop, Report,
                  Notify, SkipNotify, Cleanup, Over, unchangedRun, vars
    <2>2. \A v, w \in verdicts' : SameTest(v, w) => v = w
      BY <2>1 DEF OrderInv
    <2>3. SUFFICES ASSUME NEW v \in verdicts
                   PROVE  /\ v.it <= loc'.it
                          /\ pc' = "loop" => v.it < loc'.it
                          /\ pc' = "main" => v.it < loc'.it \/ v.cmd < loc'.cmd
                          /\ pc' \in {"tests", "ifTriggered"} =>
                                Behind(v, pc = "ifTriggered")'
      BY <2>1, <2>2 DEF OrderInv
    <2>4. /\ v.it <= loc.it
          /\ pc = "loop" => v.it < loc.it
          /\ pc = "main" => v.it < loc.it \/ v.cmd < loc.cmd
          /\ pc \in {"tests", "ifTriggered"} => Behind(v, pc = "ifTriggered")
          /\ v.it \in Nat /\ v.cmd \in Nat /\ v.test \in Nat
      BY <1>c DEF OrderInv
    <2>5. CASE BeginIteration
      <3>1. pc = "loop" /\ pc' = "main" /\ loc'.it = loc.it
        BY <1>0, <2>5 DEF BeginIteration, Goto, Local
      <3> QED BY <2>4, <3>1
    <2>6. CASE SendMain
      <3>1. /\ pc = "main" /\ loc'.it = loc.it
            /\ \/ pc' = "main" /\ loc'.cmd = loc.cmd + 1
               \/ pc' = "tests" /\ loc'.cmd = loc.cmd
               \/ pc' = "deferred"
        BY <1>0, <2>6 DEF SendMain, Goto, FailGroup, Panic, Finish, Local
      <3> QED BY <1>b, <2>4, <3>1 DEF Behind
    <2>7. CASE SkipUnknownTest
      <3>1. /\ pc = "tests" /\ pc' = "tests" /\ loc'.it = loc.it /\ loc'.cmd = loc.cmd
            /\ loc'.test = loc.test + 1
        BY <1>0, <2>7 DEF SkipUnknownTest, Goto, Local
      <3> QED BY <1>b, <2>4, <3>1 DEF Behind
    <2>8. CASE SendIfTriggered
      <3>1. pc = "ifTriggered" /\ loc.cmd <= Len(conf.main) /\ loc.test <= Len(Current.ids)
            /\ loc'.it = loc.it /\ loc'.cmd = loc.cmd
        BY <1>0, <2>8 DEF SendIfTriggered, InRange, RecordTrigger, FailGroup, Panic, Local
      <3>2. \/ pc' = "deferred"
            \/ pc' = "ifTriggered" /\ loc'.test = loc.test
            \/ pc' = "tests" /\ loc'.test = AfterTrigger
        BY <1>0, <2>8 DEF SendIfTriggered, RecordTrigger, Goto, FailGroup, Panic, Finish, Local
      <3>3. AfterTrigger \in Nat /\ AfterTrigger > loc.test
        <4>1. Len(Current.ids) \in Nat
          BY <1>0, <3>1, CurrentType DEF Command
        <4> QED BY <1>b, <3>1, <4>1 DEF AfterTrigger
      <3> QED BY <1>b, <2>4, <3>1, <3>2, <3>3 DEF Behind, SameTest
    <2>9. CASE EndTests
      <3>1. /\ pc = "tests" /\ loc'.it = loc.it
            /\ \/ pc' = "main" /\ loc'.cmd = loc.cmd + 1
               \/ pc' \in {"postMortem", "deferred"}
        BY <1>0, <2>9 DEF EndTests, ReturnGroup, Goto, Finish, Local
      <3> QED BY <1>b, <2>4, <3>1 DEF Behind
    <2>10. CASE EndGroup
      <3>1. pc' \in {"postMortem", "delay", "deferred"} /\ loc'.it = loc.it
        BY <1>0, <2>10 DEF EndGroup, ReturnGroup, Goto, Finish, Local
      <3> QED BY <2>4, <3>1
    <2>11. CASE SendPostMortem \/ EndPostMortem \/ EndLoop \/ Report
      <3>1. /\ pc' \in {"postMortem", "delay", "report", "deferred"}
            /\ loc'.it = loc.it
        BY <1>0, <2>11 DEF SendPostMortem, Panic, EndPostMortem, EndLoop, Report, Goto, Finish, Local
      <3> QED BY <2>4, <3>1
    <2>12. CASE Delay
      <3>1. pc' = "loop" /\ loc'.it = loc.it + 1
        BY <1>0, <2>12 DEF Delay, Goto, Local
      <3> QED BY <1>b, <2>4, <3>1
    <2>13. CASE Notify \/ SkipNotify \/ Cleanup
      <3>1. pc' \in {"cleanup", "over"} /\ loc' = loc
        BY <2>13 DEF Notify, SkipNotify, Cleanup, unchangedRun
      <3> QED BY <2>4, <3>1
    <2>14. CASE UNCHANGED vars
      <3>1. pc' = pc /\ loc' = loc
        BY <2>14 DEF vars
      <3> QED BY <2>4, <3>1 DEF Behind
    <2> QED BY <1>2, <2>5, <2>6, <2>7, <2>8, <2>9, <2>10, <2>11, <2>12, <2>13, <2>14
            DEF Next, Over
  <1> QED BY <1>1, <1>2

LEMMA OrderInvariant == Spec => []OrderInv
  <1>1. Init => OrderInv
    BY DEF Init, OrderInv
  <1> QED BY <1>1, TypeInvariant, OrderInvInductive, PTL DEF Spec

\* Every command of a test was sent for a verdict that fired, and while those of
\* the test at hand are sent step tells how many are.
TriggerInv ==
    /\ \A n \in DOMAIN sent : sent[n].kind = "ifTriggered" =>
          \E v \in verdicts : v.fired /\ SameTest(sent[n], v)
    /\ pc = "ifTriggered" =>
          /\ loc.step <= IfTriggeredCount
          /\ \E v \in verdicts : /\ SameTest(v, loc) /\ v.fired
                                 /\ v.id = Current.ids[loc.test]
                                 /\ InTurn(IfTriggeredSent(v), loc.step - 1)
    /\ TriggeredCommandsSent

\* The next command of a test is put down at its place.
LEMMA IfTriggeredGoesOn ==
    ASSUME TypeInv, Send("ifTriggered", loc.cmd, loc.test, loc.step),
           NEW k \in Nat, NEW v, SameTest(v, loc),
           InTurn(IfTriggeredSent(v), k), k + 1 = loc.step
    PROVE  InTurn(IfTriggeredSent(v)', k + 1)
  <1> DEFINE z == Len(sent) + 1
  <1> DEFINE own == {m \in DOMAIN sent : /\ sent[m].kind = "ifTriggered" /\ sent[m].it = v.it
                                         /\ sent[m].cmd = v.cmd /\ sent[m].test = v.test}
  <1>1. TypeOK /\ loc.step \in Nat /\ loc.cmd \in Nat /\ loc.test \in Nat
    BY DEF TypeInv, TypeOK, Local
  <1>2. /\ Len(sent) \in Nat /\ DOMAIN sent = 1..Len(sent)
        /\ DOMAIN sent' = DOMAIN sent \cup {z}
        /\ \A n \in DOMAIN sent : sent'[n] = sent[n]
        /\ sent'[z].kind = "ifTriggered" /\ sent'[z].it = loc.it /\ sent'[z].cmd = loc.cmd
        /\ sent'[z].test = loc.test /\ sent'[z].step = loc.step
    BY <1>1, SendAppends
  <1>3. {m \in DOMAIN sent' : /\ sent'[m].kind = "ifTriggered" /\ sent'[m].it = v.it
                              /\ sent'[m].cmd = v.cmd /\ sent'[m].test = v.test} = own \cup {z}
    <2>1. z \in DOMAIN sent'
      BY <1>2
    <2> QED BY <1>2, <2>1 DEF SameTest
  <1>4. own \subseteq 1..Len(sent) /\ \A n \in own : sent'[n] = sent[n]
    BY <1>2
  <1> HIDE DEF z, own
  <1>5. ASSUME NEW f, NEW g, f = IfTriggeredSent(v), g = IfTriggeredSent(v)'
        PROVE  InTurn(g, k + 1)
    <2>1. f = [n \in own |-> sent[n].step]
      BY <1>5 DEF IfTriggeredSent, own
    <2>2. g = [n \in own \cup {z} |-> sent'[n].step]
      BY <1>3, <1>5 DEF IfTriggeredSent
    <2>3. DOMAIN f = own /\ DOMAIN g = DOMAIN f \cup {z}
      BY <2>1, <2>2
    <2>4. \A n \in DOMAIN f : g[n] = f[n]
      BY <1>4, <2>1, <2>2
    <2>5. g[z] = k + 1
      BY <1>2, <2>2
    <2>6. DOMAIN f \subseteq 1..Len(sent) /\ InTurn(f, k)
      BY <1>4, <1>5, <2>3
    <2>7. DOMAIN g = DOMAIN f \cup {Len(sent) + 1} /\ g[Len(sent) + 1] = k + 1
      BY <2>3, <2>5 DEF z
    <2> QED BY <1>2, <2>4, <2>6, <2>7, InTurnGoesOn
  <1> QED BY <1>5

\* It is put down for no other test.
LEMMA IfTriggeredElsewhere ==
    ASSUME TypeInv, Send("ifTriggered", loc.cmd, loc.test, loc.step),
           NEW v, ~SameTest(v, loc)
    PROVE  IfTriggeredSent(v)' = IfTriggeredSent(v)
  <1> DEFINE z == Len(sent) + 1
  <1> DEFINE own == {m \in DOMAIN sent : /\ sent[m].kind = "ifTriggered" /\ sent[m].it = v.it
                                         /\ sent[m].cmd = v.cmd /\ sent[m].test = v.test}
  <1>1. TypeOK /\ loc.step \in Nat /\ loc.cmd \in Nat /\ loc.test \in Nat
    BY DEF TypeInv, TypeOK, Local
  <1>2. /\ DOMAIN sent' = DOMAIN sent \cup {z}
        /\ \A n \in DOMAIN sent : sent'[n] = sent[n]
        /\ sent'[z].it = loc.it /\ sent'[z].cmd = loc.cmd /\ sent'[z].test = loc.test
    BY <1>1, SendAppends
  <1>3. {m \in DOMAIN sent' : /\ sent'[m].kind = "ifTriggered" /\ sent'[m].it = v.it
                              /\ sent'[m].cmd = v.cmd /\ sent'[m].test = v.test} = own
    BY <1>2 DEF SameTest
  <1>4. \A n \in own : sent'[n] = sent[n]
    BY <1>2
  <1> QED BY <1>3, <1>4 DEF IfTriggeredSent

\* A firing whose commands may still be short.
Handling(v) == (pc = "ifTriggered" \/ outcome \in {"error", "panic"}) /\ SameTest(v, loc)

\* What TriggeredCommandsSent says of one verdict.
WellServed(v) ==
    /\ \E k \in 0..conf.ifTriggered[v.id] : InTurn(IfTriggeredSent(v), k)
    /\ ~v.fired => InTurn(IfTriggeredSent(v), 0)
    /\ v.fired /\ ~Handling(v) => InTurn(IfTriggeredSent(v), conf.ifTriggered[v.id])

LEMMA WellServedAll == TriggeredCommandsSent <=> \A v \in verdicts : WellServed(v)
  BY DEF TriggeredCommandsSent, WellServed, Handling, SameTest

LEMMA TriggerInvInductive ==
    TypeInv /\ EndedInv /\ OrderInv /\ TriggerInv /\ [Next]_vars => TriggerInv'
  <1> SUFFICES ASSUME TypeInv, EndedInv, OrderInv, TriggerInv, [Next]_vars
               PROVE  TriggerInv'
    OBVIOUS
  <1>0. TypeOK /\ InRange /\ loc \in Local
    BY DEF TypeInv, TypeOK
  <1>a. conf' = conf /\ conf.ifTriggered \in [TestId -> Nat]
    BY ConfConstant, ConfigsAssumption DEF TypeInv, TypeOK, Config
  <1>b. loc.it \in Nat /\ loc.cmd \in Nat \ {0} /\ loc.test \in Nat \ {0} /\ loc.step \in Nat \ {0}
    BY <1>0, LocalFields
  <1>c. \A v \in verdicts : /\ v.it \in Nat /\ v.cmd \in Nat /\ v.test \in Nat
                            /\ v \in Verdict /\ v.id \in TestId
    BY <1>0, VerdictType
  <1>d. \A v \in verdicts : WellServed(v)
    BY WellServedAll DEF TriggerInv
  <1>e. /\ verdicts \subseteq verdicts'
        /\ \A n \in DOMAIN sent : n \in DOMAIN sent' /\ sent'[n] = sent[n]
    BY HistoriesGrow
  <1>1. CASE SendIfTriggered
    <2>1. /\ pc = "ifTriggered" /\ Send("ifTriggered", loc.cmd, loc.test, loc.step)
          /\ verdicts' = verdicts /\ outcome = "running" /\ loc.step <= IfTriggeredCount
      BY <1>1 DEF SendIfTriggered, EndedInv, TriggerInv
    <2>2. PICK x \in verdicts : /\ SameTest(x, loc) /\ x.fired
                                /\ x.id = Current.ids[loc.test]
                                /\ InTurn(IfTriggeredSent(x), loc.step - 1)
      BY <2>1 DEF TriggerInv
    <2>3. IfTriggeredCount = conf.ifTriggered[x.id] /\ conf.ifTriggered[x.id] \in Nat
      BY <1>a, <1>c, <2>2 DEF IfTriggeredCount
    <2>4. InTurn(IfTriggeredSent(x)', loc.step)
      <3>1. ASSUME NEW k \in Nat, k = loc.step - 1 PROVE InTurn(IfTriggeredSent(x)', k + 1)
        <4>1. k + 1 = loc.step /\ InTurn(IfTriggeredSent(x), k)
          BY <1>b, <2>2, <3>1
        <4> QED BY <2>1, <2>2, <4>1, IfTriggeredGoesOn
      <3>2. loc.step - 1 \in Nat /\ (loc.step - 1) + 1 = loc.step
        BY <1>b
      <3> QED BY <3>1, <3>2
    <2>5. \A v \in verdicts : v # x => IfTriggeredSent(v)' = IfTriggeredSent(v) /\ ~SameTest(v, loc)
      <3>1. \A v \in verdicts : v # x => ~SameTest(v, loc)
        BY <2>2 DEF OrderInv, SameTest
      <3> QED BY <2>1, <3>1, IfTriggeredElsewhere
    <2>6. loc'.it = loc.it /\ loc'.cmd = loc.cmd
      BY <1>0, <1>1 DEF SendIfTriggered, RecordTrigger, FailGroup, Panic, Local
    <2>7. \/ /\ pc' = "ifTriggered" /\ loc'.test = loc.test /\ loc'.step = loc.step + 1
             /\ loc.step < IfTriggeredCount
          \/ pc' = "tests" /\ loc.step = IfTriggeredCount
          \/ pc' = "deferred" /\ outcome' \in {"error", "panic"} /\ loc'.test = loc.test
      BY <1>0, <1>1 DEF SendIfTriggered, RecordTrigger, Goto, FailGroup, Panic, Finish, Local
    <2>8. \A n \in DOMAIN sent' : sent'[n].kind = "ifTriggered" =>
             \E v \in verdicts' : v.fired /\ SameTest(sent'[n], v)
      <3> DEFINE z == Len(sent) + 1
      <3>1. /\ DOMAIN sent' = DOMAIN sent \cup {z}
            /\ sent'[z].it = loc.it /\ sent'[z].cmd = loc.cmd /\ sent'[z].test = loc.test
        <4>1. loc.cmd \in Nat /\ loc.test \in Nat /\ loc.step \in Nat
          BY <1>b
        <4> QED BY <1>0, <2>1, <4>1, SendAppends
      <3> HIDE DEF z
      <3>2. x.fired /\ SameTest(sent'[z], x)
        BY <2>2, <3>1 DEF SameTest
      <3>3. \A n \in DOMAIN sent : sent'[n].kind = "ifTriggered" =>
               \E v \in verdicts' : v.fired /\ SameTest(sent'[n], v)
        BY <1>e, <2>1 DEF TriggerInv
      <3> QED BY <2>1, <3>1, <3>2, <3>3
    <2>9. pc' = "ifTriggered" =>
             /\ loc'.step <= IfTriggeredCount'
             /\ \E v \in verdicts' : /\ SameTest(v, loc') /\ v.fired
                                     /\ v.id = Current'.ids[loc'.test]
                                     /\ InTurn(IfTriggeredSent(v)', loc'.step - 1)
      <3> SUFFICES ASSUME pc' = "ifTriggered"
                   PROVE  /\ loc'.step <= IfTriggeredCount'
                          /\ /\ SameTest(x, loc') /\ x.fired
                             /\ x.id = Current'.ids[loc'.test]
                             /\ InTurn(IfTriggeredSent(x)', loc'.step - 1)
        BY <2>1
      <3>1. loc'.test = loc.test /\ loc'.step = loc.step + 1 /\ loc.step < IfTriggeredCount
        BY <2>7
      <3>2. Current' = Current
        BY <1>a, <2>6 DEF Current
      <3>3. IfTriggeredCount' = IfTriggeredCount
        BY <1>a, <3>1, <3>2 DEF IfTriggeredCount
      <3>4. loc'.step - 1 = loc.step /\ loc'.step <= IfTriggeredCount
        BY <1>b, <2>3, <3>1
      <3> QED BY <2>2, <2>4, <2>6, <3>1, <3>2, <3>3, <3>4 DEF SameTest
    <2>10. \A v \in verdicts' : WellServed(v)'
      <3>1. ASSUME NEW v \in verdicts, v # x PROVE WellServed(v)'
        <4>1. IfTriggeredSent(v)' = IfTriggeredSent(v) /\ ~SameTest(v, loc)
          BY <2>5, <3>1
        <4>2. ~Handling(v)
          BY <4>1 DEF Handling
        <4> QED BY <1>a, <1>d, <4>1, <4>2 DEF WellServed
      <3>2. WellServed(x)'
        <4>1. loc.step \in 0..conf.ifTriggered[x.id]
          BY <1>b, <2>1, <2>3
        <4>2. pc' # "tests" => Handling(x)'
          BY <2>2, <2>6, <2>7 DEF Handling, SameTest
        <4>3. ~Handling(x)' => loc.step = conf.ifTriggered[x.id]
          BY <2>3, <2>7, <4>2
        <4> QED BY <1>a, <2>2, <2>4, <4>1, <4>3 DEF WellServed
      <3> QED BY <2>1, <3>1, <3>2
    <2>11. TriggeredCommandsSent'
      BY <2>10 DEF TriggeredCommandsSent, WellServed, Handling, SameTest
    <2> QED BY <2>8, <2>9, <2>11 DEF TriggerInv
  <1>2. CASE ~SendIfTriggered
    <2>1. \A v \in Verdict : IfTriggeredSent(v)' = IfTriggeredSent(v)
      BY <1>2, SentElsewhere
    <2>2. \A n \in DOMAIN sent' : sent'[n].kind = "ifTriggered" =>
             \E v \in verdicts' : v.fired /\ SameTest(sent'[n], v)
      <3>1. ASSUME NEW n \in DOMAIN sent', sent'[n].kind = "ifTriggered"
            PROVE  n \in DOMAIN sent /\ sent'[n] = sent[n]
        <4>1. loc.cmd \in Nat /\ loc.test \in Nat /\ loc.step \in Nat /\ 0 \in Nat
          BY <1>b
        <4>2. CASE sent' = sent
          BY <3>1, <4>2
        <4>3. CASE Send("main", loc.cmd, 0, 0)
          BY <1>0, <3>1, <4>1, <4>3, SendAppends
        <4>4. CASE Send("postMortem", 0, 0, loc.step)
          BY <1>0, <3>1, <4>1, <4>4, SendAppends
        <4> QED BY <1>2, <4>2, <4>3, <4>4, WhoSends
      <3> QED BY <1>e, <3>1 DEF TriggerInv
    <2>3. CASE RunTest
      <3>1. /\ pc = "tests" /\ outcome = "running" /\ loc.cmd <= Len(conf.main)
            /\ loc.test <= Len(Current.ids)
        BY <1>0, <2>3 DEF RunTest, EndedInv, InRange
      <3>2. \A v \in verdicts : ~SameTest(v, loc) /\ ~Handling(v)
        BY <1>b, <1>c, <3>1 DEF OrderInv, Behind, SameTest, Handling
      <3>3. loc'.it = loc.it /\ loc'.cmd = loc.cmd
        BY <1>0, <2>3 DEF RunTest, RecordTrigger, FailGroup, Panic, Local
      <3>4. \A v \in verdicts : WellServed(v)'
        <4>1. ASSUME NEW v \in verdicts PROVE WellServed(v)'
          <5>1. IfTriggeredSent(v)' = IfTriggeredSent(v)
            BY <1>c, <2>1
          <5> QED BY <1>a, <1>d, <3>2, <5>1 DEF WellServed
        <4> QED BY <4>1
      <3>5. CASE (FailGroup \/ Panic) /\ UNCHANGED verdicts
        <4>1. pc' # "ifTriggered"
          BY <3>5 DEF FailGroup, Panic, Finish
        <4>2. TriggeredCommandsSent'
          BY <3>4, <3>5 DEF TriggeredCommandsSent, WellServed, Handling, SameTest
        <4> QED BY <2>2, <4>1, <4>2 DEF TriggerInv
      <3>6. ASSUME NEW f \in BOOLEAN, Judge(f),
                   \/ ~f /\ pc' # "ifTriggered"
                   \/ f /\ pc' # "ifTriggered" /\ IfTriggeredCount = 0
                   \/ /\ f /\ pc' = "ifTriggered" /\ IfTriggeredCount # 0
                      /\ loc'.step = 1 /\ loc'.test = loc.test
            PROVE  TriggerInv'
        <4>1. PICK x \in verdicts' : /\ verdicts' = verdicts \cup {x}
                                     /\ x.it = loc.it /\ x.cmd = loc.cmd /\ x.test = loc.test
                                     /\ x.id = Current.ids[loc.test] /\ x.fired = f
          BY <3>6, JudgeAdds
        <4>2. x \in Verdict /\ SameTest(x, loc)
          <5>1. TypeOK'
            BY NextType DEF TypeInv
          <5>2. x \in Verdict
            BY <5>1 DEF TypeOK
          <5> QED BY <4>1, <5>2 DEF SameTest
        <4>3. x.id \in TestId /\ IfTriggeredCount = conf.ifTriggered[x.id]
              /\ conf.ifTriggered[x.id] \in Nat
          BY <1>a, <4>1, <4>2 DEF Verdict, IfTriggeredCount
        <4>4. InTurn(IfTriggeredSent(x)', 0)
          <5>1. DOMAIN IfTriggeredSent(x) = {}
            <6>1. ASSUME NEW n \in DOMAIN sent, sent[n].kind = "ifTriggered", SameTest(sent[n], x)
                  PROVE  FALSE
              <7>1. PICK v \in verdicts : SameTest(sent[n], v)
                BY <6>1 DEF TriggerInv
              <7>2. SameTest(v, loc)
                BY <4>2, <6>1, <7>1 DEF SameTest
              <7> QED BY <3>2, <7>2
            <6> QED BY <6>1 DEF IfTriggeredSent, SameTest
          <5>2. InTurn(IfTriggeredSent(x), 0)
            BY <5>1, InTurnEmpty
          <5> QED BY <2>1, <4>2, <5>2
        <4>5. WellServed(x)'
          <5>1. 0 \in 0..conf.ifTriggered[x.id]
            BY <4>3
          <5>2. pc' = "ifTriggered" => Handling(x)'
            BY <3>3, <3>6, <4>2 DEF Handling, SameTest
          <5>3. x.fired /\ ~Handling(x)' => conf.ifTriggered[x.id] = 0
            BY <3>6, <4>1, <4>3, <5>2
          <5> QED BY <1>a, <4>4, <5>1, <5>3 DEF WellServed
        <4>6. \A v \in verdicts' : WellServed(v)'
          BY <3>4, <4>1, <4>5
        <4>7. TriggeredCommandsSent'
          BY <4>6 DEF TriggeredCommandsSent, WellServed, Handling, SameTest
        <4>8. ASSUME pc' = "ifTriggered"
              PROVE  /\ loc'.step <= IfTriggeredCount'
                     /\ SameTest(x, loc') /\ x.fired /\ x.id = Current'.ids[loc'.test]
                     /\ InTurn(IfTriggeredSent(x)', loc'.step - 1)
          <5>1. loc'.step = 1 /\ loc'.test = loc.test /\ IfTriggeredCount # 0 /\ f
            BY <3>6, <4>8
          <5>2. Current' = Current
            BY <1>a, <3>3 DEF Current
          <5>3. IfTriggeredCount' = IfTriggeredCount
            BY <1>a, <5>1, <5>2 DEF IfTriggeredCount
          <5>4. 1 - 1 = 0 /\ 1 <= IfTriggeredCount
            BY <4>3, <5>1
          <5> QED BY <3>3, <4>1, <4>2, <4>4, <5>1, <5>2, <5>3, <5>4 DEF SameTest
        <4> QED BY <2>2, <4>1, <4>7, <4>8 DEF TriggerInv
      <3>7. CASE Judge(FALSE) /\ Goto("tests")
        BY <3>6, <3>7 DEF Goto
      <3>8. CASE Judge(TRUE) /\ IfTriggeredCount = 0 /\ RecordTrigger
        BY <3>6, <3>8 DEF RecordTrigger, Goto
      <3>9. CASE /\ Judge(TRUE) /\ IfTriggeredCount # 0
                 /\ Goto("ifTriggered") /\ loc' = [loc EXCEPT !.step = 1]
        <4>1. loc'.step = 1 /\ loc'.test = loc.test /\ pc' = "ifTriggered"
          BY <1>0, <3>9 DEF Goto, Local
        <4> QED BY <3>6, <3>9, <4>1
      <3> QED BY <2>3, <3>5, <3>7, <3>8, <3>9 DEF RunTest
    <2>4. CASE ~RunTest
      <3>1. verdicts' = verdicts
        BY <2>4 DEF Next, BeginIteration, SendMain, SkipUnknownTest, SendIfTriggered,
                    EndTests, EndGroup, SendPostMortem, EndPostMortem, Delay, EndLoop, Report,
                    Notify, SkipNotify, Cleanup, Over, unchangedRun, vars
      <3>2. /\ pc' = "ifTriggered" => UNCHANGED vars
            /\ pc = "ifTriggered" => UNCHANGED vars
        BY <1>2, <2>4 DEF Next, BeginIteration, SendMain, SkipUnknownTest,
                    EndTests, EndGroup, SendPostMortem, EndPostMortem, Delay, EndLoop, Report,
                    Notify, SkipNotify, Cleanup, Over, Goto, FailGroup, Panic, Finish, ReturnGroup
      <3>3. outcome \in {"error", "panic"} => loc' = loc /\ outcome' = outcome
        <4>1. outcome \in {"error", "panic"} => pc \in {"deferred", "cleanup", "over"}
          BY DEF EndedInv
        <4> QED
          BY <2>4, <4>1 DEF Next, BeginIteration, SendMain, SkipUnknownTest, SendIfTriggered,
                    EndTests, EndGroup, SendPostMortem, EndPostMortem, Delay, EndLoop, Report,
                    Notify, SkipNotify, Cleanup, Over, unchangedRun, vars
      <3>4. \A v \in verdicts : Handling(v) => Handling(v)'
        <4>1. UNCHANGED vars => pc' = pc /\ loc' = loc /\ outcome' = outcome
          BY DEF vars
        <4> QED BY <3>2, <3>3, <4>1 DEF Handling, SameTest
      <3>5. \A v \in verdicts' : WellServed(v)'
        <4>1. ASSUME NEW v \in verdicts PROVE WellServed(v)'
          <5>1. IfTriggeredSent(v)' = IfTriggeredSent(v)
            BY <1>c, <2>1
          <5> QED BY <1>a, <1>d, <3>4, <5>1 DEF WellServed
        <4> QED BY <3>1, <4>1
      <3>6. TriggeredCommandsSent'
        BY <3>5 DEF TriggeredCommandsSent, WellServed, Handling, SameTest
      <3>7. pc' = "ifTriggered" =>
               /\ loc'.step <= IfTriggeredCount'
               /\ \E v \in verdicts' : /\ SameTest(v, loc') /\ v.fired
                                       /\ v.id = Current'.ids[loc'.test]
                                       /\ InTurn(IfTriggeredSent(v)', loc'.step - 1)
        <4> SUFFICES ASSUME pc' = "ifTriggered"
                     PROVE  /\ loc'.step <= IfTriggeredCount'
                            /\ \E v \in verdicts' : /\ SameTest(v, loc') /\ v.fired
                                                    /\ v.id = Current'.ids[loc'.test]
                                                    /\ InTurn(IfTriggeredSent(v)', loc'.step - 1)
          OBVIOUS
        <4>1. UNCHANGED vars
          BY <3>2
        <4>2. pc = "ifTriggered" /\ loc' = loc /\ conf' = conf
          BY <4>1 DEF vars
        <4>3. Current' = Current /\ IfTriggeredCount' = IfTriggeredCount
          BY <4>2 DEF Current, IfTriggeredCount
        <4>4. PICK v \in verdicts : /\ SameTest(v, loc) /\ v.fired
                                    /\ v.id = Current.ids[loc.test]
                                    /\ InTurn(IfTriggeredSent(v), loc.step - 1)
          BY <4>2 DEF TriggerInv
        <4>5. InTurn(IfTriggeredSent(v)', loc.step - 1)
          BY <1>c, <2>1, <4>4
        <4>6. loc.step <= IfTriggeredCount
          BY <4>2 DEF TriggerInv
        <4> QED BY <3>1, <4>2, <4>3, <4>4, <4>5, <4>6
      <3> QED BY <2>2, <3>6, <3>7 DEF TriggerInv
    <2> QED BY <2>3, <2>4
  <1> QED BY <1>1, <1>2

LEMMA TriggerInvariant == Spec => []TriggerInv
  <1>1. Init => TriggerInv
    BY DEF Init, TriggerInv, TriggeredCommandsSent
  <1> QED
    BY <1>1, TypeInvariant, EndedInvariant, OrderInvariant, TriggerInvInductive, PTL DEF Spec

\* The commands of a test go out for each firing of it, each once and in order,
\* and for nothing else (pipeline.go:164-170).
THEOREM RunSendsTriggeredCommands == Spec => []TriggeredCommandsSent
  <1>1. TriggerInv => TriggeredCommandsSent
    BY DEF TriggerInv
  <1> QED BY <1>1, TriggerInvariant, PTL

-----------------------------------------------------------------------------
(* The promise.                                                            *)

\* A run that stops at hits goes on only without one, but for the iteration at
\* hand; and it gets to its closing message with its plan fulfilled.
StopInv ==
    /\ StopRun /\ pc \in {"loop", "delay"} => Hits = {}
    /\ StopRun /\ pc \in {"main", "tests", "ifTriggered", "postMortem"} => Hits \subseteq {loc.it}
    /\ pc = "report" => \/ Completed = Iterations
                        \/ StopRun /\ \E i \in Hits : i < Completed

LEMMA StopInvInductive ==
    TypeInv /\ FlagsInv /\ EndedInv /\ PlanInv /\ StopInv /\ [Next]_vars => StopInv'
  <1> SUFFICES ASSUME TypeInv, FlagsInv, EndedInv, PlanInv, StopInv, [Next]_vars
               PROVE  StopInv'
    OBVIOUS
  <1>0. TypeOK /\ loc \in Local
    BY DEF TypeInv, TypeOK
  <1>a. Iterations' = Iterations /\ StopRun' = StopRun /\ Iterations \in Nat
    BY ConfConstant, IterationsType DEF StopRun
  <1>b. loc.it \in Nat /\ loc.groupTriggered \in BOOLEAN
    BY <1>0, LocalFields
  <1>c. Hits \subseteq Hits' /\ Hits' \subseteq Hits \cup {loc.it} /\ (Hits' # Hits => RunTest)
    BY HitsMove
  <1>1. CASE RunTest
    <2>1. /\ pc = "tests" /\ loc'.it = loc.it /\ pc' \in {"tests", "ifTriggered", "deferred"}
      BY <1>0, <1>1 DEF RunTest, RecordTrigger, Goto, FailGroup, Panic, Finish, Local
    <2> QED BY <1>a, <1>c, <2>1 DEF StopInv
  <1>2. CASE ~RunTest
    <2>1. Hits' = Hits
      BY <1>2, <1>c
    <2>2. CASE BeginIteration \/ SendMain \/ SkipUnknownTest \/ SendIfTriggered
      <3>1. /\ pc \in {"loop", "main", "tests", "ifTriggered"}
            /\ pc' \in {"main", "tests", "ifTriggered", "deferred"} /\ loc'.it = loc.it
        BY <1>0, <2>2 DEF BeginIteration, SendMain, SkipUnknownTest, SendIfTriggered,
                          RecordTrigger, Goto, FailGroup, Panic, Finish, Local
      <3> QED BY <1>a, <2>1, <3>1 DEF StopInv
    <2>3. CASE EndTests
      <3>1. pc = "tests" /\ pc' \in {"main", "postMortem", "deferred"} /\ loc'.it = loc.it
        BY <1>0, <2>3 DEF EndTests, ReturnGroup, Goto, Finish, Local
      <3> QED BY <1>a, <2>1, <3>1 DEF StopInv
    <2>4. CASE EndGroup
      <3>1. /\ pc = "main" /\ loc'.it = loc.it
            /\ \/ pc' = "delay" /\ ~loc.groupTriggered
               \/ pc' \in {"postMortem", "deferred"}
        BY <1>0, <2>4 DEF EndGroup, ReturnGroup, Goto, Finish, Local
      <3>2. pc' = "delay" => loc.it \notin Hits
        BY <3>1 DEF FlagsInv
      <3> QED BY <1>a, <2>1, <3>1, <3>2 DEF StopInv
    <2>5. CASE SendPostMortem
      <3>1. pc = "postMortem" /\ pc' \in {"postMortem", "deferred"} /\ loc'.it = loc.it
        BY <1>0, <2>5 DEF SendPostMortem, Panic, Goto, Finish, Local
      <3> QED BY <1>a, <2>1, <3>1 DEF StopInv
    <2>6. CASE EndPostMortem
      <3>1. /\ pc = "postMortem" /\ loc' = loc /\ loc.it \in Hits
            /\ pc' = IF StopRun THEN "report" ELSE "delay"
        BY <2>6 DEF EndPostMortem, Goto, FlagsInv
      <3>2. Completed' = loc.it + 1
        BY <2>6, CompletedMoves DEF IterationEnds
      <3> QED BY <1>a, <1>b, <2>1, <3>1, <3>2 DEF StopInv
    <2>7. CASE Delay
      <3>1. pc = "delay" /\ pc' = "loop"
        BY <2>7 DEF Delay, Goto
      <3> QED BY <1>a, <2>1, <3>1 DEF StopInv
    <2>8. CASE EndLoop
      <3>1. pc = "loop" /\ pc' = "report" /\ loc' = loc /\ loc.it = Iterations
        <4>1. pc = "loop" /\ pc' = "report" /\ loc' = loc /\ loc.it >= Iterations
          BY <2>8 DEF EndLoop, Goto
        <4>2. loc.it <= Iterations
          BY <4>1 DEF PlanInv
        <4> QED BY <1>a, <1>b, <4>1, <4>2
      <3>2. Completed' = Iterations
        BY <1>a, <1>b, <3>1 DEF Completed
      <3> QED BY <1>a, <3>1, <3>2 DEF StopInv
    <2>9. CASE Report \/ Notify \/ SkipNotify \/ Cleanup
      <3>1. pc' \in {"deferred", "cleanup", "over"}
        BY <2>9 DEF Report, Notify, SkipNotify, Cleanup, Finish
      <3> QED BY <3>1 DEF StopInv
    <2>10. CASE UNCHANGED vars
      <3>1. pc' = pc /\ loc' = loc /\ outcome' = outcome
        BY <2>10 DEF vars
      <3>2. Completed' = Completed
        BY <1>a, <3>1 DEF Completed
      <3> QED BY <1>a, <2>1, <3>1, <3>2 DEF StopInv
    <2> QED BY <1>2, <2>2, <2>3, <2>4, <2>5, <2>6, <2>7, <2>8, <2>9, <2>10 DEF Next, Over
  <1> QED BY <1>1, <1>2

LEMMA StopInvariant == Spec => []StopInv
  <1>1. Init => StopInv
    BY DEF Init, StopInv, Hits
  <1> QED
    BY <1>1, TypeInvariant, FlagsInvariant, EndedInvariant, PlanInvariant, StopInvInductive, PTL
       DEF Spec

\* The hits that ReproPromise sees, and the ones whose evidence it sees.
DoneHits == {i \in Hits : i < Completed}
DoneEvidence == {i \in Hits : i < Completed /\ InTurn(PostMortemSent(i), conf.postMortem)}

\* To ReproPromise a hit and its evidence are one.
LEMMA EvidenceComplete ==
    ASSUME TypeInv, FlagsInv, EvidenceInv
    PROVE  DoneEvidence = DoneHits
  <1>1. \A i \in DoneHits : InTurn(PostMortemSent(i), conf.postMortem)
    BY DEF FlagsInv, EvidenceInv, EvidenceCollected, DoneHits
  <1> QED BY <1>1 DEF DoneEvidence, DoneHits

\* What the step does to the hits that ReproPromise sees.
LEMMA DoneHitsMove ==
    ASSUME TypeInv, FlagsInv, EndedInv, [Next]_vars
    PROVE  /\ ~IterationEnds => DoneHits' = DoneHits
           /\ IterationEnds => /\ EndPostMortem => DoneHits' = DoneHits \cup {Completed}
                               /\ ~EndPostMortem => DoneHits' = DoneHits
  <1>a. loc.it \in Nat /\ Hits \subseteq 0..loc.it
    BY LocalFields DEF TypeInv, TypeOK, FlagsInv
  <1>b. Hits \subseteq Hits' /\ Hits' \subseteq Hits \cup {loc.it} /\ (Hits' # Hits => RunTest)
    BY HitsMove
  <1>c. /\ IterationEnds => /\ Completed = loc.it /\ Completed' = loc.it + 1
                            /\ EndPostMortem \/ (EndGroup /\ ~loc.groupTriggered)
        /\ ~IterationEnds => Completed' = Completed
        /\ Completed \in Nat
    BY CompletedMoves
  <1>1. CASE ~IterationEnds
    <2>1. Completed' = Completed
      BY <1>1, <1>c
    <2>2. CASE Hits' = Hits
      BY <1>1, <2>1, <2>2 DEF DoneHits
    <2>3. CASE RunTest
      <3>1. Completed = loc.it
        BY <1>a, <2>3 DEF RunTest, EndedInv, Completed
      <3>2. \A i \in Hits' : i < Completed => i \in Hits
        BY <1>a, <1>b, <3>1
      <3>3. DoneHits' = {i \in Hits' : i < Completed}
        BY <2>1 DEF DoneHits
      <3>4. DoneHits' = DoneHits
        BY <1>b, <3>2, <3>3 DEF DoneHits
      <3> QED BY <1>1, <3>4
    <2> QED BY <1>b, <2>2, <2>3
  <1>2. CASE IterationEnds
    <2>1. Hits' = Hits /\ Completed = loc.it /\ Completed' = loc.it + 1
      <3>1. ~RunTest
        BY <1>2, <1>c DEF EndPostMortem, EndGroup, RunTest
      <3> QED BY <1>2, <1>b, <1>c, <3>1
    <2>2. DoneHits' = {i \in Hits : i < loc.it + 1} /\ DoneHits = {i \in Hits : i < loc.it}
      BY <2>1 DEF DoneHits
    <2>a. \A i \in Hits : i < loc.it + 1 <=> i < loc.it \/ i = loc.it
      <3>1. \A i \in 0..loc.it : i < loc.it + 1 <=> i < loc.it \/ i = loc.it
        BY <1>a
      <3> QED BY <1>a, <3>1
    <2>3. CASE EndPostMortem
      <3>1. loc.it \in Hits
        BY <2>3 DEF EndPostMortem, FlagsInv
      <3>2. DoneHits' = DoneHits \cup {loc.it}
        BY <2>2, <2>a, <3>1
      <3> QED BY <1>2, <2>1, <2>3, <3>2
    <2>4. CASE ~EndPostMortem
      <3>1. loc.it \notin Hits
        BY <1>2, <1>c, <2>4 DEF EndGroup, FlagsInv
      <3>2. DoneHits' = DoneHits
        BY <2>2, <2>a, <3>1
      <3> QED BY <1>2, <2>4, <3>2
    <2> QED BY <2>3, <2>4
  <1> QED BY <1>1, <1>2

\* A step of the run is a step of the promise, or none.
LEMMA StepKeepsPromise ==
    ASSUME TypeInv, TypeInv', FlagsInv, FlagsInv', EndedInv, EndedInv',
           EvidenceInv, EvidenceInv', StopInv, [Next]_vars
    PROVE  [Promise!Next]_(Promise!vars)
  <1> DEFINE Plan == [times |-> Iterations, stop |-> StopRun]
  <1> DEFINE Phase == IF pc = "over" THEN "released"
                      ELSE IF outcome = "running" THEN "running" ELSE "ended"
  <1> DEFINE Result == IF outcome = "running" THEN "none"
                       ELSE IF outcome = "ok" THEN "complete" ELSE "given up"
  <1> DEFINE Holding == open # {} /\ ~(pc = "over" /\ CutShort)
  <1> DEFINE Done == DoneHits
  <1>a. Plan' = Plan /\ conf' = conf
    BY ConfConstant DEF StopRun
  <1>b. DoneEvidence = DoneHits /\ DoneEvidence' = DoneHits'
    <2>1. DoneEvidence = DoneHits
      BY EvidenceComplete
    <2>2. DoneEvidence' = DoneHits'
      <3>1. \A i \in DoneHits' : InTurn(PostMortemSent(i)', conf'.postMortem)
        BY DEF FlagsInv, EvidenceInv, EvidenceCollected, DoneHits
      <3> QED BY <3>1 DEF DoneEvidence, DoneHits
    <2> QED BY <2>1, <2>2
  <1>c. /\ IterationEnds => /\ Completed = loc.it /\ Completed' = loc.it + 1
                            /\ loc.it < Iterations
                            /\ EndPostMortem \/ (EndGroup /\ ~loc.groupTriggered)
        /\ ~IterationEnds => Completed' = Completed
        /\ Completed \in Nat
    BY CompletedMoves
  <1>d. /\ ~IterationEnds => DoneHits' = DoneHits
        /\ IterationEnds => /\ EndPostMortem => DoneHits' = DoneHits \cup {Completed}
                            /\ ~EndPostMortem => DoneHits' = DoneHits
    BY DoneHitsMove
  \* The four things a step can be to the promise.
  <1>1. CASE IterationEnds
    <2>1. /\ pc \in {"main", "postMortem"} /\ pc' \in {"delay", "report"}
          /\ outcome = "running" /\ outcome' = outcome /\ open' = open
      BY <1>1, <1>c DEF EndPostMortem, EndGroup, ReturnGroup, Goto, Finish, EndedInv,
                        unchangedRest, IterationEnds
    <2>2. Completed # Iterations
      BY <1>1, <1>c, IterationsType
    <2>3. ~(StopRun /\ DoneHits # {})
      <3>1. StopRun => \A i \in Hits : i = Completed
        BY <1>1, <1>c, <2>1 DEF StopInv
      <3> QED BY <1>c, <3>1 DEF DoneHits
    <2>4. UNCHANGED <<Plan, Phase, Result, Holding>> /\ Phase = "running"
      BY <1>a, <2>1
    <2>5. \/ DoneHits' = DoneHits
          \/ DoneHits' = DoneHits \cup {Completed}
      BY <1>1, <1>d
    <2>6. Completed' = Completed + 1
      BY <1>1, <1>c
    <2> QED
      BY <1>b, <2>2, <2>3, <2>4, <2>5, <2>6
      DEF Promise!Next, Promise!Iterate, Promise!Satisfied, DoneHits, DoneEvidence
  <1>2. CASE /\ outcome = "running" /\ outcome' # "running"
             /\ pc # "over" /\ pc' = "deferred" /\ open' = open
             /\ outcome' = "ok" => pc = "report"
    <2>1. ~IterationEnds
      BY <1>2, <1>c DEF EndPostMortem, EndGroup, ReturnGroup, Goto, IterationEnds
    <2>2. Completed' = Completed /\ DoneHits' = DoneHits
      BY <2>1, <1>c, <1>d
    <2>3. outcome' = "ok" => Completed = Iterations \/ (StopRun /\ DoneHits # {})
      BY <1>2 DEF StopInv, DoneHits
    <2>4. /\ Phase = "running" /\ Phase' = "ended" /\ UNCHANGED <<Plan, Holding>>
          /\ Result' = IF outcome' = "ok" THEN "complete" ELSE "given up"
      BY <1>2, <1>a
    <2> QED
      BY <1>b, <2>2, <2>3, <2>4
      DEF Promise!Next, Promise!End, Promise!Satisfied, DoneHits, DoneEvidence
  <1>3. CASE /\ outcome # "running" /\ outcome' = outcome
             /\ pc # "over" /\ pc' = "over"
             /\ open' = {} \/ CutShort'
    <2>1. ~IterationEnds
      BY <1>3 DEF EndedInv, EndPostMortem, Goto, IterationEnds
    <2>2. Completed' = Completed /\ DoneHits' = DoneHits
      BY <2>1, <1>c, <1>d
    <2>3. /\ Phase = "ended" /\ Phase' = "released" /\ Holding' = FALSE
          /\ UNCHANGED <<Plan, Result>>
      BY <1>3, <1>a
    <2> QED
      BY <1>b, <2>2, <2>3
      DEF Promise!Next, Promise!Release, DoneHits, DoneEvidence
  <1>4. CASE /\ ~IterationEnds /\ outcome' = outcome /\ open' = open
             /\ pc # "over" /\ pc' # "over"
    <2>1. Completed' = Completed /\ DoneHits' = DoneHits
      BY <1>4, <1>c, <1>d
    <2>2. UNCHANGED <<Plan, Phase, Result, Holding>>
      BY <1>4, <1>a
    <2> QED
      BY <1>b, <2>1, <2>2 DEF Promise!vars, DoneHits, DoneEvidence
  <1>5. CASE UNCHANGED vars
    <2>1. /\ pc' = pc /\ outcome' = outcome /\ open' = open /\ mail' = mail /\ loc' = loc
      BY <1>5 DEF vars
    <2>2. ~IterationEnds
      BY <2>1 DEF EndPostMortem, Goto, IterationEnds
    <2>3. Completed' = Completed /\ DoneHits' = DoneHits
      BY <2>2, <1>c, <1>d
    <2>4. UNCHANGED <<Plan, Phase, Result, Holding>>
      BY <2>1, <1>a DEF CutShort
    <2> QED
      BY <1>b, <2>3, <2>4 DEF Promise!vars, DoneHits, DoneEvidence
  \* And each step is one of them.
  <1>6. CASE \/ BeginIteration \/ SendMain \/ SkipUnknownTest \/ RunTest \/ SendIfTriggered
             \/ EndTests \/ EndGroup \/ SendPostMortem \/ EndPostMortem \/ Delay \/ EndLoop
    <2>1. open' = open /\ pc \notin {"report", "deferred", "cleanup", "over"}
      BY <1>6 DEF BeginIteration, SendMain, SkipUnknownTest, RunTest, SendIfTriggered,
                  EndTests, EndGroup, SendPostMortem, EndPostMortem, Delay, EndLoop,
                  unchangedRest
    <2>2. \/ outcome' = outcome /\ pc' # "over"
          \/ outcome' \in {"error", "panic", "nil"} /\ pc' = "deferred"
      BY <1>6 DEF BeginIteration, SendMain, SkipUnknownTest, RunTest, SendIfTriggered,
                  EndTests, EndGroup, SendPostMortem, EndPostMortem, Delay, EndLoop,
                  Goto, Finish, FailGroup, Panic, RecordTrigger, ReturnGroup
    <2>3. outcome = "running"
      BY <2>1 DEF EndedInv, TypeInv, TypeOK, Pcs
    <2> QED BY <1>1, <1>2, <1>4, <2>1, <2>2, <2>3
  <1>7. CASE Report
    <2>1. pc = "report" /\ pc' = "deferred" /\ outcome' = "ok" /\ open' = open
      BY <1>7 DEF Report, Finish
    <2>2. outcome = "running"
      BY <2>1 DEF EndedInv
    <2> QED BY <1>2, <2>1, <2>2
  <1>8. CASE Notify \/ SkipNotify
    <2>1. /\ pc = "deferred" /\ outcome' = outcome /\ open' = open
          /\ pc' = "cleanup" \/ (pc' = "over" /\ CutShort')
      BY <1>8 DEF Notify, SkipNotify, unchangedRun, CutShort
    <2>2. outcome # "running"
      BY <2>1 DEF EndedInv
    <2>3. ~IterationEnds
      BY <2>1 DEF EndPostMortem, IterationEnds
    <2> QED BY <1>3, <1>4, <2>1, <2>2, <2>3
  <1>9. CASE Cleanup
    <2>1. pc = "cleanup" /\ pc' = "over" /\ outcome' = outcome /\ open' = {}
      BY <1>9 DEF Cleanup, unchangedRun, Released, TypeInv, TypeOK
    <2>2. outcome # "running"
      BY <2>1 DEF EndedInv
    <2> QED BY <1>3, <2>1, <2>2
  <1> QED BY <1>5, <1>6, <1>7, <1>8, <1>9 DEF Next, Over

LEMMA InitKeepsPromise == Init /\ TypeInv => Promise!Init
  <1> SUFFICES ASSUME Init, TypeInv PROVE Promise!Init
    OBVIOUS
  <1>1. /\ pc = "loop" /\ loc.it = 0 /\ outcome = "running" /\ open # {} /\ Hits = {}
    BY DEF Init, Hits
  <1>2. Completed = 0
    BY <1>1 DEF Completed
  <1>3. [times |-> Iterations, stop |-> StopRun] \in [times: Nat \ {0}, stop: BOOLEAN]
    <2>1. conf.repro \in BOOLEAN /\ conf.stop \in BOOLEAN
      BY ConfigsAssumption DEF TypeInv, TypeOK, Config
    <2>2. StopRun \in BOOLEAN
      BY <2>1 DEF StopRun
    <2> QED BY <2>2, IterationsType
  <1> QED BY <1>1, <1>2, <1>3 DEF Promise!Init

\* A run keeps the promise of ReproPromise, as far as it is about what may
\* happen: every step of the run is a step of the promise or none
\* (pipeline.go:16-83).
THEOREM RunImplementsPromise == Spec => Promise!Safety
  <1>1. TypeInv /\ TypeInv' /\ FlagsInv /\ FlagsInv' /\ EndedInv /\ EndedInv'
        /\ EvidenceInv /\ EvidenceInv' /\ StopInv /\ [Next]_vars
        => [Promise!Next]_(Promise!vars)
    BY StepKeepsPromise
  <1> QED
    BY <1>1, InitType, InitKeepsPromise, TypeInvariant, FlagsInvariant, EndedInvariant,
       EvidenceInvariant, StopInvariant, PTL
    DEF Spec, Promise!Safety
=============================================================================
