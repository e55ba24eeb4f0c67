------------------------- MODULE CommandRunnerProofs -------------------------
(***************************************************************************)
(* Proofs about CommandRunner, for any router, any commands and any number *)
(* of locations, runs and rounds: what ProcessCommand returns is what the  *)
(* router has answered, whole and in order; the log of the router tells    *)
(* its session; every card a command names is served as often as the       *)
(* command says, and nothing is sent of a command that cannot be sent to   *)
(* all of them.                                                            *)
(***************************************************************************)
EXTENDS CommandRunner, SequenceTheorems, FiniteSetTheorems, WellFoundedInduction, TLAPS

\* Sequences of any elements: what is said of the order of commands, results and
\* records does not need their types.
IsSeq(s) == s \in Seq({s[i] : i \in DOMAIN s})

LEMMA IsSeqByDomain ==
    ASSUME NEW s, NEW n \in Nat, s = [i \in 1..n |-> s[i]]
    PROVE  IsSeq(s) /\ Len(s) = n
  <1>1. s \in [1..n -> {s[i] : i \in DOMAIN s}]
    OBVIOUS
  <1> QED BY <1>1, IsASeq, LenProperties DEF IsSeq

LEMMA IsSeqElements ==
    ASSUME NEW s, IsSeq(s)
    PROVE  Len(s) \in Nat /\ DOMAIN s = 1..Len(s) /\ s = [i \in 1..Len(s) |-> s[i]]
  BY LenProperties DEF IsSeq

LEMMA IsSeqAppend ==
    ASSUME NEW s, NEW x, IsSeq(s)
    PROVE  /\ IsSeq(Append(s, x)) /\ Len(Append(s, x)) = Len(s) + 1
           /\ \A i \in 1..Len(s) : Append(s, x)[i] = s[i]
           /\ Append(s, x)[Len(s) + 1] = x
           /\ Append(s, x) # <<>>
  <1> DEFINE S == {s[i] : i \in DOMAIN s} \cup {x}
  <1>1. s \in Seq(S) /\ x \in S
    BY DEF IsSeq
  <1>2. /\ Append(s, x) \in Seq(S) /\ Append(s, x) # <<>>
        /\ Len(Append(s, x)) = Len(s) + 1
        /\ \A i \in 1..Len(s) : Append(s, x)[i] = s[i]
        /\ Append(s, x)[Len(s) + 1] = x
    <2> HIDE DEF S
    <2> QED BY <1>1, AppendProperties
  <1>3. Append(s, x) = [i \in 1..(Len(s) + 1) |-> Append(s, x)[i]]
    <2> HIDE DEF S
    <2> QED BY <1>2, LenProperties
  <1>4. Len(s) + 1 \in Nat
    BY IsSeqElements
  <1> QED BY <1>2, <1>3, <1>4, IsSeqByDomain

-----------------------------------------------------------------------------
(* The call at hand.                                                       *)

\* How much was sent before it.
Base == IF calls = <<>> THEN 0 ELSE calls[Len(calls)].to

\* The results so far are the answers to what this call has sent so far; on the way
\* is at most one command, the last one sent.
CallInv ==
    /\ IsSeq(sent) /\ IsSeq(results) /\ IsSeq(calls)
    /\ \A i \in DOMAIN sent : DOMAIN sent[i] = {"text", "answered"}
    /\ Base \in Nat
    /\ Len(sent) = Base + Len(results) + (IF pc = "await" THEN 1 ELSE 0)
    /\ pc = "await" => sent[Len(sent)].text = Head(todo)
    /\ pc \in {"connect", "call"} => results = <<>>
    /\ \A k \in 1..Len(results) :
          /\ results[k] = [text |-> sent[Base + k].text, nth |-> Base + k]
          /\ sent[Base + k].answered = TRUE

\* What was sent for earlier calls stays as it is.
PastInv ==
    /\ \A n \in DOMAIN calls : /\ calls[n].from \in Nat \ {0} /\ calls[n].to \in Nat
                               /\ calls[n].to <= Base
    /\ ResultsAreAnswers

AnswersInv == CallInv /\ PastInv

\* A step that adds to sent, or marks what this call has sent, disturbs no earlier call.
LEMMA PastStays ==
    ASSUME PastInv, Base \in Nat, UNCHANGED <<plan, calls>>,
           \A i \in 1..Base : sent'[i] = sent[i]
    PROVE  PastInv'
  <1>1. Base' = Base
    BY DEF Base
  <1>2. ASSUME NEW n \in DOMAIN calls, NEW i \in SentIn(calls[n]) PROVE sent'[i] = sent[i]
    <2>1. calls[n].from \in Nat \ {0} /\ calls[n].to \in Nat /\ calls[n].to <= Base
      BY DEF PastInv
    <2> QED BY <1>2, <2>1 DEF SentIn
  <1>3. ASSUME NEW n \in DOMAIN calls PROVE Answers(sent', calls[n]) = Answers(sent, calls[n])
    <2>1. calls[n].from \in Nat \ {0} /\ calls[n].to \in Nat
      BY DEF PastInv
    <2>2. \A k \in 1..(calls[n].to - calls[n].from + 1) :
             calls[n].from + k - 1 \in SentIn(calls[n])
      BY <2>1 DEF SentIn
    <2> QED BY <1>2, <2>2 DEF Answers
  <1> QED BY <1>1, <1>2, <1>3 DEF PastInv, ResultsAreAnswers, SentIn

\* The return of a call: with the answers to all it has sent, or with none.
LEMMA ReturnKeeps ==
    ASSUME AnswersInv, NEW ok \in BOOLEAN, NEW res, Return(ok, res, sent'), plan' = plan,
           IsSeq(sent'), Len(sent') >= Base,
           \A i \in DOMAIN sent' : DOMAIN sent'[i] = {"text", "answered"},
           \A i \in 1..Base : sent'[i] = sent[i],
           IsSeq(res), ~ok => res = <<>>,
           ok => /\ Len(sent') = Base + Len(res)
                 /\ \A k \in 1..Len(res) :
                       /\ res[k] = [text |-> sent'[Base + k].text, nth |-> Base + k]
                       /\ sent'[Base + k].answered = TRUE
    PROVE  AnswersInv'
  <1> DEFINE c == [command |-> cmd, ok |-> ok, results |-> IF Current.collect THEN res ELSE <<>>,
                   from |-> Base + 1, to |-> Len(sent')]
  <1>0. Base \in Nat /\ Len(sent') \in Nat /\ IsSeq(calls) /\ Len(res) \in Nat
    BY IsSeqElements DEF AnswersInv, CallInv
  <1>1. calls' = Append(calls, c) /\ results' = <<>> /\ pc' # "await"
    BY <1>0 DEF Return, Base
  <1>2. /\ IsSeq(calls') /\ Len(calls') = Len(calls) + 1 /\ calls' # <<>>
        /\ \A n \in 1..Len(calls) : calls'[n] = calls[n]
        /\ calls'[Len(calls) + 1] = c
    BY <1>0, <1>1, IsSeqAppend
  <1>3. DOMAIN calls = 1..Len(calls) /\ DOMAIN calls' = 1..(Len(calls) + 1) /\ Len(calls) \in Nat
    BY <1>0, <1>2, IsSeqElements
  <1>4. Base' = Len(sent')
    BY <1>2 DEF Base
  <1>5. CallInv'
    <2>1. IsSeq(<<>>) /\ Len(<<>>) = 0
      BY DEF IsSeq
    <2> QED BY <1>0, <1>1, <1>2, <1>4, <2>1 DEF CallInv
  <1>6. ASSUME NEW n \in 1..Len(calls)
        PROVE  /\ calls'[n].from \in Nat \ {0} /\ calls'[n].to \in Nat /\ calls'[n].to <= Base'
               /\ calls'[n].ok => \A i \in SentIn(calls'[n]) : sent'[i].answered
               /\ calls'[n].results = IF calls'[n].ok /\ plan'.commands[calls'[n].command].collect
                                      THEN Answers(sent', calls'[n]) ELSE <<>>
    <2>1. /\ calls[n].from \in Nat \ {0} /\ calls[n].to \in Nat /\ calls[n].to <= Base
          /\ calls[n].ok => \A i \in SentIn(calls[n]) : sent[i].answered
          /\ calls[n].results = IF calls[n].ok /\ plan.commands[calls[n].command].collect
                                THEN Answers(sent, calls[n]) ELSE <<>>
      BY <1>3 DEF AnswersInv, PastInv, ResultsAreAnswers
    <2>2. \A i \in SentIn(calls[n]) : sent'[i] = sent[i]
      BY <1>0, <2>1 DEF SentIn
    <2>3. Answers(sent', calls'[n]) = Answers(sent, calls[n])
      <3>1. \A k \in 1..(calls[n].to - calls[n].from + 1) :
               calls[n].from + k - 1 \in SentIn(calls[n])
        BY <2>1 DEF SentIn
      <3> QED BY <1>2, <2>2, <3>1 DEF Answers
    <2>4. calls'[n] = calls[n]
      BY <1>2
    <2>5. calls[n].to <= Base'
      BY <1>0, <1>4, <2>1
    <2>6. calls[n].ok => \A i \in SentIn(calls[n]) : sent'[i].answered
      BY <2>1, <2>2
    <2> QED BY <2>1, <2>3, <2>4, <2>5, <2>6
  <1>7. /\ c.from \in Nat \ {0} /\ c.to \in Nat /\ c.to <= Base'
        /\ c.ok => \A i \in SentIn(c) : sent'[i].answered
        /\ c.results = IF c.ok /\ plan'.commands[c.command].collect THEN Answers(sent', c) ELSE <<>>
    <2>1. CASE ~ok
      BY <1>0, <1>4, <2>1
    <2>2. CASE ok
      <3>1. ASSUME NEW i \in SentIn(c) PROVE sent'[i].answered
        <4>1. i - Base \in 1..Len(res) /\ Base + (i - Base) = i
          BY <1>0, <2>2, <3>1 DEF SentIn
        <4> QED BY <2>2, <4>1
      <3>2. res = [k \in 1..Len(res) |-> res[k]]
        BY IsSeqElements
      <3>3. c.to - c.from + 1 = Len(res) /\ \A k \in 1..Len(res) : c.from + k - 1 = Base + k
        BY <1>0, <2>2
      <3>4. Answers(sent', c) = res
        <4>1. Answers(sent', c) = [k \in 1..Len(res) |-> [text |-> sent'[c.from + k - 1].text,
                                                         nth |-> c.from + k - 1]]
          <5> HIDE DEF c
          <5> QED BY <3>3 DEF Answers
        <4>2. \A k \in 1..Len(res) : [text |-> sent'[c.from + k - 1].text, nth |-> c.from + k - 1] = res[k]
          <5>1. \A k \in 1..Len(res) : res[k] = [text |-> sent'[Base + k].text, nth |-> Base + k]
            BY <2>2
          <5> HIDE DEF c
          <5> QED BY <3>3, <5>1
        <4> HIDE DEF c
        <4> QED BY <3>2, <4>1, <4>2
      <3>5. c.results = IF plan.commands[c.command].collect THEN res ELSE <<>>
        BY DEF Current
      <3>6. c.ok /\ c.from \in Nat \ {0} /\ c.to \in Nat /\ c.to <= Base'
        BY <1>0, <1>4, <2>2
      <3> HIDE DEF c
      <3> QED BY <3>1, <3>4, <3>5, <3>6
    <2> QED BY <2>1, <2>2
  <1>8. ASSUME NEW n \in DOMAIN calls'
        PROVE  /\ calls'[n].from \in Nat \ {0} /\ calls'[n].to \in Nat /\ calls'[n].to <= Base'
               /\ calls'[n].ok => \A i \in SentIn(calls'[n]) : sent'[i].answered
               /\ calls'[n].results = IF calls'[n].ok /\ plan'.commands[calls'[n].command].collect
                                      THEN Answers(sent', calls'[n]) ELSE <<>>
    <2>1. n \in 1..Len(calls) \/ n = Len(calls) + 1
      BY <1>3
    <2> HIDE DEF c
    <2> QED BY <1>2, <1>6, <1>7, <2>1
  <1> HIDE DEF c
  <1> QED BY <1>5, <1>8 DEF AnswersInv, PastInv, ResultsAreAnswers, SentIn

-----------------------------------------------------------------------------
(* The steps.                                                              *)

LEMMA AnswersInvInductive == AnswersInv /\ [Next]_vars => AnswersInv'
  <1> SUFFICES ASSUME AnswersInv, [Next]_vars PROVE AnswersInv'
    OBVIOUS
  <1>0. /\ IsSeq(sent) /\ IsSeq(results) /\ IsSeq(calls) /\ Base \in Nat
        /\ Len(sent) \in Nat /\ Len(results) \in Nat /\ Len(sent) >= Base
        /\ DOMAIN sent = 1..Len(sent)
    BY IsSeqElements DEF AnswersInv, CallInv
  \* Steps that neither send nor return.
  <1>1. ASSUME UNCHANGED <<plan, sent, calls, results>>, pc # "await", pc' # "await",
               pc' \in {"connect", "call"} => results = <<>>
        PROVE  AnswersInv'
    <2>1. Base' = Base
      BY <1>1 DEF Base
    <2>2. CallInv'
      BY <1>1, <2>1 DEF AnswersInv, CallInv
    <2> QED BY <1>0, <1>1, <2>2, PastStays DEF AnswersInv
  \* A return without an answer.
  <1>2. ASSUME Return(FALSE, <<>>, sent), UNCHANGED <<plan, sent>>
        PROVE  AnswersInv'
    <2>1. Return(FALSE, <<>>, sent')
      BY <1>2
    <2>2. IsSeq(<<>>)
      BY DEF IsSeq
    <2>3. \A i \in DOMAIN sent' : DOMAIN sent'[i] = {"text", "answered"}
      BY <1>2 DEF AnswersInv, CallInv
    <2> QED BY <1>0, <1>2, <2>1, <2>2, <2>3, ReturnKeeps
  \* The end of a location: the next one, or the return with all the answers.
  <1>3. ASSUME pc # "await", NextLocation(results), UNCHANGED <<plan, sent>>
        PROVE  AnswersInv'
    <2>1. CASE Return(TRUE, results, sent')
      <3>1. \A i \in DOMAIN sent' : DOMAIN sent'[i] = {"text", "answered"}
        BY <1>3 DEF AnswersInv, CallInv
      <3>2. Len(sent') = Base + Len(results)
        BY <1>0, <1>3 DEF AnswersInv, CallInv
      <3>3. \A k \in 1..Len(results) :
               /\ results[k] = [text |-> sent'[Base + k].text, nth |-> Base + k]
               /\ sent'[Base + k].answered = TRUE
        BY <1>3 DEF AnswersInv, CallInv
      <3> QED BY <1>0, <1>3, <2>1, <3>1, <3>2, <3>3, ReturnKeeps
    <2>2. CASE results' = results /\ pc' = "send" /\ UNCHANGED <<cmd, round, calls>>
      BY <1>1, <1>3, <2>2
    <2> QED BY <1>3, <2>1, <2>2 DEF NextLocation
  <1>4. CASE Connect
    <2>1. pc = "connect" => results = <<>>
      BY DEF AnswersInv, CallInv
    <2> QED BY <1>1, <1>4, <2>1 DEF Connect
  <1>5. CASE Call
    <2>1. /\ UNCHANGED <<plan, sent>> /\ pc = "call"
          /\ \/ Return(FALSE, <<>>, sent)
             \/ Return(TRUE, <<>>, sent)
             \/ pc' = "send" /\ UNCHANGED <<results, calls>>
      BY <1>5 DEF Call
    <2>2. CASE Return(TRUE, <<>>, sent)
      <3>1. Return(TRUE, <<>>, sent') /\ results = <<>> /\ IsSeq(<<>>) /\ Len(<<>>) = 0
        BY <2>1, <2>2 DEF AnswersInv, CallInv, IsSeq
      <3>2. \A i \in DOMAIN sent' : DOMAIN sent'[i] = {"text", "answered"}
        BY <2>1 DEF AnswersInv, CallInv
      <3>3. Len(sent') = Base + Len(<<>>)
        BY <1>0, <2>1, <3>1 DEF AnswersInv, CallInv
      <3>4. \A k \in 1..Len(<<>>) : FALSE
        BY <3>1
      <3> QED BY <1>0, <2>1, <3>1, <3>2, <3>3, <3>4, ReturnKeeps
    <2> QED BY <1>1, <1>2, <2>1, <2>2
  <1>6. CASE CallLocal
    BY <1>1, <1>6 DEF CallLocal
  <1>7. ASSUME NEW records, Give(records) PROVE AnswersInv'
    <2>1. pc = "send" /\ plan' = plan
      BY <1>7 DEF Give
    <2>2. CASE pc' = "panicked" /\ UNCHANGED <<sent, calls, results>>
      BY <1>1, <2>1, <2>2
    <2>5. CASE Return(FALSE, <<>>, sent) /\ sent' = sent
      BY <1>2, <2>1, <2>5
    <2>3. CASE NextLocation(results) /\ sent' = sent
      BY <1>3, <2>1, <2>3
    <2>4. CASE /\ sent' = Append(sent, [text |-> Head(todo), answered |-> FALSE])
               /\ pc' = "await" /\ UNCHANGED <<todo, results, calls>>
      <3>1. /\ IsSeq(sent') /\ Len(sent') = Len(sent) + 1
            /\ \A i \in 1..Len(sent) : sent'[i] = sent[i]
            /\ sent'[Len(sent) + 1] = [text |-> Head(todo), answered |-> FALSE]
            /\ DOMAIN sent' = 1..(Len(sent) + 1)
        BY <1>0, <2>4, IsSeqAppend, IsSeqElements
      <3>2. Base' = Base
        BY <2>4 DEF Base
      <3>3. \A i \in DOMAIN sent' : DOMAIN sent'[i] = {"text", "answered"}
        BY <1>0, <3>1 DEF AnswersInv, CallInv
      <3>4. Len(sent) = Base + Len(results)
        BY <1>0, <2>1 DEF AnswersInv, CallInv
      <3>5. \A k \in 1..Len(results) :
               /\ results[k] = [text |-> sent'[Base + k].text, nth |-> Base + k]
               /\ sent'[Base + k].answered = TRUE
        BY <1>0, <3>1, <3>4 DEF AnswersInv, CallInv
      <3>6. CallInv'
        <4>1. Len(sent') = Base' + Len(results') + 1 /\ sent'[Len(sent')].text = Head(todo')
          BY <1>0, <2>4, <3>1, <3>2, <3>4
        <4> QED BY <1>0, <2>4, <3>1, <3>2, <3>3, <3>5, <4>1 DEF CallInv
      <3>7. PastInv'
        BY <1>0, <2>1, <2>4, <3>1, PastStays DEF AnswersInv
      <3> QED BY <3>6, <3>7 DEF AnswersInv
    <2> QED BY <1>7, <2>2, <2>3, <2>4, <2>5 DEF Give
  <1>8. ASSUME NEW records, Keep(records) PROVE AnswersInv'
    <2> DEFINE n == Len(sent)
               res == Append(results, [text |-> Head(todo), nth |-> n])
    <2>1. /\ pc = "await" /\ plan' = plan /\ n \in 1..n /\ n = Base + Len(results) + 1
          /\ sent[n].text = Head(todo)
          /\ \A i \in DOMAIN sent : DOMAIN sent[i] = {"text", "answered"}
      BY <1>0, <1>8 DEF Keep, AnswersInv, CallInv
    <2>2. /\ sent' = [sent EXCEPT ![n].answered = TRUE]
          /\ \/ pc' = "tick" /\ results' = res /\ UNCHANGED calls
             \/ NextLocation(res)
      BY <1>8 DEF Keep
    <2>3. /\ sent' = [i \in 1..n |-> sent'[i]]
          /\ \A i \in 1..n : i # n => sent'[i] = sent[i]
          /\ sent'[n].text = Head(todo) /\ sent'[n].answered = TRUE
          /\ DOMAIN sent'[n] = {"text", "answered"}
      <3>1. sent = [i \in 1..n |-> sent[i]]
        BY <1>0, IsSeqElements
      <3>2. sent' = [i \in 1..n |-> IF i = n THEN [sent[n] EXCEPT !.answered = TRUE] ELSE sent[i]]
        BY <2>2, <3>1
      <3>3. sent'[n] = [sent[n] EXCEPT !.answered = TRUE] /\ DOMAIN sent[n] = {"text", "answered"}
        BY <1>0, <2>1, <3>2
      <3>4. /\ sent'[n].text = Head(todo) /\ sent'[n].answered = TRUE
            /\ DOMAIN sent'[n] = {"text", "answered"}
        BY <2>1, <3>3
      <3> QED BY <2>1, <3>2, <3>4
    <2>4. IsSeq(sent') /\ Len(sent') = n /\ DOMAIN sent' = 1..n
      BY <1>0, <2>3, IsSeqByDomain, IsSeqElements
    <2>5. \A i \in DOMAIN sent' : DOMAIN sent'[i] = {"text", "answered"}
      BY <1>0, <2>1, <2>3, <2>4
    <2>6. /\ IsSeq(res) /\ Len(res) = Len(results) + 1
          /\ \A k \in 1..Len(results) : res[k] = results[k]
          /\ res[Len(results) + 1] = [text |-> Head(todo), nth |-> n]
      BY <1>0, IsSeqAppend
    <2>7. ASSUME NEW k \in 1..Len(res)
          PROVE  /\ res[k] = [text |-> sent'[Base + k].text, nth |-> Base + k]
                 /\ sent'[Base + k].answered = TRUE
      <3> HIDE DEF res
      <3>1. CASE k = Len(results) + 1
        BY <1>0, <2>1, <2>3, <2>6, <3>1
      <3>2. CASE k \in 1..Len(results)
        <4>1. sent'[Base + k] = sent[Base + k]
          BY <1>0, <2>1, <2>3, <3>2
        <4>2. /\ results[k] = [text |-> sent[Base + k].text, nth |-> Base + k]
              /\ sent[Base + k].answered = TRUE
          BY <3>2 DEF AnswersInv, CallInv
        <4> QED BY <2>6, <3>2, <4>1, <4>2
      <3>3. k = Len(results) + 1 \/ k \in 1..Len(results)
        BY <1>0, <2>6
      <3> QED BY <3>1, <3>2, <3>3
    <2>8. \A i \in 1..Base : sent'[i] = sent[i]
      BY <1>0, <2>1, <2>3
    <2>9. Len(sent') = Base + Len(res) /\ Len(sent') >= Base
      BY <1>0, <2>1, <2>4, <2>6
    <2>10. CASE Return(TRUE, res, sent')
      <3> HIDE DEF res
      <3> QED BY <2>1, <2>4, <2>5, <2>6, <2>7, <2>8, <2>9, <2>10, ReturnKeeps
    <2>11. CASE pc' \in {"tick", "send"} /\ results' = res /\ UNCHANGED calls
      <3> HIDE DEF res
      <3>1. Base' = Base
        BY <2>11 DEF Base
      <3>2. CallInv'
        <4>1. IsSeq(calls') /\ IsSeq(results') /\ Base' \in Nat /\ pc' \notin {"await", "connect", "call"}
          BY <1>0, <2>6, <2>11, <3>1
        <4>2. Len(sent') = Base' + Len(results') + 0
          BY <1>0, <2>6, <2>9, <2>11, <3>1
        <4>3. \A k \in 1..Len(results') :
                 /\ results'[k] = [text |-> sent'[Base' + k].text, nth |-> Base' + k]
                 /\ sent'[Base' + k].answered = TRUE
          BY <2>7, <2>11, <3>1
        <4> QED BY <2>4, <2>5, <4>1, <4>2, <4>3 DEF CallInv
      <3> QED BY <1>0, <2>1, <2>8, <2>11, <3>2, PastStays DEF AnswersInv
    <2> QED BY <2>2, <2>10, <2>11 DEF NextLocation
  <1>9. CASE Fail \/ Timeout
    BY <1>2, <1>9 DEF Fail, Timeout
  <1>10. CASE Tick
    BY <1>1, <1>10 DEF Tick
  <1>11. CASE UNCHANGED vars
    <2>1. CallInv'
      BY <1>11 DEF vars, AnswersInv, CallInv, Base
    <2> QED BY <1>0, <1>11, <2>1, PastStays DEF vars, AnswersInv
  <1> QED BY <1>4, <1>5, <1>6, <1>7, <1>8, <1>9, <1>10, <1>11
          DEF Next, Own, Send, Execute, Answer, Completed, Ended

LEMMA AnswersInvInitially == Init => AnswersInv
  <1>1. IsSeq(<<>>) /\ Len(<<>>) = 0 /\ DOMAIN <<>> = {}
    BY DEF IsSeq
  <1> QED BY <1>1 DEF Init, AnswersInv, CallInv, PastInv, Base, ResultsAreAnswers

\* Whatever a router answers, and whenever its timers and its connection put an end to
\* it, a call that succeeds returns the answers to all it has sent, in order, and one
\* that fails returns nothing (router.go:177-221, 336-372; local.go:50-95).
THEOREM CallsReturnTheAnswers == Spec => []ResultsAreAnswers
  <1>1. AnswersInv => ResultsAreAnswers
    BY DEF AnswersInv, PastInv
  <1> QED BY <1>1, AnswersInvInitially, AnswersInvInductive, PTL DEF Spec

-----------------------------------------------------------------------------
(* Recursive functions: that they are what their equations say.  A number   *)
(* below which an equation holds and at which it fails would be the least.  *)

LEMMA Least ==
    ASSUME NEW S, S \subseteq Nat, S # {}
    PROVE  \E x \in S : \A y \in S : x <= y
  <1> DEFINE R == OpToRel(<, Nat)
  <1>1. \A x, y \in Nat : <<x, y>> \in R <=> x < y
    BY DEF OpToRel
  <1>2. IsWellFoundedOn(R, Nat)
    BY NatLessThanWellFounded
  <1> HIDE DEF R
  <1>3. PICK x \in S : \A y \in S : <<y, x>> \notin R
    BY <1>2, WFMin
  <1>4. ASSUME NEW y \in S PROVE x <= y
    <2>1. x \in Nat /\ y \in Nat
      BY Zenon
    <2>2. ~(y < x)
      BY <1>1, <1>3, <2>1, Zenon
    <2> QED BY <2>1, <2>2, SMT
  <1> QED BY <1>4

\* What holds at 0, and at a number because it holds at the one before, holds at all:
\* what does not hold would begin somewhere.
LEMMA NoFirst ==
    ASSUME NEW n \in Nat, NEW Good \in SUBSET Nat, 0 \in Good,
           \A k \in 0..(n - 1) : k \in Good => k + 1 \in Good
    PROVE  0..n \subseteq Good
  <1> SUFFICES ASSUME ~(0..n \subseteq Good) PROVE FALSE
    OBVIOUS
  <1> DEFINE Bad == {k \in 0..n : k \notin Good}
  <1>1. Bad \subseteq Nat /\ Bad # {}
    OBVIOUS
  <1>2. PICK k \in Bad : \A j \in Bad : k <= j
    <2> HIDE DEF Bad
    <2> QED BY <1>1, Least
  <1>3. k # 0 /\ k \in 1..n
    OBVIOUS
  <1>4. k - 1 \notin Bad /\ k - 1 \in 0..(n - 1)
    BY <1>2, <1>3
  <1>5. k - 1 \in Good /\ (k - 1) + 1 = k
    BY <1>3, <1>4
  <1> QED BY <1>4, <1>5

LEMMA WithoutIs ==
    ASSUME NEW s, NEW lost, Len(s) \in Nat
    PROVE  \E kept :
              /\ kept[0] = <<>>
              /\ \A n \in 1..Len(s) :
                    kept[n] = IF n \in lost THEN kept[n - 1] ELSE Append(kept[n - 1], s[n])
              /\ Without(s, lost) = kept[Len(s)]
  <1> DEFINE N == Len(s)
             Step(f, n) == IF n = 0 THEN <<>>
                           ELSE IF n \in lost THEN f[n - 1] ELSE Append(f[n - 1], s[n])
             Good == {k \in Nat : \E f : f = [n \in 0..k |-> Step(f, n)]}
  <1>1. 0 \in Good
    <2> DEFINE f == [n \in 0..0 |-> <<>>]
    <2>1. f = [n \in 0..0 |-> Step(f, n)]
      OBVIOUS
    <2> QED BY <2>1
  <1>2. ASSUME NEW k \in Nat, k \in Good PROVE k + 1 \in Good
    <2>1. PICK f : f = [n \in 0..k |-> Step(f, n)]
      BY <1>2
    <2>2. \A n \in 0..k : f[n] = Step(f, n)
      <3> HIDE DEF Step
      <3> QED BY <2>1
    <2> DEFINE g == [n \in 0..(k + 1) |-> IF n = k + 1 THEN Step(f, k + 1) ELSE f[n]]
    <2>3. \A n \in 0..(k + 1) : g[n] = Step(f, n)
      <3> HIDE DEF Step
      <3> QED BY <2>2
    <2>4. \A n \in 0..(k + 1) : Step(g, n) = Step(f, n)
      <3>1. \A n \in 0..k : g[n] = f[n]
        BY <2>2
      <3>2. \A n \in 0..(k + 1) : n # 0 => n - 1 \in 0..k
        OBVIOUS
      <3> HIDE DEF g
      <3> QED BY <3>1, <3>2
    <2>5. g = [n \in 0..(k + 1) |-> Step(g, n)]
      <3>1. g = [n \in 0..(k + 1) |-> g[n]]
        OBVIOUS
      <3> HIDE DEF g, Step
      <3> QED BY <2>3, <2>4, <3>1
    <2> HIDE DEF g, Step
    <2> QED BY <2>5
  <1>3. N \in Good
    <2>1. Good \in SUBSET Nat /\ N \in Nat
      OBVIOUS
    <2> HIDE DEF Good, N
    <2>2. \A k \in 0..(N - 1) : k \in Good => k + 1 \in Good
      BY <1>2, <2>1
    <2>3. 0..N \subseteq Good
      BY <1>1, <2>1, <2>2, NoFirst
    <2> QED BY <2>1, <2>3
  <1> DEFINE kept == CHOOSE f : f = [n \in 0..N |-> Step(f, n)]
  <1>4. kept = [n \in 0..N |-> Step(kept, n)]
    BY <1>3
  <1>5. Without(s, lost) = kept[N]
    BY DEF Without
  <1> HIDE DEF kept
  <1>6. \A n \in 0..N : kept[n] = Step(kept, n)
    <2> HIDE DEF Step
    <2> QED BY <1>4
  <1> QED BY <1>5, <1>6

LEMMA TranscriptIs ==
    ASSUME NEW s, NEW kind, Len(s) \in Nat
    PROVE  \E told :
              /\ told[0] = <<>>
              /\ \A n \in 1..Len(s) : told[n] = told[n - 1] \o Told(s, kind, n)
              /\ TranscriptOf(s, kind) = told[Len(s)]
  <1> DEFINE N == Len(s)
             Step(f, n) == IF n = 0 THEN <<>> ELSE f[n - 1] \o Told(s, kind, n)
             Good == {k \in Nat : \E f : f = [n \in 0..k |-> Step(f, n)]}
  <1>1. 0 \in Good
    <2> DEFINE f == [n \in 0..0 |-> <<>>]
    <2>1. f = [n \in 0..0 |-> Step(f, n)]
      OBVIOUS
    <2> QED BY <2>1
  <1>2. ASSUME NEW k \in Nat, k \in Good PROVE k + 1 \in Good
    <2>1. PICK f : f = [n \in 0..k |-> Step(f, n)]
      BY <1>2
    <2>2. \A n \in 0..k : f[n] = Step(f, n)
      <3> HIDE DEF Step
      <3> QED BY <2>1
    <2> DEFINE g == [n \in 0..(k + 1) |-> IF n = k + 1 THEN Step(f, k + 1) ELSE f[n]]
    <2>3. \A n \in 0..(k + 1) : g[n] = Step(f, n)
      <3> HIDE DEF Step
      <3> QED BY <2>2
    <2>4. \A n \in 0..(k + 1) : Step(g, n) = Step(f, n)
      <3>1. \A n \in 0..k : g[n] = f[n]
        BY <2>2
      <3>2. \A n \in 0..(k + 1) : n # 0 => n - 1 \in 0..k
        OBVIOUS
      <3> HIDE DEF g
      <3> QED BY <3>1, <3>2
    <2>5. g = [n \in 0..(k + 1) |-> Step(g, n)]
      <3>1. g = [n \in 0..(k + 1) |-> g[n]]
        OBVIOUS
      <3> HIDE DEF g, Step
      <3> QED BY <2>3, <2>4, <3>1
    <2> HIDE DEF g, Step
    <2> QED BY <2>5
  <1>3. N \in Good
    <2>1. Good \in SUBSET Nat /\ N \in Nat
      OBVIOUS
    <2> HIDE DEF Good, N
    <2>2. \A k \in 0..(N - 1) : k \in Good => k + 1 \in Good
      BY <1>2, <2>1
    <2>3. 0..N \subseteq Good
      BY <1>1, <2>1, <2>2, NoFirst
    <2> QED BY <2>1, <2>3
  <1> DEFINE told == CHOOSE f : f = [n \in 0..N |-> Step(f, n)]
  <1>4. told = [n \in 0..N |-> Step(told, n)]
    BY <1>3
  <1>5. TranscriptOf(s, kind) = told[N]
    BY DEF TranscriptOf
  <1> HIDE DEF told
  <1>6. \A n \in 0..N : told[n] = Step(told, n)
    <2> HIDE DEF Step
    <2> QED BY <1>4
  <1>7. told[0] = <<>>
    BY <1>6
  <1>8. ASSUME NEW n \in 1..N PROVE told[n] = told[n - 1] \o Told(s, kind, n)
    <2>1. n \in 0..N /\ n # 0
      OBVIOUS
    <2> QED BY <1>6, <2>1, Zenon
  <1> QED BY <1>5, <1>7, <1>8, Zenon

\* Two functions that begin alike and go on alike are alike.
LEMMA Alike ==
    ASSUME NEW f, NEW g, NEW n \in Nat, f[0] = g[0],
           \A k \in 1..n : f[k - 1] = g[k - 1] => f[k] = g[k]
    PROVE  f[n] = g[n]
  <1> DEFINE Good == {k \in Nat : f[k] = g[k]}
  <1>1. 0 \in Good /\ Good \in SUBSET Nat
    OBVIOUS
  <1>2. ASSUME NEW k \in 0..(n - 1), k \in Good PROVE k + 1 \in Good
    <2>1. k + 1 \in 1..n /\ (k + 1) - 1 = k
      OBVIOUS
    <2> QED BY <1>2, <2>1
  <1>3. 0..n \subseteq Good
    <2> HIDE DEF Good
    <2> QED BY <1>1, <1>2, NoFirst
  <1> QED BY <1>3

LEMMA IsSeqConcat ==
    ASSUME NEW s, NEW t, IsSeq(s), IsSeq(t)
    PROVE  /\ IsSeq(s \o t) /\ Len(s \o t) = Len(s) + Len(t)
           /\ \A i \in 1..Len(s) : (s \o t)[i] = s[i]
           /\ \A i \in 1..Len(t) : (s \o t)[Len(s) + i] = t[i]
  <1> DEFINE S == {s[i] : i \in DOMAIN s} \cup {t[i] : i \in DOMAIN t}
  <1>1. s \in Seq(S) /\ t \in Seq(S)
    BY DEF IsSeq
  <1>2. /\ s \o t \in Seq(S) /\ Len(s \o t) = Len(s) + Len(t)
        /\ \A i \in 1..(Len(s) + Len(t)) :
              (s \o t)[i] = IF i <= Len(s) THEN s[i] ELSE t[i - Len(s)]
    <2> HIDE DEF S
    <2> QED BY <1>1, ConcatProperties
  <1>3. Len(s) \in Nat /\ Len(t) \in Nat
    BY IsSeqElements
  <1>4. s \o t = [i \in 1..(Len(s) + Len(t)) |-> (s \o t)[i]]
    <2> HIDE DEF S
    <2> QED BY <1>2, LenProperties
  <1>5. IsSeq(s \o t)
    BY <1>3, <1>4, IsSeqByDomain
  <1>6. \A i \in 1..Len(s) : (s \o t)[i] = s[i]
    BY <1>2, <1>3
  <1>7. \A i \in 1..Len(t) : (s \o t)[Len(s) + i] = t[i]
    <2> TAKE i \in 1..Len(t)
    <2>1. Len(s) + i \in 1..(Len(s) + Len(t)) /\ ~(Len(s) + i <= Len(s)) /\ Len(s) + i - Len(s) = i
      BY <1>3
    <2> HIDE DEF S
    <2> QED BY <1>2, <2>1
  <1> QED BY <1>2, <1>5, <1>6, <1>7

LEMMA IsSeqEmpty == IsSeq(<<>>) /\ Len(<<>>) = 0
  BY DEF IsSeq

LEMMA IsSeqOne == ASSUME NEW x PROVE IsSeq(<<x>>) /\ Len(<<x>>) = 1 /\ <<x>>[1] = x
  BY DEF IsSeq

LEMMA IsSeqTwo ==
    ASSUME NEW x, NEW y
    PROVE  IsSeq(<<x, y>>) /\ Len(<<x, y>>) = 2 /\ <<x, y>>[1] = x /\ <<x, y>>[2] = y
  BY DEF IsSeq

LEMMA IsSeqEqual ==
    ASSUME NEW s, NEW t, IsSeq(s), IsSeq(t), Len(s) = Len(t),
           \A i \in 1..Len(s) : s[i] = t[i]
    PROVE  s = t
  BY IsSeqElements

\* Adding at the end is associative.
LEMMA ConcatAppend ==
    ASSUME NEW s, NEW t, NEW x, IsSeq(s), IsSeq(t)
    PROVE  s \o Append(t, x) = Append(s \o t, x)
  <1> DEFINE a == s \o Append(t, x)
             b == Append(s \o t, x)
  <1>1. /\ IsSeq(Append(t, x)) /\ Len(Append(t, x)) = Len(t) + 1
        /\ Append(t, x)[Len(t) + 1] = x /\ \A i \in 1..Len(t) : Append(t, x)[i] = t[i]
    BY IsSeqAppend
  <1>2. /\ IsSeq(s \o t) /\ Len(s \o t) = Len(s) + Len(t)
        /\ \A i \in 1..Len(s) : (s \o t)[i] = s[i]
        /\ \A i \in 1..Len(t) : (s \o t)[Len(s) + i] = t[i]
    BY IsSeqConcat
  <1>3. /\ IsSeq(a) /\ Len(a) = Len(s) + (Len(t) + 1)
        /\ \A i \in 1..Len(s) : a[i] = s[i]
        /\ \A i \in 1..(Len(t) + 1) : a[Len(s) + i] = Append(t, x)[i]
    BY <1>1, IsSeqConcat
  <1>4. /\ IsSeq(b) /\ Len(b) = Len(s \o t) + 1 /\ b[Len(s \o t) + 1] = x
        /\ \A i \in 1..Len(s \o t) : b[i] = (s \o t)[i]
    BY <1>2, IsSeqAppend
  <1>5. Len(s) \in Nat /\ Len(t) \in Nat
    BY IsSeqElements
  <1>6. ASSUME NEW i \in 1..Len(a) PROVE a[i] = b[i]
    <2> HIDE DEF a, b
    <2>1. CASE i \in 1..Len(s)
      BY <1>2, <1>3, <1>4, <1>5, <2>1
    <2>2. CASE i - Len(s) \in 1..Len(t)
      <3> DEFINE j == i - Len(s)
      <3>1. Len(s) + j = i /\ j \in 1..(Len(t) + 1) /\ i \in 1..Len(s \o t)
        BY <1>2, <1>5, <2>2
      <3>2. a[i] = t[j] /\ b[i] = t[j]
        <4> HIDE DEF j
        <4> QED BY <1>1, <1>2, <1>3, <1>4, <2>2, <3>1 DEF j
      <3> QED BY <3>2
    <2>3. CASE i = Len(s) + (Len(t) + 1)
      BY <1>1, <1>2, <1>3, <1>4, <1>5, <2>3
    <2>4. i \in 1..Len(s) \/ i - Len(s) \in 1..Len(t) \/ i = Len(s) + (Len(t) + 1)
      <3>1. Len(a) = Len(s) + (Len(t) + 1)
        BY <1>3
      <3>2. i \in 1..(Len(s) + (Len(t) + 1))
        BY <3>1
      <3> QED BY <3>2, <1>5
    <2> QED BY <2>1, <2>2, <2>3, <2>4
  <1>7. Len(a) = Len(b)
    <2> HIDE DEF a, b
    <2> QED BY <1>2, <1>3, <1>4, <1>5
  <1> HIDE DEF a, b
  <1>8. a = b
    BY <1>3, <1>4, <1>6, <1>7, IsSeqEqual
  <1> QED BY <1>8 DEF a, b

-----------------------------------------------------------------------------
(* The log.                                                                *)

\* What is kept of a list is a list.
LEMMA WithoutType ==
    ASSUME NEW s, NEW lost, Len(s) \in Nat
    PROVE  IsSeq(Without(s, lost))
  <1>1. PICK kept :
          /\ kept[0] = <<>>
          /\ \A n \in 1..Len(s) :
                kept[n] = IF n \in lost THEN kept[n - 1] ELSE Append(kept[n - 1], s[n])
          /\ Without(s, lost) = kept[Len(s)]
    BY WithoutIs
  <1> DEFINE Good == {k \in Nat : IsSeq(kept[k])}
             N == Len(s)
  <1>2. 0 \in Good /\ Good \in SUBSET Nat /\ N \in Nat
    BY <1>1, IsSeqEmpty
  <1>3. ASSUME NEW k \in 0..(N - 1), k \in Good PROVE k + 1 \in Good
    <2>1. k + 1 \in 1..N /\ (k + 1) - 1 = k /\ k + 1 \in Nat
      BY <1>2
    <2>2. kept[k + 1] = IF k + 1 \in lost THEN kept[k] ELSE Append(kept[k], s[k + 1])
      BY <1>1, <2>1
    <2>3. IsSeq(kept[k])
      BY <1>3
    <2>4. IsSeq(Append(kept[k], s[k + 1]))
      BY <2>3, IsSeqAppend
    <2> QED BY <2>1, <2>2, <2>3, <2>4
  <1>4. 0..N \subseteq Good
    <2> HIDE DEF Good, N
    <2> QED BY <1>2, <1>3, NoFirst
  <1>5. N \in Good
    <2> HIDE DEF Good, N
    <2> QED BY <1>2, <1>4
  <1> QED BY <1>1, <1>5

\* Positions in a list of length n, and in what follows it, as positions in the whole.
Joint(S, n, T) == S \cup {n + i : i \in T}

\* How much is lost adds up.
LEMMA LostAddsUp ==
    ASSUME NEW m \in Nat, NEW n \in Nat,
           NEW lost \in SUBSET (1..m), NEW more \in SUBSET (1..n)
    PROVE  /\ Joint(lost, m, more) \subseteq 1..(m + n)
           /\ Cardinality(Joint(lost, m, more)) = Cardinality(lost) + Cardinality(more)
  <1> DEFINE shifted == {m + i : i \in more}
             f == [i \in more |-> m + i]
  <1>1. IsFiniteSet(lost) /\ IsFiniteSet(more)
    <2>1. IsFiniteSet(1..m) /\ IsFiniteSet(1..n)
      BY FS_Interval
    <2> QED BY <2>1, FS_Subset
  <1>2. f \in Bijection(more, shifted)
    BY DEF Bijection, Injection, Surjection, IsInjective
  <1>3. IsFiniteSet(shifted) /\ Cardinality(shifted) = Cardinality(more)
    <2> HIDE DEF f, shifted
    <2> QED BY <1>1, <1>2, FS_Bijection DEF ExistsBijection
  <1>4. lost \cap shifted = {}
    <2>1. \A i \in 1..n : m + i \notin 1..m
      OBVIOUS
    <2> QED BY <2>1, Zenon DEF Joint
  <1>5. /\ Cardinality(lost \cup shifted)
              = Cardinality(lost) + Cardinality(shifted) - Cardinality(lost \cap shifted)
    <2> HIDE DEF shifted
    <2> QED BY <1>1, <1>3, FS_Union
  <1>6. Cardinality(lost) \in Nat /\ Cardinality(more) \in Nat /\ Cardinality({}) = 0
    BY <1>1, FS_CardinalityType, FS_EmptySet
  <1>7. lost \cup shifted \subseteq 1..(m + n)
    <2>1. \A i \in 1..n : m + i \in 1..(m + n)
      OBVIOUS
    <2>2. 1..m \subseteq 1..(m + n)
      OBVIOUS
    <2> QED BY <2>1, <2>2, Zenon DEF Joint
  <1> HIDE DEF shifted
  <1>8. Cardinality(lost \cup shifted) = Cardinality(lost) + Cardinality(more)
    BY <1>3, <1>4, <1>5, <1>6
  <1> QED BY <1>7, <1>8 DEF shifted, Joint

\* l is the list t but for n records.
AllBut(l, t, n) ==
    \E lost \in SUBSET (1..Len(t)) : Cardinality(lost) = n /\ l = Without(t, lost)

\* What is left of a list and of what follows it is left of the whole.
LEMMA AllButConcat ==
    ASSUME NEW s, NEW t, NEW l, NEW r, NEW a, NEW b, IsSeq(s), IsSeq(t),
           AllBut(l, s, a), AllBut(r, t, b)
    PROVE  AllBut(l \o r, s \o t, a + b)
  <1>1. PICK lost \in SUBSET (1..Len(s)) : Cardinality(lost) = a /\ l = Without(s, lost)
    BY DEF AllBut
  <1>2. PICK more \in SUBSET (1..Len(t)) : Cardinality(more) = b /\ r = Without(t, more)
    BY DEF AllBut
  <1>3. Without(s \o t, Joint(lost, Len(s), more)) = Without(s, lost) \o Without(t, more)
    <2> DEFINE u == s \o t
               all == Joint(lost, Len(s), more)
               m == Len(s)
               n == Len(t)
               head == Without(s, lost)
    <2>1. /\ m \in Nat /\ n \in Nat /\ IsSeq(u) /\ Len(u) = m + n
          /\ \A i \in 1..m : u[i] = s[i]
          /\ \A i \in 1..n : u[m + i] = t[i]
      BY IsSeqElements, IsSeqConcat
    <2>2. PICK f :
            /\ f[0] = <<>>
            /\ \A k \in 1..m : f[k] = IF k \in lost THEN f[k - 1] ELSE Append(f[k - 1], s[k])
            /\ head = f[m]
      BY <2>1, WithoutIs
    <2>3. PICK g :
            /\ g[0] = <<>>
            /\ \A k \in 1..n : g[k] = IF k \in more THEN g[k - 1] ELSE Append(g[k - 1], t[k])
            /\ Without(t, more) = g[n]
      BY <2>1, WithoutIs
    <2>4. Len(u) \in Nat
      BY <2>1
    <2>5. PICK h :
            /\ h[0] = <<>>
            /\ \A k \in 1..Len(u) : h[k] = IF k \in all THEN h[k - 1] ELSE Append(h[k - 1], u[k])
            /\ Without(u, all) = h[Len(u)]
      <3> HIDE DEF u, all
      <3> QED BY <2>4, WithoutIs
    <2>6. \A k \in 1..m : k \in all <=> k \in lost
      BY <2>1 DEF Joint
    <2>7. \A k \in 1..n : m + k \in all <=> k \in more
      BY <2>1 DEF Joint
    <2> HIDE DEF u, all, m, n, head
    <2>8. h[m] = f[m]
      <3>1. ASSUME NEW k \in 1..m, h[k - 1] = f[k - 1] PROVE h[k] = f[k]
        <4>1. k \in 1..Len(u)
          BY <2>1
        <4> QED BY <2>1, <2>2, <2>5, <2>6, <3>1, <4>1
      <3>2. h[0] = f[0]
        BY <2>2, <2>5
      <3> QED BY <2>1, <3>1, <3>2, Alike
    <2>9. IsSeq(head)
      BY <2>1, WithoutType DEF head, m
    <2> DEFINE Good == {k \in Nat : IsSeq(g[k]) /\ h[m + k] = head \o g[k]}
    <2>10. 0 \in Good
      <3>1. head \o <<>> = head
        <4>1. Len(head \o <<>>) = Len(head) /\ IsSeq(head \o <<>>) /\ \A i \in 1..Len(head) : (head \o <<>>)[i] = head[i]
          BY <2>9, IsSeqConcat, IsSeqEmpty, IsSeqElements
        <4> QED BY <2>9, <4>1, IsSeqEqual
      <3>2. h[m + 0] = head /\ g[0] = <<>>
        BY <2>1, <2>2, <2>3, <2>8
      <3> QED BY <3>1, <3>2, IsSeqEmpty
    <2>11. ASSUME NEW k \in 0..(n - 1), k \in Good PROVE k + 1 \in Good
      <3>1. k + 1 \in 1..n /\ (k + 1) - 1 = k /\ k + 1 \in Nat /\ m + (k + 1) \in 1..Len(u)
            /\ (m + (k + 1)) - 1 = m + k
        <4>1. m \in Nat /\ n \in Nat /\ Len(u) = m + n
          BY <2>1
        <4>2. m + (k + 1) \in 1..(m + n) /\ (m + (k + 1)) - 1 = m + k
          BY <4>1
        <4> QED BY <4>1, <4>2
      <3>2. g[k + 1] = IF k + 1 \in more THEN g[k] ELSE Append(g[k], t[k + 1])
        BY <2>3, <3>1
      <3>3. h[m + (k + 1)] = IF m + (k + 1) \in all THEN h[m + k]
                             ELSE Append(h[m + k], u[m + (k + 1)])
        BY <2>5, <3>1
      <3>4. u[m + (k + 1)] = t[k + 1] /\ (m + (k + 1) \in all <=> k + 1 \in more)
        BY <2>1, <2>7, <3>1
      <3>5. IsSeq(g[k]) /\ h[m + k] = head \o g[k]
        BY <2>11
      <3>6. IsSeq(Append(g[k], t[k + 1])) /\ head \o Append(g[k], t[k + 1]) = Append(head \o g[k], t[k + 1])
        BY <2>9, <3>5, IsSeqAppend, ConcatAppend
      <3> QED BY <3>1, <3>2, <3>3, <3>4, <3>5, <3>6
    <2>12. n \in Good
      <3>1. Good \in SUBSET Nat
        OBVIOUS
      <3>2. 0..n \subseteq Good
        <4> HIDE DEF Good
        <4> QED BY <2>1, <2>10, <2>11, <3>1, NoFirst
      <3> HIDE DEF Good
      <3> QED BY <2>1, <3>2
    <2>13. h[m + n] = head \o g[n]
      BY <2>12
    <2> QED BY <2>1, <2>3, <2>5, <2>13 DEF u, all, m, n, head
  <1>4. Len(s) \in Nat /\ Len(t) \in Nat /\ Len(s \o t) = Len(s) + Len(t)
    BY IsSeqElements, IsSeqConcat
  <1>5. /\ Joint(lost, Len(s), more) \subseteq 1..(Len(s) + Len(t))
        /\ Cardinality(Joint(lost, Len(s), more)) = Cardinality(lost) + Cardinality(more)
    <2> DEFINE m == Len(s)
               n == Len(t)
    <2>1. m \in Nat /\ n \in Nat /\ lost \in SUBSET (1..m) /\ more \in SUBSET (1..n)
      BY <1>4
    <2> HIDE DEF m, n
    <2>2. /\ Joint(lost, m, more) \subseteq 1..(m + n)
          /\ Cardinality(Joint(lost, m, more)) = Cardinality(lost) + Cardinality(more)
      BY <2>1, LostAddsUp
    <2> QED BY <2>2 DEF m, n
  <1> QED BY <1>1, <1>2, <1>3, <1>4, <1>5 DEF AllBut

LEMMA LogGrows ==
    ASSUME NEW t, NEW records, IsSeq(t), IsSeq(records), AllBut(log, t, refused), Log(records)
    PROVE  AllBut(log', t \o records, refused')
  <1>1. PICK more \in SUBSET (1..Len(records)) :
          /\ log' = log \o Without(records, more)
          /\ refused' = refused + Cardinality(more)
    BY IsSeqElements DEF Log
  <1>2. AllBut(Without(records, more), records, Cardinality(more))
    BY <1>1 DEF AllBut
  <1> QED BY <1>1, <1>2, AllButConcat

LEMMA ToldType == ASSUME NEW s, NEW kind, NEW n PROVE IsSeq(Told(s, kind, n))
  BY IsSeqEmpty, IsSeqOne, IsSeqTwo DEF Told

LEMMA TranscriptType ==
    ASSUME NEW s, NEW kind, Len(s) \in Nat
    PROVE  IsSeq(TranscriptOf(s, kind))
  <1>1. PICK told :
          /\ told[0] = <<>>
          /\ \A n \in 1..Len(s) : told[n] = told[n - 1] \o Told(s, kind, n)
          /\ TranscriptOf(s, kind) = told[Len(s)]
    BY TranscriptIs
  <1> DEFINE Good == {k \in Nat : IsSeq(told[k])}
             N == Len(s)
  <1>2. 0 \in Good /\ Good \in SUBSET Nat /\ N \in Nat
    BY <1>1, IsSeqEmpty
  <1>3. ASSUME NEW k \in 0..(N - 1), k \in Good PROVE k + 1 \in Good
    <2>1. k + 1 \in 1..N /\ (k + 1) - 1 = k /\ k + 1 \in Nat
      BY <1>2
    <2>2. told[k + 1] = told[k] \o Told(s, kind, k + 1)
      BY <1>1, <2>1
    <2>3. IsSeq(told[k])
      BY <1>3
    <2>4. IsSeq(told[k] \o Told(s, kind, k + 1))
      BY <2>3, ToldType, IsSeqConcat
    <2> QED BY <2>1, <2>2, <2>4
  <1>4. 0..N \subseteq Good
    <2> HIDE DEF Good, N
    <2> QED BY <1>2, <1>3, NoFirst
  <1>5. N \in Good
    <2> HIDE DEF Good, N
    <2> QED BY <1>2, <1>4
  <1> QED BY <1>1, <1>5

\* p is the transcript of the first n commands.
Begins(p, s, kind, n) ==
    /\ Len(s) = n => TranscriptOf(s, kind) = p
    /\ Len(s) = n + 1 => TranscriptOf(s, kind) = p \o Told(s, kind, n + 1)

\* What is told of a command does not depend on what follows it.
LEMMA TranscriptSplits ==
    ASSUME NEW s, NEW u, NEW kind, NEW n \in Nat, Len(s) \in Nat, Len(u) \in Nat,
           n <= Len(s), n <= Len(u), \A i \in 1..n : s[i] = u[i]
    PROVE  \E p : IsSeq(p) /\ Begins(p, s, kind, n) /\ Begins(p, u, kind, n)
  <1>1. PICK f :
          /\ f[0] = <<>>
          /\ \A k \in 1..Len(s) : f[k] = f[k - 1] \o Told(s, kind, k)
          /\ TranscriptOf(s, kind) = f[Len(s)]
    BY TranscriptIs
  <1>2. PICK g :
          /\ g[0] = <<>>
          /\ \A k \in 1..Len(u) : g[k] = g[k - 1] \o Told(u, kind, k)
          /\ TranscriptOf(u, kind) = g[Len(u)]
    BY TranscriptIs
  <1>3. \A k \in 1..n : Told(s, kind, k) = Told(u, kind, k)
    BY DEF Told
  <1>4. f[n] = g[n]
    <2>1. \A k \in 1..n : k \in 1..Len(s) /\ k \in 1..Len(u)
      OBVIOUS
    <2>2. ASSUME NEW k \in 1..n, f[k - 1] = g[k - 1] PROVE f[k] = g[k]
      BY <1>1, <1>2, <1>3, <2>1, <2>2
    <2>3. f[0] = g[0]
      BY <1>1, <1>2
    <2> QED BY <2>2, <2>3, Alike
  <1>5. IsSeq(f[n])
    <2> DEFINE Good == {k \in Nat : IsSeq(f[k])}
    <2>1. 0 \in Good /\ Good \in SUBSET Nat
      BY <1>1, IsSeqEmpty
    <2>2. ASSUME NEW k \in 0..(n - 1), k \in Good PROVE k + 1 \in Good
      <3>1. k + 1 \in 1..Len(s) /\ (k + 1) - 1 = k /\ k + 1 \in Nat
        OBVIOUS
      <3>2. f[k + 1] = f[k] \o Told(s, kind, k + 1)
        BY <1>1, <3>1
      <3>3. IsSeq(f[k])
        BY <2>2
      <3>4. IsSeq(f[k] \o Told(s, kind, k + 1))
        BY <3>3, ToldType, IsSeqConcat
      <3> QED BY <3>1, <3>2, <3>4
    <2>3. 0..n \subseteq Good
      <3> HIDE DEF Good
      <3> QED BY <2>1, <2>2, NoFirst
    <2>4. n \in Good
      <3> HIDE DEF Good
      <3> QED BY <2>3
    <2> QED BY <2>4
  <1>6. Len(s) = n => TranscriptOf(s, kind) = f[n]
    BY <1>1
  <1>7. Len(s) = n + 1 => TranscriptOf(s, kind) = f[n] \o Told(s, kind, n + 1)
    <2> SUFFICES ASSUME Len(s) = n + 1 PROVE TranscriptOf(s, kind) = f[n] \o Told(s, kind, n + 1)
      OBVIOUS
    <2>1. n + 1 \in 1..Len(s) /\ (n + 1) - 1 = n
      OBVIOUS
    <2> QED BY <1>1, <2>1
  <1>8. Len(u) = n + 1 => TranscriptOf(u, kind) = f[n] \o Told(u, kind, n + 1)
    <2> SUFFICES ASSUME Len(u) = n + 1 PROVE TranscriptOf(u, kind) = f[n] \o Told(u, kind, n + 1)
      OBVIOUS
    <2>1. n + 1 \in 1..Len(u) /\ (n + 1) - 1 = n
      OBVIOUS
    <2> QED BY <1>2, <1>4, <2>1
  <1>9. Len(u) = n => TranscriptOf(u, kind) = f[n]
    BY <1>2, <1>4
  <1>10. Begins(f[n], s, kind, n) /\ Begins(f[n], u, kind, n)
    BY <1>6, <1>7, <1>8, <1>9 DEF Begins
  <1> QED BY <1>5, <1>10

\* What is logged of a command that is sent.
LEMMA LogSent ==
    ASSUME NEW s, NEW u, NEW kind, Len(s) \in Nat, Len(u) = Len(s) + 1,
           \A i \in 1..Len(s) : s[i] = u[i],
           AllBut(log, TranscriptOf(s, kind), refused), Log(Told(u, kind, Len(u)))
    PROVE  AllBut(log', TranscriptOf(u, kind), refused')
  <1>1. PICK p : /\ IsSeq(p) /\ TranscriptOf(s, kind) = p
                 /\ TranscriptOf(u, kind) = p \o Told(u, kind, Len(s) + 1)
    <2>1. Len(u) \in Nat /\ Len(s) <= Len(s) /\ Len(s) <= Len(u)
      OBVIOUS
    <2>2. PICK p : IsSeq(p) /\ Begins(p, s, kind, Len(s)) /\ Begins(p, u, kind, Len(s))
      BY <2>1, TranscriptSplits
    <2> QED BY <2>2 DEF Begins
  <1>2. AllBut(log', p \o Told(u, kind, Len(u)), refused')
    BY <1>1, ToldType, LogGrows
  <1> QED BY <1>1, <1>2

LEMMA ConcatEmpty == ASSUME NEW s, IsSeq(s) PROVE s \o <<>> = s
  <1>1. /\ Len(s \o <<>>) = Len(s) /\ IsSeq(s \o <<>>)
        /\ \A i \in 1..Len(s) : (s \o <<>>)[i] = s[i]
    BY IsSeqConcat, IsSeqEmpty, IsSeqElements
  <1> QED BY <1>1, IsSeqEqual

LEMMA ConcatOne == ASSUME NEW s, NEW x, IsSeq(s) PROVE s \o <<x>> = Append(s, x)
  <1>1. s \o Append(<<>>, x) = Append(s \o <<>>, x)
    BY IsSeqEmpty, ConcatAppend
  <1>2. Append(<<>>, x) = <<x>>
    OBVIOUS
  <1> QED BY <1>1, <1>2, ConcatEmpty

LEMMA ConcatTwo ==
    ASSUME NEW s, NEW x, NEW y, IsSeq(s)
    PROVE  s \o <<x, y>> = Append(Append(s, x), y)
  <1>1. s \o Append(<<x>>, y) = Append(s \o <<x>>, y)
    BY IsSeqOne, ConcatAppend
  <1>2. Append(<<x>>, y) = <<x, y>>
    <2>1. /\ IsSeq(Append(<<x>>, y)) /\ Len(Append(<<x>>, y)) = 2
          /\ Append(<<x>>, y)[1] = x /\ Append(<<x>>, y)[2] = y
      BY IsSeqOne, IsSeqAppend
    <2> DEFINE a == Append(<<x>>, y)
               b == <<x, y>>
    <2>2. IsSeq(b) /\ Len(b) = 2 /\ b[1] = x /\ b[2] = y
      BY IsSeqTwo
    <2>3. \A i \in 1..2 : i = 1 \/ i = 2
      OBVIOUS
    <2> HIDE DEF a, b
    <2>4. a = b
      BY <2>1, <2>2, <2>3, IsSeqEqual DEF a
    <2> QED BY <2>4 DEF a, b
  <1>3. s \o <<x>> = Append(s, x)
    BY ConcatOne
  <1> QED BY <1>1, <1>2, <1>3

\* What is logged of a command that is answered.
LEMMA LogAnswered ==
    ASSUME NEW s, NEW u, NEW kind, NEW n \in Nat \ {0}, Len(s) = n, Len(u) = n,
           \A i \in 1..(n - 1) : s[i] = u[i],
           s[n].answered = FALSE, u[n].answered = TRUE, u[n].text = s[n].text,
           AllBut(log, TranscriptOf(s, kind), refused),
           Log(IF kind = "local" THEN <<Header(s[n].text), Output(s[n].text, n)>>
               ELSE <<Output(s[n].text, n)>>)
    PROVE  AllBut(log', TranscriptOf(u, kind), refused')
  <1> DEFINE h == Header(s[n].text)
             o == Output(s[n].text, n)
             m == n - 1
  <1>1. PICK p : /\ IsSeq(p) /\ TranscriptOf(s, kind) = p \o Told(s, kind, n)
                 /\ TranscriptOf(u, kind) = p \o Told(u, kind, n)
    <2>1. m \in Nat /\ m + 1 = n /\ Len(s) = m + 1 /\ Len(u) = m + 1 /\ m <= Len(s) /\ m <= Len(u)
          /\ Len(s) \in Nat /\ Len(u) \in Nat /\ \A i \in 1..m : s[i] = u[i]
      OBVIOUS
    <2> HIDE DEF m
    <2>2. PICK p : IsSeq(p) /\ Begins(p, s, kind, m) /\ Begins(p, u, kind, m)
      BY <2>1, TranscriptSplits
    <2> QED BY <2>1, <2>2 DEF Begins
  <1>2. Told(u, kind, n) = <<h, o>>
    BY DEF Told
  <1>3. CASE kind = "local"
    <2>1. Told(s, kind, n) = <<>>
      BY <1>3 DEF Told
    <2>2. TranscriptOf(s, kind) = p /\ Log(<<h, o>>)
      BY <1>1, <1>3, <2>1, ConcatEmpty
    <2> HIDE DEF h, o
    <2>3. AllBut(log', p \o <<h, o>>, refused')
      BY <1>1, <2>2, IsSeqTwo, LogGrows
    <2> QED BY <1>1, <1>2, <2>3
  <1>4. CASE kind # "local"
    <2>1. Told(s, kind, n) = <<h>>
      BY <1>4 DEF Told
    <2>2. TranscriptOf(s, kind) = p \o <<h>> /\ Log(<<o>>)
      BY <1>1, <1>4, <2>1
    <2> HIDE DEF h, o
    <2> DEFINE t == p \o <<h>>
    <2>3. IsSeq(t)
      BY <1>1, IsSeqOne, IsSeqConcat
    <2>4. AllBut(log', t \o <<o>>, refused')
      <3>1. AllBut(log, t, refused)
        BY <2>2
      <3> HIDE DEF t
      <3> QED BY <2>2, <2>3, <3>1, IsSeqOne, LogGrows
    <2>5. t \o <<o>> = p \o <<h, o>>
      <3>1. t = Append(p, h) /\ p \o <<h, o>> = Append(Append(p, h), o)
        BY <1>1, ConcatOne, ConcatTwo
      <3> HIDE DEF t
      <3>2. t \o <<o>> = Append(t, o)
        BY <2>3, ConcatOne
      <3> QED BY <3>1, <3>2
    <2> HIDE DEF t
    <2> QED BY <1>1, <1>2, <2>4, <2>5
  <1> QED BY <1>3, <1>4

\* The log is the transcript but for the records it refused; what is on its way is
\* not answered yet.
LogInv ==
    /\ AllBut(log, Transcript, refused)
    /\ pc = "await" => sent[Len(sent)].answered = FALSE

LEMMA LogInvInductive == AnswersInv /\ LogInv /\ [Next]_vars => LogInv'
  <1> SUFFICES ASSUME AnswersInv, LogInv, [Next]_vars PROVE LogInv'
    OBVIOUS
  <1>0. /\ IsSeq(sent) /\ Len(sent) \in Nat /\ IsSeq(results) /\ Len(results) \in Nat
        /\ Base \in Nat /\ sent = [i \in 1..Len(sent) |-> sent[i]]
    BY IsSeqElements DEF AnswersInv, CallInv
  \* Steps without effect on what was sent and logged.
  <1>1. ASSUME UNCHANGED <<plan, sent, log, refused>>, pc' # "await" PROVE LogInv'
    BY <1>1 DEF LogInv, Transcript
  <1>2. ASSUME NEW records, Give(records), IsSeq(records),
               records = IF plan.kind = "local" THEN <<>> ELSE <<Header(Head(todo))>>
        PROVE  LogInv'
    <2>1. CASE UNCHANGED <<sent, log, refused>> /\ pc' # "await"
      BY <1>1, <1>2, <2>1 DEF Give
    <2>2. CASE /\ Log(records) /\ pc' = "await"
               /\ sent' = Append(sent, [text |-> Head(todo), answered |-> FALSE])
      <3>1. /\ Len(sent') = Len(sent) + 1 /\ \A i \in 1..Len(sent) : sent'[i] = sent[i]
            /\ sent'[Len(sent) + 1] = [text |-> Head(todo), answered |-> FALSE]
        BY <1>0, <2>2, IsSeqAppend
      <3>2. Told(sent', plan.kind, Len(sent')) = records
        BY <1>2, <3>1 DEF Told
      <3>3. AllBut(log', TranscriptOf(sent', plan.kind), refused')
        <4>1. AllBut(log, TranscriptOf(sent, plan.kind), refused)
          BY DEF LogInv, Transcript
        <4>2. Log(Told(sent', plan.kind, Len(sent')))
          BY <2>2, <3>2
        <4> QED BY <1>0, <3>1, <4>1, <4>2, LogSent
      <3>4. plan' = plan /\ sent'[Len(sent')].answered = FALSE
        BY <1>2, <3>1 DEF Give
      <3> QED BY <3>3, <3>4 DEF LogInv, Transcript
    <2>3. /\ NextLocation(results) => pc' # "await"
          /\ Return(FALSE, <<>>, sent) => pc' # "await"
      BY DEF NextLocation, Return
    <2> QED BY <1>2, <2>1, <2>2, <2>3 DEF Give
  <1>3. ASSUME NEW records, Keep(records),
               records = IF plan.kind = "local"
                         THEN <<Header(Head(todo)), Output(Head(todo), Len(sent))>>
                         ELSE <<Output(Head(todo), Len(sent))>>
        PROVE  LogInv'
    <2> DEFINE n == Len(sent)
    <2>1. /\ pc = "await" /\ plan' = plan /\ n \in Nat \ {0} /\ sent[n].text = Head(todo)
          /\ DOMAIN sent[n] = {"text", "answered"} /\ sent[n].answered = FALSE
      BY <1>0, <1>3 DEF Keep, AnswersInv, CallInv, LogInv
    <2>2. sent' = [sent EXCEPT ![n].answered = TRUE] /\ Log(records)
      BY <1>3 DEF Keep
    <2>3. /\ Len(sent') = n /\ \A i \in 1..(n - 1) : sent'[i] = sent[i]
          /\ sent'[n].text = sent[n].text /\ sent'[n].answered = TRUE
      <3>1. sent' = [i \in 1..n |-> IF i = n THEN [sent[n] EXCEPT !.answered = TRUE] ELSE sent[i]]
        BY <1>0, <2>2
      <3>2. Len(sent') = n
        <4>1. sent' = [i \in 1..n |-> sent'[i]]
          BY <3>1
        <4> QED BY <2>1, <4>1, IsSeqByDomain
      <3>3. sent'[n] = [sent[n] EXCEPT !.answered = TRUE]
        BY <2>1, <3>1
      <3> QED BY <2>1, <3>1, <3>2, <3>3
    <2>4. pc' # "await"
      BY <1>3 DEF Keep, NextLocation, Return
    <2>5. AllBut(log', TranscriptOf(sent', plan.kind), refused')
      <3>1. AllBut(log, TranscriptOf(sent, plan.kind), refused)
        BY DEF LogInv, Transcript
      <3>2. Log(IF plan.kind = "local" THEN <<Header(sent[n].text), Output(sent[n].text, n)>>
                ELSE <<Output(sent[n].text, n)>>)
        BY <1>3, <2>1, <2>2
      <3>3. \A i \in 1..(n - 1) : sent[i] = sent'[i]
        BY <2>3
      <3> QED BY <2>1, <2>3, <3>1, <3>2, <3>3, LogAnswered
    <2> QED BY <2>1, <2>4, <2>5 DEF LogInv, Transcript
  <1>4. CASE Connect \/ Call \/ CallLocal \/ Tick \/ Fail \/ Timeout
    <2>1. UNCHANGED <<plan, sent, log, refused>>
      BY <1>4 DEF Connect, Call, CallLocal, Tick, Fail, Timeout
    <2>2. pc' # "await"
      BY <1>4 DEF Connect, Call, CallLocal, Tick, Fail, Timeout, Return
    <2> QED BY <1>1, <2>1, <2>2
  <1>5. CASE Send \/ Execute
    <2>1. CASE plan.kind # "local" /\ Give(<<Header(Head(todo))>>)
      <3>1. PICK records : records = <<Header(Head(todo))>>
        OBVIOUS
      <3> QED BY <1>2, <2>1, <3>1, IsSeqOne
    <2>2. CASE plan.kind = "local" /\ Give(<<>>)
      BY <1>2, <2>2, IsSeqEmpty
    <2> QED BY <1>5, <2>1, <2>2 DEF Send, Execute
  <1>6. CASE Answer \/ Completed
    <2>1. CASE plan.kind # "local" /\ Keep(<<Output(Head(todo), Len(sent))>>)
      BY <1>3, <2>1
    <2>2. CASE plan.kind = "local" /\ Keep(<<Header(Head(todo)), Output(Head(todo), Len(sent))>>)
      BY <1>3, <2>2
    <2> QED BY <1>6, <2>1, <2>2 DEF Answer, Completed
  <1>7. CASE UNCHANGED vars
    BY <1>7 DEF vars, LogInv, Transcript
  <1> QED BY <1>4, <1>5, <1>6, <1>7 DEF Next, Own, Ended

\* The log of a router tells its session: whatever it answers and whenever it stops
\* answering, commands and outputs are there in the order in which they happened, each
\* output behind its command, but for the records the log refused
\* (router.go:537-540, 572-576; local.go:68-72, 88-92).
THEOREM LogFollowsSession == Spec => []LogTellsSession
  <1>1. Init => AnswersInv /\ LogInv
    <2> SUFFICES ASSUME Init PROVE AnswersInv /\ LogInv
      OBVIOUS
    <2>1. AnswersInv
      BY AnswersInvInitially
    <2>2. Transcript = <<>>
      BY IsSeqEmpty, TranscriptIs DEF Transcript, Init
    <2>3. Without(<<>>, {}) = <<>>
      BY IsSeqEmpty, WithoutIs
    <2>4. AllBut(log, Transcript, refused)
      BY <2>2, <2>3, FS_EmptySet DEF Init, AllBut
    <2> QED BY <2>1, <2>4 DEF LogInv, Init
  <1>2. AnswersInv /\ LogInv => LogTellsSession
    <2> SUFFICES ASSUME AnswersInv, LogInv PROVE LogTellsSession
      OBVIOUS
    <2>1. IsSeq(sent) /\ Len(sent) \in Nat
      BY IsSeqElements DEF AnswersInv, CallInv
    <2>2. DOMAIN Transcript = 1..Len(Transcript)
      BY <2>1, TranscriptType, IsSeqElements DEF Transcript
    <2> QED BY <2>2 DEF LogInv, AllBut, LogTellsSession, kSubset
  <1> QED BY <1>1, <1>2, AnswersInvInductive, LogInvInductive, PTL DEF Spec

-----------------------------------------------------------------------------
(* What the locations of a command become.                                 *)

LEMMA ExpandedIs ==
    ASSUME NEW platform, NEW c, Len(c.location) \in Nat
    PROVE  \E lists :
              /\ lists[0] = {<<>>}
              /\ \A n \in 1..Len(c.location) :
                    lists[n] = EachThen(lists[n - 1], Expansions(platform, c.location[n]))
              /\ Expanded(platform, c) = lists[Len(c.location)]
  <1> DEFINE N == Len(c.location)
             Step(f, n) == IF n = 0 THEN {<<>>}
                           ELSE EachThen(f[n - 1], Expansions(platform, c.location[n]))
             Good == {k \in Nat : \E f : f = [n \in 0..k |-> Step(f, n)]}
  <1>1. 0 \in Good
    <2> DEFINE f == [n \in 0..0 |-> {<<>>}]
    <2>1. f = [n \in 0..0 |-> Step(f, n)]
      OBVIOUS
    <2> QED BY <2>1
  <1>2. ASSUME NEW k \in Nat, k \in Good PROVE k + 1 \in Good
    <2>1. PICK f : f = [n \in 0..k |-> Step(f, n)]
      BY <1>2
    <2>2. \A n \in 0..k : f[n] = Step(f, n)
      <3> HIDE DEF Step
      <3> QED BY <2>1
    <2> DEFINE g == [n \in 0..(k + 1) |-> IF n = k + 1 THEN Step(f, k + 1) ELSE f[n]]
    <2>3. \A n \in 0..(k + 1) : g[n] = Step(f, n)
      <3> HIDE DEF Step
      <3> QED BY <2>2
    <2>4. \A n \in 0..(k + 1) : Step(g, n) = Step(f, n)
      <3>1. \A n \in 0..k : g[n] = f[n]
        BY <2>2
      <3>2. \A n \in 0..(k + 1) : n # 0 => n - 1 \in 0..k
        OBVIOUS
      <3> HIDE DEF g
      <3> QED BY <3>1, <3>2
    <2>5. g = [n \in 0..(k + 1) |-> Step(g, n)]
      <3>1. g = [n \in 0..(k + 1) |-> g[n]]
        OBVIOUS
      <3> HIDE DEF g, Step
      <3> QED BY <2>3, <2>4, <3>1
    <2> HIDE DEF g, Step
    <2> QED BY <2>5
  <1>3. N \in Good
    <2>1. Good \in SUBSET Nat /\ N \in Nat
      OBVIOUS
    <2> HIDE DEF Good, N
    <2>2. \A k \in 0..(N - 1) : k \in Good => k + 1 \in Good
      BY <1>2, <2>1
    <2>3. 0..N \subseteq Good
      BY <1>1, <2>1, <2>2, NoFirst
    <2> QED BY <2>1, <2>3
  <1> DEFINE lists == CHOOSE f : f = [n \in 0..N |-> Step(f, n)]
  <1>4. lists = [n \in 0..N |-> Step(lists, n)]
    BY <1>3
  <1>5. Expanded(platform, c) = lists[N]
    BY DEF Expanded
  <1> HIDE DEF lists
  <1>6. \A n \in 0..N : lists[n] = Step(lists, n)
    <2> HIDE DEF Step
    <2> QED BY <1>4
  <1>7. lists[0] = {<<>>}
    BY <1>6
  <1>8. ASSUME NEW n \in 1..N
        PROVE  lists[n] = EachThen(lists[n - 1], Expansions(platform, c.location[n]))
    <2>1. n \in 0..N /\ n # 0
      OBVIOUS
    <2> QED BY <1>6, <2>1, Zenon
  <1> QED BY <1>5, <1>7, <1>8, Zenon

\* The cards of a router that is connected.
Ran(p, form) == IF p.kind = "xr" THEN Running(p, form) ELSE {}
Platform(p) == [rps |-> Ran(p, "rp"), lcs |-> Ran(p, "lc")]

LEMMA PlatformType ==
    ASSUME NEW p \in Plans
    PROVE  /\ Platform(p).rps \in SUBSET Locations /\ IsFiniteSet(Platform(p).rps)
           /\ Platform(p).lcs \in SUBSET Locations /\ IsFiniteSet(Platform(p).lcs)
  <1>1. p.lines \subseteq PlatformLine /\ IsFiniteSet(p.lines)
    BY RunnerAssumption DEF Plan
  <1>2. ASSUME NEW form
        PROVE  Running(p, form) \in SUBSET Locations /\ IsFiniteSet(Running(p, form))
    <2> DEFINE L == {m \in p.lines : m.form = form /\ m.running}
               f == [l \in L |-> l.location]
    <2>1. IsFiniteSet(L)
      <3>1. L \in SUBSET p.lines
        OBVIOUS
      <3> HIDE DEF L
      <3> QED BY <1>1, <3>1, FS_Subset
    <2>2. f \in Surjection(L, Running(p, form))
      BY DEF Surjection, Running
    <2>3. IsFiniteSet(Running(p, form))
      <3> HIDE DEF f, L
      <3> QED BY <2>1, <2>2, FS_Surjection
    <2>4. Running(p, form) \in SUBSET Locations
      BY <1>1 DEF Running, PlatformLine
    <2> QED BY <2>3, <2>4
  <1> QED BY <1>2, FS_EmptySet DEF Platform, Ran

LEMMA SeqIsSeq ==
    ASSUME NEW S, NEW s \in Seq(S)
    PROVE  IsSeq(s)
  <1>1. Len(s) \in Nat /\ s = [i \in 1..Len(s) |-> s[i]]
    BY LenProperties
  <1> QED BY <1>1, IsSeqByDomain

\* Where a list is at one of some places.
Hits(ls, M) == {i \in 1..Len(ls) : ls[i] \in M}

LEMMA HitsFinite ==
    ASSUME NEW ls, NEW M, Len(ls) \in Nat
    PROVE  Hits(ls, M) \in SUBSET (1..Len(ls)) /\ IsFiniteSet(Hits(ls, M))
           /\ Cardinality(Hits(ls, M)) \in Nat
  <1>1. Hits(ls, M) \in SUBSET (1..Len(ls)) /\ IsFiniteSet(1..Len(ls))
    BY FS_Interval DEF Hits
  <1>2. IsFiniteSet(Hits(ls, M))
    BY <1>1, FS_Subset
  <1> QED BY <1>1, <1>2, FS_CardinalityType

LEMMA HitsConcat ==
    ASSUME NEW ls, NEW ms, NEW M, IsSeq(ls), IsSeq(ms)
    PROVE  Cardinality(Hits(ls \o ms, M)) = Cardinality(Hits(ls, M)) + Cardinality(Hits(ms, M))
  <1> DEFINE m == Len(ls)
             n == Len(ms)
             a == Hits(ls, M)
             b == Hits(ms, M)
  <1>1. /\ m \in Nat /\ n \in Nat /\ Len(ls \o ms) = m + n
        /\ \A i \in 1..m : (ls \o ms)[i] = ls[i]
        /\ \A i \in 1..n : (ls \o ms)[m + i] = ms[i]
    BY IsSeqConcat, IsSeqElements
  <1>2. a \in SUBSET (1..m) /\ b \in SUBSET (1..n)
    BY <1>1, HitsFinite
  <1>3. Hits(ls \o ms, M) = Joint(a, m, b)
    <2>1. \A i \in 1..(m + n) : i \in 1..m \/ \E j \in 1..n : i = m + j
      <3> TAKE i \in 1..(m + n)
      <3>1. CASE i <= m
        BY <1>1, <3>1
      <3>2. CASE ~(i <= m)
        <4>1. i - m \in 1..n /\ i = m + (i - m)
          BY <1>1, <3>2
        <4> QED BY <4>1
      <3> QED BY <3>1, <3>2
    <2>2. \A i \in 1..m : i \in 1..(m + n)
      BY <1>1
    <2>3. \A j \in 1..n : m + j \in 1..(m + n)
      BY <1>1
    <2> HIDE DEF m, n
    <2>4. \A i \in 1..m : i \in Hits(ls \o ms, M) <=> i \in a
      BY <1>1, <2>2 DEF Hits, m
    <2>5. \A j \in 1..n : m + j \in Hits(ls \o ms, M) <=> j \in b
      BY <1>1, <2>3 DEF Hits, n
    <2>6. \A x : x \in Hits(ls \o ms, M) => x \in Joint(a, m, b)
      <3> SUFFICES ASSUME NEW x, x \in Hits(ls \o ms, M) PROVE x \in Joint(a, m, b)
        OBVIOUS
      <3>1. x \in 1..(m + n)
        BY <1>1 DEF Hits
      <3> QED BY <2>1, <2>4, <2>5, <3>1 DEF Joint
    <2>7. \A x : x \in Joint(a, m, b) => x \in Hits(ls \o ms, M)
      BY <1>2, <2>4, <2>5 DEF Joint
    <2> QED BY <2>6, <2>7
  <1>4. Cardinality(Joint(a, m, b)) = Cardinality(a) + Cardinality(b)
    <2> HIDE DEF a, b, m, n
    <2> QED BY <1>1, <1>2, LostAddsUp
  <1> QED BY <1>3, <1>4

\* Every order of a set goes through it once.
LEMMA HitsOfSet ==
    ASSUME NEW S, IsFiniteSet(S), NEW ls \in SetToSeqs(S), NEW M
    PROVE  ls \in Seq(S) /\ Cardinality(Hits(ls, M)) = Cardinality({x \in S : x \in M})
  <1> DEFINE n == Cardinality(S)
             H == Hits(ls, M)
             T == {x \in S : x \in M}
             f == [i \in H |-> ls[i]]
  <1>1. /\ n \in Nat /\ ls \in [1..n -> S]
        /\ \A i, j \in 1..n : i # j => ls[i] # ls[j]
    BY FS_CardinalityType DEF SetToSeqs
  <1>2. ls = [i \in 1..n |-> ls[i]]
    BY <1>1
  <1>3. ls \in Seq(S) /\ Len(ls) = n
    <2> HIDE DEF n
    <2>1. \A i \in 1..n : ls[i] \in S
      BY <1>1
    <2> QED BY <1>1, <1>2, <2>1, IsASeq, LenProperties
  <1>4. ls \in Surjection(1..n, S)
    <2>1. ls \in Injection(1..n, S)
      BY <1>1 DEF Injection, IsInjective
    <2>2. IsFiniteSet(1..n) /\ Cardinality(1..n) = n
      BY <1>1, FS_Interval
    <2> QED BY <2>1, <2>2, FS_Injection
  <1>5. f \in Bijection(H, T)
    <2>1. f \in [H -> T]
      BY <1>1, <1>3 DEF Hits
    <2>2. \A i, j \in H : f[i] = f[j] => i = j
      BY <1>1, <1>3 DEF Hits
    <2>3. \A x \in T : \E i \in H : f[i] = x
      BY <1>1, <1>3, <1>4 DEF Hits, Surjection
    <2> HIDE DEF f, H, T
    <2> QED BY <2>1, <2>2, <2>3 DEF Bijection, Injection, Surjection, IsInjective
  <1>6. IsFiniteSet(H)
    BY <1>1, <1>3, HitsFinite
  <1> HIDE DEF f, H, T
  <1>7. Cardinality(T) = Cardinality(H)
    BY <1>5, <1>6, FS_Bijection DEF ExistsBijection
  <1> QED BY <1>3, <1>7 DEF H, T

\* A set with a tag to each element.
Tagged(t, S) == {t} \X S

LEMMA TaggedCount ==
    ASSUME NEW S, IsFiniteSet(S), NEW t
    PROVE  IsFiniteSet(Tagged(t, S)) /\ Cardinality(Tagged(t, S)) = Cardinality(S)
  <1> DEFINE f == [x \in S |-> <<t, x>>]
  <1>1. f \in Bijection(S, Tagged(t, S))
    BY DEF Bijection, Injection, Surjection, IsInjective, Tagged
  <1> HIDE DEF f
  <1> QED BY <1>1, FS_Bijection DEF ExistsBijection

\* Of two sets without a common element.
LEMMA DisjointCount ==
    ASSUME NEW S, NEW T, IsFiniteSet(S), IsFiniteSet(T), \A x \in S : x \notin T
    PROVE  IsFiniteSet(S \cup T) /\ Cardinality(S \cup T) = Cardinality(S) + Cardinality(T)
  <1>1. S \cap T = {}
    OBVIOUS
  <1> QED BY <1>1, FS_Union, FS_EmptySet, FS_CardinalityType

\* The slots of a router: its line cards, or its route processors if it has none.
Slots(p) == IF Platform(p).lcs = {} THEN Platform(p).rps ELSE Platform(p).lcs

LEMMA KeywordCount ==
    ASSUME NEW p \in Plans, NEW k \in Locations \cup Keywords, NEW M,
           NEW ls \in Expansions(Platform(p), k)
    PROVE  /\ ls \in Seq(Locations) /\ IsFiniteSet(Meant(p, k, M))
           /\ Cardinality(Hits(ls, M)) = Cardinality(Meant(p, k, M))
  <1> DEFINE rps == Platform(p).rps
             slots == Slots(p)
             rpsAt == {x \in rps : x \in M}
             slotsAt == {x \in slots : x \in M}
  <1>1. /\ rps \in SUBSET Locations /\ IsFiniteSet(rps)
        /\ slots \in SUBSET Locations /\ IsFiniteSet(slots)
    BY PlatformType DEF Slots
  <1>2. AllRPs(Platform(p)) = SetToSeqs(rps) /\ AllLCs(Platform(p)) = SetToSeqs(slots)
    BY DEF AllRPs, AllLCs, Slots
  <1>3. /\ Means(p, "all") = Tagged("rp", rps) \cup Tagged("slot", slots)
        /\ Means(p, "all-rp") = Tagged("rp", rps)
        /\ Means(p, "all-lc") = Tagged("slot", slots)
        /\ k \in Locations => Means(p, k) = Tagged("name", {k})
    <2>1. Platform(p).rps = Ran(p, "rp") /\ Platform(p).lcs = Ran(p, "lc")
      BY DEF Platform
    <2>2. k \in Locations => k \notin {"all", "all-rp", "all-lc"}
      BY RunnerAssumption DEF Keywords
    <2> QED BY <2>1, <2>2 DEF Means, Tagged, Slots, Ran
  <1>4. \A t, S : {m \in Tagged(t, S) : m[2] \in M} = Tagged(t, {x \in S : x \in M})
    BY DEF Tagged
  <1>5. \A S, T : {m \in S \cup T : m[2] \in M} = {m \in S : m[2] \in M} \cup {m \in T : m[2] \in M}
    OBVIOUS
  <1>6. IsFiniteSet(rpsAt) /\ IsFiniteSet(slotsAt)
    <2>1. rpsAt \in SUBSET rps /\ slotsAt \in SUBSET slots
      OBVIOUS
    <2> HIDE DEF rpsAt, slotsAt, rps, slots
    <2> QED BY <1>1, <2>1, FS_Subset
  <1>7. CASE k = "all"
    <2>1. PICK rp \in SetToSeqs(rps), lc \in SetToSeqs(slots) : ls = rp \o lc
      BY <1>2, <1>7 DEF Expansions, EachThen
    <2>2. /\ rp \in Seq(rps) /\ Cardinality(Hits(rp, M)) = Cardinality(rpsAt)
          /\ lc \in Seq(slots) /\ Cardinality(Hits(lc, M)) = Cardinality(slotsAt)
      <3> HIDE DEF rps, slots
      <3> QED BY <1>1, HitsOfSet
    <2>3. rp \in Seq(Locations) /\ lc \in Seq(Locations)
      <3> HIDE DEF rps, slots
      <3> QED BY <1>1, <2>2, SeqMonotonic
    <2>4. ls \in Seq(Locations)
      BY <2>1, <2>3, ConcatProperties
    <2>5. IsSeq(rp) /\ IsSeq(lc)
      BY <2>3, SeqIsSeq
    <2>6. Cardinality(Hits(ls, M)) = Cardinality(rpsAt) + Cardinality(slotsAt)
      BY <2>1, <2>2, <2>5, HitsConcat
    <2>7. Meant(p, k, M) = Tagged("rp", rpsAt) \cup Tagged("slot", slotsAt)
      <3>1. Meant(p, k, M) = {m \in Tagged("rp", rps) \cup Tagged("slot", slots) : m[2] \in M}
        BY <1>3, <1>7 DEF Meant
      <3> HIDE DEF rps, slots
      <3> QED BY <1>4, <1>5, <3>1
    <2> HIDE DEF rpsAt, slotsAt, rps, slots
    <2>8. /\ IsFiniteSet(Tagged("rp", rpsAt)) /\ Cardinality(Tagged("rp", rpsAt)) = Cardinality(rpsAt)
          /\ IsFiniteSet(Tagged("slot", slotsAt)) /\ Cardinality(Tagged("slot", slotsAt)) = Cardinality(slotsAt)
      BY <1>6, TaggedCount
    <2>9. \A x \in Tagged("rp", rpsAt) : x \notin Tagged("slot", slotsAt)
      BY DEF Tagged
    <2> QED BY <2>4, <2>6, <2>7, <2>8, <2>9, DisjointCount
  <1>8. CASE k = "all-rp"
    <2>1. ls \in SetToSeqs(rps)
      BY <1>2, <1>8 DEF Expansions
    <2>2. Meant(p, k, M) = Tagged("rp", rpsAt)
      BY <1>3, <1>4, <1>8 DEF Meant
    <2> HIDE DEF rps
    <2>3. ls \in Seq(rps) /\ Cardinality(Hits(ls, M)) = Cardinality(rpsAt)
      BY <1>1, <2>1, HitsOfSet
    <2>4. ls \in Seq(Locations)
      BY <1>1, <2>3, SeqMonotonic
    <2> HIDE DEF rpsAt
    <2> QED BY <1>6, <2>2, <2>3, <2>4, TaggedCount
  <1>9. CASE k = "all-lc"
    <2>1. ls \in SetToSeqs(slots)
      BY <1>2, <1>9 DEF Expansions
    <2>2. Meant(p, k, M) = Tagged("slot", slotsAt)
      BY <1>3, <1>4, <1>9 DEF Meant
    <2> HIDE DEF slots
    <2>3. ls \in Seq(slots) /\ Cardinality(Hits(ls, M)) = Cardinality(slotsAt)
      BY <1>1, <2>1, HitsOfSet
    <2>4. ls \in Seq(Locations)
      BY <1>1, <2>3, SeqMonotonic
    <2> HIDE DEF slotsAt
    <2> QED BY <1>6, <2>2, <2>3, <2>4, TaggedCount
  <1>10. CASE k \notin Keywords
    <2>1. k \in Locations /\ ls = <<k>>
      BY <1>10 DEF Expansions, Keywords
    <2> DEFINE S == {x \in {k} : x \in M}
    <2>2. Meant(p, k, M) = Tagged("name", S)
      BY <1>3, <1>4, <2>1 DEF Meant
    <2>3. ls \in Seq(Locations)
      BY <2>1
    <2>4. IsFiniteSet(S) /\ Cardinality(S) = IF k \in M THEN 1 ELSE 0
      <3>1. CASE k \in M
        <4>1. S = {k}
          BY <3>1
        <4> QED BY <3>1, <4>1, FS_Singleton
      <3>2. CASE k \notin M
        <4>1. S = {}
          BY <3>2
        <4> QED BY <3>2, <4>1, FS_EmptySet
      <3> QED BY <3>1, <3>2
    <2>5. Cardinality(Hits(ls, M)) = IF k \in M THEN 1 ELSE 0
      <3>1. Len(ls) = 1 /\ ls[1] = k
        BY <2>1
      <3>2. 1..1 = {1}
        OBVIOUS
      <3>3. CASE k \in M
        <4>1. Hits(ls, M) = {1}
          BY <3>1, <3>2, <3>3 DEF Hits
        <4> QED BY <3>3, <4>1, FS_Singleton
      <3>4. CASE k \notin M
        <4>1. Hits(ls, M) = {}
          BY <3>1, <3>2, <3>4 DEF Hits
        <4> QED BY <3>4, <4>1, FS_EmptySet
      <3> QED BY <3>3, <3>4
    <2> HIDE DEF S
    <2> QED BY <2>2, <2>3, <2>4, <2>5, TaggedCount
  <1> QED BY <1>7, <1>8, <1>9, <1>10 DEF Keywords

\* What the first n entries of a list of locations mean at some places.
MeantBy(p, list, n, M) == UNION {{i} \X Meant(p, list[i], M) : i \in 1..n}

\* However the cards are listed: a place is in the list as often as the file means it.
LEMMA ExpandedCount ==
    ASSUME NEW p \in Plans, NEW c, c.location \in Seq(Locations \cup Keywords), NEW M,
           NEW ls \in Expanded(Platform(p), c)
    PROVE  /\ ls \in Seq(Locations)
           /\ Cardinality(Hits(ls, M)) = Cardinality(MeantBy(p, c.location, Len(c.location), M))
  <1> DEFINE N == Len(c.location)
  <1>1. N \in Nat /\ \A i \in 1..N : c.location[i] \in Locations \cup Keywords
    BY ElementOfSeq, LenProperties
  <1>2. PICK lists :
          /\ lists[0] = {<<>>}
          /\ \A n \in 1..N :
                lists[n] = EachThen(lists[n - 1], Expansions(Platform(p), c.location[n]))
          /\ Expanded(Platform(p), c) = lists[N]
    BY <1>1, ExpandedIs
  <1> DEFINE Counted(n, ms) ==
               /\ ms \in Seq(Locations) /\ IsFiniteSet(MeantBy(p, c.location, n, M))
               /\ Cardinality(Hits(ms, M)) = Cardinality(MeantBy(p, c.location, n, M))
             Good == {n \in Nat : \A ms \in lists[n] : Counted(n, ms)}
  <1>3. 0 \in Good /\ Good \in SUBSET Nat
    <2>1. 1..0 = {} /\ Len(<<>>) = 0 /\ <<>> \in Seq(Locations)
      OBVIOUS
    <2>2. MeantBy(p, c.location, 0, M) = {}
      BY <2>1 DEF MeantBy
    <2>3. Hits(<<>>, M) = {}
      BY <2>1 DEF Hits
    <2> QED BY <1>2, <2>1, <2>2, <2>3, FS_EmptySet
  <1>4. ASSUME NEW k \in 0..(N - 1), k \in Good PROVE k + 1 \in Good
    <2> DEFINE n == k + 1
    <2>1. n \in 1..N /\ n - 1 = k /\ n \in Nat /\ k \in Nat
      BY <1>1
    <2>2. ASSUME NEW ms \in lists[n] PROVE Counted(n, ms)
      <3>1. PICK a \in lists[k], b \in Expansions(Platform(p), c.location[n]) : ms = a \o b
        <4>1. lists[n] = EachThen(lists[k], Expansions(Platform(p), c.location[n]))
          <5> HIDE DEF n
          <5> QED BY <1>2, <2>1
        <4>2. ms \in EachThen(lists[k], Expansions(Platform(p), c.location[n]))
          <5> HIDE DEF n, Counted, Good
          <5> QED BY <2>2, <4>1
        <4> HIDE DEF n, Counted, Good
        <4> QED BY <4>2 DEF EachThen
      <3>2. Counted(k, a)
        BY <1>4, <3>1
      <3> HIDE DEF n
      <3> DEFINE New == Meant(p, c.location[n], M)
                 Old == MeantBy(p, c.location, k, M)
      <3>3. /\ b \in Seq(Locations) /\ IsFiniteSet(New)
            /\ Cardinality(Hits(b, M)) = Cardinality(New)
        BY <1>1, <2>1, <3>1, KeywordCount
      <3>4. ms \in Seq(Locations)
        BY <3>1, <3>2, <3>3, ConcatProperties
      <3>5. Cardinality(Hits(ms, M)) = Cardinality(Old) + Cardinality(New)
        <4>1. IsSeq(a) /\ IsSeq(b)
          BY <3>2, <3>3, SeqIsSeq
        <4> QED BY <3>1, <3>2, <3>3, <4>1, HitsConcat
      <3>6. MeantBy(p, c.location, n, M) = Old \cup Tagged(n, New)
        <4>1. 1..n = (1..k) \cup {n}
          BY <2>1
        <4> QED BY <4>1 DEF MeantBy, Tagged
      <3>7. IsFiniteSet(Tagged(n, New)) /\ Cardinality(Tagged(n, New)) = Cardinality(New)
        <4> HIDE DEF New
        <4> QED BY <3>3, TaggedCount
      <3>8. \A x \in Old : x \notin Tagged(n, New)
        <4>1. n \notin 1..k
          BY <2>1 DEF n
        <4> HIDE DEF New
        <4> QED BY <4>1 DEF MeantBy, Tagged
      <3>9. /\ IsFiniteSet(Old \cup Tagged(n, New))
            /\ Cardinality(Old \cup Tagged(n, New)) = Cardinality(Old) + Cardinality(Tagged(n, New))
        <4>1. IsFiniteSet(Old)
          BY <3>2
        <4> HIDE DEF New, Old
        <4> QED BY <3>7, <3>8, <4>1, DisjointCount
      <3> HIDE DEF New, Old
      <3> QED BY <3>4, <3>5, <3>6, <3>7, <3>9
    <2> QED BY <2>1, <2>2
  <1>5. N \in Good
    <2>1. 0..N \subseteq Good
      <3> HIDE DEF Good, N
      <3> QED BY <1>1, <1>3, <1>4, NoFirst
    <2> HIDE DEF Good
    <2> QED BY <1>1, <2>1
  <1> QED BY <1>2, <1>5

\* So what one order of the cards fits, every order does.
LEMMA FitsAlike ==
    ASSUME NEW p \in Plans, NEW c, c.location \in Seq(Locations \cup Keywords),
           NEW ls \in Expanded(Platform(p), c), Fits(c, ls),
           NEW ms \in Expanded(Platform(p), c)
    PROVE  Fits(c, ms)
  <1> SUFFICES ASSUME c.template = "slot" PROVE \A i \in DOMAIN ms : ms[i] \in Slotted
    BY DEF Fits
  <1> DEFINE M == Locations \ Slotted
  <1>1. ls \in Seq(Locations) /\ ms \in Seq(Locations) /\ Cardinality(Hits(ls, M)) = Cardinality(Hits(ms, M))
    <2> HIDE DEF M
    <2> QED BY ExpandedCount
  <1>2. /\ DOMAIN ls = 1..Len(ls) /\ Len(ls) \in Nat
        /\ DOMAIN ms = 1..Len(ms) /\ Len(ms) \in Nat
    BY <1>1, LenProperties
  <1>3. Hits(ls, M) = {}
    BY <1>2 DEF Hits, Fits
  <1>4. IsFiniteSet(Hits(ms, M))
    <2> HIDE DEF M
    <2> QED BY <1>2, HitsFinite
  <1>5. Hits(ms, M) = {}
    <2> HIDE DEF M
    <2> QED BY <1>1, <1>3, <1>4, FS_EmptySet
  <1>6. \A i \in 1..Len(ms) : ms[i] \in Locations
    BY <1>1, ElementOfSeq
  <1> QED BY <1>2, <1>5, <1>6 DEF Hits

-----------------------------------------------------------------------------
(* The types.                                                              *)

Texts == [command: Nat \ {0}, at: Locations \cup {"none"}]

\* A router that is connected has the cards its lines tell of, and a run that is not
\* over has a round to do.
TypeInv ==
    /\ TypeOK
    /\ todo \in Seq(Texts) /\ results \in Seq(Result)
    /\ pc # "over" => round < plan.rounds
    /\ pc = "connect" => cards = [rps |-> {}, lcs |-> {}]
    /\ pc \notin {"connect", "unreachable"} => cards = Platform(plan)

LEMMA CurrentType ==
    ASSUME TypeInv
    PROVE  /\ plan \in Plan /\ Len(plan.commands) \in Nat /\ cmd \in 1..Len(plan.commands)
           /\ Current \in Command
  <1>1. plan \in Plan /\ plan \in Plans /\ cmd \in DOMAIN plan.commands
    BY RunnerAssumption DEF TypeInv, TypeOK
  <1>2. plan.commands \in Seq(Command)
    BY <1>1 DEF Plan
  <1>3. DOMAIN plan.commands = 1..Len(plan.commands) /\ Len(plan.commands) \in Nat
    BY <1>2, LenProperties
  <1>4. Current \in Command
    BY <1>1, <1>2, <1>3, ElementOfSeq DEF Current
  <1> QED BY <1>1, <1>3, <1>4

LEMMA LogBound ==
    ASSUME NEW records, IsSeq(records), Log(records), refused \in Nat
    PROVE  refused' \in 0..MaxRefused
  <1>1. PICK lost \in SUBSET DOMAIN records :
          refused' = refused + Cardinality(lost) /\ refused' <= MaxRefused
    BY DEF Log
  <1>2. lost \in SUBSET (1..Len(records)) /\ Len(records) \in Nat
    BY <1>1, IsSeqElements
  <1>3. IsFiniteSet(1..Len(records))
    BY <1>2, FS_Interval
  <1>4. Cardinality(lost) \in Nat
    BY <1>2, <1>3, FS_Subset, FS_CardinalityType
  <1> QED BY <1>1, <1>4, RunnerAssumption

LEMMA ReturnTypes ==
    ASSUME TypeInv, NEW ok, NEW res, NEW s, Return(ok, res, s), UNCHANGED <<plan, cards>>,
           pc \in {"call", "send", "await"}, refused' \in 0..MaxRefused
    PROVE  TypeInv'
  <1>1. /\ todo' = <<>> /\ results' = <<>> /\ runs' = 0
        /\ pc' \in {"failed", "call", "over"}
    BY DEF Return
  <1>2. cmd \in 1..Len(plan.commands) /\ Len(plan.commands) \in Nat /\ plan.rounds \in Nat
        /\ DOMAIN plan.commands = 1..Len(plan.commands)
    BY CurrentType, LenProperties DEF Plan
  <1>3. round \in Nat /\ round < plan.rounds
    BY DEF TypeInv, TypeOK
  <1>4. /\ cmd' \in DOMAIN plan.commands /\ round' \in 0..plan.rounds
        /\ pc' # "over" => round' < plan.rounds
    <2>1. CASE pc' = "failed" /\ UNCHANGED <<cmd, round>>
      BY <1>2, <1>3, <2>1
    <2>2. CASE cmd < Len(plan.commands) /\ cmd' = cmd + 1 /\ UNCHANGED round
      BY <1>2, <1>3, <2>2
    <2>3. CASE /\ cmd' = 1 /\ round' = round + 1
               /\ pc' = IF round + 1 < plan.rounds THEN "call" ELSE "over"
      BY <1>2, <1>3, <2>3
    <2> QED BY <2>1, <2>2, <2>3 DEF Return
  <1>5. cards' = Platform(plan') /\ pc' \notin {"connect", "unreachable"}
    BY <1>1 DEF TypeInv
  <1>6. todo' \in Seq(Texts) /\ results' \in Seq(Result) /\ DOMAIN todo' = {} /\ DOMAIN results' = {}
    BY <1>1
  <1>7. TypeOK'
    BY <1>1, <1>4, <1>6 DEF TypeInv, TypeOK, Pcs
  <1> QED BY <1>1, <1>4, <1>5, <1>6, <1>7 DEF TypeInv

\* A step within a call.
LEMMA StepTypes ==
    ASSUME TypeInv, UNCHANGED <<plan, cards, cmd, round>>,
           pc \notin {"connect", "unreachable", "over"},
           pc' \in {"call", "send", "await", "tick", "panicked"},
           refused' \in 0..MaxRefused, runs' \in Nat,
           todo' \in Seq(Texts), results' \in Seq(Result),
           pc' \in {"send", "await", "tick"} => todo' # <<>>
    PROVE  TypeInv'
  <1>1. \A i \in DOMAIN todo' : todo'[i] \in Texts
    BY LenProperties, ElementOfSeq
  <1>2. \A i \in DOMAIN results' : results'[i] \in Result
    BY LenProperties, ElementOfSeq
  <1>3. TypeOK'
    BY <1>1, <1>2 DEF TypeInv, TypeOK, Pcs, Texts
  <1>4. cards' = Platform(plan')
    BY DEF TypeInv
  <1>5. round' < plan'.rounds
    BY DEF TypeInv
  <1> QED BY <1>3, <1>4, <1>5 DEF TypeInv

\* The locations of a call are locations, and so is what a template makes of them.
LEMMA TodoType ==
    ASSUME TypeInv, pc = "call", NEW ls \in Expanded(cards, Current), Fits(Current, ls)
    PROVE  /\ ls \in Seq(Locations)
           /\ \A i \in 1..Len(ls) : Format(Current, ls[i]) \in Locations
           /\ [i \in DOMAIN ls |-> Text(Format(Current, ls[i]))] \in Seq(Texts)
           /\ Len([i \in DOMAIN ls |-> Text(Format(Current, ls[i]))]) = Len(ls)
  <1>1. plan \in Plans /\ cards = Platform(plan) /\ Current \in Command /\ cmd \in Nat \ {0}
    BY CurrentType DEF TypeInv, TypeOK
  <1>2. Current.location \in Seq(Locations \cup Keywords)
    BY <1>1 DEF Command
  <1>3. ls \in Seq(Locations)
    <2>1. ls \in Expanded(Platform(plan), Current)
      BY <1>1
    <2> QED BY <1>1, <1>2, <2>1, ExpandedCount
  <1>4. DOMAIN ls = 1..Len(ls) /\ Len(ls) \in Nat /\ \A i \in 1..Len(ls) : ls[i] \in Locations
    BY <1>3, LenProperties, ElementOfSeq
  <1>5. ASSUME NEW i \in 1..Len(ls) PROVE Format(Current, ls[i]) \in Locations
    BY <1>4, RunnerAssumption DEF Fits, Format
  <1> DEFINE e == [i \in 1..Len(ls) |-> Text(Format(Current, ls[i]))]
  <1>6. \A i \in 1..Len(ls) : e[i] \in Texts
    BY <1>1, <1>5 DEF Text, Texts
  <1>7. e = [i \in 1..Len(ls) |-> e[i]]
    OBVIOUS
  <1>8. e \in Seq(Texts) /\ Len(e) = Len(ls)
    <2> HIDE DEF e
    <2>1. e \in Seq(Texts)
      BY <1>4, <1>6, <1>7, IsASeq
    <2> QED BY <1>4, <1>7, <2>1, LenProperties, IsSeqByDomain
  <1> QED BY <1>3, <1>4, <1>5, <1>8

LEMMA TypeInvInductive == AnswersInv /\ TypeInv /\ [Next]_vars => TypeInv'
  <1> SUFFICES ASSUME AnswersInv, TypeInv, [Next]_vars PROVE TypeInv'
    OBVIOUS
  <1>0. /\ todo \in Seq(Texts) /\ results \in Seq(Result) /\ runs \in Nat /\ refused \in 0..MaxRefused
        /\ cmd \in Nat \ {0} /\ Len(sent) \in Nat /\ MaxRefused \in Nat
    BY CurrentType, IsSeqElements, RunnerAssumption DEF TypeInv, TypeOK, AnswersInv, CallInv
  <1>1. CASE Connect
    <2>1. /\ UNCHANGED <<plan, round, cmd, todo, runs, results, refused>>
          /\ pc = "connect" /\ pc' \in {"call", "unreachable"}
          /\ cards = [rps |-> {}, lcs |-> {}]
      BY <1>1 DEF Connect, TypeInv
    <2>2. cards'.rps \subseteq Locations /\ cards'.lcs \subseteq Locations
          /\ (pc' = "call" => cards' = Platform(plan))
      <3>1. plan \in Plans
        BY DEF TypeInv, TypeOK
      <3>2. Platform(plan).rps \subseteq Locations /\ Platform(plan).lcs \subseteq Locations
        BY <3>1, PlatformType
      <3>3. CASE plan.kind # "xr"
        BY <1>1, <2>1, <3>3 DEF Connect, Platform, Ran
      <3>4. CASE plan.kind = "xr"
        <4>1. Platform(plan) = [rps |-> Running(plan, "rp"), lcs |-> Running(plan, "lc")]
          BY <3>4 DEF Platform, Ran
        <4> QED BY <1>1, <2>1, <3>2, <3>4, <4>1 DEF Connect
      <3> QED BY <3>3, <3>4
    <2>3. TypeOK'
      BY <2>1, <2>2 DEF TypeInv, TypeOK, Pcs
    <2> QED BY <2>1, <2>2, <2>3 DEF TypeInv
  <1>2. CASE Call
    <2>1. /\ pc = "call" /\ UNCHANGED <<plan, cards, refused>>
      BY <1>2 DEF Call
    <2>2. CASE \E ok \in BOOLEAN : Return(ok, <<>>, sent)
      <3>1. PICK ok \in BOOLEAN : Return(ok, <<>>, sent)
        BY <2>2
      <3> QED BY <1>0, <2>1, <3>1, ReturnTypes
    <2>3. CASE /\ pc' = "send" /\ UNCHANGED <<cmd, round, runs, results>>
               /\ todo' = <<Text("none")>>
      <3>1. <<Text("none")>> \in Seq(Texts) /\ <<Text("none")>> # <<>>
        BY <1>0 DEF Text, Texts
      <3> QED BY <1>0, <2>1, <2>3, <3>1, StepTypes
    <2>4. ASSUME NEW ls \in Expanded(cards, Current), Fits(Current, ls), ls # <<>>,
                 todo' = [i \in DOMAIN ls |-> Text(Format(Current, ls[i]))],
                 pc' = "send", UNCHANGED <<cmd, round, runs, results>>
          PROVE  TypeInv'
      <3>1. todo' \in Seq(Texts) /\ Len(todo') = Len(ls) /\ ls \in Seq(Locations)
        BY <2>1, <2>4, TodoType
      <3>2. todo' # <<>>
        BY <2>4, <3>1, EmptySeq
      <3> QED BY <1>0, <2>1, <2>4, <3>1, <3>2, StepTypes
    <2> QED BY <1>2, <2>2, <2>3, <2>4 DEF Call
  <1>3. CASE CallLocal
    <2>1. <<Text("none")>> \in Seq(Texts) /\ <<Text("none")>> # <<>>
      BY <1>0 DEF Text, Texts
    <2>2. /\ pc = "call" /\ pc' = "send" /\ todo' = <<Text("none")>>
          /\ UNCHANGED <<plan, cards, round, cmd, runs, results, refused>>
      BY <1>3 DEF CallLocal
    <2> QED BY <1>0, <2>1, <2>2, StepTypes
  \* The end of a location.
  <1>4. ASSUME NEW res \in Seq(Result), pc \in {"send", "await"}, NextLocation(res),
               UNCHANGED <<plan, cards>>, refused' \in 0..MaxRefused
        PROVE  TypeInv'
    <2>1. CASE Return(TRUE, res, sent')
      BY <1>4, <2>1, ReturnTypes
    <2>2. CASE /\ Len(todo) > 1 /\ todo' = Tail(todo) /\ runs' = 0 /\ results' = res
               /\ pc' = "send" /\ UNCHANGED <<cmd, round>>
      <3>1. todo # <<>>
        BY <2>2, EmptySeq
      <3>2. Tail(todo) \in Seq(Texts) /\ Len(Tail(todo)) = Len(todo) - 1 /\ Len(todo) \in Nat
        BY <1>0, <3>1, HeadTailProperties, LenProperties
      <3>3. Tail(todo) # <<>>
        <4>1. Len(Tail(todo)) # 0
          BY <2>2, <3>2
        <4>2. Len(<<>>) = 0
          OBVIOUS
        <4> QED BY <4>1, <4>2, Zenon
      <3> QED BY <1>0, <1>4, <2>2, <3>2, <3>3, StepTypes
    <2> QED BY <1>4, <2>1, <2>2 DEF NextLocation
  <1>5. ASSUME NEW records, IsSeq(records), Give(records) PROVE TypeInv'
    <2>1. pc = "send" /\ UNCHANGED <<plan, cards>> /\ todo # <<>>
      BY <1>5 DEF Give, TypeInv, TypeOK
    <2>2. CASE pc' = "panicked" /\ UNCHANGED <<cmd, round, todo, runs, results, refused>>
      BY <1>0, <2>1, <2>2, StepTypes
    <2>5. CASE Return(FALSE, <<>>, sent) /\ UNCHANGED refused
      BY <1>0, <2>1, <2>5, ReturnTypes
    <2>3. CASE UNCHANGED refused /\ NextLocation(results)
      BY <1>0, <1>4, <2>1, <2>3
    <2>4. CASE Log(records) /\ pc' = "await" /\ UNCHANGED <<cmd, round, todo, runs, results>>
      <3>1. refused' \in 0..MaxRefused
        BY <1>0, <1>5, <2>4, LogBound
      <3> QED BY <1>0, <2>1, <2>4, <3>1, StepTypes
    <2> QED BY <1>5, <2>2, <2>3, <2>4, <2>5 DEF Give
  <1>6. ASSUME NEW records, IsSeq(records), Keep(records) PROVE TypeInv'
    <2> DEFINE r == [text |-> Head(todo), nth |-> Len(sent)]
               res == Append(results, r)
    <2>1. pc = "await" /\ UNCHANGED <<plan, cards>> /\ todo # <<>> /\ Log(records)
      BY <1>6 DEF Keep, TypeInv, TypeOK
    <2>2. refused' \in 0..MaxRefused
      BY <1>0, <1>6, <2>1, LogBound
    <2>3. Head(todo) \in Texts
      BY <1>0, <2>1, HeadTailProperties
    <2>4. Len(sent) \in Nat \ {0}
      BY <1>0, <2>1, IsSeqElements DEF AnswersInv, CallInv
    <2>5. r \in Result
      BY <2>3, <2>4 DEF Result, Texts
    <2>6. res \in Seq(Result)
      <3> HIDE DEF r
      <3> QED BY <1>0, <2>5, AppendProperties
    <2>7. CASE /\ pc' = "tick" /\ runs' = runs + 1 /\ results' = res /\ UNCHANGED <<cmd, round, todo>>
      <3> HIDE DEF res
      <3>1. runs' \in Nat
        BY <1>0, <2>7
      <3> QED BY <1>0, <2>1, <2>2, <2>6, <2>7, <3>1, StepTypes
    <2>8. CASE NextLocation(res)
      <3> HIDE DEF res
      <3> QED BY <1>4, <2>1, <2>2, <2>6, <2>8
    <2> QED BY <1>6, <2>7, <2>8 DEF Keep
  <1>7. CASE Fail \/ Timeout
    <2>1. /\ pc = "await" /\ Return(FALSE, <<>>, sent) /\ UNCHANGED <<plan, cards, refused>>
      BY <1>7 DEF Fail, Timeout
    <2> QED BY <1>0, <2>1, ReturnTypes
  <1>8. CASE Tick
    <2>1. /\ pc = "tick" /\ pc' = "send" /\ todo # <<>>
          /\ UNCHANGED <<plan, cards, round, cmd, todo, runs, results, refused>>
      BY <1>8 DEF Tick, TypeInv, TypeOK
    <2> QED BY <1>0, <2>1, StepTypes
  <1>9. CASE UNCHANGED vars
    <2>1. TypeOK'
      BY <1>9 DEF vars, TypeInv, TypeOK
    <2> QED BY <1>9, <2>1 DEF vars, TypeInv
  <1>10. CASE Send \/ Execute
    BY <1>5, <1>10, IsSeqEmpty, IsSeqOne DEF Send, Execute
  <1>11. CASE Answer \/ Completed
    BY <1>6, <1>11, IsSeqOne, IsSeqTwo DEF Answer, Completed
  <1> QED BY <1>1, <1>2, <1>3, <1>7, <1>8, <1>9, <1>10, <1>11 DEF Next, Own, Ended

LEMMA TypeInvInitially == Init => TypeInv
  <1> SUFFICES ASSUME Init PROVE TypeInv
    OBVIOUS
  <1>1. plan \in Plans /\ plan \in Plan
    BY RunnerAssumption DEF Init
  <1>2. plan.commands \in Seq(Command) /\ plan.commands # <<>> /\ plan.rounds \in Nat \ {0}
    BY <1>1 DEF Plan
  <1>3. DOMAIN plan.commands = 1..Len(plan.commands) /\ Len(plan.commands) \in Nat \ {0}
    BY <1>2, LenProperties, EmptySeq
  <1>4. cmd \in DOMAIN plan.commands
    BY <1>3 DEF Init
  <1>5. DOMAIN todo = {} /\ DOMAIN results = {} /\ todo \in Seq(Texts) /\ results \in Seq(Result)
    BY DEF Init
  <1>6. TypeOK
    BY <1>1, <1>2, <1>4, <1>5, RunnerAssumption DEF Init, TypeOK, Pcs
  <1> QED BY <1>2, <1>5, <1>6 DEF Init, TypeInv

\* The caller is at a statement of the code, and its locals are of their types: a
\* template never makes something of a location that is none, and a command stays one
\* of the file.
THEOREM RunnerTypes == Spec => []TypeOK
  <1>1. TypeInv => TypeOK
    BY DEF TypeInv
  <1> QED BY <1>1, AnswersInvInitially, AnswersInvInductive, TypeInvInitially, TypeInvInductive, PTL DEF Spec

-----------------------------------------------------------------------------
(* Failure.                                                                *)

\* Whatever order the maps give, the template can be filled in.
AllFit == \A ls \in Expanded(cards, Current) : Fits(Current, ls)

\* Only the last call has failed, and what is being sent fits.
CleanInv ==
    /\ FailureIsClean
    /\ pc # "failed" => \A n \in DOMAIN calls : calls[n].ok
    /\ pc \in {"send", "await", "tick"} /\ plan.kind # "local" /\ Current.location # <<>> => AllFit

LEMMA ReturnIsClean ==
    ASSUME AnswersInv, CleanInv, pc # "failed", UNCHANGED <<plan, cards>>,
           NEW ok \in BOOLEAN, NEW res, Return(ok, res, sent'),
           ~ok /\ Len(sent') >= Base + 1 /\ Current.location # <<>> /\ plan.kind # "local" => AllFit
    PROVE  CleanInv'
  <1> DEFINE c == [command |-> cmd, ok |-> ok, results |-> IF Current.collect THEN res ELSE <<>>,
                   from |-> Base + 1, to |-> Len(sent')]
  <1>1. IsSeq(calls) /\ Len(calls) \in Nat /\ DOMAIN calls = 1..Len(calls)
    BY IsSeqElements DEF AnswersInv, CallInv
  <1>2. calls' = Append(calls, c)
    BY DEF Return, Base
  <1>3. /\ IsSeq(calls') /\ Len(calls') = Len(calls) + 1 /\ DOMAIN calls' = 1..(Len(calls) + 1)
        /\ \A n \in 1..Len(calls) : calls'[n] = calls[n]
        /\ calls'[Len(calls) + 1] = c
    <2> HIDE DEF c
    <2> QED BY <1>1, <1>2, IsSeqAppend, IsSeqElements
  <1>4. \A n \in 1..Len(calls) : calls'[n].ok
    BY <1>1, <1>3 DEF CleanInv
  <1>5. pc' = "failed" => ~ok
    BY DEF Return
  <1>6. ~ok => pc' = "failed"
    BY DEF Return
  <1>7. pc' \notin {"send", "await", "tick"}
    BY DEF Return
  <1>8. CASE ok
    <2>1. \A n \in DOMAIN calls' : calls'[n].ok
      <3>1. c.ok
        BY <1>8
      <3> HIDE DEF c
      <3> QED BY <1>1, <1>3, <1>4, <3>1
    <2> QED BY <1>7, <2>1 DEF CleanInv, FailureIsClean
  <1>9. CASE ~ok
    <2> DEFINE last == Len(calls) + 1
    <2>1. \A n \in DOMAIN calls' : n = last \/ calls'[n].ok
      BY <1>1, <1>3, <1>4
    <2>2. /\ calls'[last].to = Len(sent') /\ calls'[last].from = Base + 1
          /\ plan.commands[calls'[last].command] = Current
      <3>1. c.to = Len(sent') /\ c.from = Base + 1 /\ plan.commands[c.command] = Current
        BY DEF Current
      <3> HIDE DEF c
      <3> QED BY <1>3, <3>1
    <2>3. \A n \in DOMAIN calls' : ~calls'[n].ok =>
            LET d == plan.commands[calls'[n].command]
            IN  /\ n = Len(calls') /\ Len(sent') = calls'[n].to
                /\ calls'[n].to >= calls'[n].from /\ d.location # <<>> /\ plan.kind # "local" =>
                     \A ls \in Expanded(cards, d) : Fits(d, ls)
      <3> HIDE DEF c
      <3> QED BY <1>3, <1>9, <2>1, <2>2 DEF AllFit
    <2>4. FailureIsClean'
      <3> HIDE DEF c
      <3> QED BY <2>3 DEF FailureIsClean
    <2> QED BY <1>6, <1>7, <1>9, <2>4 DEF CleanInv
  <1> QED BY <1>8, <1>9

\* A step within a call.
LEMMA StepIsClean ==
    ASSUME CleanInv, pc # "failed", UNCHANGED <<plan, cards, cmd, calls>>,
           pc' \in {"send", "await", "tick"} /\ plan.kind # "local" /\ Current.location # <<>> =>
             pc \in {"send", "await", "tick"} \/ AllFit
    PROVE  CleanInv'
  <1>1. \A n \in DOMAIN calls' : calls'[n].ok
    BY DEF CleanInv
  <1>2. FailureIsClean'
    BY <1>1 DEF FailureIsClean
  <1>3. AllFit => AllFit'
    BY DEF AllFit, Current
  <1>4. Current' = Current
    BY DEF Current
  <1> QED BY <1>1, <1>2, <1>3, <1>4 DEF CleanInv

LEMMA CleanInvInductive == AnswersInv /\ TypeInv /\ CleanInv /\ [Next]_vars => CleanInv'
  <1> SUFFICES ASSUME AnswersInv, TypeInv, CleanInv, [Next]_vars PROVE CleanInv'
    OBVIOUS
  <1>1. CASE Connect
    <2>1. pc = "connect" /\ pc' \in {"call", "unreachable"} /\ UNCHANGED <<plan, cmd, calls, sent>>
      BY <1>1 DEF Connect
    <2>2. \A n \in DOMAIN calls' : calls'[n].ok
      BY <2>1 DEF CleanInv
    <2>3. FailureIsClean'
      BY <2>2 DEF FailureIsClean
    <2> QED BY <2>1, <2>2, <2>3 DEF CleanInv
  <1>2. CASE Call
    <2>1. pc = "call" /\ UNCHANGED <<plan, cards, sent>>
      BY <1>2 DEF Call
    <2>2. CASE \E ok \in BOOLEAN : Return(ok, <<>>, sent)
      <3>1. PICK ok \in BOOLEAN : Return(ok, <<>>, sent')
        BY <2>1, <2>2
      <3>2. Len(sent') = Base + Len(results) /\ results = <<>> /\ Base \in Nat /\ Len(<<>>) = 0
        BY <2>1 DEF AnswersInv, CallInv
      <3>3. ~(Len(sent') >= Base + 1)
        BY <3>2
      <3> QED BY <2>1, <3>1, <3>3, ReturnIsClean
    <2>3. CASE Current.location = <<>> /\ UNCHANGED <<cmd, calls>>
      BY <2>1, <2>3, StepIsClean
    <2>4. ASSUME NEW ls \in Expanded(cards, Current), Fits(Current, ls), UNCHANGED <<cmd, calls>>
          PROVE  CleanInv'
      <3>1. plan \in Plans /\ cards = Platform(plan) /\ Current \in Command
        BY <2>1, CurrentType DEF TypeInv, TypeOK
      <3>2. Current.location \in Seq(Locations \cup Keywords)
        BY <3>1 DEF Command
      <3>3. ls \in Expanded(Platform(plan), Current)
        BY <2>4, <3>1
      <3>4. \A ms \in Expanded(Platform(plan), Current) : Fits(Current, ms)
        BY <2>4, <3>1, <3>2, <3>3, FitsAlike
      <3>5. AllFit
        BY <3>1, <3>4 DEF AllFit
      <3> QED BY <2>1, <2>4, <3>5, StepIsClean
    <2> QED BY <1>2, <2>2, <2>3, <2>4 DEF Call
  <1>3. CASE CallLocal
    BY <1>3, StepIsClean DEF CallLocal
  <1>4. ASSUME NEW res, pc \in {"send", "await"}, NextLocation(res), UNCHANGED <<plan, cards>>
        PROVE  CleanInv'
    <2>1. CASE Return(TRUE, res, sent')
      BY <1>4, <2>1, ReturnIsClean
    <2>2. CASE UNCHANGED <<cmd, calls>>
      BY <1>4, <2>2, StepIsClean
    <2> QED BY <1>4, <2>1, <2>2 DEF NextLocation
  <1>5. ASSUME NEW records, Give(records) PROVE CleanInv'
    <2>1. pc = "send" /\ UNCHANGED <<plan, cards>>
      BY <1>5 DEF Give
    <2>2. CASE UNCHANGED <<cmd, calls>> /\ pc' \in {"await", "panicked"}
      BY <2>1, <2>2, StepIsClean
    \* A location the text of the command does not take.
    <2>3. CASE Return(FALSE, <<>>, sent) /\ UNCHANGED sent
      <3>1. Current.location # <<>> /\ plan.kind # "local" => AllFit
        BY <2>1 DEF CleanInv
      <3> QED BY <2>1, <2>3, <3>1, ReturnIsClean
    <2>4. CASE NextLocation(results)
      BY <1>4, <2>1, <2>4
    <2> QED BY <1>5, <2>2, <2>3, <2>4 DEF Give
  <1>6. ASSUME NEW records, Keep(records) PROVE CleanInv'
    <2>1. pc = "await" /\ UNCHANGED <<plan, cards>>
      BY <1>6 DEF Keep
    <2>2. CASE UNCHANGED <<cmd, calls>>
      BY <2>1, <2>2, StepIsClean
    <2> QED BY <1>4, <1>6, <2>1, <2>2 DEF Keep
  <1>7. CASE Fail \/ Timeout
    <2>1. /\ pc = "await" /\ Return(FALSE, <<>>, sent') /\ UNCHANGED <<plan, cards, sent>>
      BY <1>7 DEF Fail, Timeout
    <2>2. Current.location # <<>> /\ plan.kind # "local" => AllFit
      BY <2>1 DEF CleanInv
    <2> QED BY <2>1, <2>2, ReturnIsClean
  <1>8. CASE Tick
    BY <1>8, StepIsClean DEF Tick
  <1>9. CASE UNCHANGED vars
    BY <1>9 DEF vars, CleanInv, FailureIsClean, AllFit, Current
  <1> QED BY <1>1, <1>2, <1>3, <1>5, <1>6, <1>7, <1>8, <1>9
          DEF Next, Own, Send, Execute, Answer, Completed, Ended

\* After a failure nothing more is sent, and nothing is sent of a command before every
\* location it names is known to fit its template, in whatever order the map of cards
\* gives them, and the templates are parsed (router.go:203-215, 244-285).
THEOREM FailuresAreClean == Spec => []FailureIsClean
  <1>1. Init => CleanInv
    BY IsSeqEmpty DEF Init, CleanInv, FailureIsClean
  <1>2. CleanInv => FailureIsClean
    BY DEF CleanInv
  <1> QED BY <1>1, <1>2, AnswersInvInitially, AnswersInvInductive, TypeInvInitially, TypeInvInductive,
             CleanInvInductive, PTL DEF Spec

-----------------------------------------------------------------------------
(* How often a command is sent where.                                      *)

Places == Locations \cup {"none"}
TextsAt(at) == {t \in Texts : t.at = at}

\* Which of a stretch of what was sent went to a place.
SentAt(s, first, last, at) == {i \in first..last : s[i].text.at = at}

\* Runs of the command in hand that are on their way.
Underway == IF pc = "await" THEN 1 ELSE 0

\* How often sendCommand runs a command it does not panic on, and how often a call
\* that succeeds sends it to a place.
TimesSent(c) == IF c.interval <= 0 \/ c.times = 0 THEN 1 ELSE IF c.times < 0 THEN 0 ELSE c.times
Due(p, c, at) ==
    IF p.kind = "local" \/ c.location = <<>> THEN IF at = "none" THEN TimesSent(c) ELSE 0
    ELSE LET places == {l \in Locations : Format(c, l) = at}
         IN  TimesSent(c) *
             Cardinality(UNION {{i} \X Meant(p, c.location[i], places) : i \in DOMAIN c.location})

\* That is what the file asks for, where it has a form the documents give.
LEMMA DueIsAsked ==
    ASSUME NEW p, NEW c \in Command, Documented(c), NEW at
    PROVE  Due(p, c, at) = Asked(p, c, at)
  <1>1. TimesSent(c) = TimesAsked(c)
    BY DEF Documented, Command, TimesSent, TimesAsked
  <1> QED BY <1>1 DEF Due, Asked

\* What this call has still to send to a place, the command in hand and the ones
\* after it.
StillFor(at) ==
    TimesSent(Current) * Cardinality(Hits(Tail(todo), TextsAt(at)))
        + (IF todo[1].at = at THEN TimesSent(Current) - runs - Underway ELSE 0)

\* What this call has sent to a place, and what it has still to send there, is what
\* is due.
CountInv ==
    /\ pc \in {"connect", "call"} => runs = 0
    /\ pc \in {"send", "await", "tick"} =>
         /\ runs + Underway <= TimesSent(Current)
         /\ pc # "send" => ~Panics(Current)
         /\ pc = "tick" => Ticks(Current)
         /\ ~Ticks(Current) => runs = 0
         /\ \A at \in Places :
              Cardinality(SentAt(sent, Base + 1, Len(sent), at)) + StillFor(at)
                  = Due(plan, Current, at)

ServedInv == CountInv /\ EveryCardServed

LEMMA TimesFacts ==
    ASSUME NEW c \in Command, NEW n \in Nat, n <= TimesSent(c)
    PROVE  /\ TimesSent(c) \in Nat
           /\ ~Ticks(c) => TimesSent(c) = 1
           /\ Panics(c) => TimesSent(c) = 1
           /\ ~Panics(c) /\ n >= Repeats(c) => n = TimesSent(c)
           /\ ~Panics(c) /\ ~(n >= Repeats(c)) => n + 1 <= TimesSent(c)
  BY DEF Command, TimesSent, Ticks, Panics, Repeats

LEMMA HitsOne ==
    ASSUME NEW x, NEW M
    PROVE  Cardinality(Hits(<<x>>, M)) = IF x \in M THEN 1 ELSE 0
  <1>1. Len(<<x>>) = 1 /\ <<x>>[1] = x /\ 1..1 = {1}
    OBVIOUS
  <1>2. CASE x \in M
    <2>1. Hits(<<x>>, M) = {1}
      BY <1>1, <1>2 DEF Hits
    <2> QED BY <1>2, <2>1, FS_Singleton
  <1>3. CASE x \notin M
    <2>1. Hits(<<x>>, M) = {}
      BY <1>1, <1>3 DEF Hits
    <2> QED BY <1>3, <2>1, FS_EmptySet
  <1> QED BY <1>2, <1>3

\* The first of a list, and the others.
LEMMA HitsFirst ==
    ASSUME NEW S, NEW s \in Seq(S), s # <<>>, NEW M
    PROVE  /\ Cardinality(Hits(Tail(s), M)) \in Nat
           /\ Cardinality(Hits(s, M)) = Cardinality(Hits(Tail(s), M)) + (IF s[1] \in M THEN 1 ELSE 0)
  <1>1. /\ Tail(s) \in Seq(S) /\ Len(Tail(s)) = Len(s) - 1 /\ Len(s) \in Nat /\ Len(s) # 0
        /\ \A i \in 1..Len(Tail(s)) : Tail(s)[i] = s[i + 1]
    BY HeadTailProperties, LenProperties, EmptySeq
  <1>2. IsSeq(s) /\ IsSeq(Tail(s)) /\ IsSeq(<<s[1]>>) /\ Len(<<s[1]>>) = 1 /\ <<s[1]>>[1] = s[1]
    BY <1>1, SeqIsSeq, IsSeqOne
  <1> DEFINE u == <<s[1]>> \o Tail(s)
  <1>3. /\ IsSeq(u) /\ Len(u) = 1 + Len(Tail(s)) /\ u[1] = s[1]
        /\ \A i \in 1..Len(Tail(s)) : u[1 + i] = Tail(s)[i]
    BY <1>2, IsSeqConcat
  <1>4. s = u
    <2>1. Len(s) = Len(u)
      <3> HIDE DEF u
      <3> QED BY <1>1, <1>3
    <2>2. ASSUME NEW i \in 1..Len(s) PROVE s[i] = u[i]
      <3> HIDE DEF u
      <3>1. CASE i = 1
        BY <1>3, <3>1
      <3>2. CASE i # 1
        <4>1. i - 1 \in 1..Len(Tail(s)) /\ 1 + (i - 1) = i /\ (i - 1) + 1 = i
          BY <1>1, <3>2
        <4> QED BY <1>1, <1>3, <4>1
      <3> QED BY <3>1, <3>2
    <2> HIDE DEF u
    <2> QED BY <1>2, <1>3, <2>1, <2>2, IsSeqEqual
  <1>5. Cardinality(Hits(u, M)) = Cardinality(Hits(<<s[1]>>, M)) + Cardinality(Hits(Tail(s), M))
    BY <1>2, HitsConcat
  <1>6. Cardinality(Hits(Tail(s), M)) \in Nat
    BY <1>1, HitsFinite
  <1>7. Cardinality(Hits(s, M)) = Cardinality(Hits(<<s[1]>>, M)) + Cardinality(Hits(Tail(s), M))
    <2> HIDE DEF u
    <2> QED BY <1>4, <1>5
  <1>8. Cardinality(Hits(<<s[1]>>, M)) = IF s[1] \in M THEN 1 ELSE 0
    BY HitsOne
  <1> QED BY <1>6, <1>7, <1>8

\* n copies of a list are n of its first and n of the others.
LEMMA CopiesOf ==
    ASSUME NEW n \in Nat, NEW a \in Nat, NEW first \in BOOLEAN
    PROVE  n * (a + (IF first THEN 1 ELSE 0)) = n * a + (IF first THEN n ELSE 0)
  OBVIOUS

LEMMA SentAtFinite ==
    ASSUME NEW s, NEW a \in Nat, NEW b \in Nat, NEW at
    PROVE  IsFiniteSet(SentAt(s, a, b, at)) /\ Cardinality(SentAt(s, a, b, at)) \in Nat
  <1>1. IsFiniteSet(a..b) /\ SentAt(s, a, b, at) \in SUBSET (a..b)
    BY FS_Interval DEF SentAt
  <1> QED BY <1>1, FS_Subset, FS_CardinalityType

\* One more is sent.
Goes(entry, at) == IF entry.text.at = at THEN 1 ELSE 0

LEMMA SentAtGrows ==
    ASSUME NEW s, NEW u, NEW a \in Nat, NEW b \in Nat, a <= b + 1,
           \A i \in a..b : u[i] = s[i], NEW at
    PROVE  Cardinality(SentAt(u, a, b + 1, at))
               = Cardinality(SentAt(s, a, b, at)) + Goes(u[b + 1], at)
  <1> DEFINE S == SentAt(s, a, b, at)
  <1>1. IsFiniteSet(S) /\ Cardinality(S) \in Nat /\ b + 1 \notin S
    <2>1. S \subseteq a..b /\ b + 1 \notin a..b
      BY DEF SentAt
    <2>2. IsFiniteSet(S) /\ Cardinality(S) \in Nat
      BY SentAtFinite
    <2> HIDE DEF S
    <2> QED BY <2>1, <2>2
  <1>2. a..(b + 1) = (a..b) \cup {b + 1}
    OBVIOUS
  <1>3. CASE u[b + 1].text.at = at
    <2>1. SentAt(u, a, b + 1, at) = S \cup {b + 1}
      BY <1>2, <1>3 DEF SentAt
    <2> QED BY <1>1, <1>3, <2>1, FS_AddElement DEF Goes
  <1>4. CASE u[b + 1].text.at # at
    <2>1. SentAt(u, a, b + 1, at) = S
      BY <1>2, <1>4 DEF SentAt
    <2> QED BY <1>1, <1>4, <2>1 DEF Goes
  <1> QED BY <1>3, <1>4

-----------------------------------------------------------------------------
(* Earlier calls, and the end of one.                                      *)

LEMMA ServedStays ==
    ASSUME AnswersInv, EveryCardServed, UNCHANGED <<plan, calls>>,
           \A i \in 1..Base : sent'[i].text = sent[i].text
    PROVE  EveryCardServed'
  <1>1. ASSUME NEW n \in DOMAIN calls, NEW i \in SentIn(calls[n]) PROVE sent'[i].text = sent[i].text
    <2>1. /\ calls[n].from \in Nat \ {0} /\ calls[n].to \in Nat /\ calls[n].to <= Base
          /\ Base \in Nat
      BY DEF AnswersInv, PastInv, CallInv
    <2> QED BY <1>1, <2>1 DEF SentIn
  <1>2. ASSUME NEW n \in DOMAIN calls, NEW at
        PROVE  {i \in SentIn(calls[n]) : sent'[i].text.at = at} = {i \in SentIn(calls[n]) : sent[i].text.at = at}
    BY <1>1
  <1>3. ASSUME NEW n \in DOMAIN calls, calls[n].ok, Documented(plan.commands[calls[n].command]),
               NEW at \in Locations \cup {"none"}
        PROVE  Cardinality({i \in SentIn(calls[n]) : sent'[i].text.at = at})
                   = Asked(plan, plan.commands[calls[n].command], at)
    BY <1>2, <1>3 DEF EveryCardServed, Served
  <1> QED BY <1>3 DEF EveryCardServed, Served, SentIn

LEMMA ReturnServes ==
    ASSUME AnswersInv, TypeInv, EveryCardServed, plan' = plan,
           NEW ok \in BOOLEAN, NEW res, Return(ok, res, sent'),
           \A i \in 1..Base : sent'[i].text = sent[i].text,
           ok => \A at \in Places :
                   Cardinality(SentAt(sent', Base + 1, Len(sent'), at)) = Due(plan, Current, at)
    PROVE  EveryCardServed'
  <1> DEFINE c == [command |-> cmd, ok |-> ok, results |-> IF Current.collect THEN res ELSE <<>>,
                   from |-> Base + 1, to |-> Len(sent')]
  <1>1. IsSeq(calls) /\ Len(calls) \in Nat /\ DOMAIN calls = 1..Len(calls)
    BY IsSeqElements DEF AnswersInv, CallInv
  <1>2. calls' = Append(calls, c)
    BY DEF Return, Base
  <1>3. /\ DOMAIN calls' = 1..(Len(calls) + 1)
        /\ \A n \in 1..Len(calls) : calls'[n] = calls[n]
        /\ calls'[Len(calls) + 1] = c
    <2> HIDE DEF c
    <2> QED BY <1>1, <1>2, IsSeqAppend, IsSeqElements
  <1>4. ASSUME NEW n \in 1..Len(calls), calls[n].ok, Documented(plan.commands[calls[n].command]),
               NEW at \in Places
        PROVE  Cardinality({i \in SentIn(calls[n]) : sent'[i].text.at = at})
                   = Asked(plan, plan.commands[calls[n].command], at)
    <2>1. /\ calls[n].from \in Nat \ {0} /\ calls[n].to \in Nat /\ calls[n].to <= Base
          /\ Base \in Nat
      BY <1>1 DEF AnswersInv, PastInv, CallInv
    <2>2. \A i \in SentIn(calls[n]) : sent'[i].text = sent[i].text
      BY <2>1 DEF SentIn
    <2>3. {i \in SentIn(calls[n]) : sent'[i].text.at = at} = {i \in SentIn(calls[n]) : sent[i].text.at = at}
      BY <2>2
    <2> QED BY <1>1, <1>4, <2>3 DEF EveryCardServed, Served, Places
  <1>5. ASSUME ok, Documented(plan.commands[c.command]), NEW at \in Places
        PROVE  Cardinality({i \in SentIn(c) : sent'[i].text.at = at}) = Asked(plan, plan.commands[c.command], at)
    <2>1. {i \in SentIn(c) : sent'[i].text.at = at} = SentAt(sent', Base + 1, Len(sent'), at)
      BY DEF SentIn, SentAt
    <2>2. plan.commands[c.command] = Current
      BY DEF Current
    <2> HIDE DEF c
    <2>3. Due(plan, Current, at) = Asked(plan, Current, at)
      BY <1>5, <2>2, CurrentType, DueIsAsked
    <2> QED BY <1>5, <2>1, <2>2, <2>3
  <1>6. c.ok <=> ok
    OBVIOUS
  <1>7. ASSUME NEW n \in DOMAIN calls', calls'[n].ok, Documented(plan.commands[calls'[n].command]),
               NEW at \in Places
        PROVE  Cardinality({i \in SentIn(calls'[n]) : sent'[i].text.at = at})
                   = Asked(plan, plan.commands[calls'[n].command], at)
    <2> HIDE DEF c
    <2>1. CASE n \in 1..Len(calls)
      <3>1. calls'[n] = calls[n]
        BY <1>3, <2>1
      <3> QED BY <1>4, <1>7, <2>1, <3>1
    <2>2. CASE n = Len(calls) + 1
      <3>1. calls'[n] = c
        BY <1>3, <2>2
      <3> QED BY <1>5, <1>6, <1>7, <3>1
    <2> QED BY <1>1, <1>3, <1>7, <2>1, <2>2
  <1> HIDE DEF c
  <1> QED BY <1>7 DEF EveryCardServed, Served, Places, SentIn

\* At the end of a location only the ones behind it are left.
LEMMA NextLocationServes ==
    ASSUME AnswersInv, TypeInv, EveryCardServed, NEW res, pc \in {"send", "await"},
           NextLocation(res), UNCHANGED <<plan, cards>>,
           \A i \in 1..Base : sent'[i].text = sent[i].text,
           \A at \in Places :
              Cardinality(SentAt(sent', Base + 1, Len(sent'), at))
                  + TimesSent(Current) * Cardinality(Hits(Tail(todo), TextsAt(at)))
                = Due(plan, Current, at),
           Len(sent') \in Nat, TimesSent(Current) \in Nat
    PROVE  ServedInv'
  <1>1. /\ todo \in Seq(Texts) /\ todo # <<>> /\ Base \in Nat
        /\ Len(todo) \in Nat /\ Len(todo) # 0
        /\ Tail(todo) \in Seq(Texts) /\ Len(Tail(todo)) = Len(todo) - 1
    <2>1. todo \in Seq(Texts) /\ todo # <<>> /\ Base \in Nat
      BY DEF TypeInv, TypeOK, AnswersInv, CallInv
    <2> QED BY <2>1, HeadTailProperties, LenProperties, EmptySeq
  <1>2. \A at \in Places : Cardinality(SentAt(sent', Base + 1, Len(sent'), at)) \in Nat
    BY <1>1, SentAtFinite
  <1>3. CASE Len(todo) > 1
    <2>1. /\ todo' = Tail(todo) /\ runs' = 0 /\ pc' = "send" /\ UNCHANGED <<cmd, calls>>
      BY <1>3 DEF NextLocation
    <2>2. Base' = Base /\ Current' = Current /\ plan' = plan /\ Underway' = 0
      BY <2>1 DEF Base, Current, Underway
    <2>3. Tail(todo) # <<>>
      <3>1. Len(Tail(todo)) # 0
        BY <1>1, <1>3
      <3>2. Len(<<>>) = 0
        OBVIOUS
      <3> QED BY <3>1, <3>2, Zenon
    <2> DEFINE t == Tail(todo)
               n == TimesSent(Current)
    <2>4. ASSUME NEW at \in Places
          PROVE  Cardinality(SentAt(sent', Base + 1, Len(sent'), at))
                    + (n * Cardinality(Hits(Tail(t), TextsAt(at))) + (IF t[1].at = at THEN n ELSE 0))
                 = Due(plan, Current, at)
      <3> DEFINE a == Cardinality(Hits(Tail(t), TextsAt(at)))
                 first == t[1].at = at
      <3>1. t[1] \in Texts
        BY <1>1, <1>3, ElementOfSeq
      <3>2. t[1] \in TextsAt(at) <=> first
        BY <3>1 DEF TextsAt
      <3>3. a \in Nat /\ Cardinality(Hits(t, TextsAt(at))) = a + (IF first THEN 1 ELSE 0)
        <4>1. /\ Cardinality(Hits(Tail(t), TextsAt(at))) \in Nat
              /\ Cardinality(Hits(t, TextsAt(at)))
                   = Cardinality(Hits(Tail(t), TextsAt(at))) + (IF t[1] \in TextsAt(at) THEN 1 ELSE 0)
          <5>1. t \in Seq(Texts) /\ t # <<>>
            BY <1>1, <2>3
          <5> HIDE DEF t
          <5> QED BY <5>1, HitsFirst
        <4> QED BY <3>2, <4>1
      <3>4. n * (a + (IF first THEN 1 ELSE 0)) = n * a + (IF first THEN n ELSE 0)
        <4>1. n \in Nat /\ first \in BOOLEAN
          OBVIOUS
        <4> HIDE DEF n, a, first
        <4> QED BY <3>3, <4>1, CopiesOf
      <3>5. Cardinality(SentAt(sent', Base + 1, Len(sent'), at)) + n * Cardinality(Hits(t, TextsAt(at)))
              = Due(plan, Current, at)
        OBVIOUS
      <3> HIDE DEF n, t
      <3>6. n * Cardinality(Hits(t, TextsAt(at))) = n * a + (IF first THEN n ELSE 0)
        <4> HIDE DEF a, first
        <4> QED BY <3>3, <3>4
      <3> QED BY <3>5, <3>6
    <2>5. ASSUME NEW at \in Places
          PROVE  Cardinality(SentAt(sent', Base' + 1, Len(sent'), at)) + StillFor(at)'
                     = Due(plan', Current', at)
      <3>1. StillFor(at)' = TimesSent(Current') * Cardinality(Hits(Tail(todo'), TextsAt(at)))
                              + (IF todo'[1].at = at THEN TimesSent(Current') - runs' - Underway' ELSE 0)
        BY DEF StillFor
      <3>2. n - 0 - 0 = n
        OBVIOUS
      <3>3. StillFor(at)' = n * Cardinality(Hits(Tail(t), TextsAt(at))) + (IF t[1].at = at THEN n ELSE 0)
        <4> HIDE DEF n, t
        <4> QED BY <2>1, <2>2, <3>1, <3>2 DEF n, t
      <3> QED BY <2>2, <2>4, <3>3
    <2>6. CountInv'
      <3>1. /\ pc' = "send" /\ runs' = 0 /\ runs' + Underway' <= TimesSent(Current')
        BY <2>1, <2>2
      <3> QED BY <2>5, <3>1 DEF CountInv
    <2>7. EveryCardServed'
      BY <2>1, ServedStays
    <2> QED BY <2>6, <2>7 DEF ServedInv
  <1>4. CASE ~(Len(todo) > 1)
    <2>1. Return(TRUE, res, sent')
      BY <1>4 DEF NextLocation
    <2>2. ASSUME NEW at \in Places
          PROVE  Cardinality(SentAt(sent', Base + 1, Len(sent'), at)) = Due(plan, Current, at)
      <3>1. Hits(Tail(todo), TextsAt(at)) = {}
        BY <1>1, <1>4 DEF Hits
      <3>2. Cardinality(Hits(Tail(todo), TextsAt(at))) = 0
        BY <3>1, FS_EmptySet
      <3>3. Cardinality(SentAt(sent', Base + 1, Len(sent'), at)) + TimesSent(Current) * 0
              = Due(plan, Current, at)
        BY <3>2
      <3>4. TimesSent(Current) * 0 = 0
        OBVIOUS
      <3> QED BY <1>2, <3>3, <3>4
    <2>3. EveryCardServed'
      BY <2>1, <2>2, ReturnServes
    <2>4. CountInv'
      BY <2>1 DEF Return, CountInv
    <2> QED BY <2>3, <2>4 DEF ServedInv
  <1> QED BY <1>3, <1>4

\* Before the first is sent: the list of locations is the list of the file.
LEMMA CallAsks ==
    ASSUME TypeInv, pc = "call", plan.kind # "local", Current.location # <<>>,
           NEW ls \in Expanded(cards, Current), Fits(Current, ls), NEW at \in Places
    PROVE  Due(plan, Current, at)
               = TimesSent(Current)
                   * Cardinality(Hits([i \in DOMAIN ls |-> Text(Format(Current, ls[i]))], TextsAt(at)))
  <1> DEFINE e == [i \in DOMAIN ls |-> Text(Format(Current, ls[i]))]
             places == {l \in Locations : Format(Current, l) = at}
             c == Current
  <1>1. plan \in Plans /\ cards = Platform(plan) /\ Current \in Command /\ cmd \in Nat \ {0}
    BY CurrentType DEF TypeInv, TypeOK
  <1>2. Current.location \in Seq(Locations \cup Keywords)
    BY <1>1 DEF Command
  <1>3. /\ ls \in Seq(Locations) /\ Len(e) = Len(ls) /\ e \in Seq(Texts)
        /\ \A i \in 1..Len(ls) : Format(Current, ls[i]) \in Locations
    BY TodoType
  <1>4. /\ DOMAIN ls = 1..Len(ls) /\ \A i \in 1..Len(ls) : ls[i] \in Locations
    BY <1>3, LenProperties, ElementOfSeq
  <1>5. Hits(e, TextsAt(at)) = Hits(ls, places)
    <2>1. ASSUME NEW i \in 1..Len(ls)
          PROVE  e[i] \in TextsAt(at) <=> ls[i] \in places
      <3>1. e[i] = Text(Format(Current, ls[i]))
        BY <1>4
      <3>2. e[i] \in Texts /\ e[i].at = Format(Current, ls[i])
        BY <1>1, <1>3, <3>1 DEF Text, Texts
      <3> HIDE DEF e
      <3> QED BY <1>4, <3>2 DEF TextsAt
    <2> HIDE DEF e, places
    <2> QED BY <1>3, <2>1 DEF Hits
  <1>6. Cardinality(Hits(ls, places)) = Cardinality(MeantBy(plan, c.location, Len(c.location), places))
    <2>1. ls \in Expanded(Platform(plan), Current)
      BY <1>1
    <2> HIDE DEF places
    <2> QED BY <1>1, <1>2, <2>1, ExpandedCount
  <1>7. Due(plan, Current, at)
          = TimesSent(c) * Cardinality(MeantBy(plan, c.location, Len(c.location), places))
    <2>1. DOMAIN c.location = 1..Len(c.location)
      BY <1>2, LenProperties
    <2>2. Due(plan, Current, at)
            = TimesSent(c) * Cardinality(UNION {{i} \X Meant(plan, c.location[i], places) : i \in DOMAIN c.location})
      BY DEF Due
    <2> HIDE DEF places
    <2> QED BY <2>1, <2>2 DEF MeantBy
  <1> HIDE DEF e, places
  <1>8. Cardinality(Hits(e, TextsAt(at))) = Cardinality(MeantBy(plan, c.location, Len(c.location), places))
    BY <1>5, <1>6
  <1> QED BY <1>7, <1>8 DEF e

\* A call begins: nothing is sent, and all that is asked for is to be.
LEMMA BeginServes ==
    ASSUME AnswersInv, TypeInv, ServedInv, pc = "call", pc' = "send",
           UNCHANGED <<plan, cmd, sent, runs, calls>>,
           todo' \in Seq(Texts), todo' # <<>>,
           \A at \in Places :
              Due(plan, Current, at) = TimesSent(Current) * Cardinality(Hits(todo', TextsAt(at)))
    PROVE  ServedInv'
  <1>1. Base' = Base /\ Current' = Current /\ plan' = plan /\ Underway' = 0 /\ runs' = 0
    BY DEF Base, Current, Underway, ServedInv, CountInv
  <1>2. Len(sent) = Base /\ Base \in Nat
    <2>1. Len(sent) = Base + Len(results) /\ results = <<>> /\ Base \in Nat /\ Len(<<>>) = 0
      BY DEF AnswersInv, CallInv
    <2> QED BY <2>1
  <1> DEFINE n == TimesSent(Current)
  <1>3. n \in Nat
    BY CurrentType, TimesFacts DEF TimesSent, Command
  <1>4. ASSUME NEW at \in Places
        PROVE  Cardinality(SentAt(sent', Base' + 1, Len(sent'), at)) + StillFor(at)'
                   = Due(plan', Current', at)
    <2> DEFINE a == Cardinality(Hits(Tail(todo'), TextsAt(at)))
               first == todo'[1].at = at
    <2>1. SentAt(sent', Base' + 1, Len(sent'), at) = {}
      <3>1. (Base + 1)..Len(sent) = {}
        BY <1>2
      <3> QED BY <1>1, <3>1 DEF SentAt
    <2>2. todo'[1] \in TextsAt(at) <=> first
      <3>1. todo'[1] \in Texts
        <4>1. Len(todo') \in Nat /\ Len(todo') # 0
          BY LenProperties, EmptySeq
        <4> QED BY <4>1, ElementOfSeq
      <3> QED BY <3>1 DEF TextsAt
    <2>3. a \in Nat /\ Cardinality(Hits(todo', TextsAt(at))) = a + (IF first THEN 1 ELSE 0)
      <3>1. /\ Cardinality(Hits(Tail(todo'), TextsAt(at))) \in Nat
            /\ Cardinality(Hits(todo', TextsAt(at)))
                 = Cardinality(Hits(Tail(todo'), TextsAt(at)))
                     + (IF todo'[1] \in TextsAt(at) THEN 1 ELSE 0)
        BY HitsFirst
      <3> QED BY <2>2, <3>1
    <2>4. n * (a + (IF first THEN 1 ELSE 0)) = n * a + (IF first THEN n ELSE 0)
      <3>1. first \in BOOLEAN
        OBVIOUS
      <3> HIDE DEF n, a, first
      <3> QED BY <1>3, <2>3, <3>1, CopiesOf
    <2>5. Due(plan, Current, at) = n * a + (IF first THEN n ELSE 0)
      <3>1. Due(plan, Current, at) = n * Cardinality(Hits(todo', TextsAt(at)))
        OBVIOUS
      <3> HIDE DEF n, a, first
      <3> QED BY <2>3, <2>4, <3>1
    <2>6. StillFor(at)' = TimesSent(Current') * Cardinality(Hits(Tail(todo'), TextsAt(at)))
                            + (IF todo'[1].at = at THEN TimesSent(Current') - runs' - Underway' ELSE 0)
      BY DEF StillFor
    <2>7. StillFor(at)' = n * a + (IF first THEN n ELSE 0)
      <3>1. n - 0 - 0 = n
        BY <1>3
      <3>2. TimesSent(Current') = n
        BY <1>1
      <3> HIDE DEF n
      <3> QED BY <1>1, <2>6, <3>1, <3>2
    <2>8. StillFor(at)' \in Nat
      <3>1. n * a \in Nat
        <4> HIDE DEF n, a
        <4> QED BY <1>3, <2>3
      <3> HIDE DEF n, a
      <3> QED BY <1>3, <2>7, <3>1
    <2>9. Cardinality(SentAt(sent', Base' + 1, Len(sent'), at)) = 0
      BY <2>1, FS_EmptySet
    <2>10. Due(plan', Current', at) = StillFor(at)'
      <3> HIDE DEF n, a, first
      <3> QED BY <1>1, <2>5, <2>7
    <2> QED BY <2>8, <2>9, <2>10
  <1>5. CountInv'
    <2>1. runs' + Underway' <= TimesSent(Current') /\ runs' = 0
      BY <1>1, <1>3
    <2> QED BY <1>4, <2>1 DEF CountInv
  <1>6. EveryCardServed'
    BY ServedStays DEF ServedInv
  <1> QED BY <1>5, <1>6 DEF ServedInv

LEMMA RestFinite ==
    ASSUME todo \in Seq(Texts), todo # <<>>, NEW M, NEW n \in Nat
    PROVE  n * Cardinality(Hits(Tail(todo), M)) \in Nat
  <1>1. Len(Tail(todo)) \in Nat
    BY HeadTailProperties, LenProperties
  <1>2. Cardinality(Hits(Tail(todo), M)) \in Nat
    BY <1>1, HitsFinite
  <1> QED BY <1>2

\* A call without locations sends its command nowhere but to the router itself.
LEMMA PlainServes ==
    ASSUME AnswersInv, TypeInv, ServedInv, pc = "call", pc' = "send",
           UNCHANGED <<plan, cmd, sent, runs, calls>>, todo' = <<Text("none")>>,
           \A at \in Places : Due(plan, Current, at) = IF at = "none" THEN TimesSent(Current) ELSE 0
    PROVE  ServedInv'
  <1>1. Text("none") \in Texts
    BY CurrentType DEF Text, Texts
  <1>2. todo' \in Seq(Texts) /\ todo' # <<>>
    BY <1>1
  <1>3. TimesSent(Current) \in Nat
    BY CurrentType DEF TimesSent, Command
  <1>4. ASSUME NEW at \in Places
        PROVE  Due(plan, Current, at) = TimesSent(Current) * Cardinality(Hits(todo', TextsAt(at)))
    <2>1. Text("none") \in TextsAt(at) <=> at = "none"
      BY <1>1 DEF TextsAt, Text
    <2>2. Cardinality(Hits(todo', TextsAt(at))) = IF at = "none" THEN 1 ELSE 0
      BY <2>1, HitsOne
    <2>3. TimesSent(Current) * 1 = TimesSent(Current) /\ TimesSent(Current) * 0 = 0
      BY <1>3
    <2> QED BY <2>2, <2>3
  <1> QED BY <1>2, <1>4, BeginServes

LEMMA ServedInvInductive == AnswersInv /\ TypeInv /\ ServedInv /\ [Next]_vars => ServedInv'
  <1> SUFFICES ASSUME AnswersInv, TypeInv, ServedInv, [Next]_vars PROVE ServedInv'
    OBVIOUS
  <1> DEFINE T == TimesSent(Current)
  <1>0. /\ IsSeq(sent) /\ Len(sent) \in Nat /\ DOMAIN sent = 1..Len(sent) /\ Base \in Nat
        /\ Base <= Len(sent) /\ runs \in Nat /\ Current \in Command /\ T \in Nat
        /\ todo \in Seq(Texts)
    <2>1. /\ IsSeq(sent) /\ IsSeq(results) /\ Base \in Nat /\ runs \in Nat /\ Current \in Command
          /\ todo \in Seq(Texts)
      BY CurrentType DEF AnswersInv, CallInv, TypeInv, TypeOK
    <2>2. Len(sent) \in Nat /\ DOMAIN sent = 1..Len(sent) /\ Len(results) \in Nat
      BY <2>1, IsSeqElements
    <2>3. Base <= Len(sent)
      BY <2>1, <2>2 DEF AnswersInv, CallInv
    <2>4. T \in Nat
      BY <2>1 DEF TimesSent, Command
    <2> QED BY <2>1, <2>2, <2>3, <2>4
  <1>1. CASE Connect
    <2>1. pc = "connect" /\ pc' \in {"call", "unreachable"} /\ UNCHANGED <<plan, runs, sent, calls>>
      BY <1>1 DEF Connect
    <2>2. EveryCardServed'
      BY <2>1, ServedStays DEF ServedInv
    <2> QED BY <2>1, <2>2 DEF ServedInv, CountInv
  <1>2. CASE Call
    <2>1. pc = "call" /\ plan.kind # "local" /\ UNCHANGED <<plan, cards, sent>>
      BY <1>2 DEF Call
    <2>2. ASSUME NEW ok \in BOOLEAN, Return(ok, <<>>, sent),
                 ok => \A at \in Places : Due(plan, Current, at) = 0
          PROVE  ServedInv'
      <3>1. Return(ok, <<>>, sent')
        BY <2>1, <2>2
      <3>2. Len(sent) = Base
        <4>1. Len(sent) = Base + Len(results) /\ results = <<>> /\ Len(<<>>) = 0
          BY <2>1 DEF AnswersInv, CallInv
        <4> QED BY <1>0, <4>1
      <3>3. \A at \in Places : Cardinality(SentAt(sent', Base + 1, Len(sent'), at)) = 0
        <4>1. (Base + 1)..Len(sent) = {}
          BY <1>0, <3>2
        <4>2. \A at \in Places : SentAt(sent', Base + 1, Len(sent'), at) = {}
          BY <2>1, <4>1 DEF SentAt
        <4> QED BY <4>2, FS_EmptySet
      <3>4. EveryCardServed'
        BY <2>1, <2>2, <3>1, <3>3, ReturnServes DEF ServedInv
      <3>5. CountInv'
        BY <2>2 DEF Return, CountInv
      <3> QED BY <3>4, <3>5 DEF ServedInv
    <2>3. CASE /\ Current.location = <<>> /\ todo' = <<Text("none")>> /\ pc' = "send"
               /\ UNCHANGED <<cmd, round, runs, results, calls>>
      <3>1. \A at \in Places : Due(plan, Current, at) = IF at = "none" THEN T ELSE 0
        BY <2>3 DEF Due
      <3>2. UNCHANGED <<plan, cmd, sent, runs, calls>>
        BY <2>1, <2>3
      <3> QED BY <2>1, <2>3, <3>1, <3>2, PlainServes
    <2>4. ASSUME NEW ls \in Expanded(cards, Current), Fits(Current, ls), Current.location # <<>>,
                 ls = <<>>, Return(TRUE, <<>>, sent)
          PROVE  ServedInv'
      <3>1. ASSUME NEW at \in Places PROVE Due(plan, Current, at) = 0
        <4> DEFINE e == [i \in DOMAIN ls |-> Text(Format(Current, ls[i]))]
        <4>1. Due(plan, Current, at) = T * Cardinality(Hits(e, TextsAt(at)))
          BY <2>1, <2>4, CallAsks
        <4>2. Len(e) = 0
          <5>1. Len(e) = Len(ls)
            BY <2>1, <2>4, TodoType
          <5> HIDE DEF e
          <5> QED BY <2>4, <5>1
        <4>3. Hits(e, TextsAt(at)) = {}
          <5> HIDE DEF e
          <5> QED BY <4>2 DEF Hits
        <4> HIDE DEF e, T
        <4>4. Cardinality(Hits(e, TextsAt(at))) = 0
          BY <4>3, FS_EmptySet
        <4> QED BY <1>0, <4>1, <4>4
      <3> QED BY <2>2, <2>4, <3>1
    <2>5. ASSUME NEW ls \in Expanded(cards, Current), Fits(Current, ls), Current.location # <<>>,
                 ls # <<>>, todo' = [i \in DOMAIN ls |-> Text(Format(Current, ls[i]))],
                 pc' = "send", UNCHANGED <<cmd, round, runs, results, calls>>
          PROVE  ServedInv'
      <3>1. todo' \in Seq(Texts) /\ Len(todo') = Len(ls) /\ ls \in Seq(Locations)
        BY <2>1, <2>5, TodoType
      <3>2. todo' # <<>>
        <4>1. Len(ls) # 0 /\ Len(<<>>) = 0
          BY <2>5, <3>1, EmptySeq
        <4>2. Len(todo') # Len(<<>>)
          BY <3>1, <4>1
        <4> QED BY <4>2, Zenon
      <3>3. \A at \in Places :
              Due(plan, Current, at) = T * Cardinality(Hits(todo', TextsAt(at)))
        BY <2>1, <2>5, CallAsks
      <3> QED BY <2>1, <2>5, <3>1, <3>2, <3>3, BeginServes
    <2>6. ASSUME Return(FALSE, <<>>, sent) PROVE ServedInv'
      BY <2>2, <2>6
    <2> QED BY <1>2, <2>3, <2>4, <2>5, <2>6 DEF Call
  <1>3. CASE CallLocal
    <2>1. /\ pc = "call" /\ pc' = "send" /\ plan.kind = "local" /\ todo' = <<Text("none")>>
          /\ UNCHANGED <<plan, cmd, sent, runs, calls>>
      BY <1>3 DEF CallLocal
    <2>2. \A at \in Places : Due(plan, Current, at) = IF at = "none" THEN T ELSE 0
      BY <2>1 DEF Due
    <2> QED BY <2>1, <2>2, PlainServes
  <1>4. ASSUME NEW records, Give(records) PROVE ServedInv'
    <2>1. /\ pc = "send" /\ UNCHANGED <<plan, cards>> /\ Underway = 0 /\ runs <= T
          /\ (~Ticks(Current) => runs = 0)
      BY <1>0, <1>4 DEF Give, ServedInv, CountInv, Underway
    <2>2. CASE pc' = "panicked" /\ UNCHANGED <<sent, calls>>
      <3>1. EveryCardServed'
        BY <2>1, <2>2, ServedStays DEF ServedInv
      <3> QED BY <2>2, <3>1 DEF ServedInv, CountInv
    <2>5. CASE Return(FALSE, <<>>, sent) /\ UNCHANGED sent
      <3>1. EveryCardServed'
        BY <2>1, <2>5, ReturnServes DEF ServedInv
      <3>2. CountInv'
        BY <2>5 DEF Return, CountInv
      <3> QED BY <3>1, <3>2 DEF ServedInv
    <2>3. CASE ~Panics(Current) /\ runs >= Repeats(Current) /\ sent' = sent /\ NextLocation(results)
      <3>1. runs = T
        BY <1>0, <2>1, <2>3, TimesFacts
      <3>2. ASSUME NEW at \in Places
            PROVE  Cardinality(SentAt(sent', Base + 1, Len(sent'), at))
                       + T * Cardinality(Hits(Tail(todo), TextsAt(at)))
                     = Due(plan, Current, at)
        <4>1. Cardinality(SentAt(sent, Base + 1, Len(sent), at)) + StillFor(at) = Due(plan, Current, at)
          BY <2>1 DEF ServedInv, CountInv
        <4>2. StillFor(at) = T * Cardinality(Hits(Tail(todo), TextsAt(at)))
          <5> DEFINE x == T * Cardinality(Hits(Tail(todo), TextsAt(at)))
          <5>1. StillFor(at) = x + (IF todo[1].at = at THEN T - runs - Underway ELSE 0)
            BY DEF StillFor
          <5>2. T - runs - Underway = 0
            <6> HIDE DEF T
            <6> QED BY <1>0, <2>1, <3>1
          <5>3. x \in Nat
            BY <1>0, <2>1, RestFinite DEF TypeInv, TypeOK
          <5>4. StillFor(at) = x
            <6> HIDE DEF x, T
            <6> QED BY <5>1, <5>2, <5>3
          <5> QED BY <5>4
        <4> QED BY <2>3, <4>1, <4>2
      <3> QED BY <1>0, <2>1, <2>3, <3>2, NextLocationServes DEF ServedInv
    <2>4. CASE /\ ~Panics(Current) /\ ~(runs >= Repeats(Current)) /\ pc' = "await"
               /\ sent' = Append(sent, [text |-> Head(todo), answered |-> FALSE])
               /\ UNCHANGED <<cmd, round, todo, runs, results, calls>>
      <3>1. runs + 1 <= T
        BY <1>0, <2>1, <2>4, TimesFacts
      <3>2. /\ Len(sent') = Len(sent) + 1 /\ \A i \in 1..Len(sent) : sent'[i] = sent[i]
            /\ sent'[Len(sent) + 1].text = Head(todo)
        <4>1. /\ Len(sent') = Len(sent) + 1 /\ \A i \in 1..Len(sent) : sent'[i] = sent[i]
              /\ sent'[Len(sent) + 1] = [text |-> Head(todo), answered |-> FALSE]
          BY <1>0, <2>4, IsSeqAppend
        <4> QED BY <4>1
      <3>3. Base' = Base /\ Current' = Current /\ plan' = plan /\ Underway' = 1 /\ runs' = runs
        BY <2>1, <2>4 DEF Base, Current, Underway
      <3>4. ASSUME NEW at \in Places
            PROVE  Cardinality(SentAt(sent', Base' + 1, Len(sent'), at)) + StillFor(at)'
                       = Due(plan', Current', at)
        <4> DEFINE x == T * Cardinality(Hits(Tail(todo), TextsAt(at)))
                   before == Cardinality(SentAt(sent, Base + 1, Len(sent), at))
                   after == Cardinality(SentAt(sent', Base + 1, Len(sent) + 1, at))
                   here == todo[1].at = at
        <4>1. before + StillFor(at) = Due(plan, Current, at)
          BY <2>1 DEF ServedInv, CountInv
        <4>2. StillFor(at) = x + (IF here THEN T - runs - Underway ELSE 0)
          BY DEF StillFor
        <4>3. StillFor(at)' = x + (IF here THEN T - runs - 1 ELSE 0)
          <5>1. StillFor(at)' = TimesSent(Current') * Cardinality(Hits(Tail(todo'), TextsAt(at)))
                                  + (IF todo'[1].at = at THEN TimesSent(Current') - runs' - Underway' ELSE 0)
            BY DEF StillFor
          <5> QED BY <2>4, <3>3, <5>1
        <4>4. after = before + (IF here THEN 1 ELSE 0)
          <5>1. sent'[Len(sent) + 1].text.at = todo[1].at
            BY <3>2
          <5>2. \A i \in (Base + 1)..Len(sent) : sent'[i] = sent[i]
            BY <1>0, <3>2
          <5>3. /\ Base + 1 \in Nat /\ Len(sent) \in Nat /\ Base + 1 <= Len(sent) + 1
            BY <1>0
          <5>4. after = before + Goes(sent'[Len(sent) + 1], at)
            <6> DEFINE a == Base + 1
                       b == Len(sent)
            <6>1. a \in Nat /\ b \in Nat /\ a <= b + 1 /\ \A i \in a..b : sent'[i] = sent[i]
              BY <5>2, <5>3
            <6> HIDE DEF a, b
            <6>2. Cardinality(SentAt(sent', a, b + 1, at))
                    = Cardinality(SentAt(sent, a, b, at)) + Goes(sent'[b + 1], at)
              BY <6>1, SentAtGrows
            <6> QED BY <6>2 DEF a, b
          <5> QED BY <5>1, <5>4 DEF Goes
        <4>5. x \in Nat /\ before \in Nat
          <5>1. x \in Nat
            BY <1>0, <2>1, RestFinite DEF TypeInv, TypeOK
          <5>2. Base + 1 \in Nat
            BY <1>0
          <5> QED BY <1>0, <5>1, <5>2, SentAtFinite
        <4>6. after + (x + (IF here THEN T - runs - 1 ELSE 0)) = before + (x + (IF here THEN T - runs - 0 ELSE 0))
          <5> HIDE DEF x, before, after, here, T
          <5> QED BY <1>0, <4>4, <4>5
        <4>7. after + StillFor(at)' = Due(plan, Current, at)
          <5> HIDE DEF x, before, after, here, T
          <5> QED BY <2>1, <4>1, <4>2, <4>3, <4>6
        <4> QED BY <3>2, <3>3, <4>7
      <3>5. CountInv'
        <4>1. /\ runs' + Underway' <= TimesSent(Current') /\ ~Panics(Current')
              /\ (~Ticks(Current') => runs' = 0)
          BY <2>1, <2>4, <3>1, <3>3
        <4> QED BY <2>4, <3>4, <4>1 DEF CountInv
      <3>6. EveryCardServed'
        <4>1. \A i \in 1..Base : sent'[i].text = sent[i].text
          BY <1>0, <3>2
        <4> QED BY <2>1, <2>4, <4>1, ServedStays DEF ServedInv
      <3> QED BY <3>5, <3>6 DEF ServedInv
    <2>6. Repeats(Current) \in Int
      BY <1>0 DEF Repeats, Command
    <2> QED BY <1>0, <1>4, <2>2, <2>3, <2>4, <2>5, <2>6 DEF Give
  <1>5. ASSUME NEW records, Keep(records) PROVE ServedInv'
    <2> DEFINE m == Len(sent)
               res == Append(results, [text |-> Head(todo), nth |-> m])
    <2>1. /\ pc = "await" /\ UNCHANGED <<plan, cards>> /\ Underway = 1 /\ runs + 1 <= T
          /\ ~Panics(Current) /\ (~Ticks(Current) => runs = 0)
      BY <1>5 DEF Keep, ServedInv, CountInv, Underway
    <2>2. /\ Len(sent') = m /\ \A i \in 1..m : sent'[i].text = sent[i].text
      <3>1. sent' = [sent EXCEPT ![m].answered = TRUE]
        BY <1>5 DEF Keep
      <3>2. sent = [i \in 1..m |-> sent[i]] /\ \A i \in 1..m : DOMAIN sent[i] = {"text", "answered"}
        BY <1>0, IsSeqElements DEF AnswersInv, CallInv
      <3>3. sent' = [i \in 1..m |-> IF i = m THEN [sent[m] EXCEPT !.answered = TRUE] ELSE sent[i]]
        BY <3>1, <3>2
      <3>4. Len(sent') = m
        <4>1. sent' = [i \in 1..m |-> sent'[i]]
          BY <3>3
        <4> QED BY <1>0, <4>1, IsSeqByDomain
      <3>5. ASSUME NEW i \in 1..m PROVE sent'[i].text = sent[i].text
        <4>1. CASE i = m
          <5>1. sent'[m] = [sent[m] EXCEPT !.answered = TRUE]
            BY <3>3, <4>1
          <5>2. DOMAIN sent[m] = {"text", "answered"}
            BY <3>2, <4>1
          <5> QED BY <4>1, <5>1, <5>2
        <4>2. CASE i # m
          BY <3>3, <4>2
        <4> QED BY <4>1, <4>2
      <3> QED BY <3>4, <3>5
    <2>3. \A at : SentAt(sent', Base + 1, Len(sent'), at) = SentAt(sent, Base + 1, Len(sent), at)
      <3>1. \A i \in (Base + 1)..Len(sent) : sent'[i].text = sent[i].text
        BY <1>0, <2>2
      <3> QED BY <2>2, <3>1 DEF SentAt
    <2>4. \A i \in 1..Base : sent'[i].text = sent[i].text
      BY <1>0, <2>2
    <2>5. CASE /\ Ticks(Current) /\ pc' = "tick" /\ runs' = runs + 1
               /\ UNCHANGED <<cmd, round, todo, calls>>
      <3>1. Base' = Base /\ Current' = Current /\ plan' = plan /\ Underway' = 0
        BY <2>1, <2>5 DEF Base, Current, Underway
      <3>2. ASSUME NEW at \in Places
            PROVE  Cardinality(SentAt(sent', Base' + 1, Len(sent'), at)) + StillFor(at)'
                       = Due(plan', Current', at)
        <4>1. Cardinality(SentAt(sent, Base + 1, Len(sent), at)) + StillFor(at) = Due(plan, Current, at)
          BY <2>1 DEF ServedInv, CountInv
        <4>2. StillFor(at)' = TimesSent(Current') * Cardinality(Hits(Tail(todo'), TextsAt(at)))
                                + (IF todo'[1].at = at THEN TimesSent(Current') - runs' - Underway' ELSE 0)
          BY DEF StillFor
        <4>3. T - runs - Underway = T - runs' - Underway'
          <5> HIDE DEF T
          <5> QED BY <1>0, <2>1, <2>5, <3>1
        <4>4. StillFor(at)' = StillFor(at)
          BY <2>5, <3>1, <4>2, <4>3 DEF StillFor
        <4> QED BY <2>3, <3>1, <4>1, <4>4
      <3>3. CountInv'
        <4>1. /\ runs' + Underway' <= TimesSent(Current') /\ ~Panics(Current') /\ Ticks(Current')
          <5>1. runs' + Underway' = runs + 1
            BY <1>0, <2>5, <3>1
          <5> QED BY <2>1, <2>5, <3>1, <5>1
        <4> QED BY <2>5, <3>2, <4>1 DEF CountInv
      <3>4. EveryCardServed'
        BY <2>1, <2>4, <2>5, ServedStays DEF ServedInv
      <3> QED BY <3>3, <3>4 DEF ServedInv
    <2>6. CASE ~Ticks(Current) /\ NextLocation(res)
      <3>1. T = 1 /\ runs = 0
        BY <1>0, <2>1, <2>6, TimesFacts
      <3>2. ASSUME NEW at \in Places
            PROVE  Cardinality(SentAt(sent', Base + 1, Len(sent'), at))
                       + T * Cardinality(Hits(Tail(todo), TextsAt(at)))
                     = Due(plan, Current, at)
        <4>1. Cardinality(SentAt(sent, Base + 1, Len(sent), at)) + StillFor(at) = Due(plan, Current, at)
          BY <2>1 DEF ServedInv, CountInv
        <4>2. StillFor(at) = T * Cardinality(Hits(Tail(todo), TextsAt(at)))
          <5> DEFINE x == T * Cardinality(Hits(Tail(todo), TextsAt(at)))
          <5>1. StillFor(at) = x + (IF todo[1].at = at THEN T - runs - Underway ELSE 0)
            BY DEF StillFor
          <5>2. T - runs - Underway = 0
            <6> HIDE DEF T
            <6> QED BY <1>0, <2>1, <3>1
          <5>3. x \in Nat
            BY <1>0, <2>1, RestFinite DEF TypeInv, TypeOK
          <5>4. StillFor(at) = x
            <6> HIDE DEF x, T
            <6> QED BY <5>1, <5>2, <5>3
          <5> QED BY <5>4
        <4> QED BY <2>3, <4>1, <4>2
      <3>3. Len(sent') \in Nat
        BY <1>0, <2>2
      <3> HIDE DEF res
      <3> QED BY <1>0, <2>1, <2>4, <2>6, <3>2, <3>3, NextLocationServes DEF ServedInv
    <2> QED BY <1>5, <2>5, <2>6 DEF Keep
  <1>6. CASE Fail \/ Timeout
    <2>1. Return(FALSE, <<>>, sent') /\ UNCHANGED <<plan, sent>>
      BY <1>6 DEF Fail, Timeout
    <2>2. EveryCardServed'
      BY <2>1, ReturnServes DEF ServedInv
    <2>3. CountInv'
      BY <2>1 DEF Return, CountInv
    <2> QED BY <2>2, <2>3 DEF ServedInv
  \* Steps that change no more than the place in the code.
  <1>7. ASSUME pc' = pc \/ (pc = "tick" /\ pc' = "send"),
               UNCHANGED <<plan, cmd, todo, runs, sent, calls>>
        PROVE  ServedInv'
    <2>1. Base' = Base /\ Current' = Current /\ plan' = plan /\ Underway' = Underway
      BY <1>7 DEF Base, Current, Underway
    <2>2. \A at : StillFor(at)' = StillFor(at)
      BY <1>7, <2>1 DEF StillFor
    <2>3. CountInv'
      BY <1>7, <2>1, <2>2 DEF ServedInv, CountInv
    <2>4. EveryCardServed'
      BY <1>7, ServedStays DEF ServedInv
    <2> QED BY <2>3, <2>4 DEF ServedInv
  <1>8. CASE Tick
    BY <1>7, <1>8 DEF Tick
  <1>9. CASE UNCHANGED vars
    BY <1>7, <1>9 DEF vars
  <1> QED BY <1>1, <1>2, <1>3, <1>4, <1>5, <1>6, <1>8, <1>9
          DEF Next, Own, Send, Execute, Answer, Completed, Ended

\* A call that succeeds has sent its command to every card it names, as often as it
\* names it and as its times asks for where the file gives the form the documents do,
\* whatever cards the router has and in whatever order the map of cards gives them
\* (router.go:89-141, 244-334, 336-372).
THEOREM CardsAreServed == Spec => []EveryCardServed
  <1>1. Init => ServedInv
    BY IsSeqEmpty DEF Init, ServedInv, CountInv, EveryCardServed
  <1>2. ServedInv => EveryCardServed
    BY DEF ServedInv
  <1> QED BY <1>1, <1>2, AnswersInvInitially, AnswersInvInductive, TypeInvInitially, TypeInvInductive,
             ServedInvInductive, PTL DEF Spec
=============================================================================
