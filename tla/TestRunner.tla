------------------------------ MODULE TestRunner ------------------------------
(***************************************************************************)
(* A test of the command file, as runTest and check of cmd/pipeline.go     *)
(* evaluate it.  Every router has its goroutine, and every goroutine is    *)
(* handed the same Commander: they all run the one Test object and keep    *)
(* the values they extract in its one ValuesStore.                         *)
(*                                                                         *)
(* The output of a command is a list of results; a result is its text and  *)
(* the offsets at which the test's pattern matches, from which getValue    *)
(* (module GetValue) finds the fields.                                     *)
(***************************************************************************)
EXTENDS GetValue

CONSTANTS Routers,   \* one goroutine each
          Plans      \* tests, with the outputs and iterations they see

\* A Field names its place in the line, its operation and the value compared
\* with.  A Test: is there a pattern, which occurrence (0: all), the expected
\* number of occurrences ({} when not given), the fields, check_all_results.
Operations == {"compare_with_previous_neq", "compare_with_previous_eq",
               "compare_with_value_neq", "compare_with_value_eq",
               "contain_substring", "not_contain_substring"}

\* Nothing that reads the file checks an operation, an occurrence or a field number.
Field == [number: Int, operation: Operations \cup {"unknown"}, value: Seq(Chars)]
Test  == [pattern: BOOLEAN, occurrence: Int, occurrences: SUBSET Int,
          fields: Seq(Field), checkAll: BOOLEAN]

\* A result of the command, and the offsets in it at which the pattern matches.
CmdResult ==
    {c \in [text: Seq(Chars), hits: Seq(Nat)] : \A m \in DOMAIN c.hits : c.hits[m] <= Len(c.text)}

\* A plan: a test, what its command may print in an iteration, the iterations.
IsPlan(p) == /\ p.test \in Test /\ p.times \in Nat
             /\ p.outputs # {} /\ p.outputs \subseteq Seq(CmdResult)

ASSUME PlansAssumption == \A p \in Plans : IsPlan(p)

VARIABLES
    plan,      \* the test, its command's outputs, the iterations
    store,     \* its ValuesStore: per iteration the one field kept, or empty
    run,       \* run[r]: the locals of runTest in the goroutine of r
    printed,   \* history: printed[r][i] is the output of iteration i - 1 of r
    verdicts   \* history: verdicts[r][i] is what the test answered to it

vars == <<plan, store, run, printed, verdicts>>

Nil   == <<"nil">>
Empty == [number |-> 0, value |-> Nil]
Idle  == [pc |-> "idle", result |-> 1, match |-> 1, field |-> 1,
          perField |-> 0, perOccurrence |-> 0]

Init ==
    /\ plan \in Plans
    /\ store = [i \in 0..(plan.times - 1) |-> Empty]
    /\ run = [r \in Routers |-> Idle]
    /\ printed = [r \in Routers |-> <<>>]
    /\ verdicts = [r \in Routers |-> <<>>]

test         == plan.test
Iteration(r) == Len(verdicts[r])
Results(r)   == printed[r][Len(printed[r])]
Result(r)    == Results(r)[run[r].result]
Matches(r)   == Result(r).hits
FieldOf(r)   == test.fields[run[r].field]
Hit(r)       == Matches(r)[run[r].match]
Value(r)     == GetValue(Result(r).text, Hit(r), FieldOf(r).number)

\* ValuesStore[i][n]: nil when that iteration kept another field, or none.
Stored(i, n) == IF store[i].number = n THEN store[i].value ELSE Nil

Goto(r, changes) == run' = [run EXCEPT ![r] = changes]

Return(r, verdict) ==
    /\ verdicts' = [verdicts EXCEPT ![r] = Append(@, verdict)]
    /\ Goto(r, [Idle EXCEPT !.pc = CASE verdict = "error" -> "failed"
                                     [] verdict = "panic" -> "panicked"
                                     [] OTHER -> "idle"])

\* The loop over the matches, bounds included.
FirstMatchZero == test.occurrence - 1                             \* mutant
FirstMatch   == IF test.occurrence = 0 THEN 1 ELSE test.occurrence
LastMatch(r) == IF test.occurrence = 0 THEN Len(Matches(r)) ELSE test.occurrence

NextResult(r) == [Idle EXCEPT !.pc = "match", !.result = run[r].result + 1]

-----------------------------------------------------------------------------
\* The next iteration has run the command and calls runTest on its results.
Begin(r) ==
    /\ run[r].pc = "idle" /\ Iteration(r) < plan.times
    /\ \E out \in plan.outputs : printed' = [printed EXCEPT ![r] = Append(@, out)]
    /\ Goto(r, [Idle EXCEPT !.pc = "match"])
    /\ UNCHANGED <<plan, store, verdicts>>

NoMoreResults(r) ==
    /\ run[r].pc = "match" /\ run[r].result > Len(Results(r))
    /\ Return(r, "quiet")
    /\ UNCHANGED <<plan, store, printed>>

\* The pattern is applied to one result, and its hits are counted. A negative
\* occurrence is an index out of range once there is a field to read.
FindMatches(r) ==
    /\ run[r].pc = "match" /\ run[r].result <= Len(Results(r))
    /\ LET n == Len(Matches(r))
       IN  \/ /\ n = 0 \/ ~test.pattern
              /\ Goto(r, NextResult(r)) /\ UNCHANGED verdicts
           \/ /\ n > 0 /\ test.pattern
              /\ IF \E want \in test.occurrences : want # n
                 THEN Return(r, "fire")
                 ELSE IF n < test.occurrence THEN Return(r, "quiet")
                 ELSE IF test.fields = <<>> THEN Return(r, "fire")
                 ELSE IF test.occurrence < 0 THEN Return(r, "panic")
                 ELSE /\ Goto(r, [run[r] EXCEPT
                                     !.pc = "store", !.match = FirstMatch])
                      /\ UNCHANGED verdicts
    /\ UNCHANGED <<plan, store, printed>>

\* getValue, and the two statements that put its answer into the ValuesStore:
\* the second replaces the values kept so far.
StoreValue(r) ==
    /\ run[r].pc = "store"
    /\ IF Value(r) = Missing THEN Return(r, "error") /\ UNCHANGED store
       ELSE IF Value(r) = Panic THEN Return(r, "panic") /\ UNCHANGED store
       ELSE /\ store' = [store EXCEPT ![Iteration(r)] =
                            [number |-> FieldOf(r).number, value |-> Value(r)]]
            /\ Goto(r, [run[r] EXCEPT !.pc = "check"])
            /\ UNCHANGED verdicts
    /\ UNCHANGED <<plan, printed>>

\* strings.Contains
HasPart(v, w) == w \in SubSeqs(v)

\* check: what the operation makes of a value now and one iteration ago.
Fires(field, i, now, before) ==
    CASE field.operation = "compare_with_previous_neq" -> i > 0 /\ now # before
      [] field.operation = "compare_with_previous_eq"  -> i > 0 /\ now = before
      [] field.operation = "compare_with_value_neq"    -> now # field.value
      [] field.operation = "compare_with_value_eq"     -> now = field.value
      [] field.operation = "contain_substring"         -> ~HasPart(now, field.value)
      [] field.operation = "not_contain_substring"     -> HasPart(now, field.value)

\* check reads both values back from the ValuesStore.
CheckFirst(r) ==                                                  \* mutant
    LET i == Iteration(r)
        n == FieldOf(r).number
    IN  Fires(FieldOf(r), i, Stored(i, n), Stored(0, n))
Check(r) ==
    LET i == Iteration(r)
        n == FieldOf(r).number
    IN  Fires(FieldOf(r), i, Stored(i, n), IF i = 0 THEN Nil ELSE Stored(i - 1, n))

\* check has an error for an operation it does not know, and for a part of a value that
\* is no string: nil, when the goroutine of another router has put in another field.
CheckFails(r) ==
    LET op == FieldOf(r).operation
    IN  \/ op \notin Operations
        \/ /\ op \in {"contain_substring", "not_contain_substring"}
           /\ Stored(Iteration(r), FieldOf(r).number) = Nil

\* How many fields must fire for a match to count, how many matches for the test.
MatchFires(r, perField) ==
    IF test.checkAll THEN perField = Len(test.fields) ELSE perField > 0
TestFires(r, perOccurrence) ==
    IF test.checkAll THEN perOccurrence = Len(Matches(r)) ELSE perOccurrence > 0

\* The calls of check; then the next field, the next match, the next result.
CheckField(r) ==
    /\ run[r].pc = "check"
    /\ LET l == run[r]
           perField == l.perField + IF Check(r) THEN 1 ELSE 0
           perOccurrence == l.perOccurrence + IF MatchFires(r, perField) THEN 1 ELSE 0
       IN  IF CheckFails(r) THEN Return(r, "error")
           ELSE IF l.field < Len(test.fields)
           THEN /\ Goto(r, [l EXCEPT !.pc = "store", !.field = @ + 1,
                                     !.perField = perField])
                /\ UNCHANGED verdicts
           ELSE IF l.match < LastMatch(r)
           THEN /\ Goto(r, [l EXCEPT !.pc = "store", !.field = 1, !.perField = 0,
                                     !.match = @ + 1, !.perOccurrence = perOccurrence])
                /\ UNCHANGED verdicts
           ELSE IF TestFires(r, perOccurrence) THEN Return(r, "fire")
           ELSE Goto(r, NextResult(r)) /\ UNCHANGED verdicts
    /\ UNCHANGED <<plan, store, printed>>

\* A panic of one goroutine ends the program.
Alive == \A r \in Routers : run[r].pc # "panicked"

Done ==
    /\ Alive => \A r \in Routers : \/ run[r].pc = "failed"
                                   \/ run[r].pc = "idle" /\ Iteration(r) = plan.times
    /\ UNCHANGED vars

Next ==
    \/ Alive /\ \E r \in Routers :
         Begin(r) \/ NoMoreResults(r) \/ FindMatches(r) \/ StoreValue(r) \/ CheckField(r)
    \/ Done

Spec == Init /\ [][Next]_vars

-----------------------------------------------------------------------------
(* What a test means, for one router alone: from its own output now and in *)
(* the iteration before.                                                   *)

\* The matches a test with fields looks at: one if it names one, else all.
Selected(t, hits) == IF t.occurrence = 0 THEN DOMAIN hits ELSE {t.occurrence}

\* The value of a field of a match, Nil when there is no such result or match.
At(out, k, m, n) ==
    IF k \in DOMAIN out /\ m \in DOMAIN out[k].hits
    THEN FieldOfMatch(out[k].text, out[k].hits[m], n) ELSE Nil

Fired(t, now, before, i, k, m, f) ==
    LET n == t.fields[f].number
    IN  Fires(t.fields[f], i, At(now, k, m, n), At(before, k, m, n))
\* Is there a field that its line does not have, or an operation that does not exist?
Unfit(t, now, k) ==
    \E f \in DOMAIN t.fields :
        \/ t.fields[f].operation \notin Operations
        \/ \E m \in Selected(t, now[k].hits) : At(now, k, m, t.fields[f].number) = Missing

\* What one result says; "next" if that is left to the next one. A result without the
\* occurrence the test names ends it.
ResultMeaning(t, now, before, i, k) ==
    LET hits == now[k].hits
        fired(m, f) == Fired(t, now, before, i, k, m, f)
    IN  IF hits = <<>> \/ ~t.pattern THEN "next"
        ELSE IF \E want \in t.occurrences : want # Len(hits) THEN "fire"
        ELSE IF Len(hits) < t.occurrence THEN "quiet"
        ELSE IF t.fields = <<>> THEN "fire"
        ELSE IF Unfit(t, now, k) THEN "error"
        ELSE IF t.checkAll
             THEN IF \A m \in Selected(t, hits), f \in DOMAIN t.fields : fired(m, f)
                  THEN "fire" ELSE "next"
             ELSE IF \E m \in Selected(t, hits), f \in DOMAIN t.fields : fired(m, f)
                  THEN "fire" ELSE "next"

\* The first result that says something decides.
Deciding(t, now, before, i) ==
    {k \in DOMAIN now : ResultMeaning(t, now, before, i, k) # "next"}
Meaning(t, now, before, i) ==
    IF Deciding(t, now, before, i) = {} THEN "quiet"
    ELSE ResultMeaning(t, now, before, i, Min(Deciding(t, now, before, i)))

\* The tests whose verdict is no more and no less than that: no number is negative and no
\* match begins in an empty line, check_all_results is not asked of a named occurrence,
\* and what compares with the iteration before watches one field of one named line of
\* one result.
LooksBack(field) ==
    field.operation \in {"compare_with_previous_neq", "compare_with_previous_eq"}
Judged(p) ==
    /\ p.test.occurrence >= 0 /\ \A f \in DOMAIN p.test.fields : p.test.fields[f].number >= 0
    /\ \A out \in p.outputs : \A k \in DOMAIN out : \A m \in DOMAIN out[k].hits :
          ~InEmptyLine(out[k].text, out[k].hits[m])
    /\ p.test.checkAll => p.test.occurrence = 0
    /\ (\E f \in DOMAIN p.test.fields : LooksBack(p.test.fields[f])) =>
          /\ Len(p.test.fields) = 1 /\ p.test.occurrence # 0 /\ p.test.occurrences = {}
          /\ \A out \in p.outputs : Len(out) <= 1

-----------------------------------------------------------------------------
(* Properties.                                                             *)

\* The shared and the local variables have the types of their declarations.
TypeOK ==
    /\ IsPlan(plan)
    /\ store \in [0..(plan.times - 1) -> [number: Int, value: Seq(Chars) \cup {Nil}]]
    /\ run \in [Routers -> [pc: {"idle", "match", "store", "check", "failed", "panicked"},
                            result: Nat \ {0}, match: Nat \ {0}, field: Nat \ {0},
                            perField: Nat, perOccurrence: Nat]]
    /\ printed \in [Routers -> Seq(plan.outputs)]
    /\ verdicts \in [Routers -> Seq({"quiet", "fire", "error", "panic"})]

\* What a test answers about a router is what it means for that router's own
\* output, in this iteration and the one before, for the tests that Judged describes
\* (pipeline.go:182-284, 320-372; README.md:106 "triggered when the value of field 2
\* is changed between repro iterations").
VerdictIsMeaning ==
    Judged(plan) => \A r \in Routers : \A i \in DOMAIN verdicts[r] :
        verdicts[r][i] = Meaning(test, printed[r][i],
                                 IF i = 1 THEN <<>> ELSE printed[r][i - 1], i - 1)

\* What runTest stores is the field of the line its match begins in, wherever in the
\* line that is, however its separators are repeated and wherever in the text the line
\* stands, unless the line is empty or the number negative (pipeline.go:374-410).
\* b[:en-1] (pipeline.go:393) makes it the line before an empty one.
FieldOfMatchedLine ==
    \A r \in Routers :
        (run[r].pc = "store" /\ FieldOf(r).number >= 0 /\ ~InEmptyLine(Result(r).text, Hit(r)))
            => Value(r) = FieldOfMatch(Result(r).text, Hit(r), FieldOf(r).number)
=============================================================================
