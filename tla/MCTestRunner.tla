----------------------------- MODULE MCTestRunner -----------------------------
(* Small tests and outputs: lines of one or two words, the words "a" and   *)
(* "ba", some of them indented or padded.                                  *)
EXTENDS TestRunner

CONSTANTS r1, r2

OneRouter  == {r1}
TwoRouters == {r1, r2}

A == <<"a">>
B == <<"b", "a">>

F(n, o) == [number |-> n, operation |-> o, value |-> A]
Compare == {"compare_with_previous_neq", "compare_with_previous_eq"}

\* Tests that look at the previous iteration: one field of one named line.
HistoryTests ==
    {[pattern |-> TRUE, occurrence |-> k, occurrences |-> {}, checkAll |-> FALSE,
      fields |-> <<F(n, o)>>] : k \in {1, 2}, n \in {0, 1}, o \in Compare}

\* Tests on the present values only: any fields, one line or all of them.
ValueTests ==
    {[pattern |-> TRUE, occurrence |-> k, occurrences |-> w, checkAll |-> c,
      fields |-> fs] :
        k \in {0, 1}, w \in {{}, {2}}, c \in BOOLEAN,
        fs \in {<<>>} \cup {<<F(1, o)>> : o \in (Operations \ Compare) \cup {"unknown"}}
                 \cup {<<F(0, "compare_with_value_eq"), F(1, "not_contain_substring")>>}}

NoPattern == [pattern |-> FALSE, occurrence |-> 0, occurrences |-> {},
              checkAll |-> FALSE, fields |-> <<>>]

\* A result begins with the end of the echoed line; a pattern matches where its
\* lines begin, or (on = 1) behind their first character.
Text(lines) == FlattenSeq([i \in DOMAIN lines |-> <<NL>> \o lines[i]])
Matched(lines, on) ==
    [text |-> Text(lines),
     hits |-> [i \in DOMAIN lines |-> Len(Text(SubSeq(lines, 1, i - 1))) + 1 + on]]

Plain    == {v \o <<Sep>> \o w : v, w \in {A, B}} \cup {A}
Odd      == {<<Sep>> \o A \o <<Sep, Sep>> \o B, <<Pad>> \o B \o <<Pad, Sep>>}
Lines(L) == {<<>>} \cup {<<l>> : l \in L} \cup {<<l, m>> : l, m \in L}

\* One result of up to two lines; up to two results of up to one line.
Changing  == {A \o <<Sep>> \o B, B \o <<Sep>> \o A, A}
OneResult == {<<Matched(ls, 0)>> : ls \in Lines(Changing)}
Short     == {Matched(ls, 0) : ls \in {x \in Lines(Plain) : Len(x) <= 1}}
SomeResults ==
    {<<>>} \cup {<<Matched(ls, b)>> : ls \in Lines(Plain \cup Odd), b \in {0, 1}}
           \cup {<<s, t>> : s, t \in Short}
ShortOutputs == {<<s>> : s \in Short}
Uneven       == {<<Matched(ls, 0), Matched(ms, 0)>> : ls, ms \in Lines({A, B})}

\* A test on the second of the lines that match.
SecondTest == [pattern |-> TRUE, occurrence |-> 2, occurrences |-> {}, checkAll |-> FALSE,
               fields |-> <<F(0, "compare_with_value_eq")>>]

\* Short texts of all kinds of characters, matched at any place of them, and fields of
\* any number.
Texts == UNION {[1..n -> {NL, Sep, Pad, "a"}] : n \in 0..4}
AnyText ==
    {out \in {<<[text |-> b, hits |-> <<i>>]>> : b \in Texts, i \in 0..4} :
        out[1].hits[1] <= Len(out[1].text)}
FieldTests == {[pattern |-> TRUE, occurrence |-> k, occurrences |-> {}, checkAll |-> FALSE,
                fields |-> <<F(n, "compare_with_value_eq")>>] : k \in -1..0, n \in -1..2}

\* With one iteration, a plan of its own for each output.
Once(tests, outs) == {[test |-> t, outputs |-> {o}, times |-> 1] : t \in tests, o \in outs}

\* Values over three iterations; present values in every arrangement, but for
\* check_all_results with a named occurrence (README, known deviations); and all texts.
MCPlans ==
    {[test |-> t, outputs |-> OneResult, times |-> 3] : t \in HistoryTests}
    \cup Once({v \in ValueTests : ~(v.checkAll /\ v.occurrence # 0)} \cup {NoPattern},
              SomeResults)
    \cup Once({SecondTest}, Uneven)
    \cup Once(FieldTests, AnyText)

\* The test of README.md:85-90 with the occurrence of testdata/commands_v2.md:74: has
\* the value of a field changed?
ChangeTest == [pattern |-> TRUE, occurrence |-> 1, occurrences |-> {}, checkAll |-> FALSE,
               fields |-> <<F(0, "compare_with_previous_neq")>>]
ChangePlan == {[test |-> ChangeTest, outputs |-> ShortOutputs, times |-> 2]}
=============================================================================
