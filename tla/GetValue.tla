------------------------------- MODULE GetValue -------------------------------
(***************************************************************************)
(* getValue of cmd/pipeline.go: from a result, a sequence of characters,   *)
(* and the place where a pattern matched, to the value of a field of the   *)
(* matching line.  Offsets count from 0, as in the code: b[i] there is     *)
(* b[i + 1] here.                                                          *)
(*                                                                         *)
(* Characters are told apart by what getValue does with them: the end of a *)
(* line, a character of the test's separator, a blank that is not one of   *)
(* them but is trimmed, and all others, which make up the values.          *)
(***************************************************************************)
EXTENDS Integers, Sequences, SequencesExt

NL  == "nl"
Sep == "sep"
Pad == "pad"

CONSTANT Chars   \* the characters

\* What getValue answers when it has no value: an error, or the panic for an index
\* below 0, of b[:-1] or of a negative field.
Missing == <<"missing">>
Panic   == <<"panic">>

\* No text reads like these, nor like the nil of a value that is not there.
ASSUME CharsAssumption ==
    /\ {NL, Sep, Pad} \subseteq Chars
    /\ {"missing", "panic", "nil"} \cap Chars = {}

\* endLine: the first (?m)$ at or after offset i.
EndOfLine(b, i) == Min({p \in i..Len(b) : p = Len(b) \/ b[p + 1] = NL})

\* startLine: the last (?m)^ in b[:n], at its very end included.
StartOfLine(b, n) == Max({p \in 0..n : p = 0 \/ b[p] = NL})

\* Split with "[separator]+": what stands before, between and after the runs.
SplitEach(s) ==                                                   \* mutant
    LET parts[i \in 0..Len(s)] ==
            IF i = 0 THEN << <<>> >>
            ELSE IF s[i] # Sep
                 THEN [parts[i - 1] EXCEPT ![Len(parts[i - 1])] = Append(@, s[i])]
            ELSE Append(parts[i - 1], <<>>)
    IN  parts[Len(s)]
Split(s) ==
    LET parts[i \in 0..Len(s)] ==
            IF i = 0 THEN << <<>> >>
            ELSE IF s[i] # Sep
                 THEN [parts[i - 1] EXCEPT ![Len(parts[i - 1])] = Append(@, s[i])]
            ELSE IF i > 1 /\ s[i - 1] = Sep THEN parts[i - 1]
            ELSE Append(parts[i - 1], <<>>)
    IN  parts[Len(s)]

Trim(s) ==
    LET solid == {i \in DOMAIN s : s[i] \notin {NL, Sep, Pad}}
    IN  IF solid = {} THEN <<>> ELSE SubSeq(s, Min(solid), Max(solid))

\* The value of field n where the match begins at offset i of b.
GetValue(b, i, n) ==
    LET en == EndOfLine(b, i)
        parts == Split(SubSeq(b, StartOfLine(b, en - 1) + 1, en))
    IN  IF en = 0 THEN Panic
        ELSE IF Len(parts) <= n THEN Missing
        ELSE IF n < 0 THEN Panic
        ELSE Trim(parts[n + 1])

-----------------------------------------------------------------------------
(* What a field of a line is, by counting.                                 *)

\* The line an offset lies in is the number of line ends before it.
LineOf(b, i) == Cardinality({p \in 1..i : b[p] = NL})

\* The positions of the characters of a line, its end not included.
Line(b, k) == {p \in DOMAIN b : b[p] # NL /\ LineOf(b, p) = k}

\* The separators of a line that open a run of them, up to a position.
Runs(b, k, p) ==
    {q \in Line(b, k) : q <= p /\ b[q] = Sep /\ (q - 1 \in Line(b, k) => b[q - 1] # Sep)}

\* Field n lies behind n runs of separators: an indented line has its first word
\* in field 1, a line that is not in field 0.
FieldOfLine(b, k, n) ==
    LET solid == {p \in Line(b, k) : b[p] \notin {Sep, Pad} /\ Cardinality(Runs(b, k, p)) = n}
    IN  IF Cardinality(Runs(b, k, Len(b))) < n THEN Missing
        ELSE IF solid = {} THEN <<>>
        ELSE SubSeq(b, Min(solid), Max(solid))

\* The field of the line a match begins in.
FieldOfMatch(b, i, n) == FieldOfLine(b, LineOf(b, i), n)

\* Does a match begin in a line that has nothing in it?
InEmptyLine(b, i) == Line(b, LineOf(b, i)) = {}
=============================================================================
